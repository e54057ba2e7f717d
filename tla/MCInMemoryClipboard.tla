------------------------ MODULE MCInMemoryClipboard ------------------------
EXTENDS InMemoryClipboard
=============================================================================
