-------------------------- MODULE MCSingleInstance --------------------------
EXTENDS SingleInstance
=============================================================================
