--------------------------- MODULE MCSessionFile ---------------------------
EXTENDS SessionFile, TLC

CONSTANTS r1, r2, r3, f1, f2, f3

MCReals == {r1, r2, r3}
MCFakes == {f1, f2, f3}
MCFakeOf == (r1 :> f1) @@ (r2 :> f2) @@ (r3 :> f3)
MCTexts == {<<r1>>, <<r1, r2>>, <<r2, r3>>}
=============================================================================
