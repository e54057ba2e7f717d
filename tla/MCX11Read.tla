------------------------------ MODULE MCX11Read ------------------------------
(* A prompt owner and one reader; a slow owner and one reader; a slow owner, *)
(* failing requests and two readers.                                         *)
EXTENDS X11Read

CONSTANTS r1, r2

Prompt == [readers |-> {r1}, lengths |-> {1, 2, 3}, slow |-> FALSE,
           errors |-> TRUE, reads |-> 3]
Slow == [readers |-> {r1}, lengths |-> {2}, slow |-> TRUE,
         errors |-> FALSE, reads |-> 3]
Shared == [readers |-> {r1, r2}, lengths |-> {1}, slow |-> TRUE,
           errors |-> TRUE, reads |-> 2]

MCReaders == {r1, r2}
MCEnvironments == {Prompt, Slow, Shared}
=============================================================================
