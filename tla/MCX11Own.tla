------------------------------- MODULE MCX11Own -------------------------------
(* One writer among other clients; two writers and a slow server; a        *)
(* clipboard that is dropped while callbacks run; a connection that breaks *)
(* under one writer and under two.                                         *)
EXTENDS X11Own

CONSTANTS t1, t2, s1, s2

Serial == [threads |-> {t1}, subs |-> {s1}, clears |-> TRUE, slow |-> FALSE,
           drops |-> FALSE, breaks |-> FALSE, writes |-> 2, foreign |-> 2]
Shared == [threads |-> {t1, t2}, subs |-> {}, clears |-> TRUE, slow |-> TRUE,
           drops |-> FALSE, breaks |-> FALSE, writes |-> 2, foreign |-> 2]
Dropped == [threads |-> {t1}, subs |-> {s1, s2}, clears |-> FALSE, slow |-> FALSE,
            drops |-> TRUE, breaks |-> TRUE, writes |-> 1, foreign |-> 1]
Breaking == [threads |-> {t1}, subs |-> {}, clears |-> TRUE, slow |-> FALSE,
             drops |-> FALSE, breaks |-> TRUE, writes |-> 2, foreign |-> 2]
Queueing == [threads |-> {t1, t2}, subs |-> {}, clears |-> FALSE, slow |-> FALSE,
             drops |-> FALSE, breaks |-> TRUE, writes |-> 2, foreign |-> 1]

MCThreads == {t1, t2}
MCSubs == {s1, s2}
MCEnvironments == {Serial, Shared, Dropped, Breaking, Queueing}
=============================================================================
