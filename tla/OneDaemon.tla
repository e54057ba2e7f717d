----------------------------- MODULE OneDaemon -----------------------------
(***************************************************************************)
(* What the single-instance lock and the socket handling promise to those  *)
(* who dial the control socket: at most one daemon at a time has a         *)
(* listener, the socket path leads to it until it unlinks the path itself, *)
(* and a daemon that dies leaves at most a path nobody listens at, which   *)
(* the next one sweeps away.  SingleInstance implements this, system call  *)
(* by system call; ControlChannel builds on it.                            *)
(***************************************************************************)
CONSTANTS
    Procs,      \* daemon processes
    NoPath,     \* nothing at the socket path
    Dead        \* a socket file nobody listens at

ASSUME PathAssumption == NoPath # Dead /\ {NoPath, Dead} \cap Procs = {}

VARIABLES
    phase,  \* how far each daemon is
    path    \* the daemon the socket path leads to, NoPath or Dead

daemonVars == <<phase, path>>

\* up: listening, not yet accepting.  closed: no listener any more, but the
\* process, and with it the threads of its connections, still exists.
Phases == {"off", "up", "serving", "stopping", "closed"}

DaemonTypeOK ==
    /\ phase \in [Procs -> Phases]
    /\ path \in Procs \cup {NoPath, Dead}

DaemonInit ==
    /\ phase = [p \in Procs |-> "off"]
    /\ path = NoPath

Become(p, ph) == phase' = [phase EXCEPT ![p] = ph]

\* bind(2): the path exists, and nobody listens at it yet.
Claim ==
    /\ path = NoPath
    /\ \A p \in Procs : phase[p] = "off"
    /\ path' = Dead
    /\ UNCHANGED phase

Open(p) ==
    /\ path = Dead
    /\ \A q \in Procs : phase[q] = "off"
    /\ path' = p
    /\ Become(p, "up")

Serve(p) == phase[p] = "up" /\ Become(p, "serving") /\ UNCHANGED path

Stop(p) == phase[p] = "serving" /\ Become(p, "stopping") /\ UNCHANGED path

Unlink(p) == phase[p] = "stopping" /\ path = p /\ path' = NoPath /\ UNCHANGED phase

Close(p) ==
    phase[p] = "stopping" /\ path = NoPath /\ Become(p, "closed") /\ UNCHANGED path

Exit(p) == phase[p] = "closed" /\ Become(p, "off") /\ UNCHANGED path

\* A killed daemon leaves its socket file behind.
Die(p) ==
    /\ phase[p] # "off"
    /\ Become(p, "off")
    /\ path' = IF path = p THEN Dead ELSE path

\* Faulty variant: whatever is at the path is removed.
SweepAnything ==
    /\ path # NoPath
    /\ path' = NoPath
    /\ UNCHANGED phase

\* cleanup_stale_socket removes what nobody listens at.
Sweep ==
    /\ path = Dead
    /\ \A p \in Procs : phase[p] = "off"
    /\ path' = NoPath
    /\ UNCHANGED phase

DaemonNext ==
    \/ Claim \/ Sweep
    \/ \E p \in Procs : Open(p) \/ Serve(p) \/ Stop(p) \/ Unlink(p) \/ Close(p)
                        \/ Exit(p) \/ Die(p)

DaemonSpec == DaemonInit /\ [][DaemonNext]_daemonVars

-----------------------------------------------------------------------------
(* Properties.                                                             *)

OneAtATime == \A p, q \in Procs : phase[p] # "off" /\ phase[q] # "off" => p = q

\* What every client relies on, through starts, stops, crashes and sweeps:
\* one daemon at most is up, and as long as it accepts connections the path
\* leads to it and to nobody else.
OneReachable ==
    /\ DaemonTypeOK
    /\ OneAtATime
    /\ \A p \in Procs : phase[p] \in {"up", "serving"} => path = p
    /\ path \in Procs => phase[path] \in {"up", "serving", "stopping"}

=============================================================================
