---------------------------- MODULE DaemonProofs ----------------------------
(***************************************************************************)
(* Proofs about the daemons and their clients, in three parts:             *)
(*                                                                         *)
(*   - OneDaemon, what the socket path promises, for any set of daemons,   *)
(*     any number of starts and any crashes;                               *)
(*   - SingleInstance, when no daemon starts while another one stops: the  *)
(*     flock alone keeps the socket path with the daemon that serves, and  *)
(*     the system calls of lifecycle.rs and transport.rs implement         *)
(*     OneDaemon.  (With such an overlap the run on the race shows that    *)
(*     two daemons can serve; nothing is claimed of it here);              *)
(*   - ControlChannel, on top of what is proved of OneDaemon: nobody of    *)
(*     another uid is served, and what `invisibool status` prints is true  *)
(*     of the time of the call.                                            *)
(***************************************************************************)
EXTENDS SingleInstance, ControlChannel, SequenceTheorems, TLAPS

-----------------------------------------------------------------------------
(* OneDaemon: one daemon at a time, and the path leads to it.              *)

\* With every daemon off, or with one that takes a step alone, at most one is
\* up afterwards.
LEMMA OnlyOne ==
    ASSUME NEW p \in Procs, NEW ph \in Phases, OneReachable,
           phase[p] # "off" \/ \A q \in Procs : phase[q] = "off",
           Become(p, ph)
    PROVE  /\ phase' \in [Procs -> Phases]
           /\ phase'[p] = ph
           /\ \A q \in Procs \ {p} : phase[q] = "off" /\ phase'[q] = "off"
           /\ OneAtATime'
<1>1. /\ phase' \in [Procs -> Phases]
      /\ phase'[p] = ph
      /\ \A q \in Procs \ {p} : phase'[q] = phase[q]
  BY DEF OneReachable, DaemonTypeOK, Become
<1>2. \A q \in Procs \ {p} : phase[q] = "off"
  BY DEF OneReachable, OneAtATime
<1>3. OneAtATime'
  BY <1>1, <1>2 DEF OneAtATime
<1>4. QED
  BY <1>1, <1>2, <1>3

\* OneReachable is inductive: a daemon that is up keeps every other one from
\* claiming, opening or sweeping the path.
LEMMA StepKeepsOneReachable ==
    ASSUME OneReachable, [DaemonNext]_daemonVars PROVE OneReachable'
<1>0. DaemonTypeOK
  BY DEF OneReachable
<1>1. CASE Claim
  BY <1>0, <1>1, PathAssumption
     DEF Claim, OneReachable, DaemonTypeOK, OneAtATime
<1>2. CASE Sweep
  BY <1>0, <1>2, PathAssumption
     DEF Sweep, OneReachable, DaemonTypeOK, OneAtATime
<1>3. ASSUME NEW p \in Procs, Open(p) PROVE OneReachable'
  <2>1. /\ phase' \in [Procs -> Phases] /\ OneAtATime' /\ phase'[p] = "up"
        /\ \A q \in Procs \ {p} : phase'[q] = "off"
    BY <1>0, <1>3, OnlyOne DEF Open, Phases
  <2>2. QED
    BY <1>3, <2>1 DEF Open, OneReachable, DaemonTypeOK
<1>4. ASSUME NEW p \in Procs, Serve(p) PROVE OneReachable'
  <2>1. /\ phase' \in [Procs -> Phases] /\ OneAtATime' /\ phase'[p] = "serving"
        /\ \A q \in Procs \ {p} : phase'[q] = "off"
    BY <1>0, <1>4, OnlyOne DEF Serve, Phases
  <2>2. QED
    BY <1>0, <1>4, <2>1, PathAssumption DEF Serve, OneReachable, DaemonTypeOK
<1>5. ASSUME NEW p \in Procs, Stop(p) PROVE OneReachable'
  <2>1. /\ phase' \in [Procs -> Phases] /\ OneAtATime' /\ phase'[p] = "stopping"
        /\ \A q \in Procs \ {p} : phase'[q] = "off"
    BY <1>0, <1>5, OnlyOne DEF Stop, Phases
  <2>2. QED
    BY <1>0, <1>5, <2>1, PathAssumption DEF Stop, OneReachable, DaemonTypeOK
<1>6. ASSUME NEW p \in Procs, Unlink(p) PROVE OneReachable'
  <2>1. \A q \in Procs : phase[q] \notin {"up", "serving"}
    BY <1>0, <1>6 DEF Unlink, OneReachable, OneAtATime
  <2>2. QED
    BY <1>0, <1>6, <2>1, PathAssumption
       DEF Unlink, OneReachable, DaemonTypeOK, OneAtATime
<1>7. ASSUME NEW p \in Procs, Close(p) PROVE OneReachable'
  <2>1. /\ phase' \in [Procs -> Phases] /\ OneAtATime' /\ phase'[p] = "closed"
        /\ \A q \in Procs \ {p} : phase'[q] = "off"
    BY <1>0, <1>7, OnlyOne DEF Close, Phases
  <2>2. QED
    BY <1>0, <1>7, <2>1, PathAssumption DEF Close, OneReachable, DaemonTypeOK
<1>8. ASSUME NEW p \in Procs, Exit(p) PROVE OneReachable'
  <2>1. /\ phase' \in [Procs -> Phases] /\ OneAtATime' /\ phase'[p] = "off"
        /\ \A q \in Procs \ {p} : phase'[q] = "off"
    BY <1>0, <1>8, OnlyOne DEF Exit, Phases
  <2>2. path' \in {NoPath, Dead}
    BY <1>0, <1>8 DEF Exit, OneReachable, OneAtATime, DaemonTypeOK
  <2>3. QED
    BY <2>1, <2>2, PathAssumption DEF OneReachable, DaemonTypeOK
<1>9. ASSUME NEW p \in Procs, Die(p) PROVE OneReachable'
  <2>1. /\ phase' \in [Procs -> Phases] /\ OneAtATime' /\ phase'[p] = "off"
        /\ \A q \in Procs \ {p} : phase[q] = "off" /\ phase'[q] = "off"
    BY <1>0, <1>9, OnlyOne DEF Die, Phases
  <2>2. path' \in {NoPath, Dead}
    BY <1>0, <1>9, <2>1 DEF Die, OneReachable, DaemonTypeOK
  <2>3. QED
    BY <2>1, <2>2, PathAssumption DEF OneReachable, DaemonTypeOK
<1>10. CASE UNCHANGED daemonVars
  BY <1>10 DEF daemonVars, OneReachable, DaemonTypeOK, OneAtATime
<1>11. QED
  BY <1>1, <1>2, <1>3, <1>4, <1>5, <1>6, <1>7, <1>8, <1>9, <1>10 DEF DaemonNext

\* At most one daemon is up, and while it accepts connections the socket
\* path leads to it, for any number of daemons, starts, stops and crashes.
THEOREM OneDaemonReachable == DaemonSpec => []OneReachable
<1>1. DaemonInit => OneReachable
  BY PathAssumption DEF DaemonInit, OneReachable, DaemonTypeOK, OneAtATime, Phases
<1>2. OneReachable /\ [DaemonNext]_daemonVars => OneReachable'
  BY StepKeepsOneReachable
<1>3. QED
  BY <1>1, <1>2, PTL DEF DaemonSpec

-----------------------------------------------------------------------------
(* SingleInstance: the inductive invariant.                                *)

\* Between the flock and its release.
Holding == {"exists", "probe", "unlinkStale", "bind", "listen", "chmod", "serve",
            "unlinkSocket", "close", "unlock"}

\* Between opening the lock file and the end.
HasLockFile == Holding \cup {"flock", "unlinkLock"}

\* Between bind(2) and closing the socket; from listen(2) on.
HasSocket == {"listen", "chmod", "serve", "unlinkSocket", "close"}

Listens == HasSocket \ {"listen"}

\* Every lock file that is open is the one the path names, so that a flock
\* on it excludes the others.
LocksKept ==
    \A p \in Daemons :
       /\ fd[p] = IF pc[p] \in HasLockFile THEN lockPath ELSE None
       /\ pc[p] \in HasLockFile => lockPath # None
       /\ locked[p] = IF pc[p] \in Holding THEN {lockPath} ELSE {}

\* One process holds the lock, and one that stops is the only one there is.
Alone ==
    /\ \A p, q \in Daemons : pc[p] \in Holding /\ pc[q] \in Holding => p = q
    /\ \A p, q \in Daemons : pc[p] \in Stopping /\ p # q => pc[q] = "off"

\* The path names the socket of the holder from its bind until it unlinks
\* it, and nobody else listens.
SocketsKept ==
    /\ \A p \in Daemons :
          /\ sock[p] # None <=> pc[p] \in HasSocket
          /\ pc[p] \in HasSocket \ {"close"} => sockPath = sock[p]
          /\ pc[p] \in {"bind", "close", "unlock", "unlinkLock"} => sockPath = None
          /\ pc[p] \in Listens => sock[p] \in listening
    /\ \A n \in listening : \E p \in Daemons : pc[p] \in Listens /\ sock[p] = n

IndInv == TypeOK /\ LocksKept /\ Alone /\ SocketsKept

-----------------------------------------------------------------------------
(* Steps that end a process, and steps that take it on.                    *)

\* The sets of steps, for the provers.
LEMMA StepSets ==
    /\ HasSocket \subseteq Holding /\ Listens \subseteq HasSocket
    /\ Holding \subseteq HasLockFile /\ HasLockFile \subseteq Steps
    /\ Stopping \subseteq HasLockFile
    /\ "off" \in Steps /\ "off" \notin HasLockFile
BY DEF HasSocket, Holding, Listens, HasLockFile, Steps, Stopping

\* A process that is gone takes nothing away from the others; ctl.lock is
\* removed with nobody else there.
LEMMA GoneKeeps ==
    ASSUME IndInv, NEW p \in Daemons, NEW how \in Results, Gone(p, how),
           \/ UNCHANGED lockPath
           \/ lockPath' = None /\ pc[p] \in Stopping,
           UNCHANGED <<dir, sockPath, fresh, started>>,
           kills' \in 0..MaxKills
    PROVE  IndInv'
<1>1. /\ pc' = [pc EXCEPT ![p] = "off"] /\ fd' = [fd EXCEPT ![p] = None]
      /\ locked' = [locked EXCEPT ![p] = {}] /\ sock' = [sock EXCEPT ![p] = None]
      /\ listening' = listening \ {sock[p]}
      /\ result' = [result EXCEPT ![p] = how]
  BY DEF Gone
<1>2. TypeOK'
  <2>1. pc' \in [Daemons -> Steps] /\ result' \in [Daemons -> Results]
    BY <1>1, StepSets DEF IndInv, TypeOK
  <2>2. fd' \in [Daemons -> Nat] /\ sock' \in [Daemons -> Nat]
    BY <1>1 DEF IndInv, TypeOK, None
  <2>3. locked' \in [Daemons -> SUBSET Nat] /\ listening' \subseteq Nat
    BY <1>1 DEF IndInv, TypeOK
  <2>4. lockPath' \in Nat
    BY DEF IndInv, TypeOK, None
  <2>5. QED
    BY <2>1, <2>2, <2>3, <2>4 DEF IndInv, TypeOK
<1>3. /\ pc'[p] = "off" /\ fd'[p] = None /\ locked'[p] = {} /\ sock'[p] = None
      /\ \A q \in Daemons \ {p} : /\ pc'[q] = pc[q] /\ fd'[q] = fd[q]
                                /\ locked'[q] = locked[q] /\ sock'[q] = sock[q]
  BY <1>1 DEF IndInv, TypeOK
<1>4. LocksKept'
  <2>1. ASSUME NEW q \in Daemons \ {p}
        PROVE  lockPath' = lockPath \/ pc[q] = "off"
    BY DEF IndInv, Alone
  <2>2. QED
    BY <1>3, <2>1, StepSets DEF IndInv, LocksKept
<1>5. Alone'
  BY <1>3, StepSets DEF IndInv, Alone
<1>6. SocketsKept'
  <2>1. \A q \in Daemons : pc'[q] # "off" => q # p /\ pc'[q] = pc[q] /\ sock'[q] = sock[q]
    BY <1>3
  <2>2. \A q \in Daemons : sock'[q] # None <=> pc'[q] \in HasSocket
    BY <1>3, StepSets DEF IndInv, SocketsKept
  <2>3. \A q \in Daemons :
           /\ pc'[q] \in HasSocket \ {"close"} => sockPath' = sock'[q]
           /\ pc'[q] \in {"bind", "close", "unlock", "unlinkLock"} => sockPath' = None
    BY <1>3, StepSets DEF IndInv, SocketsKept
  <2>4. \A q \in Daemons : pc'[q] \in Listens => sock'[q] \in listening'
    <3>1. SUFFICES ASSUME NEW q \in Daemons, pc'[q] \in Listens PROVE sock'[q] \in listening'
      OBVIOUS
    <3>2. q # p /\ pc[q] \in Listens /\ sock'[q] = sock[q]
      BY <1>3, <3>1, StepSets
    <3>3. sock[q] \in listening /\ pc[q] \in HasSocket /\ sock[q] # None
      BY <3>2, StepSets DEF IndInv, SocketsKept
    <3>4. sock[p] # sock[q]
      BY <3>2, <3>3, StepSets DEF IndInv, SocketsKept, Alone
    <3>5. QED
      BY <1>1, <3>2, <3>3, <3>4
  <2>5. \A n \in listening' : \E q \in Daemons : pc'[q] \in Listens /\ sock'[q] = n
    <3>1. SUFFICES ASSUME NEW n \in listening'
                   PROVE  \E q \in Daemons : pc'[q] \in Listens /\ sock'[q] = n
      OBVIOUS
    <3>2. PICK q \in Daemons : pc[q] \in Listens /\ sock[q] = n
      BY <1>1, <3>1 DEF IndInv, SocketsKept
    <3>3. q # p
      BY <1>1, <3>1, <3>2
    <3>4. QED
      BY <1>3, <3>2, <3>3
  <2>6. QED
    BY <2>2, <2>3, <2>4, <2>5 DEF SocketsKept
<1>7. QED
  BY <1>2, <1>4, <1>5, <1>6 DEF IndInv

-----------------------------------------------------------------------------
(* One step of each kind.                                                  *)

\* Before the lock file is opened a process has nothing the others rely on.
LEMMA EarlyKeeps ==
    ASSUME IndInv, NEW p \in Daemons, NEW step \in {"prepare", "chmodDir", "open"},
           pc[p] \in {"off", "prepare", "chmodDir"},
           pc' = [pc EXCEPT ![p] = step],
           pc[p] = "off" => \A q \in Daemons : pc[q] \notin Stopping,
           UNCHANGED <<lockPath, sockPath, fd, locked, sock, listening, fresh, kills>>,
           dir' \in {"missing", "umask", "0700"},
           started' \in 0..MaxStarted, result' \in [Daemons -> Results]
    PROVE  IndInv'
<1>1. pc'[p] = step /\ \A q \in Daemons \ {p} : pc'[q] = pc[q]
  BY DEF IndInv, TypeOK
<1>2. TypeOK'
  BY DEF IndInv, TypeOK, Steps
<1>3. Alone'
  BY <1>1 DEF IndInv, Alone, Holding, Stopping
<1>4. LocksKept'
  BY <1>1 DEF IndInv, LocksKept, HasLockFile, Holding
<1>5. SocketsKept'
  BY <1>1 DEF IndInv, SocketsKept, HasSocket, Listens
<1>6. QED
  BY <1>2, <1>3, <1>4, <1>5 DEF IndInv

\* The only place that needs the absence of an overlap: whoever starts finds
\* nobody stopping.
LEMMA StartKeeps ==
    ASSUME ~Overlap, IndInv, NEW p \in Daemons, Start(p)
    PROVE  IndInv'
<1>1. started' \in 0..MaxStarted
  BY InstanceBounds DEF Start, IndInv, TypeOK
<1>2. result' \in [Daemons -> Results]
  BY DEF Start, IndInv, TypeOK, Results
<1>3. /\ pc[p] = "off" /\ pc' = [pc EXCEPT ![p] = "prepare"]
      /\ \A q \in Daemons : pc[q] \notin Stopping
      /\ UNCHANGED <<dir, lockPath, sockPath, fd, locked, sock, listening, fresh, kills>>
  BY DEF Start
<1>4. dir' \in {"missing", "umask", "0700"}
  BY <1>3 DEF IndInv, TypeOK
<1>5. QED
  BY <1>1, <1>2, <1>3, <1>4, EarlyKeeps

\* Preparing the directory keeps the invariant.
LEMMA PrepareKeeps ==
    ASSUME IndInv, NEW p \in Daemons, PrepareDir(p) \/ ChmodDir(p)
    PROVE  IndInv'
<1>1. CASE PrepareDir(p) /\ dir = "umask"
  <2>1. Gone(p, "dirMode") /\ UNCHANGED <<dir, lockPath, sockPath, fresh, started, kills>>
    BY <1>1 DEF PrepareDir
  <2>2. QED
    BY <2>1, GoneKeeps DEF Results, IndInv, TypeOK
<1>2. CASE ChmodDir(p) \/ (PrepareDir(p) /\ dir # "umask")
  <2>1. \E step \in {"prepare", "chmodDir", "open"} : Goto(p, step)
    BY <1>2 DEF PrepareDir, ChmodDir, IndInv, TypeOK
  <2>2. PICK step \in {"prepare", "chmodDir", "open"} :
            pc' = [pc EXCEPT ![p] = step] /\ UNCHANGED result
    BY <2>1 DEF Goto
  <2>3. /\ UNCHANGED <<lockPath, sockPath, fd, locked, sock, listening, fresh, kills, started>>
        /\ dir' \in {"missing", "umask", "0700"}
        /\ pc[p] \in {"prepare", "chmodDir"}
    BY <1>2 DEF PrepareDir, ChmodDir, IndInv, TypeOK
  <2>4. started' \in 0..MaxStarted /\ result' \in [Daemons -> Results]
    BY <2>2, <2>3 DEF IndInv, TypeOK
  <2>5. QED
    BY <2>2, <2>3, <2>4, EarlyKeeps
<1>3. QED
  BY <1>1, <1>2

\* A lock file that is opened is the one the path names; one that is created
\* is created with nobody holding another.
LEMMA OpenLockKeeps ==
    ASSUME IndInv, NEW p \in Daemons, OpenLock(p)
    PROVE  IndInv'
<1>1. /\ pc[p] = "open" /\ pc' = [pc EXCEPT ![p] = "flock"]
      /\ fd' = [fd EXCEPT ![p] = lockPath']
      /\ lockPath # None => lockPath' = lockPath /\ fresh' = fresh
      /\ lockPath = None => lockPath' = fresh + 1 /\ fresh' = fresh + 1
      /\ UNCHANGED <<dir, sockPath, locked, sock, listening, started, kills, result>>
  BY DEF OpenLock, Goto
<1>2. lockPath' \in Nat /\ lockPath' # None /\ fresh' \in Nat
  BY <1>1 DEF IndInv, TypeOK, None
<1>3. /\ pc'[p] = "flock" /\ fd'[p] = lockPath'
      /\ \A q \in Daemons \ {p} : pc'[q] = pc[q] /\ fd'[q] = fd[q]
  BY <1>1 DEF IndInv, TypeOK
<1>4. TypeOK'
  BY <1>1, <1>2 DEF IndInv, TypeOK, Steps
<1>5. Alone'
  BY <1>1, <1>3 DEF IndInv, Alone, Holding, Stopping
<1>6. LocksKept'
  BY <1>1, <1>2, <1>3 DEF IndInv, LocksKept, HasLockFile, Holding
<1>7. SocketsKept'
  BY <1>1, <1>3 DEF IndInv, SocketsKept, HasSocket, Listens
<1>8. QED
  BY <1>4, <1>5, <1>6, <1>7 DEF IndInv

\* flock excludes whoever holds the lock: all have the same file open.
LEMMA FlockKeeps ==
    ASSUME IndInv, NEW p \in Daemons, Flock(p)
    PROVE  IndInv'
<1>1. CASE Gone(p, "lockHeld")
  BY <1>1, GoneKeeps DEF Flock, Results, IndInv, TypeOK
<1>2. CASE ~Gone(p, "lockHeld")
  <2>1. /\ pc[p] = "flock" /\ pc' = [pc EXCEPT ![p] = "exists"]
        /\ locked' = [locked EXCEPT ![p] = {fd[p]}]
        /\ \A q \in Daemons : fd[p] \notin locked[q]
        /\ UNCHANGED <<dir, lockPath, sockPath, fd, sock, listening, fresh, started, kills, result>>
    BY <1>2 DEF Flock, Goto
  <2>2. /\ pc'[p] = "exists" /\ locked'[p] = {fd[p]}
        /\ \A q \in Daemons \ {p} : pc'[q] = pc[q] /\ locked'[q] = locked[q]
    BY <2>1 DEF IndInv, TypeOK
  <2>3. fd[p] = lockPath /\ \A q \in Daemons : pc[q] \notin Holding
    BY <2>1 DEF IndInv, LocksKept, HasLockFile
  <2>4. TypeOK'
    BY <2>1 DEF IndInv, TypeOK, Steps
  <2>5. Alone'
    BY <2>1, <2>2, <2>3 DEF IndInv, Alone, Holding, Stopping
  <2>6. LocksKept'
    BY <2>1, <2>2, <2>3 DEF IndInv, LocksKept, HasLockFile, Holding
  <2>7. SocketsKept'
    BY <2>1, <2>2 DEF IndInv, SocketsKept, HasSocket, Listens
  <2>8. QED
    BY <2>4, <2>5, <2>6, <2>7 DEF IndInv
<1>3. QED
  BY <1>1, <1>2

\* Steps of the holder that leave the lock and the listeners alone: what
\* has to hold of the socket path where it goes next.
LEMMA HolderMoves ==
    ASSUME IndInv, NEW p \in Daemons, NEW step \in Holding,
           pc[p] \in Holding, Goto(p, step),
           step \in Stopping => \A q \in Daemons \ {p} : pc[q] \in {"off", "serve"},
           UNCHANGED <<dir, lockPath, fd, locked, started, kills>>,
           sockPath' \in Nat, fresh' \in Nat,
           sock' \in [Daemons -> Nat], listening' \subseteq Nat,
           \A q \in Daemons \ {p} : sock'[q] = sock[q],
           sock'[p] # None <=> step \in HasSocket,
           step \in HasSocket \ {"close"} => sockPath' = sock'[p],
           step \in {"bind", "close", "unlock"} => sockPath' = None,
           listening' = IF step \in Listens THEN {sock'[p]} ELSE {}
    PROVE  IndInv'
<1>1. pc' = [pc EXCEPT ![p] = step] /\ UNCHANGED result
  BY DEF Goto
<1>2. pc'[p] = step /\ \A q \in Daemons \ {p} : pc'[q] = pc[q]
  BY <1>1 DEF IndInv, TypeOK
<1>3. \A q \in Daemons \ {p} : pc[q] \notin Holding
  BY DEF IndInv, Alone
<1>4. TypeOK'
  <2>1. pc' \in [Daemons -> Steps]
    BY <1>1, StepSets DEF IndInv, TypeOK
  <2>2. QED
    BY <1>1, <2>1 DEF IndInv, TypeOK
<1>5. Alone'
  <2>1. \A q, r \in Daemons : pc'[q] \in Holding /\ pc'[r] \in Holding => q = r
    BY <1>2, <1>3
  <2>2. \A q \in Daemons \ {p} : pc[q] \notin Stopping
    BY DEF IndInv, Alone, Holding
  <2>3. step \in Stopping => \A q \in Daemons \ {p} : pc[q] = "off"
    BY <1>3 DEF Holding
  <2>4. QED
    BY <1>2, <2>1, <2>2, <2>3 DEF Alone
<1>6. LocksKept'
  BY <1>2, StepSets DEF IndInv, LocksKept
<1>7. SocketsKept'
  <2>1. ASSUME NEW q \in Daemons \ {p}
        PROVE  /\ sock'[q] = None /\ pc'[q] \notin HasSocket /\ pc'[q] \notin Listens
               /\ pc'[q] \notin {"bind", "close", "unlock", "unlinkLock"}
    <3>1. pc'[q] \notin Holding /\ pc'[q] \notin HasSocket /\ sock'[q] = None
      BY <1>2, <1>3, StepSets DEF IndInv, SocketsKept
    <3>2. pc[q] # "unlinkLock"
      BY StepSets DEF IndInv, Alone, Holding, Stopping
    <3>3. QED
      BY <1>2, <3>1, <3>2, StepSets DEF Holding
  <2>2. step # "unlinkLock"
    BY DEF Holding
  <2>3. /\ \A q \in Daemons : sock'[q] # None <=> pc'[q] \in HasSocket
        /\ \A q \in Daemons : pc'[q] \in HasSocket \ {"close"} => sockPath' = sock'[q]
        /\ \A q \in Daemons :
              pc'[q] \in {"bind", "close", "unlock", "unlinkLock"} => sockPath' = None
    BY <1>2, <2>1, <2>2
  <2>4. /\ \A q \in Daemons : pc'[q] \in Listens => sock'[q] \in listening'
        /\ \A n \in listening' : \E q \in Daemons : pc'[q] \in Listens /\ sock'[q] = n
    BY <1>2, <2>1
  <2>5. QED
    BY <2>3, <2>4 DEF SocketsKept
<1>8. QED
  BY <1>4, <1>5, <1>6, <1>7 DEF IndInv

\* Nobody but the holder has a socket or listens.
LEMMA OnlyHolderListens ==
    ASSUME IndInv, NEW p \in Daemons, pc[p] \in Holding
    PROVE  /\ listening = IF pc[p] \in Listens THEN {sock[p]} ELSE {}
           /\ \A q \in Daemons \ {p} : sock[q] = None /\ pc[q] \notin Holding
<1>1. \A q \in Daemons \ {p} : pc[q] \notin Holding
  BY DEF IndInv, Alone
<1>2. \A q \in Daemons \ {p} : pc[q] \notin HasSocket /\ pc[q] \notin Listens
  BY <1>1, StepSets
<1>3. \A q \in Daemons \ {p} : sock[q] = None
  BY <1>2 DEF IndInv, SocketsKept
<1>4. \A n \in listening : pc[p] \in Listens /\ n = sock[p]
  BY <1>2 DEF IndInv, SocketsKept
<1>5. pc[p] \in Listens => sock[p] \in listening
  BY DEF IndInv, SocketsKept
<1>6. QED
  BY <1>1, <1>3, <1>4, <1>5

\* Cleaning up keeps it: what is unlinked is not the path of a daemon that
\* serves.
LEMMA CleanupKeeps ==
    ASSUME IndInv, NEW p \in Daemons, SocketExists(p) \/ Probe(p) \/ UnlinkStale(p)
    PROVE  IndInv'
<1>0. pc[p] \in {"exists", "probe", "unlinkStale"}
  BY DEF SocketExists, Probe, UnlinkStale
<1>1. /\ pc[p] \in Holding /\ listening = {} /\ sock[p] = None
      /\ sockPath \in Nat /\ fresh \in Nat /\ sock \in [Daemons -> Nat] /\ None \in Nat
  BY <1>0, OnlyHolderListens
     DEF IndInv, TypeOK, SocketsKept, Holding, HasSocket, Listens, None
<1>2. CASE SocketExists(p) \/ (Probe(p) /\ sockPath \notin listening)
  <2>1. \E step \in {"bind", "probe", "unlinkStale"} :
           Goto(p, step) /\ (step = "bind" => sockPath = None)
    BY <1>2 DEF SocketExists, Probe
  <2>2. UNCHANGED <<dir, lockPath, sockPath, fd, locked, sock, listening, fresh, started, kills>>
    BY <1>2 DEF SocketExists, Probe
  <2>3. PICK step \in {"bind", "probe", "unlinkStale"} :
           Goto(p, step) /\ (step = "bind" => sockPath = None)
    BY <2>1
  <2>4. step \in Holding /\ step \notin Stopping /\ step \notin HasSocket /\ step \notin Listens
    BY DEF Holding, Stopping, HasSocket, Listens
  <2>5. QED
    BY <1>1, <2>2, <2>3, <2>4, HolderMoves
<1>3. CASE UnlinkStale(p) /\ sockPath # None
  <2>1. /\ Goto(p, "bind") /\ sockPath' = None
        /\ UNCHANGED <<dir, lockPath, fd, locked, sock, listening, fresh, started, kills>>
    BY <1>3 DEF UnlinkStale
  <2>2. /\ "bind" \in Holding /\ "bind" \notin Stopping /\ "bind" \notin HasSocket
        /\ "bind" \notin Listens
    BY DEF Holding, Stopping, HasSocket, Listens
  <2>3. QED
    BY <1>1, <2>1, <2>2, HolderMoves
<1>4. CASE (UnlinkStale(p) /\ sockPath = None) \/ (Probe(p) /\ sockPath \in listening)
  <2>1. /\ Gone(p, "cleanupFailed") \/ Gone(p, "peerLive")
        /\ UNCHANGED <<dir, lockPath, sockPath, fresh, started, kills>>
    BY <1>4 DEF UnlinkStale, Probe
  <2>2. QED
    BY <2>1, GoneKeeps DEF Results, IndInv, TypeOK
<1>5. QED
  BY <1>2, <1>3, <1>4

\* The path names nothing when the holder binds, and its own socket from
\* there on: the chmod of the path finds it.
LEMMA BindKeeps ==
    ASSUME IndInv, NEW p \in Daemons, Bind(p) \/ Listen(p) \/ Chmod(p)
    PROVE  IndInv'
<1>0. pc[p] \in {"bind", "listen", "chmod"}
  BY DEF Bind, Listen, Chmod
<1>1. /\ pc[p] \in Holding
      /\ listening = (IF pc[p] \in Listens THEN {sock[p]} ELSE {})
      /\ sockPath \in Nat /\ fresh \in Nat /\ sock \in [Daemons -> Nat] /\ listening \subseteq Nat
  BY <1>0, OnlyHolderListens DEF IndInv, TypeOK, Holding
<1>2. CASE Bind(p) /\ PrepareParentDir
  <2>0. sockPath = None /\ listening = {} /\ pc[p] = "bind"
    BY <1>1, <1>2 DEF Bind, IndInv, SocketsKept, Listens, HasSocket
  <2>1. /\ Goto(p, "listen") /\ sockPath' = fresh + 1 /\ fresh' = fresh + 1
        /\ sock' = [sock EXCEPT ![p] = fresh + 1]
        /\ UNCHANGED <<dir, lockPath, fd, locked, listening, started, kills>>
    BY <1>2, <2>0 DEF Bind
  <2>2. /\ sock'[p] = fresh + 1 /\ sock'[p] # None /\ sock' \in [Daemons -> Nat]
        /\ sockPath' \in Nat /\ fresh' \in Nat /\ sockPath' = sock'[p]
        /\ \A q \in Daemons \ {p} : sock'[q] = sock[q]
        /\ listening' = {} /\ listening' \subseteq Nat
    BY <1>1, <2>0, <2>1 DEF None
  <2>3. /\ "listen" \in Holding /\ "listen" \notin Stopping /\ "listen" \in HasSocket
        /\ "listen" \notin Listens /\ "listen" \notin {"bind", "close", "unlock"}
    BY DEF Holding, Stopping, HasSocket, Listens
  <2>4. QED
    BY <1>1, <2>1, <2>2, <2>3, HolderMoves
<1>3. CASE Listen(p)
  <2>1. /\ pc[p] = "listen" /\ Goto(p, "chmod") /\ listening' = listening \cup {sock[p]}
        /\ UNCHANGED <<dir, lockPath, sockPath, fd, locked, sock, fresh, started, kills>>
    BY <1>3 DEF Listen
  <2>2. sockPath = sock[p] /\ sock[p] # None /\ sock[p] \in Nat /\ listening' = {sock[p]}
    BY <1>1, <2>1 DEF IndInv, SocketsKept, HasSocket, Listens
  <2>3. /\ "chmod" \in Holding /\ "chmod" \notin Stopping /\ "chmod" \in HasSocket
        /\ "chmod" \in Listens /\ "chmod" \notin {"bind", "close", "unlock"}
    BY DEF Holding, Stopping, HasSocket, Listens
  <2>4. QED
    BY <1>1, <2>1, <2>2, <2>3, HolderMoves
<1>4. CASE Chmod(p)
  <2>0. sockPath = sock[p] /\ sock[p] # None /\ listening = {sock[p]}
    BY <1>1, <1>4 DEF Chmod, IndInv, SocketsKept, HasSocket, Listens
  <2>1. /\ Goto(p, "serve")
        /\ UNCHANGED <<dir, lockPath, sockPath, fd, locked, sock, listening, fresh, started, kills>>
    BY <1>4, <2>0 DEF Chmod
  <2>2. /\ "serve" \in Holding /\ "serve" \notin Stopping /\ "serve" \in HasSocket
        /\ "serve" \in Listens /\ "serve" \notin {"bind", "close", "unlock"}
    BY DEF Holding, Stopping, HasSocket, Listens
  <2>3. QED
    BY <1>1, <2>0, <2>1, <2>2, HolderMoves
<1>5. CASE Bind(p) /\ ~PrepareParentDir
  <2>1. /\ Gone(p, "dirMode")
        /\ UNCHANGED <<dir, lockPath, sockPath, fresh, started, kills>>
    BY <1>5 DEF Bind
  <2>2. QED
    BY <2>1, GoneKeeps DEF Results, IndInv, TypeOK
<1>6. QED
  BY <1>2, <1>3, <1>4, <1>5

\* Once a daemon stops it is alone, so that it unlinks its own files.
LEMMA StopKeeps ==
    ASSUME ~Overlap, IndInv, NEW p \in Daemons,
           Shutdown(p) \/ UnlinkSocket(p) \/ CloseServer(p)
    PROVE  IndInv'
<1>0. pc[p] \in {"serve", "unlinkSocket", "close"}
  BY DEF Shutdown, UnlinkSocket, CloseServer
<1>1. /\ pc[p] \in Holding /\ listening = {sock[p]} /\ sock[p] # None
      /\ sockPath \in Nat /\ fresh \in Nat /\ sock \in [Daemons -> Nat] /\ listening \subseteq Nat
      /\ None \in Nat
  BY <1>0, OnlyHolderListens
     DEF IndInv, TypeOK, SocketsKept, Holding, HasSocket, Listens, None
<1>2. \A q \in Daemons \ {p} : pc[q] \in {"off", "serve"}
  BY DEF Shutdown, UnlinkSocket, CloseServer, IndInv, Alone, Stopping
<1>3. CASE Shutdown(p)
  <2>1. /\ Goto(p, "unlinkSocket") /\ pc[p] = "serve"
        /\ UNCHANGED <<dir, lockPath, sockPath, fd, locked, sock, listening, fresh, started, kills>>
    BY <1>3 DEF Shutdown
  <2>2. sockPath = sock[p]
    BY <2>1 DEF IndInv, SocketsKept, HasSocket
  <2>3. /\ "unlinkSocket" \in Holding /\ "unlinkSocket" \in HasSocket
        /\ "unlinkSocket" \in Listens /\ "unlinkSocket" \notin {"bind", "close", "unlock"}
    BY DEF Holding, HasSocket, Listens
  <2>4. QED
    BY <1>1, <1>2, <2>1, <2>2, <2>3, HolderMoves
<1>4. CASE UnlinkSocket(p)
  <2>1. /\ Goto(p, "close") /\ sockPath' = None
        /\ UNCHANGED <<dir, lockPath, fd, locked, sock, listening, fresh, started, kills>>
    BY <1>4 DEF UnlinkSocket
  <2>2. "close" \in Holding /\ "close" \in HasSocket /\ "close" \in Listens
    BY DEF Holding, HasSocket, Listens
  <2>3. QED
    BY <1>1, <1>2, <2>1, <2>2, HolderMoves
<1>5. CASE CloseServer(p)
  <2>1. /\ Goto(p, "unlock") /\ pc[p] = "close" /\ listening' = listening \ {sock[p]}
        /\ sock' = [sock EXCEPT ![p] = None]
        /\ UNCHANGED <<dir, lockPath, sockPath, fd, locked, fresh, started, kills>>
    BY <1>5 DEF CloseServer
  <2>2. sockPath = None
    BY <2>1 DEF IndInv, SocketsKept
  <2>3. /\ sock'[p] = None /\ sock' \in [Daemons -> Nat] /\ listening' = {}
        /\ \A q \in Daemons \ {p} : sock'[q] = sock[q]
    BY <1>1, <2>1
  <2>4. "unlock" \in Holding /\ "unlock" \notin HasSocket /\ "unlock" \notin Listens
    BY DEF Holding, HasSocket, Listens
  <2>5. QED
    BY <1>1, <1>2, <2>1, <2>2, <2>3, <2>4, HolderMoves
<1>6. QED
  BY <1>3, <1>4, <1>5

\* The lock is released first and its file removed second, with nobody
\* starting in between.
LEMMA ReleaseKeeps ==
    ASSUME IndInv, NEW p \in Daemons, Unlock(p) \/ UnlinkLock(p) \/ Kill(p)
    PROVE  IndInv'
<1>1. CASE Unlock(p)
  <2>1. /\ pc[p] = "unlock" /\ pc' = [pc EXCEPT ![p] = "unlinkLock"]
        /\ locked' = [locked EXCEPT ![p] = {}]
        /\ UNCHANGED <<dir, lockPath, sockPath, fd, sock, listening, fresh, started, kills, result>>
    BY <1>1 DEF Unlock, Goto
  <2>2. /\ pc'[p] = "unlinkLock" /\ locked'[p] = {}
        /\ \A q \in Daemons \ {p} : pc'[q] = pc[q] /\ locked'[q] = locked[q]
    BY <2>1 DEF IndInv, TypeOK
  <2>3. TypeOK'
    BY <2>1 DEF IndInv, TypeOK, Steps
  <2>4. Alone'
    BY <2>1, <2>2 DEF IndInv, Alone, Holding, Stopping
  <2>5. LocksKept'
    BY <2>1, <2>2 DEF IndInv, LocksKept, HasLockFile, Holding
  <2>6. SocketsKept'
    BY <2>1, <2>2 DEF IndInv, SocketsKept, HasSocket, Listens
  <2>7. QED
    BY <2>3, <2>4, <2>5, <2>6 DEF IndInv
<1>2. CASE UnlinkLock(p)
  <2>1. /\ pc[p] \in Stopping /\ lockPath' = None /\ Gone(p, "stopped")
        /\ UNCHANGED <<dir, sockPath, fresh, started, kills>>
    BY <1>2 DEF UnlinkLock, Stopping
  <2>2. QED
    BY <2>1, GoneKeeps DEF Results, IndInv, TypeOK
<1>3. CASE Kill(p)
  <2>1. /\ Gone(p, "killed") /\ UNCHANGED <<dir, lockPath, sockPath, fresh, started>>
    BY <1>3 DEF Kill
  <2>2. kills' \in 0..MaxKills
    BY <1>3, InstanceBounds DEF Kill, IndInv, TypeOK
  <2>3. QED
    BY <2>1, <2>2, GoneKeeps DEF Results
<1>4. QED
  BY <1>1, <1>2, <1>3

\* Every step keeps the invariant, when starts do not overlap.
LEMMA IndInvStep == ASSUME ~Overlap, IndInv, [Next]_vars PROVE IndInv'
<1>1. CASE UNCHANGED vars
  BY <1>1 DEF vars, IndInv, TypeOK, LocksKept, Alone, SocketsKept
<1>2. QED
  BY <1>1, StartKeeps, PrepareKeeps, OpenLockKeeps, FlockKeeps, CleanupKeeps, BindKeeps,
     StopKeeps, ReleaseKeeps DEF Next, Step

\* It holds at first.
LEMMA IndInvInit == ASSUME Init PROVE IndInv
<1>1. TypeOK
  BY InstanceBounds DEF Init, TypeOK, None, Steps, Results
<1>2. LocksKept /\ Alone /\ SocketsKept
  BY DEF Init, LocksKept, Alone, SocketsKept, HasLockFile, Holding, Stopping, HasSocket, Listens
<1>3. QED
  BY <1>1, <1>2 DEF IndInv

\* It holds always.
LEMMA IndInvAlways == ASSUME ~Overlap PROVE Spec => []IndInv
<1>1. IndInv /\ [Next]_vars => IndInv'
  BY IndInvStep
<1>2. QED
  BY <1>1, IndInvInit, PTL DEF Spec

\* ServerReachable, for any number of daemons, starts and kills, none of
\* which starts while another stops: as long as a daemon serves, the socket
\* path leads to it, whoever probes, cleans up or dies meanwhile.
THEOREM ServerStaysReachable == ASSUME ~Overlap PROVE Spec => []ServerReachable
<1>1. IndInv => ServerReachable
  BY DEF IndInv, SocketsKept, ServerReachable, Servers, HasSocket, Listens
<1>2. QED
  BY <1>1, IndInvAlways, PTL

\* AtMostOneServing under the same condition: the race the run on
\* overlapping daemons finds needs a start during a shutdown.
THEOREM OnlyOneServes == ASSUME ~Overlap PROVE Spec => []AtMostOneServing
<1>1. IndInv => AtMostOneServing
  BY DEF IndInv, Alone, AtMostOneServing, Servers, Holding
<1>2. QED
  BY <1>1, IndInvAlways, PTL

-----------------------------------------------------------------------------
(* The refinement of OneDaemon.                                            *)

\* The phase of a daemon in OneDaemon, by its next system call.
PhaseOf(step) ==
    CASE step = "chmod"                     -> "up"
      [] step = "serve"                     -> "serving"
      [] step \in {"unlinkSocket", "close"} -> "stopping"
      [] step \in {"unlock", "unlinkLock"}  -> "closed"
      [] OTHER                              -> "off"

AbstractPhases == [p \in Daemons |-> AbstractPhase(p)]

\* A step of one process changes its phase only.
LEMMA PhaseMoves ==
    ASSUME TypeOK, NEW p \in Daemons, NEW step, pc' = [pc EXCEPT ![p] = step]
    PROVE  /\ AbstractPhases' = [AbstractPhases EXCEPT ![p] = PhaseOf(step)]
           /\ \A q \in Daemons : AbstractPhases[q] = PhaseOf(pc[q])
           /\ PhaseOf(step) = PhaseOf(pc[p]) => AbstractPhases' = AbstractPhases
<1>1. \A q \in Daemons : AbstractPhase(q) = PhaseOf(pc[q])
  BY DEF AbstractPhase, PhaseOf
<1>2. \A q \in Daemons : AbstractPhase(q)' = PhaseOf(pc'[q])
  BY DEF AbstractPhase, PhaseOf
<1>3. pc'[p] = step /\ \A q \in Daemons \ {p} : pc'[q] = pc[q]
  BY DEF TypeOK
<1>4. /\ AbstractPhases = [q \in Daemons |-> PhaseOf(pc[q])]
      /\ AbstractPhases' = [q \in Daemons |-> PhaseOf(pc'[q])]
  BY <1>1, <1>2 DEF AbstractPhases
<1>5. QED
  BY <1>3, <1>4

\* Where the path leads, in each situation.
LEMMA PathLeads ==
    ASSUME IndInv
    PROVE  /\ sockPath = None => AbstractPath = "none"
           /\ \A p \in Daemons : pc[p] \in Listens \ {"close"} => AbstractPath = p
           /\ sockPath # None /\ (\A p \in Daemons : pc[p] \notin Listens \ {"close"})
                 => AbstractPath = "dead"
<1>1. ASSUME NEW p \in Daemons, pc[p] \in Listens \ {"close"} PROVE AbstractPath = p
  <2>1. pc[p] \in HasSocket \ {"close"} /\ pc[p] \in Holding
    BY <1>1, StepSets DEF Listens
  <2>2. sockPath = sock[p] /\ sock[p] # None /\ sockPath \in listening
    BY <1>1, <2>1 DEF IndInv, SocketsKept
  <2>3. \A q \in Daemons : sock[q] = sockPath => q = p
    BY <2>1, <2>2, OnlyHolderListens
  <2>4. QED
    BY <2>2, <2>3 DEF AbstractPath
<1>2. ASSUME sockPath # None, \A p \in Daemons : pc[p] \notin Listens \ {"close"}
      PROVE  AbstractPath = "dead"
  <2>1. \A p \in Daemons : pc[p] # "close"
    BY <1>2 DEF IndInv, SocketsKept
  <2>2. sockPath \notin listening
    BY <1>2, <2>1 DEF IndInv, SocketsKept
  <2>3. QED
    BY <1>2, <2>2 DEF AbstractPath
<1>3. QED
  BY <1>1, <1>2 DEF AbstractPath

PathReads ==
    /\ sockPath = None => AbstractPath = "none"
    /\ \A p \in Daemons : pc[p] \in Listens \ {"close"} => AbstractPath = p
    /\ sockPath # None /\ (\A p \in Daemons : pc[p] \notin Listens \ {"close"})
          => AbstractPath = "dead"

\* What the path leads to, after a step.
LEMMA PathReadsNext == IndInv' => PathReads'
<1>1. IndInv => PathReads
  BY PathLeads DEF PathReads
<1>2. QED
  BY <1>1, PTL

\* The same after a step.
LEMMA PathLeadsNext ==
    ASSUME IndInv'
    PROVE  /\ sockPath' = None => AbstractPath' = "none"
           /\ \A p \in Daemons : pc'[p] \in Listens \ {"close"} => AbstractPath' = p
           /\ sockPath' # None /\ (\A p \in Daemons : pc'[p] \notin Listens \ {"close"})
                 => AbstractPath' = "dead"
BY PathReadsNext DEF PathReads

\* While p holds the lock the others are off, as OneDaemon sees them.
LEMMA OthersOff ==
    ASSUME IndInv, NEW p \in Daemons, pc[p] \in Holding \cup {"unlinkLock"}
    PROVE  \A q \in Daemons \ {p} : PhaseOf(pc[q]) = "off" /\ pc[q] \notin Listens
<1>1. \A q \in Daemons \ {p} : pc[q] \notin Holding /\ pc[q] # "unlinkLock"
  BY DEF IndInv, Alone, Stopping, Holding
<1>2. QED
  BY <1>1 DEF PhaseOf, Holding, Listens, HasSocket

\* Steps OneDaemon does not see.
LEMMA HiddenMove ==
    ASSUME IndInv, IndInv', NEW p \in Daemons, NEW step, pc' = [pc EXCEPT ![p] = step],
           PhaseOf(step) = PhaseOf(pc[p]),
           pc[p] \notin Listens \ {"close"}, step \notin Listens \ {"close"},
           UNCHANGED sockPath
    PROVE  UNCHANGED Daemon!daemonVars
<1>1. pc'[p] = step /\ \A q \in Daemons \ {p} : pc'[q] = pc[q]
  BY DEF IndInv, TypeOK
<1>2. AbstractPath' = AbstractPath
  <2>1. CASE sockPath = None
    BY <2>1, PathLeads DEF AbstractPath
  <2>2. CASE \E q \in Daemons : pc[q] \in Listens \ {"close"}
    <3>1. PICK q \in Daemons : pc[q] \in Listens \ {"close"}
      BY <2>2
    <3>2. pc'[q] \in Listens \ {"close"}
      BY <1>1, <3>1
    <3>3. AbstractPath' = q
      BY <3>2, PathLeadsNext
    <3>4. QED
      BY <3>1, <3>3, PathLeads
  <2>3. CASE sockPath # None /\ \A q \in Daemons : pc[q] \notin Listens \ {"close"}
    <3>1. \A q \in Daemons : pc'[q] \notin Listens \ {"close"}
      BY <1>1, <2>3
    <3>2. QED
      BY <2>3, <3>1, PathLeads, PathLeadsNext
  <2>4. QED
    BY <2>1, <2>2, <2>3
<1>3. AbstractPhases' = AbstractPhases
  BY PhaseMoves DEF IndInv
<1>4. QED
  BY <1>2, <1>3 DEF Daemon!daemonVars, AbstractPhases

\* A process that is gone: a daemon that was up has died, and left its socket
\* file behind; one that had not got that far is not noticed.
LEMMA GoneSeen ==
    ASSUME IndInv, IndInv', NEW p \in Daemons, NEW how, Gone(p, how), UNCHANGED sockPath
    PROVE  Daemon!Die(p) \/ UNCHANGED Daemon!daemonVars
<1>1. /\ pc' = [pc EXCEPT ![p] = "off"] /\ PhaseOf("off") = "off"
      /\ pc'[p] = "off" /\ \A q \in Daemons \ {p} : pc'[q] = pc[q]
  BY DEF Gone, IndInv, TypeOK, PhaseOf
<1>2. CASE PhaseOf(pc[p]) = "off"
  <2>1. pc[p] \notin Listens \ {"close"} /\ "off" \notin Listens \ {"close"}
    BY <1>2 DEF PhaseOf, Listens, HasSocket
  <2>2. QED
    BY <1>1, <1>2, <2>1, HiddenMove
<1>3. CASE PhaseOf(pc[p]) # "off"
  <2>1. pc[p] \in {"chmod", "serve", "unlinkSocket", "close", "unlock", "unlinkLock"}
    BY <1>3 DEF PhaseOf
  <2>2. \A q \in Daemons \ {p} : pc'[q] \notin Listens
    BY <1>1, <2>1, OthersOff DEF Holding
  <2>3. \A q \in Daemons : pc'[q] \notin Listens \ {"close"}
    BY <1>1, <2>2 DEF Listens, HasSocket
  <2>4. AbstractPath' = IF AbstractPath = p THEN "dead" ELSE AbstractPath
    <3>1. CASE pc[p] \in Listens \ {"close"}
      <4>1. AbstractPath = p
        BY <3>1, PathLeads
      <4>2. sockPath' # None
        BY <3>1, StepSets DEF IndInv, SocketsKept, Listens
      <4>3. QED
        BY <2>3, <4>1, <4>2, PathLeadsNext
    <3>2. CASE pc[p] \in {"close", "unlock", "unlinkLock"}
      <4>1. sockPath = None
        BY <3>2 DEF IndInv, SocketsKept
      <4>2. QED
        BY <4>1, PathLeads, PathLeadsNext, PathNames
    <3>3. QED
      BY <2>1, <3>1, <3>2 DEF Listens, HasSocket
  <2>5. /\ AbstractPhases' = [AbstractPhases EXCEPT ![p] = "off"]
        /\ AbstractPhases[p] # "off"
    <3>1. TypeOK /\ pc' = [pc EXCEPT ![p] = "off"]
      BY <1>1 DEF IndInv
    <3>2. /\ AbstractPhases' = [AbstractPhases EXCEPT ![p] = PhaseOf("off")]
          /\ \A q \in Daemons : AbstractPhases[q] = PhaseOf(pc[q])
      BY <3>1, PhaseMoves
    <3>3. QED
      BY <1>1, <1>3, <3>2
  <2>6. QED
    BY <2>4, <2>5 DEF Daemon!Die, Daemon!Become, AbstractPhases
<1>4. QED
  BY <1>2, <1>3

\* From the first probe to the bind: the sweep of a dead socket, the claim
\* of an empty path.
LEMMA CleanupSeen ==
    ASSUME IndInv, IndInv', NEW p \in Daemons,
           SocketExists(p) \/ Probe(p) \/ UnlinkStale(p) \/ Bind(p)
    PROVE  [Daemon!DaemonNext]_(Daemon!daemonVars)
<1>0. pc[p] \in {"exists", "probe", "unlinkStale", "bind"}
  BY DEF SocketExists, Probe, UnlinkStale, Bind
<1>1. /\ PhaseOf(pc[p]) = "off" /\ pc[p] \notin Listens \ {"close"}
      /\ \A q \in Daemons \ {p} : PhaseOf(pc[q]) = "off" /\ pc[q] \notin Listens
  BY <1>0, OthersOff DEF PhaseOf, Listens, HasSocket, Holding
<1>2. \A q \in Daemons : PhaseOf(pc[q]) = "off" /\ pc[q] \notin Listens \ {"close"}
  BY <1>1
<1>3. ASSUME NEW step \in {"probe", "unlinkStale", "bind", "listen"}, Goto(p, step)
      PROVE  /\ pc' = [pc EXCEPT ![p] = step]
             /\ PhaseOf(step) = "off" /\ step \notin Listens \ {"close"}
             /\ AbstractPhases' = AbstractPhases
             /\ \A q \in Daemons : AbstractPhases[q] = "off"
             /\ \A q \in Daemons : pc'[q] \notin Listens \ {"close"}
  <2>1. /\ pc' = [pc EXCEPT ![p] = step]
        /\ PhaseOf(step) = "off" /\ step \notin Listens \ {"close"}
    BY <1>3 DEF Goto, PhaseOf, Listens, HasSocket
  <2>2. pc'[p] = step /\ \A q \in Daemons \ {p} : pc'[q] = pc[q]
    BY <2>1 DEF IndInv, TypeOK
  <2>3. /\ AbstractPhases' = AbstractPhases
        /\ \A q \in Daemons : AbstractPhases[q] = PhaseOf(pc[q])
    <3>1. TypeOK /\ PhaseOf(step) = PhaseOf(pc[p])
      BY <1>1, <2>1 DEF IndInv
    <3>2. QED
      BY <2>1, <3>1, PhaseMoves
  <2>4. QED
    BY <1>2, <2>1, <2>2, <2>3
<1>4. ASSUME NEW how, Gone(p, how), UNCHANGED sockPath
      PROVE  [Daemon!DaemonNext]_(Daemon!daemonVars)
  BY <1>4, GoneSeen DEF Daemon!DaemonNext
<1>5. CASE SocketExists(p)
  <2>1. PICK step \in {"probe", "bind"} : Goto(p, step)
    BY <1>5 DEF SocketExists
  <2>2. UNCHANGED sockPath
    BY <1>5 DEF SocketExists
  <2>3. QED
    BY <1>1, <1>3, <2>1, <2>2, HiddenMove
<1>6. CASE Probe(p)
  <2>1. UNCHANGED sockPath /\ (Gone(p, "peerLive") \/ Goto(p, "unlinkStale"))
    BY <1>6 DEF Probe
  <2>2. QED
    BY <1>1, <1>3, <1>4, <2>1, HiddenMove
<1>7. CASE UnlinkStale(p)
  <2>1. CASE sockPath = None
    BY <1>4, <1>7, <2>1 DEF UnlinkStale
  <2>2. CASE sockPath # None
    <3>1. Goto(p, "bind") /\ sockPath' = None
      BY <1>7, <2>2 DEF UnlinkStale
    <3>2. AbstractPath = "dead" /\ AbstractPath' = "none"
      BY <1>2, <2>2, <3>1, PathLeads, PathLeadsNext
    <3>3. Daemon!Sweep
      BY <1>3, <3>1, <3>2 DEF Daemon!Sweep, AbstractPhases
    <3>4. QED
      BY <3>3 DEF Daemon!DaemonNext
  <2>3. QED
    BY <2>1, <2>2
<1>8. CASE Bind(p)
  <2>1. CASE ~PrepareParentDir \/ sockPath # None
    BY <1>4, <1>8, <2>1 DEF Bind
  <2>2. CASE PrepareParentDir /\ sockPath = None
    <3>1. Goto(p, "listen") /\ sockPath' = fresh + 1 /\ sockPath' # None
      BY <1>8, <2>2 DEF Bind, IndInv, TypeOK, None
    <3>2. AbstractPath = "none"
      BY <2>2, PathLeads
    <3>3. AbstractPath' = "dead"
      BY <1>3, <3>1, PathLeadsNext
    <3>4. Daemon!Claim
      BY <1>3, <3>1, <3>2, <3>3 DEF Daemon!Claim, AbstractPhases
    <3>5. QED
      BY <3>4 DEF Daemon!DaemonNext
  <2>3. QED
    BY <2>1, <2>2
<1>9. QED
  BY <1>5, <1>6, <1>7, <1>8

\* From listen(2) to the end of the listener.
LEMMA HolderSeen ==
    ASSUME IndInv, IndInv', NEW p \in Daemons,
           \/ Listen(p) \/ Chmod(p) \/ Shutdown(p) \/ UnlinkSocket(p) \/ CloseServer(p)
    PROVE  Daemon!DaemonNext
<1>0. pc[p] \in {"listen", "chmod", "serve", "unlinkSocket", "close"}
  BY DEF Listen, Chmod, Shutdown, UnlinkSocket, CloseServer
<1>1. /\ \A q \in Daemons \ {p} : PhaseOf(pc[q]) = "off" /\ pc[q] \notin Listens
      /\ pc[p] # "close" => sockPath = sock[p] /\ sock[p] # None
      /\ pc[p] = "close" => sockPath = None
  BY <1>0, OthersOff DEF Holding, IndInv, SocketsKept, HasSocket
<1>2. ASSUME NEW step, Goto(p, step)
      PROVE  /\ AbstractPhases' = [AbstractPhases EXCEPT ![p] = PhaseOf(step)]
             /\ \A q \in Daemons : AbstractPhases[q] = PhaseOf(pc[q])
             /\ pc'[p] = step
             /\ \A q \in Daemons \ {p} : pc'[q] = pc[q]
  BY <1>2, PhaseMoves DEF Goto, IndInv, TypeOK
<1>3. CASE Listen(p)
  <2>1. pc[p] = "listen" /\ Goto(p, "chmod")
    BY <1>3 DEF Listen
  <2>2. /\ PhaseOf(pc[p]) = "off" /\ PhaseOf("chmod") = "up"
        /\ \A q \in Daemons : pc[q] \notin Listens \ {"close"}
    BY <1>1, <2>1 DEF PhaseOf, Listens, HasSocket
  <2>3. AbstractPath = "dead"
    BY <1>1, <2>1, <2>2, PathLeads
  <2>4. AbstractPath' = p
    <3>1. pc'[p] \in Listens \ {"close"}
      BY <1>2, <2>1 DEF Listens, HasSocket
    <3>2. QED
      BY <3>1, PathLeadsNext
  <2>5. Daemon!Open(p)
    BY <1>1, <1>2, <2>1, <2>2, <2>3, <2>4 DEF Daemon!Open, Daemon!Become, AbstractPhases
  <2>6. QED
    BY <2>5 DEF Daemon!DaemonNext
<1>4. CASE Chmod(p)
  <2>1. pc[p] = "chmod" /\ Goto(p, "serve")
    BY <1>1, <1>4 DEF Chmod
  <2>2. PhaseOf("chmod") = "up" /\ PhaseOf("serve") = "serving"
    BY DEF PhaseOf
  <2>3. pc[p] \in Listens \ {"close"} /\ pc'[p] \in Listens \ {"close"}
    BY <1>2, <2>1 DEF Listens, HasSocket
  <2>4. AbstractPath = p /\ AbstractPath' = p
    BY <2>3, PathLeads, PathLeadsNext
  <2>5. Daemon!Serve(p)
    BY <1>2, <2>1, <2>2, <2>4 DEF Daemon!Serve, Daemon!Become, AbstractPhases
  <2>6. QED
    BY <2>5 DEF Daemon!DaemonNext
<1>5. CASE Shutdown(p)
  <2>1. pc[p] = "serve" /\ Goto(p, "unlinkSocket")
    BY <1>5 DEF Shutdown
  <2>2. PhaseOf("serve") = "serving" /\ PhaseOf("unlinkSocket") = "stopping"
    BY DEF PhaseOf
  <2>3. pc[p] \in Listens \ {"close"} /\ pc'[p] \in Listens \ {"close"}
    BY <1>2, <2>1 DEF Listens, HasSocket
  <2>4. AbstractPath = p /\ AbstractPath' = p
    BY <2>3, PathLeads, PathLeadsNext
  <2>5. Daemon!Stop(p)
    BY <1>2, <2>1, <2>2, <2>4 DEF Daemon!Stop, Daemon!Become, AbstractPhases
  <2>6. QED
    BY <2>5 DEF Daemon!DaemonNext
<1>6. CASE UnlinkSocket(p)
  <2>1. pc[p] = "unlinkSocket" /\ pc' = [pc EXCEPT ![p] = "close"] /\ sockPath' = None
    BY <1>6 DEF UnlinkSocket, Goto
  <2>2. PhaseOf("unlinkSocket") = "stopping" /\ PhaseOf("close") = "stopping"
    BY DEF PhaseOf
  <2>3. AbstractPath = p
    BY <2>1, PathLeads DEF Listens, HasSocket
  <2>4. AbstractPath' = "none"
    BY <2>1, PathLeadsNext
  <2>5. AbstractPhases' = AbstractPhases /\ AbstractPhases[p] = "stopping"
    BY <2>1, <2>2, PhaseMoves DEF IndInv
  <2>6. Daemon!Unlink(p)
    BY <2>3, <2>4, <2>5 DEF Daemon!Unlink, AbstractPhases
  <2>7. QED
    BY <2>6 DEF Daemon!DaemonNext
<1>7. CASE CloseServer(p)
  <2>1. pc[p] = "close" /\ Goto(p, "unlock") /\ UNCHANGED sockPath
    BY <1>7 DEF CloseServer
  <2>2. PhaseOf("close") = "stopping" /\ PhaseOf("unlock") = "closed"
    BY DEF PhaseOf
  <2>3. AbstractPath = "none" /\ AbstractPath' = "none"
    BY <1>1, <2>1, PathLeads, PathLeadsNext
  <2>4. Daemon!Close(p)
    BY <1>2, <2>1, <2>2, <2>3 DEF Daemon!Close, Daemon!Become, AbstractPhases
  <2>5. QED
    BY <2>4 DEF Daemon!DaemonNext
<1>8. QED
  BY <1>3, <1>4, <1>5, <1>6, <1>7

\* The other steps: OneDaemon sees none of those before the socket, and of
\* the release of the lock only that the process ends.
LEMMA QuietSeen ==
    ASSUME IndInv, IndInv', NEW p \in Daemons,
           \/ Start(p) \/ PrepareDir(p) \/ ChmodDir(p) \/ OpenLock(p) \/ Flock(p)
           \/ Unlock(p) \/ UnlinkLock(p) \/ Kill(p)
    PROVE  [Daemon!DaemonNext]_(Daemon!daemonVars)
<1>1. UNCHANGED sockPath
  BY DEF Start, PrepareDir, ChmodDir, OpenLock, Flock, Unlock, UnlinkLock, Kill
<1>2. CASE \E how : Gone(p, how)
  BY <1>1, <1>2, GoneSeen DEF Daemon!DaemonNext
<1>3. CASE ~ \E how : Gone(p, how)
  <2>1. \/ /\ pc[p] \in {"off", "prepare", "chmodDir", "open", "flock"}
           /\ \E step \in {"prepare", "chmodDir", "open", "flock", "exists"} :
                 pc' = [pc EXCEPT ![p] = step]
        \/ pc[p] = "unlock" /\ pc' = [pc EXCEPT ![p] = "unlinkLock"]
    BY <1>3 DEF Start, PrepareDir, ChmodDir, OpenLock, Flock, Unlock, UnlinkLock, Kill, Goto,
                IndInv, TypeOK
  <2>2. PICK step : /\ pc' = [pc EXCEPT ![p] = step] /\ PhaseOf(step) = PhaseOf(pc[p])
                    /\ pc[p] \notin Listens \ {"close"} /\ step \notin Listens \ {"close"}
    BY <2>1 DEF PhaseOf, Listens, HasSocket
  <2>3. QED
    BY <1>1, <2>2, HiddenMove
<1>4. QED
  BY <1>2, <1>3

\* RefinesOneDaemon, for any number of daemons, starts and kills, none of
\* which starts while another stops: seen from the socket path, every system
\* call is a step of OneDaemon or changes nothing.
THEOREM ImplementsOneDaemon == ASSUME ~Overlap PROVE Spec => RefinesOneDaemon
<1>1. Init => Daemon!DaemonInit
  BY DEF Init, Daemon!DaemonInit, AbstractPhase, AbstractPath
<1>2. IndInv /\ IndInv' /\ [Next]_vars => [Daemon!DaemonNext]_(Daemon!daemonVars)
  <2>1. SUFFICES ASSUME IndInv, IndInv', [Next]_vars
                 PROVE  [Daemon!DaemonNext]_(Daemon!daemonVars)
    OBVIOUS
  <2>2. CASE UNCHANGED vars
    BY <2>2 DEF vars, Daemon!daemonVars, AbstractPhase, AbstractPath
  <2>3. CASE Next
    BY <2>1, <2>3, CleanupSeen, HolderSeen, QuietSeen DEF Next, Step
  <2>4. QED
    BY <2>1, <2>2, <2>3
<1>3. Spec => []IndInv
  BY IndInvAlways
<1>4. QED
  BY <1>1, <1>2, <1>3, PTL DEF Spec, RefinesOneDaemon, Daemon!DaemonSpec

-----------------------------------------------------------------------------
(* ControlChannel: the inductive invariant.                                *)

\* How far a connection can be, given where its client is; whoever fails the
\* peer check gets no thread and no answer.
Connection(k) ==
    /\ k.at \in {"idle", "connect"} => k.to = NoProc /\ k.server = NoProc /\ ~k.closed
    /\ k.at \in {"idle", "connect", "send"} =>
          k.wire = "nothing" /\ k.pending = NoReply /\ k.reply = NoReply
    /\ ~k.own => k.server = NoProc /\ k.pending = NoReply /\ k.reply = NoReply

\* A response to `status`, from a daemon that served during the call.
Good(r, k) == r # NoReply => r.ok /\ (r.data \in Procs => r.data \in k.during \ Newer)

\* While the call is under way its history is that of the daemons: those
\* that have served ever since still do, and only those that served in its
\* time have a thread for it or have answered.  One daemon that served all
\* the time is the one the call is connected to, and has not dropped it.
UnderWay(k, serving) ==
    /\ k.shows = "none"
    /\ k.since \subseteq serving /\ serving \subseteq k.during
    /\ k.same => k.here
    /\ k.server # NoProc => k.server \in k.during
    /\ Good(k.pending, k) /\ Good(k.reply, k)
    /\ \A p \in k.since :
          /\ k.at # "connect" => k.to = p
          /\ k.server # NoProc => k.server = p
          /\ p \notin Newer =>
                /\ k.pending # NoReply => k.pending.data = p
                /\ k.reply # NoReply => k.reply.data = p
                /\ k.closed => k.reply # NoReply \/ k.late

\* What is printed is true.
Truthful(k) ==
    /\ k.shows = "running" => k.pid \in k.during \ Newer
    /\ k.shows = "notRunning" => k.since = {} \/ ~k.same
    /\ k.shows = "noPath" => ~k.same
    /\ k.shows = "error" => k.since \subseteq Newer \/ k.late

StatusCall(k, serving) ==
    /\ k.own /\ k.wire \in {"nothing", "status"}
    /\ k.at = "idle" => k.shows = "none"
    /\ k.at \in {"connect", "send", "recv"} => UnderWay(k, serving)
    /\ Truthful(k)

ControlInv ==
    /\ ControlTypeOK
    /\ OneReachable
    /\ \A c \in Clients : Connection(call[c])
    /\ \A i \in DOMAIN queue : call[queue[i]].at \notin {"idle", "connect"}
    /\ \A c \in StatusClients : StatusCall(call[c], Serving)

-----------------------------------------------------------------------------
(* Steps that change one call.                                             *)

\* What has to be shown of a step that changes one call: the new record is
\* one, and what it claims of the daemons is true.
LEMMA OneCallChanges ==
    ASSUME ControlInv, NEW c \in Clients, NEW k \in Call, Set(c, k), UNCHANGED daemonVars,
           starts' \in 0..MaxStarts, timeouts' \in 0..MaxTimeouts,
           \/ UNCHANGED queue
           \/ queue # <<>> /\ queue' = Tail(queue)
           \/ queue' = Append(queue, c) /\ k.at = "send",
           call[c].at \notin {"idle", "connect"} => k.at \notin {"idle", "connect"},
           Connection(k),
           c \in StatusClients => StatusCall(k, Serving)
    PROVE  ControlInv'
<1>1. call' \in [Clients -> Call] /\ call'[c] = k /\ \A d \in Clients \ {c} : call'[d] = call[d]
  BY DEF Set, ControlInv, ControlTypeOK
<1>2. queue \in Seq(Clients)
  BY DEF ControlInv, ControlTypeOK
<1>3. /\ queue' \in Seq(Clients)
      /\ \A i \in DOMAIN queue' : \/ \E j \in DOMAIN queue : queue'[i] = queue[j]
                                  \/ queue'[i] = c /\ k.at = "send"
  <2>1. CASE UNCHANGED queue
    BY <1>2, <2>1
  <2>2. CASE queue # <<>> /\ queue' = Tail(queue)
    <3>0. /\ Tail(queue) \in Seq(Clients) /\ Len(Tail(queue)) = Len(queue) - 1
          /\ \A i \in 1..Len(Tail(queue)) : Tail(queue)[i] = queue[i + 1]
      BY <1>2, <2>2, HeadTailProperties, Zenon
    <3>1. /\ queue' \in Seq(Clients) /\ Len(queue') = Len(queue) - 1
          /\ \A i \in 1..Len(queue') : queue'[i] = queue[i + 1]
      BY <2>2, <3>0, Zenon
    <3>2. Len(queue) \in Nat /\ DOMAIN queue = 1..Len(queue) /\ DOMAIN queue' = 1..Len(queue')
      BY <1>2, <3>1
    <3>3. \A i \in DOMAIN queue' : i + 1 \in DOMAIN queue
      BY <3>1, <3>2
    <3>4. QED
      BY <3>1, <3>2, <3>3, Zenon
  <2>3. CASE queue' = Append(queue, c) /\ k.at = "send"
    BY <1>2, <2>3
  <2>4. QED
    BY <2>1, <2>2, <2>3
<1>4. \A i \in DOMAIN queue' : call'[queue'[i]].at \notin {"idle", "connect"}
  <2>1. SUFFICES ASSUME NEW i \in DOMAIN queue'
                 PROVE  call'[queue'[i]].at \notin {"idle", "connect"}
    OBVIOUS
  <2>2. CASE \E j \in DOMAIN queue : queue'[i] = queue[j]
    <3>1. PICK j \in DOMAIN queue : queue'[i] = queue[j]
      BY <2>2
    <3>2. queue[j] \in Clients /\ call[queue[j]].at \notin {"idle", "connect"}
      BY <1>2, <3>1 DEF ControlInv
    <3>3. QED
      BY <1>1, <3>1, <3>2
  <2>3. QED
    BY <1>1, <1>3, <2>2
<1>5. UNCHANGED phase /\ UNCHANGED path
  BY DEF daemonVars
<1>6. OneReachable' /\ DaemonTypeOK' /\ Serving' = Serving
  BY <1>5 DEF ControlInv, OneReachable, DaemonTypeOK, OneAtATime, Serving
<1>7. ControlTypeOK'
  BY <1>1, <1>3, <1>6 DEF ControlTypeOK
<1>8. \A d \in Clients : Connection(call'[d])
  BY <1>1 DEF ControlInv
<1>9. \A d \in StatusClients : StatusCall(call'[d], Serving)
  BY <1>1 DEF ControlInv, Clients
<1>10. QED
  BY <1>4, <1>6, <1>7, <1>8, <1>9 DEF ControlInv

\* What is known of a call before the step.
LEMMA CallFacts ==
    ASSUME ControlInv, NEW c \in Clients
    PROVE  /\ call[c] \in Call /\ Connection(call[c])
           /\ c \in StatusClients => StatusCall(call[c], Serving)
           /\ starts \in 0..MaxStarts /\ timeouts \in 0..MaxTimeouts
BY DEF ControlInv, ControlTypeOK

\* Reporting ends a call: what has to be true is what is printed.
LEMMA ReportKeeps ==
    ASSUME ControlInv, NEW c \in Clients, NEW k \in Call, NEW shows \in Answers,
           Report(c, k, shows), UNCHANGED <<daemonVars, queue, starts>>,
           timeouts' \in 0..MaxTimeouts,
           k.own = call[c].own, k.server = call[c].server, k.pending = call[c].pending,
           k.wire = call[c].wire,
           c \in StatusClients =>
              Truthful([k EXCEPT !.at = "done", !.reply = NoReply, !.shows = shows])
    PROVE  ControlInv'
<1> DEFINE said == IF c \in StatusClients THEN shows ELSE "none"
           r    == [k EXCEPT !.at = "done", !.reply = NoReply, !.shows = said]
<1>1. /\ call[c] \in Call /\ Connection(call[c])
      /\ c \in StatusClients => StatusCall(call[c], Serving)
      /\ starts \in 0..MaxStarts
  BY CallFacts
<1>2. r \in Call
  <2>1. said \in Answers
    BY DEF Answers
  <2> HIDE DEF said
  <2>3. QED
    BY <2>1 DEF Call
<1>3. /\ r.at = "done" /\ r.reply = NoReply /\ r.own = k.own /\ r.server = k.server
      /\ r.pending = k.pending /\ r.wire = k.wire
  BY DEF Call
<1>4. Connection(r)
  BY <1>1, <1>3 DEF Connection
<1>5. c \in StatusClients => StatusCall(r, Serving)
  BY <1>1, <1>3 DEF StatusCall
<1>6. Set(c, r)
  BY DEF Report
<1>7. QED
  BY <1>1, <1>2, <1>3, <1>4, <1>5, <1>6, OneCallChanges

-----------------------------------------------------------------------------
(* The client's steps.                                                     *)

\* The socket does not depend on the working directory: values that are not
\* absolute do not count.
LEMMA SocketAnywhere ==
    ASSUME NEW e, NEW cwd, NEW wd
    PROVE  ControlSocket(e, cwd) = ControlSocket(e, wd)
<1>1. ASSUME NEW v, Usable(v) PROVE PathOf(v, cwd) = PathOf(v, wd)
  BY <1>1 DEF Usable, PathOf
<1>2. PickBaseDir(e, cwd) = PickBaseDir(e, wd)
  BY <1>1 DEF PickBaseDir
<1>3. QED
  BY <1>2 DEF ControlSocket

\* A dial keeps the invariant.
LEMMA DialKeeps ==
    ASSUME ControlInv, NEW c \in Clients, Dial(c) PROVE ControlInv'
<1> DEFINE k == [call[c] EXCEPT !.at = "connect"]
<1>1. /\ call[c].at = "idle" /\ c \notin StatusClients /\ Set(c, k)
      /\ UNCHANGED <<daemonVars, starts, queue, timeouts>>
  BY ControlNames DEF Dial
<1>2. call[c] \in Call /\ Connection(call[c]) /\ starts \in 0..MaxStarts /\ timeouts \in 0..MaxTimeouts
  BY CallFacts
<1>3. k \in Call /\ Connection(k)
  BY <1>1, <1>2 DEF Call, Connection
<1>4. QED
  BY <1>1, <1>2, <1>3, OneCallChanges

\* The start of a status call keeps it.
LEMMA BeginKeeps ==
    ASSUME ControlInv, NEW c \in Clients, NEW e \in Environments, NEW cwd \in WorkDirs,
           Begin(c, e, cwd)
    PROVE  ControlInv'
<1> DEFINE k == [call[c] EXCEPT !.since = Serving, !.during = Serving, !.same = (e = DaemonEnv)]
           socket == ControlSocket(e, cwd)
           k2 == [k EXCEPT !.at = "connect",
                           !.here = (socket = ControlSocket(DaemonEnv, DaemonDir))]
<1>1. /\ call[c].at = "idle" /\ c \in StatusClients
      /\ UNCHANGED <<daemonVars, starts, queue, timeouts>>
      /\ \/ Report(c, k, "noVault")
         \/ Report(c, k, "noPath") /\ socket = NoPathFound
         \/ Set(c, k2)
  BY DEF Begin
<1>2. /\ call[c] \in Call /\ Connection(call[c]) /\ StatusCall(call[c], Serving)
      /\ starts \in 0..MaxStarts /\ timeouts \in 0..MaxTimeouts
      /\ Serving \in SUBSET Procs
  BY <1>1, CallFacts DEF Serving
<1>3. /\ k \in Call /\ (k.same <=> e = DaemonEnv) /\ k.since = Serving /\ k.during = Serving
      /\ k.own = call[c].own /\ k.server = call[c].server /\ k.pending = call[c].pending
      /\ k.wire = call[c].wire /\ k.to = call[c].to /\ k.closed = call[c].closed
      /\ k.reply = call[c].reply /\ k.shows = call[c].shows
  <2>1. PICK same \in BOOLEAN : same = (e = DaemonEnv)
    OBVIOUS
  <2>2. k = [call[c] EXCEPT !.since = Serving, !.during = Serving, !.same = same]
    BY <2>1
  <2>3. same <=> e = DaemonEnv
    BY <2>1
  <2> HIDE DEF k
  <2>4. /\ k \in Call /\ k.same = same /\ k.since = Serving /\ k.during = Serving
        /\ k.own = call[c].own /\ k.server = call[c].server /\ k.pending = call[c].pending
        /\ k.wire = call[c].wire /\ k.to = call[c].to /\ k.closed = call[c].closed
        /\ k.reply = call[c].reply /\ k.shows = call[c].shows
    BY <1>2, <2>2 DEF Call
  <2>5. QED
    BY <2>3, <2>4
<1>5. e = DaemonEnv => socket = ControlSocket(DaemonEnv, DaemonDir) /\ socket # NoPathFound
  BY SocketAnywhere, DaemonPath
<1>6. CASE Report(c, k, "noVault")
  <2>1. Truthful([k EXCEPT !.at = "done", !.reply = NoReply, !.shows = "noVault"])
    BY <1>3 DEF Truthful, Call
  <2>2. QED
    BY <1>1, <1>2, <1>3, <1>6, <2>1, ReportKeeps DEF Answers
<1>7. CASE Report(c, k, "noPath") /\ socket = NoPathFound
  <2>1. Truthful([k EXCEPT !.at = "done", !.reply = NoReply, !.shows = "noPath"])
    BY <1>3, <1>5, <1>7 DEF Truthful, Call
  <2>2. QED
    BY <1>1, <1>2, <1>3, <1>7, <2>1, ReportKeeps DEF Answers
<1>8. CASE Set(c, k2)
  <2>1. /\ k2 \in Call
        /\ k2.at = "connect" /\ (k2.here <=> socket = ControlSocket(DaemonEnv, DaemonDir))
        /\ k2.since = k.since /\ k2.during = k.during /\ k2.same = k.same
        /\ k2.own = k.own /\ k2.server = k.server /\ k2.pending = k.pending
        /\ k2.wire = k.wire /\ k2.to = k.to /\ k2.closed = k.closed /\ k2.reply = k.reply
        /\ k2.shows = k.shows
    <3>1. PICK here \in BOOLEAN : here = (socket = ControlSocket(DaemonEnv, DaemonDir))
      OBVIOUS
    <3>2. k2 = [k EXCEPT !.at = "connect", !.here = here]
      BY <3>1
    <3>3. here <=> socket = ControlSocket(DaemonEnv, DaemonDir)
      BY <3>1
    <3> HIDE DEF k, k2, socket
    <3>4. /\ k2 \in Call /\ k2.at = "connect" /\ k2.here = here
          /\ k2.since = k.since /\ k2.during = k.during /\ k2.same = k.same
          /\ k2.own = k.own /\ k2.server = k.server /\ k2.pending = k.pending
          /\ k2.wire = k.wire /\ k2.to = k.to /\ k2.closed = k.closed /\ k2.reply = k.reply
          /\ k2.shows = k.shows
      BY <1>3, <3>2 DEF Call
    <3>5. QED
      BY <3>3, <3>4
  <2> HIDE DEF k2, k, socket
  <2>3. Connection(k2)
    BY <1>1, <1>2, <1>3, <2>1 DEF Connection
  <2>4. StatusCall(k2, Serving)
    BY <1>1, <1>2, <1>3, <1>5, <2>1 DEF Connection, StatusCall, UnderWay, Good, Truthful
  <2>5. QED
    BY <1>1, <1>2, <1>8, <2>1, <2>3, <2>4, OneCallChanges
<1>9. QED
  BY <1>1, <1>6, <1>7, <1>8

\* A status call in its course.
LEMMA CourseFacts ==
    ASSUME ControlInv, NEW c \in StatusClients, call[c].at \in {"connect", "send", "recv"}
    PROVE  /\ UnderWay(call[c], Serving)
           /\ \A p \in call[c].since : p \in Procs /\ path = p /\ phase[p] = "serving"
           /\ \A p, q \in Serving : p = q
<1>1. UnderWay(call[c], Serving)
  BY DEF ControlInv, StatusCall
<1>2. \A p \in Serving : p \in Procs /\ path = p /\ phase[p] = "serving"
  BY DEF ControlInv, OneReachable, Serving
<1>3. \A p, q \in Serving : p = q
  BY <1>2
<1>4. QED
  BY <1>1, <1>2, <1>3 DEF UnderWay

\* Connecting keeps it.
LEMMA ConnectKeeps ==
    ASSUME ControlInv, NEW c \in Clients, Connect(c) PROVE ControlInv'
<1> DEFINE k == [call[c] EXCEPT !.at = "send", !.to = path]
<1>1. /\ call[c].at = "connect" /\ UNCHANGED <<daemonVars, starts, timeouts>>
      /\ \/ /\ path \notin Procs \/ ~call[c].here
            /\ Report(c, call[c], "notRunning") /\ UNCHANGED queue
         \/ path \in Procs /\ queue' = Append(queue, c) /\ Set(c, k)
  BY DEF Connect
<1>2. /\ call[c] \in Call /\ Connection(call[c])
      /\ c \in StatusClients => StatusCall(call[c], Serving)
      /\ starts \in 0..MaxStarts /\ timeouts \in 0..MaxTimeouts
  BY CallFacts
<1>3. CASE /\ path \notin Procs \/ ~call[c].here
           /\ Report(c, call[c], "notRunning") /\ UNCHANGED queue
  <2>1. ASSUME c \in StatusClients
        PROVE  Truthful([call[c] EXCEPT !.at = "done", !.reply = NoReply, !.shows = "notRunning"])
    <3>1. call[c].since = {} \/ ~call[c].same
      BY <1>1, <1>3, <2>1, CourseFacts DEF UnderWay
    <3>2. QED
      BY <1>2, <3>1 DEF Truthful, Call
  <2>2. QED
    BY <1>1, <1>2, <1>3, <2>1, ReportKeeps DEF Answers
<1>4. CASE path \in Procs /\ queue' = Append(queue, c) /\ Set(c, k)
  <2>1. k \in Call
    BY <1>2, <1>4 DEF Call
  <2>2. /\ k.at = "send" /\ k.to = path /\ k.server = call[c].server
        /\ k.closed = call[c].closed /\ k.wire = call[c].wire /\ k.pending = call[c].pending
        /\ k.reply = call[c].reply /\ k.own = call[c].own /\ k.shows = call[c].shows
        /\ k.since = call[c].since /\ k.during = call[c].during /\ k.same = call[c].same
        /\ k.here = call[c].here /\ k.late = call[c].late /\ k.pid = call[c].pid
    BY <1>2 DEF Call
  <2>3. Connection(k)
    BY <1>1, <1>2, <2>2 DEF Connection
  <2>4. ASSUME c \in StatusClients PROVE StatusCall(k, Serving)
    <3>1. UnderWay(k, Serving)
      BY <1>1, <2>2, <2>4, CourseFacts DEF UnderWay, Good
    <3>2. QED
      BY <1>2, <2>2, <2>4, <3>1 DEF StatusCall, Truthful
  <2>5. QED
    BY <1>1, <1>2, <1>4, <2>1, <2>2, <2>3, <2>4, OneCallChanges
<1>5. QED
  BY <1>1, <1>3, <1>4

\* Sending a request keeps it.
LEMMA SendKeeps ==
    ASSUME ControlInv, NEW c \in Clients, Send(c) PROVE ControlInv'
<1>1. /\ call[c].at = "send" /\ UNCHANGED <<daemonVars, starts, queue, timeouts>>
      /\ \/ call[c].closed /\ Report(c, call[c], "error")
         \/ \E r \in Requests : /\ c \in StatusClients => r = "status"
                                /\ Set(c, [call[c] EXCEPT !.at = "recv", !.wire = r])
  BY DEF Send, Requests
<1>2. /\ call[c] \in Call /\ Connection(call[c])
      /\ c \in StatusClients => StatusCall(call[c], Serving)
      /\ starts \in 0..MaxStarts /\ timeouts \in 0..MaxTimeouts
  BY CallFacts
<1>3. CASE call[c].closed /\ Report(c, call[c], "error")
  <2>1. ASSUME c \in StatusClients
        PROVE  Truthful([call[c] EXCEPT !.at = "done", !.reply = NoReply, !.shows = "error"])
    <3>1. call[c].since \subseteq Newer \/ call[c].late
      BY <1>1, <1>2, <1>3, <2>1, CourseFacts DEF UnderWay, Connection
    <3>2. QED
      BY <1>2, <3>1 DEF Truthful, Call
  <2>2. QED
    BY <1>1, <1>2, <1>3, <2>1, ReportKeeps DEF Answers
<1>4. ASSUME NEW r \in Requests, c \in StatusClients => r = "status",
             Set(c, [call[c] EXCEPT !.at = "recv", !.wire = r])
      PROVE  ControlInv'
  <2> DEFINE k == [call[c] EXCEPT !.at = "recv", !.wire = r]
  <2>1. k \in Call
    BY <1>2 DEF Call
  <2>2. /\ k.at = "recv" /\ k.to = call[c].to /\ k.server = call[c].server
        /\ k.closed = call[c].closed /\ k.wire = r /\ k.pending = call[c].pending
        /\ k.reply = call[c].reply /\ k.own = call[c].own /\ k.shows = call[c].shows
        /\ k.since = call[c].since /\ k.during = call[c].during /\ k.same = call[c].same
        /\ k.here = call[c].here /\ k.late = call[c].late /\ k.pid = call[c].pid
    BY <1>2 DEF Call
  <2>3. Connection(k)
    BY <1>1, <1>2, <2>2 DEF Connection
  <2>4. ASSUME c \in StatusClients PROVE StatusCall(k, Serving)
    <3>0. UnderWay(call[c], Serving)
      BY <1>1, <2>4, CourseFacts
    <3> HIDE DEF k
    <3>1. UnderWay(k, Serving)
      BY <1>1, <2>2, <3>0 DEF UnderWay, Good
    <3>2. QED
      BY <1>2, <1>4, <2>2, <2>4, <3>1 DEF StatusCall, Truthful
  <2>5. QED
    BY <1>1, <1>2, <1>4, <2>1, <2>2, <2>3, <2>4, OneCallChanges
<1>5. QED
  BY <1>1, <1>3, <1>4

\* Receiving the answer keeps it.
LEMMA RecvKeeps ==
    ASSUME ControlInv, NEW c \in Clients, Recv(c) PROVE ControlInv'
<1> DEFINE r == call[c].reply
           pid == IF Shows(r) = "running" THEN r.data ELSE NoProc
           k == [call[c] EXCEPT !.pid = pid]
<1>1. /\ call[c].at = "recv" /\ UNCHANGED <<daemonVars, starts, queue, timeouts>>
      /\ \/ r # NoReply /\ Report(c, k, Shows(r))
         \/ r = NoReply /\ call[c].closed /\ Report(c, call[c], "error")
  BY DEF Recv
<1>2. /\ call[c] \in Call /\ Connection(call[c])
      /\ c \in StatusClients => StatusCall(call[c], Serving)
      /\ starts \in 0..MaxStarts /\ timeouts \in 0..MaxTimeouts
  BY CallFacts
<1>3. CASE r # NoReply /\ Report(c, k, Shows(r))
  <2>1. /\ pid \in Procs \cup {NoProc} /\ Shows(r) \in Answers
        /\ Shows(r) \in {"running", "error"}
    BY DEF Shows, Answers
  <2> HIDE DEF pid
  <2>2. /\ k \in Call /\ k.pid = pid /\ k.own = call[c].own /\ k.server = call[c].server
        /\ k.pending = call[c].pending /\ k.wire = call[c].wire
        /\ k.during = call[c].during /\ k.since = call[c].since
    BY <1>2, <2>1 DEF Call
  <2>3. ASSUME c \in StatusClients
        PROVE  Truthful([k EXCEPT !.at = "done", !.reply = NoReply, !.shows = Shows(r)])
    <3>1. UnderWay(call[c], Serving) /\ \A p \in call[c].since : p \in Procs
      BY <1>1, <2>3, CourseFacts
    <3>2. CASE Shows(r) = "running"
      <4>1. pid \in call[c].during \ Newer
        BY <1>3, <3>1, <3>2 DEF pid, Shows, UnderWay, Good
      <4>2. QED
        BY <2>2, <3>2, <4>1 DEF Truthful, Call
    <3>3. CASE Shows(r) = "error"
      <4>1. call[c].since \subseteq Newer
        BY <1>3, <3>1, <3>3 DEF Shows, UnderWay, Good
      <4>2. QED
        BY <2>2, <3>3, <4>1 DEF Truthful, Call
    <3>4. QED
      BY <2>1, <3>2, <3>3
  <2> HIDE DEF k
  <2>4. QED
    BY <1>1, <1>2, <1>3, <2>1, <2>2, <2>3, ReportKeeps
<1>4. CASE r = NoReply /\ call[c].closed /\ Report(c, call[c], "error")
  <2>1. ASSUME c \in StatusClients
        PROVE  Truthful([call[c] EXCEPT !.at = "done", !.reply = NoReply, !.shows = "error"])
    <3>1. call[c].since \subseteq Newer \/ call[c].late
      BY <1>1, <1>4, <2>1, CourseFacts DEF UnderWay
    <3>2. QED
      BY <1>2, <3>1 DEF Truthful, Call
  <2>2. QED
    BY <1>1, <1>2, <1>4, <2>1, ReportKeeps DEF Answers
<1>5. QED
  BY <1>1, <1>3, <1>4

\* Giving up on the answer keeps it.
LEMMA RecvTimeoutKeeps ==
    ASSUME ControlInv, NEW c \in Clients, RecvTimesOut(c) PROVE ControlInv'
<1> DEFINE k == [call[c] EXCEPT !.late = TRUE]
<1>1. Report(c, k, "error") /\ UNCHANGED <<daemonVars, starts, queue>>
  BY DEF RecvTimesOut
<1>2. call[c] \in Call /\ timeouts' \in 0..MaxTimeouts
  BY CallFacts, ControlBounds DEF RecvTimesOut
<1>3. /\ k \in Call /\ k.own = call[c].own /\ k.server = call[c].server
      /\ k.pending = call[c].pending /\ k.wire = call[c].wire
  BY <1>2 DEF Call
<1>4. Truthful([k EXCEPT !.at = "done", !.reply = NoReply, !.shows = "error"])
  BY <1>2 DEF Truthful, Call
<1>5. QED
  BY <1>1, <1>2, <1>3, <1>4, ReportKeeps DEF Answers

-----------------------------------------------------------------------------
(* The daemon's steps.                                                     *)

\* A peer of another uid is closed before a thread is made.
LEMMA AcceptKeeps ==
    ASSUME ControlInv, NEW p \in Procs, Accept(p) PROVE ControlInv'
<1> DEFINE c == Head(queue)
           served == [call[c] EXCEPT !.server = p]
           dropped == [call[c] EXCEPT !.closed = TRUE]
<1>1. /\ phase[p] = "serving" /\ queue # <<>> /\ queue' = Tail(queue)
      /\ UNCHANGED <<daemonVars, starts, timeouts>>
      /\ \/ call[c].own /\ Set(c, served)
         \/ ~call[c].own /\ Set(c, dropped)
  BY DEF Accept, Verify
<1>2. c \in Clients /\ call[c].at \notin {"idle", "connect"}
  <2>1. queue \in Seq(Clients)
    BY DEF ControlInv, ControlTypeOK
  <2>2. 1 \in DOMAIN queue /\ c = queue[1]
    BY <1>1, <2>1
  <2>3. QED
    BY <2>1, <2>2 DEF ControlInv
<1> HIDE DEF c
<1>3. /\ call[c] \in Call /\ Connection(call[c])
      /\ c \in StatusClients => StatusCall(call[c], Serving)
      /\ starts \in 0..MaxStarts /\ timeouts \in 0..MaxTimeouts
  BY <1>2, CallFacts
<1>4. CASE call[c].own /\ Set(c, served)
  <2>1. served \in Call
    BY <1>3 DEF Call
  <2>2. /\ served.at = call[c].at /\ served.to = call[c].to /\ served.server = p
        /\ served.closed = call[c].closed /\ served.wire = call[c].wire
        /\ served.pending = call[c].pending /\ served.reply = call[c].reply
        /\ served.own = call[c].own /\ served.shows = call[c].shows
        /\ served.since = call[c].since /\ served.during = call[c].during
        /\ served.same = call[c].same /\ served.here = call[c].here
        /\ served.late = call[c].late /\ served.pid = call[c].pid
    BY <1>3 DEF Call
  <2> HIDE DEF served
  <2>3. Connection(served)
    BY <1>2, <1>3, <1>4, <2>2 DEF Connection
  <2>4. ASSUME c \in StatusClients, call[c].at \in {"send", "recv"}
        PROVE  UnderWay(served, Serving)
    <3>1. UnderWay(call[c], Serving) /\ \A q, r \in Serving : q = r
      BY <2>4, CourseFacts
    <3>2. p \in Serving
      BY <1>1 DEF Serving
    <3>3. QED
      BY <2>2, <3>1, <3>2 DEF UnderWay, Good
  <2>5. c \in StatusClients => StatusCall(served, Serving)
    BY <1>2, <1>3, <2>2, <2>4 DEF StatusCall, Truthful
  <2>6. QED
    BY <1>1, <1>2, <1>3, <1>4, <2>1, <2>2, <2>3, <2>5, OneCallChanges
<1>5. CASE ~call[c].own /\ Set(c, dropped)
  <2>1. c \notin StatusClients
    BY <1>3, <1>5 DEF StatusCall
  <2>2. dropped \in Call
    BY <1>3 DEF Call
  <2>3. /\ dropped.at = call[c].at /\ dropped.server = call[c].server
        /\ dropped.wire = call[c].wire /\ dropped.to = call[c].to
        /\ dropped.pending = call[c].pending /\ dropped.reply = call[c].reply
        /\ dropped.own = call[c].own
    BY <1>3 DEF Call
  <2>4. Connection(dropped)
    BY <1>2, <1>3, <2>3 DEF Connection
  <2>5. QED
    BY <1>1, <1>2, <1>3, <1>5, <2>1, <2>2, <2>3, <2>4, OneCallChanges
<1>6. QED
  BY <1>1, <1>4, <1>5

\* Every request that can be read has a response.
LEMMA Responses ==
    ASSUME NEW p \in Procs, NEW r \in Requests \ {"cutShort"}
    PROVE  /\ Respond(p, r) \in Replies
           /\ r = "status" => Respond(p, r) = [ok |-> TRUE, data |-> IF p \in Newer THEN "otherShape"
                                                                     ELSE p]
<1>1. CASE r = "status"
  BY <1>1 DEF Respond, Dispatch, Replies
<1>2. CASE r # "status"
  BY <1>2 DEF Respond, Dispatch, Replies, Requests, ErrorKinds
<1>3. QED
  BY <1>1, <1>2

\* The end of a thread.  A status call that has neither been answered nor
\* timed out does not see it.
LEMMA EndThreadKeeps ==
    ASSUME ControlInv, NEW c \in Clients, NEW k \in Call, EndThread(c, k),
           UNCHANGED <<daemonVars, starts, queue>>, timeouts' \in 0..MaxTimeouts,
           call[c].at \notin {"idle", "connect"},
           k.at = call[c].at, k.to = call[c].to, k.wire = call[c].wire, k.own = call[c].own,
           k.shows = call[c].shows, k.since = call[c].since, k.during = call[c].during,
           k.same = call[c].same, k.here = call[c].here, k.pid = call[c].pid,
           \/ k.reply = call[c].reply
           \/ call[c].pending # NoReply /\ k.reply = call[c].pending,
           call[c].late => k.late,
           c \in StatusClients /\ call[c].at \in {"send", "recv"} =>
              k.late \/ k.reply # NoReply
    PROVE  ControlInv'
<1> DEFINE m == [k EXCEPT !.server = NoProc, !.pending = NoReply, !.closed = TRUE]
<1>1. /\ call[c] \in Call /\ Connection(call[c])
      /\ c \in StatusClients => StatusCall(call[c], Serving)
      /\ starts \in 0..MaxStarts
  BY CallFacts
<1>2. /\ m \in Call /\ m.server = NoProc /\ m.pending = NoReply /\ m.closed
      /\ m.at = k.at /\ m.to = k.to /\ m.wire = k.wire /\ m.own = k.own /\ m.shows = k.shows
      /\ m.since = k.since /\ m.during = k.during /\ m.same = k.same /\ m.here = k.here
      /\ m.pid = k.pid /\ m.reply = k.reply /\ m.late = k.late
  BY DEF Call
<1>3. Set(c, m)
  BY DEF EndThread
<1> HIDE DEF m
<1>4. Connection(m)
  BY <1>1, <1>2 DEF Connection
<1>5. ASSUME c \in StatusClients, call[c].at \in {"send", "recv"}
      PROVE  UnderWay(m, Serving)
  <2>1. UnderWay(call[c], Serving)
    BY <1>5, CourseFacts
  <2>2. QED
    BY <1>2, <1>5, <2>1 DEF UnderWay, Good
<1>6. ASSUME c \in StatusClients PROVE StatusCall(m, Serving)
  <2>1. Truthful(m)
    BY <1>1, <1>2, <1>6 DEF StatusCall, Truthful
  <2>2. QED
    BY <1>1, <1>2, <1>5, <1>6, <2>1 DEF StatusCall
<1>7. QED
  BY <1>1, <1>2, <1>3, <1>4, <1>6, OneCallChanges

\* Reading a request keeps it.
LEMMA ReadRequestKeeps ==
    ASSUME ControlInv, NEW c \in Clients, ReadRequest(c) PROVE ControlInv'
<1> DEFINE answer == Respond(call[c].server, call[c].wire)
           k == [call[c] EXCEPT !.pending = answer]
<1>1. /\ call[c].server # NoProc /\ UNCHANGED <<daemonVars, starts, queue, timeouts>>
      /\ \/ call[c].wire \notin {"nothing", "cutShort"} /\ Set(c, k)
         \/ call[c].at = "done" /\ EndThread(c, call[c])
  BY DEF ReadRequest
<1>2. /\ call[c] \in Call /\ Connection(call[c])
      /\ c \in StatusClients => StatusCall(call[c], Serving)
      /\ starts \in 0..MaxStarts /\ timeouts \in 0..MaxTimeouts
  BY CallFacts
<1>3. CASE call[c].at = "done" /\ EndThread(c, call[c])
  BY <1>1, <1>2, <1>3, EndThreadKeeps
<1>4. CASE call[c].wire \notin {"nothing", "cutShort"} /\ Set(c, k)
  <2>1. call[c].server \in Procs /\ call[c].wire \in Requests \ {"cutShort"}
    BY <1>1, <1>2, <1>4 DEF Call
  <2>2. /\ answer \in Replies
        /\ call[c].wire = "status" =>
              answer = [ok |-> TRUE, data |-> IF call[c].server \in Newer THEN "otherShape"
                                              ELSE call[c].server]
    BY <2>1, Responses
  <2> HIDE DEF answer
  <2>3. /\ k \in Call /\ k.pending = answer
        /\ k.at = call[c].at /\ k.to = call[c].to /\ k.wire = call[c].wire /\ k.own = call[c].own
        /\ k.shows = call[c].shows /\ k.since = call[c].since /\ k.during = call[c].during
        /\ k.same = call[c].same /\ k.here = call[c].here /\ k.pid = call[c].pid
        /\ k.reply = call[c].reply /\ k.late = call[c].late /\ k.server = call[c].server
        /\ k.closed = call[c].closed
    BY <1>2, <2>2 DEF Call
  <2> HIDE DEF k
  <2>4. call[c].at \notin {"idle", "connect", "send"} /\ call[c].own
    BY <1>1, <1>2, <1>4 DEF Connection
  <2>5. Connection(k)
    BY <2>3, <2>4 DEF Connection
  <2>6. ASSUME c \in StatusClients, call[c].at = "recv" PROVE UnderWay(k, Serving)
    <3>1. UnderWay(call[c], Serving)
      BY <2>6, CourseFacts
    <3>2. answer = [ok |-> TRUE, data |-> IF call[c].server \in Newer THEN "otherShape"
                                          ELSE call[c].server]
      BY <1>2, <1>4, <2>2, <2>6 DEF StatusCall
    <3>3. /\ answer.ok
          /\ call[c].server \notin Newer => answer.data = call[c].server
          /\ answer.data \in Procs => answer.data = call[c].server /\ call[c].server \notin Newer
      BY <3>2, ControlNames
    <3>4. Good(k.pending, k)
      BY <1>1, <2>3, <3>1, <3>3 DEF UnderWay, Good
    <3>5. QED
      BY <1>1, <2>3, <2>6, <3>1, <3>3, <3>4 DEF UnderWay, Good
  <2>7. ASSUME c \in StatusClients PROVE StatusCall(k, Serving)
    <3>1. Truthful(k)
      BY <1>2, <2>3, <2>7 DEF StatusCall, Truthful
    <3>2. QED
      BY <1>2, <2>3, <2>4, <2>6, <2>7, <3>1 DEF StatusCall
  <2>8. QED
    BY <1>1, <1>2, <1>4, <2>3, <2>5, <2>7, OneCallChanges
<1>5. QED
  BY <1>1, <1>3, <1>4

\* The ways a handler thread ends keep it.
LEMMA ThreadEndKeeps ==
    ASSUME ControlInv, NEW c \in Clients,
           ReadTimesOut(c) \/ SlowClientTimesOut(c) \/ WriteReply(c)
    PROVE  ControlInv'
<1>1. /\ call[c] \in Call /\ Connection(call[c])
      /\ c \in StatusClients => StatusCall(call[c], Serving)
      /\ starts \in 0..MaxStarts /\ timeouts \in 0..MaxTimeouts
  BY CallFacts
<1>2. CASE ReadTimesOut(c)
  <2>1. /\ call[c].server # NoProc /\ call[c].wire = "cutShort" /\ EndThread(c, call[c])
        /\ UNCHANGED <<daemonVars, starts, queue, timeouts>>
    BY <1>2 DEF ReadTimesOut
  <2>2. call[c].at \notin {"idle", "connect"} /\ c \notin StatusClients
    BY <1>1, <2>1 DEF Connection, StatusCall
  <2>3. QED
    BY <1>1, <2>1, <2>2, EndThreadKeeps
<1>3. CASE SlowClientTimesOut(c)
  <2> DEFINE k == [call[c] EXCEPT !.late = TRUE]
  <2>1. /\ call[c].server # NoProc /\ EndThread(c, k)
        /\ UNCHANGED <<daemonVars, starts, queue>>
    BY <1>3 DEF SlowClientTimesOut
  <2>2. timeouts' \in 0..MaxTimeouts
    BY <1>1, <1>3, ControlBounds DEF SlowClientTimesOut
  <2>3. /\ k \in Call /\ k.late
        /\ k.at = call[c].at /\ k.to = call[c].to /\ k.wire = call[c].wire /\ k.own = call[c].own
        /\ k.shows = call[c].shows /\ k.since = call[c].since /\ k.during = call[c].during
        /\ k.same = call[c].same /\ k.here = call[c].here /\ k.pid = call[c].pid
        /\ k.reply = call[c].reply
    BY <1>1 DEF Call
  <2>4. call[c].at \notin {"idle", "connect"}
    BY <1>1, <2>1 DEF Connection
  <2> HIDE DEF k
  <2>5. QED
    BY <1>1, <2>1, <2>2, <2>3, <2>4, EndThreadKeeps
<1>4. CASE WriteReply(c)
  <2> DEFINE k == [call[c] EXCEPT !.reply = call[c].pending]
  <2>1. /\ call[c].pending # NoReply /\ EndThread(c, k)
        /\ UNCHANGED <<daemonVars, starts, queue, timeouts>>
    BY <1>4 DEF WriteReply
  <2>2. /\ k \in Call /\ k.reply = call[c].pending
        /\ k.at = call[c].at /\ k.to = call[c].to /\ k.wire = call[c].wire /\ k.own = call[c].own
        /\ k.shows = call[c].shows /\ k.since = call[c].since /\ k.during = call[c].during
        /\ k.same = call[c].same /\ k.here = call[c].here /\ k.pid = call[c].pid
        /\ k.late = call[c].late
    BY <1>1 DEF Call
  <2>3. call[c].at \notin {"idle", "connect"}
    BY <1>1, <2>1 DEF Connection
  <2> HIDE DEF k
  <2>4. QED
    BY <1>1, <2>1, <2>2, <2>3, EndThreadKeeps
<1>5. QED
  BY <1>2, <1>3, <1>4

-----------------------------------------------------------------------------
(* Steps of the daemons' life.                                             *)

\* What such a step does to a call.
LEMMA DaemonStepCall ==
    ASSUME ControlInv, DaemonStep, NEW c \in Clients
    PROVE  /\ call'[c] \in Call
           /\ call'[c].server = (IF Lost(c) THEN NoProc ELSE call[c].server)
           /\ call'[c].pending = (IF Lost(c) THEN NoReply ELSE call[c].pending)
           /\ call'[c].closed <=> call[c].closed \/ Lost(c)
           /\ call'[c].since = (IF Active(c) THEN call[c].since \cap Serving' ELSE call[c].since)
           /\ call'[c].during = (IF Active(c) THEN call[c].during \cup Serving' ELSE call[c].during)
           /\ call'[c].at = call[c].at /\ call'[c].to = call[c].to
           /\ call'[c].wire = call[c].wire /\ call'[c].own = call[c].own
           /\ call'[c].shows = call[c].shows /\ call'[c].same = call[c].same
           /\ call'[c].here = call[c].here /\ call'[c].pid = call[c].pid
           /\ call'[c].reply = call[c].reply /\ call'[c].late = call[c].late
<1>1. call[c] \in Call
  BY CallFacts
<1> DEFINE server == IF Lost(c) THEN NoProc ELSE call[c].server
           pending == IF Lost(c) THEN NoReply ELSE call[c].pending
           since == IF Active(c) THEN call[c].since \cap Serving' ELSE call[c].since
           during == IF Active(c) THEN call[c].during \cup Serving' ELSE call[c].during
<1>2. PICK closed \in BOOLEAN : closed = (call[c].closed \/ Lost(c))
  OBVIOUS
<1>3. call'[c] = [call[c] EXCEPT !.server = server, !.pending = pending, !.closed = closed,
                                 !.since = since, !.during = during]
  BY <1>2 DEF DaemonStep
<1>4. closed <=> call[c].closed \/ Lost(c)
  BY <1>2
<1>5. /\ server \in Procs \cup {NoProc} /\ pending \in Replies \cup {NoReply}
      /\ since \in SUBSET Procs /\ during \in SUBSET Procs
  BY <1>1 DEF Call, Serving
<1> HIDE DEF server, pending, since, during
<1> DEFINE new == [call[c] EXCEPT !.server = server, !.pending = pending, !.closed = closed,
                                  !.since = since, !.during = during]
<1>6. /\ new.server = server /\ new.pending = pending /\ new.closed = closed
      /\ new.since = since /\ new.during = during
  BY <1>1 DEF Call
<1>7. /\ new.at = call[c].at /\ new.to = call[c].to /\ new.wire = call[c].wire
      /\ new.own = call[c].own /\ new.shows = call[c].shows
  BY <1>1 DEF Call
<1>8. /\ new.same = call[c].same /\ new.here = call[c].here /\ new.pid = call[c].pid
      /\ new.reply = call[c].reply /\ new.late = call[c].late
  BY <1>1 DEF Call
<1>9. new \in Call
  BY <1>1, <1>5 DEF Call
<1>10. call'[c] = new
  BY <1>3
<1> HIDE DEF new
<1>11. call'[c].closed <=> call[c].closed \/ Lost(c)
  BY <1>4, <1>6, <1>10
<1>12. QED
  BY <1>6, <1>7, <1>8, <1>9, <1>10, <1>11 DEF server, pending, since, during

\* A call connected to a daemon that goes on serving is not lost.
LEMMA NotLost ==
    ASSUME ControlInv, NEW c \in StatusClients, call[c].at \in {"connect", "send", "recv"},
           NEW p \in call[c].since \cap Serving'
    PROVE  ~Lost(c)
<1>1. /\ UnderWay(call[c], Serving) /\ Connection(call[c]) /\ c \in Clients
  BY CourseFacts DEF ControlInv, Clients
<1>2. phase'[p] = "serving" /\ p \in Listening'
  BY DEF Serving, Listening
<1>3. call[c].server # NoProc => phase'[call[c].server] # "off"
  BY <1>1, <1>2 DEF UnderWay
<1>4. call[c].to \notin Listening \ Listening'
  <2>1. CASE call[c].at = "connect"
    BY <1>1, <2>1, ControlNames DEF Connection, Listening
  <2>2. CASE call[c].at # "connect"
    BY <1>1, <1>2, <2>2 DEF UnderWay
  <2>3. QED
    BY <2>1, <2>2
<1>5. QED
  BY <1>3, <1>4 DEF Lost

\* A daemon that starts, stops or crashes keeps it: its calls break off.
LEMMA DaemonStepKeeps ==
    ASSUME ControlInv, DaemonStep PROVE ControlInv'
<1>1. OneReachable'
  BY StepKeepsOneReachable DEF ControlInv, DaemonStep
<1>2. call' \in [Clients -> Call]
  <2>1. call' = [c \in Clients |-> call'[c]]
    BY DEF DaemonStep
  <2>2. \A c \in Clients : call'[c] \in Call
    BY DaemonStepCall
  <2>3. QED
    BY <2>1, <2>2
<1>3. queue' \in Seq(Clients) /\ (queue' = queue \/ queue' = <<>>)
  <2>1. queue' = queue \/ queue' = <<>>
    BY DEF DaemonStep
  <2>2. queue \in Seq(Clients) /\ <<>> \in Seq(Clients)
    BY DEF ControlInv, ControlTypeOK
  <2>3. QED
    BY <2>1, <2>2, Zenon
<1>4. starts' \in 0..MaxStarts /\ timeouts' \in 0..MaxTimeouts
  <2>1. /\ starts' = starts \/ starts' = starts + 1
        /\ starts' <= MaxStarts /\ timeouts' = timeouts
    BY DEF DaemonStep
  <2>2. starts \in 0..MaxStarts /\ timeouts \in 0..MaxTimeouts
    BY DEF ControlInv, ControlTypeOK
  <2>3. QED
    BY <2>1, <2>2, ControlBounds
<1>5. ControlTypeOK'
  BY <1>1, <1>2, <1>3, <1>4 DEF ControlTypeOK, OneReachable
<1>6. \A c \in Clients : Connection(call'[c])
  <2>1. SUFFICES ASSUME NEW c \in Clients PROVE Connection(call'[c])
    OBVIOUS
  <2>2. Connection(call[c])
    BY DEF ControlInv
  <2>3. call[c].to = NoProc /\ call[c].server = NoProc => ~Lost(c)
    BY ControlNames DEF Lost, Listening
  <2>4. QED
    BY <2>2, <2>3, DaemonStepCall DEF Connection
<1>7. \A i \in DOMAIN queue' : call'[queue'[i]].at \notin {"idle", "connect"}
  <2>1. CASE queue' = <<>>
    BY <2>1
  <2>2. CASE queue' = queue
    <3>1. SUFFICES ASSUME NEW i \in DOMAIN queue
                   PROVE  call'[queue[i]].at \notin {"idle", "connect"}
      BY <2>2
    <3>2. queue[i] \in Clients /\ call[queue[i]].at \notin {"idle", "connect"}
      BY <3>1 DEF ControlInv, ControlTypeOK
    <3>3. QED
      BY <3>2, DaemonStepCall
  <2>3. QED
    BY <1>3, <2>1, <2>2
<1>8. \A c \in StatusClients : StatusCall(call'[c], Serving')
  <2>1. SUFFICES ASSUME NEW c \in StatusClients PROVE StatusCall(call'[c], Serving')
    OBVIOUS
  <2>2. c \in Clients /\ StatusCall(call[c], Serving)
    BY DEF ControlInv, Clients
  <2>3. CASE call[c].at \in {"connect", "send", "recv"}
    <3>1. UnderWay(call[c], Serving) /\ Active(c)
      BY <2>3, CourseFacts DEF Active
    <3>2. \A p \in call[c].since \cap Serving' : ~Lost(c)
      BY <2>3, NotLost
    <3>3. /\ call'[c].since = call[c].since \cap Serving'
          /\ call'[c].during = call[c].during \cup Serving'
          /\ call'[c].server = (IF Lost(c) THEN NoProc ELSE call[c].server)
          /\ call'[c].pending = (IF Lost(c) THEN NoReply ELSE call[c].pending)
          /\ call'[c].closed <=> call[c].closed \/ Lost(c)
          /\ call'[c].at = call[c].at /\ call'[c].to = call[c].to
          /\ call'[c].wire = call[c].wire /\ call'[c].own = call[c].own
          /\ call'[c].shows = call[c].shows /\ call'[c].same = call[c].same
          /\ call'[c].here = call[c].here /\ call'[c].pid = call[c].pid
          /\ call'[c].reply = call[c].reply /\ call'[c].late = call[c].late
      BY <2>2, <3>1, DaemonStepCall
    <3>4. UnderWay(call'[c], Serving')
      <4>1. /\ call'[c].shows = "none" /\ (call'[c].same => call'[c].here)
            /\ call'[c].since \subseteq Serving' /\ Serving' \subseteq call'[c].during
            /\ call'[c].server # NoProc => call'[c].server \in call'[c].during
        BY <3>1, <3>3 DEF UnderWay
      <4>2. Good(call'[c].pending, call'[c]) /\ Good(call'[c].reply, call'[c])
        BY <3>1, <3>3 DEF UnderWay, Good
      <4>3. ASSUME NEW p \in call'[c].since
            PROVE  /\ call'[c].at # "connect" => call'[c].to = p
                   /\ call'[c].server # NoProc => call'[c].server = p
                   /\ p \notin Newer =>
                         /\ call'[c].pending # NoReply => call'[c].pending.data = p
                         /\ call'[c].reply # NoReply => call'[c].reply.data = p
                         /\ call'[c].closed => call'[c].reply # NoReply \/ call'[c].late
        BY <3>1, <3>2, <3>3, <4>3 DEF UnderWay
      <4>4. QED
        BY <4>1, <4>2, <4>3 DEF UnderWay
    <3>5. QED
      BY <2>2, <2>3, <3>1, <3>3, <3>4 DEF StatusCall, Truthful, UnderWay
  <2>4. CASE call[c].at \notin {"connect", "send", "recv"}
    <3>1. /\ ~Active(c)
      BY <2>4 DEF Active
    <3>2. /\ call'[c].since = call[c].since /\ call'[c].during = call[c].during
          /\ call'[c].at = call[c].at /\ call'[c].wire = call[c].wire
          /\ call'[c].own = call[c].own /\ call'[c].shows = call[c].shows
          /\ call'[c].same = call[c].same /\ call'[c].pid = call[c].pid
          /\ call'[c].late = call[c].late
      BY <2>2, <3>1, DaemonStepCall
    <3>3. QED
      BY <2>2, <2>4, <3>2 DEF StatusCall, Truthful
  <2>5. QED
    BY <2>3, <2>4
<1>9. QED
  BY <1>1, <1>5, <1>6, <1>7, <1>8 DEF ControlInv

-----------------------------------------------------------------------------
(* The theorems.                                                           *)

\* Every step keeps the invariant.
LEMMA ControlInvStep == ASSUME ControlInv, [ControlNext]_controlVars PROVE ControlInv'
<1>1. CASE UNCHANGED controlVars
  <2>1. UNCHANGED <<phase, path, call, queue, starts, timeouts>>
    BY <1>1 DEF controlVars, daemonVars
  <2>2. Serving' = Serving
    BY <2>1 DEF Serving
  <2>3. QED
    BY <2>1, <2>2 DEF ControlInv, ControlTypeOK, OneReachable, DaemonTypeOK, OneAtATime
<1>2. CASE ControlNext
  BY <1>2, DaemonStepKeeps, AcceptKeeps, DialKeeps, BeginKeeps, RecvTimeoutKeeps, ConnectKeeps,
     SendKeeps, RecvKeeps, ReadRequestKeeps, ThreadEndKeeps
     DEF ControlNext, ClientStep, ThreadStep
<1>3. QED
  BY <1>1, <1>2

\* It holds at first.
LEMMA ControlInvInit == ASSUME ControlInit PROVE ControlInv
<1>1. OneReachable /\ DaemonTypeOK
  BY PathAssumption DEF ControlInit, DaemonInit, OneReachable, DaemonTypeOK, OneAtATime, Phases
<1>2. \A c \in Clients :
         /\ call[c] \in Call
         /\ call[c].at = "idle" /\ call[c].to = NoProc /\ call[c].server = NoProc
         /\ ~call[c].closed /\ call[c].wire = "nothing" /\ call[c].pending = NoReply
         /\ call[c].reply = NoReply /\ call[c].shows = "none"
  <2>1. SUFFICES ASSUME NEW c \in Clients
                 PROVE  /\ call[c] \in Call
                        /\ call[c].at = "idle" /\ call[c].to = NoProc /\ call[c].server = NoProc
                        /\ ~call[c].closed /\ call[c].wire = "nothing" /\ call[c].pending = NoReply
                        /\ call[c].reply = NoReply /\ call[c].shows = "none"
    OBVIOUS
  <2>2. \E own \in BOOLEAN : call[c] =
           [at |-> "idle", own |-> own, same |-> TRUE, here |-> TRUE, to |-> NoProc,
            server |-> NoProc, wire |-> "nothing", pending |-> NoReply, reply |-> NoReply,
            closed |-> FALSE, shows |-> "none", pid |-> NoProc, late |-> FALSE,
            since |-> {}, during |-> {}]
    BY DEF ControlInit
  <2>3. PICK own \in BOOLEAN : call[c] =
           [at |-> "idle", own |-> own, same |-> TRUE, here |-> TRUE, to |-> NoProc,
            server |-> NoProc, wire |-> "nothing", pending |-> NoReply, reply |-> NoReply,
            closed |-> FALSE, shows |-> "none", pid |-> NoProc, late |-> FALSE,
            since |-> {}, during |-> {}]
    BY <2>2
  <2>4. call[c] \in Call
    BY <2>3 DEF Call, Answers
  <2>5. QED
    BY <2>3, <2>4
<1>3. call \in [Clients -> Call]
  BY <1>2 DEF ControlInit
<1>4. ControlTypeOK
  BY <1>1, <1>3, ControlBounds DEF ControlInit, ControlTypeOK
<1>5. \A c \in Clients : Connection(call[c])
  BY <1>2 DEF Connection
<1>6. \A c \in StatusClients : StatusCall(call[c], Serving)
  BY <1>2 DEF ControlInit, StatusCall, Truthful, Clients
<1>7. QED
  BY <1>1, <1>4, <1>5, <1>6 DEF ControlInv, ControlInit

\* It holds always.
LEMMA ControlInvAlways == ControlSpec => []ControlInv
<1>1. ControlInv /\ [ControlNext]_controlVars => ControlInv'
  BY ControlInvStep
<1>2. QED
  BY <1>1, ControlInvInit, PTL DEF ControlSpec

\* PeersOnly, for any number of clients and daemons: no response reaches a
\* peer of another uid, and no thread is spent on one.
THEOREM OnlyPeersServed == ControlSpec => []PeersOnly
<1>1. ControlInv => PeersOnly
  BY DEF ControlInv, Connection, PeersOnly
<1>2. QED
  BY <1>1, ControlInvAlways, PTL

\* StatusTruthful, for any number of clients, daemons, versions and
\* time-outs: what `invisibool status` prints is true of the time of its
\* call.
THEOREM StatusIsTruthful == ControlSpec => []StatusTruthful
<1>1. ControlInv => StatusTruthful
  BY DEF ControlInv, StatusCall, Truthful, StatusTruthful
<1>2. QED
  BY <1>1, ControlInvAlways, PTL

=============================================================================
