--------------------------- MODULE SingleInstance ---------------------------
(***************************************************************************)
(* How a daemon becomes and stops being the one instance that owns the     *)
(* control socket: lifecycle.rs (flock on ctl.lock, stale-socket probe),   *)
(* transport.rs (bind) and the start and shutdown sequence of the daemon   *)
(* stub, the only daemon in the repository.                                *)
(*                                                                         *)
(* A step is one system call.  Files are named by paths, but flock and     *)
(* connect act on what was opened or bound: the lock is on an inode, and a *)
(* socket file answers only while the process that bound it listens.       *)
(* Both kinds of object are numbers drawn from a counter; 0 is none.       *)
(***************************************************************************)
EXTENDS Naturals, FiniteSets

CONSTANTS
    Daemons,    \* processes
    Overlap,    \* whether a daemon may start while another one stops
    MaxStarted, \* bound on daemons started
    MaxKills    \* bound on daemons killed

ASSUME InstanceBounds ==
    Overlap \in BOOLEAN /\ MaxStarted \in Nat /\ MaxKills \in Nat

\* What OneDaemon calls an empty path and a dead socket are not processes.
ASSUME PathNames == {"none", "dead"} \cap Daemons = {}

None == 0

Steps == {"off", "prepare", "chmodDir", "open", "flock", "exists", "probe", "unlinkStale", "bind",
          "listen", "chmod", "serve", "unlinkSocket", "close", "unlock",
          "unlinkLock"}

Results == {"none", "dirMode", "lockHeld", "peerLive", "cleanupFailed", "bindFailed",
            "stopped", "killed"}

VARIABLES
    pc,         \* next system call of each process
    dir,        \* the parent directory: its mode, or that it is missing
    lockPath,   \* the inode ctl.lock names
    sockPath,   \* the socket the socket path names
    fd,         \* the lock inode each process has open
    locked,     \* the inodes each process holds a flock on
    sock,       \* the socket each process has bound
    listening,  \* sockets that accept connections
    fresh,      \* number of inodes and sockets created so far
    result,     \* how each process ended
    started,    \* daemons started
    kills       \* daemons killed

vars == <<pc, dir, lockPath, sockPath, fd, locked, sock, listening, fresh, result,
          started, kills>>

TypeOK ==
    /\ pc \in [Daemons -> Steps]
    /\ dir \in {"missing", "umask", "0700"}
    /\ lockPath \in Nat
    /\ sockPath \in Nat
    /\ fd \in [Daemons -> Nat]
    /\ locked \in [Daemons -> SUBSET Nat]
    /\ sock \in [Daemons -> Nat]
    /\ listening \subseteq Nat
    /\ fresh \in Nat
    /\ result \in [Daemons -> Results]
    /\ started \in 0..MaxStarted
    /\ kills \in 0..MaxKills

Init ==
    /\ pc = [p \in Daemons |-> "off"]
    /\ dir = "missing"
    /\ lockPath = None
    /\ sockPath = None
    /\ fd = [p \in Daemons |-> None]
    /\ locked = [p \in Daemons |-> {}]
    /\ sock = [p \in Daemons |-> None]
    /\ listening = {}
    /\ fresh = 0
    /\ result = [p \in Daemons |-> "none"]
    /\ started = 0
    /\ kills = 0

Goto(p, step) == pc' = [pc EXCEPT ![p] = step] /\ UNCHANGED result

\* The process is gone: the kernel closes its descriptors, which releases
\* its flock and stops its socket; the files stay.
Gone(p, how) ==
    /\ pc' = [pc EXCEPT ![p] = "off"]
    /\ result' = [result EXCEPT ![p] = how]
    /\ fd' = [fd EXCEPT ![p] = None]
    /\ locked' = [locked EXCEPT ![p] = {}]
    /\ listening' = listening \ {sock[p]}
    /\ sock' = [sock EXCEPT ![p] = None]

Stopping == {"unlinkSocket", "close", "unlock", "unlinkLock"}

Start(p) ==
    /\ pc[p] = "off"
    /\ Overlap \/ \A q \in Daemons : pc[q] \notin Stopping
    /\ started < MaxStarted
    /\ started' = started + 1
    /\ pc' = [pc EXCEPT ![p] = "prepare"]
    /\ result' = [result EXCEPT ![p] = "none"]
    /\ UNCHANGED <<dir, lockPath, sockPath, fd, locked, sock, listening, fresh, kills>>

-----------------------------------------------------------------------------
(* prepare_parent_dir_0700: a directory of another mode is refused, never   *)
(* changed; a missing one is created with the mode the umask gives and then *)
(* set to 0700, in two calls.                                               *)

PrepareDir(p) ==
    /\ pc[p] = "prepare"
    /\ CASE dir = "umask" ->
               Gone(p, "dirMode") /\ UNCHANGED dir
         [] dir = "0700" ->
               Goto(p, "open") /\ UNCHANGED <<dir, fd, locked, sock, listening>>
         [] dir = "missing" ->
               /\ dir' = "umask"
               /\ Goto(p, "chmodDir")
               /\ UNCHANGED <<fd, locked, sock, listening>>
    /\ UNCHANGED <<lockPath, sockPath, fresh, started, kills>>

ChmodDir(p) ==
    /\ pc[p] = "chmodDir"
    /\ dir' = "0700"
    /\ Goto(p, "open")
    /\ UNCHANGED <<lockPath, sockPath, fd, locked, sock, listening, fresh,
                   started, kills>>

-----------------------------------------------------------------------------
(* SingleInstanceLock::acquire.                                            *)

\* Faulty variant: the lock file is created anew, replacing the one a
\* running daemon has locked.
OpenLockRecreates(p) ==
    /\ pc[p] = "open"
    /\ fresh' = fresh + 1
    /\ lockPath' = fresh + 1
    /\ fd' = [fd EXCEPT ![p] = fresh + 1]
    /\ Goto(p, "flock")
    /\ UNCHANGED <<dir, sockPath, locked, sock, listening, started, kills>>

OpenLock(p) ==
    /\ pc[p] = "open"
    /\ IF lockPath = None
       THEN fresh' = fresh + 1 /\ lockPath' = fresh + 1
       ELSE UNCHANGED <<fresh, lockPath>>
    /\ fd' = [fd EXCEPT ![p] = lockPath']
    /\ Goto(p, "flock")
    /\ UNCHANGED <<dir, sockPath, locked, sock, listening, started, kills>>

\* Faulty variant: a failed flock is not noticed.
FlockIgnored(p) ==
    /\ pc[p] = "flock"
    /\ locked' = [locked EXCEPT ![p] = {fd[p]}]
    /\ Goto(p, "exists")
    /\ UNCHANGED <<dir, lockPath, sockPath, fd, sock, listening, fresh, started, kills>>

Flock(p) ==
    /\ pc[p] = "flock"
    /\ IF \E q \in Daemons : fd[p] \in locked[q]
       THEN Gone(p, "lockHeld")
       ELSE /\ locked' = [locked EXCEPT ![p] = {fd[p]}]
            /\ Goto(p, "exists")
            /\ UNCHANGED <<fd, sock, listening>>
    /\ UNCHANGED <<dir, lockPath, sockPath, fresh, started, kills>>

-----------------------------------------------------------------------------
(* cleanup_stale_socket: three system calls on the same path.              *)

SocketExists(p) ==
    /\ pc[p] = "exists"
    /\ Goto(p, IF sockPath = None THEN "bind" ELSE "probe")
    /\ UNCHANGED <<dir, lockPath, sockPath, fd, locked, sock, listening, fresh,
                   started, kills>>

\* Faulty variant: a socket file counts as a live peer.
ProbeTrustsFile(p) ==
    /\ pc[p] = "probe"
    /\ Gone(p, "peerLive")
    /\ UNCHANGED <<dir, lockPath, sockPath, fresh, started, kills>>

\* A listener makes the probe report Live; a path that is gone or a socket
\* nobody listens on (dead, or bound and not yet listening) makes it Stale.
Probe(p) ==
    /\ pc[p] = "probe"
    /\ IF sockPath \in listening
       THEN Gone(p, "peerLive")
       ELSE Goto(p, "unlinkStale") /\ UNCHANGED <<fd, locked, sock, listening>>
    /\ UNCHANGED <<dir, lockPath, sockPath, fresh, started, kills>>

UnlinkStale(p) ==
    /\ pc[p] = "unlinkStale"
    /\ IF sockPath = None
       THEN Gone(p, "cleanupFailed") /\ UNCHANGED sockPath
       ELSE /\ sockPath' = None
            /\ Goto(p, "bind")
            /\ UNCHANGED <<fd, locked, sock, listening>>
    /\ UNCHANGED <<dir, lockPath, fresh, started, kills>>

-----------------------------------------------------------------------------
(* UnixServer::bind: bind(2), listen(2), chmod and the check of the mode.  *)

\* prepare_parent_dir: main has made the directory; one of another mode is
\* refused, never changed.
PrepareParentDir == dir = "0700"

Bind(p) ==
    /\ pc[p] = "bind"
    /\ IF ~PrepareParentDir \/ sockPath # None
       THEN /\ Gone(p, IF PrepareParentDir THEN "bindFailed" ELSE "dirMode")
            /\ UNCHANGED <<sockPath, fresh>>
       ELSE /\ fresh' = fresh + 1
            /\ sockPath' = fresh + 1
            /\ sock' = [sock EXCEPT ![p] = fresh + 1]
            /\ Goto(p, "listen")
            /\ UNCHANGED <<fd, locked, listening>>
    /\ UNCHANGED <<dir, lockPath, started, kills>>

Listen(p) ==
    /\ pc[p] = "listen"
    /\ listening' = listening \cup {sock[p]}
    /\ Goto(p, "chmod")
    /\ UNCHANGED <<dir, lockPath, sockPath, fd, locked, sock, fresh, started, kills>>

\* set_socket_mode goes by the path, whatever it names by now.
Chmod(p) ==
    /\ pc[p] = "chmod"
    /\ IF sockPath = None
       THEN Gone(p, "bindFailed")
       ELSE Goto(p, "serve") /\ UNCHANGED <<fd, locked, sock, listening>>
    /\ UNCHANGED <<dir, lockPath, sockPath, fresh, started, kills>>

-----------------------------------------------------------------------------
(* Shutdown: remove the socket file, drop the server, then drop the lock:  *)
(* LOCK_UN first, remove ctl.lock second.                                  *)

Shutdown(p) ==
    /\ pc[p] = "serve"
    /\ Overlap \/ \A q \in Daemons \ {p} : pc[q] \in {"off", "serve"}
    /\ Goto(p, "unlinkSocket")
    /\ UNCHANGED <<dir, lockPath, sockPath, fd, locked, sock, listening, fresh,
                   started, kills>>

UnlinkSocket(p) ==
    /\ pc[p] = "unlinkSocket"
    /\ sockPath' = None
    /\ Goto(p, "close")
    /\ UNCHANGED <<dir, lockPath, fd, locked, sock, listening, fresh, started, kills>>

CloseServer(p) ==
    /\ pc[p] = "close"
    /\ listening' = listening \ {sock[p]}
    /\ sock' = [sock EXCEPT ![p] = None]
    /\ Goto(p, "unlock")
    /\ UNCHANGED <<dir, lockPath, sockPath, fd, locked, fresh, started, kills>>

Unlock(p) ==
    /\ pc[p] = "unlock"
    /\ locked' = [locked EXCEPT ![p] = {}]
    /\ Goto(p, "unlinkLock")
    /\ UNCHANGED <<dir, lockPath, sockPath, fd, sock, listening, fresh, started, kills>>

UnlinkLock(p) ==
    /\ pc[p] = "unlinkLock"
    /\ lockPath' = None
    /\ Gone(p, "stopped")
    /\ UNCHANGED <<dir, sockPath, fresh, started, kills>>

Kill(p) ==
    /\ pc[p] # "off"
    /\ kills < MaxKills
    /\ kills' = kills + 1
    /\ Gone(p, "killed")
    /\ UNCHANGED <<dir, lockPath, sockPath, fresh, started>>

-----------------------------------------------------------------------------
Step(p) ==
    \/ PrepareDir(p) \/ ChmodDir(p)
    \/ OpenLock(p) \/ Flock(p)
    \/ SocketExists(p) \/ Probe(p) \/ UnlinkStale(p)
    \/ Bind(p) \/ Listen(p) \/ Chmod(p)
    \/ UnlinkSocket(p) \/ CloseServer(p) \/ Unlock(p) \/ UnlinkLock(p)

Next == \E p \in Daemons : Start(p) \/ Step(p) \/ Shutdown(p) \/ Kill(p)

Spec == Init /\ [][Next]_vars

\* A daemon that was started keeps being scheduled.
FairSpec == Spec /\ \A p \in Daemons : WF_vars(Step(p))

-----------------------------------------------------------------------------
(* Properties.                                                             *)

Servers == {p \in Daemons : pc[p] = "serve"}

\* "Two daemon-stubs against the same socket path cannot both run",
\* however they start and die; without overlap of a start and a shutdown.
AtMostOneServing == \A p, q \in Servers : p = q

\* While a daemon serves, the socket path leads to it: no other daemon that
\* starts, probes, cleans up, stops or dies ever takes the path away.
ServerReachable ==
    /\ TypeOK
    /\ \A p \in Servers : sockPath = sock[p] /\ sock[p] \in listening

\* The daemon a listening socket file leads to.
AbstractPath ==
    IF sockPath = None THEN "none"
    ELSE IF \E p \in Daemons : sock[p] = sockPath /\ sockPath \in listening
    THEN CHOOSE p \in Daemons : sock[p] = sockPath
    ELSE "dead"

AbstractPhase(p) ==
    CASE pc[p] = "chmod"                    -> "up"
      [] pc[p] = "serve"                    -> "serving"
      [] pc[p] \in {"unlinkSocket", "close"} -> "stopping"
      [] pc[p] \in {"unlock", "unlinkLock"}  -> "closed"
      [] OTHER                              -> "off"

Daemon == INSTANCE OneDaemon WITH
    Procs <- Daemons, NoPath <- "none", Dead <- "dead",
    phase <- [p \in Daemons |-> AbstractPhase(p)], path <- AbstractPath

\* Implementation of OneDaemon: seen from the socket path, every system call
\* of every daemon, in whatever order they start, probe, clean up, stop and
\* die, is one of the abstract steps or changes nothing.
RefinesOneDaemon == Daemon!DaemonSpec

\* A daemon started on a private directory comes to serve, unless the lock
\* was held or it was killed: the flock alone decides, and a lock file or a
\* socket file left behind by a crash never stops the next daemon.  (What
\* does stop every later one is a directory whose creator died before it
\* set the mode: the code refuses it, hence the condition on dir.)
StartedServes ==
    \A p \in Daemons :
       (pc[p] = "open" \/ (pc[p] = "prepare" /\ dir = "0700"))
          ~> (pc[p] = "serve" \/ result[p] \in {"lockHeld", "killed"})

=============================================================================
