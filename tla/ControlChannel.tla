--------------------------- MODULE ControlChannel ---------------------------
(***************************************************************************)
(* The control channel on top of OneDaemon: clients dial the socket the    *)
(* daemons take turns at, send one framed request and read one framed      *)
(* response (transport.rs dial_once, wire.rs); the daemon accepts, checks  *)
(* the peer and serves each connection in a thread of its own (serve_one). *)
(* `invisibool status` is one of the clients.                              *)
(*                                                                         *)
(* Every client makes one call.  Framing and JSON are abstracted to what   *)
(* the decoder makes of the bytes: a request the daemon knows, one it does *)
(* not, bytes that are no JSON, a length over MAX_FRAME_BYTES, or a frame  *)
(* that stops in the middle.                                               *)
(***************************************************************************)
EXTENDS OneDaemon, Environment, Naturals, Sequences

CONSTANTS
    StatusClients,  \* `invisibool status` processes
    OtherClients,   \* other programs that dial the socket
    Newer,          \* daemons of another version: their status data differs
    Environments,   \* environments `invisibool status` is run in
    DaemonEnv,      \* the one the daemons are started in
    WorkDirs,       \* working directories
    DaemonDir,      \* the daemons'
    Backlog,        \* LISTEN_BACKLOG
    MaxStarts,      \* bound on daemons started
    MaxTimeouts     \* bound on read time-outs that race with an answer

ASSUME ControlBounds == Backlog \in Nat /\ MaxStarts \in Nat /\ MaxTimeouts \in Nat
ASSUME DaemonPath == ControlSocket(DaemonEnv, DaemonDir) # NoPathFound

Clients == StatusClients \cup OtherClients

NoProc == "nobody"

\* A program is one or the other, and what stands for no daemon is none.
ASSUME ControlNames ==
    /\ StatusClients \cap OtherClients = {}
    /\ {NoProc, "otherShape"} \cap Procs = {}

\* What can arrive where the daemon expects a request.
Requests == {"status", "pause", "unknown", "notJson", "tooLarge", "cutShort"}

ErrorKinds == {"notImplemented", "frameTooLarge", "badJson", "unknownCmd"}

Replies == [ok : {TRUE}, data : Procs \cup {"otherShape"}]
              \cup [ok : {FALSE}, kind : ErrorKinds]

NoReply == [ok |-> FALSE, kind |-> "none"]

\* What status prints: exit code 0 for the first two, 3 for the others.
Answers == {"none", "running", "notRunning", "noVault", "noPath", "error"}

VARIABLES
    call,       \* each client's call and the connection that carries it
    queue,      \* connections the daemon has not accepted yet
    starts,     \* daemons started so far
    timeouts    \* racing time-outs so far

controlVars == <<daemonVars, call, queue, starts, timeouts>>

\* at:      where the client is
\* own:     whether the client runs under the daemon's uid
\* same:    whether it runs in the daemon's environment
\* here:    whether it dials the daemon's socket
\* to:      the daemon whose socket it is connected to
\* server:  the daemon with a thread for this connection
\* wire:    what the client has written
\* pending: the response the thread is about to write
\* reply:   the response written
\* closed:  whether the daemon's end is closed
\* shows, pid: what the client reports
\* late:    whether a time-out cut the call short
\* since:   daemons that have served ever since the call began
\* during:  daemons that served at some time of the call
Call ==
    [at : {"idle", "connect", "send", "recv", "done"}, own : BOOLEAN,
     same : BOOLEAN, here : BOOLEAN,
     to : Procs \cup {NoProc}, server : Procs \cup {NoProc},
     wire : Requests \cup {"nothing"},
     pending : Replies \cup {NoReply}, reply : Replies \cup {NoReply},
     closed : BOOLEAN, shows : Answers, pid : Procs \cup {NoProc},
     late : BOOLEAN, since : SUBSET Procs, during : SUBSET Procs]

ControlTypeOK ==
    /\ DaemonTypeOK
    /\ call \in [Clients -> Call]
    /\ queue \in Seq(Clients)
    /\ starts \in 0..MaxStarts
    /\ timeouts \in 0..MaxTimeouts

Serving == {p \in Procs : phase[p] = "serving"}

Listening == {p \in Procs : phase[p] \in {"up", "serving", "stopping"}}

ControlInit ==
    /\ DaemonInit
    /\ call \in [Clients ->
          {[at |-> "idle", own |-> own, same |-> TRUE, here |-> TRUE, to |-> NoProc, server |-> NoProc,
            wire |-> "nothing", pending |-> NoReply, reply |-> NoReply,
            closed |-> FALSE, shows |-> "none", pid |-> NoProc,
            late |-> FALSE, since |-> {}, during |-> {}] : own \in BOOLEAN}]
    /\ \A c \in StatusClients : call[c].own
    /\ queue = <<>>
    /\ starts = 0
    /\ timeouts = 0

\* A status call under way, whose history is kept.
Active(c) == c \in StatusClients /\ call[c].at \in {"connect", "send", "recv"}

-----------------------------------------------------------------------------
(* The client: dial_once and what status makes of its result.              *)

Set(c, k) == call' = [call EXCEPT ![c] = k]

\* The client drops its end and reports.
Report(c, k, shows) ==
    Set(c, [k EXCEPT !.at = "done", !.reply = NoReply,
                     !.shows = IF c \in StatusClients THEN shows ELSE "none"])

\* A program that knows the socket.
Dial(c) ==
    /\ call[c].at = "idle"
    /\ c \in OtherClients
    /\ Set(c, [call[c] EXCEPT !.at = "connect"])
    /\ UNCHANGED <<daemonVars, starts, queue, timeouts>>

\* run and status: the vault path is resolved before any command is looked
\* at, then the socket path; without one of them the command ends.
Begin(c, e, cwd) ==
    LET k == [call[c] EXCEPT !.since = Serving, !.during = Serving,
                             !.same = (e = DaemonEnv)]
        socket == ControlSocket(e, cwd)
    IN  /\ call[c].at = "idle"
        /\ c \in StatusClients
        /\ IF ResolveVaultPath(e, cwd) = NoPathFound THEN Report(c, k, "noVault")
           ELSE IF socket = NoPathFound THEN Report(c, k, "noPath")
           ELSE Set(c, [k EXCEPT !.at = "connect",
                                 !.here = (socket = ControlSocket(DaemonEnv, DaemonDir))])
        /\ UNCHANGED <<daemonVars, starts, queue, timeouts>>

\* connect(2): nothing at the path or nobody listening is "not running"; it
\* blocks while the backlog is full.  The time-outs are set afterwards.
Connect(c) ==
    /\ call[c].at = "connect"
    /\ IF path \notin Procs \/ ~call[c].here
       THEN Report(c, call[c], "notRunning") /\ UNCHANGED queue
       ELSE /\ Len(queue) <= Backlog
            /\ queue' = Append(queue, c)
            /\ Set(c, [call[c] EXCEPT !.at = "send", !.to = path])
    /\ UNCHANGED <<daemonVars, starts, timeouts>>

Send(c) ==
    /\ call[c].at = "send"
    /\ IF call[c].closed
       THEN Report(c, call[c], "error")
       ELSE \E r \in IF c \in StatusClients THEN {"status"} ELSE Requests :
               Set(c, [call[c] EXCEPT !.at = "recv", !.wire = r])
    /\ UNCHANGED <<daemonVars, starts, queue, timeouts>>

\* Faulty variant: any response that is ok counts as a running daemon.
ShowsAnyReply(r) == IF r.ok THEN "running" ELSE "error"

\* The data of a response must have the shape of StatusData.
Shows(r) == IF r.ok /\ r.data \in Procs THEN "running" ELSE "error"

Recv(c) ==
    LET r == call[c].reply IN
    /\ call[c].at = "recv"
    /\ \/ /\ r # NoReply
          /\ Report(c, [call[c] EXCEPT !.pid = IF Shows(r) = "running"
                                               THEN r.data ELSE NoProc],
                    Shows(r))
       \/ /\ r = NoReply
          /\ call[c].closed
          /\ Report(c, call[c], "error")
    /\ UNCHANGED <<daemonVars, starts, queue, timeouts>>

\* Five seconds passed before the answer came.
RecvTimesOut(c) ==
    /\ call[c].at = "recv"
    /\ call[c].reply = NoReply /\ ~call[c].closed
    /\ timeouts < MaxTimeouts
    /\ timeouts' = timeouts + 1
    /\ Report(c, [call[c] EXCEPT !.late = TRUE], "error")
    /\ UNCHANGED <<daemonVars, starts, queue>>

-----------------------------------------------------------------------------
(* The daemon: the accept loop, and one thread per accepted connection.    *)

\* Faulty variant: the peer is not verified.
VerifyNobody(c) == TRUE

\* UnixPeerVerifier::verify: SO_PEERCRED against the daemon's own uid.
Verify(c) == call[c].own

\* Accept; a peer that fails the check is dropped before a byte is read.
Accept(p) ==
    /\ phase[p] = "serving"
    /\ queue # <<>>
    /\ LET c == Head(queue) IN
       IF Verify(c)
       THEN Set(c, [call[c] EXCEPT !.server = p])
       ELSE Set(c, [call[c] EXCEPT !.closed = TRUE])
    /\ queue' = Tail(queue)
    /\ UNCHANGED <<daemonVars, starts, timeouts>>

\* dispatch: only status is implemented.
Dispatch(p, r) ==
    CASE r = "status" -> [ok |-> TRUE, data |-> IF p \in Newer THEN "otherShape"
                                                ELSE p]
      [] r = "pause"  -> [ok |-> FALSE, kind |-> "notImplemented"]

\* serve_one: a request that cannot be read or understood is answered too.
Respond(p, r) ==
    CASE r \in {"status", "pause"} -> Dispatch(p, r)
      [] r = "unknown"  -> [ok |-> FALSE, kind |-> "unknownCmd"]
      [] r = "notJson"  -> [ok |-> FALSE, kind |-> "badJson"]
      [] r = "tooLarge" -> [ok |-> FALSE, kind |-> "frameTooLarge"]

\* The thread returns and the connection is closed.
EndThread(c, k) ==
    Set(c, [k EXCEPT !.server = NoProc, !.pending = NoReply, !.closed = TRUE])

\* read_frame, in one piece or until the client's end is closed.
ReadRequest(c) ==
    /\ call[c].server # NoProc
    /\ call[c].pending = NoReply
    /\ \/ /\ call[c].wire \notin {"nothing", "cutShort"}
          /\ Set(c, [call[c] EXCEPT
                        !.pending = Respond(call[c].server, call[c].wire)])
       \/ /\ call[c].wire \in {"nothing", "cutShort"}
          /\ call[c].at = "done"
          /\ EndThread(c, call[c])
    /\ UNCHANGED <<daemonVars, starts, queue, timeouts>>

\* Faulty variant: accept forgets set_read_timeout.
ReadNeverTimesOut(c) == FALSE /\ UNCHANGED controlVars

\* The client stopped in the middle of a frame for five seconds.
ReadTimesOut(c) ==
    /\ call[c].server # NoProc
    /\ call[c].pending = NoReply
    /\ call[c].wire = "cutShort"
    /\ EndThread(c, call[c])
    /\ UNCHANGED <<daemonVars, starts, queue, timeouts>>

\* The client was slow to write although it is about to.
SlowClientTimesOut(c) ==
    /\ call[c].server # NoProc
    /\ call[c].wire = "nothing"
    /\ timeouts < MaxTimeouts
    /\ timeouts' = timeouts + 1
    /\ EndThread(c, [call[c] EXCEPT !.late = TRUE])
    /\ UNCHANGED <<daemonVars, starts, queue>>

\* write_frame; a client that is gone makes it fail, which nobody sees.
WriteReply(c) ==
    /\ call[c].pending # NoReply
    /\ EndThread(c, [call[c] EXCEPT !.reply = call[c].pending])
    /\ UNCHANGED <<daemonVars, starts, queue, timeouts>>

\* A step of the daemons: a listener that is gone resets what it had not
\* accepted and takes the backlog along (there is one listener at a time); a
\* process that is gone takes its threads along.
Lost(c) ==
    \/ /\ call[c].server # NoProc
       /\ phase'[call[c].server] = "off"
    \/ /\ call[c].server = NoProc
       /\ call[c].to \in Listening \ Listening'

DaemonStep ==
    /\ DaemonNext
    /\ starts' = IF \E p \in Procs : Open(p) THEN starts + 1 ELSE starts
    /\ starts' <= MaxStarts
    /\ call' = [c \in Clients |->
          [call[c] EXCEPT
             !.server  = IF Lost(c) THEN NoProc ELSE @,
             !.pending = IF Lost(c) THEN NoReply ELSE @,
             !.closed  = @ \/ Lost(c),
             !.since   = IF Active(c) THEN @ \cap Serving' ELSE @,
             !.during  = IF Active(c) THEN @ \cup Serving' ELSE @]]
    /\ queue' = IF Listening \subseteq Listening' THEN queue ELSE <<>>
    /\ UNCHANGED timeouts

-----------------------------------------------------------------------------
ClientStep(c) == Connect(c) \/ Send(c) \/ Recv(c)

ThreadStep(c) == ReadRequest(c) \/ ReadTimesOut(c) \/ WriteReply(c)

\* What a daemon does by itself once it has begun to start or to stop.
Finishes(p) == Serve(p) \/ Unlink(p) \/ Close(p) \/ Exit(p)

ControlNext ==
    \/ DaemonStep
    \/ \E p \in Procs : Accept(p)
    \/ \E c \in Clients :
          \/ Dial(c) \/ RecvTimesOut(c)
          \/ \E e \in Environments, cwd \in WorkDirs : Begin(c, e, cwd)
          \/ SlowClientTimesOut(c) \/ ClientStep(c) \/ ThreadStep(c)

\* Clients and threads run on, the accept loop polls every 20 ms, and a
\* daemon that starts or stops comes to an end of that.
ControlSpec ==
    /\ ControlInit
    /\ [][ControlNext]_controlVars
    /\ \A c \in Clients : /\ WF_controlVars(ClientStep(c))
                          /\ WF_controlVars(ThreadStep(c))
    /\ \A p \in Procs : /\ WF_controlVars(Accept(p))
                        /\ WF_controlVars(DaemonStep /\ Finishes(p))

-----------------------------------------------------------------------------
(* Properties.                                                             *)

\* What status reports is true of the time of the call.  "Running" names a
\* daemon that served in that time; "not running" is never said while one
\* and the same daemon serves from beginning to end in the environment the
\* command runs in, from whatever directory; an error is reported about such
\* a daemon only if a time-out cut in or it is of another version.
StatusTruthful ==
    /\ ControlTypeOK
    /\ \A c \in StatusClients :
          /\ call[c].shows = "running" =>
                call[c].pid \in call[c].during \ Newer
          /\ call[c].shows = "notRunning" => call[c].since = {} \/ ~call[c].same
          /\ call[c].shows = "noPath" => ~call[c].same
          /\ call[c].shows = "error" =>
                call[c].since \subseteq Newer \/ call[c].late

\* No response ever reaches a peer of another uid, and no thread is spent
\* on one, in whatever order it connects, daemons restart and others dial.
PeersOnly ==
    \A c \in Clients :
       ~call[c].own => call[c].server = NoProc /\ call[c].reply = NoReply

\* Both ends of every call come to an end.  A status call does although
\* other clients stop in the middle of a frame, fill the backlog or are
\* refused, and daemons die; a connection's thread does even if the client
\* never finishes its frame, as the read time-out bounds how long a
\* descriptor is held.
CallsEnd ==
    /\ \A c \in StatusClients : call[c].at = "connect" ~> call[c].at = "done"
    /\ \A c \in Clients : call[c].server # NoProc ~> call[c].server = NoProc

=============================================================================
