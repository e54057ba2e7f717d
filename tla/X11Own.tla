------------------------------- MODULE X11Own -------------------------------
(***************************************************************************)
(* Owning the clipboard under X11: write_text with its server-time         *)
(* rendezvous, clear, the event thread's handlers for PropertyNotify on    *)
(* the rendezvous property, SelectionClear and the XFixes notification,    *)
(* the dispatcher thread, subscriptions, and Drop.                         *)
(*                                                                         *)
(* A step is what a thread does under one lock or in one request.  The     *)
(* server answers in the order of the requests, and the events it sends    *)
(* reach the event thread in that order; everything checked about the      *)
(* hand-over of `owned` between writers and event thread rests on this.    *)
(* The server (external) accepts a new owner unless its timestamp is older *)
(* than the last change, tells the previous owner, if that was another     *)
(* client or the selection is released, and then notifies XFixes.  The     *)
(* connection may break: requests then fail or are lost, nothing new       *)
(* arrives, and the event thread ends when it notices.                     *)
(***************************************************************************)
EXTENDS Naturals, Sequences

CONSTANTS
    Threads,      \* threads that call write_text and clear
    Subs,         \* subscriptions
    MaxWrites,    \* bound on write_text calls
    MaxForeign,   \* bound on changes by other clients and on calls of clear
    Environments  \* the surroundings a behaviour may have

\* Which threads and subscriptions there are, whether clear is called,
\* whether the server may take longer than 500 ms, whether the X11Clipboard
\* is dropped in the end, whether the connection may break, and how many
\* writes and foreign changes happen.
ASSUME OwnAssumption ==
    /\ MaxWrites \in Nat /\ MaxForeign \in Nat
    /\ \A e \in Environments :
          /\ DOMAIN e = {"threads", "subs", "clears", "slow", "drops", "breaks",
                         "writes", "foreign"}
          /\ e.threads \subseteq Threads /\ e.subs \subseteq Subs
          /\ {e.clears, e.slow, e.drops, e.breaks} \subseteq BOOLEAN
          /\ e.writes \in 0..MaxWrites /\ e.foreign \in 0..MaxForeign

None == 0
Tokens == 1..MaxWrites
Owners == {"us", "other", "nobody"}

VARIABLES
    env,          \* the surroundings of this behaviour; never changes
    pc,           \* next step of each thread
    time,         \* each thread's acquired_at
    token,        \* each thread's write token
    slot,         \* pending_timestamp
    nextToken,    \* next_token
    owned,        \* the write whose content we hold, None if none
    changeCount,  \* last_change_count
    owner,        \* server: owner of CLIPBOARD
    changedAt,    \* server: time of the last change of owner
    now,          \* server: clock
    link,         \* the connection: "up" or "broken"
    queue,        \* events for our window
    evpc,         \* the event thread
    dispatch,     \* channel to the dispatcher
    calling,      \* the dispatcher's event and the callbacks still to run
    subscribed,   \* subscribers
    dropped,      \* subscriptions whose drop has returned
    shutdown,     \* the shutdown flag
    writes,       \* calls of write_text so far
    foreign       \* changes by other clients and calls of clear so far

vars == <<pc, time, token, slot, nextToken, owned, changeCount, owner,
          changedAt, now, link, queue, evpc, dispatch, calling, subscribed, dropped,
          shutdown, writes, foreign>>

threadVars == <<pc, time, token, nextToken, writes>>
serverVars == <<owner, changedAt, now, link>>
subVars    == <<dispatch, calling, subscribed, dropped>>
miscVars   == <<changeCount, evpc, shutdown, foreign>>

\* pending_timestamp: None, Some(None) or Some(Some(t)).
Slots == [st : {"free", "waiting"}] \cup [st : {"filled"}, time : Nat]
Free == [st |-> "free"]

\* `cause` is the write behind a notification: history, not in the code.
Notices == [count : Nat, token : Nat, cause : Nat]

\* What the dispatcher receives: a notice, or Shutdown, or nothing yet.
Stop == [count |-> 0, token |-> 0, cause |-> 0]
NotCalling == [event |-> Stop, todo |-> {}]

Events == [kind : {"time", "lost", "change"}, time : Nat, owner : Owners, cause : Nat]

TypeOK ==
    /\ env \in Environments
    /\ pc \in [Threads -> {"idle", "enter", "ask", "await", "store", "claim",
                           "release", "bump"}]
    /\ time \in [Threads -> Nat]
    /\ token \in [Threads -> Tokens \cup {None}]
    /\ slot \in Slots
    /\ nextToken \in 1..(MaxWrites + 1)
    /\ owned \in Tokens \cup {None}
    /\ changeCount \in Nat
    /\ owner \in Owners /\ changedAt \in Nat /\ now \in Nat
    /\ link \in {"up", "broken"}
    /\ queue \in Seq(Events)
    /\ evpc \in {"loop", "wait", "exited"}
    /\ dispatch \in Seq(Notices)
    /\ calling \in [event : Notices, todo : SUBSET Subs]
    /\ subscribed \subseteq Subs /\ dropped \subseteq Subs
    /\ shutdown \in {"running", "dropped", "exited"}
    /\ writes \in 0..MaxWrites
    /\ foreign \in 0..MaxForeign

Init ==
    /\ env \in Environments
    /\ pc = [t \in Threads |-> "idle"]
    /\ time = [t \in Threads |-> 0]
    /\ token = [t \in Threads |-> None]
    /\ slot = Free
    /\ nextToken = 1
    /\ owned = None
    /\ changeCount = 0
    /\ owner = "nobody" /\ changedAt = 0 /\ now = 1 /\ link = "up"
    /\ queue = <<>>
    /\ evpc = "loop"
    /\ dispatch = <<>>
    /\ calling = NotCalling
    /\ subscribed = {} /\ dropped = {}
    /\ shutdown = "running"
    /\ writes = 0
    /\ foreign = 0

broken == link = "broken"

Goto(t, step) == pc' = [pc EXCEPT ![t] = step]

-----------------------------------------------------------------------------
(* The server.  Its clock is taken to be finer than its requests.          *)

Event(k, o, c) == [kind |-> k, time |-> now, owner |-> o, cause |-> c]

\* SetSelectionOwner at time `at`.
SetOwner(o, at, cause) ==
    /\ ~broken
    /\ now' = now + 1
    /\ UNCHANGED link
    /\ IF at < changedAt
       THEN UNCHANGED <<owner, changedAt, queue>>
       ELSE /\ owner' = o
            /\ changedAt' = at
            /\ queue' = queue
                 \o (IF owner = "us" /\ o # "us" THEN <<Event("lost", o, cause)>> ELSE <<>>)
                 \o <<Event("change", o, cause)>>

-----------------------------------------------------------------------------
(* write_text.                                                             *)

BeginWrite(t) ==
    /\ shutdown = "running"
    /\ t \in env.threads
    /\ pc[t] = "idle"
    /\ writes < env.writes
    /\ writes' = writes + 1
    /\ Goto(t, "enter")
    /\ UNCHANGED <<time, token, nextToken, slot, owned, serverVars, queue, subVars, miscVars>>

\* Wait until no other writer is mid-fetch, then take the slot.
TakeSlot(t) ==
    /\ pc[t] = "enter"
    /\ slot = Free
    /\ slot' = [st |-> "waiting"]
    /\ Goto(t, "ask")
    /\ UNCHANGED <<time, token, nextToken, writes, owned, serverVars, queue, subVars, miscVars>>

\* Faulty variant: the write does not wait for a server time.
AskTimeCurrent(t) ==
    /\ pc[t] = "ask"
    /\ time' = [time EXCEPT ![t] = now]
    /\ token' = [token EXCEPT ![t] = nextToken]
    /\ nextToken' = nextToken + 1
    /\ slot' = Free
    /\ Goto(t, "store")
    /\ UNCHANGED <<writes, owned, serverVars, queue, subVars, miscVars>>

\* The zero-length ChangeProperty.
AskTime(t) ==
    /\ pc[t] = "ask"
    /\ ~broken
    /\ queue' = Append(queue, Event("time", owner, None))
    /\ now' = now + 1
    /\ Goto(t, "await")
    /\ UNCHANGED <<time, token, nextToken, writes, slot, owned, owner, changedAt, link,
                   subVars, miscVars>>

\* The time is there, or 500 ms have passed; both free the slot.
AwaitTime(t) ==
    /\ pc[t] = "await"
    /\ \/ /\ slot.st = "filled"
          /\ time' = [time EXCEPT ![t] = slot.time]
          /\ token' = [token EXCEPT ![t] = nextToken]
          /\ nextToken' = nextToken + 1
          /\ Goto(t, "store")
       \/ /\ env.slow \/ broken
          /\ slot.st # "filled"
          /\ Goto(t, "idle")
          /\ UNCHANGED <<time, token, nextToken>>
    /\ slot' = Free
    /\ UNCHANGED <<writes, owned, serverVars, queue, subVars, miscVars>>

\* Content first, ownership second.
StoreOwned(t) ==
    /\ pc[t] = "store"
    /\ owned' = token[t]
    /\ Goto(t, "claim")
    /\ UNCHANGED <<time, token, nextToken, writes, slot, serverVars, queue, subVars, miscVars>>

\* Faulty variant: ownership is claimed with CURRENT_TIME.
ClaimCurrent(t) ==
    /\ pc[t] = "claim"
    /\ SetOwner("us", now, token[t])
    /\ Goto(t, "idle")
    /\ UNCHANGED <<time, token, nextToken, writes, slot, owned, subVars, miscVars>>

Claim(t) ==
    /\ pc[t] = "claim"
    /\ SetOwner("us", time[t], token[t])
    /\ Goto(t, "idle")
    /\ UNCHANGED <<time, token, nextToken, writes, slot, owned, subVars, miscVars>>

-----------------------------------------------------------------------------
(* clear.                                                                  *)

DropOwned(t) ==
    /\ env.clears
    /\ t \in env.threads
    /\ shutdown = "running"
    /\ pc[t] = "idle"
    /\ foreign < env.foreign
    /\ foreign' = foreign + 1
    /\ owned' = None
    /\ Goto(t, "release")
    /\ UNCHANGED <<time, token, nextToken, writes, slot, serverVars, queue, subVars,
                   changeCount, evpc, shutdown>>

Release(t) ==
    /\ pc[t] = "release"
    /\ SetOwner("nobody", now, None)
    /\ Goto(t, "bump")
    /\ UNCHANGED <<time, token, nextToken, writes, slot, owned, subVars, miscVars>>

Bump(t) ==
    /\ pc[t] = "bump"
    /\ changeCount' = changeCount + 1
    /\ Goto(t, "idle")
    /\ UNCHANGED <<time, token, nextToken, writes, slot, owned, serverVars, queue, subVars,
                   evpc, shutdown, foreign>>

-----------------------------------------------------------------------------
(* A broken connection.                                                    *)

\* The server gives up what the client owned; nothing more comes from it.
ConnectionBreaks ==
    /\ env.breaks
    /\ ~broken
    /\ link' = "broken"
    /\ owner' = IF owner = "us" THEN "nobody" ELSE owner
    /\ UNCHANGED <<threadVars, slot, owned, changedAt, now, queue, subVars, miscVars>>

\* The request or its flush fails and the call returns the error, from
\* fetch_server_time with the slot taken and nobody told.
RequestFails(t) ==
    /\ broken
    /\ pc[t] \in {"ask", "claim", "release"}
    /\ Goto(t, "idle")
    /\ UNCHANGED <<time, token, nextToken, writes, slot, owned, serverVars, queue, subVars,
                   miscVars>>

\* The request is written without an error and does not arrive.
RequestLost(t) ==
    /\ broken
    /\ \/ pc[t] = "ask" /\ Goto(t, "await")
       \/ pc[t] = "claim" /\ Goto(t, "idle")
       \/ pc[t] = "release" /\ Goto(t, "bump")
    /\ UNCHANGED <<time, token, nextToken, writes, slot, owned, serverVars, queue, subVars,
                   miscVars>>

\* wait_for_event fails; events that had arrived may be lost with it.
EventsEnd ==
    /\ evpc = "wait"
    /\ broken
    /\ evpc' = "exited"
    /\ dispatch' = Append(dispatch, Stop)
    /\ UNCHANGED <<threadVars, slot, owned, serverVars, queue, calling, subscribed,
                   dropped, changeCount, shutdown, foreign>>

-----------------------------------------------------------------------------
(* The event thread.                                                       *)

\* Faulty variant: the shutdown flag is not looked at.
EventLoopUnflagged ==
    /\ evpc = "loop"
    /\ evpc' = "wait"
    /\ UNCHANGED <<threadVars, slot, owned, serverVars, queue, subVars,
                   changeCount, shutdown, foreign>>

\* The shutdown flag is looked at between two events only.
EventLoop ==
    /\ evpc = "loop"
    /\ IF shutdown = "running"
       THEN evpc' = "wait" /\ UNCHANGED dispatch
       ELSE evpc' = "exited" /\ dispatch' = Append(dispatch, Stop)
    /\ UNCHANGED <<threadVars, slot, owned, serverVars, queue, calling, subscribed,
                   dropped, changeCount, shutdown, foreign>>

Receive(kind) ==
    /\ evpc = "wait"
    /\ queue # <<>>
    /\ Head(queue).kind = kind
    /\ queue' = Tail(queue)
    /\ evpc' = "loop"

\* Faulty variant: the time is parked although nobody waits for it.
HandleTimeUngated ==
    /\ Receive("time")
    /\ slot' = [st |-> "filled", time |-> Head(queue).time]
    /\ UNCHANGED <<threadVars, owned, serverVars, subVars, changeCount, shutdown, foreign>>

\* PropertyNotify on the rendezvous property.
HandleTime ==
    /\ Receive("time")
    /\ slot' = IF slot.st = "waiting" THEN [st |-> "filled", time |-> Head(queue).time]
               ELSE slot
    /\ UNCHANGED <<threadVars, owned, serverVars, subVars, changeCount, shutdown, foreign>>

\* SelectionClear.
HandleLost ==
    /\ Receive("lost")
    /\ owned' = None
    /\ UNCHANGED <<threadVars, slot, serverVars, subVars, changeCount, shutdown, foreign>>

\* XfixesSelectionNotify: count it and tell the dispatcher; the token is
\* that of the content held by now.
HandleChange ==
    /\ Receive("change")
    /\ changeCount' = changeCount + 1
    /\ dispatch' = Append(dispatch,
          [count |-> changeCount + 1,
           token |-> IF Head(queue).owner = "us" THEN owned ELSE None,
           cause |-> Head(queue).cause])
    /\ UNCHANGED <<threadVars, slot, owned, serverVars, calling, subscribed,
                   dropped, shutdown, foreign>>

-----------------------------------------------------------------------------
(* The dispatcher thread and the subscriptions.                            *)

\* recv, then snapshot the subscribers.
Dispatch ==
    /\ shutdown # "exited"
    /\ calling.todo = {}
    /\ dispatch # <<>>
    /\ dispatch' = Tail(dispatch)
    /\ IF Head(dispatch) = Stop
       THEN shutdown' = "exited" /\ UNCHANGED calling
       ELSE calling' = [event |-> Head(dispatch), todo |-> subscribed] /\ UNCHANGED shutdown
    /\ UNCHANGED <<threadVars, slot, owned, serverVars, queue, subscribed, dropped,
                   changeCount, evpc, foreign>>

Callback(s) ==
    /\ s \in calling.todo
    /\ calling' = [calling EXCEPT !.todo = @ \ {s}]
    /\ UNCHANGED <<threadVars, slot, owned, serverVars, queue, dispatch, subscribed,
                   dropped, miscVars>>

Subscribe(s) ==
    /\ s \in env.subs
    /\ shutdown = "running"
    /\ s \notin subscribed \cup dropped
    /\ subscribed' = subscribed \cup {s}
    /\ UNCHANGED <<threadVars, slot, owned, serverVars, queue, dispatch, calling,
                   dropped, miscVars>>

\* Drop of the handle returns once the list is updated.
Unsubscribe(s) ==
    /\ s \in subscribed
    /\ subscribed' = subscribed \ {s}
    /\ dropped' = dropped \cup {s}
    /\ UNCHANGED <<threadVars, slot, owned, serverVars, queue, dispatch, calling, miscVars>>

-----------------------------------------------------------------------------
\* Another client copies something.
OtherTakes ==
    /\ foreign < env.foreign
    /\ foreign' = foreign + 1
    /\ SetOwner("other", now, None)
    /\ UNCHANGED <<threadVars, slot, owned, subVars, changeCount, evpc, shutdown>>

\* Drop of the X11Clipboard: the flag, a NoOperation, which has no effect
\* that reaches the event thread, and Shutdown for the dispatcher.
Drop ==
    /\ env.drops
    /\ shutdown = "running"
    /\ \A t \in Threads : pc[t] = "idle"
    /\ shutdown' = "dropped"
    /\ dispatch' = Append(dispatch, Stop)
    /\ UNCHANGED <<threadVars, slot, owned, serverVars, queue, calling, subscribed,
                   dropped, changeCount, evpc, foreign>>

ThreadStep(t) ==
    \/ TakeSlot(t) \/ AskTime(t) \/ AwaitTime(t) \/ StoreOwned(t) \/ Claim(t)
    \/ Release(t) \/ Bump(t) \/ RequestFails(t) \/ RequestLost(t)

EventThread == EventLoop \/ HandleTime \/ HandleLost \/ HandleChange \/ EventsEnd

Dispatcher == Dispatch \/ \E s \in Subs : Callback(s)

Next ==
    /\ \/ \E t \in Threads : BeginWrite(t) \/ DropOwned(t) \/ ThreadStep(t)
       \/ EventThread \/ Dispatcher
       \/ \E s \in Subs : Subscribe(s) \/ Unsubscribe(s)
       \/ OtherTakes \/ Drop \/ ConnectionBreaks
    /\ UNCHANGED env

Spec == Init /\ [][Next]_<<env, vars>>

\* Threads are scheduled, callbacks return, timers fire.
FairSpec ==
    /\ Spec
    /\ \A t \in Threads : WF_vars(ThreadStep(t))
    /\ WF_vars(EventThread)
    /\ WF_vars(Dispatcher)

-----------------------------------------------------------------------------
(* Properties.                                                             *)

\* While the server routes pastes to us there is content to answer them
\* with, unless a clear or the news of a takeover is on its way: a
\* SelectionClear that was caused before a write never drops the content
\* of that write, although nothing compares their times.
OwnerServes ==
    /\ TypeOK
    /\ /\ owner = "us"
       /\ \A t \in Threads : pc[t] # "release"
       /\ \A i \in DOMAIN queue : queue[i].kind # "lost"
       => owned # None

\* With one writing thread and a server that answers in time, the token of
\* a notification is that of the write which caused it, or none: a daemon
\* that suppresses its own writes by token never suppresses the wrong one.
\* (The late answer to a rendezvous that timed out is taken for that of the
\* next write, which may then store its content before the notification of
\* the write before it arrives.)
TokenOfThatWrite ==
    (\E t \in Threads : env.threads = {t}) /\ ~env.slow =>
        \A i \in DOMAIN dispatch : dispatch[i].token \in {None, dispatch[i].cause}

\* The slot is taken and whoever took it has returned.
Abandoned == slot # Free /\ \A t \in Threads : pc[t] \notin {"ask", "await"}

\* Every write_text call returns, with any number of writers queueing for
\* the slot and any of them timing out, and on a broken connection too, but
\* for one case: a request of fetch_server_time failed, its error return
\* left the slot taken, and the wait for it ("If another writer is
\* mid-fetch, wait our turn") has no bound.
WriteReturns ==
    \A t \in Threads :
       pc[t] = "enter" ~> pc[t] = "idle" \/ (broken /\ pc[t] = "enter" /\ Abandoned)

\* "wait_for_event returns; we observe the flag and exit": it does if an
\* event is there or comes later, since NoOperation makes none.
EventThreadExits == shutdown # "running" /\ queue # <<>> ~> evpc = "exited"

=============================================================================
