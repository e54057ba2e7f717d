---------------------------- MODULE X11OwnProofs ----------------------------
(***************************************************************************)
(* OwnerServes and TokenOfThatWrite, for every set of threads and of       *)
(* subscriptions, every bound and every surroundings.                      *)
(*                                                                         *)
(* Nothing in the code compares the time of a SelectionClear with the time *)
(* of a write.  What makes it safe is the order of the event queue: a      *)
(* write's time is handled after every SelectionClear that was sent before *)
(* it was asked for, and the server turns down a claim that is older than  *)
(* the last change.  The inductive invariant says just that (LostFirst).   *)
(***************************************************************************)
EXTENDS X11Own, FiniteSetTheorems, SequenceTheorems, TLAPS

USE DEF broken

\* Writes that have no token yet.
Pending == {t \in Threads : pc[t] \in {"enter", "ask", "await"}}

\* Every token belongs to a write that was begun: tokens do not run out.
TokensCounted ==
    /\ IsFiniteSet(Pending)
    /\ nextToken + Cardinality(Pending) <= writes + 1

\* A thread that is about to store or to claim has its token.
ThreadsKept ==
    \A t \in Threads :
        /\ pc[t] \in {"store", "claim"} => token[t] # None
        /\ pc[t] # "idle" => t \in env.threads

\* Every time that is known somewhere has passed.
TimesPast ==
    /\ changedAt < now
    /\ slot.st = "filled" => slot.time < now
    /\ \A t \in Threads : time[t] < now
    /\ \A i \in DOMAIN queue : queue[i].time < now

\* The queue has the server's order.
QueueInOrder ==
    \A i, j \in DOMAIN queue :
        i < j /\ queue[i].kind = "time" => queue[i].time < queue[j].time

\* A SelectionClear in the queue is of a later time than every write that
\* has its time; nobody has become owner after it.
LostFirst ==
    \A i \in DOMAIN queue : queue[i].kind = "lost" =>
        /\ owner # "us"
        /\ queue[i].time <= changedAt
        /\ slot.st = "filled" => slot.time < queue[i].time
        /\ \A t \in Threads : pc[t] \in {"store", "claim"} => time[t] < queue[i].time

Releasing == \E t \in Threads : pc[t] = "release"

\* There is content while we own the selection, and when a claim succeeds.
ContentKept ==
    /\ owner = "us" => ~broken /\ (owned # None \/ Releasing)
    /\ \A t \in Threads : pc[t] = "claim" =>
          broken \/ owned # None \/ Releasing \/ time[t] < changedAt

OurChange(i) == queue[i].kind = "change" /\ queue[i].owner = "us"

DispatchTrue ==
    \A i \in DOMAIN dispatch : dispatch[i].token \in {None, dispatch[i].cause}

\* A lone writer gets its time only after its last change was handled; on a
\* broken connection it may have given up on it.
LoneWriter(t) ==
    /\ \A i \in DOMAIN queue : queue[i].kind = "time" =>
          /\ broken \/ (pc[t] = "await" /\ slot.st = "waiting")
          /\ \A j \in DOMAIN queue : queue[j].kind = "time" => i = j
    /\ \A i \in DOMAIN queue : OurChange(i) =>
          /\ owned \in {None, queue[i].cause}
          /\ pc[t] \notin {"store", "claim"}
          /\ slot.st # "filled"
          /\ \A j \in DOMAIN queue : queue[j].kind = "time" => i < j
    /\ broken \/ slot.st # "filled" \/ pc[t] = "await"
    /\ pc[t] = "ask" => broken \/ slot.st = "waiting"
    /\ pc[t] = "claim" => owned \in {None, token[t]}
    /\ DispatchTrue

OneWriter ==
    \A t \in Threads : env.threads = {t} /\ ~env.slow => LoneWriter(t)

IndInv ==
    /\ TypeOK
    /\ TokensCounted
    /\ ThreadsKept
    /\ TimesPast
    /\ QueueInOrder
    /\ LostFirst
    /\ ContentKept
    /\ OneWriter

-----------------------------------------------------------------------------
(* Sequences, and what a request does to the queue.                        *)

\* Append adds one element at the end.
LEMMA Appended ==
    ASSUME NEW S, NEW q \in Seq(S), NEW e \in S
    PROVE  /\ Append(q, e) \in Seq(S)
           /\ Len(Append(q, e)) = Len(q) + 1
           /\ \A i \in 1..Len(q) : Append(q, e)[i] = q[i]
           /\ Append(q, e)[Len(q) + 1] = e
           /\ Len(q) \in Nat
  BY AppendProperties

\* Tail moves the rest one place forward.
LEMMA Tailed ==
    ASSUME NEW S, NEW q \in Seq(S), q # <<>>
    PROVE  /\ Tail(q) \in Seq(S) /\ Head(q) \in S
           /\ Len(q) \in Nat \ {0} /\ Len(Tail(q)) = Len(q) - 1
           /\ Head(q) = q[1]
           /\ \A i \in 1..(Len(q) - 1) : Tail(q)[i] = q[i + 1]
  BY HeadTailProperties

\* SetSelectionOwner appends one or two events with its own time, or, if it
\* is too late, does nothing.
LEMMA SetOwnerEffect ==
    ASSUME TypeOK, NEW o \in Owners, NEW at \in Nat, NEW cause \in Nat,
           SetOwner(o, at, cause)
    PROVE  /\ queue' \in Seq(Events)
           /\ Len(queue) \in Nat /\ Len(queue') \in Nat /\ Len(queue) <= Len(queue')
           /\ \A i \in 1..Len(queue) : queue'[i] = queue[i]
           /\ \A i \in 1..Len(queue') : i > Len(queue) =>
                 /\ queue'[i].time = now
                 /\ queue'[i].owner = o
                 /\ queue'[i].cause = cause
                 /\ queue'[i].kind \in {"lost", "change"}
                 /\ queue'[i].kind = "lost" => o # "us" /\ at >= changedAt
           /\ now' = now + 1 /\ ~broken /\ link' = link
           /\ \/ at < changedAt /\ owner' = owner /\ changedAt' = changedAt /\ queue' = queue
              \/ at >= changedAt /\ owner' = o /\ changedAt' = at
<1> DEFINE lost == Event("lost", o, cause)
           change == Event("change", o, cause)
<1>1. now \in Nat /\ changedAt \in Nat /\ queue \in Seq(Events)
  BY DEF TypeOK
<1>2. /\ lost \in Events /\ lost.time = now /\ lost.owner = o /\ lost.cause = cause
      /\ lost.kind = "lost"
      /\ change \in Events /\ change.time = now /\ change.owner = o
      /\ change.cause = cause /\ change.kind = "change"
  BY <1>1 DEF Event, Events
<1>6. now' = now + 1 /\ ~broken /\ link' = link
  BY DEF SetOwner
<1>3. CASE at < changedAt
  BY <1>1, <1>3, <1>6 DEF SetOwner
<1>4. CASE ~(at < changedAt) /\ owner = "us" /\ o # "us"
  <2> HIDE DEF lost, change
  <2>1. queue' = (queue \o <<lost>>) \o <<change>>
    BY <1>4 DEF SetOwner, lost, change
  <2>2. queue \o <<lost>> = Append(queue, lost)
    BY <1>1, <1>2, AppendIsConcat
  <2>3. Append(queue, lost) \in Seq(Events)
    BY <1>1, <1>2, Appended
  <2>4. queue' = Append(Append(queue, lost), change)
    BY <2>1, <2>2, <2>3, <1>2, AppendIsConcat
  <2>5. owner' = o /\ changedAt' = at
    BY <1>4 DEF SetOwner
  <2>6. /\ queue' \in Seq(Events) /\ Len(queue) \in Nat /\ Len(queue') = Len(queue) + 2
        /\ \A i \in 1..Len(queue) : queue'[i] = queue[i]
        /\ queue'[Len(queue) + 1] = lost /\ queue'[Len(queue) + 2] = change
    BY <1>1, <1>2, <2>3, <2>4, Appended
  <2>7. \A i \in 1..Len(queue') : i > Len(queue) => queue'[i] \in {lost, change}
    BY <2>6
  <2> QED
    BY <1>1, <1>2, <1>4, <1>6, <2>5, <2>6, <2>7
<1>5. CASE ~(at < changedAt) /\ ~(owner = "us" /\ o # "us")
  <2> HIDE DEF lost, change
  <2>1. queue' = (queue \o <<>>) \o <<change>>
    BY <1>5 DEF SetOwner, change
  <2>2. queue \o <<>> = queue
    BY <1>1, ConcatEmptySeq
  <2>3. queue' = Append(queue, change)
    BY <2>1, <2>2, <1>1, <1>2, AppendIsConcat
  <2>4. owner' = o /\ changedAt' = at
    BY <1>5 DEF SetOwner
  <2> QED
    BY <1>1, <1>2, <1>5, <1>6, <2>3, <2>4, Appended
<1> QED
  BY <1>3, <1>4, <1>5

-----------------------------------------------------------------------------
(* The environment, and the tokens.                                        *)

\* The surroundings are well formed.
LEMMA EnvType ==
    ASSUME TypeOK
    PROVE  env.writes \in 0..MaxWrites /\ MaxWrites \in Nat
  BY OwnAssumption DEF TypeOK

\* Times are numbers.
LEMMA TimeTypes ==
    ASSUME TypeOK
    PROVE  /\ Len(queue) \in Nat /\ DOMAIN queue = 1..Len(queue)
           /\ \A i \in 1..Len(queue) : queue[i] \in Events /\ queue[i].time \in Nat
           /\ now \in Nat /\ changedAt \in Nat
           /\ \A t \in Threads : time[t] \in Nat
           /\ slot.st = "filled" => slot.time \in Nat
<1>1. queue \in Seq(Events)
  BY DEF TypeOK
<1>2. \A i \in 1..Len(queue) : queue[i] \in Events
  BY <1>1, ElementOfSeq
<1>3. \A e \in Events : e.time \in Nat
  BY DEF Events
<1>4. \A x \in Slots : x.st = "filled" => x.time \in Nat
  BY DEF Slots
<1>5. now \in Nat /\ changedAt \in Nat /\ slot \in Slots /\ time \in [Threads -> Nat]
  BY DEF TypeOK
<1> QED
  BY <1>1, <1>2, <1>3, <1>4, <1>5

\* A step that begins no write and hands out no token.
LEMMA SamePending ==
    ASSUME TokensCounted, UNCHANGED <<nextToken, writes>>,
           \A t \in Threads : (pc'[t] \in {"enter", "ask", "await"})
                                  <=> (pc[t] \in {"enter", "ask", "await"})
    PROVE  TokensCounted'
<1>1. Pending' = Pending
  BY DEF Pending
<1> QED
  BY <1>1 DEF TokensCounted

\* A write that has no token yet takes the next one or gives up.
LEMMA TokenLeft ==
    ASSUME TypeOK, TokensCounted, NEW t \in Threads, pc[t] \in {"ask", "await"},
           pc' = [pc EXCEPT ![t] = "store"] \/ pc' = [pc EXCEPT ![t] = "idle"]
    PROVE  /\ nextToken \in Tokens
           /\ Pending' = Pending \ {t}
           /\ IsFiniteSet(Pending') /\ Cardinality(Pending') = Cardinality(Pending) - 1
           /\ Cardinality(Pending) \in Nat
<1>1. t \in Pending
  BY DEF Pending
<1>2. Pending' = Pending \ {t}
  BY DEF Pending, TypeOK
<1>3. IsFiniteSet(Pending)
  BY DEF TokensCounted
<1>4. /\ IsFiniteSet(Pending \ {t}) /\ Cardinality(Pending \ {t}) = Cardinality(Pending) - 1
      /\ Cardinality(Pending) \in Nat
  BY <1>1, <1>3, FS_RemoveElement, FS_CardinalityType
<1>5. Cardinality(Pending \ {t}) \in Nat
  BY <1>4, FS_CardinalityType
<1>6. nextToken \in Tokens
  BY <1>4, <1>5, EnvType DEF TokensCounted, TypeOK, Tokens
<1> QED
  BY <1>2, <1>4, <1>6

-----------------------------------------------------------------------------
(* Steps that leave owner, content and queue alone.                        *)

\* Only the dispatcher's side changes.
LEMMA QuietKeeps ==
    ASSUME IndInv, env' = env,
           UNCHANGED <<pc, time, token, slot, nextToken, owned, owner, changedAt, now,
                       link, queue, writes>>,
           TypeOK', DispatchTrue => DispatchTrue'
    PROVE  IndInv'
<1>1. TokensCounted'
  BY SamePending DEF IndInv
<1>2. ThreadsKept' /\ TimesPast' /\ QueueInOrder' /\ LostFirst' /\ ContentKept'
  BY DEF IndInv, ThreadsKept, TimesPast, QueueInOrder, LostFirst, ContentKept, Releasing
<1>3. OneWriter'
  BY DEF IndInv, OneWriter, LoneWriter, OurChange
<1> QED
  BY <1>1, <1>2, <1>3 DEF IndInv

\* The stop notice is a notice without a token.
LEMMA StopIsNotice == Stop \in Notices /\ Stop.token = None
  BY DEF Stop, Notices, None

\* Shutdown carries no token.
LEMMA StopAppended ==
    ASSUME TypeOK, dispatch' = Append(dispatch, Stop)
    PROVE  dispatch' \in Seq(Notices) /\ (DispatchTrue => DispatchTrue')
  BY StopIsNotice, Appended DEF TypeOK, DispatchTrue

\* A look at the shutdown flag keeps the invariant.
LEMMA EventLoopKeeps == ASSUME IndInv, EventLoop, env' = env PROVE IndInv'
<1>1. TypeOK
  BY DEF IndInv
<1>2. dispatch' \in Seq(Notices) /\ (DispatchTrue => DispatchTrue')
  <2>1. CASE shutdown = "running"
    BY <1>1, <2>1 DEF EventLoop, TypeOK, DispatchTrue
  <2>2. CASE shutdown # "running"
    BY <1>1, <2>2, StopAppended DEF EventLoop
  <2> QED
    BY <2>1, <2>2
<1>3. TypeOK'
  BY <1>1, <1>2 DEF TypeOK, EventLoop, threadVars, serverVars
<1> QED
  BY <1>2, <1>3, QuietKeeps DEF EventLoop, threadVars, serverVars

\* The end of the event thread on a broken connection keeps it.
LEMMA EventsEndKeeps == ASSUME IndInv, EventsEnd, env' = env PROVE IndInv'
<1>1. TypeOK
  BY DEF IndInv
<1>2. dispatch' \in Seq(Notices) /\ (DispatchTrue => DispatchTrue')
  BY <1>1, StopAppended DEF EventsEnd
<1>3. TypeOK'
  BY <1>1, <1>2 DEF TypeOK, EventsEnd, threadVars, serverVars
<1> QED
  BY <1>2, <1>3, QuietKeeps DEF EventsEnd, threadVars, serverVars

\* Delivering a notice keeps it.
LEMMA DispatchKeeps == ASSUME IndInv, Dispatch, env' = env PROVE IndInv'
<1>1. TypeOK
  BY DEF IndInv
<1>2. /\ Tail(dispatch) \in Seq(Notices) /\ Head(dispatch) \in Notices
      /\ Len(dispatch) \in Nat \ {0} /\ Len(Tail(dispatch)) = Len(dispatch) - 1
      /\ \A i \in 1..(Len(dispatch) - 1) : Tail(dispatch)[i] = dispatch[i + 1]
  BY <1>1, Tailed DEF TypeOK, Dispatch
<1>3. dispatch' = Tail(dispatch)
  BY DEF Dispatch
<1>4. DispatchTrue => DispatchTrue'
  BY <1>1, <1>2, <1>3 DEF DispatchTrue, TypeOK
<1>5. calling' \in [event : Notices, todo : SUBSET Subs]
  BY <1>1, <1>2 DEF Dispatch, TypeOK
<1>6. TypeOK'
  BY <1>1, <1>2, <1>3, <1>5 DEF TypeOK, Dispatch, threadVars, serverVars
<1> QED
  BY <1>4, <1>6, QuietKeeps DEF Dispatch, threadVars, serverVars

\* Callbacks, subscriptions and the drop of the clipboard.
LEMMA SubsKeep ==
    ASSUME IndInv, env' = env,
           \/ \E s \in Subs : Callback(s) \/ Subscribe(s) \/ Unsubscribe(s)
           \/ Drop
    PROVE  IndInv'
<1>1. TypeOK
  BY DEF IndInv
<1>2. ASSUME NEW s \in Subs, Callback(s) PROVE IndInv'
  <2>1. TypeOK'
    BY <1>1, <1>2 DEF TypeOK, Callback, threadVars, serverVars, miscVars
  <2> QED
    BY <1>2, <2>1, QuietKeeps DEF Callback, threadVars, serverVars, DispatchTrue
<1>3. ASSUME NEW s \in Subs, Subscribe(s) PROVE IndInv'
  <2>1. TypeOK'
    BY <1>1, <1>3 DEF TypeOK, Subscribe, threadVars, serverVars, miscVars
  <2> QED
    BY <1>3, <2>1, QuietKeeps DEF Subscribe, threadVars, serverVars, DispatchTrue
<1>4. ASSUME NEW s \in Subs, Unsubscribe(s) PROVE IndInv'
  <2>1. TypeOK'
    BY <1>1, <1>4 DEF TypeOK, Unsubscribe, threadVars, serverVars, miscVars
  <2> QED
    BY <1>4, <2>1, QuietKeeps DEF Unsubscribe, threadVars, serverVars, DispatchTrue
<1>5. ASSUME Drop PROVE IndInv'
  <2>1. dispatch' \in Seq(Notices) /\ (DispatchTrue => DispatchTrue')
    BY <1>1, <1>5, StopAppended DEF Drop
  <2>2. TypeOK'
    BY <1>1, <1>5, <2>1 DEF TypeOK, Drop, threadVars, serverVars
  <2> QED
    BY <1>5, <2>1, <2>2, QuietKeeps DEF Drop, threadVars, serverVars
<1> QED
  BY <1>2, <1>3, <1>4, <1>5

-----------------------------------------------------------------------------
(* Steps of the threads that send no request.                              *)

\* A write that starts keeps it: its token is new.
LEMMA BeginWriteKeeps ==
    ASSUME IndInv, NEW t \in Threads, BeginWrite(t), env' = env PROVE IndInv'
<1> USE DEF BeginWrite, Goto, serverVars, subVars, miscVars
<1>1. TypeOK /\ writes < MaxWrites
  BY EnvType DEF IndInv, TypeOK
<1>2. TypeOK'
  BY <1>1, EnvType DEF TypeOK
<1>3. TokensCounted'
  <2>1. t \notin Pending /\ Pending' = Pending \cup {t} /\ IsFiniteSet(Pending)
    BY <1>1 DEF Pending, TypeOK, IndInv, TokensCounted
  <2>2. /\ IsFiniteSet(Pending \cup {t}) /\ Cardinality(Pending) \in Nat
        /\ Cardinality(Pending \cup {t}) = Cardinality(Pending) + 1
    BY <2>1, FS_AddElement, FS_CardinalityType
  <2> QED
    BY <1>1, <2>1, <2>2 DEF IndInv, TokensCounted, TypeOK
<1>4. pc[t] = "idle" /\ pc'[t] = "enter" /\ \A u \in Threads : u # t => pc'[u] = pc[u]
  BY <1>1 DEF TypeOK
<1>5. ThreadsKept' /\ TimesPast' /\ QueueInOrder' /\ LostFirst'
  BY <1>4 DEF IndInv, ThreadsKept, TimesPast, QueueInOrder, LostFirst
<1>6. ContentKept'
  BY <1>4 DEF IndInv, ContentKept, Releasing
<1>7. OneWriter'
  BY <1>4 DEF IndInv, OneWriter, LoneWriter, OurChange, DispatchTrue
<1> QED
  BY <1>2, <1>3, <1>5, <1>6, <1>7 DEF IndInv

\* Taking the rendezvous slot keeps it.
LEMMA TakeSlotKeeps ==
    ASSUME IndInv, NEW t \in Threads, TakeSlot(t), env' = env PROVE IndInv'
<1> USE DEF TakeSlot, Goto, serverVars, subVars, miscVars
<1>1. TypeOK
  BY DEF IndInv
<1>2. slot' \in Slots /\ slot'.st = "waiting" /\ slot.st = "free"
  BY DEF Slots, Free
<1>3. TypeOK'
  BY <1>1, <1>2 DEF TypeOK
<1>4. pc[t] = "enter" /\ pc'[t] = "ask" /\ \A u \in Threads : u # t => pc'[u] = pc[u]
  BY <1>1 DEF TypeOK
<1>5. TokensCounted'
  BY <1>4, SamePending DEF IndInv
<1>6. ThreadsKept' /\ TimesPast' /\ QueueInOrder' /\ LostFirst'
  BY <1>2, <1>4 DEF IndInv, ThreadsKept, TimesPast, QueueInOrder, LostFirst
<1>7. ContentKept'
  BY <1>4 DEF IndInv, ContentKept, Releasing
<1>8. OneWriter'
  BY <1>2, <1>4 DEF IndInv, OneWriter, LoneWriter, OurChange, DispatchTrue, ThreadsKept
<1> QED
  BY <1>3, <1>5, <1>6, <1>7, <1>8 DEF IndInv

\* Taking the time, or giving up on it, keeps it.
LEMMA AwaitTimeKeeps ==
    ASSUME IndInv, NEW t \in Threads, AwaitTime(t), env' = env PROVE IndInv'
<1> USE DEF AwaitTime, Goto, serverVars, subVars, miscVars
<1>1. TypeOK /\ TokensCounted
  BY DEF IndInv
<1>2. slot' \in Slots /\ slot'.st = "free"
  BY DEF Slots, Free
<1>3. /\ nextToken \in Tokens
      /\ IsFiniteSet(Pending') /\ Cardinality(Pending') = Cardinality(Pending) - 1
      /\ Cardinality(Pending) \in Nat
  BY <1>1, TokenLeft
<1>4. TokensCounted'
  BY <1>1, <1>3 DEF TokensCounted, TypeOK
<1>5. ThreadsKept
  BY DEF IndInv
<1>6. CASE slot.st = "filled"
  <2>1. /\ time' = [time EXCEPT ![t] = slot.time] /\ token' = [token EXCEPT ![t] = nextToken]
        /\ nextToken' = nextToken + 1 /\ pc' = [pc EXCEPT ![t] = "store"]
        /\ slot.time \in Nat
    BY <1>1, <1>6 DEF TypeOK, Slots
  <2>2. TypeOK'
    <3>1. time' \in [Threads -> Nat]
      BY <1>1, <2>1 DEF TypeOK
    <3>2. token' \in [Threads -> Tokens \cup {None}]
      BY <1>1, <1>3, <2>1 DEF TypeOK
    <3>3. nextToken' \in 1..(MaxWrites + 1)
      BY <1>1, <1>3, <2>1, EnvType DEF Tokens
    <3>4. pc' \in [Threads -> {"idle", "enter", "ask", "await", "store", "claim",
                              "release", "bump"}]
      BY <1>1, <2>1 DEF TypeOK
    <3> QED
      BY <1>1, <1>2, <3>1, <3>2, <3>3, <3>4 DEF TypeOK
  <2>3. /\ pc[t] = "await" /\ pc'[t] = "store" /\ time'[t] = slot.time /\ token'[t] # None
        /\ \A u \in Threads : u # t => /\ pc'[u] = pc[u] /\ time'[u] = time[u]
                                       /\ token'[u] = token[u]
    BY <1>1, <1>3, <2>1 DEF TypeOK, Tokens, None
  <2>4. ThreadsKept' /\ QueueInOrder'
    BY <1>5, <2>3 DEF IndInv, ThreadsKept, QueueInOrder
  <2>5. TimesPast' /\ LostFirst'
    BY <1>2, <1>6, <2>3 DEF IndInv, TimesPast, LostFirst
  <2>6. ContentKept'
    BY <2>3 DEF IndInv, ContentKept, Releasing
  <2>7. OneWriter'
    <3> SUFFICES ASSUME NEW w \in Threads, env'.threads = {w}, ~env'.slow
                 PROVE  LoneWriter(w)'
      BY DEF OneWriter
    <3>1. w = t
      BY <1>5, <2>3 DEF ThreadsKept
    <3>2. LoneWriter(t)
      BY <3>1 DEF IndInv, OneWriter
    <3>3. \A i \in DOMAIN queue : (queue[i].kind = "time" => broken) /\ ~OurChange(i)
      BY <1>6, <2>3, <3>2 DEF LoneWriter
    <3> QED
      BY <1>2, <3>1, <3>2, <3>3, <2>3 DEF LoneWriter, OurChange, DispatchTrue
  <2> QED
    BY <1>4, <2>2, <2>4, <2>5, <2>6, <2>7 DEF IndInv
<1>7. CASE slot.st # "filled"
  <2>1. (env.slow \/ broken) /\ UNCHANGED <<time, token, nextToken>> /\ pc' = [pc EXCEPT ![t] = "idle"]
    BY <1>7
  <2>2. TypeOK'
    BY <1>1, <1>2, <2>1 DEF TypeOK
  <2>3. pc[t] = "await" /\ pc'[t] = "idle" /\ \A u \in Threads : u # t => pc'[u] = pc[u]
    BY <1>1, <2>1 DEF TypeOK
  <2>4. ThreadsKept' /\ TimesPast' /\ QueueInOrder' /\ LostFirst'
    BY <1>2, <1>5, <2>1, <2>3 DEF IndInv, ThreadsKept, TimesPast, QueueInOrder, LostFirst
  <2>5. ContentKept'
    BY <2>1, <2>3 DEF IndInv, ContentKept, Releasing
  <2>6. OneWriter'
    <3> SUFFICES ASSUME NEW w \in Threads, env'.threads = {w}, ~env'.slow
                 PROVE  LoneWriter(w)'
      BY DEF OneWriter
    <3>1. w = t /\ broken
      BY <1>5, <2>1, <2>3 DEF ThreadsKept
    <3>2. LoneWriter(t)
      BY <3>1 DEF IndInv, OneWriter
    <3> QED
      BY <1>2, <2>1, <2>3, <3>1, <3>2 DEF LoneWriter, OurChange, DispatchTrue
  <2> QED
    BY <1>4, <2>2, <2>4, <2>5, <2>6 DEF IndInv
<1> QED
  BY <1>6, <1>7

\* Storing the owned content keeps it.
LEMMA StoreOwnedKeeps ==
    ASSUME IndInv, NEW t \in Threads, StoreOwned(t), env' = env PROVE IndInv'
<1> USE DEF StoreOwned, Goto, serverVars, subVars, miscVars
<1>1. TypeOK /\ ThreadsKept
  BY DEF IndInv
<1>2. /\ pc[t] = "store" /\ pc'[t] = "claim" /\ \A u \in Threads : u # t => pc'[u] = pc[u]
      /\ owned' = token[t] /\ owned' # None
  BY <1>1 DEF TypeOK, ThreadsKept
<1>3. TypeOK'
  BY <1>1, <1>2 DEF TypeOK
<1>4. TokensCounted'
  BY <1>2, SamePending DEF IndInv
<1>5. ThreadsKept' /\ TimesPast' /\ QueueInOrder' /\ LostFirst'
  BY <1>2 DEF IndInv, ThreadsKept, TimesPast, QueueInOrder, LostFirst
<1>6. ContentKept'
  BY <1>2 DEF IndInv, ContentKept
<1>7. OneWriter'
  <2> SUFFICES ASSUME NEW w \in Threads, env'.threads = {w}, ~env'.slow
               PROVE  LoneWriter(w)'
    BY DEF OneWriter
  <2>1. w = t
    BY <1>1, <1>2 DEF ThreadsKept
  <2>2. LoneWriter(t)
    BY <2>1 DEF IndInv, OneWriter
  <2>3. \A i \in DOMAIN queue : (queue[i].kind = "time" => broken) /\ ~OurChange(i)
    BY <1>2, <2>2 DEF LoneWriter
  <2> QED
    BY <1>2, <2>1, <2>2, <2>3 DEF LoneWriter, OurChange, DispatchTrue
<1> QED
  BY <1>3, <1>4, <1>5, <1>6, <1>7 DEF IndInv

\* clear drops the content before it releases the selection.
LEMMA DropOwnedKeeps ==
    ASSUME IndInv, NEW t \in Threads, DropOwned(t), env' = env PROVE IndInv'
<1> USE DEF DropOwned, Goto, serverVars, subVars
<1>1. TypeOK /\ ThreadsKept
  BY DEF IndInv
<1>2. /\ pc[t] = "idle" /\ pc'[t] = "release" /\ \A u \in Threads : u # t => pc'[u] = pc[u]
      /\ owned' = None
  BY <1>1 DEF TypeOK
<1>3. TypeOK'
  BY <1>1, <1>2, OwnAssumption DEF TypeOK
<1>4. TokensCounted'
  BY <1>2, SamePending DEF IndInv
<1>5. ThreadsKept' /\ TimesPast' /\ QueueInOrder' /\ LostFirst'
  BY <1>2 DEF IndInv, ThreadsKept, TimesPast, QueueInOrder, LostFirst
<1>6. ContentKept'
  BY <1>2 DEF IndInv, ContentKept, Releasing
<1>7. OneWriter'
  BY <1>2 DEF IndInv, OneWriter, LoneWriter, OurChange, DispatchTrue
<1> QED
  BY <1>3, <1>4, <1>5, <1>6, <1>7 DEF IndInv

\* Counting the change keeps it.
LEMMA BumpKeeps ==
    ASSUME IndInv, NEW t \in Threads, Bump(t), env' = env PROVE IndInv'
<1> USE DEF Bump, Goto, serverVars, subVars
<1>1. TypeOK /\ ThreadsKept
  BY DEF IndInv
<1>2. pc[t] = "bump" /\ pc'[t] = "idle" /\ \A u \in Threads : u # t => pc'[u] = pc[u]
  BY <1>1 DEF TypeOK
<1>3. TypeOK'
  BY <1>1, <1>2 DEF TypeOK
<1>4. TokensCounted'
  BY <1>2, SamePending DEF IndInv
<1>5. ThreadsKept' /\ TimesPast' /\ QueueInOrder' /\ LostFirst'
  BY <1>2 DEF IndInv, ThreadsKept, TimesPast, QueueInOrder, LostFirst
<1>6. ContentKept'
  BY <1>2 DEF IndInv, ContentKept, Releasing
<1>7. OneWriter'
  BY <1>2 DEF IndInv, OneWriter, LoneWriter, OurChange, DispatchTrue
<1> QED
  BY <1>3, <1>4, <1>5, <1>6, <1>7 DEF IndInv

-----------------------------------------------------------------------------
(* Requests.                                                               *)

\* The answer to AskTime is the last event, and later than every other.
LEMMA AskTimeKeeps ==
    ASSUME IndInv, NEW t \in Threads, AskTime(t), env' = env PROVE IndInv'
<1> USE DEF AskTime, Goto, subVars, miscVars
<1> DEFINE e == Event("time", owner, None)
<1>1. TypeOK /\ ThreadsKept
  BY DEF IndInv
<1>2. e \in Events /\ e.kind = "time" /\ e.time = now
  BY <1>1 DEF Event, Events, TypeOK, None
<1> HIDE DEF e
<1>3. /\ queue' \in Seq(Events) /\ Len(queue) \in Nat /\ Len(queue') = Len(queue) + 1
      /\ \A i \in 1..Len(queue) : queue'[i] = queue[i]
      /\ queue'[Len(queue) + 1] = e
      /\ DOMAIN queue = 1..Len(queue) /\ DOMAIN queue' = 1..(Len(queue) + 1)
  BY <1>1, <1>2, Appended DEF TypeOK, e
<1>4. pc[t] = "ask" /\ pc'[t] = "await" /\ \A u \in Threads : u # t => pc'[u] = pc[u]
  BY <1>1 DEF TypeOK
<1>5. now \in Nat /\ now' = now + 1
  BY <1>1 DEF TypeOK
<1>6. TypeOK'
  BY <1>1, <1>3, <1>5 DEF TypeOK
<1>7. TokensCounted'
  BY <1>4, SamePending DEF IndInv
<1>8. ThreadsKept'
  BY <1>1, <1>4 DEF ThreadsKept
<1>9. TimesPast'
  BY <1>1, <1>2, <1>3, <1>5, TimeTypes DEF IndInv, TimesPast
<1>10. QueueInOrder'
  <2> SUFFICES ASSUME NEW i \in 1..(Len(queue) + 1), NEW j \in 1..(Len(queue) + 1),
                      i < j, queue'[i].kind = "time"
               PROVE  queue'[i].time < queue'[j].time
    BY <1>3 DEF QueueInOrder
  <2>1. i \in 1..Len(queue) /\ queue'[i] = queue[i] /\ queue[i].time < now
    BY <1>3 DEF IndInv, TimesPast
  <2> QED
    BY <1>2, <1>3, <2>1 DEF IndInv, QueueInOrder
<1>11. LostFirst'
  BY <1>2, <1>3, <1>4 DEF IndInv, LostFirst
<1>12. ContentKept'
  BY <1>4 DEF IndInv, ContentKept, Releasing
<1>13. OneWriter'
  <2> SUFFICES ASSUME NEW w \in Threads, env'.threads = {w}, ~env'.slow
               PROVE  LoneWriter(w)'
    BY DEF OneWriter
  <2>1. w = t
    BY <1>1, <1>4 DEF ThreadsKept
  <2>2. LoneWriter(t)
    BY <2>1 DEF IndInv, OneWriter
  <2>3. \A i \in 1..Len(queue) : queue[i].kind # "time"
    BY <1>3, <1>4, <2>2 DEF LoneWriter
  <2>4. slot.st = "waiting"
    BY <2>2, <1>4 DEF LoneWriter
  <2>5. \A i \in 1..(Len(queue) + 1) : queue'[i].kind = "time" => i = Len(queue) + 1
    BY <1>3, <2>3
  <2>6. \A i \in 1..(Len(queue) + 1) : OurChange(i)' => i \in 1..Len(queue) /\ OurChange(i)
    BY <1>2, <1>3 DEF OurChange
  <2>7. \A i \in 1..Len(queue) : OurChange(i) => owned \in {None, queue[i].cause}
    BY <1>3, <2>2 DEF LoneWriter
  <2> QED
    BY <1>3, <1>4, <2>1, <2>2, <2>4, <2>5, <2>6, <2>7 DEF LoneWriter, DispatchTrue
<1> QED
  BY <1>6, <1>7, <1>8, <1>9, <1>10, <1>11, <1>12, <1>13 DEF IndInv

\* What every SetSelectionOwner preserves.
LEMMA SetOwnerKeeps ==
    ASSUME IndInv, NEW o \in Owners, NEW at \in Nat, NEW cause \in Nat,
           SetOwner(o, at, cause), at <= now, o # "us" => at = now,
           UNCHANGED <<time, slot, owned>>,
           \A t \in Threads : pc'[t] \in {"store", "claim"} => pc'[t] = pc[t]
    PROVE  /\ TimesPast' /\ QueueInOrder'
           /\ (o = "us" /\ at >= changedAt =>
                   \A i \in DOMAIN queue : queue[i].kind # "lost") => LostFirst'
           /\ changedAt <= changedAt'
<1>1. TypeOK /\ TimesPast /\ QueueInOrder /\ LostFirst
  BY DEF IndInv
<1>2. /\ queue' \in Seq(Events)
      /\ Len(queue) \in Nat /\ Len(queue') \in Nat /\ Len(queue) <= Len(queue')
      /\ \A i \in 1..Len(queue) : queue'[i] = queue[i]
      /\ \A i \in 1..Len(queue') : i > Len(queue) =>
            /\ queue'[i].time = now
            /\ queue'[i].kind \in {"lost", "change"}
            /\ queue'[i].kind = "lost" => o # "us" /\ at >= changedAt
      /\ now' = now + 1
      /\ \/ at < changedAt /\ owner' = owner /\ changedAt' = changedAt /\ queue' = queue
         \/ at >= changedAt /\ owner' = o /\ changedAt' = at
  BY <1>1, SetOwnerEffect
<1>3. DOMAIN queue = 1..Len(queue) /\ DOMAIN queue' = 1..Len(queue')
  BY <1>1, <1>2 DEF TypeOK
<1>4. /\ now \in Nat /\ changedAt \in Nat /\ changedAt < now
      /\ \A i \in 1..Len(queue) : queue[i].time \in Nat /\ queue[i].time < now
      /\ \A t \in Threads : time[t] \in Nat /\ time[t] < now
      /\ slot.st = "filled" => slot.time \in Nat /\ slot.time < now
  BY <1>1, <1>3, TimeTypes DEF TimesPast
<1>5. TimesPast'
  BY <1>2, <1>3, <1>4 DEF TimesPast
<1>6. QueueInOrder'
  <2> SUFFICES ASSUME NEW i \in 1..Len(queue'), NEW j \in 1..Len(queue'),
                      i < j, queue'[i].kind = "time"
               PROVE  queue'[i].time < queue'[j].time
    BY <1>3 DEF QueueInOrder
  <2>1. i \in 1..Len(queue) /\ queue'[i] = queue[i]
    BY <1>2
  <2>2. CASE j \in 1..Len(queue)
    BY <1>1, <1>2, <1>3, <2>1, <2>2 DEF QueueInOrder
  <2>3. CASE j > Len(queue)
    BY <1>2, <1>4, <2>1, <2>3
  <2> QED
    BY <2>2, <2>3, <1>2
<1>7. ASSUME o = "us" /\ at >= changedAt => \A i \in DOMAIN queue : queue[i].kind # "lost"
      PROVE  LostFirst'
  <2> SUFFICES ASSUME NEW i \in 1..Len(queue'), queue'[i].kind = "lost"
               PROVE  /\ owner' # "us"
                      /\ queue'[i].time <= changedAt'
                      /\ slot.st = "filled" => slot.time < queue'[i].time
                      /\ \A t \in Threads : pc[t] \in {"store", "claim"} =>
                                                time[t] < queue'[i].time
    BY <1>3 DEF LostFirst
  <2>1. CASE i \in 1..Len(queue)
    <3>1. queue'[i] = queue[i] /\ queue[i].kind = "lost"
      BY <1>2, <2>1
    <3>2. /\ owner # "us" /\ queue[i].time <= changedAt
          /\ slot.st = "filled" => slot.time < queue[i].time
          /\ \A t \in Threads : pc[t] \in {"store", "claim"} => time[t] < queue[i].time
      BY <1>1, <1>3, <2>1, <3>1 DEF LostFirst
    <3>3. owner' # "us"
      BY <1>2, <1>3, <1>7, <2>1, <3>1, <3>2
    <3>4. queue[i].time <= changedAt'
      BY <1>2, <1>4, <2>1, <3>2
    <3> QED
      BY <3>1, <3>2, <3>3, <3>4
  <2>2. CASE i > Len(queue)
    BY <1>2, <1>4, <2>2
  <2> QED
    BY <2>1, <2>2, <1>2
<1> QED
  BY <1>2, <1>4, <1>5, <1>6, <1>7

\* A claim that succeeds has its time from after the last change: no
\* SelectionClear is left, and the content is there.
LEMMA ClaimKeeps ==
    ASSUME IndInv, NEW t \in Threads, Claim(t), env' = env PROVE IndInv'
<1> USE DEF Claim, Goto, subVars, miscVars
<1>1. TypeOK /\ ThreadsKept /\ TimesPast /\ LostFirst /\ ContentKept
  BY DEF IndInv
<1>2. pc[t] = "claim" /\ pc'[t] = "idle" /\ \A u \in Threads : u # t => pc'[u] = pc[u]
  BY <1>1 DEF TypeOK
<1>3. /\ time[t] \in Nat /\ token[t] \in Nat /\ "us" \in Owners /\ time[t] < now /\ now \in Nat
      /\ changedAt \in Nat
  BY <1>1, EnvType DEF TypeOK, Tokens, None, Owners, TimesPast
<1>4. /\ queue' \in Seq(Events)
      /\ Len(queue) \in Nat /\ Len(queue') \in Nat /\ Len(queue) <= Len(queue')
      /\ \A i \in 1..Len(queue) : queue'[i] = queue[i]
      /\ \A i \in 1..Len(queue') : i > Len(queue) =>
            /\ queue'[i].cause = token[t]
            /\ queue'[i].kind \in {"lost", "change"}
      /\ now' = now + 1 /\ ~broken /\ link' = link
      /\ \/ time[t] < changedAt /\ owner' = owner /\ changedAt' = changedAt /\ queue' = queue
         \/ time[t] >= changedAt /\ owner' = "us" /\ changedAt' = time[t]
  BY <1>1, <1>3, SetOwnerEffect
<1>5. DOMAIN queue = 1..Len(queue) /\ DOMAIN queue' = 1..Len(queue')
  BY <1>1, <1>4 DEF TypeOK
<1>6. TypeOK'
  BY <1>1, <1>3, <1>4 DEF TypeOK, Owners
<1>7. TokensCounted'
  BY <1>2, SamePending DEF IndInv
<1>8. ThreadsKept'
  BY <1>1, <1>2 DEF ThreadsKept
<1>9. time[t] >= changedAt => \A i \in DOMAIN queue : queue[i].kind # "lost"
  <2> SUFFICES ASSUME time[t] >= changedAt, NEW i \in DOMAIN queue, queue[i].kind = "lost"
               PROVE  FALSE
    OBVIOUS
  <2>1. queue[i].time <= changedAt /\ time[t] < queue[i].time /\ queue[i].time \in Nat
    BY <1>1, <1>2, <1>5, TimeTypes DEF LostFirst
  <2> QED
    BY <1>3, <2>1
<1>10. TimesPast' /\ QueueInOrder' /\ LostFirst'
  BY <1>2, <1>3, <1>9, SetOwnerKeeps
<1>11. ContentKept'
  <2>1. Releasing' <=> Releasing
    BY <1>2 DEF Releasing
  <2>2. link' # "broken" /\ (owner' = "us" => owned # None \/ Releasing)
    BY <1>1, <1>2, <1>3, <1>4 DEF ContentKept
  <2>3. ASSUME NEW u \in Threads, pc'[u] = "claim"
        PROVE  owned # None \/ Releasing \/ time[u] < changedAt'
    <3>1. pc[u] = "claim" /\ time[u] \in Nat
      BY <1>1, <1>2, <2>3 DEF TypeOK
    <3> QED
      BY <1>1, <1>3, <1>4, <3>1 DEF ContentKept
  <2> QED
    BY <2>1, <2>2, <2>3 DEF ContentKept
<1>12. OneWriter'
  <2> SUFFICES ASSUME NEW w \in Threads, env'.threads = {w}, ~env'.slow
               PROVE  LoneWriter(w)'
    BY DEF OneWriter
  <2>1. w = t
    BY <1>1, <1>2 DEF ThreadsKept
  <2>2. LoneWriter(t)
    BY <2>1 DEF IndInv, OneWriter
  <2>3. \A i \in 1..Len(queue) : queue[i].kind # "time" /\ ~OurChange(i)
    BY <1>2, <1>4, <1>5, <2>2 DEF LoneWriter
  <2>4. \A i \in 1..Len(queue') : queue'[i].kind # "time"
    BY <1>4, <2>3
  <2>5. \A i \in 1..Len(queue') : OurChange(i)' => queue'[i].cause = token[t]
    BY <1>4, <2>3 DEF OurChange
  <2>6. owned \in {None, token[t]}
    BY <1>2, <2>2 DEF LoneWriter
  <2> QED
    BY <1>2, <1>4, <1>5, <2>1, <2>2, <2>4, <2>5, <2>6 DEF LoneWriter, DispatchTrue
<1> QED
  BY <1>6, <1>7, <1>8, <1>10, <1>11, <1>12 DEF IndInv

\* A release or another client's claim comes with the present time, so it
\* succeeds, and every write that has its time by then is too late.
LEMMA LosingKeeps ==
    ASSUME IndInv, env' = env, NEW o \in {"other", "nobody"}, SetOwner(o, now, None),
           UNCHANGED <<time, token, nextToken, writes, slot, owned, dispatch, calling,
                       subscribed, dropped, changeCount, evpc, shutdown>>,
           foreign' \in 0..MaxForeign,
           \/ pc' = pc
           \/ \E t \in Threads : pc[t] = "release" /\ pc' = [pc EXCEPT ![t] = "bump"]
    PROVE  IndInv'
<1>1. TypeOK /\ ThreadsKept /\ TimesPast
  BY DEF IndInv
<1>2. /\ now \in Nat /\ None \in Nat /\ o \in Owners /\ o # "us" /\ changedAt \in Nat
      /\ changedAt < now /\ \A t \in Threads : time[t] < now
  BY <1>1 DEF TypeOK, None, Owners, TimesPast
<1>3. /\ queue' \in Seq(Events)
      /\ Len(queue) \in Nat /\ Len(queue') \in Nat /\ Len(queue) <= Len(queue')
      /\ \A i \in 1..Len(queue) : queue'[i] = queue[i]
      /\ \A i \in 1..Len(queue') : i > Len(queue) =>
            /\ queue'[i].owner = o
            /\ queue'[i].kind \in {"lost", "change"}
      /\ now' = now + 1 /\ owner' = o /\ changedAt' = now /\ ~broken /\ link' = link
  BY <1>1, <1>2, SetOwnerEffect
<1>4. DOMAIN queue = 1..Len(queue) /\ DOMAIN queue' = 1..Len(queue')
  BY <1>1, <1>3 DEF TypeOK
<1>5. /\ pc' \in [Threads -> {"idle", "enter", "ask", "await", "store", "claim", "release", "bump"}]
      /\ \A t \in Threads : pc'[t] = pc[t] \/ (pc[t] = "release" /\ pc'[t] = "bump")
  BY <1>1 DEF TypeOK
<1>6. TypeOK'
  BY <1>1, <1>2, <1>3, <1>5 DEF TypeOK, Owners
<1>7. TokensCounted'
  BY <1>5, SamePending DEF IndInv
<1>8. ThreadsKept'
  BY <1>1, <1>5 DEF ThreadsKept
<1>9. TimesPast' /\ QueueInOrder' /\ LostFirst'
  BY <1>2, <1>5, SetOwnerKeeps
<1>10. ContentKept'
  BY <1>2, <1>3 DEF ContentKept
<1>11. OneWriter'
  <2> SUFFICES ASSUME NEW w \in Threads, env'.threads = {w}, ~env'.slow
               PROVE  LoneWriter(w)'
    BY DEF OneWriter
  <2>1. LoneWriter(w)
    BY DEF IndInv, OneWriter
  <2>2. \A i \in 1..Len(queue') : queue'[i].kind = "time" =>
            i \in 1..Len(queue) /\ queue[i].kind = "time"
    BY <1>3
  <2>3. \A i \in 1..Len(queue') : OurChange(i)' =>
            i \in 1..Len(queue) /\ OurChange(i) /\ queue'[i] = queue[i]
    BY <1>2, <1>3 DEF OurChange
  <2> QED
    BY <1>3, <1>4, <1>5, <2>1, <2>2, <2>3 DEF LoneWriter, DispatchTrue
<1> QED
  BY <1>6, <1>7, <1>8, <1>9, <1>10, <1>11 DEF IndInv

-----------------------------------------------------------------------------
(* A broken connection.                                                    *)

\* The selection is no longer ours, and nothing else changes.
LEMMA BreakKeeps == ASSUME IndInv, ConnectionBreaks, env' = env PROVE IndInv'
<1> USE DEF ConnectionBreaks, threadVars, subVars, miscVars
<1>1. TypeOK /\ owner' # "us" /\ broken'
  BY DEF IndInv
<1>2. TypeOK'
  BY <1>1 DEF TypeOK, Owners
<1>3. TokensCounted'
  BY SamePending DEF IndInv
<1>4. ThreadsKept' /\ TimesPast' /\ QueueInOrder' /\ LostFirst'
  BY <1>1 DEF IndInv, ThreadsKept, TimesPast, QueueInOrder, LostFirst
<1>5. ContentKept'
  BY <1>1 DEF ContentKept
<1>6. OneWriter'
  BY <1>1 DEF IndInv, OneWriter, LoneWriter, OurChange, DispatchTrue
<1> QED
  BY <1>2, <1>3, <1>4, <1>5, <1>6 DEF IndInv

\* A request that fails or is lost leaves everything as it is.
LEMMA FailKeeps ==
    ASSUME IndInv, NEW t \in Threads, RequestFails(t) \/ RequestLost(t), env' = env
    PROVE  IndInv'
<1> USE DEF RequestFails, RequestLost, Goto, serverVars, subVars, miscVars
<1>1. TypeOK /\ TokensCounted /\ ThreadsKept /\ broken /\ broken'
  BY DEF IndInv
<1>2. PICK step \in {"idle", "await", "bump"} : pc' = [pc EXCEPT ![t] = step]
  OBVIOUS
<1>3. /\ pc[t] \in {"ask", "claim", "release"} /\ pc'[t] = step
      /\ step = "await" => pc[t] = "ask"
      /\ step = "bump" => pc[t] = "release"
      /\ \A u \in Threads : u # t => pc'[u] = pc[u]
      /\ UNCHANGED <<time, token, nextToken, writes, slot, owned, owner, changedAt, now, queue,
                     dispatch>>
  BY <1>1, <1>2 DEF TypeOK
<1>4. TypeOK'
  BY <1>1, <1>2 DEF TypeOK
<1>5. TokensCounted'
  <2>1. CASE pc[t] = "ask" /\ step # "await"
    <3>1. pc' = [pc EXCEPT ![t] = "idle"]
      BY <1>2, <1>3, <2>1
    <3>2. /\ IsFiniteSet(Pending') /\ Cardinality(Pending') = Cardinality(Pending) - 1
          /\ Cardinality(Pending) \in Nat
      BY <1>1, <2>1, <3>1, TokenLeft
    <3> QED
      BY <1>1, <1>3, <3>2 DEF TokensCounted, TypeOK
  <2>2. CASE ~(pc[t] = "ask" /\ step # "await")
    BY <1>1, <1>3, <2>2, SamePending
  <2> QED
    BY <2>1, <2>2
<1>6. ThreadsKept' /\ TimesPast' /\ QueueInOrder' /\ LostFirst'
  BY <1>3 DEF IndInv, ThreadsKept, TimesPast, QueueInOrder, LostFirst
<1>7. ContentKept'
  BY <1>1, <1>3 DEF IndInv, ContentKept
<1>8. OneWriter'
  BY <1>1, <1>3 DEF IndInv, OneWriter, LoneWriter, OurChange, DispatchTrue
<1> QED
  BY <1>4, <1>5, <1>6, <1>7, <1>8 DEF IndInv

-----------------------------------------------------------------------------
(* The event thread.                                                       *)

\* What Receive does to the queue.
LEMMA Received ==
    ASSUME TypeOK, NEW k, Receive(k)
    PROVE  /\ queue' \in Seq(Events) /\ evpc' = "loop"
           /\ Len(queue) \in Nat \ {0} /\ Len(queue') = Len(queue) - 1
           /\ DOMAIN queue = 1..Len(queue) /\ DOMAIN queue' = 1..(Len(queue) - 1)
           /\ \A i \in 1..(Len(queue) - 1) : queue'[i] = queue[i + 1]
           /\ Head(queue) = queue[1] /\ queue[1].kind = k /\ queue[1] \in Events
  BY Tailed DEF TypeOK, Receive

\* What is left of the queue is still in order and still has passed.
LEMMA QueueShortened ==
    ASSUME IndInv, NEW k, Receive(k), UNCHANGED <<now, changedAt, time, owner, pc>>,
           TypeOK',
           slot' = slot \/ (/\ slot'.st = "filled" => slot'.time = queue[1].time
                            /\ queue[1].kind = "time")
    PROVE  TimesPast' /\ QueueInOrder' /\ LostFirst'
<1>1. /\ Len(queue) \in Nat \ {0} /\ Len(queue') = Len(queue) - 1
      /\ DOMAIN queue = 1..Len(queue) /\ DOMAIN queue' = 1..(Len(queue) - 1)
      /\ \A i \in 1..(Len(queue) - 1) : queue'[i] = queue[i + 1]
  BY Received DEF IndInv
<1>2. TimesPast'
  BY <1>1 DEF IndInv, TimesPast
<1>3. QueueInOrder'
  <2> SUFFICES ASSUME NEW i \in 1..(Len(queue) - 1), NEW j \in 1..(Len(queue) - 1),
                      i < j, queue'[i].kind = "time"
               PROVE  queue'[i].time < queue'[j].time
    BY <1>1 DEF QueueInOrder
  <2>1. /\ i + 1 \in 1..Len(queue) /\ j + 1 \in 1..Len(queue) /\ i + 1 < j + 1
        /\ queue'[i] = queue[i + 1] /\ queue'[j] = queue[j + 1]
    BY <1>1
  <2> QED
    BY <1>1, <2>1 DEF IndInv, QueueInOrder
<1>4. LostFirst'
  <2> SUFFICES ASSUME NEW i \in 1..(Len(queue) - 1), queue'[i].kind = "lost"
               PROVE  /\ owner # "us"
                      /\ queue'[i].time <= changedAt
                      /\ slot'.st = "filled" => slot'.time < queue'[i].time
                      /\ \A t \in Threads : pc[t] \in {"store", "claim"} =>
                                                time[t] < queue'[i].time
    BY <1>1 DEF LostFirst
  <2>1. i + 1 \in 1..Len(queue) /\ 1 \in 1..Len(queue) /\ 1 < i + 1
        /\ queue'[i] = queue[i + 1]
    BY <1>1
  <2>2. slot' # slot /\ slot'.st = "filled" => slot'.time < queue'[i].time
    BY <1>1, <2>1 DEF IndInv, QueueInOrder
  <2> QED
    BY <1>1, <2>1, <2>2 DEF IndInv, LostFirst
<1> QED
  BY <1>2, <1>3, <1>4

\* A time answer keeps it.
LEMMA HandleTimeKeeps == ASSUME IndInv, HandleTime, env' = env PROVE IndInv'
<1> USE DEF HandleTime, threadVars, serverVars, subVars
<1>1. TypeOK /\ Receive("time")
  BY DEF IndInv
<1>2. /\ queue' \in Seq(Events) /\ evpc' = "loop"
      /\ Len(queue) \in Nat \ {0} /\ Len(queue') = Len(queue) - 1
      /\ DOMAIN queue = 1..Len(queue) /\ DOMAIN queue' = 1..(Len(queue) - 1)
      /\ \A i \in 1..(Len(queue) - 1) : queue'[i] = queue[i + 1]
      /\ Head(queue) = queue[1] /\ queue[1].kind = "time" /\ queue[1] \in Events
  BY <1>1, Received
<1>3. /\ slot.st # "waiting" => slot' = slot
      /\ slot.st = "waiting" => slot' = [st |-> "filled", time |-> queue[1].time]
  BY <1>2
<1>4. slot.st = "waiting" => slot'.st = "filled" /\ slot'.time = queue[1].time
  BY <1>3
<1>5. slot' \in Slots
  BY <1>1, <1>2, <1>3 DEF TypeOK, Slots, Events
<1>6. TypeOK'
  BY <1>1, <1>2, <1>5 DEF TypeOK
<1>7. TokensCounted'
  BY SamePending DEF IndInv
<1>8. TimesPast' /\ QueueInOrder' /\ LostFirst'
  BY <1>1, <1>2, <1>3, <1>4, <1>6, QueueShortened
<1>9. ThreadsKept' /\ ContentKept'
  BY DEF IndInv, ThreadsKept, ContentKept, Releasing
<1>10. OneWriter'
  <2> SUFFICES ASSUME NEW w \in Threads, env'.threads = {w}, ~env'.slow
               PROVE  LoneWriter(w)'
    BY DEF OneWriter
  <2>1. LoneWriter(w)
    BY DEF IndInv, OneWriter
  <2>2. 1 \in 1..Len(queue) /\ (broken \/ pc[w] = "await")
    BY <1>2, <2>1 DEF LoneWriter
  <2>3. \A i \in 1..(Len(queue) - 1) : i + 1 \in 1..Len(queue) /\ i + 1 # 1 /\ ~(i + 1 < 1)
    BY <1>2
  <2>4. \A i \in 1..(Len(queue) - 1) : queue'[i].kind # "time"
    BY <1>2, <2>1, <2>2, <2>3 DEF LoneWriter
  <2>5. \A i \in 1..(Len(queue) - 1) : ~OurChange(i)'
    BY <1>2, <2>1, <2>2, <2>3 DEF LoneWriter, OurChange
  <2> QED
    BY <1>2, <2>1, <2>2, <2>4, <2>5 DEF LoneWriter, DispatchTrue
<1> QED
  BY <1>6, <1>7, <1>8, <1>9, <1>10 DEF IndInv

\* A queue without its head keeps what a lone writer relies on.
LEMMA LoneWriterShortened ==
    ASSUME IndInv, NEW w \in Threads, LoneWriter(w), NEW k, Receive(k), k # "time",
           UNCHANGED <<pc, token, slot, link>>, owned' \in {None, owned}, DispatchTrue'
    PROVE  LoneWriter(w)'
<1>1. /\ Len(queue) \in Nat \ {0} /\ Len(queue') = Len(queue) - 1
      /\ DOMAIN queue = 1..Len(queue) /\ DOMAIN queue' = 1..(Len(queue) - 1)
      /\ \A i \in 1..(Len(queue) - 1) : queue'[i] = queue[i + 1]
  BY Received DEF IndInv
<1>2. \A i \in 1..(Len(queue) - 1) : i + 1 \in 1..Len(queue)
  BY <1>1
<1>3. \A i \in 1..(Len(queue) - 1) : queue'[i].kind = "time" =>
          /\ broken \/ (pc[w] = "await" /\ slot.st = "waiting")
          /\ \A j \in 1..(Len(queue) - 1) : queue'[j].kind = "time" => i = j
  <2>1. ASSUME NEW i \in 1..(Len(queue) - 1), queue'[i].kind = "time"
        PROVE  /\ i + 1 \in DOMAIN queue /\ queue[i + 1].kind = "time"
               /\ broken \/ (pc[w] = "await" /\ slot.st = "waiting")
    BY <1>1, <1>2, <2>1 DEF LoneWriter
  <2>2. ASSUME NEW i \in 1..(Len(queue) - 1), NEW j \in 1..(Len(queue) - 1),
               queue'[i].kind = "time", queue'[j].kind = "time"
        PROVE  i = j
    <3>1. i + 1 = j + 1
      BY <2>1, <2>2 DEF LoneWriter
    <3> QED
      BY <1>1, <3>1
  <2> QED
    BY <2>1, <2>2
<1>4. \A i \in 1..(Len(queue) - 1) : OurChange(i)' =>
          /\ owned \in {None, queue'[i].cause}
          /\ pc[w] \notin {"store", "claim"}
          /\ slot.st # "filled"
          /\ \A j \in 1..(Len(queue) - 1) : queue'[j].kind = "time" => i < j
  <2> SUFFICES ASSUME NEW i \in 1..(Len(queue) - 1), OurChange(i)'
               PROVE  /\ owned \in {None, queue'[i].cause}
                      /\ pc[w] \notin {"store", "claim"}
                      /\ slot.st # "filled"
                      /\ \A j \in 1..(Len(queue) - 1) : queue'[j].kind = "time" => i < j
    OBVIOUS
  <2>1. OurChange(i + 1) /\ i + 1 \in DOMAIN queue /\ queue'[i] = queue[i + 1]
    BY <1>1, <1>2 DEF OurChange
  <2>2. /\ owned \in {None, queue[i + 1].cause}
        /\ pc[w] \notin {"store", "claim"}
        /\ slot.st # "filled"
        /\ \A j \in DOMAIN queue : queue[j].kind = "time" => i + 1 < j
    BY <2>1 DEF LoneWriter
  <2>3. ASSUME NEW j \in 1..(Len(queue) - 1), queue'[j].kind = "time" PROVE i < j
    <3>1. j + 1 \in DOMAIN queue /\ queue[j + 1].kind = "time"
      BY <1>1, <1>2, <2>3
    <3> QED
      BY <2>2, <3>1
  <2> QED
    BY <2>1, <2>2, <2>3
<1>5. owned' \in {None, owned} /\ UNCHANGED <<pc, token, slot, link>>
  OBVIOUS
<1> QED
  BY <1>1, <1>3, <1>4, <1>5 DEF LoneWriter

\* A SelectionClear that is handled drops no content we still need: while it
\* was queued we were not the owner, and no write with a time succeeds.
LEMMA HandleLostKeeps == ASSUME IndInv, HandleLost, env' = env PROVE IndInv'
<1> USE DEF HandleLost, threadVars, serverVars, subVars
<1>1. TypeOK /\ Receive("lost") /\ owned' = None
  BY DEF IndInv
<1>2. /\ queue' \in Seq(Events) /\ evpc' = "loop"
      /\ Len(queue) \in Nat \ {0} /\ DOMAIN queue = 1..Len(queue)
      /\ queue[1].kind = "lost"
  BY <1>1, Received
<1>3. TypeOK'
  BY <1>1, <1>2 DEF TypeOK
<1>4. TokensCounted'
  BY SamePending DEF IndInv
<1>5. TimesPast' /\ QueueInOrder' /\ LostFirst'
  BY <1>1, <1>3, QueueShortened
<1>6. ThreadsKept'
  BY DEF IndInv, ThreadsKept
<1>7. ContentKept'
  <2>1. 1 \in DOMAIN queue
    BY <1>2
  <2>2. /\ owner # "us" /\ queue[1].time <= changedAt
        /\ \A t \in Threads : pc[t] = "claim" => time[t] < queue[1].time
    BY <1>2, <2>1 DEF IndInv, LostFirst
  <2>3. \A t \in Threads : pc[t] = "claim" => time[t] < changedAt
    BY <1>1, <2>1, <2>2, TimeTypes
  <2> QED
    BY <2>2, <2>3 DEF ContentKept
<1>8. OneWriter'
  <2> SUFFICES ASSUME NEW w \in Threads, env'.threads = {w}, ~env'.slow
               PROVE  LoneWriter(w)'
    BY DEF OneWriter
  <2>1. LoneWriter(w)
    BY DEF IndInv, OneWriter
  <2>2. DispatchTrue'
    BY <2>1 DEF LoneWriter, DispatchTrue
  <2> QED
    BY <1>1, <2>1, <2>2, LoneWriterShortened
<1> QED
  BY <1>3, <1>4, <1>5, <1>6, <1>7, <1>8 DEF IndInv

\* A notification of our own change finds the content of that write.
LEMMA HandleChangeKeeps == ASSUME IndInv, HandleChange, env' = env PROVE IndInv'
<1> USE DEF HandleChange, threadVars, serverVars
<1> DEFINE n == [count |-> changeCount + 1,
                 token |-> IF Head(queue).owner = "us" THEN owned ELSE None,
                 cause |-> Head(queue).cause]
<1>1. TypeOK /\ Receive("change")
  BY DEF IndInv
<1>2. /\ queue' \in Seq(Events) /\ evpc' = "loop"
      /\ Len(queue) \in Nat \ {0} /\ DOMAIN queue = 1..Len(queue)
      /\ Head(queue) = queue[1] /\ queue[1].kind = "change" /\ queue[1] \in Events
  BY <1>1, Received
<1>3. /\ n \in Notices /\ n.cause = queue[1].cause
      /\ n.token = None \/ (queue[1].owner = "us" /\ n.token = owned)
  <2>1. n.cause = queue[1].cause
    BY <1>2
  <2>2. n.token = None \/ (queue[1].owner = "us" /\ n.token = owned)
    BY <1>2
  <2>3. queue[1].cause \in Nat
    BY <1>2 DEF Events
  <2>4. owned \in Nat /\ None \in Nat
    BY <1>1, EnvType DEF TypeOK, Tokens, None
  <2>5. changeCount + 1 \in Nat
    BY <1>1 DEF TypeOK
  <2>6. n \in Notices
    BY <1>2, <2>3, <2>4, <2>5 DEF Notices
  <2> QED
    BY <2>1, <2>2, <2>6
<1>4. dispatch' = Append(dispatch, n)
  OBVIOUS
<1> HIDE DEF n
<1>5. /\ dispatch' \in Seq(Notices) /\ Len(dispatch) \in Nat
      /\ DOMAIN dispatch = 1..Len(dispatch) /\ DOMAIN dispatch' = 1..(Len(dispatch) + 1)
      /\ \A i \in 1..Len(dispatch) : dispatch'[i] = dispatch[i]
      /\ dispatch'[Len(dispatch) + 1] = n
  BY <1>1, <1>3, <1>4, Appended DEF TypeOK
<1>6. TypeOK'
  BY <1>1, <1>2, <1>5 DEF TypeOK
<1>7. TokensCounted'
  BY SamePending DEF IndInv
<1>8. TimesPast' /\ QueueInOrder' /\ LostFirst'
  BY <1>1, <1>6, QueueShortened
<1>9. ThreadsKept' /\ ContentKept'
  BY DEF IndInv, ThreadsKept, ContentKept, Releasing
<1>10. OneWriter'
  <2> SUFFICES ASSUME NEW w \in Threads, env'.threads = {w}, ~env'.slow
               PROVE  LoneWriter(w)'
    BY DEF OneWriter
  <2>1. LoneWriter(w)
    BY DEF IndInv, OneWriter
  <2>2. 1 \in DOMAIN queue /\ (queue[1].owner = "us" => OurChange(1))
    BY <1>2 DEF OurChange
  <2>3. n.token \in {None, n.cause}
    BY <1>3, <2>1, <2>2 DEF LoneWriter
  <2>4. DispatchTrue'
    BY <1>5, <2>1, <2>3 DEF LoneWriter, DispatchTrue
  <2> QED
    BY <1>1, <2>1, <2>4, LoneWriterShortened
<1> QED
  BY <1>6, <1>7, <1>8, <1>9, <1>10 DEF IndInv

-----------------------------------------------------------------------------
(* The theorems.                                                           *)

\* The invariant holds initially.
LEMMA IndInvInit == Init => IndInv
<1> SUFFICES ASSUME Init PROVE IndInv
  OBVIOUS
<1>1. MaxWrites \in Nat /\ MaxForeign \in Nat
  BY OwnAssumption
<1>2. queue = <<>> /\ <<>> \in Seq(Events) /\ DOMAIN queue = {}
  BY DEF Init
<1>3. dispatch = <<>> /\ <<>> \in Seq(Notices) /\ DOMAIN dispatch = {}
  BY DEF Init
<1>4. slot \in Slots /\ slot.st = "free"
  BY DEF Init, Free, Slots
<1>5. NotCalling \in [event : Notices, todo : SUBSET Subs]
  BY StopIsNotice DEF NotCalling
<1>6. TypeOK
  BY <1>1, <1>2, <1>3, <1>4, <1>5 DEF Init, TypeOK, Owners
<1>7. TokensCounted
  <2>1. Pending = {}
    BY DEF Init, Pending
  <2> QED
    BY <2>1, FS_EmptySet DEF Init, TokensCounted
<1>8. ThreadsKept /\ TimesPast /\ QueueInOrder /\ LostFirst /\ ContentKept
  BY <1>2, <1>4 DEF Init, ThreadsKept, TimesPast, QueueInOrder, LostFirst, ContentKept
<1>9. OneWriter
  <2>1. slot.st = "free" /\ \A t \in Threads : pc[t] = "idle"
    BY <1>4 DEF Init
  <2> QED
    BY <1>2, <1>3, <2>1 DEF OneWriter, LoneWriter, DispatchTrue
<1> QED
  BY <1>6, <1>7, <1>8, <1>9 DEF IndInv

\* Every step preserves it.
LEMMA IndInvStep == IndInv /\ [Next]_<<env, vars>> => IndInv'
<1> SUFFICES ASSUME IndInv, [Next]_<<env, vars>> PROVE IndInv'
  OBVIOUS
<1>1. CASE UNCHANGED <<env, vars>>
  <2>1. TypeOK'
    BY <1>1 DEF IndInv, TypeOK, vars
  <2> QED
    BY <1>1, <2>1, QuietKeeps DEF vars, DispatchTrue
<1>2. ASSUME NEW t \in Threads, env' = env, BeginWrite(t) \/ DropOwned(t) \/ ThreadStep(t)
      PROVE  IndInv'
  <2>1. CASE Release(t)
    <3>1. SetOwner("nobody", now, None) /\ pc[t] = "release" /\ pc' = [pc EXCEPT ![t] = "bump"]
      BY <2>1 DEF Release, Goto
    <3>2. foreign' \in 0..MaxForeign
      BY <2>1 DEF Release, miscVars, IndInv, TypeOK
    <3> QED
      BY <1>2, <2>1, <3>1, <3>2, LosingKeeps DEF Release, subVars, miscVars
  <2> QED
    BY <1>2, <2>1, BeginWriteKeeps, DropOwnedKeeps, TakeSlotKeeps, AskTimeKeeps,
       AwaitTimeKeeps, StoreOwnedKeeps, ClaimKeeps, BumpKeeps, FailKeeps DEF ThreadStep
<1>3. ASSUME env' = env, OtherTakes PROVE IndInv'
  <2>1. foreign' \in 0..MaxForeign
    BY <1>3, OwnAssumption DEF OtherTakes, IndInv, TypeOK
  <2> QED
    BY <1>3, <2>1, LosingKeeps DEF OtherTakes, threadVars, subVars
<1>4. ASSUME env' = env, EventThread \/ Dispatcher PROVE IndInv'
  BY <1>4, EventLoopKeeps, EventsEndKeeps, HandleTimeKeeps, HandleLostKeeps, HandleChangeKeeps,
     DispatchKeeps, SubsKeep DEF EventThread, Dispatcher
<1> QED
  BY <1>1, <1>2, <1>3, <1>4, SubsKeep, BreakKeeps DEF Next

\* While the server routes pastes to us there is content to answer with,
\* for any number of writers, however their rendezvous end.
THEOREM OwnerAlwaysServes == Spec => []OwnerServes
<1>1. IndInv => OwnerServes
  BY DEF IndInv, OwnerServes, ContentKept, Releasing
<1> QED
  BY <1>1, IndInvInit, IndInvStep, PTL DEF Spec

\* A lone writer's notifications carry the token of the write that caused
\* them or none, if no rendezvous timed out.
THEOREM TokensNeverMixed == Spec => []TokenOfThatWrite
<1>1. IndInv => TokenOfThatWrite
  BY DEF IndInv, OneWriter, LoneWriter, DispatchTrue, TokenOfThatWrite
<1> QED
  BY <1>1, IndInvInit, IndInvStep, PTL DEF Spec

=============================================================================
