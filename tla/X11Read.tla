------------------------------ MODULE X11Read ------------------------------
(***************************************************************************)
(* Reading the clipboard under X11: read_text, the event thread's handlers *)
(* for SelectionNotify and PropertyNotify(NewValue), the INCR receive slot *)
(* and the watchdog that sweeps it.                                        *)
(*                                                                         *)
(* All reads share one destination property, so there is one registration  *)
(* (pending_reads), one receive slot (incr_receives) and one property.     *)
(* A step is what a thread does under one lock or in one request; events   *)
(* reach the event thread in the order the server sent them.               *)
(*                                                                         *)
(* The selection owner is another client.  It answers requests in order,   *)
(* keeps one incremental transfer per requestor and property, as this      *)
(* crate does on its own serving side, and sends the next piece when the   *)
(* property is deleted.  A text is a sequence of pieces (a piece is what   *)
(* one GetProperty or one chunk returns) and every request is answered     *)
(* with a text of its own, so a result shows where each piece came from.   *)
(***************************************************************************)
EXTENDS Naturals, Sequences

CONSTANTS
    Readers,       \* threads that call read_text
    Cap,           \* MAX_CLIPBOARD_BYTES, in pieces
    BadTexts,      \* requests whose text is not valid UTF-8
    MaxReads,      \* bound on read_text calls
    Environments   \* the surroundings a behaviour may have

\* Who reads, how long the owner's texts are, whether it may exceed the
\* bounds of read_text and the watchdog, whether requests to the server may
\* fail, and how many reads there are.
ASSUME ReadAssumption ==
    /\ Cap \in Nat \ {0} /\ MaxReads \in Nat
    /\ \A e \in Environments :
          /\ DOMAIN e = {"readers", "lengths", "slow", "errors", "reads"}
          /\ e.readers \subseteq Readers /\ e.lengths \subseteq Nat \ {0}
          /\ e.slow \in BOOLEAN /\ e.errors \in BOOLEAN /\ e.reads \in 0..MaxReads

Calls == 1..MaxReads
None == 0

\* The bytes of the INCR marker, should they ever be taken for content.
MarkerPiece == <<0, 0>>
Piece == {MarkerPiece} \cup (Calls \X Nat)

Text(c, n) == [i \in 1..n |-> <<c, i>>]

Utf8(s) == \A i \in DOMAIN s : s[i][1] \notin BadTexts

\* Results of read_text: Ok(Some(text)), Ok(None) or Err.
Ok(s) == [kind |-> "text", text |-> s]
Nothing == [kind |-> "none", text |-> <<>>]
Err == [kind |-> "error", text |-> <<>>]
Result == [kind : {"text", "none", "error"}, text : Seq(Piece)]

\* The owner's notice that the property was deleted; other events in its
\* inbox are requests, named by the call that sent them.
Deleted == 0

NoProp == [type |-> "absent", text |-> <<>>, hint |-> 0]

VARIABLES
    env,       \* the surroundings of this behaviour; never changes
    pc,        \* next step of each reader
    call,      \* its current call
    outcome,   \* the result it returned, or is about to return
    reads,     \* calls made so far
    pending,   \* pending_reads: the call registered for the property
    state,     \* PendingReadState of each call, and its result
    receive,   \* incr_receives: the call it feeds and what has accumulated
    sweep,     \* the watchdog found the slot timed out and will drop it
    queue,     \* events for our window
    hand,      \* what the event thread is in the middle of
    prop,      \* the destination property
    inbox,     \* the owner's events: requests, and deletions of the property
    sending    \* the owner's incremental transfer

vars == <<pc, call, outcome, reads, pending, state, receive, sweep, queue,
          hand, prop, inbox, sending>>

readerVars == <<pc, call, outcome, reads>>
ownerVars  == <<inbox, sending>>

NoReceive == [call |-> None, acc |-> <<>>]
NoSend == [call |-> None, text |-> <<>>]
AtRest == [step |-> "poll", call |-> None, acc |-> <<>>]

\* A SelectionNotify (with the request it answers) or a PropertyNotify.
Events == [kind : {"notify", "refused"}, call : Calls] \cup [kind : {"newValue"}]

TypeOK ==
    /\ env \in Environments
    /\ pc \in [Readers -> {"idle", "send", "wait", "drop"}]
    /\ call \in [Readers -> Calls \cup {None}]
    /\ outcome \in [Readers -> Result]
    /\ reads \in 0..MaxReads
    /\ pending \in Calls \cup {None}
    /\ state \in [Calls -> [st : {"awaiting", "incr", "done"}, result : Result]]
    /\ receive \in [call : Calls \cup {None}, acc : Seq(Piece)]
    /\ sweep \in BOOLEAN
    /\ queue \in Seq(Events)
    /\ hand \in [step : {"poll", "peek", "rest", "register", "unmark", "chunk", "append"},
                 call : Calls \cup {None}, acc : Seq(Piece)]
    /\ prop \in [type : {"absent", "incr", "data"}, text : Seq(Piece), hint : Nat]
    /\ inbox \in Seq(Calls \cup {Deleted})
    /\ sending \in [call : Calls \cup {None}, text : Seq(Piece)]

Init ==
    /\ env \in Environments
    /\ pc = [r \in Readers |-> "idle"]
    /\ call = [r \in Readers |-> None]
    /\ outcome = [r \in Readers |-> Nothing]
    /\ reads = 0
    /\ pending = None
    /\ state = [c \in Calls |-> [st |-> "awaiting", result |-> Nothing]]
    /\ receive = NoReceive
    /\ sweep = FALSE
    /\ queue = <<>>
    /\ hand = AtRest
    /\ prop = NoProp
    /\ inbox = <<>>
    /\ sending = NoSend

Complete(c, result) == state' = [state EXCEPT ![c] = [st |-> "done", result |-> result]]

\* complete_plain_read.
Deliver(c, s) == Complete(c, IF Utf8(s) THEN Ok(s) ELSE Err)

-----------------------------------------------------------------------------
(* read_text.                                                              *)

\* Reserve the destination property, or report that it is in use.
BeginRead(r) ==
    /\ r \in env.readers
    /\ pc[r] = "idle"
    /\ reads < env.reads
    /\ reads' = reads + 1
    /\ call' = [call EXCEPT ![r] = reads + 1]
    /\ IF pending # None
       THEN /\ outcome' = [outcome EXCEPT ![r] = Err]
            /\ UNCHANGED <<pc, pending>>
       ELSE /\ pending' = reads + 1
            /\ pc' = [pc EXCEPT ![r] = "send"]
            /\ UNCHANGED outcome
    /\ UNCHANGED <<state, receive, sweep, queue, hand, prop, ownerVars>>

\* Faulty variant: the error path's removal also runs on success.
SendConvertUnregisters(r) ==
    /\ pc[r] = "send"
    /\ inbox' = Append(inbox, call[r])
    /\ pending' = None
    /\ pc' = [pc EXCEPT ![r] = "wait"]
    /\ UNCHANGED <<call, outcome, reads, state, receive, sweep, queue, hand,
                   prop, sending>>

\* ConvertSelection and flush.
SendConvert(r) ==
    /\ pc[r] = "send"
    /\ \/ /\ inbox' = Append(inbox, call[r])
          /\ pc' = [pc EXCEPT ![r] = "wait"]
          /\ UNCHANGED outcome
       \/ /\ env.errors
          /\ outcome' = [outcome EXCEPT ![r] = Err]
          /\ pc' = [pc EXCEPT ![r] = "drop"]
          /\ UNCHANGED inbox
    /\ UNCHANGED <<call, reads, pending, state, receive, sweep, queue, hand,
                   prop, sending>>

TakeResult(r) ==
    /\ pc[r] = "wait"
    /\ state[call[r]].st = "done"
    /\ outcome' = [outcome EXCEPT ![r] = state[call[r]].result]
    /\ state' = [state EXCEPT ![call[r]].result = Err]
    /\ pc' = [pc EXCEPT ![r] = "drop"]
    /\ UNCHANGED <<call, reads, pending, receive, sweep, queue, hand, prop,
                   ownerVars>>

\* Faulty variant: no bound until the owner has answered.
TimeOutOnlyIncremental(r) ==
    /\ env.slow
    /\ pc[r] = "wait"
    /\ state[call[r]].st \notin {"awaiting", "done"}
    /\ outcome' = [outcome EXCEPT ![r] = Err]
    /\ pc' = [pc EXCEPT ![r] = "drop"]
    /\ UNCHANGED <<call, reads, pending, state, receive, sweep, queue, hand,
                   prop, ownerVars>>

\* 500 ms without a SelectionNotify, or 15 s into an incremental transfer.
TimeOut(r) ==
    /\ env.slow
    /\ pc[r] = "wait"
    /\ state[call[r]].st # "done"
    /\ outcome' = [outcome EXCEPT ![r] = Err]
    /\ pc' = [pc EXCEPT ![r] = "drop"]
    /\ UNCHANGED <<call, reads, pending, state, receive, sweep, queue, hand,
                   prop, ownerVars>>

\* Every way out removes the registration of the property, whoever's it is.
Unregister(r) ==
    /\ pc[r] = "drop"
    /\ pending' = None
    /\ pc' = [pc EXCEPT ![r] = "idle"]
    /\ UNCHANGED <<call, outcome, reads, state, receive, sweep, queue, hand,
                   prop, ownerVars>>

-----------------------------------------------------------------------------
(* The event thread: handle_selection_notify.                              *)

\* Take the registration out of the map.  A refusal completes it at once.
SelectionNotify ==
    /\ hand = AtRest
    /\ queue # <<>>
    /\ Head(queue).kind \in {"notify", "refused"}
    /\ queue' = Tail(queue)
    /\ pending' = None
    /\ IF pending = None
       THEN UNCHANGED <<state, hand>>
       ELSE IF Head(queue).kind = "refused"
            THEN Complete(pending, Nothing) /\ UNCHANGED hand
            ELSE /\ hand' = [AtRest EXCEPT !.step = "peek", !.call = pending]
                 /\ UNCHANGED state
    /\ UNCHANGED <<readerVars, receive, sweep, prop, ownerVars>>

\* GetProperty without delete: classify, check the announced size, keep the
\* first piece.
Peek ==
    /\ hand.step = "peek"
    /\ \/ /\ env.errors
          /\ Complete(hand.call, Err)
          /\ hand' = AtRest
       \/ /\ prop.type = "incr" /\ prop.hint > Cap
          /\ Complete(hand.call, Err)
          /\ hand' = AtRest
       \/ /\ prop.type = "incr" /\ prop.hint <= Cap
          /\ hand' = [hand EXCEPT !.step = "register"]
          /\ UNCHANGED state
       \/ /\ prop.type # "incr" /\ Len(prop.text) <= 1
          /\ Deliver(hand.call, prop.text)
          /\ hand' = AtRest
       \/ /\ prop.type # "incr" /\ Len(prop.text) > Cap
          /\ Complete(hand.call, Err)
          /\ hand' = AtRest
       \/ /\ prop.type # "incr" /\ Len(prop.text) \in 2..Cap
          /\ hand' = [hand EXCEPT !.step = "rest", !.acc = SubSeq(prop.text, 1, 1)]
          /\ UNCHANGED state
    /\ UNCHANGED <<readerVars, pending, receive, sweep, queue, prop, ownerVars>>

\* GetProperty from the offset reached: the remaining pieces in one reply.
ReadRest ==
    /\ hand.step = "rest"
    /\ \/ env.errors /\ Complete(hand.call, Err)
       \/ Deliver(hand.call, hand.acc \o SubSeq(prop.text, 2, Len(prop.text)))
    /\ hand' = AtRest
    /\ UNCHANGED <<readerVars, pending, receive, sweep, queue, prop, ownerVars>>

\* Promote the read: the slot is there before the marker is deleted.
RegisterReceive ==
    /\ hand.step = "register"
    /\ state' = [state EXCEPT ![hand.call].st = "incr"]
    /\ receive' = [call |-> hand.call, acc |-> <<>>]
    /\ hand' = [hand EXCEPT !.step = "unmark"]
    /\ UNCHANGED <<readerVars, pending, sweep, queue, prop, ownerVars>>

\* Deleting a property that is there notifies the owner.
DeleteProp ==
    /\ prop' = NoProp
    /\ inbox' = IF prop = NoProp THEN inbox ELSE Append(inbox, Deleted)

DeleteMarker ==
    /\ hand.step = "unmark"
    /\ DeleteProp
    /\ hand' = AtRest
    /\ UNCHANGED <<readerVars, pending, state, receive, sweep, queue, sending>>

-----------------------------------------------------------------------------
(* The event thread: handle_incr_receive_chunk, and the watchdog.          *)

\* Faulty variant: the gate is missing, so that the owner's plain answer is
\* deleted before the SelectionNotify is handled.
NewValueUngated ==
    /\ hand = AtRest
    /\ queue # <<>>
    /\ Head(queue).kind = "newValue"
    /\ queue' = Tail(queue)
    /\ hand' = [AtRest EXCEPT !.step = "chunk"]
    /\ UNCHANGED <<readerVars, pending, state, receive, sweep, prop, ownerVars>>

\* Ignored unless a receive is active.
NewValue ==
    /\ hand = AtRest
    /\ queue # <<>>
    /\ Head(queue).kind = "newValue"
    /\ queue' = Tail(queue)
    /\ hand' = IF receive = NoReceive THEN hand ELSE [AtRest EXCEPT !.step = "chunk"]
    /\ UNCHANGED <<readerVars, pending, state, receive, sweep, prop, ownerVars>>

\* GetProperty with delete, whatever the type of the property.
GetChunk ==
    /\ hand.step = "chunk"
    /\ \/ /\ env.errors
          /\ IF receive = NoReceive THEN UNCHANGED state ELSE Complete(receive.call, Err)
          /\ receive' = NoReceive
          /\ hand' = AtRest
          /\ UNCHANGED <<prop, inbox>>
       \/ /\ DeleteProp
          /\ hand' = [hand EXCEPT !.step = "append",
                      !.acc = IF prop.type = "incr" THEN <<MarkerPiece>> ELSE prop.text]
          /\ UNCHANGED <<state, receive>>
    /\ UNCHANGED <<readerVars, pending, sweep, queue, sending>>

\* An empty value ends the transfer; the cap refuses rather than truncates.
\* Nothing happens if the watchdog has dropped the slot meanwhile.
AppendChunk ==
    /\ hand.step = "append"
    /\ hand' = AtRest
    /\ \/ /\ receive = NoReceive
          /\ UNCHANGED <<state, receive>>
       \/ /\ receive # NoReceive /\ hand.acc = <<>>
          /\ Deliver(receive.call, receive.acc)
          /\ receive' = NoReceive
       \/ /\ receive # NoReceive /\ hand.acc # <<>>
          /\ Len(receive.acc) + Len(hand.acc) > Cap
          /\ Complete(receive.call, Err)
          /\ receive' = NoReceive
       \/ /\ receive # NoReceive /\ hand.acc # <<>>
          /\ Len(receive.acc) + Len(hand.acc) <= Cap
          /\ receive' = [receive EXCEPT !.acc = @ \o hand.acc]
          /\ UNCHANGED state
    /\ UNCHANGED <<readerVars, pending, sweep, queue, prop, ownerVars>>

\* sweep_incr_receive_timeouts: collect under the lock, drop under a second
\* acquisition of it.
SweepFind ==
    /\ env.slow
    /\ ~sweep
    /\ receive # NoReceive
    /\ sweep' = TRUE
    /\ UNCHANGED <<readerVars, pending, state, receive, queue, hand, prop, ownerVars>>

SweepDrop ==
    /\ sweep
    /\ sweep' = FALSE
    /\ IF receive = NoReceive THEN UNCHANGED state ELSE Complete(receive.call, Err)
    /\ receive' = NoReceive
    /\ UNCHANGED <<readerVars, pending, queue, hand, prop, ownerVars>>

-----------------------------------------------------------------------------
(* The selection owner.                                                    *)

Put(p, more) ==
    /\ prop' = p
    /\ queue' = queue \o <<[kind |-> "newValue"]>> \o more

Answer ==
    /\ inbox # <<>> /\ Head(inbox) # Deleted
    /\ inbox' = Tail(inbox)
    /\ LET c == Head(inbox)
           notify == [kind |-> "notify", call |-> c]
       IN  \/ /\ queue' = Append(queue, [kind |-> "refused", call |-> c])
              /\ UNCHANGED <<prop, sending>>
           \/ \E n \in env.lengths :
                 \/ /\ Put([type |-> "data", text |-> Text(c, n), hint |-> 0], <<notify>>)
                    /\ UNCHANGED sending
                 \* the size hint is optional
                 \/ \E hint \in {0, n} :
                       /\ Put([type |-> "incr", text |-> <<>>, hint |-> hint], <<notify>>)
                       /\ sending' = [call |-> c, text |-> Text(c, n)]
    /\ UNCHANGED <<readerVars, pending, state, receive, sweep, hand>>

\* The next piece, or the empty value that ends the transfer.
SendChunk ==
    /\ inbox # <<>> /\ Head(inbox) = Deleted
    /\ inbox' = Tail(inbox)
    /\ IF sending = NoSend
       THEN UNCHANGED <<prop, queue, sending>>
       ELSE /\ Put([type |-> "data", hint |-> 0, text |->
                       SubSeq(sending.text, 1, IF sending.text = <<>> THEN 0 ELSE 1)],
                   <<>>)
            /\ sending' = IF sending.text = <<>> THEN NoSend
                          ELSE [sending EXCEPT !.text = Tail(@)]
    /\ UNCHANGED <<readerVars, pending, state, receive, sweep, hand>>

-----------------------------------------------------------------------------
ReaderStep(r) == SendConvert(r) \/ TakeResult(r) \/ TimeOut(r) \/ Unregister(r)

EventThread ==
    \/ SelectionNotify \/ Peek \/ ReadRest \/ RegisterReceive \/ DeleteMarker
    \/ NewValue \/ GetChunk \/ AppendChunk

Watchdog == SweepFind \/ SweepDrop

Owner == Answer \/ SendChunk

Next ==
    /\ \/ \E r \in Readers : BeginRead(r) \/ ReaderStep(r)
       \/ EventThread \/ Watchdog \/ Owner
    /\ UNCHANGED env

Spec == Init /\ [][Next]_<<env, vars>>

\* Threads are scheduled and timers fire; nothing is assumed of the owner.
FairSpec ==
    /\ Spec
    /\ \A r \in Readers : WF_vars(ReaderStep(r))
    /\ WF_vars(EventThread)
    /\ WF_vars(Watchdog)

-----------------------------------------------------------------------------
(* Properties.                                                             *)

OneReader == \E r \in Readers : env.readers = {r}

\* With one reader and an owner that keeps the bounds, a successful read
\* returns the complete text the owner gave for this very read: never a
\* part, never pieces of the text of an earlier read that ended in an error
\* half way through its transfer.  Texts above the cap are refused, on each
\* of the three paths that check it.  And however a read ended, it leaves no
\* registration that would refuse every later one.
ReadIsOwnAnswer ==
    /\ TypeOK
    /\ OneReader /\ ~env.slow =>
          \A r \in Readers :
             /\ pc[r] \in {"idle", "drop"}
             /\ outcome[r].kind = "text"
             => \E n \in env.lengths : n <= Cap /\ outcome[r].text = Text(call[r], n)
    /\ pending # None => \E r \in Readers : pc[r] # "idle" /\ call[r] = pending

\* "Missing SelectionNotify means an unresponsive owner": with one reader,
\* the answer to a read that still waits for it is never thrown away, even
\* after earlier reads that timed out.
AnswerNotDropped ==
    [][OneReader =>
          \A r \in Readers :
             /\ SelectionNotify
             /\ Head(queue).call = call[r]
             /\ pc[r] = "wait"
             => pending # None \/ state[call[r]].st # "awaiting"]_vars

\* Every read returns, whatever the owner does or fails to do.
ReadReturns ==
    \A r \in Readers : env.slow /\ pc[r] = "send" ~> pc[r] = "idle"

=============================================================================
