------------------------- MODULE InMemoryClipboard -------------------------
(***************************************************************************)
(* in_memory.rs: the clipboard behind one mutex that the tests and the     *)
(* leak harness use in place of X11, called from several threads.          *)
(*                                                                         *)
(* What a call does under the mutex is one step.  Subscribers are called   *)
(* after it is released, one by one, from the list as it was when the      *)
(* change was made.                                                        *)
(***************************************************************************)
EXTENDS Naturals, Sequences

CONSTANTS
    Threads,     \* threads that use the clipboard
    Texts,       \* texts
    NoText,      \* no text
    Subs,        \* subscriptions, each with a callback of its own
    MaxChanges,  \* bound on changes
    MaxReads,    \* bound on reads and forced failures
    LateDrops    \* whether a handle is dropped while its callback is due

ASSUME InMemoryAssumption ==
    /\ NoText \notin Texts /\ MaxChanges \in Nat /\ MaxReads \in Nat
    /\ LateDrops \in BOOLEAN

NoToken == 0

VARIABLES
    text,         \* text
    changeCount,  \* change_count
    nextToken,    \* next_token
    subscribers,  \* subscribers
    history,      \* history, in order
    reads,        \* reads, in order
    forcedErr,    \* whether forced_read_err is set
    event,        \* the event each thread is telling subscribers about
    todo,         \* the callbacks each thread has still to make
    notifying,    \* threads between the change and their return
    seen          \* events each subscription's callback received

vars == <<text, changeCount, nextToken, subscribers, history, reads,
          forcedErr, event, todo, notifying, seen>>

HistoryEntry ==
    [kind : {"write"}, token : Nat, after : Nat, text : Texts]
    \cup [kind : {"clear"}, after : Nat]

Read == [at : Nat, snapshot : Texts \cup {NoText}]

Event == [count : Nat, token : Nat]

TypeOK ==
    /\ text \in Texts \cup {NoText}
    /\ changeCount \in 0..MaxChanges
    /\ nextToken \in 1..(MaxChanges + 1)
    /\ subscribers \subseteq Subs
    /\ history \in Seq(HistoryEntry)
    /\ reads \in Seq(Read)
    /\ forcedErr \in BOOLEAN
    /\ event \in [Threads -> Event]
    /\ todo \in [Threads -> SUBSET Subs]
    /\ notifying \subseteq Threads
    /\ seen \in [Subs -> Seq(Event)]

Init ==
    /\ text = NoText
    /\ changeCount = 0
    /\ nextToken = 1
    /\ subscribers = {}
    /\ history = <<>>
    /\ reads = <<>>
    /\ forcedErr = FALSE
    /\ event = [t \in Threads |-> [count |-> 0, token |-> NoToken]]
    /\ todo = [t \in Threads |-> {}]
    /\ notifying = {}
    /\ seen = [s \in Subs |-> <<>>]

-----------------------------------------------------------------------------
(* Under the mutex.                                                        *)

\* The part write_text, clear and simulate_external_write share: the new
\* text, the count, the history entry, and the snapshot of the subscribers
\* that the callbacks are made from.
Changes(t, x, tok, entry) ==
    /\ t \notin notifying
    /\ changeCount < MaxChanges
    /\ text' = x
    /\ changeCount' = changeCount + 1
    /\ history' = Append(history, entry)
    /\ event' = [event EXCEPT ![t] = [count |-> changeCount + 1, token |-> tok]]
    /\ todo' = [todo EXCEPT ![t] = subscribers]
    /\ notifying' = notifying \cup {t}
    /\ UNCHANGED <<subscribers, reads, forcedErr, seen>>

\* The hints are recorded and looked at by nobody here; the source of a
\* write shows in its token.
Write(tok, x) ==
    [kind |-> "write", token |-> tok, after |-> changeCount + 1, text |-> x]

WriteText(t, x) ==
    /\ Changes(t, x, nextToken, Write(nextToken, x))
    /\ nextToken' = nextToken + 1

\* Token 0 marks a write that is not ours.
SimulateExternalWrite(t, x) ==
    /\ Changes(t, x, NoToken, Write(NoToken, x))
    /\ UNCHANGED nextToken

\* Faulty variant: clear hands out a token, so that its event looks like the
\* echo of a write.
ClearWithToken(t) ==
    /\ Changes(t, NoText, nextToken,
               [kind |-> "clear", after |-> changeCount + 1])
    /\ nextToken' = nextToken + 1

Clear(t) ==
    /\ Changes(t, NoText, NoToken, [kind |-> "clear", after |-> changeCount + 1])
    /\ UNCHANGED nextToken

\* A forced error is used up by one read; a read that succeeds is recorded.
ReadText(t) ==
    /\ t \notin notifying
    /\ IF forcedErr
       THEN forcedErr' = FALSE /\ UNCHANGED reads
       ELSE /\ Len(reads) < MaxReads
            /\ reads' = Append(reads, [at |-> changeCount, snapshot |-> text])
            /\ UNCHANGED forcedErr
    /\ UNCHANGED <<text, changeCount, nextToken, subscribers, history, event,
                   todo, notifying, seen>>

ForceNextReadFail ==
    /\ ~forcedErr
    /\ Len(reads) < MaxReads
    /\ forcedErr' = TRUE
    /\ UNCHANGED <<text, changeCount, nextToken, subscribers, history, reads,
                   event, todo, notifying, seen>>

Subscribe(s) ==
    /\ s \notin subscribers
    /\ subscribers' = subscribers \cup {s}
    /\ UNCHANGED <<text, changeCount, nextToken, history, reads, forcedErr,
                   event, todo, notifying, seen>>

\* Drop of the handle: it takes the callback off the list, not out of the
\* snapshots that are being worked through.  The code does not wait for
\* those; without LateDrops its callers do.
Unsubscribe(s) ==
    /\ s \in subscribers
    /\ LateDrops \/ \A t \in Threads : s \notin todo[t]
    /\ subscribers' = subscribers \ {s}
    /\ UNCHANGED <<text, changeCount, nextToken, history, reads, forcedErr,
                   event, todo, notifying, seen>>

-----------------------------------------------------------------------------
(* After the mutex is released.                                            *)

\* Faulty variant: the count is read again when the callback is made.
CallbackReadsCount(t, s) ==
    /\ s \in todo[t]
    /\ todo' = [todo EXCEPT ![t] = @ \ {s}]
    /\ seen' = [seen EXCEPT ![s] = Append(@, [event[t] EXCEPT !.count = changeCount])]
    /\ UNCHANGED <<text, changeCount, nextToken, subscribers, history, reads,
                   forcedErr, event, notifying>>

Callback(t, s) ==
    /\ s \in todo[t]
    /\ todo' = [todo EXCEPT ![t] = @ \ {s}]
    /\ seen' = [seen EXCEPT ![s] = Append(@, event[t])]
    /\ UNCHANGED <<text, changeCount, nextToken, subscribers, history, reads,
                   forcedErr, event, notifying>>

Return(t) ==
    /\ t \in notifying
    /\ todo[t] = {}
    /\ notifying' = notifying \ {t}
    /\ UNCHANGED <<text, changeCount, nextToken, subscribers, history, reads,
                   forcedErr, event, todo, seen>>

Next ==
    \/ \E t \in Threads :
          \/ \E x \in Texts : WriteText(t, x) \/ SimulateExternalWrite(t, x)
          \/ Clear(t) \/ ReadText(t) \/ Return(t)
          \/ \E s \in Subs : Callback(t, s)
    \/ \E s \in Subs : Subscribe(s) \/ Unsubscribe(s)
    \/ ForceNextReadFail

Spec == Init /\ [][Next]_vars

-----------------------------------------------------------------------------
(* Properties.                                                             *)

\* What the threads still have to deliver.
Due ==
    UNION {{[sub |-> s, count |-> event[t].count, token |-> event[t].token] :
               s \in todo[t]} : t \in Threads}

Contract == INSTANCE Clipboard WITH
    count <- changeCount, subscribed <- subscribers, due <- Due

\* Implementation of the trait's contract: seen without threads, the calls
\* of any number of threads, their interleaved callbacks and subscriptions
\* that come and go meanwhile are changes and deliveries of the contract,
\* each notification owed once and to the subscribers of that moment.  It
\* holds where no handle is dropped while its callback is due.
RefinesClipboard == Contract!ClipSpec

\* Dropping the handle ends the callbacks (the comment on Clipboard, "once
\* after Drop begins but before it completes").  Violated with LateDrops: a
\* thread works through the snapshot it took before the drop.
DropEndsCallbacks ==
    [][\A s \in Subs : seen'[s] # seen[s] => s \in subscribers]_vars

\* What a subscriber is told, late or out of order as it may be, is true of
\* the change it is told of: event number n carries the token of the n-th
\* entry of the history (none for a clear or a foreign write), no change is
\* told twice, and a read sees the text of the change it is stamped with.
EventsMatchHistory ==
    /\ TypeOK
    /\ Len(history) = changeCount
    /\ \A s \in Subs : \A i \in DOMAIN seen[s] :
          LET e == seen[s][i] IN
          /\ e.count \in DOMAIN history
          /\ history[e.count].after = e.count
          /\ e.token = IF history[e.count].kind = "clear" THEN NoToken
                       ELSE history[e.count].token
          /\ \A j \in DOMAIN seen[s] :
                j # i => /\ seen[s][j].count # e.count
                         /\ seen[s][j].token = e.token => e.token = NoToken
    /\ \A i \in DOMAIN reads :
          reads[i].snapshot = IF reads[i].at = 0 \/ history[reads[i].at].kind = "clear"
                              THEN NoText ELSE history[reads[i].at].text

=============================================================================
