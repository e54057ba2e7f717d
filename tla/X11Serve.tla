------------------------------ MODULE X11Serve ------------------------------
(***************************************************************************)
(* Serving the clipboard under X11: what the event thread does when other  *)
(* clients paste our text (handle_selection_request, the DELETE half of    *)
(* handle_property_notify, serve_next_incr_chunk), while other threads     *)
(* write and clear and the watchdog drops transfers after ten seconds.     *)
(*                                                                         *)
(* A text is cut into units of OWNER_INCR_CHUNK_SIZE; the i-th unit of the *)
(* k-th write is <<k, i>>.  A step of the event thread is what it does     *)
(* under one lock or in one request.  Requestors (external) follow the     *)
(* ICCCM: they wait for the notification, then read and delete the         *)
(* property until they find it empty.  Each has its own window and         *)
(* property, which is the key of incr_sends.                               *)
(***************************************************************************)
EXTENDS Naturals, Sequences

CONSTANTS
    Requestors,   \* clients that paste
    Lengths,      \* lengths of texts, in units
    Cap,          \* OWNER_SINGLE_SHOT_CAP, in units
    MaxWrites,    \* bound on write_text calls
    MaxPastes,    \* bound on pastes
    Environments  \* the surroundings a behaviour may have

\* How long texts are, what requestors ask for, whether clear is called,
\* and whether a transfer may be given up or take longer than ten seconds.
ASSUME ServeAssumption ==
    /\ Lengths \subseteq Nat \ {0} /\ Cap \in Nat \ {0}
    /\ MaxWrites \in Nat /\ MaxPastes \in Nat
    /\ \A e \in Environments :
          /\ DOMAIN e = {"lengths", "targets", "clears", "slow"}
          /\ e.lengths \subseteq Lengths
          /\ e.targets \subseteq {"text", "TARGETS", "TIMESTAMP", "MULTIPLE"}
          /\ {e.clears, e.slow} \subseteq BOOLEAN

VARIABLES
    env,       \* the surroundings of this behaviour; never changes
    owned,     \* the text we own, <<>> for None
    writes,    \* write_text calls so far
    events,    \* events the event thread has not handled
    at,        \* where the event thread is in a handler
    sends,     \* incr_sends
    prop,      \* the property of each requestor's window
    step,      \* what each requestor waits for
    got,       \* what it has received
    pastes,    \* pastes so far
    seen       \* history: texts we owned since the requestor asked

vars == <<owned, writes, events, at, sends, prop, step, got, pastes, seen>>

requestorVars == <<step, got, pastes>>

Text(k, n) == [i \in 1..n |-> <<k, i>>]
AllTexts == {Text(k, n) : k \in 1..MaxWrites, n \in Lengths}
None == <<>>

NoProp == [kind |-> "none"]
Incr == [kind |-> "INCR"]
Meta == [kind |-> "meta"]
Data(s) == [kind |-> "data", units |-> s]

NoSend == [off |-> 0, content |-> None]
AtRest == [step |-> "rest"]

TypeOK ==
    /\ env \in Environments
    /\ owned \in AllTexts \cup {None}
    /\ writes \in 0..MaxWrites
    /\ at.step \in {"rest", "register", "chunk", "put"}
    /\ \A r \in Requestors :
          /\ sends[r].off \in 0..Len(sends[r].content)
          /\ prop[r].kind \in {"none", "INCR", "meta", "data"}
          /\ step[r] \in {"idle", "asked", "refused", "told", "incr", "done"}
          /\ seen[r] \subseteq AllTexts
    /\ pastes \in 0..MaxPastes

Init ==
    /\ env \in Environments
    /\ owned = None
    /\ writes = 0
    /\ events = <<>>
    /\ at = AtRest
    /\ sends = [r \in Requestors |-> NoSend]
    /\ prop = [r \in Requestors |-> NoProp]
    /\ step = [r \in Requestors |-> "idle"]
    /\ got = [r \in Requestors |-> <<>>]
    /\ pastes = 0
    /\ seen = [r \in Requestors |-> {}]

-----------------------------------------------------------------------------
(* Other threads: write_text and clear as far as they change `owned`.      *)

Write ==
    /\ writes < MaxWrites
    /\ writes' = writes + 1
    /\ \E n \in env.lengths :
          /\ owned' = Text(writes + 1, n)
          /\ seen' = [r \in Requestors |-> seen[r] \cup {owned'}]
    /\ UNCHANGED <<events, at, sends, prop, requestorVars>>

Clear ==
    /\ env.clears
    /\ owned # None
    /\ owned' = None
    /\ UNCHANGED <<writes, events, at, sends, prop, requestorVars, seen>>

-----------------------------------------------------------------------------
(* The event thread.                                                       *)

\* send_selection_notify: with the property, or with None.
Notify(r, how) == step' = [step EXCEPT ![r] = how] /\ UNCHANGED <<got, pastes>>

Receive(kind, r) ==
    /\ at = AtRest
    /\ events # <<>>
    /\ Head(events) = [kind |-> kind, from |-> r]
    /\ events' = Tail(events)

Answer(r, value) ==
    /\ prop' = [prop EXCEPT ![r] = value]
    /\ Notify(r, "told")
    /\ UNCHANGED at

Refuse(r) == Notify(r, "refused") /\ UNCHANGED <<prop, at>>

\* handle_selection_request for TARGETS, TIMESTAMP and what is not served.
RequestOther(r) ==
    /\ \/ Receive("TARGETS", r) /\ Answer(r, Meta)
       \/ Receive("TIMESTAMP", r) /\ owned # None /\ Answer(r, Meta)
       \/ Receive("TIMESTAMP", r) /\ owned = None /\ Refuse(r)
       \/ Receive("MULTIPLE", r) /\ Refuse(r)
    /\ UNCHANGED <<owned, writes, sends, seen>>

\* handle_selection_request for a text target.  The content is read once to
\* choose between a refusal, a single property and INCR.
Request(r) ==
    /\ Receive("text", r)
    /\ \/ owned = None /\ Refuse(r)
       \/ owned # None /\ Len(owned) <= Cap /\ Answer(r, Data(owned))
       \/ /\ Len(owned) > Cap
          /\ prop' = [prop EXCEPT ![r] = Incr]
          /\ at' = [step |-> "register", for |-> r]
          /\ UNCHANGED requestorVars
    /\ UNCHANGED <<owned, writes, sends, seen>>

\* Faulty variant: an entry that is already there keeps its offset.
RegisterResumes ==
    /\ at.step = "register"
    /\ sends' = [sends EXCEPT ![at.for] =
                    IF owned = None THEN @ ELSE [off |-> @.off, content |-> owned]]
    /\ Notify(at.for, "told")
    /\ at' = AtRest
    /\ UNCHANGED <<owned, writes, events, prop, seen>>

\* Faulty variant: an entry that is already there is kept.
RegisterKeepsEntry ==
    /\ at.step = "register"
    /\ sends' = [sends EXCEPT ![at.for] =
                    IF owned = None \/ @ # NoSend THEN @ ELSE [off |-> 0, content |-> owned]]
    /\ Notify(at.for, "told")
    /\ at' = AtRest
    /\ UNCHANGED <<owned, writes, events, prop, seen>>

\* The content is read again for the transfer; if it is gone by now, the
\* requestor is told to expect one all the same.
Register ==
    /\ at.step = "register"
    /\ sends' = [sends EXCEPT ![at.for] =
                    IF owned = None THEN @ ELSE [off |-> 0, content |-> owned]]
    /\ Notify(at.for, "told")
    /\ at' = AtRest
    /\ UNCHANGED <<owned, writes, events, prop, seen>>

\* Faulty variant: deletions on other clients' windows are ignored.
DeletedIgnored(r) ==
    /\ Receive("deleted", r)
    /\ UNCHANGED <<owned, writes, at, sends, prop, requestorVars, seen>>

\* handle_property_notify, DELETE: is there a transfer with this key?
Deleted(r) ==
    /\ Receive("deleted", r)
    /\ at' = IF sends[r] = NoSend THEN AtRest ELSE [step |-> "chunk", for |-> r]
    /\ UNCHANGED <<owned, writes, sends, prop, requestorVars, seen>>

\* serve_next_incr_chunk, under the lock: the watchdog may have dropped the
\* entry; after the last chunk an empty property ends the transfer.
NextChunk ==
    /\ at.step = "chunk"
    /\ LET r == at.for  e == sends[r] IN
          \/ /\ e = NoSend
             /\ at' = AtRest
             /\ UNCHANGED <<sends, prop>>
          \/ /\ e # NoSend
             /\ e.off = Len(e.content)
             /\ prop' = [prop EXCEPT ![r] = Data(<<>>)]
             /\ sends' = [sends EXCEPT ![r] = NoSend]
             /\ at' = AtRest
          \/ /\ e.off < Len(e.content)
             /\ sends' = [sends EXCEPT ![r].off = e.off + 1]
             /\ at' = [step |-> "put", for |-> r, unit |-> e.content[e.off + 1]]
             /\ UNCHANGED prop
    /\ UNCHANGED <<owned, writes, events, requestorVars, seen>>

\* The chunk is written after the lock is released.
PutChunk ==
    /\ at.step = "put"
    /\ prop' = [prop EXCEPT ![at.for] = Data(<<at.unit>>)]
    /\ at' = AtRest
    /\ UNCHANGED <<owned, writes, events, sends, requestorVars, seen>>

\* The watchdog: ten seconds after its start a transfer is dropped,
\* whatever its progress.
Sweep(r) ==
    /\ env.slow
    /\ sends[r] # NoSend
    /\ sends' = [sends EXCEPT ![r] = NoSend]
    /\ UNCHANGED <<owned, writes, events, at, prop, requestorVars, seen>>

-----------------------------------------------------------------------------
(* Requestors.                                                             *)

Ask(r) ==
    /\ step[r] \in {"idle", "refused", "done"}
    /\ pastes < MaxPastes
    /\ pastes' = pastes + 1
    /\ step' = [step EXCEPT ![r] = "asked"]
    /\ got' = [got EXCEPT ![r] = <<>>]
    /\ \E target \in env.targets :
          events' = Append(events, [kind |-> target, from |-> r])
    /\ seen' = [seen EXCEPT ![r] = IF owned = None THEN {} ELSE {owned}]
    /\ UNCHANGED <<owned, writes, at, sends, prop>>

\* Read and delete the property, which reports the deletion to the owner.
TakeProp(r) ==
    /\ prop[r] # NoProp
    /\ prop' = [prop EXCEPT ![r] = NoProp]
    /\ events' = Append(events, [kind |-> "deleted", from |-> r])

ReadFirst(r) ==
    /\ step[r] = "told"
    /\ TakeProp(r)
    /\ \/ prop[r] = Incr /\ step' = [step EXCEPT ![r] = "incr"] /\ UNCHANGED got
       \/ prop[r] = Meta /\ step' = [step EXCEPT ![r] = "idle"] /\ UNCHANGED got
       \/ /\ prop[r].kind = "data"
          /\ step' = [step EXCEPT ![r] = "done"]
          /\ got' = [got EXCEPT ![r] = prop[r].units]
    /\ UNCHANGED <<owned, writes, at, sends, pastes, seen>>

ReadChunk(r) ==
    /\ step[r] = "incr"
    /\ TakeProp(r)
    /\ got' = [got EXCEPT ![r] = @ \o prop[r].units]
    /\ step' = [step EXCEPT ![r] = IF prop[r].units = <<>> THEN "done" ELSE @]
    /\ UNCHANGED <<owned, writes, at, sends, pastes, seen>>

\* A requestor may stop in the middle of a transfer, and paste again later.
GiveUp(r) ==
    /\ env.slow
    /\ step[r] = "incr"
    /\ step' = [step EXCEPT ![r] = "idle"]
    /\ UNCHANGED <<owned, writes, events, at, sends, prop, got, pastes, seen>>

EventThread ==
    \/ \E r \in Requestors : RequestOther(r) \/ Request(r) \/ Deleted(r)
    \/ Register \/ NextChunk \/ PutChunk

Next ==
    /\ \/ Write \/ Clear
       \/ EventThread
       \/ \E r \in Requestors :
             Sweep(r) \/ Ask(r) \/ ReadFirst(r) \/ ReadChunk(r) \/ GiveUp(r)
    /\ UNCHANGED env

Spec == Init /\ [][Next]_<<env, vars>>

\* The event thread is never blocked for long, and requestors follow the
\* protocol.
FairSpec ==
    /\ Spec
    /\ WF_vars(EventThread)
    /\ \A r \in Requestors : WF_vars(ReadFirst(r) \/ ReadChunk(r))

-----------------------------------------------------------------------------
(* Properties.                                                             *)

\* A completed paste is one whole text, and one we owned while the paste
\* was under way: writes, other requestors' transfers, and either clears or
\* dropped transfers and retries, never mix or cut texts.
PastesOneText ==
    /\ TypeOK
    /\ ~(env.clears /\ env.slow) =>
         \A r \in Requestors : step[r] = "done" => got[r] \in seen[r]

\* The unit that was taken from a transfer's content and not yet read: in
\* the event thread's hands after the unlock, or in the property.
OnItsWay(r) ==
    IF at.step = "put" /\ at.for = r THEN <<at.unit>>
    ELSE IF prop[r].kind = "data" THEN prop[r].units ELSE <<>>

\* While a requestor is in a transfer that is registered, what it has read,
\* and then what is on its way, is the part of the registered text before
\* the offset, and the text is one we owned since it asked.  Nothing of a
\* transfer it gave up, of a deletion that belonged to one, or of a text
\* that has been replaced gets in, although entries are keyed by window and
\* property only.
TransferIntact ==
    ~(env.clears /\ env.slow) =>
        \A r \in Requestors : step[r] = "incr" /\ sends[r] # NoSend =>
            /\ sends[r].content \in seen[r]
            /\ got[r] \o OnItsWay(r) = SubSeq(sends[r].content, 1, sends[r].off)

\* Every paste ends, if the content is not cleared and nobody gives up.
PasteEnds ==
    \A r \in Requestors :
       ~env.clears /\ ~env.slow /\ step[r] = "asked"
          ~> step[r] \in {"refused", "idle", "done"}

=============================================================================
