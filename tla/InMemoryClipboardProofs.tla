----------------------- MODULE InMemoryClipboardProofs -----------------------
(***************************************************************************)
(* Proofs about InMemoryClipboard, for any number of threads, texts,       *)
(* subscriptions, changes and reads: what subscribers are told is true,    *)
(* and the backend implements the contract in Clipboard.                   *)
(***************************************************************************)
EXTENDS InMemoryClipboard, TLAPS

-----------------------------------------------------------------------------
(* The inductive invariant.                                                *)

\* What the n-th change of a history was.
TokenAt(h, n) == IF h[n].kind = "clear" THEN NoToken ELSE h[n].token

TextAt(h, n) ==
    IF n = 0 THEN NoText
    ELSE IF h[n].kind = "clear" THEN NoText ELSE h[n].text

\* The history has one entry per change, and no token twice.
HistoryKept ==
    /\ Len(history) = changeCount
    /\ \A n \in 1..changeCount : history[n].after = n
    /\ nextToken <= changeCount + 1
    /\ \A n \in 1..changeCount :
          TokenAt(history, n) \in Nat /\ TokenAt(history, n) < nextToken
    /\ \A n, m \in 1..changeCount :
          TokenAt(history, n) = TokenAt(history, m) /\ n # m => TokenAt(history, n) = NoToken

\* The text on the clipboard is that of the last change, and a read saw that
\* of the change it is stamped with.
TextsKept ==
    /\ text = TextAt(history, changeCount)
    /\ \A i \in DOMAIN reads :
          reads[i].at \in 0..changeCount /\ reads[i].snapshot = TextAt(history, reads[i].at)

\* Each thread tells of a change of its own, while it is between the change
\* and its return.
EventsOwn ==
    /\ \A t \in Threads :
          /\ event[t].count \in 0..changeCount
          /\ event[t].count # 0 => event[t].token = TokenAt(history, event[t].count)
          /\ todo[t] # {} => t \in notifying /\ event[t].count # 0
    /\ \A t, u \in Threads : event[t].count = event[u].count /\ t # u => event[t].count = 0

\* What a subscription was told is true, was told once, and is not to be
\* told again.
SeenTrue ==
    \A s \in Subs :
       /\ \A i \in DOMAIN seen[s] :
             /\ seen[s][i].count \in 1..changeCount
             /\ seen[s][i].token = TokenAt(history, seen[s][i].count)
             /\ \A t \in Threads : s \in todo[t] => seen[s][i].count # event[t].count
       /\ \A i, j \in DOMAIN seen[s] : seen[s][i].count = seen[s][j].count => i = j

IndInv == TypeOK /\ HistoryKept /\ TextsKept /\ EventsOwn /\ SeenTrue

-----------------------------------------------------------------------------
(* A change.                                                               *)

\* write_text, clear and simulate_external_write have this in common.
ChangeStep(t, x, tok, entry) ==
    /\ Changes(t, x, tok, entry)
    /\ x \in Texts \cup {NoText} /\ entry \in HistoryEntry
    /\ entry.after = changeCount + 1
    /\ tok = (IF entry.kind = "clear" THEN NoToken ELSE entry.token)
    /\ x = (IF entry.kind = "clear" THEN NoText ELSE entry.text)
    /\ \/ tok = NoToken /\ nextToken' = nextToken
       \/ tok = nextToken /\ nextToken' = nextToken + 1

\* The actions that change the text are such changes.
LEMMA ChangesAreChanges ==
    ASSUME TypeOK, NEW t \in Threads
    PROVE  /\ \A x \in Texts : WriteText(t, x) =>
                 \E e : ChangeStep(t, x, nextToken, e) /\ nextToken' = nextToken + 1
           /\ \A x \in Texts : SimulateExternalWrite(t, x) =>
                 \E e : ChangeStep(t, x, NoToken, e) /\ nextToken' = nextToken
           /\ Clear(t) => \E e : ChangeStep(t, NoText, NoToken, e) /\ nextToken' = nextToken
<1>1. changeCount \in Nat /\ nextToken \in Nat
  BY InMemoryAssumption DEF TypeOK
<1>2. ASSUME NEW x \in Texts, NEW tok \in Nat
      PROVE  /\ Write(tok, x) \in HistoryEntry
             /\ Write(tok, x).after = changeCount + 1
             /\ Write(tok, x).kind = "write" /\ Write(tok, x).token = tok
             /\ Write(tok, x).text = x
  BY <1>1 DEF Write, HistoryEntry
<1>3. [kind |-> "clear", after |-> changeCount + 1] \in HistoryEntry
  BY <1>1 DEF HistoryEntry
<1>4. ASSUME NEW x \in Texts, WriteText(t, x)
      PROVE  \E e : ChangeStep(t, x, nextToken, e) /\ nextToken' = nextToken + 1
  <2>1. ChangeStep(t, x, nextToken, Write(nextToken, x))
    BY <1>1, <1>2, <1>4 DEF WriteText, ChangeStep
  <2>2. QED
    BY <1>4, <2>1 DEF WriteText
<1>5. ASSUME NEW x \in Texts, SimulateExternalWrite(t, x)
      PROVE  \E e : ChangeStep(t, x, NoToken, e) /\ nextToken' = nextToken
  <2>1. ChangeStep(t, x, NoToken, Write(NoToken, x))
    BY <1>1, <1>2, <1>5 DEF SimulateExternalWrite, ChangeStep, NoToken
  <2>2. QED
    BY <1>5, <2>1 DEF SimulateExternalWrite
<1>6. ASSUME Clear(t)
      PROVE  \E e : ChangeStep(t, NoText, NoToken, e) /\ nextToken' = nextToken
  <2>1. ChangeStep(t, NoText, NoToken, [kind |-> "clear", after |-> changeCount + 1])
    BY <1>3, <1>6 DEF Clear, ChangeStep
  <2>2. QED
    BY <1>6, <2>1 DEF Clear
<1>7. QED
  BY <1>4, <1>5, <1>6

\* The entry of the change is added at the end; the others stay.
LEMMA HistoryGrows ==
    ASSUME IndInv, NEW t \in Threads, NEW x, NEW tok, NEW entry,
           ChangeStep(t, x, tok, entry)
    PROVE  /\ changeCount \in Nat /\ changeCount' = changeCount + 1
           /\ history' \in Seq(HistoryEntry) /\ Len(history') = changeCount'
           /\ \A n \in 1..changeCount :
                 /\ history'[n] = history[n]
                 /\ TokenAt(history', n) = TokenAt(history, n)
                 /\ TextAt(history', n) = TextAt(history, n)
           /\ history'[changeCount + 1] = entry
           /\ TokenAt(history', changeCount + 1) = tok
           /\ TextAt(history', changeCount + 1) = x
           /\ TextAt(history', 0) = TextAt(history, 0)
<1>1. changeCount \in Nat /\ history \in Seq(HistoryEntry) /\ Len(history) = changeCount
  BY InMemoryAssumption DEF IndInv, TypeOK, HistoryKept
<1>2. history' = Append(history, entry) /\ changeCount' = changeCount + 1 /\ entry \in HistoryEntry
  BY DEF ChangeStep, Changes
<1>3. /\ history' \in Seq(HistoryEntry) /\ Len(history') = changeCount + 1
      /\ \A n \in 1..changeCount : history'[n] = history[n]
      /\ history'[changeCount + 1] = entry
  BY <1>1, <1>2
<1>4. \A n \in 1..changeCount :
         TokenAt(history', n) = TokenAt(history, n) /\ TextAt(history', n) = TextAt(history, n)
  BY <1>1, <1>3 DEF TokenAt, TextAt
<1>5. /\ tok = (IF entry.kind = "clear" THEN NoToken ELSE entry.token)
      /\ x = (IF entry.kind = "clear" THEN NoText ELSE entry.text)
  BY DEF ChangeStep
<1>6. TokenAt(history', changeCount + 1) = tok
  BY <1>3, <1>5 DEF TokenAt
<1>7. TextAt(history', changeCount + 1) = x
  BY <1>1, <1>3, <1>5 DEF TextAt
<1>8. TextAt(history', 0) = TextAt(history, 0)
  BY DEF TextAt
<1>9. QED
  BY <1>1, <1>2, <1>3, <1>4, <1>6, <1>7, <1>8

\* A write, of ours or not, keeps the invariant.
LEMMA ChangeKeeps ==
    ASSUME IndInv, NEW t \in Threads, NEW x, NEW tok, NEW entry,
           ChangeStep(t, x, tok, entry)
    PROVE  IndInv'
<1>0. \/ tok = NoToken /\ nextToken' = nextToken
      \/ tok = nextToken /\ nextToken' = nextToken + 1
  BY DEF ChangeStep
<1>1. /\ changeCount \in Nat /\ changeCount' = changeCount + 1
      /\ nextToken \in Nat /\ nextToken # NoToken /\ tok \in Nat
  BY <1>0, InMemoryAssumption, HistoryGrows DEF IndInv, TypeOK, NoToken
<1>2. /\ changeCount < MaxChanges /\ t \notin notifying
      /\ event' = [event EXCEPT ![t] = [count |-> changeCount + 1, token |-> tok]]
      /\ todo' = [todo EXCEPT ![t] = subscribers]
      /\ notifying' = notifying \cup {t}
      /\ text' = x /\ x \in Texts \cup {NoText}
      /\ UNCHANGED <<subscribers, reads, forcedErr, seen>>
  BY DEF ChangeStep, Changes
<1>3. HistoryKept'
  <2>1. \A n \in 1..changeCount' : n \in 1..changeCount \/ n = changeCount + 1
    BY <1>1
  <2>2. /\ Len(history') = changeCount'
        /\ \A n \in 1..changeCount' : history'[n].after = n
    BY <1>1, <2>1, HistoryGrows DEF IndInv, HistoryKept, ChangeStep
  <2>3. /\ \A n \in 1..changeCount : TokenAt(history', n) = TokenAt(history, n)
        /\ TokenAt(history', changeCount + 1) = tok
    BY HistoryGrows
  <2>4. /\ \A n \in 1..changeCount' :
              TokenAt(history', n) \in Nat /\ TokenAt(history', n) < nextToken'
        /\ \A n, m \in 1..changeCount' :
              TokenAt(history', n) = TokenAt(history', m) /\ n # m =>
                 TokenAt(history', n) = NoToken
    BY <1>0, <1>1, <2>1, <2>3 DEF IndInv, HistoryKept, NoToken
  <2>5. nextToken' <= changeCount' + 1
    BY <1>0, <1>1 DEF IndInv, HistoryKept
  <2>6. QED
    BY <2>2, <2>4, <2>5 DEF HistoryKept
<1>4. TypeOK'
  <2>1. nextToken' \in 1..(MaxChanges + 1)
    <3>1. nextToken' <= changeCount' + 1
      BY <1>3 DEF HistoryKept
    <3>2. QED
      BY <1>0, <1>1, <1>2, <3>1, InMemoryAssumption DEF NoToken
  <2>2. changeCount' \in 0..MaxChanges
    BY <1>1, <1>2, InMemoryAssumption
  <2>3. event' \in [Threads -> Event]
    BY <1>1, <1>2 DEF IndInv, TypeOK, Event
  <2>4. QED
    BY <1>2, <2>1, <2>2, <2>3, HistoryGrows DEF IndInv, TypeOK
<1>5. TextsKept'
  <2>1. \A n \in 0..changeCount : TextAt(history', n) = TextAt(history, n)
    BY <1>1, HistoryGrows
  <2>2. TextAt(history', changeCount') = x
    BY <1>1, HistoryGrows
  <2>3. QED
    BY <1>1, <1>2, <2>1, <2>2 DEF IndInv, TextsKept
<1>6. /\ event'[t].count = changeCount + 1 /\ event'[t].token = tok
      /\ \A u \in Threads \ {t} : event'[u] = event[u] /\ todo'[u] = todo[u]
      /\ \A n \in 1..changeCount : TokenAt(history', n) = TokenAt(history, n)
      /\ TokenAt(history', changeCount + 1) = tok
      /\ todo[t] = {}
  BY <1>2, HistoryGrows DEF IndInv, TypeOK, EventsOwn
<1>7. EventsOwn'
  BY <1>1, <1>2, <1>6 DEF IndInv, TypeOK, EventsOwn
<1>8. SeenTrue'
  BY <1>1, <1>2, <1>6 DEF IndInv, TypeOK, SeenTrue
<1>9. QED
  BY <1>3, <1>4, <1>5, <1>7, <1>8 DEF IndInv

-----------------------------------------------------------------------------
(* The other steps.                                                        *)

\* A read keeps it.
LEMMA ReadKeeps ==
    ASSUME IndInv, NEW t \in Threads, ReadText(t)
    PROVE  IndInv'
<1>1. UNCHANGED <<text, changeCount, nextToken, subscribers, history, event, todo, notifying,
                  seen>>
  BY DEF ReadText
<1>2. HistoryKept' /\ EventsOwn' /\ SeenTrue'
  BY <1>1 DEF IndInv, HistoryKept, EventsOwn, SeenTrue
<1>3. CASE UNCHANGED reads
  <2>1. forcedErr' \in BOOLEAN
    BY DEF ReadText, IndInv, TypeOK
  <2>2. QED
    BY <1>1, <1>2, <1>3, <2>1 DEF IndInv, TypeOK, TextsKept
<1>4. CASE /\ reads' = Append(reads, [at |-> changeCount, snapshot |-> text])
           /\ UNCHANGED forcedErr
  <2>1. changeCount \in Nat /\ text \in Texts \cup {NoText} /\ reads \in Seq(Read)
    BY InMemoryAssumption DEF IndInv, TypeOK
  <2>2. [at |-> changeCount, snapshot |-> text] \in Read
    BY <2>1 DEF Read
  <2>3. reads' \in Seq(Read)
    BY <1>4, <2>1, <2>2
  <2>4. TypeOK'
    BY <1>1, <1>4, <2>3 DEF IndInv, TypeOK
  <2>5. TextsKept'
    BY <1>1, <1>4, <2>1 DEF IndInv, TextsKept
  <2>6. QED
    BY <1>2, <2>4, <2>5 DEF IndInv
<1>5. QED
  BY <1>3, <1>4 DEF ReadText

\* The call of a subscriber keeps it: the event is of the history.
LEMMA CallbackKeeps ==
    ASSUME IndInv, NEW t \in Threads, NEW s \in Subs, Callback(t, s)
    PROVE  IndInv'
<1>1. /\ s \in todo[t]
      /\ todo' = [todo EXCEPT ![t] = @ \ {s}]
      /\ seen' = [seen EXCEPT ![s] = Append(@, event[t])]
      /\ UNCHANGED <<text, changeCount, nextToken, subscribers, history, reads, forcedErr,
                     event, notifying>>
  BY DEF Callback
<1>2. HistoryKept' /\ TextsKept'
  BY <1>1 DEF IndInv, HistoryKept, TextsKept
<1>3. seen[s] \in Seq(Event) /\ event[t] \in Event /\ changeCount \in Nat
  BY InMemoryAssumption DEF IndInv, TypeOK
<1>4. /\ seen'[s] = Append(seen[s], event[t])
      /\ \A r \in Subs \ {s} : seen'[r] = seen[r]
      /\ todo'[t] = todo[t] \ {s}
      /\ \A u \in Threads \ {t} : todo'[u] = todo[u]
  BY <1>1 DEF IndInv, TypeOK
<1>5. /\ seen'[s] \in Seq(Event)
      /\ Len(seen'[s]) = Len(seen[s]) + 1
      /\ \A i \in 1..Len(seen[s]) : seen'[s][i] = seen[s][i]
      /\ seen'[s][Len(seen[s]) + 1] = event[t]
  BY <1>3, <1>4
<1>6. TypeOK'
  BY <1>1, <1>5 DEF IndInv, TypeOK
<1>7. EventsOwn'
  BY <1>1, <1>4 DEF IndInv, TypeOK, EventsOwn
<1>8. /\ event[t].count \in 1..changeCount
      /\ event[t].token = TokenAt(history, event[t].count)
      /\ \A u \in Threads \ {t} : event[u].count # event[t].count
  BY <1>1, <1>3 DEF IndInv, EventsOwn
<1>9. SeenTrue'
  <2>1. ASSUME NEW r \in Subs \ {s}
        PROVE  /\ seen'[r] = seen[r]
               /\ \A u \in Threads : r \in todo'[u] => r \in todo[u]
    BY <1>4, <2>1
  <2>2. \A i \in 1..Len(seen[s]) : seen[s][i].count # event[t].count
    BY <1>1, <1>3 DEF IndInv, SeenTrue
  <2>3. DOMAIN seen'[s] = 1..(Len(seen[s]) + 1) /\ DOMAIN seen[s] = 1..Len(seen[s])
        /\ Len(seen[s]) \in Nat
    BY <1>3, <1>5
  <2>4. /\ \A i \in DOMAIN seen'[s] :
              /\ seen'[s][i].count \in 1..changeCount
              /\ seen'[s][i].token = TokenAt(history, seen'[s][i].count)
              /\ \A u \in Threads : s \in todo'[u] => seen'[s][i].count # event[u].count
        /\ \A i, j \in DOMAIN seen'[s] : seen'[s][i].count = seen'[s][j].count => i = j
    <3>1. \A i \in 1..Len(seen[s]) :
              /\ seen[s][i].count \in 1..changeCount
              /\ seen[s][i].token = TokenAt(history, seen[s][i].count)
              /\ \A u \in Threads : s \in todo[u] => seen[s][i].count # event[u].count
      BY <2>3 DEF IndInv, SeenTrue
    <3>2. \A i, j \in 1..Len(seen[s]) : seen[s][i].count = seen[s][j].count => i = j
      BY <2>3 DEF IndInv, SeenTrue
    <3>3. \A i \in DOMAIN seen'[s] : i \in 1..Len(seen[s]) \/ i = Len(seen[s]) + 1
      BY <2>3
    <3>4. s \notin todo'[t] /\ \A u \in Threads : s \in todo'[u] => s \in todo[u] /\ u # t
      BY <1>4
    <3>5. ASSUME NEW i \in DOMAIN seen'[s]
          PROVE  /\ seen'[s][i].count \in 1..changeCount
                 /\ seen'[s][i].token = TokenAt(history, seen'[s][i].count)
                 /\ \A u \in Threads : s \in todo'[u] => seen'[s][i].count # event[u].count
      <4>1. CASE i \in 1..Len(seen[s])
        BY <1>5, <3>1, <3>4, <4>1
      <4>2. CASE i = Len(seen[s]) + 1
        BY <1>5, <1>8, <3>4, <4>2
      <4>3. QED
        BY <3>3, <4>1, <4>2
    <3>6. ASSUME NEW i \in DOMAIN seen'[s], NEW j \in DOMAIN seen'[s],
                 seen'[s][i].count = seen'[s][j].count
          PROVE  i = j
      BY <1>5, <2>2, <3>2, <3>3, <3>6
    <3>7. QED
      BY <3>5, <3>6
  <2>5. QED
    BY <1>1, <2>1, <2>4 DEF IndInv, SeenTrue
<1>10. QED
  BY <1>2, <1>6, <1>7, <1>9 DEF IndInv

\* Every step keeps the invariant.
LEMMA IndInvStep == ASSUME IndInv, [Next]_vars PROVE IndInv'
<1>1. ASSUME NEW t \in Threads, NEW x \in Texts, WriteText(t, x) \/ SimulateExternalWrite(t, x)
      PROVE  IndInv'
  BY <1>1, ChangesAreChanges, ChangeKeeps DEF IndInv
<1>2. ASSUME NEW t \in Threads, Clear(t) PROVE IndInv'
  BY <1>2, ChangesAreChanges, ChangeKeeps DEF IndInv
<1>3. ASSUME NEW t \in Threads, Return(t) PROVE IndInv'
  BY <1>3 DEF Return, IndInv, TypeOK, HistoryKept, TextsKept, EventsOwn, SeenTrue
<1>4. ASSUME NEW s \in Subs, Subscribe(s) \/ Unsubscribe(s) PROVE IndInv'
  BY <1>4 DEF Subscribe, Unsubscribe, IndInv, TypeOK, HistoryKept, TextsKept, EventsOwn,
              SeenTrue
<1>5. CASE ForceNextReadFail
  BY <1>5 DEF ForceNextReadFail, IndInv, TypeOK, HistoryKept, TextsKept, EventsOwn, SeenTrue
<1>6. CASE UNCHANGED vars
  BY <1>6 DEF vars, IndInv, TypeOK, HistoryKept, TextsKept, EventsOwn, SeenTrue
<1>7. QED
  BY <1>1, <1>2, <1>3, <1>4, <1>5, <1>6, ReadKeeps, CallbackKeeps DEF Next

\* It holds at first.
LEMMA IndInvInit == ASSUME Init PROVE IndInv
<1>1. TypeOK
  <2>1. event \in [Threads -> Event]
    BY DEF Init, Event, NoToken
  <2>2. history \in Seq(HistoryEntry) /\ reads \in Seq(Read) /\ seen \in [Subs -> Seq(Event)]
    BY DEF Init
  <2>3. changeCount \in 0..MaxChanges /\ nextToken \in 1..(MaxChanges + 1)
    BY InMemoryAssumption DEF Init
  <2>4. QED
    BY <2>1, <2>2, <2>3 DEF Init, TypeOK
<1>2. HistoryKept /\ TextsKept /\ EventsOwn /\ SeenTrue
  BY DEF Init, HistoryKept, TextsKept, EventsOwn, SeenTrue, TextAt
<1>3. QED
  BY <1>1, <1>2 DEF IndInv

\* It holds always.
LEMMA IndInvAlways == Spec => []IndInv
<1>1. IndInv /\ [Next]_vars => IndInv'
  BY IndInvStep
<1>2. QED
  BY <1>1, IndInvInit, PTL DEF Spec

\* EventsMatchHistory, for any number of threads and subscriptions: whatever
\* the order in which threads change the clipboard and call back, what a
\* subscriber is told is true of the change it is told of, and told once.
THEOREM EventsAlwaysMatchHistory == Spec => []EventsMatchHistory
<1>1. ASSUME IndInv PROVE EventsMatchHistory
  <2>1. TypeOK /\ Len(history) = changeCount /\ changeCount \in Nat
    BY <1>1, InMemoryAssumption DEF IndInv, TypeOK, HistoryKept
  <2>2. DOMAIN history = 1..changeCount
    BY <2>1 DEF TypeOK
  <2>3. ASSUME NEW s \in Subs, NEW i \in DOMAIN seen[s]
        PROVE  /\ seen[s][i].count \in DOMAIN history
               /\ history[seen[s][i].count].after = seen[s][i].count
               /\ seen[s][i].token = TokenAt(history, seen[s][i].count)
               /\ \A j \in DOMAIN seen[s] : j # i =>
                     /\ seen[s][j].count # seen[s][i].count
                     /\ seen[s][j].token = seen[s][i].token => seen[s][i].token = NoToken
    BY <1>1, <2>2 DEF IndInv, HistoryKept, SeenTrue
  <2>4. \A i \in DOMAIN reads :
           reads[i].snapshot = IF reads[i].at = 0 \/ history[reads[i].at].kind = "clear"
                               THEN NoText ELSE history[reads[i].at].text
    BY <1>1 DEF IndInv, TextsKept, TextAt
  <2>5. QED
    BY <2>1, <2>3, <2>4 DEF EventsMatchHistory, TokenAt
<1>2. QED
  BY <1>1, IndInvAlways, PTL

-----------------------------------------------------------------------------
(* The refinement.                                                         *)

\* What is owed, member by member.
LEMMA DueMembers ==
    ASSUME NEW n
    PROVE  /\ n \in Due <=> \E t \in Threads : \E s \in todo[t] :
                 n = [sub |-> s, count |-> event[t].count, token |-> event[t].token]
           /\ n \in Due' <=> \E t \in Threads : \E s \in todo'[t] :
                 n = [sub |-> s, count |-> event'[t].count, token |-> event'[t].token]
BY DEF Due

\* A change owes one more notification to each subscriber of that moment,
\* and none that was owed is lost: its thread had nothing left to deliver.
LEMMA ChangeOwes ==
    ASSUME IndInv, NEW t \in Threads, NEW x, NEW tok, NEW entry,
           ChangeStep(t, x, tok, entry)
    PROVE  Contract!Change(x, tok)
<1>1. /\ todo[t] = {}
      /\ event'[t].count = changeCount + 1 /\ event'[t].token = tok
      /\ todo'[t] = subscribers
      /\ \A u \in Threads \ {t} : event'[u] = event[u] /\ todo'[u] = todo[u]
  BY DEF ChangeStep, Changes, IndInv, TypeOK, EventsOwn
<1>2. Due' = Due \cup Contract!Notify(subscribers, changeCount + 1, tok)
  <2>1. ASSUME NEW n, n \in Due'
        PROVE  n \in Due \cup Contract!Notify(subscribers, changeCount + 1, tok)
    <3>1. PICK u \in Threads : \E s \in todo'[u] :
             n = [sub |-> s, count |-> event'[u].count, token |-> event'[u].token]
      BY <2>1, DueMembers
    <3>2. CASE u = t
      BY <1>1, <3>1, <3>2 DEF Contract!Notify
    <3>3. CASE u # t
      BY <1>1, <3>1, <3>3, DueMembers
    <3>4. QED
      BY <3>2, <3>3
  <2>2. ASSUME NEW n, n \in Due PROVE n \in Due'
    <3>1. PICK u \in Threads : \E s \in todo[u] :
             n = [sub |-> s, count |-> event[u].count, token |-> event[u].token]
      BY <2>2, DueMembers
    <3>2. u # t
      BY <1>1, <3>1
    <3>3. QED
      BY <1>1, <3>1, <3>2, DueMembers
  <2>3. ASSUME NEW n \in Contract!Notify(subscribers, changeCount + 1, tok) PROVE n \in Due'
    BY <1>1, <2>3, DueMembers DEF Contract!Notify
  <2>4. QED
    BY <2>1, <2>2, <2>3
<1>3. QED
  BY <1>2 DEF ChangeStep, Changes, Contract!Change

\* A callback delivers one notification that is owed, and that one only: no
\* other thread tells of the same change.
LEMMA CallbackDelivers ==
    ASSUME IndInv, NEW t \in Threads, NEW s \in Subs, Callback(t, s)
    PROVE  \E n \in Due : Contract!Deliver(n)
<1> DEFINE m == [sub |-> s, count |-> event[t].count, token |-> event[t].token]
<1>0. todo \in [Threads -> SUBSET Subs] /\ todo' \in [Threads -> SUBSET Subs]
  BY CallbackKeeps DEF IndInv, TypeOK
<1>1. /\ s \in todo[t] /\ todo'[t] = todo[t] \ {s}
      /\ \A u \in Threads \ {t} : todo'[u] = todo[u]
      /\ UNCHANGED <<text, changeCount, nextToken, subscribers, event>>
  BY DEF Callback, IndInv, TypeOK
<1>2. \A u \in Threads \ {t} : event[u].count # event[t].count
  BY <1>1 DEF IndInv, EventsOwn
<1>3. m \in Due
  BY <1>1, DueMembers
<1>4. Due' = Due \ {m}
  <2>1. ASSUME NEW n, n \in Due' PROVE n \in Due \ {m}
    <3>1. PICK u \in Threads, r \in Subs : r \in todo'[u] /\
             n = [sub |-> r, count |-> event[u].count, token |-> event[u].token]
      BY <1>1, <2>1, <1>0, DueMembers
    <3>2. r \in todo[u] /\ (u = t => r # s)
      BY <1>1, <3>1
    <3>3. n \in Due
      BY <3>1, <3>2, DueMembers
    <3>4. n # m
      <4>1. CASE u = t
        BY <3>1, <3>2, <4>1
      <4>2. CASE u # t
        BY <1>2, <3>1, <4>2
      <4>3. QED
        BY <4>1, <4>2
    <3>5. QED
      BY <3>3, <3>4
  <2>2. ASSUME NEW n, n \in Due, n # m PROVE n \in Due'
    <3>1. PICK u \in Threads, r \in Subs : r \in todo[u] /\
             n = [sub |-> r, count |-> event[u].count, token |-> event[u].token]
      BY <2>2, <1>0, DueMembers
    <3>2. r \in todo'[u]
      BY <1>1, <2>2, <3>1
    <3>3. QED
      BY <1>1, <3>1, <3>2, DueMembers
  <2>3. QED
    BY <2>1, <2>2
<1>5. Contract!Deliver(m)
  BY <1>1, <1>4 DEF Contract!Deliver
<1>6. QED
  BY <1>3, <1>5

\* Every step of the backend is a step of the contract, or one it does not
\* see.
LEMMA StepsRefine ==
    ASSUME ~LateDrops, IndInv, [Next]_vars
    PROVE  [Contract!ClipNext]_(Contract!clipVars)
<1>0. NoToken = Contract!NoToken
  BY DEF NoToken, Contract!NoToken
<1>1. ASSUME NEW t \in Threads, NEW x \in Texts, WriteText(t, x)
      PROVE  Contract!WriteText(x)
  BY <1>1, ChangesAreChanges, ChangeOwes DEF IndInv, Contract!WriteText
<1>2. ASSUME NEW t \in Threads, NEW x \in Texts, SimulateExternalWrite(t, x)
      PROVE  Contract!OtherWrites(x)
  BY <1>0, <1>2, ChangesAreChanges, ChangeOwes DEF IndInv, Contract!OtherWrites
<1>3. ASSUME NEW t \in Threads, Clear(t)
      PROVE  Contract!ClearText
  BY <1>0, <1>3, ChangesAreChanges, ChangeOwes DEF IndInv, Contract!ClearText
<1>4. ASSUME NEW s \in Subs, Subscribe(s)
      PROVE  Contract!Subscribed(s)
  BY <1>4 DEF Subscribe, Contract!Subscribed, Due
<1>5. ASSUME NEW s \in Subs, Unsubscribe(s)
      PROVE  Contract!Unsubscribed(s)
  <2>1. \A n \in Due : n.sub # s
    <3>1. \A t \in Threads : s \notin todo[t]
      BY <1>5 DEF Unsubscribe
    <3> QED
      BY <3>1, DueMembers
  <2>2. UNCHANGED <<text, changeCount, nextToken, todo, event>> /\ subscribers' = subscribers \ {s}
    BY <1>5 DEF Unsubscribe
  <2>3. Due' = Due
    BY <2>2 DEF Due
  <2> HIDE DEF Due
  <2> QED
    BY <2>1, <2>2, <2>3 DEF Contract!Unsubscribed
<1>6. ASSUME \/ \E t \in Threads : ReadText(t) \/ Return(t)
             \/ ForceNextReadFail
             \/ UNCHANGED vars
      PROVE  UNCHANGED Contract!clipVars
  BY <1>6 DEF ReadText, Return, ForceNextReadFail, vars, Contract!clipVars, Due
<1>7. QED
  BY <1>1, <1>2, <1>3, <1>4, <1>5, <1>6, CallbackDelivers DEF Next, Contract!ClipNext

\* RefinesClipboard, for any number of threads and subscriptions: the calls
\* and the interleaved callbacks of in_memory.rs are changes and deliveries
\* of the trait's contract, each notification owed once, to the subscribers
\* of that moment, and delivered once and never after a drop, as long as no
\* handle is dropped while its callback is due.
THEOREM ImplementsClipboard ==
    ASSUME ~LateDrops PROVE Spec => RefinesClipboard
<1>1. Init => Contract!ClipInit
  BY DEF Init, Contract!ClipInit, Due
<1>2. IndInv /\ [Next]_vars => [Contract!ClipNext]_(Contract!clipVars)
  BY StepsRefine
<1>3. QED
  BY <1>1, <1>2, IndInvAlways, PTL DEF Spec, RefinesClipboard, Contract!ClipSpec

=============================================================================
