--------------------------- MODULE X11ServeProofs ---------------------------
(***************************************************************************)
(* PastesOneText and TransferIntact, for any number of requestors, writes and pastes, texts   *)
(* of any length, and every surroundings in which the content is not       *)
(* cleared while transfers are dropped.                                    *)
(*                                                                         *)
(* A deletion does not say which transfer it belongs to, and nothing tells *)
(* a requestor which text a chunk is of.  What keeps pastes apart is that  *)
(* a requestor's deletions reach the event thread before its next request, *)
(* so that whatever is left of an old transfer has been dealt with when    *)
(* the new one is registered.  From then on there is one token per         *)
(* requestor: the notice of a deletion, the event thread at work on it, or *)
(* a chunk in the property; and what was received, with the chunk on its   *)
(* way, is the beginning of the text that is registered.                   *)
(***************************************************************************)
EXTENDS X11Serve, SequenceTheorems, TLAPS

-----------------------------------------------------------------------------
(* The inductive invariant.                                                *)

Units == (1..MaxWrites) \X Nat
Targets == {"text", "TARGETS", "TIMESTAMP", "MULTIPLE"}
Events == [kind : Targets \cup {"deleted"}, from : Requestors]
Sends == [off : Nat, content : AllTexts \cup {None}]
Props == {NoProp, Incr, Meta} \cup [kind : {"data"}, units : Seq(Units)]
Places ==
    {AtRest} \cup [step : {"register", "chunk"}, for : Requestors]
             \cup [step : {"put"}, for : Requestors, unit : Units]

\* What TypeOK leaves open.
Shape ==
    /\ events \in Seq(Events) /\ at \in Places
    /\ sends \in [Requestors -> Sends] /\ prop \in [Requestors -> Props]
    /\ step \in [Requestors -> {"idle", "asked", "refused", "told", "incr", "done"}]
    /\ got = [r \in Requestors |-> got[r]]
    /\ seen \in [Requestors -> SUBSET AllTexts]
    /\ \A r \in Requestors : sends[r] = NoSend \/ sends[r].content \in AllTexts

\* The text we own has been seen by every paste under way, and is there when
\* a transfer is registered unless clear is called.
OwnedSeen ==
    /\ owned # None => \A r \in Requestors : owned \in seen[r]
    /\ at.step = "register" /\ ~env.clears => owned # None

\* Where the event thread is.
Busy(r) == at.step # "rest" /\ at.for = r
Working(r, s) == at.step = s /\ at.for = r

\* A requestor's events: none, only deletions, one deletion, or deletions
\* and then a request.
NoneFrom(r) == \A i \in 1..Len(events) : events[i].from # r
OnlyDeleted(r) == \A i \in 1..Len(events) : events[i].from = r => events[i].kind = "deleted"
OneDeleted(r) ==
    \E k \in 1..Len(events) :
        /\ events[k].from = r /\ events[k].kind = "deleted"
        /\ \A i \in 1..Len(events) : i # k => events[i].from # r
Asking(r) ==
    \E k \in 1..Len(events) :
        /\ events[k].from = r /\ events[k].kind # "deleted"
        /\ \A i \in 1..Len(events) : i # k /\ events[i].from = r =>
              i < k /\ events[i].kind = "deleted"

\* Prompt requestors leave nothing behind.
Settled(r) ==
    ~env.slow => sends[r] = NoSend /\ ~Working(r, "chunk") /\ ~Working(r, "put")

\* What was received, and the unit on its way, are the beginning of the text
\* that is being sent, unless the watchdog has dropped it.
Along(r) ==
    \/ sends[r] = NoSend
    \/ /\ sends[r].content \in seen[r]
       /\ got[r] = SubSeq(sends[r].content, 1, sends[r].off)
Ahead(r, s) ==
    \/ sends[r] = NoSend
    \/ /\ sends[r].content \in seen[r]
       /\ got[r] \o s = SubSeq(sends[r].content, 1, sends[r].off)

\* The stages of a paste.
Apart(r) == OnlyDeleted(r) /\ ~Working(r, "register") /\ Settled(r)

Asked(r) ==
    /\ got[r] = <<>> /\ Settled(r)
    /\ \/ Asking(r) /\ ~Working(r, "register")
       \/ NoneFrom(r) /\ Working(r, "register") /\ prop[r] = Incr

Told(r) ==
    /\ got[r] = <<>> /\ NoneFrom(r) /\ ~Busy(r)
    /\ \/ prop[r] = Meta /\ Settled(r)
       \/ prop[r].kind = "data" /\ prop[r].units \in seen[r] /\ Settled(r)
       \/ prop[r] = Incr /\ Along(r)

Receiving(r) ==
    \/ OneDeleted(r) /\ ~Busy(r) /\ prop[r] = NoProp /\ Along(r)
    \/ NoneFrom(r) /\ Working(r, "chunk") /\ prop[r] = NoProp /\ Along(r)
    \/ NoneFrom(r) /\ Working(r, "put") /\ prop[r] = NoProp /\ Ahead(r, <<at.unit>>)
    \/ /\ NoneFrom(r) /\ ~Busy(r) /\ prop[r].kind = "data"
       /\ IF prop[r].units = <<>> THEN got[r] \in seen[r] /\ sends[r] = NoSend
          ELSE Ahead(r, prop[r].units)
    \/ NoneFrom(r) /\ ~Busy(r) /\ prop[r] = NoProp /\ sends[r] = NoSend

Paste(r) ==
    /\ step[r] \in {"idle", "refused", "done"} => Apart(r)
    /\ step[r] = "done" => got[r] \in seen[r]
    /\ step[r] = "asked" => Asked(r)
    /\ step[r] = "told" => Told(r)
    /\ step[r] = "incr" => Receiving(r)

Pastes == ~(env.clears /\ env.slow) => \A r \in Requestors : Paste(r)

IndInv == TypeOK /\ Shape /\ OwnedSeen /\ Pastes

-----------------------------------------------------------------------------
(* Texts, records and events.                                              *)

\* Texts are non-empty sequences of units.
LEMMA TextTypes ==
    ASSUME NEW t \in AllTexts
    PROVE  t \in Seq(Units) /\ t # <<>> /\ Len(t) \in Nat \ {0}
<1>1. PICK k \in 1..MaxWrites, n \in Lengths : t = Text(k, n)
  BY DEF AllTexts
<1>2. n \in Nat \ {0}
  BY ServeAssumption
<1>3. \A i \in 1..n : <<k, i>> \in Units
  BY <1>2 DEF Units
<1>4. t \in [1..n -> Units]
  BY <1>1, <1>3 DEF Text
<1>5. t \in Seq(Units) /\ Len(t) = n
  BY <1>2, <1>4
<1> QED
  BY <1>2, <1>5

\* Taking one more unit of a text.
LEMMA OneMore ==
    ASSUME NEW t \in AllTexts, NEW k \in 0..(Len(t) - 1)
    PROVE  /\ t[k + 1] \in Units /\ k + 1 \in 1..Len(t)
           /\ SubSeq(t, 1, k) \o <<t[k + 1]>> = SubSeq(t, 1, k + 1)
<1>1. t \in Seq(Units) /\ Len(t) \in Nat \ {0}
  BY TextTypes
<1>2. 1 \in 1..Len(t) /\ k + 1 \in 1..Len(t) /\ (k + 1) - 1 = k
  BY <1>1
<1>3. t[k + 1] \in Units
  BY <1>1, <1>2
<1> DEFINE n == k + 1
<1>4. SubSeq(t, 1, n) = SubSeq(t, 1, n - 1) \o <<t[n]>>
  <2> HIDE DEF n
  <2>1. n \in 1..Len(t)
    BY <1>2 DEF n
  <2> QED
    BY <1>1, <1>2, <2>1, SubSeqRecursiveSecond
<1> QED
  BY <1>2, <1>3, <1>4

\* The markers and the empty slots are what they should be.
LEMMA Markers ==
    /\ NoProp.kind = "none" /\ Incr.kind = "INCR" /\ Meta.kind = "meta"
    /\ \A s : Data(s).kind = "data" /\ Data(s).units = s
    /\ NoProp \in Props /\ Incr \in Props /\ Meta \in Props
    /\ \A s \in Seq(Units) : Data(s) \in Props
    /\ AtRest.step = "rest" /\ AtRest \in Places
    /\ NoSend \in Sends /\ NoSend.off = 0 /\ NoSend.content = <<>>
  BY DEF NoProp, Incr, Meta, Data, Props, AtRest, Places, NoSend, Sends, None

\* A property that holds data holds units.
LEMMA DataProps ==
    ASSUME NEW p \in Props
    PROVE  /\ p.kind \in {"none", "INCR", "meta", "data"}
           /\ p.kind = "data" => p.units \in Seq(Units) /\ p # NoProp /\ p # Incr /\ p # Meta
           /\ p.kind # "data" => p \in {NoProp, Incr, Meta}
  BY DEF Props, NoProp, Incr, Meta

\* The surroundings are well formed.
LEMMA EnvTypes ==
    ASSUME TypeOK
    PROVE  /\ env.lengths \subseteq Lengths /\ Lengths \subseteq Nat \ {0}
           /\ env.targets \subseteq Targets /\ Cap \in Nat \ {0}
           /\ MaxWrites \in Nat /\ MaxPastes \in Nat
           /\ env.clears \in BOOLEAN /\ env.slow \in BOOLEAN
  BY ServeAssumption DEF TypeOK, Targets

\* The event thread is at rest, or at work for a requestor.
LEMMA PlaceTypes ==
    ASSUME Shape
    PROVE  /\ at = AtRest <=> at.step = "rest"
           /\ at.step \in {"rest", "register", "chunk", "put"}
           /\ at.step # "rest" => at.for \in Requestors
           /\ at.step = "put" => at.unit \in Units
<1>1. at \in Places
  BY DEF Shape
<1> QED
  BY <1>1 DEF Places, AtRest

\* An event behind the others.
LEMMA EventAppended ==
    ASSUME Shape, NEW e \in Events, events' = Append(events, e)
    PROVE  /\ events' \in Seq(Events) /\ Len(events) \in Nat /\ Len(events') = Len(events) + 1
           /\ \A i \in 1..Len(events) : events'[i] = events[i]
           /\ events'[Len(events) + 1] = e
<1>1. events \in Seq(Events)
  BY DEF Shape
<1> QED
  BY <1>1, AppendProperties

\* The first event taken.
LEMMA EventTaken ==
    ASSUME Shape, events # <<>>, events' = Tail(events)
    PROVE  /\ events' \in Seq(Events) /\ Len(events) \in Nat \ {0}
           /\ Len(events') = Len(events) - 1 /\ Head(events) = events[1]
           /\ Head(events) \in Events
           /\ \A i \in 1..(Len(events) - 1) : events'[i] = events[i + 1]
<1>1. events \in Seq(Events)
  BY DEF Shape
<1> QED
  BY <1>1, HeadTailProperties

\* How a step may treat a requestor's events: as if it had not happened.
EventsKept(r) ==
    /\ NoneFrom(r) => NoneFrom(r)'
    /\ OnlyDeleted(r) => OnlyDeleted(r)'
    /\ OneDeleted(r) => OneDeleted(r)'
    /\ Asking(r) => Asking(r)'

\* Another's event behind the others leaves them alone.
LEMMA OthersAppend ==
    ASSUME Shape, NEW r, NEW e \in Events, e.from # r, events' = Append(events, e)
    PROVE  EventsKept(r)
<1> DEFINE n == Len(events)
<1>1. /\ n \in Nat /\ Len(events') = n + 1
      /\ \A i \in 1..n : events'[i] = events[i]
      /\ events'[n + 1] = e
  BY EventAppended
<1>2. \A i \in 1..(n + 1) : i \in 1..n \/ i = n + 1
  BY <1>1
<1>3. \A k \in 1..n : k \in 1..(n + 1)
  BY <1>1
<1> HIDE DEF n
<1>4. NoneFrom(r) => NoneFrom(r)'
  BY <1>1, <1>2 DEF NoneFrom, n
<1>5. OnlyDeleted(r) => OnlyDeleted(r)'
  BY <1>1, <1>2 DEF OnlyDeleted, n
<1>6. OneDeleted(r) => OneDeleted(r)'
  BY <1>1, <1>2, <1>3 DEF OneDeleted, n
<1>7. Asking(r) => Asking(r)'
  BY <1>1, <1>2, <1>3 DEF Asking, n
<1> QED
  BY <1>4, <1>5, <1>6, <1>7 DEF EventsKept

\* So does taking another's event.
LEMMA OthersTaken ==
    ASSUME Shape, NEW r, events # <<>>, Head(events).from # r, events' = Tail(events)
    PROVE  EventsKept(r)
<1> DEFINE n == Len(events)
<1>1. /\ n \in Nat \ {0} /\ Len(events') = n - 1 /\ events[1].from # r
      /\ \A i \in 1..(n - 1) : events'[i] = events[i + 1]
  BY EventTaken
<1>2. \A i \in 1..(n - 1) : i + 1 \in 1..n
  BY <1>1
<1>3. \A k \in 1..n : k = 1 \/ (k - 1 \in 1..(n - 1) /\ (k - 1) + 1 = k)
  BY <1>1
<1> HIDE DEF n
<1>4. NoneFrom(r) => NoneFrom(r)'
  BY <1>1, <1>2 DEF NoneFrom, n
<1>5. OnlyDeleted(r) => OnlyDeleted(r)'
  BY <1>1, <1>2 DEF OnlyDeleted, n
<1>6. ASSUME OneDeleted(r) PROVE OneDeleted(r)'
  <2>1. PICK k \in 1..n : /\ events[k].from = r /\ events[k].kind = "deleted"
                          /\ \A i \in 1..n : i # k => events[i].from # r
    BY <1>6 DEF OneDeleted, n
  <2> DEFINE j == k - 1
  <2>2. j \in 1..(n - 1) /\ j + 1 = k
    BY <1>1, <1>3, <2>1
  <2> HIDE DEF j
  <2>3. \A i \in 1..(n - 1) : i # j => i + 1 # k
    BY <1>1, <2>2
  <2>4. \A i \in 1..(n - 1) : i # j => events'[i].from # r
    BY <1>1, <1>2, <2>1, <2>3
  <2>5. events'[j].from = r /\ events'[j].kind = "deleted"
    BY <1>1, <2>1, <2>2
  <2> QED
    BY <1>1, <2>2, <2>4, <2>5 DEF OneDeleted
<1>7. ASSUME Asking(r) PROVE Asking(r)'
  <2>1. PICK k \in 1..n : /\ events[k].from = r /\ events[k].kind # "deleted"
                          /\ \A i \in 1..n : i # k /\ events[i].from = r =>
                                i < k /\ events[i].kind = "deleted"
    BY <1>7 DEF Asking, n
  <2> DEFINE j == k - 1
  <2>2. j \in 1..(n - 1) /\ j + 1 = k
    BY <1>1, <1>3, <2>1
  <2> HIDE DEF j
  <2>3. \A i \in 1..(n - 1) : (i # j => i + 1 # k) /\ (i + 1 < k => i < j)
    BY <1>1, <2>2
  <2>4. \A i \in 1..(n - 1) : i # j /\ events'[i].from = r =>
           i < j /\ events'[i].kind = "deleted"
    BY <1>1, <1>2, <2>1, <2>3
  <2>5. events'[j].from = r /\ events'[j].kind # "deleted"
    BY <1>1, <2>1, <2>2
  <2> QED
    BY <1>1, <2>2, <2>4, <2>5 DEF Asking
<1> QED
  BY <1>4, <1>5, <1>6, <1>7 DEF EventsKept

\* A requestor's own event behind the others.
LEMMA OwnAppend ==
    ASSUME Shape, NEW r \in Requestors, NEW e \in Events, e.from = r,
           events' = Append(events, e)
    PROVE  /\ e.kind = "deleted" /\ NoneFrom(r) => OneDeleted(r)'
           /\ e.kind = "deleted" /\ OnlyDeleted(r) => OnlyDeleted(r)'
           /\ e.kind # "deleted" /\ OnlyDeleted(r) => Asking(r)'
<1> DEFINE n == Len(events)
<1>1. /\ n \in Nat /\ Len(events') = n + 1
      /\ \A i \in 1..n : events'[i] = events[i]
      /\ events'[n + 1] = e
  BY EventAppended
<1>2. \A i \in 1..(n + 1) : (i \in 1..n /\ i < n + 1) \/ i = n + 1
  BY <1>1
<1>3. n + 1 \in 1..(n + 1)
  BY <1>1
<1> HIDE DEF n
<1>4. e.kind = "deleted" /\ NoneFrom(r) => OneDeleted(r)'
  BY <1>1, <1>2, <1>3 DEF NoneFrom, OneDeleted, n
<1>5. e.kind = "deleted" /\ OnlyDeleted(r) => OnlyDeleted(r)'
  BY <1>1, <1>2 DEF OnlyDeleted, n
<1>6. e.kind # "deleted" /\ OnlyDeleted(r) => Asking(r)'
  BY <1>1, <1>2, <1>3 DEF OnlyDeleted, Asking, n
<1> QED
  BY <1>4, <1>5, <1>6

\* A requestor's own event taken.
LEMMA OwnTaken ==
    ASSUME Shape, NEW r \in Requestors, events # <<>>, Head(events).from = r,
           events' = Tail(events)
    PROVE  /\ ~NoneFrom(r)
           /\ OnlyDeleted(r) => Head(events).kind = "deleted" /\ OnlyDeleted(r)'
           /\ OneDeleted(r) => Head(events).kind = "deleted" /\ NoneFrom(r)'
           /\ Asking(r) /\ Head(events).kind = "deleted" => Asking(r)'
           /\ Asking(r) /\ Head(events).kind # "deleted" => NoneFrom(r)'
<1> DEFINE n == Len(events)
<1>1. /\ n \in Nat \ {0} /\ Len(events') = n - 1 /\ events[1].from = r
      /\ Head(events) = events[1] /\ 1 \in 1..n
      /\ \A i \in 1..(n - 1) : events'[i] = events[i + 1]
  BY EventTaken
<1>2. \A i \in 1..(n - 1) : i + 1 \in 1..n /\ i + 1 # 1
  BY <1>1
<1>3. \A k \in 1..n : k = 1 \/ (k - 1 \in 1..(n - 1) /\ (k - 1) + 1 = k)
  BY <1>1
<1> HIDE DEF n
<1>4. ~NoneFrom(r)
  BY <1>1 DEF NoneFrom, n
<1>5. OnlyDeleted(r) => Head(events).kind = "deleted" /\ OnlyDeleted(r)'
  BY <1>1, <1>2 DEF OnlyDeleted, n
<1>6. ASSUME OneDeleted(r) PROVE Head(events).kind = "deleted" /\ NoneFrom(r)'
  <2>1. PICK k \in 1..n : /\ events[k].from = r /\ events[k].kind = "deleted"
                          /\ \A i \in 1..n : i # k => events[i].from # r
    BY <1>6 DEF OneDeleted, n
  <2>2. k = 1
    BY <1>1, <2>1
  <2> QED
    BY <1>1, <1>2, <2>1, <2>2 DEF NoneFrom
<1>7. ASSUME Asking(r)
      PROVE  /\ Head(events).kind = "deleted" => Asking(r)'
             /\ Head(events).kind # "deleted" => NoneFrom(r)'
  <2>1. PICK k \in 1..n : /\ events[k].from = r /\ events[k].kind # "deleted"
                          /\ \A i \in 1..n : i # k /\ events[i].from = r =>
                                i < k /\ events[i].kind = "deleted"
    BY <1>7 DEF Asking, n
  <2>2. CASE k = 1
    <3>1. Head(events).kind # "deleted"
      BY <1>1, <2>1, <2>2
    <3>2. ASSUME NEW i \in 1..n, i # 1 PROVE events[i].from # r
      BY <2>1, <2>2, <3>2
    <3> QED
      BY <1>1, <1>2, <3>1, <3>2 DEF NoneFrom
  <2>3. CASE k # 1
    <3>1. Head(events).kind = "deleted"
      BY <1>1, <2>1, <2>3
    <3> DEFINE j == k - 1
    <3>2. j \in 1..(n - 1) /\ j + 1 = k
      BY <1>1, <1>3, <2>1, <2>3
    <3> HIDE DEF j
    <3>3. \A i \in 1..(n - 1) : (i # j => i + 1 # k) /\ (i + 1 < k => i < j)
      BY <1>1, <3>2
    <3>4. \A i \in 1..(n - 1) : i # j /\ events'[i].from = r =>
             i < j /\ events'[i].kind = "deleted"
      BY <1>1, <1>2, <2>1, <3>3
    <3>5. events'[j].from = r /\ events'[j].kind # "deleted"
      BY <1>1, <2>1, <3>2
    <3>6. Asking(r)'
      BY <1>1, <3>2, <3>4, <3>5 DEF Asking
    <3> QED
      BY <3>1, <3>6
  <2> QED
    BY <2>2, <2>3
<1> QED
  BY <1>4, <1>5, <1>6, <1>7

-----------------------------------------------------------------------------
(* Steps that leave a paste alone, and steps of the writers.               *)

\* What does not touch a requestor's paste keeps its stage.
LEMMA PasteKept ==
    ASSUME NEW r \in Requestors, Paste(r), env' = env, EventsKept(r),
           sends'[r] = sends[r], prop'[r] = prop[r], step'[r] = step[r], got'[r] = got[r],
           seen[r] \subseteq seen'[r],
           at' = at \/ (~Busy(r) /\ ~Busy(r)')
    PROVE  Paste(r)'
<1>1. /\ ~Working(r, "register") => ~Working(r, "register")'
      /\ ~Working(r, "chunk") => ~Working(r, "chunk")'
      /\ ~Working(r, "put") => ~Working(r, "put")'
      /\ ~Busy(r) => ~Busy(r)'
      /\ Working(r, "register") => Working(r, "register")'
      /\ Working(r, "chunk") => Working(r, "chunk")'
      /\ Working(r, "put") => Working(r, "put")' /\ at'.unit = at.unit
  BY DEF Working, Busy
<1>2. Settled(r) => Settled(r)'
  BY <1>1 DEF Settled
<1>3. Along(r) => Along(r)'
  BY DEF Along
<1>4. \A s : Ahead(r, s) => Ahead(r, s)'
  BY DEF Ahead
<1>5. Apart(r) => Apart(r)'
  BY <1>1, <1>2 DEF Apart, EventsKept
<1>6. Asked(r) => Asked(r)'
  BY <1>1, <1>2 DEF Asked, EventsKept
<1>7. Told(r) => Told(r)'
  BY <1>1, <1>2, <1>3 DEF Told, EventsKept
<1>8. Receiving(r) => Receiving(r)'
  BY <1>1, <1>3, <1>4 DEF Receiving, EventsKept
<1> QED
  BY <1>5, <1>6, <1>7, <1>8 DEF Paste

\* Without events nothing changes about events.
LEMMA SameEvents == ASSUME events' = events PROVE \A r : EventsKept(r)
  BY DEF EventsKept, NoneFrom, OnlyDeleted, OneDeleted, Asking

\* A write keeps it: the new text is seen by every paste under way.
LEMMA WriteKeeps ==
    ASSUME IndInv, Write, env' = env PROVE IndInv'
<1> USE DEF requestorVars
<1>1. TypeOK /\ Shape /\ OwnedSeen /\ Pastes
  BY DEF IndInv
<1>2. PICK n \in env.lengths :
          /\ owned' = Text(writes + 1, n)
          /\ seen' = [r \in Requestors |-> seen[r] \cup {owned'}]
  BY DEF Write
<1>3. writes' \in 0..MaxWrites /\ writes + 1 \in 1..MaxWrites
  BY <1>1, EnvTypes DEF Write, TypeOK
<1>4. owned' \in AllTexts /\ owned' # None
  <2>1. n \in Lengths
    BY <1>1, EnvTypes
  <2>2. owned' \in AllTexts
    BY <1>2, <1>3, <2>1 DEF AllTexts
  <2> QED
    BY <2>2, TextTypes DEF None
<1>5. \A r \in Requestors : seen[r] \subseteq seen'[r] /\ owned' \in seen'[r] /\ seen'[r] \subseteq AllTexts
  BY <1>1, <1>2, <1>4 DEF Shape
<1>6. UNCHANGED <<events, at, sends, prop, step, got, pastes>>
  BY DEF Write
<1>7. TypeOK'
  BY <1>1, <1>3, <1>4, <1>5, <1>6 DEF TypeOK
<1>8. Shape'
  BY <1>1, <1>2, <1>5, <1>6 DEF Shape
<1>9. OwnedSeen'
  BY <1>4, <1>5 DEF OwnedSeen
<1>10. Pastes'
  <2> SUFFICES ASSUME ~(env.clears /\ env.slow), NEW r \in Requestors PROVE Paste(r)'
    BY DEF Pastes
  <2>1. Paste(r)
    BY <1>1 DEF Pastes
  <2> QED
    BY <1>5, <1>6, <2>1, SameEvents, PasteKept
<1> QED
  BY <1>7, <1>8, <1>9, <1>10 DEF IndInv

\* Clearing keeps it.
LEMMA ClearKeeps ==
    ASSUME IndInv, Clear, env' = env PROVE IndInv'
<1> USE DEF requestorVars
<1>1. TypeOK /\ Shape /\ OwnedSeen /\ Pastes
  BY DEF IndInv
<1>2. UNCHANGED <<writes, events, at, sends, prop, step, got, pastes, seen>> /\ owned' = None /\ env.clears
  BY DEF Clear
<1>3. TypeOK'
  BY <1>1, <1>2 DEF TypeOK
<1>4. Shape'
  BY <1>1, <1>2 DEF Shape
<1>5. OwnedSeen'
  BY <1>2 DEF OwnedSeen
<1>6. Pastes'
  <2> SUFFICES ASSUME ~(env.clears /\ env.slow), NEW r \in Requestors PROVE Paste(r)'
    BY DEF Pastes
  <2>1. Paste(r)
    BY <1>1 DEF Pastes
  <2> QED
    BY <1>2, <2>1, SameEvents, PasteKept
<1> QED
  BY <1>3, <1>4, <1>5, <1>6 DEF IndInv

-----------------------------------------------------------------------------
(* Steps of the event thread.                                              *)

\* What the event thread takes from the queue.
LEMMA Received ==
    ASSUME IndInv, NEW q \in Requestors, NEW k, Receive(k, q)
    PROVE  /\ at = AtRest /\ at.step = "rest" /\ events' \in Seq(Events)
           /\ Head(events).from = q /\ Head(events).kind = k
           /\ \A r : ~Busy(r)
           /\ \A r \in Requestors : r # q => EventsKept(r)
<1>1. Shape /\ at = AtRest /\ events # <<>> /\ events' = Tail(events)
  BY DEF IndInv, Receive
<1>2. Head(events).from = q /\ Head(events).kind = k
  BY DEF Receive
<1>3. events' \in Seq(Events)
  BY <1>1, EventTaken
<1>4. at.step = "rest" /\ \A r : ~Busy(r)
  BY <1>1, Markers DEF Busy
<1>5. \A r \in Requestors : r # q => EventsKept(r)
  BY <1>1, <1>2, OthersTaken
<1> QED
  BY <1>1, <1>2, <1>3, <1>4, <1>5

\* A request is one its requestor waits for, and the only event it has.
LEMMA RequestAwaited ==
    ASSUME IndInv, NEW q \in Requestors, NEW k, Receive(k, q), k # "deleted", Paste(q)
    PROVE  step[q] = "asked" /\ got[q] = <<>> /\ Settled(q) /\ NoneFrom(q)'
<1>1. Shape /\ events # <<>> /\ events' = Tail(events)
  BY DEF IndInv, Receive
<1>2. at.step = "rest" /\ Head(events).from = q /\ Head(events).kind # "deleted"
  BY Received
<1>3. ~NoneFrom(q) /\ ~OnlyDeleted(q) /\ ~OneDeleted(q) /\ (Asking(q) => NoneFrom(q)')
  BY <1>1, <1>2, OwnTaken
<1>4. step[q] \in {"idle", "asked", "refused", "told", "incr", "done"}
  BY <1>1 DEF Shape
<1>5. step[q] = "asked"
  BY <1>3, <1>4 DEF Paste, Apart, Told, Receiving
<1> QED
  BY <1>3, <1>5 DEF Paste, Asked

\* Answering a request at once, or refusing it, keeps it.
LEMMA AnswerKeeps ==
    ASSUME IndInv, NEW q \in Requestors, NEW k, Receive(k, q), k # "deleted", env' = env,
           NEW value \in Props,
           value = Meta \/ (owned # None /\ value = Data(owned)),
           Answer(q, value) \/ Refuse(q),
           UNCHANGED <<owned, writes, sends, seen>>
    PROVE  IndInv'
<1>1. TypeOK /\ Shape /\ OwnedSeen /\ Pastes
  BY DEF IndInv
<1>2. /\ at' = at /\ at.step = "rest" /\ events' \in Seq(Events) /\ \A r : ~Busy(r)
      /\ \A r \in Requestors : r # q => EventsKept(r)
      /\ UNCHANGED <<got, pastes>>
  BY Received DEF Answer, Refuse, Notify
<1>3. /\ prop' \in [Requestors -> Props] /\ \A r \in Requestors : r # q => prop'[r] = prop[r]
      /\ step' \in [Requestors -> {"idle", "asked", "refused", "told", "incr", "done"}]
      /\ \A r \in Requestors : r # q => step'[r] = step[r]
      /\ step'[q] \in {"told", "refused"} /\ (step'[q] = "told" => prop'[q] = value)
  <2>1. CASE Answer(q, value)
    BY <1>1, <2>1 DEF Answer, Notify, Shape
  <2>2. CASE Refuse(q)
    BY <1>1, <2>2 DEF Refuse, Notify, Shape
  <2> QED
    BY <2>1, <2>2
<1>4. TypeOK'
  <2>1. \A r \in Requestors : prop'[r].kind \in {"none", "INCR", "meta", "data"}
    BY <1>3, DataProps
  <2> QED
    BY <1>1, <1>2, <1>3, <2>1 DEF TypeOK
<1>5. Shape'
  BY <1>1, <1>2, <1>3 DEF Shape
<1>6. OwnedSeen'
  BY <1>1, <1>2 DEF OwnedSeen
<1>7. Pastes'
  <2> SUFFICES ASSUME ~(env.clears /\ env.slow), NEW r \in Requestors PROVE Paste(r)'
    BY DEF Pastes
  <2>1. Paste(r)
    BY <1>1 DEF Pastes
  <2>2. CASE r # q
    BY <1>2, <1>3, <2>1, <2>2, PasteKept
  <2>3. CASE r = q
    <3>1. step[q] = "asked" /\ got[q] = <<>> /\ Settled(q) /\ NoneFrom(q)'
      BY <2>1, <2>3, RequestAwaited
    <3>2. ~Busy(q)' /\ ~Working(q, "register")' /\ Settled(q)' /\ got'[q] = <<>>
      BY <1>2, <3>1 DEF Busy, Working, Settled
    <3>3. CASE step'[q] = "refused"
      <4>1. Apart(q)'
        BY <3>1, <3>2 DEF Apart, NoneFrom, OnlyDeleted
      <4> QED
        BY <2>3, <3>3, <4>1 DEF Paste
    <3>4. CASE step'[q] = "told"
      <4>1. prop'[q] = Meta \/ (prop'[q].kind = "data" /\ prop'[q].units \in seen'[q])
        BY <1>1, <1>3, <3>4, Markers DEF OwnedSeen
      <4>2. Told(q)'
        BY <3>1, <3>2, <4>1 DEF Told
      <4> QED
        BY <2>3, <3>4, <4>2 DEF Paste
    <3> QED
      BY <1>3, <3>3, <3>4
  <2> QED
    BY <2>2, <2>3
<1> QED
  BY <1>4, <1>5, <1>6, <1>7 DEF IndInv

\* So does a request for another target.
LEMMA RequestOtherKeeps ==
    ASSUME IndInv, NEW q \in Requestors, RequestOther(q), env' = env PROVE IndInv'
<1>1. UNCHANGED <<owned, writes, sends, seen>> /\ Meta \in Props
  BY Markers DEF RequestOther
<1>2. PICK k \in {"TARGETS", "TIMESTAMP", "MULTIPLE"} :
         Receive(k, q) /\ (Answer(q, Meta) \/ Refuse(q))
  BY DEF RequestOther
<1> QED
  BY <1>1, <1>2, AnswerKeeps

\* And a request for the text, which may start a transfer.
LEMMA RequestKeeps ==
    ASSUME IndInv, NEW q \in Requestors, Request(q), env' = env PROVE IndInv'
<1> USE DEF requestorVars
<1>1. TypeOK /\ Shape /\ OwnedSeen /\ Pastes
  BY DEF IndInv
<1>2. Receive("text", q) /\ UNCHANGED <<owned, writes, sends, seen>>
  BY DEF Request
<1>3. CASE owned = None /\ Refuse(q)
  BY <1>2, <1>3, Markers, AnswerKeeps
<1>4. CASE owned # None /\ Answer(q, Data(owned))
  <2>1. owned \in AllTexts
    BY <1>1, <1>4 DEF TypeOK
  <2>2. Data(owned) \in Props
    BY <2>1, TextTypes, Markers
  <2> QED
    BY <1>2, <1>4, <2>2, AnswerKeeps
<1>5. CASE /\ Len(owned) > Cap
           /\ prop' = [prop EXCEPT ![q] = Incr]
           /\ at' = [step |-> "register", for |-> q]
           /\ UNCHANGED requestorVars
  <2>1. /\ at = AtRest /\ at.step = "rest" /\ events' \in Seq(Events) /\ \A r : ~Busy(r)
        /\ \A r \in Requestors : r # q => EventsKept(r)
    BY <1>2, Received
  <2>2. at'.step = "register" /\ at'.for = q /\ at' \in Places
    BY <1>5 DEF Places
  <2>3. /\ prop' \in [Requestors -> Props] /\ prop'[q] = Incr
        /\ \A r \in Requestors : r # q => prop'[r] = prop[r]
    BY <1>1, <1>5, Markers DEF Shape
  <2>4. TypeOK'
    <3>1. \A r \in Requestors : prop'[r].kind \in {"none", "INCR", "meta", "data"}
      BY <2>3, DataProps
    <3> QED
      BY <1>1, <1>2, <1>5, <2>2, <3>1 DEF TypeOK
  <2>5. Shape'
    BY <1>1, <1>2, <1>5, <2>1, <2>2, <2>3 DEF Shape
  <2>6. OwnedSeen'
    <3>1. owned # None
      BY <1>1, <1>5, EnvTypes DEF None
    <3> QED
      BY <1>1, <1>2, <3>1 DEF OwnedSeen
  <2>7. Pastes'
    <3> SUFFICES ASSUME ~(env.clears /\ env.slow), NEW r \in Requestors PROVE Paste(r)'
      BY DEF Pastes
    <3>1. Paste(r)
      BY <1>1 DEF Pastes
    <3>2. CASE r # q
      <4>1. ~Busy(r)'
        BY <2>2, <3>2 DEF Busy
      <4> QED
        BY <1>2, <1>5, <2>1, <2>3, <3>1, <3>2, <4>1, PasteKept
    <3>3. CASE r = q
      <4>1. step[q] = "asked" /\ got[q] = <<>> /\ Settled(q) /\ NoneFrom(q)'
        BY <1>2, <3>1, <3>3, RequestAwaited
      <4>2. Asked(q)'
        BY <1>2, <1>5, <2>2, <2>3, <4>1 DEF Asked, Working, Settled
      <4> QED
        BY <1>5, <3>3, <4>1, <4>2 DEF Paste
    <3> QED
      BY <3>2, <3>3
  <2> QED
    BY <2>4, <2>5, <2>6, <2>7 DEF IndInv
<1> QED
  BY <1>3, <1>4, <1>5 DEF Request

\* Registering the transfer keeps it: nothing is received yet, and if the text
\* is gone by now there is no transfer at all.
LEMMA RegisterKeeps ==
    ASSUME IndInv, Register, env' = env PROVE IndInv'
<1>1. TypeOK /\ Shape /\ OwnedSeen /\ Pastes
  BY DEF IndInv
<1>2. at.step = "register" /\ at' = AtRest /\ UNCHANGED <<owned, writes, events, prop, seen, got, pastes>>
  BY DEF Register, Notify
<1>3. PICK q \in Requestors : q = at.for
  BY <1>1, <1>2, PlaceTypes
<1>4. /\ step' \in [Requestors -> {"idle", "asked", "refused", "told", "incr", "done"}]
      /\ step'[q] = "told" /\ \A r \in Requestors : r # q => step'[r] = step[r]
  BY <1>1, <1>3 DEF Register, Notify, Shape
<1> DEFINE fresh == [off |-> 0, content |-> owned]
<1>5. sends' = [sends EXCEPT ![q] = IF owned = None THEN @ ELSE fresh]
  BY <1>3 DEF Register
<1>6. fresh \in Sends /\ fresh.off = 0 /\ fresh.content = owned
  BY <1>1 DEF TypeOK, Sends
<1> HIDE DEF fresh
<1>7. /\ sends' \in [Requestors -> Sends]
      /\ \A r \in Requestors : r # q => sends'[r] = sends[r]
      /\ sends'[q] = IF owned = None THEN sends[q] ELSE fresh
  BY <1>1, <1>5, <1>6 DEF Shape
<1>8. at'.step = "rest" /\ at' \in Places
  BY <1>2, Markers
<1>9. owned # None => owned \in AllTexts /\ Len(owned) \in Nat /\ owned \in Seq(Units)
  BY <1>1, TextTypes DEF TypeOK
<1>10. TypeOK'
  <2>1. \A r \in Requestors : sends'[r].off \in 0..Len(sends'[r].content)
    <3>1. owned # None => 0 \in 0..Len(owned)
      BY <1>9
    <3> QED
      BY <1>1, <1>6, <1>7, <3>1 DEF TypeOK
  <2> QED
    BY <1>1, <1>2, <1>4, <1>8, <2>1 DEF TypeOK
<1>11. Shape'
  <2>1. \A r \in Requestors : sends'[r] = NoSend \/ sends'[r].content \in AllTexts
    BY <1>1, <1>6, <1>7, <1>9 DEF Shape
  <2> QED
    BY <1>1, <1>2, <1>4, <1>7, <1>8, <2>1 DEF Shape
<1>12. OwnedSeen'
  BY <1>1, <1>2, <1>8 DEF OwnedSeen
<1>13. Pastes'
  <2> SUFFICES ASSUME ~(env.clears /\ env.slow), NEW r \in Requestors PROVE Paste(r)'
    BY DEF Pastes
  <2>1. Paste(r)
    BY <1>1 DEF Pastes
  <2>2. CASE r # q
    <3>1. ~Busy(r) /\ ~Busy(r)' /\ EventsKept(r)
      BY <1>2, <1>3, <1>8, <2>2, SameEvents DEF Busy
    <3> QED
      BY <1>2, <1>4, <1>7, <2>1, <2>2, <3>1, PasteKept
  <2>3. CASE r = q
    <3>1. Working(q, "register") /\ Busy(q)
      BY <1>2, <1>3 DEF Working, Busy
    <3>2. step[q] \in {"idle", "asked", "refused", "told", "incr", "done"}
      BY <1>1 DEF Shape
    <3>3. step[q] = "asked"
      BY <1>2, <2>1, <2>3, <3>1, <3>2 DEF Paste, Apart, Told, Receiving, Working
    <3>4. got[q] = <<>> /\ Settled(q) /\ NoneFrom(q) /\ prop[q] = Incr
      BY <2>1, <2>3, <3>1, <3>3 DEF Paste, Asked
    <3>5. Along(q)'
      <4>1. CASE owned = None
        <5>1. sends[q] = NoSend
          BY <1>1, <1>2, <3>4, <4>1 DEF OwnedSeen, Settled
        <5> QED
          BY <1>7, <4>1, <5>1 DEF Along
      <4>2. CASE owned # None
        <5>1. SubSeq(owned, 1, 0) = <<>>
          BY <1>9, <4>2
        <5>2. owned \in seen[q]
          BY <1>1, <4>2 DEF OwnedSeen
        <5> QED
          BY <1>2, <1>6, <1>7, <3>4, <4>2, <5>1, <5>2 DEF Along
      <4> QED
        BY <4>1, <4>2
    <3>6. NoneFrom(q)' /\ ~Busy(q)'
      BY <1>2, <1>8, <3>4 DEF NoneFrom, Busy
    <3>7. Told(q)'
      BY <1>2, <3>4, <3>5, <3>6 DEF Told
    <3> QED
      BY <1>4, <2>3, <3>7 DEF Paste
  <2> QED
    BY <2>2, <2>3
<1> QED
  BY <1>10, <1>11, <1>12, <1>13 DEF IndInv

\* A deletion noticed keeps it: it belongs to the transfer under way, or to
\* what came before the request in the queue.
LEMMA DeletedKeeps ==
    ASSUME IndInv, NEW q \in Requestors, Deleted(q), env' = env PROVE IndInv'
<1> USE DEF requestorVars
<1>1. TypeOK /\ Shape /\ OwnedSeen /\ Pastes
  BY DEF IndInv
<1>2. Receive("deleted", q) /\ UNCHANGED <<owned, writes, sends, prop, step, got, pastes, seen>>
  BY DEF Deleted
<1>3. /\ at = AtRest /\ at.step = "rest" /\ events' \in Seq(Events) /\ \A r : ~Busy(r)
      /\ \A r \in Requestors : r # q => EventsKept(r)
      /\ Head(events).from = q /\ Head(events).kind = "deleted"
  BY <1>2, Received
<1> DEFINE chunk == [step |-> "chunk", for |-> q]
<1>4. at' = IF sends[q] = NoSend THEN AtRest ELSE chunk
  BY DEF Deleted
<1>5. chunk \in Places /\ chunk.step = "chunk" /\ chunk.for = q
  BY DEF Places
<1> HIDE DEF chunk
<1>6. at' \in Places /\ at'.step \in {"rest", "chunk"} /\ (at'.step = "chunk" => at'.for = q)
  BY <1>4, <1>5, Markers
<1>7. TypeOK'
  BY <1>1, <1>2, <1>6 DEF TypeOK
<1>8. Shape'
  BY <1>1, <1>2, <1>3, <1>6 DEF Shape
<1>9. OwnedSeen'
  BY <1>1, <1>2, <1>6 DEF OwnedSeen
<1>10. Pastes'
  <2> SUFFICES ASSUME ~(env.clears /\ env.slow), NEW r \in Requestors PROVE Paste(r)'
    BY DEF Pastes
  <2>1. Paste(r)
    BY <1>1 DEF Pastes
  <2>2. CASE r # q
    <3>1. ~Busy(r)'
      BY <1>6, <2>2 DEF Busy
    <3> QED
      BY <1>2, <1>3, <2>1, <2>2, <3>1, PasteKept
  <2>3. CASE r = q
    <3>1. events # <<>> /\ events' = Tail(events)
      BY <1>2 DEF Receive
    <3>2. /\ ~NoneFrom(q) /\ (OnlyDeleted(q) => OnlyDeleted(q)')
          /\ (OneDeleted(q) => NoneFrom(q)') /\ (Asking(q) => Asking(q)')
      BY <1>1, <1>3, <3>1, OwnTaken
    <3>3. /\ ~Working(q, "register")' /\ ~Working(q, "put")'
          /\ sends[q] = NoSend => at'.step = "rest"
          /\ sends[q] # NoSend => Working(q, "chunk")'
      BY <1>4, <1>5, <1>6, Markers DEF Working
    <3>4. Settled(q) => Settled(q)'
      BY <1>2, <3>3 DEF Settled, Working
    <3>5. CASE step[q] \in {"idle", "refused", "done"}
      <4>1. Apart(q)'
        BY <2>1, <2>3, <3>2, <3>3, <3>4, <3>5 DEF Paste, Apart
      <4> QED
        BY <1>2, <2>1, <2>3, <3>5, <4>1 DEF Paste
    <3>6. CASE step[q] = "asked"
      <4>1. Asked(q)'
        BY <1>2, <2>1, <2>3, <3>2, <3>3, <3>4, <3>6 DEF Paste, Asked
      <4> QED
        BY <1>2, <2>3, <3>6, <4>1 DEF Paste
    <3>7. step[q] # "told"
      BY <2>1, <2>3, <3>2 DEF Paste, Told
    <3>8. CASE step[q] = "incr"
      <4>1. OneDeleted(q) /\ prop[q] = NoProp /\ Along(q)
        BY <2>1, <2>3, <3>2, <3>8 DEF Paste, Receiving
      <4>2. NoneFrom(q)'
        BY <3>2, <4>1
      <4>3. prop'[q] = NoProp /\ Along(q)'
        BY <1>2, <4>1 DEF Along
      <4>4. CASE sends[q] = NoSend
        <5>1. ~Busy(q)' /\ sends'[q] = NoSend
          BY <1>2, <3>3, <4>4 DEF Busy
        <5>2. Receiving(q)'
          BY <4>2, <4>3, <5>1 DEF Receiving
        <5> QED
          BY <1>2, <2>3, <3>8, <5>2 DEF Paste
      <4>5. CASE sends[q] # NoSend
        <5>1. Receiving(q)'
          BY <3>3, <4>2, <4>3, <4>5 DEF Receiving
        <5> QED
          BY <1>2, <2>3, <3>8, <5>1 DEF Paste
      <4> QED
        BY <4>4, <4>5
    <3>9. step[q] \in {"idle", "asked", "refused", "told", "incr", "done"}
      BY <1>1 DEF Shape
    <3> QED
      BY <2>3, <3>5, <3>6, <3>7, <3>8, <3>9
  <2> QED
    BY <2>2, <2>3
<1> QED
  BY <1>7, <1>8, <1>9, <1>10 DEF IndInv

\* What the event thread does after a deletion is for a paste that receives, or
\* one left behind by a requestor that gave up.
LEMMA ChunkFor ==
    ASSUME IndInv, NEW q \in Requestors, Paste(q), Working(q, "chunk") \/ Working(q, "put")
    PROVE  /\ step[q] # "told"
           /\ step[q] # "incr" => env.slow
           /\ step[q] = "asked" => Asking(q) /\ got[q] = <<>>
           /\ step[q] = "incr" => NoneFrom(q) /\ prop[q] = NoProp
           /\ step[q] = "incr" /\ Working(q, "chunk") => Along(q)
           /\ step[q] = "incr" /\ Working(q, "put") => Ahead(q, <<at.unit>>)
<1>1. TypeOK /\ step[q] \in {"idle", "asked", "refused", "told", "incr", "done"}
  BY DEF IndInv, Shape
<1>2. Busy(q) /\ ~Working(q, "register") /\ ~(Working(q, "chunk") /\ Working(q, "put"))
  BY DEF Busy, Working
<1>3. Settled(q) => env.slow
  BY DEF Settled
<1>4. step[q] # "told"
  BY <1>2 DEF Paste, Told
<1>5. step[q] # "incr" => env.slow
  BY <1>1, <1>3, <1>4 DEF Paste, Apart, Asked
<1>6. step[q] = "asked" => Asking(q) /\ got[q] = <<>>
  BY <1>2 DEF Paste, Asked
<1>7. step[q] = "incr" => /\ NoneFrom(q) /\ prop[q] = NoProp
                          /\ Working(q, "chunk") => Along(q)
                          /\ Working(q, "put") => Ahead(q, <<at.unit>>)
  BY <1>2 DEF Paste, Receiving
<1> QED
  BY <1>4, <1>5, <1>6, <1>7

\* With slow requestors only the queue matters for a paste that is not under
\* way.
LEMMA SlowApart ==
    ASSUME env.slow, env' = env, NEW q \in Requestors, Paste(q), events' = events,
           ~Working(q, "register"), ~Working(q, "register")',
           step'[q] = step[q], got'[q] = got[q], seen'[q] = seen[q],
           step[q] \in {"idle", "asked", "refused", "done"}
    PROVE  Paste(q)'
<1>1. Settled(q)' /\ EventsKept(q)
  BY SameEvents DEF Settled
<1>2. CASE step[q] = "asked"
  <2>1. Asked(q)'
    BY <1>1, <1>2 DEF Paste, Asked, EventsKept
  <2> QED
    BY <1>2, <2>1 DEF Paste
<1>3. CASE step[q] \in {"idle", "refused", "done"}
  <2>1. Apart(q)'
    BY <1>1, <1>3 DEF Paste, Apart, EventsKept
  <2> QED
    BY <1>3, <2>1 DEF Paste
<1> QED
  BY <1>2, <1>3

\* Choosing the next chunk keeps it.
LEMMA NextChunkKeeps ==
    ASSUME IndInv, NextChunk, env' = env PROVE IndInv'
<1> USE DEF requestorVars
<1>1. TypeOK /\ Shape /\ OwnedSeen /\ Pastes
  BY DEF IndInv
<1>2. at.step = "chunk" /\ UNCHANGED <<owned, writes, events, step, got, pastes, seen>>
  BY DEF NextChunk
<1>3. PICK q \in Requestors : q = at.for
  BY <1>1, <1>2, PlaceTypes
<1> DEFINE e == sends[q]
           next == [e EXCEPT !.off = e.off + 1]
           put == [step |-> "put", for |-> q, unit |-> e.content[e.off + 1]]
           Gone == e = NoSend /\ at' = AtRest /\ UNCHANGED <<sends, prop>>
           Last == /\ e # NoSend /\ e.off = Len(e.content)
                   /\ prop' = [prop EXCEPT ![q] = Data(<<>>)]
                   /\ sends' = [sends EXCEPT ![q] = NoSend]
                   /\ at' = AtRest
           More == /\ e.off < Len(e.content)
                   /\ sends' = [sends EXCEPT ![q] = next]
                   /\ at' = put
                   /\ UNCHANGED prop
<1>4. Gone \/ Last \/ More
  BY <1>3 DEF NextChunk
<1>5. e \in Sends /\ e.off \in 0..Len(e.content) /\ (e = NoSend \/ e.content \in AllTexts)
  BY <1>1 DEF Shape, TypeOK
<1>6. e # NoSend => /\ e.content \in AllTexts /\ e.content \in Seq(Units)
                    /\ Len(e.content) \in Nat \ {0} /\ e.off \in 0..Len(e.content)
  BY <1>5, TextTypes
<1>7. NoSend.off = 0 /\ Len(NoSend.content) = 0
  BY Markers
<1>8. More => e # NoSend /\ e.off \in 0..(Len(e.content) - 1)
  BY <1>5, <1>6, <1>7
<1>9. More => /\ e.content[e.off + 1] \in Units /\ e.off + 1 \in 1..Len(e.content)
              /\ SubSeq(e.content, 1, e.off) \o <<e.content[e.off + 1]>> = SubSeq(e.content, 1, e.off + 1)
  BY <1>6, <1>8, OneMore
<1>10. More => next \in Sends /\ next.off = e.off + 1 /\ next.content = e.content
  <2>1. next = [off |-> e.off + 1, content |-> e.content]
    BY <1>5 DEF Sends
  <2>2. More => e.off + 1 \in Nat
    BY <1>6, <1>8
  <2> QED
    BY <1>5, <2>1, <2>2 DEF Sends
<1>11. More => /\ put \in Places /\ put.step = "put" /\ put.for = q
               /\ put.unit = e.content[e.off + 1]
  BY <1>9 DEF Places
<1>12. at' \in Places /\ at'.step \in {"rest", "put"} /\ (at'.step = "put" => at'.for = q)
  <2> HIDE DEF put, next
  <2> QED
    BY <1>4, <1>11, Markers
<1>13. /\ sends' \in [Requestors -> Sends]
       /\ \A r \in Requestors : r # q => sends'[r] = sends[r]
       /\ Gone => sends'[q] = NoSend
       /\ Last => sends'[q] = NoSend
       /\ More => sends'[q] = next
  <2> HIDE DEF put, next
  <2> QED
    BY <1>1, <1>4, <1>10, Markers DEF Shape
<1>14. /\ prop' \in [Requestors -> Props]
       /\ \A r \in Requestors : r # q => prop'[r] = prop[r]
       /\ Gone \/ More => prop'[q] = prop[q]
       /\ Last => prop'[q] = Data(<<>>)
  <2>0. <<>> \in Seq(Units)
    OBVIOUS
  <2>1. Data(<<>>) \in Props /\ prop \in [Requestors -> Props]
    BY <1>1, <2>0, Markers DEF Shape
  <2> HIDE DEF put, next
  <2>2. Last => /\ prop' \in [Requestors -> Props]
                /\ \A r \in Requestors : r # q => prop'[r] = prop[r]
                /\ prop'[q] = Data(<<>>)
    BY <2>1
  <2>3. Gone \/ More => prop' = prop
    OBVIOUS
  <2> QED
    BY <1>4, <2>1, <2>2, <2>3
<1> HIDE DEF put, next
<1>15. TypeOK'
  <2>1. \A r \in Requestors : prop'[r].kind \in {"none", "INCR", "meta", "data"}
    BY <1>14, DataProps
  <2>2. sends'[q].off \in 0..Len(sends'[q].content)
    BY <1>4, <1>6, <1>7, <1>8, <1>9, <1>10, <1>13
  <2>3. \A r \in Requestors : sends'[r].off \in 0..Len(sends'[r].content)
    BY <1>1, <1>13, <2>2 DEF TypeOK
  <2> QED
    BY <1>1, <1>2, <1>12, <2>1, <2>3 DEF TypeOK
<1>16. Shape'
  <2>1. \A r \in Requestors : sends'[r] = NoSend \/ sends'[r].content \in AllTexts
    BY <1>1, <1>4, <1>6, <1>8, <1>10, <1>13 DEF Shape
  <2> QED
    BY <1>1, <1>2, <1>12, <1>13, <1>14, <2>1 DEF Shape
<1>17. OwnedSeen'
  BY <1>1, <1>2, <1>12 DEF OwnedSeen
<1>18. Pastes'
  <2> SUFFICES ASSUME ~(env.clears /\ env.slow), NEW r \in Requestors PROVE Paste(r)'
    BY DEF Pastes
  <2>1. Paste(r)
    BY <1>1 DEF Pastes
  <2>2. CASE r # q
    <3>1. ~Busy(r) /\ ~Busy(r)' /\ EventsKept(r)
      BY <1>2, <1>3, <1>12, <2>2, SameEvents DEF Busy
    <3> QED
      BY <1>2, <1>13, <1>14, <2>1, <2>2, <3>1, PasteKept
  <2>3. CASE r = q
    <3>1. Working(q, "chunk") /\ ~Working(q, "register") /\ ~Working(q, "register")'
      BY <1>2, <1>3, <1>12 DEF Working
    <3>2. step[q] \in {"idle", "asked", "refused", "told", "incr", "done"}
      BY <1>1 DEF Shape
    <3>3. step[q] # "told" /\ (step[q] # "incr" => env.slow)
      BY <2>1, <2>3, <3>1, ChunkFor
    <3>4. CASE step[q] # "incr"
      BY <1>2, <2>1, <2>3, <3>1, <3>2, <3>3, <3>4, SlowApart
    <3>5. CASE step[q] = "incr"
      <4>1. NoneFrom(q) /\ prop[q] = NoProp /\ Along(q)
        BY <2>1, <2>3, <3>1, <3>5, ChunkFor
      <4>2. NoneFrom(q)'
        BY <1>2, <4>1 DEF NoneFrom
      <4>3. CASE Gone
        <5>1. ~Busy(q)'
          BY <4>3, Markers DEF Busy
        <5>2. Receiving(q)'
          BY <1>13, <1>14, <4>1, <4>2, <4>3, <5>1 DEF Receiving
        <5> QED
          BY <1>2, <2>3, <3>5, <5>2 DEF Paste
      <4>4. CASE Last
        <5>1. ~Busy(q)'
          BY <4>4, Markers DEF Busy
        <5>2. SubSeq(e.content, 1, e.off) = e.content
          BY <1>6, <4>4, SubSeqFull
        <5>3. got[q] \in seen[q]
          BY <4>1, <4>4, <5>2 DEF Along
        <5>4. prop'[q].kind = "data" /\ prop'[q].units = <<>>
          BY <1>14, <4>4, Markers
        <5>5. Receiving(q)'
          BY <1>2, <1>13, <4>2, <4>4, <5>1, <5>3, <5>4 DEF Receiving
        <5> QED
          BY <1>2, <2>3, <3>5, <5>5 DEF Paste
      <4>5. CASE More
        <5>1. Working(q, "put")' /\ at'.unit = e.content[e.off + 1]
          BY <1>11, <4>5 DEF Working
        <5>2. got[q] = SubSeq(e.content, 1, e.off) /\ e.content \in seen[q]
          BY <1>8, <4>1, <4>5 DEF Along
        <5>3. Ahead(q, <<at.unit>>)'
          <6>1. /\ got'[q] \o <<at'.unit>> = SubSeq(e.content, 1, e.off + 1)
                /\ e.content \in seen'[q]
            BY <1>2, <1>9, <4>5, <5>1, <5>2
          <6>2. sends'[q].off = e.off + 1 /\ sends'[q].content = e.content
            BY <1>10, <1>13, <4>5
          <6> QED
            BY <6>1, <6>2 DEF Ahead
        <5>4. Receiving(q)'
          BY <1>14, <4>1, <4>2, <4>5, <5>1, <5>3 DEF Receiving
        <5> QED
          BY <1>2, <2>3, <3>5, <5>4 DEF Paste
      <4> QED
        BY <1>4, <4>3, <4>4, <4>5
    <3> QED
      BY <3>4, <3>5
  <2> QED
    BY <2>2, <2>3
<1> QED
  BY <1>15, <1>16, <1>17, <1>18 DEF IndInv

\* Writing the chunk keeps it.
LEMMA PutChunkKeeps ==
    ASSUME IndInv, PutChunk, env' = env PROVE IndInv'
<1> USE DEF requestorVars
<1>1. TypeOK /\ Shape /\ OwnedSeen /\ Pastes
  BY DEF IndInv
<1>2. /\ at.step = "put" /\ at' = AtRest
      /\ UNCHANGED <<owned, writes, events, sends, step, got, pastes, seen>>
  BY DEF PutChunk
<1>3. PICK q \in Requestors : q = at.for
  BY <1>1, <1>2, PlaceTypes
<1>4. PICK u \in Units : u = at.unit
  BY <1>1, <1>2, PlaceTypes
<1>5. /\ <<u>> \in Seq(Units) /\ <<u>> # <<>>
  BY <1>4
<1>6. Data(<<u>>) \in Props /\ Data(<<u>>).kind = "data" /\ Data(<<u>>).units = <<u>>
  BY <1>5, Markers
<1>7. /\ prop' \in [Requestors -> Props] /\ prop'[q] = Data(<<u>>)
      /\ \A r \in Requestors : r # q => prop'[r] = prop[r]
  BY <1>1, <1>3, <1>4, <1>6 DEF PutChunk, Shape
<1>8. at'.step = "rest" /\ at' \in Places
  BY <1>2, Markers
<1>9. TypeOK'
  <2>1. \A r \in Requestors : prop'[r].kind \in {"none", "INCR", "meta", "data"}
    BY <1>7, DataProps
  <2> QED
    BY <1>1, <1>2, <1>8, <2>1 DEF TypeOK
<1>10. Shape'
  BY <1>1, <1>2, <1>7, <1>8 DEF Shape
<1>11. OwnedSeen'
  BY <1>1, <1>2, <1>8 DEF OwnedSeen
<1>12. Pastes'
  <2> SUFFICES ASSUME ~(env.clears /\ env.slow), NEW r \in Requestors PROVE Paste(r)'
    BY DEF Pastes
  <2>1. Paste(r)
    BY <1>1 DEF Pastes
  <2>2. CASE r # q
    <3>1. ~Busy(r) /\ ~Busy(r)' /\ EventsKept(r)
      BY <1>2, <1>3, <1>8, <2>2, SameEvents DEF Busy
    <3> QED
      BY <1>2, <1>7, <2>1, <2>2, <3>1, PasteKept
  <2>3. CASE r = q
    <3>1. Working(q, "put") /\ ~Working(q, "register") /\ ~Working(q, "register")' /\ ~Busy(q)'
      BY <1>2, <1>3, <1>8 DEF Working, Busy
    <3>2. step[q] \in {"idle", "asked", "refused", "told", "incr", "done"}
      BY <1>1 DEF Shape
    <3>3. step[q] # "told" /\ (step[q] # "incr" => env.slow)
      BY <2>1, <2>3, <3>1, ChunkFor
    <3>4. CASE step[q] # "incr"
      BY <1>2, <2>1, <2>3, <3>1, <3>2, <3>3, <3>4, SlowApart
    <3>5. CASE step[q] = "incr"
      <4>1. NoneFrom(q) /\ Ahead(q, <<u>>)
        BY <1>4, <2>1, <2>3, <3>1, <3>5, ChunkFor
      <4>2. NoneFrom(q)'
        BY <1>2, <4>1 DEF NoneFrom
      <4>3. Ahead(q, <<u>>)'
        BY <1>2, <4>1 DEF Ahead
      <4>4. Ahead(q, prop[q].units)'
        BY <1>6, <1>7, <4>3
      <4>5. Receiving(q)'
        BY <1>5, <1>6, <1>7, <3>1, <4>2, <4>4 DEF Receiving
      <4> QED
        BY <1>2, <2>3, <3>5, <4>5 DEF Paste
    <3> QED
      BY <3>4, <3>5
  <2> QED
    BY <2>2, <2>3
<1> QED
  BY <1>9, <1>10, <1>11, <1>12 DEF IndInv

\* Dropping a transfer keeps it: its paste cannot be completed any more.
LEMMA SweepKeeps ==
    ASSUME IndInv, NEW q \in Requestors, Sweep(q), env' = env PROVE IndInv'
<1> USE DEF requestorVars
<1>1. TypeOK /\ Shape /\ OwnedSeen /\ Pastes
  BY DEF IndInv
<1>2. env.slow /\ UNCHANGED <<owned, writes, events, at, prop, step, got, pastes, seen>>
  BY DEF Sweep
<1>3. /\ sends' \in [Requestors -> Sends] /\ sends'[q] = NoSend
      /\ \A r \in Requestors : r # q => sends'[r] = sends[r]
  BY <1>1, Markers DEF Sweep, Shape
<1>4. TypeOK'
  <2>1. NoSend.off \in 0..Len(NoSend.content)
    BY Markers
  <2>2. \A r \in Requestors : sends'[r].off \in 0..Len(sends'[r].content)
    BY <1>1, <1>3, <2>1 DEF TypeOK
  <2> QED
    BY <1>1, <1>2, <2>2 DEF TypeOK
<1>5. Shape'
  BY <1>1, <1>2, <1>3 DEF Shape
<1>6. OwnedSeen'
  BY <1>1, <1>2 DEF OwnedSeen
<1>7. Pastes'
  <2> SUFFICES ASSUME ~(env.clears /\ env.slow), NEW r \in Requestors PROVE Paste(r)'
    BY DEF Pastes
  <2>1. Paste(r) /\ EventsKept(r)
    BY <1>1, <1>2, SameEvents DEF Pastes
  <2>2. CASE r # q
    BY <1>2, <1>3, <2>1, <2>2, PasteKept
  <2>3. CASE r = q
    <3>1. /\ Working(q, "register") <=> Working(q, "register")'
          /\ Working(q, "chunk") => Working(q, "chunk")'
          /\ Working(q, "put") => Working(q, "put")'
          /\ ~Busy(q) => ~Busy(q)'
      BY <1>2 DEF Working, Busy
    <3>2. Settled(q)' /\ Along(q)' /\ Ahead(q, <<at.unit>>)' /\ Ahead(q, prop[q].units)'
      BY <1>2, <1>3 DEF Settled, Along, Ahead
    <3>3. Apart(q) => Apart(q)'
      BY <2>1, <2>3, <3>1, <3>2 DEF Apart, EventsKept
    <3>4. Asked(q) => Asked(q)'
      BY <1>2, <2>1, <2>3, <3>1, <3>2 DEF Asked, EventsKept
    <3>5. Told(q) => Told(q)'
      BY <1>2, <2>1, <2>3, <3>1, <3>2 DEF Told, EventsKept
    <3>6. Receiving(q) => Receiving(q)'
      BY <1>2, <1>3, <2>1, <2>3, <3>1, <3>2 DEF Receiving, EventsKept
    <3> QED
      BY <1>2, <2>1, <2>3, <3>3, <3>4, <3>5, <3>6 DEF Paste
  <2> QED
    BY <2>2, <2>3
<1> QED
  BY <1>4, <1>5, <1>6, <1>7 DEF IndInv

-----------------------------------------------------------------------------
(* Steps of the requestors.                                                *)

\* Asking keeps it: what is left of earlier pastes is in front of the request.
LEMMA AskKeeps ==
    ASSUME IndInv, NEW q \in Requestors, Ask(q), env' = env PROVE IndInv'
<1>1. TypeOK /\ Shape /\ OwnedSeen /\ Pastes
  BY DEF IndInv
<1>2. /\ step[q] \in {"idle", "refused", "done"}
      /\ pastes' = pastes + 1 /\ pastes < MaxPastes
      /\ UNCHANGED <<owned, writes, at, sends, prop>>
  BY DEF Ask
<1>3. PICK target \in env.targets : events' = Append(events, [kind |-> target, from |-> q])
  BY DEF Ask
<1>4. target \in Targets /\ target # "deleted"
  BY <1>1, EnvTypes DEF Targets
<1>5. PICK e \in Events : e.kind = target /\ e.from = q /\ events' = Append(events, e)
  BY <1>3, <1>4 DEF Events
<1>6. events' \in Seq(Events)
  BY <1>1, <1>5, EventAppended
<1>7. /\ step' \in [Requestors -> {"idle", "asked", "refused", "told", "incr", "done"}]
      /\ step'[q] = "asked" /\ \A r \in Requestors : r # q => step'[r] = step[r]
  BY <1>1 DEF Ask, Shape
<1>8. /\ got' = [r \in Requestors |-> got'[r]] /\ got'[q] = <<>>
      /\ \A r \in Requestors : r # q => got'[r] = got[r]
  BY <1>1 DEF Ask, Shape
<1>9. owned # None => owned \in AllTexts
  BY <1>1 DEF TypeOK
<1>10. /\ seen' \in [Requestors -> SUBSET AllTexts]
       /\ seen'[q] = IF owned = None THEN {} ELSE {owned}
       /\ \A r \in Requestors : r # q => seen'[r] = seen[r]
  BY <1>1, <1>9 DEF Ask, Shape
<1>11. TypeOK'
  <2>1. pastes' \in 0..MaxPastes
    BY <1>1, <1>2, EnvTypes DEF TypeOK
  <2> QED
    BY <1>1, <1>2, <1>7, <1>10, <2>1 DEF TypeOK
<1>12. Shape'
  BY <1>1, <1>2, <1>6, <1>7, <1>8, <1>10 DEF Shape
<1>13. OwnedSeen'
  BY <1>1, <1>2, <1>10 DEF OwnedSeen
<1>14. Pastes'
  <2> SUFFICES ASSUME ~(env.clears /\ env.slow), NEW r \in Requestors PROVE Paste(r)'
    BY DEF Pastes
  <2>1. Paste(r)
    BY <1>1 DEF Pastes
  <2>2. CASE r # q
    <3>1. EventsKept(r)
      BY <1>1, <1>5, <2>2, OthersAppend
    <3> QED
      BY <1>2, <1>7, <1>8, <1>10, <2>1, <2>2, <3>1, PasteKept
  <2>3. CASE r = q
    <3>1. Apart(q)
      BY <1>2, <2>1, <2>3 DEF Paste
    <3>2. Asking(q)'
      BY <1>1, <1>4, <1>5, <3>1, OwnAppend DEF Apart
    <3>3. Settled(q)' /\ ~Working(q, "register")'
      BY <1>2, <3>1 DEF Apart, Settled, Working
    <3>4. Asked(q)'
      BY <1>8, <3>2, <3>3 DEF Asked
    <3> QED
      BY <1>7, <2>3, <3>4 DEF Paste
  <2> QED
    BY <2>2, <2>3
<1> QED
  BY <1>11, <1>12, <1>13, <1>14 DEF IndInv

\* A property read and deleted.
LEMMA Taken ==
    ASSUME Shape, NEW q \in Requestors, TakeProp(q)
    PROVE  /\ prop[q] # NoProp /\ prop'[q] = NoProp /\ prop' \in [Requestors -> Props]
           /\ \A r \in Requestors : prop'[r].kind \in {"none", "INCR", "meta", "data"}
           /\ events' \in Seq(Events)
           /\ \A r \in Requestors : r # q => EventsKept(r) /\ prop'[r] = prop[r]
           /\ NoneFrom(q) => OneDeleted(q)' /\ OnlyDeleted(q)'
<1>1. /\ prop[q] # NoProp /\ prop'[q] = NoProp /\ prop' \in [Requestors -> Props]
      /\ \A r \in Requestors : r # q => prop'[r] = prop[r]
  BY Markers DEF TakeProp, Shape
<1>2. PICK e \in Events : e.kind = "deleted" /\ e.from = q /\ events' = Append(events, e)
  BY DEF TakeProp, Events
<1>3. \A r \in Requestors : prop'[r].kind \in {"none", "INCR", "meta", "data"}
  BY <1>1, DataProps
<1>4. events' \in Seq(Events)
  BY <1>2, EventAppended
<1>5. \A r \in Requestors : r # q => EventsKept(r)
  BY <1>2, OthersAppend
<1>6. NoneFrom(q) => OnlyDeleted(q)
  BY DEF NoneFrom, OnlyDeleted
<1>7. NoneFrom(q) => OneDeleted(q)' /\ OnlyDeleted(q)'
  BY <1>2, <1>6, OwnAppend
<1> QED
  BY <1>1, <1>3, <1>4, <1>5, <1>7

\* Reading the first property keeps it: a whole text, or the announcement of
\* a transfer that starts with the first chunk.
LEMMA ReadFirstKeeps ==
    ASSUME IndInv, NEW q \in Requestors, ReadFirst(q), env' = env PROVE IndInv'
<1>1. TypeOK /\ Shape /\ OwnedSeen /\ Pastes
  BY DEF IndInv
<1>2. /\ step[q] = "told" /\ TakeProp(q)
      /\ UNCHANGED <<owned, writes, at, sends, pastes, seen>>
  BY DEF ReadFirst
<1>3. /\ prop'[q] = NoProp /\ prop' \in [Requestors -> Props]
      /\ \A r \in Requestors : prop'[r].kind \in {"none", "INCR", "meta", "data"}
      /\ events' \in Seq(Events)
      /\ \A r \in Requestors : r # q => EventsKept(r) /\ prop'[r] = prop[r]
      /\ NoneFrom(q) => OneDeleted(q)' /\ OnlyDeleted(q)'
  BY <1>1, <1>2, Taken
<1>4. /\ step' \in [Requestors -> {"idle", "asked", "refused", "told", "incr", "done"}]
      /\ \A r \in Requestors : r # q => step'[r] = step[r]
  BY <1>1 DEF ReadFirst, Shape
<1>5. /\ got' = [r \in Requestors |-> got'[r]]
      /\ \A r \in Requestors : r # q => got'[r] = got[r]
  BY <1>1 DEF ReadFirst, Shape
<1>6. \/ prop[q] = Incr /\ step'[q] = "incr" /\ got'[q] = got[q]
      \/ prop[q] = Meta /\ step'[q] = "idle"
      \/ prop[q].kind = "data" /\ step'[q] = "done" /\ got'[q] = prop[q].units
  BY <1>1 DEF ReadFirst, Shape
<1>7. TypeOK'
  BY <1>1, <1>2, <1>3, <1>4 DEF TypeOK
<1>8. Shape'
  BY <1>1, <1>2, <1>3, <1>4, <1>5 DEF Shape
<1>9. OwnedSeen'
  BY <1>1, <1>2 DEF OwnedSeen
<1>10. Pastes'
  <2> SUFFICES ASSUME ~(env.clears /\ env.slow), NEW r \in Requestors PROVE Paste(r)'
    BY DEF Pastes
  <2>1. Paste(r)
    BY <1>1 DEF Pastes
  <2>2. CASE r # q
    BY <1>2, <1>3, <1>4, <1>5, <2>1, <2>2, PasteKept
  <2>3. CASE r = q
    <3>1. Told(q)
      BY <1>2, <2>1, <2>3 DEF Paste
    <3>2. OneDeleted(q)' /\ OnlyDeleted(q)' /\ ~Busy(q)' /\ ~Working(q, "register")'
      BY <1>2, <1>3, <3>1, <1>1, PlaceTypes DEF Told, Busy, Working
    <3>3. Settled(q) => Settled(q)'
      BY <1>2 DEF Settled, Working
    <3>4. CASE prop[q] = Incr /\ step'[q] = "incr" /\ got'[q] = got[q]
      <4>1. Along(q)
        BY <3>1, <3>4, Markers DEF Told
      <4>2. Along(q)'
        BY <1>2, <3>4, <4>1 DEF Along
      <4>3. Receiving(q)'
        BY <1>3, <3>2, <4>2 DEF Receiving
      <4> QED
        BY <2>3, <3>4, <4>3 DEF Paste
    <3>5. CASE prop[q] = Meta /\ step'[q] = "idle"
      <4>1. Settled(q)
        BY <3>1, <3>5, Markers DEF Told
      <4>2. Apart(q)'
        BY <3>2, <3>3, <4>1 DEF Apart
      <4> QED
        BY <2>3, <3>5, <4>2 DEF Paste
    <3>6. CASE prop[q].kind = "data" /\ step'[q] = "done" /\ got'[q] = prop[q].units
      <4>1. Settled(q) /\ prop[q].units \in seen[q]
        BY <3>1, <3>6, Markers DEF Told
      <4>2. Apart(q)' /\ got'[q] \in seen'[q]
        BY <1>2, <3>2, <3>3, <3>6, <4>1 DEF Apart
      <4> QED
        BY <2>3, <3>6, <4>2 DEF Paste
    <3> QED
      BY <1>6, <3>4, <3>5, <3>6
  <2> QED
    BY <2>2, <2>3
<1> QED
  BY <1>7, <1>8, <1>9, <1>10 DEF IndInv

\* Reading a chunk keeps it: one more unit of the same text, or its end.
LEMMA ReadChunkKeeps ==
    ASSUME IndInv, NEW q \in Requestors, ReadChunk(q), env' = env PROVE IndInv'
<1>1. TypeOK /\ Shape /\ OwnedSeen /\ Pastes
  BY DEF IndInv
<1>2. /\ step[q] = "incr" /\ TakeProp(q)
      /\ UNCHANGED <<owned, writes, at, sends, pastes, seen>>
  BY DEF ReadChunk
<1>3. /\ prop[q] # NoProp /\ prop'[q] = NoProp /\ prop' \in [Requestors -> Props]
      /\ \A r \in Requestors : prop'[r].kind \in {"none", "INCR", "meta", "data"}
      /\ events' \in Seq(Events)
      /\ \A r \in Requestors : r # q => EventsKept(r) /\ prop'[r] = prop[r]
      /\ NoneFrom(q) => OneDeleted(q)' /\ OnlyDeleted(q)'
  BY <1>1, <1>2, Taken
<1>4. /\ step' \in [Requestors -> {"idle", "asked", "refused", "told", "incr", "done"}]
      /\ \A r \in Requestors : r # q => step'[r] = step[r]
      /\ step'[q] = IF prop[q].units = <<>> THEN "done" ELSE "incr"
  BY <1>1, <1>2 DEF ReadChunk, Shape
<1>5. /\ got' = [r \in Requestors |-> got'[r]] /\ got'[q] = got[q] \o prop[q].units
      /\ \A r \in Requestors : r # q => got'[r] = got[r]
  BY <1>1 DEF ReadChunk, Shape
<1>6. TypeOK'
  BY <1>1, <1>2, <1>3, <1>4 DEF TypeOK
<1>7. Shape'
  BY <1>1, <1>2, <1>3, <1>4, <1>5 DEF Shape
<1>8. OwnedSeen'
  BY <1>1, <1>2 DEF OwnedSeen
<1>9. Pastes'
  <2> SUFFICES ASSUME ~(env.clears /\ env.slow), NEW r \in Requestors PROVE Paste(r)'
    BY DEF Pastes
  <2>1. Paste(r)
    BY <1>1 DEF Pastes
  <2>2. CASE r # q
    BY <1>2, <1>3, <1>4, <1>5, <2>1, <2>2, PasteKept
  <2>3. CASE r = q
    <3>1. /\ NoneFrom(q) /\ ~Busy(q)
          /\ IF prop[q].units = <<>> THEN got[q] \in seen[q] /\ sends[q] = NoSend
             ELSE Ahead(q, prop[q].units)
      BY <1>2, <1>3, <2>1, <2>3 DEF Paste, Receiving
    <3>2. OneDeleted(q)' /\ OnlyDeleted(q)'
      BY <1>3, <3>1
    <3>3. ~Busy(q)' /\ ~Working(q, "register")' /\ ~Working(q, "chunk")' /\ ~Working(q, "put")'
      BY <1>2, <3>1 DEF Busy, Working
    <3>4. CASE prop[q].units = <<>>
      <4>1. got[q] \in seen[q] /\ seen[q] \subseteq AllTexts
        BY <1>1, <3>1, <3>4 DEF TypeOK
      <4>2. got[q] \in Seq(Units)
        BY <4>1, TextTypes
      <4>3. got[q] \o <<>> = got[q]
        BY <4>2
      <4>4. Apart(q)' /\ got'[q] \in seen'[q]
        BY <1>2, <1>5, <3>1, <3>2, <3>3, <3>4, <4>1, <4>3 DEF Apart, Settled
      <4> QED
        BY <1>4, <2>3, <3>4, <4>4 DEF Paste
    <3>5. CASE prop[q].units # <<>>
      <4>1. Along(q)'
        BY <1>2, <1>5, <3>1, <3>5 DEF Ahead, Along
      <4>2. Receiving(q)'
        BY <1>3, <3>2, <3>3, <4>1 DEF Receiving
      <4> QED
        BY <1>4, <2>3, <3>5, <4>2 DEF Paste
    <3> QED
      BY <3>4, <3>5
  <2> QED
    BY <2>2, <2>3
<1> QED
  BY <1>6, <1>7, <1>8, <1>9 DEF IndInv

\* Giving up keeps it.
LEMMA GiveUpKeeps ==
    ASSUME IndInv, NEW q \in Requestors, GiveUp(q), env' = env PROVE IndInv'
<1>1. TypeOK /\ Shape /\ OwnedSeen /\ Pastes
  BY DEF IndInv
<1>2. /\ env.slow /\ step[q] = "incr"
      /\ UNCHANGED <<owned, writes, events, at, sends, prop, got, pastes, seen>>
  BY DEF GiveUp
<1>3. /\ step' \in [Requestors -> {"idle", "asked", "refused", "told", "incr", "done"}]
      /\ step'[q] = "idle" /\ \A r \in Requestors : r # q => step'[r] = step[r]
  BY <1>1 DEF GiveUp, Shape
<1>4. TypeOK'
  BY <1>1, <1>2, <1>3 DEF TypeOK
<1>5. Shape'
  BY <1>1, <1>2, <1>3 DEF Shape
<1>6. OwnedSeen'
  BY <1>1, <1>2 DEF OwnedSeen
<1>7. Pastes'
  <2> SUFFICES ASSUME ~(env.clears /\ env.slow), NEW r \in Requestors PROVE Paste(r)'
    BY DEF Pastes
  <2>1. Paste(r) /\ EventsKept(r)
    BY <1>1, <1>2, SameEvents DEF Pastes
  <2>2. CASE r # q
    BY <1>2, <1>3, <2>1, <2>2, PasteKept
  <2>3. CASE r = q
    <3>1. Receiving(q)
      BY <1>2, <2>1, <2>3 DEF Paste
    <3>2. (NoneFrom(q) \/ OneDeleted(q)) /\ ~Working(q, "register")
      BY <3>1, PlaceTypes DEF Receiving, Busy, Working
    <3>3. OnlyDeleted(q)
      BY <3>2 DEF NoneFrom, OneDeleted, OnlyDeleted
    <3>4. Apart(q)'
      BY <1>2, <2>1, <2>3, <3>2, <3>3 DEF Apart, Settled, Working, EventsKept
    <3> QED
      BY <1>3, <2>3, <3>4 DEF Paste
  <2> QED
    BY <2>2, <2>3
<1> QED
  BY <1>4, <1>5, <1>6, <1>7 DEF IndInv

-----------------------------------------------------------------------------
(* The theorem.                                                            *)

\* It holds at the start: nobody pastes and nothing is sent.
LEMMA IndInvInit == Init => IndInv
<1> SUFFICES ASSUME Init PROVE IndInv
  OBVIOUS
<1>1. TypeOK
  <2>1. 0 \in 0..Len(None)
    BY DEF None
  <2> QED
    BY <2>1, Markers, ServeAssumption DEF Init, TypeOK, None
<1>2. Shape
  BY Markers DEF Init, Shape
<1>3. OwnedSeen
  BY Markers DEF Init, OwnedSeen
<1>4. ASSUME NEW r \in Requestors PROVE Paste(r)
  <2>1. OnlyDeleted(r)
    BY DEF Init, OnlyDeleted
  <2>2. ~Working(r, "register") /\ Settled(r)
    BY Markers DEF Init, Working, Settled
  <2> QED
    BY <2>1, <2>2 DEF Paste, Apart, Init
<1> QED
  BY <1>1, <1>2, <1>3, <1>4 DEF IndInv, Pastes

\* Every step keeps it.
LEMMA IndInvStep == IndInv /\ [Next]_<<env, vars>> => IndInv'
<1> SUFFICES ASSUME IndInv, [Next]_<<env, vars>> PROVE IndInv'
  OBVIOUS
<1>1. CASE Next
  <2>1. env' = env
    BY <1>1 DEF Next
  <2>2. CASE Write
    BY <2>1, <2>2, WriteKeeps
  <2>3. CASE Clear
    BY <2>1, <2>3, ClearKeeps
  <2>4. CASE EventThread
    <3>1. CASE Register
      BY <2>1, <3>1, RegisterKeeps
    <3>2. CASE NextChunk
      BY <2>1, <3>2, NextChunkKeeps
    <3>3. CASE PutChunk
      BY <2>1, <3>3, PutChunkKeeps
    <3>4. ASSUME NEW q \in Requestors, RequestOther(q) \/ Request(q) \/ Deleted(q) PROVE IndInv'
      BY <2>1, <3>4, RequestOtherKeeps, RequestKeeps, DeletedKeeps
    <3> QED
      BY <2>4, <3>1, <3>2, <3>3, <3>4 DEF EventThread
  <2>5. ASSUME NEW q \in Requestors,
               Sweep(q) \/ Ask(q) \/ ReadFirst(q) \/ ReadChunk(q) \/ GiveUp(q)
        PROVE  IndInv'
    BY <2>1, <2>5, SweepKeeps, AskKeeps, ReadFirstKeeps, ReadChunkKeeps, GiveUpKeeps
  <2> QED
    BY <1>1, <2>2, <2>3, <2>4, <2>5 DEF Next
<1>2. CASE UNCHANGED <<env, vars>>
  <2>1. /\ TypeOK /\ Shape /\ OwnedSeen /\ Pastes
        /\ UNCHANGED <<env, owned, writes, events, at, sends, prop, step, got, pastes, seen>>
    BY <1>2 DEF vars, IndInv
  <2>2. TypeOK' /\ Shape' /\ OwnedSeen'
    BY <2>1 DEF TypeOK, Shape, OwnedSeen
  <2>3. ASSUME ~(env.clears /\ env.slow), NEW r \in Requestors PROVE Paste(r)'
    <3>1. Paste(r)
      BY <2>1, <2>3 DEF Pastes
    <3> QED
      BY <2>1, <3>1, SameEvents, PasteKept
  <2> QED
    BY <2>1, <2>2, <2>3 DEF IndInv, Pastes
<1> QED
  BY <1>1, <1>2

\* So it always holds.
THEOREM IndInvAlways == Spec => []IndInv
  BY IndInvInit, IndInvStep, PTL DEF Spec

\* PastesOneText: a completed paste is one whole text that was owned while the
\* paste was under way, although the event thread reads the content twice,
\* writes chunks outside the lock and may find the transfer dropped
\* (handle_selection_request, serve_next_incr_chunk).
THEOREM PastesAreOneText == Spec => []PastesOneText
<1>1. IndInv => PastesOneText
  BY DEF IndInv, Pastes, Paste, PastesOneText
<1> QED
  BY <1>1, IndInvAlways, PTL

\* While a requestor is in a registered transfer, what it has read and what
\* is on its way is the part of one text before the offset.
THEOREM TransfersStayIntact == Spec => []TransferIntact
<1>1. IndInv => TransferIntact
  <2> SUFFICES ASSUME IndInv, ~(env.clears /\ env.slow), NEW r \in Requestors,
                      step[r] = "incr", sends[r] # NoSend
               PROVE  /\ sends[r].content \in seen[r]
                      /\ got[r] \o OnItsWay(r) = SubSeq(sends[r].content, 1, sends[r].off)
    BY DEF TransferIntact
  <2>1. Receiving(r) /\ NoProp.kind # "data"
    BY DEF IndInv, Pastes, Paste, NoProp
  <2>2. CASE prop[r] = NoProp /\ ~Working(r, "put") /\ Along(r)
    <3>1. OnItsWay(r) = <<>>
      BY <2>1, <2>2 DEF OnItsWay, Working
    <3>2. sends[r].content \in AllTexts /\ sends[r].off \in 0..Len(sends[r].content)
      BY DEF IndInv, Shape, TypeOK
    <3>3. SubSeq(sends[r].content, 1, sends[r].off) \in Seq(Units)
      <4>1. sends[r].content \in Seq(Units) /\ Len(sends[r].content) \in Nat \ {0}
        BY <3>2, TextTypes
      <4>2. 1 \in 1..(Len(sends[r].content) + 1) /\ sends[r].off \in (1 - 1)..Len(sends[r].content)
        BY <3>2, <4>1
      <4> QED
        BY <4>1, <4>2, SubSeqProperties
    <3> QED
      BY <2>2, <3>1, <3>3, ConcatEmptySeq DEF Along
  <2>3. CASE Working(r, "put") /\ Ahead(r, <<at.unit>>)
    BY <2>3 DEF OnItsWay, Ahead, Working
  <2>4. CASE ~Busy(r) /\ prop[r].kind = "data" /\ Ahead(r, prop[r].units)
    BY <2>4 DEF OnItsWay, Ahead, Busy
  <2> QED
    BY <2>1, <2>2, <2>3, <2>4 DEF Receiving, Busy, Working
<1> QED
  BY <1>1, IndInvAlways, PTL

=============================================================================
