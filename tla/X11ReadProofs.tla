--------------------------- MODULE X11ReadProofs ---------------------------
(***************************************************************************)
(* ReadIsOwnAnswer and AnswerNotDropped, for every set of readers, every   *)
(* cap and every surroundings.                                             *)
(*                                                                         *)
(* All reads share one property and one registration, and no event says    *)
(* which piece it is about.  With one reader and a prompt owner there is   *)
(* one token that wanders from the reader's request to the answer in the   *)
(* queue, to the event thread, and then, piece by piece, between the       *)
(* deletion of the property and its next value.  The inductive invariant   *)
(* says where it is (the stages below), and that whatever an earlier read  *)
(* left behind is consumed before the answer to the next one arrives.      *)
(***************************************************************************)
EXTENDS X11Read, SequenceTheorems, TLAPS

-----------------------------------------------------------------------------
(* The inductive invariant.                                                *)

\* A call under way has a number, and is made by a reader there is; nobody
\* else gets a text.
CallsKept ==
    \A r \in Readers :
        /\ pc[r] # "idle" => call[r] \in Calls /\ r \in env.readers
        /\ r \notin env.readers => outcome[r].kind # "text"

\* A registration belongs to a call that is under way.
PendingKept ==
    pending # None => \E r \in Readers : pc[r] # "idle" /\ call[r] = pending

\* With one reader, the call that waits for its answer is registered, or in
\* the event thread's hand.
StillAwaited ==
    OneReader =>
        \A r \in Readers :
            /\ pc[r] \in {"send", "wait"}
            /\ state[call[r]].st = "awaiting"
            => \/ pending = call[r]
               \/ hand.call = call[r] /\ hand.step \in {"peek", "rest", "register"}

NewValuesOnly(q) == \A i \in 1..Len(q) : q[i].kind = "newValue"
DeletedOnly(b) == \A i \in 1..Len(b) : b[i] = Deleted

\* A result that may be returned for call c.
Sound(c, result) ==
    result.kind = "text" => \E n \in env.lengths : n <= Cap /\ result.text = Text(c, n)

\* What is left of a text of n pieces after the first m.
Rest(c, m, n) == [i \in 1..(n - m) |-> <<c, m + i>>]

Idle == hand = AtRest /\ receive = NoReceive

Sending(c, m, n) == sending.call = c /\ sending.text = Rest(c, m, n)

\* The answer to call c is in the property.
Plain(c, n) == prop.type = "data" /\ prop.text = Text(c, n)
Marked(c, n) == prop.type = "incr" /\ Sending(c, 0, n)
Offered(c) == \E n \in env.lengths : Plain(c, n) \/ Marked(c, n)

\* The next piece of the transfer, or its end, is in the property.
Stocked(c, m, n) ==
    /\ prop.type = "data"
    /\ \/ m < n /\ prop.text = <<<<c, m + 1>>>> /\ Sending(c, m + 1, n)
       \/ m = n /\ prop.text = <<>>

\* It is the owner's turn, or the event thread's.
Turn(c, m, n) ==
    \/ inbox = <<Deleted>> /\ queue = <<>> /\ m <= n /\ Sending(c, m, n)
    \/ inbox = <<>> /\ queue = <<[kind |-> "newValue"]>> /\ Stocked(c, m, n)

\* The stages of call c.
Quiet == Idle /\ NewValuesOnly(queue) /\ DeletedOnly(inbox)

Asked(c) ==
    /\ Idle /\ pending = c /\ NewValuesOnly(queue)
    /\ Len(inbox) > 0 /\ inbox[Len(inbox)] = c
    /\ \A i \in 1..(Len(inbox) - 1) : inbox[i] = Deleted

Answered(c) ==
    /\ Idle /\ pending = c /\ inbox = <<>>
    /\ Len(queue) > 0
    /\ queue[Len(queue)].kind = "refused" \/ (queue[Len(queue)].kind = "notify" /\ Offered(c))
    /\ \A i \in 1..(Len(queue) - 1) : queue[i].kind = "newValue"

InHand(c, stp) == hand.step = stp /\ hand.call = c /\ queue = <<>> /\ inbox = <<>>

Peeking(c) == InHand(c, "peek") /\ receive = NoReceive /\ Offered(c)

ReadingRest(c) ==
    /\ InHand(c, "rest") /\ receive = NoReceive /\ hand.acc = <<<<c, 1>>>>
    /\ \E n \in env.lengths : n \in 2..Cap /\ Plain(c, n)

Registering(c) ==
    InHand(c, "register") /\ receive = NoReceive /\ \E n \in env.lengths : Marked(c, n)

Unmarking(c) ==
    /\ InHand(c, "unmark") /\ receive.call = c /\ receive.acc = Text(c, 0)
    /\ \E n \in env.lengths : Marked(c, n)

Transfer(c, k, n) ==
    /\ receive.call = c /\ receive.acc = Text(c, k)
    /\ \/ hand = AtRest /\ Turn(c, k, n)
       \/ hand.step = "chunk" /\ queue = <<>> /\ inbox = <<>> /\ Stocked(c, k, n)
       \/ hand.step = "append" /\ hand.acc = <<<<c, k + 1>>>> /\ Turn(c, k + 1, n)
       \/ /\ hand.step = "append" /\ hand.acc = <<>> /\ k = n
          /\ NewValuesOnly(queue) /\ DeletedOnly(inbox)

Receiving(c) == \E n \in env.lengths, k \in 0..Cap : Transfer(c, k, n)

\* Where the only reader is.
Stages(r) ==
    /\ call[r] = reads /\ ~sweep
    /\ \A c \in Calls : c > reads => state[c].st = "awaiting"
    /\ pc[r] \in {"idle", "drop"} =>
          Quiet /\ Sound(call[r], outcome[r])
    /\ pc[r] = "send" =>
          Quiet /\ pending = call[r] /\ state[call[r]].st = "awaiting"
    /\ pc[r] = "wait" /\ state[call[r]].st = "done" =>
          Quiet /\ Sound(call[r], state[call[r]].result)
    /\ pc[r] = "wait" /\ state[call[r]].st = "awaiting" =>
          \/ Asked(call[r]) \/ Answered(call[r]) \/ Peeking(call[r])
          \/ ReadingRest(call[r]) \/ Registering(call[r])
    /\ pc[r] = "wait" /\ state[call[r]].st = "incr" =>
          Unmarking(call[r]) \/ Receiving(call[r])

LoneReader ==
    \A r \in Readers : env.readers = {r} /\ ~env.slow => Stages(r)

IndInv == TypeOK /\ CallsKept /\ PendingKept /\ StillAwaited /\ LoneReader

-----------------------------------------------------------------------------
(* Sequences and pieces.                                                   *)

\* What Append does.
LEMMA Appended ==
    ASSUME NEW S, NEW q \in Seq(S), NEW e \in S
    PROVE  /\ Append(q, e) \in Seq(S) /\ Append(q, e) = q \o <<e>>
           /\ Len(q) \in Nat /\ Len(Append(q, e)) = Len(q) + 1
           /\ \A i \in 1..Len(q) : Append(q, e)[i] = q[i]
           /\ Append(q, e)[Len(q) + 1] = e
  BY AppendProperties, AppendIsConcat

\* What Head and Tail are.
LEMMA Tailed ==
    ASSUME NEW S, NEW q \in Seq(S), q # <<>>
    PROVE  /\ Tail(q) \in Seq(S) /\ Head(q) \in S
           /\ Len(q) \in Nat \ {0} /\ Len(Tail(q)) = Len(q) - 1
           /\ Head(q) = q[1]
           /\ \A i \in 1..(Len(q) - 1) : Tail(q)[i] = q[i + 1]
  BY HeadTailProperties

\* Every part of a text is a sequence of pieces.
LEMMA RestSeq ==
    ASSUME NEW c \in Calls, NEW n \in Nat, NEW m \in 0..n
    PROVE  /\ Rest(c, m, n) \in Seq(Piece) /\ Len(Rest(c, m, n)) = n - m
           /\ \A i \in 1..(n - m) : Rest(c, m, n)[i] = <<c, m + i>>
<1>1. n - m \in Nat
  OBVIOUS
<1>2. \A i \in 1..(n - m) : <<c, m + i>> \in Piece
  BY DEF Piece
<1>3. Rest(c, m, n) \in [1..(n - m) -> Piece]
  BY <1>2 DEF Rest
<1> QED
  BY <1>1, <1>3 DEF Rest

\* The whole text is what is left before the first piece.
LEMMA TextIsRest ==
    ASSUME NEW c \in Calls, NEW n \in Nat
    PROVE  /\ Text(c, n) = Rest(c, 0, n) /\ Text(c, n) \in Seq(Piece)
           /\ Len(Text(c, n)) = n /\ \A i \in 1..n : Text(c, n)[i] = <<c, i>>
<1>1. Text(c, n) = Rest(c, 0, n)
  BY DEF Text, Rest
<1>2. Text(c, n) \in Seq(Piece) /\ Len(Text(c, n)) = n
  BY <1>1, RestSeq
<1> QED
  BY <1>1, <1>2 DEF Text

\* A single piece.
LEMMA OnePiece ==
    ASSUME NEW c \in Calls, NEW k \in Nat
    PROVE  /\ <<c, k>> \in Piece /\ <<<<c, k>>>> \in Seq(Piece) /\ Len(<<<<c, k>>>>) = 1
           /\ <<<<c, k>>>>[1] = <<c, k>> /\ <<<<c, k>>>> # <<>>
  BY DEF Piece

\* Taking the next piece of a text.
LEMMA RestTail ==
    ASSUME NEW c \in Calls, NEW n \in Nat, NEW m \in 0..n
    PROVE  /\ m = n => Rest(c, m, n) = <<>>
           /\ m < n => /\ Rest(c, m, n) # <<>>
                       /\ SubSeq(Rest(c, m, n), 1, 1) = <<<<c, m + 1>>>>
                       /\ Tail(Rest(c, m, n)) = Rest(c, m + 1, n)
<1> DEFINE s == Rest(c, m, n)
<1>1. /\ s \in Seq(Piece) /\ Len(s) = n - m
      /\ \A i \in 1..(n - m) : s[i] = <<c, m + i>>
  BY RestSeq
<1> HIDE DEF s
<1>2. m = n => s = <<>>
  BY <1>1, EmptySeq
<1>3. ASSUME m < n PROVE s # <<>>
  BY <1>1, <1>3
<1>4. ASSUME m < n PROVE SubSeq(s, 1, 1) = <<<<c, m + 1>>>>
  <2>1. s[1] = <<c, m + 1>> /\ s[1] \in Piece
    BY <1>1, <1>4, OnePiece
  <2>2. /\ SubSeq(s, 1, 1) \in Seq(Piece) /\ Len(SubSeq(s, 1, 1)) = 1
        /\ SubSeq(s, 1, 1)[1] = s[1]
    BY <2>1, SubSeqProperties
  <2>3. m + 1 \in Nat
    OBVIOUS
  <2>4. /\ <<<<c, m + 1>>>> \in Seq(Piece) /\ Len(<<<<c, m + 1>>>>) = 1
        /\ <<<<c, m + 1>>>>[1] = <<c, m + 1>>
    BY <2>3, OnePiece
  <2>5. \A i \in 1..Len(SubSeq(s, 1, 1)) : SubSeq(s, 1, 1)[i] = <<<<c, m + 1>>>>[i]
    BY <2>1, <2>2, <2>4
  <2> HIDE DEF s
  <2> QED
    BY <2>2, <2>4, <2>5, SeqEqual
<1>5. ASSUME m < n PROVE Tail(s) = Rest(c, m + 1, n)
  <2>1. /\ Tail(s) \in Seq(Piece) /\ Len(Tail(s)) = n - (m + 1)
        /\ \A i \in 1..(n - (m + 1)) : Tail(s)[i] = s[i + 1]
    BY <1>1, <1>3, <1>5, Tailed
  <2>2. m + 1 \in 0..n
    BY <1>5
  <2>3. /\ Rest(c, m + 1, n) \in Seq(Piece) /\ Len(Rest(c, m + 1, n)) = n - (m + 1)
        /\ \A i \in 1..(n - (m + 1)) : Rest(c, m + 1, n)[i] = <<c, (m + 1) + i>>
    BY <2>2, RestSeq
  <2>4. \A i \in 1..(n - (m + 1)) : Tail(s)[i] = Rest(c, m + 1, n)[i]
    <3> SUFFICES ASSUME NEW i \in 1..(n - (m + 1)) PROVE Tail(s)[i] = Rest(c, m + 1, n)[i]
      OBVIOUS
    <3>1. i + 1 \in 1..(n - m) /\ m + (i + 1) = (m + 1) + i
      OBVIOUS
    <3> QED
      BY <1>1, <2>1, <2>3, <3>1
  <2> QED
    BY <2>1, <2>3, <2>4, SeqEqual
<1> QED
  BY <1>2, <1>3, <1>4, <1>5 DEF s

\* Adding the next piece to what was received.
LEMMA TextGrows ==
    ASSUME NEW c \in Calls, NEW k \in Nat
    PROVE  Text(c, k) \o <<<<c, k + 1>>>> = Text(c, k + 1)
<1> DEFINE s == Text(c, k)
           t == Text(c, k + 1)
           p == <<<<c, k + 1>>>>
<1>1. k + 1 \in Nat
  OBVIOUS
<1>2. s \in Seq(Piece) /\ Len(s) = k /\ \A i \in 1..k : s[i] = <<c, i>>
  BY TextIsRest
<1>3. t \in Seq(Piece) /\ Len(t) = k + 1 /\ \A i \in 1..(k + 1) : t[i] = <<c, i>>
  BY <1>1, TextIsRest
<1>4. p \in Seq(Piece) /\ Len(p) = 1 /\ p[1] = <<c, k + 1>>
  BY <1>1, OnePiece
<1> DEFINE u == s \o p
<1> HIDE DEF s, t, p
<1>5. /\ u \in Seq(Piece) /\ Len(u) = Len(s) + Len(p)
      /\ \A i \in 1..(Len(s) + Len(p)) :
            u[i] = IF i <= Len(s) THEN s[i] ELSE p[i - Len(s)]
  BY <1>2, <1>4, ConcatProperties
<1> HIDE DEF u
<1>6. /\ u \in Seq(Piece) /\ Len(u) = k + 1
      /\ \A i \in 1..(k + 1) : u[i] = IF i <= k THEN s[i] ELSE p[i - k]
  BY <1>5, <1>2, <1>4
<1>7. \A i \in 1..(k + 1) : u[i] = t[i]
  <2> SUFFICES ASSUME NEW i \in 1..(k + 1) PROVE u[i] = t[i]
    OBVIOUS
  <2>1. CASE i <= k
    <3>1. i \in 1..k
      BY <2>1
    <3>2. u[i] = s[i] /\ s[i] = <<c, i>> /\ t[i] = <<c, i>>
      BY <1>2, <1>3, <1>6, <2>1, <3>1
    <3> QED
      BY <3>2
  <2>2. CASE i = k + 1
    <3>1. i - k = 1 /\ ~(i <= k)
      BY <2>2
    <3> QED
      BY <1>3, <1>4, <1>6, <2>2, <3>1
  <2> QED
    BY <2>1, <2>2
<1>8. u = t
  BY <1>3, <1>6, <1>7, SeqEqual
<1> QED
  BY <1>8 DEF s, t, p, u

\* A text read in two pieces.
LEMMA TextInTwo ==
    ASSUME NEW c \in Calls, NEW n \in Nat \ {0}
    PROVE  /\ SubSeq(Text(c, n), 1, 1) = <<<<c, 1>>>>
           /\ <<<<c, 1>>>> \o SubSeq(Text(c, n), 2, Len(Text(c, n))) = Text(c, n)
<1> DEFINE s == Text(c, n)
<1>1. s = Rest(c, 0, n) /\ s \in Seq(Piece) /\ Len(s) = n /\ s[1] = <<c, 1>>
  BY TextIsRest
<1>2. SubSeq(s, 1, 1) = <<<<c, 1>>>>
  <2>1. 0 \in 0..n /\ 0 < n /\ 0 + 1 = 1
    OBVIOUS
  <2>2. SubSeq(Rest(c, 0, n), 1, 1) = <<<<c, 0 + 1>>>>
    BY <2>1, RestTail
  <2> QED
    BY <1>1, <2>1, <2>2
<1>3. 1 \in 1..Len(s) /\ n \in 1..Len(s)
  BY <1>1
<1> HIDE DEF s
<1>4. SubSeq(s, 1, n) = <<s[1]>> \o SubSeq(s, 2, n)
  <2>1. SubSeq(s, 1, n) = <<s[1]>> \o SubSeq(s, 1 + 1, n)
    BY <1>1, <1>3, SubSeqRecursiveFirst, Zenon
  <2>2. 1 + 1 = 2
    OBVIOUS
  <2> QED
    BY <2>1, <2>2, Zenon
<1>5. SubSeq(s, 1, n) = s
  BY <1>1, SubSeqFull
<1>6. <<<<c, 1>>>> \o SubSeq(s, 2, Len(s)) = s
  BY <1>1, <1>4, <1>5, Zenon
<1> QED
  BY <1>2, <1>6, Zenon DEF s

-----------------------------------------------------------------------------
(* Types.                                                                  *)

States == [st : {"awaiting", "incr", "done"}, result : Result]
Hands == [step : {"poll", "peek", "rest", "register", "unmark", "chunk", "append"},
          call : Calls \cup {None}, acc : Seq(Piece)]
Props == [type : {"absent", "incr", "data"}, text : Seq(Piece), hint : Nat]
Transfers == [call : Calls \cup {None}, text : Seq(Piece)]

\* The surroundings are well formed.
LEMMA EnvType ==
    ASSUME TypeOK
    PROVE  /\ env.readers \subseteq Readers /\ env.lengths \subseteq Nat \ {0}
           /\ env.reads \in 0..MaxReads /\ MaxReads \in Nat /\ Cap \in Nat \ {0}
  BY ReadAssumption DEF TypeOK

\* Results and empty slots are what they should be.
LEMMA ResultTypes ==
    /\ Nothing \in Result /\ Err \in Result
    /\ \A t \in Seq(Piece) : Ok(t) \in Result
    /\ Nothing.kind # "text" /\ Err.kind # "text"
    /\ \A t : Ok(t).kind = "text" /\ Ok(t).text = t
  BY DEF Nothing, Err, Ok, Result

\* The empty slots have the types of full ones.
LEMMA EmptyTypes ==
    /\ AtRest \in Hands /\ AtRest.step = "poll" /\ AtRest.call = None /\ AtRest.acc = <<>>
    /\ NoProp \in Props /\ NoProp.type = "absent"
    /\ NoSend \in Transfers /\ NoSend.call = None
    /\ NoReceive \in [call : Calls \cup {None}, acc : Seq(Piece)] /\ NoReceive.call = None
    /\ None \notin Calls
  BY DEF AtRest, NoProp, NoSend, NoReceive, Hands, Props, Transfers, Calls, None

\* Completing a call.
LEMMA Completed ==
    ASSUME TypeOK, NEW c, NEW result \in Result, Complete(c, result)
    PROVE  /\ state' \in [Calls -> States]
           /\ \A d \in Calls : d # c => state'[d] = state[d]
           /\ c \in Calls => state'[c].st = "done" /\ state'[c].result = result
<1>1. [st |-> "done", result |-> result] \in States
  BY DEF States
<1>2. state \in [Calls -> States]
  BY DEF TypeOK, States
<1> QED
  BY <1>1, <1>2 DEF Complete

\* Delivering a text to a call.
LEMMA Delivered ==
    ASSUME TypeOK, NEW c, NEW t \in Seq(Piece), Deliver(c, t)
    PROVE  \E result \in Result :
               /\ Complete(c, result)
               /\ result.kind = "text" => result.text = t
  BY ResultTypes DEF Deliver

\* Deleting the property.
LEMMA Deletion ==
    ASSUME TypeOK, DeleteProp
    PROVE  /\ prop' \in Props /\ inbox' \in Seq(Calls \cup {Deleted})
           /\ inbox' = inbox \/ inbox' = Append(inbox, Deleted)
           /\ prop # NoProp => inbox' = Append(inbox, Deleted)
<1>1. inbox \in Seq(Calls \cup {Deleted}) /\ Deleted \in Calls \cup {Deleted}
  BY DEF TypeOK
<1>2. Append(inbox, Deleted) \in Seq(Calls \cup {Deleted})
  BY <1>1, Appended
<1> QED
  BY <1>1, <1>2, EmptyTypes DEF DeleteProp

\* The owner's change of the property.
LEMMA PutEffect ==
    ASSUME TypeOK, NEW p \in Props, NEW more \in Seq(Events), Put(p, more)
    PROVE  /\ prop' = p /\ queue' \in Seq(Events)
           /\ Len(queue) \in Nat /\ Len(more) \in Nat
           /\ Len(queue') = Len(queue) + 1 + Len(more)
           /\ \A i \in 1..Len(queue) : queue'[i] = queue[i]
           /\ queue'[Len(queue) + 1] = [kind |-> "newValue"]
           /\ \A i \in 1..Len(more) : queue'[Len(queue) + 1 + i] = more[i]
<1> DEFINE e == [kind |-> "newValue"]
           q == Append(queue, e)
<1>1. e \in Events /\ queue \in Seq(Events)
  BY DEF Events, TypeOK
<1>2. /\ q \in Seq(Events) /\ q = queue \o <<e>>
      /\ Len(queue) \in Nat /\ Len(q) = Len(queue) + 1
      /\ \A i \in 1..Len(queue) : q[i] = queue[i]
      /\ q[Len(queue) + 1] = e
  BY <1>1, Appended
<1>3. queue' = (queue \o <<e>>) \o more /\ prop' = p
  BY DEF Put
<1> HIDE DEF e, q
<1>4. queue' = q \o more
  BY <1>2, <1>3
<1> DEFINE z == q \o more
<1>5. /\ z \in Seq(Events) /\ Len(z) = Len(q) + Len(more)
      /\ \A i \in 1..(Len(q) + Len(more)) :
            z[i] = IF i <= Len(q) THEN q[i] ELSE more[i - Len(q)]
      /\ Len(more) \in Nat
  BY <1>2, ConcatProperties, LenProperties
<1> HIDE DEF z
<1>6. queue' = z
  BY <1>4 DEF z
<1>7. \A i \in 1..(Len(queue) + 1) : z[i] = q[i]
  BY <1>2, <1>5
<1>8. \A i \in 1..Len(queue) : z[i] = queue[i]
  BY <1>2, <1>7
<1>9. z[Len(queue) + 1] = e
  BY <1>2, <1>7
<1>10. ASSUME NEW i \in 1..Len(more) PROVE z[Len(queue) + 1 + i] = more[i]
  <2>1. /\ Len(queue) + 1 + i \in 1..(Len(q) + Len(more))
        /\ ~(Len(queue) + 1 + i <= Len(q)) /\ (Len(queue) + 1 + i) - Len(q) = i
    BY <1>2, <1>5
  <2> QED
    BY <1>5, <2>1
<1>11. Len(z) = Len(queue) + 1 + Len(more)
  BY <1>2, <1>5
<1> QED
  BY <1>2, <1>3, <1>5, <1>6, <1>8, <1>9, <1>10, <1>11 DEF e

-----------------------------------------------------------------------------
(* The stage a lone reader is in.                                          *)

\* What the event thread has in hand tells the stage.
LEMMA StageInHand ==
    ASSUME TypeOK, CallsKept, NEW r \in Readers, Stages(r), hand.step # "poll"
    PROVE  /\ pc[r] = "wait" /\ call[r] \in Calls
           /\ hand.step \in {"peek", "rest", "register"} => state[call[r]].st = "awaiting"
           /\ hand.step \in {"unmark", "chunk", "append"} => state[call[r]].st = "incr"
           /\ hand.step = "peek" => Peeking(call[r])
           /\ hand.step = "rest" => ReadingRest(call[r])
           /\ hand.step = "register" => Registering(call[r])
           /\ hand.step = "unmark" => Unmarking(call[r])
           /\ hand.step \in {"chunk", "append"} => Receiving(call[r])
<1>1. hand # AtRest
  BY EmptyTypes
<1>2. ~Idle /\ ~Quiet /\ ~Asked(call[r]) /\ ~Answered(call[r])
  BY <1>1 DEF Idle, Quiet, Asked, Answered
<1>3. pc[r] = "wait"
  BY <1>2 DEF Stages, TypeOK
<1>4. call[r] \in Calls
  BY <1>3 DEF CallsKept
<1>5. state[call[r]].st \in {"awaiting", "incr"}
  BY <1>2, <1>3, <1>4 DEF Stages, TypeOK
<1>6. CASE state[call[r]].st = "awaiting"
  <2>1. Peeking(call[r]) \/ ReadingRest(call[r]) \/ Registering(call[r])
    BY <1>2, <1>3, <1>6 DEF Stages
  <2> QED
    BY <1>3, <1>4, <1>6, <2>1 DEF Peeking, ReadingRest, Registering, InHand
<1>7. CASE state[call[r]].st = "incr"
  <2>1. Unmarking(call[r]) \/ Receiving(call[r])
    BY <1>3, <1>7 DEF Stages
  <2>2. Receiving(call[r]) => hand.step \in {"chunk", "append"}
    BY <1>1 DEF Receiving, Transfer
  <2> QED
    BY <1>3, <1>4, <1>7, <2>1, <2>2 DEF Unmarking, InHand
<1> QED
  BY <1>5, <1>6, <1>7

\* While no transfer is under way and the event thread is at rest, what
\* waits in the queue is old or the answer.
LEMMA StageAtRest ==
    ASSUME TypeOK, CallsKept, NEW r \in Readers, Stages(r), hand = AtRest
    PROVE  \/ Quiet
           \/ pc[r] = "wait" /\ state[call[r]].st = "awaiting" /\ Asked(call[r])
           \/ pc[r] = "wait" /\ state[call[r]].st = "awaiting" /\ Answered(call[r])
           \/ pc[r] = "wait" /\ state[call[r]].st = "incr" /\ Receiving(call[r])
<1>1. hand.step = "poll"
  BY EmptyTypes
<1>2. CASE pc[r] # "wait"
  BY <1>2 DEF Stages, TypeOK
<1>3. CASE pc[r] = "wait"
  <2>1. call[r] \in Calls
    BY <1>3 DEF CallsKept
  <2>2. state[call[r]].st \in {"awaiting", "incr", "done"}
    BY <2>1 DEF TypeOK
  <2>3. ~Peeking(call[r]) /\ ~ReadingRest(call[r]) /\ ~Registering(call[r]) /\ ~Unmarking(call[r])
    BY <1>1 DEF Peeking, ReadingRest, Registering, Unmarking, InHand
  <2> QED
    BY <1>3, <2>2, <2>3 DEF Stages
<1> QED
  BY <1>2, <1>3

\* A call that completes with a sound result leaves nothing but old events.
LEMMA Finishes ==
    ASSUME TypeOK, CallsKept, NEW r \in Readers, Stages(r), pc[r] = "wait",
           NEW result \in Result, Complete(call[r], result), Sound(call[r], result),
           hand' = AtRest, receive' = NoReceive,
           NewValuesOnly(queue'), DeletedOnly(inbox'),
           UNCHANGED <<env, readerVars, sweep>>
    PROVE  Stages(r)'
<1> USE DEF readerVars
<1>1. call[r] \in Calls /\ call[r] = reads
  BY DEF CallsKept, Stages
<1>2. /\ state'[call[r]].st = "done" /\ state'[call[r]].result = result
      /\ \A d \in Calls : d # call[r] => state'[d] = state[d]
  BY <1>1, Completed
<1>3. Quiet'
  BY DEF Quiet, Idle
<1>4. Sound(call[r], result)'
  BY DEF Sound
<1>5. \A d \in Calls : d > reads => state'[d].st = "awaiting"
  <2> SUFFICES ASSUME NEW d \in Calls, d > reads PROVE state'[d].st = "awaiting"
    OBVIOUS
  <2>1. d # call[r]
    BY <1>1 DEF Calls
  <2> QED
    BY <1>2, <2>1 DEF Stages
<1> QED
  BY <1>2, <1>3, <1>4, <1>5 DEF Stages, Sound

\* Errors and refusals are sound.
LEMMA ErrorsSound == \A c : Sound(c, Err) /\ Sound(c, Nothing)
  BY ResultTypes DEF Sound

-----------------------------------------------------------------------------
(* Steps of the readers.                                                   *)

\* A read that begins keeps it: its call is new.
LEMMA BeginReadKeeps ==
    ASSUME IndInv, NEW q \in Readers, BeginRead(q), env' = env PROVE IndInv'
<1> USE DEF BeginRead, ownerVars
<1>1. TypeOK /\ q \in env.readers /\ reads + 1 \in Calls /\ reads \in Nat /\ reads' \in 0..MaxReads
  <2>1. TypeOK
    BY DEF IndInv
  <2>2. env.reads \in 0..MaxReads /\ MaxReads \in Nat
    BY <2>1, EnvType
  <2>3. reads \in 0..MaxReads
    BY <2>1 DEF TypeOK
  <2> QED
    BY <2>1, <2>2, <2>3 DEF Calls
<1>2. TypeOK'
  <2>1. pc' \in [Readers -> {"idle", "send", "wait", "drop"}]
    BY <1>1 DEF TypeOK
  <2>2. call' \in [Readers -> Calls \cup {None}]
    BY <1>1 DEF TypeOK
  <2>3. outcome' \in [Readers -> Result]
    BY <1>1, ResultTypes DEF TypeOK
  <2>4. pending' \in Calls \cup {None}
    BY <1>1 DEF TypeOK
  <2> QED
    BY <1>1, <2>1, <2>2, <2>3, <2>4 DEF TypeOK
<1>3. /\ call'[q] = reads + 1 /\ pc'[q] \in {"idle", "send"}
      /\ \A r \in Readers : r # q =>
            call'[r] = call[r] /\ pc'[r] = pc[r] /\ outcome'[r] = outcome[r]
  BY <1>1 DEF TypeOK
<1>4. pc'[q] = "send" => pending' = call'[q]
  BY <1>1, <1>3 DEF TypeOK
<1>5. CallsKept'
  BY <1>1, <1>3 DEF IndInv, CallsKept
<1>6. PendingKept'
  <2>1. CASE pending # None
    BY <1>3, <2>1 DEF IndInv, PendingKept
  <2>2. CASE pending = None
    <3>1. pending' = reads + 1 /\ pc'[q] = "send"
      BY <1>1, <2>2 DEF TypeOK
    <3> QED
      BY <1>3, <3>1 DEF PendingKept
  <2> QED
    BY <2>1, <2>2
<1>7. StillAwaited'
  <2> SUFFICES ASSUME OneReader, NEW r \in Readers, pc'[r] \in {"send", "wait"}
               PROVE  pending' = call'[r]
    BY DEF StillAwaited, OneReader
  <2>1. r = q
    BY <1>1, <1>3 DEF IndInv, CallsKept, OneReader
  <2> QED
    BY <1>3, <1>4, <2>1
<1>8. LoneReader'
  <2> SUFFICES ASSUME NEW r \in Readers, env.readers = {r}, ~env.slow PROVE Stages(r)'
    BY DEF LoneReader
  <2>1. Stages(r) /\ r = q
    BY <1>1 DEF IndInv, LoneReader
  <2>2. Quiet
    BY <2>1 DEF Stages
  <2>3. Quiet'
    BY <2>2 DEF Quiet, Idle
  <2>4. state'[reads + 1].st = "awaiting" /\ \A d \in Calls : d > reads' => state'[d].st = "awaiting"
    BY <1>1, <2>1 DEF Stages, Calls
  <2>5. pc'[q] = "idle" => outcome'[q] = Err
    BY <1>1, <1>3 DEF TypeOK
  <2>6. pc'[r] = "idle" => Sound(call[r], outcome[r])'
    BY <2>1, <2>5, ResultTypes DEF Sound
  <2>7. call'[r] = reads' /\ ~sweep'
    BY <1>3, <2>1 DEF Stages
  <2>8. pc'[r] = "send" => pending' = call'[r] /\ state'[call'[r]].st = "awaiting"
    BY <1>3, <1>4, <2>1, <2>4
  <2> QED
    BY <1>3, <2>1, <2>3, <2>4, <2>6, <2>7, <2>8 DEF Stages
<1> QED
  BY <1>2, <1>5, <1>6, <1>7, <1>8 DEF IndInv

\* The request is the last thing in the owner's inbox.
LEMMA SendConvertKeeps ==
    ASSUME IndInv, NEW q \in Readers, SendConvert(q), env' = env PROVE IndInv'
<1> USE DEF SendConvert
<1>1. TypeOK /\ pc[q] = "send" /\ call[q] \in Calls
  BY DEF IndInv, CallsKept
<1>2. /\ Append(inbox, call[q]) \in Seq(Calls \cup {Deleted})
      /\ Len(inbox) \in Nat /\ Len(Append(inbox, call[q])) = Len(inbox) + 1
      /\ \A i \in 1..Len(inbox) : Append(inbox, call[q])[i] = inbox[i]
      /\ Append(inbox, call[q])[Len(inbox) + 1] = call[q]
  <2>1. inbox \in Seq(Calls \cup {Deleted}) /\ call[q] \in Calls \cup {Deleted}
    BY <1>1 DEF TypeOK
  <2> QED
    BY <2>1, Appended
<1>3. TypeOK'
  <2>1. pc' \in [Readers -> {"idle", "send", "wait", "drop"}]
    <3>1. pc \in [Readers -> {"idle", "send", "wait", "drop"}]
      BY <1>1 DEF TypeOK
    <3>2. pc' = [pc EXCEPT ![q] = "wait"] \/ pc' = [pc EXCEPT ![q] = "drop"]
      OBVIOUS
    <3> QED
      BY <3>1, <3>2
  <2>2. outcome' \in [Readers -> Result]
    BY <1>1, ResultTypes DEF TypeOK
  <2>3. inbox' \in Seq(Calls \cup {Deleted})
    BY <1>1, <1>2 DEF TypeOK
  <2> QED
    BY <1>1, <2>1, <2>2, <2>3 DEF TypeOK
<1>4. /\ pc'[q] \in {"wait", "drop"}
      /\ \A r \in Readers : r # q => pc'[r] = pc[r] /\ outcome'[r] = outcome[r]
      /\ pc'[q] = "wait" => inbox' = Append(inbox, call[q])
      /\ pc'[q] = "drop" => inbox' = inbox /\ outcome'[q] = Err
  BY <1>1 DEF TypeOK
<1>5. CallsKept' /\ PendingKept' /\ StillAwaited'
  <2>1. CallsKept'
    BY <1>1, <1>4 DEF IndInv, CallsKept
  <2>2. PendingKept'
    BY <1>1, <1>4 DEF IndInv, PendingKept
  <2>3. StillAwaited'
    BY <1>1, <1>4 DEF IndInv, StillAwaited, OneReader
  <2> QED
    BY <2>1, <2>2, <2>3
<1>6. LoneReader'
  <2> SUFFICES ASSUME NEW r \in Readers, env.readers = {r}, ~env.slow PROVE Stages(r)'
    BY DEF LoneReader
  <2>1. Stages(r) /\ r = q
    BY <1>1 DEF IndInv, LoneReader, CallsKept
  <2>2. Quiet /\ pending = call[q] /\ state[call[q]].st = "awaiting"
    BY <1>1, <2>1 DEF Stages
  <2>3. CASE pc'[q] = "wait"
    <3>1. Asked(call[q])'
      BY <1>2, <1>4, <2>2, <2>3 DEF Asked, Quiet, Idle, NewValuesOnly, DeletedOnly
    <3> QED
      BY <2>1, <2>2, <2>3, <3>1 DEF Stages
  <2>4. CASE pc'[q] = "drop"
    <3>1. Quiet'
      BY <1>4, <2>2, <2>4 DEF Quiet, Idle
    <3>2. Sound(call[r], outcome[r])'
      BY <1>4, <2>1, <2>4, ResultTypes DEF Sound
    <3> QED
      BY <2>1, <2>2, <2>4, <3>1, <3>2 DEF Stages
  <2> QED
    BY <1>4, <2>3, <2>4
<1> QED
  BY <1>3, <1>5, <1>6 DEF IndInv

\* Taking the result keeps it.
LEMMA TakeResultKeeps ==
    ASSUME IndInv, NEW q \in Readers, TakeResult(q), env' = env PROVE IndInv'
<1> USE DEF TakeResult, ownerVars
<1>1. TypeOK /\ pc[q] = "wait" /\ call[q] \in Calls
  BY DEF IndInv, CallsKept
<1>2. /\ state' \in [Calls -> States] /\ state[call[q]].result \in Result
      /\ \A d \in Calls : state'[d].st = state[d].st
  BY <1>1, ResultTypes DEF TypeOK, States
<1>3. TypeOK'
  BY <1>1, <1>2 DEF TypeOK, States
<1>4. /\ pc'[q] = "drop" /\ \A r \in Readers : r # q => pc'[r] = pc[r]
      /\ outcome'[q] = state[call[q]].result
  BY <1>1 DEF TypeOK
<1>5. CallsKept' /\ PendingKept'
  BY <1>1, <1>4 DEF IndInv, CallsKept, PendingKept
<1>6. StillAwaited'
  BY <1>2, <1>4 DEF IndInv, CallsKept, StillAwaited, OneReader
<1>7. LoneReader'
  <2> SUFFICES ASSUME NEW r \in Readers, env.readers = {r}, ~env.slow PROVE Stages(r)'
    BY DEF LoneReader
  <2>1. Stages(r) /\ r = q
    BY <1>1 DEF IndInv, LoneReader, CallsKept
  <2>2. Quiet /\ Sound(call[q], state[call[q]].result)
    BY <1>1, <2>1 DEF Stages
  <2>3. Quiet'
    BY <2>2 DEF Quiet, Idle
  <2>4. Sound(call[r], outcome[r])'
    BY <1>4, <2>1, <2>2 DEF Sound
  <2> QED
    BY <1>2, <1>4, <2>1, <2>3, <2>4 DEF Stages
<1> QED
  BY <1>3, <1>5, <1>6, <1>7 DEF IndInv

\* A time-out keeps it; a prompt owner causes none.
LEMMA TimeOutKeeps ==
    ASSUME IndInv, NEW q \in Readers, TimeOut(q), env' = env PROVE IndInv'
<1> USE DEF TimeOut, ownerVars
<1>1. TypeOK /\ pc[q] = "wait" /\ env.slow
  BY DEF IndInv
<1>2. TypeOK'
  BY <1>1, ResultTypes DEF TypeOK
<1>3. pc'[q] = "drop" /\ \A r \in Readers : r # q => pc'[r] = pc[r]
  BY <1>1 DEF TypeOK
<1>4. CallsKept' /\ PendingKept' /\ StillAwaited' /\ LoneReader'
  BY <1>1, <1>3
     DEF IndInv, CallsKept, PendingKept, StillAwaited, OneReader, LoneReader
<1> QED
  BY <1>2, <1>4 DEF IndInv

\* Leaving keeps it: no other call can be registered meanwhile.
LEMMA UnregisterKeeps ==
    ASSUME IndInv, NEW q \in Readers, Unregister(q), env' = env PROVE IndInv'
<1> USE DEF Unregister, ownerVars
<1>1. TypeOK /\ pc[q] = "drop"
  BY DEF IndInv
<1>2. TypeOK'
  BY <1>1 DEF TypeOK
<1>3. pc'[q] = "idle" /\ \A r \in Readers : r # q => pc'[r] = pc[r]
  BY <1>1 DEF TypeOK
<1>4. CallsKept' /\ PendingKept'
  BY <1>3 DEF IndInv, CallsKept, PendingKept
<1>5. StillAwaited'
  BY <1>1, <1>3 DEF IndInv, CallsKept, StillAwaited, OneReader
<1>6. LoneReader'
  <2> SUFFICES ASSUME NEW r \in Readers, env.readers = {r}, ~env.slow PROVE Stages(r)'
    BY DEF LoneReader
  <2>1. Stages(r) /\ r = q
    BY <1>1 DEF IndInv, LoneReader, CallsKept
  <2>2. Quiet /\ Sound(call[q], outcome[q])
    BY <1>1, <2>1 DEF Stages
  <2>3. Quiet'
    BY <2>2 DEF Quiet, Idle
  <2>4. Sound(call[r], outcome[r])'
    BY <2>1, <2>2 DEF Sound
  <2> QED
    BY <1>3, <2>1, <2>3, <2>4 DEF Stages
<1> QED
  BY <1>2, <1>4, <1>5, <1>6 DEF IndInv

-----------------------------------------------------------------------------
(* Steps of the event thread.                                              *)

\* Whoever is not a reader keeps the calls and does not register any.
LEMMA ReadersApart ==
    ASSUME IndInv, UNCHANGED <<env, readerVars>>, pending' = pending \/ pending' = None
    PROVE  CallsKept' /\ PendingKept'
<1> USE DEF readerVars
<1>1. CallsKept'
  BY DEF IndInv, CallsKept
<1>2. PendingKept'
  BY DEF IndInv, PendingKept
<1> QED
  BY <1>1, <1>2

\* The call that is awaited stays so until it is completed or promoted.
LEMMA Awaits ==
    ASSUME IndInv, UNCHANGED <<env, readerVars, pending>>,
           \A c \in Calls :
              state'[c].st = "awaiting" =>
                 /\ state[c].st = "awaiting"
                 /\ hand.call = c /\ hand.step \in {"peek", "rest", "register"}
                    => hand'.call = c /\ hand'.step \in {"peek", "rest", "register"}
    PROVE  StillAwaited'
<1> USE DEF readerVars
<1> SUFFICES ASSUME OneReader, NEW r \in Readers, pc[r] \in {"send", "wait"},
                    state'[call[r]].st = "awaiting"
             PROVE  \/ pending' = call[r]
                    \/ hand'.call = call[r] /\ hand'.step \in {"peek", "rest", "register"}
  BY DEF StillAwaited, OneReader
<1>1. call[r] \in Calls
  BY DEF IndInv, CallsKept
<1>2. state[call[r]].st = "awaiting"
  BY <1>1
<1>3. \/ pending = call[r]
      \/ hand.call = call[r] /\ hand.step \in {"peek", "rest", "register"}
  BY <1>2 DEF IndInv, StillAwaited
<1> QED
  BY <1>1, <1>3

\* How the token may move.
Moves(c) ==
    /\ Asked(c) => Asked(c)' \/ Answered(c)'
    /\ Answered(c) => Answered(c)'
    /\ Peeking(c) => Peeking(c)' \/ ReadingRest(c)' \/ Registering(c)'
    /\ ReadingRest(c) => ReadingRest(c)'
    /\ Registering(c) => Registering(c)'
    /\ Unmarking(c) => Unmarking(c)' \/ Receiving(c)'
    /\ Receiving(c) => Receiving(c)'

\* A step that completes no call moves the token from a stage to the same
\* or the next one.
LEMMA StagesKept ==
    ASSUME NEW r \in Readers, Stages(r), UNCHANGED <<env, readerVars, state, sweep, pending>>,
           Quiet => Quiet', pc[r] = "wait" => Moves(call[r])
    PROVE  Stages(r)'
<1> USE DEF readerVars
<1>1. call'[r] = reads' /\ ~sweep' /\ \A d \in Calls : d > reads' => state'[d].st = "awaiting"
  BY DEF Stages
<1>2. Sound(call[r], outcome[r]) => Sound(call[r], outcome[r])'
  BY DEF Sound
<1>3. Sound(call[r], state[call[r]].result) => Sound(call[r], state[call[r]].result)'
  BY DEF Sound
<1>4. pc'[r] \in {"idle", "drop"} => Quiet' /\ Sound(call[r], outcome[r])'
  BY <1>2 DEF Stages
<1>5. pc'[r] = "send" => Quiet' /\ pending' = call'[r] /\ state'[call'[r]].st = "awaiting"
  BY DEF Stages
<1>6. pc'[r] = "wait" /\ state'[call'[r]].st = "done" =>
         Quiet' /\ Sound(call[r], state[call[r]].result)'
  BY <1>3 DEF Stages
<1>7. pc'[r] = "wait" /\ state'[call'[r]].st = "awaiting" =>
         \/ Asked(call[r])' \/ Answered(call[r])' \/ Peeking(call[r])'
         \/ ReadingRest(call[r])' \/ Registering(call[r])'
  BY DEF Stages, Moves
<1>8. pc'[r] = "wait" /\ state'[call'[r]].st = "incr" =>
         Unmarking(call[r])' \/ Receiving(call[r])'
  BY DEF Stages, Moves
<1> QED
  BY <1>1, <1>4, <1>5, <1>6, <1>7, <1>8 DEF Stages

\* A notice from the owner finds the call it answers.
LEMMA SelectionNotifyKeeps ==
    ASSUME IndInv, SelectionNotify, env' = env PROVE IndInv'
<1> USE DEF SelectionNotify, ownerVars
<1>1. TypeOK /\ CallsKept /\ hand = AtRest /\ hand.step = "poll"
  BY EmptyTypes DEF IndInv
<1>2. /\ queue' \in Seq(Events) /\ Len(queue) \in Nat \ {0} /\ Len(queue') = Len(queue) - 1
      /\ Head(queue) = queue[1]
  <2>1. queue \in Seq(Events) /\ queue # <<>>
    BY <1>1 DEF TypeOK
  <2> QED
    BY <2>1, Tailed
<1>3. pending \in Calls \cup {None} /\ pending' = None
  BY <1>1 DEF TypeOK
<1>4. \/ state' = state /\ hand' = AtRest /\ pending = None
      \/ /\ pending # None /\ Complete(pending, Nothing) /\ hand' = AtRest
         /\ Head(queue).kind = "refused"
      \/ /\ pending # None /\ state' = state /\ hand' \in Hands /\ hand'.step = "peek"
         /\ hand'.call = pending /\ Head(queue).kind = "notify"
  BY <1>1, <1>3, EmptyTypes DEF Hands
<1>5. TypeOK'
  <2>1. state' \in [Calls -> States]
    BY <1>1, <1>4, Completed, ResultTypes DEF TypeOK, States
  <2>2. hand' \in Hands
    BY <1>4, EmptyTypes
  <2> QED
    BY <1>1, <1>2, <1>3, <2>1, <2>2 DEF TypeOK, States, Hands, readerVars
<1>6. CallsKept' /\ PendingKept'
  BY <1>3, ReadersApart
<1>7. StillAwaited'
  <2> SUFFICES ASSUME OneReader, NEW r \in Readers, pc[r] \in {"send", "wait"},
                      state'[call[r]].st = "awaiting"
               PROVE  hand'.call = call[r] /\ hand'.step = "peek"
    BY DEF StillAwaited, OneReader, readerVars
  <2>1. call[r] \in Calls /\ call[r] # None
    BY <1>1, EmptyTypes DEF CallsKept
  <2>2. CASE state' = state
    <3>1. pending = call[r]
      BY <1>1, <2>2 DEF IndInv, StillAwaited
    <3> QED
      BY <1>4, <2>1, <2>2, <3>1, Completed, ResultTypes, <1>1
  <2>3. CASE Complete(pending, Nothing)
    <3>1. /\ \A d \in Calls : d # pending => state'[d] = state[d]
          /\ pending \in Calls => state'[pending].st = "done"
      BY <1>1, <2>3, Completed, ResultTypes
    <3>2. call[r] # pending
      BY <2>1, <3>1
    <3>3. state[call[r]].st = "awaiting"
      BY <2>1, <3>1, <3>2
    <3> QED
      BY <1>1, <3>2, <3>3 DEF IndInv, StillAwaited
  <2> QED
    BY <1>4, <2>2, <2>3
<1>8. LoneReader'
  <2> SUFFICES ASSUME NEW r \in Readers, env.readers = {r}, ~env.slow PROVE Stages(r)'
    BY DEF LoneReader
  <2> DEFINE c == call[r]
  <2>1. Stages(r)
    BY DEF IndInv, LoneReader
  <2>2. queue[1].kind # "newValue" /\ 1 \in 1..Len(queue)
    BY <1>2
  <2>3. ~NewValuesOnly(queue)
    BY <2>2 DEF NewValuesOnly
  <2>4. ~Receiving(c)
    BY <1>1, <2>2 DEF Receiving, Transfer, Turn
  <2>5. pc[r] = "wait" /\ state[c].st = "awaiting" /\ Answered(c)
    BY <1>1, <2>1, <2>3, <2>4, StageAtRest DEF Quiet, Asked
  <2>6. c \in Calls /\ c # None
    BY <1>1, <2>5, EmptyTypes DEF CallsKept
  <2>7. Len(queue) = 1 /\ queue' = <<>>
    <3>1. Len(queue) = 1
      BY <1>2, <2>2, <2>5 DEF Answered
    <3> QED
      BY <1>2, <3>1, EmptySeq
  <2>8. pending = c /\ receive = NoReceive /\ inbox = <<>>
    BY <2>5 DEF Answered, Idle
  <2>9. NewValuesOnly(queue') /\ DeletedOnly(inbox')
    BY <2>7, <2>8 DEF NewValuesOnly, DeletedOnly
  <2>10. CASE Head(queue).kind = "refused"
    <3>1. Complete(c, Nothing) /\ hand' = AtRest
      BY <1>4, <2>6, <2>8, <2>10
    <3>2. receive' = NoReceive /\ UNCHANGED <<env, readerVars, sweep>>
      BY <2>8
    <3> QED
      BY <1>1, <2>1, <2>5, <2>9, <3>1, <3>2, ErrorsSound, ResultTypes, Finishes
  <2>11. CASE Head(queue).kind = "notify"
    <3>1. state' = state /\ hand'.step = "peek" /\ hand'.call = c
      BY <1>4, <2>6, <2>8, <2>11
    <3>2. Offered(c)
      BY <1>2, <2>5, <2>7, <2>11 DEF Answered
    <3>3. Offered(call[r])'
      BY <3>2 DEF Offered, Plain, Marked, Sending, readerVars
    <3>4. Peeking(call[r])'
      BY <2>7, <2>8, <3>1, <3>3 DEF Peeking, InHand, readerVars
    <3> QED
      BY <2>1, <2>5, <3>1, <3>4 DEF Stages, readerVars
  <2> QED
    BY <1>4, <2>10, <2>11
<1> QED
  BY <1>5, <1>6, <1>7, <1>8 DEF IndInv

\* The event thread's request for the property keeps it.
LEMMA PeekKeeps ==
    ASSUME IndInv, Peek, env' = env PROVE IndInv'
<1> USE DEF ownerVars
<1>1. TypeOK /\ CallsKept /\ hand \in Hands /\ hand.step = "peek" /\ prop \in Props
  BY DEF IndInv, TypeOK, Hands, Props, Peek
<1>2. /\ UNCHANGED <<env, readerVars, pending, receive, sweep, queue, prop, ownerVars>>
      /\ UNCHANGED <<pc, call, outcome, reads, inbox, sending>>
  BY DEF Peek, readerVars
<1>3. prop.text \in Seq(Piece) /\ Len(prop.text) \in Nat
  BY <1>1, LenProperties DEF Props
<1>4. \/ Complete(hand.call, Err) /\ hand' = AtRest
      \/ Deliver(hand.call, prop.text) /\ hand' = AtRest
         /\ prop.type # "incr" /\ Len(prop.text) <= 1
      \/ /\ state' = state /\ hand' \in Hands /\ hand'.step = "register"
         /\ hand'.call = hand.call /\ prop.type = "incr"
      \/ /\ state' = state /\ hand' \in Hands /\ hand'.step = "rest" /\ hand'.call = hand.call
         /\ prop.type # "incr" /\ Len(prop.text) \in 2..Cap
         /\ hand'.acc = SubSeq(prop.text, 1, 1)
  <2>1. Len(prop.text) > 1 => SubSeq(prop.text, 1, 1) \in Seq(Piece)
    BY <1>3, SubSeqProperties
  <2> DEFINE a == SubSeq(prop.text, 1, 1)
             h == [hand EXCEPT !.step = "register"]
             g == [hand EXCEPT !.step = "rest", !.acc = a]
  <2> HIDE DEF a
  <2>2. h \in Hands /\ h.step = "register" /\ h.call = hand.call
    BY <1>1 DEF Hands
  <2>3. a \in Seq(Piece) => g \in Hands
    BY <1>1 DEF Hands
  <2>4. g.step = "rest" /\ g.call = hand.call /\ g.acc = a
    BY <1>1 DEF Hands
  <2>5. \/ Complete(hand.call, Err) /\ hand' = AtRest
        \/ Deliver(hand.call, prop.text) /\ hand' = AtRest
           /\ prop.type # "incr" /\ Len(prop.text) <= 1
        \/ state' = state /\ hand' = h /\ prop.type = "incr"
        \/ /\ state' = state /\ hand' = g
           /\ prop.type # "incr" /\ Len(prop.text) \in 2..Cap
    BY DEF Peek, a
  <2>6. Cap \in Nat
    BY ReadAssumption
  <2> HIDE DEF h, g
  <2> QED
    BY <1>3, <2>1, <2>2, <2>3, <2>4, <2>5, <2>6 DEF a
<1>5. CASE \E result \in Result :
               /\ Complete(hand.call, result) /\ hand' = AtRest
               /\ \/ result.kind # "text"
                  \/ prop.type # "incr" /\ Len(prop.text) <= 1 /\ result.text = prop.text
  <2>1. PICK result \in Result :
               /\ Complete(hand.call, result) /\ hand' = AtRest
               /\ \/ result.kind # "text"
                  \/ prop.type # "incr" /\ Len(prop.text) <= 1 /\ result.text = prop.text
    BY <1>5
  <2>2. /\ state' \in [Calls -> States]
        /\ \A d \in Calls : d # hand.call => state'[d] = state[d]
        /\ hand.call \in Calls => state'[hand.call].st = "done"
    BY <1>1, <2>1, Completed
  <2>3. TypeOK'
    BY <1>1, <1>2, <2>1, <2>2, EmptyTypes DEF TypeOK, States, Hands
  <2>4. CallsKept' /\ PendingKept'
    BY <1>2, ReadersApart
  <2>5. \A d \in Calls : state'[d].st = "awaiting" => state[d].st = "awaiting" /\ hand.call # d
    BY <2>2
  <2>6. StillAwaited'
    BY <1>2, <2>5, Awaits
  <2>7. LoneReader'
    <3> SUFFICES ASSUME NEW r \in Readers, env.readers = {r}, ~env.slow PROVE Stages(r)'
      BY <1>2 DEF LoneReader
    <3> DEFINE c == call[r]
    <3>1. Stages(r)
      BY DEF IndInv, LoneReader
    <3>2. pc[r] = "wait" /\ Peeking(c) /\ c \in Calls
      BY <1>1, <3>1, StageInHand
    <3>3. /\ hand.call = c /\ receive' = NoReceive /\ queue' = <<>> /\ inbox' = <<>>
          /\ Offered(c)
      BY <1>2, <3>2 DEF Peeking, InHand
    <3>4. NewValuesOnly(queue') /\ DeletedOnly(inbox')
      BY <3>3 DEF NewValuesOnly, DeletedOnly
    <3>5. Sound(c, result)
      <4> SUFFICES ASSUME result.kind = "text"
                   PROVE  \E n \in env.lengths : n <= Cap /\ result.text = Text(c, n)
        BY DEF Sound
      <4>1. prop.type # "incr" /\ Len(prop.text) <= 1 /\ result.text = prop.text
        BY <2>1
      <4>2. PICK n \in env.lengths : Plain(c, n)
        BY <3>3, <4>1 DEF Offered, Marked
      <4>3. n \in Nat \ {0} /\ Cap \in Nat \ {0}
        BY <1>1, EnvType
      <4>4. Len(prop.text) = n
        BY <3>2, <4>2, <4>3, TextIsRest DEF Plain
      <4> QED
        BY <4>1, <4>2, <4>3, <4>4 DEF Plain
    <3> QED
      BY <1>1, <1>2, <2>1, <3>1, <3>2, <3>3, <3>4, <3>5, Finishes
  <2> QED
    BY <2>3, <2>4, <2>6, <2>7 DEF IndInv
<1>6. CASE /\ state' = state /\ hand' \in Hands /\ hand'.call = hand.call
           /\ \/ hand'.step = "register" /\ prop.type = "incr"
              \/ /\ hand'.step = "rest" /\ prop.type # "incr"
                 /\ Len(prop.text) \in 2..Cap /\ hand'.acc = SubSeq(prop.text, 1, 1)
  <2>1. TypeOK'
    BY <1>1, <1>2, <1>6 DEF TypeOK, Hands
  <2>2. CallsKept' /\ PendingKept'
    BY <1>2, ReadersApart
  <2>3. StillAwaited'
    BY <1>2, <1>6, Awaits
  <2>4. LoneReader'
    <3> SUFFICES ASSUME NEW r \in Readers, env.readers = {r}, ~env.slow PROVE Stages(r)'
      BY <1>2 DEF LoneReader
    <3> DEFINE c == call[r]
    <3>1. Stages(r)
      BY DEF IndInv, LoneReader
    <3>2. pc[r] = "wait" /\ state[c].st = "awaiting" /\ Peeking(c) /\ c \in Calls
      BY <1>1, <3>1, StageInHand
    <3>3. /\ hand.call = c /\ receive' = NoReceive /\ queue' = <<>> /\ inbox' = <<>>
          /\ Offered(c)
      BY <1>2, <3>2 DEF Peeking, InHand
    <3>4. CASE hand'.step = "register" /\ prop.type = "incr"
      <4>1. \E n \in env.lengths : Marked(c, n)
        BY <3>3, <3>4 DEF Offered, Plain
      <4>2. Registering(call[r])'
        BY <1>2, <1>6, <3>3, <3>4, <4>1 DEF Registering, InHand, Marked, Sending
      <4> QED
        BY <1>2, <1>6, <3>1, <3>2, <4>2 DEF Stages
    <3>5. CASE /\ hand'.step = "rest" /\ prop.type # "incr"
               /\ Len(prop.text) \in 2..Cap /\ hand'.acc = SubSeq(prop.text, 1, 1)
      <4>1. PICK n \in env.lengths : Plain(c, n)
        BY <3>3, <3>5 DEF Offered, Marked
      <4>2. n \in Nat \ {0}
        BY <1>1, EnvType
      <4>3. Len(Text(c, n)) = n /\ SubSeq(Text(c, n), 1, 1) = <<<<c, 1>>>>
        BY <3>2, <4>2, TextIsRest, TextInTwo
      <4>4. n \in 2..Cap /\ hand'.acc = <<<<c, 1>>>>
        BY <3>5, <4>1, <4>3 DEF Plain
      <4>5. ReadingRest(call[r])'
        BY <1>2, <1>6, <3>3, <3>5, <4>1, <4>4 DEF ReadingRest, InHand, Plain
      <4> QED
        BY <1>2, <1>6, <3>1, <3>2, <4>5 DEF Stages
    <3> QED
      BY <1>6, <3>4, <3>5
  <2> QED
    BY <2>1, <2>2, <2>3, <2>4 DEF IndInv
<1>7. CASE Complete(hand.call, Err) /\ hand' = AtRest
  BY <1>5, <1>7, ResultTypes
<1>8. CASE Deliver(hand.call, prop.text) /\ hand' = AtRest
           /\ prop.type # "incr" /\ Len(prop.text) <= 1
  BY <1>1, <1>3, <1>5, <1>8, Delivered
<1> QED
  BY <1>4, <1>6, <1>7, <1>8

\* Reading the rest keeps it: the property is still the one peeked at.
LEMMA ReadRestKeeps ==
    ASSUME IndInv, ReadRest, env' = env PROVE IndInv'
<1> USE DEF ownerVars
<1>1. TypeOK /\ CallsKept /\ hand \in Hands /\ hand.step = "rest" /\ prop \in Props
  BY DEF IndInv, TypeOK, Hands, Props, ReadRest
<1>2. /\ UNCHANGED <<env, readerVars, pending, receive, sweep, queue, prop, ownerVars>>
      /\ UNCHANGED <<pc, call, outcome, reads, inbox, sending>> /\ hand' = AtRest
  BY DEF ReadRest, readerVars
<1> DEFINE t == hand.acc \o SubSeq(prop.text, 2, Len(prop.text))
<1>3. t \in Seq(Piece)
  <2>1. hand.acc \in Seq(Piece) /\ prop.text \in Seq(Piece)
    BY <1>1 DEF Hands, Props
  <2>2. SubSeq(prop.text, 2, Len(prop.text)) \in Seq(Piece)
    BY <2>1, SubSeqProperties, LenProperties
  <2> QED
    BY <2>1, <2>2, ConcatProperties
<1>4. PICK result \in Result :
          Complete(hand.call, result) /\ (result.kind = "text" => result.text = t)
  <2>1. Complete(hand.call, Err) \/ Deliver(hand.call, t)
    BY DEF ReadRest
  <2> HIDE DEF t
  <2> QED
    BY <1>1, <1>3, <2>1, Delivered, ResultTypes
<1> HIDE DEF t
<1>5. /\ state' \in [Calls -> States]
      /\ \A d \in Calls : d # hand.call => state'[d] = state[d]
      /\ hand.call \in Calls => state'[hand.call].st = "done"
  BY <1>1, <1>4, Completed
<1>6. TypeOK'
  BY <1>1, <1>2, <1>5, EmptyTypes DEF TypeOK, States, Hands
<1>7. CallsKept' /\ PendingKept'
  BY <1>2, ReadersApart
<1>8. StillAwaited'
  <2>1. \A d \in Calls : state'[d].st = "awaiting" => state[d].st = "awaiting" /\ hand.call # d
    BY <1>5
  <2> QED
    BY <1>2, <2>1, Awaits
<1>9. LoneReader'
  <2> SUFFICES ASSUME NEW r \in Readers, env.readers = {r}, ~env.slow PROVE Stages(r)'
    BY <1>2 DEF LoneReader
  <2> DEFINE c == call[r]
  <2>1. Stages(r)
    BY DEF IndInv, LoneReader
  <2>2. pc[r] = "wait" /\ ReadingRest(c) /\ c \in Calls
    BY <1>1, <2>1, StageInHand
  <2>3. PICK n \in env.lengths : n \in 2..Cap /\ Plain(c, n)
    BY <2>2 DEF ReadingRest
  <2>4. /\ hand.call = c /\ receive' = NoReceive /\ queue' = <<>> /\ inbox' = <<>>
        /\ hand.acc = <<<<c, 1>>>>
    BY <1>2, <2>2 DEF ReadingRest, InHand
  <2>5. NewValuesOnly(queue') /\ DeletedOnly(inbox')
    BY <2>4 DEF NewValuesOnly, DeletedOnly
  <2>6. n \in Nat \ {0} /\ n <= Cap
    BY <1>1, <2>3, EnvType
  <2>7. t = Text(c, n)
    BY <2>2, <2>3, <2>4, <2>6, TextInTwo DEF t, Plain
  <2>8. Sound(c, result)
    BY <1>4, <2>6, <2>7 DEF Sound
  <2> QED
    BY <1>1, <1>2, <1>4, <2>1, <2>2, <2>4, <2>5, <2>8, Finishes
<1> QED
  BY <1>6, <1>7, <1>8, <1>9 DEF IndInv

\* The promotion keeps it.
LEMMA RegisterReceiveKeeps ==
    ASSUME IndInv, RegisterReceive, env' = env PROVE IndInv'
<1> USE DEF ownerVars
<1>1. TypeOK /\ CallsKept /\ hand \in Hands /\ hand.step = "register"
  BY DEF IndInv, TypeOK, Hands, RegisterReceive
<1>2. /\ UNCHANGED <<env, readerVars, pending, sweep, queue, prop, ownerVars>>
      /\ UNCHANGED <<pc, call, outcome, reads, inbox, sending>>
  BY DEF RegisterReceive, readerVars
<1>3. hand' \in Hands /\ hand'.step = "unmark" /\ hand'.call = hand.call
  BY <1>1 DEF RegisterReceive, Hands
<1>4. /\ receive' \in [call : Calls \cup {None}, acc : Seq(Piece)]
      /\ receive'.call = hand.call /\ receive'.acc = <<>>
  BY <1>1 DEF RegisterReceive, Hands
<1>5. /\ state' \in [Calls -> States]
      /\ \A d \in Calls : d # hand.call => state'[d] = state[d]
      /\ hand.call \in Calls => state'[hand.call].st = "incr"
  BY <1>1 DEF RegisterReceive, TypeOK, States
<1>6. TypeOK'
  BY <1>1, <1>2, <1>3, <1>4, <1>5 DEF TypeOK, States, Hands
<1>7. CallsKept' /\ PendingKept'
  BY <1>2, ReadersApart
<1>8. StillAwaited'
  <2>1. \A d \in Calls : state'[d].st = "awaiting" => state[d].st = "awaiting" /\ hand.call # d
    BY <1>5
  <2> QED
    BY <1>2, <2>1, Awaits
<1>9. LoneReader'
  <2> SUFFICES ASSUME NEW r \in Readers, env.readers = {r}, ~env.slow PROVE Stages(r)'
    BY <1>2 DEF LoneReader
  <2> DEFINE c == call[r]
  <2>1. Stages(r)
    BY DEF IndInv, LoneReader
  <2>2. pc[r] = "wait" /\ Registering(c) /\ c \in Calls
    BY <1>1, <2>1, StageInHand
  <2>3. PICK n \in env.lengths : Marked(c, n)
    BY <2>2 DEF Registering
  <2>4. hand.call = c /\ queue' = <<>> /\ inbox' = <<>>
    BY <1>2, <2>2 DEF Registering, InHand
  <2>5. Text(c, 0) = <<>>
    BY <2>2, TextIsRest, EmptySeq
  <2>6. Unmarking(call[r])'
    BY <1>2, <1>3, <1>4, <2>3, <2>4, <2>5 DEF Unmarking, InHand, Marked, Sending
  <2>7. \A d \in Calls : d > reads => state'[d].st = "awaiting"
    <3> SUFFICES ASSUME NEW d \in Calls, d > reads PROVE state'[d].st = "awaiting"
      OBVIOUS
    <3>1. d # hand.call
      BY <2>1, <2>2, <2>4 DEF Stages, Calls
    <3> QED
      BY <1>5, <2>1, <3>1 DEF Stages
  <2> QED
    BY <1>2, <1>5, <2>1, <2>2, <2>4, <2>6, <2>7 DEF Stages
<1> QED
  BY <1>6, <1>7, <1>8, <1>9 DEF IndInv

\* Deleting the marker hands the turn to the owner.
LEMMA DeleteMarkerKeeps ==
    ASSUME IndInv, DeleteMarker, env' = env PROVE IndInv'
<1>1. TypeOK /\ CallsKept /\ hand.step = "unmark"
  BY DEF IndInv, DeleteMarker
<1>2. /\ UNCHANGED <<env, readerVars, pending, state, receive, sweep, queue, sending>>
      /\ UNCHANGED <<pc, call, outcome, reads>> /\ hand' = AtRest /\ DeleteProp
  BY DEF DeleteMarker, readerVars
<1>3. /\ prop' \in Props /\ inbox' \in Seq(Calls \cup {Deleted})
      /\ prop # NoProp => inbox' = Append(inbox, Deleted)
  BY <1>1, <1>2, Deletion
<1>4. TypeOK'
  BY <1>1, <1>2, <1>3, EmptyTypes DEF TypeOK, Hands, Props
<1>5. CallsKept' /\ PendingKept'
  BY <1>2, ReadersApart
<1>6. StillAwaited'
  BY <1>1, <1>2, Awaits
<1>7. LoneReader'
  <2> SUFFICES ASSUME NEW r \in Readers, env.readers = {r}, ~env.slow PROVE Stages(r)'
    BY <1>2 DEF LoneReader
  <2> DEFINE c == call[r]
  <2>1. Stages(r)
    BY DEF IndInv, LoneReader
  <2>2. pc[r] = "wait" /\ Unmarking(c) /\ c \in Calls /\ state[c].st = "incr"
    BY <1>1, <2>1, StageInHand
  <2>3. PICK n \in env.lengths : Marked(c, n)
    BY <2>2 DEF Unmarking
  <2>4. n \in Nat \ {0} /\ Cap \in Nat
    BY <1>1, EnvType
  <2>5. inbox' = <<Deleted>>
    <3>1. prop # NoProp
      BY <2>3, EmptyTypes DEF Marked
    <3>2. inbox = <<>>
      BY <2>2 DEF Unmarking, InHand
    <3> QED
      BY <1>3, <3>1, <3>2
  <2>6. queue' = <<>> /\ receive'.call = c /\ receive'.acc = Text(c, 0)
    BY <1>2, <2>2 DEF Unmarking, InHand
  <2>7. 0 <= n /\ 0 \in 0..Cap
    BY <2>4
  <2>8. Turn(c, 0, n)'
    BY <1>2, <2>3, <2>5, <2>6, <2>7 DEF Turn, Marked, Sending
  <2>9. Transfer(c, 0, n)'
    BY <1>2, <2>6, <2>8 DEF Transfer
  <2>10. Receiving(call[r])'
    BY <1>2, <2>7, <2>9 DEF Receiving
  <2> QED
    BY <1>2, <2>1, <2>2, <2>10 DEF Stages
<1> QED
  BY <1>4, <1>5, <1>6, <1>7 DEF IndInv

\* The tail of old events is old; an answer behind one stays the last.
LEMMA DropsNewValue ==
    ASSUME TypeOK, queue # <<>>, Head(queue).kind = "newValue"
    PROVE  /\ Tail(queue) \in Seq(Events)
           /\ NewValuesOnly(queue) => NewValuesOnly(Tail(queue))
           /\ Len(queue) \in Nat \ {0} /\ Len(Tail(queue)) = Len(queue) - 1
           /\ Head(queue) = queue[1]
           /\ \A i \in 1..(Len(queue) - 1) : Tail(queue)[i] = queue[i + 1]
<1>1. queue \in Seq(Events)
  BY DEF TypeOK
<1>2. /\ Tail(queue) \in Seq(Events)
      /\ Len(queue) \in Nat \ {0} /\ Len(Tail(queue)) = Len(queue) - 1
      /\ Head(queue) = queue[1]
      /\ \A i \in 1..(Len(queue) - 1) : Tail(queue)[i] = queue[i + 1]
  BY <1>1, Tailed
<1>3. NewValuesOnly(queue) => NewValuesOnly(Tail(queue))
  <2> SUFFICES ASSUME NewValuesOnly(queue), NEW i \in 1..Len(Tail(queue))
               PROVE  Tail(queue)[i].kind = "newValue"
    BY DEF NewValuesOnly
  <2>1. i \in 1..(Len(queue) - 1) /\ i + 1 \in 1..Len(queue)
    BY <1>2
  <2> QED
    BY <1>2, <2>1 DEF NewValuesOnly
<1> QED
  BY <1>2, <1>3

\* A change of the property is looked at when a transfer is under way.
LEMMA NewValueKeeps ==
    ASSUME IndInv, NewValue, env' = env PROVE IndInv'
<1> USE DEF ownerVars
<1>1. TypeOK /\ CallsKept /\ hand = AtRest /\ hand.step = "poll"
  BY EmptyTypes DEF IndInv, NewValue
<1>2. /\ UNCHANGED <<env, readerVars, pending, state, receive, sweep, prop, ownerVars>>
      /\ UNCHANGED <<pc, call, outcome, reads, inbox, sending>>
      /\ queue' = Tail(queue) /\ queue # <<>> /\ Head(queue).kind = "newValue"
  BY DEF NewValue, readerVars
<1>3. /\ queue' \in Seq(Events)
      /\ NewValuesOnly(queue) => NewValuesOnly(queue')
      /\ Len(queue) \in Nat \ {0} /\ Len(queue') = Len(queue) - 1
      /\ Head(queue) = queue[1]
      /\ \A i \in 1..(Len(queue) - 1) : queue'[i] = queue[i + 1]
  BY <1>1, <1>2, DropsNewValue
<1>4. /\ receive = NoReceive => hand' = AtRest
      /\ receive # NoReceive => hand'.step = "chunk"
      /\ hand' \in Hands
  BY <1>1, EmptyTypes DEF NewValue, Hands
<1>5. TypeOK'
  BY <1>1, <1>2, <1>3, <1>4 DEF TypeOK, Hands
<1>6. CallsKept' /\ PendingKept'
  BY <1>2, ReadersApart
<1>7. StillAwaited'
  BY <1>1, <1>2, Awaits
<1>8. LoneReader'
  <2> SUFFICES ASSUME NEW r \in Readers, env.readers = {r}, ~env.slow PROVE Stages(r)'
    BY <1>2 DEF LoneReader
  <2>1. Stages(r)
    BY DEF IndInv, LoneReader
  <2>2. Quiet => Quiet'
    BY <1>2, <1>3, <1>4 DEF Quiet, Idle
  <2>3. SUFFICES ASSUME NEW c \in Calls, pc[r] = "wait", c = call[r] PROVE Moves(c)
    BY <1>1, <1>2, <2>1, <2>2, StagesKept DEF CallsKept
  <2>4. Asked(c) => Asked(c)'
    BY <1>2, <1>3, <1>4 DEF Asked, Idle
  <2>5. ASSUME Answered(c) PROVE Answered(c)'
    <3>1. /\ queue[Len(queue)].kind \in {"refused", "notify"}
          /\ queue[Len(queue)].kind = "notify" => Offered(c)
          /\ \A i \in 1..(Len(queue) - 1) : queue[i].kind = "newValue"
          /\ receive = NoReceive /\ pending = c /\ inbox = <<>>
      BY <2>5 DEF Answered, Idle
    <3>2. Len(queue) # 1
      BY <1>2, <1>3, <3>1
    <3>3. Len(queue') > 0 /\ queue'[Len(queue')] = queue[Len(queue)]
      BY <1>3, <3>2
    <3>4. ASSUME NEW i \in 1..(Len(queue') - 1) PROVE queue'[i].kind = "newValue"
      <4>1. i \in 1..(Len(queue) - 1) /\ i + 1 \in 1..(Len(queue) - 1)
        BY <1>3
      <4> QED
        BY <1>3, <3>1, <4>1
    <3>5. Offered(c) => Offered(c)'
      BY <1>2 DEF Offered, Plain, Marked, Sending
    <3>6. Idle'
      BY <1>2, <1>4, <3>1 DEF Idle
    <3> QED
      BY <1>2, <3>1, <3>3, <3>4, <3>5, <3>6 DEF Answered
  <2>6. ~Peeking(c) /\ ~ReadingRest(c) /\ ~Registering(c) /\ ~Unmarking(c)
    BY <1>1 DEF Peeking, ReadingRest, Registering, Unmarking, InHand
  <2>7. ASSUME Receiving(c) PROVE Receiving(c)'
    <3>1. PICK n \in env.lengths, k \in 0..Cap : Transfer(c, k, n)
      BY <2>7 DEF Receiving
    <3>2. receive.call = c /\ receive.acc = Text(c, k) /\ Turn(c, k, n)
      BY <1>1, <3>1 DEF Transfer
    <3>3. inbox = <<>> /\ queue = <<[kind |-> "newValue"]>> /\ Stocked(c, k, n)
      BY <1>2, <3>2 DEF Turn
    <3>4. receive # NoReceive
      BY <2>3, <3>2, EmptyTypes
    <3>5. queue' = <<>>
      BY <1>2, <3>3
    <3>6. Stocked(c, k, n)'
      BY <1>2, <3>3 DEF Stocked, Sending
    <3>7. Transfer(c, k, n)'
      BY <1>2, <1>4, <3>2, <3>3, <3>4, <3>5, <3>6 DEF Transfer
    <3> QED
      BY <1>2, <3>7 DEF Receiving
  <2> QED
    BY <2>4, <2>5, <2>6, <2>7 DEF Moves
<1> QED
  BY <1>5, <1>6, <1>7, <1>8 DEF IndInv

\* Fetching a chunk keeps it: it is the next piece of this very transfer,
\* and its deletion hands the turn to the owner.
LEMMA GetChunkKeeps ==
    ASSUME IndInv, GetChunk, env' = env PROVE IndInv'
<1>1. TypeOK /\ CallsKept /\ hand \in Hands /\ hand.step = "chunk" /\ prop \in Props
  BY DEF IndInv, TypeOK, Hands, Props, GetChunk
<1>2. /\ UNCHANGED <<env, readerVars, pending, sweep, queue, sending>>
      /\ UNCHANGED <<pc, call, outcome, reads>>
  BY DEF GetChunk, readerVars
<1>3. CASE /\ \/ receive = NoReceive /\ state' = state
              \/ receive # NoReceive /\ Complete(receive.call, Err)
           /\ receive' = NoReceive /\ hand' = AtRest /\ UNCHANGED <<prop, inbox>>
  <2>1. /\ state' \in [Calls -> States]
        /\ \A d \in Calls : state'[d].st = "awaiting" => state[d].st = "awaiting"
    <3>1. CASE state' = state
      BY <1>1, <3>1 DEF TypeOK, States
    <3>2. CASE Complete(receive.call, Err)
      <4>1. /\ state' \in [Calls -> States]
            /\ \A d \in Calls : d # receive.call => state'[d] = state[d]
            /\ receive.call \in Calls => state'[receive.call].st = "done"
        BY <1>1, <3>2, Completed, ResultTypes
      <4> QED
        BY <4>1
    <3> QED
      BY <1>3, <3>1, <3>2
  <2>2. TypeOK'
    BY <1>1, <1>2, <1>3, <2>1, EmptyTypes DEF TypeOK, States, Hands
  <2>3. CallsKept' /\ PendingKept'
    BY <1>2, ReadersApart
  <2>4. StillAwaited'
    BY <1>1, <1>2, <2>1, Awaits
  <2>5. LoneReader'
    <3> SUFFICES ASSUME NEW r \in Readers, env.readers = {r}, ~env.slow PROVE Stages(r)'
      BY <1>2 DEF LoneReader
    <3> DEFINE c == call[r]
    <3>1. Stages(r)
      BY DEF IndInv, LoneReader
    <3>2. pc[r] = "wait" /\ Receiving(c) /\ c \in Calls
      BY <1>1, <3>1, StageInHand
    <3>3. receive.call = c /\ queue = <<>> /\ inbox = <<>>
      BY <1>1, <3>2, EmptyTypes DEF Receiving, Transfer
    <3>4. Complete(c, Err)
      BY <1>3, <3>2, <3>3, EmptyTypes
    <3>5. NewValuesOnly(queue') /\ DeletedOnly(inbox')
      BY <1>2, <1>3, <3>3 DEF NewValuesOnly, DeletedOnly
    <3> QED
      BY <1>1, <1>2, <1>3, <3>1, <3>2, <3>4, <3>5, ErrorsSound, ResultTypes, Finishes
  <2> QED
    BY <2>2, <2>3, <2>4, <2>5 DEF IndInv
<1>4. CASE /\ DeleteProp /\ UNCHANGED <<state, receive>>
           /\ hand' = [hand EXCEPT !.step = "append",
                       !.acc = IF prop.type = "incr" THEN <<MarkerPiece>> ELSE prop.text]
  <2>1. /\ prop' \in Props /\ inbox' \in Seq(Calls \cup {Deleted})
        /\ prop # NoProp => inbox' = Append(inbox, Deleted)
    BY <1>1, <1>4, Deletion
  <2>2. /\ hand' \in Hands /\ hand'.step = "append"
        /\ prop.type # "incr" => hand'.acc = prop.text
    <3> DEFINE a == IF prop.type = "incr" THEN <<MarkerPiece>> ELSE prop.text
    <3>1. a \in Seq(Piece)
      <4>1. MarkerPiece \in Piece
        BY DEF Piece
      <4>2. <<MarkerPiece>> \in Seq(Piece)
        BY <4>1
      <4>3. prop.text \in Seq(Piece)
        BY <1>1 DEF Props
      <4> QED
        BY <4>2, <4>3
    <3>2. prop.type # "incr" => a = prop.text
      OBVIOUS
    <3>3. hand' = [hand EXCEPT !.step = "append", !.acc = a]
      BY <1>4
    <3> HIDE DEF a
    <3>4. hand' \in Hands
      BY <1>1, <3>1, <3>3 DEF Hands
    <3>5. hand'.step = "append" /\ hand'.acc = a
      BY <1>1, <3>3 DEF Hands
    <3> QED
      BY <3>2, <3>4, <3>5
  <2>3. TypeOK'
    BY <1>1, <1>2, <1>4, <2>1, <2>2 DEF TypeOK, Hands, Props
  <2>4. CallsKept' /\ PendingKept'
    BY <1>2, ReadersApart
  <2>5. StillAwaited'
    BY <1>1, <1>2, <1>4, Awaits
  <2>6. LoneReader'
    <3> SUFFICES ASSUME NEW r \in Readers, env.readers = {r}, ~env.slow PROVE Stages(r)'
      BY <1>2 DEF LoneReader
    <3> DEFINE c == call[r]
    <3>1. Stages(r)
      BY DEF IndInv, LoneReader
    <3>2. pc[r] = "wait" /\ state[c].st = "incr" /\ Receiving(c) /\ c \in Calls
      BY <1>1, <3>1, StageInHand
    <3>3. PICK n \in env.lengths, k \in 0..Cap : Transfer(c, k, n)
      BY <3>2 DEF Receiving
    <3>4. /\ receive.call = c /\ receive.acc = Text(c, k)
          /\ queue = <<>> /\ inbox = <<>> /\ Stocked(c, k, n)
      BY <1>1, <3>3, EmptyTypes DEF Transfer
    <3>5. n \in Nat /\ k \in Nat
      BY <1>1, EnvType
    <3>6. inbox' = <<Deleted>> /\ hand'.acc = prop.text
      <4>1. prop.type = "data" /\ prop # NoProp
        BY <3>4, EmptyTypes DEF Stocked
      <4> QED
        BY <2>1, <2>2, <3>4, <4>1
    <3>7. Transfer(c, k, n)'
      <4>1. CASE k < n /\ prop.text = <<<<c, k + 1>>>> /\ Sending(c, k + 1, n)
        <5>1. k + 1 <= n
          BY <3>5, <4>1
        <5>2. Turn(c, k + 1, n)'
          BY <1>2, <3>4, <3>6, <4>1, <5>1 DEF Turn, Sending
        <5> QED
          BY <1>2, <1>4, <2>2, <3>4, <3>6, <4>1, <5>2 DEF Transfer
      <4>2. CASE k = n /\ prop.text = <<>>
        <5>1. NewValuesOnly(queue') /\ DeletedOnly(inbox')
          BY <1>2, <3>4, <3>6 DEF NewValuesOnly, DeletedOnly
        <5> QED
          BY <1>2, <1>4, <2>2, <3>4, <3>6, <4>2, <5>1 DEF Transfer
      <4> QED
        BY <3>4, <4>1, <4>2 DEF Stocked
    <3>8. Receiving(call[r])'
      BY <1>2, <3>7 DEF Receiving
    <3> QED
      BY <1>2, <1>4, <3>1, <3>2, <3>8 DEF Stages
  <2> QED
    BY <2>3, <2>4, <2>5, <2>6 DEF IndInv
<1> QED
  BY <1>3, <1>4 DEF GetChunk

\* Handling a chunk keeps it: what was received and the piece at hand are
\* the beginning of the text, and the end comes after the last piece.
LEMMA AppendChunkKeeps ==
    ASSUME IndInv, AppendChunk, env' = env PROVE IndInv'
<1> USE DEF ownerVars
<1>1. /\ TypeOK /\ CallsKept /\ hand \in Hands /\ hand.step = "append"
      /\ receive \in [call : Calls \cup {None}, acc : Seq(Piece)]
  BY DEF IndInv, TypeOK, Hands, AppendChunk
<1>2. /\ UNCHANGED <<env, readerVars, pending, sweep, queue, prop, ownerVars>>
      /\ UNCHANGED <<pc, call, outcome, reads, inbox, sending>> /\ hand' = AtRest
  BY DEF AppendChunk, readerVars
<1>3. /\ hand.acc \in Seq(Piece) /\ receive.acc \in Seq(Piece)
      /\ Len(hand.acc) \in Nat /\ Len(receive.acc) \in Nat
      /\ receive.acc \o hand.acc \in Seq(Piece)
  <2>1. hand.acc \in Seq(Piece) /\ receive.acc \in Seq(Piece)
    BY <1>1 DEF Hands
  <2> QED
    BY <2>1, LenProperties, ConcatProperties
<1>4. \/ receive = NoReceive /\ UNCHANGED <<state, receive>>
      \/ /\ receive # NoReceive /\ receive' = NoReceive
         /\ \E result \in Result :
               /\ Complete(receive.call, result)
               /\ result.kind = "text" => hand.acc = <<>> /\ result.text = receive.acc
      \/ /\ receive # NoReceive /\ hand.acc # <<>> /\ UNCHANGED state
         /\ Len(receive.acc) + Len(hand.acc) <= Cap
         /\ receive' \in [call : Calls \cup {None}, acc : Seq(Piece)]
         /\ receive'.call = receive.call /\ receive'.acc = receive.acc \o hand.acc
  <2>1. CASE receive = NoReceive /\ UNCHANGED <<state, receive>>
    BY <2>1
  <2>2. CASE /\ receive # NoReceive /\ hand.acc = <<>>
             /\ Deliver(receive.call, receive.acc) /\ receive' = NoReceive
    BY <1>1, <1>3, <2>2, Delivered
  <2>3. CASE receive # NoReceive /\ Complete(receive.call, Err) /\ receive' = NoReceive
    BY <2>3, ResultTypes
  <2>4. CASE /\ receive # NoReceive /\ hand.acc # <<>> /\ UNCHANGED state
             /\ Len(receive.acc) + Len(hand.acc) <= Cap
             /\ receive' = [receive EXCEPT !.acc = @ \o hand.acc]
    <3> DEFINE z == receive.acc \o hand.acc
    <3>1. z \in Seq(Piece) /\ receive' = [receive EXCEPT !.acc = z]
      BY <1>3, <2>4
    <3> HIDE DEF z
    <3>2. receive' \in [call : Calls \cup {None}, acc : Seq(Piece)]
      BY <1>1, <3>1
    <3>3. receive'.call = receive.call /\ receive'.acc = z
      BY <1>1, <3>1
    <3> QED
      BY <2>4, <3>2, <3>3 DEF z
  <2> QED
    BY <2>1, <2>2, <2>3, <2>4 DEF AppendChunk
<1>5. /\ state' \in [Calls -> States]
      /\ \A d \in Calls : state'[d].st = "awaiting" => state[d].st = "awaiting"
  <2>1. CASE state' = state
    BY <1>1, <2>1 DEF TypeOK, States
  <2>2. CASE \E result \in Result : Complete(receive.call, result)
    <3>1. PICK result \in Result : Complete(receive.call, result)
      BY <2>2
    <3>2. /\ state' \in [Calls -> States]
          /\ \A d \in Calls : d # receive.call => state'[d] = state[d]
          /\ receive.call \in Calls => state'[receive.call].st = "done"
      BY <1>1, <3>1, Completed
    <3> QED
      BY <3>2
  <2> QED
    BY <1>4, <2>1, <2>2
<1>6. TypeOK'
  <2>1. receive' \in [call : Calls \cup {None}, acc : Seq(Piece)]
    BY <1>1, <1>4, EmptyTypes
  <2> QED
    BY <1>1, <1>2, <1>5, <2>1, EmptyTypes DEF TypeOK, States, Hands
<1>7. CallsKept' /\ PendingKept'
  BY <1>2, ReadersApart
<1>8. StillAwaited'
  BY <1>1, <1>2, <1>5, Awaits
<1>9. LoneReader'
  <2> SUFFICES ASSUME NEW r \in Readers, env.readers = {r}, ~env.slow PROVE Stages(r)'
    BY <1>2 DEF LoneReader
  <2> DEFINE c == call[r]
  <2>1. Stages(r)
    BY DEF IndInv, LoneReader
  <2>2. pc[r] = "wait" /\ state[c].st = "incr" /\ Receiving(c) /\ c \in Calls
    BY <1>1, <2>1, StageInHand
  <2>3. PICK n \in env.lengths, k \in 0..Cap : Transfer(c, k, n)
    BY <2>2 DEF Receiving
  <2>4. n \in Nat /\ k \in Nat /\ Cap \in Nat /\ k + 1 \in Nat
    BY <1>1, EnvType
  <2>5. receive.call = c /\ receive.acc = Text(c, k) /\ receive # NoReceive
    BY <2>2, <2>3, EmptyTypes DEF Transfer
  <2>6. \/ hand.acc = <<<<c, k + 1>>>> /\ Turn(c, k + 1, n)
        \/ hand.acc = <<>> /\ k = n /\ NewValuesOnly(queue) /\ DeletedOnly(inbox)
    BY <1>1, <2>3, EmptyTypes DEF Transfer
  <2>7. CASE /\ receive' = NoReceive
             /\ \E result \in Result :
                   /\ Complete(receive.call, result)
                   /\ result.kind = "text" => hand.acc = <<>> /\ result.text = receive.acc
    <3>1. PICK result \in Result :
             /\ Complete(receive.call, result)
             /\ result.kind = "text" => hand.acc = <<>> /\ result.text = receive.acc
      BY <2>7
    <3>2. NewValuesOnly(queue') /\ DeletedOnly(inbox')
      <4>1. /\ NewValuesOnly(<<>>) /\ NewValuesOnly(<<[kind |-> "newValue"]>>)
            /\ DeletedOnly(<<>>) /\ DeletedOnly(<<Deleted>>)
        BY DEF NewValuesOnly, DeletedOnly
      <4>2. NewValuesOnly(queue) /\ DeletedOnly(inbox)
        BY <2>6, <4>1 DEF Turn
      <4> QED
        BY <1>2, <4>2
    <3>3. <<<<c, k + 1>>>> # <<>>
      BY <2>2, <2>4, OnePiece
    <3>4. k <= Cap
      BY <2>4
    <3>5. Sound(c, result)
      BY <2>5, <2>6, <3>1, <3>3, <3>4 DEF Sound
    <3> QED
      BY <1>1, <1>2, <2>1, <2>2, <2>5, <2>7, <3>1, <3>2, <3>5, Finishes
  <2>8. CASE /\ hand.acc # <<>> /\ UNCHANGED state
             /\ Len(receive.acc) + Len(hand.acc) <= Cap
             /\ receive'.call = receive.call /\ receive'.acc = receive.acc \o hand.acc
    <3>1. hand.acc = <<<<c, k + 1>>>> /\ Turn(c, k + 1, n)
      BY <2>6, <2>8
    <3>2. Len(hand.acc) = 1 /\ Len(receive.acc) = k
      BY <2>2, <2>4, <2>5, <3>1, OnePiece, TextIsRest
    <3>3. k + 1 \in 0..Cap
      BY <2>4, <2>8, <3>2
    <3>4. receive'.acc = Text(c, k + 1)
      BY <2>2, <2>4, <2>5, <2>8, <3>1, TextGrows
    <3>5. Turn(c, k + 1, n)'
      BY <1>2, <3>1 DEF Turn, Stocked, Sending
    <3>6. Transfer(c, k + 1, n)'
      BY <1>2, <2>5, <2>8, <3>4, <3>5 DEF Transfer
    <3>7. Receiving(call[r])'
      BY <1>2, <3>3, <3>6 DEF Receiving
    <3> QED
      BY <1>2, <2>1, <2>2, <2>8, <3>7 DEF Stages
  <2> QED
    BY <1>4, <2>5, <2>7, <2>8
<1> QED
  BY <1>6, <1>7, <1>8, <1>9 DEF IndInv

\* The watchdog keeps it; a prompt owner leaves it nothing to drop.
LEMMA WatchdogKeeps ==
    ASSUME IndInv, Watchdog, env' = env PROVE IndInv'
<1> USE DEF ownerVars
<1>1. TypeOK
  BY DEF IndInv
<1>2. CASE SweepFind
  <2>1. /\ UNCHANGED <<env, readerVars, pending, state, receive, queue, hand, prop, ownerVars>>
        /\ sweep' = TRUE /\ env.slow
    BY <1>2 DEF SweepFind
  <2>2. TypeOK'
    BY <1>1, <2>1 DEF TypeOK, readerVars
  <2>3. CallsKept' /\ PendingKept'
    BY <2>1, ReadersApart
  <2>4. StillAwaited'
    BY <2>1, Awaits
  <2>5. LoneReader'
    BY <2>1 DEF LoneReader
  <2> QED
    BY <2>2, <2>3, <2>4, <2>5 DEF IndInv
<1>3. CASE SweepDrop
  <2>1. /\ UNCHANGED <<env, readerVars, pending, queue, hand, prop, ownerVars>>
        /\ sweep /\ sweep' = FALSE /\ receive' = NoReceive
        /\ state' = state \/ Complete(receive.call, Err)
    BY <1>3 DEF SweepDrop
  <2>2. /\ state' \in [Calls -> States]
        /\ \A d \in Calls : state'[d].st = "awaiting" => state[d].st = "awaiting"
    <3>1. CASE state' = state
      BY <1>1, <3>1 DEF TypeOK, States
    <3>2. CASE Complete(receive.call, Err)
      <4>1. /\ state' \in [Calls -> States]
            /\ \A d \in Calls : d # receive.call => state'[d] = state[d]
            /\ receive.call \in Calls => state'[receive.call].st = "done"
        BY <1>1, <3>2, Completed, ResultTypes
      <4> QED
        BY <4>1
    <3> QED
      BY <2>1, <3>1, <3>2
  <2>3. TypeOK'
    BY <1>1, <2>1, <2>2, EmptyTypes DEF TypeOK, States, readerVars
  <2>4. CallsKept' /\ PendingKept'
    BY <2>1, ReadersApart
  <2>5. StillAwaited'
    BY <2>1, <2>2, Awaits
  <2>6. LoneReader'
    BY <2>1 DEF IndInv, LoneReader, Stages
  <2> QED
    BY <2>3, <2>4, <2>5, <2>6 DEF IndInv
<1> QED
  BY <1>2, <1>3 DEF Watchdog

-----------------------------------------------------------------------------
(* Steps of the owner.                                                     *)

\* What is behind the first event of the owner's inbox.
LEMMA TakesInbox ==
    ASSUME TypeOK, inbox # <<>>
    PROVE  /\ Tail(inbox) \in Seq(Calls \cup {Deleted}) /\ Head(inbox) \in Calls \cup {Deleted}
           /\ Head(inbox) = inbox[1] /\ Len(inbox) \in Nat \ {0}
           /\ Len(Tail(inbox)) = Len(inbox) - 1
           /\ \A i \in 1..(Len(inbox) - 1) : Tail(inbox)[i] = inbox[i + 1]
           /\ DeletedOnly(inbox) => DeletedOnly(Tail(inbox))
<1>1. inbox \in Seq(Calls \cup {Deleted})
  BY DEF TypeOK
<1>2. /\ Tail(inbox) \in Seq(Calls \cup {Deleted}) /\ Head(inbox) \in Calls \cup {Deleted}
      /\ Head(inbox) = inbox[1] /\ Len(inbox) \in Nat \ {0}
      /\ Len(Tail(inbox)) = Len(inbox) - 1
      /\ \A i \in 1..(Len(inbox) - 1) : Tail(inbox)[i] = inbox[i + 1]
  BY <1>1, Tailed
<1>3. DeletedOnly(inbox) => DeletedOnly(Tail(inbox))
  <2> SUFFICES ASSUME DeletedOnly(inbox), NEW i \in 1..Len(Tail(inbox))
               PROVE  Tail(inbox)[i] = Deleted
    BY DEF DeletedOnly
  <2>1. i \in 1..(Len(inbox) - 1) /\ i + 1 \in 1..Len(inbox)
    BY <1>2
  <2> QED
    BY <1>2, <2>1 DEF DeletedOnly
<1> QED
  BY <1>2, <1>3

\* What an answer does.
LEMMA AnswerEffect ==
    ASSUME TypeOK, Answer, env' = env, NEW c, c = Head(inbox)
    PROVE  /\ c \in Calls /\ queue' \in Seq(Events) /\ prop' \in Props /\ sending' \in Transfers
           /\ Len(queue) \in Nat /\ Len(queue') \in Nat /\ Len(queue') > Len(queue)
           /\ \A i \in 1..Len(queue) : queue'[i] = queue[i]
           /\ \A i \in (Len(queue) + 1)..(Len(queue') - 1) : queue'[i].kind = "newValue"
           /\ \/ queue'[Len(queue')].kind = "refused"
              \/ queue'[Len(queue')].kind = "notify" /\ Offered(c)'
<1> DEFINE notify == [kind |-> "notify", call |-> c]
           refused == [kind |-> "refused", call |-> c]
<1>1. c \in Calls
  <2>1. inbox # <<>> /\ c # Deleted
    BY DEF Answer
  <2>2. c \in Calls \cup {Deleted}
    BY <2>1, TakesInbox
  <2> QED
    BY <2>1, <2>2
<1>2. notify \in Events /\ refused \in Events /\ <<notify>> \in Seq(Events)
  <2>1. notify \in Events /\ refused \in Events
    BY <1>1 DEF Events
  <2> QED
    BY <2>1
<1>3. queue \in Seq(Events) /\ prop \in Props /\ sending \in Transfers /\ Len(queue) \in Nat
  BY LenProperties DEF TypeOK, Props, Transfers
<1>4. CASE queue' = Append(queue, refused) /\ UNCHANGED <<prop, sending>>
  <2>1. refused.kind = "refused"
    OBVIOUS
  <2> HIDE DEF refused, notify
  <2>2. /\ queue' \in Seq(Events) /\ Len(queue') = Len(queue) + 1
        /\ \A i \in 1..Len(queue) : queue'[i] = queue[i]
        /\ queue'[Len(queue) + 1] = refused
    BY <1>2, <1>3, <1>4, Appended
  <2> QED
    BY <1>1, <1>3, <1>4, <2>1, <2>2
<1>5. ASSUME NEW n \in env.lengths, NEW p \in Props, Put(p, <<notify>>), sending' \in Transfers,
             \/ p.type = "data" /\ p.text = Text(c, n)
             \/ p.type = "incr" /\ sending'.call = c /\ sending'.text = Text(c, n)
      PROVE  /\ queue' \in Seq(Events) /\ prop' \in Props /\ sending' \in Transfers
             /\ Len(queue') \in Nat /\ Len(queue') > Len(queue)
             /\ \A i \in 1..Len(queue) : queue'[i] = queue[i]
             /\ \A i \in (Len(queue) + 1)..(Len(queue') - 1) : queue'[i].kind = "newValue"
             /\ queue'[Len(queue')].kind = "notify" /\ Offered(c)'
  <2>1. notify.kind = "notify" /\ Len(<<notify>>) = 1 /\ <<notify>>[1] = notify
    OBVIOUS
  <2> DEFINE more == <<notify>>
  <2>2. more \in Seq(Events) /\ Len(more) = 1 /\ more[1].kind = "notify" /\ Put(p, more)
    BY <1>2, <1>5, <2>1
  <2> HIDE DEF notify, more
  <2>3. /\ prop' = p /\ queue' \in Seq(Events)
        /\ Len(queue') = Len(queue) + 1 + Len(more)
        /\ \A i \in 1..Len(queue) : queue'[i] = queue[i]
        /\ queue'[Len(queue) + 1] = [kind |-> "newValue"]
        /\ \A i \in 1..Len(more) : queue'[Len(queue) + 1 + i] = more[i]
    BY <1>5, <2>2, PutEffect
  <2>4. Len(queue') = Len(queue) + 2 /\ Len(queue) + 1 + 1 = Len(queue) + 2
    BY <1>3, <2>2, <2>3
  <2>5. queue'[Len(queue')] = more[1]
    <3>1. 1 \in 1..Len(more)
      BY <2>2
    <3>2. queue'[Len(queue) + 1 + 1] = more[1]
      BY <2>3, <3>1
    <3> QED
      BY <2>4, <3>2
  <2>6. \A i \in (Len(queue) + 1)..(Len(queue') - 1) : queue'[i].kind = "newValue"
    <3> SUFFICES ASSUME NEW i \in (Len(queue) + 1)..(Len(queue') - 1)
                 PROVE  queue'[i].kind = "newValue"
      OBVIOUS
    <3>1. i = Len(queue) + 1
      BY <1>3, <2>4
    <3> QED
      BY <2>3, <3>1
  <2>7. n \in Nat /\ n \in env'.lengths
    BY EnvType
  <2>8. Offered(c)'
    <3>1. CASE p.type = "data" /\ p.text = Text(c, n)
      BY <2>3, <2>7, <3>1 DEF Offered, Plain
    <3>2. CASE p.type = "incr" /\ sending'.call = c /\ sending'.text = Text(c, n)
      BY <1>1, <2>3, <2>7, <3>2, TextIsRest DEF Offered, Marked, Sending
    <3> QED
      BY <1>5, <3>1, <3>2
  <2> QED
    BY <1>3, <1>5, <2>2, <2>3, <2>4, <2>5, <2>6, <2>8
<1>6. CASE \E n \in env.lengths :
              \/ /\ Put([type |-> "data", text |-> Text(c, n), hint |-> 0], <<notify>>)
                 /\ UNCHANGED sending
              \/ \E hint \in {0, n} :
                    /\ Put([type |-> "incr", text |-> <<>>, hint |-> hint], <<notify>>)
                    /\ sending' = [call |-> c, text |-> Text(c, n)]
  <2>1. PICK n \in env.lengths :
              \/ /\ Put([type |-> "data", text |-> Text(c, n), hint |-> 0], <<notify>>)
                 /\ UNCHANGED sending
              \/ \E hint \in {0, n} :
                    /\ Put([type |-> "incr", text |-> <<>>, hint |-> hint], <<notify>>)
                    /\ sending' = [call |-> c, text |-> Text(c, n)]
    BY <1>6
  <2>2. n \in Nat /\ Text(c, n) \in Seq(Piece)
    BY <1>1, EnvType, TextIsRest
  <2> DEFINE t == Text(c, n)
  <2> HIDE DEF t, notify
  <2>3. CASE /\ Put([type |-> "data", text |-> t, hint |-> 0], <<notify>>)
             /\ UNCHANGED sending
    <3> DEFINE p == [type |-> "data", text |-> t, hint |-> 0]
    <3>1. p \in Props /\ p.type = "data" /\ p.text = Text(c, n)
      BY <2>2 DEF Props, t
    <3>2. Put(p, <<notify>>) /\ sending' \in Transfers
      BY <1>3, <2>3
    <3> HIDE DEF p
    <3> QED
      BY <1>1, <1>3, <1>5, <3>1, <3>2
  <2>4. CASE \E hint \in {0, n} :
                /\ Put([type |-> "incr", text |-> <<>>, hint |-> hint], <<notify>>)
                /\ sending' = [call |-> c, text |-> t]
    <3>1. PICK hint \in {0, n} :
                /\ Put([type |-> "incr", text |-> <<>>, hint |-> hint], <<notify>>)
                /\ sending' = [call |-> c, text |-> t]
      BY <2>4
    <3> DEFINE p == [type |-> "incr", text |-> <<>>, hint |-> hint]
    <3>2. p \in Props /\ p.type = "incr" /\ Put(p, <<notify>>)
      BY <2>2, <3>1 DEF Props
    <3>3. /\ sending' \in Transfers
          /\ sending'.call = c /\ sending'.text = Text(c, n)
      BY <1>1, <2>2, <3>1 DEF Transfers, t
    <3> HIDE DEF p
    <3> QED
      BY <1>1, <1>3, <1>5, <3>2, <3>3
  <2> QED
    BY <2>1, <2>3, <2>4 DEF t
<1> QED
  BY <1>4, <1>6 DEF Answer

\* The answer to the lone reader's request is the last event in the queue.
LEMMA AnswerKeeps ==
    ASSUME IndInv, Answer, env' = env PROVE IndInv'
<1>1. TypeOK /\ CallsKept /\ inbox # <<>> /\ Head(inbox) # Deleted /\ inbox' = Tail(inbox)
  BY DEF IndInv, Answer
<1>2. /\ UNCHANGED <<env, readerVars, pending, state, receive, sweep, hand>>
      /\ UNCHANGED <<pc, call, outcome, reads>>
  BY DEF Answer, readerVars
<1>3. /\ inbox' \in Seq(Calls \cup {Deleted})
      /\ Head(inbox) = inbox[1] /\ Len(inbox) \in Nat \ {0}
      /\ Len(inbox') = Len(inbox) - 1
  BY <1>1, TakesInbox
<1>4. PICK c : c = Head(inbox)
  OBVIOUS
<1>5. /\ c \in Calls /\ queue' \in Seq(Events) /\ prop' \in Props /\ sending' \in Transfers
      /\ Len(queue) \in Nat /\ Len(queue') \in Nat /\ Len(queue') > Len(queue)
      /\ \A i \in 1..Len(queue) : queue'[i] = queue[i]
      /\ \A i \in (Len(queue) + 1)..(Len(queue') - 1) : queue'[i].kind = "newValue"
      /\ \/ queue'[Len(queue')].kind = "refused"
         \/ queue'[Len(queue')].kind = "notify" /\ Offered(c)'
  BY <1>1, <1>4, AnswerEffect
<1>6. TypeOK'
  BY <1>1, <1>2, <1>3, <1>5 DEF TypeOK, Props, Transfers
<1>7. CallsKept' /\ PendingKept'
  BY <1>2, ReadersApart
<1>8. StillAwaited'
  BY <1>2, Awaits
<1>9. LoneReader'
  <2> SUFFICES ASSUME NEW r \in Readers, env.readers = {r}, ~env.slow PROVE Stages(r)'
    BY <1>2 DEF LoneReader
  <2>1. Stages(r)
    BY DEF IndInv, LoneReader
  <2>2. 1 \in 1..Len(inbox) /\ inbox[1] # Deleted /\ c = inbox[1]
    BY <1>1, <1>3, <1>4
  <2>3. ~DeletedOnly(inbox)
    BY <2>2 DEF DeletedOnly
  <2>4. ~Quiet
    BY <2>3 DEF Quiet
  <2>5. SUFFICES ASSUME NEW d \in Calls, pc[r] = "wait", d = call[r] PROVE Moves(d)
    BY <1>1, <1>2, <2>1, <2>4, StagesKept DEF CallsKept
  <2>6. ASSUME Asked(d) PROVE Answered(d)'
    <3>1. /\ Idle /\ pending = d /\ NewValuesOnly(queue) /\ inbox[Len(inbox)] = d
          /\ \A i \in 1..(Len(inbox) - 1) : inbox[i] = Deleted
      BY <2>6 DEF Asked
    <3>2. Len(inbox) = 1
      BY <1>3, <2>2, <3>1
    <3>3. d = c /\ inbox' = <<>>
      BY <1>3, <2>2, <3>1, <3>2, EmptySeq
    <3>4. \A i \in 1..(Len(queue') - 1) : queue'[i].kind = "newValue"
      <4> SUFFICES ASSUME NEW i \in 1..(Len(queue') - 1) PROVE queue'[i].kind = "newValue"
        OBVIOUS
      <4>1. i \in 1..Len(queue) \/ i \in (Len(queue) + 1)..(Len(queue') - 1)
        BY <1>5
      <4> QED
        BY <1>5, <3>1, <4>1 DEF NewValuesOnly
    <3>5. Len(queue') > 0
      BY <1>5
    <3>6. Idle'
      BY <1>2, <3>1 DEF Idle
    <3> QED
      BY <1>2, <1>5, <3>1, <3>3, <3>4, <3>5, <3>6 DEF Answered
  <2>7. /\ ~Answered(d) /\ ~Peeking(d) /\ ~ReadingRest(d) /\ ~Registering(d) /\ ~Unmarking(d)
    BY <1>1 DEF Answered, Peeking, ReadingRest, Registering, Unmarking, InHand
  <2>8. ~Receiving(d)
    <3>1. \A k, n : ~Turn(d, k, n)
      BY <2>2, <1>1 DEF Turn
    <3> QED
      BY <1>1, <2>3, <3>1 DEF Receiving, Transfer
  <2> QED
    BY <2>6, <2>7, <2>8 DEF Moves
<1> QED
  BY <1>6, <1>7, <1>8, <1>9 DEF IndInv

\* What the owner does about a deletion.
LEMMA SendChunkEffect ==
    ASSUME TypeOK, SendChunk
    PROVE  /\ queue' \in Seq(Events) /\ prop' \in Props /\ sending' \in Transfers
           /\ NewValuesOnly(queue) => NewValuesOnly(queue')
           /\ sending # NoSend =>
                 /\ queue = <<>> => queue' = <<[kind |-> "newValue"]>>
                 /\ prop'.type = "data"
                 /\ sending.text = <<>> => prop'.text = <<>>
                 /\ sending.text # <<>> =>
                       /\ prop'.text = SubSeq(sending.text, 1, 1)
                       /\ sending'.call = sending.call /\ sending'.text = Tail(sending.text)
<1>1. queue \in Seq(Events) /\ prop \in Props /\ sending \in Transfers /\ Len(queue) \in Nat
  BY LenProperties DEF TypeOK, Props, Transfers
<1>2. CASE sending = NoSend
  BY <1>1, <1>2 DEF SendChunk
<1>3. CASE sending # NoSend
  <2> DEFINE t == SubSeq(sending.text, 1, IF sending.text = <<>> THEN 0 ELSE 1)
             p == [type |-> "data", hint |-> 0, text |-> t]
  <2>1. sending.text \in Seq(Piece) /\ sending.call \in Calls \cup {None}
    BY <1>1 DEF Transfers
  <2>2. sending.text = <<>> => t = <<>>
    <3>1. 0 \in Int /\ 1 \in Int /\ 0 < 1
      OBVIOUS
    <3>2. SubSeq(sending.text, 1, 0) = <<>>
      BY <3>1, SubSeqEmpty
    <3> QED
      BY <3>2
  <2>3. sending.text # <<>> => t = SubSeq(sending.text, 1, 1)
    OBVIOUS
  <2>4. t \in Seq(Piece)
    <3>1. CASE sending.text = <<>>
      BY <2>2, <3>1
    <3>2. CASE sending.text # <<>>
      <4>1. Len(sending.text) \in Nat \ {0} /\ sending.text[1] \in Piece
        BY <2>1, <3>2, Tailed
      <4>2. \A i \in 1..1 : sending.text[i] \in Piece
        BY <4>1
      <4>3. SubSeq(sending.text, 1, 1) \in Seq(Piece)
        BY <4>2, SubSeqProperties
      <4> QED
        BY <2>3, <3>2, <4>3
    <3> QED
      BY <3>1, <3>2
  <2>5. Put(p, <<>>)
    BY <1>3 DEF SendChunk
  <2> HIDE DEF t
  <2>6. p \in Props /\ p.type = "data" /\ p.text = t
    BY <2>4 DEF Props
  <2> HIDE DEF p
  <2> DEFINE more == <<>>
  <2>7. more \in Seq(Events) /\ Len(more) = 0 /\ Put(p, more)
    BY <2>5
  <2> HIDE DEF more
  <2>8. /\ prop' = p /\ queue' \in Seq(Events)
        /\ Len(queue') = Len(queue) + 1 + Len(more)
        /\ \A i \in 1..Len(queue) : queue'[i] = queue[i]
        /\ queue'[Len(queue) + 1] = [kind |-> "newValue"]
    BY <2>6, <2>7, PutEffect
  <2>9. Len(queue') = Len(queue) + 1
    BY <1>1, <2>7, <2>8
  <2>10. ASSUME NewValuesOnly(queue) PROVE NewValuesOnly(queue')
    <3> SUFFICES ASSUME NEW i \in 1..Len(queue') PROVE queue'[i].kind = "newValue"
      BY DEF NewValuesOnly
    <3>1. i \in 1..Len(queue) \/ i = Len(queue) + 1
      BY <1>1, <2>9
    <3> QED
      BY <2>8, <2>10, <3>1 DEF NewValuesOnly
  <2>11. ASSUME queue = <<>> PROVE queue' = <<[kind |-> "newValue"]>>
    <3> DEFINE e == [kind |-> "newValue"]
               q == <<e>>
    <3>1. e \in Events
      BY DEF Events
    <3> HIDE DEF e
    <3>2. q \in Seq(Events) /\ Len(q) = 1 /\ q[1] = e
      BY <3>1
    <3> HIDE DEF q
    <3>3. Len(queue) = 0
      BY <2>11
    <3>4. Len(queue') = 1 /\ queue'[1] = e
      <4>1. Len(queue) + 1 = 1
        BY <3>3
      <4>2. queue'[Len(queue) + 1] = e
        BY <2>8 DEF e
      <4> QED
        BY <2>9, <4>1, <4>2
    <3>5. \A i \in 1..Len(queue') : queue'[i] = q[i]
      BY <3>2, <3>4
    <3>6. queue' = q
      BY <2>8, <3>2, <3>4, <3>5, SeqEqual
    <3> QED
      BY <3>6 DEF q, e
  <2>12. /\ sending' \in Transfers
         /\ sending.text # <<>> =>
               sending'.call = sending.call /\ sending'.text = Tail(sending.text)
    <3>1. CASE sending.text = <<>>
      BY <1>3, <3>1, EmptyTypes DEF SendChunk
    <3>2. CASE sending.text # <<>>
      <4> DEFINE u == Tail(sending.text)
      <4>1. u \in Seq(Piece)
        BY <2>1, <3>2, Tailed
      <4>2. sending' = [sending EXCEPT !.text = u]
        BY <1>3, <3>2 DEF SendChunk
      <4> HIDE DEF u
      <4>3. sending' \in Transfers
        BY <1>1, <4>1, <4>2 DEF Transfers
      <4>4. sending'.call = sending.call /\ sending'.text = u
        BY <1>1, <4>2 DEF Transfers
      <4> QED
        BY <4>3, <4>4 DEF u
    <3> QED
      BY <3>1, <3>2
  <2> QED
    BY <2>2, <2>3, <2>6, <2>8, <2>10, <2>11, <2>12
<1> QED
  BY <1>2, <1>3

\* The owner's turn ends with the next piece, or the end, in the property.
LEMMA TurnPasses ==
    ASSUME TypeOK, SendChunk, NEW c \in Calls, NEW m \in Nat, NEW n \in Nat, Turn(c, m, n)
    PROVE  Turn(c, m, n)'
<1>1. inbox # <<>> /\ inbox' = Tail(inbox)
  BY DEF SendChunk
<1>2. inbox = <<Deleted>> /\ queue = <<>> /\ m <= n /\ Sending(c, m, n)
  BY <1>1 DEF Turn
<1>3. inbox' = <<>>
  BY <1>1, <1>2
<1>4. sending # NoSend
  BY <1>2, EmptyTypes DEF Sending
<1>5. /\ queue' = <<[kind |-> "newValue"]>> /\ prop'.type = "data"
      /\ sending.text = <<>> => prop'.text = <<>>
      /\ sending.text # <<>> =>
            /\ prop'.text = SubSeq(sending.text, 1, 1)
            /\ sending'.call = sending.call /\ sending'.text = Tail(sending.text)
  BY <1>2, <1>4, SendChunkEffect
<1>6. m \in 0..n
  BY <1>2
<1>7. /\ m = n => Rest(c, m, n) = <<>>
      /\ m < n => /\ Rest(c, m, n) # <<>>
                  /\ SubSeq(Rest(c, m, n), 1, 1) = <<<<c, m + 1>>>>
                  /\ Tail(Rest(c, m, n)) = Rest(c, m + 1, n)
  BY <1>6, RestTail
<1>8. Stocked(c, m, n)'
  <2>1. CASE m = n
    BY <1>2, <1>5, <1>7, <2>1 DEF Stocked, Sending
  <2>2. CASE m < n
    BY <1>2, <1>5, <1>7, <2>2 DEF Stocked, Sending
  <2> QED
    BY <1>2, <2>1, <2>2
<1> QED
  BY <1>3, <1>5, <1>8 DEF Turn

\* The owner's reaction to a deletion keeps it: either it belongs to this
\* transfer, or whatever it puts is ignored before the answer arrives.
LEMMA SendChunkKeeps ==
    ASSUME IndInv, SendChunk, env' = env PROVE IndInv'
<1>1. TypeOK /\ CallsKept /\ inbox # <<>> /\ Head(inbox) = Deleted /\ inbox' = Tail(inbox)
  BY DEF IndInv, SendChunk
<1>2. /\ UNCHANGED <<env, readerVars, pending, state, receive, sweep, hand>>
      /\ UNCHANGED <<pc, call, outcome, reads>>
  BY DEF SendChunk, readerVars
<1>3. /\ inbox' \in Seq(Calls \cup {Deleted})
      /\ Head(inbox) = inbox[1] /\ Len(inbox) \in Nat \ {0}
      /\ Len(inbox') = Len(inbox) - 1
      /\ \A i \in 1..(Len(inbox) - 1) : inbox'[i] = inbox[i + 1]
      /\ DeletedOnly(inbox) => DeletedOnly(inbox')
  BY <1>1, TakesInbox
<1>4. /\ queue' \in Seq(Events) /\ prop' \in Props /\ sending' \in Transfers
      /\ NewValuesOnly(queue) => NewValuesOnly(queue')
  BY <1>1, SendChunkEffect
<1>5. TypeOK'
  BY <1>1, <1>2, <1>3, <1>4 DEF TypeOK, Props, Transfers
<1>6. CallsKept' /\ PendingKept'
  BY <1>2, ReadersApart
<1>7. StillAwaited'
  BY <1>2, Awaits
<1>8. LoneReader'
  <2> SUFFICES ASSUME NEW r \in Readers, env.readers = {r}, ~env.slow PROVE Stages(r)'
    BY <1>2 DEF LoneReader
  <2>1. Stages(r)
    BY DEF IndInv, LoneReader
  <2>2. Quiet => Quiet'
    BY <1>2, <1>3, <1>4 DEF Quiet, Idle
  <2>3. SUFFICES ASSUME NEW c \in Calls, pc[r] = "wait", c = call[r] PROVE Moves(c)
    BY <1>1, <1>2, <2>1, <2>2, StagesKept DEF CallsKept
  <2>4. ASSUME Asked(c) PROVE Asked(c)'
    <3>1. /\ Idle /\ pending = c /\ NewValuesOnly(queue) /\ inbox[Len(inbox)] = c
          /\ \A i \in 1..(Len(inbox) - 1) : inbox[i] = Deleted
      BY <2>4 DEF Asked
    <3>2. c # Deleted
      BY <2>3, EmptyTypes DEF Deleted, None
    <3>3. Len(inbox) # 1
      BY <1>1, <1>3, <3>1, <3>2
    <3>4. Len(inbox') > 0 /\ inbox'[Len(inbox')] = c
      BY <1>3, <3>1, <3>3
    <3>5. ASSUME NEW i \in 1..(Len(inbox') - 1) PROVE inbox'[i] = Deleted
      <4>1. i \in 1..(Len(inbox) - 1) /\ i + 1 \in 1..(Len(inbox) - 1)
        BY <1>3
      <4> QED
        BY <1>3, <3>1, <4>1
    <3>6. Idle'
      BY <1>2, <3>1 DEF Idle
    <3> QED
      BY <1>2, <1>4, <3>1, <3>4, <3>5, <3>6 DEF Asked
  <2>5. /\ ~Answered(c) /\ ~Peeking(c) /\ ~ReadingRest(c) /\ ~Registering(c) /\ ~Unmarking(c)
    BY <1>1 DEF Answered, Peeking, ReadingRest, Registering, Unmarking, InHand
  <2>6. ASSUME Receiving(c) PROVE Receiving(c)'
    <3>1. PICK n \in env.lengths, k \in 0..Cap : Transfer(c, k, n)
      BY <2>6 DEF Receiving
    <3>2. n \in Nat /\ k \in Nat /\ k + 1 \in Nat
      BY <1>1, EnvType
    <3>3. /\ Turn(c, k, n) => Turn(c, k, n)'
          /\ Turn(c, k + 1, n) => Turn(c, k + 1, n)'
      BY <1>1, <2>3, <3>2, TurnPasses
    <3>4. Transfer(c, k, n)'
      BY <1>1, <1>2, <1>3, <1>4, <3>1, <3>3 DEF Transfer
    <3> QED
      BY <1>2, <3>4 DEF Receiving
  <2> QED
    BY <2>4, <2>5, <2>6 DEF Moves
<1> QED
  BY <1>5, <1>6, <1>7, <1>8 DEF IndInv

-----------------------------------------------------------------------------
(* The theorems.                                                           *)

\* Nothing has been asked at the start.
LEMMA IndInvInit == Init => IndInv
<1> SUFFICES ASSUME Init PROVE IndInv
  OBVIOUS
<1> USE DEF Init
<1>1. TypeOK
  <2>1. [st |-> "awaiting", result |-> Nothing] \in States
    BY ResultTypes DEF States
  <2>2. state \in [Calls -> States]
    BY <2>1
  <2>3. reads \in 0..MaxReads
    BY ReadAssumption
  <2>4. /\ hand \in Hands /\ prop \in Props /\ sending \in Transfers
        /\ receive \in [call : Calls \cup {None}, acc : Seq(Piece)]
    BY EmptyTypes
  <2>5. outcome \in [Readers -> Result] /\ call \in [Readers -> Calls \cup {None}]
    BY ResultTypes
  <2>6. queue \in Seq(Events) /\ inbox \in Seq(Calls \cup {Deleted})
    OBVIOUS
  <2> QED
    BY <2>2, <2>3, <2>4, <2>5, <2>6 DEF TypeOK, States, Hands, Props, Transfers
<1>2. CallsKept /\ PendingKept /\ StillAwaited
  BY ResultTypes DEF CallsKept, PendingKept, StillAwaited
<1>3. LoneReader
  <2> SUFFICES ASSUME NEW r \in Readers PROVE Stages(r)
    BY DEF LoneReader
  <2>1. Quiet
    BY DEF Quiet, Idle, NewValuesOnly, DeletedOnly
  <2>2. Sound(call[r], outcome[r])
    BY ResultTypes DEF Sound
  <2> QED
    BY <2>1, <2>2 DEF Stages, None
<1> QED
  BY <1>1, <1>2, <1>3 DEF IndInv

\* Every step keeps the inductive invariant.
LEMMA IndInvStep == IndInv /\ [Next]_<<env, vars>> => IndInv'
<1> SUFFICES ASSUME IndInv, [Next]_<<env, vars>> PROVE IndInv'
  OBVIOUS
<1>1. CASE UNCHANGED <<env, vars>>
  <2>1. TypeOK' /\ CallsKept' /\ PendingKept' /\ StillAwaited'
    <3>1. TypeOK'
      BY <1>1 DEF IndInv, vars, TypeOK
    <3>2. CallsKept' /\ PendingKept'
      BY <1>1 DEF IndInv, vars, CallsKept, PendingKept
    <3>3. StillAwaited'
      BY <1>1 DEF IndInv, vars, StillAwaited, OneReader
    <3> QED
      BY <3>1, <3>2, <3>3
  <2>2. LoneReader'
    BY <1>1 DEF IndInv, vars, LoneReader, Stages, Quiet, Idle, Sound, NewValuesOnly,
       DeletedOnly, Asked, Answered, Offered, Plain, Marked, Sending, Peeking, InHand,
       ReadingRest, Registering, Unmarking, Receiving, Transfer, Turn, Stocked
  <2> QED
    BY <2>1, <2>2 DEF IndInv
<1>2. CASE Next
  <2>1. env' = env
    BY <1>2 DEF Next
  <2>2. ASSUME NEW r \in Readers, BeginRead(r) \/ ReaderStep(r) PROVE IndInv'
    BY <2>1, <2>2, BeginReadKeeps, SendConvertKeeps, TakeResultKeeps, TimeOutKeeps,
       UnregisterKeeps DEF ReaderStep
  <2>3. CASE EventThread
    BY <2>1, <2>3, SelectionNotifyKeeps, PeekKeeps, ReadRestKeeps, RegisterReceiveKeeps,
       DeleteMarkerKeeps, NewValueKeeps, GetChunkKeeps, AppendChunkKeeps DEF EventThread
  <2>4. CASE Watchdog
    BY <2>1, <2>4, WatchdogKeeps
  <2>5. CASE Owner
    BY <2>1, <2>5, AnswerKeeps, SendChunkKeeps DEF Owner
  <2> QED
    BY <1>2, <2>2, <2>3, <2>4, <2>5 DEF Next
<1> QED
  BY <1>1, <1>2

\* The inductive invariant holds in every reachable state.
LEMMA IndInvAlways == Spec => []IndInv
  BY IndInvInit, IndInvStep, PTL DEF Spec

\* The inductive invariant implies the property.
LEMMA IndInvReadIsOwnAnswer == IndInv => ReadIsOwnAnswer
<1> SUFFICES ASSUME IndInv PROVE ReadIsOwnAnswer
  OBVIOUS
<1>1. ASSUME OneReader, ~env.slow, NEW r \in Readers, pc[r] \in {"idle", "drop"},
             outcome[r].kind = "text"
      PROVE  \E n \in env.lengths : n <= Cap /\ outcome[r].text = Text(call[r], n)
  <2>1. PICK q \in Readers : env.readers = {q}
    BY <1>1 DEF OneReader
  <2>2. r = q
    BY <1>1, <2>1 DEF IndInv, CallsKept
  <2>3. Sound(call[r], outcome[r])
    BY <1>1, <2>1, <2>2 DEF IndInv, LoneReader, Stages
  <2> QED
    BY <1>1, <2>3 DEF Sound
<1> QED
  BY <1>1 DEF IndInv, ReadIsOwnAnswer, PendingKept

\* With one reader and an owner that keeps the bounds, read_text returns the
\* whole text the owner gave for this very call, within the cap; and
\* pending_reads holds only calls that are under way.
THEOREM ReadsOwnAnswer == Spec => []ReadIsOwnAnswer
  BY IndInvAlways, IndInvReadIsOwnAnswer, PTL

\* The event thread never throws away the answer to the read that waits for
\* it: the registration of a lone reader is still there, however many of its
\* earlier reads timed out.
THEOREM AnswersNeverDropped == Spec => AnswerNotDropped
<1>1. ASSUME IndInv, SelectionNotify, OneReader, NEW r \in Readers, pc[r] = "wait"
      PROVE  pending # None \/ state[call[r]].st # "awaiting"
  <2>1. call[r] \in Calls /\ call[r] # None /\ hand.step = "poll"
    BY <1>1, EmptyTypes DEF IndInv, CallsKept, SelectionNotify
  <2> QED
    BY <1>1, <2>1 DEF IndInv, StillAwaited
<1>2. IndInv /\ [Next]_<<env, vars>> =>
         [OneReader =>
             \A r \in Readers :
                /\ SelectionNotify
                /\ Head(queue).call = call[r]
                /\ pc[r] = "wait"
                => pending # None \/ state[call[r]].st # "awaiting"]_vars
  BY <1>1
<1> QED
  BY <1>2, IndInvAlways, PTL DEF Spec, AnswerNotDropped

=============================================================================
