------------------------------- MODULE Engine -------------------------------
(***************************************************************************)
(* Engine::scrub, scrub_with_session, restore and restore_with_session     *)
(* (engine.rs) with the exact matcher, the idempotence check and the two   *)
(* kinds of tokenizer behind them: a text is scrubbed, the scrubbed text   *)
(* is pasted back, and it is restored by the same vault.                   *)
(*                                                                         *)
(* Texts are sequences of bytes, because the code slices them by byte      *)
(* offsets.  What FF1 and the generators make of a value is a parameter:   *)
(* fakes may share bytes with texts, values and one another, form a value  *)
(* together with the text around them, or be alike.  FF1 is a bijection,   *)
(* so a candidate decrypts to the value of r exactly if it is what r's     *)
(* value was encrypted to.  Registrations made by the command line have no *)
(* literal prefix, so every window of the right length over the alphabet   *)
(* is a candidate of restore.  The generators' own failures, the panic of  *)
(* make_macfake included, are Recognition's subject.                       *)
(***************************************************************************)
EXTENDS SessionMapOps, Sequences

CONSTANTS
    Bytes,     \* bytes of texts
    Fpe,       \* FF1 registrations
    Broken,    \* FF1 registrations whose eligibility re-check fails at scrub time
    Value,     \* the value of every registration, Reals being the session-mapped
    Cipher,    \* what FF1 encrypts the value of an FF1 registration to
    FakeOf,    \* [Reals -> Fakes \cup {NoneMade}]: the deterministic generators
    NoneMade,  \* a generator returned None
    Marker,    \* REDACTION_PLACEHOLDER, of bytes outside the alphabet
    Letters,   \* bytes of the alphabet
    Conts,     \* bytes that continue a multi-byte character
    Texts      \* input texts

ASSUME EngineAssumption ==
    /\ Broken \subseteq Fpe
    /\ Value \in [Fpe \cup Reals -> Seq(Bytes)]
    /\ \A r \in Fpe \cup Reals : Len(Value[r]) > 0
    /\ Letters \subseteq Bytes
    /\ Cipher \in [Fpe -> Seq(Letters)]
    /\ \A r \in Fpe : Len(Cipher[r]) = Len(Value[r])
    /\ FakeOf \in [Reals -> Fakes \cup {NoneMade}] /\ NoneMade \notin Fakes
    /\ Fakes \cup {Marker} \subseteq Seq(Bytes)
    /\ \A f \in Fakes \cup {Marker} : Len(f) > 0
    /\ Texts \subseteq Seq(Bytes)

\* A registration has one tokenizer.
ASSUME KindsAssumption == Fpe \cap Reals = {}

VARIABLES
    phase,       \* where the caller is
    session,     \* whether a session map is threaded through
    original,    \* the text that was scrubbed
    input,       \* the text the running pass reads
    output,      \* what it has emitted
    cursor,      \* how many bytes of input it has consumed
    sessionMap,  \* the session map
    notices,     \* registrations the caller was told are not restorable
    hits,        \* history: registrations that were replaced
    spots,       \* history: where in the output, and which
    printed,     \* history: what scrub returned
    pending      \* fakes, or windows, the restore pass has still to look at

engineVars ==
    <<phase, session, original, input, output, cursor, sessionMap, notices, hits,
      spots, printed, pending>>

\* What restore leaves alone.
scrubVars == <<session, original, notices, hits, spots>>

Registered == Fpe \cup Reals

\* Values that get a fake a session can restore.
Storable == {r \in Reals : FakeOf[r] # NoneMade}

OccursAt(t, s, i) ==
    /\ i + Len(s) - 1 <= Len(t)
    /\ \A k \in 1..Len(s) : t[i + k - 1] = s[k]

Occurs(t, s) == \E i \in 1..Len(t) : OccursAt(t, s, i)

\* str::replace: every occurrence of s becomes v, from left to right.
ReplaceAll(t, s, v) ==
    LET from[i \in 1..(Len(t) + 1)] ==
            IF i > Len(t) THEN <<>>
            ELSE IF OccursAt(t, s, i) THEN v \o from[i + Len(s)]
            ELSE <<t[i]>> \o from[i + 1]
    IN  from[1]

EngineTypeOK ==
    /\ phase \in {"idle", "scrub", "scrubbed", "session", "collect", "windows",
                  "restored", "panicked"}
    /\ session \in BOOLEAN
    /\ cursor \in 0..Len(input)
    /\ IsMap(sessionMap)
    /\ notices \subseteq Registered
    /\ hits \subseteq Registered
    /\ spots \subseteq (Nat \ {0}) \X hits
    /\ phase = "session" => pending \subseteq Fakes
    /\ phase = "windows" => pending \subseteq (1..Len(input)) \X (1..Len(input))

EngineInit ==
    /\ phase = "idle"
    /\ session = FALSE
    /\ original = <<>>
    /\ input = <<>>
    /\ output = <<>>
    /\ cursor = 0
    /\ sessionMap = EmptyMap
    /\ notices = {}
    /\ hits = {}
    /\ spots = {}
    /\ printed = <<>>
    /\ pending = {}

-----------------------------------------------------------------------------
(* scrub_impl.                                                             *)

Begin ==
    /\ phase = "idle"
    /\ \E t \in Texts, s \in BOOLEAN :
          /\ original' = t
          /\ input' = t
          /\ session' = s
    /\ phase' = "scrub"
    /\ UNCHANGED <<output, cursor, sessionMap, notices, hits, spots, printed, pending>>

\* Registrations whose value stands at byte i of the input.
At(i) == {r \in Registered : OccursAt(input, Value[r], i)}

\* The exact matcher reports leftmost-longest matches that do not overlap.
MatchStarts == {i \in (cursor + 1)..Len(input) : At(i) # {}}
NextMatch == CHOOSE i \in MatchStarts : \A j \in MatchStarts : i <= j
LongestOf(R) == {r \in R : \A q \in R : Len(Value[q]) <= Len(Value[r])}

\* FF1 trial-decryption: the registrations a candidate is the fake of.
Decrypts(c) == {r \in Fpe : c = Cipher[r]}

\* IdempotenceContext::classify.  Equality with a registered value comes
\* before every recognition check, so of the three checks, which could only
\* matter after it, trial-decryption stands for all.
NoOp(c) == (\A r \in Fpe : c # Value[r]) /\ Decrypts(c) # {}

\* Faulty variant: a value without a fake passes through.
ReplacementFailsOpen(r) ==
    IF r \in Fpe
    THEN IF NoOp(Value[r]) \/ r \in Broken THEN Value[r] ELSE Cipher[r]
    ELSE IF FakeOf[r] = NoneMade THEN Marker ELSE FakeOf[r]

\* What is emitted for a match of registration r.  Without a fake the
\* value is redacted.
Replacement(r) ==
    IF r \in Fpe
    THEN IF NoOp(Value[r]) THEN Value[r]
         ELSE IF r \in Broken THEN Marker ELSE Cipher[r]
    ELSE IF FakeOf[r] = NoneMade THEN Marker ELSE FakeOf[r]

\* SessionStore::store: the maps it can leave.
Stored(r) ==
    IF session /\ r \in Reals /\ FakeOf[r] # NoneMade
    THEN {o.map : o \in GetOrInsert(sessionMap, r, FakeOf[r], 0)}
    ELSE {sessionMap}

\* Faulty variant: a fake counts as stored in either mode.
NoticesNotStateless(r) ==
    IF r \in Broken \/ (r \in Reals /\ FakeOf[r] = NoneMade) THEN {r} ELSE {}

\* The registrations a notice is pushed for.
Notices(r) ==
    IF r \in Broken \/ (r \in Reals /\ (FakeOf[r] = NoneMade \/ ~session))
    THEN {r}
    ELSE {}

ScrubMatch ==
    /\ phase = "scrub"
    /\ MatchStarts # {}
    /\ \E r \in LongestOf(At(NextMatch)) :
          /\ output' = output \o SubSeq(input, cursor + 1, NextMatch - 1) \o Replacement(r)
          /\ cursor' = NextMatch + Len(Value[r]) - 1
          /\ sessionMap' \in Stored(r)
          /\ notices' = notices \cup Notices(r)
          /\ hits' = hits \cup {r}
          /\ spots' = spots \cup {<<Len(output) + NextMatch - cursor, r>>}
    /\ UNCHANGED <<phase, session, original, input, printed, pending>>

ScrubRest ==
    /\ phase = "scrub"
    /\ MatchStarts = {}
    /\ output' = output \o SubSeq(input, cursor + 1, Len(input))
    /\ cursor' = 0
    /\ phase' = "scrubbed"
    /\ UNCHANGED <<scrubVars, input, sessionMap, printed, pending>>

-----------------------------------------------------------------------------
(* restore and restore_with_session.                                       *)

\* The scrubbed text comes back; the candidates of the session pass are the
\* fakes of the map that occur in it.
Paste ==
    /\ phase = "scrubbed"
    /\ input' = output
    /\ output' = <<>>
    /\ printed' = output
    /\ IF session
       THEN /\ phase' = "session"
            /\ pending' = {f \in DOMAIN sessionMap.byFake : Occurs(output, f)}
       ELSE /\ phase' = "collect"
            /\ pending' = {}
    /\ UNCHANGED <<scrubVars, cursor, sessionMap>>

\* Faulty variant: candidates are dropped without replacing them.
SessionFakeIgnored ==
    /\ phase = "session"
    /\ \E f \in pending : pending' = pending \ {f}
    /\ UNCHANGED <<scrubVars, phase, input, output, cursor, sessionMap, printed>>

\* One candidate of the session pass, in the order of a hash map.
SessionFake ==
    /\ phase = "session"
    /\ \E f \in pending :
          /\ LET found == RestoreResult(sessionMap, f, 0)
             IN  input' = IF found = {} THEN input
                          ELSE ReplaceAll(input, f, Value[CHOOSE r \in found : TRUE])
          /\ sessionMap' = Restore(sessionMap, f, 0)
          /\ pending' = pending \ {f}
    /\ UNCHANGED <<scrubVars, phase, output, cursor, printed>>

SessionDone ==
    /\ phase = "session"
    /\ pending = {}
    /\ phase' = "collect"
    /\ UNCHANGED <<scrubVars, input, output, cursor, sessionMap, printed, pending>>

\* Byte offset i (from 0) is not inside a character.
Boundary(i) == i >= Len(input) \/ input[i + 1] \notin Conts

\* The search for an empty prefix visits every offset up to the first from
\* which the value would not fit, and slices the text there and, before
\* that, at the window's end.  A slice inside a character panics.
Panics(n) ==
    \E i \in 0..Len(input) :
       \/ i + n <= Len(input) /\ (~Boundary(i) \/ ~Boundary(i + n))
       \/ i + n = Len(input) + 1 /\ ~Boundary(i)

\* The candidate windows (first and last byte).
Windows ==
    {w \in (1..Len(input)) \X (1..Len(input)) :
        /\ \E r \in Fpe : w[2] = w[1] + Len(Value[r]) - 1
        /\ \A k \in w[1]..w[2] : input[k] \in Letters}

Collect ==
    /\ phase = "collect"
    /\ IF \E r \in Fpe : Panics(Len(Value[r]))
       THEN phase' = "panicked" /\ UNCHANGED pending
       ELSE phase' = "windows" /\ pending' = Windows
    /\ UNCHANGED <<scrubVars, input, output, cursor, sessionMap, printed>>

\* The order of sort_unstable.
First(W) ==
    CHOOSE w \in W : \A x \in W : w[1] < x[1] \/ (w[1] = x[1] /\ w[2] <= x[2])

\* Faulty variant: windows are not checked against the cursor.
TryWindowOverlapping ==
    /\ phase = "windows"
    /\ pending # {}
    /\ LET w == First(pending)
           c == SubSeq(input, w[1], w[2])
       IN  /\ pending' = pending \ {w}
           /\ cursor' = w[2]
           /\ output' = output \o SubSeq(input, cursor + 1, w[1] - 1)
                            \o (IF Decrypts(c) # {}
                                THEN Value[CHOOSE r \in Decrypts(c) : TRUE] ELSE c)
    /\ UNCHANGED <<scrubVars, phase, input, sessionMap, printed>>

\* The walk over the windows.  One that begins before the cursor is
\* skipped; any other is consumed whether it decrypts or not.
TryWindow ==
    /\ phase = "windows"
    /\ pending # {}
    /\ LET w == First(pending)
           c == SubSeq(input, w[1], w[2])
       IN  /\ pending' = pending \ {w}
           /\ IF w[1] <= cursor
              THEN UNCHANGED <<output, cursor>>
              ELSE /\ cursor' = w[2]
                   /\ output' = output \o SubSeq(input, cursor + 1, w[1] - 1)
                                    \o (IF Decrypts(c) # {}
                                        THEN Value[CHOOSE r \in Decrypts(c) : TRUE] ELSE c)
    /\ UNCHANGED <<scrubVars, phase, input, sessionMap, printed>>

RestoreRest ==
    /\ phase = "windows"
    /\ pending = {}
    /\ output' = output \o SubSeq(input, cursor + 1, Len(input))
    /\ phase' = "restored"
    /\ UNCHANGED <<scrubVars, input, cursor, sessionMap, printed, pending>>

EngineNext ==
    \/ Begin \/ ScrubMatch \/ ScrubRest
    \/ Paste \/ SessionFake \/ SessionDone
    \/ Collect \/ TryWindow \/ RestoreRest

EngineSpec == EngineInit /\ [][EngineNext]_engineVars

-----------------------------------------------------------------------------
(* Properties.                                                             *)

\* Bytes of the output that scrub made: they belong to a replacement which
\* is not the value itself.
Made(k) ==
    \E spot \in spots :
        LET r == spot[2]
        IN  /\ Replacement(r) # Value[r]
            /\ k \in spot[1]..(spot[1] + Len(Replacement(r)) - 1)

\* The fail-closed contract: no path lets the text carry a registered value
\* through scrub, also where matches overlap or a tokenizer fails.  Where a
\* value stands in the output all the same, a fake and the text around it
\* have formed it by chance.
NoLeak ==
    phase = "scrubbed" =>
        \A r \in Registered : \A i \in 1..Len(output) :
            OccursAt(output, Value[r], i) => \E k \in i..(i + Len(Value[r]) - 1) : Made(k)

\* Unrestorability is silent in two cases only: of the values that FF1
\* cannot restore, each one replaced has a notice, or is in the session map
\* under the fake that was emitted, or shares that fake with another one
\* that was replaced, or the text has more values than the session holds.
\* (In both cases "the fake IS restorable in-process through `session`", the
\* reason scrub_with_session gives for leaving the notice out, is not true.)
NeverSilent ==
    /\ EngineTypeOK
    /\ phase = "scrubbed" =>
         \A r \in hits \ (Fpe \ Broken) :
            \/ r \in notices
            \/ <<FakeOf[r], r>> \in Entries(sessionMap)
            \/ \E q \in hits \cap Reals : q # r /\ FakeOf[q] = FakeOf[r]
            \/ Cardinality(hits \cap Storable) > MaxEntries

\* A fake at the start of a run of alphabet bytes, than whose value no
\* registered value is shorter.
StandsAlone(r, i) ==
    /\ OccursAt(input, Cipher[r], i)
    /\ i = 1 \/ input[i - 1] \notin Letters
    /\ \A q \in Fpe : Len(Value[r]) <= Len(Value[q])

\* "Bytes that aren't engine-produced fakes pass through unchanged": the
\* walk over overlapping windows never drops, repeats or moves a byte, and
\* a byte it changes belongs to a fake that became its value.  It misses
\* none that stands alone, whatever follows (two registrations may share
\* it).
RestoresFakesOnly ==
    phase = "restored" =>
        /\ Len(output) = Len(input)
        /\ \A k \in 1..Len(input) : output[k] # input[k] =>
              \E r \in Fpe, i \in 1..k :
                 /\ k < i + Len(Value[r])
                 /\ OccursAt(input, Cipher[r], i)
                 /\ OccursAt(output, Value[r], i)
        /\ \A r \in Fpe : \A i \in 1..Len(input) : StandsAlone(r, i) =>
              \E q \in Fpe : Cipher[q] = Cipher[r] /\ OccursAt(output, Value[q], i)

\* "For every input shape, scrub then restore must produce a byte-identical
\* copy of the original", for a text all of whose matches were encrypted
\* and which held no fake before.  Violated: a character of several bytes
\* makes restore panic; and among characters of one byte the window of a
\* shorter registration can swallow the beginning of a longer fake, which
\* stays.
RoundTripExact ==
    /\ phase \in {"restored", "panicked"}
    /\ hits \subseteq Fpe \ Broken
    /\ \A r \in Fpe : ~Occurs(original, Cipher[r])
    => phase = "restored" /\ output = original

\* A text all of whose matches are in the session map comes back unchanged,
\* in whatever order the fakes are replaced, provided that fakes stand in
\* the scrubbed text only where scrub put them (192.0.2.1 also stands in
\* 192.0.2.17, and the replacement goes by substring), that they share no
\* byte with the values, and that the text held no FF1 fake before.
SessionRoundTrip ==
    LET emitted == {FakeOf[r] : r \in hits}
    IN  /\ phase = "restored"
        /\ session
        /\ \A r \in hits : r \in Storable /\ <<FakeOf[r], r>> \in Entries(sessionMap)
        /\ \A f \in emitted : \A i \in 1..Len(printed) :
              OccursAt(printed, f, i) => \E r \in hits : FakeOf[r] = f /\ <<i, r>> \in spots
        /\ \A f \in emitted, r \in hits : \A i \in 1..Len(f), k \in 1..Len(Value[r]) :
              f[i] # Value[r][k]
        /\ \A r \in Fpe : ~Occurs(original, Cipher[r])
        => output = original

=============================================================================
