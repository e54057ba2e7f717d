---------------------------- MODULE Recognition ----------------------------
(***************************************************************************)
(* What the engine's registrations go through: values are registered with  *)
(* the kind the eligibility check gives them, forgotten or retired; their  *)
(* fakes come back and are classified, restored or left alone; texts are   *)
(* scanned for the values.                                                 *)
(*                                                                         *)
(* Engine composes these parts over whole texts with idealised fakes; here *)
(* the fakes are computed, and may collide with each other, with values    *)
(* and with MAC tails, as they may in the code.                            *)
(***************************************************************************)
EXTENDS Tokenizers, ReservedFakes, Detection

CONSTANTS
    Values,      \* values a user registers
    Prefixes,    \* literal prefixes; the command line uses the empty one
    Tweaks,      \* FF1 tweaks
    Structured,  \* values registered as e-mail, IPv4 address or phone number
    Cards,       \* values registered as cards
    Sha(_),      \* SHA-256 of a value, a function on 0..31
    MaxRegs,     \* bound on registrations
    Lines,       \* texts that are scanned
    Rules,       \* the pattern rules, in order
    Candidates   \* strings that are tried as fakes

VARIABLES
    regs,        \* the vault's entries, in order
    retired      \* the last forgotten entry kept for recognition, or none

recognitionVars == <<regs, retired>>

SessionKinds == {"Formatless", "Card", "Email", "Ipv4", "Phone"}

Elements(s) == {s[i] : i \in DOMAIN s}

OfFpe(rs) == {r \in Elements(rs) : r.kind = "Fpe"}

ValuesOf(rs) == [i \in DOMAIN rs |-> rs[i].value]

\* The characters of the program's strings; what is registered as structured
\* is only hashed.
Strings == Values \cup Prefixes \cup Cards \cup Candidates
Chars == Elements(Alphabet) \cup Elements(Digits) \cup UNION {Elements(s) : s \in Strings}

\* FF1 permutes the numeral strings of every length it is used at.
Permutes(t, n) ==
    LET numerals == [1..n -> 0..(Radix - 1)] IN
    /\ \A x \in numerals : Ff1(t, x) \in numerals /\ \E y \in numerals : Ff1(t, y) = x
    /\ \A x, y \in numerals : Ff1(t, x) = Ff1(t, y) => x = y

ASSUME RecognitionAssumption ==
    /\ Alphabet \in Seq(Chars) /\ Strings \subseteq Seq(Chars)
    /\ NoFake \notin Seq(Chars) /\ Panic \notin Seq(Chars) /\ Panic # NoFake
    /\ HkdfMax \in Nat
    /\ \A v \in Structured : Len(v) \in Nat /\ (Len(v) = 0 => v = <<>>)
    /\ \A t \in Lines : Len(t) \in Nat
    /\ Len(Rules) \in Nat /\ DOMAIN Rules = 1..Len(Rules)
    /\ \A i \in DOMAIN Rules : Len(Rules[i]) \in Nat \ {0}
    /\ MinDomain \in Nat /\ MaxWord \in Nat /\ MinDomain <= MaxWord
    /\ MacSpace \in Nat \ {0, 1}
    /\ \A t \in Tweaks, v \in Values, p \in Prefixes :
          Len(p) <= Len(v) => Permutes(t, Len(v) - Len(p))
    /\ \A v \in Structured \cup Cards : Sha(v) \in [0..31 -> 0..255]
    /\ \A v \in Values :
          /\ \A i \in 1..ByteLen(v) : Derived(v, i) \in Nat
          /\ ByteLen(v) > MacTailLen /\ ByteLen(v) - MacTailLen <= HkdfMax =>
                Hash(DeriveBody(v, ByteLen(v) - MacTailLen)) \in Nat

RecognitionInit == regs = <<>> /\ retired = <<>>

-----------------------------------------------------------------------------
(* Registrations and their fakes.                                          *)

Add(r) ==
    /\ Len(regs) < MaxRegs
    /\ regs' = Append(regs, r)
    /\ UNCHANGED retired

\* register: an ineligible value becomes a session-mapped one.
Register(v, p, t) ==
    Add([kind |-> IF CheckEligibility(v, p) = "ok" THEN "Fpe" ELSE "Formatless",
         value |-> v, prefix |-> p, tweak |-> t])

\* The kinds the command line does not give.
RegisterAs(k, v) == Add([kind |-> k, value |-> v, prefix |-> <<>>, tweak |-> 0])

\* forget.  The engine can be given forgotten FF1 entries as retired.
Forget(i, keep) ==
    /\ regs' = SubSeq(regs, 1, i - 1) \o SubSeq(regs, i + 1, Len(regs))
    /\ retired' = IF keep /\ regs[i].kind = "Fpe" THEN <<regs[i]>> ELSE retired

\* The fake scrub_impl emits; without one the value is redacted.
FakeFor(r) ==
    CASE r.kind = "Fpe"        -> FpeScrub(r)
      [] r.kind = "Formatless" -> MakeMacFake(r.value)
      [] r.kind = "Email"      -> FakeEmail(Sha(r.value))
      [] r.kind = "Ipv4"       -> FakeIpv4(Sha(r.value))
      [] r.kind = "Phone"      -> FakePhone(Sha(r.value))
      [] r.kind = "Card"       -> IF FakeCardVisa16(Sha(r.value), r.value) = <<>> THEN NoFake
                                  ELSE FakeCardVisa16(Sha(r.value), r.value)

\* Faulty variant: recognition comes before equality with a value.
ClassifyRecognisesFirst(c) ==
    IF TryRestore(c, regs) # NoFake THEN "Ff1DecryptedToRegistered"
    ELSE IF TryRestore(c, retired) # NoFake THEN "Ff1DecryptedToRetired"
    ELSE IF IsInReservedRange(c) THEN "ReservedRange"
    ELSE IF Verify(c) THEN "MacVerified"
    ELSE "Scrub"

\* IdempotenceContext::classify.
Classify(c) ==
    IF \E r \in OfFpe(regs) : r.value = c THEN "Scrub"
    ELSE IF TryRestore(c, regs) # NoFake THEN "Ff1DecryptedToRegistered"
    ELSE IF TryRestore(c, retired) # NoFake THEN "Ff1DecryptedToRetired"
    ELSE IF IsInReservedRange(c) THEN "ReservedRange"
    ELSE IF Verify(c) THEN "MacVerified"
    ELSE "Scrub"

RecognitionNext ==
    \/ \E v \in Values, p \in Prefixes, t \in Tweaks : Register(v, p, t)
    \/ \E v \in Structured, k \in {"Email", "Ipv4", "Phone"} : RegisterAs(k, v)
    \/ \E v \in Cards : RegisterAs("Card", v)
    \/ \E i \in DOMAIN regs, keep \in BOOLEAN : Forget(i, keep)

RecognitionSpec == RecognitionInit /\ [][RecognitionNext]_recognitionVars

-----------------------------------------------------------------------------
(* Properties.                                                             *)

\* Registered secrets are immune to false recognition, even where one looks
\* like a fake of another or ends in its own MAC; and a fake of any kind that
\* is not itself a registered secret is left alone when it is scrubbed again,
\* that of a retired entry included.
ScrubIdempotent ==
    /\ \A r \in OfFpe(regs) : Classify(r.value) = "Scrub"
    /\ \A r \in Elements(regs) \cup Elements(retired) :
          \/ FakeFor(r) \in {NoFake, Panic}
          \/ \E q \in OfFpe(regs) : q.value = FakeFor(r)
          \/ Classify(FakeFor(r)) # "Scrub"

\* Trial decryption answers with a value of which the candidate really is
\* the fake, never with anything for another string, and knows every fake of
\* a registered value, whichever registrations share its profile.
RestoresItsFakesOnly ==
    /\ \A c \in Candidates :
          TryRestore(c, regs) # NoFake =>
             \E r \in OfFpe(regs) : r.value = TryRestore(c, regs) /\ FpeScrub(r) = c
    /\ \A r \in OfFpe(regs) : TryRestore(FpeScrub(r), regs) # NoFake

\* The part of FakesFitValues about cards.
CardFakesValid ==
    \A r \in Elements(regs) :
       r.kind = "Card" =>
          LET f == FakeFor(r)
              digits == DigitsOf(f)
          IN
          /\ f = NoFake <=> Len(DigitsOf(r.value)) # 16
          /\ f # NoFake =>
                /\ Len(f) = Len(r.value)
                /\ \A i \in DOMAIN f : IF IsDigit(r.value[i]) THEN IsDigit(f[i]) ELSE f[i] = r.value[i]
                /\ LuhnValid(digits)
                /\ \A i \in 1..16 : \A d \in Elements(Digits) :
                      d # digits[i] => ~LuhnValid([digits EXCEPT ![i] = d])

\* What FF1 can encrypt safely: after the prefix only symbols of the
\* alphabet, and so many of them that MIN_DOMAIN strings are possible.
SuitsFpe(v, p) ==
    /\ HasPrefix(v, p)
    /\ \A i \in DOMAIN Body(v, p) : Contains(Body(v, p)[i])
    /\ Radix^Len(Body(v, p)) >= MinDomain

\* A value takes the FF1 path exactly if it suits it, also where the size of
\* the domain overflows; its fake is then never missing and keeps prefix and
\* length.  Any other value is redacted exactly if it is no longer than the
\* MAC tail, and otherwise its fake has the value's length in bytes, as far
\* as HKDF reaches.
\* A card's fake is written as the card was and has a valid check digit,
\* which changes with every other digit.
FakesFitValues ==
    /\ CardFakesValid
    /\ \A r \in Elements(regs) :
          /\ r.kind = "Fpe" => SuitsFpe(r.value, r.prefix) /\ FitsProfile(FpeScrub(r), r)
          /\ r.kind = "Formatless" =>
                /\ ~SuitsFpe(r.value, r.prefix)
                /\ FakeFor(r) = NoFake <=> ByteLen(r.value) <= MacTailLen
                /\ MacTailLen < ByteLen(r.value) /\ ByteLen(r.value) - MacTailLen <= HkdfMax =>
                      Len(FakeFor(r)) = ByteLen(r.value)

\* The detector reports matches that do not overlap, and every match it
\* drops lost to one that is reported, overlaps it and is at least as long;
\* an exact match loses to a pattern match only.  So no occurrence of a
\* registered value in a text is out of reach of the reported matches, unless
\* a pattern match displaced the exact match it overlaps.  An empty value,
\* which can be registered, is left out: it matches between all bytes, and
\* empty matches "should not occur for current matchers" (Match::is_empty).
NothingSlips ==
    \A t \in Lines :
       LET values == ValuesOf(regs)
           found  == ExactScan(t, values) \cup PatternScan(t, Rules)
           kept   == Scan(t, values, Rules)
           displaced == {m \in found \ kept : m.kind = "Exact"}
       IN  <<>> \notin Elements(values) =>
           /\ \A m \in kept : Span(m) > 0
           /\ \A m, n \in kept : m = n \/ m.end <= n.start \/ n.end <= m.start
           /\ \A m \in found \ kept : \E n \in kept :
                 /\ m.start < n.end /\ n.start < m.end /\ Span(n) >= Span(m)
                 /\ m.kind = "Exact" => n.kind = "Pattern"
           /\ \A v \in Elements(values), i \in 0..Len(t) :
                 StandsAt(t, v, i) =>
                    \E m \in kept \cup displaced : m.start < i + Len(v) /\ i < m.end

=============================================================================
