----------------------------- MODULE Tokenizers -----------------------------
(***************************************************************************)
(* The stateless tokenizers: the alphabet, the eligibility check and the   *)
(* FF1 fakes of fpe.rs, and the self-authenticating fakes of mac.rs.       *)
(*                                                                         *)
(* A string is a sequence of characters.  FF1 is any family of             *)
(* permutations of the numeral strings of a length, one for every tweak;   *)
(* HMAC and HKDF are any functions.  The numbers of the code (10^6, 2^32,  *)
(* 2^64, 8160) are constants, so that their boundaries fall inside small   *)
(* instances.                                                              *)
(***************************************************************************)
EXTENDS Naturals, Sequences, FiniteSets

CONSTANTS
    Alphabet,     \* the symbols, in order
    Spaces,       \* white-space characters
    Wide,         \* characters that are not ASCII, of two bytes each
    MinDomain,    \* MIN_DOMAIN
    MaxWord,      \* u64::MAX
    MacSpace,     \* 2^32: how many values a MAC tail must be able to take
    HkdfMax,      \* 255 * 32: how many bytes HKDF can expand to
    NoFake,       \* None
    Panic,        \* the process panics: there is no result
    Ff1(_, _),    \* FF1 encryption of a numeral string under a tweak
    Hash(_),      \* HMAC of a body, its first eight bytes
    Derived(_, _) \* the i-th byte HKDF expands from a value

-----------------------------------------------------------------------------
(* alphabet.rs                                                             *)

Radix == Len(Alphabet)

Contains(c) == \E i \in 1..Radix : Alphabet[i] = c

IndexOf(c) == (CHOOSE i \in 1..Radix : Alphabet[i] = c) - 1

SymbolAt(n) == Alphabet[n + 1]

\* try_custom: the first of the four conditions that is not met.
Validate(chars) ==
    IF \E i \in DOMAIN chars : chars[i] \in Wide THEN "NonAscii"
    ELSE IF \E i \in DOMAIN chars : chars[i] \in Spaces THEN "ContainsWhitespace"
    ELSE IF Len(chars) < 2 \/ Len(chars) > 65535 THEN "RadixOutOfRange"
    ELSE IF \E i, j \in DOMAIN chars : i # j /\ chars[i] = chars[j] THEN "DuplicateChar"
    ELSE "ok"

ASSUME AlphabetAssumption == Validate(Alphabet) = "ok"

\* ceil(32 / log2(radix)).
MacTailLen ==
    CHOOSE k \in 1..MacSpace :
        Radix^k >= MacSpace /\ \A j \in 0..(k - 1) : Radix^j < MacSpace

-----------------------------------------------------------------------------
(* fpe.rs                                                                  *)

HasPrefix(s, p) == Len(p) <= Len(s) /\ SubSeq(s, 1, Len(p)) = p

Body(s, p) == SubSeq(s, Len(p) + 1, Len(s))

\* checked_pow, and the largest number when it overflows.
DomainSize(n) == IF Radix^n > MaxWord THEN MaxWord ELSE Radix^n

\* Faulty variant: the size of the domain is not checked.
CheckEligibilityAnyDomain(v, p) ==
    IF ~HasPrefix(v, p) THEN "PrefixMissing"
    ELSE IF \E i \in DOMAIN Body(v, p) : ~Contains(Body(v, p)[i]) THEN "CharNotInAlphabet"
    ELSE "ok"

CheckEligibility(v, p) ==
    IF ~HasPrefix(v, p) THEN "PrefixMissing"
    ELSE LET b == Body(v, p) IN
         IF \E i \in DOMAIN b : b[i] \in Wide THEN "ValueNotAscii"
         ELSE IF \E i \in DOMAIN b : b[i] \in Spaces THEN "ValueContainsWhitespace"
         ELSE IF \E i \in DOMAIN b : ~Contains(b[i]) THEN "CharNotInAlphabet"
         ELSE IF DomainSize(Len(b)) < MinDomain THEN "DomainTooSmall"
         ELSE "ok"

BodyToNumerals(b) == [i \in DOMAIN b |-> IndexOf(b[i])]

NumeralsToBody(ns) == [i \in DOMAIN ns |-> SymbolAt(ns[i])]

\* FpeTokenizer::scrub of a registration [value, prefix, tweak].
FpeScrub(r) ==
    IF CheckEligibility(r.value, r.prefix) # "ok" THEN NoFake
    ELSE r.prefix \o NumeralsToBody(Ff1(r.tweak, BodyToNumerals(Body(r.value, r.prefix))))

Ff1Inverse(t, ns) ==
    CHOOSE ms \in [1..Len(ns) -> 0..(Radix - 1)] : Ff1(t, ms) = ns

\* The profile filter of try_restore: prefix, length, alphabet.
FitsProfile(c, r) ==
    /\ HasPrefix(c, r.prefix)
    /\ Len(c) = Len(r.value)
    /\ \A i \in (Len(r.prefix) + 1)..Len(c) : Contains(c[i])

\* Faulty variant: what fits the profile is taken to be a fake.
DecryptsToUnchecked(c, r) == FitsProfile(c, r)

DecryptsTo(c, r) ==
    /\ FitsProfile(c, r)
    /\ r.prefix \o NumeralsToBody(Ff1Inverse(r.tweak, BodyToNumerals(Body(c, r.prefix)))) = r.value

\* The value of the first registration the candidate decrypts to, of the
\* FF1 entries among a vault's.
TryRestore(c, regs) ==
    LET hits == {i \in DOMAIN regs : regs[i].kind = "Fpe" /\ DecryptsTo(c, regs[i])}
    IN  IF hits = {} THEN NoFake
        ELSE regs[CHOOSE i \in hits : \A j \in hits : i <= j].value

-----------------------------------------------------------------------------
(* mac.rs                                                                  *)

ByteLen(s) == Len(s) + Cardinality({i \in DOMAIN s : s[i] \in Wide})

\* The K lowest digits, the most significant first.
EncodeToAlphabet(n) ==
    [i \in 1..MacTailLen |-> SymbolAt((n \div Radix^(MacTailLen - i)) % Radix)]

MacTail(body) == EncodeToAlphabet(Hash(body))

Verify(c) ==
    /\ \A i \in DOMAIN c : c[i] \notin Wide
    /\ Len(c) >= MacTailLen
    /\ LET tail == SubSeq(c, Len(c) - MacTailLen + 1, Len(c))
       IN  /\ \A i \in DOMAIN tail : Contains(tail[i])
           /\ MacTail(SubSeq(c, 1, Len(c) - MacTailLen)) = tail

\* The `expect` on expand fails above HKDF's ceiling.
DeriveBody(v, n) ==
    IF n > HkdfMax THEN Panic
    ELSE [i \in 1..n |-> SymbolAt(Derived(v, i) % Radix)]

\* Lengths are those of the value's bytes.
MakeMacFake(v) ==
    IF ByteLen(v) <= MacTailLen THEN NoFake
    ELSE LET body == DeriveBody(v, ByteLen(v) - MacTailLen)
         IN  IF body = Panic THEN Panic ELSE body \o MacTail(body)

=============================================================================
