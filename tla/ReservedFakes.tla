---------------------------- MODULE ReservedFakes ----------------------------
(***************************************************************************)
(* The generators of reserved.rs, which put fakes for structured values    *)
(* into ranges reserved for the purpose, and the membership tests of       *)
(* idempotence.rs that must know them again.  A seed stands for the bytes  *)
(* of its SHA-256: a function from 0..31 to 0..255.                        *)
(***************************************************************************)
EXTENDS Naturals, Sequences, FiniteSets

Digits == <<"0", "1", "2", "3", "4", "5", "6", "7", "8", "9">>

IsDigit(c) == \E i \in 1..10 : Digits[i] = c

DigitOf(n) == Digits[n + 1]

ToDigit(c) == (CHOOSE i \in 1..10 : Digits[i] = c) - 1

Decimal(n) ==
    IF n < 10 THEN <<DigitOf(n)>>
    ELSE IF n < 100 THEN <<DigitOf(n \div 10), DigitOf(n % 10)>>
    ELSE <<DigitOf(n \div 100), DigitOf((n \div 10) % 10), DigitOf(n % 10)>>

StartsWith(s, p) == Len(p) <= Len(s) /\ SubSeq(s, 1, Len(p)) = p

EndsWith(s, p) == Len(p) <= Len(s) /\ SubSeq(s, Len(s) - Len(p) + 1, Len(s)) = p

-----------------------------------------------------------------------------
(* The generators.  A domain is one character here; the ten letters of the *)
(* local part stand for themselves.                                        *)

FakeEmail(h) == [i \in 1..10 |-> <<"letter", h[i - 1] % 26>>] \o <<"@example.com">>

TestNet1 == <<"1", "9", "2", ".", "0", ".", "2", ".">>

FakeIpv4(h) == TestNet1 \o Decimal(h[0])

PhonePrefix == <<"5", "5", "5", "-", "0", "1">>

FakePhone(h) == PhonePrefix \o <<DigitOf((h[0] % 100) \div 10), DigitOf(h[0] % 10)>>

\* What the digit d adds to the sum, doubled or not.
LuhnWeight(d, doubled) ==
    LET v == IF doubled THEN 2 * d ELSE d
    IN  IF v > 9 THEN v - 9 ELSE v

\* The sum of the digits of s, every second one doubled: those an odd number
\* of places, counted with `skipped` more places, before the end.
LuhnSum(s, skipped) ==
    LET weight(i) == LuhnWeight(ToDigit(s[i]), (Len(s) - i + skipped) % 2 = 1)
        sum[i \in 0..Len(s)] == IF i = 0 THEN 0 ELSE sum[i - 1] + weight(i)
    IN  sum[Len(s)]

LuhnCheckDigit(s) == (10 - (LuhnSum(s, 1) % 10)) % 10

LuhnValid(s) == (\A i \in DOMAIN s : IsDigit(s[i])) /\ LuhnSum(s, 0) % 10 = 0

DigitsOf(s) ==
    LET kept[i \in 0..Len(s)] ==
            IF i = 0 THEN <<>>
            ELSE IF IsDigit(s[i]) THEN Append(kept[i - 1], s[i]) ELSE kept[i - 1]
    IN  kept[Len(s)]

DigitsUpTo(s, i) == Cardinality({j \in 1..i : IsDigit(s[j])})

TestBin == <<"4", "2", "4", "2">>

\* The digits of a test card in the layout of the original; None is <<>>.
FakeCardVisa16(h, original) ==
    IF Len(DigitsOf(original)) # 16 THEN <<>>
    ELSE LET first15 == TestBin \o [i \in 1..11 |-> DigitOf(h[i - 1] % 10)]
             digits == first15 \o <<DigitOf(LuhnCheckDigit(first15))>>
         IN  [i \in DOMAIN original |->
                IF IsDigit(original[i])
                THEN digits[DigitsUpTo(original, i)]
                ELSE original[i]]

-----------------------------------------------------------------------------
(* is_in_reserved_range                                                    *)

IsEmailExampleDomain(c) ==
    \E d \in {"@example.com", "@example.org", "@example.net"} : EndsWith(c, <<d>>)

IsIpv4Rfc5737(c) ==
    \E p \in {TestNet1,
              <<"1", "9", "8", ".", "5", "1", ".", "1", "0", "0", ".">>,
              <<"2", "0", "3", ".", "0", ".", "1", "1", "3", ".">>} : StartsWith(c, p)

IsPhone555(c) ==
    Len(c) = 8 /\ StartsWith(c, PhonePrefix) /\ IsDigit(c[7]) /\ IsDigit(c[8])

IsCardTestBin(c) == Len(DigitsOf(c)) = 16 /\ StartsWith(DigitsOf(c), TestBin)

IsInReservedRange(c) ==
    \/ IsEmailExampleDomain(c)
    \/ IsIpv4Rfc5737(c)
    \/ IsPhone555(c)
    \/ IsCardTestBin(c)

=============================================================================
