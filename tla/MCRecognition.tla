--------------------------- MODULE MCRecognition ---------------------------
(* Alphabet 0, 1; x is another ASCII character, _ a space, w one of two     *)
(* bytes.  A domain of 8 is large enough, 15 is the largest number, the MAC *)
(* tail has 2 symbols, and HKDF expands to 2 bytes.                         *)
EXTENDS Recognition

MCAlphabet == <<"0", "1">>

Words(n) == [1..n -> {"0", "1"}]

MCValues == {<<>>, <<"1", "0">>, <<"0", "0">>, <<"0", "1", "1">>, <<"1", "0", "0">>,
             <<"x", "1", "1", "0">>, <<"1", "_", "1">>, <<"w", "1">>,
             <<"1", "0", "1", "1", "0">>, <<"1", "0", "_", "1", "1">>}
MCPrefixes == {<<>>, <<"x">>}
MCStructured == {<<"v", n>> : n \in {7, 105}}

\* Sixteen digits together, in groups, and fifteen.
MCCards ==
    {[i \in 1..16 |-> "4"], [i \in 1..16 |-> IF i % 2 = 0 THEN "9" ELSE "1"],
     [i \in 1..19 |-> IF i % 5 = 0 THEN "-" ELSE "3"], [i \in 1..15 |-> "4"]}

MCLines == {<<"1", "1", "0", "0", "0">>, <<"0", "1", "1", "0", "0">>,
            <<"1", "0", "0", "0", "1">>, <<"1", "0", "1", "1", "0">>, <<"1", "1", "0", "1">>}
MCRules == <<<<"1", "1", "0">>, <<"0", "0">>, <<"0", "0", "0">>>>
MCCandidates == UNION {Words(n) : n \in 0..5} \cup {<<"x">> \o s : s \in Words(3)}

NumberOf(ns) == LET v[i \in 0..Len(ns)] == IF i = 0 THEN 0 ELSE 2 * v[i - 1] + ns[i] IN v[Len(ns)]

\* Adding the tweak is a permutation of the numbers of a length.
MCFf1(t, ns) ==
    LET n == (NumberOf(ns) + t) % 2^Len(ns)
    IN  [i \in 1..Len(ns) |-> (n \div 2^(Len(ns) - i)) % 2]

Weight(s) ==
    LET code(c) == CASE c = "0" -> 1 [] c = "1" -> 2 [] c = "x" -> 3 [] c = "_" -> 4
                     [] c = "w" -> 5 [] OTHER -> 6
        v[i \in 0..Len(s)] == IF i = 0 THEN 7 ELSE (v[i - 1] * 3 + code(s[i])) % 101
    IN  v[Len(s)]
MCHash(s) == Weight(s) * 5
MCDerived(v, i) == Weight(v) + 2 * i + (i \div 2)
MCSha(v) == IF v[1] = "v" THEN [i \in 0..31 |-> v[2] + 3 * i]
            ELSE [i \in 0..31 |-> (17 * ToDigit(v[1]) + 7 * ToDigit(v[2]) + i * i) % 256]
=============================================================================
