------------------------------ MODULE MCEngine ------------------------------
(* Bytes a, b, c, x and y are in the alphabet, p, q, t, u and v are not; w1 *)
(* and w2 are the two bytes of one character.  F1 is a shorter FF1 value     *)
(* than F2 and a prefix of it, F3 one that fails its re-check.  F1's fake    *)
(* forms F1's value with a b that follows, and the text may hold fakes.  P,  *)
(* Q, T, U and V are session-mapped: Q's fake stands inside P's, T's can     *)
(* overlap it, U has the fake of P and V has none; the map holds two.        *)
EXTENDS Engine, TLC

CONSTANTS
    MaxLen,       \* bound on the length of a text over the alphabet
    MaxSessionLen \* bound on the length of a text of session values

Upto(B, max) == UNION {[1..n -> B] : n \in 0..max}

MCLetters == {"a", "b", "c", "x", "y"}
MCConts == {"w2"}
MCBytes == MCLetters \cup {"p", "q", "t", "u", "v", "w1", "w2", "redacted"}

MCValue == ("F1" :> <<"a", "b">>) @@ ("F2" :> <<"a", "b", "a">>) @@ ("F3" :> <<"b", "b">>)
           @@ ("P" :> <<"p">>) @@ ("Q" :> <<"q">>) @@ ("T" :> <<"t">>) @@ ("U" :> <<"u">>)
           @@ ("V" :> <<"v">>)
MCCipher == ("F1" :> <<"c", "a">>) @@ ("F2" :> <<"c", "c", "b">>) @@ ("F3" :> <<"c", "b">>)
MCFakeOf == ("P" :> <<"x", "y">>) @@ ("Q" :> <<"y">>) @@ ("T" :> <<"b", "x">>)
            @@ ("U" :> <<"x", "y">>) @@ ("V" :> NoneMade)
MCFakes == {<<"x", "y">>, <<"y">>, <<"b", "x">>}
MCMarker == <<"redacted">>

\* Texts over the alphabet, texts of session values among other bytes, and
\* texts with one two-byte character.
MCTexts ==
    Upto({"a", "b", "c"}, MaxLen)
    \cup Upto({"p", "q", "t", "u", "v", "a", "b"}, MaxSessionLen)
    \cup {t \o <<"w1", "w2">> \o u : t, u \in Upto({"a", "b"}, 2)}
=============================================================================
