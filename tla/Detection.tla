----------------------------- MODULE Detection -----------------------------
(***************************************************************************)
(* The detection layer: the exact matcher over the registered values, the  *)
(* pattern matcher over the rules, and the Detector that resolves their    *)
(* overlaps.  A span [start, end) counts offsets from 0.  A rule is the    *)
(* one string it matches.                                                  *)
(***************************************************************************)
EXTENDS Naturals, Sequences

Span(m) == m.end - m.start

StandsAt(t, s, i) == i + Len(s) <= Len(t) /\ SubSeq(t, i + 1, i + Len(s)) = s

\* The patterns that stand at an offset, and the longest of them, of equal
\* ones the first.
StandingAt(t, patterns, i) == {p \in DOMAIN patterns : StandsAt(t, patterns[p], i)}

Longest(t, patterns, i) ==
    CHOOSE p \in StandingAt(t, patterns, i) : \A q \in StandingAt(t, patterns, i) :
        \/ Len(patterns[p]) > Len(patterns[q])
        \/ Len(patterns[p]) = Len(patterns[q]) /\ p <= q

\* No pattern stands there but perhaps the empty one.
OnlyEmpty(t, patterns, i) == \A p \in StandingAt(t, patterns, i) : Len(patterns[p]) = 0

\* The matches of one search from left to right: at every offset the longest
\* of the patterns, after a match the search goes on at its end.  The empty
\* pattern matches where no other does, but not directly after a match.
FindIter(t, patterns, kind) ==
    LET from[i \in 0..(Len(t) + 1)] ==
            IF i > Len(t) THEN {}
            ELSE IF StandingAt(t, patterns, i) = {} THEN from[i + 1]
            ELSE LET p   == Longest(t, patterns, i)
                     end == i + Len(patterns[p])
                 IN  {[start |-> i, end |-> end, kind |-> kind, id |-> p]} \cup
                     from[IF end = i \/ OnlyEmpty(t, patterns, end) THEN end + 1 ELSE end]
    IN  from[0]

\* ExactMatcher::scan, over the values in the order of the vault.
ExactScan(t, values) == FindIter(t, values, "Exact")

\* PatternMatcher::scan: every rule searches for itself.
PatternScan(t, rules) ==
    UNION {{[m EXCEPT !.id = r] : m \in FindIter(t, <<rules[r]>>, "Pattern")} :
              r \in DOMAIN rules}

Confidence(m) == IF m.kind = "Exact" THEN 2 ELSE 1

\* Faulty variant: matches that touch count as overlapping.
OverlapsTouching(a, b) == a.start <= b.end /\ b.start <= a.end

Overlaps(a, b) == a.start < b.end /\ b.start < a.end

\* The most desirable match first: length, confidence, position; the sort
\* is stable, so the rule's index decides what is left.
Before(a, b) ==
    \/ Span(a) > Span(b)
    \/ Span(a) = Span(b) /\ Confidence(a) > Confidence(b)
    \/ Span(a) = Span(b) /\ Confidence(a) = Confidence(b) /\ a.start < b.start
    \/ Span(a) = Span(b) /\ Confidence(a) = Confidence(b) /\ a.start = b.start /\ a.id < b.id

\* Detector::scan: the greedy walk keeps the most desirable match and drops
\* what overlaps it.
Resolve(all) ==
    LET first(S) == CHOOSE m \in S : \A x \in S : x = m \/ Before(m, x)
        keep[S \in SUBSET all] ==
            IF S = {} THEN {}
            ELSE {first(S)} \cup
                 keep[{m \in S : m # first(S) /\ ~Overlaps(m, first(S))}]
    IN  keep[all]

Scan(t, values, rules) == Resolve(ExactScan(t, values) \cup PatternScan(t, rules))

=============================================================================
