-------------------------- MODULE SessionFileProofs --------------------------
(***************************************************************************)
(* The properties of SessionFile, for all sets of values, fakes and texts, *)
(* every capacity of the session map and every lifetime, when one command  *)
(* runs at a time.  What a session holds is shown for values that have     *)
(* different fakes, any number of them and in texts of any length.         *)
(*                                                                         *)
(* A scrub stores the values of its text one by one, so what it saves is   *)
(* a recursive function of the text.  The provers here know no induction;  *)
(* LeastNumber, the well-ordering of the naturals, takes its place, and    *)
(* ScrubRun says that the recursion has a value.                           *)
(***************************************************************************)
EXTENDS SessionFile, FiniteSetTheorems, FunctionTheorems, WellFoundedInduction, TLAPS

-----------------------------------------------------------------------------
(* Induction and recursion.                                                *)

\* A set of natural numbers that is not empty has a least element.
LEMMA LeastNumber ==
    ASSUME NEW S \in SUBSET Nat, S # {}
    PROVE  \E n \in S : \A k \in S : n <= k
<1> DEFINE R == OpToRel(<, Nat)
<1>1. R = {pair \in Nat \X Nat : pair[1] < pair[2]}
  BY DEF OpToRel
<1>2. IsWellFoundedOn(R, Nat)
  BY NatLessThanWellFounded
<1> HIDE DEF R
<1>3. PICK n \in S : \A k \in S : <<k, n>> \notin R
  BY <1>2, WFMin
<1>4. ASSUME NEW k \in Nat, k < n PROVE <<k, n>> \in R
  <2>1. <<k, n>> \in Nat \X Nat /\ <<k, n>>[1] < <<k, n>>[2]
    BY <1>4
  <2> QED
    BY <1>1, <2>1
<1>5. \A k \in S : ~(k < n)
  BY <1>3, <1>4
<1> QED
  BY <1>5

\* g[i] is the set of maps a scrub can have after i values.
Runs(m, t, n, g) ==
    g = [i \in 0..n |-> IF i = 0 THEN {m} ELSE StoreInEach(g[i - 1], t[i])]

\* What such a function is at each place.
RunSteps(m, t, n, g) ==
    /\ g[0] = {m}
    /\ \A i \in 1..n : g[i] = StoreInEach(g[i - 1], t[i])

\* A run has those values.
LEMMA RunValues ==
    ASSUME NEW m, NEW t, NEW n \in Nat, NEW g, Runs(m, t, n, g)
    PROVE  RunSteps(m, t, n, g)
<1> DEFINE G == [i \in 0..n |-> IF i = 0 THEN {m} ELSE StoreInEach(g[i - 1], t[i])]
<1>1. g = G
  BY DEF Runs
<1>2. G[0] = {m} /\ \A i \in 1..n : G[i] = StoreInEach(g[i - 1], t[i])
  OBVIOUS
<1> HIDE DEF G
<1> QED
  BY <1>1, <1>2 DEF RunSteps

\* There is one for every number of values.
LEMMA RunExists ==
    ASSUME NEW m, NEW t, NEW n \in Nat
    PROVE  \E g : Runs(m, t, n, g)
<1> DEFINE Lacking == {k \in Nat : ~\E g : Runs(m, t, k, g)}
<1> SUFFICES ASSUME Lacking # {} PROVE FALSE
  OBVIOUS
<1>1. PICK k \in Lacking : \A j \in Lacking : k <= j
  <2>1. Lacking \in SUBSET Nat
    OBVIOUS
  <2> HIDE DEF Lacking
  <2> QED
    BY <2>1, LeastNumber
<1>2. k # 0
  <2> SUFFICES ASSUME k = 0 PROVE FALSE
    OBVIOUS
  <2>1. Runs(m, t, 0, [i \in 0..0 |-> {m}])
    BY DEF Runs
  <2> QED
    BY <2>1
<1>3. k \in Nat /\ k - 1 \in Nat /\ k - 1 \notin Lacking
  BY <1>1, <1>2
<1>4. PICK g : Runs(m, t, k - 1, g)
  BY <1>3
<1> DEFINE h == [i \in 0..k |-> IF i = 0 THEN {m} ELSE StoreInEach(g[i - 1], t[i])]
<1>5. h[0] = {m} /\ \A i \in 1..k : h[i] = StoreInEach(g[i - 1], t[i])
  BY <1>3
<1>6. g[0] = {m} /\ \A i \in 1..(k - 1) : g[i] = StoreInEach(g[i - 1], t[i])
  <2> HIDE DEF Lacking, h
  <2>1. PICK j \in Nat : j = k - 1
    BY <1>3
  <2>2. Runs(m, t, j, g)
    BY <1>4, <2>1
  <2>3. RunSteps(m, t, j, g)
    BY <2>2, RunValues, Zenon
  <2> QED
    BY <2>1, <2>3 DEF RunSteps
<1>7. \A i \in 1..k : i - 1 = 0 \/ i - 1 \in 1..(k - 1)
  BY <1>3
<1>8. \A i \in 1..k : h[i - 1] = g[i - 1]
  <2> HIDE DEF h
  <2> SUFFICES ASSUME NEW i \in 1..k PROVE h[i - 1] = g[i - 1]
    OBVIOUS
  <2>1. CASE i - 1 = 0
    BY <1>5, <1>6, <2>1
  <2>2. CASE i - 1 \in 1..(k - 1)
    BY <1>3, <1>5, <1>6, <2>2
  <2> QED
    BY <1>7, <2>1, <2>2
<1>9. Runs(m, t, k, h)
  <2>1. \A i \in 0..k : i # 0 => i \in 1..k
    BY <1>3
  <2>2. \A i \in 0..k : i # 0 => h[i - 1] = g[i - 1]
    BY <1>8, <2>1
  <2> HIDE DEF h
  <2>3. h = [i \in 0..k |-> IF i = 0 THEN {m} ELSE StoreInEach(h[i - 1], t[i])]
    BY <2>2 DEF h
  <2> QED
    BY <2>3 DEF Runs
<1> QED
  BY <1>1, <1>9

\* ScrubMaps is the last value of such a function.
LEMMA ScrubRun ==
    ASSUME NEW m, NEW t, NEW n \in Nat, n = Len(t)
    PROVE  \E g : Runs(m, t, n, g) /\ ScrubMaps(m, t) = g[n]
<1> DEFINE after[i \in 0..Len(t)] ==
               IF i = 0 THEN {m} ELSE StoreInEach(after[i - 1], t[i])
<1>1. \E g : Runs(m, t, n, g)
  BY RunExists
<1>2. after = CHOOSE g : Runs(m, t, Len(t), g)
  BY DEF Runs
<1>3. ScrubMaps(m, t) = after[Len(t)]
  BY DEF ScrubMaps
<1> HIDE DEF after
<1>4. Runs(m, t, n, after) /\ ScrubMaps(m, t) = after[n]
  BY <1>1, <1>2, <1>3
<1> QED
  BY <1>4, Zenon

\* Storing the i-th value takes a map of P[i - 1] to one of P[i].
Advances(t, n, P) ==
    \A i \in 1..n : \A x \in P[i - 1] :
        \A o \in GetOrInsert(x, t[i], FakeOf[t[i]], 0) : o.map \in P[i]

\* Then a run takes the maps from P[0] to P[n].
LEMMA RunInduction ==
    ASSUME NEW m, NEW t, NEW n \in Nat, NEW g, Runs(m, t, n, g), NEW P, m \in P[0],
           Advances(t, n, P)
    PROVE  g[n] \subseteq P[n]
<1> DEFINE Bad == {i \in 0..n : ~(g[i] \subseteq P[i])}
<1>1. g[0] = {m} /\ \A i \in 1..n : g[i] = StoreInEach(g[i - 1], t[i])
  BY RunValues DEF RunSteps
<1> SUFFICES ASSUME Bad # {} PROVE FALSE
  OBVIOUS
<1>2. PICK k \in Bad : \A j \in Bad : k <= j
  <2>1. Bad \in SUBSET Nat
    OBVIOUS
  <2> HIDE DEF Bad
  <2> QED
    BY <2>1, LeastNumber
<1>3. k # 0
  BY <1>1, <1>2
<1>4. k \in 1..n /\ k - 1 \in 0..n /\ k - 1 \notin Bad
  BY <1>2, <1>3
<1>5. g[k - 1] \subseteq P[k - 1] /\ g[k] = StoreInEach(g[k - 1], t[k])
  BY <1>1, <1>4
<1>6. \A x \in P[k - 1] : \A o \in GetOrInsert(x, t[k], FakeOf[t[k]], 0) : o.map \in P[k]
  BY <1>4 DEF Advances
<1>7. StoreInEach(g[k - 1], t[k]) \subseteq P[k]
  BY <1>5, <1>6 DEF StoreInEach
<1> QED
  BY <1>2, <1>5, <1>7

-----------------------------------------------------------------------------
(* What storing does to the entries of any map.                            *)

\* Removing leaves entries out, touching leaves them alone.
LEMMA EntriesShrink ==
    ASSUME NEW m, NEW F, NEW f
    PROVE  /\ Entries(Remove(m, F)) \subseteq Entries(m)
           /\ Entries(Touch(m, f, 0)) = Entries(m)
<1>1. Entries(Remove(m, F)) \subseteq Entries(m)
  BY DEF Entries, Remove, Without
<1>2. CASE f \in DOMAIN m.byFake
  <2> DEFINE h == Put(m.byFake, f, [real |-> m.byFake[f].real, touched |-> 0])
  <2>1. DOMAIN h = DOMAIN m.byFake /\ \A x \in DOMAIN h : h[x].real = m.byFake[x].real
    BY <1>2 DEF Put
  <2>2. Touch(m, f, 0) = [byFake |-> h, byReal |-> m.byReal]
    BY <1>2 DEF Touch
  <2> HIDE DEF h
  <2>3. Entries(Touch(m, f, 0)) = {<<x, h[x].real>> : x \in DOMAIN h}
    BY <2>2 DEF Entries
  <2> QED
    BY <1>1, <2>1, <2>3 DEF Entries
<1> QED
  BY <1>1, <1>2 DEF Touch

\* get_or_insert adds no pair but its own.
LEMMA EntriesGrow ==
    ASSUME NEW m, NEW r, NEW f
    PROVE  \A o \in GetOrInsert(m, r, f, 0) : Entries(o.map) \subseteq Entries(m) \cup {<<f, r>>}
<1> DEFINE p == Prune(m, 0)
<1>1. Entries(p) \subseteq Entries(m)
  BY EntriesShrink DEF Prune
<1>2. ASSUME NEW x PROVE Entries(Store(x, f, r, 0)) \subseteq Entries(x) \cup {<<f, r>>}
  BY DEF Entries, Store, Put
<1>3. \A x \in MakeRoom(p) : Entries(x) \subseteq Entries(p)
  BY EntriesShrink DEF MakeRoom
<1> HIDE DEF p
<1>4. CASE r \in DOMAIN p.byReal
  <2>1. GetOrInsert(m, r, f, 0) =
            {[map |-> Touch(p, p.byReal[r], 0), fake |-> p.byReal[r]]}
    BY <1>4 DEF GetOrInsert, p
  <2>2. Entries(Touch(p, p.byReal[r], 0)) = Entries(p)
    BY EntriesShrink
  <2> QED
    BY <1>1, <2>1, <2>2
<1>5. CASE r \notin DOMAIN p.byReal
  <2>1. GetOrInsert(m, r, f, 0) =
            {[map |-> Store(x, f, r, 0), fake |-> f] : x \in MakeRoom(p)}
    BY <1>5 DEF GetOrInsert, p
  <2> SUFFICES ASSUME NEW x \in MakeRoom(p)
               PROVE  Entries(Store(x, f, r, 0)) \subseteq Entries(m) \cup {<<f, r>>}
    BY <2>1
  <2> QED
    BY <1>1, <1>2, <1>3
<1> QED
  BY <1>4, <1>5

\* The pairs of the first i values of a text.
PairsUpTo(t, i) == {<<FakeOf[t[j]], t[j]>> : j \in 1..i}

\* A run adds no pairs but those of its values.
LEMMA RunEntries ==
    ASSUME NEW m, NEW t, NEW n \in Nat, NEW g, Runs(m, t, n, g)
    PROVE  \A x \in g[n] : Entries(x) \subseteq Entries(m) \cup PairsUpTo(t, n)
<1> DEFINE P == [i \in 0..n |-> {x \in g[i] : Entries(x) \subseteq Entries(m) \cup PairsUpTo(t, i)}]
<1>1. g[0] = {m} /\ \A i \in 1..n : g[i] = StoreInEach(g[i - 1], t[i])
  BY RunValues DEF RunSteps
<1>2. \A i \in 0..n : P[i] = {x \in g[i] : Entries(x) \subseteq Entries(m) \cup PairsUpTo(t, i)}
  OBVIOUS
<1> HIDE DEF P
<1>3. m \in P[0]
  BY <1>1, <1>2
<1>4. ASSUME NEW i \in 1..n, NEW x \in P[i - 1],
             NEW o \in GetOrInsert(x, t[i], FakeOf[t[i]], 0)
      PROVE  o.map \in P[i]
  <2>1. i \in 0..n /\ i - 1 \in 0..n
    OBVIOUS
  <2>2. x \in g[i - 1] /\ Entries(x) \subseteq Entries(m) \cup PairsUpTo(t, i - 1)
    BY <1>2, <2>1
  <2>3. o.map \in g[i]
    BY <1>1, <2>2 DEF StoreInEach
  <2>4. Entries(o.map) \subseteq Entries(x) \cup {<<FakeOf[t[i]], t[i]>>}
    BY EntriesGrow
  <2>5. PairsUpTo(t, i - 1) \cup {<<FakeOf[t[i]], t[i]>>} \subseteq PairsUpTo(t, i)
    BY <2>1 DEF PairsUpTo
  <2>6. Entries(o.map) \subseteq Entries(m) \cup PairsUpTo(t, i)
    BY <2>2, <2>4, <2>5
  <2> QED
    BY <1>2, <2>1, <2>3, <2>6
<1>5. g[n] \subseteq P[n]
  <2>1. Advances(t, n, P)
    BY <1>4 DEF Advances
  <2> QED
    BY <1>3, <2>1, RunInduction, Zenon
<1> QED
  BY <1>2, <1>5

\* What a scrub saves: pairs it found and pairs of its own.
LEMMA ScrubEntries ==
    ASSUME NEW m, NEW t \in Seq(Reals)
    PROVE  \A x \in ScrubMaps(m, t) :
               Entries(x) \subseteq Entries(m) \cup {<<d[2], d[1]>> : d \in ScrubOutput(t)}
<1>1. Len(t) \in Nat
  OBVIOUS
<1>2. PICK g : Runs(m, t, Len(t), g) /\ ScrubMaps(m, t) = g[Len(t)]
  BY <1>1, ScrubRun
<1>3. \A x \in ScrubMaps(m, t) : Entries(x) \subseteq Entries(m) \cup PairsUpTo(t, Len(t))
  BY <1>1, <1>2, RunEntries
<1>4. PairsUpTo(t, Len(t)) \subseteq {<<d[2], d[1]>> : d \in ScrubOutput(t)}
  <2> SUFFICES ASSUME NEW j \in 1..Len(t)
               PROVE  <<FakeOf[t[j]], t[j]>> \in {<<d[2], d[1]>> : d \in ScrubOutput(t)}
    BY DEF PairsUpTo
  <2>1. <<t[j], FakeOf[t[j]]>> \in ScrubOutput(t)
    BY DEF ScrubOutput
  <2> QED
    BY <2>1
<1> QED
  BY <1>3, <1>4

\* What import finds is what it was given.
LEMMA ImportEntries ==
    ASSUME NEW pairs \in SUBSET Pairs
    PROVE  Entries(Import(pairs)) \subseteq pairs
<1> DEFINE Chosen(f) == CHOOSE p \in pairs : p[1] = f
<1>1. ASSUME NEW f \in {p[1] : p \in pairs} PROVE <<f, Chosen(f)[2]>> \in pairs
  <2>1. Chosen(f) \in pairs /\ Chosen(f)[1] = f
    OBVIOUS
  <2> HIDE DEF Chosen
  <2> QED
    BY <2>1 DEF Pairs
<1>2. Entries(Import(pairs)) = {<<f, Chosen(f)[2]>> : f \in {p[1] : p \in pairs}}
  BY DEF Entries, Import
<1> HIDE DEF Chosen
<1> QED
  BY <1>1, <1>2

-----------------------------------------------------------------------------
(* Maps in which every value has its own fake.  Such a map, all of whose   *)
(* entries are of one age, is determined by the set of its values.         *)

\* The generators give different values different fakes.
FakesDistinct == \A r, s \in Reals : FakeOf[r] = FakeOf[s] => r = s

\* The value a fake is for.
RealOf(f) == CHOOSE r \in Reals : FakeOf[r] = f

\* The fakes, the pairs and the map of a set of values.
FakesOf(R) == {FakeOf[r] : r \in R}
PairsOf(R) == {<<FakeOf[r], r>> : r \in R}

MapOf(R) ==
    [byFake |-> [f \in FakesOf(R) |-> [real |-> RealOf(f), touched |-> 0]],
     byReal |-> [r \in R |-> FakeOf[r]]]

\* A fake determines its value.
LEMMA RealOfFake ==
    ASSUME FakesDistinct, NEW r \in Reals
    PROVE  RealOf(FakeOf[r]) = r /\ FakeOf[r] \in Fakes
  BY FakeOfAssumption DEF FakesDistinct, RealOf

\* The maps of such a map.
LEMMA MapOfParts ==
    ASSUME NEW R \in SUBSET Reals, FakesDistinct
    PROVE  /\ DOMAIN MapOf(R).byFake = FakesOf(R)
           /\ DOMAIN MapOf(R).byReal = R
           /\ \A f \in FakesOf(R) : /\ MapOf(R).byFake[f] = [real |-> RealOf(f), touched |-> 0]
                                    /\ MapOf(R).byFake[f].real = RealOf(f)
                                    /\ MapOf(R).byFake[f].touched = 0
           /\ \A r \in R : MapOf(R).byReal[r] = FakeOf[r]
           /\ \A r \in R : FakeOf[r] \in FakesOf(R) /\ RealOf(FakeOf[r]) = r
           /\ \A f \in FakesOf(R) : RealOf(f) \in R /\ FakeOf[RealOf(f)] = f
           /\ \A r \in Reals : FakeOf[r] \in FakesOf(R) <=> r \in R
<1>1. \A r \in Reals : RealOf(FakeOf[r]) = r
  BY RealOfFake
<1>2. \A r \in Reals : FakeOf[r] \in FakesOf(R) <=> r \in R
  BY DEF FakesOf, FakesDistinct
<1>3. \A f \in FakesOf(R) : RealOf(f) \in R /\ FakeOf[RealOf(f)] = f
  BY <1>1 DEF FakesOf
<1>4. \A f \in FakesOf(R) : MapOf(R).byFake[f] = [real |-> RealOf(f), touched |-> 0]
  BY DEF MapOf
<1> QED
  BY <1>1, <1>2, <1>3, <1>4 DEF MapOf

\* Nothing expires at time 0.
LEMMA MapPruned ==
    ASSUME NEW R \in SUBSET Reals, FakesDistinct
    PROVE  Prune(MapOf(R), 0) = MapOf(R)
<1>1. Expired(MapOf(R), 0) = {}
  <2>1. \A f \in FakesOf(R) : MapOf(R).byFake[f].touched = 0
    BY MapOfParts
  <2>2. ~(0 > 0 + Ttl)
    BY BoundsAssumption
  <2> QED
    BY <2>1, <2>2, MapOfParts DEF Expired
<1>2. Without(MapOf(R).byFake, {}) = [f \in FakesOf(R) |-> [real |-> RealOf(f), touched |-> 0]]
  BY MapOfParts DEF Without
<1>3. Without(MapOf(R).byReal, {}) = [r \in R |-> FakeOf[r]]
  BY MapOfParts DEF Without
<1>4. {MapOf(R).byFake[f].real : f \in {}} = {}
  OBVIOUS
<1>5. Prune(MapOf(R), 0) =
          [byFake |-> Without(MapOf(R).byFake, {}), byReal |-> Without(MapOf(R).byReal, {})]
  BY <1>1, <1>4 DEF Prune, Remove
<1> QED
  BY <1>2, <1>3, <1>5 DEF MapOf

\* Evicting a pair.
LEMMA MapRemoved ==
    ASSUME NEW R \in SUBSET Reals, FakesDistinct, NEW x \in R
    PROVE  Remove(MapOf(R), {FakeOf[x]}) = MapOf(R \ {x})
<1>1. FakesOf(R) \ {FakeOf[x]} = FakesOf(R \ {x})
  BY DEF FakesOf, FakesDistinct
<1>2. {MapOf(R).byFake[f].real : f \in {FakeOf[x]}} = {x}
  <2>1. MapOf(R).byFake[FakeOf[x]].real = x
    <3>1. FakeOf[x] \in FakesOf(R) /\ RealOf(FakeOf[x]) = x
      BY MapOfParts
    <3> QED
      BY <3>1, MapOfParts
  <2> QED
    BY <2>1
<1>3. Without(MapOf(R).byFake, {FakeOf[x]}) =
          [f \in FakesOf(R \ {x}) |-> [real |-> RealOf(f), touched |-> 0]]
  BY <1>1, MapOfParts DEF Without
<1>4. Without(MapOf(R).byReal, {x}) = [r \in R \ {x} |-> FakeOf[r]]
  BY MapOfParts DEF Without
<1>5. Remove(MapOf(R), {FakeOf[x]}) =
          [byFake |-> Without(MapOf(R).byFake, {FakeOf[x]}),
           byReal |-> Without(MapOf(R).byReal, {x})]
  BY <1>2 DEF Remove
<1> QED
  BY <1>3, <1>4, <1>5 DEF MapOf

\* Storing a new pair.
LEMMA MapStored ==
    ASSUME NEW R \in SUBSET Reals, FakesDistinct, NEW r \in Reals \ R
    PROVE  Store(MapOf(R), FakeOf[r], r, 0) = MapOf(R \cup {r})
<1>1. FakeOf[r] \notin DOMAIN MapOf(R).byFake
  BY MapOfParts
<1>2. FakesOf(R) \cup {FakeOf[r]} = FakesOf(R \cup {r})
  BY DEF FakesOf
<1>3. Put(MapOf(R).byFake, FakeOf[r], [real |-> r, touched |-> 0]) =
          [f \in FakesOf(R \cup {r}) |-> [real |-> RealOf(f), touched |-> 0]]
  BY <1>2, MapOfParts, RealOfFake DEF Put
<1>4. Put(Without(MapOf(R).byReal, {}), r, FakeOf[r]) = [x \in R \cup {r} |-> FakeOf[x]]
  BY MapOfParts DEF Put, Without
<1>5. Store(MapOf(R), FakeOf[r], r, 0) =
          [byFake |-> Put(MapOf(R).byFake, FakeOf[r], [real |-> r, touched |-> 0]),
           byReal |-> Put(Without(MapOf(R).byReal, {}), r, FakeOf[r])]
  BY <1>1 DEF Store
<1> QED
  BY <1>3, <1>4, <1>5 DEF MapOf

\* Touching a pair at time 0.
LEMMA MapTouched ==
    ASSUME NEW R \in SUBSET Reals, FakesDistinct, NEW r \in R
    PROVE  Touch(MapOf(R), FakeOf[r], 0) = MapOf(R)
<1>1. FakeOf[r] \in DOMAIN MapOf(R).byFake /\ MapOf(R).byFake[FakeOf[r]].real = r
  <2>1. FakeOf[r] \in FakesOf(R) /\ RealOf(FakeOf[r]) = r
    BY MapOfParts
  <2> QED
    BY <2>1, MapOfParts
<1>2. Put(MapOf(R).byFake, FakeOf[r], [real |-> r, touched |-> 0]) =
          [f \in FakesOf(R) |-> [real |-> RealOf(f), touched |-> 0]]
  BY <1>1, MapOfParts DEF Put
<1>3. MapOf(R).byReal = [x \in R |-> FakeOf[x]]
  BY DEF MapOf
<1>4. Touch(MapOf(R), FakeOf[r], 0) =
          [byFake |-> Put(MapOf(R).byFake, FakeOf[r], [real |-> r, touched |-> 0]),
           byReal |-> MapOf(R).byReal]
  BY <1>1 DEF Touch
<1> QED
  BY <1>2, <1>3, <1>4 DEF MapOf

\* There are as many entries as values.
LEMMA MapSize ==
    ASSUME NEW R \in SUBSET Reals, FakesDistinct, IsFiniteSet(R)
    PROVE  Size(MapOf(R)) = Cardinality(R)
<1> DEFINE b == [r \in R |-> FakeOf[r]]
<1>1. b \in Bijection(R, FakesOf(R))
  <2>1. b \in [R -> FakesOf(R)]
    BY DEF FakesOf
  <2>2. \A x, y \in R : b[x] = b[y] => x = y
    BY DEF FakesDistinct
  <2>3. \A f \in FakesOf(R) : \E x \in R : b[x] = f
    BY DEF FakesOf
  <2> HIDE DEF b
  <2> QED
    BY <2>1, <2>2, <2>3, Fun_IsBij
<1>2. Cardinality(FakesOf(R)) = Cardinality(R)
  BY <1>1, FS_Bijection, Fun_ExistsBij
<1> QED
  BY <1>2, MapOfParts DEF Size

\* A map's entries, and the map made of them.
LEMMA MapEntries ==
    ASSUME NEW R \in SUBSET Reals, FakesDistinct
    PROVE  Entries(MapOf(R)) = PairsOf(R) /\ Import(PairsOf(R)) = MapOf(R)
<1>1. Entries(MapOf(R)) = PairsOf(R)
  <2>1. Entries(MapOf(R)) = {<<f, RealOf(f)>> : f \in FakesOf(R)}
    <3> DEFINE M == MapOf(R)
    <3>1. DOMAIN M.byFake = FakesOf(R) /\ \A f \in FakesOf(R) : M.byFake[f].real = RealOf(f)
      BY MapOfParts
    <3>2. Entries(M) = {<<f, M.byFake[f].real>> : f \in DOMAIN M.byFake}
      BY DEF Entries
    <3> HIDE DEF M
    <3>3. Entries(M) = {<<f, M.byFake[f].real>> : f \in FakesOf(R)}
      BY <3>1, <3>2
    <3>4. {<<f, M.byFake[f].real>> : f \in FakesOf(R)} = {<<f, RealOf(f)>> : f \in FakesOf(R)}
      BY <3>1
    <3> QED
      BY <3>3, <3>4 DEF M
  <2>2. ASSUME NEW f \in FakesOf(R) PROVE <<f, RealOf(f)>> \in PairsOf(R)
    <3>1. RealOf(f) \in R /\ FakeOf[RealOf(f)] = f
      BY MapOfParts
    <3>2. <<FakeOf[RealOf(f)], RealOf(f)>> \in PairsOf(R)
      BY <3>1 DEF PairsOf
    <3> QED
      BY <3>1, <3>2
  <2>3. ASSUME NEW r \in R PROVE <<FakeOf[r], r>> \in {<<f, RealOf(f)>> : f \in FakesOf(R)}
    <3>1. FakeOf[r] \in FakesOf(R) /\ RealOf(FakeOf[r]) = r
      BY MapOfParts
    <3>2. <<FakeOf[r], RealOf(FakeOf[r])>> \in {<<f, RealOf(f)>> : f \in FakesOf(R)}
      BY <3>1
    <3> QED
      BY <3>1, <3>2
  <2>4. PairsOf(R) \subseteq {<<f, RealOf(f)>> : f \in FakesOf(R)}
    BY <2>3 DEF PairsOf
  <2>5. {<<f, RealOf(f)>> : f \in FakesOf(R)} \subseteq PairsOf(R)
    BY <2>2
  <2> QED
    BY <2>1, <2>4, <2>5
<1>2. {p[1] : p \in PairsOf(R)} = FakesOf(R) /\ {p[2] : p \in PairsOf(R)} = R
  <2>1. \A p \in PairsOf(R) : p[1] \in FakesOf(R) /\ p[2] \in R
    BY DEF PairsOf, FakesOf
  <2>2. ASSUME NEW r \in R
        PROVE  <<FakeOf[r], r>> \in PairsOf(R) /\ <<FakeOf[r], r>>[1] = FakeOf[r]
               /\ <<FakeOf[r], r>>[2] = r
    BY DEF PairsOf
  <2>3. \A r \in R : FakeOf[r] \in {p[1] : p \in PairsOf(R)} /\ r \in {p[2] : p \in PairsOf(R)}
    BY <2>2
  <2> QED
    BY <2>1, <2>3 DEF FakesOf
<1>3. ASSUME NEW f \in FakesOf(R) PROVE (CHOOSE p \in PairsOf(R) : p[1] = f)[2] = RealOf(f)
  <2>1. \A p \in PairsOf(R) : p[1] = f => p[2] = RealOf(f)
    BY MapOfParts DEF PairsOf
  <2>2. <<f, RealOf(f)>> \in PairsOf(R) /\ <<f, RealOf(f)>>[1] = f
    BY MapOfParts DEF PairsOf
  <2>3. (CHOOSE p \in PairsOf(R) : p[1] = f) \in PairsOf(R)
        /\ (CHOOSE p \in PairsOf(R) : p[1] = f)[1] = f
    BY <2>2
  <2> QED
    BY <2>1, <2>3
<1>4. ASSUME NEW r \in R PROVE (CHOOSE p \in PairsOf(R) : p[2] = r)[1] = FakeOf[r]
  <2>1. \A p \in PairsOf(R) : p[2] = r => p[1] = FakeOf[r]
    BY DEF PairsOf
  <2>2. <<FakeOf[r], r>> \in PairsOf(R) /\ <<FakeOf[r], r>>[2] = r
    BY DEF PairsOf
  <2>3. (CHOOSE p \in PairsOf(R) : p[2] = r) \in PairsOf(R)
        /\ (CHOOSE p \in PairsOf(R) : p[2] = r)[2] = r
    BY <2>2
  <2> QED
    BY <2>1, <2>3
<1>5. Import(PairsOf(R)) = MapOf(R)
  <2> DEFINE h == [f \in {p[1] : p \in PairsOf(R)} |->
                      [real |-> (CHOOSE p \in PairsOf(R) : p[1] = f)[2], touched |-> 0]]
             k == [r \in {p[2] : p \in PairsOf(R)} |-> (CHOOSE p \in PairsOf(R) : p[2] = r)[1]]
  <2>1. h = [f \in FakesOf(R) |-> [real |-> RealOf(f), touched |-> 0]]
    <3> DEFINE v(f) == (CHOOSE p \in PairsOf(R) : p[1] = f)[2]
    <3>1. \A f \in FakesOf(R) : v(f) = RealOf(f)
      BY <1>3
    <3>2. h = [f \in FakesOf(R) |-> [real |-> v(f), touched |-> 0]]
      BY <1>2
    <3> DEFINE e == [f \in FakesOf(R) |-> [real |-> RealOf(f), touched |-> 0]]
    <3> HIDE DEF v
    <3>3. [f \in FakesOf(R) |-> [real |-> v(f), touched |-> 0]] = e
      BY <3>1
    <3> HIDE DEF h, e
    <3>4. h = e
      BY <3>2, <3>3
    <3> QED
      BY <3>4 DEF e
  <2>2. k = [r \in R |-> FakeOf[r]]
    <3> DEFINE v(r) == (CHOOSE p \in PairsOf(R) : p[2] = r)[1]
    <3>1. \A r \in R : v(r) = FakeOf[r]
      BY <1>4
    <3>2. k = [r \in R |-> v(r)]
      BY <1>2
    <3> DEFINE e == [r \in R |-> FakeOf[r]]
    <3> HIDE DEF v
    <3>3. [r \in R |-> v(r)] = e
      BY <3>1
    <3> HIDE DEF k, e
    <3>4. k = e
      BY <3>2, <3>3
    <3> QED
      BY <3>4 DEF e
  <2>3. Import(PairsOf(R)) = [byFake |-> h, byReal |-> k]
    BY DEF Import
  <2> HIDE DEF h, k
  <2> QED
    BY <2>1, <2>2, <2>3 DEF MapOf
<1> QED
  BY <1>1, <1>5

\* restore finds the value a fake stands for.
LEMMA MapRestores ==
    ASSUME NEW R \in SUBSET Reals, FakesDistinct, NEW r \in Reals
    PROVE  RestoreResult(MapOf(R), FakeOf[r], 0) = IF r \in R THEN {r} ELSE {}
<1>1. /\ DOMAIN MapOf(R).byFake = FakesOf(R)
      /\ FakeOf[r] \in FakesOf(R) <=> r \in R
  BY MapOfParts
<1>2. r \in R => MapOf(R).byFake[FakeOf[r]].real = r
  <2> HAVE r \in R
  <2>1. FakeOf[r] \in FakesOf(R) /\ RealOf(FakeOf[r]) = r
    BY MapOfParts
  <2> QED
    BY <2>1, MapOfParts
<1> QED
  BY <1>1, <1>2, MapPruned DEF RestoreResult

\* Any entry may be evicted to make room: all are of one age.
LEMMA MapRoom ==
    ASSUME NEW R \in SUBSET Reals, FakesDistinct, IsFiniteSet(R),
           Cardinality(R) <= MaxEntries, NEW x \in MakeRoom(MapOf(R))
    PROVE  \/ x = MapOf(R) /\ Cardinality(R) < MaxEntries
           \/ Cardinality(R) = MaxEntries /\ \E y \in R : x = MapOf(R \ {y})
<1>1. Size(MapOf(R)) = Cardinality(R) /\ Cardinality(R) \in Nat
  BY MapSize, FS_CardinalityType
<1>2. DOMAIN MapOf(R).byFake = FakesOf(R)
  BY MapOfParts
<1>3. CASE Size(MapOf(R)) >= MaxEntries /\ DOMAIN MapOf(R).byFake # {}
  <2>1. PICK f \in LeastRecent(MapOf(R)) : x = Remove(MapOf(R), {f})
    BY <1>3 DEF MakeRoom
  <2>2. f \in FakesOf(R)
    BY <1>2 DEF LeastRecent
  <2>3. RealOf(f) \in R /\ FakeOf[RealOf(f)] = f
    BY <2>2, MapOfParts
  <2>4. x = MapOf(R \ {RealOf(f)})
    BY <2>1, <2>3, MapRemoved
  <2> QED
    BY <1>1, <1>3, <2>3, <2>4, BoundsAssumption
<1>4. CASE ~(Size(MapOf(R)) >= MaxEntries /\ DOMAIN MapOf(R).byFake # {})
  <2>1. x = MapOf(R)
    BY <1>4 DEF MakeRoom
  <2>2. Cardinality({}) = 0 /\ (FakesOf(R) = {} => R = {})
    BY FS_EmptySet DEF FakesOf
  <2> QED
    BY <1>1, <1>2, <1>4, <2>1, <2>2, BoundsAssumption, SessionBounds
<1> QED
  BY <1>3, <1>4

\* A value that is stored: it is in, and what was in before is still in unless
\* the map is full.
LEMMA MapInserts ==
    ASSUME NEW R \in SUBSET Reals, FakesDistinct, IsFiniteSet(R),
           Cardinality(R) <= MaxEntries, NEW r \in Reals,
           NEW o \in GetOrInsert(MapOf(R), r, FakeOf[r], 0)
    PROVE  \E Q \in SUBSET (R \cup {r}) :
               /\ o.map = MapOf(Q)
               /\ IsFiniteSet(Q) /\ Cardinality(R) <= Cardinality(Q) /\ Cardinality(Q) <= MaxEntries
               /\ R \cup {r} \subseteq Q \/ Cardinality(Q) = MaxEntries
<1>1. Prune(MapOf(R), 0) = MapOf(R) /\ DOMAIN MapOf(R).byReal = R
  BY MapPruned, MapOfParts
<1>2. Cardinality(R) \in Nat /\ MaxEntries \in Nat
  BY FS_CardinalityType, BoundsAssumption
<1>3. CASE r \in R
  <2>1. MapOf(R).byReal[r] = FakeOf[r]
    BY <1>3, MapOfParts
  <2>2. o = [map |-> Touch(MapOf(R), FakeOf[r], 0), fake |-> FakeOf[r]]
    BY <1>1, <1>3, <2>1 DEF GetOrInsert
  <2>3. o.map = MapOf(R)
    BY <1>3, <2>2, MapTouched
  <2> QED
    BY <1>2, <1>3, <2>3
<1>4. CASE r \notin R
  <2>1. PICK x \in MakeRoom(MapOf(R)) : o = [map |-> Store(x, FakeOf[r], r, 0), fake |-> FakeOf[r]]
    BY <1>1, <1>4 DEF GetOrInsert
  <2>2. o.map = Store(x, FakeOf[r], r, 0)
    BY <2>1
  <2>3. \/ x = MapOf(R) /\ Cardinality(R) < MaxEntries
        \/ Cardinality(R) = MaxEntries /\ \E y \in R : x = MapOf(R \ {y})
    BY MapRoom
  <2>4. CASE x = MapOf(R) /\ Cardinality(R) < MaxEntries
    <3>1. o.map = MapOf(R \cup {r})
      BY <1>4, <2>2, <2>4, MapStored
    <3>2. IsFiniteSet(R \cup {r}) /\ Cardinality(R \cup {r}) = Cardinality(R) + 1
      BY <1>4, FS_AddElement
    <3> QED
      BY <1>2, <2>4, <3>1, <3>2
  <2>5. ASSUME Cardinality(R) = MaxEntries, NEW y \in R, x = MapOf(R \ {y})
        PROVE  \E Q \in SUBSET (R \cup {r}) :
                   /\ o.map = MapOf(Q)
                   /\ IsFiniteSet(Q) /\ Cardinality(R) <= Cardinality(Q) /\ Cardinality(Q) <= MaxEntries
                   /\ R \cup {r} \subseteq Q \/ Cardinality(Q) = MaxEntries
    <3> DEFINE S == R \ {y}
    <3>1. S \in SUBSET Reals /\ r \notin S /\ x = MapOf(S)
      BY <1>4, <2>5
    <3>2. IsFiniteSet(S) /\ Cardinality(S) = Cardinality(R) - 1
      BY FS_RemoveElement
    <3>3. S \cup {r} \subseteq R \cup {r}
      OBVIOUS
    <3> HIDE DEF S
    <3>4. o.map = MapOf(S \cup {r})
      BY <2>2, <3>1, MapStored
    <3>5. IsFiniteSet(S \cup {r}) /\ Cardinality(S \cup {r}) = Cardinality(S) + 1
      BY <3>1, <3>2, FS_AddElement
    <3> QED
      BY <1>2, <2>5, <3>2, <3>3, <3>4, <3>5
  <2> QED
    BY <2>3, <2>4, <2>5
<1> QED
  BY <1>3, <1>4

\* The values of a map that has stored those of S, starting from R: all of
\* them, or as many as fit.
Stored(R, S) ==
    {Q \in SUBSET (R \cup S) :
        /\ IsFiniteSet(Q) /\ Cardinality(R) <= Cardinality(Q) /\ Cardinality(Q) <= MaxEntries
        /\ R \cup S \subseteq Q \/ Cardinality(Q) = MaxEntries}

ValuesUpTo(t, i) == {t[j] : j \in 1..i}
OfValues(t, n) == \A j \in 1..n : t[j] \in Reals

\* A run stores its values.
LEMMA RunStores ==
    ASSUME NEW R \in SUBSET Reals, FakesDistinct, IsFiniteSet(R), Cardinality(R) <= MaxEntries,
           NEW t, NEW n \in Nat, NEW g, Runs(MapOf(R), t, n, g), OfValues(t, n)
    PROVE  \A x \in g[n] : \E Q \in Stored(R, ValuesUpTo(t, n)) : x = MapOf(Q)
<1> DEFINE P == [i \in 0..n |-> {MapOf(Q) : Q \in Stored(R, ValuesUpTo(t, i))}]
<1>1. \A i \in 0..n : P[i] = {MapOf(Q) : Q \in Stored(R, ValuesUpTo(t, i))}
  OBVIOUS
<1> HIDE DEF P
<1>2. Cardinality(R) \in Nat /\ MaxEntries \in Nat
  BY FS_CardinalityType, BoundsAssumption
<1>3. MapOf(R) \in P[0]
  <2>1. ValuesUpTo(t, 0) = {}
    BY DEF ValuesUpTo
  <2>2. R \in Stored(R, ValuesUpTo(t, 0))
    BY <1>2, <2>1 DEF Stored
  <2> QED
    BY <1>1, <2>2
<1>4. ASSUME NEW i \in 1..n, NEW x \in P[i - 1],
             NEW o \in GetOrInsert(x, t[i], FakeOf[t[i]], 0)
      PROVE  o.map \in P[i]
  <2> DEFINE S == ValuesUpTo(t, i - 1)
             r == t[i]
  <2>1. i \in 0..n /\ i - 1 \in 0..n /\ i \in Nat
    OBVIOUS
  <2>2. ValuesUpTo(t, i) = S \cup {r} /\ S \subseteq Reals /\ r \in Reals
    BY <2>1 DEF ValuesUpTo, OfValues
  <2> HIDE DEF S, r
  <2>3. PICK Q \in Stored(R, S) : x = MapOf(Q)
    BY <1>1, <2>1 DEF S
  <2>4. /\ Q \in SUBSET Reals /\ Q \subseteq R \cup S /\ IsFiniteSet(Q)
        /\ Cardinality(R) <= Cardinality(Q) /\ Cardinality(Q) <= MaxEntries
        /\ R \cup S \subseteq Q \/ Cardinality(Q) = MaxEntries
    BY <2>2, <2>3 DEF Stored
  <2>5. o \in GetOrInsert(MapOf(Q), r, FakeOf[r], 0)
    BY <2>3 DEF r
  <2>6. PICK T \in SUBSET (Q \cup {r}) :
            /\ o.map = MapOf(T)
            /\ IsFiniteSet(T) /\ Cardinality(Q) <= Cardinality(T) /\ Cardinality(T) <= MaxEntries
            /\ Q \cup {r} \subseteq T \/ Cardinality(T) = MaxEntries
    BY <2>2, <2>4, <2>5, MapInserts
  <2>7. Cardinality(Q) \in Nat /\ Cardinality(T) \in Nat
    BY <2>4, <2>6, FS_CardinalityType
  <2>8. T \subseteq R \cup (S \cup {r})
    BY <2>4, <2>6
  <2>9. R \cup (S \cup {r}) \subseteq T \/ Cardinality(T) = MaxEntries
    BY <1>2, <2>4, <2>6, <2>7
  <2>10. T \in Stored(R, S \cup {r})
    BY <1>2, <2>4, <2>6, <2>7, <2>8, <2>9 DEF Stored
  <2> QED
    BY <1>1, <2>1, <2>2, <2>6, <2>10
<1>5. g[n] \subseteq P[n]
  <2>1. Advances(t, n, P)
    BY <1>4 DEF Advances
  <2> QED
    BY <1>3, <2>1, RunInduction, Zenon
<1>6. n \in 0..n
  OBVIOUS
<1> QED
  BY <1>1, <1>5, <1>6

\* What a scrub saves: its values and those it found, or as many as fit.
LEMMA ScrubStores ==
    ASSUME NEW R \in SUBSET Reals, FakesDistinct, IsFiniteSet(R), Cardinality(R) <= MaxEntries,
           NEW t, NEW n \in Nat, n = Len(t), OfValues(t, n)
    PROVE  \A x \in ScrubMaps(MapOf(R), t) : \E Q \in Stored(R, ValuesUpTo(t, n)) : x = MapOf(Q)
<1>1. PICK g : Runs(MapOf(R), t, n, g) /\ ScrubMaps(MapOf(R), t) = g[n]
  BY ScrubRun
<1>2. \A x \in g[n] : \E Q \in Stored(R, ValuesUpTo(t, n)) : x = MapOf(Q)
  BY <1>1, RunStores
<1> QED
  BY <1>1, <1>2

-----------------------------------------------------------------------------
(* The invariant.                                                          *)

TextsKept == text = [p \in Procs |-> text[p]]

\* Commands do not overlap.
OneCommand == \A p, q \in Procs : pc[p] # "idle" /\ pc[q] # "idle" => p = q

StepsOfOp ==
    \A p \in Procs : /\ pc[p] = "save" => op[p] = "scrub"
                     /\ pc[p] = "wipe" => op[p] = "restore"

\* What a command is about to replace or to remove it has opened.
OpenedBefore ==
    \A p \in Procs :
        /\ pc[p] = "save" => file = NoFile \/ DecryptError(file, now[p]) = "none"
        /\ pc[p] = "wipe" => file # NoFile /\ DecryptError(file, now[p]) = "none"

\* A session's end was fixed when it was created.
EndFixed ==
    file # NoFile =>
        \/ file \in Strangers
        \/ /\ file = Seal([expires |-> file.expires, pairs |-> file.pairs])
           /\ file.expires = opened + SessionTtl

\* What is about to be saved ends when the session at PATH ends; a session
\* that is created has only its creator's pairs.
SaveReady ==
    \A p \in Procs : pc[p] = "save" =>
        /\ file # NoFile => contents[p].expires = file.expires
        /\ file = NoFile => /\ contents[p].expires = now[p] + SessionTtl
                            /\ contents[p].pairs \subseteq {<<d[2], d[1]>> : d \in out[p]}

CommandInv ==
    TypeOK /\ TextsKept /\ OneCommand /\ StepsOfOp /\ OpenedBefore /\ EndFixed /\ SaveReady

\* The pairs of a session.
Sessions ==
    {PairsOf(R) : R \in {S \in SUBSET Reals : IsFiniteSet(S) /\ Cardinality(S) <= MaxEntries}}

Holds(pairs, D) == \A d \in D : <<d[2], d[1]>> \in pairs \/ Cardinality(pairs) = MaxEntries

\* What a session lacks of D it lacks because it is full; D is of generated
\* replacements.
GeneratedOnly(D) == D \subseteq {<<r, FakeOf[r]>> : r \in Reals}

FileHolds ==
    /\ file # NoFile => file.pairs \in Sessions /\ Holds(file.pairs, delivered)
    /\ file = NoFile => delivered = {}
    /\ GeneratedOnly(delivered)

\* A scrub saves what it is going to print along with what was printed before.
ScrubHolds ==
    \A p \in Procs :
        /\ pc[p] = "save" => /\ contents[p].pairs \in Sessions
                             /\ Holds(contents[p].pairs, delivered \cup out[p])
        /\ pc[p] \in {"save", "write"} /\ op[p] = "scrub" => GeneratedOnly(out[p])
        /\ pc[p] = "write" /\ op[p] = "scrub" => file # NoFile /\ Holds(file.pairs, out[p])

\* A restore is given printed replacements and gives back what the session holds.
RestoreHolds ==
    \A p \in Procs :
        /\ pc[p] \in {"load", "wipe"} /\ op[p] = "restore" => text[p] \subseteq delivered
        /\ pc[p] = "wipe" => /\ out[p] \subseteq text[p]
                             /\ out[p] # text[p] => Cardinality(file.pairs) = MaxEntries

SessionInv == FileHolds /\ ScrubHolds /\ RestoreHolds

-----------------------------------------------------------------------------
(* Files.                                                                  *)

\* What a sealed session is, and that it opens until it expires.
LEMMA SealParts ==
    ASSUME NEW c \in Contents
    PROVE  /\ Seal(c) \in File /\ Seal(c) # NoFile
           /\ Seal(c).expires = c.expires /\ Seal(c).pairs = c.pairs
           /\ \A t : DecryptError(Seal(c), t) = IF c.expires <= t THEN "Expired" ELSE "none"
           /\ Seal(c) = Seal([expires |-> Seal(c).expires, pairs |-> Seal(c).pairs])
<1> DEFINE h == [magic |-> Magic, version |-> Version]
<1>1. Seal(c) = [long |-> TRUE, header |-> h, key |-> "session", aad |-> h,
                 decodes |-> TRUE, expires |-> c.expires, pairs |-> c.pairs]
  BY DEF Seal
<1>2. h \in Header /\ h.magic = Magic /\ h.version = Version
  BY DEF Header, Magic, Version
<1>3. c.expires \in Nat /\ c.pairs \in SUBSET Pairs
  BY DEF Contents
<1>4. TRUE \in BOOLEAN /\ "session" \in Subkeys
  BY DEF Subkeys
<1>5. Seal([expires |-> c.expires, pairs |-> c.pairs]) =
          [long |-> TRUE, header |-> h, key |-> "session", aad |-> h,
           decodes |-> TRUE, expires |-> c.expires, pairs |-> c.pairs]
  BY DEF Seal
<1> HIDE DEF h
<1>6. Seal(c) \in File
  BY <1>1, <1>2, <1>3, <1>4 DEF File
<1>7. \A t : DecryptError(Seal(c), t) = IF c.expires <= t THEN "Expired" ELSE "none"
  BY <1>1, <1>2 DEF DecryptError, Expires
<1>8. Seal(c).expires = c.expires /\ Seal(c).pairs = c.pairs
  BY <1>1
<1> QED
  BY <1>1, <1>5, <1>6, <1>7, <1>8, NoFileAssumption

\* Files that are not live sessions of this vault are refused.
LEMMA StrangersRefused ==
    ASSUME NEW f \in Strangers
    PROVE  f \in File /\ f # NoFile /\ f.pairs = {} /\ \A t : DecryptError(f, t) # "none"
<1> DEFINE h == [magic |-> Magic, version |-> Version]
           g == Seal([expires |-> MaxTime + 1, pairs |-> {}])
           Goal == f \in File /\ f.pairs = {} /\ \A t : DecryptError(f, t) # "none"
<1>1. g \in File
  <2>1. [expires |-> MaxTime + 1, pairs |-> {}] \in Contents
    BY SessionBounds DEF Contents
  <2> QED
    BY <2>1, SealParts
<1>2. g = [long |-> TRUE, header |-> h, key |-> "session", aad |-> h,
           decodes |-> TRUE, expires |-> MaxTime + 1, pairs |-> {}]
  BY DEF Seal
<1>3. f \in {[g EXCEPT !.long = FALSE],
             [g EXCEPT !.header.magic = "other", !.aad.magic = "other", !.key = "vault"],
             [g EXCEPT !.header.version = 2, !.aad.version = 2],
             [g EXCEPT !.key = "session of another vault"],
             [g EXCEPT !.aad.version = 2],
             [g EXCEPT !.decodes = FALSE]}
  BY DEF Strangers
<1>4. g.long = TRUE /\ g.header = h /\ g.aad = h /\ g.key = "session" /\ g.decodes = TRUE /\ g.pairs = {}
  BY <1>2
<1>5. h.magic = Magic /\ h.version = 1 /\ Magic # "other"
  BY DEF Magic, Version
<1> HIDE DEF g, h
<1>6. ASSUME f = [g EXCEPT !.long = FALSE] PROVE Goal
  <2>1. f \in File
    BY <1>1, <1>6 DEF File, Header, Subkeys
  <2>2. f.long = FALSE
    BY <1>1, <1>4, <1>5, <1>6 DEF File, Header
  <2>3. f.pairs = {}
    BY <1>1, <1>4, <1>6 DEF File
  <2>4. \A t : DecryptError(f, t) # "none"
    BY <1>5, <2>2 DEF DecryptError, Version
  <2> QED
    BY <2>1, <2>3, <2>4
<1>7. ASSUME f = [g EXCEPT !.header.magic = "other", !.aad.magic = "other", !.key = "vault"] PROVE Goal
  <2>1. f \in File
    BY <1>1, <1>7 DEF File, Header, Subkeys
  <2>2. f.long = TRUE /\ f.header.magic = "other"
    BY <1>1, <1>4, <1>5, <1>7 DEF File, Header
  <2>3. f.pairs = {}
    BY <1>1, <1>4, <1>7 DEF File
  <2>4. \A t : DecryptError(f, t) # "none"
    BY <1>5, <2>2 DEF DecryptError, Version
  <2> QED
    BY <2>1, <2>3, <2>4
<1>8. ASSUME f = [g EXCEPT !.header.version = 2, !.aad.version = 2] PROVE Goal
  <2>1. f \in File
    <3> DEFINE a == [g.header EXCEPT !.version = 2]
               b == [g.aad EXCEPT !.version = 2]
    <3>1. g.header \in Header /\ g.aad \in Header
      BY <1>1 DEF File
    <3>2. a \in Header /\ b \in Header
      BY <3>1, 2 \in 1..2 DEF Header
    <3>3. f = [g EXCEPT !.header = a, !.aad = b]
      BY <1>8
    <3> HIDE DEF a, b
    <3> QED
      BY <1>1, <3>2, <3>3 DEF File
  <2>2. f.long = TRUE /\ f.header.magic = Magic /\ f.header.version = 2
    BY <1>1, <1>4, <1>5, <1>8 DEF File, Header
  <2>3. f.pairs = {}
    BY <1>1, <1>4, <1>8 DEF File
  <2>4. \A t : DecryptError(f, t) # "none"
    BY <1>5, <2>2 DEF DecryptError, Version
  <2> QED
    BY <2>1, <2>3, <2>4
<1>9. ASSUME f = [g EXCEPT !.key = "session of another vault"] PROVE Goal
  <2>1. f \in File
    BY <1>1, <1>9 DEF File, Header, Subkeys
  <2>2. f.long = TRUE /\ f.header = h /\ f.key # "session"
    BY <1>1, <1>4, <1>5, <1>9 DEF File, Header
  <2>3. f.pairs = {}
    BY <1>1, <1>4, <1>9 DEF File
  <2>4. \A t : DecryptError(f, t) # "none"
    BY <1>5, <2>2 DEF DecryptError, Version
  <2> QED
    BY <2>1, <2>3, <2>4
<1>10. ASSUME f = [g EXCEPT !.aad.version = 2] PROVE Goal
  <2>1. f \in File
    <3> DEFINE b == [g.aad EXCEPT !.version = 2]
    <3>1. g.aad \in Header
      BY <1>1 DEF File
    <3>2. b \in Header
      BY <3>1, 2 \in 1..2 DEF Header
    <3>3. f = [g EXCEPT !.aad = b]
      BY <1>10
    <3> HIDE DEF b
    <3> QED
      BY <1>1, <3>2, <3>3 DEF File
  <2>2. f.long = TRUE /\ f.header = h /\ f.aad.version = 2
    BY <1>1, <1>4, <1>5, <1>10 DEF File, Header
  <2>3. f.pairs = {}
    BY <1>1, <1>4, <1>10 DEF File
  <2>4. \A t : DecryptError(f, t) # "none"
    BY <1>5, <2>2 DEF DecryptError, Version
  <2> QED
    BY <2>1, <2>3, <2>4
<1>11. ASSUME f = [g EXCEPT !.decodes = FALSE] PROVE Goal
  <2>1. f \in File
    BY <1>1, <1>11, 2 \in 1..2 DEF File
  <2>2. f.long = TRUE /\ f.header = h /\ f.key = "session" /\ f.aad = h /\ f.decodes = FALSE
    BY <1>1, <1>4, <1>5, <1>11 DEF File, Header
  <2>3. f.pairs = {}
    BY <1>1, <1>4, <1>11 DEF File
  <2>4. \A t : DecryptError(f, t) # "none"
    BY <1>5, <2>2 DEF DecryptError, Version
  <2> QED
    BY <2>1, <2>3, <2>4
<1>12. Goal
  BY <1>3, <1>6, <1>7, <1>8, <1>9, <1>10, <1>11
<1> QED
  BY <1>12, NoFileAssumption

\* What restore finds in a map is a value of one of its entries.
LEMMA RestoreFinds ==
    ASSUME NEW m, NEW f
    PROVE  \A r \in RestoreResult(m, f, 0) : <<f, r>> \in Entries(m)
<1> DEFINE p == Prune(m, 0)
<1>1. Entries(p) \subseteq Entries(m)
  BY EntriesShrink DEF Prune
<1>2. ASSUME f \in DOMAIN p.byFake PROVE <<f, p.byFake[f].real>> \in Entries(p)
  BY <1>2 DEF Entries
<1>3. RestoreResult(m, f, 0) = IF f \in DOMAIN p.byFake THEN {p.byFake[f].real} ELSE {}
  BY DEF RestoreResult
<1> HIDE DEF p
<1> QED
  BY <1>1, <1>2, <1>3

\* What restore gives back are replacements.
LEMMA RestoreOutputType ==
    ASSUME NEW pairs \in SUBSET Pairs, NEW doc \in SUBSET Replacements
    PROVE  RestoreOutput(Import(pairs), doc) \subseteq Replacements
<1> SUFFICES ASSUME NEW d \in doc, NEW r \in RestoreResult(Import(pairs), d[2], 0)
             PROVE  <<r, d[2]>> \in Replacements
  BY DEF RestoreOutput
<1>1. <<d[2], r>> \in Entries(Import(pairs))
  BY RestoreFinds
<1>2. <<d[2], r>> \in pairs
  BY <1>1, ImportEntries
<1> QED
  BY <1>2 DEF Pairs, Replacements

\* What a scrub saves are pairs.
LEMMA ScrubTypes ==
    ASSUME NEW pairs \in SUBSET Pairs, NEW t \in Seq(Reals)
    PROVE  /\ ScrubOutput(t) \subseteq Replacements
           /\ \A m \in ScrubMaps(Import(pairs), t) :
                 /\ Entries(m) \subseteq pairs \cup {<<d[2], d[1]>> : d \in ScrubOutput(t)}
                 /\ Entries(m) \in SUBSET Pairs
<1>1. ScrubOutput(t) \subseteq Replacements
  BY FakeOfAssumption DEF ScrubOutput, Replacements
<1>2. Entries(Import(pairs)) \subseteq pairs
  BY ImportEntries
<1>3. \A m \in ScrubMaps(Import(pairs), t) :
          Entries(m) \subseteq Entries(Import(pairs)) \cup {<<d[2], d[1]>> : d \in ScrubOutput(t)}
  BY ScrubEntries
<1>4. {<<d[2], d[1]>> : d \in ScrubOutput(t)} \subseteq Pairs
  BY <1>1 DEF Replacements, Pairs
<1> QED
  BY <1>1, <1>2, <1>3, <1>4

-----------------------------------------------------------------------------
(* Types.                                                                  *)

\* What TypeOK says of one process's input, as a fact about the new one.
InputOK(which, input) ==
    IF which = "scrub" THEN input \in Seq(Reals) ELSE input \subseteq Replacements

\* A process that starts.
LEMMA BeginTypes ==
    ASSUME TypeOK, TextsKept, NEW p \in Procs, NEW which \in {"scrub", "restore"}, NEW input,
           InputOK(which, input), Begin(p, which, input)
    PROVE  TypeOK' /\ TextsKept'
<1>1. /\ op' = [op EXCEPT ![p] = which] /\ text' = [text EXCEPT ![p] = input]
      /\ DOMAIN text = Procs
  BY DEF Begin, TextsKept
<1>2. op' \in [Procs -> {"scrub", "restore"}]
  BY <1>1 DEF TypeOK
<1>3. text' = [q \in Procs |-> text'[q]]
  BY <1>1 DEF TextsKept
<1>4. \A q \in Procs : IF op'[q] = "scrub" THEN text'[q] \in Seq(Reals)
                       ELSE text'[q] \subseteq Replacements
  <2> TAKE q \in Procs
  <2>1. CASE q = p
    <3>1. op'[q] = which /\ text'[q] = input
      BY <1>1, <2>1 DEF TypeOK
    <3> QED
      BY <3>1 DEF InputOK
  <2>2. CASE q # p
    <3>1. op'[q] = op[q] /\ text'[q] = text[q]
      BY <1>1, <2>2 DEF TypeOK
    <3> QED
      BY <3>1 DEF TypeOK
  <2> QED
    BY <2>1, <2>2
<1>5. now' \in [Procs -> 0..MaxTime]
  BY DEF TypeOK, Begin
<1>6. pc' \in [Procs -> {"idle", "load", "save", "wipe", "write"}]
  BY DEF TypeOK, Begin
<1>7. result' \in [Procs -> {"none", "ok", "failed", "killed", "NotFound"} \cup Refusals]
  BY DEF TypeOK, Begin
<1>8. UNCHANGED <<clock, file, contents, out, faults, delivered, opened>>
  BY DEF Begin
<1> QED
  BY <1>2, <1>3, <1>4, <1>5, <1>6, <1>7, <1>8 DEF TypeOK, TextsKept

\* Leaving and going on.
LEMMA GotoTypes ==
    ASSUME TypeOK, NEW p \in Procs, NEW step \in {"idle", "load", "save", "wipe", "write"},
           NEW how \in {"none", "ok", "failed", "killed", "NotFound"} \cup Refusals,
           Goto(p, step) \/ Exit(p, how)
    PROVE  /\ pc' \in [Procs -> {"idle", "load", "save", "wipe", "write"}]
           /\ result' \in [Procs -> {"none", "ok", "failed", "killed", "NotFound"} \cup Refusals]
  BY DEF TypeOK, Goto, Exit

\* A fault counts up to its bound.
LEMMA FaultTypes ==
    ASSUME TypeOK, Fault \/ UNCHANGED faults
    PROVE  faults' \in 0..MaxFaults
  BY SessionBounds DEF TypeOK, Fault

\* Why a file is refused is one of the refusals.
LEMMA RefusalTypes ==
    ASSUME NEW f, NEW t, DecryptError(f, t) # "none"
    PROVE  DecryptError(f, t) \in Refusals
  BY DEF DecryptError, Refusals

\* The session a scrub works with.
LEMMA LoadTypes ==
    ASSUME TypeOK, NEW p \in Procs
    PROVE  /\ LoadOrCreate(now[p]).expires \in Nat
           /\ LoadOrCreate(now[p]).pairs \in SUBSET Pairs
           /\ file = NoFile => /\ LoadOrCreate(now[p]).expires = now[p] + SessionTtl
                               /\ LoadOrCreate(now[p]).pairs = {}
           /\ file # NoFile => /\ LoadOrCreate(now[p]).expires = file.expires
                               /\ LoadOrCreate(now[p]).pairs = file.pairs
<1>1. now[p] \in Nat
  BY SessionBounds DEF TypeOK
<1>2. CASE file = NoFile
  BY <1>1, <1>2, SessionBounds DEF LoadOrCreate, NewAt
<1>3. CASE file # NoFile
  <2>1. file \in File
    BY <1>3 DEF TypeOK
  <2>2. file.expires \in Nat /\ file.pairs \in SUBSET Pairs
    BY <2>1 DEF File
  <2> QED
    BY <1>3, <2>2 DEF LoadOrCreate
<1> QED
  BY <1>2, <1>3

\* What scrub loads, stores and is about to print has its type.
LEMMA LoadForScrubTypes ==
    ASSUME TypeOK, TextsKept, NEW p \in Procs, LoadForScrub(p)
    PROVE  TypeOK' /\ TextsKept'
<1>1. UNCHANGED <<clock, file, op, text, now, delivered, opened>>
  BY DEF LoadForScrub
<1>2. contents' \in [Procs -> Contents] /\ out' \in [Procs -> SUBSET Replacements]
  <2>1. CASE UNCHANGED <<contents, out>>
    BY <2>1 DEF TypeOK
  <2>2. CASE ~UNCHANGED <<contents, out>>
    <3> DEFINE session == LoadOrCreate(now[p])
    <3>1. PICK m \in ScrubMaps(Import(session.pairs), text[p]) :
              contents' = [contents EXCEPT ![p] =
                  [expires |-> session.expires, pairs |-> Entries(m)]]
      BY <2>2 DEF LoadForScrub
    <3>2. out' = [out EXCEPT ![p] = ScrubOutput(text[p])]
      BY <2>2 DEF LoadForScrub
    <3>3. text[p] \in Seq(Reals)
      BY DEF TypeOK, LoadForScrub
    <3>4. session.expires \in Nat /\ session.pairs \in SUBSET Pairs
      BY LoadTypes
    <3>5. Entries(m) \in SUBSET Pairs /\ ScrubOutput(text[p]) \subseteq Replacements
      BY <3>3, <3>4, ScrubTypes
    <3> HIDE DEF session
    <3>6. [expires |-> session.expires, pairs |-> Entries(m)] \in Contents
      BY <3>4, <3>5 DEF Contents
    <3>7. contents' \in [Procs -> Contents]
      BY <3>1, <3>6 DEF TypeOK
    <3>8. out' \in [Procs -> SUBSET Replacements]
      BY <3>2, <3>5 DEF TypeOK
    <3> QED
      BY <3>7, <3>8
  <2> QED
    BY <2>1, <2>2
<1>3. faults' \in 0..MaxFaults
  BY FaultTypes DEF LoadForScrub
<1>4. \/ Goto(p, "save") \/ Exit(p, "failed")
      \/ Exit(p, DecryptError(file, now[p])) /\ DecryptError(file, now[p]) \in Refusals
  BY RefusalTypes DEF LoadForScrub, Refused
<1>5. /\ pc' \in [Procs -> {"idle", "load", "save", "wipe", "write"}]
      /\ result' \in [Procs -> {"none", "ok", "failed", "killed", "NotFound"} \cup Refusals]
  BY <1>4, GotoTypes
<1> QED
  BY <1>1, <1>2, <1>3, <1>5 DEF TypeOK, TextsKept

\* So has the file it saves.
LEMMA SaveTypes ==
    ASSUME TypeOK, TextsKept, NEW p \in Procs, Save(p)
    PROVE  TypeOK' /\ TextsKept'
<1>1. UNCHANGED <<clock, op, text, now, contents, out, delivered>>
  BY DEF Save
<1>2. contents[p] \in Contents
  BY DEF TypeOK
<1>3. Seal(contents[p]) \in File
  BY <1>2, SealParts
<1>4. file' \in File \cup {NoFile}
  BY <1>3 DEF Save, SaveSessionFile, TypeOK
<1>5. opened' \in 0..MaxTime
  BY DEF Save, TypeOK
<1>6. faults' \in 0..MaxFaults
  BY FaultTypes DEF Save, SaveSessionFile
<1>7. /\ pc' \in [Procs -> {"idle", "load", "save", "wipe", "write"}]
      /\ result' \in [Procs -> {"none", "ok", "failed", "killed", "NotFound"} \cup Refusals]
  BY GotoTypes DEF Save
<1> QED
  BY <1>1, <1>4, <1>5, <1>6, <1>7 DEF TypeOK, TextsKept

\* So has what restore is about to print.
LEMMA LoadForRestoreTypes ==
    ASSUME TypeOK, TextsKept, NEW p \in Procs, LoadForRestore(p)
    PROVE  TypeOK' /\ TextsKept'
<1>1. UNCHANGED <<clock, file, op, text, now, contents, delivered, opened>>
  BY DEF LoadForRestore
<1>2. out' \in [Procs -> SUBSET Replacements]
  <2>1. CASE UNCHANGED out
    BY <2>1 DEF TypeOK
  <2>2. CASE ~UNCHANGED out
    <3>1. /\ out' = [out EXCEPT ![p] = RestoreOutput(Import(file.pairs), text[p])]
          /\ file # NoFile /\ op[p] = "restore"
      BY <2>2 DEF LoadForRestore
    <3>2. file \in File /\ text[p] \in SUBSET Replacements
      BY <3>1 DEF TypeOK
    <3>3. file.pairs \in SUBSET Pairs
      BY <3>2 DEF File
    <3>4. RestoreOutput(Import(file.pairs), text[p]) \subseteq Replacements
      BY <3>2, <3>3, RestoreOutputType
    <3> QED
      BY <3>1, <3>4 DEF TypeOK
  <2> QED
    BY <2>1, <2>2
<1>3. faults' \in 0..MaxFaults
  BY FaultTypes DEF LoadForRestore
<1>4. \/ Goto(p, "wipe") \/ Exit(p, "failed") \/ Exit(p, "NotFound")
      \/ Exit(p, DecryptError(file, now[p])) /\ DecryptError(file, now[p]) \in Refusals
  BY RefusalTypes DEF LoadForRestore, Refused
<1>5. /\ pc' \in [Procs -> {"idle", "load", "save", "wipe", "write"}]
      /\ result' \in [Procs -> {"none", "ok", "failed", "killed", "NotFound"} \cup Refusals]
  BY <1>4, GotoTypes
<1> QED
  BY <1>1, <1>2, <1>3, <1>5 DEF TypeOK, TextsKept

\* Wiping keeps types.
LEMMA WipeTypes ==
    ASSUME TypeOK, TextsKept, NEW p \in Procs, Wipe(p)
    PROVE  TypeOK' /\ TextsKept'
<1>1. UNCHANGED <<clock, op, text, now, contents, out, opened>>
  BY DEF Wipe
<1>2. file' \in File \cup {NoFile} /\ delivered' \subseteq Replacements
  BY DEF Wipe, WipeSessionFile, TypeOK
<1>3. faults' \in 0..MaxFaults
  BY FaultTypes DEF Wipe, WipeSessionFile
<1>4. /\ pc' \in [Procs -> {"idle", "load", "save", "wipe", "write"}]
      /\ result' \in [Procs -> {"none", "ok", "failed", "killed", "NotFound"} \cup Refusals]
  BY GotoTypes DEF Wipe
<1> QED
  BY <1>1, <1>2, <1>3, <1>4 DEF TypeOK, TextsKept

\* The end of a command keeps types.
LEMMA EndTypes ==
    ASSUME TypeOK, TextsKept, NEW p \in Procs, WriteOut(p) \/ Kill(p)
    PROVE  TypeOK' /\ TextsKept'
<1>1. UNCHANGED <<clock, file, op, text, now, contents, out, opened>>
  BY DEF WriteOut, Kill
<1>2. delivered' \subseteq Replacements
  BY DEF WriteOut, Kill, TypeOK
<1>3. faults' \in 0..MaxFaults
  BY FaultTypes DEF WriteOut, Kill
<1>4. /\ pc' \in [Procs -> {"idle", "load", "save", "wipe", "write"}]
      /\ result' \in [Procs -> {"none", "ok", "failed", "killed", "NotFound"} \cup Refusals]
  BY GotoTypes DEF WriteOut, Kill
<1> QED
  BY <1>1, <1>2, <1>3, <1>4 DEF TypeOK, TextsKept

\* Types are kept.
LEMMA StepTypes ==
    ASSUME TypeOK, TextsKept, [Next]_vars
    PROVE  TypeOK' /\ TextsKept'
<1>1. CASE Tick
  <2>1. clock' \in 0..MaxTime
    BY <1>1, SessionBounds DEF Tick, TypeOK
  <2> QED
    BY <1>1, <2>1 DEF Tick, TypeOK, TextsKept
<1>2. ASSUME NEW p \in Procs, BeginScrub(p) PROVE TypeOK' /\ TextsKept'
  <2>1. PICK t \in Texts : Begin(p, "scrub", t)
    BY <1>2 DEF BeginScrub
  <2>2. InputOK("scrub", t)
    BY TextAssumption DEF InputOK
  <2> QED
    BY <2>1, <2>2, BeginTypes
<1>3. ASSUME NEW p \in Procs, BeginRestore(p) PROVE TypeOK' /\ TextsKept'
  <2>1. PICK doc \in SUBSET delivered : Begin(p, "restore", doc)
    BY <1>3 DEF BeginRestore
  <2>2. InputOK("restore", doc)
    BY DEF InputOK, TypeOK
  <2> QED
    BY <2>1, <2>2, BeginTypes
<1>4. CASE UserDeletes
  BY <1>4 DEF UserDeletes, TypeOK, TextsKept
<1>5. CASE UserPlaces
  <2>1. file' \in File
    BY <1>5, StrangersRefused DEF UserPlaces
  <2> QED
    BY <1>5, <2>1 DEF UserPlaces, TypeOK, TextsKept
<1>6. CASE UNCHANGED vars
  BY <1>6 DEF vars, TypeOK, TextsKept
<1> QED
  BY <1>1, <1>2, <1>3, <1>4, <1>5, <1>6, LoadForScrubTypes, SaveTypes, LoadForRestoreTypes,
     WipeTypes, EndTypes DEF Next

-----------------------------------------------------------------------------
(* Commands that do not overlap.                                           *)

\* While a command runs the others are idle.
LEMMA Alone ==
    ASSUME TypeOK, OneCommand, NEW p \in Procs, pc[p] # "idle",
           NEW step, pc' = [pc EXCEPT ![p] = step]
    PROVE  /\ pc'[p] = step
           /\ \A q \in Procs : q # p => pc[q] = "idle" /\ pc'[q] = "idle"
           /\ OneCommand'
<1>1. pc'[p] = step /\ \A q \in Procs : q # p => pc'[q] = pc[q]
  BY DEF TypeOK
<1>2. \A q \in Procs : q # p => pc[q] = "idle"
  BY DEF OneCommand
<1> QED
  BY <1>1, <1>2 DEF OneCommand

\* A command starts when no other runs.
LEMMA BeginAlone ==
    ASSUME MaxRunning = 1, TypeOK, OneCommand, NEW p \in Procs, NEW which, NEW input,
           Begin(p, which, input)
    PROVE  /\ \A q \in Procs : pc[q] = "idle"
           /\ pc'[p] = "load" /\ \A q \in Procs : q # p => pc'[q] = "idle"
           /\ op'[p] = which /\ text' = [text EXCEPT ![p] = input]
<1>1. \A q \in Procs : pc[q] = "idle"
  <2> SUFFICES ASSUME NEW q \in Procs, pc[q] # "idle" PROVE FALSE
    OBVIOUS
  <2>1. {x \in Procs : pc[x] # "idle"} = {q}
    BY DEF OneCommand
  <2>2. Cardinality({q}) = 1
    BY FS_Singleton
  <2>3. Cardinality({x \in Procs : pc[x] # "idle"}) < MaxRunning
    BY DEF Begin
  <2> QED
    BY <2>1, <2>2, <2>3
<1>2. pc' = [pc EXCEPT ![p] = "load"] /\ op' = [op EXCEPT ![p] = which]
      /\ text' = [text EXCEPT ![p] = input]
  BY DEF Begin
<1> QED
  BY <1>1, <1>2 DEF TypeOK

\* The parts of the invariant that speak of commands which are about to
\* change the file.
ReadyInv == StepsOfOp /\ OpenedBefore /\ SaveReady

\* They hold when no command is that far.
LEMMA NothingReady ==
    ASSUME \A q \in Procs : pc'[q] \notin {"save", "wipe"}
    PROVE  ReadyInv'
  BY DEF ReadyInv, StepsOfOp, OpenedBefore, SaveReady

\* A command that starts is not about to change the file.
LEMMA BeginKeeps ==
    ASSUME MaxRunning = 1, CommandInv, NEW p \in Procs, NEW which, NEW input,
           Begin(p, which, input)
    PROVE  OneCommand' /\ ReadyInv' /\ EndFixed'
<1>1. pc'[p] = "load" /\ \A q \in Procs : q # p => pc'[q] = "idle"
  BY BeginAlone DEF CommandInv
<1>2. ReadyInv'
  BY <1>1, NothingReady
<1>3. OneCommand'
  BY <1>1 DEF OneCommand
<1>4. EndFixed'
  BY DEF Begin, CommandInv, EndFixed
<1> QED
  BY <1>2, <1>3, <1>4

\* A scrub that goes on to save has opened the file or found none.
LEMMA LoadForScrubKeeps ==
    ASSUME CommandInv, NEW p \in Procs, LoadForScrub(p)
    PROVE  OneCommand' /\ ReadyInv' /\ EndFixed'
<1>1. TypeOK /\ OneCommand /\ pc[p] = "load" /\ op[p] = "scrub"
  BY DEF CommandInv, LoadForScrub
<1>2. EndFixed'
  BY DEF LoadForScrub, CommandInv, EndFixed
<1>3. CASE pc' = [pc EXCEPT ![p] = "idle"]
  <2>1. OneCommand' /\ \A q \in Procs : pc'[q] = "idle"
    BY <1>1, <1>3, Alone
  <2> QED
    BY <1>2, <2>1, NothingReady
<1>4. CASE ~(pc' = [pc EXCEPT ![p] = "idle"])
  <2> DEFINE session == LoadOrCreate(now[p])
  <2>1. /\ ~Refused(now[p]) /\ pc' = [pc EXCEPT ![p] = "save"]
        /\ out' = [out EXCEPT ![p] = ScrubOutput(text[p])]
        /\ UNCHANGED <<clock, file, op, text, now, delivered, opened>>
    BY <1>4 DEF LoadForScrub, Exit, Goto
  <2>2. PICK m \in ScrubMaps(Import(session.pairs), text[p]) :
            contents' = [contents EXCEPT ![p] =
                [expires |-> session.expires, pairs |-> Entries(m)]]
    BY <1>4 DEF LoadForScrub, Exit
  <2>3. text[p] \in Seq(Reals)
    BY <1>1 DEF TypeOK
  <2>4. session.pairs \in SUBSET Pairs
    BY <1>1, LoadTypes
  <2>5. Entries(m) \subseteq session.pairs \cup {<<d[2], d[1]>> : d \in ScrubOutput(text[p])}
    BY <2>3, <2>4, ScrubTypes
  <2>6. /\ file = NoFile => session.expires = now[p] + SessionTtl /\ session.pairs = {}
        /\ file # NoFile => session.expires = file.expires
    BY <1>1, LoadTypes
  <2> HIDE DEF session
  <2>7. contents'[p].expires = session.expires /\ contents'[p].pairs = Entries(m)
        /\ out'[p] = ScrubOutput(text[p])
    BY <1>1, <2>1, <2>2 DEF TypeOK
  <2>8. /\ OneCommand' /\ pc'[p] = "save"
        /\ \A q \in Procs : q # p => pc'[q] = "idle"
    BY <1>1, <2>1, Alone
  <2>9. /\ file' # NoFile => contents'[p].expires = file'.expires
        /\ file' = NoFile => /\ contents'[p].expires = now'[p] + SessionTtl
                             /\ contents'[p].pairs \subseteq {<<d[2], d[1]>> : d \in out'[p]}
    BY <2>1, <2>5, <2>6, <2>7
  <2>10. file' = NoFile \/ DecryptError(file', now'[p]) = "none"
    BY <2>1 DEF Refused
  <2>11. op'[p] = "scrub"
    BY <1>1, <2>1
  <2>12. SaveReady'
    BY <2>8, <2>9 DEF SaveReady
  <2>13. OpenedBefore'
    BY <2>8, <2>10 DEF OpenedBefore
  <2>14. StepsOfOp'
    BY <2>8, <2>11 DEF StepsOfOp
  <2> QED
    BY <1>2, <2>8, <2>12, <2>13, <2>14 DEF ReadyInv
<1> QED
  BY <1>3, <1>4

\* A save keeps the end of the session, or sets that of a new one.
LEMMA SaveKeeps ==
    ASSUME CommandInv, NEW p \in Procs, Save(p)
    PROVE  OneCommand' /\ ReadyInv' /\ EndFixed'
<1>1. TypeOK /\ OneCommand /\ pc[p] = "save"
  BY DEF CommandInv, Save
<1>2. PICK step \in {"idle", "write"} : pc' = [pc EXCEPT ![p] = step]
  BY DEF Save, Goto, Exit
<1>3. OneCommand' /\ \A q \in Procs : pc'[q] \in {"idle", "write"}
  BY <1>1, <1>2, Alone
<1>4. ReadyInv'
  BY <1>3, NothingReady
<1>5. EndFixed'
  <2> DEFINE c == contents[p]
  <2>1. c \in Contents
    BY <1>1 DEF TypeOK
  <2>2. /\ Seal(c) # NoFile /\ Seal(c).expires = c.expires
        /\ Seal(c) = Seal([expires |-> Seal(c).expires, pairs |-> Seal(c).pairs])
    BY <2>1, SealParts
  <2>3. /\ file # NoFile => c.expires = file.expires
        /\ file = NoFile => c.expires = now[p] + SessionTtl
        /\ file = NoFile \/ DecryptError(file, now[p]) = "none"
    BY <1>1 DEF CommandInv, SaveReady, OpenedBefore
  <2> HIDE DEF c
  <2>4. file' = file \/ file' = Seal(c)
    BY DEF Save, SaveSessionFile, c
  <2>5. opened' = (IF file = NoFile /\ file' # NoFile THEN now[p] ELSE opened)
    BY DEF Save
  <2>6. CASE file' = file
    BY <2>5, <2>6 DEF CommandInv, EndFixed
  <2>7. CASE file' = Seal(c)
    <3>1. CASE file = NoFile
      BY <2>2, <2>3, <2>5, <2>7, <3>1 DEF EndFixed
    <3>2. CASE file # NoFile
      <4>1. file \notin Strangers
        BY <2>3, <3>2, StrangersRefused
      <4>2. file.expires = opened + SessionTtl
        BY <3>2, <4>1 DEF CommandInv, EndFixed
      <4> QED
        BY <2>2, <2>3, <2>5, <2>7, <3>2, <4>2 DEF EndFixed
    <3> QED
      BY <3>1, <3>2
  <2> QED
    BY <2>4, <2>6, <2>7
<1> QED
  BY <1>3, <1>4, <1>5

\* A restore that goes on to wipe has opened the file.
LEMMA LoadForRestoreKeeps ==
    ASSUME CommandInv, NEW p \in Procs, LoadForRestore(p)
    PROVE  OneCommand' /\ ReadyInv' /\ EndFixed'
<1>1. TypeOK /\ OneCommand /\ pc[p] = "load" /\ op[p] = "restore"
  BY DEF CommandInv, LoadForRestore
<1>2. EndFixed'
  BY DEF LoadForRestore, CommandInv, EndFixed
<1>3. CASE pc' = [pc EXCEPT ![p] = "idle"]
  <2>1. OneCommand' /\ \A q \in Procs : pc'[q] = "idle"
    BY <1>1, <1>3, Alone
  <2> QED
    BY <1>2, <2>1, NothingReady
<1>4. CASE ~(pc' = [pc EXCEPT ![p] = "idle"])
  <2>1. /\ file # NoFile /\ ~Refused(now[p]) /\ pc' = [pc EXCEPT ![p] = "wipe"]
        /\ UNCHANGED <<clock, file, op, text, now, contents, delivered, opened>>
    BY <1>4 DEF LoadForRestore, Exit, Goto
  <2>2. /\ OneCommand' /\ pc'[p] = "wipe"
        /\ \A q \in Procs : q # p => pc'[q] = "idle"
    BY <1>1, <2>1, Alone
  <2>3. file' # NoFile /\ DecryptError(file', now'[p]) = "none" /\ op'[p] = "restore"
    BY <1>1, <2>1 DEF Refused
  <2>4. ReadyInv'
    BY <2>2, <2>3 DEF ReadyInv, StepsOfOp, OpenedBefore, SaveReady
  <2> QED
    BY <1>2, <2>2, <2>4
<1> QED
  BY <1>3, <1>4

\* Wiping, printing and being killed leave no command about to save.
LEMMA EndKeeps ==
    ASSUME CommandInv, NEW p \in Procs, Wipe(p) \/ WriteOut(p) \/ Kill(p)
    PROVE  OneCommand' /\ ReadyInv' /\ EndFixed'
<1>1. TypeOK /\ OneCommand /\ pc[p] # "idle"
  BY DEF CommandInv, Wipe, WriteOut, Kill
<1>2. PICK step \in {"idle", "write"} : pc' = [pc EXCEPT ![p] = step]
  BY DEF Wipe, WriteOut, Kill, Goto, Exit
<1>3. OneCommand' /\ \A q \in Procs : pc'[q] \in {"idle", "write"}
  BY <1>1, <1>2, Alone
<1>4. ReadyInv'
  BY <1>3, NothingReady
<1>5. (file' = file \/ file' = NoFile) /\ opened' = opened
  BY DEF Wipe, WriteOut, Kill, WipeSessionFile
<1>6. EndFixed'
  BY <1>5 DEF CommandInv, EndFixed
<1> QED
  BY <1>3, <1>4, <1>6

\* Every step keeps the invariant.
LEMMA StepKeepsCommandInv ==
    ASSUME MaxRunning = 1, CommandInv, [Next]_vars
    PROVE  CommandInv'
<1>1. TypeOK' /\ TextsKept'
  BY StepTypes DEF CommandInv
<1> DEFINE Goal == OneCommand' /\ ReadyInv' /\ EndFixed'
<1>2. ASSUME Tick \/ UNCHANGED vars PROVE Goal
  <2>1. UNCHANGED <<file, pc, op, now, contents, out, opened>>
    BY <1>2 DEF Tick, vars
  <2>2. OneCommand' /\ StepsOfOp'
    BY <2>1 DEF CommandInv, OneCommand, StepsOfOp
  <2>3. OpenedBefore'
    BY <2>1 DEF CommandInv, OpenedBefore
  <2>4. SaveReady'
    BY <2>1 DEF CommandInv, SaveReady
  <2>5. EndFixed'
    BY <2>1 DEF CommandInv, EndFixed
  <2> QED
    BY <2>2, <2>3, <2>4, <2>5 DEF ReadyInv
<1>3. ASSUME NEW p \in Procs, BeginScrub(p) \/ BeginRestore(p) PROVE Goal
  <2>1. \E which, input : Begin(p, which, input)
    BY <1>3 DEF BeginScrub, BeginRestore
  <2> QED
    BY <2>1, BeginKeeps
<1>4. ASSUME UserDeletes \/ UserPlaces PROVE Goal
  <2>1. /\ \A p \in Procs : pc'[p] = "idle"
        /\ file' \in Strangers \cup {NoFile}
    BY <1>4 DEF UserDeletes, UserPlaces
  <2>2. ReadyInv'
    BY <2>1, NothingReady
  <2>3. OneCommand'
    BY <2>1 DEF OneCommand
  <2>4. EndFixed'
    BY <2>1 DEF EndFixed
  <2> QED
    BY <2>2, <2>3, <2>4
<1>5. ASSUME NEW p \in Procs,
             LoadForScrub(p) \/ Save(p) \/ LoadForRestore(p) \/ Wipe(p) \/ WriteOut(p) \/ Kill(p)
      PROVE  Goal
  BY <1>5, LoadForScrubKeeps, SaveKeeps, LoadForRestoreKeeps, EndKeeps
<1>6. Goal
  <2> HIDE DEF Goal
  <2> QED
    BY <1>2, <1>3, <1>4, <1>5 DEF Next
<1> QED
  BY <1>1, <1>6 DEF CommandInv, ReadyInv

\* It holds at first.
LEMMA InitCommandInv ==
    ASSUME Init
    PROVE  CommandInv
<1>1. TypeOK
  <2>1. \A p \in Procs : op[p] = "scrub" /\ text[p] \in Seq(Reals)
    BY DEF Init
  <2>2. contents \in [Procs -> Contents]
    BY DEF Init, Contents
  <2>3. 0 \in 0..MaxTime /\ 0 \in 0..MaxFaults
    BY SessionBounds
  <2> QED
    BY <2>1, <2>2, <2>3 DEF Init, TypeOK
<1>2. TextsKept
  BY DEF Init, TextsKept
<1>3. OneCommand /\ StepsOfOp /\ OpenedBefore /\ SaveReady /\ EndFixed
  BY DEF Init, OneCommand, StepsOfOp, OpenedBefore, SaveReady, EndFixed
<1> QED
  BY <1>1, <1>2, <1>3 DEF CommandInv

\* With one command at a time the invariant holds always.
LEMMA CommandInvariance ==
    ASSUME MaxRunning = 1
    PROVE  Spec => []CommandInv
<1>1. Init => CommandInv
  BY InitCommandInv
<1>2. CommandInv /\ [Next]_vars => CommandInv'
  BY StepKeepsCommandInv
<1> QED
  BY <1>1, <1>2, PTL DEF Spec

\* What a step may do to the file.
LEMMA FileSteps ==
    ASSUME CommandInv, [Next]_vars, file' # file
    PROVE  \/ \E p \in Procs : Save(p) /\ file' = Seal(contents[p])
           \/ \E p \in Procs : Wipe(p) /\ file' = NoFile
           \/ UserDeletes /\ file' = NoFile
           \/ UserPlaces
<1>1. ~(Tick \/ UNCHANGED vars)
  BY DEF Tick, vars
<1>2. ASSUME NEW p \in Procs
      PROVE  ~( \/ BeginScrub(p) \/ BeginRestore(p) \/ LoadForScrub(p) \/ LoadForRestore(p)
                \/ WriteOut(p) \/ Kill(p) )
  BY DEF BeginScrub, BeginRestore, Begin, LoadForScrub, LoadForRestore, WriteOut, Kill
<1>3. ASSUME NEW p \in Procs, Save(p) PROVE file' = Seal(contents[p])
  BY <1>3 DEF Save, SaveSessionFile
<1>4. ASSUME NEW p \in Procs, Wipe(p) PROVE file' = NoFile
  BY <1>4 DEF Wipe, WipeSessionFile
<1>5. UserDeletes => file' = NoFile
  BY DEF UserDeletes
<1> QED
  BY <1>1, <1>2, <1>3, <1>4, <1>5 DEF Next

\* The file a command could not open stays, whatever the command does next
\* (load_session_file, then save_session_file or wipe_session_file).
LEMMA StepKeepsRefusedFile ==
    ASSUME CommandInv, [Next]_vars, file # NoFile,
           NEW p \in Procs, pc[p] # "idle", DecryptError(file, now[p]) # "none"
    PROVE  file' = file
<1> SUFFICES ASSUME file' # file PROVE FALSE
  OBVIOUS
<1>1. ASSUME NEW q \in Procs, Save(q) \/ Wipe(q) PROVE FALSE
  <2>1. pc[q] \in {"save", "wipe"}
    BY <1>1 DEF Save, Wipe
  <2>2. q = p
    BY <2>1 DEF CommandInv, OneCommand
  <2> QED
    BY <2>1, <2>2 DEF CommandInv, OpenedBefore
<1>2. ~UserDeletes
  BY DEF UserDeletes
<1>3. ~UserPlaces
  BY DEF UserPlaces
<1> QED
  BY <1>1, <1>2, <1>3, FileSteps

\* A file that is used has not reached its end.
LEMMA StepUsesLiveSession ==
    ASSUME CommandInv, [Next]_vars, file # NoFile,
           NEW p \in Procs, pc[p] = "load", pc'[p] \in {"save", "wipe"}
    PROVE  now[p] < opened + SessionTtl
<1>1. DecryptError(file, now[p]) = "none"
  <2>1. ASSUME NEW q \in Procs, q # p PROVE pc[q] = "idle"
    BY <2>1 DEF CommandInv, OneCommand
  <2>2. pc' # pc
    OBVIOUS
  <2>3. ~(Tick \/ UserDeletes \/ UserPlaces \/ UNCHANGED vars)
    BY <2>2 DEF Tick, UserDeletes, UserPlaces, vars
  <2>4. ASSUME NEW q \in Procs, BeginScrub(q) \/ BeginRestore(q) PROVE FALSE
    <3>1. pc[q] = "idle" /\ pc' = [pc EXCEPT ![q] = "load"]
      BY <2>4 DEF BeginScrub, BeginRestore, Begin
    <3> QED
      BY <3>1 DEF CommandInv, TypeOK
  <2>5. ASSUME NEW q \in Procs, Save(q) \/ Wipe(q) \/ WriteOut(q) PROVE FALSE
    <3>1. pc[q] \in {"save", "wipe", "write"}
      BY <2>5 DEF Save, Wipe, WriteOut
    <3> QED
      BY <2>1, <3>1
  <2>6. ASSUME NEW q \in Procs, Kill(q) PROVE FALSE
    <3>1. pc[q] # "idle" /\ pc' = [pc EXCEPT ![q] = "idle"]
      BY <2>6 DEF Kill, Exit
    <3> QED
      BY <2>1, <3>1 DEF CommandInv, TypeOK
  <2>7. ASSUME NEW q \in Procs, LoadForScrub(q) \/ LoadForRestore(q)
        PROVE  DecryptError(file, now[p]) = "none"
    <3>1. q = p
      BY <2>1, <2>7 DEF LoadForScrub, LoadForRestore
    <3>2. pc' = [pc EXCEPT ![p] = "idle"] \/ ~Refused(now[p])
      BY <2>7, <3>1 DEF LoadForScrub, LoadForRestore, Exit
    <3>3. ~Refused(now[p])
      BY <3>2 DEF CommandInv, TypeOK
    <3> QED
      BY <3>3 DEF Refused
  <2> QED
    BY <2>3, <2>4, <2>5, <2>6, <2>7 DEF Next
<1>2. file \notin Strangers
  BY <1>1, StrangersRefused
<1> DEFINE c == [expires |-> file.expires, pairs |-> file.pairs]
<1>3. file = Seal(c) /\ file.expires = opened + SessionTtl
  BY <1>2 DEF CommandInv, EndFixed
<1>4. file.expires \in Nat /\ file.pairs \in SUBSET Pairs /\ now[p] \in Nat
  <2>1. file \in File
    BY DEF CommandInv, TypeOK
  <2>2. now[p] \in 0..MaxTime
    BY DEF CommandInv, TypeOK
  <2> QED
    BY <2>1, <2>2, SessionBounds DEF File
<1>5. c \in Contents /\ c.expires = file.expires
  BY <1>4 DEF Contents
<1> HIDE DEF c
<1>6. ~(c.expires <= now[p])
  BY <1>1, <1>3, <1>5, SealParts
<1> QED
  BY <1>3, <1>4, <1>5, <1>6

\* A session that is created holds its creator's pairs only.
LEMMA StepCreatesOwn ==
    ASSUME CommandInv, [Next]_vars, file = NoFile, file' \notin Strangers \cup {NoFile}
    PROVE  \E p \in Procs : file'.pairs \subseteq {<<d[2], d[1]>> : d \in out[p]}
<1>1. file' # file
  OBVIOUS
<1>2. PICK p \in Procs : Save(p) /\ file' = Seal(contents[p])
  BY <1>1, FileSteps DEF UserPlaces
<1>3. contents[p] \in Contents
  BY DEF CommandInv, TypeOK
<1>4. file'.pairs = contents[p].pairs
  BY <1>2, <1>3, SealParts
<1>5. contents[p].pairs \subseteq {<<d[2], d[1]>> : d \in out[p]}
  BY <1>2 DEF CommandInv, SaveReady, Save
<1> QED
  BY <1>4, <1>5

\* No command replaces or removes a file it did not open as a live session
\* of this vault (run_scrub, run_restore), when commands do not overlap.
THEOREM RefusedFilesStay ==
    ASSUME MaxRunning = 1
    PROVE  Spec => RefusedFileKept
<1>1. CommandInv /\ [Next]_vars =>
          [file # NoFile /\ (\E p \in Procs : pc[p] # "idle" /\ DecryptError(file, now[p]) # "none")
              => file' = file]_vars
  BY StepKeepsRefusedFile
<1>2. Spec => []CommandInv
  BY CommandInvariance
<1> QED
  BY <1>1, <1>2, PTL DEF Spec, RefusedFileKept

\* A session ends when its creator's scrub said it would, and what a restore
\* consumed does not come back (load_or_create, wipe_session_file), when
\* commands do not overlap.
THEOREM SessionsEnd ==
    ASSUME MaxRunning = 1
    PROVE  Spec => EndIsFinal
<1>1. CommandInv /\ [Next]_vars =>
          [/\ \A p \in Procs :
                 /\ pc[p] = "load"
                 /\ pc'[p] \in {"save", "wipe"}
                 /\ file # NoFile
                 => now[p] < opened + SessionTtl
           /\ file = NoFile /\ file' \notin Strangers \cup {NoFile} =>
                 \E p \in Procs : file'.pairs \subseteq {<<d[2], d[1]>> : d \in out[p]}]_vars
  BY StepUsesLiveSession, StepCreatesOwn
<1>2. Spec => []CommandInv
  BY CommandInvariance
<1> QED
  BY <1>1, <1>2, PTL DEF Spec, EndIsFinal

-----------------------------------------------------------------------------
(* What the session holds.                                                 *)

\* A session has as many pairs as values.
LEMMA PairsSize ==
    ASSUME NEW R \in SUBSET Reals, IsFiniteSet(R)
    PROVE  Cardinality(PairsOf(R)) = Cardinality(R)
<1> DEFINE b == [r \in R |-> <<FakeOf[r], r>>]
<1>1. b \in Bijection(R, PairsOf(R))
  <2>1. b \in [R -> PairsOf(R)]
    BY DEF PairsOf
  <2>2. \A x, y \in R : b[x] = b[y] => x = y
    OBVIOUS
  <2>3. \A e \in PairsOf(R) : \E x \in R : b[x] = e
    BY DEF PairsOf
  <2> HIDE DEF b
  <2> QED
    BY <2>1, <2>2, <2>3, Fun_IsBij
<1> QED
  BY <1>1, FS_Bijection, Fun_ExistsBij

\* A new session is one.
LEMMA NewSession == {} \in Sessions
<1>1. PairsOf({}) = {} /\ {} \in SUBSET Reals
  BY DEF PairsOf
<1>2. IsFiniteSet({}) /\ Cardinality({}) = 0
  BY FS_EmptySet
<1> QED
  BY <1>1, <1>2, BoundsAssumption DEF Sessions

\* The values of a session, and that they determine the map made of it.
LEMMA SessionValues ==
    ASSUME FakesDistinct, NEW pairs \in Sessions
    PROVE  \E R \in SUBSET Reals :
               /\ pairs = PairsOf(R) /\ Import(pairs) = MapOf(R)
               /\ IsFiniteSet(R) /\ Cardinality(R) <= MaxEntries
               /\ Cardinality(pairs) = Cardinality(R)
<1>1. PICK R \in SUBSET Reals :
          pairs = PairsOf(R) /\ IsFiniteSet(R) /\ Cardinality(R) <= MaxEntries
  BY DEF Sessions
<1>2. Import(PairsOf(R)) = MapOf(R)
  BY MapEntries
<1>3. Cardinality(PairsOf(R)) = Cardinality(R)
  BY <1>1, PairsSize
<1> QED
  BY <1>1, <1>2, <1>3

\* A generated replacement is in a session exactly if its value is.
LEMMA GeneratedHeld ==
    ASSUME NEW R \in SUBSET Reals, NEW D, GeneratedOnly(D), NEW d \in D
    PROVE  d[1] \in Reals /\ d = <<d[1], FakeOf[d[1]]>> /\ (<<d[2], d[1]>> \in PairsOf(R) <=> d[1] \in R)
<1>1. PICK r \in Reals : d = <<r, FakeOf[r]>>
  BY DEF GeneratedOnly
<1>2. d[1] = r /\ d[2] = FakeOf[r]
  BY <1>1
<1>3. <<FakeOf[r], r>> \in PairsOf(R) <=> r \in R
  BY DEF PairsOf
<1> QED
  BY <1>1, <1>2, <1>3

\* What scrub prints is generated.
LEMMA OutputGenerated ==
    ASSUME NEW t \in Seq(Reals)
    PROVE  GeneratedOnly(ScrubOutput(t))
  BY DEF GeneratedOnly, ScrubOutput

\* What a scrub saves holds what it prints along with what the session held.
LEMMA ScrubSaves ==
    ASSUME FakesDistinct, NEW pairs \in Sessions, NEW D, GeneratedOnly(D), Holds(pairs, D),
           NEW t \in Seq(Reals), NEW m \in ScrubMaps(Import(pairs), t)
    PROVE  Entries(m) \in Sessions /\ Holds(Entries(m), D \cup ScrubOutput(t))
<1>1. PICK R \in SUBSET Reals :
          /\ pairs = PairsOf(R) /\ Import(pairs) = MapOf(R)
          /\ IsFiniteSet(R) /\ Cardinality(R) <= MaxEntries
          /\ Cardinality(pairs) = Cardinality(R)
  BY SessionValues
<1> DEFINE V == ValuesUpTo(t, Len(t))
<1>2. Len(t) \in Nat /\ OfValues(t, Len(t))
  BY DEF OfValues
<1>3. V \subseteq Reals
  BY DEF ValuesUpTo
<1>4. \A d \in ScrubOutput(t) : d[1] \in V
  BY DEF ScrubOutput, ValuesUpTo
<1> HIDE DEF V
<1>5. m \in ScrubMaps(MapOf(R), t)
  BY <1>1
<1>6. PICK Q \in Stored(R, V) : m = MapOf(Q)
  <2>1. \A x \in ScrubMaps(MapOf(R), t) : \E Q \in Stored(R, ValuesUpTo(t, Len(t))) : x = MapOf(Q)
    BY <1>1, <1>2, ScrubStores
  <2> QED
    BY <1>5, <2>1 DEF V
<1>7. /\ Q \in SUBSET Reals /\ IsFiniteSet(Q)
      /\ Cardinality(R) <= Cardinality(Q) /\ Cardinality(Q) <= MaxEntries
      /\ R \cup V \subseteq Q \/ Cardinality(Q) = MaxEntries
  BY <1>3, <1>6 DEF Stored
<1>8. Entries(m) = PairsOf(Q) /\ Cardinality(PairsOf(Q)) = Cardinality(Q)
  BY <1>6, <1>7, MapEntries, PairsSize
<1>9. Entries(m) \in Sessions
  BY <1>7, <1>8 DEF Sessions
<1>10. Cardinality(R) \in Nat /\ Cardinality(Q) \in Nat /\ MaxEntries \in Nat
  BY <1>1, <1>7, FS_CardinalityType, BoundsAssumption
<1>11. GeneratedOnly(ScrubOutput(t))
  BY OutputGenerated
<1>12. ASSUME NEW d \in D \cup ScrubOutput(t)
       PROVE  <<d[2], d[1]>> \in PairsOf(Q) \/ Cardinality(PairsOf(Q)) = MaxEntries
  <2>1. CASE d \in D
    <3>1. /\ <<d[2], d[1]>> \in PairsOf(R) <=> d[1] \in R
          /\ <<d[2], d[1]>> \in PairsOf(Q) <=> d[1] \in Q
      BY <1>7, <2>1, GeneratedHeld
    <3>2. <<d[2], d[1]>> \in PairsOf(R) \/ Cardinality(R) = MaxEntries
      BY <1>1, <2>1 DEF Holds
    <3> QED
      BY <1>7, <1>8, <1>10, <3>1, <3>2
  <2>2. CASE d \in ScrubOutput(t)
    <3>1. <<d[2], d[1]>> \in PairsOf(Q) <=> d[1] \in Q
      BY <1>7, <1>11, <2>2, GeneratedHeld
    <3>2. d[1] \in V
      BY <1>4, <2>2
    <3> QED
      BY <1>7, <1>8, <3>1, <3>2
  <2> QED
    BY <2>1, <2>2
<1>13. Holds(Entries(m), D \cup ScrubOutput(t))
  BY <1>8, <1>12 DEF Holds
<1> QED
  BY <1>9, <1>13

\* A restore gives back what was printed, all of it if the session is not full.
LEMMA RestoresExactly ==
    ASSUME FakesDistinct, NEW pairs \in Sessions, NEW doc, GeneratedOnly(doc), Holds(pairs, doc)
    PROVE  /\ RestoreOutput(Import(pairs), doc) \subseteq doc
           /\ RestoreOutput(Import(pairs), doc) # doc => Cardinality(pairs) = MaxEntries
<1> DEFINE res == RestoreOutput(Import(pairs), doc)
<1>1. PICK R \in SUBSET Reals : pairs = PairsOf(R) /\ Import(pairs) = MapOf(R)
  BY SessionValues
<1>2. ASSUME NEW d \in doc
      PROVE  /\ d[1] \in Reals /\ d = <<d[1], d[2]>> /\ (<<d[2], d[1]>> \in pairs <=> d[1] \in R)
             /\ RestoreResult(MapOf(R), d[2], 0) = IF d[1] \in R THEN {d[1]} ELSE {}
  <2>1. d[1] \in Reals /\ d = <<d[1], FakeOf[d[1]]>> /\ (<<d[2], d[1]>> \in PairsOf(R) <=> d[1] \in R)
    BY GeneratedHeld
  <2>2. d[2] = FakeOf[d[1]]
    BY <2>1
  <2>3. RestoreResult(MapOf(R), FakeOf[d[1]], 0) = IF d[1] \in R THEN {d[1]} ELSE {}
    BY <2>1, MapRestores
  <2> QED
    BY <1>1, <2>1, <2>2, <2>3
<1>3. res = UNION {{<<r, d[2]>> : r \in RestoreResult(MapOf(R), d[2], 0)} : d \in doc}
  BY <1>1 DEF RestoreOutput
<1> HIDE DEF res
<1>4. ASSUME NEW e \in res PROVE e \in doc
  <2>1. PICK d \in doc : e \in {<<r, d[2]>> : r \in RestoreResult(MapOf(R), d[2], 0)}
    BY <1>3
  <2>2. e = <<d[1], d[2]>>
    BY <1>2, <2>1
  <2> QED
    BY <1>2, <2>2
<1>5. ASSUME NEW d \in doc, d[1] \in R PROVE d \in res
  <2>1. d[1] \in RestoreResult(MapOf(R), d[2], 0)
    BY <1>2, <1>5
  <2>2. <<d[1], d[2]>> \in {<<r, d[2]>> : r \in RestoreResult(MapOf(R), d[2], 0)}
    BY <2>1
  <2>3. <<d[1], d[2]>> \in res
    BY <1>3, <2>2
  <2> QED
    BY <1>2, <2>3
<1>6. ASSUME Cardinality(pairs) # MaxEntries PROVE doc \subseteq res
  <2>1. \A d \in doc : <<d[2], d[1]>> \in pairs
    BY <1>6 DEF Holds
  <2> QED
    BY <1>2, <1>5, <2>1
<1>7. res \subseteq doc /\ (res # doc => Cardinality(pairs) = MaxEntries)
  BY <1>4, <1>6
<1> QED
  BY <1>7 DEF res

\* With every command idle nothing is about to be saved, printed or restored.
LEMMA NothingRuns ==
    ASSUME \A q \in Procs : pc'[q] = "idle"
    PROVE  ScrubHolds' /\ RestoreHolds'
  BY DEF ScrubHolds, RestoreHolds

\* A command that leaves the file, what was printed and its own data alone
\* and stops.
LEMMA StopHolds ==
    ASSUME CommandInv, SessionInv, NEW p \in Procs, pc[p] # "idle",
           pc' = [pc EXCEPT ![p] = "idle"], UNCHANGED <<file, delivered>>
    PROVE  SessionInv'
<1>1. \A q \in Procs : pc'[q] = "idle"
  BY Alone DEF CommandInv
<1>2. FileHolds'
  BY DEF SessionInv, FileHolds
<1> QED
  BY <1>1, <1>2, NothingRuns DEF SessionInv

\* A restore is given what was printed.
LEMMA BeginHolds ==
    ASSUME MaxRunning = 1, CommandInv, SessionInv, NEW p \in Procs,
           BeginScrub(p) \/ BeginRestore(p)
    PROVE  SessionInv'
<1>1. PICK which, input :
          Begin(p, which, input) /\ (which = "restore" => input \subseteq delivered)
  BY DEF BeginScrub, BeginRestore
<1>2. /\ pc'[p] = "load" /\ \A q \in Procs : q # p => pc'[q] = "idle"
      /\ op'[p] = which /\ text' = [text EXCEPT ![p] = input]
  BY <1>1, BeginAlone DEF CommandInv
<1>3. UNCHANGED <<file, delivered>>
  BY <1>1 DEF Begin
<1>4. text'[p] = input
  BY <1>2 DEF CommandInv, TextsKept
<1>5. FileHolds'
  BY <1>3 DEF SessionInv, FileHolds
<1>6. ScrubHolds'
  BY <1>2 DEF ScrubHolds
<1>7. RestoreHolds'
  BY <1>1, <1>2, <1>3, <1>4 DEF RestoreHolds
<1> QED
  BY <1>5, <1>6, <1>7 DEF SessionInv

\* A scrub is about to save what it is about to print.
LEMMA LoadForScrubHolds ==
    ASSUME FakesDistinct, CommandInv, SessionInv, NEW p \in Procs, LoadForScrub(p)
    PROVE  SessionInv'
<1>1. TypeOK /\ OneCommand /\ pc[p] = "load" /\ op[p] = "scrub"
      /\ UNCHANGED <<clock, file, op, text, now, delivered, opened>>
  BY DEF CommandInv, LoadForScrub
<1>2. CASE pc' = [pc EXCEPT ![p] = "idle"]
  BY <1>1, <1>2, StopHolds
<1>3. CASE ~(pc' = [pc EXCEPT ![p] = "idle"])
  <2> DEFINE session == LoadOrCreate(now[p])
  <2>1. pc' = [pc EXCEPT ![p] = "save"] /\ out' = [out EXCEPT ![p] = ScrubOutput(text[p])]
    BY <1>3 DEF LoadForScrub, Exit, Goto
  <2>2. PICK m \in ScrubMaps(Import(session.pairs), text[p]) :
            contents' = [contents EXCEPT ![p] =
                [expires |-> session.expires, pairs |-> Entries(m)]]
    BY <1>3 DEF LoadForScrub, Exit
  <2>3. text[p] \in Seq(Reals)
    BY <1>1 DEF TypeOK
  <2>4. /\ file = NoFile => session.pairs = {}
        /\ file # NoFile => session.pairs = file.pairs
    BY <1>1, LoadTypes
  <2>5. {} \in Sessions
    BY NewSession
  <2> HIDE DEF session
  <2>6. /\ session.pairs \in Sessions /\ Holds(session.pairs, delivered)
        /\ GeneratedOnly(delivered)
    BY <2>4, <2>5 DEF SessionInv, FileHolds, Holds
  <2>7. Entries(m) \in Sessions /\ Holds(Entries(m), delivered \cup ScrubOutput(text[p]))
    BY <2>2, <2>3, <2>6, ScrubSaves
  <2>8. GeneratedOnly(ScrubOutput(text[p]))
    BY <2>3, OutputGenerated
  <2>9. contents'[p].pairs = Entries(m) /\ out'[p] = ScrubOutput(text[p])
    BY <1>1, <2>1, <2>2 DEF TypeOK
  <2>10. pc'[p] = "save" /\ op'[p] = "scrub" /\ \A q \in Procs : q # p => pc'[q] = "idle"
    BY <1>1, <2>1, Alone
  <2>11. FileHolds'
    BY <1>1 DEF SessionInv, FileHolds
  <2>12. ScrubHolds'
    BY <1>1, <2>7, <2>8, <2>9, <2>10 DEF ScrubHolds
  <2>13. RestoreHolds'
    BY <2>10 DEF RestoreHolds
  <2> QED
    BY <2>11, <2>12, <2>13 DEF SessionInv
<1> QED
  BY <1>2, <1>3

\* After the save the file holds what is about to be printed.
LEMMA SaveHolds ==
    ASSUME CommandInv, SessionInv, NEW p \in Procs, Save(p)
    PROVE  SessionInv'
<1> DEFINE c == contents[p]
<1>1. /\ TypeOK /\ OneCommand /\ pc[p] = "save" /\ op[p] = "scrub"
      /\ UNCHANGED <<clock, op, text, now, contents, out, delivered>>
  BY DEF CommandInv, Save, StepsOfOp
<1>2. /\ c.pairs \in Sessions /\ Holds(c.pairs, delivered \cup out[p])
      /\ GeneratedOnly(out[p]) /\ GeneratedOnly(delivered)
  BY <1>1 DEF SessionInv, ScrubHolds, FileHolds
<1>3. c \in Contents
  BY <1>1 DEF TypeOK
<1>4. Seal(c) # NoFile /\ Seal(c).pairs = c.pairs
  BY <1>3, SealParts
<1> HIDE DEF c
<1>5. file' = file \/ file' = Seal(c)
  BY DEF Save, SaveSessionFile, c
<1>6. FileHolds'
  <2>1. CASE file' = file
    BY <1>1, <2>1 DEF SessionInv, FileHolds
  <2>2. CASE file' = Seal(c)
    BY <1>1, <1>2, <1>4, <2>2 DEF FileHolds, Holds
  <2> QED
    BY <1>5, <2>1, <2>2
<1>7. CASE pc' = [pc EXCEPT ![p] = "idle"]
  <2>1. \A q \in Procs : pc'[q] = "idle"
    BY <1>1, <1>7, Alone
  <2> QED
    BY <1>6, <2>1, NothingRuns DEF SessionInv
<1>8. CASE ~(pc' = [pc EXCEPT ![p] = "idle"])
  <2>1. pc' = [pc EXCEPT ![p] = "write"] /\ file' = Seal(c)
    BY <1>8 DEF Save, SaveSessionFile, Goto, Exit, c
  <2>2. pc'[p] = "write" /\ \A q \in Procs : q # p => pc'[q] = "idle"
    BY <1>1, <2>1, Alone
  <2>3. file' # NoFile /\ Holds(file'.pairs, out'[p]) /\ GeneratedOnly(out'[p])
    BY <1>1, <1>2, <1>4, <2>1 DEF Holds
  <2>4. ScrubHolds'
    BY <2>2, <2>3 DEF ScrubHolds
  <2>5. RestoreHolds'
    BY <2>2 DEF RestoreHolds
  <2> QED
    BY <1>6, <2>4, <2>5 DEF SessionInv
<1> QED
  BY <1>7, <1>8

\* A restore is about to print what the session holds of its input.
LEMMA LoadForRestoreHolds ==
    ASSUME FakesDistinct, CommandInv, SessionInv, NEW p \in Procs, LoadForRestore(p)
    PROVE  SessionInv'
<1>1. TypeOK /\ OneCommand /\ pc[p] = "load" /\ op[p] = "restore"
      /\ UNCHANGED <<clock, file, op, text, now, contents, delivered, opened>>
  BY DEF CommandInv, LoadForRestore
<1>2. CASE pc' = [pc EXCEPT ![p] = "idle"]
  BY <1>1, <1>2, StopHolds
<1>3. CASE ~(pc' = [pc EXCEPT ![p] = "idle"])
  <2>1. /\ file # NoFile /\ pc' = [pc EXCEPT ![p] = "wipe"]
        /\ out' = [out EXCEPT ![p] = RestoreOutput(Import(file.pairs), text[p])]
    BY <1>3 DEF LoadForRestore, Exit, Goto
  <2>2. /\ file.pairs \in Sessions /\ Holds(file.pairs, delivered)
        /\ GeneratedOnly(delivered) /\ text[p] \subseteq delivered
    BY <1>1, <2>1 DEF SessionInv, FileHolds, RestoreHolds
  <2>3. Holds(file.pairs, text[p]) /\ GeneratedOnly(text[p])
    BY <2>2 DEF Holds, GeneratedOnly
  <2> DEFINE res == RestoreOutput(Import(file.pairs), text[p])
  <2>4. res \subseteq text[p] /\ (res # text[p] => Cardinality(file.pairs) = MaxEntries)
    BY <2>2, <2>3, RestoresExactly
  <2>5. out'[p] = res
    BY <1>1, <2>1 DEF TypeOK
  <2> HIDE DEF res
  <2>6. pc'[p] = "wipe" /\ \A q \in Procs : q # p => pc'[q] = "idle"
    BY <1>1, <2>1, Alone
  <2>7. FileHolds'
    BY <1>1 DEF SessionInv, FileHolds
  <2>8. ScrubHolds'
    BY <2>6 DEF ScrubHolds
  <2>9. RestoreHolds'
    BY <1>1, <2>2, <2>4, <2>5, <2>6 DEF RestoreHolds
  <2> QED
    BY <2>7, <2>8, <2>9 DEF SessionInv
<1> QED
  BY <1>2, <1>3

\* After a wipe nothing that was printed is left to restore.
LEMMA WipeHolds ==
    ASSUME CommandInv, SessionInv, NEW p \in Procs, Wipe(p)
    PROVE  SessionInv'
<1>1. TypeOK /\ OneCommand /\ pc[p] = "wipe" /\ op[p] = "restore" /\ op' = op
      /\ pc' = [pc EXCEPT ![p] = "write"]
  BY DEF CommandInv, Wipe, StepsOfOp, Goto
<1>2. pc'[p] = "write" /\ \A q \in Procs : q # p => pc'[q] = "idle"
  BY <1>1, Alone
<1>3. ScrubHolds' /\ RestoreHolds'
  BY <1>1, <1>2 DEF ScrubHolds, RestoreHolds
<1>4. \/ file' = NoFile /\ delivered' = {}
      \/ UNCHANGED <<file, delivered>>
  BY DEF Wipe, WipeSessionFile
<1>5. FileHolds'
  <2>1. CASE file' = NoFile /\ delivered' = {}
    BY <2>1 DEF FileHolds, GeneratedOnly
  <2>2. CASE UNCHANGED <<file, delivered>>
    BY <2>2 DEF SessionInv, FileHolds
  <2> QED
    BY <1>4, <2>1, <2>2
<1> QED
  BY <1>3, <1>5 DEF SessionInv

\* What is printed now was saved before.
LEMMA WriteOutHolds ==
    ASSUME CommandInv, SessionInv, NEW p \in Procs, WriteOut(p)
    PROVE  SessionInv'
<1>1. /\ TypeOK /\ OneCommand /\ pc[p] = "write" /\ file' = file
      /\ pc' = [pc EXCEPT ![p] = "idle"]
      /\ delivered' = delivered \/ (op[p] = "scrub" /\ delivered' = delivered \cup out[p])
  BY DEF CommandInv, WriteOut, Exit
<1>2. \A q \in Procs : pc'[q] = "idle"
  BY <1>1, Alone
<1>3. CASE delivered' = delivered
  BY <1>1, <1>3, StopHolds
<1>4. CASE op[p] = "scrub" /\ delivered' = delivered \cup out[p]
  <2>1. /\ GeneratedOnly(out[p]) /\ GeneratedOnly(delivered)
        /\ file # NoFile /\ Holds(file.pairs, out[p])
        /\ file.pairs \in Sessions /\ Holds(file.pairs, delivered)
    BY <1>1, <1>4 DEF SessionInv, ScrubHolds, FileHolds
  <2>2. GeneratedOnly(delivered') /\ Holds(file.pairs, delivered')
    BY <1>4, <2>1 DEF GeneratedOnly, Holds
  <2>3. FileHolds'
    BY <1>1, <2>1, <2>2 DEF FileHolds
  <2> QED
    BY <1>2, <2>3, NothingRuns DEF SessionInv
<1> QED
  BY <1>1, <1>3, <1>4

\* The user changes the file only when nothing is owed to it.
LEMMA UserHolds ==
    ASSUME CommandInv, SessionInv, UserDeletes \/ UserPlaces
    PROVE  SessionInv'
<1>1. \A q \in Procs : pc'[q] = "idle"
  BY DEF UserDeletes, UserPlaces
<1>2. CASE UserDeletes
  <2>1. file' = NoFile /\ delivered' = {}
    BY <1>2 DEF UserDeletes
  <2>2. FileHolds'
    BY <2>1 DEF FileHolds, GeneratedOnly
  <2> QED
    BY <1>1, <2>2, NothingRuns DEF SessionInv
<1>3. CASE UserPlaces
  <2>1. file = NoFile /\ file' \in Strangers /\ delivered' = delivered
    BY <1>3 DEF UserPlaces
  <2>2. file' # NoFile /\ file'.pairs = {}
    BY <2>1, StrangersRefused
  <2>3. delivered = {}
    BY <2>1 DEF SessionInv, FileHolds
  <2>4. {} \in Sessions
    BY NewSession
  <2>5. FileHolds'
    BY <2>1, <2>2, <2>3, <2>4 DEF FileHolds, Holds, GeneratedOnly
  <2> QED
    BY <1>1, <2>5, NothingRuns DEF SessionInv
<1> QED
  BY <1>2, <1>3

\* Every step keeps what the session holds.
LEMMA StepKeepsSessionInv ==
    ASSUME MaxRunning = 1, FakesDistinct, CommandInv, SessionInv, [Next]_vars
    PROVE  SessionInv'
<1>1. ASSUME Tick \/ UNCHANGED vars PROVE SessionInv'
  <2>1. UNCHANGED <<file, pc, op, text, contents, out, delivered>>
    BY <1>1 DEF Tick, vars
  <2>2. FileHolds'
    BY <2>1 DEF SessionInv, FileHolds
  <2>3. ScrubHolds'
    BY <2>1 DEF SessionInv, ScrubHolds
  <2>4. RestoreHolds'
    BY <2>1 DEF SessionInv, RestoreHolds
  <2> QED
    BY <2>2, <2>3, <2>4 DEF SessionInv
<1>2. ASSUME NEW p \in Procs, Kill(p) PROVE SessionInv'
  <2>1. pc[p] # "idle" /\ pc' = [pc EXCEPT ![p] = "idle"] /\ UNCHANGED <<file, delivered>>
    BY <1>2 DEF Kill, Exit
  <2> QED
    BY <2>1, StopHolds
<1> QED
  BY <1>1, <1>2, BeginHolds, LoadForScrubHolds, SaveHolds, LoadForRestoreHolds, WipeHolds,
     WriteOutHolds, UserHolds DEF Next

\* With different fakes for different values what the session holds is kept
\* always.
LEMMA SessionInvariance ==
    ASSUME MaxRunning = 1, FakesDistinct
    PROVE  Spec => [](CommandInv /\ SessionInv)
<1>1. Init => SessionInv
  BY DEF Init, SessionInv, FileHolds, ScrubHolds, RestoreHolds, GeneratedOnly
<1>2. CommandInv /\ SessionInv /\ [Next]_vars => SessionInv'
  BY StepKeepsSessionInv
<1>3. Spec => []CommandInv
  BY CommandInvariance
<1> QED
  BY <1>1, <1>2, <1>3, PTL DEF Spec

\* "The value IS restorable through the session file": what scrub printed is
\* in the session until a restore consumes it or the session is full, when
\* commands do not overlap and the values have different fakes.
THEOREM DeliveredStaysRestorable ==
    ASSUME MaxRunning = 1, FakesDistinct
    PROVE  Spec => []DeliveredRestorable
<1>1. CommandInv /\ SessionInv => DeliveredRestorable
  BY DEF SessionInv, FileHolds, Holds, DeliveredRestorable
<1> QED
  BY <1>1, SessionInvariance, PTL

\* A restore puts back the value each fake was printed for and no other, and
\* all of them unless the session was full, under the same hypotheses.
THEOREM RestoreIsExact ==
    ASSUME MaxRunning = 1, FakesDistinct
    PROVE  Spec => []RestoresOriginal
<1>1. CommandInv /\ SessionInv => RestoresOriginal
  BY DEF CommandInv, SessionInv, RestoreHolds, RestoresOriginal
<1> QED
  BY <1>1, SessionInvariance, PTL

=============================================================================
