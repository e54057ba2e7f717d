--------------------------- MODULE SessionMapOps ---------------------------
(***************************************************************************)
(* The data structure behind SessionMap (tokenizer/session.rs): two hash   *)
(* maps, fake -> (real, last touched) and real -> fake, and the private    *)
(* steps every public operation is made of.  The operators are pure, so    *)
(* that the state machines of the map, of the engine and of the session    *)
(* file share them.                                                        *)
(*                                                                         *)
(* Values and fakes are opaque: only equality is ever used on them.        *)
(* Wiping the bytes of a removed value (zeroize) leaves no trace in the    *)
(* maps and is not represented.                                            *)
(***************************************************************************)
EXTENDS Naturals, FiniteSets

CONSTANTS
    Reals,       \* registered plaintext values
    Fakes,       \* values make_fake can return
    MaxEntries,  \* SessionMap::max_entries
    Ttl          \* SessionMap::ttl

ASSUME BoundsAssumption == MaxEntries \in Nat /\ Ttl \in Nat

Entry == [real : Reals, touched : Nat]

\* Both maps are partial functions.
IsMap(m) ==
    /\ m = [byFake |-> m.byFake, byReal |-> m.byReal]
    /\ DOMAIN m.byFake \subseteq Fakes
    /\ DOMAIN m.byReal \subseteq Reals
    /\ m.byFake \in [DOMAIN m.byFake -> Entry]
    /\ m.byReal \in [DOMAIN m.byReal -> Fakes]

-----------------------------------------------------------------------------
(* HashMap::insert and HashMap::remove on a partial function.              *)

Put(h, k, v) == [x \in DOMAIN h \cup {k} |-> IF x = k THEN v ELSE h[x]]

Without(h, K) == [x \in DOMAIN h \ K |-> h[x]]

EmptyMap == [byFake |-> [f \in {} |-> f], byReal |-> [r \in {} |-> r]]

Size(m) == Cardinality(DOMAIN m.byFake)

\* `entries`: the (fake, real) pairs, which is what a session file holds.
Entries(m) == {<<f, m.byFake[f].real>> : f \in DOMAIN m.byFake}

\* Faulty variant: the reverse pointer of a removed entry stays behind.
RemoveKeepsReverse(m, F) ==
    [byFake |-> Without(m.byFake, F), byReal |-> m.byReal]

\* Removing entries from by_fake takes the by_real key of each one along
\* (wipe_by_real_key), whichever fake that key points to.
Remove(m, F) ==
    [byFake |-> Without(m.byFake, F),
     byReal |-> Without(m.byReal, {m.byFake[f].real : f \in F})]

\* An entry is dead once it was idle for strictly longer than the ttl.
Expired(m, now) == {f \in DOMAIN m.byFake : now > m.byFake[f].touched + Ttl}

\* Faulty variant: an entry already dies when it is idle for exactly the ttl.
PruneAtTtl(m, now) ==
    Remove(m, {f \in DOMAIN m.byFake : now >= m.byFake[f].touched + Ttl})

Prune(m, now) == Remove(m, Expired(m, now))

\* min_by_key over a hash map: any entry with the oldest touch.
LeastRecent(m) ==
    {f \in DOMAIN m.byFake :
        \A g \in DOMAIN m.byFake : m.byFake[f].touched <= m.byFake[g].touched}

\* The maps evict_lru can leave when the capacity check asks for room.
MakeRoom(m) ==
    IF Size(m) >= MaxEntries /\ DOMAIN m.byFake # {}
    THEN {Remove(m, {f}) : f \in LeastRecent(m)}
    ELSE {m}

Touch(m, f, now) ==
    IF f \in DOMAIN m.byFake
    THEN [byFake |-> Put(m.byFake, f, [real |-> m.byFake[f].real, touched |-> now]),
          byReal |-> m.byReal]
    ELSE m

\* Faulty variant: the displaced owner of the fake keeps its pointer to it.
StoreKeepsDisplaced(m, f, r, now) ==
    [byFake |-> Put(m.byFake, f, [real |-> r, touched |-> now]),
     byReal |-> Put(m.byReal, r, f)]

\* Store a pair.  A displaced entry loses its by_real key first.
Store(m, f, r, now) ==
    LET displaced == IF f \in DOMAIN m.byFake THEN {m.byFake[f].real} ELSE {}
    IN  [byFake |-> Put(m.byFake, f, [real |-> r, touched |-> now]),
         byReal |-> Put(Without(m.byReal, displaced), r, f)]

-----------------------------------------------------------------------------
(* The public operations.  get_or_insert is given the fake its factory     *)
(* would return and yields every (map, returned fake) it can end in.       *)

\* Faulty variant: a live pair is not looked for.
GetOrInsertNoLookup(m, r, made, now) ==
    {[map |-> Store(room, made, r, now), fake |-> made] :
        room \in MakeRoom(Prune(m, now))}

\* Faulty variant: room is made after the new pair went in.
GetOrInsertEvictsAfter(m, r, made, now) ==
    LET p == Prune(m, now)
    IN  IF r \in DOMAIN p.byReal
        THEN {[map |-> Touch(p, p.byReal[r], now), fake |-> p.byReal[r]]}
        ELSE {[map |-> room, fake |-> made] :
                 room \in MakeRoom(Store(p, made, r, now))}

GetOrInsert(m, r, made, now) ==
    LET p == Prune(m, now)
    IN  IF r \in DOMAIN p.byReal
        THEN {[map |-> Touch(p, p.byReal[r], now), fake |-> p.byReal[r]]}
        ELSE {[map |-> Store(room, made, r, now), fake |-> made] :
                 room \in MakeRoom(p)}

\* `restore`: prune, look the fake up, touch it on a hit.
Restore(m, f, now) == Touch(Prune(m, now), f, now)

\* The answers of `restore`: the real value, or none as the empty set.
RestoreResult(m, f, now) ==
    LET p == Prune(m, now)
    IN  IF f \in DOMAIN p.byFake THEN {p.byFake[f].real} ELSE {}

-----------------------------------------------------------------------------
\* The two hash maps are each other's inverse: what the module's comments
\* call "the two maps stay consistent".
MutuallyInverse(m) ==
    /\ \A f \in DOMAIN m.byFake :
          /\ m.byFake[f].real \in DOMAIN m.byReal
          /\ m.byReal[m.byFake[f].real] = f
    /\ \A r \in DOMAIN m.byReal :
          /\ m.byReal[r] \in DOMAIN m.byFake
          /\ m.byFake[m.byReal[r]].real = r

=============================================================================
