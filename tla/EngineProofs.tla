---------------------------- MODULE EngineProofs ----------------------------
(***************************************************************************)
(* Proofs about the session map and about the engine that stores its fakes *)
(* in one, in two parts:                                                   *)
(*                                                                         *)
(*   - SessionMap, for every set of values, every fake factory, every      *)
(*     capacity, ttl and clock bound;                                      *)
(*   - Engine, for every set of registrations, all values, fakes and texts *)
(*     of any length.                                                      *)
(***************************************************************************)
EXTENDS SessionMap, Engine, FiniteSetTheorems, FunctionTheorems, WellFoundedInduction,
        SequenceTheorems, TLAPS

-----------------------------------------------------------------------------
(* What the building blocks of the map preserve.                           *)

\* Removing entries leaves a well-formed map.
LEMMA RemoveIsMap ==
    ASSUME NEW m, IsMap(m), NEW F
    PROVE  IsMap(Remove(m, F))
BY DEF IsMap, Remove, Without

\* Removing entries together with their reverse pointers keeps the two maps
\* mutually inverse.
LEMMA RemoveInverse ==
    ASSUME NEW m, IsMap(m), MutuallyInverse(m), NEW F \in SUBSET DOMAIN m.byFake
    PROVE  MutuallyInverse(Remove(m, F))
BY DEF IsMap, MutuallyInverse, Remove, Without

\* Storing a pair leaves a well-formed map.
LEMMA StoreIsMap ==
    ASSUME NEW m, IsMap(m), NEW f \in Fakes, NEW r \in Reals, NEW now \in Nat
    PROVE  IsMap(Store(m, f, r, now))
BY DEF IsMap, Store, Put, Without, Entry

\* Storing a pair for a value the map does not know keeps the two maps
\* mutually inverse, even when the fake belonged to another value.
LEMMA StoreInverse ==
    ASSUME NEW m, IsMap(m), MutuallyInverse(m),
           NEW f \in Fakes, NEW r \in Reals, NEW now \in Nat,
           r \notin DOMAIN m.byReal
    PROVE  MutuallyInverse(Store(m, f, r, now))
<1> DEFINE displaced == IF f \in DOMAIN m.byFake THEN {m.byFake[f].real} ELSE {}
           b == Put(m.byFake, f, [real |-> r, touched |-> now])
           d == Put(Without(m.byReal, displaced), r, f)
<1>1. /\ DOMAIN b = DOMAIN m.byFake \cup {f} /\ b[f].real = r
      /\ \A g \in DOMAIN m.byFake : g # f => b[g] = m.byFake[g]
  BY DEF Put
<1>2. /\ DOMAIN d = (DOMAIN m.byReal \ displaced) \cup {r} /\ d[r] = f
      /\ \A x \in DOMAIN m.byReal \ displaced : d[x] = m.byReal[x]
  BY DEF Put, Without
<1>3. Store(m, f, r, now) = [byFake |-> b, byReal |-> d]
  BY DEF Store
<1> HIDE DEF b, d
<1>4. ASSUME NEW g \in DOMAIN b PROVE b[g].real \in DOMAIN d /\ d[b[g].real] = g
  BY <1>1, <1>2 DEF MutuallyInverse
<1>5. ASSUME NEW x \in DOMAIN d PROVE d[x] \in DOMAIN b /\ b[d[x]].real = x
  BY <1>1, <1>2 DEF MutuallyInverse
<1> QED
  BY <1>3, <1>4, <1>5 DEF MutuallyInverse

\* Touching an entry changes nothing but its time stamp.
LEMMA TouchIsMap ==
    ASSUME NEW m, IsMap(m), NEW f, NEW now \in Nat
    PROVE  /\ IsMap(Touch(m, f, now))
           /\ Touch(m, f, now).byReal = m.byReal
           /\ DOMAIN Touch(m, f, now).byFake = DOMAIN m.byFake
           /\ \A g \in DOMAIN m.byFake :
                 Touch(m, f, now).byFake[g].real = m.byFake[g].real
BY DEF IsMap, Touch, Put, Entry


\* Touching keeps the two maps mutually inverse.
LEMMA TouchInverse ==
    ASSUME NEW m, IsMap(m), MutuallyInverse(m), NEW f, NEW now \in Nat
    PROVE  MutuallyInverse(Touch(m, f, now))
BY TouchIsMap DEF MutuallyInverse

\* Pruning is a removal of entries the map holds.
LEMMA PruneMap ==
    ASSUME NEW m, IsMap(m), NEW now \in Nat
    PROVE  /\ IsMap(Prune(m, now))
           /\ MutuallyInverse(m) => MutuallyInverse(Prune(m, now))
           /\ DOMAIN Prune(m, now).byFake \subseteq DOMAIN m.byFake
           /\ \A f \in DOMAIN Prune(m, now).byFake :
                 Prune(m, now).byFake[f] = m.byFake[f]
<1>1. Expired(m, now) \in SUBSET DOMAIN m.byFake
  BY DEF Expired
<1>2. IsMap(Prune(m, now))
  BY RemoveIsMap DEF Prune
<1>3. MutuallyInverse(m) => MutuallyInverse(Prune(m, now))
  BY <1>1, RemoveInverse DEF Prune
<1>4. QED
  BY <1>2, <1>3 DEF Prune, Remove, Without

\* Making room only removes entries, and keeps the maps mutually inverse.
LEMMA MakeRoomMap ==
    ASSUME NEW m, IsMap(m), NEW room \in MakeRoom(m)
    PROVE  /\ IsMap(room)
           /\ MutuallyInverse(m) => MutuallyInverse(room)
           /\ DOMAIN room.byFake \subseteq DOMAIN m.byFake
           /\ DOMAIN room.byReal \subseteq DOMAIN m.byReal
           /\ \A f \in DOMAIN room.byFake : room.byFake[f] = m.byFake[f]
<1>1. CASE room = m
  BY <1>1
<1>2. CASE \E f \in LeastRecent(m) : room = Remove(m, {f})
  <2>1. PICK f \in LeastRecent(m) : room = Remove(m, {f})
    BY <1>2
  <2>2. {f} \in SUBSET DOMAIN m.byFake
    BY DEF LeastRecent
  <2>3. IsMap(room) /\ (MutuallyInverse(m) => MutuallyInverse(room))
    BY <2>1, <2>2, RemoveIsMap, RemoveInverse
  <2>4. QED
    BY <2>1, <2>3 DEF Remove, Without
<1>3. QED
  BY <1>1, <1>2 DEF MakeRoom

\* Every outcome of get_or_insert is a well-formed map that holds the
\* returned fake for the argument; every other pair it holds was there.
LEMMA GetOrInsertMap ==
    ASSUME NEW m, IsMap(m), MutuallyInverse(m),
           NEW r \in Reals, NEW made \in Fakes, NEW now \in Nat,
           NEW out \in GetOrInsert(m, r, made, now)
    PROVE  /\ IsMap(out.map)
           /\ MutuallyInverse(out.map)
           /\ out.fake \in Fakes
           /\ out.fake \in DOMAIN out.map.byFake
           /\ out.map.byFake[out.fake] = [real |-> r, touched |-> now]
           /\ \A f \in DOMAIN out.map.byFake \ {out.fake} :
                 /\ f \in DOMAIN m.byFake
                 /\ out.map.byFake[f].real = m.byFake[f].real
<1> DEFINE p == Prune(m, now)
<1>1. /\ IsMap(p)
      /\ MutuallyInverse(p)
      /\ DOMAIN p.byFake \subseteq DOMAIN m.byFake
      /\ \A f \in DOMAIN p.byFake : p.byFake[f] = m.byFake[f]
  BY PruneMap
<1> HIDE DEF p
<1>2. CASE r \in DOMAIN p.byReal
  <2>1. out = [map |-> Touch(p, p.byReal[r], now), fake |-> p.byReal[r]]
    BY <1>2 DEF GetOrInsert, p
  <2>2. p.byReal[r] \in DOMAIN p.byFake /\ p.byFake[p.byReal[r]].real = r
    BY <1>1, <1>2 DEF MutuallyInverse
  <2>3. p.byReal[r] \in Fakes
    BY <1>1, <1>2 DEF IsMap
  <2>4. IsMap(out.map) /\ MutuallyInverse(out.map)
    BY <1>1, <2>1, TouchIsMap, TouchInverse
  <2>5. out.map.byFake[out.fake] = [real |-> r, touched |-> now]
    BY <2>1, <2>2 DEF Touch, Put
  <2>6. QED
    BY <1>1, <2>1, <2>2, <2>3, <2>4, <2>5, TouchIsMap
<1>3. CASE r \notin DOMAIN p.byReal
  <2>1. PICK room \in MakeRoom(p) :
           out = [map |-> Store(room, made, r, now), fake |-> made]
    BY <1>3 DEF GetOrInsert, p
  <2>2. /\ IsMap(room)
        /\ MutuallyInverse(room)
        /\ DOMAIN room.byFake \subseteq DOMAIN p.byFake
        /\ r \notin DOMAIN room.byReal
        /\ \A f \in DOMAIN room.byFake : room.byFake[f] = p.byFake[f]
    BY <1>1, <1>3, MakeRoomMap
  <2>3. IsMap(out.map) /\ MutuallyInverse(out.map)
    BY <2>1, <2>2, StoreIsMap, StoreInverse
  <2>4. QED
    BY <1>1, <2>1, <2>2, <2>3 DEF Store, Put
<1>4. QED
  BY <1>2, <1>3

\* restore keeps a well-formed, consistent map and adds nothing to it.
LEMMA RestoreMap ==
    ASSUME NEW m, IsMap(m), NEW f \in Fakes, NEW now \in Nat
    PROVE  /\ IsMap(Restore(m, f, now))
           /\ MutuallyInverse(m) => MutuallyInverse(Restore(m, f, now))
           /\ DOMAIN Restore(m, f, now).byFake \subseteq DOMAIN m.byFake
           /\ \A g \in DOMAIN Restore(m, f, now).byFake :
                 Restore(m, f, now).byFake[g].real = m.byFake[g].real
           /\ RestoreResult(m, f, now) \in SUBSET Reals
<1> DEFINE p == Prune(m, now)
<1>1. /\ IsMap(p)
      /\ MutuallyInverse(m) => MutuallyInverse(p)
      /\ DOMAIN p.byFake \subseteq DOMAIN m.byFake
      /\ \A g \in DOMAIN p.byFake : p.byFake[g] = m.byFake[g]
  BY PruneMap
<1>2. RestoreResult(m, f, now) \in SUBSET Reals
  BY <1>1 DEF RestoreResult, IsMap, Entry
<1> HIDE DEF p
<1>3. QED
  BY <1>1, <1>2, TouchIsMap, TouchInverse DEF Restore, p

-----------------------------------------------------------------------------
(* The inductive invariant.                                                *)

IndInv == TypeOK /\ MapsInverse /\ LatestOwner /\ ImportFresh

\* The empty map satisfies the invariant.
LEMMA InitIndInv == Init => IndInv
<1> SUFFICES ASSUME Init PROVE IndInv
  OBVIOUS
<1>1. IsMap(map) /\ MutuallyInverse(map)
  BY DEF Init, EmptyMap, IsMap, MutuallyInverse
<1>2. TypeOK
  BY <1>1, MaxTimeAssumption DEF Init, TypeOK, Replies
<1>3. LatestOwner /\ ImportFresh
  BY DEF Init, EmptyMap, LatestOwner, ImportFresh
<1>4. QED
  BY <1>1, <1>2, <1>3 DEF IndInv, MapsInverse

\* get_or_insert preserves the invariant.
LEMMA GetIndInv ==
    ASSUME IndInv, NEW r \in Reals, CallGetOrInsert(r)
    PROVE  IndInv' /\ ReplyRestorable'
<1>1. PICK made \in FakesOf[r] : \E out \in GetOrInsert(map, r, made, clock) :
         /\ map' = out.map
         /\ reply' = [op |-> "get", real |-> r, fake |-> out.fake]
         /\ owner' = [owner EXCEPT ![out.fake] = {r}]
  BY DEF CallGetOrInsert
<1>2. PICK out \in GetOrInsert(map, r, made, clock) :
         /\ map' = out.map
         /\ reply' = [op |-> "get", real |-> r, fake |-> out.fake]
         /\ owner' = [owner EXCEPT ![out.fake] = {r}]
  BY <1>1
<1>3. /\ UNCHANGED <<clock, saved, todo>>
      /\ todo = {}
  BY DEF CallGetOrInsert, Idle
<1>4. made \in Fakes /\ clock \in Nat
  BY FakesOfAssumption, MaxTimeAssumption DEF IndInv, TypeOK
<1>5. IsMap(map) /\ MutuallyInverse(map)
  BY DEF IndInv, TypeOK, MapsInverse
<1>6. /\ IsMap(map')
      /\ MutuallyInverse(map')
      /\ out.fake \in Fakes
      /\ out.fake \in DOMAIN map'.byFake
      /\ map'.byFake[out.fake] = [real |-> r, touched |-> clock]
      /\ \A f \in DOMAIN map'.byFake \ {out.fake} :
            /\ f \in DOMAIN map.byFake
            /\ map'.byFake[f].real = map.byFake[f].real
  BY <1>2, <1>4, <1>5, GetOrInsertMap
<1>7. TypeOK'
  BY <1>2, <1>3, <1>6 DEF IndInv, TypeOK, Replies
<1>8. LatestOwner'
  <2>1. \A f \in DOMAIN map'.byFake : map'.byFake[f].real \in owner'[f]
    BY <1>2, <1>6 DEF IndInv, TypeOK, LatestOwner, IsMap
  <2>2. QED
    BY <2>1, <1>3 DEF LatestOwner
<1>9. ImportFresh'
  BY <1>3 DEF ImportFresh
<1>10. ReplyRestorable'
  <2>1. out.fake \notin Expired(map', clock)
    BY <1>4, <1>6, BoundsAssumption DEF Expired
  <2>2. Prune(map', clock).byFake[out.fake].real = r
    BY <1>6, <2>1 DEF Prune, Remove, Without
  <2>3. out.fake \in DOMAIN Prune(map', clock).byFake
    BY <1>6, <2>1 DEF Prune, Remove, Without
  <2>4. QED
    BY <1>2, <1>3, <2>2, <2>3 DEF ReplyRestorable, RestoreResult
<1>11. QED
  BY <1>6, <1>7, <1>8, <1>9, <1>10 DEF IndInv, MapsInverse

\* restore preserves the invariant.
LEMMA RestoreIndInv ==
    ASSUME IndInv, NEW f \in Fakes, CallRestore(f)
    PROVE  IndInv' /\ ReplyRestorable'
<1>1. clock \in Nat /\ IsMap(map) /\ MutuallyInverse(map)
  BY MaxTimeAssumption DEF IndInv, TypeOK, MapsInverse
<1>2. /\ IsMap(map')
      /\ MutuallyInverse(map')
      /\ DOMAIN map'.byFake \subseteq DOMAIN map.byFake
      /\ \A g \in DOMAIN map'.byFake : map'.byFake[g].real = map.byFake[g].real
      /\ RestoreResult(map, f, clock) \in SUBSET Reals
  BY <1>1, RestoreMap DEF CallRestore
<1>3. TypeOK'
  BY <1>2 DEF IndInv, TypeOK, CallRestore, Replies
<1>4. LatestOwner' /\ ImportFresh'
  BY <1>2 DEF IndInv, LatestOwner, ImportFresh, CallRestore, Idle
<1>5. ReplyRestorable'
  BY DEF CallRestore, ReplyRestorable
<1>6. QED
  BY <1>2, <1>3, <1>4, <1>5 DEF IndInv, MapsInverse

\* Saving and starting afresh preserves the invariant: the saved pairs
\* inherit from the consistent map that no two share a fake or a value.
LEMMA ReloadIndInv ==
    ASSUME IndInv, SaveAndReload
    PROVE  IndInv' /\ ReplyRestorable'
<1>1. IsMap(map) /\ MutuallyInverse(map)
  BY DEF IndInv, TypeOK, MapsInverse
<1>2. IsMap(map') /\ MutuallyInverse(map')
  BY DEF SaveAndReload, EmptyMap, IsMap, MutuallyInverse
<1>3. Entries(map) \subseteq Fakes \X Reals
  BY <1>1 DEF Entries, IsMap, Entry
<1>4. TypeOK'
  BY <1>2, <1>3 DEF IndInv, TypeOK, SaveAndReload, Replies
<1>5. LatestOwner'
  BY DEF IndInv, LatestOwner, SaveAndReload, Entries, EmptyMap
<1>6. ImportFresh'
  BY <1>1 DEF ImportFresh, SaveAndReload, Entries, EmptyMap, MutuallyInverse
<1>7. ReplyRestorable'
  BY DEF SaveAndReload, ReplyRestorable, NoReply
<1>8. QED
  BY <1>2, <1>4, <1>5, <1>6, <1>7 DEF IndInv, MapsInverse

\* One iteration of the import loop preserves the invariant.
LEMMA ImportIndInv ==
    ASSUME IndInv, ImportPair
    PROVE  IndInv' /\ ReplyRestorable'
<1>1. PICK p \in todo :
         /\ map' = Store(map, p[1], p[2], clock)
         /\ todo' = todo \ {p}
         /\ reply' = NoReply
         /\ UNCHANGED <<clock, saved, owner>>
  BY DEF ImportPair
<1>2. p[1] \in Fakes /\ p[2] \in Reals /\ clock \in Nat
  BY MaxTimeAssumption DEF IndInv, TypeOK
<1>3. p[1] \notin DOMAIN map.byFake /\ p[2] \notin DOMAIN map.byReal
  BY DEF IndInv, ImportFresh
<1>4. IsMap(map) /\ MutuallyInverse(map)
  BY DEF IndInv, TypeOK, MapsInverse
<1>5. IsMap(map') /\ MutuallyInverse(map')
  BY <1>1, <1>2, <1>3, <1>4, StoreIsMap, StoreInverse
<1>6. TypeOK'
  BY <1>1, <1>5 DEF IndInv, TypeOK, Replies
<1>7. /\ DOMAIN map'.byFake = DOMAIN map.byFake \cup {p[1]}
      /\ DOMAIN map'.byReal = DOMAIN map.byReal \cup {p[2]}
      /\ map'.byFake[p[1]].real = p[2]
      /\ \A f \in DOMAIN map.byFake : map'.byFake[f] = map.byFake[f]
  BY <1>1, <1>3 DEF Store, Put, Without
<1>8. LatestOwner'
  BY <1>1, <1>7 DEF IndInv, LatestOwner
<1>9. ImportFresh'
  BY <1>1, <1>7 DEF IndInv, ImportFresh
<1>10. ReplyRestorable'
  BY <1>1 DEF ReplyRestorable, NoReply
<1>11. QED
  BY <1>5, <1>6, <1>8, <1>9, <1>10 DEF IndInv, MapsInverse

\* Every step preserves the invariant, and whatever get_or_insert answered
\* can be restored.
LEMMA NextIndInv ==
    ASSUME IndInv, ReplyRestorable, [Next]_vars
    PROVE  IndInv' /\ ReplyRestorable'
<1>1. CASE Tick
  <2>1. TypeOK'
    BY <1>1, MaxTimeAssumption DEF IndInv, TypeOK, Tick, Replies
  <2>2. QED
    BY <1>1, <2>1 DEF IndInv, MapsInverse, LatestOwner, ImportFresh,
                      ReplyRestorable, Tick, NoReply
<1>2. CASE \E r \in Reals : CallGetOrInsert(r)
  BY <1>2, GetIndInv
<1>3. CASE \E f \in Fakes : CallRestore(f)
  BY <1>3, RestoreIndInv
<1>4. CASE Clear
  <2>1. IsMap(map') /\ MutuallyInverse(map')
    BY <1>4 DEF Clear, EmptyMap, IsMap, MutuallyInverse
  <2>2. QED
    BY <1>4, <2>1 DEF IndInv, TypeOK, MapsInverse, LatestOwner, ImportFresh,
       ReplyRestorable, Clear, Idle, NoReply, Replies, EmptyMap
<1>5. CASE SaveAndReload
  BY <1>5, ReloadIndInv
<1>6. CASE ImportPair
  BY <1>6, ImportIndInv
<1>7. CASE UNCHANGED vars
  BY <1>7 DEF vars, IndInv, TypeOK, MapsInverse, LatestOwner, ImportFresh,
              ReplyRestorable
<1>8. QED
  BY <1>1, <1>2, <1>3, <1>4, <1>5, <1>6, <1>7 DEF Next

\* Nothing has been answered yet in an initial state.
LEMMA InitReply == Init => ReplyRestorable
BY DEF Init, ReplyRestorable, NoReply

\* SessionMap is type correct: both hash maps stay partial functions between
\* the values and the fakes the callers use.
THEOREM SessionMapTypeOK == Spec => []TypeOK
<1>1. Init => IndInv /\ ReplyRestorable
  BY InitIndInv, InitReply
<1>2. IndInv /\ ReplyRestorable /\ [Next]_vars => (IndInv /\ ReplyRestorable)'
  BY NextIndInv
<1>3. IndInv => TypeOK
  BY DEF IndInv
<1>4. QED
  BY <1>1, <1>2, <1>3, PTL DEF Spec

\* The two hash maps are always each other's inverse, whatever collides,
\* expires, is evicted or reloaded.
THEOREM SessionMapInverse == Spec => [](MapsInverse /\ ImportFresh)
<1>1. Init => IndInv /\ ReplyRestorable
  BY InitIndInv, InitReply
<1>2. IndInv /\ ReplyRestorable /\ [Next]_vars => (IndInv /\ ReplyRestorable)'
  BY NextIndInv
<1>3. IndInv => MapsInverse /\ ImportFresh
  BY DEF IndInv
<1>4. QED
  BY <1>1, <1>2, <1>3, PTL DEF Spec

\* A fake always stands for the value it was last handed out for.
THEOREM SessionMapLatestOwner == Spec => []LatestOwner
<1>1. Init => IndInv /\ ReplyRestorable
  BY InitIndInv, InitReply
<1>2. IndInv /\ ReplyRestorable /\ [Next]_vars => (IndInv /\ ReplyRestorable)'
  BY NextIndInv
<1>3. IndInv => LatestOwner
  BY DEF IndInv
<1>4. QED
  BY <1>1, <1>2, <1>3, PTL DEF Spec

\* What get_or_insert returns can be restored to its argument right away.
THEOREM SessionMapReplyRestorable == Spec => []ReplyRestorable
<1>1. Init => IndInv /\ ReplyRestorable
  BY InitIndInv, InitReply
<1>2. IndInv /\ ReplyRestorable /\ [Next]_vars => (IndInv /\ ReplyRestorable)'
  BY NextIndInv
<1>3. QED
  BY <1>1, <1>2, PTL DEF Spec

-----------------------------------------------------------------------------
(* Capacity.  The finiteness of both sets is part of the induction.        *)

Bound == IF MaxEntries = 0 THEN 1 ELSE MaxEntries

CapInv ==
    /\ IsFiniteSet(DOMAIN map.byFake)
    /\ IsFiniteSet(todo)
    /\ Capacity

\* A subset of a finite set is finite and no larger.
LEMMA SubsetBound ==
    ASSUME NEW S, IsFiniteSet(S), NEW T \in SUBSET S
    PROVE  /\ IsFiniteSet(T)
           /\ Cardinality(T) \in Nat
           /\ Cardinality(S) \in Nat
           /\ Cardinality(T) <= Cardinality(S)
BY FS_Subset, FS_CardinalityType

\* Cardinality after adding or removing one element, for a set named by an
\* equation.
LEMMA AddOne ==
    ASSUME NEW S, IsFiniteSet(S), NEW x, NEW T, T = S \cup {x}
    PROVE  /\ IsFiniteSet(T)
           /\ Cardinality(T) <= Cardinality(S) + 1
           /\ x \notin S => Cardinality(T) = Cardinality(S) + 1
<1>1. Cardinality(S) \in Nat
  BY FS_CardinalityType
<1>2. IsFiniteSet(T) /\ (x \notin S => Cardinality(T) = Cardinality(S) + 1)
  BY FS_AddElement
<1>3. x \in S => Cardinality(T) = Cardinality(S)
  BY FS_AddElement
<1>4. QED
  BY <1>1, <1>2, <1>3

\* The counterpart for a removed element.
LEMMA RemoveOne ==
    ASSUME NEW S, IsFiniteSet(S), NEW x \in S, NEW T, T = S \ {x}
    PROVE  IsFiniteSet(T) /\ Cardinality(T) = Cardinality(S) - 1
BY FS_RemoveElement

\* Every outcome of get_or_insert respects the capacity.
LEMMA GetCapacity ==
    ASSUME NEW m, IsMap(m), IsFiniteSet(DOMAIN m.byFake), Size(m) <= Bound,
           NEW r \in Reals, NEW made \in Fakes, NEW now \in Nat,
           NEW out \in GetOrInsert(m, r, made, now)
    PROVE  IsFiniteSet(DOMAIN out.map.byFake) /\ Size(out.map) <= Bound
<1> DEFINE p == Prune(m, now)
<1>1. IsMap(p) /\ DOMAIN p.byFake \subseteq DOMAIN m.byFake
  BY PruneMap
<1>2. /\ IsFiniteSet(DOMAIN p.byFake)
      /\ Size(p) \in Nat
      /\ Size(p) <= Bound
  BY <1>1, SubsetBound, BoundsAssumption DEF Size, Bound
<1> HIDE DEF p
<1>3. CASE r \in DOMAIN p.byReal
  <2>1. out.map = Touch(p, p.byReal[r], now)
    BY <1>3 DEF GetOrInsert, p
  <2>2. DOMAIN out.map.byFake = DOMAIN p.byFake
    BY <1>1, <2>1, TouchIsMap
  <2>3. QED
    BY <1>2, <2>2 DEF Size
<1>4. CASE r \notin DOMAIN p.byReal
  <2>1. PICK room \in MakeRoom(p) : out.map = Store(room, made, r, now)
    BY <1>4 DEF GetOrInsert, p
  <2>2. /\ IsFiniteSet(DOMAIN room.byFake)
        /\ Size(room) \in Nat
        /\ Size(room) + 1 <= Bound
    <3>1. CASE Size(p) >= MaxEntries /\ DOMAIN p.byFake # {}
      <4>1. PICK f \in LeastRecent(p) : room = Remove(p, {f})
        BY <2>1, <3>1 DEF MakeRoom
      <4>2. f \in DOMAIN p.byFake /\ DOMAIN room.byFake = DOMAIN p.byFake \ {f}
        BY <4>1 DEF LeastRecent, Remove, Without
      <4>3. IsFiniteSet(DOMAIN room.byFake) /\ Size(room) = Size(p) - 1
        BY <1>2, <4>2, RemoveOne DEF Size
      <4>4. Size(room) \in Nat
        BY <4>3, FS_CardinalityType DEF Size
      <4>5. QED
        BY <1>2, <4>3, <4>4, BoundsAssumption DEF Bound
    <3>2. CASE ~(Size(p) >= MaxEntries /\ DOMAIN p.byFake # {})
      <4>1. room = p
        BY <2>1, <3>2 DEF MakeRoom
      <4>2. DOMAIN p.byFake = {} => Size(p) = 0
        BY FS_EmptySet DEF Size
      <4>3. QED
        BY <1>2, <3>2, <4>1, <4>2, BoundsAssumption DEF Bound
    <3>3. QED
      BY <3>1, <3>2
  <2>3. DOMAIN out.map.byFake = DOMAIN room.byFake \cup {made}
    BY <2>1 DEF Store, Put
  <2>4. /\ IsFiniteSet(DOMAIN out.map.byFake)
        /\ Size(out.map) <= Size(room) + 1
        /\ Size(out.map) \in Nat
    BY <2>2, <2>3, AddOne, FS_CardinalityType DEF Size
  <2>5. QED
    BY <2>2, <2>4, BoundsAssumption DEF Bound
<1>5. QED
  BY <1>3, <1>4

\* A saved session holds at most as many pairs as the map it came from.
LEMMA EntriesSize ==
    ASSUME NEW m, IsFiniteSet(DOMAIN m.byFake)
    PROVE  /\ IsFiniteSet(Entries(m))
           /\ Cardinality(Entries(m)) <= Size(m)
<1> DEFINE S == DOMAIN m.byFake
           g == [f \in S |-> <<f, m.byFake[f].real>>]
<1>1. g \in Surjection(S, Entries(m))
  BY DEF Surjection, Entries
<1>2. QED
  BY <1>1, FS_Surjection DEF Size

\* Every step preserves the capacity.
LEMMA NextCapacity ==
    ASSUME IndInv, CapInv, [Next]_vars
    PROVE  CapInv'
<1> USE DEF CapInv
<1>1. /\ IsMap(map)
      /\ clock \in Nat
      /\ Bound \in Nat
      /\ Capacity <=> Size(map) + Cardinality(todo) <= Bound
      /\ Capacity' <=> Size(map') + Cardinality(todo') <= Bound
  BY MaxTimeAssumption, BoundsAssumption DEF IndInv, TypeOK, Bound, Capacity
<1>2. Size(map) \in Nat /\ Cardinality(todo) \in Nat
  BY FS_CardinalityType DEF Size
<1>3. CASE Tick
  BY <1>3 DEF Tick, Capacity
<1>4. ASSUME NEW r \in Reals, CallGetOrInsert(r) PROVE CapInv'
  <2>1. PICK made \in FakesOf[r] : \E out \in GetOrInsert(map, r, made, clock) :
           map' = out.map
    BY <1>4 DEF CallGetOrInsert
  <2>2. PICK out \in GetOrInsert(map, r, made, clock) : map' = out.map
    BY <2>1
  <2>3. todo = {} /\ todo' = {} /\ Cardinality({}) = 0
    BY <1>4, FS_EmptySet DEF CallGetOrInsert, Idle
  <2>4. made \in Fakes
    BY FakesOfAssumption
  <2>5. IsFiniteSet(DOMAIN map'.byFake) /\ Size(map') <= Bound
    BY <1>1, <1>2, <2>2, <2>3, <2>4, GetCapacity
  <2>6. Size(map') \in Nat
    BY <2>5, FS_CardinalityType DEF Size
  <2>7. QED
    BY <1>1, <2>3, <2>5, <2>6
<1>5. ASSUME NEW f \in Fakes, CallRestore(f) PROVE CapInv'
  <2>1. DOMAIN map'.byFake \subseteq DOMAIN map.byFake /\ todo' = todo
    BY <1>1, <1>5, RestoreMap DEF CallRestore
  <2>2. /\ IsFiniteSet(DOMAIN map'.byFake)
        /\ Size(map') \in Nat
        /\ Size(map') <= Size(map)
    BY <2>1, SubsetBound DEF Size
  <2>3. QED
    BY <1>1, <1>2, <2>1, <2>2
<1>6. CASE Clear
  <2>1. DOMAIN map'.byFake = {} /\ todo' = {} /\ Cardinality({}) = 0
    BY <1>6, FS_EmptySet DEF Clear, EmptyMap, Idle
  <2>2. QED
    BY <1>1, <2>1, FS_EmptySet DEF Size
<1>7. CASE SaveAndReload
  <2>1. DOMAIN map'.byFake = {} /\ todo' = Entries(map) /\ Cardinality({}) = 0
    BY <1>7, FS_EmptySet DEF SaveAndReload, EmptyMap
  <2>2. IsFiniteSet(todo') /\ Cardinality(todo') <= Size(map)
    BY <2>1, EntriesSize
  <2>3. Cardinality(todo') \in Nat
    BY <2>2, FS_CardinalityType
  <2>4. Size(map') = 0 /\ IsFiniteSet(DOMAIN map'.byFake)
    BY <2>1, FS_EmptySet DEF Size
  <2>5. QED
    BY <1>1, <1>2, <2>2, <2>3, <2>4
<1>8. CASE ImportPair
  <2>1. PICK p \in todo : map' = Store(map, p[1], p[2], clock) /\ todo' = todo \ {p}
    BY <1>8 DEF ImportPair
  <2>2. p[1] \notin DOMAIN map.byFake
    BY DEF IndInv, ImportFresh
  <2>3. DOMAIN map'.byFake = DOMAIN map.byFake \cup {p[1]}
    BY <2>1 DEF Store, Put
  <2>4. IsFiniteSet(DOMAIN map'.byFake) /\ Size(map') = Size(map) + 1
    BY <2>2, <2>3, AddOne DEF Size
  <2>5. IsFiniteSet(todo') /\ Cardinality(todo') = Cardinality(todo) - 1
    BY <2>1, RemoveOne
  <2>6. QED
    BY <1>1, <1>2, <2>4, <2>5
<1>9. CASE UNCHANGED vars
  BY <1>9 DEF vars, Capacity
<1>10. QED
  BY <1>3, <1>4, <1>5, <1>6, <1>7, <1>8, <1>9 DEF Next

\* The map never holds more than max_entries pairs (one, if that is zero),
\* counting what an import still has to add.
THEOREM SessionMapCapacity == Spec => []Capacity
<1>1. Init => IndInv /\ ReplyRestorable /\ CapInv
  <2>1. Init => CapInv
    BY FS_EmptySet, BoundsAssumption DEF Init, EmptyMap, CapInv, Capacity, Size
  <2>2. QED
    BY <2>1, InitIndInv, InitReply
<1>2. /\ IndInv /\ ReplyRestorable /\ CapInv /\ [Next]_vars
      => (IndInv /\ ReplyRestorable /\ CapInv)'
  BY NextIndInv, NextCapacity
<1>3. CapInv => Capacity
  BY DEF CapInv
<1>4. QED
  BY <1>1, <1>2, <1>3, PTL DEF Spec

\* All of it: the two hash maps are each other's inverse and within their
\* bound, whatever collides, is evicted, expires, is cleared or reloaded.
THEOREM SessionMapConsistent == Spec => []MapsConsistent
BY SessionMapTypeOK, SessionMapInverse, SessionMapCapacity, PTL DEF MapsConsistent

-----------------------------------------------------------------------------
(* What a step may do to live pairs.                                       *)

\* Pruning takes away what has expired and nothing else, from both maps.
LEMMA PruneExact ==
    ASSUME NEW m, IsMap(m), MutuallyInverse(m), NEW now \in Nat
    PROVE  /\ DOMAIN Prune(m, now).byFake = DOMAIN m.byFake \ Expired(m, now)
           /\ \A f \in DOMAIN Prune(m, now).byFake : Prune(m, now).byFake[f] = m.byFake[f]
           /\ \A r \in DOMAIN m.byReal :
                 m.byReal[r] \notin Expired(m, now) => r \in DOMAIN Prune(m, now).byReal
           /\ \A r \in DOMAIN Prune(m, now).byReal :
                 r \in DOMAIN m.byReal /\ Prune(m, now).byReal[r] = m.byReal[r]
<1>1. Expired(m, now) \subseteq DOMAIN m.byFake
  BY DEF Expired
<1>2. QED
  BY <1>1 DEF Prune, Remove, Without, MutuallyInverse

\* Making room takes one pair at most, from a full map, and none touched
\* later than one that stays.
LEMMA MakeRoomExact ==
    ASSUME NEW m, IsMap(m), NEW room \in MakeRoom(m)
    PROVE  /\ \A f \in DOMAIN m.byFake \ DOMAIN room.byFake :
                 /\ Size(m) >= MaxEntries
                 /\ \A g \in DOMAIN m.byFake : m.byFake[f].touched <= m.byFake[g].touched
           /\ \A f \in DOMAIN room.byFake : f \in DOMAIN m.byFake /\ room.byFake[f] = m.byFake[f]
           /\ \A r \in DOMAIN room.byReal :
                 r \in DOMAIN m.byReal /\ room.byReal[r] = m.byReal[r]
<1>1. CASE room = m
  BY <1>1
<1>2. CASE /\ Size(m) >= MaxEntries
           /\ \E f \in LeastRecent(m) : room = Remove(m, {f})
  <2>1. PICK f \in LeastRecent(m) : room = Remove(m, {f})
    BY <1>2
  <2>2. /\ DOMAIN room.byFake = DOMAIN m.byFake \ {f}
        /\ \A g \in DOMAIN room.byFake : room.byFake[g] = m.byFake[g]
        /\ \A r \in DOMAIN room.byReal : r \in DOMAIN m.byReal /\ room.byReal[r] = m.byReal[r]
    BY <2>1 DEF Remove, Without
  <2>3. QED
    BY <1>2, <2>2 DEF LeastRecent
<1>3. QED
  BY <1>1, <1>2 DEF MakeRoom

\* get_or_insert leaves the fake of every live value alone, and loses a live
\* pair only to the new owner of its fake or from a full map.
LEMMA GetKeepsLive ==
    ASSUME NEW m, IsMap(m), MutuallyInverse(m),
           NEW r \in Reals, NEW made \in Fakes, NEW now \in Nat,
           NEW out \in GetOrInsert(m, r, made, now)
    PROVE  /\ \A q \in DOMAIN m.byReal \cap DOMAIN out.map.byReal :
                 m.byReal[q] \notin Expired(m, now) => out.map.byReal[q] = m.byReal[q]
           /\ \A f \in DOMAIN m.byFake \ Expired(m, now) :
                 \/ f \in DOMAIN out.map.byFake /\ out.map.byFake[f].real = m.byFake[f].real
                 \/ f = out.fake /\ r # m.byFake[f].real
                 \/ /\ Size(Prune(m, now)) >= MaxEntries
                    /\ r \notin DOMAIN Prune(m, now).byReal
                    /\ \A g \in (DOMAIN m.byFake \cap DOMAIN out.map.byFake) \ {out.fake} :
                          m.byFake[f].touched <= m.byFake[g].touched
<1> DEFINE p == Prune(m, now)
<1>1. /\ IsMap(p)
      /\ DOMAIN p.byFake = DOMAIN m.byFake \ Expired(m, now)
      /\ \A f \in DOMAIN p.byFake : p.byFake[f] = m.byFake[f]
      /\ \A q \in DOMAIN m.byReal : m.byReal[q] \notin Expired(m, now) => q \in DOMAIN p.byReal
      /\ \A q \in DOMAIN p.byReal : q \in DOMAIN m.byReal /\ p.byReal[q] = m.byReal[q]
  BY PruneMap, PruneExact
<1> HIDE DEF p
<1>2. CASE r \in DOMAIN p.byReal
  <2>1. out = [map |-> Touch(p, p.byReal[r], now), fake |-> p.byReal[r]]
    BY <1>2 DEF GetOrInsert, p
  <2>2. /\ out.map.byReal = p.byReal
        /\ DOMAIN out.map.byFake = DOMAIN p.byFake
        /\ \A g \in DOMAIN p.byFake : out.map.byFake[g].real = p.byFake[g].real
    BY <1>1, <2>1, TouchIsMap
  <2>3. QED
    BY <1>1, <2>2
<1>3. CASE r \notin DOMAIN p.byReal
  <2>1. PICK room \in MakeRoom(p) :
           out = [map |-> Store(room, made, r, now), fake |-> made]
    BY <1>3 DEF GetOrInsert, p
  <2>2. /\ \A f \in DOMAIN p.byFake \ DOMAIN room.byFake :
              /\ Size(p) >= MaxEntries
              /\ \A g \in DOMAIN p.byFake : p.byFake[f].touched <= p.byFake[g].touched
        /\ \A f \in DOMAIN room.byFake : f \in DOMAIN p.byFake /\ room.byFake[f] = p.byFake[f]
        /\ \A q \in DOMAIN room.byReal : q \in DOMAIN p.byReal /\ room.byReal[q] = p.byReal[q]
    BY <1>1, MakeRoomExact
  <2>3. /\ out.fake = made
        /\ DOMAIN out.map.byFake = DOMAIN room.byFake \cup {made}
        /\ out.map.byFake[made] = [real |-> r, touched |-> now]
        /\ \A f \in DOMAIN room.byFake \ {made} : out.map.byFake[f] = room.byFake[f]
        /\ \A q \in DOMAIN out.map.byReal \ {r} :
              q \in DOMAIN room.byReal /\ out.map.byReal[q] = room.byReal[q]
    BY <2>1 DEF Store, Put, Without
  <2>4. \A q \in DOMAIN m.byReal \cap DOMAIN out.map.byReal :
           m.byReal[q] \notin Expired(m, now) => out.map.byReal[q] = m.byReal[q]
    BY <1>1, <1>3, <2>2, <2>3
  <2>5. ASSUME NEW f \in DOMAIN m.byFake \ Expired(m, now)
        PROVE  \/ f \in DOMAIN out.map.byFake /\ out.map.byFake[f].real = m.byFake[f].real
               \/ f = out.fake /\ r # m.byFake[f].real
               \/ /\ Size(p) >= MaxEntries /\ r \notin DOMAIN p.byReal
                  /\ \A g \in (DOMAIN m.byFake \cap DOMAIN out.map.byFake) \ {out.fake} :
                        m.byFake[f].touched <= m.byFake[g].touched
    <3>1. CASE f = made
      BY <2>3, <3>1
    <3>2. CASE f # made /\ f \in DOMAIN room.byFake
      BY <1>1, <2>2, <2>3, <3>2
    <3>3. CASE f \notin DOMAIN room.byFake
      <4>1. f \in DOMAIN p.byFake \ DOMAIN room.byFake
        BY <1>1, <3>3
      <4>2. \A g \in (DOMAIN m.byFake \cap DOMAIN out.map.byFake) \ {out.fake} : g \in DOMAIN p.byFake
        BY <2>2, <2>3
      <4>3. QED
        BY <1>1, <1>3, <2>2, <4>1, <4>2
    <3>4. QED
      BY <3>1, <3>2, <3>3
  <2>6. QED
    BY <2>4, <2>5 DEF p
<1>4. QED
  BY <1>2, <1>3

\* Every step keeps the fakes of live values and the live pairs, and no
\* restore answers from an expired one.
LEMMA NextKeepsLive ==
    ASSUME IndInv, Next
    PROVE  LiveFakesKept /\ LivePairsKept /\ AnswersFromLivePair
<1>1. IsMap(map) /\ MutuallyInverse(map) /\ clock \in Nat
  BY MaxTimeAssumption DEF IndInv, TypeOK, MapsInverse
<1>2. CASE Tick
  BY <1>2 DEF Tick, LiveFakesKept, LivePairsKept, AnswersFromLivePair, NoReply
<1>3. ASSUME NEW r \in Reals, CallGetOrInsert(r)
      PROVE  LiveFakesKept /\ LivePairsKept /\ AnswersFromLivePair
  <2>1. PICK made \in FakesOf[r] :
           \E o \in GetOrInsert(map, r, made, clock) :
              /\ map' = o.map
              /\ reply' = [op |-> "get", real |-> r, fake |-> o.fake]
    BY <1>3 DEF CallGetOrInsert
  <2>2. PICK out \in GetOrInsert(map, r, made, clock) :
           /\ map' = out.map
           /\ reply' = [op |-> "get", real |-> r, fake |-> out.fake]
    BY <2>1
  <2>3. made \in Fakes
    BY FakesOfAssumption
  <2>4. /\ \A q \in DOMAIN map.byReal \cap DOMAIN map'.byReal :
              map.byReal[q] \notin Expired(map, clock) => map'.byReal[q] = map.byReal[q]
        /\ \A f \in DOMAIN map.byFake \ Expired(map, clock) :
              \/ f \in DOMAIN map'.byFake /\ map'.byFake[f].real = map.byFake[f].real
              \/ f = out.fake /\ r # map.byFake[f].real
              \/ /\ Size(Prune(map, clock)) >= MaxEntries
                 /\ \A g \in (DOMAIN map.byFake \cap DOMAIN map'.byFake) \ {out.fake} :
                       map.byFake[f].touched <= map.byFake[g].touched
    BY <1>1, <2>2, <2>3, GetKeepsLive
  <2>5. reply'.op = "get" /\ reply'.fake = out.fake /\ reply'.real = r
    BY <2>2
  <2>6. QED
    BY <2>4, <2>5 DEF LiveFakesKept, LivePairsKept, AnswersFromLivePair
<1>4. ASSUME NEW f \in Fakes, CallRestore(f)
      PROVE  LiveFakesKept /\ LivePairsKept /\ AnswersFromLivePair
  <2> DEFINE p == Prune(map, clock)
  <2>1. /\ IsMap(p)
        /\ DOMAIN p.byFake = DOMAIN map.byFake \ Expired(map, clock)
        /\ \A g \in DOMAIN p.byFake : p.byFake[g] = map.byFake[g]
        /\ \A q \in DOMAIN p.byReal : q \in DOMAIN map.byReal /\ p.byReal[q] = map.byReal[q]
    BY <1>1, PruneMap, PruneExact
  <2> HIDE DEF p
  <2>2. /\ map' = Touch(p, f, clock)
        /\ reply' = [op |-> "restore", fake |-> f, result |-> RestoreResult(map, f, clock)]
    BY <1>4 DEF CallRestore, Restore, p
  <2>3. /\ map'.byReal = p.byReal /\ DOMAIN map'.byFake = DOMAIN p.byFake
        /\ \A g \in DOMAIN p.byFake : map'.byFake[g].real = p.byFake[g].real
    BY <1>1, <2>1, <2>2, TouchIsMap
  <2>4. LiveFakesKept /\ LivePairsKept
    BY <2>1, <2>3 DEF LiveFakesKept, LivePairsKept
  <2>5. AnswersFromLivePair
    <3>1. SUFFICES ASSUME RestoreResult(map, f, clock) # {}
                   PROVE  clock <= map.byFake[f].touched + Ttl
      BY <2>2 DEF AnswersFromLivePair
    <3>2. f \in DOMAIN p.byFake
      BY <3>1 DEF RestoreResult, p
    <3>3. ~(clock > map.byFake[f].touched + Ttl) /\ map.byFake[f].touched \in Nat
      BY <1>1, <2>1, <3>2 DEF Expired, IsMap, Entry
    <3>4. QED
      BY <1>1, <3>3, BoundsAssumption
  <2>6. QED
    BY <2>4, <2>5
<1>5. CASE Clear
  BY <1>5 DEF Clear, EmptyMap, LiveFakesKept, LivePairsKept, AnswersFromLivePair, NoReply
<1>6. CASE SaveAndReload
  BY <1>6 DEF SaveAndReload, Entries, EmptyMap, LiveFakesKept, LivePairsKept,
              AnswersFromLivePair, NoReply
<1>7. CASE ImportPair
  <2>1. PICK q \in todo : map' = Store(map, q[1], q[2], clock) /\ reply' = NoReply
    BY <1>7 DEF ImportPair
  <2>2. q[1] \notin DOMAIN map.byFake /\ q[2] \notin DOMAIN map.byReal
    BY DEF IndInv, ImportFresh
  <2>3. /\ \A f \in DOMAIN map.byFake : f \in DOMAIN map'.byFake /\ map'.byFake[f] = map.byFake[f]
        /\ \A r \in DOMAIN map.byReal : map'.byReal[r] = map.byReal[r]
    BY <2>1, <2>2 DEF Store, Put, Without
  <2>4. QED
    BY <2>1, <2>3 DEF LiveFakesKept, LivePairsKept, AnswersFromLivePair, NoReply
<1>8. QED
  BY <1>2, <1>3, <1>4, <1>5, <1>6, <1>7 DEF Next

\* The invariant holds always.
LEMMA IndInvAlways == Spec => []IndInv
<1>1. Init => IndInv /\ ReplyRestorable
  BY InitIndInv, InitReply
<1>2. IndInv /\ ReplyRestorable /\ [Next]_vars => (IndInv /\ ReplyRestorable)'
  BY NextIndInv
<1>3. QED
  BY <1>1, <1>2, PTL DEF Spec

\* StableFake, for every set of values, capacity and ttl: a live value keeps
\* its fake through collisions, evictions, expiries of others and reloads.
THEOREM SessionMapStableFake == Spec => StableFake
<1>1. IndInv /\ [Next]_vars => [LiveFakesKept]_vars
  BY NextKeepsLive
<1>2. QED
  BY <1>1, IndInvAlways, PTL DEF Spec, StableFake

\* LifetimesKept likewise: a live pair goes only by clear, to the new owner
\* of its fake, or from a full map that keeps none touched earlier; and no
\* restore answers from an expired one.
THEOREM SessionMapLifetimesKept == Spec => LifetimesKept
<1>1. IndInv /\ [Next]_vars => [LivePairsKept /\ AnswersFromLivePair]_vars
  BY NextKeepsLive
<1>2. QED
  BY <1>1, IndInvAlways, PTL DEF Spec, LifetimesKept

-----------------------------------------------------------------------------
(* The engine.  First: least elements and recursion.                       *)

\* A set of natural numbers that is not empty has a least element.
LEMMA LeastNumber ==
    ASSUME NEW S \in SUBSET Nat, S # {}
    PROVE  \E n \in S : \A k \in S : n <= k
<1> DEFINE R == OpToRel(<, Nat)
<1>1. R = {pair \in Nat \X Nat : pair[1] < pair[2]}
  BY DEF OpToRel
<1>2. IsWellFoundedOn(R, Nat)
  BY NatLessThanWellFounded
<1> HIDE DEF R
<1>3. PICK n \in S : \A k \in S : <<k, n>> \notin R
  BY <1>2, WFMin
<1>4. ASSUME NEW k \in Nat, k < n PROVE <<k, n>> \in R
  <2>1. <<k, n>> \in Nat \X Nat /\ <<k, n>>[1] < <<k, n>>[2]
    BY <1>4
  <2> QED
    BY <1>1, <2>1
<1>5. \A k \in S : ~(k < n)
  BY <1>3, <1>4
<1> QED
  BY <1>5

\* A walk over n places emits a piece at each place it visits and goes on
\* behind it; g[i] is what it emits from place i on.
Steps(n, piece, width) ==
    /\ \A i \in 1..n : piece[i] \in Seq(Bytes)
    /\ \A i \in 1..n : width[i] \in Nat \ {0} /\ i + width[i] <= n + 1

Walk(n, piece, width, g) ==
    g = [i \in 1..(n + 1) |-> IF i > n THEN <<>> ELSE piece[i] \o g[i + width[i]]]

\* What the walk emits at each place.
WalkSteps(n, piece, width, g) ==
    /\ g[n + 1] = <<>>
    /\ \A i \in 1..n : g[i] = piece[i] \o g[i + width[i]]

\* A walk has those values.
LEMMA WalkValues ==
    ASSUME NEW n \in Nat, NEW piece, NEW width, NEW g, Walk(n, piece, width, g)
    PROVE  WalkSteps(n, piece, width, g)
<1> DEFINE G == [i \in 1..(n + 1) |-> IF i > n THEN <<>> ELSE piece[i] \o g[i + width[i]]]
<1>1. g = G
  BY DEF Walk
<1>2. n + 1 \in 1..(n + 1) /\ n + 1 > n
  OBVIOUS
<1>3. \A i \in 1..n : i \in 1..(n + 1) /\ ~(i > n)
  OBVIOUS
<1>4. G[n + 1] = <<>> /\ \A i \in 1..n : G[i] = piece[i] \o g[i + width[i]]
  BY <1>2, <1>3
<1> HIDE DEF G
<1> QED
  BY <1>1, <1>4 DEF WalkSteps

\* And is determined by them.
LEMMA WalkFromSteps ==
    ASSUME NEW n \in Nat, NEW piece, NEW width, NEW g,
           g = [i \in 1..(n + 1) |-> g[i]], WalkSteps(n, piece, width, g)
    PROVE  Walk(n, piece, width, g)
<1> DEFINE G == [i \in 1..(n + 1) |-> IF i > n THEN <<>> ELSE piece[i] \o g[i + width[i]]]
<1>1. \A i \in 1..(n + 1) : (i > n /\ i = n + 1) \/ (~(i > n) /\ i \in 1..n)
  OBVIOUS
<1>2. \A i \in 1..(n + 1) : G[i] = g[i]
  BY <1>1 DEF WalkSteps
<1>3. g = G
  BY <1>2
<1> QED
  BY <1>3 DEF Walk

\* A function that is a walk from place n + 1 - k on.
WalkFrom(n, piece, width, g, k) ==
    /\ g = [i \in 1..(n + 1) |-> g[i]]
    /\ g[n + 1] = <<>>
    /\ \A i \in 1..n : n + 1 - k <= i => g[i] = piece[i] \o g[i + width[i]]

\* One more place in front of it.
LEMMA WalkOneMore ==
    ASSUME NEW n \in Nat, NEW piece, NEW width, Steps(n, piece, width),
           NEW k \in 0..(n - 1), NEW g, WalkFrom(n, piece, width, g, k)
    PROVE  \E h : WalkFrom(n, piece, width, h, k + 1)
<1> DEFINE p == n - k
           h == [i \in 1..(n + 1) |-> IF i = p THEN piece[p] \o g[p + width[p]] ELSE g[i]]
<1>1. p \in 1..n /\ n + 1 - (k + 1) = p /\ n + 1 - k = p + 1
  OBVIOUS
<1>2. \A i \in 1..n : p <= i => i = p \/ p + 1 <= i
  BY <1>1
<1>3. \A i \in 1..n : p <= i => i + width[i] \in 1..(n + 1) /\ i + width[i] # p
  BY <1>1 DEF Steps
<1> HIDE DEF p
<1>4. h = [i \in 1..(n + 1) |-> h[i]]
  OBVIOUS
<1>5. /\ h[n + 1] = g[n + 1]
      /\ h[p] = piece[p] \o g[p + width[p]]
      /\ \A i \in 1..(n + 1) : i # p => h[i] = g[i]
  <2>1. n + 1 \in 1..(n + 1) /\ p \in 1..(n + 1) /\ n + 1 # p
    BY <1>1
  <2> QED
    BY <2>1
<1> HIDE DEF h
<1>6. \A i \in 1..n : p <= i => h[i + width[i]] = g[i + width[i]]
  BY <1>3, <1>5
<1>7. ASSUME NEW i \in 1..n, p <= i PROVE h[i] = piece[i] \o h[i + width[i]]
  <2>1. h[i + width[i]] = g[i + width[i]]
    BY <1>6, <1>7
  <2>2. CASE i = p
    BY <1>5, <2>1, <2>2
  <2>3. CASE p + 1 <= i
    <3>1. g[i] = piece[i] \o g[i + width[i]]
      BY <1>1, <2>3 DEF WalkFrom
    <3>2. i # p /\ i \in 1..(n + 1)
      BY <1>1, <2>3
    <3> QED
      BY <1>5, <2>1, <3>1, <3>2
  <2> QED
    BY <1>2, <1>7, <2>2, <2>3
<1>8. WalkFrom(n, piece, width, h, k + 1)
  BY <1>1, <1>4, <1>5, <1>7 DEF WalkFrom
<1> QED
  BY <1>8

\* There is a walk.
LEMMA WalkExists ==
    ASSUME NEW n \in Nat, NEW piece, NEW width, Steps(n, piece, width)
    PROVE  \E g : Walk(n, piece, width, g)
<1> DEFINE Lacking == {k \in 0..n : ~\E g : WalkFrom(n, piece, width, g, k)}
<1>1. Lacking = {}
  <2> SUFFICES ASSUME Lacking # {} PROVE FALSE
    OBVIOUS
  <2>1. PICK k \in Lacking : \A j \in Lacking : k <= j
    <3>1. Lacking \in SUBSET Nat
      OBVIOUS
    <3> HIDE DEF Lacking
    <3> QED
      BY <3>1, LeastNumber
  <2>2. k # 0
    <3> SUFFICES ASSUME k = 0 PROVE FALSE
      OBVIOUS
    <3> DEFINE e == [i \in 1..(n + 1) |-> <<>>]
    <3>1. \A i \in 1..n : ~(n + 1 - 0 <= i)
      OBVIOUS
    <3>2. e = [i \in 1..(n + 1) |-> e[i]] /\ e[n + 1] = <<>>
      OBVIOUS
    <3>3. WalkFrom(n, piece, width, e, 0)
      BY <3>1, <3>2 DEF WalkFrom
    <3> QED
      BY <3>3
  <2>3. PICK j \in 0..(n - 1) : j + 1 = k
    <3>1. k - 1 \in 0..(n - 1) /\ (k - 1) + 1 = k
      BY <2>2
    <3> QED
      BY <3>1
  <2>4. j \notin Lacking /\ j \in 0..n
    BY <2>1, <2>3
  <2>5. PICK g : WalkFrom(n, piece, width, g, j)
    BY <2>4
  <2>6. \E h : WalkFrom(n, piece, width, h, j + 1)
    BY <2>3, <2>5, WalkOneMore
  <2> QED
    BY <2>1, <2>3, <2>6
<1>2. PICK g : WalkFrom(n, piece, width, g, n)
  <2>1. n \in 0..n
    OBVIOUS
  <2> QED
    BY <1>1, <2>1
<1>3. \A i \in 1..n : n + 1 - n <= i
  OBVIOUS
<1>4. WalkSteps(n, piece, width, g)
  BY <1>2, <1>3 DEF WalkFrom, WalkSteps
<1>5. Walk(n, piece, width, g)
  BY <1>2, <1>4, WalkFromSteps DEF WalkFrom
<1> QED
  BY <1>5

\* What a walk emits is a text.
LEMMA WalkTexts ==
    ASSUME NEW n \in Nat, NEW piece, NEW width, Steps(n, piece, width),
           NEW g, Walk(n, piece, width, g)
    PROVE  \A i \in 1..(n + 1) : g[i] \in Seq(Bytes)
<1> DEFINE Bad == {k \in 0..n : g[n + 1 - k] \notin Seq(Bytes)}
<1>1. WalkSteps(n, piece, width, g)
  BY WalkValues
<1>2. Bad = {}
  <2> SUFFICES ASSUME Bad # {} PROVE FALSE
    OBVIOUS
  <2>1. PICK k \in Bad : \A j \in Bad : k <= j
    <3>1. Bad \in SUBSET Nat
      OBVIOUS
    <3> HIDE DEF Bad
    <3> QED
      BY <3>1, LeastNumber
  <2>2. <<>> \in Seq(Bytes)
    OBVIOUS
  <2>3. k # 0
    <3> SUFFICES ASSUME k = 0 PROVE FALSE
      OBVIOUS
    <3>1. n + 1 - k = n + 1
      OBVIOUS
    <3> QED
      BY <1>1, <2>1, <2>2, <3>1 DEF WalkSteps
  <2>4. PICK i \in 1..n : i = n + 1 - k
    <3>1. n + 1 - k \in 1..n
      BY <2>3
    <3> QED
      BY <3>1
  <2>5. piece[i] \in Seq(Bytes) /\ width[i] \in Nat \ {0} /\ i + width[i] <= n + 1
    BY DEF Steps
  <2>6. PICK j \in 0..n : n + 1 - j = i + width[i] /\ j < k
    <3>1. PICK w \in Nat \ {0} : w = width[i]
      BY <2>5
    <3>2. k \in 0..n /\ i + w <= n + 1
      BY <2>5, <3>1
    <3> HIDE DEF Bad
    <3>3. k - w \in 0..n /\ n + 1 - (k - w) = i + w /\ k - w < k
      BY <2>4, <3>1, <3>2
    <3> QED
      BY <3>1, <3>3
  <2>7. j \notin Bad
    BY <2>1, <2>6
  <2>8. g[i + width[i]] \in Seq(Bytes)
    BY <2>6, <2>7
  <2>9. g[i] \in Seq(Bytes)
    BY <1>1, <2>5, <2>8, ConcatProperties DEF WalkSteps
  <2> QED
    BY <2>1, <2>4, <2>9
<1>3. ASSUME NEW i \in 1..(n + 1) PROVE g[i] \in Seq(Bytes)
  <2>1. n + 1 - i \in 0..n /\ n + 1 - (n + 1 - i) = i
    OBVIOUS
  <2> QED
    BY <1>2, <2>1
<1> QED
  BY <1>3

-----------------------------------------------------------------------------
(* Texts, matches and windows.                                             *)

USE DEF scrubVars

\* Values are texts that are not empty.
LEMMA ValueTexts ==
    ASSUME NEW r \in Registered
    PROVE  Value[r] \in Seq(Bytes) /\ Len(Value[r]) \in Nat \ {0}
<1>1. Value[r] \in Seq(Bytes) /\ Len(Value[r]) > 0
  BY EngineAssumption DEF Registered
<1> QED
  BY <1>1

\* So is what FF1 makes of them, over the alphabet.
LEMMA CipherTexts ==
    ASSUME NEW r \in Fpe
    PROVE  /\ Cipher[r] \in Seq(Bytes) /\ Len(Cipher[r]) = Len(Value[r])
           /\ \A k \in 1..Len(Cipher[r]) : Cipher[r][k] \in Letters
<1>1. Cipher[r] \in Seq(Letters) /\ Letters \subseteq Bytes /\ Len(Cipher[r]) = Len(Value[r])
  BY EngineAssumption
<1>2. \A k \in 1..Len(Cipher[r]) : Cipher[r][k] \in Letters
  BY <1>1
<1>3. Cipher[r] \in Seq(Bytes)
  <2>1. PICK n \in Nat : n = Len(Cipher[r]) /\ Cipher[r] \in [1..n -> Letters]
    BY <1>1
  <2>2. Cipher[r] \in [1..n -> Bytes]
    BY <1>1, <2>1
  <2> QED
    BY <2>2
<1> QED
  BY <1>1, <1>2, <1>3

\* And whatever is emitted for a match.
LEMMA ReplacementTexts ==
    ASSUME NEW r \in Registered
    PROVE  Replacement(r) \in Seq(Bytes) /\ Len(Replacement(r)) \in Nat \ {0}
<1>1. Value[r] \in Seq(Bytes) /\ Len(Value[r]) \in Nat \ {0}
  BY ValueTexts
<1>2. Marker \in Seq(Bytes) /\ Len(Marker) \in Nat \ {0}
  <2>1. Marker \in Seq(Bytes) /\ Len(Marker) > 0
    BY EngineAssumption
  <2> QED
    BY <2>1
<1>3. CASE r \in Fpe
  <2>1. Cipher[r] \in Seq(Bytes) /\ Len(Cipher[r]) \in Nat \ {0}
    BY <1>1, <1>3, CipherTexts
  <2> QED
    BY <1>1, <1>2, <1>3, <2>1 DEF Replacement
<1>4. CASE r \notin Fpe
  <2>1. r \in Reals /\ (Replacement(r) = Marker \/ Replacement(r) \in Fakes)
    BY <1>4, EngineAssumption DEF Replacement, Registered
  <2>2. \A f \in Fakes : f \in Seq(Bytes) /\ Len(f) > 0
    BY EngineAssumption
  <2>3. \A f \in Fakes : Len(f) \in Nat \ {0}
    BY <2>2
  <2> QED
    BY <1>2, <2>1, <2>2, <2>3
<1> QED
  BY <1>3, <1>4

\* The function behind str::replace.
Replaces(t, s, v, g) ==
    g = [i \in 1..(Len(t) + 1) |->
            IF i > Len(t) THEN <<>>
            ELSE IF OccursAt(t, s, i) THEN v \o g[i + Len(s)]
            ELSE <<t[i]>> \o g[i + 1]]

\* What str::replace makes of the text from each place on.
ReplaceSteps(t, s, v, g) ==
    /\ \A i \in 1..(Len(t) + 1) : g[i] \in Seq(Bytes)
    /\ g[Len(t) + 1] = <<>>
    /\ \A i \in 1..Len(t) : g[i] = IF OccursAt(t, s, i) THEN v \o g[i + Len(s)]
                                   ELSE <<t[i]>> \o g[i + 1]

\* str::replace makes it, from the first place on.
LEMMA ReplacedFrom ==
    ASSUME NEW t \in Seq(Bytes), NEW s \in Seq(Bytes), Len(s) > 0, NEW v \in Seq(Bytes)
    PROVE  \E g : ReplaceAll(t, s, v) = g[1] /\ ReplaceSteps(t, s, v, g)
<1> DEFINE n == Len(t)
           piece == [i \in 1..n |-> IF OccursAt(t, s, i) THEN v ELSE <<t[i]>>]
           width == [i \in 1..n |-> IF OccursAt(t, s, i) THEN Len(s) ELSE 1]
<1>1. n \in Nat /\ Len(s) \in Nat \ {0} /\ \A i \in 1..n : t[i] \in Bytes /\ <<t[i]>> \in Seq(Bytes)
  OBVIOUS
<1>2. Steps(n, piece, width)
  <2>1. \A i \in 1..n : piece[i] \in Seq(Bytes)
    BY <1>1
  <2>2. ASSUME NEW i \in 1..n PROVE width[i] \in Nat \ {0} /\ i + width[i] <= n + 1
    <3>1. CASE OccursAt(t, s, i)
      <4>1. i + Len(s) - 1 <= n
        BY <3>1 DEF OccursAt
      <4> QED
        BY <1>1, <3>1, <4>1
    <3>2. CASE ~OccursAt(t, s, i)
      BY <1>1, <3>2
    <3> QED
      BY <3>1, <3>2
  <2> HIDE DEF piece, width, n
  <2> QED
    BY <2>1, <2>2 DEF Steps
<1>3. \A g : Replaces(t, s, v, g) <=> Walk(n, piece, width, g)
  <2> SUFFICES ASSUME NEW g PROVE Replaces(t, s, v, g) <=> Walk(n, piece, width, g)
    OBVIOUS
  <2>1. \A i \in 1..(n + 1) : i > n \/ i \in 1..n
    BY <1>1
  <2>2. \A i \in 1..n : piece[i] \o g[i + width[i]] =
           IF OccursAt(t, s, i) THEN v \o g[i + Len(s)] ELSE <<t[i]>> \o g[i + 1]
    OBVIOUS
  <2> HIDE DEF piece, width
  <2>3. [i \in 1..(n + 1) |-> IF i > n THEN <<>> ELSE piece[i] \o g[i + width[i]]] =
        [i \in 1..(n + 1) |->
            IF i > n THEN <<>>
            ELSE IF OccursAt(t, s, i) THEN v \o g[i + Len(s)]
            ELSE <<t[i]>> \o g[i + 1]]
    BY <2>1, <2>2
  <2> QED
    BY <2>3 DEF Replaces, Walk
<1> DEFINE from[i \in 1..(Len(t) + 1)] ==
               IF i > Len(t) THEN <<>>
               ELSE IF OccursAt(t, s, i) THEN v \o from[i + Len(s)]
               ELSE <<t[i]>> \o from[i + 1]
<1>4. \E g : Replaces(t, s, v, g)
  <2> HIDE DEF piece, width, n
  <2>1. \E g : Walk(n, piece, width, g)
    BY <1>1, <1>2, WalkExists
  <2> QED
    BY <1>3, <2>1
<1>5. from = CHOOSE g : Replaces(t, s, v, g)
  BY DEF Replaces
<1>6. ReplaceAll(t, s, v) = from[1]
  BY DEF ReplaceAll
<1>7. \A g : \A i \in 1..n : piece[i] \o g[i + width[i]] =
         IF OccursAt(t, s, i) THEN v \o g[i + Len(s)] ELSE <<t[i]>> \o g[i + 1]
  OBVIOUS
<1> HIDE DEF from, piece, width
<1>8. Walk(n, piece, width, from)
  <2> HIDE DEF n
  <2> QED
    BY <1>3, <1>4, <1>5
<1>9. WalkSteps(n, piece, width, from) /\ \A i \in 1..(n + 1) : from[i] \in Seq(Bytes)
  <2> HIDE DEF n
  <2> QED
    BY <1>1, <1>2, <1>8, WalkTexts, WalkValues
<1>10. ReplaceSteps(t, s, v, from)
  BY <1>7, <1>9 DEF WalkSteps, ReplaceSteps
<1> QED
  BY <1>6, <1>10

\* Replacing in a text gives a text.
LEMMA ReplacedTexts ==
    ASSUME NEW t \in Seq(Bytes), NEW s \in Seq(Bytes), Len(s) > 0, NEW v \in Seq(Bytes)
    PROVE  ReplaceAll(t, s, v) \in Seq(Bytes)
<1>1. PICK g : ReplaceAll(t, s, v) = g[1] /\ ReplaceSteps(t, s, v, g)
  BY ReplacedFrom
<1>2. 1 \in 1..(Len(t) + 1)
  OBVIOUS
<1> QED
  BY <1>1, <1>2 DEF ReplaceSteps

\* The next match is the first one behind the cursor.
LEMMA MatchFound ==
    ASSUME input \in Seq(Bytes), cursor \in 0..Len(input), MatchStarts # {}
    PROVE  /\ NextMatch \in (cursor + 1)..Len(input)
           /\ At(NextMatch) # {}
           /\ \A j \in (cursor + 1)..Len(input) : At(j) # {} => NextMatch <= j
<1>1. MatchStarts \in SUBSET Nat
  BY DEF MatchStarts
<1>2. \E i \in MatchStarts : \A j \in MatchStarts : i <= j
  BY <1>1, LeastNumber
<1>3. NextMatch \in MatchStarts /\ \A j \in MatchStarts : NextMatch <= j
  BY <1>2 DEF NextMatch
<1> QED
  BY <1>3 DEF MatchStarts

\* A match of a registration lies within the input.
LEMMA MatchFits ==
    ASSUME input \in Seq(Bytes), cursor \in 0..Len(input), MatchStarts # {},
           NEW r \in LongestOf(At(NextMatch))
    PROVE  /\ r \in Registered /\ NextMatch \in (cursor + 1)..Len(input)
           /\ NextMatch + Len(Value[r]) - 1 \in (cursor + 1)..Len(input)
<1>1. NextMatch \in (cursor + 1)..Len(input)
  BY MatchFound
<1>2. r \in Registered /\ OccursAt(input, Value[r], NextMatch)
  BY DEF LongestOf, At
<1>3. Len(Value[r]) \in Nat \ {0} /\ Len(input) \in Nat
  BY <1>2, ValueTexts
<1>4. NextMatch + Len(Value[r]) - 1 <= Len(input)
  BY <1>2 DEF OccursAt
<1> QED
  BY <1>1, <1>2, <1>3, <1>4

\* Among windows there is a first one.
LEMMA FirstFound ==
    ASSUME NEW n \in Nat, NEW W \in SUBSET ((1..n) \X (1..n)), W # {}
    PROVE  /\ First(W) \in W
           /\ \A x \in W : First(W)[1] < x[1] \/ (First(W)[1] = x[1] /\ First(W)[2] <= x[2])
<1> DEFINE A == {w[1] : w \in W}
<1>1. PICK a \in A : \A x \in A : a <= x
  <2>1. A \in SUBSET Nat /\ A # {}
    OBVIOUS
  <2> HIDE DEF A
  <2> QED
    BY <2>1, LeastNumber
<1> DEFINE B == {w[2] : w \in {u \in W : u[1] = a}}
<1>2. PICK b \in B : \A x \in B : b <= x
  <2>1. B \in SUBSET Nat /\ B # {}
    BY <1>1
  <2> HIDE DEF B
  <2> QED
    BY <2>1, LeastNumber
<1>3. PICK w \in W : w[1] = a /\ w[2] = b
  BY <1>2
<1>4. ASSUME NEW x \in W PROVE w[1] < x[1] \/ (w[1] = x[1] /\ w[2] <= x[2])
  <2>1. a <= x[1] /\ (x[1] = a => b <= x[2]) /\ x[1] \in Nat /\ a \in Nat
    BY <1>1, <1>2
  <2> HIDE DEF A, B
  <2> QED
    BY <1>3, <2>1
<1> DEFINE Least(u) == \A x \in W : u[1] < x[1] \/ (u[1] = x[1] /\ u[2] <= x[2])
<1>5. w \in W /\ Least(w)
  BY <1>3, <1>4
<1>6. First(W) = CHOOSE u \in W : Least(u)
  BY DEF First
<1> HIDE DEF Least
<1>7. First(W) \in W /\ Least(First(W))
  BY <1>5, <1>6
<1> QED
  BY <1>7 DEF Least

-----------------------------------------------------------------------------
(* Types of the engine's state, and its session map.                       *)

\* Every pair of the map is one the generators make.
Generated(m) == \A f \in DOMAIN m.byFake : FakeOf[m.byFake[f].real] = f

EngineShape ==
    /\ input \in Seq(Bytes) /\ output \in Seq(Bytes)
    /\ phase \notin {"scrub", "windows", "restored"} => cursor = 0
    /\ phase \in {"idle", "scrub"} => (cursor = 0 => output = <<>>)
    /\ phase = "idle" => hits = {} /\ spots = {}
    /\ IsFiniteSet(hits)
    /\ MutuallyInverse(sessionMap) /\ Generated(sessionMap)

EngineInv == EngineTypeOK /\ EngineShape

\* get_or_insert hands out the generated fake, from whichever branch.
LEMMA GeneratedGet ==
    ASSUME NEW m, IsMap(m), MutuallyInverse(m), Generated(m),
           NEW r \in Reals, FakeOf[r] # NoneMade,
           NEW o \in GetOrInsert(m, r, FakeOf[r], 0)
    PROVE  /\ FakeOf[r] \in Fakes /\ o.fake = FakeOf[r]
           /\ IsMap(o.map) /\ MutuallyInverse(o.map) /\ Generated(o.map)
           /\ <<FakeOf[r], r>> \in Entries(o.map)
<1>1. FakeOf[r] \in Fakes /\ 0 \in Nat
  BY EngineAssumption
<1>2. /\ IsMap(o.map) /\ MutuallyInverse(o.map)
      /\ o.fake \in DOMAIN o.map.byFake
      /\ o.map.byFake[o.fake] = [real |-> r, touched |-> 0]
      /\ \A f \in DOMAIN o.map.byFake \ {o.fake} :
            f \in DOMAIN m.byFake /\ o.map.byFake[f].real = m.byFake[f].real
  BY <1>1, GetOrInsertMap
<1>3. o.map.byFake[o.fake].real = r
  BY <1>2
<1> DEFINE p == Prune(m, 0)
<1>4. o.fake = FakeOf[r]
  <2>1. /\ MutuallyInverse(p) /\ DOMAIN p.byFake \subseteq DOMAIN m.byFake
        /\ \A f \in DOMAIN p.byFake : p.byFake[f] = m.byFake[f]
    BY <1>1, PruneMap
  <2> HIDE DEF p
  <2>2. CASE r \in DOMAIN p.byReal
    <3>1. o.fake = p.byReal[r]
      BY <2>2 DEF GetOrInsert, p
    <3>2. p.byReal[r] \in DOMAIN m.byFake /\ m.byFake[p.byReal[r]].real = r
      BY <2>1, <2>2 DEF MutuallyInverse
    <3> QED
      BY <3>1, <3>2 DEF Generated
  <2>3. CASE r \notin DOMAIN p.byReal
    BY <2>3 DEF GetOrInsert, p
  <2> QED
    BY <2>2, <2>3
<1>5. Generated(o.map)
  BY <1>2, <1>3, <1>4 DEF Generated
<1>6. <<FakeOf[r], r>> \in Entries(o.map)
  BY <1>2, <1>3, <1>4 DEF Entries
<1> QED
  BY <1>1, <1>2, <1>4, <1>5, <1>6

\* What storing a match leaves.
LEMMA StoredMaps ==
    ASSUME EngineInv, NEW r \in Registered, NEW m \in Stored(r)
    PROVE  IsMap(m) /\ MutuallyInverse(m) /\ Generated(m)
<1>1. IsMap(sessionMap) /\ MutuallyInverse(sessionMap) /\ Generated(sessionMap)
  BY DEF EngineInv, EngineTypeOK, EngineShape
<1>2. CASE session /\ r \in Reals /\ FakeOf[r] # NoneMade
  <2>1. PICK o \in GetOrInsert(sessionMap, r, FakeOf[r], 0) : m = o.map
    BY <1>2 DEF Stored
  <2> QED
    BY <1>1, <1>2, <2>1, GeneratedGet
<1>3. CASE ~(session /\ r \in Reals /\ FakeOf[r] # NoneMade)
  BY <1>1, <1>3 DEF Stored
<1> QED
  BY <1>2, <1>3

\* It holds at the start.
LEMMA EngineInvInit == EngineInit => EngineInv
<1> SUFFICES ASSUME EngineInit PROVE EngineInv
  OBVIOUS
<1>1. IsMap(EmptyMap) /\ MutuallyInverse(EmptyMap) /\ Generated(EmptyMap)
  BY DEF EmptyMap, IsMap, MutuallyInverse, Generated
<1>2. EngineTypeOK
  <2>1. 0 \in 0..Len(input)
    BY DEF EngineInit
  <2> QED
    BY <1>1, <2>1 DEF EngineInit, EngineTypeOK
<1>3. EngineShape
  BY <1>1, FS_EmptySet DEF EngineInit, EngineShape
<1> QED
  BY <1>2, <1>3 DEF EngineInv

\* Replacing a match keeps it.
LEMMA ScrubMatchTypes ==
    ASSUME EngineInv, ScrubMatch PROVE EngineInv'
<1>1. EngineTypeOK /\ EngineShape
  BY DEF EngineInv
<1>2. PICK r \in LongestOf(At(NextMatch)) :
          /\ output' = output \o SubSeq(input, cursor + 1, NextMatch - 1) \o Replacement(r)
          /\ cursor' = NextMatch + Len(Value[r]) - 1
          /\ sessionMap' \in Stored(r)
          /\ notices' = notices \cup Notices(r)
          /\ hits' = hits \cup {r}
          /\ spots' = spots \cup {<<Len(output) + NextMatch - cursor, r>>}
  BY DEF ScrubMatch
<1>3. /\ phase = "scrub" /\ MatchStarts # {} /\ input \in Seq(Bytes) /\ output \in Seq(Bytes)
      /\ cursor \in 0..Len(input) /\ UNCHANGED <<phase, session, original, input, pending>>
  BY <1>1 DEF ScrubMatch, EngineTypeOK, EngineShape
<1>4. /\ r \in Registered /\ NextMatch \in (cursor + 1)..Len(input)
      /\ NextMatch + Len(Value[r]) - 1 \in (cursor + 1)..Len(input)
  BY <1>3, MatchFits
<1>5. cursor' \in 0..Len(input) /\ cursor' # 0
  <2>1. Len(input) \in Nat
    BY <1>3
  <2> QED
    BY <1>2, <1>3, <1>4, <2>1
<1>6. IsMap(sessionMap') /\ MutuallyInverse(sessionMap') /\ Generated(sessionMap')
  <2>1. PICK m \in Stored(r) : m = sessionMap'
    BY <1>2
  <2> QED
    BY <1>4, <2>1, StoredMaps
<1>7. /\ notices' \subseteq Registered /\ hits' \subseteq Registered /\ IsFiniteSet(hits')
      /\ spots' \subseteq (Nat \ {0}) \X hits'
  <2>1. notices' \subseteq Registered /\ hits' \subseteq Registered
    BY <1>1, <1>2, <1>4 DEF EngineTypeOK, Notices
  <2>2. IsFiniteSet(hits')
    BY <1>1, <1>2, FS_AddElement DEF EngineShape
  <2>3. Len(output) + NextMatch - cursor \in Nat \ {0}
    <3>1. Len(input) \in Nat /\ Len(output) \in Nat
      BY <1>3
    <3> QED
      BY <1>3, <1>4, <3>1
  <2>4. spots \subseteq (Nat \ {0}) \X hits
    BY <1>1 DEF EngineTypeOK
  <2> QED
    BY <1>2, <2>1, <2>2, <2>3, <2>4
<1>8. output' \in Seq(Bytes)
  <2>1. SubSeq(input, cursor + 1, NextMatch - 1) \in Seq(Bytes)
    <3>1. PICK k \in 1..Len(input) : k = NextMatch
      BY <1>3, <1>4
    <3>2. \A i \in (cursor + 1)..(k - 1) : input[i] \in Bytes
      BY <1>3
    <3>3. SubSeq(input, cursor + 1, k - 1) \in Seq(Bytes)
      BY <1>3, <3>2, SubSeqProperties
    <3> QED
      BY <3>1, <3>3
  <2>2. Replacement(r) \in Seq(Bytes)
    BY <1>4, ReplacementTexts
  <2> QED
    BY <1>2, <1>3, <2>1, <2>2, ConcatProperties
<1>9. EngineTypeOK'
  BY <1>1, <1>3, <1>5, <1>6, <1>7 DEF EngineTypeOK
<1>10. EngineShape'
  BY <1>1, <1>3, <1>5, <1>6, <1>7, <1>8 DEF EngineShape
<1> QED
  BY <1>9, <1>10 DEF EngineInv

\* So does replacing a fake of the session.
LEMMA SessionFakeTypes ==
    ASSUME EngineInv, SessionFake PROVE EngineInv'
<1>1. EngineTypeOK /\ EngineShape
  BY DEF EngineInv
<1>2. PICK f \in pending :
          /\ input' = IF RestoreResult(sessionMap, f, 0) = {} THEN input
                      ELSE ReplaceAll(input, f, Value[CHOOSE r \in RestoreResult(sessionMap, f, 0) : TRUE])
          /\ sessionMap' = Restore(sessionMap, f, 0)
          /\ pending' = pending \ {f}
  BY DEF SessionFake
<1>3. /\ phase = "session" /\ cursor = 0 /\ input \in Seq(Bytes) /\ pending \subseteq Fakes
      /\ UNCHANGED <<phase, session, original, output, cursor, notices, hits, spots>>
  BY <1>1 DEF SessionFake, EngineTypeOK, EngineShape
<1>4. f \in Fakes /\ f \in Seq(Bytes) /\ Len(f) > 0
  BY <1>3, EngineAssumption
<1>5. /\ IsMap(sessionMap') /\ MutuallyInverse(sessionMap') /\ Generated(sessionMap')
      /\ RestoreResult(sessionMap, f, 0) \in SUBSET Reals
  <2>1. /\ IsMap(Restore(sessionMap, f, 0)) /\ MutuallyInverse(Restore(sessionMap, f, 0))
        /\ DOMAIN Restore(sessionMap, f, 0).byFake \subseteq DOMAIN sessionMap.byFake
        /\ \A g \in DOMAIN Restore(sessionMap, f, 0).byFake :
              Restore(sessionMap, f, 0).byFake[g].real = sessionMap.byFake[g].real
        /\ RestoreResult(sessionMap, f, 0) \in SUBSET Reals
    <3>1. IsMap(sessionMap) /\ MutuallyInverse(sessionMap) /\ 0 \in Nat
      BY <1>1 DEF EngineTypeOK, EngineShape
    <3> QED
      BY <1>4, <3>1, RestoreMap
  <2>2. Generated(sessionMap)
    BY <1>1 DEF EngineShape
  <2> QED
    BY <1>2, <2>1, <2>2 DEF Generated
<1>6. input' \in Seq(Bytes)
  <2>1. CASE RestoreResult(sessionMap, f, 0) = {}
    BY <1>2, <1>3, <2>1
  <2>2. CASE RestoreResult(sessionMap, f, 0) # {}
    <3> DEFINE r == CHOOSE r \in RestoreResult(sessionMap, f, 0) : TRUE
    <3>1. r \in Registered
      BY <1>5, <2>2 DEF Registered
    <3> HIDE DEF r
    <3>2. Value[r] \in Seq(Bytes)
      BY <3>1, ValueTexts
    <3>3. ReplaceAll(input, f, Value[r]) \in Seq(Bytes)
      BY <1>3, <1>4, <3>2, ReplacedTexts
    <3> QED
      BY <1>2, <2>2, <3>3 DEF r
  <2> QED
    BY <2>1, <2>2
<1>7. EngineTypeOK'
  <2>1. Len(input') \in Nat
    BY <1>6
  <2>2. cursor' \in 0..Len(input')
    BY <1>3, <2>1
  <2> QED
    BY <1>1, <1>2, <1>3, <1>5, <2>2 DEF EngineTypeOK
<1>8. EngineShape'
  BY <1>1, <1>3, <1>5, <1>6 DEF EngineShape
<1> QED
  BY <1>7, <1>8 DEF EngineInv

\* And trying a window.
LEMMA TryWindowTypes ==
    ASSUME EngineInv, TryWindow PROVE EngineInv'
<1>1. EngineTypeOK /\ EngineShape
  BY DEF EngineInv
<1> DEFINE n == Len(input)
<1>2. /\ phase = "windows" /\ pending # {} /\ input \in Seq(Bytes) /\ output \in Seq(Bytes)
      /\ cursor \in 0..n /\ pending \in SUBSET ((1..n) \X (1..n)) /\ n \in Nat
      /\ UNCHANGED <<phase, session, original, input, sessionMap, notices, hits, spots>>
  BY <1>1 DEF TryWindow, EngineTypeOK, EngineShape
<1>3. First(pending) \in pending
  BY <1>2, FirstFound
<1>4. PICK w \in (1..n) \X (1..n) : w = First(pending)
  BY <1>2, <1>3
<1> DEFINE c == SubSeq(input, w[1], w[2])
           d == IF Decrypts(c) # {} THEN Value[CHOOSE r \in Decrypts(c) : TRUE] ELSE c
<1>5. /\ pending' = pending \ {w}
      /\ \/ UNCHANGED <<output, cursor>>
         \/ /\ cursor' = w[2]
            /\ output' = output \o SubSeq(input, cursor + 1, w[1] - 1) \o d
  BY <1>4 DEF TryWindow
<1>6. \A i \in Nat, j \in Nat : 1 <= i /\ j <= n => SubSeq(input, i, j) \in Seq(Bytes)
  <2> SUFFICES ASSUME NEW i \in Nat, NEW j \in Nat, 1 <= i, j <= n
               PROVE  SubSeq(input, i, j) \in Seq(Bytes)
    OBVIOUS
  <2>1. \A k \in i..j : input[k] \in Bytes
    BY <1>2
  <2> QED
    BY <1>2, <2>1, SubSeqProperties
<1>7. d \in Seq(Bytes)
  <2>1. c \in Seq(Bytes)
    BY <1>2, <1>4, <1>6
  <2>2. Decrypts(c) # {} => Value[CHOOSE r \in Decrypts(c) : TRUE] \in Seq(Bytes)
    <3> DEFINE r == CHOOSE r \in Decrypts(c) : TRUE
    <3> SUFFICES ASSUME Decrypts(c) # {} PROVE Value[r] \in Seq(Bytes)
      OBVIOUS
    <3>1. r \in Registered
      BY DEF Decrypts, Registered
    <3> HIDE DEF r
    <3> QED
      BY <3>1, ValueTexts
  <2> QED
    BY <2>1, <2>2
<1> HIDE DEF d, c
<1>8. output' \in Seq(Bytes) /\ cursor' \in 0..n
  <2>1. w[1] \in 1..n /\ w[2] \in 1..n
    BY <1>4
  <2>2. SubSeq(input, cursor + 1, w[1] - 1) \in Seq(Bytes)
    BY <1>2, <1>6, <2>1
  <2>3. output \o SubSeq(input, cursor + 1, w[1] - 1) \o d \in Seq(Bytes)
    BY <1>2, <1>7, <2>2, ConcatProperties
  <2>4. output' \in Seq(Bytes)
    BY <1>2, <1>5, <2>3
  <2>5. cursor' = cursor \/ cursor' = w[2]
    BY <1>5
  <2> HIDE DEF n
  <2>6. cursor' \in 0..n
    BY <1>2, <2>1, <2>5
  <2> QED
    BY <2>4, <2>6
<1>9. EngineTypeOK'
  BY <1>1, <1>2, <1>5, <1>8 DEF EngineTypeOK
<1>10. EngineShape'
  BY <1>1, <1>2, <1>8 DEF EngineShape
<1> QED
  BY <1>9, <1>10 DEF EngineInv

\* Every step keeps it.
LEMMA EngineInvStep ==
    ASSUME EngineInv, [EngineNext]_engineVars PROVE EngineInv'
<1>1. EngineTypeOK /\ EngineShape
  BY DEF EngineInv
<1>2. input \in Seq(Bytes) /\ output \in Seq(Bytes) /\ cursor \in 0..Len(input) /\ Len(input) \in Nat
  BY <1>1 DEF EngineTypeOK, EngineShape
<1>3. CASE Begin
  <2>1. /\ phase = "idle" /\ input' \in Texts /\ session' \in BOOLEAN /\ phase' = "scrub"
        /\ UNCHANGED <<output, cursor, sessionMap, notices, hits, spots, pending>>
    BY <1>3 DEF Begin
  <2>2. input' \in Seq(Bytes) /\ cursor = 0 /\ output = <<>>
    BY <1>1, <2>1, EngineAssumption DEF EngineShape
  <2>3. cursor' \in 0..Len(input')
    BY <2>1, <2>2
  <2>4. EngineTypeOK'
    BY <1>1, <2>1, <2>3 DEF EngineTypeOK
  <2>5. EngineShape'
    BY <1>1, <2>1, <2>2 DEF EngineShape
  <2> QED
    BY <2>4, <2>5 DEF EngineInv
<1>4. CASE ScrubMatch
  BY <1>4, ScrubMatchTypes
<1>5. CASE ScrubRest
  <2>1. SubSeq(input, cursor + 1, Len(input)) \in Seq(Bytes)
    <3>1. \A k \in (cursor + 1)..Len(input) : input[k] \in Bytes
      BY <1>2
    <3> QED
      BY <1>2, <3>1, SubSeqProperties
  <2>2. output' \in Seq(Bytes)
    BY <1>2, <1>5, <2>1, ConcatProperties DEF ScrubRest
  <2>3. cursor' = 0 /\ phase' = "scrubbed" /\ UNCHANGED <<session, original, input, sessionMap, notices, hits, spots, pending>>
    BY <1>5 DEF ScrubRest
  <2>4. EngineTypeOK'
    BY <1>1, <1>2, <2>3 DEF EngineTypeOK
  <2>5. EngineShape'
    BY <1>1, <2>2, <2>3 DEF EngineShape
  <2> QED
    BY <2>4, <2>5 DEF EngineInv
<1>6. CASE Paste
  <2>1. /\ input' = output /\ output' = <<>> /\ phase' \in {"session", "collect"} /\ cursor = 0
        /\ pending' \subseteq DOMAIN sessionMap.byFake
        /\ UNCHANGED <<session, original, cursor, sessionMap, notices, hits, spots>>
    BY <1>1, <1>6 DEF Paste, EngineShape
  <2>2. pending' \subseteq Fakes
    BY <1>1, <2>1 DEF EngineTypeOK, IsMap
  <2>3. cursor' \in 0..Len(input')
    BY <1>2, <2>1
  <2>4. EngineTypeOK'
    BY <1>1, <2>1, <2>2, <2>3 DEF EngineTypeOK
  <2>5. EngineShape'
    BY <1>1, <1>2, <2>1 DEF EngineShape
  <2> QED
    BY <2>4, <2>5 DEF EngineInv
<1>7. CASE SessionFake
  BY <1>7, SessionFakeTypes
<1>8. CASE SessionDone
  BY <1>1, <1>8 DEF SessionDone, EngineInv, EngineTypeOK, EngineShape
<1>9. CASE Collect
  <2>1. /\ phase = "collect" /\ phase' \in {"panicked", "windows"}
        /\ phase' = "windows" => pending' = Windows
        /\ UNCHANGED <<session, original, input, output, cursor, sessionMap, notices, hits, spots>>
    BY <1>9 DEF Collect
  <2>2. Windows \subseteq (1..Len(input)) \X (1..Len(input))
    BY DEF Windows
  <2> HIDE DEF Windows
  <2>3. EngineTypeOK'
    BY <1>1, <2>1, <2>2 DEF EngineTypeOK
  <2>4. EngineShape'
    BY <1>1, <2>1 DEF EngineShape
  <2> QED
    BY <2>3, <2>4 DEF EngineInv
<1>10. CASE TryWindow
  BY <1>10, TryWindowTypes
<1>11. CASE RestoreRest
  <2>1. SubSeq(input, cursor + 1, Len(input)) \in Seq(Bytes)
    <3>1. \A k \in (cursor + 1)..Len(input) : input[k] \in Bytes
      BY <1>2
    <3> QED
      BY <1>2, <3>1, SubSeqProperties
  <2>2. output' \in Seq(Bytes)
    BY <1>2, <1>11, <2>1, ConcatProperties DEF RestoreRest
  <2>3. phase' = "restored" /\ UNCHANGED <<session, original, input, cursor, sessionMap, notices, hits, spots, pending>>
    BY <1>11 DEF RestoreRest
  <2>4. EngineTypeOK'
    BY <1>1, <2>3 DEF EngineTypeOK
  <2>5. EngineShape'
    BY <1>1, <2>2, <2>3 DEF EngineShape
  <2> QED
    BY <2>4, <2>5 DEF EngineInv
<1>12. CASE UNCHANGED engineVars
  BY <1>1, <1>12 DEF engineVars, EngineInv, EngineTypeOK, EngineShape
<1> QED
  BY <1>3, <1>4, <1>5, <1>6, <1>7, <1>8, <1>9, <1>10, <1>11, <1>12 DEF EngineNext

\* So it always holds.
LEMMA EngineInvAlways == EngineSpec => []EngineInv
<1>1. EngineInv /\ [EngineNext]_engineVars => EngineInv'
  BY EngineInvStep
<1> QED
  BY <1>1, EngineInvInit, PTL DEF EngineSpec

-----------------------------------------------------------------------------
(* Where unrestorability can be silent.                                    *)

\* The session map holds what was replaced.
FromHits(m, H) == \A f \in DOMAIN m.byFake : m.byFake[f].real \in H

\* A replaced match is restorable, or was reported, or lost its fake to
\* another one, or there are more than the session holds.
AccountedFor(r) ==
    \/ r \in notices
    \/ <<FakeOf[r], r>> \in Entries(sessionMap)
    \/ \E q \in hits \cap Reals : q # r /\ FakeOf[q] = FakeOf[r]
    \/ Cardinality(hits \cap Storable) > MaxEntries

Accounted ==
    /\ phase \in {"idle", "scrub", "scrubbed"} => FromHits(sessionMap, hits)
    /\ phase \in {"scrub", "scrubbed"} => \A r \in hits \ (Fpe \ Broken) : AccountedFor(r)

\* A map that lacks a value and has no room for it holds as many others.
LEMMA NoRoom ==
    ASSUME NEW m, IsMap(m), MutuallyInverse(m), Generated(m), NEW H, IsFiniteSet(H),
           FromHits(m, H), NEW r \in Storable, r \notin DOMAIN m.byReal,
           Size(m) >= MaxEntries
    PROVE  Cardinality((H \cup {r}) \cap Storable) > MaxEntries
<1> DEFINE D == DOMAIN m.byFake
           S == (H \cup {r}) \cap Storable
           R == S \ {r}
           g == [f \in D |-> m.byFake[f].real]
<1>1. IsFiniteSet(S) /\ Cardinality(S) \in Nat
  <2>1. IsFiniteSet(H \cup {r})
    BY FS_AddElement
  <2>2. S \subseteq H \cup {r}
    OBVIOUS
  <2> HIDE DEF S
  <2> QED
    BY <2>1, <2>2, FS_Subset, FS_CardinalityType
<1>2. r \in S
  OBVIOUS
<1>3. ASSUME NEW f \in D PROVE m.byFake[f].real \in R
  <2>1. f \in Fakes /\ m.byFake[f].real \in Reals /\ m.byFake[f].real \in DOMAIN m.byReal
    BY DEF IsMap, MutuallyInverse, Entry
  <2>2. FakeOf[m.byFake[f].real] = f /\ m.byFake[f].real \in H
    BY DEF Generated, FromHits
  <2>3. m.byFake[f].real # r
    BY <2>1
  <2>4. m.byFake[f].real \in Storable
    BY <2>1, <2>2, EngineAssumption DEF Storable
  <2> QED
    BY <2>2, <2>3, <2>4
<1>4. \A f, h \in D : g[f] = g[h] => f = h
  BY DEF MutuallyInverse
<1>5. g \in Injection(D, R)
  BY <1>3, <1>4 DEF Injection, IsInjective
<1> HIDE DEF S
<1>6. IsFiniteSet(R) /\ Cardinality(R) = Cardinality(S) - 1
  BY <1>1, <1>2, RemoveOne
<1> HIDE DEF D, R, g
<1>7. IsFiniteSet(D) /\ Cardinality(D) <= Cardinality(R) /\ Cardinality(D) \in Nat
  BY <1>5, <1>6, FS_Injection, FS_CardinalityType
<1>8. Cardinality(D) >= MaxEntries
  BY DEF Size, D
<1> QED
  BY <1>1, <1>6, <1>7, <1>8, BoundsAssumption DEF S

\* Storing a pair loses another only to a collision or for want of room:
\* nothing is old enough to expire.
LEMMA StoreLoses ==
    ASSUME NEW m, IsMap(m), MutuallyInverse(m), Generated(m), NEW H, IsFiniteSet(H),
           FromHits(m, H), NEW r \in Storable, NEW o \in GetOrInsert(m, r, FakeOf[r], 0)
    PROVE  /\ FromHits(o.map, H \cup {r})
           /\ \A q : <<FakeOf[q], q>> \in Entries(m) =>
                 \/ <<FakeOf[q], q>> \in Entries(o.map)
                 \/ FakeOf[r] = FakeOf[q] /\ q # r
                 \/ Cardinality((H \cup {r}) \cap Storable) > MaxEntries
<1>1. /\ r \in Reals /\ FakeOf[r] # NoneMade
      /\ FakeOf[r] \in Fakes /\ o.fake = FakeOf[r] /\ 0 \in Nat
  BY GeneratedGet DEF Storable
<1>2. Expired(m, 0) = {}
  <2>1. ASSUME NEW f \in DOMAIN m.byFake PROVE ~(0 > m.byFake[f].touched + Ttl)
    <3>1. m.byFake[f].touched \in Nat
      BY DEF IsMap, Entry
    <3> QED
      BY <3>1, BoundsAssumption
  <2> QED
    BY <2>1 DEF Expired
<1> DEFINE p == Prune(m, 0)
<1>3. /\ IsMap(p) /\ MutuallyInverse(p) /\ DOMAIN p.byFake \subseteq DOMAIN m.byFake
      /\ \A f \in DOMAIN p.byFake : p.byFake[f] = m.byFake[f]
  BY <1>1, PruneMap
<1>4. Generated(p) /\ FromHits(p, H)
  BY <1>3 DEF Generated, FromHits
<1> HIDE DEF p
<1>5. r \notin DOMAIN p.byReal /\ Size(p) >= MaxEntries
      => Cardinality((H \cup {r}) \cap Storable) > MaxEntries
  BY <1>3, <1>4, NoRoom
<1>6. FromHits(o.map, H \cup {r})
  <2>1. /\ o.map.byFake[o.fake] = [real |-> r, touched |-> 0]
        /\ \A f \in DOMAIN o.map.byFake \ {o.fake} :
              f \in DOMAIN m.byFake /\ o.map.byFake[f].real = m.byFake[f].real
    BY <1>1, GetOrInsertMap
  <2>2. o.map.byFake[o.fake].real = r
    BY <2>1
  <2> QED
    BY <2>1, <2>2 DEF FromHits
<1>7. ASSUME NEW q, <<FakeOf[q], q>> \in Entries(m)
      PROVE  \/ <<FakeOf[q], q>> \in Entries(o.map)
             \/ FakeOf[r] = FakeOf[q] /\ q # r
             \/ Cardinality((H \cup {r}) \cap Storable) > MaxEntries
  <2>1. PICK f \in DOMAIN m.byFake : f = FakeOf[q] /\ m.byFake[f].real = q
    BY <1>7 DEF Entries
  <2>2. \/ f \in DOMAIN o.map.byFake /\ o.map.byFake[f].real = m.byFake[f].real
        \/ f = o.fake /\ r # m.byFake[f].real
        \/ Size(Prune(m, 0)) >= MaxEntries /\ r \notin DOMAIN Prune(m, 0).byReal
    BY <1>1, <1>2, GetKeepsLive
  <2>3. CASE f \in DOMAIN o.map.byFake /\ o.map.byFake[f].real = m.byFake[f].real
    BY <2>1, <2>3 DEF Entries
  <2>4. CASE f = o.fake /\ r # m.byFake[f].real
    BY <1>1, <2>1, <2>4
  <2>5. CASE Size(Prune(m, 0)) >= MaxEntries /\ r \notin DOMAIN Prune(m, 0).byReal
    BY <1>5, <2>5 DEF p
  <2> QED
    BY <2>2, <2>3, <2>4, <2>5
<1> QED
  BY <1>6, <1>7

\* Replacing a match keeps the account.
LEMMA ScrubMatchAccounts ==
    ASSUME EngineInv, Accounted, ScrubMatch PROVE Accounted'
<1>1. PICK r \in LongestOf(At(NextMatch)) :
          /\ sessionMap' \in Stored(r)
          /\ notices' = notices \cup Notices(r)
          /\ hits' = hits \cup {r}
  BY DEF ScrubMatch
<1>2. phase = "scrub" /\ phase' = phase /\ session' = session
  BY DEF ScrubMatch
<1>3. /\ IsMap(sessionMap) /\ MutuallyInverse(sessionMap) /\ Generated(sessionMap)
      /\ IsFiniteSet(hits) /\ FromHits(sessionMap, hits)
  BY <1>2 DEF EngineInv, EngineTypeOK, EngineShape, Accounted
<1>4. r \in Registered
  BY DEF LongestOf, At
<1> DEFINE Many == Cardinality(hits' \cap Storable) > MaxEntries
<1>5. Cardinality(hits \cap Storable) > MaxEntries => Many
  <2>1. IsFiniteSet(hits')
    BY <1>1, <1>3, FS_AddElement
  <2>2. IsFiniteSet(hits' \cap Storable) /\ hits \cap Storable \subseteq hits' \cap Storable
    BY <1>1, <2>1, FS_Subset
  <2> DEFINE A == hits \cap Storable
             B == hits' \cap Storable
  <2> HIDE DEF A, B
  <2>3. Cardinality(A) <= Cardinality(B) /\ Cardinality(A) \in Nat /\ Cardinality(B) \in Nat
    BY <2>2, FS_Subset, FS_CardinalityType DEF A, B
  <2>4. Cardinality(A) > MaxEntries => Cardinality(B) > MaxEntries
    BY <2>3, BoundsAssumption
  <2> QED
    BY <2>4 DEF A, B
<1>6. /\ FromHits(sessionMap', hits')
      /\ \A q : <<FakeOf[q], q>> \in Entries(sessionMap) =>
            \/ <<FakeOf[q], q>> \in Entries(sessionMap')
            \/ r \in Reals /\ FakeOf[r] = FakeOf[q] /\ q # r
            \/ Many
      /\ session /\ r \in Storable => <<FakeOf[r], r>> \in Entries(sessionMap')
  <2>1. CASE session /\ r \in Storable
    <3>1. PICK o \in GetOrInsert(sessionMap, r, FakeOf[r], 0) : sessionMap' = o.map
      BY <1>1, <2>1 DEF Stored, Storable
    <3>2. /\ FromHits(o.map, hits \cup {r})
          /\ \A q : <<FakeOf[q], q>> \in Entries(sessionMap) =>
                \/ <<FakeOf[q], q>> \in Entries(o.map)
                \/ FakeOf[r] = FakeOf[q] /\ q # r
                \/ Cardinality((hits \cup {r}) \cap Storable) > MaxEntries
      BY <1>3, <2>1, StoreLoses
    <3>3. <<FakeOf[r], r>> \in Entries(o.map) /\ r \in Reals
      BY <1>3, <2>1, GeneratedGet DEF Storable
    <3> QED
      BY <1>1, <3>1, <3>2, <3>3
  <2>2. CASE ~(session /\ r \in Storable)
    <3>1. sessionMap' = sessionMap
      BY <1>1, <2>2 DEF Stored, Storable
    <3> QED
      BY <1>1, <1>3, <2>2, <3>1 DEF FromHits
  <2> QED
    BY <2>1, <2>2
<1>7. r \in Fpe \ Broken \/ r \in notices' \/ <<FakeOf[r], r>> \in Entries(sessionMap')
  BY <1>1, <1>4, <1>6 DEF Notices, Registered, Storable
<1>8. ASSUME NEW q \in hits \ (Fpe \ Broken)
      PROVE  \/ q \in notices'
             \/ <<FakeOf[q], q>> \in Entries(sessionMap')
             \/ \E s \in hits' \cap Reals : s # q /\ FakeOf[s] = FakeOf[q]
             \/ Many
  <2>1. \/ q \in notices
        \/ <<FakeOf[q], q>> \in Entries(sessionMap)
        \/ \E s \in hits \cap Reals : s # q /\ FakeOf[s] = FakeOf[q]
        \/ Cardinality(hits \cap Storable) > MaxEntries
    BY <1>2 DEF Accounted, AccountedFor
  <2> HIDE DEF Many
  <2> QED
    BY <1>1, <1>5, <1>6, <2>1
<1>9. \A q \in hits' \ (Fpe \ Broken) :
          \/ q \in notices'
          \/ <<FakeOf[q], q>> \in Entries(sessionMap')
          \/ \E s \in hits' \cap Reals : s # q /\ FakeOf[s] = FakeOf[q]
          \/ Many
  <2> HIDE DEF Many
  <2> QED
    BY <1>1, <1>7, <1>8
<1> QED
  BY <1>6, <1>9 DEF Accounted, AccountedFor

\* NeverSilent: of the values that FF1 cannot restore, each one that scrub_impl
\* replaced has a notice or is in the session map under the fake that was
\* emitted, unless another one has the same fake or the text holds more of
\* them than the session has room for: for every text and every generator.
THEOREM EngineNeverSilent == EngineSpec => []NeverSilent
<1>1. EngineInit => Accounted
  BY DEF EngineInit, Accounted, FromHits, EmptyMap
<1>2. ASSUME EngineInv, Accounted, [EngineNext]_engineVars PROVE Accounted'
  <2>1. CASE ScrubMatch
    BY <1>2, <2>1, ScrubMatchAccounts
  <2>2. CASE Begin
    <3>1. hits' = {} /\ hits = {} /\ sessionMap' = sessionMap /\ phase = "idle"
      BY <1>2, <2>2 DEF Begin, EngineInv, EngineShape
    <3> QED
      BY <1>2, <3>1 DEF Accounted, FromHits
  <2>3. CASE ScrubRest
    BY <1>2, <2>3 DEF ScrubRest, Accounted, AccountedFor, FromHits
  <2>4. CASE Paste \/ SessionFake \/ SessionDone \/ Collect \/ TryWindow \/ RestoreRest
    <3>1. phase' \notin {"idle", "scrub", "scrubbed"}
      BY <2>4 DEF Paste, SessionFake, SessionDone, Collect, TryWindow, RestoreRest
    <3> QED
      BY <3>1 DEF Accounted
  <2>5. CASE UNCHANGED engineVars
    BY <1>2, <2>5 DEF engineVars, Accounted, AccountedFor, FromHits
  <2> QED
    BY <1>2, <2>1, <2>2, <2>3, <2>4, <2>5 DEF EngineNext
<1>3. EngineInv /\ Accounted => NeverSilent
  BY DEF EngineInv, Accounted, AccountedFor, NeverSilent
<1> QED
  BY <1>1, <1>2, <1>3, EngineInvAlways, PTL DEF EngineSpec

-----------------------------------------------------------------------------
(* No registered value passes through.                                     *)

\* No value is its own fake.
NoFixpoint == \A r \in Registered : Replacement(r) # Value[r]

Clean(t) == \A q \in Registered : ~Occurs(t, Value[q])

\* Byte k belongs to one of the replacements S.
Covered(S, k) ==
    \E spot \in S :
        /\ Replacement(spot[2]) # Value[spot[2]]
        /\ k \in spot[1]..(spot[1] + Len(Replacement(spot[2])) - 1)

\* A value is in the text only where it shares a byte with a replacement.
Guarded(t, S) ==
    \A q \in Registered : \A i \in 1..Len(t) :
        OccursAt(t, Value[q], i) => \E k \in i..(i + Len(Value[q]) - 1) : Covered(S, k)

\* The text ends with a replacement, or is empty.
EndsCovered(t, S) == t = <<>> \/ Covered(S, Len(t))

\* What occurs in a part occurs in the whole, and the other way round.
LEMMA OccursInPart ==
    ASSUME NEW t \in Seq(Bytes), NEW p \in Seq(Bytes), NEW d \in Nat,
           d + Len(p) <= Len(t), \A i \in 1..Len(p) : p[i] = t[d + i],
           NEW s \in Seq(Bytes), NEW i \in Nat \ {0}
    PROVE  /\ OccursAt(p, s, i) => OccursAt(t, s, d + i)
           /\ i + Len(s) - 1 <= Len(p) /\ OccursAt(t, s, d + i) => OccursAt(p, s, i)
<1>1. PICK n \in Nat, m \in Nat, l \in Nat : n = Len(t) /\ m = Len(p) /\ l = Len(s)
  OBVIOUS
<1>2. \A k \in 1..l : i + l - 1 <= m => i + k - 1 \in 1..m /\ d + (i + k - 1) = d + i + k - 1
  OBVIOUS
<1>3. \A k \in 1..l : i + l - 1 <= m => p[i + k - 1] = t[d + i + k - 1]
  <2> SUFFICES ASSUME NEW k \in 1..l, i + l - 1 <= m PROVE p[i + k - 1] = t[d + i + k - 1]
    OBVIOUS
  <2>1. PICK j \in 1..m : j = i + k - 1 /\ d + j = d + i + k - 1
    BY <1>2
  <2>2. p[j] = t[d + j]
    BY <1>1
  <2> QED
    BY <2>1, <2>2
<1>4. i + l - 1 <= m => d + i + l - 1 <= n
  BY <1>1
<1> QED
  BY <1>1, <1>3, <1>4 DEF OccursAt

\* The heart of it: a guarded text that ends with a replacement, a clean part
\* of the input behind it and one more replacement make a guarded text.
LEMMA GuardedAppend ==
    ASSUME NEW t \in Seq(Bytes), NEW S, NEW U, S \subseteq U, Guarded(t, S), EndsCovered(t, S),
           NEW gap \in Seq(Bytes), Clean(gap), NEW tail \in Seq(Bytes),
           \A k \in 1..Len(tail) : Covered(U, Len(t) + Len(gap) + k)
    PROVE  /\ Guarded(t \o gap \o tail, U)
           /\ tail # <<>> => EndsCovered(t \o gap \o tail, U)
<1>1. PICK w \in Seq(Bytes) : w = t \o gap \o tail
  BY ConcatProperties
<1>2. PICK a \in Nat, b \in Nat, c \in Nat : a = Len(t) /\ b = Len(gap) /\ c = Len(tail)
  OBVIOUS
<1>3. /\ Len(w) = a + b + c
      /\ \A i \in 1..a : w[i] = t[i]
      /\ \A i \in 1..b : w[a + i] = gap[i]
      /\ \A i \in 1..c : w[a + b + i] = tail[i]
  BY <1>1, <1>2
<1>4. \A k : Covered(S, k) => Covered(U, k)
  BY DEF Covered
<1>5. tail # <<>> => EndsCovered(w, U)
  <2> SUFFICES ASSUME tail # <<>> PROVE EndsCovered(w, U)
    OBVIOUS
  <2>1. c \in 1..c
    BY <1>2
  <2>2. Covered(U, a + b + c)
    BY <1>2, <2>1
  <2> QED
    BY <1>3, <2>2 DEF EndsCovered
<1>6. ASSUME NEW q \in Registered, NEW i \in 1..Len(w), OccursAt(w, Value[q], i)
      PROVE  \E k \in i..(i + Len(Value[q]) - 1) : Covered(U, k)
  <2>1. PICK v \in Seq(Bytes), n \in Nat \ {0} : v = Value[q] /\ n = Len(v)
    BY ValueTexts
  <2>2. i + n - 1 <= a + b + c /\ i \in Nat \ {0}
    BY <1>3, <1>6, <2>1 DEF OccursAt
  <2> SUFFICES \E k \in i..(i + n - 1) : Covered(U, k)
    BY <2>1
  <2>3. CASE i + n - 1 <= a
    <3>1. 0 + Len(t) <= Len(w) /\ \A k \in 1..Len(t) : t[k] = w[0 + k]
      <4>1. 0 + a <= a + b + c /\ \A k \in 1..a : 0 + k = k
        OBVIOUS
      <4> QED
        BY <1>2, <1>3, <4>1
    <3>2. 0 + i = i /\ i \in 1..a
      BY <2>2, <2>3
    <3>3. OccursAt(w, v, 0 + i)
      BY <1>6, <2>1, <3>2
    <3>4. OccursAt(t, v, i)
      <4>1. i + Len(v) - 1 <= Len(t)
        BY <1>2, <2>1, <2>3
      <4> QED
        BY <2>2, <3>1, <3>3, <4>1, OccursInPart
    <3>5. \E k \in i..(i + n - 1) : Covered(S, k)
      BY <1>2, <2>1, <3>2, <3>4 DEF Guarded
    <3> QED
      BY <1>4, <3>5
  <2>4. CASE i <= a /\ a < i + n - 1
    <3>1. t # <<>> /\ a \in i..(i + n - 1)
      BY <1>2, <2>2, <2>4
    <3>2. Covered(S, a)
      BY <1>2, <3>1 DEF EndsCovered
    <3> QED
      BY <1>4, <3>1, <3>2
  <2>5. CASE a < i /\ i + n - 1 <= a + b
    <3>1. PICK j \in Nat \ {0} : i = a + j
      <4>1. i - a \in Nat \ {0} /\ i = a + (i - a)
        BY <2>2, <2>5
      <4> QED
        BY <4>1
    <3>2. a + Len(gap) <= Len(w) /\ \A k \in 1..Len(gap) : gap[k] = w[a + k]
      BY <1>2, <1>3
    <3>3. j + n - 1 <= b /\ j \in 1..b
      BY <2>5, <3>1
    <3>4. OccursAt(gap, v, j)
      BY <1>2, <1>6, <2>1, <3>1, <3>2, <3>3, OccursInPart
    <3> QED
      BY <1>2, <2>1, <3>3, <3>4 DEF Clean, Occurs
  <2>6. CASE a + b < i + n - 1 /\ a < i
    <3>1. PICK j \in 1..c : a + b + j = i + n - 1
      <4>1. i + n - 1 - (a + b) \in 1..c /\ a + b + (i + n - 1 - (a + b)) = i + n - 1
        BY <2>2, <2>6
      <4> QED
        BY <4>1
    <3>2. Covered(U, a + b + j)
      BY <1>2
    <3>3. a + b + j \in i..(i + n - 1)
      BY <2>2, <3>1
    <3> QED
      BY <3>2, <3>3
  <2> QED
    BY <2>2, <2>3, <2>4, <2>5, <2>6
<1>7. Guarded(w, U)
  BY <1>6 DEF Guarded
<1> QED
  BY <1>1, <1>5, <1>7

\* A part of the input that ends before the next match is clean.
LEMMA GapClean ==
    ASSUME input \in Seq(Bytes), cursor \in 0..Len(input), NEW e \in 0..Len(input), cursor <= e,
           \A j \in (cursor + 1)..Len(input) : At(j) # {} => e < j
    PROVE  SubSeq(input, cursor + 1, e) \in Seq(Bytes) /\ Clean(SubSeq(input, cursor + 1, e))
<1>1. \A k \in (cursor + 1)..e : input[k] \in Bytes
  OBVIOUS
<1>2. cursor + 1 \in Int /\ e \in Int
  OBVIOUS
<1>3. SubSeq(input, cursor + 1, e) \in Seq(Bytes)
  BY <1>1, <1>2, SubSeqProperties, ZenonT(30)
<1>4. PICK gap \in Seq(Bytes) : gap = SubSeq(input, cursor + 1, e)
  BY <1>3
<1>5. /\ Len(gap) = e - cursor
      /\ \A i \in 1..Len(gap) : gap[i] = input[cursor + i]
  <2>1. /\ Len(gap) = IF cursor + 1 <= e THEN e - (cursor + 1) + 1 ELSE 0
        /\ \A i \in 1..(e - (cursor + 1) + 1) : gap[i] = input[cursor + 1 + i - 1]
    BY <1>1, <1>4, SubSeqProperties
  <2>2. Len(gap) = e - cursor /\ e - (cursor + 1) + 1 = e - cursor
    BY <2>1
  <2>3. \A i \in 1..Len(gap) : cursor + 1 + i - 1 = cursor + i
    BY <2>2
  <2> QED
    BY <2>1, <2>2, <2>3
<1>6. ASSUME NEW q \in Registered, NEW i \in 1..Len(gap), OccursAt(gap, Value[q], i) PROVE FALSE
  <2>1. Value[q] \in Seq(Bytes)
    BY ValueTexts
  <2>2. cursor + Len(gap) <= Len(input) /\ i \in Nat \ {0} /\ cursor \in Nat
    BY <1>5
  <2>3. OccursAt(input, Value[q], cursor + i)
    BY <1>5, <1>6, <2>1, <2>2, OccursInPart
  <2>4. cursor + i \in (cursor + 1)..Len(input) /\ cursor + i <= e
    BY <1>5, <2>2
  <2>5. At(cursor + i) # {}
    BY <2>3 DEF At
  <2> QED
    BY <2>4, <2>5
<1> QED
  BY <1>4, <1>6 DEF Clean, Occurs

\* The bytes of a part of a text.
LEMMA PartBytes ==
    ASSUME NEW t \in Seq(Bytes), NEW a \in Nat, NEW b \in Nat, 1 <= a, a <= b + 1, b <= Len(t)
    PROVE  /\ SubSeq(t, a, b) \in Seq(Bytes)
           /\ Len(SubSeq(t, a, b)) = b - a + 1
           /\ \A k \in 1..(b - a + 1) : SubSeq(t, a, b)[k] = t[a + k - 1]
<1>1. \A k \in a..b : t[k] \in Bytes
  OBVIOUS
<1>2. SubSeq(t, a, b) \in Seq(Bytes)
  BY <1>1, SubSeqProperties
<1>3. Len(SubSeq(t, a, b)) = b - a + 1
  OBVIOUS
<1>4. \A k \in 1..(b - a + 1) : SubSeq(t, a, b)[k] = t[a + k - 1]
  OBVIOUS
<1> QED
  BY <1>2, <1>3, <1>4

ScrubGuarded ==
    /\ phase \in {"scrub", "scrubbed"} => Guarded(output, spots)
    /\ phase = "scrub" => EndsCovered(output, spots)

\* NoLeak: no registered value of the text passes through scrub_impl, also
\* where matches overlap or a tokenizer fails, when no value is its own fake:
\* whatever bytes fakes, values and texts share.
THEOREM EngineNoLeak ==
    ASSUME NoFixpoint PROVE EngineSpec => []NoLeak
<1>1. EngineInit => ScrubGuarded
  BY DEF EngineInit, ScrubGuarded
<1>2. ASSUME EngineInv, ScrubGuarded, [EngineNext]_engineVars PROVE ScrubGuarded'
  <2>1. /\ input \in Seq(Bytes) /\ output \in Seq(Bytes) /\ cursor \in 0..Len(input)
        /\ phase \in {"idle"} => output = <<>>
    BY <1>2 DEF EngineInv, EngineTypeOK, EngineShape
  <2>2. CASE Begin
    <3>1. phase' = "scrub" /\ output' = <<>>
      BY <2>1, <2>2, <1>2 DEF Begin
    <3>2. Guarded(<<>>, spots') /\ EndsCovered(<<>>, spots')
      BY DEF Guarded, EndsCovered
    <3> QED
      BY <3>1, <3>2 DEF ScrubGuarded, Guarded, EndsCovered, Covered
  <2>3. CASE ScrubMatch
    <3>1. PICK r \in LongestOf(At(NextMatch)) :
             /\ output' = output \o SubSeq(input, cursor + 1, NextMatch - 1) \o Replacement(r)
             /\ spots' = spots \cup {<<Len(output) + NextMatch - cursor, r>>}
      BY <2>3 DEF ScrubMatch
    <3>2. phase = "scrub" /\ phase' = "scrub" /\ MatchStarts # {}
      BY <2>3 DEF ScrubMatch
    <3>3. /\ r \in Registered /\ NextMatch \in (cursor + 1)..Len(input)
          /\ \A j \in (cursor + 1)..Len(input) : At(j) # {} => NextMatch <= j
      BY <2>1, <3>2, MatchFits, MatchFound
    <3>4. PICK e \in 0..Len(input) : e = NextMatch - 1 /\ cursor <= e
      <4>1. Len(input) \in Nat
        BY <2>1
      <4>2. NextMatch - 1 \in 0..Len(input) /\ cursor <= NextMatch - 1
        BY <2>1, <3>3, <4>1
      <4> QED
        BY <4>2
    <3>5. \A j \in (cursor + 1)..Len(input) : At(j) # {} => e < j
      BY <2>1, <3>3, <3>4
    <3> DEFINE gap == SubSeq(input, cursor + 1, e)
    <3>6. gap \in Seq(Bytes) /\ Clean(gap)
      BY <2>1, <3>4, <3>5, GapClean
    <3>7. Len(gap) = e - cursor
      <4>1. cursor + 1 \in Nat /\ e \in Nat /\ 1 <= cursor + 1 /\ cursor + 1 <= e + 1 /\ e <= Len(input)
        BY <2>1, <3>4
      <4>2. Len(gap) = e - (cursor + 1) + 1
        BY <2>1, <4>1, PartBytes
      <4> HIDE DEF gap
      <4> QED
        BY <2>1, <3>4, <4>2
    <3> HIDE DEF gap
    <3>8. PICK m \in Nat \ {0} : Replacement(r) \in Seq(Bytes) /\ m = Len(Replacement(r))
      BY <3>3, ReplacementTexts
    <3>9. ASSUME NEW k \in 1..m PROVE Covered(spots', Len(output) + Len(gap) + k)
      <4>1. PICK a \in Nat, s \in Nat : a = Len(output) + Len(gap) /\ s = a + 1
        BY <2>1, <3>6
      <4>2. Len(output) + NextMatch - cursor = s
        <5>1. Len(output) \in Nat /\ NextMatch = e + 1
          BY <2>1, <3>3, <3>4
        <5> QED
          BY <2>1, <3>4, <3>7, <4>1, <5>1
      <4>3. <<s, r>> \in spots' /\ <<s, r>>[1] = s /\ <<s, r>>[2] = r
        BY <3>1, <4>2
      <4>4. a + k \in s..(s + m - 1)
        BY <4>1
      <4>5. Replacement(r) # Value[r]
        BY <3>3 DEF NoFixpoint
      <4> QED
        BY <3>8, <4>1, <4>3, <4>4, <4>5 DEF Covered
    <3>10. Guarded(output, spots) /\ EndsCovered(output, spots) /\ spots \subseteq spots'
      BY <1>2, <3>1, <3>2 DEF ScrubGuarded
    <3> DEFINE w == output \o gap \o Replacement(r)
    <3>11. Guarded(w, spots') /\ EndsCovered(w, spots')
      <4>1. Replacement(r) # <<>>
        BY <3>8
      <4> QED
        BY <2>1, <3>6, <3>8, <3>9, <3>10, <4>1, GuardedAppend
    <3>12. output' = w
      BY <3>1, <3>4 DEF gap
    <3> HIDE DEF w
    <3>13. Guarded(output, spots)' /\ EndsCovered(output, spots)'
      BY <3>11, <3>12 DEF Guarded, EndsCovered, Covered
    <3> QED
      BY <3>13 DEF ScrubGuarded
  <2>4. CASE ScrubRest
    <3> DEFINE gap == SubSeq(input, cursor + 1, Len(input))
    <3>1. /\ phase = "scrub" /\ phase' = "scrubbed" /\ MatchStarts = {}
          /\ output' = output \o gap /\ spots' = spots
      BY <2>4 DEF ScrubRest
    <3>2. gap \in Seq(Bytes) /\ Clean(gap)
      <4>1. \A j \in (cursor + 1)..Len(input) : At(j) # {} => Len(input) < j
        BY <3>1 DEF MatchStarts
      <4>2. Len(input) \in 0..Len(input) /\ cursor <= Len(input)
        BY <2>1
      <4> QED
        BY <2>1, <4>1, <4>2, GapClean
    <3> HIDE DEF gap
    <3>3. Guarded(output, spots) /\ EndsCovered(output, spots) /\ <<>> \in Seq(Bytes) /\ Len(<<>>) = 0
      BY <1>2, <3>1 DEF ScrubGuarded
    <3>4. \A k \in 1..0 : Covered(spots, Len(output) + Len(gap) + k)
      OBVIOUS
    <3>5. Guarded(output \o gap \o <<>>, spots)
      BY <2>1, <3>2, <3>3, <3>4, GuardedAppend
    <3>6. output \o gap \o <<>> = output \o gap
      BY <2>1, <3>2
    <3>7. Guarded(output, spots)'
      BY <3>1, <3>5, <3>6 DEF Guarded, Covered
    <3> QED
      BY <3>1, <3>7 DEF ScrubGuarded
  <2>5. CASE Paste \/ SessionFake \/ SessionDone \/ Collect \/ TryWindow \/ RestoreRest
    <3>1. phase' \notin {"scrub", "scrubbed"}
      BY <2>5 DEF Paste, SessionFake, SessionDone, Collect, TryWindow, RestoreRest
    <3> QED
      BY <3>1 DEF ScrubGuarded
  <2>6. CASE UNCHANGED engineVars
    BY <1>2, <2>6 DEF engineVars, ScrubGuarded, Guarded, EndsCovered, Covered
  <2> QED
    BY <1>2, <2>2, <2>3, <2>4, <2>5, <2>6 DEF EngineNext
<1>3. ScrubGuarded => NoLeak
  BY DEF ScrubGuarded, Guarded, Covered, NoLeak, Made
<1> QED
  BY <1>1, <1>2, <1>3, EngineInvAlways, PTL DEF EngineSpec

-----------------------------------------------------------------------------
(* Restoring replaces fakes only.                                          *)

\* The bytes of three texts one after the other.
LEMMA ConcatBytes ==
    ASSUME NEW x \in Seq(Bytes), NEW s \in Seq(Bytes), NEW d \in Seq(Bytes)
    PROVE  /\ x \o s \o d \in Seq(Bytes) /\ Len(x \o s \o d) = Len(x) + Len(s) + Len(d)
           /\ \A i \in 1..Len(x) : (x \o s \o d)[i] = x[i]
           /\ \A i \in 1..Len(s) : (x \o s \o d)[Len(x) + i] = s[i]
           /\ \A i \in 1..Len(d) : (x \o s \o d)[Len(x) + Len(s) + i] = d[i]
<1>1. PICK w \in Seq(Bytes) : w = x \o s \o d
  BY ConcatProperties
<1>2. PICK a \in Nat, b \in Nat, c \in Nat : a = Len(x) /\ b = Len(s) /\ c = Len(d)
  OBVIOUS
<1>3. /\ Len(w) = a + b + c
      /\ \A i \in 1..a : w[i] = x[i]
      /\ \A i \in 1..b : w[a + i] = s[i]
      /\ \A i \in 1..c : w[a + b + i] = d[i]
  BY <1>1, <1>2
<1> QED
  BY <1>1, <1>2, <1>3

\* What was emitted, the input up to place a and a piece that ends at b.
Pasted(o, t, x, m, a, b, d) ==
    /\ o = x \o SubSeq(t, m + 1, a - 1) \o d
    /\ Len(o) = b
    /\ \A i \in 1..m : o[i] = x[i]
    /\ \A i \in (m + 1)..(a - 1) : o[i] = t[i]
    /\ \A k \in 1..Len(d) : o[a + k - 1] = d[k]

LEMMA PastedBytes ==
    ASSUME NEW t \in Seq(Bytes), NEW x \in Seq(Bytes), NEW d \in Seq(Bytes),
           NEW a \in Nat, NEW b \in Nat, NEW m \in Nat, m = Len(x),
           m < a, a <= b + 1, b <= Len(t), Len(d) = b - a + 1
    PROVE  \E o \in Seq(Bytes) : Pasted(o, t, x, m, a, b, d)
<1>1. PICK n \in Nat, l \in Nat : n = Len(t) /\ l = Len(d)
  OBVIOUS
<1>2. PICK c \in Nat, f \in Nat : c = m + 1 /\ f = a - 1
  <2>1. m + 1 \in Nat /\ a - 1 \in Nat
    OBVIOUS
  <2> QED
    BY <2>1
<1>3. PICK s \in Seq(Bytes) :
         /\ s = SubSeq(t, c, f) /\ Len(s) = f - c + 1
         /\ \A k \in 1..(f - c + 1) : s[k] = t[c + k - 1]
  <2>1. 1 <= c /\ c <= f + 1 /\ f <= Len(t)
    BY <1>1, <1>2
  <2>2. /\ SubSeq(t, c, f) \in Seq(Bytes) /\ Len(SubSeq(t, c, f)) = f - c + 1
        /\ \A k \in 1..(f - c + 1) : SubSeq(t, c, f)[k] = t[c + k - 1]
    BY <2>1, PartBytes
  <2> QED
    BY <2>2
<1>4. PICK e \in Nat : e = Len(s) /\ a = m + e + 1 /\ b = m + e + l /\ e = f - c + 1
  <2>1. f - c + 1 \in Nat /\ a = m + (f - c + 1) + 1 /\ b = m + (f - c + 1) + l
    BY <1>1, <1>2
  <2> QED
    BY <1>3, <2>1
<1>5. m + e = a - 1
  BY <1>4
<1>6. \A k \in 1..l : a + k - 1 = m + e + k
  BY <1>4
<1>7. m + e + l = b
  BY <1>4
<1>8. PICK o \in Seq(Bytes) :
         /\ o = x \o s \o d /\ Len(o) = m + e + l
         /\ \A i \in 1..m : o[i] = x[i]
         /\ \A i \in 1..e : o[m + i] = s[i]
         /\ \A i \in 1..l : o[m + e + i] = d[i]
  <2>1. /\ x \o s \o d \in Seq(Bytes) /\ Len(x \o s \o d) = Len(x) + Len(s) + Len(d)
        /\ \A i \in 1..Len(x) : (x \o s \o d)[i] = x[i]
        /\ \A i \in 1..Len(s) : (x \o s \o d)[Len(x) + i] = s[i]
        /\ \A i \in 1..Len(d) : (x \o s \o d)[Len(x) + Len(s) + i] = d[i]
    BY ConcatBytes
  <2>2. PICK o \in Seq(Bytes) : o = x \o s \o d
    BY <2>1
  <2>3. /\ Len(o) = Len(x) + Len(s) + Len(d)
        /\ \A i \in 1..Len(x) : o[i] = x[i]
        /\ \A i \in 1..Len(s) : o[Len(x) + i] = s[i]
        /\ \A i \in 1..Len(d) : o[Len(x) + Len(s) + i] = d[i]
    BY <2>1, <2>2
  <2>4. Len(x) = m /\ Len(s) = e /\ Len(d) = l
    BY <1>1, <1>4
  <2>5. /\ Len(o) = m + e + l
        /\ \A i \in 1..m : o[i] = x[i]
        /\ \A i \in 1..e : o[m + i] = s[i]
        /\ \A i \in 1..l : o[m + e + i] = d[i]
    BY <2>3, <2>4, Zenon
  <2> QED
    BY <2>2, <2>5, Zenon
<1>9. ASSUME NEW i \in (m + 1)..(a - 1) PROVE o[i] = t[i]
  <2>1. PICK j \in 1..e : i = m + j /\ c + j - 1 = i
    <3>1. i - m \in 1..e /\ i = m + (i - m) /\ c + (i - m) - 1 = i
      BY <1>2, <1>5
    <3> QED
      BY <3>1
  <2>2. s[j] = t[i]
    BY <1>3, <1>4, <2>1
  <2>3. o[i] = s[j]
    BY <1>8, <2>1
  <2> QED
    BY <2>2, <2>3
<1>10. o = x \o SubSeq(t, m + 1, a - 1) \o d
  BY <1>2, <1>3, <1>8
<1>11. \A k \in 1..Len(d) : o[a + k - 1] = d[k]
  BY <1>1, <1>8, <1>6
<1>12. Pasted(o, t, x, m, a, b, d)
  BY <1>8, <1>9, <1>7, <1>10, <1>11 DEF Pasted
<1> QED
  BY <1>12

\* A candidate window that decrypts holds a fake of FF1.
LEMMA WindowFacts ==
    ASSUME input \in Seq(Bytes), NEW w \in Windows
    PROVE  /\ w[1] \in 1..Len(input) /\ w[2] \in 1..Len(input) /\ w[1] <= w[2]
           /\ \E q \in Fpe : w[2] = w[1] + Len(Value[q]) - 1
           /\ \A k \in w[1]..w[2] : input[k] \in Letters
           /\ w = <<w[1], w[2]>>
           /\ SubSeq(input, w[1], w[2]) \in Seq(Bytes)
           /\ Len(SubSeq(input, w[1], w[2])) = w[2] - w[1] + 1
           /\ \A k \in 1..(w[2] - w[1] + 1) : SubSeq(input, w[1], w[2])[k] = input[w[1] + k - 1]
<1>1. /\ w \in (1..Len(input)) \X (1..Len(input))
      /\ \E q \in Fpe : w[2] = w[1] + Len(Value[q]) - 1
      /\ \A k \in w[1]..w[2] : input[k] \in Letters
  BY DEF Windows
<1>2. PICK a \in 1..Len(input), b \in 1..Len(input) : w = <<a, b>> /\ w[1] = a /\ w[2] = b
  BY <1>1
<1>3. PICK q \in Fpe : b = a + Len(Value[q]) - 1
  BY <1>1, <1>2
<1>4. PICK m \in Nat \ {0} : m = Len(Value[q])
  BY ValueTexts DEF Registered
<1>5. a <= b
  BY <1>3, <1>4
<1>6. a \in Nat /\ b \in Nat /\ 1 <= a /\ a <= b + 1 /\ b <= Len(input)
  BY <1>5
<1>7. /\ SubSeq(input, a, b) \in Seq(Bytes)
      /\ Len(SubSeq(input, a, b)) = b - a + 1
      /\ \A k \in 1..(b - a + 1) : SubSeq(input, a, b)[k] = input[a + k - 1]
  BY <1>6, PartBytes
<1> QED
  BY <1>1, <1>2, <1>5, <1>7

\* What restore makes of a window has the window's length, and where it is
\* not the window itself, the window was the fake of a value that it is.
WindowResult(c) == IF Decrypts(c) # {} THEN Value[CHOOSE r \in Decrypts(c) : TRUE] ELSE c

LEMMA WindowResults ==
    ASSUME NEW c \in Seq(Bytes)
    PROVE  /\ WindowResult(c) \in Seq(Bytes) /\ Len(WindowResult(c)) = Len(c)
           /\ \/ WindowResult(c) = c /\ \A r \in Fpe : c # Cipher[r]
              \/ \E r \in Fpe : c = Cipher[r] /\ WindowResult(c) = Value[r]
<1>1. CASE Decrypts(c) = {}
  BY <1>1 DEF WindowResult, Decrypts
<1>2. CASE Decrypts(c) # {}
  <2> DEFINE r == CHOOSE r \in Decrypts(c) : TRUE
  <2>1. r \in Decrypts(c) /\ WindowResult(c) = Value[r]
    BY <1>2 DEF WindowResult
  <2> HIDE DEF r
  <2>2. r \in Fpe /\ c = Cipher[r]
    BY <2>1 DEF Decrypts
  <2>3. Value[r] \in Seq(Bytes) /\ Len(c) = Len(Value[r])
    BY <2>2, ValueTexts, CipherTexts DEF Registered
  <2> QED
    BY <2>1, <2>2, <2>3
<1> QED
  BY <1>1, <1>2

\* An occurrence stays where it is when more is emitted.
LEMMA OccursStill ==
    ASSUME NEW x \in Seq(Bytes), NEW o \in Seq(Bytes), Len(x) <= Len(o),
           \A j \in 1..Len(x) : o[j] = x[j], NEW s \in Seq(Bytes), NEW i \in Nat \ {0}, OccursAt(x, s, i)
    PROVE  OccursAt(o, s, i)
<1>1. 0 + Len(x) <= Len(o) /\ \A j \in 1..Len(x) : x[j] = o[0 + j]
  <2>1. \A j \in 1..Len(x) : 0 + j = j
    OBVIOUS
  <2>2. Len(x) \in Nat
    OBVIOUS
  <2> QED
    BY <2>1, <2>2
<1>2. OccursAt(o, s, 0 + i)
  BY <1>1, OccursInPart
<1>3. 0 + i = i
  OBVIOUS
<1> QED
  BY <1>2, <1>3

\* The window of a fake that stands alone is not begun before it, and no
\* other that begins with it is shorter.
LEMMA WindowOfFake ==
    ASSUME input \in Seq(Bytes), NEW r \in Fpe, NEW i \in 1..Len(input), StandsAlone(r, i)
    PROVE  /\ <<i, i + Len(Value[r]) - 1>> \in Windows
           /\ \A w \in Windows : w[1] < i => w[2] < i
           /\ \A w \in Windows : w[1] = i => i + Len(Value[r]) - 1 <= w[2]
<1>1. PICK n \in Nat, m \in Nat \ {0} : n = Len(input) /\ m = Len(Value[r])
  BY ValueTexts DEF Registered
<1>2. Len(Cipher[r]) = m /\ OccursAt(input, Cipher[r], i)
  BY <1>1, CipherTexts DEF StandsAlone
<1>3. i + m - 1 <= n /\ \A k \in 1..m : input[i + k - 1] = Cipher[r][k]
  BY <1>1, <1>2 DEF OccursAt
<1>4. PICK b \in 1..n : b = i + m - 1
  <2>1. i + m - 1 \in 1..n
    BY <1>1, <1>3
  <2> QED
    BY <2>1
<1>5. ASSUME NEW k \in i..b PROVE input[k] \in Letters
  <2>1. PICK j \in 1..m : k = i + j - 1
    <3>1. k - i + 1 \in 1..m /\ k = i + (k - i + 1) - 1
      BY <1>4
    <3> QED
      BY <3>1
  <2>2. input[k] = Cipher[r][j] /\ Cipher[r][j] \in Letters
    BY <1>2, <1>3, <2>1, CipherTexts
  <2> QED
    BY <2>2
<1>6. <<i, b>> \in Windows
  <2>1. <<i, b>> \in (1..Len(input)) \X (1..Len(input)) /\ <<i, b>>[1] = i /\ <<i, b>>[2] = b
    BY <1>1
  <2>2. <<i, b>>[2] = <<i, b>>[1] + Len(Value[r]) - 1
    BY <1>1, <1>4, <2>1
  <2>3. \A k \in <<i, b>>[1]..<<i, b>>[2] : input[k] \in Letters
    BY <1>5, <2>1
  <2> QED
    BY <2>1, <2>2, <2>3 DEF Windows
<1>7. ASSUME NEW w \in Windows, w[1] < i PROVE w[2] < i
  <2>1. PICK c \in 1..n, d \in 1..n : c = w[1] /\ d = w[2] /\ \A k \in c..d : input[k] \in Letters
    BY <1>1, WindowFacts
  <2>2. i # 1
    BY <1>7, <2>1
  <2>3. input[i - 1] \notin Letters
    BY <2>2 DEF StandsAlone
  <2>4. i - 1 \notin c..d
    BY <2>1, <2>3
  <2> QED
    BY <1>1, <1>7, <2>1, <2>4
<1>8. ASSUME NEW w \in Windows, w[1] = i PROVE b <= w[2]
  <2>1. PICK q \in Fpe : w[2] = i + Len(Value[q]) - 1
    BY <1>8, WindowFacts
  <2>2. PICK l \in Nat \ {0} : l = Len(Value[q])
    BY ValueTexts DEF Registered
  <2>3. m <= l
    BY <1>1, <2>2 DEF StandsAlone
  <2> QED
    BY <1>1, <1>4, <2>1, <2>2, <2>3
<1> QED
  BY <1>1, <1>4, <1>6, <1>7, <1>8

\* Every byte of o that is not the text's belongs to a fake of the text that
\* became its value.
FakesOnly(t, o) ==
    \A k \in 1..Len(o) : o[k] # t[k] =>
        \E r \in Fpe, i \in 1..k :
            /\ k < i + Len(Value[r])
            /\ OccursAt(t, Cipher[r], i)
            /\ OccursAt(o, Value[r], i)

\* Appending a piece of the text, or the value of a fake that stands there,
\* keeps that.
LEMMA PastedFakesOnly ==
    ASSUME NEW t \in Seq(Bytes), NEW x \in Seq(Bytes), NEW o \in Seq(Bytes), NEW d \in Seq(Bytes),
           NEW a \in Nat, NEW b \in Nat, NEW m \in Nat, m = Len(x),
           m < a, a <= b + 1, b <= Len(t), Len(d) = b - a + 1,
           Pasted(o, t, x, m, a, b, d), FakesOnly(t, x),
           \/ \A j \in 1..Len(d) : d[j] = t[a + j - 1]
           \/ \E r \in Fpe : OccursAt(t, Cipher[r], a) /\ d = Value[r]
    PROVE  FakesOnly(t, o)
<1>1. PICK l \in Nat : l = Len(d) /\ b = a + l - 1
  <2>1. PICK l \in Nat : l = Len(d)
    OBVIOUS
  <2> QED
    BY <2>1
<1>2. /\ Len(o) = b
      /\ \A i \in 1..m : o[i] = x[i]
      /\ \A i \in (m + 1)..(a - 1) : o[i] = t[i]
      /\ \A k \in 1..l : o[a + k - 1] = d[k]
  BY <1>1 DEF Pasted
<1>3. ASSUME NEW k \in 1..b, o[k] # t[k]
      PROVE  \E r \in Fpe, i \in 1..k :
                /\ k < i + Len(Value[r])
                /\ OccursAt(t, Cipher[r], i)
                /\ OccursAt(o, Value[r], i)
  <2>1. CASE k <= m
    <3>1. k \in 1..Len(x) /\ x[k] # t[k]
      BY <1>2, <1>3, <2>1
    <3>2. PICK r \in Fpe, i \in 1..k :
              /\ k < i + Len(Value[r])
              /\ OccursAt(t, Cipher[r], i)
              /\ OccursAt(x, Value[r], i)
      BY <3>1 DEF FakesOnly
    <3>3. Value[r] \in Seq(Bytes) /\ i \in Nat \ {0} /\ Len(x) <= Len(o)
      <4>1. Value[r] \in Seq(Bytes)
        BY ValueTexts DEF Registered
      <4>2. m <= b
        BY <1>1
      <4> QED
        BY <1>2, <4>1, <4>2
    <3>4. OccursAt(o, Value[r], i)
      BY <1>2, <3>2, <3>3, OccursStill
    <3> QED
      BY <3>2, <3>4
  <2>2. ~(m < k /\ k < a)
    <3>1. m < k /\ k < a => k \in (m + 1)..(a - 1)
      OBVIOUS
    <3> QED
      BY <1>2, <1>3, <3>1
  <2>3. CASE a <= k
    <3>1. PICK j \in 1..l : a + j - 1 = k
      <4>1. k - a + 1 \in 1..l /\ a + (k - a + 1) - 1 = k
        BY <1>1, <2>3
      <4> QED
        BY <4>1
    <3>2. o[k] = d[j]
      BY <1>2, <3>1
    <3>3. d[j] # t[a + j - 1] /\ j \in 1..Len(d)
      BY <1>1, <1>3, <3>1, <3>2
    <3>4. PICK r \in Fpe : OccursAt(t, Cipher[r], a) /\ d = Value[r]
      BY <3>3
    <3>5. OccursAt(o, d, a)
      BY <1>1, <1>2 DEF OccursAt
    <3>6. a \in 1..k /\ k < a + Len(d)
      BY <1>1, <2>3
    <3> QED
      BY <3>4, <3>5, <3>6
  <2> QED
    BY <2>1, <2>2, <2>3
<1> QED
  BY <1>2, <1>3 DEF FakesOnly

\* A fake became a value of which it is the fake.
Restored(o, r, i) == \E q \in Fpe : Cipher[q] = Cipher[r] /\ OccursAt(o, Value[q], i)

RestoreInv ==
    /\ phase \in {"session", "collect"} => output = <<>>
    /\ phase = "windows" => Len(output) = cursor /\ pending \subseteq Windows
    /\ phase = "restored" => Len(output) = Len(input)
    /\ phase \in {"windows", "restored"} => FakesOnly(input, output)
    /\ phase = "windows" =>
         \A r \in Fpe : \A i \in 1..Len(input) : StandsAlone(r, i) =>
            IF i <= cursor THEN Restored(output, r, i)
            ELSE <<i, i + Len(Value[r]) - 1>> \in pending
    /\ phase = "restored" =>
         \A r \in Fpe : \A i \in 1..Len(input) : StandsAlone(r, i) => Restored(output, r, i)

\* It stays restored when more is emitted.
LEMMA RestoredStill ==
    ASSUME NEW x \in Seq(Bytes), NEW o \in Seq(Bytes), Len(x) <= Len(o),
           \A j \in 1..Len(x) : o[j] = x[j], NEW r \in Fpe, NEW i \in Nat \ {0}, Restored(x, r, i)
    PROVE  Restored(o, r, i)
<1>1. PICK q \in Fpe : Cipher[q] = Cipher[r] /\ OccursAt(x, Value[q], i)
  BY DEF Restored
<1>2. Value[q] \in Seq(Bytes)
  BY ValueTexts DEF Registered
<1>3. OccursAt(o, Value[q], i)
  BY <1>1, <1>2, OccursStill
<1> QED
  BY <1>1, <1>3 DEF Restored

\* Trying a window keeps the restore pass's invariant.
LEMMA TryWindowRestores ==
    ASSUME EngineInv, RestoreInv, TryWindow
    PROVE  RestoreInv'
<1>1. /\ phase = "windows" /\ phase' = phase /\ input' = input /\ pending # {}
      /\ input \in Seq(Bytes) /\ output \in Seq(Bytes)
      /\ Len(output) = cursor /\ cursor \in 0..Len(input) /\ pending \subseteq Windows
      /\ FakesOnly(input, output)
  BY DEF EngineInv, EngineTypeOK, EngineShape, RestoreInv, TryWindow
<1>2. PICK n \in Nat : n = Len(input)
  BY <1>1
<1>3. PICK w \in Windows : /\ w = First(pending) /\ w \in pending
                           /\ \A x \in pending : w[1] < x[1] \/ (w[1] = x[1] /\ w[2] <= x[2])
  <2>1. pending \in SUBSET ((1..n) \X (1..n))
    BY <1>1, <1>2 DEF Windows
  <2>2. /\ First(pending) \in pending
        /\ \A x \in pending : \/ First(pending)[1] < x[1]
                              \/ First(pending)[1] = x[1] /\ First(pending)[2] <= x[2]
    BY <1>1, <2>1, FirstFound
  <2> QED
    BY <1>1, <2>2
<1>4. PICK c \in Seq(Bytes) :
         /\ c = SubSeq(input, w[1], w[2]) /\ Len(c) = w[2] - w[1] + 1
         /\ \A k \in 1..(w[2] - w[1] + 1) : c[k] = input[w[1] + k - 1]
  BY <1>1, WindowFacts
<1>5. PICK a \in 1..n, b \in 1..n : a = w[1] /\ b = w[2] /\ a <= b /\ w = <<a, b>>
  BY <1>1, <1>2, WindowFacts
<1>6. PICK d \in Seq(Bytes) :
         /\ d = WindowResult(c) /\ Len(d) = Len(c)
         /\ \/ d = c /\ \A r \in Fpe : c # Cipher[r]
            \/ \E r \in Fpe : c = Cipher[r] /\ d = Value[r]
  BY WindowResults
<1>7. /\ pending' = pending \ {w}
      /\ IF a <= cursor
         THEN UNCHANGED <<output, cursor>>
         ELSE cursor' = b /\ output' = output \o SubSeq(input, cursor + 1, a - 1) \o d
  BY <1>3, <1>4, <1>5, <1>6 DEF TryWindow, WindowResult
<1>8. pending' \subseteq Windows'
  BY <1>1, <1>7 DEF Windows
<1>9. \A r \in Fpe : \A i \in 1..n : StandsAlone(r, i)' = StandsAlone(r, i)
  BY <1>1 DEF StandsAlone
<1>10. \A r \in Fpe : \A i \in 1..n : StandsAlone(r, i) =>
          IF i <= cursor THEN Restored(output, r, i)
          ELSE <<i, i + Len(Value[r]) - 1>> \in pending
  BY <1>1, <1>2 DEF RestoreInv
<1>11. CASE a <= cursor
  <2>1. output' = output /\ cursor' = cursor
    BY <1>7, <1>11
  <2>2. ASSUME NEW r \in Fpe, NEW i \in 1..n, StandsAlone(r, i)
        PROVE  IF i <= cursor' THEN Restored(output', r, i)
               ELSE <<i, i + Len(Value[r]) - 1>> \in pending'
    <3>1. CASE i <= cursor
      BY <1>10, <2>1, <2>2, <3>1
    <3>2. CASE ~(i <= cursor)
      <4>1. <<i, i + Len(Value[r]) - 1>> \in pending
        BY <1>10, <2>2, <3>2
      <4>2. <<i, i + Len(Value[r]) - 1>> # w
        BY <1>5, <1>11, <3>2
      <4> QED
        BY <1>7, <2>1, <3>2, <4>1, <4>2
    <3> QED
      BY <3>1, <3>2
  <2>3. Len(output') = cursor' /\ FakesOnly(input', output')
    BY <1>1, <2>1 DEF FakesOnly
  <2> QED
    BY <1>1, <1>2, <1>8, <1>9, <2>2, <2>3 DEF RestoreInv, Restored
<1>12. CASE ~(a <= cursor)
  <2>1. PICK o \in Seq(Bytes) : Pasted(o, input, output, cursor, a, b, d)
    <3>1. a \in Nat /\ b \in Nat /\ cursor \in Nat /\ cursor < a /\ a <= b + 1 /\ b <= Len(input)
      BY <1>1, <1>2, <1>5, <1>12
    <3>2. Len(d) = b - a + 1
      BY <1>4, <1>5, <1>6
    <3>3. input \in Seq(Bytes) /\ output \in Seq(Bytes) /\ cursor = Len(output)
      BY <1>1
    <3>4. \E o \in Seq(Bytes) : Pasted(o, input, output, cursor, a, b, d)
      <4>1. PICK t \in Seq(Bytes), x \in Seq(Bytes), m \in Nat :
               t = input /\ x = output /\ m = cursor /\ m = Len(x)
        BY <3>1, <3>3
      <4>2. m < a /\ a <= b + 1 /\ b <= Len(t) /\ Len(d) = b - a + 1 /\ a \in Nat /\ b \in Nat
        BY <3>1, <3>2, <4>1
      <4>3. \E o \in Seq(Bytes) : Pasted(o, t, x, m, a, b, d)
        BY <4>1, <4>2, PastedBytes
      <4> QED
        BY <4>1, <4>3, Zenon
    <3> QED
      BY <3>4, Zenon
  <2>2. /\ o = output \o SubSeq(input, cursor + 1, a - 1) \o d /\ Len(o) = b
        /\ \A i \in 1..cursor : o[i] = output[i]
        /\ \A k \in 1..Len(d) : o[a + k - 1] = d[k]
    BY <2>1 DEF Pasted
  <2>3. output' = o /\ cursor' = b
    BY <1>7, <1>12, <2>2
  <2>4. FakesOnly(input, o)
    <3>1. /\ a \in Nat /\ b \in Nat /\ cursor \in Nat /\ cursor < a /\ a <= b + 1 /\ b <= Len(input)
          /\ input \in Seq(Bytes) /\ output \in Seq(Bytes) /\ cursor = Len(output)
      BY <1>1, <1>2, <1>5, <1>12
    <3>2. Len(d) = b - a + 1
      BY <1>4, <1>5, <1>6
    <3>3. \/ \A j \in 1..Len(d) : d[j] = input[a + j - 1]
          \/ \E r \in Fpe : OccursAt(input, Cipher[r], a) /\ d = Value[r]
      <4>1. CASE d = c
        BY <1>4, <1>5, <4>1
      <4>2. CASE \E r \in Fpe : c = Cipher[r] /\ d = Value[r]
        <5>1. PICK r \in Fpe : c = Cipher[r] /\ d = Value[r]
          BY <4>2
        <5>2. a + Len(c) - 1 <= Len(input)
          BY <1>2, <1>4, <1>5
        <5>3. OccursAt(input, c, a)
          BY <1>4, <1>5, <5>2 DEF OccursAt
        <5> QED
          BY <5>1, <5>3
      <4> QED
        BY <1>6, <4>1, <4>2
    <3> QED
      BY <1>1, <2>1, <3>1, <3>2, <3>3, PastedFakesOnly
  <2>5. ASSUME NEW r \in Fpe, NEW i \in 1..n, StandsAlone(r, i)
        PROVE  IF i <= b THEN Restored(o, r, i)
               ELSE <<i, i + Len(Value[r]) - 1>> \in pending'
    <3>1. PICK v \in Seq(Bytes), m \in Nat \ {0} : v = Value[r] /\ m = Len(v)
      BY ValueTexts DEF Registered
    <3>2. CASE i <= cursor
      <4>1. Restored(output, r, i)
        BY <1>10, <2>5, <3>2
      <4>2. i <= b /\ i \in Nat \ {0} /\ cursor <= b
        BY <1>1, <1>2, <1>5, <1>12, <3>2
      <4>3. Restored(output, r, i) /\ Len(output) <= Len(o) /\ i <= b /\ i \in Nat \ {0}
        BY <1>1, <2>2, <4>1, <4>2
      <4>4. Restored(o, r, i)
        BY <1>1, <2>2, <4>3, RestoredStill
      <4> QED
        BY <4>3, <4>4
    <3>3. CASE ~(i <= cursor)
      <4>1. <<i, i + m - 1>> \in pending
        BY <1>10, <2>5, <3>1, <3>3
      <4>2. a < i \/ (a = i /\ b <= i + m - 1)
        BY <1>3, <1>5, <4>1
      <4>3. (a < i => b < i) /\ (a = i => i + m - 1 <= b)
        BY <1>1, <1>2, <1>5, <2>5, <3>1, WindowOfFake
      <4>4. CASE a < i
        <5>1. ~(i <= b) /\ <<i, i + m - 1>> # w
          BY <1>5, <4>3, <4>4
        <5> QED
          BY <1>7, <3>1, <4>1, <5>1
      <4>5. CASE a = i
        <5>1. b = i + m - 1
          BY <4>2, <4>3, <4>5
        <5>2. c = Cipher[r]
          <6>1. Cipher[r] \in Seq(Bytes) /\ Len(Cipher[r]) = m
            BY <3>1, CipherTexts
          <6>2. OccursAt(input, Cipher[r], i)
            BY <2>5 DEF StandsAlone
          <6>3. Len(c) = m /\ \A k \in 1..m : c[k] = input[i + k - 1]
            <7>1. b - a + 1 = m
              BY <4>5, <5>1
            <7> QED
              BY <1>4, <1>5, <4>5, <7>1
          <6>4. \A k \in 1..m : input[i + k - 1] = Cipher[r][k]
            BY <6>1, <6>2 DEF OccursAt
          <6>5. \A k \in 1..Len(c) : c[k] = Cipher[r][k]
            BY <6>3, <6>4
          <6> QED
            BY <6>1, <6>3, <6>5, SeqEqual
        <5>3. PICK q \in Fpe : Cipher[q] = Cipher[r] /\ d = Value[q]
          BY <1>6, <5>2
        <5>4. Restored(o, r, i)
          <6>1. i + Len(d) - 1 <= Len(o)
            <7>1. Len(d) = m
              BY <1>4, <1>5, <1>6, <4>5, <5>1
            <7> QED
              BY <2>2, <5>1, <7>1
          <6>2. \A k \in 1..Len(d) : o[i + k - 1] = d[k]
            BY <2>2, <4>5, Zenon
          <6>3. OccursAt(o, d, i)
            BY <6>1, <6>2 DEF OccursAt
          <6> QED
            BY <5>3, <6>3 DEF Restored
        <5>5. i <= b
          BY <1>5, <4>5
        <5> QED
          BY <3>1, <5>4, <5>5
      <4> QED
        BY <4>2, <4>4, <4>5
    <3> QED
      BY <3>2, <3>3
  <2>6. Len(output') = cursor' /\ FakesOnly(input', output')
    BY <1>1, <2>2, <2>3, <2>4 DEF FakesOnly
  <2> QED
    BY <1>1, <1>2, <1>8, <1>9, <2>3, <2>5, <2>6 DEF RestoreInv, Restored
<1> QED
  BY <1>11, <1>12

\* What is left of the input goes out as it is.
LEMMA RestoreRestRestores ==
    ASSUME EngineInv, RestoreInv, RestoreRest
    PROVE  RestoreInv'
<1>1. /\ phase = "windows" /\ phase' = "restored" /\ input' = input /\ pending = {}
      /\ output' = output \o SubSeq(input, cursor + 1, Len(input))
      /\ input \in Seq(Bytes) /\ output \in Seq(Bytes)
      /\ Len(output) = cursor /\ cursor \in 0..Len(input)
      /\ FakesOnly(input, output)
  BY DEF EngineInv, EngineTypeOK, EngineShape, RestoreInv, RestoreRest
<1>2. PICK n \in Nat : n = Len(input)
  BY <1>1
<1>3. PICK o \in Seq(Bytes) :
         /\ output' = o /\ Len(o) = n
         /\ \A i \in 1..cursor : o[i] = output[i]
         /\ FakesOnly(input, o)
  <2>1. PICK a \in Nat : a = n + 1
    OBVIOUS
  <2>2. a - 1 = n /\ cursor < a /\ cursor \in Nat /\ a <= n + 1 /\ n <= Len(input) /\ 0 = n - a + 1
    BY <1>1, <1>2, <2>1
  <2>3. <<>> \in Seq(Bytes) /\ Len(<<>>) = 0
    OBVIOUS
  <2>4. PICK o \in Seq(Bytes) :
           /\ o = output \o SubSeq(input, cursor + 1, a - 1) \o <<>> /\ Len(o) = n
           /\ \A i \in 1..cursor : o[i] = output[i]
           /\ FakesOnly(input, o)
    <3>1. input \in Seq(Bytes) /\ output \in Seq(Bytes) /\ cursor = Len(output) /\ Len(<<>>) = n - a + 1
      BY <1>1, <2>2, <2>3
    <3> QED
      <4>1. PICK t \in Seq(Bytes), x \in Seq(Bytes), m \in Nat :
               t = input /\ x = output /\ m = cursor /\ m = Len(x)
        BY <2>2, <3>1
      <4>2. /\ m < a /\ a <= n + 1 /\ n <= Len(t) /\ Len(<<>>) = n - a + 1 /\ a \in Nat /\ n \in Nat
            /\ <<>> \in Seq(Bytes)
        BY <2>2, <2>3, <3>1, <4>1
      <4>3. \E o \in Seq(Bytes) : Pasted(o, t, x, m, a, n, <<>>)
        BY <4>1, <4>2, PastedBytes
      <4>4. PICK o \in Seq(Bytes) : Pasted(o, t, x, m, a, n, <<>>)
        BY <4>3
      <4>5. \A j \in 1..Len(<<>>) : <<>>[j] = t[a + j - 1]
        OBVIOUS
      <4>6. FakesOnly(t, x)
        BY <1>1, <4>1, Zenon
      <4>7. FakesOnly(t, o)
        BY <4>1, <4>2, <4>4, <4>5, <4>6, PastedFakesOnly
      <4> QED
        BY <4>1, <4>4, <4>7, Zenon DEF Pasted
  <2>5. output \o SubSeq(input, cursor + 1, n) \o <<>> = output \o SubSeq(input, cursor + 1, n)
    <3>1. SubSeq(input, cursor + 1, n) \in Seq(Bytes)
      <4>1. cursor + 1 \in Nat /\ 1 <= cursor + 1 /\ cursor + 1 <= n + 1 /\ n <= Len(input)
        BY <1>1, <1>2
      <4> QED
        BY <1>1, <4>1, PartBytes
    <3>2. PICK s \in Seq(Bytes) : s = SubSeq(input, cursor + 1, n)
      BY <3>1
    <3>3. output \o s \in Seq(Bytes)
      BY <1>1, ConcatProperties
    <3>4. (output \o s) \o <<>> = output \o s
      BY <3>3, ConcatEmptySeq
    <3> QED
      BY <3>2, <3>4
  <2>6. output' = o
    BY <1>1, <1>2, <2>2, <2>4, <2>5
  <2> QED
    BY <2>2, <2>4, <2>6
<1>6. FakesOnly(input', output') /\ Len(output') = Len(input')
  BY <1>1, <1>2, <1>3 DEF FakesOnly
<1>7. ASSUME NEW r \in Fpe, NEW i \in 1..n, StandsAlone(r, i) PROVE Restored(output', r, i)
  <2>1. IF i <= cursor THEN Restored(output, r, i)
        ELSE <<i, i + Len(Value[r]) - 1>> \in pending
    BY <1>1, <1>2, <1>7 DEF RestoreInv
  <2>2. i <= cursor /\ Restored(output, r, i)
    BY <1>1, <2>1
  <2>3. i \in Nat \ {0} /\ Len(output) <= Len(o)
    BY <1>1, <1>2, <1>3
  <2>4. Restored(o, r, i)
    BY <1>1, <1>3, <2>2, <2>3, RestoredStill
  <2> QED
    BY <1>3, <2>4 DEF Restored
<1>8. \A r \in Fpe : \A i \in 1..n : StandsAlone(r, i)' = StandsAlone(r, i)
  BY <1>1 DEF StandsAlone
<1> QED
  BY <1>1, <1>2, <1>6, <1>7, <1>8 DEF RestoreInv, Restored

\* Collecting the windows starts the walk with nothing emitted.
LEMMA CollectRestores ==
    ASSUME EngineInv, RestoreInv, Collect
    PROVE  RestoreInv'
<1>1. /\ phase = "collect" /\ input \in Seq(Bytes) /\ cursor = 0 /\ output = <<>>
      /\ UNCHANGED <<session, original, input, output, cursor, sessionMap, notices, hits, spots>>
  BY DEF EngineInv, EngineTypeOK, EngineShape, RestoreInv, Collect
<1>2. CASE phase' = "panicked"
  BY <1>1, <1>2 DEF RestoreInv
<1>3. CASE phase' # "panicked"
  <2>1. phase' = "windows" /\ pending' = Windows
    BY <1>3 DEF Collect
  <2>2. Windows' = Windows
    BY <1>1 DEF Windows
  <2>3. PICK n \in Nat : n = Len(input)
    BY <1>1
  <2>4. FakesOnly(input', output')
    BY <1>1 DEF FakesOnly
  <2>5. \A r \in Fpe : \A i \in 1..n : StandsAlone(r, i) =>
           ~(i <= 0) /\ <<i, i + Len(Value[r]) - 1>> \in Windows
    BY <1>1, <2>3, WindowOfFake
  <2>6. \A r \in Fpe : \A i \in 1..n : StandsAlone(r, i)' = StandsAlone(r, i)
    BY <1>1 DEF StandsAlone
  <2>7. Len(output') = cursor' /\ pending' \subseteq Windows'
    <3>1. Len(output) = cursor
      BY <1>1
    <3> HIDE DEF Windows
    <3> QED
      BY <1>1, <2>1, <2>2, <3>1
  <2>8. \A r \in Fpe : \A i \in 1..Len(input') : StandsAlone(r, i)' =>
           ~(i <= cursor') /\ <<i, i + Len(Value[r]) - 1>> \in pending'
    BY <1>1, <2>1, <2>3, <2>5, <2>6
  <2> QED
    BY <2>1, <2>4, <2>7, <2>8 DEF RestoreInv
<1> QED
  BY <1>2, <1>3

\* RestoresFakesOnly: the walk of restore over overlapping windows drops,
\* repeats and moves no byte, changes only the bytes of fakes into those of
\* their values, and misses no fake that stands alone: for all texts, values
\* and ciphertexts.
THEOREM EngineRestoresFakesOnly == EngineSpec => []RestoresFakesOnly
<1>1. EngineInit => RestoreInv
  BY DEF EngineInit, RestoreInv
<1>2. ASSUME EngineInv, RestoreInv, [EngineNext]_engineVars PROVE RestoreInv'
  <2>1. CASE Begin
    <3>1. phase' = "scrub"
      BY <2>1 DEF Begin
    <3> QED
      BY <3>1 DEF RestoreInv
  <2>2. CASE ScrubMatch
    <3>1. phase' = "scrub"
      BY <2>2 DEF ScrubMatch
    <3> QED
      BY <3>1 DEF RestoreInv
  <2>3. CASE ScrubRest
    <3>1. phase' = "scrubbed"
      BY <2>3 DEF ScrubRest
    <3> QED
      BY <3>1 DEF RestoreInv
  <2>4. CASE Paste
    <3>1. phase' \in {"session", "collect"} /\ output' = <<>>
      BY <2>4 DEF Paste
    <3> QED
      BY <3>1 DEF RestoreInv
  <2>5. CASE SessionFake
    <3>1. phase = "session" /\ phase' = phase /\ output' = output
      BY <2>5 DEF SessionFake
    <3> QED
      BY <1>2, <3>1 DEF RestoreInv
  <2>6. CASE SessionDone
    <3>1. phase = "session" /\ phase' = "collect" /\ output' = output
      BY <2>6 DEF SessionDone
    <3> QED
      BY <1>2, <3>1 DEF RestoreInv
  <2>7. CASE Collect
    BY <1>2, <2>7, CollectRestores
  <2>8. CASE TryWindow
    BY <1>2, <2>8, TryWindowRestores
  <2>9. CASE RestoreRest
    BY <1>2, <2>9, RestoreRestRestores
  <2>10. CASE UNCHANGED engineVars
    <3>1. UNCHANGED <<phase, input, output, cursor, pending>>
      BY <2>10 DEF engineVars
    <3>2. Windows' = Windows /\ \A r \in Fpe : \A i \in 1..Len(input) : StandsAlone(r, i)' = StandsAlone(r, i)
      BY <3>1 DEF Windows, StandsAlone
    <3> QED
      BY <1>2, <3>1, <3>2 DEF RestoreInv, FakesOnly, Restored
  <2> QED
    BY <1>2, <2>1, <2>2, <2>3, <2>4, <2>5, <2>6, <2>7, <2>8, <2>9, <2>10 DEF EngineNext
<1>3. EngineInv /\ RestoreInv => RestoresFakesOnly
  BY DEF RestoreInv, FakesOnly, Restored, RestoresFakesOnly
<1>4. EngineInv /\ RestoreInv /\ [EngineNext]_engineVars => RestoreInv'
  BY <1>2
<1> QED
  BY <1>1, <1>3, <1>4, EngineInvAlways, PTL DEF EngineSpec

=============================================================================
