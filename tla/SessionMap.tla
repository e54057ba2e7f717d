----------------------------- MODULE SessionMap -----------------------------
(***************************************************************************)
(* SessionMap as its callers drive it.  A long-lived process (the watch    *)
(* daemon) makes any sequence of get_or_insert, restore and clear calls    *)
(* while its clock advances.  The command line instead saves the map's     *)
(* entries and exits; the next command builds a fresh map and imports      *)
(* them, in the arbitrary order in which the hash map listed them.         *)
(*                                                                         *)
(* Every operation takes &mut self, so calls never overlap: the import     *)
(* loop runs one pair per step and blocks everything else.                 *)
(***************************************************************************)
EXTENDS SessionMapOps

CONSTANTS
    FakesOf,   \* [Reals -> SUBSET Fakes]: what make_fake can return for a value
    MaxTime    \* bound on the clock

ASSUME FakesOfAssumption == FakesOf \in [Reals -> SUBSET Fakes]
ASSUME MaxTimeAssumption == MaxTime \in Nat

VARIABLES
    map,      \* the SessionMap
    clock,    \* the Instant every call is given
    saved,    \* the (fake, real) pairs of the last saved session
    todo,     \* pairs the running import has not inserted yet
    reply,    \* last call and its result
    owner     \* history: the value a fake was last stored for

vars == <<map, clock, saved, todo, reply, owner>>

NoReply == [op |-> "none"]

Replies ==
    {NoReply}
    \cup [op : {"get"}, real : Reals, fake : Fakes]
    \cup [op : {"restore"}, fake : Fakes, result : SUBSET Reals]

TypeOK ==
    /\ IsMap(map)
    /\ clock \in 0..MaxTime
    /\ saved \subseteq Fakes \X Reals
    /\ todo \subseteq saved
    /\ reply \in Replies
    /\ owner \in [Fakes -> SUBSET Reals]

Init ==
    /\ map = EmptyMap
    /\ clock = 0
    /\ saved = {}
    /\ todo = {}
    /\ reply = NoReply
    /\ owner = [f \in Fakes |-> {}]

Idle == todo = {}

Tick ==
    /\ Idle
    /\ clock < MaxTime
    /\ clock' = clock + 1
    /\ reply' = NoReply
    /\ UNCHANGED <<map, saved, todo, owner>>

CallGetOrInsert(r) ==
    /\ Idle
    /\ \E made \in FakesOf[r] : \E out \in GetOrInsert(map, r, made, clock) :
          /\ map' = out.map
          /\ reply' = [op |-> "get", real |-> r, fake |-> out.fake]
          /\ owner' = [owner EXCEPT ![out.fake] = {r}]
    /\ UNCHANGED <<clock, saved, todo>>

CallRestore(f) ==
    /\ Idle
    /\ map' = Restore(map, f, clock)
    /\ reply' = [op |-> "restore", fake |-> f,
                 result |-> RestoreResult(map, f, clock)]
    /\ UNCHANGED <<clock, saved, todo, owner>>

Clear ==
    /\ Idle
    /\ map' = EmptyMap
    /\ reply' = NoReply
    /\ UNCHANGED <<clock, saved, todo, owner>>

\* The process saves entries() and exits; its successor starts with an
\* empty map and imports what was saved.
SaveAndReload ==
    /\ Idle
    /\ saved' = Entries(map)
    /\ todo' = Entries(map)
    /\ map' = EmptyMap
    /\ reply' = NoReply
    /\ UNCHANGED <<clock, owner>>

\* One iteration of import's loop: no prune, no capacity check.
ImportPair ==
    \E p \in todo :
       /\ map' = Store(map, p[1], p[2], clock)
       /\ todo' = todo \ {p}
       /\ reply' = NoReply
       /\ UNCHANGED <<clock, saved, owner>>

Next ==
    \/ Tick
    \/ \E r \in Reals : CallGetOrInsert(r)
    \/ \E f \in Fakes : CallRestore(f)
    \/ Clear
    \/ SaveAndReload
    \/ ImportPair

Spec == Init /\ [][Next]_vars

-----------------------------------------------------------------------------
(* Properties.                                                             *)

\* The two hash maps stay each other's inverse through every sequence of
\* expiries, LRU evictions, fake collisions and reloads: no value keeps a
\* reverse pointer after its entry is gone, and no entry loses its pointer.
MapsInverse == MutuallyInverse(map)

\* The map, including what an import still has to add, never holds more
\* than max_entries pairs.  A limit of zero still admits one, because
\* evict_lru has nothing to evict from an empty map.
Capacity ==
    Size(map) + Cardinality(todo) <= (IF MaxEntries = 0 THEN 1 ELSE MaxEntries)

\* Last write wins: whatever happened in between, a fake that is still in
\* the map stands for the value it was most recently handed out for, never
\* for an earlier owner it collided with.
LatestOwner ==
    /\ \A f \in DOMAIN map.byFake : map.byFake[f].real \in owner[f]
    /\ \A p \in todo : p[2] \in owner[p[1]]

\* What makes the consistency of the maps inductive: the pairs an import
\* still has to store are new to the map, and no two of them share a fake
\* or a value.  So an import never displaces an entry.
ImportFresh ==
    /\ \A p \in todo : /\ p[1] \notin DOMAIN map.byFake
                       /\ p[2] \notin DOMAIN map.byReal
    /\ \A p, q \in todo : p[1] = q[1] \/ p[2] = q[2] => p = q

\* The session map in a word: two inverse maps, within their bound, that an
\* import adds to and never overwrites.
MapsConsistent == TypeOK /\ MapsInverse /\ Capacity /\ ImportFresh

\* The fake get_or_insert returns can be restored to its argument right
\* away: making room never evicts the pair the call is about.
ReplyRestorable ==
    reply.op = "get" =>
        RestoreResult(map, reply.fake, clock) = {reply.real}

LiveFakesKept ==
    \A r \in DOMAIN map.byReal \cap DOMAIN map'.byReal :
       map.byReal[r] \notin Expired(map, clock) => map'.byReal[r] = map.byReal[r]

\* Per-session stability: a value that is mapped before and after a step,
\* and whose entry had not expired, keeps its fake.
StableFake == [][LiveFakesKept]_vars

LivePairsKept ==
    \A f \in DOMAIN map.byFake \ Expired(map, clock) :
       \/ f \in DOMAIN map'.byFake /\ map'.byFake[f].real = map.byFake[f].real
       \/ <<f, map.byFake[f].real>> \in todo'
       \/ Clear
       \/ /\ reply'.op = "get"
          /\ \/ f = reply'.fake /\ reply'.real # map.byFake[f].real
             \/ /\ Size(Prune(map, clock)) >= MaxEntries
                /\ \A g \in (DOMAIN map.byFake \cap DOMAIN map'.byFake) \ {reply'.fake} :
                      map.byFake[f].touched <= map.byFake[g].touched

AnswersFromLivePair ==
    reply'.op = "restore" /\ reply'.result # {} =>
       clock <= map.byFake[reply'.fake].touched + Ttl

\* A pair lives exactly as long as the design says.  A live one disappears
\* only by clear, because another value took over its fake, or from a full
\* map that keeps none touched earlier; in particular a lookup never loses
\* one, and a reload carries every one over.  And no restore answers from a
\* pair that was idle for longer than the ttl.
LifetimesKept == [][LivePairsKept /\ AnswersFromLivePair]_vars

=============================================================================
