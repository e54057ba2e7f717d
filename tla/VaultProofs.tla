---------------------------- MODULE VaultProofs ----------------------------
(***************************************************************************)
(* Proofs about the vault, in two parts.                                   *)
(*                                                                         *)
(* VaultStore, for every set of processes and labels and any number of     *)
(* commands and faults.                                                    *)
(*                                                                         *)
(* Recognition, for every alphabet, every permutation and every hash, and  *)
(* for values, prefixes, texts and rules of any number and length: trial   *)
(* decryption, the fakes of every kind, and detection.                     *)
(***************************************************************************)
EXTENDS VaultStore, Recognition, FiniteSetTheorems, WellFoundedInduction, TLAPS

-----------------------------------------------------------------------------
(* The inductive invariant.                                                *)

Saving == {"create", "body", "fsyncBody", "rename"}

\* Steps after fetch_or_create has returned.
Opened == {"read", "output", "fsyncDir"} \cup Saving

OneByOne == mode \in {"alone", "stranger"}

\* Commands that may still generate a key.
Fetching == {p \in Procs : pc[p] \in {"scan", "fetch"}}

\* Every command generates at most one key, so no generated key is Stranger.
KeysCounted ==
    /\ IsFiniteSet(Fetching)
    /\ mode = "shared" => fresh = 1 /\ keychain = 1
    /\ mode # "shared" => fresh + Cardinality(Fetching) <= started
    /\ keychain <= fresh
    /\ \A p \in Procs : key[p] <= fresh

\* A process that is past fetch_or_create holds the key of the slot, unless
\* another first run replaced it.
KeysHeld ==
    /\ \A p \in Procs :
          /\ pc[p] = "storeKey" => key[p] # NoKey
          /\ pc[p] \in Opened => key[p] # NoKey /\ (~replaced => key[p] = keychain)
    /\ replaced => mode = "firstRuns"

\* What the modes mean: one process at a time finds the slot as it left it,
\* a vault that exists has its key in the slot, and a file that is no vault
\* of this keychain is never opened.
ModesKept ==
    /\ OneByOne => \A p, q \in Running : p = q
    /\ OneByOne => \A p \in Procs : pc[p] = "storeKey" => keychain = NoKey
    /\ mode = "shared" => \A p \in Procs : pc[p] # "storeKey"
    /\ mode = "stranger" => vault \in Strangers /\ disk = {vault}
    /\ mode = "stranger" =>
          \A p \in Procs : pc[p] \notin Saving \cup {"output", "fsyncDir"}

\* What may be found at the vault path is complete, on the disk, and sealed
\* with the key in the slot.
FilesWhole ==
    /\ vault \in disk
    /\ \A f \in disk \ {NoFile} :
          /\ f.whole /\ f.synced
          /\ ~replaced => f.key = IF mode = "stranger" THEN Stranger ELSE keychain

\* A tmp file holds what its process saves, and is complete and synced
\* before it is renamed.
TmpReady ==
    \A p \in Procs :
       pc[p] \in {"body", "fsyncBody", "rename"} /\ tmp[p] # NoFile =>
          /\ tmp[p].key = key[p]
          /\ tmp[p].entries = mem[p]
          /\ pc[p] \in {"fsyncBody", "rename"} => tmp[p].whole
          /\ pc[p] = "rename" => tmp[p].synced

\* What a process saves is what its command makes of the labels it read.
Applied(c, was, now) ==
    \/ c.op = "register" /\ c.label \notin was /\ now = was \cup {c.label}
    \/ c.op = "forget" /\ c.label \in was /\ now = was \ {c.label}

Decided ==
    \A p \in Procs :
       /\ pc[p] \in Saving \cup {"fsyncDir"} =>
             Applied(cmd[p], Contents(before[p]), mem[p])
       /\ pc[p] = "output" => cmd[p].op = "use"

\* With one command at a time nobody else touches the vault.
Undisturbed ==
    OneByOne =>
       \A p \in Procs :
          /\ pc[p] \notin {"idle", "fsyncDir"} => before[p] = vault
          /\ pc[p] \in Saving => mem[p] \in attempts
          /\ pc[p] = "fsyncDir" => Contents(vault) = mem[p]

Parts ==
    /\ KeysHeld
    /\ ModesKept
    /\ FilesWhole
    /\ TmpReady
    /\ Decided
    /\ Undisturbed
    /\ AckedIsDurable

IndInv == TypeOK /\ KeysCounted /\ Parts

-----------------------------------------------------------------------------
(* What the operators of Keychain and Vault give.                          *)

\* fetch reports an empty slot only if the slot is empty, and a key only if
\* there is one: no keychain error passes for either.
LEMMA FetchSound ==
    ASSUME NEW slot, NEW fault \in FetchFaults(slot)
    PROVE  /\ Fetch(slot, fault) = "Empty" => slot = NoKey
           /\ Fetch(slot, fault) = "Key" => slot # NoKey
BY DEF Fetch, FetchFaults, CallFaults, KeyringErrors, MapKeyringError

\* A command goes on to save only what it applied to the labels it read.
LEMMA DecideApplies ==
    ASSUME NEW c \in Commands, NEW S \in SUBSET Labels
    PROVE  /\ Decide(c, S).save \in SUBSET Labels
           /\ Decide(c, S).exit \in {"none", "ok", "exists", "missing"}
           /\ Decide(c, S).exit = "none" => Applied(c, S, Decide(c, S).save)
           /\ Decide(c, S).exit = "ok" => c.op \in {"list", "use"}
           /\ Decide(c, S).exit = "exists" => c.op = "register" /\ c.label \in S
           /\ Decide(c, S).exit = "missing" => c.op = "forget" /\ c.label \notin S
           /\ c.op = "use" => Decide(c, S).exit = "ok"
BY DEF Decide, Applied, Commands

\* What a file holds are labels.
LEMMA ContentsLabels ==
    ASSUME NEW f \in File \cup {NoFile} PROVE Contents(f) \in SUBSET Labels
BY DEF Contents, File

\* Sealing makes a file.
LEMMA SealedIsFile ==
    ASSUME NEW k \in Keys, NEW S \in SUBSET Labels,
           NEW w \in BOOLEAN, NEW s \in BOOLEAN
    PROVE  [SealedBy(k, S) EXCEPT !.whole = w, !.synced = s] \in File \ {NoFile}
BY FileAssumption DEF SealedBy, File, Heads

\* Completing or syncing a file leaves a file.
LEMMA FileFlags ==
    ASSUME NEW f \in File, NEW w \in BOOLEAN, NEW s \in BOOLEAN
    PROVE  /\ [f EXCEPT !.whole = w] \in File
           /\ [f EXCEPT !.synced = s] \in File
           /\ [f EXCEPT !.whole = w, !.synced = s] \in File
BY DEF File

\* Completing a file changes nothing else of it.
LEMMA FileCompleted ==
    ASSUME NEW f \in File, NEW g, g = [f EXCEPT !.whole = TRUE]
    PROVE  g.key = f.key /\ g.entries = f.entries /\ g.whole
BY DEF File

\* Syncing a file changes nothing else of it.
LEMMA FileSynced ==
    ASSUME NEW f \in File, NEW g, g = [f EXCEPT !.synced = TRUE]
    PROVE  g.key = f.key /\ g.entries = f.entries /\ g.whole = f.whole /\ g.synced
BY DEF File

\* The files of the mode "stranger".
LEMMA StrangersAreFiles ==
    /\ Strangers \subseteq File
    /\ \A f \in Strangers : f.whole /\ f.synced /\ f.key = Stranger
<1>1. Stranger \in Keys
  BY BoundsAssumption DEF Keys, Stranger
<1>2. Strangers \subseteq File
  BY <1>1 DEF Strangers, SealedBy, File, Heads
<1>3. \A f \in Strangers : f.whole /\ f.synced /\ f.key = Stranger
  BY DEF Strangers, SealedBy
<1>4. QED
  BY <1>2, <1>3

\* A power loss leaves a file, and leaves a synced one alone.
LEMMA PowerLossFile ==
    ASSUME NEW f \in File \cup {NoFile}, NEW g \in AfterPowerLoss(f)
    PROVE  /\ g \in File \cup {NoFile}
           /\ f = NoFile \/ f.synced => g = f
BY FileAssumption, FileFlags DEF AfterPowerLoss

\* Decrypting with a key that is not the sealing one is an error.
LEMMA DecryptSound ==
    ASSUME NEW k, NEW f \in File \cup {NoFile}
    PROVE  /\ DecryptError(k, f) \in
                 {"none", "TruncatedFile", "BadMagic", "UnsupportedVersion", "AeadDecrypt"}
           /\ DecryptError(k, f) = "none" => f = NoFile \/ f.key = k
BY DEF DecryptError, File

-----------------------------------------------------------------------------
(* The number of commands that may still generate a key.                   *)

\* A process that leaves the steps before the key, or is not at one, lowers
\* the number by one or keeps it.
LEMMA FetchingLeft ==
    ASSUME NEW p \in Procs, NEW step, step \notin {"scan", "fetch"}, TypeOK,
           IsFiniteSet(Fetching), pc' = [pc EXCEPT ![p] = step]
    PROVE  /\ IsFiniteSet(Fetching')
           /\ Cardinality(Fetching') <= Cardinality(Fetching)
           /\ pc[p] \in {"scan", "fetch"} =>
                 Cardinality(Fetching') = Cardinality(Fetching) - 1
           /\ Cardinality(Fetching) \in Nat /\ Cardinality(Fetching') \in Nat
<1>1. Fetching' = Fetching \ {p}
  BY DEF Fetching, TypeOK
<1>2. p \in Fetching <=> pc[p] \in {"scan", "fetch"}
  BY DEF Fetching
<1>3. /\ IsFiniteSet(Fetching \ {p})
      /\ Cardinality(Fetching \ {p}) =
            IF p \in Fetching THEN Cardinality(Fetching) - 1 ELSE Cardinality(Fetching)
  BY FS_RemoveElement
<1>4. Cardinality(Fetching) \in Nat /\ Cardinality(Fetching \ {p}) \in Nat
  BY <1>3, FS_CardinalityType
<1>5. QED
  BY <1>1, <1>2, <1>3, <1>4

\* A process that comes to one of these steps raises it by one at most.
LEMMA FetchingEntered ==
    ASSUME NEW p \in Procs, TypeOK, NEW step \in {"scan", "fetch"},
           IsFiniteSet(Fetching), pc' = [pc EXCEPT ![p] = step]
    PROVE  /\ IsFiniteSet(Fetching')
           /\ Cardinality(Fetching') <= Cardinality(Fetching) + 1
           /\ pc[p] \in {"scan", "fetch"} =>
                 Cardinality(Fetching') = Cardinality(Fetching)
           /\ Cardinality(Fetching) \in Nat /\ Cardinality(Fetching') \in Nat
<1>1. Fetching' = Fetching \cup {p}
  BY DEF Fetching, TypeOK
<1>2. p \in Fetching <=> pc[p] \in {"scan", "fetch"}
  BY DEF Fetching
<1>3. /\ IsFiniteSet(Fetching \cup {p})
      /\ Cardinality(Fetching \cup {p}) =
            IF p \in Fetching THEN Cardinality(Fetching) ELSE Cardinality(Fetching) + 1
  BY FS_AddElement
<1>4. Cardinality(Fetching) \in Nat /\ Cardinality(Fetching \cup {p}) \in Nat
  BY <1>3, FS_CardinalityType
<1>5. QED
  BY <1>1, <1>2, <1>3, <1>4

-----------------------------------------------------------------------------
(* Types and the number of keys.                                           *)

\* A step that moves its process on, past the fetch, and leaves the keys alone
\* keeps the count.
LEMMA CountKept ==
    ASSUME NEW p \in Procs, NEW step, step \notin {"scan", "fetch"}, TypeOK,
           KeysCounted, pc' = [pc EXCEPT ![p] = step],
           UNCHANGED <<mode, key, keyVars, started>>
    PROVE  KeysCounted'
<1>1. /\ IsFiniteSet(Fetching') /\ Cardinality(Fetching') <= Cardinality(Fetching)
      /\ Cardinality(Fetching) \in Nat /\ Cardinality(Fetching') \in Nat
  BY FetchingLeft DEF KeysCounted
<1>2. started \in Nat /\ fresh \in Nat
  BY BoundsAssumption DEF TypeOK
<1>3. QED
  BY <1>1, <1>2 DEF KeysCounted, keyVars

\* Types are kept.
LEMMA StepKeepsTypes ==
    ASSUME IndInv, [Next]_<<mode, vars>> PROVE TypeOK' /\ KeysCounted'
<1> USE DEF IndInv, Parts
<1>1. /\ MaxCommands \in Nat /\ MaxFaults \in Nat /\ NoKey \notin Keys
      /\ fresh \in Nat /\ Stranger \in Keys /\ Cardinality(Fetching) \in Nat
      /\ IsFiniteSet(Fetching)
      /\ started \in Nat /\ keychain \in Nat /\ \A q \in Procs : key[q] \in Nat
  BY BoundsAssumption, FS_CardinalityType DEF Keys, NoKey, Stranger, TypeOK, KeysCounted
<1>2. ASSUME NEW p \in Procs, NEW c \in Commands, Start(p, c), mode' = mode
      PROVE  TypeOK' /\ KeysCounted'
  <2>1. TypeOK'
    BY <1>1, <1>2 DEF Start, TypeOK, Exit, Fault, Ok, keyVars, fileVars, Steps, Results
  <2>2. pc' = [pc EXCEPT ![p] = "scan"] \/ pc' = [pc EXCEPT ![p] = "idle"]
    BY <1>2 DEF Start, Exit
  <2>3. IsFiniteSet(Fetching') /\ Cardinality(Fetching') <= Cardinality(Fetching) + 1
        /\ Cardinality(Fetching') \in Nat
    BY <1>1, <2>2, FetchingEntered, FetchingLeft
  <2>4. QED
    BY <1>1, <1>2, <2>1, <2>3 DEF Start, KeysCounted, TypeOK, keyVars, NoKey
<1>3. ASSUME NEW p \in Procs, RemoveOrphans(p), mode' = mode
      PROVE  TypeOK' /\ KeysCounted'
  <2>1. TypeOK'
    BY <1>1, <1>3 DEF RemoveOrphans, TypeOK, Goto, Fault, Ok, keyVars, histVars, Steps
  <2>2. IsFiniteSet(Fetching') /\ Cardinality(Fetching') = Cardinality(Fetching)
    BY <1>1, <1>3, FetchingEntered DEF RemoveOrphans, Goto
  <2>3. QED
    BY <1>1, <1>3, <2>1, <2>2 DEF RemoveOrphans, KeysCounted, keyVars
<1>4. ASSUME NEW p \in Procs, FetchKey(p), mode' = mode
      PROVE  TypeOK' /\ KeysCounted'
  <2>1. PICK fault \in FetchFaults(keychain) :
           LET got == Fetch(keychain, fault) IN
           \/ /\ got = "Key"
              /\ key' = [key EXCEPT ![p] = keychain]
              /\ Goto(p, "read")
              /\ Ok
              /\ UNCHANGED <<mem, keyVars, fileVars, histVars>>
           \/ /\ got = "Empty"
              /\ fresh' = fresh + 1
              /\ key' = [key EXCEPT ![p] = fresh + 1]
              /\ Goto(p, "storeKey")
              /\ IF fault = "none" THEN Ok ELSE Fault
              /\ UNCHANGED <<mem, keychain, fileVars, histVars>>
           \/ FailsWith(p, "panicked") \/ FailsWith(p, "failed")
    BY <1>4 DEF FetchKey, RandomFails
  <2>2. UNCHANGED <<cmd, started>> /\ pc[p] = "fetch"
    BY <1>4 DEF FetchKey
  <2>3. CASE FailsWith(p, "panicked") \/ FailsWith(p, "failed")
    <3>1. TypeOK'
      BY <1>1, <1>4, <2>2, <2>3
         DEF TypeOK, FailsWith, Fault, Exit, keyVars, fileVars, histVars, Steps, Results
    <3>2. QED
      BY <1>4, <2>2, <2>3, <3>1, CountKept DEF FailsWith, Exit
  <2>4. ASSUME key' = [key EXCEPT ![p] = keychain], Goto(p, "read"), Ok,
               UNCHANGED <<mem, keyVars, fileVars, histVars>>
        PROVE  TypeOK' /\ KeysCounted'
    <3>1. TypeOK'
      BY <1>1, <1>4, <2>2, <2>4
         DEF TypeOK, Goto, Ok, keyVars, fileVars, histVars, Steps
    <3>2. /\ IsFiniteSet(Fetching') /\ Cardinality(Fetching') <= Cardinality(Fetching)
          /\ Cardinality(Fetching') \in Nat
      BY <1>1, <2>4, FetchingLeft DEF Goto
    <3>3. QED
      BY <1>1, <1>4, <2>2, <2>4, <3>1, <3>2 DEF TypeOK, KeysCounted, keyVars
  <2>5. ASSUME Fetch(keychain, fault) = "Empty", fresh' = fresh + 1,
               key' = [key EXCEPT ![p] = fresh + 1], Goto(p, "storeKey"),
               Ok \/ Fault,
               UNCHANGED <<mem, keychain, fileVars, histVars>>
        PROVE  TypeOK' /\ KeysCounted'
    <3>1. keychain = NoKey /\ mode # "shared"
      BY <2>5, FetchSound DEF KeysCounted, NoKey
    <3>2. /\ IsFiniteSet(Fetching') /\ Cardinality(Fetching') = Cardinality(Fetching) - 1
          /\ Cardinality(Fetching') \in Nat
      BY <1>1, <2>2, <2>5, FetchingLeft DEF Goto
    <3>3. fresh + 1 <= started /\ started <= MaxCommands /\ fresh + 1 \in Keys
      BY <1>1, <3>1, <3>2 DEF TypeOK, KeysCounted, Keys, Stranger
    <3>4. TypeOK'
      BY <1>1, <1>4, <2>2, <2>5, <3>3
         DEF TypeOK, Goto, Ok, Fault, fileVars, histVars, Steps
    <3>5. QED
      BY <1>1, <1>4, <2>2, <2>5, <3>1, <3>2, <3>4 DEF TypeOK, KeysCounted, NoKey
  <2>6. QED
    BY <2>1, <2>3, <2>4, <2>5
<1>5. ASSUME NEW p \in Procs, StoreKey(p), mode' = mode
      PROVE  TypeOK' /\ KeysCounted'
  <2>1. CASE FailsWith(p, "failed")
    <3>1. TypeOK'
      BY <1>1, <1>5, <2>1
         DEF TypeOK, StoreKey, FailsWith, Fault, Exit, keyVars, fileVars, histVars,
             Steps, Results
    <3>2. QED
      BY <1>5, <2>1, <3>1, CountKept DEF FailsWith, Exit, StoreKey
  <2>2. CASE /\ keychain' = key[p]
             /\ Goto(p, "read")
             /\ replaced' = (replaced \/ keychain # NoKey)
             /\ Ok
             /\ UNCHANGED <<key, mem, fresh, fileVars, acked, attempts, before>>
    <3>1. TypeOK'
      BY <1>1, <1>5, <2>2 DEF TypeOK, StoreKey, Goto, Ok, fileVars, Steps
    <3>2. /\ IsFiniteSet(Fetching') /\ Cardinality(Fetching') <= Cardinality(Fetching)
          /\ Cardinality(Fetching') \in Nat
      BY <1>1, <2>2, FetchingLeft DEF Goto
    <3>3. mode # "shared"
      BY <1>5 DEF StoreKey, ModesKept
    <3>4. QED
      BY <1>1, <1>5, <2>2, <3>1, <3>2, <3>3 DEF StoreKey, TypeOK, KeysCounted
  <2>3. QED
    BY <1>5, <2>1, <2>2 DEF StoreKey
<1>6. ASSUME NEW p \in Procs, ReadVault(p), mode' = mode
      PROVE  TypeOK' /\ KeysCounted'
  <2>1. /\ Decide(cmd[p], Contents(vault)).save \in SUBSET Labels
        /\ Decide(cmd[p], Contents(vault)).exit \in {"none", "ok", "exists", "missing"}
    BY ContentsLabels, DecideApplies DEF TypeOK
  <2>2. DecryptError(key[p], vault) \in
           {"none", "TruncatedFile", "BadMagic", "UnsupportedVersion", "AeadDecrypt"}
    BY DecryptSound DEF TypeOK
  <2>3. TypeOK'
    BY <1>1, <1>6, <2>1, <2>2
       DEF TypeOK, ReadVault, FailsWith, Fault, Ok, Exit, Goto, keyVars, fileVars,
           histVars, Steps, Results
  <2>4. QED
    <3>1. \E step \in {"create", "output", "idle"} : pc' = [pc EXCEPT ![p] = step]
      BY <1>6 DEF ReadVault, FailsWith, Exit, Goto
    <3>2. UNCHANGED <<mode, key, keyVars, started>>
      BY <1>6 DEF ReadVault, FailsWith
    <3>3. QED
      BY <2>3, <3>1, <3>2, CountKept
<1>7. ASSUME NEW p \in Procs, WriteOutput(p), mode' = mode
      PROVE  TypeOK' /\ KeysCounted'
  <2>1. TypeOK'
    BY <1>1, <1>7
       DEF TypeOK, WriteOutput, FailsWith, Fault, Ok, Exit, keyVars, fileVars,
           histVars, Steps, Results
  <2>2. \E step \in {"idle"} : pc' = [pc EXCEPT ![p] = step]
    BY <1>7 DEF WriteOutput, FailsWith, Exit
  <2>3. UNCHANGED <<mode, key, keyVars, started>>
    BY <1>7 DEF WriteOutput, FailsWith
  <2>4. QED
    BY <2>1, <2>2, <2>3, CountKept
<1>8. ASSUME NEW p \in Procs, CreateTmp(p), mode' = mode
      PROVE  TypeOK' /\ KeysCounted'
  <2>1. [SealedBy(key[p], mem[p]) EXCEPT !.whole = FALSE, !.synced = FALSE] \in File
    BY <1>1, <1>8, SealedIsFile DEF CreateTmp, TypeOK, KeysHeld, Opened, Saving
  <2>2. TypeOK'
    BY <1>1, <1>8, <2>1
       DEF TypeOK, CreateTmp, OpenTmp, RandomFails, FailsWith, Goto, Fault, Ok, Exit, keyVars, fileVars,
           histVars, Steps, Results
  <2>3. \E step \in {"body", "idle"} : pc' = [pc EXCEPT ![p] = step]
    BY <1>8 DEF CreateTmp, RandomFails, FailsWith, Goto, Exit
  <2>4. UNCHANGED <<mode, key, keyVars, started>>
    BY <1>8 DEF CreateTmp, FailsWith, RandomFails
  <2>5. QED
    BY <2>2, <2>3, <2>4, CountKept
<1>9. ASSUME NEW p \in Procs, WriteBody(p), mode' = mode
      PROVE  TypeOK' /\ KeysCounted'
  <2>1. tmp[p] # NoFile => [tmp[p] EXCEPT !.whole = TRUE] \in File
    BY FileFlags DEF TypeOK
  <2>2. TypeOK'
    <3>1. tmp' \in [Procs -> File \cup {NoFile}]
      BY <1>9, <2>1 DEF TypeOK, WriteBody, OnTmp, FailsWith, fileVars
    <3>2. QED
      BY <1>1, <1>9, <3>1
         DEF TypeOK, WriteBody, FailsWith, Goto, Fault, Ok, Exit, keyVars, fileVars,
             histVars, Steps, Results
  <2>3. \E step \in {"fsyncBody", "idle"} : pc' = [pc EXCEPT ![p] = step]
    BY <1>9 DEF WriteBody, FailsWith, Goto, Exit
  <2>4. UNCHANGED <<mode, key, keyVars, started>>
    BY <1>9 DEF WriteBody, FailsWith
  <2>5. QED
    BY <2>2, <2>3, <2>4, CountKept
<1>10. ASSUME NEW p \in Procs, FsyncBody(p), mode' = mode
       PROVE  TypeOK' /\ KeysCounted'
  <2>1. tmp[p] # NoFile => [tmp[p] EXCEPT !.synced = TRUE] \in File
    BY FileFlags DEF TypeOK
  <2>2. TypeOK'
    <3>1. tmp' \in [Procs -> File \cup {NoFile}]
      BY <1>10, <2>1 DEF TypeOK, FsyncBody, OnTmp, FailsWith, fileVars
    <3>2. QED
      BY <1>1, <1>10, <3>1
         DEF TypeOK, FsyncBody, FailsWith, Goto, Fault, Ok, Exit, keyVars, fileVars,
             histVars, Steps, Results
  <2>3. \E step \in {"rename", "idle"} : pc' = [pc EXCEPT ![p] = step]
    BY <1>10 DEF FsyncBody, FailsWith, Goto, Exit
  <2>4. UNCHANGED <<mode, key, keyVars, started>>
    BY <1>10 DEF FsyncBody, FailsWith
  <2>5. QED
    BY <2>2, <2>3, <2>4, CountKept
<1>11. ASSUME NEW p \in Procs, Rename(p), mode' = mode
      PROVE  TypeOK' /\ KeysCounted'
  <2>1. TypeOK'
    BY <1>1, <1>11
       DEF TypeOK, Rename, FailsWith, Goto, Fault, Ok, Exit, keyVars, fileVars,
           histVars, Steps, Results
  <2>2. \E step \in {"fsyncDir", "idle"} : pc' = [pc EXCEPT ![p] = step]
    BY <1>11 DEF Rename, FailsWith, Goto, Exit
  <2>3. UNCHANGED <<mode, key, keyVars, started>>
    BY <1>11 DEF Rename, FailsWith
  <2>4. QED
    BY <2>1, <2>2, <2>3, CountKept
<1>12. ASSUME NEW p \in Procs, FsyncDir(p), mode' = mode
      PROVE  TypeOK' /\ KeysCounted'
  <2>1. TypeOK'
    BY <1>1, <1>12
       DEF TypeOK, FsyncDir, FailsWith, Fault, Ok, Exit, keyVars, fileVars,
           histVars, Steps, Results
  <2>2. \E step \in {"idle"} : pc' = [pc EXCEPT ![p] = step]
    BY <1>12 DEF FsyncDir, FailsWith, Exit
  <2>3. UNCHANGED <<mode, key, keyVars, started>>
    BY <1>12 DEF FsyncDir, FailsWith
  <2>4. QED
    BY <2>1, <2>2, <2>3, CountKept
<1>13. ASSUME NEW p \in Procs, Kill(p), mode' = mode
      PROVE  TypeOK' /\ KeysCounted'
  <2>1. TypeOK'
    BY <1>1, <1>13
       DEF TypeOK, Kill, Fault, Ok, Exit, keyVars, fileVars,
           histVars, Steps, Results
  <2>2. \E step \in {"idle"} : pc' = [pc EXCEPT ![p] = step]
    BY <1>13 DEF Kill, Exit
  <2>3. UNCHANGED <<mode, key, keyVars, started>>
    BY <1>13 DEF Kill
  <2>4. QED
    BY <2>1, <2>2, <2>3, CountKept
<1>14. CASE PowerLoss /\ mode' = mode
  <2>1. Fault /\ UNCHANGED <<cmd, key, mem, keyVars, started, histVars>>
    BY <1>14 DEF PowerLoss
  <2>2. PICK f \in disk : vault' \in AfterPowerLoss(f)
    BY <1>14 DEF PowerLoss
  <2>3. vault' \in File \cup {NoFile} /\ disk' = {vault'}
    BY <1>14, <2>2, PowerLossFile DEF PowerLoss, TypeOK
  <2>4. tmp' \in [Procs -> File \cup {NoFile}]
    <3>1. PICK lost \in SUBSET Procs :
             tmp' = [p \in Procs |->
                       IF p \in lost \/ tmp[p] = NoFile THEN NoFile
                       ELSE [tmp[p] EXCEPT !.whole = tmp[p].whole /\ tmp[p].synced,
                                           !.synced = TRUE]]
      BY <1>14 DEF PowerLoss
    <3>2. ASSUME NEW p \in Procs, tmp[p] # NoFile
          PROVE  [tmp[p] EXCEPT !.whole = tmp[p].whole /\ tmp[p].synced, !.synced = TRUE]
                    \in File
      <4>1. tmp[p] \in File /\ (tmp[p].whole /\ tmp[p].synced) \in BOOLEAN
        BY <3>2 DEF TypeOK
      <4>2. QED
        BY <4>1, FileFlags
    <3>3. QED
      BY <3>1, <3>2
  <2>5. TypeOK'
    <3>1. pc' \in [Procs -> Steps] /\ result' \in [Procs -> Results]
      BY <1>14 DEF PowerLoss, TypeOK, Steps, Results
    <3>2. faults' \in 0..MaxFaults
      BY <1>1, <2>1 DEF TypeOK, Fault
    <3>3. QED
      BY <1>14, <2>1, <2>3, <2>4, <3>1, <3>2 DEF TypeOK, keyVars, histVars
  <2>6. Fetching' = {}
    BY <1>14 DEF PowerLoss, Fetching
  <2>7. IsFiniteSet(Fetching') /\ Cardinality(Fetching') = 0
    BY <2>6, FS_EmptySet
  <2>8. QED
    BY <1>1, <1>14, <2>1, <2>5, <2>7 DEF KeysCounted, TypeOK, keyVars
<1>15. CASE UNCHANGED <<mode, vars>>
  BY <1>15 DEF vars, TypeOK, KeysCounted, Fetching
<1>16. QED
  BY <1>2, <1>3, <1>4, <1>5, <1>6, <1>7, <1>8, <1>9, <1>10, <1>11, <1>12, <1>13, <1>14, <1>15 DEF Next

-----------------------------------------------------------------------------
(* The other parts of the invariant, one action at a time.                 *)

\* A command that starts keeps the invariant.
LEMMA StartKeeps ==
    ASSUME IndInv, NEW p \in Procs, NEW c \in Commands, Start(p, c), mode' = mode
    PROVE  Parts'
<1>1. KeysHeld' /\ ModesKept' /\ FilesWhole' /\ TmpReady'
  BY DEF IndInv, Parts, TypeOK, Start, Exit, Fault, Ok, keyVars, fileVars,
         KeysHeld, Opened, ModesKept, OneByOne, Running, FilesWhole, TmpReady, Saving
<1>2. Decided' /\ Undisturbed' /\ AckedIsDurable'
  BY DEF IndInv, Parts, TypeOK, Start, Exit, Fault, Ok, keyVars, fileVars,
         Decided, Undisturbed, OneByOne, AckedIsDurable, Saving
<1>3. QED
  BY <1>1, <1>2 DEF Parts

\* A tmp file that is removed cannot be renamed.
LEMMA RemoveOrphansKeeps ==
    ASSUME IndInv, NEW p \in Procs, RemoveOrphans(p), mode' = mode
    PROVE  Parts'
<1>1. KeysHeld' /\ ModesKept' /\ FilesWhole' /\ TmpReady'
  BY DEF IndInv, Parts, TypeOK, RemoveOrphans, Goto, keyVars, histVars,
         KeysHeld, Opened, ModesKept, OneByOne, Running, FilesWhole, TmpReady, Saving
<1>2. Decided' /\ Undisturbed' /\ AckedIsDurable'
  BY DEF IndInv, Parts, TypeOK, RemoveOrphans, Goto, keyVars, histVars,
         Decided, Undisturbed, OneByOne, AckedIsDurable, Saving
<1>3. QED
  BY <1>1, <1>2 DEF Parts

\* A key is generated only for an empty slot, and in the mode "shared" the
\* slot is never empty.
LEMMA FetchKeyKeeps ==
    ASSUME IndInv, NEW p \in Procs, FetchKey(p), mode' = mode
    PROVE  Parts'
<1>1. /\ \/ /\ keychain # NoKey
            /\ key' = [key EXCEPT ![p] = keychain]
            /\ pc' = [pc EXCEPT ![p] = "read"]
         \/ /\ keychain = NoKey
            /\ key' = [key EXCEPT ![p] = fresh + 1]
            /\ pc' = [pc EXCEPT ![p] = "storeKey"]
         \/ /\ pc' = [pc EXCEPT ![p] = "idle"]
            /\ UNCHANGED key
      /\ pc[p] = "fetch"
      /\ UNCHANGED <<cmd, mem, keychain, vault, disk, tmp, acked, attempts, before,
                     replaced>>
  BY FetchSound
     DEF FetchKey, RandomFails, FailsWith, Goto, Exit, keyVars, fileVars, histVars
<1>2. fresh + 1 # NoKey /\ (mode = "shared" => keychain # NoKey)
  BY BoundsAssumption DEF IndInv, TypeOK, KeysCounted, NoKey
<1>3. KeysHeld'
  BY <1>1, <1>2 DEF IndInv, Parts, TypeOK, KeysHeld, Opened, Saving
<1>4. ModesKept'
  BY <1>1, <1>2 DEF IndInv, Parts, TypeOK, ModesKept, OneByOne, Running, Saving
<1>5. FilesWhole' /\ TmpReady' /\ Decided' /\ Undisturbed' /\ AckedIsDurable'
  BY <1>1 DEF IndInv, Parts, TypeOK, FilesWhole, TmpReady, Decided, Undisturbed,
              OneByOne, AckedIsDurable, Saving
<1>6. QED
  BY <1>3, <1>4, <1>5 DEF Parts

\* A key that takes the place of none takes nothing away: nobody holds a key
\* yet and there is no vault.
LEMMA StoreKeyKeeps ==
    ASSUME IndInv, NEW p \in Procs, StoreKey(p), mode' = mode
    PROVE  Parts'
<1>1. /\ \/ /\ keychain' = key[p]
            /\ pc' = [pc EXCEPT ![p] = "read"]
            /\ replaced' <=> replaced \/ keychain # NoKey
         \/ /\ pc' = [pc EXCEPT ![p] = "idle"]
            /\ UNCHANGED <<keychain, replaced>>
      /\ pc[p] = "storeKey"
      /\ UNCHANGED <<cmd, key, mem, vault, disk, tmp, acked, attempts, before>>
  BY DEF StoreKey, FailsWith, Goto, Exit, keyVars, fileVars, histVars
<1>2. keychain # NoKey => mode = "firstRuns"
  BY <1>1 DEF IndInv, Parts, TypeOK, ModesKept, OneByOne, Modes
<1>3. KeysHeld'
  BY <1>1, <1>2 DEF IndInv, Parts, TypeOK, KeysHeld, Opened, Saving
<1>4. ModesKept'
  BY <1>1, <1>2 DEF IndInv, Parts, TypeOK, ModesKept, OneByOne, Running, Saving
<1>5. FilesWhole'
  <2>1. \A f \in disk \ {NoFile} : f.key # NoKey
    BY BoundsAssumption DEF IndInv, TypeOK, File, Keys, NoKey, Stranger
  <2>2. QED
    BY <1>1, <2>1 DEF IndInv, Parts, FilesWhole
<1>6. TmpReady' /\ Decided' /\ Undisturbed' /\ AckedIsDurable'
  BY <1>1 DEF IndInv, Parts, TypeOK, TmpReady, Decided, Undisturbed, OneByOne,
              AckedIsDurable, Saving
<1>7. QED
  BY <1>3, <1>4, <1>5, <1>6 DEF Parts

\* A file that is no vault of this keychain is refused: its key, if it has our
\* header at all, is none this keychain generated.
LEMMA StrangerRefused ==
    ASSUME IndInv, NEW p \in Procs, mode = "stranger"
    PROVE  DecryptError(key[p], vault) # "none"
<1>1. vault \in Strangers
  BY DEF IndInv, Parts, ModesKept
<1>2. vault.key = Stranger /\ vault # NoFile
  BY <1>1, StrangersAreFiles, FileAssumption
<1>3. key[p] # Stranger
  <2>1. fresh <= started /\ started <= MaxCommands /\ key[p] <= fresh
    BY FS_CardinalityType, BoundsAssumption DEF IndInv, KeysCounted, TypeOK
  <2>2. fresh \in Nat /\ started \in Nat /\ key[p] \in Nat
    BY BoundsAssumption DEF IndInv, TypeOK, Keys, NoKey, Stranger
  <2>3. QED
    BY <2>1, <2>2, BoundsAssumption DEF Stranger
<1>4. QED
  BY <1>2, <1>3, DecryptSound DEF IndInv, TypeOK

\* Reading the vault keeps it.
LEMMA ReadVaultKeeps ==
    ASSUME IndInv, NEW p \in Procs, ReadVault(p), mode' = mode
    PROVE  Parts'
<1> DEFINE d == Decide(cmd[p], Contents(vault))
<1>1. /\ \/ /\ DecryptError(key[p], vault) = "none"
            /\ mem' = [mem EXCEPT ![p] = d.save]
            /\ before' = [before EXCEPT ![p] = vault]
            /\ \/ /\ d.exit = "none"
                  /\ pc' = [pc EXCEPT ![p] = "create"]
                  /\ attempts' = attempts \cup {d.save}
               \/ /\ cmd[p].op = "use"
                  /\ pc' = [pc EXCEPT ![p] = "output"]
                  /\ UNCHANGED attempts
               \/ /\ pc' = [pc EXCEPT ![p] = "idle"]
                  /\ UNCHANGED attempts
         \/ /\ pc' = [pc EXCEPT ![p] = "idle"]
            /\ UNCHANGED <<mem, before, attempts>>
      /\ pc[p] = "read"
      /\ UNCHANGED <<cmd, key, keychain, vault, disk, tmp, acked, replaced>>
  BY DEF ReadVault, FailsWith, Goto, Exit, keyVars, fileVars, histVars
<1>2. d.exit = "none" => Applied(cmd[p], Contents(vault), d.save)
  BY ContentsLabels, DecideApplies DEF IndInv, TypeOK
<1> HIDE DEF d
<1>3. KeysHeld'
  BY <1>1 DEF IndInv, Parts, TypeOK, KeysHeld, Opened, Saving
<1>4. ModesKept'
  BY <1>1, StrangerRefused
     DEF IndInv, Parts, TypeOK, ModesKept, OneByOne, Running, Saving
<1>5. FilesWhole' /\ TmpReady'
  BY <1>1 DEF IndInv, Parts, TypeOK, FilesWhole, TmpReady
<1>6. Decided'
  BY <1>1, <1>2 DEF IndInv, Parts, TypeOK, Decided, Saving
<1>7. Undisturbed' /\ AckedIsDurable'
  BY <1>1 DEF IndInv, Parts, TypeOK, Undisturbed, OneByOne, AckedIsDurable, Saving
<1>8. QED
  BY <1>3, <1>4, <1>5, <1>6, <1>7 DEF Parts

\* Printing keeps it.
LEMMA WriteOutputKeeps ==
    ASSUME IndInv, NEW p \in Procs, WriteOutput(p), mode' = mode
    PROVE  Parts'
<1>1. KeysHeld' /\ ModesKept' /\ FilesWhole' /\ TmpReady'
  BY DEF IndInv, Parts, TypeOK, WriteOutput, FailsWith, Exit, keyVars, fileVars, histVars,
         KeysHeld, Opened, ModesKept, OneByOne, Running, FilesWhole, TmpReady, Saving
<1>2. Decided' /\ Undisturbed' /\ AckedIsDurable'
  BY DEF IndInv, Parts, TypeOK, WriteOutput, FailsWith, Exit, keyVars, fileVars, histVars,
         Decided, Undisturbed, OneByOne, AckedIsDurable, Saving
<1>3. QED
  BY <1>1, <1>2 DEF Parts

-----------------------------------------------------------------------------
(* write_atomic.                                                           *)

\* Creating the temporary file keeps it: the vault is not touched.
LEMMA CreateTmpKeeps ==
    ASSUME IndInv, NEW p \in Procs, CreateTmp(p), mode' = mode
    PROVE  Parts'
<1>1. /\ \/ pc' = [pc EXCEPT ![p] = "body"] /\ OpenTmp(p)
         \/ pc' = [pc EXCEPT ![p] = "idle"] /\ UNCHANGED tmp
      /\ pc[p] = "create"
      /\ UNCHANGED <<cmd, key, mem, keychain, vault, disk, acked, attempts, before,
                     replaced>>
  BY DEF CreateTmp, RandomFails, FailsWith, Goto, Exit, keyVars, fileVars, histVars
<1>2. TmpReady'
  <2>1. OpenTmp(p) => /\ tmp' = [tmp EXCEPT ![p] = tmp'[p]]
                      /\ tmp'[p].key = key[p] /\ tmp'[p].entries = mem[p]
    BY DEF OpenTmp, SealedBy, IndInv, TypeOK
  <2>2. QED
    BY <1>1, <2>1 DEF IndInv, Parts, TypeOK, TmpReady
<1>3. KeysHeld' /\ ModesKept' /\ FilesWhole'
  BY <1>1 DEF IndInv, Parts, TypeOK, KeysHeld, Opened, ModesKept, OneByOne, Running,
              FilesWhole, Saving
<1>4. Decided' /\ Undisturbed' /\ AckedIsDurable'
  BY <1>1 DEF IndInv, Parts, TypeOK, Decided, Undisturbed, OneByOne, AckedIsDurable,
              Saving
<1>5. QED
  BY <1>2, <1>3, <1>4 DEF Parts

\* Writing the temporary file keeps it.
LEMMA WriteBodyKeeps ==
    ASSUME IndInv, NEW p \in Procs, WriteBody(p), mode' = mode
    PROVE  Parts'
<1>1. /\ \/ /\ pc' = [pc EXCEPT ![p] = "fsyncBody"]
            /\ tmp' = [tmp EXCEPT ![p] = tmp'[p]]
            /\ \/ tmp'[p] = NoFile
               \/ /\ tmp[p] # NoFile
                  /\ tmp'[p] = [tmp[p] EXCEPT !.whole = TRUE]
         \/ pc' = [pc EXCEPT ![p] = "idle"] /\ UNCHANGED tmp
      /\ pc[p] = "body"
      /\ UNCHANGED <<cmd, key, mem, keychain, vault, disk, acked, attempts, before,
                     replaced>>
  BY DEF WriteBody, OnTmp, FailsWith, Goto, Exit, keyVars, fileVars, histVars, IndInv, TypeOK
<1>2. TmpReady'
  <2>1. tmp[p] # NoFile => tmp[p] \in File
    BY DEF IndInv, TypeOK
  <2>2. tmp[p] # NoFile /\ tmp'[p] = [tmp[p] EXCEPT !.whole = TRUE] =>
           tmp'[p].key = tmp[p].key /\ tmp'[p].entries = tmp[p].entries /\ tmp'[p].whole
    BY <2>1, FileCompleted
  <2>3. QED
    BY <1>1, <2>2 DEF IndInv, Parts, TypeOK, TmpReady
<1>3. KeysHeld' /\ ModesKept' /\ FilesWhole'
  BY <1>1 DEF IndInv, Parts, TypeOK, KeysHeld, Opened, ModesKept, OneByOne, Running,
              FilesWhole, Saving
<1>4. Decided' /\ Undisturbed' /\ AckedIsDurable'
  BY <1>1 DEF IndInv, Parts, TypeOK, Decided, Undisturbed, OneByOne, AckedIsDurable,
              Saving
<1>5. QED
  BY <1>2, <1>3, <1>4 DEF Parts

\* Syncing the temporary file keeps it: what will be renamed is whole.
LEMMA FsyncBodyKeeps ==
    ASSUME IndInv, NEW p \in Procs, FsyncBody(p), mode' = mode
    PROVE  Parts'
<1>1. /\ \/ /\ pc' = [pc EXCEPT ![p] = "rename"]
            /\ tmp' = [tmp EXCEPT ![p] = tmp'[p]]
            /\ \/ tmp'[p] = NoFile
               \/ /\ tmp[p] # NoFile
                  /\ tmp'[p] = [tmp[p] EXCEPT !.synced = TRUE]
         \/ pc' = [pc EXCEPT ![p] = "idle"] /\ UNCHANGED tmp
      /\ pc[p] = "fsyncBody"
      /\ UNCHANGED <<cmd, key, mem, keychain, vault, disk, acked, attempts, before,
                     replaced>>
  BY DEF FsyncBody, OnTmp, FailsWith, Goto, Exit, keyVars, fileVars, histVars, IndInv, TypeOK
<1>2. TmpReady'
  <2>1. tmp[p] # NoFile => tmp[p] \in File
    BY DEF IndInv, TypeOK
  <2>2. tmp[p] # NoFile /\ tmp'[p] = [tmp[p] EXCEPT !.synced = TRUE] =>
           /\ tmp'[p].key = tmp[p].key /\ tmp'[p].entries = tmp[p].entries
           /\ tmp'[p].whole = tmp[p].whole /\ tmp'[p].synced
    BY <2>1, FileSynced
  <2>3. QED
    BY <1>1, <2>2 DEF IndInv, Parts, TypeOK, TmpReady
<1>3. KeysHeld' /\ ModesKept' /\ FilesWhole'
  BY <1>1 DEF IndInv, Parts, TypeOK, KeysHeld, Opened, ModesKept, OneByOne, Running,
              FilesWhole, Saving
<1>4. Decided' /\ Undisturbed' /\ AckedIsDurable'
  BY <1>1 DEF IndInv, Parts, TypeOK, Decided, Undisturbed, OneByOne, AckedIsDurable,
              Saving
<1>5. QED
  BY <1>2, <1>3, <1>4 DEF Parts

\* The file that takes the vault's place is complete, synced, sealed with the
\* key in the slot, and holds what its command decided on.
LEMMA RenameKeeps ==
    ASSUME IndInv, NEW p \in Procs, Rename(p), mode' = mode
    PROVE  Parts'
<1>1. /\ \/ /\ tmp[p] # NoFile
            /\ vault' = tmp[p]
            /\ disk' = disk \cup {tmp[p]}
            /\ tmp' = [tmp EXCEPT ![p] = NoFile]
            /\ pc' = [pc EXCEPT ![p] = "fsyncDir"]
         \/ /\ pc' = [pc EXCEPT ![p] = "idle"]
            /\ UNCHANGED <<vault, disk, tmp>>
      /\ pc[p] = "rename"
      /\ UNCHANGED <<cmd, key, mem, keychain, acked, attempts, before, replaced>>
  BY DEF Rename, FailsWith, Goto, Exit, keyVars, fileVars, histVars
<1>2. /\ mode # "stranger"
      /\ ~replaced => key[p] = keychain
  BY <1>1 DEF IndInv, Parts, TypeOK, ModesKept, KeysHeld, Opened, Saving
<1>3. tmp[p] # NoFile =>
         /\ tmp[p].whole /\ tmp[p].synced
         /\ tmp[p].key = key[p]
         /\ Contents(tmp[p]) = mem[p]
  BY <1>1 DEF IndInv, Parts, TmpReady, Contents
<1>4. KeysHeld'
  BY <1>1 DEF IndInv, Parts, TypeOK, KeysHeld, Opened, Saving
<1>5. ModesKept'
  BY <1>1, <1>2 DEF IndInv, Parts, TypeOK, ModesKept, OneByOne, Running, Saving
<1>6. FilesWhole'
  BY <1>1, <1>2, <1>3 DEF IndInv, Parts, FilesWhole
<1>7. TmpReady' /\ Decided'
  BY <1>1 DEF IndInv, Parts, TypeOK, TmpReady, Decided, Saving
<1>8. Undisturbed'
  <2>1. OneByOne => \A q \in Procs \ {p} : pc[q] = "idle"
    BY <1>1 DEF IndInv, Parts, ModesKept, Running
  <2>2. QED
    BY <1>1, <1>3, <2>1 DEF IndInv, Parts, TypeOK, Undisturbed, OneByOne, Saving
<1>9. AckedIsDurable'
  <2>1. mode = "alone" => mem[p] \in attempts
    BY <1>1 DEF IndInv, Parts, Undisturbed, OneByOne, Saving
  <2>2. QED
    BY <1>1, <1>3, <2>1 DEF IndInv, Parts, AckedIsDurable
<1>10. QED
  BY <1>4, <1>5, <1>6, <1>7, <1>8, <1>9 DEF Parts

\* What is acknowledged is what the vault path names, and nothing else can
\* be found there any more.
LEMMA FsyncDirKeeps ==
    ASSUME IndInv, NEW p \in Procs, FsyncDir(p), mode' = mode
    PROVE  Parts'
<1>1. /\ \/ /\ disk' = {vault}
            /\ acked' = mem[p]
            /\ attempts' = {}
         \/ UNCHANGED <<disk, acked, attempts>>
      /\ pc[p] = "fsyncDir"
      /\ pc' = [pc EXCEPT ![p] = "idle"]
      /\ UNCHANGED <<cmd, key, mem, keychain, vault, tmp, before, replaced>>
  BY DEF FsyncDir, FailsWith, Exit, keyVars, fileVars, histVars
<1>2. OneByOne => \A q \in Procs \ {p} : pc[q] = "idle"
  BY <1>1 DEF IndInv, Parts, ModesKept, Running
<1>3. KeysHeld' /\ TmpReady' /\ Decided'
  BY <1>1 DEF IndInv, Parts, TypeOK, KeysHeld, Opened, TmpReady, Decided, Saving
<1>4. ModesKept' /\ FilesWhole'
  BY <1>1 DEF IndInv, Parts, TypeOK, ModesKept, OneByOne, Running, FilesWhole, Saving
<1>5. Undisturbed'
  BY <1>1, <1>2 DEF IndInv, Parts, TypeOK, Undisturbed, OneByOne, Saving
<1>6. AckedIsDurable'
  BY <1>1 DEF IndInv, Parts, Undisturbed, OneByOne, AckedIsDurable
<1>7. QED
  BY <1>3, <1>4, <1>5, <1>6 DEF Parts

-----------------------------------------------------------------------------
(* Crashes.                                                                *)

\* Killing a command keeps it: what is on disk stays.
LEMMA KillKeeps ==
    ASSUME IndInv, NEW p \in Procs, Kill(p), mode' = mode
    PROVE  Parts'
<1>1. KeysHeld' /\ ModesKept' /\ FilesWhole' /\ TmpReady'
  BY DEF IndInv, Parts, TypeOK, Kill, Exit, keyVars, fileVars, histVars,
         KeysHeld, Opened, ModesKept, OneByOne, Running, FilesWhole, TmpReady, Saving
<1>2. Decided' /\ Undisturbed' /\ AckedIsDurable'
  BY DEF IndInv, Parts, TypeOK, Kill, Exit, keyVars, fileVars, histVars,
         Decided, Undisturbed, OneByOne, AckedIsDurable, Saving
<1>3. QED
  BY <1>1, <1>2 DEF Parts

\* Everything that may be found at the vault path is synced, so a power loss
\* picks one of these files and leaves it as it is.
LEMMA PowerLossKeeps ==
    ASSUME IndInv, PowerLoss, mode' = mode
    PROVE  Parts'
<1>1. vault' \in disk /\ disk' = {vault'}
  <2>1. PICK f \in disk : vault' \in AfterPowerLoss(f)
    BY DEF PowerLoss
  <2>2. f = NoFile \/ f.synced
    BY DEF IndInv, Parts, FilesWhole
  <2>3. QED
    BY <2>1, <2>2, PowerLossFile DEF IndInv, TypeOK, PowerLoss
<1>2. /\ \A p \in Procs : pc'[p] = "idle"
      /\ UNCHANGED <<keychain, acked, attempts, replaced>>
  BY DEF PowerLoss, keyVars, histVars
<1>3. KeysHeld' /\ ModesKept' /\ TmpReady' /\ Decided' /\ Undisturbed'
  BY <1>1, <1>2 DEF IndInv, Parts, KeysHeld, Opened, ModesKept, OneByOne, Running,
                    TmpReady, Decided, Undisturbed, Saving
<1>4. FilesWhole' /\ AckedIsDurable'
  BY <1>1, <1>2 DEF IndInv, Parts, FilesWhole, AckedIsDurable
<1>5. QED
  BY <1>3, <1>4 DEF Parts

-----------------------------------------------------------------------------
(* The theorems.                                                           *)

\* It holds at first.
LEMMA IndInvInit == ASSUME Init PROVE IndInv
<1> USE DEF Init
<1>1. Stranger \in Keys /\ 1 \in Keys
  BY BoundsAssumption DEF Keys, Stranger
<1>2. SealedBy(1, {}) \in File
  BY <1>1 DEF SealedBy, File, Heads
<1>3. Strangers \subseteq File
  BY StrangersAreFiles
<1>4. vault \in File \cup {NoFile}
  BY <1>2, <1>3 DEF Modes
<1>5. TypeOK
  <2>1. keychain \in Keys \cup {NoKey} /\ fresh \in 0..(MaxCommands + 1)
    BY <1>1, BoundsAssumption
  <2>2. /\ started \in 0..MaxCommands /\ faults \in 0..MaxFaults
        /\ disk \subseteq File \cup {NoFile}
    BY <1>4, BoundsAssumption
  <2>3. cmd \in [Procs -> Commands]
    BY DEF Commands
  <2>4. QED
    BY <1>4, <2>1, <2>2, <2>3 DEF TypeOK, Steps, Results
<1>6. KeysCounted
  <2>1. Fetching = {}
    BY DEF Fetching
  <2>2. IsFiniteSet(Fetching) /\ Cardinality(Fetching) = 0
    BY <2>1, FS_EmptySet
  <2>3. QED
    BY <2>2 DEF KeysCounted, NoKey
<1>7. FilesWhole
  BY StrangersAreFiles DEF FilesWhole, SealedBy, Modes
<1>8. AckedIsDurable
  BY DEF AckedIsDurable, Contents
<1>9. KeysHeld /\ ModesKept /\ TmpReady /\ Decided /\ Undisturbed
  BY DEF KeysHeld, Opened, ModesKept, OneByOne, Running, TmpReady, Decided, Undisturbed,
         Saving
<1>10. QED
  BY <1>5, <1>6, <1>7, <1>8, <1>9 DEF IndInv, Parts

\* Every step keeps the invariant.
LEMMA IndInvStep == ASSUME IndInv, [Next]_<<mode, vars>> PROVE IndInv'
<1>1. TypeOK' /\ KeysCounted'
  BY StepKeepsTypes
<1>2. Parts'
  <2>1. CASE UNCHANGED <<mode, vars>>
    BY <2>1 DEF vars, IndInv, Parts, KeysHeld, ModesKept, OneByOne, Running, FilesWhole,
                TmpReady, Decided, Undisturbed, AckedIsDurable
  <2>2. CASE Next
    BY <2>2, StartKeeps, RemoveOrphansKeeps, FetchKeyKeeps, StoreKeyKeeps, ReadVaultKeeps,
       WriteOutputKeeps, CreateTmpKeeps, WriteBodyKeeps, FsyncBodyKeeps, RenameKeeps,
       FsyncDirKeeps, KillKeeps, PowerLossKeeps DEF Next
  <2>3. QED
    BY <2>1, <2>2
<1>3. QED
  BY <1>1, <1>2 DEF IndInv

\* It holds always.
LEMMA IndInvAlways == Spec => []IndInv
<1>1. IndInv /\ [Next]_<<mode, vars>> => IndInv'
  BY IndInvStep
<1>2. QED
  BY <1>1, IndInvInit, PTL DEF Spec

\* VaultOpens, for any number of processes, commands, failing steps, kills and
\* power losses: what the vault path names is complete, and only overlapping
\* first runs can make it one the key in the slot does not open.
THEOREM VaultAlwaysOpens == Spec => []VaultOpens
<1>1. IndInv => VaultOpens
  BY DEF IndInv, Parts, VaultOpens, FilesWhole, KeysHeld
<1>2. QED
  BY <1>1, IndInvAlways, PTL

\* AckedIsDurable, for any number of commands and faults: a save that reported
\* success is never undone by a crash or a power loss.
THEOREM AckedSavesSurvive == Spec => []AckedIsDurable
<1>1. IndInv => AckedIsDurable
  BY DEF IndInv, Parts
<1>2. QED
  BY <1>1, IndInvAlways, PTL

-----------------------------------------------------------------------------
(* The action properties.                                                  *)

Own(p) ==
    \/ \E c \in Commands : Start(p, c)
    \/ RemoveOrphans(p) \/ FetchKey(p) \/ StoreKey(p) \/ ReadVault(p) \/ WriteOutput(p)
    \/ CreateTmp(p) \/ WriteBody(p) \/ FsyncBody(p) \/ Rename(p) \/ FsyncDir(p)
    \/ Kill(p)

\* A step moves its own process alone.
LEMMA OwnMoves ==
    ASSUME TypeOK, NEW q \in Procs, Own(q)
    PROVE  \E step \in Steps : pc' = [pc EXCEPT ![q] = step]
<1>1. CASE (\E c \in Commands : Start(q, c)) \/ RemoveOrphans(q) \/ FetchKey(q) \/ StoreKey(q)
  BY <1>1 DEF Start, RemoveOrphans, FetchKey, StoreKey, RandomFails, FailsWith, Goto,
              Exit, Steps
<1>2. CASE ReadVault(q) \/ WriteOutput(q) \/ CreateTmp(q) \/ WriteBody(q)
  BY <1>2 DEF ReadVault, WriteOutput, CreateTmp, WriteBody, RandomFails, FailsWith, Goto,
              Exit, Steps
<1>3. CASE FsyncBody(q) \/ Rename(q) \/ FsyncDir(q) \/ Kill(q)
  BY <1>3 DEF FsyncBody, Rename, FsyncDir, Kill, FailsWith, Goto, Exit, Steps
<1>4. QED
  BY <1>1, <1>2, <1>3 DEF Own

\* Only its own steps and a power loss move a command.
LEMMA Mover ==
    ASSUME TypeOK, [Next]_<<mode, vars>>, NEW p \in Procs, pc'[p] # pc[p]
    PROVE  Own(p) \/ PowerLoss
<1>1. (\E q \in Procs : Own(q)) \/ PowerLoss
  BY DEF Next, Own, vars
<1>2. ASSUME NEW q \in Procs, Own(q) PROVE q = p
  BY <1>2, OwnMoves DEF TypeOK
<1>3. QED
  BY <1>1, <1>2

\* Only its own rename takes a process past the rename.
LEMMA PastRename ==
    ASSUME IndInv, [Next]_<<mode, vars>>, NEW p \in Procs,
           pc[p] = "rename", pc'[p] = "fsyncDir"
    PROVE  vault' = tmp[p] /\ tmp[p] # NoFile
<1>1. Own(p) \/ PowerLoss
  BY Mover DEF IndInv
<1>2. Own(p)
  BY <1>1 DEF PowerLoss
<1>3. Rename(p) \/ Kill(p)
  BY <1>2 DEF Own, Start, RemoveOrphans, FetchKey, StoreKey, ReadVault, WriteOutput,
              CreateTmp, WriteBody, FsyncBody, FsyncDir
<1>4. QED
  BY <1>3 DEF Rename, Kill, FailsWith, Exit, IndInv, TypeOK

\* OnlyStaleSavesLose, for any number of overlapping commands: an entry is
\* lost only to a save that read the vault before the entry was there.
THEOREM SavesLoseOnlyStale == Spec => OnlyStaleSavesLose
<1>1. IndInv /\ [Next]_<<mode, vars>> => [LosesOnlyStale]_vars
  <2> SUFFICES ASSUME IndInv, [Next]_<<mode, vars>>, NEW p \in Procs,
                      pc[p] = "rename", pc'[p] = "fsyncDir",
                      NEW l \in Contents(vault) \ Contents(vault'),
                      l \in Contents(before[p])
               PROVE  cmd[p] = [op |-> "forget", label |-> l]
    BY DEF LosesOnlyStale
  <2>1. Contents(vault') = mem[p]
    BY PastRename DEF IndInv, Parts, TmpReady, Contents
  <2>2. Applied(cmd[p], Contents(before[p]), mem[p])
    BY DEF IndInv, Parts, Decided, Saving
  <2>3. cmd[p].op = "forget" /\ cmd[p].label = l
    BY <2>1, <2>2 DEF Applied
  <2>4. cmd[p] \in Commands
    BY DEF IndInv, TypeOK
  <2>5. QED
    BY <2>3, <2>4 DEF Commands
<1>2. QED
  BY <1>1, IndInvAlways, PTL DEF Spec, OnlyStaleSavesLose

\* What each result stands for.
LEMMA Codes ==
    /\ ExitCode("ok") = 0 /\ ExitCode("exists") = 5 /\ ExitCode("missing") = 4
    /\ \A how \in Results \ {"ok", "exists", "missing"} : ExitCode(how) \notin {0, 4, 5}
BY DEF ExitCode, Results

\* A failing step tells the truth: nothing has changed.
LEMMA FailureTruthful ==
    ASSUME IndInv, NEW p \in Procs, NEW how \in Results \ {"ok", "exists", "missing", "AtParentFsync"},
           pc[p] \notin {"idle", "fsyncDir"}, result' = [result EXCEPT ![p] = how],
           UNCHANGED vault
    PROVE  ExitTellsTruth(p)
<1>1. result'[p] = how
  BY DEF IndInv, TypeOK
<1>2. ExitCode(how) \notin {0, 4, 5}
  BY Codes
<1>3. OneByOne => before[p] = vault
  BY DEF IndInv, Parts, Undisturbed
<1>4. QED
  BY <1>1, <1>2, <1>3 DEF ExitTellsTruth, Finishes, OneByOne

\* ExitTruthful, for any number of commands and faults.
THEOREM ExitCodesTruthful == Spec => ExitTruthful
<1>1. ASSUME IndInv, [Next]_<<mode, vars>>, NEW p \in Procs
      PROVE  ExitTellsTruth(p)
  <2> SUFFICES ASSUME OneByOne, pc[p] # "idle", pc'[p] = "idle", result'[p] # "killed"
               PROVE  ExitTellsTruth(p)
    BY DEF ExitTellsTruth, Finishes, OneByOne
  <2> USE <1>1
  <2>1. Own(p) /\ TypeOK
    <3>1. PowerLoss => result'[p] = "killed"
      BY DEF PowerLoss
    <3>2. QED
      BY <3>1, Mover DEF IndInv
  <2>2. OneByOne /\ pc[p] # "fsyncDir" => before[p] = vault
    BY DEF IndInv, Parts, Undisturbed
  <2>3. CASE FetchKey(p) \/ StoreKey(p) \/ CreateTmp(p)
    <3>1. /\ \E how \in {"panicked", "failed", "AtTmpCreate"} : Exit(p, how)
          /\ UNCHANGED vault
      BY <2>1, <2>3 DEF FetchKey, StoreKey, CreateTmp, RandomFails, FailsWith, Goto, TypeOK,
                        fileVars
    <3>2. pc[p] \notin {"idle", "fsyncDir"}
      BY <2>3 DEF FetchKey, StoreKey, CreateTmp
    <3>3. QED
      BY <3>1, <3>2, FailureTruthful DEF Exit, Results
  <2>4. CASE WriteBody(p) \/ FsyncBody(p) \/ Rename(p)
    <3>1. /\ \E how \in {"AtBodyWrite", "AtBodyFsync", "AtRename"} : Exit(p, how)
          /\ UNCHANGED vault
      BY <2>1, <2>4 DEF WriteBody, FsyncBody, Rename, FailsWith, Goto, TypeOK, fileVars
    <3>2. pc[p] \notin {"idle", "fsyncDir"}
      BY <2>4 DEF WriteBody, FsyncBody, Rename
    <3>3. QED
      BY <3>1, <3>2, FailureTruthful DEF Exit, Results
  <2>5. CASE ReadVault(p)
    <3> DEFINE d == Decide(cmd[p], Contents(vault))
    <3>1. \/ Exit(p, d.exit) /\ d.exit # "none"
          \/ DecryptError(key[p], vault) # "none" /\ Exit(p, DecryptError(key[p], vault))
          \/ Exit(p, "failed")
      BY <2>1, <2>5 DEF ReadVault, FailsWith, Goto, TypeOK
    <3>2. pc[p] = "read" /\ UNCHANGED vault
      BY <2>5 DEF ReadVault, FailsWith, fileVars
    <3>3. CASE Exit(p, d.exit) /\ d.exit # "none"
      <4>1. /\ d.exit \in {"ok", "exists", "missing"}
            /\ d.exit = "ok" => cmd[p].op \in {"list", "use"}
            /\ d.exit = "exists" => cmd[p].op = "register" /\ cmd[p].label \in Contents(vault)
            /\ d.exit = "missing" => cmd[p].op = "forget" /\ cmd[p].label \notin Contents(vault)
        BY <2>1, <3>3, ContentsLabels, DecideApplies DEF TypeOK
      <4>2. result'[p] = d.exit
        BY <2>1, <3>3 DEF Exit, TypeOK
      <4> HIDE DEF d
      <4>3. QED
        BY <2>2, <3>2, <4>1, <4>2, Codes DEF ExitTellsTruth, Finishes, Changed
    <3>4. CASE ~(Exit(p, d.exit) /\ d.exit # "none")
      <4>1. \E how \in {"TruncatedFile", "BadMagic", "UnsupportedVersion", "AeadDecrypt",
                        "failed"} : Exit(p, how)
        BY <2>1, <3>1, <3>4, DecryptSound DEF TypeOK
      <4>2. QED
        BY <3>2, <4>1, FailureTruthful DEF Exit, Results
    <3>5. QED
      BY <3>3, <3>4
  <2>6. CASE WriteOutput(p)
    <3>1. /\ pc[p] = "output" /\ cmd[p].op = "use"
          /\ UNCHANGED vault
          /\ Exit(p, "ok") \/ Exit(p, "failed")
      BY <2>6 DEF WriteOutput, FailsWith, fileVars, IndInv, Parts, Decided
    <3>2. CASE Exit(p, "ok")
      <4>1. result'[p] = "ok"
        BY <2>1, <3>2 DEF Exit, TypeOK
      <4>2. QED
        BY <2>2, <3>1, <4>1, Codes DEF ExitTellsTruth, Finishes, Changed
    <3>3. CASE Exit(p, "failed")
      BY <3>1, <3>3, FailureTruthful DEF Exit, Results
    <3>4. QED
      BY <3>1, <3>2, <3>3
  <2>7. CASE FsyncDir(p)
    <3>1. /\ pc[p] = "fsyncDir"
          /\ UNCHANGED vault
          /\ result'[p] \in {"ok", "AtParentFsync"}
      BY <2>1, <2>7 DEF FsyncDir, FailsWith, Exit, fileVars, TypeOK
    <3>2. Contents(vault) = mem[p] /\ Applied(cmd[p], Contents(before[p]), mem[p])
      BY <3>1 DEF IndInv, Parts, Undisturbed, Decided
    <3>3. /\ Contents(vault) = Changed(cmd[p], Contents(before[p]))
          /\ Contents(vault) # Contents(before[p])
      BY <3>2 DEF Applied, Changed
    <3>4. ExitCode("AtParentFsync") \notin {0, 4, 5}
      BY Codes DEF Results
    <3>5. QED
      BY <3>1, <3>3, <3>4, Codes DEF ExitTellsTruth, Finishes
  <2>8. QED
    <3>1. ~(\E c \in Commands : Start(p, c)) /\ ~RemoveOrphans(p) /\ ~Kill(p)
      BY <2>1 DEF Start, RemoveOrphans, Goto, Kill, Exit, TypeOK
    <3>2. QED
      BY <2>1, <2>3, <2>4, <2>5, <2>6, <2>7, <3>1 DEF Own
<1>2. IndInv /\ [Next]_<<mode, vars>> => [\A p \in Procs : ExitTellsTruth(p)]_vars
  BY <1>1
<1>3. QED
  BY <1>2, IndInvAlways, PTL DEF Spec, ExitTruthful

-----------------------------------------------------------------------------
(* Strings.                                                                *)

LEMMA SymbolsKnown ==
    /\ Radix \in Nat /\ Radix >= 2
    /\ \A i \in 1..Radix : Alphabet[i] \in Chars \ (Wide \cup Spaces)
    /\ \A i, j \in 1..Radix : Alphabet[i] = Alphabet[j] => i = j
<1>1. Validate(Alphabet) = "ok" /\ Alphabet \in Seq(Chars)
  BY AlphabetAssumption, RecognitionAssumption
<1>2. DOMAIN Alphabet = 1..Radix /\ Radix \in Nat
  BY <1>1 DEF Radix
<1>3. ~(Len(Alphabet) < 2)
  BY <1>1 DEF Validate
<1>4. ~\E i \in DOMAIN Alphabet : Alphabet[i] \in Wide
  BY <1>1 DEF Validate
<1>5. ~\E i \in DOMAIN Alphabet : Alphabet[i] \in Spaces
  BY <1>1 DEF Validate
<1>6. ~\E i, j \in DOMAIN Alphabet : i # j /\ Alphabet[i] = Alphabet[j]
  BY <1>1 DEF Validate
<1>7. \A i \in DOMAIN Alphabet : Alphabet[i] \in Chars
  BY <1>1
<1> QED
  BY <1>2, <1>3, <1>4, <1>5, <1>6, <1>7 DEF Radix

LEMMA SymbolOfIndex ==
    ASSUME NEW c, Contains(c)
    PROVE  IndexOf(c) \in 0..(Radix - 1) /\ SymbolAt(IndexOf(c)) = c
<1> DEFINE i == CHOOSE j \in 1..Radix : Alphabet[j] = c
<1>1. i \in 1..Radix /\ Alphabet[i] = c
  BY DEF Contains
<1>2. IndexOf(c) = i - 1
  BY DEF IndexOf
<1> HIDE DEF i
<1>3. (i - 1) + 1 = i /\ i - 1 \in 0..(Radix - 1)
  BY <1>1, SymbolsKnown
<1> QED
  BY <1>1, <1>2, <1>3 DEF SymbolAt

LEMMA IndexOfSymbol ==
    ASSUME NEW n \in 0..(Radix - 1)
    PROVE  /\ Contains(SymbolAt(n)) /\ SymbolAt(n) \in Chars \ Wide
           /\ IndexOf(SymbolAt(n)) = n
<1>1. n + 1 \in 1..Radix /\ SymbolAt(n) = Alphabet[n + 1]
  BY SymbolsKnown DEF SymbolAt
<1>2. Contains(SymbolAt(n)) /\ SymbolAt(n) \in Chars \ Wide
  BY <1>1, SymbolsKnown DEF Contains
<1> DEFINE i == CHOOSE j \in 1..Radix : Alphabet[j] = SymbolAt(n)
<1>3. i \in 1..Radix /\ Alphabet[i] = SymbolAt(n) /\ IndexOf(SymbolAt(n)) = i - 1
  BY <1>2 DEF Contains, IndexOf
<1> HIDE DEF i
<1>4. i = n + 1
  BY <1>1, <1>3, SymbolsKnown
<1> QED
  BY <1>2, <1>3, <1>4

Numerals(n) == [1..n -> 0..(Radix - 1)]

LEMMA NumeralsOfBody ==
    ASSUME NEW b \in Seq(Chars), \A i \in DOMAIN b : Contains(b[i])
    PROVE  /\ BodyToNumerals(b) \in Numerals(Len(b))
           /\ NumeralsToBody(BodyToNumerals(b)) = b
<1>1. DOMAIN b = 1..Len(b) /\ b = [i \in DOMAIN b |-> b[i]]
  OBVIOUS
<1>2. \A i \in DOMAIN b : IndexOf(b[i]) \in 0..(Radix - 1) /\ SymbolAt(IndexOf(b[i])) = b[i]
  BY SymbolOfIndex
<1>3. BodyToNumerals(b) \in Numerals(Len(b))
  BY <1>1, <1>2 DEF BodyToNumerals, Numerals
<1>4. NumeralsToBody(BodyToNumerals(b)) = [i \in DOMAIN b |-> SymbolAt(IndexOf(b[i]))]
  BY DEF NumeralsToBody, BodyToNumerals
<1> QED
  BY <1>1, <1>2, <1>3, <1>4

LEMMA BodyOfNumerals ==
    ASSUME NEW n \in Nat, NEW ns \in Numerals(n)
    PROVE  /\ NumeralsToBody(ns) \in Seq(Chars) /\ Len(NumeralsToBody(ns)) = n
           /\ Len(ns) = n
           /\ \A i \in 1..n : Contains(NumeralsToBody(ns)[i]) /\ NumeralsToBody(ns)[i] \notin Wide
           /\ BodyToNumerals(NumeralsToBody(ns)) = ns
<1>1. ns = [i \in 1..n |-> ns[i]] /\ DOMAIN ns = 1..n /\ \A i \in 1..n : ns[i] \in 0..(Radix - 1)
  BY DEF Numerals
<1> DEFINE b == [i \in 1..n |-> SymbolAt(ns[i])]
<1>2. NumeralsToBody(ns) = b
  BY <1>1 DEF NumeralsToBody
<1>3. \A i \in 1..n : /\ Contains(SymbolAt(ns[i])) /\ SymbolAt(ns[i]) \in Chars \ Wide
                      /\ IndexOf(SymbolAt(ns[i])) = ns[i]
  BY <1>1, IndexOfSymbol
<1>4. b \in Seq(Chars) /\ Len(b) = n /\ DOMAIN b = 1..n
  BY <1>3
<1>5. BodyToNumerals(b) = [i \in 1..n |-> IndexOf(SymbolAt(ns[i]))]
  BY DEF BodyToNumerals
<1>6. BodyToNumerals(b) = ns
  BY <1>1, <1>3, <1>5
<1>7. Len(ns) = n
  <2> DEFINE S == 0..(Radix - 1)
             ms == [i \in 1..n |-> ns[i]]
  <2>1. ns = ms /\ \A i \in 1..n : ns[i] \in S
    BY <1>1
  <2> HIDE DEF S
  <2>2. ms \in Seq(S) /\ Len(ms) = n
    BY <2>1
  <2> QED
    BY <2>1, <2>2
<1>8. \A i \in 1..n : Contains(b[i]) /\ b[i] \notin Wide
  BY <1>3
<1> QED
  BY <1>2, <1>4, <1>6, <1>7, <1>8

LEMMA BodyBehindPrefix ==
    ASSUME NEW s \in Seq(Chars), NEW p \in Seq(Chars), HasPrefix(s, p)
    PROVE  /\ Body(s, p) \in Seq(Chars) /\ Len(p) <= Len(s)
           /\ Len(Body(s, p)) = Len(s) - Len(p)
           /\ \A i \in 1..(Len(s) - Len(p)) : Body(s, p)[i] = s[Len(p) + i]
           /\ s = p \o Body(s, p)
<1>1. Len(p) <= Len(s) /\ SubSeq(s, 1, Len(p)) = p
  BY DEF HasPrefix
<1> DEFINE b == SubSeq(s, Len(p) + 1, Len(s))
<1>2. Body(s, p) = b
  BY DEF Body
<1>3. b \in Seq(Chars) /\ Len(b) = Len(s) - Len(p)
  BY <1>1
<1>4. \A i \in 1..(Len(s) - Len(p)) : b[i] = s[Len(p) + i]
  BY <1>1
<1>5. \A i \in 1..Len(p) : p[i] = s[i]
  <2> TAKE i \in 1..Len(p)
  <2>1. SubSeq(s, 1, Len(p))[i] = s[i]
    BY <1>1
  <2> QED
    BY <1>1, <2>1
<1>6. s = p \o b
  <2> HIDE DEF b
  <2> DEFINE t == p \o b
  <2>1. t \in Seq(Chars) /\ Len(t) = Len(s)
    BY <1>1, <1>3
  <2>2. ASSUME NEW i \in 1..Len(s) PROVE t[i] = s[i]
    <3>1. CASE i <= Len(p)
      BY <1>3, <1>5, <3>1
    <3>2. CASE i > Len(p)
      <4>1. PICK n \in Nat, m \in Nat : n = Len(s) /\ m = Len(p)
        OBVIOUS
      <4>2. PICK j \in 1..(n - m) : j = i - m /\ i = m + j
        BY <1>1, <3>2, <4>1
      <4>3. t[i] = b[j]
        BY <1>1, <1>3, <4>1, <4>2
      <4>4. b[j] = s[Len(p) + j]
        BY <1>4, <4>1
      <4> QED
        BY <4>1, <4>2, <4>3, <4>4
    <3>3. i <= Len(p) \/ i > Len(p)
      OBVIOUS
    <3> QED
      BY <3>1, <3>2, <3>3
  <2> HIDE DEF t
  <2>3. s = t
    BY <2>1, <2>2
  <2> QED
    BY <2>3 DEF t
<1> QED
  BY <1>1, <1>2, <1>3, <1>4, <1>6

LEMMA PrefixAndBody ==
    ASSUME NEW p \in Seq(Chars), NEW b \in Seq(Chars)
    PROVE  /\ p \o b \in Seq(Chars) /\ Len(p \o b) = Len(p) + Len(b)
           /\ HasPrefix(p \o b, p) /\ Body(p \o b, p) = b
           /\ \A i \in 1..Len(b) : (p \o b)[Len(p) + i] = b[i]
<1> DEFINE s == p \o b
<1>1. s \in Seq(Chars) /\ Len(s) = Len(p) + Len(b)
  OBVIOUS
<1>2. \A i \in 1..Len(p) : s[i] = p[i]
  OBVIOUS
<1>3. \A i \in 1..Len(b) : s[Len(p) + i] = b[i]
  OBVIOUS
<1> HIDE DEF s
<1>4. SubSeq(s, 1, Len(p)) = p
  <2>1. SubSeq(s, 1, Len(p)) \in Seq(Chars) /\ Len(SubSeq(s, 1, Len(p))) = Len(p)
    BY <1>1
  <2>2. \A i \in 1..Len(p) : SubSeq(s, 1, Len(p))[i] = p[i]
    BY <1>1, <1>2
  <2> QED
    BY <2>1, <2>2
<1>5. SubSeq(s, Len(p) + 1, Len(s)) = b
  <2>1. SubSeq(s, Len(p) + 1, Len(s)) \in Seq(Chars) /\ Len(SubSeq(s, Len(p) + 1, Len(s))) = Len(b)
    BY <1>1
  <2>2. \A i \in 1..Len(b) : SubSeq(s, Len(p) + 1, Len(s))[i] = b[i]
    BY <1>1, <1>3
  <2> QED
    BY <2>1, <2>2
<1>6. HasPrefix(s, p) /\ Body(s, p) = b
  BY <1>1, <1>4, <1>5 DEF HasPrefix, Body
<1> QED
  BY <1>1, <1>3, <1>6 DEF s

-----------------------------------------------------------------------------
(* FF1: fakes fit their profile, and trial decryption inverts them.        *)

\* The registrations of the FF1 path.
FpeRegs ==
    {r \in [kind : {"Fpe"}, value : Values, prefix : Prefixes, tweak : Tweaks] :
        CheckEligibility(r.value, r.prefix) = "ok"}

LEMMA EligibleBody ==
    ASSUME NEW r \in FpeRegs
    PROVE  /\ r.value \in Seq(Chars) /\ r.prefix \in Seq(Chars)
           /\ HasPrefix(r.value, r.prefix)
           /\ Len(Body(r.value, r.prefix)) = Len(r.value) - Len(r.prefix)
           /\ Body(r.value, r.prefix) \in Seq(Chars)
           /\ \A i \in DOMAIN Body(r.value, r.prefix) : Contains(Body(r.value, r.prefix)[i])
           /\ Permutes(r.tweak, Len(r.value) - Len(r.prefix))
           /\ Len(r.prefix) <= Len(r.value)
<1>1. r.value \in Values /\ r.prefix \in Prefixes /\ r.tweak \in Tweaks
  BY DEF FpeRegs
<1>2. r.value \in Seq(Chars) /\ r.prefix \in Seq(Chars)
  BY <1>1, RecognitionAssumption DEF Strings
<1>3. CheckEligibility(r.value, r.prefix) = "ok"
  BY DEF FpeRegs
<1>4. HasPrefix(r.value, r.prefix)
  BY <1>3 DEF CheckEligibility
<1>5. ~\E i \in DOMAIN Body(r.value, r.prefix) : ~Contains(Body(r.value, r.prefix)[i])
  BY <1>3 DEF CheckEligibility
<1>6. /\ Len(Body(r.value, r.prefix)) = Len(r.value) - Len(r.prefix)
      /\ Body(r.value, r.prefix) \in Seq(Chars) /\ Len(r.prefix) <= Len(r.value)
  BY <1>2, <1>4, BodyBehindPrefix
<1>7. Permutes(r.tweak, Len(r.value) - Len(r.prefix))
  BY <1>1, <1>6, RecognitionAssumption
<1> QED
  BY <1>2, <1>4, <1>5, <1>6, <1>7

LEMMA FakeOfFpe ==
    ASSUME NEW r \in FpeRegs
    PROVE  /\ FpeScrub(r) \in Seq(Chars)
           /\ FitsProfile(FpeScrub(r), r) /\ DecryptsTo(FpeScrub(r), r)
<1> DEFINE v == r.value
           p == r.prefix
           b == Body(v, p)
           x == BodyToNumerals(b)
           y == Ff1(r.tweak, x)
           c == NumeralsToBody(y)
<1>1. PICK n \in Nat, m \in Nat, k \in Nat : n = Len(b) /\ m = Len(p) /\ k = Len(v) /\ n + m = k
  <2>1. Len(b) \in Nat /\ Len(p) \in Nat /\ Len(v) \in Nat
    BY EligibleBody
  <2>2. Len(b) = Len(v) - Len(p)
    BY EligibleBody
  <2> HIDE DEF b, v, p
  <2> QED
    BY <2>1, <2>2
<1>2. v \in Seq(Chars) /\ p \in Seq(Chars) /\ b \in Seq(Chars) /\ HasPrefix(v, p)
  BY EligibleBody
<1>3. v = p \o b
  BY <1>2, BodyBehindPrefix
<1>4. x \in Numerals(n) /\ NumeralsToBody(x) = b
  BY <1>1, EligibleBody, NumeralsOfBody
<1>5. Permutes(r.tweak, n)
  <2>1. Permutes(r.tweak, Len(v) - Len(p)) /\ Len(b) = Len(v) - Len(p)
    BY EligibleBody
  <2> QED
    BY <1>1, <2>1
<1>6. y \in Numerals(n)
  BY <1>4, <1>5 DEF Permutes, Numerals
<1>7. FpeScrub(r) = p \o c
  BY DEF FpeScrub, FpeRegs
<1>8. /\ c \in Seq(Chars) /\ Len(c) = n /\ Len(y) = n /\ \A i \in 1..n : Contains(c[i])
      /\ BodyToNumerals(c) = y
  BY <1>6, BodyOfNumerals
<1> HIDE DEF v, p, b, x, y, c
<1>9. /\ p \o c \in Seq(Chars) /\ Len(p \o c) = m + n
      /\ HasPrefix(p \o c, p) /\ Body(p \o c, p) = c
      /\ \A i \in 1..n : (p \o c)[m + i] = c[i]
  <2>1. /\ p \o c \in Seq(Chars) /\ Len(p \o c) = Len(p) + Len(c)
        /\ HasPrefix(p \o c, p) /\ Body(p \o c, p) = c
        /\ \A i \in 1..Len(c) : (p \o c)[Len(p) + i] = c[i]
    BY <1>2, <1>8, PrefixAndBody
  <2> QED
    BY <1>1, <1>8, <2>1
<1>10. FitsProfile(p \o c, r)
  <2>1. ASSUME NEW i \in (m + 1)..(m + n) PROVE Contains((p \o c)[i])
    <3>1. PICK j \in 1..n : i = m + j
      <4>1. i - m \in 1..n /\ i = m + (i - m)
        BY <1>1
      <4> QED
        BY <4>1
    <3> QED
      BY <1>8, <1>9, <3>1
  <2>2. Len(p \o c) = Len(v)
    BY <1>1, <1>9
  <2>3. HasPrefix(p \o c, r.prefix) /\ Len(p \o c) = Len(r.value) /\ Len(r.prefix) = m
    BY <1>1, <1>9, <2>2 DEF v, p
  <2> QED
    BY <1>9, <2>1, <2>3 DEF FitsProfile
<1>11. Ff1Inverse(r.tweak, y) = x
  <2>1. x \in [1..Len(y) -> 0..(Radix - 1)] /\ Ff1(r.tweak, x) = y
    BY <1>4, <1>8 DEF Numerals, y
  <2> DEFINE z == CHOOSE ms \in [1..Len(y) -> 0..(Radix - 1)] : Ff1(r.tweak, ms) = y
  <2>2. z \in [1..Len(y) -> 0..(Radix - 1)] /\ Ff1(r.tweak, z) = y
    BY <2>1
  <2>3. Ff1Inverse(r.tweak, y) = z
    BY DEF Ff1Inverse
  <2> HIDE DEF z
  <2>4. z = x
    BY <1>5, <1>8, <2>1, <2>2 DEF Permutes
  <2> QED
    BY <2>3, <2>4
<1>12. p \o NumeralsToBody(Ff1Inverse(r.tweak, BodyToNumerals(Body(p \o c, p)))) = v
  BY <1>3, <1>4, <1>8, <1>9, <1>11
<1>13. DecryptsTo(p \o c, r)
  BY <1>10, <1>12 DEF DecryptsTo, v, p
<1> QED
  BY <1>7, <1>9, <1>10, <1>13

LEMMA DecryptsOnlyItsFake ==
    ASSUME NEW r \in FpeRegs, NEW c \in Seq(Chars), DecryptsTo(c, r)
    PROVE  FpeScrub(r) = c
<1> DEFINE v == r.value
           p == r.prefix
           d == Body(c, p)
           y == BodyToNumerals(d)
           x == Ff1Inverse(r.tweak, y)
<1>1. v \in Seq(Chars) /\ p \in Seq(Chars)
  BY EligibleBody
<1>2. HasPrefix(c, p) /\ Len(c) = Len(v) /\ \A i \in (Len(p) + 1)..Len(c) : Contains(c[i])
  BY DEF DecryptsTo, FitsProfile
<1>3. p \o NumeralsToBody(x) = v
  BY DEF DecryptsTo
<1>4. /\ d \in Seq(Chars) /\ Len(p) <= Len(c) /\ Len(d) = Len(c) - Len(p)
      /\ \A i \in 1..(Len(c) - Len(p)) : d[i] = c[Len(p) + i]
      /\ c = p \o d
  BY <1>1, <1>2, BodyBehindPrefix
<1>5. Permutes(r.tweak, Len(v) - Len(p))
  BY EligibleBody
<1>6. FpeScrub(r) = p \o NumeralsToBody(Ff1(r.tweak, BodyToNumerals(Body(v, p))))
  BY DEF FpeScrub, FpeRegs
<1> HIDE DEF v, p, d
<1>7. PICK n \in Nat, m \in Nat, k \in Nat : n = Len(d) /\ m = Len(p) /\ k = Len(c) /\ n + m = k
  <2>1. Len(d) \in Nat /\ Len(p) \in Nat /\ Len(c) \in Nat /\ Len(d) = Len(c) - Len(p)
    BY <1>1, <1>4
  <2> DEFINE n == Len(d)
             m == Len(p)
             k == Len(c)
  <2> HIDE DEF n, m, k
  <2>2. n \in Nat /\ m \in Nat /\ k \in Nat /\ n = k - m
    BY <2>1 DEF n, m, k
  <2>3. n + m = k
    BY <2>2
  <2> QED
    BY <2>2, <2>3 DEF n, m, k
<1>8. Permutes(r.tweak, n)
  <2>1. Len(v) - Len(p) = k - m /\ k - m = n
    BY <1>2, <1>7
  <2> QED
    BY <1>5, <2>1
<1>9. \A i \in DOMAIN d : Contains(d[i])
  <2> TAKE i \in DOMAIN d
  <2>1. i \in 1..n /\ i \in 1..(k - m) /\ m + i \in (m + 1)..k
    BY <1>4, <1>7
  <2>2. d[i] = c[m + i]
    BY <1>4, <1>7, <2>1
  <2> QED
    BY <1>2, <1>7, <2>1, <2>2
<1>10. y \in Numerals(n) /\ NumeralsToBody(y) = d
  BY <1>4, <1>7, <1>9, NumeralsOfBody
<1>11. Len(y) = n
  BY <1>10, BodyOfNumerals
<1>12. x \in Numerals(n) /\ Ff1(r.tweak, x) = y
  <2> HIDE DEF y
  <2>1. \E z \in [1..Len(y) -> 0..(Radix - 1)] : Ff1(r.tweak, z) = y
    BY <1>8, <1>10, <1>11 DEF Permutes, Numerals
  <2> DEFINE z == CHOOSE ms \in [1..Len(y) -> 0..(Radix - 1)] : Ff1(r.tweak, ms) = y
  <2>2. z \in [1..Len(y) -> 0..(Radix - 1)] /\ Ff1(r.tweak, z) = y
    BY <2>1
  <2>3. x = z
    BY DEF Ff1Inverse
  <2> QED
    BY <1>11, <2>2, <2>3 DEF Numerals
<1> HIDE DEF x, y
<1>13. NumeralsToBody(x) \in Seq(Chars) /\ BodyToNumerals(NumeralsToBody(x)) = x
  BY <1>12, BodyOfNumerals
<1>14. Body(v, p) = NumeralsToBody(x)
  BY <1>1, <1>3, <1>13, PrefixAndBody
<1> QED
  BY <1>4, <1>6, <1>10, <1>12, <1>13, <1>14

\* What a sequence of registrations needs for trial decryption.
FpeSound(rs) ==
    /\ Len(rs) \in Nat /\ DOMAIN rs = 1..Len(rs)
    /\ \A i \in DOMAIN rs : rs[i].kind = "Fpe" => rs[i] \in FpeRegs

LEMMA LeastNumber ==
    ASSUME NEW S \in SUBSET Nat, S # {}
    PROVE  \E n \in S : \A k \in S : n <= k
<1> DEFINE R == OpToRel(<, Nat)
<1>1. R = {pair \in Nat \X Nat : pair[1] < pair[2]}
  BY DEF OpToRel
<1>2. IsWellFoundedOn(R, Nat)
  BY NatLessThanWellFounded
<1> HIDE DEF R
<1>3. PICK n \in S : \A k \in S : <<k, n>> \notin R
  BY <1>2, WFMin
<1>4. ASSUME NEW k \in Nat, k < n PROVE <<k, n>> \in R
  <2>1. <<k, n>> \in Nat \X Nat /\ <<k, n>>[1] < <<k, n>>[2]
    BY <1>4
  <2> QED
    BY <1>1, <2>1
<1>5. \A k \in S : ~(k < n)
  BY <1>3, <1>4
<1> QED
  BY <1>5

LEMMA TryRestoreAnswers ==
    ASSUME NEW rs, FpeSound(rs), NEW c \in Seq(Chars)
    PROVE  /\ TryRestore(c, rs) # NoFake =>
                \E i \in DOMAIN rs : /\ rs[i].kind = "Fpe" /\ DecryptsTo(c, rs[i])
                                     /\ rs[i].value = TryRestore(c, rs)
           /\ \A i \in DOMAIN rs :
                rs[i].kind = "Fpe" /\ DecryptsTo(c, rs[i]) => TryRestore(c, rs) # NoFake
<1> DEFINE hits == {i \in DOMAIN rs : rs[i].kind = "Fpe" /\ DecryptsTo(c, rs[i])}
           first == CHOOSE i \in hits : \A j \in hits : i <= j
<1>1. TryRestore(c, rs) = IF hits = {} THEN NoFake ELSE rs[first].value
  BY DEF TryRestore
<1>2. hits \in SUBSET Nat
  BY DEF FpeSound
<1>3. hits # {} => first \in hits
  <2>1. hits # {} => \E i \in hits : \A j \in hits : i <= j
    BY <1>2, LeastNumber
  <2> QED
    BY <2>1
<1>4. \A i \in hits : rs[i].value # NoFake
  <2> TAKE i \in hits
  <2>1. rs[i] \in FpeRegs
    BY DEF FpeSound
  <2>2. rs[i].value \in Seq(Chars)
    BY <2>1, EligibleBody
  <2> QED
    BY <2>2, RecognitionAssumption
<1>5. \A i \in hits : i \in DOMAIN rs /\ rs[i].kind = "Fpe" /\ DecryptsTo(c, rs[i])
  OBVIOUS
<1>6. \A i \in DOMAIN rs : rs[i].kind = "Fpe" /\ DecryptsTo(c, rs[i]) => i \in hits
  OBVIOUS
<1> HIDE DEF hits, first
<1> QED
  BY <1>1, <1>3, <1>4, <1>5, <1>6

-----------------------------------------------------------------------------
(* What the vault's entries are.                                           *)

FormatlessRegs ==
    {r \in [kind : {"Formatless"}, value : Values, prefix : Prefixes, tweak : Tweaks] :
        CheckEligibility(r.value, r.prefix) # "ok"}
StructuredRegs ==
    [kind : {"Email", "Ipv4", "Phone"}, value : Structured, prefix : {<<>>}, tweak : {0}]
CardRegs == [kind : {"Card"}, value : Cards, prefix : {<<>>}, tweak : {0}]

Registrations == FpeRegs \cup FormatlessRegs \cup StructuredRegs \cup CardRegs

\* Every entry has the kind its eligibility gives it, and only entries of FF1
\* are kept when they are forgotten.
EntriesKept ==
    /\ regs \in Seq(Registrations)
    /\ retired = <<>> \/ \E r \in FpeRegs : retired = <<r>>

LEMMA KindsOfEntries ==
    /\ \A r \in Registrations : r.kind = "Fpe" => r \in FpeRegs
    /\ \A r \in Registrations : r.kind = "Formatless" => r \in FormatlessRegs
    /\ \A r \in Registrations : r.kind = "Card" => r \in CardRegs
    /\ \A r \in Registrations : r.kind \in {"Email", "Ipv4", "Phone"} => r \in StructuredRegs
    /\ \A r \in Registrations :
          r.kind \in {"Fpe", "Formatless", "Card", "Email", "Ipv4", "Phone"}
<1>1. \A r \in FpeRegs : r.kind = "Fpe"
  BY DEF FpeRegs
<1>2. \A r \in FormatlessRegs : r.kind = "Formatless"
  BY DEF FormatlessRegs
<1>3. \A r \in StructuredRegs : r.kind \in {"Email", "Ipv4", "Phone"}
  BY DEF StructuredRegs
<1>4. \A r \in CardRegs : r.kind = "Card"
  BY DEF CardRegs
<1> QED
  BY <1>1, <1>2, <1>3, <1>4 DEF Registrations

LEMMA EntriesSound ==
    ASSUME EntriesKept
    PROVE  FpeSound(regs) /\ FpeSound(retired)
<1>1. FpeSound(regs)
  <2>1. Len(regs) \in Nat /\ DOMAIN regs = 1..Len(regs) /\ \A i \in DOMAIN regs : regs[i] \in Registrations
    BY DEF EntriesKept
  <2> QED
    BY <2>1, KindsOfEntries DEF FpeSound
<1>2. FpeSound(<<>>)
  BY DEF FpeSound
<1>3. \A r \in FpeRegs : FpeSound(<<r>>)
  BY DEF FpeSound
<1> QED
  BY <1>1, <1>2, <1>3 DEF EntriesKept

LEMMA EntriesKeptInit == RecognitionInit => EntriesKept
  BY DEF RecognitionInit, EntriesKept

LEMMA EntriesKeptStep ==
    EntriesKept /\ [RecognitionNext]_recognitionVars => EntriesKept'
<1> SUFFICES ASSUME EntriesKept, [RecognitionNext]_recognitionVars PROVE EntriesKept'
  OBVIOUS
<1>1. ASSUME NEW r \in Registrations, Add(r) PROVE EntriesKept'
  BY <1>1 DEF Add, EntriesKept
<1>2. ASSUME NEW v \in Values, NEW p \in Prefixes, NEW t \in Tweaks, Register(v, p, t)
      PROVE  EntriesKept'
  <2> DEFINE r == [kind |-> IF CheckEligibility(v, p) = "ok" THEN "Fpe" ELSE "Formatless",
                   value |-> v, prefix |-> p, tweak |-> t]
  <2>1. CheckEligibility(v, p) = "ok" => r \in FpeRegs
    BY DEF FpeRegs
  <2>2. CheckEligibility(v, p) # "ok" => r \in FormatlessRegs
    BY DEF FormatlessRegs
  <2>3. r \in Registrations
    BY <2>1, <2>2 DEF Registrations
  <2> QED
    BY <1>1, <1>2, <2>3 DEF Register
<1>3. ASSUME NEW v \in Structured, NEW k \in {"Email", "Ipv4", "Phone"}, RegisterAs(k, v)
      PROVE  EntriesKept'
  <2> DEFINE r == [kind |-> k, value |-> v, prefix |-> <<>>, tweak |-> 0]
  <2>1. r \in Registrations
    BY DEF StructuredRegs, Registrations
  <2> QED
    BY <1>1, <1>3, <2>1 DEF RegisterAs
<1>4. ASSUME NEW v \in Cards, RegisterAs("Card", v) PROVE EntriesKept'
  <2> DEFINE r == [kind |-> "Card", value |-> v, prefix |-> <<>>, tweak |-> 0]
  <2>1. r \in Registrations
    BY DEF CardRegs, Registrations
  <2> QED
    BY <1>1, <1>4, <2>1 DEF RegisterAs
<1>5. ASSUME NEW i \in DOMAIN regs, NEW keep \in BOOLEAN, Forget(i, keep) PROVE EntriesKept'
  <2>1. regs \in Seq(Registrations) /\ i \in 1..Len(regs) /\ regs[i] \in Registrations
    BY DEF EntriesKept
  <2>2. SubSeq(regs, 1, i - 1) \in Seq(Registrations)
    BY <2>1
  <2>3. SubSeq(regs, i + 1, Len(regs)) \in Seq(Registrations)
    BY <2>1
  <2>4. regs' \in Seq(Registrations)
    BY <1>5, <2>2, <2>3 DEF Forget
  <2>5. retired' = <<>> \/ \E r \in FpeRegs : retired' = <<r>>
    BY <1>5, <2>1, KindsOfEntries DEF Forget, EntriesKept
  <2> QED
    BY <2>4, <2>5 DEF EntriesKept
<1>6. CASE UNCHANGED recognitionVars
  BY <1>6 DEF recognitionVars, EntriesKept
<1> QED
  BY <1>2, <1>3, <1>4, <1>5, <1>6 DEF RecognitionNext

LEMMA EntriesAlwaysKept == RecognitionSpec => []EntriesKept
  BY EntriesKeptInit, EntriesKeptStep, PTL DEF RecognitionSpec

\* RestoresItsFakesOnly: trial decryption never answers for a string that is
\* not the fake of the value it answers with, and knows the fake of every
\* registered value, whatever shares its profile (FpeTokenizer::try_restore).
THEOREM RestoresOnlyItsFakes == RecognitionSpec => []RestoresItsFakesOnly
<1>1. EntriesKept => RestoresItsFakesOnly
  <2> SUFFICES ASSUME EntriesKept PROVE RestoresItsFakesOnly
    OBVIOUS
  <2>1. FpeSound(regs)
    BY EntriesSound
  <2>2. \A r \in OfFpe(regs) : \E i \in DOMAIN regs : r = regs[i] /\ r.kind = "Fpe" /\ r \in FpeRegs
    BY <2>1 DEF OfFpe, Elements, FpeSound
  <2>3. ASSUME NEW c \in Candidates, TryRestore(c, regs) # NoFake
        PROVE  \E r \in OfFpe(regs) : r.value = TryRestore(c, regs) /\ FpeScrub(r) = c
    <3>1. c \in Seq(Chars)
      BY RecognitionAssumption DEF Strings
    <3>2. PICK i \in DOMAIN regs : /\ regs[i].kind = "Fpe" /\ DecryptsTo(c, regs[i])
                                   /\ regs[i].value = TryRestore(c, regs)
      BY <2>1, <2>3, <3>1, TryRestoreAnswers
    <3>3. regs[i] \in FpeRegs /\ regs[i] \in OfFpe(regs)
      BY <2>1, <3>2 DEF FpeSound, OfFpe, Elements
    <3>4. FpeScrub(regs[i]) = c
      BY <3>1, <3>2, <3>3, DecryptsOnlyItsFake
    <3> QED
      BY <3>2, <3>3, <3>4
  <2>4. ASSUME NEW r \in OfFpe(regs) PROVE TryRestore(FpeScrub(r), regs) # NoFake
    <3>1. PICK i \in DOMAIN regs : r = regs[i] /\ r.kind = "Fpe" /\ r \in FpeRegs
      BY <2>2
    <3>2. FpeScrub(r) \in Seq(Chars) /\ DecryptsTo(FpeScrub(r), regs[i])
      BY <3>1, FakeOfFpe
    <3> QED
      BY <2>1, <3>1, <3>2, TryRestoreAnswers
  <2> QED
    BY <2>3, <2>4 DEF RestoresItsFakesOnly
<1> QED
  BY <1>1, EntriesAlwaysKept, PTL

-----------------------------------------------------------------------------
(* Recursion over the places of a string, and the digits of one.           *)

\* f[i] is what i steps make of b.
Runs(n, V, b, step, f) ==
    /\ f \in [0..n -> V] /\ f[0] = b
    /\ \A i \in 1..n : f[i] = step[i][f[i - 1]]

LEMMA RunExists ==
    ASSUME NEW n \in Nat, NEW V, NEW b \in V, NEW step \in [1..n -> [V -> V]]
    PROVE  \E f : Runs(n, V, b, step, f)
<1> DEFINE Lacking == {k \in 0..n : ~\E f : Runs(k, V, b, step, f)}
<1>1. Lacking = {}
  <2> SUFFICES ASSUME Lacking # {} PROVE FALSE
    OBVIOUS
  <2>1. PICK k \in Lacking : \A j \in Lacking : k <= j
    <3>1. Lacking \in SUBSET Nat
      OBVIOUS
    <3> QED
      BY <3>1, LeastNumber
  <2>2. k # 0
    <3> SUFFICES ASSUME k = 0 PROVE FALSE
      OBVIOUS
    <3> DEFINE e == [i \in 0..0 |-> b]
    <3>1. Runs(0, V, b, step, e)
      BY DEF Runs
    <3> QED
      BY <3>1
  <2>3. PICK j \in 0..(n - 1) : j + 1 = k
    <3>1. k - 1 \in 0..(n - 1) /\ (k - 1) + 1 = k
      BY <2>2
    <3> QED
      BY <3>1
  <2>4. j \notin Lacking /\ j \in 0..n
    BY <2>1, <2>3
  <2>5. PICK f : Runs(j, V, b, step, f)
    BY <2>4
  <2>6. f \in [0..j -> V] /\ f[0] = b /\ \A i \in 1..j : f[i] = step[i][f[i - 1]]
    BY <2>5 DEF Runs
  <2> DEFINE g == [i \in 0..k |-> IF i = k THEN step[k][f[j]] ELSE f[i]]
  <2>7. k \in 1..n /\ step[k] \in [V -> V]
    BY <2>2
  <2>8. g \in [0..k -> V]
    BY <2>3, <2>6, <2>7
  <2>9. g[0] = b
    BY <2>2, <2>6, <2>7
  <2>10. \A i \in 1..k : g[i] = step[i][g[i - 1]]
    <3> TAKE i \in 1..k
    <3>1. i - 1 \in 0..j /\ g[i - 1] = f[i - 1]
      BY <2>3
    <3>2. CASE i = k
      <4>1. i - 1 = j /\ g[i] = step[k][f[j]]
        BY <2>3, <3>2
      <4> QED
        BY <3>1, <3>2, <4>1
    <3>3. CASE i # k
      <4>1. i \in 1..j /\ g[i] = f[i]
        BY <2>3, <3>3
      <4> QED
        BY <2>6, <3>1, <4>1
    <3> QED
      BY <3>2, <3>3
  <2> HIDE DEF g
  <2>11. Runs(k, V, b, step, g)
    BY <2>8, <2>9, <2>10 DEF Runs
  <2> QED
    BY <2>1, <2>11
<1> QED
  BY <1>1

LEMMA UpTo ==
    ASSUME NEW s, NEW i \in Nat
    PROVE  /\ DigitsUpTo(s, 0) = 0 /\ DigitsUpTo(s, i) \in Nat
           /\ DigitsUpTo(s, i + 1) = DigitsUpTo(s, i) + (IF IsDigit(s[i + 1]) THEN 1 ELSE 0)
<1> DEFINE U(k) == {j \in 1..k : IsDigit(s[j])}
<1>1. \A k \in Nat : IsFiniteSet(U(k)) /\ Cardinality(U(k)) \in Nat
  <2> TAKE k \in Nat
  <2>1. IsFiniteSet(1..k)
    BY FS_Interval
  <2>2. U(k) \subseteq 1..k
    OBVIOUS
  <2>3. IsFiniteSet(U(k))
    BY <2>1, <2>2, FS_Subset
  <2> QED
    BY <2>3, FS_CardinalityType
<1>2. Cardinality(U(0)) = 0
  <2>1. U(0) = {}
    OBVIOUS
  <2> QED
    BY <2>1, FS_EmptySet
<1>3. Cardinality(U(i + 1)) = Cardinality(U(i)) + (IF IsDigit(s[i + 1]) THEN 1 ELSE 0)
  <2>1. CASE IsDigit(s[i + 1])
    <3>1. U(i + 1) = U(i) \cup {i + 1} /\ i + 1 \notin U(i)
      BY <2>1
    <3>2. Cardinality(U(i) \cup {i + 1}) = Cardinality(U(i)) + 1
      BY <1>1, <3>1, FS_AddElement
    <3> QED
      BY <2>1, <3>1, <3>2
  <2>2. CASE ~IsDigit(s[i + 1])
    <3>1. U(i + 1) = U(i)
      BY <2>2
    <3> QED
      BY <1>1, <2>2, <3>1
  <2> QED
    BY <2>1, <2>2
<1> QED
  BY <1>1, <1>2, <1>3 DEF DigitsUpTo

\* The first i places of s have been read.
DigitsRead(s, i, t) ==
    /\ Len(t) = DigitsUpTo(s, i)
    /\ \A j \in 1..i : IsDigit(s[j]) =>
          DigitsUpTo(s, j) \in 1..Len(t) /\ t[DigitsUpTo(s, j)] = s[j]
    /\ \A k \in 1..Len(t) : \E j \in 1..i : IsDigit(s[j]) /\ DigitsUpTo(s, j) = k

LEMMA ReadOneMore ==
    ASSUME NEW S, NEW s \in Seq(S), NEW i \in Nat, i + 1 <= Len(s), NEW t \in Seq(S),
           DigitsRead(s, i, t)
    PROVE  DigitsRead(s, i + 1, IF IsDigit(s[i + 1]) THEN Append(t, s[i + 1]) ELSE t)
<1>1. PICK m \in Nat, u \in Nat : m = Len(t) /\ u = DigitsUpTo(s, i + 1)
  <2>1. i + 1 \in Nat
    OBVIOUS
  <2> QED
    BY <2>1, UpTo
<1>2. /\ m = DigitsUpTo(s, i)
      /\ \A j \in 1..i : IsDigit(s[j]) => DigitsUpTo(s, j) \in 1..m /\ t[DigitsUpTo(s, j)] = s[j]
      /\ \A k \in 1..m : \E j \in 1..i : IsDigit(s[j]) /\ DigitsUpTo(s, j) = k
  BY <1>1 DEF DigitsRead
<1>3. u = m + (IF IsDigit(s[i + 1]) THEN 1 ELSE 0)
  <2>1. DigitsUpTo(s, i + 1) = DigitsUpTo(s, i) + (IF IsDigit(s[i + 1]) THEN 1 ELSE 0)
    BY UpTo
  <2> QED
    BY <1>1, <1>2, <2>1
<1>4. CASE ~IsDigit(s[i + 1])
  <2>1. \A j \in 1..(i + 1) : IsDigit(s[j]) => j \in 1..i
    BY <1>4
  <2>2. u = m
    BY <1>3, <1>4
  <2>3. DigitsRead(s, i + 1, t)
    BY <1>1, <1>2, <2>1, <2>2 DEF DigitsRead
  <2> QED
    BY <1>4, <2>3
<1>5. CASE IsDigit(s[i + 1])
  <2> DEFINE a == Append(t, s[i + 1])
  <2>1. Len(a) = m + 1 /\ a[m + 1] = s[i + 1] /\ \A k \in 1..m : a[k] = t[k]
    <3>1. s[i + 1] \in S
      OBVIOUS
    <3> QED
      BY <1>1, <3>1
  <2>2. u = m + 1
    BY <1>3, <1>5
  <2> HIDE DEF a
  <2>3. \A j \in 1..(i + 1) : IsDigit(s[j]) =>
           DigitsUpTo(s, j) \in 1..(m + 1) /\ a[DigitsUpTo(s, j)] = s[j]
    <3> TAKE j \in 1..(i + 1)
    <3> HAVE IsDigit(s[j])
    <3>1. CASE j = i + 1
      BY <1>1, <2>1, <2>2, <3>1
    <3>2. CASE j # i + 1
      <4>1. j \in 1..i
        BY <3>2
      <4>2. DigitsUpTo(s, j) \in 1..m /\ t[DigitsUpTo(s, j)] = s[j]
        BY <1>2, <4>1
      <4> QED
        BY <2>1, <4>2
    <3> QED
      BY <3>1, <3>2
  <2>4. \A k \in 1..(m + 1) : \E j \in 1..(i + 1) : IsDigit(s[j]) /\ DigitsUpTo(s, j) = k
    <3> TAKE k \in 1..(m + 1)
    <3>1. CASE k = m + 1
      BY <1>1, <1>5, <2>2, <3>1
    <3>2. CASE k # m + 1
      <4>1. k \in 1..m
        BY <3>2
      <4>2. PICK j \in 1..i : IsDigit(s[j]) /\ DigitsUpTo(s, j) = k
        BY <1>2, <4>1
      <4> QED
        BY <4>2
    <3> QED
      BY <3>1, <3>2
  <2>5. DigitsRead(s, i + 1, a)
    BY <1>1, <2>1, <2>2, <2>3, <2>4 DEF DigitsRead
  <2> QED
    BY <1>5, <2>5 DEF a
<1> QED
  BY <1>4, <1>5

\* DigitsOf returns the digits of s in their order.
LEMMA DigitsOfAll ==
    ASSUME NEW S, NEW s \in Seq(S)
    PROVE  DigitsOf(s) \in Seq(S) /\ DigitsRead(s, Len(s), DigitsOf(s))
<1> DEFINE n == Len(s)
           take == [i \in 1..n |-> [t \in Seq(S) |-> IF IsDigit(s[i]) THEN Append(t, s[i]) ELSE t]]
           Kept(f) == f = [i \in 0..n |-> IF i = 0 THEN <<>>
                                          ELSE IF IsDigit(s[i]) THEN Append(f[i - 1], s[i])
                                          ELSE f[i - 1]]
           kept == CHOOSE f : Kept(f)
<1>1. DigitsOf(s) = kept[n]
  BY DEF DigitsOf
<1>2. n \in Nat /\ \A i \in 1..n : s[i] \in S
  OBVIOUS
<1>3. <<>> \in Seq(S)
  OBVIOUS
<1> HIDE DEF n
<1>4. take \in [1..n -> [Seq(S) -> Seq(S)]]
  BY <1>2
<1>5. \E f : Runs(n, Seq(S), <<>>, take, f)
  <2> HIDE DEF take
  <2> QED
    BY <1>2, <1>3, <1>4, RunExists
<1>6. ASSUME NEW f, Runs(n, Seq(S), <<>>, take, f) PROVE Kept(f)
  <2>1. f = [i \in 0..n |-> f[i]] /\ f[0] = <<>> /\ \A i \in 0..n : f[i] \in Seq(S)
    BY <1>6 DEF Runs
  <2>2. \A i \in 1..n : f[i] = take[i][f[i - 1]]
    BY <1>6 DEF Runs
  <2>3. \A i \in 0..n : f[i] = IF i = 0 THEN <<>>
                               ELSE IF IsDigit(s[i]) THEN Append(f[i - 1], s[i]) ELSE f[i - 1]
    <3> TAKE i \in 0..n
    <3>1. CASE i = 0
      BY <2>1, <3>1
    <3>2. CASE i # 0
      <4>1. i \in 1..n /\ i - 1 \in 0..n
        BY <1>2, <3>2
      <4>2. f[i - 1] \in Seq(S)
        BY <2>1, <4>1
      <4> QED
        BY <2>2, <3>2, <4>1, <4>2
    <3> QED
      BY <3>1, <3>2
  <2> QED
    BY <2>1, <2>3
<1>7. Kept(kept)
  <2>1. \E f : Kept(f)
    BY <1>5, <1>6
  <2> HIDE DEF Kept
  <2> QED
    BY <2>1
<1>8. /\ kept[0] = <<>>
      /\ \A i \in 0..(n - 1) :
            kept[i + 1] = IF IsDigit(s[i + 1]) THEN Append(kept[i], s[i + 1]) ELSE kept[i]
  <2>1. \A i \in 0..n : kept[i] = IF i = 0 THEN <<>>
                                  ELSE IF IsDigit(s[i]) THEN Append(kept[i - 1], s[i])
                                  ELSE kept[i - 1]
    <3> HIDE DEF kept
    <3> QED
      BY <1>7
  <2> HIDE DEF kept
  <2>2. 0 \in 0..n
    BY <1>2
  <2>3. \A i \in 0..(n - 1) : i + 1 \in 0..n /\ i + 1 # 0 /\ (i + 1) - 1 = i
    BY <1>2
  <2> QED
    BY <2>1, <2>2, <2>3
<1> HIDE DEF kept, take
<1> DEFINE Bad == {i \in 0..n : ~(kept[i] \in Seq(S) /\ DigitsRead(s, i, kept[i]))}
<1>9. Bad = {}
  <2> SUFFICES ASSUME Bad # {} PROVE FALSE
    OBVIOUS
  <2>1. PICK k \in Bad : \A j \in Bad : k <= j
    <3>1. Bad \in SUBSET Nat
      BY <1>2
    <3> QED
      BY <3>1, LeastNumber
  <2>2. DigitsRead(s, 0, <<>>)
    BY UpTo DEF DigitsRead
  <2>3. k # 0
    BY <1>3, <1>8, <2>1, <2>2
  <2>4. PICK j \in 0..(n - 1) : j + 1 = k
    <3>1. k - 1 \in 0..(n - 1) /\ (k - 1) + 1 = k
      BY <1>2, <2>3
    <3> QED
      BY <3>1
  <2>5. kept[j] \in Seq(S) /\ DigitsRead(s, j, kept[j])
    BY <1>2, <2>1, <2>4
  <2>6. kept[j + 1] = IF IsDigit(s[j + 1]) THEN Append(kept[j], s[j + 1]) ELSE kept[j]
    BY <1>8
  <2>7. j \in Nat /\ j + 1 <= Len(s) /\ s[j + 1] \in S
    BY <1>2 DEF n
  <2>8. DigitsRead(s, j + 1, kept[j + 1])
    BY <2>5, <2>6, <2>7, ReadOneMore
  <2>9. kept[j + 1] \in Seq(S)
    BY <2>5, <2>6, <2>7
  <2> QED
    BY <2>1, <2>4, <2>8, <2>9
<1>10. n \in 0..n
  BY <1>2
<1> QED
  BY <1>1, <1>9, <1>10 DEF n

-----------------------------------------------------------------------------
(* Digits and their sums.                                                  *)

DigitChars == Elements(Digits)

LEMMA DigitNumbers ==
    /\ \A c \in DigitChars : IsDigit(c) /\ ToDigit(c) \in 0..9
    /\ \A c, d \in DigitChars : ToDigit(c) = ToDigit(d) => c = d
    /\ \A n \in 0..9 : DigitOf(n) \in DigitChars /\ ToDigit(DigitOf(n)) = n
    /\ \A c : IsDigit(c) => c \in DigitChars
<1>1. DOMAIN Digits = 1..10
  BY DEF Digits
<1>2. \A i, j \in 1..10 : Digits[i] = Digits[j] => i = j
  BY DEF Digits
<1>3. \A c : c \in DigitChars <=> \E i \in 1..10 : Digits[i] = c
  BY <1>1 DEF DigitChars, Elements
<1>4. ASSUME NEW i \in 1..10 PROVE ToDigit(Digits[i]) = i - 1
  <2> DEFINE k == CHOOSE j \in 1..10 : Digits[j] = Digits[i]
  <2>1. k \in 1..10 /\ Digits[k] = Digits[i]
    OBVIOUS
  <2>2. ToDigit(Digits[i]) = k - 1
    BY DEF ToDigit
  <2> HIDE DEF k
  <2>3. k = i
    BY <1>2, <2>1
  <2> QED
    BY <2>2, <2>3
<1>5. \A c \in DigitChars : IsDigit(c)
  BY <1>3 DEF IsDigit
<1>6. \A c \in DigitChars : ToDigit(c) \in 0..9
  <2> TAKE c \in DigitChars
  <2>1. PICK i \in 1..10 : Digits[i] = c
    BY <1>3
  <2>2. ToDigit(c) = i - 1
    BY <1>4, <2>1
  <2> QED
    BY <2>2
<1>7. \A c, d \in DigitChars : ToDigit(c) = ToDigit(d) => c = d
  <2> TAKE c, d \in DigitChars
  <2>1. PICK i \in 1..10 : Digits[i] = c
    BY <1>3
  <2>2. PICK j \in 1..10 : Digits[j] = d
    BY <1>3
  <2>3. ToDigit(c) = i - 1 /\ ToDigit(d) = j - 1
    BY <1>4, <2>1, <2>2
  <2>4. i - 1 = j - 1 => i = j
    OBVIOUS
  <2> QED
    BY <2>1, <2>2, <2>3, <2>4
<1>8. \A n \in 0..9 : DigitOf(n) \in DigitChars /\ ToDigit(DigitOf(n)) = n
  <2> TAKE n \in 0..9
  <2>1. n + 1 \in 1..10 /\ (n + 1) - 1 = n
    OBVIOUS
  <2>2. ToDigit(Digits[n + 1]) = (n + 1) - 1
    BY <1>4, <2>1
  <2> QED
    BY <1>3, <2>1, <2>2 DEF DigitOf
<1> QED
  BY <1>3, <1>5, <1>6, <1>7, <1>8 DEF IsDigit

LEMMA Weights ==
    ASSUME NEW c \in DigitChars, NEW d \in DigitChars, NEW b \in BOOLEAN
    PROVE  /\ LuhnWeight(ToDigit(c), b) \in 0..9
           /\ LuhnWeight(ToDigit(c), b) = LuhnWeight(ToDigit(d), b) => c = d
<1>1. PICK x \in 0..9, y \in 0..9 : x = ToDigit(c) /\ y = ToDigit(d)
  BY DigitNumbers
<1>2. LuhnWeight(x, b) \in 0..9
  <2>1. CASE b
    BY <2>1 DEF LuhnWeight
  <2>2. CASE ~b
    BY <2>2 DEF LuhnWeight
  <2> QED
    BY <2>1, <2>2
<1>3. LuhnWeight(x, b) = LuhnWeight(y, b) => x = y
  <2>1. CASE b
    BY <2>1 DEF LuhnWeight
  <2>2. CASE ~b
    BY <2>2 DEF LuhnWeight
  <2> QED
    BY <2>1, <2>2
<1> QED
  BY <1>1, <1>2, <1>3, DigitNumbers

\* Place i of s, with `more` places behind the last.
WeightAt(s, more, i) == LuhnWeight(ToDigit(s[i]), (Len(s) - i + more) % 2 = 1)

SumsOf(s, more, f) ==
    /\ f \in [0..Len(s) -> Nat] /\ f[0] = 0 /\ LuhnSum(s, more) = f[Len(s)]
    /\ \A i \in 1..Len(s) : f[i] = f[i - 1] + WeightAt(s, more, i)

LEMMA SumsExist ==
    ASSUME NEW s \in Seq(DigitChars), NEW more \in Nat
    PROVE  \E f : SumsOf(s, more, f)
<1> DEFINE n == Len(s)
           w(i) == WeightAt(s, more, i)
           add == [i \in 1..n |-> [t \in Nat |-> t + w(i)]]
           Sums(f) == f = [i \in 0..n |-> IF i = 0 THEN 0 ELSE f[i - 1] + w(i)]
           sum == CHOOSE f : Sums(f)
<1>1. LuhnSum(s, more) = sum[n]
  BY DEF LuhnSum, WeightAt
<1>2. n \in Nat
  OBVIOUS
<1>3. \A i \in 1..n : w(i) \in 0..9
  <2> TAKE i \in 1..n
  <2>1. s[i] \in DigitChars
    OBVIOUS
  <2>2. ((Len(s) - i + more) % 2 = 1) \in BOOLEAN
    OBVIOUS
  <2> QED
    BY <2>1, <2>2, Weights DEF WeightAt
<1> HIDE DEF n, w
<1>4. add \in [1..n -> [Nat -> Nat]]
  BY <1>3
<1>5. \E f : Runs(n, Nat, 0, add, f)
  <2> HIDE DEF add
  <2> QED
    BY <1>2, <1>4, RunExists
<1>6. ASSUME NEW f, Runs(n, Nat, 0, add, f) PROVE Sums(f)
  <2>1. f = [i \in 0..n |-> f[i]] /\ f[0] = 0 /\ \A i \in 0..n : f[i] \in Nat
    BY <1>6 DEF Runs
  <2>2. \A i \in 1..n : f[i] = add[i][f[i - 1]]
    BY <1>6 DEF Runs
  <2>3. \A i \in 0..n : f[i] = IF i = 0 THEN 0 ELSE f[i - 1] + w(i)
    <3> TAKE i \in 0..n
    <3>1. CASE i = 0
      BY <2>1, <3>1
    <3>2. CASE i # 0
      <4>1. i \in 1..n /\ i - 1 \in 0..n
        BY <1>2, <3>2
      <4>2. f[i - 1] \in Nat
        BY <2>1, <4>1
      <4> QED
        BY <2>2, <3>2, <4>1, <4>2
    <3> QED
      BY <3>1, <3>2
  <2> QED
    BY <2>1, <2>3
<1>7. PICK f : Runs(n, Nat, 0, add, f)
  BY <1>5
<1>8. Sums(sum)
  <2>1. \E g : Sums(g)
    BY <1>6, <1>7
  <2> HIDE DEF Sums
  <2> QED
    BY <2>1
<1>9. \A i \in 0..n : sum[i] = IF i = 0 THEN 0 ELSE sum[i - 1] + w(i)
  <2> HIDE DEF sum
  <2> QED
    BY <1>8
<1> HIDE DEF sum
<1>10. \A i \in 0..n : sum[i] \in Nat
  <2> DEFINE Bad == {i \in 0..n : sum[i] \notin Nat}
  <2> SUFFICES ASSUME Bad # {} PROVE FALSE
    OBVIOUS
  <2>1. PICK k \in Bad : \A j \in Bad : k <= j
    <3>1. Bad \in SUBSET Nat
      BY <1>2
    <3> QED
      BY <3>1, LeastNumber
  <2>2. k # 0
    BY <1>9, <2>1
  <2>3. k - 1 \in 0..n /\ ~(k <= k - 1) /\ k \in 1..n
    BY <1>2, <2>2
  <2>4. sum[k - 1] \in Nat
    BY <2>1, <2>3
  <2>5. sum[k] = sum[k - 1] + w(k)
    BY <1>9, <2>2
  <2>6. PICK p \in Nat, q \in Nat : p = sum[k - 1] /\ q = w(k)
    <3>1. w(k) \in Nat
      BY <1>3, <2>3
    <3> QED
      BY <2>4, <3>1
  <2>7. sum[k] \in Nat
    BY <2>5, <2>6
  <2> QED
    BY <2>1, <2>7
<1>11. sum \in [0..n -> Nat]
  <2> DEFINE next == [i \in 0..n |-> IF i = 0 THEN 0 ELSE sum[i - 1] + w(i)]
  <2>1. sum = next
    BY <1>8
  <2>2. \A i \in 0..n : next[i] \in Nat
    BY <1>9, <1>10
  <2>3. next \in [0..n -> Nat]
    BY <2>2
  <2> HIDE DEF next
  <2> QED
    BY <2>1, <2>3
<1>12. sum[0] = 0 /\ \A i \in 1..n : sum[i] = sum[i - 1] + w(i)
  <2>1. 0 \in 0..n /\ \A i \in 1..n : i \in 0..n /\ i # 0
    BY <1>2
  <2> QED
    BY <1>9, <2>1
<1>13. SumsOf(s, more, sum)
  BY <1>1, <1>11, <1>12 DEF SumsOf, n, w
<1> QED
  BY <1>13

\* A valid sum tells the last digit, and notices a change of one digit.
LEMMA CheckDigitFits ==
    ASSUME NEW s \in Seq(DigitChars)
    PROVE  /\ LuhnCheckDigit(s) \in 0..9
           /\ LuhnValid(Append(s, DigitOf(LuhnCheckDigit(s))))
<1> DEFINE n == Len(s)
           c == LuhnCheckDigit(s)
           t == Append(s, DigitOf(c))
<1>1. PICK f : SumsOf(s, 1, f)
  <2>1. 1 \in Nat
    OBVIOUS
  <2> QED
    BY <2>1, SumsExist
<1>2. n \in Nat /\ \A i \in 1..n : s[i] \in DigitChars
  OBVIOUS
<1>3. /\ f \in [0..n -> Nat] /\ f[0] = 0 /\ LuhnSum(s, 1) = f[n]
      /\ \A i \in 1..n : f[i] = f[i - 1] + WeightAt(s, 1, i)
  BY <1>1 DEF SumsOf
<1>4. PICK S \in Nat : S = LuhnSum(s, 1) /\ S = f[n]
  BY <1>2, <1>3
<1>5. c \in 0..9 /\ (S + c) % 10 = 0
  <2>1. c = (10 - (S % 10)) % 10
    BY <1>4 DEF LuhnCheckDigit
  <2> QED
    BY <2>1
<1> HIDE DEF c
<1>6. DigitOf(c) \in DigitChars /\ ToDigit(DigitOf(c)) = c
  BY <1>5, DigitNumbers
<1>7. t \in Seq(DigitChars) /\ Len(t) = n + 1 /\ t[n + 1] = DigitOf(c) /\ \A i \in 1..n : t[i] = s[i]
  BY <1>6
<1> HIDE DEF t
<1>8. PICK g : SumsOf(t, 0, g)
  <2>1. 0 \in Nat
    OBVIOUS
  <2> QED
    BY <1>7, <2>1, SumsExist
<1>9. /\ g[0] = 0 /\ LuhnSum(t, 0) = g[n + 1]
      /\ \A i \in 1..(n + 1) : g[i] = g[i - 1] + WeightAt(t, 0, i)
  BY <1>7, <1>8 DEF SumsOf
<1>10. \A i \in 1..n : WeightAt(t, 0, i) = WeightAt(s, 1, i)
  <2> TAKE i \in 1..n
  <2>1. (Len(t) - i + 0) = (Len(s) - i + 1) /\ t[i] = s[i]
    BY <1>2, <1>7 DEF n
  <2> QED
    BY <2>1 DEF WeightAt
<1>11. WeightAt(t, 0, n + 1) = c
  <2>1. Len(t) - (n + 1) + 0 = 0
    BY <1>2, <1>7
  <2>2. ~(0 % 2 = 1)
    OBVIOUS
  <2>3. LuhnWeight(c, FALSE) = c
    BY <1>5 DEF LuhnWeight
  <2>4. WeightAt(t, 0, n + 1) = LuhnWeight(c, 0 % 2 = 1)
    BY <1>6, <1>7, <2>1 DEF WeightAt
  <2> QED
    BY <2>2, <2>3, <2>4
<1> HIDE DEF n
<1>12. \A i \in 0..n : g[i] = f[i]
  <2> DEFINE Bad == {i \in 0..n : g[i] # f[i]}
  <2> SUFFICES ASSUME Bad # {} PROVE FALSE
    OBVIOUS
  <2>1. PICK k \in Bad : \A j \in Bad : k <= j
    <3>1. Bad \in SUBSET Nat
      BY <1>2
    <3> QED
      BY <3>1, LeastNumber
  <2>2. k # 0
    BY <1>3, <1>9, <2>1
  <2>3. k - 1 \in 0..n /\ ~(k <= k - 1) /\ k \in 1..n /\ k \in 1..(n + 1)
    BY <1>2, <2>2
  <2>4. g[k - 1] = f[k - 1]
    BY <2>1, <2>3
  <2>5. g[k] = g[k - 1] + WeightAt(t, 0, k) /\ f[k] = f[k - 1] + WeightAt(s, 1, k)
    BY <1>3, <1>9, <2>3
  <2>6. g[k] = f[k]
    BY <1>10, <2>3, <2>4, <2>5
  <2> QED
    BY <2>1, <2>6
<1>13. LuhnSum(t, 0) = S + c
  <2>1. n \in 0..n /\ n + 1 \in 1..(n + 1) /\ (n + 1) - 1 = n
    BY <1>2
  <2> QED
    BY <1>4, <1>9, <1>11, <1>12, <2>1
<1>14. \A i \in DOMAIN t : IsDigit(t[i])
  <2>1. \A i \in DOMAIN t : t[i] \in DigitChars
    BY <1>7
  <2> QED
    BY <2>1, DigitNumbers
<1> QED
  BY <1>5, <1>13, <1>14 DEF LuhnValid, t, c

LEMMA OneDigitMatters ==
    ASSUME NEW s \in Seq(DigitChars), LuhnValid(s), NEW d \in 1..Len(s),
           NEW c \in DigitChars, c # s[d]
    PROVE  ~LuhnValid([s EXCEPT ![d] = c])
<1> DEFINE n == Len(s)
           t == [s EXCEPT ![d] = c]
<1>1. t \in Seq(DigitChars) /\ Len(t) = n /\ t[d] = c /\ \A i \in 1..n : i # d => t[i] = s[i]
  OBVIOUS
<1>2. n \in Nat /\ d \in 1..n /\ s[d] \in DigitChars
  OBVIOUS
<1> HIDE DEF t
<1>3. PICK f : SumsOf(s, 0, f)
  <2>1. 0 \in Nat
    OBVIOUS
  <2> QED
    BY <2>1, SumsExist
<1>4. PICK g : SumsOf(t, 0, g)
  <2>1. 0 \in Nat
    OBVIOUS
  <2> QED
    BY <1>1, <2>1, SumsExist
<1>5. /\ f \in [0..n -> Nat] /\ f[0] = 0 /\ LuhnSum(s, 0) = f[n]
      /\ \A i \in 1..n : f[i] = f[i - 1] + WeightAt(s, 0, i)
  BY <1>3 DEF SumsOf
<1>6. /\ g \in [0..n -> Nat] /\ g[0] = 0 /\ LuhnSum(t, 0) = g[n]
      /\ \A i \in 1..n : g[i] = g[i - 1] + WeightAt(t, 0, i)
  BY <1>1, <1>4 DEF SumsOf
<1>7. \A i \in 1..n : i # d => WeightAt(t, 0, i) = WeightAt(s, 0, i)
  BY <1>1 DEF WeightAt
<1>8. PICK x \in 0..9, y \in 0..9 : x = WeightAt(s, 0, d) /\ y = WeightAt(t, 0, d) /\ x # y
  <2> DEFINE b == (Len(s) - d + 0) % 2 = 1
  <2>1. WeightAt(s, 0, d) = LuhnWeight(ToDigit(s[d]), b)
    BY DEF WeightAt
  <2>2. WeightAt(t, 0, d) = LuhnWeight(ToDigit(c), b)
    BY <1>1 DEF WeightAt
  <2>3. b \in BOOLEAN
    OBVIOUS
  <2> HIDE DEF b
  <2>4. /\ LuhnWeight(ToDigit(s[d]), b) \in 0..9 /\ LuhnWeight(ToDigit(c), b) \in 0..9
        /\ LuhnWeight(ToDigit(s[d]), b) # LuhnWeight(ToDigit(c), b)
    BY <1>2, <2>3, Weights
  <2> QED
    BY <2>1, <2>2, <2>4
<1> HIDE DEF n
<1>9. \A i \in 0..n : g[i] - f[i] = IF i >= d THEN y - x ELSE 0
  <2> DEFINE Bad == {i \in 0..n : ~(g[i] - f[i] = IF i >= d THEN y - x ELSE 0)}
  <2> SUFFICES ASSUME Bad # {} PROVE FALSE
    OBVIOUS
  <2>1. PICK k \in Bad : \A j \in Bad : k <= j
    <3>1. Bad \in SUBSET Nat
      BY <1>2
    <3> QED
      BY <3>1, LeastNumber
  <2>2. k # 0
    BY <1>2, <1>5, <1>6, <2>1
  <2>3. k - 1 \in 0..n /\ ~(k <= k - 1) /\ k \in 1..n
    BY <1>2, <2>2
  <2>4. g[k - 1] - f[k - 1] = IF k - 1 >= d THEN y - x ELSE 0
    BY <2>1, <2>3
  <2>5. f[k - 1] \in Nat /\ g[k - 1] \in Nat /\ f[k] \in Nat /\ g[k] \in Nat
    BY <1>5, <1>6, <2>3
  <2>6. g[k] = g[k - 1] + WeightAt(t, 0, k) /\ f[k] = f[k - 1] + WeightAt(s, 0, k)
    BY <1>5, <1>6, <2>3
  <2>7. CASE k = d
    <3>1. g[k] = g[k - 1] + y /\ f[k] = f[k - 1] + x
      BY <1>8, <2>6, <2>7
    <3>2. g[k - 1] - f[k - 1] = 0
      BY <1>2, <2>3, <2>4, <2>7
    <3>3. g[k] - f[k] = y - x
      <4>1. PICK p \in Nat, q \in Nat : p = g[k - 1] /\ q = f[k - 1]
        BY <2>5
      <4>2. g[k] = p + y /\ f[k] = q + x /\ p - q = 0
        BY <3>1, <3>2, <4>1
      <4> QED
        BY <4>2
    <3> QED
      BY <2>1, <2>7, <3>3
  <2>8. CASE k # d
    <3>1. PICK z \in Nat : z = WeightAt(s, 0, k)
      <4>1. f[k] - f[k - 1] \in Nat /\ WeightAt(s, 0, k) \in 0..9
        <5>1. k \in 1..Len(s) /\ s[k] \in DigitChars
          BY <2>3 DEF n
        <5>2. ((Len(s) - k + 0) % 2 = 1) \in BOOLEAN
          OBVIOUS
        <5>3. WeightAt(s, 0, k) \in 0..9
          BY <5>1, <5>2, Weights DEF WeightAt
        <5>4. WeightAt(s, 0, k) \in Nat
          BY <5>3
        <5> QED
          BY <2>5, <2>6, <5>3, <5>4
      <4> QED
        BY <4>1
    <3>2. g[k] = g[k - 1] + z /\ f[k] = f[k - 1] + z
      BY <1>7, <2>3, <2>6, <2>8, <3>1
    <3>3. g[k] - f[k] = g[k - 1] - f[k - 1]
      BY <2>5, <3>2
    <3>4. (k >= d) <=> (k - 1 >= d)
      BY <1>2, <2>3, <2>8
    <3> QED
      BY <2>1, <2>4, <3>3, <3>4
  <2> QED
    BY <2>7, <2>8
<1>10. PICK F \in Nat, G \in Nat : F = LuhnSum(s, 0) /\ G = LuhnSum(t, 0) /\ G - F = y - x
  <2>1. n \in 0..n /\ n >= d
    BY <1>2
  <2>2. f[n] \in Nat /\ g[n] \in Nat /\ g[n] - f[n] = y - x
    BY <1>5, <1>6, <1>9, <2>1
  <2> QED
    BY <1>5, <1>6, <2>2
<1>11. F % 10 = 0
  BY <1>10 DEF LuhnValid
<1>12. G % 10 # 0
  <2>1. PICK q \in Nat : F = 10 * q
    <3>1. F \div 10 \in Nat /\ F = 10 * (F \div 10)
      BY <1>11
    <3> QED
      BY <3>1
  <2>2. G = 10 * q + (y - x) /\ x \in 0..9 /\ y \in 0..9 /\ x # y
    <3>1. G = F + (y - x)
      BY <1>8, <1>10
    <3> QED
      BY <1>8, <2>1, <3>1
  <2>3. (y - x) % 10 # 0
    <3>1. PICK z \in Int : z = y - x /\ z # 0 /\ -9 <= z /\ z <= 9
      <4>1. y - x \in Int /\ y - x # 0 /\ -9 <= y - x /\ y - x <= 9
        BY <1>8
      <4> QED
        BY <4>1
    <3>2. z % 10 # 0
      <4>1. CASE z > 0
        BY <3>1, <4>1
      <4>2. CASE z < 0
        BY <3>1, <4>2
      <4> QED
        BY <3>1, <4>1, <4>2
    <3> QED
      BY <3>1, <3>2
  <2>4. G % 10 = (y - x) % 10
    BY <1>8, <2>1, <2>2
  <2> QED
    BY <2>3, <2>4
<1> QED
  BY <1>10, <1>12 DEF LuhnValid, t

-----------------------------------------------------------------------------
(* Fakes of cards.                                                         *)

\* Sequences of a known length.
LEMMA ElementsOf ==
    ASSUME NEW S, NEW n \in Nat, NEW s \in Seq(S), Len(s) = n
    PROVE  \A i \in 1..n : s[i] \in S
  OBVIOUS

LEMMA FunctionAsSeq ==
    ASSUME NEW S, NEW n \in Nat, NEW f \in [1..n -> S]
    PROVE  f \in Seq(S) /\ Len(f) = n
<1> DEFINE g == [i \in 1..n |-> f[i]]
<1>1. g \in Seq(S) /\ Len(g) = n
  OBVIOUS
<1>2. f = g
  OBVIOUS
<1> HIDE DEF g
<1> QED
  BY <1>1, <1>2

LEMMA Joined ==
    ASSUME NEW S, NEW m \in Nat, NEW n \in Nat,
           NEW s \in Seq(S), Len(s) = m, NEW t \in Seq(S), Len(t) = n
    PROVE  /\ s \o t \in Seq(S) /\ Len(s \o t) = m + n
           /\ \A i \in 1..m : (s \o t)[i] = s[i]
           /\ \A i \in 1..n : (s \o t)[m + i] = t[i]
<1>1. s \o t \in Seq(S) /\ Len(s \o t) = m + n
  OBVIOUS
<1>2. \A i \in 1..m : (s \o t)[i] = s[i]
  OBVIOUS
<1>3. \A i \in 1..n : (s \o t)[m + i] = t[i]
  OBVIOUS
<1> QED
  BY <1>1, <1>2, <1>3

LEMMA Appended ==
    ASSUME NEW S, NEW m \in Nat, NEW s \in Seq(S), Len(s) = m, NEW x \in S
    PROVE  /\ Append(s, x) \in Seq(S) /\ Len(Append(s, x)) = m + 1 /\ s \o <<x>> = Append(s, x)
           /\ \A i \in 1..m : Append(s, x)[i] = s[i]
<1>1. Append(s, x) \in Seq(S) /\ Len(Append(s, x)) = m + 1
  OBVIOUS
<1>2. s \o <<x>> = Append(s, x)
  OBVIOUS
<1>3. \A i \in 1..m : Append(s, x)[i] = s[i]
  OBVIOUS
<1> QED
  BY <1>1, <1>2, <1>3

LEMMA SameElements ==
    ASSUME NEW S, NEW T, NEW n \in Nat, NEW s \in Seq(S), Len(s) = n, NEW t \in Seq(T), Len(t) = n,
           \A i \in 1..n : s[i] = t[i]
    PROVE  s = t
  OBVIOUS

LEMMA Begins ==
    ASSUME NEW S, NEW m \in Nat, NEW n \in Nat, m <= n,
           NEW s \in Seq(S), Len(s) = n, NEW t \in Seq(S), Len(t) = m,
           \A i \in 1..m : s[i] = t[i]
    PROVE  StartsWith(s, t) /\ SubSeq(s, 1, m) = t
<1>1. SubSeq(s, 1, m) \in Seq(S)
  OBVIOUS
<1>2. Len(SubSeq(s, 1, m)) = m
  OBVIOUS
<1>3. \A i \in 1..m : SubSeq(s, 1, m)[i] = t[i]
  OBVIOUS
<1>4. SubSeq(s, 1, m) = t
  BY <1>1, <1>2, <1>3, SameElements
<1> QED
  BY <1>4 DEF StartsWith

LEMMA Ends ==
    ASSUME NEW S, NEW m \in Nat, NEW n \in Nat,
           NEW s \in Seq(S), Len(s) = m + n, NEW t \in Seq(S), Len(t) = n,
           \A i \in 1..n : s[m + i] = t[i]
    PROVE  EndsWith(s, t) /\ SubSeq(s, m + 1, m + n) = t
<1>1. SubSeq(s, m + 1, m + n) \in Seq(S)
  OBVIOUS
<1>2. Len(SubSeq(s, m + 1, m + n)) = n
  OBVIOUS
<1>3. \A i \in 1..n : SubSeq(s, m + 1, m + n)[i] = t[i]
  OBVIOUS
<1>4. SubSeq(s, m + 1, m + n) = t
  BY <1>1, <1>2, <1>3, SameElements
<1>5. n <= m + n /\ (m + n) - n + 1 = m + 1
  OBVIOUS
<1> QED
  BY <1>4, <1>5 DEF EndsWith

LEMMA JoinedEnds ==
    ASSUME NEW S, NEW s \in Seq(S), NEW t \in Seq(S)
    PROVE  /\ StartsWith(s \o t, s) /\ EndsWith(s \o t, t) /\ Len(s \o t) = Len(s) + Len(t)
           /\ \A i \in 1..Len(t) : (s \o t)[Len(s) + i] = t[i]
<1>1. PICK m \in Nat, n \in Nat : m = Len(s) /\ n = Len(t)
  OBVIOUS
<1> DEFINE u == s \o t
<1>2. /\ u \in Seq(S) /\ Len(u) = m + n
      /\ \A i \in 1..m : u[i] = s[i]
      /\ \A i \in 1..n : u[m + i] = t[i]
  BY <1>1, Joined
<1> HIDE DEF u
<1>3. PICK k \in Nat : k = m + n /\ m <= k
  OBVIOUS
<1>4. StartsWith(u, s)
  BY <1>1, <1>2, <1>3, Begins
<1>5. EndsWith(u, t)
  <2>1. u \in Seq(S) /\ Len(u) = m + n /\ Len(t) = n /\ \A i \in 1..n : u[m + i] = t[i]
    BY <1>1, <1>2, Zenon
  <2> QED
    BY <2>1, Ends
<1> QED
  BY <1>1, <1>2, <1>4, <1>5 DEF u

First15(h) == TestBin \o [i \in 1..11 |-> DigitOf(h[i - 1] % 10)]

LEMMA TestBinDigits == TestBin \in Seq(DigitChars) /\ Len(TestBin) = 4
<1>1. Digits[5] = "4" /\ Digits[3] = "2" /\ 5 \in DOMAIN Digits /\ 3 \in DOMAIN Digits
  BY DEF Digits
<1>2. "4" \in DigitChars /\ "2" \in DigitChars
  BY <1>1 DEF DigitChars, Elements
<1> QED
  BY <1>2 DEF TestBin

LEMMA First15Digits ==
    ASSUME NEW h \in [0..31 -> 0..255]
    PROVE  /\ First15(h) \in Seq(DigitChars) /\ Len(First15(h)) = 15
           /\ \A i \in 1..4 : First15(h)[i] = TestBin[i]
<1> DEFINE b == [i \in 1..11 |-> DigitOf(h[i - 1] % 10)]
<1>1. \A i \in 1..11 : DigitOf(h[i - 1] % 10) \in DigitChars
  <2> TAKE i \in 1..11
  <2>1. i - 1 \in 0..31
    OBVIOUS
  <2>2. h[i - 1] \in 0..255
    BY <2>1
  <2>3. h[i - 1] % 10 \in 0..9
    BY <2>2
  <2> QED
    BY <2>3, DigitNumbers
<1>2. b \in Seq(DigitChars) /\ Len(b) = 11
  BY <1>1
<1>3. TestBin \in Seq(DigitChars) /\ Len(TestBin) = 4
  BY TestBinDigits
<1> HIDE DEF b
<1>4. PICK m \in Nat, n \in Nat : m = 4 /\ n = 11 /\ m + n = 15
  OBVIOUS
<1>5. TestBin \in Seq(DigitChars) /\ b \in Seq(DigitChars) /\ Len(TestBin) = m /\ Len(b) = n
  BY <1>2, <1>3, <1>4, Zenon
<1>6. /\ TestBin \o b \in Seq(DigitChars) /\ Len(TestBin \o b) = m + n
      /\ \A i \in 1..m : (TestBin \o b)[i] = TestBin[i]
  BY <1>5, Joined
<1>7. /\ TestBin \o b \in Seq(DigitChars) /\ Len(TestBin \o b) = 15
      /\ \A i \in 1..4 : (TestBin \o b)[i] = TestBin[i]
  BY <1>4, <1>6, Zenon
<1> QED
  BY <1>7 DEF First15, b

CardDigits(h) == Append(First15(h), DigitOf(LuhnCheckDigit(First15(h))))

LEMMA CardDigitsValid ==
    ASSUME NEW h \in [0..31 -> 0..255]
    PROVE  /\ CardDigits(h) \in Seq(DigitChars) /\ Len(CardDigits(h)) = 16
           /\ First15(h) \o <<DigitOf(LuhnCheckDigit(First15(h)))>> = CardDigits(h)
           /\ StartsWith(CardDigits(h), TestBin) /\ LuhnValid(CardDigits(h))
<1> DEFINE s == First15(h)
           x == DigitOf(LuhnCheckDigit(s))
           ds == Append(s, x)
<1>1. s \in Seq(DigitChars) /\ Len(s) = 15 /\ \A i \in 1..4 : s[i] = TestBin[i]
  BY First15Digits
<1>2. LuhnCheckDigit(s) \in 0..9 /\ LuhnValid(ds)
  BY <1>1, CheckDigitFits
<1>3. x \in DigitChars
  BY <1>2, DigitNumbers
<1>4. CardDigits(h) = ds
  BY DEF CardDigits
<1> HIDE DEF s, x
<1>5. PICK k \in Nat, m \in Nat, n \in Nat : k = 4 /\ m = 15 /\ n = 16
  OBVIOUS
<1>6. k <= n /\ m + 1 = n /\ \A i \in 1..k : i \in 1..m
  BY <1>5
<1>7. Len(s) = m /\ s \in Seq(DigitChars) /\ \A i \in 1..k : s[i] = TestBin[i]
  BY <1>1, <1>5, Zenon
<1>8. Len(TestBin) = k /\ TestBin \in Seq(DigitChars)
  BY <1>5, TestBinDigits, Zenon
<1>9. /\ ds \in Seq(DigitChars) /\ Len(ds) = m + 1 /\ s \o <<x>> = ds
      /\ \A i \in 1..m : ds[i] = s[i]
  <2>1. x \in DigitChars /\ s \in Seq(DigitChars) /\ Len(s) = m
    BY <1>3, <1>7
  <2>2. Append(s, x) \in Seq(DigitChars) /\ Len(Append(s, x)) = m + 1
    BY <2>1, Appended
  <2>3. s \o <<x>> = Append(s, x)
    BY <2>1, Appended
  <2>4. \A i \in 1..m : Append(s, x)[i] = s[i]
    BY <2>1, Appended
  <2> QED
    BY <2>2, <2>3, <2>4, Zenon
<1> HIDE DEF ds
<1>10. Len(ds) = n /\ \A i \in 1..k : ds[i] = TestBin[i]
  BY <1>6, <1>7, <1>9, Zenon
<1>11. StartsWith(ds, TestBin)
  BY <1>6, <1>8, <1>9, <1>10, Begins
<1>12. Len(ds) = 16
  BY <1>5, <1>10, Zenon
<1> QED
  BY <1>2, <1>4, <1>9, <1>11, <1>12 DEF s, x

LEMMA CardFake ==
    ASSUME NEW s \in Seq(Chars), Len(DigitsOf(s)) = 16, NEW h \in [0..31 -> 0..255]
    PROVE  LET f == FakeCardVisa16(h, s) IN
           /\ f \in Seq(Chars) /\ Len(f) = Len(s)
           /\ \A i \in 1..Len(s) : IF IsDigit(s[i]) THEN IsDigit(f[i]) ELSE f[i] = s[i]
           /\ DigitsOf(f) \in Seq(DigitChars) /\ Len(DigitsOf(f)) = 16
           /\ StartsWith(DigitsOf(f), TestBin) /\ LuhnValid(DigitsOf(f))
<1> DEFINE ds == CardDigits(h)
           f == [i \in 1..Len(s) |-> IF IsDigit(s[i]) THEN ds[DigitsUpTo(s, i)] ELSE s[i]]
<1>1. /\ ds \in Seq(DigitChars) /\ Len(ds) = 16
      /\ First15(h) \o <<DigitOf(LuhnCheckDigit(First15(h)))>> = ds
      /\ StartsWith(ds, TestBin) /\ LuhnValid(ds)
  BY CardDigitsValid
<1>2. FakeCardVisa16(h, s) = f
  <2>1. DOMAIN s = 1..Len(s)
    OBVIOUS
  <2>2. FakeCardVisa16(h, s) =
           [i \in DOMAIN s |->
               IF IsDigit(s[i])
               THEN (First15(h) \o <<DigitOf(LuhnCheckDigit(First15(h)))>>)[DigitsUpTo(s, i)]
               ELSE s[i]]
    BY DEF FakeCardVisa16, First15
  <2> QED
    BY <1>1, <2>1, <2>2
<1>3. DigitsRead(s, Len(s), DigitsOf(s))
  BY DigitsOfAll
<1>4. /\ DigitsUpTo(s, Len(s)) = 16
      /\ \A j \in 1..Len(s) : IsDigit(s[j]) => DigitsUpTo(s, j) \in 1..16
  BY <1>3 DEF DigitsRead
<1> HIDE DEF ds
<1>5. \A i \in 1..16 : ds[i] \in DigitChars
  <2>1. 16 \in Nat
    OBVIOUS
  <2> QED
    BY <1>1, <2>1, ElementsOf, Zenon
<1>6. \A i \in 1..Len(s) : IsDigit(s[i]) => f[i] = ds[DigitsUpTo(s, i)] /\ IsDigit(f[i]) /\ f[i] \in Chars
  <2> TAKE i \in 1..Len(s)
  <2> HAVE IsDigit(s[i])
  <2>1. DigitsUpTo(s, i) \in 1..16
    BY <1>4
  <2>2. ds[DigitsUpTo(s, i)] \in DigitChars
    BY <1>5, <2>1
  <2> QED
    BY <2>2, DigitNumbers DEF Chars, DigitChars
<1>7. \A i \in 1..Len(s) : ~IsDigit(s[i]) => f[i] = s[i] /\ f[i] \in Chars
  OBVIOUS
<1>8. DOMAIN f = 1..Len(s) /\ Len(s) \in Nat /\ f = [i \in 1..Len(s) |-> f[i]]
  OBVIOUS
<1> HIDE DEF f
<1>9. \A i \in 1..Len(s) : f[i] \in Chars
  BY <1>6, <1>7
<1>10. f \in Seq(Chars) /\ Len(f) = Len(s)
  <2> DEFINE g == [i \in 1..Len(s) |-> f[i]]
  <2>1. g \in Seq(Chars) /\ Len(g) = Len(s)
    BY <1>8, <1>9
  <2> HIDE DEF g
  <2>2. f = g
    BY <1>8 DEF g
  <2> QED
    BY <2>1, <2>2
<1>11. ASSUME NEW j \in 1..Len(s) PROVE DigitsUpTo(f, j) = DigitsUpTo(s, j)
  <2>1. \A i \in 1..j : i \in 1..Len(s)
    BY <1>8
  <2>2. \A i \in 1..j : IsDigit(f[i]) <=> IsDigit(s[i])
    BY <1>6, <1>7, <2>1, Zenon
  <2>3. {i \in 1..j : IsDigit(f[i])} = {i \in 1..j : IsDigit(s[i])}
    BY <2>2
  <2> QED
    BY <2>3 DEF DigitsUpTo
<1> DEFINE t == DigitsOf(f)
<1>12. t \in Seq(Chars) /\ DigitsRead(f, Len(s), t)
  BY <1>10, DigitsOfAll
<1> HIDE DEF t
<1>13. Len(t) = 16
  <2>1. Len(s) \in 1..Len(s)
    <3>1. Len(s) # 0
      BY <1>4, UpTo
    <3> QED
      BY <1>8, <3>1
  <2>2. Len(t) = DigitsUpTo(f, Len(s))
    BY <1>12 DEF DigitsRead
  <2> QED
    BY <1>4, <1>11, <2>1, <2>2
<1>14. \A k \in 1..16 : t[k] = ds[k]
  <2> TAKE k \in 1..16
  <2>1. PICK j \in 1..Len(s) : IsDigit(f[j]) /\ DigitsUpTo(f, j) = k
    BY <1>12, <1>13 DEF DigitsRead
  <2>2. t[k] = f[j]
    BY <1>12, <2>1 DEF DigitsRead
  <2>3. IsDigit(s[j])
    BY <1>7, <2>1
  <2> QED
    BY <1>6, <1>11, <2>1, <2>2, <2>3
<1>15. t = ds
  <2>1. PICK n \in Nat : n = 16
    OBVIOUS
  <2>2. /\ ds \in Seq(DigitChars) /\ Len(ds) = n /\ t \in Seq(Chars) /\ Len(t) = n
        /\ \A k \in 1..n : t[k] = ds[k]
    BY <1>1, <1>12, <1>13, <1>14, <2>1, Zenon
  <2> QED
    BY <2>2, SameElements
<1> QED
  BY <1>1, <1>2, <1>6, <1>7, <1>10, <1>15 DEF t

-----------------------------------------------------------------------------
(* MAC tails.                                                              *)

\* The equations that define ^ in Naturals.  The provers do not know them.
Powers == Radix^0 = 1 /\ \A k \in Nat : Radix^(k + 1) = Radix * Radix^k

LEMMA PowersGrow ==
    ASSUME Powers, NEW n \in Nat
    PROVE  Radix^n \in Nat /\ Radix^n >= n + 1
<1> DEFINE Bad == {k \in Nat : ~(Radix^k \in Nat /\ Radix^k >= k + 1)}
<1>1. Bad = {}
  <2> SUFFICES ASSUME Bad # {} PROVE FALSE
    OBVIOUS
  <2>1. PICK k \in Bad : \A j \in Bad : k <= j
    <3>1. Bad \in SUBSET Nat
      OBVIOUS
    <3> QED
      BY <3>1, LeastNumber
  <2>2. k # 0
    BY <2>1 DEF Powers
  <2>3. PICK j \in Nat : j + 1 = k
    <3>1. k - 1 \in Nat /\ (k - 1) + 1 = k
      BY <2>2
    <3> QED
      BY <3>1
  <2>4. ~(k <= j)
    BY <2>3
  <2>5. Radix^j \in Nat /\ Radix^j >= j + 1
    BY <2>1, <2>4
  <2>6. PICK x \in Nat, r \in Nat : x = Radix^j /\ r = Radix /\ x >= j + 1 /\ r >= 2
    BY <2>5, SymbolsKnown
  <2>7. Radix^k = r * x
    BY <2>3, <2>6 DEF Powers
  <2>8. r * x \in Nat /\ r * x >= 2 * x
    BY <2>6
  <2>9. Radix^k \in Nat /\ Radix^k >= k + 1
    BY <2>3, <2>6, <2>7, <2>8
  <2> QED
    BY <2>1, <2>9
<1> QED
  BY <1>1

LEMMA TailLength ==
    ASSUME Powers
    PROVE  MacTailLen \in Nat \ {0} /\ Radix^MacTailLen >= MacSpace
<1>1. MacSpace \in Nat /\ MacSpace >= 2
  BY RecognitionAssumption
<1> DEFINE Enough == {k \in 1..MacSpace : Radix^k >= MacSpace}
<1>2. MacSpace \in Enough
  BY <1>1, PowersGrow
<1>3. PICK k \in Enough : \A j \in Enough : k <= j
  <2>1. Enough \in SUBSET Nat
    BY <1>1
  <2> QED
    BY <1>2, <2>1, LeastNumber
<1>4. \A j \in 0..(k - 1) : Radix^j < MacSpace
  <2> TAKE j \in 0..(k - 1)
  <2>1. CASE j = 0
    BY <1>1, <2>1 DEF Powers
  <2>2. CASE j # 0
    <3>1. j \in 1..MacSpace /\ ~(k <= j)
      BY <1>1, <2>2
    <3>2. ~(Radix^j >= MacSpace)
      BY <1>3, <3>1
    <3>3. Radix^j \in Nat
      BY <3>1, PowersGrow
    <3> QED
      BY <1>1, <3>2, <3>3
  <2> QED
    BY <2>1, <2>2
<1>5. \E n \in 1..MacSpace : Radix^n >= MacSpace /\ \A j \in 0..(n - 1) : Radix^j < MacSpace
  BY <1>3, <1>4
<1>6. MacTailLen \in 1..MacSpace /\ Radix^MacTailLen >= MacSpace
  BY <1>5 DEF MacTailLen
<1> QED
  BY <1>1, <1>6

LEMMA SymbolsInBounds ==
    ASSUME NEW x \in Nat
    PROVE  SymbolAt(x % Radix) \in Chars \ Wide /\ Contains(SymbolAt(x % Radix))
<1>1. x % Radix \in 0..(Radix - 1)
  BY SymbolsKnown
<1> QED
  BY <1>1, IndexOfSymbol

LEMMA ByteLengths ==
    ASSUME NEW v \in Values
    PROVE  ByteLen(v) \in Nat
<1>1. v \in Seq(Chars)
  BY RecognitionAssumption DEF Strings
<1>2. Len(v) \in Nat /\ DOMAIN v = 1..Len(v)
  BY <1>1
<1>3. IsFiniteSet(1..Len(v))
  BY <1>2, FS_Interval
<1> DEFINE W == {i \in DOMAIN v : v[i] \in Wide}
<1>4. W \subseteq 1..Len(v)
  BY <1>2
<1> HIDE DEF W
<1>5. IsFiniteSet(W)
  BY <1>3, <1>4, FS_Subset
<1>6. Cardinality(W) \in Nat
  BY <1>5, FS_CardinalityType
<1> QED
  BY <1>2, <1>6 DEF ByteLen, W

\* Strings of the alphabet.
Symbolic(s, n) ==
    /\ s \in Seq(Chars) /\ Len(s) = n
    /\ \A i \in 1..n : s[i] \notin Wide /\ Contains(s[i])

LEMMA MacFakeVerifies ==
    ASSUME Powers, NEW v \in Values, ByteLen(v) > MacTailLen, ByteLen(v) - MacTailLen <= HkdfMax
    PROVE  /\ MakeMacFake(v) \in Seq(Chars) /\ Len(MakeMacFake(v)) = ByteLen(v)
           /\ Verify(MakeMacFake(v))
<1>1. PICK m \in Nat, k \in Nat, n \in Nat : m = ByteLen(v) /\ k = MacTailLen /\ n = m - k
  <2>1. ByteLen(v) \in Nat /\ MacTailLen \in Nat
    BY ByteLengths, TailLength
  <2>2. PICK m \in Nat, k \in Nat : m = ByteLen(v) /\ k = MacTailLen
    BY <2>1
  <2>3. m - k \in Nat
    BY <2>2
  <2> QED
    BY <2>2, <2>3
<1>2. m = n + k /\ n <= m /\ n <= HkdfMax
  BY <1>1
<1> DEFINE body == DeriveBody(v, n)
           tail == MacTail(body)
           f == body \o tail
<1>3. body # Panic => MakeMacFake(v) = f
  BY <1>1 DEF MakeMacFake
<1>4. Symbolic(body, n)
  <2>1. \A i \in 1..n : Derived(v, i) \in Nat
    <3>1. \A i \in 1..ByteLen(v) : Derived(v, i) \in Nat
      BY RecognitionAssumption
    <3>2. \A i \in 1..n : i \in 1..ByteLen(v)
      BY <1>1, <1>2
    <3> QED
      BY <3>1, <3>2
  <2>2. \A i \in 1..n : /\ SymbolAt(Derived(v, i) % Radix) \in Chars \ Wide
                        /\ Contains(SymbolAt(Derived(v, i) % Radix))
    BY <2>1, SymbolsInBounds
  <2>3. body = [i \in 1..n |-> SymbolAt(Derived(v, i) % Radix)]
    <3>1. ~(n > HkdfMax)
      BY <1>1, <1>2, RecognitionAssumption
    <3> QED
      BY <3>1 DEF DeriveBody
  <2> HIDE DEF body
  <2> QED
    BY <2>2, <2>3 DEF Symbolic
<1>5. Hash(body) \in Nat
  <2>1. body = DeriveBody(v, ByteLen(v) - MacTailLen)
    BY <1>1
  <2> QED
    BY <2>1, RecognitionAssumption
<1> HIDE DEF body
<1>6. Symbolic(tail, k)
  <2> DEFINE d(i) == (Hash(body) \div Radix^(k - i)) % Radix
  <2>1. tail = [i \in 1..k |-> SymbolAt(d(i))]
    BY <1>1 DEF MacTail, EncodeToAlphabet
  <2>2. ASSUME NEW i \in 1..k PROVE SymbolAt(d(i)) \in Chars \ Wide /\ Contains(SymbolAt(d(i)))
    <3>1. PICK x \in Nat, y \in Nat : x = Hash(body) /\ y = Radix^(k - i) /\ y > 0
      <4>1. k - i \in Nat
        OBVIOUS
      <4>2. Radix^(k - i) \in Nat /\ Radix^(k - i) >= (k - i) + 1
        BY <4>1, PowersGrow
      <4>3. Radix^(k - i) > 0
        BY <4>1, <4>2
      <4> QED
        BY <1>5, <4>2, <4>3
    <3>2. x \div y \in Nat
      BY <3>1
    <3>3. d(i) = (x \div y) % Radix
      BY <3>1
    <3> QED
      BY <3>2, <3>3, SymbolsInBounds
  <2> HIDE DEF d, tail
  <2> QED
    BY <2>1, <2>2 DEF Symbolic
<1> HIDE DEF tail
<1>7. /\ f \in Seq(Chars) /\ Len(f) = n + k
      /\ \A i \in 1..n : f[i] = body[i]
      /\ \A i \in 1..k : f[n + i] = tail[i]
  <2>1. body \in Seq(Chars) /\ Len(body) = n /\ tail \in Seq(Chars) /\ Len(tail) = k
    BY <1>4, <1>6 DEF Symbolic
  <2>2. n \in Nat /\ k \in Nat
    BY <1>1
  <2>3. PICK b \in Seq(Chars), t \in Seq(Chars) : b = body /\ t = tail /\ Len(b) = n /\ Len(t) = k
    BY <2>1
  <2>4. /\ b \o t \in Seq(Chars) /\ Len(b \o t) = n + k
        /\ \A i \in 1..n : (b \o t)[i] = b[i]
        /\ \A i \in 1..k : (b \o t)[n + i] = t[i]
    <3> HIDE DEF body, tail
    <3>1. Len(b) = n /\ Len(t) = k
      BY <2>3
    <3> QED
      BY <3>1
  <2>5. f = b \o t
    BY <2>3
  <2> HIDE DEF f
  <2> QED
    BY <2>3, <2>4, <2>5, Zenon
<1> HIDE DEF f
<1>8. SubSeq(f, 1, n) = body
  BY <1>2, <1>4, <1>7, Begins DEF Symbolic
<1>9. SubSeq(f, n + 1, n + k) = tail
  BY <1>6, <1>7, Ends DEF Symbolic
<1>10. \A i \in DOMAIN f : f[i] \notin Wide
  <2> TAKE i \in DOMAIN f
  <2>1. i \in 1..(n + k)
    BY <1>7
  <2>2. CASE i <= n
    <3>1. i \in 1..n
      BY <2>1, <2>2
    <3> QED
      BY <1>4, <1>7, <3>1 DEF Symbolic
  <2>3. CASE i > n
    <3>1. PICK j \in 1..k : i = n + j
      <4>1. i - n \in 1..k /\ i = n + (i - n)
        BY <2>1, <2>3
      <4> QED
        BY <4>1
    <3> QED
      BY <1>6, <1>7, <3>1 DEF Symbolic
  <2> QED
    BY <2>1, <2>2, <2>3
<1>11. /\ Len(f) >= MacTailLen /\ Len(f) - MacTailLen + 1 = n + 1
       /\ Len(f) - MacTailLen = n /\ Len(f) = n + k
  BY <1>1, <1>7
<1>12. \A i \in DOMAIN tail : Contains(tail[i])
  <2>1. DOMAIN tail = 1..k
    BY <1>6 DEF Symbolic
  <2> QED
    BY <1>6, <2>1 DEF Symbolic
<1>13. MacTail(body) = tail
  BY DEF tail
<1>14. Verify(f)
  BY <1>8, <1>9, <1>10, <1>11, <1>12, <1>13 DEF Verify
<1>15. Len(f) = ByteLen(v)
  BY <1>1, <1>2, <1>7
<1>16. body # Panic
  BY <1>4, RecognitionAssumption DEF Symbolic
<1> QED
  BY <1>3, <1>7, <1>14, <1>15, <1>16

-----------------------------------------------------------------------------
(* Reserved ranges.                                                        *)

LEMMA DigitsOfBytes ==
    ASSUME NEW n \in 0..255
    PROVE  /\ Decimal(n) \in Seq(DigitChars)
           /\ DigitOf((n % 100) \div 10) \in DigitChars /\ DigitOf(n % 10) \in DigitChars
<1>1. n % 10 \in 0..9 /\ (n % 100) \div 10 \in 0..9 /\ (n \div 10) % 10 \in 0..9
  OBVIOUS
<1>2. n < 10 => n \in 0..9
  OBVIOUS
<1>3. n < 100 => n \div 10 \in 0..9
  OBVIOUS
<1>4. n \div 100 \in 0..9
  OBVIOUS
<1>5. \A d \in 0..9 : DigitOf(d) \in DigitChars
  BY DigitNumbers
<1>6. CASE n < 10
  <2>1. Decimal(n) = <<DigitOf(n)>>
    BY <1>6 DEF Decimal
  <2> QED
    BY <1>1, <1>2, <1>5, <1>6, <2>1
<1>7. CASE n >= 10 /\ n < 100
  <2>1. Decimal(n) = <<DigitOf(n \div 10), DigitOf(n % 10)>>
    BY <1>7 DEF Decimal
  <2> QED
    BY <1>1, <1>3, <1>5, <1>7, <2>1
<1>8. CASE n >= 100
  <2>1. Decimal(n) = <<DigitOf(n \div 100), DigitOf((n \div 10) % 10), DigitOf(n % 10)>>
    BY <1>8 DEF Decimal
  <2> QED
    BY <1>1, <1>4, <1>5, <1>8, <2>1
<1> QED
  BY <1>6, <1>7, <1>8

LEMMA EmailReserved ==
    ASSUME NEW h \in [0..31 -> 0..255]
    PROVE  IsInReservedRange(FakeEmail(h))
<1> DEFINE S == {<<"letter", n>> : n \in Nat} \cup {"@example.com"}
           a == [i \in 1..10 |-> <<"letter", h[i - 1] % 26>>]
           d == <<"@example.com">>
<1>1. PICK m \in Nat : m = 10
  OBVIOUS
<1>2. \A i \in 1..m : <<"letter", h[i - 1] % 26>> \in S
  <2> TAKE i \in 1..m
  <2>1. i - 1 \in 0..31
    BY <1>1
  <2>2. h[i - 1] \in 0..255
    BY <2>1
  <2>3. h[i - 1] % 26 \in Nat
    BY <2>2
  <2> QED
    BY <2>3
<1>3. "@example.com" \in S
  OBVIOUS
<1> HIDE DEF S
<1>4. a = [i \in 1..m |-> <<"letter", h[i - 1] % 26>>]
  BY <1>1, Zenon
<1>5. a \in Seq(S) /\ Len(a) = m
  <2>1. [i \in 1..m |-> <<"letter", h[i - 1] % 26>>] \in [1..m -> S]
    BY <1>2, Zenon
  <2> HIDE DEF a
  <2>2. a \in [1..m -> S]
    BY <1>4, <2>1, Zenon
  <2> QED
    BY <2>2, FunctionAsSeq
<1>6. d \in Seq(S) /\ Len(d) = 1
  BY <1>3
<1>7. FakeEmail(h) = a \o d
  BY DEF FakeEmail
<1> HIDE DEF a, d
<1>8. EndsWith(a \o d, d)
  BY <1>5, <1>6, JoinedEnds
<1> QED
  BY <1>7, <1>8 DEF IsInReservedRange, IsEmailExampleDomain, d

LEMMA Ipv4Reserved ==
    ASSUME NEW h \in [0..31 -> 0..255]
    PROVE  IsInReservedRange(FakeIpv4(h))
<1> DEFINE S == DigitChars \cup {".", "1", "9", "2", "0"}
           d == Decimal(h[0])
<1>1. d \in Seq(S)
  <2>1. h[0] \in 0..255
    OBVIOUS
  <2>2. d \in Seq(DigitChars)
    BY <2>1, DigitsOfBytes
  <2> QED
    BY <2>2
<1>2. TestNet1 \in Seq(S) /\ Len(TestNet1) = 8
  BY DEF TestNet1
<1> HIDE DEF S, d
<1>3. StartsWith(TestNet1 \o d, TestNet1)
  BY <1>1, <1>2, JoinedEnds
<1> QED
  BY <1>3 DEF FakeIpv4, IsInReservedRange, IsIpv4Rfc5737, d

LEMMA PhoneReserved ==
    ASSUME NEW h \in [0..31 -> 0..255]
    PROVE  IsInReservedRange(FakePhone(h))
<1> DEFINE S == DigitChars \cup {"5", "-", "0", "1"}
           x == DigitOf((h[0] % 100) \div 10)
           y == DigitOf(h[0] % 10)
           d == <<x, y>>
<1>1. x \in DigitChars /\ y \in DigitChars
  <2>1. h[0] \in 0..255
    OBVIOUS
  <2> QED
    BY <2>1, DigitsOfBytes
<1>2. PhonePrefix \in Seq(S) /\ Len(PhonePrefix) = 6
  BY DEF PhonePrefix
<1>3. FakePhone(h) = PhonePrefix \o d
  BY DEF FakePhone
<1> HIDE DEF x, y
<1>4. d \in Seq(S) /\ Len(d) = 2 /\ d[1] = x /\ d[2] = y
  BY <1>1
<1> HIDE DEF S, d
<1> DEFINE f == PhonePrefix \o d
<1>5. /\ StartsWith(f, PhonePrefix) /\ Len(f) = Len(PhonePrefix) + Len(d)
      /\ \A i \in 1..Len(d) : f[Len(PhonePrefix) + i] = d[i]
  <2>1. PhonePrefix \in Seq(S) /\ d \in Seq(S)
    BY <1>2, <1>4
  <2> QED
    BY <2>1, JoinedEnds
<1> HIDE DEF f
<1>6. 6 + 2 = 8 /\ 6 + 1 = 7 /\ 1 \in 1..2 /\ 2 \in 1..2
  OBVIOUS
<1>7. Len(f) = 8 /\ f[7] = d[1] /\ f[8] = d[2]
  BY <1>2, <1>4, <1>5, <1>6, Zenon
<1>8. IsDigit(f[7]) /\ IsDigit(f[8])
  BY <1>1, <1>4, <1>7, DigitNumbers
<1>9. IsPhone555(f)
  BY <1>5, <1>7, <1>8 DEF IsPhone555
<1> QED
  BY <1>3, <1>9 DEF IsInReservedRange, f

-----------------------------------------------------------------------------
(* Fakes are recognised, and fit.                                          *)

LEMMA CardEntryFake ==
    ASSUME NEW r \in CardRegs
    PROVE  LET f == FakeFor(r) IN
           /\ f = NoFake <=> Len(DigitsOf(r.value)) # 16
           /\ f # NoFake =>
                /\ f \in Seq(Chars) /\ Len(f) = Len(r.value)
                /\ \A i \in 1..Len(f) : IF IsDigit(r.value[i]) THEN IsDigit(f[i]) ELSE f[i] = r.value[i]
                /\ DigitsOf(f) \in Seq(DigitChars) /\ Len(DigitsOf(f)) = 16
                /\ StartsWith(DigitsOf(f), TestBin) /\ LuhnValid(DigitsOf(f))
<1> DEFINE v == r.value
           h == Sha(v)
           f == FakeCardVisa16(h, v)
<1>1. v \in Seq(Chars) /\ h \in [0..31 -> 0..255] /\ r.kind = "Card"
  BY RecognitionAssumption DEF CardRegs, Strings
<1>2. FakeFor(r) = IF f = <<>> THEN NoFake ELSE f
  BY <1>1 DEF FakeFor
<1> HIDE DEF v, h, f
<1>3. CASE Len(DigitsOf(v)) # 16
  <2>1. f = <<>>
    BY <1>3 DEF f, FakeCardVisa16
  <2>2. FakeFor(r) = NoFake
    BY <1>2, <2>1
  <2> QED
    BY <1>3, <2>2 DEF v
<1>4. CASE Len(DigitsOf(v)) = 16
  <2>1. /\ f \in Seq(Chars) /\ Len(f) = Len(v)
        /\ \A i \in 1..Len(v) : IF IsDigit(v[i]) THEN IsDigit(f[i]) ELSE f[i] = v[i]
        /\ DigitsOf(f) \in Seq(DigitChars) /\ Len(DigitsOf(f)) = 16
        /\ StartsWith(DigitsOf(f), TestBin) /\ LuhnValid(DigitsOf(f))
    BY <1>1, <1>4, CardFake DEF f
  <2>2. f # <<>>
    <3> SUFFICES ASSUME f = <<>> PROVE FALSE
      OBVIOUS
    <3>1. Len(v) = 0
      BY <2>1
    <3>2. DigitsRead(v, Len(v), DigitsOf(v))
      BY <1>1, DigitsOfAll
    <3>3. Len(DigitsOf(v)) = DigitsUpTo(v, 0)
      BY <3>1, <3>2 DEF DigitsRead
    <3>4. DigitsUpTo(v, 0) = 0
      BY UpTo
    <3> QED
      BY <1>4, <3>3, <3>4
  <2>3. f # NoFake
    BY <2>1, RecognitionAssumption
  <2>4. FakeFor(r) = f
    BY <1>2, <2>2
  <2> QED
    BY <1>4, <2>1, <2>3, <2>4 DEF v
<1> QED
  BY <1>3, <1>4

\* A string that some recogniser knows is not scrubbed, unless it is a secret.
LEMMA KnownIsNotScrubbed ==
    ASSUME NEW c, \/ TryRestore(c, regs) # NoFake \/ TryRestore(c, retired) # NoFake
                  \/ IsInReservedRange(c) \/ Verify(c)
    PROVE  (\E q \in OfFpe(regs) : q.value = c) \/ Classify(c) # "Scrub"
  BY DEF Classify

\* ScrubIdempotent: scrubbing what was scrubbed changes nothing, and a secret
\* is scrubbed whatever it looks like (IdempotenceContext::classify).
THEOREM ScrubsOnlyOnce ==
    ASSUME Powers PROVE RecognitionSpec => []ScrubIdempotent
<1>1. EntriesKept => ScrubIdempotent
  <2> SUFFICES ASSUME EntriesKept PROVE ScrubIdempotent
    OBVIOUS
  <2>1. \A r \in OfFpe(regs) : Classify(r.value) = "Scrub"
    BY DEF Classify
  <2>2. FpeSound(regs) /\ FpeSound(retired)
    BY EntriesSound
  <2>3. ASSUME NEW rs, FpeSound(rs), NEW i \in DOMAIN rs, rs[i].kind = "Fpe"
        PROVE  TryRestore(FakeFor(rs[i]), rs) # NoFake
    <3>1. rs[i] \in FpeRegs
      BY <2>3 DEF FpeSound
    <3>2. FakeFor(rs[i]) = FpeScrub(rs[i])
      BY <2>3 DEF FakeFor
    <3>3. FpeScrub(rs[i]) \in Seq(Chars) /\ DecryptsTo(FpeScrub(rs[i]), rs[i])
      BY <3>1, FakeOfFpe
    <3> QED
      BY <2>3, <3>2, <3>3, TryRestoreAnswers
  <2>4. ASSUME NEW r \in Registrations, r.kind # "Fpe"
        PROVE  \/ FakeFor(r) \in {NoFake, Panic}
               \/ IsInReservedRange(FakeFor(r)) \/ Verify(FakeFor(r))
    <3>1. CASE r.kind = "Formatless"
      <4>1. r.value \in Values
        BY <3>1, KindsOfEntries DEF FormatlessRegs
      <4>2. FakeFor(r) = MakeMacFake(r.value)
        BY <3>1 DEF FakeFor
      <4>3. ByteLen(r.value) \in Nat /\ MacTailLen \in Nat
        BY <4>1, ByteLengths, TailLength
      <4>4. CASE ByteLen(r.value) <= MacTailLen
        BY <4>2, <4>4 DEF MakeMacFake
      <4>5. CASE ByteLen(r.value) > MacTailLen /\ ByteLen(r.value) - MacTailLen <= HkdfMax
        BY <4>1, <4>2, <4>5, MacFakeVerifies
      <4>6. CASE ByteLen(r.value) > MacTailLen /\ ByteLen(r.value) - MacTailLen > HkdfMax
        <5>1. DeriveBody(r.value, ByteLen(r.value) - MacTailLen) = Panic
          BY <4>6 DEF DeriveBody
        <5>2. ~(ByteLen(r.value) <= MacTailLen)
          BY <4>3, <4>6
        <5> QED
          BY <4>2, <5>1, <5>2 DEF MakeMacFake
      <4>7. HkdfMax \in Nat
        BY RecognitionAssumption
      <4>8. \/ ByteLen(r.value) <= MacTailLen
            \/ ByteLen(r.value) > MacTailLen /\ ByteLen(r.value) - MacTailLen <= HkdfMax
            \/ ByteLen(r.value) > MacTailLen /\ ByteLen(r.value) - MacTailLen > HkdfMax
        BY <4>3, <4>7
      <4> QED
        BY <4>4, <4>5, <4>6, <4>8, Zenon
    <3>2. CASE r.kind \in {"Email", "Ipv4", "Phone"}
      <4>1. r.value \in Structured
        BY <3>2, KindsOfEntries DEF StructuredRegs
      <4>2. Sha(r.value) \in [0..31 -> 0..255]
        BY <4>1, RecognitionAssumption
      <4>3. \/ FakeFor(r) = FakeEmail(Sha(r.value))
            \/ FakeFor(r) = FakeIpv4(Sha(r.value))
            \/ FakeFor(r) = FakePhone(Sha(r.value))
        BY <3>2 DEF FakeFor
      <4> QED
        BY <4>2, <4>3, EmailReserved, Ipv4Reserved, PhoneReserved
    <3>3. CASE r.kind = "Card"
      <4>1. r \in CardRegs
        BY <3>3, KindsOfEntries
      <4>2. FakeFor(r) # NoFake =>
               Len(DigitsOf(FakeFor(r))) = 16 /\ StartsWith(DigitsOf(FakeFor(r)), TestBin)
        BY <4>1, CardEntryFake
      <4> QED
        BY <4>2 DEF IsInReservedRange, IsCardTestBin
    <3> QED
      BY <2>4, <3>1, <3>2, <3>3, KindsOfEntries
  <2>5. ASSUME NEW r \in Elements(regs)
        PROVE  \/ FakeFor(r) \in {NoFake, Panic}
               \/ \E q \in OfFpe(regs) : q.value = FakeFor(r)
               \/ Classify(FakeFor(r)) # "Scrub"
    <3>1. PICK i \in DOMAIN regs : r = regs[i]
      BY DEF Elements
    <3>2. r \in Registrations
      BY <3>1 DEF EntriesKept
    <3>3. CASE r.kind = "Fpe"
      BY <2>2, <2>3, <3>1, <3>3, KnownIsNotScrubbed
    <3>4. CASE r.kind # "Fpe"
      BY <2>4, <3>2, <3>4, KnownIsNotScrubbed
    <3> QED
      BY <3>3, <3>4
  <2>6. ASSUME NEW r \in Elements(retired)
        PROVE  (\E q \in OfFpe(regs) : q.value = FakeFor(r)) \/ Classify(FakeFor(r)) # "Scrub"
    <3>1. PICK i \in DOMAIN retired : r = retired[i]
      BY DEF Elements
    <3>2. r.kind = "Fpe"
      BY <3>1 DEF EntriesKept, FpeRegs
    <3> QED
      BY <2>2, <2>3, <3>1, <3>2, KnownIsNotScrubbed
  <2> QED
    BY <2>1, <2>5, <2>6 DEF ScrubIdempotent
<1> QED
  BY <1>1, EntriesAlwaysKept, PTL

\* FakesFitValues: the FF1 path is taken exactly for the values that suit it
\* and keeps prefix and length, a MAC fake within HKDF's reach is as long as
\* its value, and a card's fake is a valid card written as the original was
\* (check_eligibility, make_macfake, fake_card_visa16).
THEOREM FakesAlwaysFit ==
    ASSUME Powers PROVE RecognitionSpec => []FakesFitValues
<1>1. EntriesKept => FakesFitValues
  <2> SUFFICES ASSUME EntriesKept PROVE FakesFitValues
    OBVIOUS
  <2>1. \A r \in Elements(regs) : r \in Registrations
    BY DEF EntriesKept, Elements
  <2>2. ASSUME NEW r \in Elements(regs), r.kind = "Card"
        PROVE  LET f == FakeFor(r)
                   digits == DigitsOf(f)
               IN  /\ f = NoFake <=> Len(DigitsOf(r.value)) # 16
                   /\ f # NoFake =>
                        /\ Len(f) = Len(r.value)
                        /\ \A i \in DOMAIN f : IF IsDigit(r.value[i]) THEN IsDigit(f[i])
                                               ELSE f[i] = r.value[i]
                        /\ LuhnValid(digits)
                        /\ \A i \in 1..16 : \A d \in Elements(Digits) :
                              d # digits[i] => ~LuhnValid([digits EXCEPT ![i] = d])
    <3> DEFINE f == FakeFor(r)
               digits == DigitsOf(f)
    <3>1. r \in CardRegs
      BY <2>1, <2>2, KindsOfEntries
    <3>2. /\ f = NoFake <=> Len(DigitsOf(r.value)) # 16
          /\ f # NoFake =>
                /\ f \in Seq(Chars) /\ Len(f) = Len(r.value)
                /\ \A i \in 1..Len(f) : IF IsDigit(r.value[i]) THEN IsDigit(f[i]) ELSE f[i] = r.value[i]
                /\ digits \in Seq(DigitChars) /\ Len(digits) = 16 /\ LuhnValid(digits)
      BY <3>1, CardEntryFake
    <3> HIDE DEF f, digits
    <3>3. ASSUME f # NoFake
          PROVE  \A i \in 1..16 : \A d \in Elements(Digits) :
                    d # digits[i] => ~LuhnValid([digits EXCEPT ![i] = d])
      <4>1. digits \in Seq(DigitChars) /\ LuhnValid(digits) /\ Len(digits) = 16
        BY <3>2, <3>3
      <4>2. ASSUME NEW i \in 1..Len(digits), NEW d \in DigitChars, d # digits[i]
            PROVE  ~LuhnValid([digits EXCEPT ![i] = d])
        <5>1. digits \in Seq(DigitChars) /\ LuhnValid(digits)
          BY <4>1
        <5> QED
          BY <4>2, <5>1, OneDigitMatters
      <4> QED
        BY <4>1, <4>2, Zenon DEF DigitChars
    <3>4. f # NoFake => DOMAIN f = 1..Len(f)
      BY <3>2
    <3> QED
      BY <3>2, <3>3, <3>4 DEF f, digits
  <2>3. CardFakesValid
    BY <2>2, Zenon DEF CardFakesValid
  <2>5. ASSUME NEW r \in Elements(regs), r.kind = "Fpe"
        PROVE  SuitsFpe(r.value, r.prefix) /\ FitsProfile(FpeScrub(r), r)
    <3> DEFINE b == Body(r.value, r.prefix)
    <3>1. r \in FpeRegs
      BY <2>1, <2>5, KindsOfEntries
    <3>2. /\ HasPrefix(r.value, r.prefix) /\ b \in Seq(Chars)
          /\ \A i \in DOMAIN b : Contains(b[i])
      BY <3>1, EligibleBody
    <3>3. ~(DomainSize(Len(b)) < MinDomain)
      BY <3>1 DEF FpeRegs, CheckEligibility
    <3>4. Radix^Len(b) >= MinDomain
      <4> HIDE DEF b
      <4>1. Len(b) \in Nat
        BY <3>2
      <4>2. PICK x \in Nat : x = Radix^Len(b)
        BY <4>1, PowersGrow
      <4>3. DomainSize(Len(b)) = IF x > MaxWord THEN MaxWord ELSE x
        BY <4>2 DEF DomainSize
      <4>4. x >= MinDomain
        BY <3>3, <4>3, RecognitionAssumption
      <4> QED
        BY <4>2, <4>4
    <3> QED
      BY <3>1, <3>2, <3>4, FakeOfFpe DEF SuitsFpe
  <2>6. ASSUME NEW r \in Elements(regs), r.kind = "Formatless"
        PROVE  /\ ~SuitsFpe(r.value, r.prefix)
               /\ FakeFor(r) = NoFake <=> ByteLen(r.value) <= MacTailLen
               /\ MacTailLen < ByteLen(r.value) /\ ByteLen(r.value) - MacTailLen <= HkdfMax =>
                     Len(FakeFor(r)) = ByteLen(r.value)
    <3>1. /\ r.value \in Values /\ r.prefix \in Prefixes
          /\ CheckEligibility(r.value, r.prefix) # "ok"
      BY <2>1, <2>6, KindsOfEntries DEF FormatlessRegs
    <3> DEFINE b == Body(r.value, r.prefix)
    <3>2. ASSUME HasPrefix(r.value, r.prefix), \A i \in DOMAIN b : Contains(b[i])
          PROVE  Radix^Len(b) < MinDomain
      <4>1. \A i \in DOMAIN b : b[i] \notin Wide /\ b[i] \notin Spaces
        BY <3>2, SymbolsKnown DEF Contains
      <4>2. DomainSize(Len(b)) < MinDomain
        BY <3>1, <3>2, <4>1 DEF CheckEligibility
      <4>3. r.value \in Seq(Chars) /\ r.prefix \in Seq(Chars)
        BY <3>1, RecognitionAssumption DEF Strings
      <4>4. b \in Seq(Chars)
        BY <3>2, <4>3, BodyBehindPrefix
      <4> HIDE DEF b
      <4>5. Len(b) \in Nat
        BY <4>4
      <4>6. PICK x \in Nat : x = Radix^Len(b)
        BY <4>5, PowersGrow
      <4>7. DomainSize(Len(b)) = IF x > MaxWord THEN MaxWord ELSE x
        BY <4>6 DEF DomainSize
      <4>8. x < MinDomain
        BY <4>2, <4>7, RecognitionAssumption
      <4> QED
        BY <4>6, <4>8
    <3>3. FakeFor(r) = MakeMacFake(r.value)
      BY <2>6 DEF FakeFor
    <3>4. ByteLen(r.value) <= MacTailLen => FakeFor(r) = NoFake
      BY <3>3 DEF MakeMacFake
    <3>5. ByteLen(r.value) \in Nat /\ MacTailLen \in Nat /\ HkdfMax \in Nat
      BY <3>1, ByteLengths, TailLength, RecognitionAssumption
    <3>6. ASSUME ByteLen(r.value) > MacTailLen, ByteLen(r.value) - MacTailLen <= HkdfMax
          PROVE  FakeFor(r) # NoFake /\ Len(FakeFor(r)) = ByteLen(r.value)
      <4>1. MakeMacFake(r.value) \in Seq(Chars) /\ Len(MakeMacFake(r.value)) = ByteLen(r.value)
        BY <3>1, <3>6, MacFakeVerifies
      <4> QED
        BY <3>3, <4>1, RecognitionAssumption
    <3>7. ASSUME ByteLen(r.value) > MacTailLen, ByteLen(r.value) - MacTailLen > HkdfMax
          PROVE  FakeFor(r) # NoFake
      <4>1. DeriveBody(r.value, ByteLen(r.value) - MacTailLen) = Panic
        BY <3>7 DEF DeriveBody
      <4>2. ~(ByteLen(r.value) <= MacTailLen)
        BY <3>5, <3>7
      <4>3. FakeFor(r) = Panic
        BY <3>3, <4>1, <4>2 DEF MakeMacFake
      <4> QED
        BY <4>3, RecognitionAssumption
    <3>8. ~SuitsFpe(r.value, r.prefix)
      <4> SUFFICES ASSUME SuitsFpe(r.value, r.prefix) PROVE FALSE
        OBVIOUS
      <4>1. HasPrefix(r.value, r.prefix) /\ \A i \in DOMAIN b : Contains(b[i])
        BY DEF SuitsFpe
      <4>2. Radix^Len(b) >= MinDomain
        BY DEF SuitsFpe
      <4>3. Radix^Len(b) < MinDomain
        BY <3>2, <4>1
      <4>4. r.value \in Seq(Chars) /\ r.prefix \in Seq(Chars)
        BY <3>1, RecognitionAssumption DEF Strings
      <4>5. b \in Seq(Chars)
        BY <4>1, <4>4, BodyBehindPrefix
      <4> HIDE DEF b
      <4>6. Len(b) \in Nat
        BY <4>5
      <4>7. Radix^Len(b) \in Nat
        BY <4>6, PowersGrow
      <4> QED
        BY <4>2, <4>3, <4>7, RecognitionAssumption
    <3> HIDE DEF b
    <3> QED
      BY <3>4, <3>5, <3>6, <3>7, <3>8
  <2> QED
    BY <2>3, <2>5, <2>6, Zenon DEF FakesFitValues
<1> QED
  BY <1>1, EntriesAlwaysKept, PTL

-----------------------------------------------------------------------------
(* Recursions that gather a set along a path.                              *)

Gathers(D, Stop, emit, next, g) ==
    g = [x \in D |-> IF x \in Stop THEN {} ELSE emit[x] \cup g[next[x]]]

\* The path ends because a number gets smaller along it.
LEMMA GatherExists ==
    ASSUME NEW D, NEW Stop, NEW N \in Nat, NEW rank \in [D -> 0..N], NEW emit, NEW next \in [D -> D],
           \A x \in D \ Stop : rank[next[x]] < rank[x]
    PROVE  \E g : Gathers(D, Stop, emit, next, g)
<1> DEFINE Low(c) == {x \in D : rank[x] <= c}
           Does(c, g) == \A x \in Low(c) :
                            g[x] = IF x \in Stop THEN {} ELSE emit[x] \cup g[next[x]]
           Lacking == {c \in Nat : ~\E g : Does(c, g)}
<1>1. Lacking = {}
  <2> SUFFICES ASSUME Lacking # {} PROVE FALSE
    OBVIOUS
  <2>1. PICK c \in Lacking : \A j \in Lacking : c <= j
    <3>1. Lacking \in SUBSET Nat
      OBVIOUS
    <3> HIDE DEF Lacking
    <3> QED
      BY <3>1, LeastNumber
  <2>2. PICK h : \A x \in Low(c) \ Stop :
           h[next[x]] = IF next[x] \in Stop THEN {} ELSE emit[next[x]] \cup h[next[next[x]]]
    <3>1. CASE c = 0
      <4>1. \A x \in Low(c) \ Stop : FALSE
        <5> TAKE x \in Low(c) \ Stop
        <5>1. rank[x] <= 0 /\ rank[next[x]] < rank[x] /\ next[x] \in D
          BY <3>1
        <5>2. rank[x] \in Nat /\ rank[next[x]] \in Nat
          BY <5>1
        <5> QED
          BY <5>1, <5>2
      <4> QED
        BY <4>1
    <3>2. CASE c # 0
      <4>1. PICK j \in Nat : j + 1 = c
        <5>1. c - 1 \in Nat /\ (c - 1) + 1 = c
          BY <3>2
        <5> QED
          BY <5>1
      <4>2. j \notin Lacking
        <5>1. ~(c <= j)
          BY <4>1
        <5> HIDE DEF Lacking
        <5> QED
          BY <2>1, <5>1
      <4>3. PICK h : Does(j, h)
        <5> HIDE DEF Does
        <5> QED
          BY <4>2
      <4>4. \A x \in Low(c) \ Stop : next[x] \in Low(j)
        <5> TAKE x \in Low(c) \ Stop
        <5>1. rank[x] <= j + 1 /\ rank[next[x]] < rank[x] /\ next[x] \in D
          BY <4>1
        <5>2. rank[x] \in Nat /\ rank[next[x]] \in Nat
          BY <5>1
        <5>3. rank[next[x]] <= j
          BY <5>1, <5>2
        <5> QED
          BY <5>1, <5>3
      <4> HIDE DEF Low
      <4>5. \A x \in Low(c) \ Stop :
               h[next[x]] = IF next[x] \in Stop THEN {} ELSE emit[next[x]] \cup h[next[next[x]]]
        BY <4>3, <4>4
      <4> QED
        BY <4>5
    <3> QED
      BY <3>1, <3>2
  <2> DEFINE g == [x \in D |-> IF x \in Stop THEN {} ELSE emit[x] \cup h[next[x]]]
  <2>3. Does(c, g)
    <3>1. \A x \in Low(c) : x \in D /\ next[x] \in D
      OBVIOUS
    <3> HIDE DEF Low
    <3>2. \A x \in D : g[x] = IF x \in Stop THEN {} ELSE emit[x] \cup h[next[x]]
      OBVIOUS
    <3> HIDE DEF g
    <3>3. \A x \in Low(c) \ Stop : g[next[x]] = h[next[x]]
      <4> TAKE x \in Low(c) \ Stop
      <4>1. next[x] \in D
        BY <3>1
      <4>2. g[next[x]] = IF next[x] \in Stop THEN {} ELSE emit[next[x]] \cup h[next[next[x]]]
        BY <3>2, <4>1
      <4> QED
        BY <2>2, <4>2
    <3> QED
      BY <3>1, <3>2, <3>3
  <2> QED
    BY <2>3
<1>2. PICK h : Does(N, h)
  <2> HIDE DEF Does
  <2> QED
    BY <1>1
<1> DEFINE g == [x \in D |-> h[x]]
<1>3. Low(N) = D
  OBVIOUS
<1>4. \A x \in D : h[x] = IF x \in Stop THEN {} ELSE emit[x] \cup h[next[x]]
  <2> HIDE DEF Low
  <2> QED
    BY <1>2, <1>3
<1>5. \A x \in D : g[x] = h[x] /\ g[next[x]] = h[next[x]]
  OBVIOUS
<1>6. g = [x \in D |-> IF x \in Stop THEN {} ELSE emit[x] \cup g[next[x]]]
  BY <1>4, <1>5
<1> HIDE DEF g
<1> QED
  BY <1>6 DEF Gathers

-----------------------------------------------------------------------------
(* Resolving overlaps.                                                     *)

\* The matches in a text of length n over k patterns.
Matches(n, k) ==
    {m \in [start : 0..n, end : 0..n, kind : {"Exact", "Pattern"}, id : 0..k] : m.start <= m.end}

LEMMA MatchesFinite ==
    ASSUME NEW n \in Nat, NEW k \in Nat, NEW all \in SUBSET Matches(n, k)
    PROVE  IsFiniteSet(all)
<1> DEFINE K == {"Exact", "Pattern"}
           Pairs == ((0..n) \X (0..n)) \X (K \X (0..k))
           code == [m \in all |-> <<<<m.start, m.end>>, <<m.kind, m.id>>>>]
<1>1. IsFiniteSet(0..n) /\ IsFiniteSet(0..k)
  BY FS_Interval
<1>2. IsFiniteSet(K)
  <2>1. IsFiniteSet({"Exact"} \cup {"Pattern"})
    BY FS_Singleton, FS_AddElement
  <2>2. K = {"Exact"} \cup {"Pattern"}
    OBVIOUS
  <2> QED
    BY <2>1, <2>2
<1>3. \A m \in all : /\ m.start \in 0..n /\ m.end \in 0..n /\ m.kind \in K /\ m.id \in 0..k
                     /\ m = [start |-> m.start, end |-> m.end, kind |-> m.kind, id |-> m.id]
  BY DEF Matches
<1> HIDE DEF K
<1>4. IsFiniteSet((0..n) \X (0..n)) /\ IsFiniteSet(K \X (0..k))
  BY <1>1, <1>2, FS_Product
<1>5. IsFiniteSet(Pairs)
  BY <1>4, FS_Product
<1>6. code \in [all -> Pairs]
  <2>1. \A m \in all : <<<<m.start, m.end>>, <<m.kind, m.id>>>> \in Pairs
    BY <1>3
  <2> HIDE DEF Pairs
  <2> QED
    BY <2>1
<1>7. ASSUME NEW a \in all, NEW b \in all, code[a] = code[b] PROVE a = b
  <2>1. <<<<a.start, a.end>>, <<a.kind, a.id>>>> = <<<<b.start, b.end>>, <<b.kind, b.id>>>>
    BY <1>7
  <2>2. <<a.start, a.end>> = <<b.start, b.end>> /\ <<a.kind, a.id>> = <<b.kind, b.id>>
    BY <2>1
  <2>3. a.start = b.start /\ a.end = b.end /\ a.kind = b.kind /\ a.id = b.id
    BY <2>2
  <2> QED
    BY <1>3, <2>3
<1>8. code \in Injection(all, Pairs)
  <2> HIDE DEF code, Pairs
  <2> QED
    BY <1>6, <1>7 DEF Injection, IsInjective
<1> HIDE DEF code, Pairs
<1> QED
  BY <1>5, <1>8, FS_Injection

LEMMA LeastBy ==
    ASSUME NEW S, S # {}, NEW f \in [S -> Nat]
    PROVE  \E m \in S : \A x \in S : f[m] <= f[x]
<1> DEFINE R == {f[x] : x \in S}
<1>1. R \in SUBSET Nat /\ R # {}
  OBVIOUS
<1>2. PICK r \in R : \A q \in R : r <= q
  <2> HIDE DEF R
  <2> QED
    BY <1>1, LeastNumber
<1>3. PICK m \in S : r = f[m]
  OBVIOUS
<1>4. \A x \in S : f[x] \in R
  OBVIOUS
<1> HIDE DEF R
<1> QED
  BY <1>2, <1>3, <1>4

\* The first of the matches, and what the walk goes on with after it.
FirstOf(S) == CHOOSE m \in S : \A x \in S : x = m \/ Before(m, x)
RestOf(S) == {m \in S : m # FirstOf(S) /\ ~Overlaps(m, FirstOf(S))}

LEMMA FirstComes ==
    ASSUME NEW n \in Nat, NEW k \in Nat, NEW S \in SUBSET Matches(n, k), S # {}
    PROVE  FirstOf(S) \in S /\ \A x \in S : x = FirstOf(S) \/ Before(FirstOf(S), x)
<1>1. \A m \in S : /\ m.start \in 0..n /\ m.end \in 0..n /\ m.id \in Nat
                   /\ m.kind \in {"Exact", "Pattern"} /\ m.start <= m.end
                   /\ m = [start |-> m.start, end |-> m.end, kind |-> m.kind, id |-> m.id]
  BY DEF Matches
<1>2. \A m \in S : /\ Span(m) \in 0..n /\ m.end = m.start + Span(m)
  BY <1>1 DEF Span
<1>3. \A m \in S : Confidence(m) \in {1, 2}
  BY DEF Confidence
<1>4. \A a, b \in S : Confidence(a) = Confidence(b) => a.kind = b.kind
  BY <1>1 DEF Confidence
<1> DEFINE short == [m \in S |-> n - Span(m)]
<1>5. PICK a \in S : \A x \in S : Span(a) >= Span(x)
  <2>1. short \in [S -> Nat]
    BY <1>2
  <2>2. PICK a \in S : \A x \in S : short[a] <= short[x]
    <3> HIDE DEF short
    <3> QED
      BY <2>1, LeastBy
  <2>3. \A x \in S : n - Span(a) <= n - Span(x)
    BY <2>2
  <2> QED
    BY <1>2, <2>3
<1> DEFINE S1 == {m \in S : Span(m) = Span(a)}
           doubt == [m \in S1 |-> 2 - Confidence(m)]
<1>6. PICK b \in S1 : \A x \in S1 : Confidence(b) >= Confidence(x)
  <2>1. doubt \in [S1 -> Nat] /\ S1 # {}
    BY <1>3
  <2>2. PICK b \in S1 : \A x \in S1 : doubt[b] <= doubt[x]
    <3> HIDE DEF doubt, S1
    <3> QED
      BY <2>1, LeastBy
  <2>3. \A x \in S1 : 2 - Confidence(b) <= 2 - Confidence(x)
    BY <2>2
  <2> QED
    BY <1>3, <2>3
<1> DEFINE S2 == {m \in S1 : Confidence(m) = Confidence(b)}
           place == [m \in S2 |-> m.start]
<1>7. PICK c \in S2 : \A x \in S2 : c.start <= x.start
  <2>1. place \in [S2 -> Nat] /\ S2 # {}
    BY <1>1
  <2>2. PICK c \in S2 : \A x \in S2 : place[c] <= place[x]
    <3> HIDE DEF place, S2
    <3> QED
      BY <2>1, LeastBy
  <2> QED
    BY <2>2
<1> DEFINE S3 == {m \in S2 : m.start = c.start}
           number == [m \in S3 |-> m.id]
<1>8. PICK d \in S3 : \A x \in S3 : d.id <= x.id
  <2>1. number \in [S3 -> Nat] /\ S3 # {}
    BY <1>1
  <2>2. PICK d \in S3 : \A x \in S3 : number[d] <= number[x]
    <3> HIDE DEF number, S3
    <3> QED
      BY <2>1, LeastBy
  <2> QED
    BY <2>2
<1>9. d \in S /\ \A x \in S : x = d \/ Before(d, x)
  <2>1. /\ d \in S /\ Span(d) = Span(a) /\ Confidence(d) = Confidence(b) /\ d.start = c.start
    OBVIOUS
  <2> SUFFICES ASSUME NEW x \in S, ~Before(d, x) PROVE x = d
    BY <2>1
  <2>2. Span(x) = Span(d)
    BY <1>2, <1>5, <2>1 DEF Before
  <2>3. x \in S1
    BY <2>1, <2>2
  <2>4. Confidence(x) = Confidence(d)
    BY <1>3, <1>6, <2>1, <2>2, <2>3 DEF Before
  <2>5. x \in S2
    BY <2>1, <2>3, <2>4
  <2>6. x.start = d.start
    BY <1>1, <1>7, <2>1, <2>2, <2>4, <2>5 DEF Before
  <2>7. x \in S3
    BY <2>1, <2>5, <2>6
  <2>8. x.id = d.id
    BY <1>1, <1>8, <2>1, <2>2, <2>4, <2>6, <2>7 DEF Before
  <2>9. x.end = d.end /\ x.kind = d.kind
    BY <1>2, <1>4, <2>1, <2>2, <2>4, <2>6
  <2> HIDE DEF S1, S2, S3
  <2> QED
    BY <1>1, <2>1, <2>6, <2>8, <2>9
<1> QED
  BY <1>9 DEF FirstOf

\* The matches that are not needed any more get fewer.
LEMMA RestSmaller ==
    ASSUME NEW n \in Nat, NEW k \in Nat, NEW S \in SUBSET Matches(n, k), S # {}
    PROVE  /\ RestOf(S) \in SUBSET S
           /\ Cardinality(S) \in Nat /\ Cardinality(RestOf(S)) \in Nat
           /\ Cardinality(RestOf(S)) < Cardinality(S)
<1>1. IsFiniteSet(S)
  BY MatchesFinite
<1>2. FirstOf(S) \in S
  BY FirstComes
<1>3. RestOf(S) \in SUBSET S /\ FirstOf(S) \notin RestOf(S)
  BY DEF RestOf
<1>4. PICK R : R = RestOf(S)
  OBVIOUS
<1>5. IsFiniteSet(R) /\ Cardinality(R) <= Cardinality(S) /\ (Cardinality(S) = Cardinality(R) => S = R)
  BY <1>1, <1>3, <1>4, FS_Subset
<1>6. S # R
  BY <1>2, <1>3, <1>4
<1>7. Cardinality(S) \in Nat /\ Cardinality(R) \in Nat
  BY <1>1, <1>5, FS_CardinalityType
<1>8. Cardinality(R) < Cardinality(S)
  BY <1>5, <1>6, <1>7
<1> QED
  BY <1>3, <1>4, <1>7, <1>8

\* The walk over the sets of a domain.
Keeps(D, g) == g = [S \in D |-> IF S = {} THEN {} ELSE {FirstOf(S)} \cup g[RestOf(S)]]

LEMMA KeepExists ==
    ASSUME NEW n \in Nat, NEW k \in Nat, NEW all \in SUBSET Matches(n, k)
    PROVE  \E g : Keeps(SUBSET all, g)
<1> DEFINE D == SUBSET all
           rank == [S \in D |-> Cardinality(S)]
           emit == [S \in D |-> {FirstOf(S)}]
           next == [S \in D |-> IF S = {} THEN {} ELSE RestOf(S)]
<1>1. \A S \in D : S # {} =>
         /\ RestOf(S) \in D /\ Cardinality(RestOf(S)) < Cardinality(S)
         /\ Cardinality(S) \in Nat
  <2> TAKE S \in D
  <2>1. S \in SUBSET Matches(n, k)
    OBVIOUS
  <2>2. S # {} => /\ RestOf(S) \in SUBSET S /\ Cardinality(RestOf(S)) < Cardinality(S)
                  /\ Cardinality(S) \in Nat
    BY <2>1, RestSmaller
  <2> QED
    BY <2>2
<1>2. {} \in D
  OBVIOUS
<1> HIDE DEF D
<1>3. Cardinality(all) \in Nat /\ rank \in [D -> 0..Cardinality(all)]
  <2>1. IsFiniteSet(all)
    BY MatchesFinite
  <2>2. ASSUME NEW S \in D
        PROVE  Cardinality(S) \in Nat /\ Cardinality(S) <= Cardinality(all)
    <3>1. IsFiniteSet(S) /\ Cardinality(S) <= Cardinality(all)
      BY <2>1, FS_Subset DEF D
    <3> QED
      BY <3>1, FS_CardinalityType
  <2>3. Cardinality(all) \in Nat
    BY <2>1, FS_CardinalityType
  <2>4. \A S \in D : Cardinality(S) \in 0..Cardinality(all)
    BY <2>2, <2>3
  <2> QED
    BY <2>3, <2>4
<1>4. next \in [D -> D]
  BY <1>1, <1>2
<1>5. \A S \in D \ {{}} : rank[next[S]] < rank[S]
  <2> TAKE S \in D \ {{}}
  <2>1. next[S] = RestOf(S) /\ RestOf(S) \in D /\ S \in D
    BY <1>1
  <2>2. rank[next[S]] = Cardinality(RestOf(S)) /\ rank[S] = Cardinality(S)
    BY <2>1
  <2> QED
    BY <1>1, <2>2
<1>6. \E g : Gathers(D, {{}}, emit, next, g)
  <2> HIDE DEF rank, emit, next
  <2> QED
    BY <1>3, <1>4, <1>5, GatherExists
<1>7. ASSUME NEW g, Gathers(D, {{}}, emit, next, g) PROVE Keeps(D, g)
  <2>1. g = [S \in D |-> IF S \in {{}} THEN {} ELSE emit[S] \cup g[next[S]]]
    BY <1>7 DEF Gathers
  <2>2. \A S \in D : (IF S \in {{}} THEN {} ELSE emit[S] \cup g[next[S]])
                       = IF S = {} THEN {} ELSE {FirstOf(S)} \cup g[RestOf(S)]
    OBVIOUS
  <2>3. g = [S \in D |-> IF S = {} THEN {} ELSE {FirstOf(S)} \cup g[RestOf(S)]]
    BY <2>1, <2>2
  <2> QED
    BY <2>3 DEF Keeps
<1>8. \E g : Keeps(D, g)
  BY <1>6, <1>7
<1> QED
  BY <1>8 DEF D

\* What the walk leaves of S: matches that do not overlap, and for each one
\* it drops a longer or equally long one that overlaps it.
Resolved(S, R) ==
    /\ R \in SUBSET S
    /\ \A a, b \in R : a = b \/ ~Overlaps(a, b)
    /\ \A m \in S : m \in R \/ \E b \in R : Overlaps(m, b) /\ Span(b) >= Span(m)

LEMMA ResolveOneMore ==
    ASSUME NEW n \in Nat, NEW k \in Nat, NEW S \in SUBSET Matches(n, k), S # {},
           NEW R, Resolved(RestOf(S), R)
    PROVE  Resolved(S, {FirstOf(S)} \cup R)
<1>1. PICK f : f = FirstOf(S)
  OBVIOUS
<1>2. f \in S /\ \A x \in S : x = f \/ Before(f, x)
  BY <1>1, FirstComes
<1>3. \A m \in RestOf(S) : m \in S /\ m # f /\ ~Overlaps(m, f)
  BY <1>1 DEF RestOf
<1>4. \A m \in S : m \in RestOf(S) \/ m = f \/ Overlaps(m, f)
  BY <1>1 DEF RestOf
<1>5. \A m \in S : Span(m) \in Int /\ m.start \in Nat /\ m.end \in Nat
  BY DEF Matches, Span
<1>6. \A m \in S : Span(f) >= Span(m)
  <2> TAKE m \in S
  <2>1. m = f \/ Before(f, m)
    BY <1>2
  <2> QED
    BY <1>2, <1>5, <2>1 DEF Before
<1>7. \A m \in RestOf(S) : ~Overlaps(f, m)
  BY <1>2, <1>3, <1>5 DEF Overlaps
<1>8. \A a, b \in {f} \cup R : a = b \/ ~Overlaps(a, b)
  BY <1>3, <1>7 DEF Resolved
<1>9. {f} \cup R \in SUBSET S
  BY <1>2, <1>3 DEF Resolved
<1>10. \A m \in S : m \in {f} \cup R \/ \E b \in {f} \cup R : Overlaps(m, b) /\ Span(b) >= Span(m)
  BY <1>4, <1>6 DEF Resolved
<1>11. Resolved(S, {f} \cup R)
  BY <1>8, <1>9, <1>10 DEF Resolved
<1> QED
  BY <1>1, <1>11

\* Detector::scan resolves the overlaps of whatever matches it is given.
LEMMA ResolveResolves ==
    ASSUME NEW n \in Nat, NEW k \in Nat, NEW all \in SUBSET Matches(n, k)
    PROVE  Resolved(all, Resolve(all))
<1> DEFINE keep == CHOOSE g : Keeps(SUBSET all, g)
           Bad == {c \in Nat : \E S \in SUBSET all : Cardinality(S) = c /\ ~Resolved(S, keep[S])}
<1>1. Resolve(all) = keep[all]
  BY DEF Resolve, Keeps, FirstOf, RestOf
<1>2. Keeps(SUBSET all, keep)
  <2>1. \E g : Keeps(SUBSET all, g)
    BY KeepExists
  <2> QED
    BY <2>1
<1> HIDE DEF keep
<1>3. \A S \in SUBSET all : keep[S] = IF S = {} THEN {} ELSE {FirstOf(S)} \cup keep[RestOf(S)]
  BY <1>2 DEF Keeps
<1>4. \A S \in SUBSET all : Cardinality(S) \in Nat
  <2> TAKE S \in SUBSET all
  <2>1. IsFiniteSet(S)
    BY MatchesFinite, FS_Subset
  <2> QED
    BY <2>1, FS_CardinalityType
<1>5. Bad = {}
  <2> SUFFICES ASSUME Bad # {} PROVE FALSE
    OBVIOUS
  <2>1. PICK c \in Bad : \A j \in Bad : c <= j
    <3>1. Bad \in SUBSET Nat
      OBVIOUS
    <3> HIDE DEF Bad
    <3> QED
      BY <3>1, LeastNumber
  <2>2. PICK S \in SUBSET all : Cardinality(S) = c /\ ~Resolved(S, keep[S])
    OBVIOUS
  <2>3. CASE S = {}
    <3>1. keep[S] = {}
      BY <1>3, <2>3
    <3>2. Resolved(S, {})
      BY <2>3 DEF Resolved
    <3> QED
      BY <2>2, <3>1, <3>2
  <2>4. CASE S # {}
    <3>1. S \in SUBSET Matches(n, k)
      OBVIOUS
    <3>2. RestOf(S) \in SUBSET S /\ Cardinality(RestOf(S)) < Cardinality(S)
      BY <2>4, <3>1, RestSmaller
    <3>3. RestOf(S) \in SUBSET all /\ Cardinality(RestOf(S)) \in Nat
      BY <1>4, <3>2
    <3>4. Cardinality(RestOf(S)) \notin Bad
      <4> HIDE DEF Bad
      <4> QED
        BY <1>4, <2>1, <2>2, <3>2, <3>3
    <3>5. Resolved(RestOf(S), keep[RestOf(S)])
      BY <3>3, <3>4
    <3>6. Resolved(S, {FirstOf(S)} \cup keep[RestOf(S)])
      BY <2>4, <3>1, <3>5, ResolveOneMore
    <3>7. keep[S] = {FirstOf(S)} \cup keep[RestOf(S)]
      BY <1>3, <2>4
    <3> QED
      BY <2>2, <3>6, <3>7
  <2> QED
    BY <2>3, <2>4
<1>6. Resolved(all, keep[all])
  <2>1. Cardinality(all) \notin Bad /\ all \in SUBSET all
    BY <1>5
  <2> QED
    BY <1>4, <2>1
<1> QED
  BY <1>1, <1>6

-----------------------------------------------------------------------------
(* The search from left to right.                                          *)

\* k patterns of known lengths.
Patterns(ps, k) == DOMAIN ps = 1..k /\ \A p \in 1..k : Len(ps[p]) \in Nat

LEMMA LongestStands ==
    ASSUME NEW t, Len(t) \in Nat, NEW k \in Nat, NEW ps, Patterns(ps, k),
           NEW i \in 0..Len(t), StandingAt(t, ps, i) # {}
    PROVE  /\ Longest(t, ps, i) \in StandingAt(t, ps, i)
           /\ \A q \in StandingAt(t, ps, i) : Len(ps[Longest(t, ps, i)]) >= Len(ps[q])
<1> DEFINE S == StandingAt(t, ps, i)
           room == [q \in S |-> Len(t) - Len(ps[q])]
<1>1. \A q \in S : q \in Nat /\ Len(ps[q]) \in Nat /\ Len(ps[q]) <= Len(t)
  BY DEF StandingAt, StandsAt, Patterns
<1>2. S # {} /\ Longest(t, ps, i) =
         CHOOSE p \in S : \A q \in S : \/ Len(ps[p]) > Len(ps[q])
                                       \/ Len(ps[p]) = Len(ps[q]) /\ p <= q
  BY DEF Longest
<1> HIDE DEF S
<1>3. room \in [S -> Nat]
  BY <1>1
<1>4. PICK a \in S : \A q \in S : room[a] <= room[q]
  <2> HIDE DEF room
  <2> QED
    BY <1>2, <1>3, LeastBy
<1>5. \A q \in S : Len(ps[a]) >= Len(ps[q])
  <2>1. \A q \in S : Len(t) - Len(ps[a]) <= Len(t) - Len(ps[q])
    BY <1>4
  <2> QED
    BY <1>1, <2>1
<1> DEFINE E == {q \in S : Len(ps[q]) = Len(ps[a])}
<1>6. E \in SUBSET Nat /\ E # {}
  BY <1>1
<1>7. PICK b \in E : \A q \in E : b <= q
  <2> HIDE DEF E
  <2> QED
    BY <1>6, LeastNumber
<1>8. b \in S /\ \A q \in S : \/ Len(ps[b]) > Len(ps[q])
                              \/ Len(ps[b]) = Len(ps[q]) /\ b <= q
  <2> SUFFICES ASSUME NEW q \in S PROVE Len(ps[b]) > Len(ps[q]) \/ (Len(ps[b]) = Len(ps[q]) /\ b <= q)
    OBVIOUS
  <2>1. Len(ps[b]) = Len(ps[a])
    OBVIOUS
  <2>2. CASE Len(ps[q]) = Len(ps[a])
    BY <1>7, <2>1, <2>2
  <2>3. CASE Len(ps[q]) # Len(ps[a])
    BY <1>1, <1>5, <2>1, <2>3
  <2> QED
    BY <2>2, <2>3
<1> HIDE DEF E
<1>9. PICK l : l = Longest(t, ps, i)
  OBVIOUS
<1>10. l \in S /\ \A q \in S : \/ Len(ps[l]) > Len(ps[q])
                               \/ Len(ps[l]) = Len(ps[q]) /\ l <= q
  BY <1>2, <1>8, <1>9
<1>11. \A q \in S : Len(ps[l]) >= Len(ps[q])
  BY <1>1, <1>10
<1> QED
  BY <1>9, <1>10, <1>11 DEF S

\* The match at an offset and where the search goes on from there.
EndAt(t, ps, i) == i + Len(ps[Longest(t, ps, i)])
MatchAt(t, ps, kind, i) ==
    [start |-> i, end |-> EndAt(t, ps, i), kind |-> kind, id |-> Longest(t, ps, i)]
AfterMatch(t, ps, i) ==
    IF EndAt(t, ps, i) = i \/ OnlyEmpty(t, ps, EndAt(t, ps, i))
    THEN EndAt(t, ps, i) + 1 ELSE EndAt(t, ps, i)

Searches(t, ps, kind, g) ==
    g = [i \in 0..(Len(t) + 1) |->
            IF i > Len(t) THEN {}
            ELSE IF StandingAt(t, ps, i) = {} THEN g[i + 1]
            ELSE {MatchAt(t, ps, kind, i)} \cup g[AfterMatch(t, ps, i)]]

LEMMA MatchEnds ==
    ASSUME NEW t, Len(t) \in Nat, NEW k \in Nat, NEW ps, Patterns(ps, k),
           NEW i \in 0..Len(t), StandingAt(t, ps, i) # {}
    PROVE  /\ Longest(t, ps, i) \in 1..k
           /\ EndAt(t, ps, i) \in i..Len(t)
           /\ EndAt(t, ps, i) = i + Len(ps[Longest(t, ps, i)])
           /\ AfterMatch(t, ps, i) \in (i + 1)..(Len(t) + 1)
<1>1. PICK l : l = Longest(t, ps, i)
  OBVIOUS
<1>2. l \in StandingAt(t, ps, i)
  BY <1>1, LongestStands
<1>3. l \in 1..k /\ Len(ps[l]) \in Nat /\ i + Len(ps[l]) <= Len(t)
  BY <1>2 DEF StandingAt, StandsAt, Patterns
<1>4. EndAt(t, ps, i) = i + Len(ps[l])
  BY <1>1 DEF EndAt
<1>5. EndAt(t, ps, i) \in i..Len(t)
  BY <1>3, <1>4
<1>6. AfterMatch(t, ps, i) \in (i + 1)..(Len(t) + 1)
  BY <1>5 DEF AfterMatch
<1> QED
  BY <1>1, <1>3, <1>4, <1>5, <1>6

LEMMA SearchExists ==
    ASSUME NEW t, Len(t) \in Nat, NEW k \in Nat, NEW ps, Patterns(ps, k), NEW kind
    PROVE  \E g : Searches(t, ps, kind, g)
<1>1. PICK n \in Nat : n = Len(t) + 1
  OBVIOUS
<1> DEFINE D == 0..n
           rank == [i \in D |-> n - i]
           emit == [i \in D |-> IF StandingAt(t, ps, i) = {} THEN {} ELSE {MatchAt(t, ps, kind, i)}]
           next == [i \in D |-> IF i > Len(t) THEN i
                                ELSE IF StandingAt(t, ps, i) = {} THEN i + 1
                                ELSE AfterMatch(t, ps, i)]
<1>2. \A i \in D : /\ i > Len(t) <=> i \in {n}
                   /\ ~(i > Len(t)) => i \in 0..Len(t)
  BY <1>1
<1>3. \A i \in 0..Len(t) : StandingAt(t, ps, i) # {} => AfterMatch(t, ps, i) \in (i + 1)..n
  BY <1>1, MatchEnds
<1>4. rank \in [D -> 0..n]
  OBVIOUS
<1>5. \A i \in 0..Len(t) : i + 1 \in (i + 1)..n
  BY <1>1
<1>6. \A i \in D \ {n} : i \in D /\ next[i] \in (i + 1)..n
  BY <1>2, <1>3, <1>5
<1>7. next \in [D -> D]
  <2>1. \A i \in D : next[i] \in D
    <3> TAKE i \in D
    <3>1. CASE i = n
      BY <1>2, <3>1
    <3>2. CASE i # n
      <4>1. next[i] \in (i + 1)..n
        BY <1>6, <3>2
      <4> HIDE DEF next
      <4> QED
        BY <4>1
    <3> QED
      BY <3>1, <3>2
  <2> QED
    BY <2>1
<1>8. \A i \in D \ {n} : rank[next[i]] < rank[i]
  <2> TAKE i \in D \ {n}
  <2>1. PICK j \in (i + 1)..n : j = next[i]
    BY <1>6
  <2>2. j \in D /\ rank[j] = n - j /\ rank[i] = n - i
    OBVIOUS
  <2>3. n - j < n - i
    OBVIOUS
  <2> HIDE DEF rank, next
  <2> QED
    BY <2>1, <2>2, <2>3
<1>9. \E g : Gathers(D, {n}, emit, next, g)
  <2> HIDE DEF D, rank, emit, next
  <2> QED
    BY <1>4, <1>7, <1>8, GatherExists
<1>10. ASSUME NEW g, Gathers(D, {n}, emit, next, g) PROVE Searches(t, ps, kind, g)
  <2>1. g = [i \in D |-> IF i \in {n} THEN {} ELSE emit[i] \cup g[next[i]]]
    BY <1>10 DEF Gathers
  <2>2. \A i \in D : (IF i \in {n} THEN {} ELSE emit[i] \cup g[next[i]])
                       = IF i > Len(t) THEN {}
                         ELSE IF StandingAt(t, ps, i) = {} THEN g[i + 1]
                         ELSE {MatchAt(t, ps, kind, i)} \cup g[AfterMatch(t, ps, i)]
    <3> TAKE i \in D
    <3>1. CASE i \in {n}
      BY <1>2, <3>1
    <3>2. CASE i \notin {n} /\ StandingAt(t, ps, i) = {}
      <4>1. emit[i] = {} /\ next[i] = i + 1 /\ ~(i > Len(t))
        BY <1>2, <3>2
      <4> HIDE DEF emit, next
      <4> QED
        BY <3>2, <4>1
    <3>3. CASE i \notin {n} /\ StandingAt(t, ps, i) # {}
      <4>1. emit[i] = {MatchAt(t, ps, kind, i)} /\ next[i] = AfterMatch(t, ps, i) /\ ~(i > Len(t))
        BY <1>2, <3>3
      <4> HIDE DEF emit, next
      <4> QED
        BY <3>3, <4>1
    <3> QED
      BY <3>1, <3>2, <3>3
  <2>3. g = [i \in D |-> IF i > Len(t) THEN {}
                         ELSE IF StandingAt(t, ps, i) = {} THEN g[i + 1]
                         ELSE {MatchAt(t, ps, kind, i)} \cup g[AfterMatch(t, ps, i)]]
    <3> HIDE DEF D, emit, next
    <3> QED
      BY <2>1, <2>2
  <2> QED
    BY <1>1, <2>3 DEF Searches
<1> QED
  BY <1>9, <1>10

\* What the search from offset i finds: matches of its patterns there, one
\* at every occurrence it could have found, and no two that overlap.
FoundFrom(t, ps, k, kind, i, F) ==
    /\ \A m \in F : /\ m \in [start : i..Len(t), end : i..Len(t), kind : {kind}, id : 1..k]
                    /\ m.end = m.start + Len(ps[m.id])
    /\ \A p \in 1..k, j \in i..Len(t) :
          StandsAt(t, ps[p], j) /\ Len(ps[p]) > 0 =>
             \E m \in F : m.start < j + Len(ps[p]) /\ j < m.end
    /\ \A m, n \in F : m = n \/ m.end <= n.start \/ n.end <= m.start

LEMMA FoundSkip ==
    ASSUME NEW t, Len(t) \in Nat, NEW k \in Nat, NEW ps, Patterns(ps, k), NEW kind,
           NEW i \in 0..Len(t), StandingAt(t, ps, i) = {},
           NEW F, FoundFrom(t, ps, k, kind, i + 1, F)
    PROVE  FoundFrom(t, ps, k, kind, i, F)
<1>1. \A m \in F : /\ m \in [start : i..Len(t), end : i..Len(t), kind : {kind}, id : 1..k]
                   /\ m.end = m.start + Len(ps[m.id])
  <2> TAKE m \in F
  <2>1. /\ m \in [start : (i + 1)..Len(t), end : (i + 1)..Len(t), kind : {kind}, id : 1..k]
        /\ m.end = m.start + Len(ps[m.id])
    BY DEF FoundFrom
  <2>2. (i + 1)..Len(t) \subseteq i..Len(t)
    OBVIOUS
  <2> QED
    BY <2>1, <2>2
<1>2. ASSUME NEW p \in 1..k, NEW j \in i..Len(t), StandsAt(t, ps[p], j), Len(ps[p]) > 0
      PROVE  \E m \in F : m.start < j + Len(ps[p]) /\ j < m.end
  <2>1. j # i
    BY <1>2 DEF StandingAt, Patterns
  <2>2. j \in (i + 1)..Len(t)
    BY <2>1
  <2> QED
    BY <1>2, <2>2 DEF FoundFrom
<1>3. \A m, n \in F : m = n \/ m.end <= n.start \/ n.end <= m.start
  BY DEF FoundFrom
<1> QED
  BY <1>1, <1>2, <1>3 DEF FoundFrom

LEMMA FoundMatch ==
    ASSUME NEW t, Len(t) \in Nat, NEW k \in Nat, NEW ps, Patterns(ps, k), NEW kind,
           NEW i \in 0..Len(t), StandingAt(t, ps, i) # {},
           NEW F, FoundFrom(t, ps, k, kind, AfterMatch(t, ps, i), F)
    PROVE  FoundFrom(t, ps, k, kind, i, {MatchAt(t, ps, kind, i)} \cup F)
<1>1. PICK l, e, a, f : /\ l = Longest(t, ps, i) /\ e = EndAt(t, ps, i) /\ a = AfterMatch(t, ps, i)
                        /\ f = MatchAt(t, ps, kind, i)
  OBVIOUS
<1>2. /\ l \in 1..k /\ e \in i..Len(t) /\ e = i + Len(ps[l])
      /\ a \in (i + 1)..(Len(t) + 1)
  BY <1>1, MatchEnds
<1>3. l \in StandingAt(t, ps, i) /\ \A q \in StandingAt(t, ps, i) : Len(ps[l]) >= Len(ps[q])
  BY <1>1, LongestStands
<1>4. f = [start |-> i, end |-> e, kind |-> kind, id |-> l]
  BY <1>1 DEF MatchAt
<1>5. a = IF e = i \/ OnlyEmpty(t, ps, e) THEN e + 1 ELSE e
  BY <1>1 DEF AfterMatch
<1>6. FoundFrom(t, ps, k, kind, a, F)
  BY <1>1
<1>7. \A m \in F : /\ m \in [start : i..Len(t), end : i..Len(t), kind : {kind}, id : 1..k]
                   /\ m.end = m.start + Len(ps[m.id])
  <2> TAKE m \in F
  <2>1. /\ m \in [start : a..Len(t), end : a..Len(t), kind : {kind}, id : 1..k]
        /\ m.end = m.start + Len(ps[m.id])
    BY <1>6 DEF FoundFrom
  <2>2. a..Len(t) \subseteq i..Len(t)
    BY <1>2
  <2> QED
    BY <2>1, <2>2
<1>8. /\ f \in [start : i..Len(t), end : i..Len(t), kind : {kind}, id : 1..k]
      /\ f.end = f.start + Len(ps[f.id]) /\ f.start = i /\ f.end = e
  <2>1. i \in i..Len(t)
    OBVIOUS
  <2> QED
    BY <1>2, <1>4, <2>1
<1>9. ASSUME NEW p \in 1..k, NEW j \in i..Len(t), StandsAt(t, ps[p], j), Len(ps[p]) > 0
      PROVE  \E m \in {f} \cup F : m.start < j + Len(ps[p]) /\ j < m.end
  <2>1. PICK w \in Nat : w = Len(ps[p]) /\ w > 0
    BY <1>9 DEF Patterns
  <2>2. Len(ps[l]) \in Nat /\ j \in Nat
    BY <1>2 DEF Patterns
  <2>3. CASE j = i
    <3>1. p \in StandingAt(t, ps, i)
      BY <1>9, <2>3 DEF StandingAt, Patterns
    <3>2. Len(ps[l]) >= w
      BY <1>3, <2>1, <3>1
    <3>3. j < e /\ i < j + w
      BY <1>2, <2>1, <2>2, <2>3, <3>2
    <3> QED
      BY <1>8, <2>1, <3>3
  <2>4. CASE j # i /\ j < e
    <3>1. i < j + w
      BY <2>1, <2>4
    <3> QED
      BY <1>8, <2>1, <2>4, <3>1
  <2>5. CASE j # i /\ ~(j < e)
    <3>1. j = e => ~OnlyEmpty(t, ps, e)
      BY <1>9, <2>1 DEF OnlyEmpty, StandingAt, Patterns
    <3>2. j \in a..Len(t)
      BY <1>2, <1>5, <2>5, <3>1
    <3>3. \E m \in F : m.start < j + Len(ps[p]) /\ j < m.end
      BY <1>6, <1>9, <3>2 DEF FoundFrom
    <3> QED
      BY <3>3
  <2> QED
    BY <2>3, <2>4, <2>5
<1>10. \A m, n \in {f} \cup F : m = n \/ m.end <= n.start \/ n.end <= m.start
  <2>1. \A m \in F : f.end <= m.start
    <3> TAKE m \in F
    <3>1. m.start \in a..Len(t)
      BY <1>6 DEF FoundFrom
    <3>2. e <= a
      BY <1>2, <1>5
    <3> QED
      BY <1>2, <1>8, <3>1, <3>2
  <2>2. \A m, n \in F : m = n \/ m.end <= n.start \/ n.end <= m.start
    BY <1>6 DEF FoundFrom
  <2> QED
    BY <2>1, <2>2
<1>11. FoundFrom(t, ps, k, kind, i, {f} \cup F)
  BY <1>7, <1>8, <1>9, <1>10 DEF FoundFrom
<1> QED
  BY <1>1, <1>11

\* AhoCorasick::find_iter, as ExactMatcher and PatternMatcher use it.
LEMMA FindIterFinds ==
    ASSUME NEW t, Len(t) \in Nat, NEW k \in Nat, NEW ps, Patterns(ps, k), NEW kind
    PROVE  FoundFrom(t, ps, k, kind, 0, FindIter(t, ps, kind))
<1> DEFINE from == CHOOSE g : Searches(t, ps, kind, g)
           n == Len(t) + 1
           Bad == {c \in 0..n : ~FoundFrom(t, ps, k, kind, n - c, from[n - c])}
<1>1. FindIter(t, ps, kind) = from[0]
  BY DEF FindIter, Searches, MatchAt, AfterMatch, EndAt
<1>2. Searches(t, ps, kind, from)
  <2>1. \E g : Searches(t, ps, kind, g)
    BY SearchExists
  <2> QED
    BY <2>1
<1> HIDE DEF from
<1>3. \A i \in 0..n : from[i] = IF i > Len(t) THEN {}
                                ELSE IF StandingAt(t, ps, i) = {} THEN from[i + 1]
                                ELSE {MatchAt(t, ps, kind, i)} \cup from[AfterMatch(t, ps, i)]
  BY <1>2 DEF Searches
<1>4. n \in Nat
  OBVIOUS
<1>5. Bad = {}
  <2> SUFFICES ASSUME Bad # {} PROVE FALSE
    OBVIOUS
  <2>1. PICK c \in Bad : \A j \in Bad : c <= j
    <3>1. Bad \in SUBSET Nat
      OBVIOUS
    <3> HIDE DEF Bad
    <3> QED
      BY <3>1, LeastNumber
  <2>2. PICK i \in 0..n : i = n - c
    OBVIOUS
  <2>3. ~FoundFrom(t, ps, k, kind, i, from[i])
    BY <2>2
  <2>4. ASSUME NEW j \in (i + 1)..n PROVE FoundFrom(t, ps, k, kind, j, from[j])
    <3>1. n - j \in 0..n /\ ~(c <= n - j) /\ n - (n - j) = j
      BY <1>4, <2>2
    <3>2. n - j \notin Bad
      <4> HIDE DEF Bad
      <4> QED
        BY <2>1, <3>1
    <3>3. FoundFrom(t, ps, k, kind, n - (n - j), from[n - (n - j)])
      BY <3>1, <3>2
    <3> QED
      BY <3>1, <3>3
  <2>5. CASE i > Len(t)
    <3>1. from[i] = {}
      BY <1>3, <2>5
    <3>2. i..Len(t) = {}
      BY <2>5
    <3>3. FoundFrom(t, ps, k, kind, i, {})
      BY <3>2 DEF FoundFrom
    <3> QED
      BY <2>3, <3>1, <3>3
  <2>6. CASE ~(i > Len(t)) /\ StandingAt(t, ps, i) = {}
    <3>1. i \in 0..Len(t) /\ i + 1 \in (i + 1)..n
      BY <2>6
    <3>2. from[i] = from[i + 1]
      BY <1>3, <2>6
    <3>3. FoundFrom(t, ps, k, kind, i + 1, from[i + 1])
      BY <2>4, <3>1
    <3>4. FoundFrom(t, ps, k, kind, i, from[i + 1])
      BY <2>6, <3>1, <3>3, FoundSkip
    <3> QED
      BY <2>3, <3>2, <3>4
  <2>7. CASE ~(i > Len(t)) /\ StandingAt(t, ps, i) # {}
    <3>1. i \in 0..Len(t)
      BY <2>7
    <3>2. PICK a : a = AfterMatch(t, ps, i)
      OBVIOUS
    <3>3. a \in (i + 1)..n
      BY <2>7, <3>1, <3>2, MatchEnds
    <3>4. FoundFrom(t, ps, k, kind, a, from[a])
      BY <2>4, <3>3
    <3>5. FoundFrom(t, ps, k, kind, i, {MatchAt(t, ps, kind, i)} \cup from[a])
      BY <2>7, <3>1, <3>2, <3>4, FoundMatch
    <3>6. from[i] = {MatchAt(t, ps, kind, i)} \cup from[a]
      BY <1>3, <2>7, <3>2
    <3> QED
      BY <2>3, <3>5, <3>6
  <2> QED
    BY <2>5, <2>6, <2>7
<1>6. n \notin Bad /\ n \in 0..n /\ n - n = 0
  BY <1>4, <1>5
<1>7. FoundFrom(t, ps, k, kind, n - n, from[n - n])
  BY <1>6
<1> QED
  BY <1>1, <1>6, <1>7

\* The values the vault holds can be searched for.
LEMMA ValuesSought ==
    ASSUME EntriesKept
    PROVE  /\ Len(regs) \in Nat
           /\ Patterns(ValuesOf(regs), Len(regs))
           /\ \A p \in 1..Len(regs) : Len(ValuesOf(regs)[p]) = 0 => ValuesOf(regs)[p] = <<>>
           /\ Elements(ValuesOf(regs)) = {ValuesOf(regs)[p] : p \in 1..Len(regs)}
<1>1. Len(regs) \in Nat /\ DOMAIN regs = 1..Len(regs) /\ \A p \in 1..Len(regs) : regs[p] \in Registrations
  BY DEF EntriesKept
<1>2. \A r \in Registrations : r.value \in Seq(Chars) \/ r.value \in Structured
  <2>1. \A r \in FpeRegs \cup FormatlessRegs \cup CardRegs : r.value \in Strings
    BY DEF FpeRegs, FormatlessRegs, CardRegs, Strings
  <2>2. \A r \in StructuredRegs : r.value \in Structured
    BY DEF StructuredRegs
  <2> QED
    BY <2>1, <2>2, RecognitionAssumption DEF Registrations
<1>3. \A v \in Seq(Chars) : Len(v) \in Nat /\ (Len(v) = 0 => v = <<>>)
  OBVIOUS
<1>4. \A r \in Registrations : Len(r.value) \in Nat /\ (Len(r.value) = 0 => r.value = <<>>)
  BY <1>2, <1>3, RecognitionAssumption
<1>5. DOMAIN ValuesOf(regs) = 1..Len(regs) /\ \A p \in 1..Len(regs) : ValuesOf(regs)[p] = regs[p].value
  BY <1>1 DEF ValuesOf
<1>6. Patterns(ValuesOf(regs), Len(regs))
  BY <1>1, <1>4, <1>5 DEF Patterns
<1>7. \A p \in 1..Len(regs) : Len(ValuesOf(regs)[p]) = 0 => ValuesOf(regs)[p] = <<>>
  BY <1>1, <1>4, <1>5
<1> QED
  BY <1>1, <1>5, <1>6, <1>7 DEF Elements

\* NothingSlips: the detector reports matches that do not overlap, drops none
\* but for one that overlaps it and is at least as long, and reaches every
\* occurrence of a registered value, unless a pattern displaced the match that
\* did (Detector::scan, ExactMatcher::scan, PatternMatcher::scan), for texts,
\* values and rules of any number and length.
THEOREM DetectionMissesNothing == RecognitionSpec => []NothingSlips
<1>1. EntriesKept => NothingSlips
  <2> SUFFICES ASSUME EntriesKept, NEW t \in Lines, <<>> \notin Elements(ValuesOf(regs))
               PROVE  LET values == ValuesOf(regs)
                          found  == ExactScan(t, values) \cup PatternScan(t, Rules)
                          kept   == Scan(t, values, Rules)
                          displaced == {m \in found \ kept : m.kind = "Exact"}
                      IN  /\ \A m \in kept : Span(m) > 0
                          /\ \A m, n \in kept : m = n \/ m.end <= n.start \/ n.end <= m.start
                          /\ \A m \in found \ kept : \E n \in kept :
                                /\ m.start < n.end /\ n.start < m.end /\ Span(n) >= Span(m)
                                /\ m.kind = "Exact" => n.kind = "Pattern"
                          /\ \A v \in Elements(values), i \in 0..Len(t) :
                                StandsAt(t, v, i) =>
                                   \E m \in kept \cup displaced : m.start < i + Len(v) /\ i < m.end
    BY DEF NothingSlips
  <2> DEFINE values == ValuesOf(regs)
             exact == ExactScan(t, values)
             pattern == PatternScan(t, Rules)
             found == exact \cup pattern
             kept == Scan(t, values, Rules)
             displaced == {m \in found \ kept : m.kind = "Exact"}
  <2>1. Len(t) \in Nat /\ Len(Rules) \in Nat /\ DOMAIN Rules = 1..Len(Rules)
        /\ \A r \in 1..Len(Rules) : Len(Rules[r]) \in Nat \ {0}
    BY RecognitionAssumption
  <2>2. /\ Len(regs) \in Nat /\ Patterns(values, Len(regs))
        /\ \A p \in 1..Len(regs) : Len(values[p]) = 0 => values[p] = <<>>
        /\ Elements(values) = {values[p] : p \in 1..Len(regs)}
    BY ValuesSought
  <2>full. \A p \in 1..Len(regs) : Len(values[p]) \in Nat /\ Len(values[p]) > 0
    BY <2>2 DEF Patterns
  <2>3. kept = Resolve(found)
    BY DEF Scan
  <2>4. FoundFrom(t, values, Len(regs), "Exact", 0, exact)
    <3> HIDE DEF values
    <3> QED
      BY <2>1, <2>2, FindIterFinds DEF ExactScan
  <2>5. \A m \in pattern :
           /\ m \in [start : 0..Len(t), end : 0..Len(t), kind : {"Pattern"}, id : 1..Len(Rules)]
           /\ m.start < m.end
    <3> TAKE m \in pattern
    <3>1. PICK r \in 1..Len(Rules) :
             m \in {[x EXCEPT !.id = r] : x \in FindIter(t, <<Rules[r]>>, "Pattern")}
      BY <2>1 DEF PatternScan
    <3>2. PICK ps, x : /\ ps = <<Rules[r]>> /\ x \in FindIter(t, ps, "Pattern")
                       /\ m = [x EXCEPT !.id = r]
      BY <3>1
    <3>3. DOMAIN ps = 1..1 /\ ps[1] = Rules[r]
      BY <3>2
    <3>4. Patterns(ps, 1) /\ \A p \in 1..1 : Len(ps[p]) > 0
      BY <2>1, <3>3 DEF Patterns
    <3>5. FoundFrom(t, ps, 1, "Pattern", 0, FindIter(t, ps, "Pattern"))
      BY <2>1, <3>4, FindIterFinds
    <3>6. /\ x \in [start : 0..Len(t), end : 0..Len(t), kind : {"Pattern"}, id : 1..1]
          /\ x.end = x.start + Len(ps[x.id])
      BY <3>2, <3>5 DEF FoundFrom
    <3>7. x.start < x.end
      <4>1. Len(ps[x.id]) \in Nat /\ Len(ps[x.id]) > 0
        BY <3>4, <3>6 DEF Patterns
      <4>2. x.start \in Nat
        BY <3>6
      <4> QED
        BY <3>6, <4>1, <4>2
    <3> QED
      BY <3>2, <3>6, <3>7
  <2>6. \A m \in exact :
           /\ m \in [start : 0..Len(t), end : 0..Len(t), kind : {"Exact"}, id : 1..Len(regs)]
           /\ m.end = m.start + Len(values[m.id])
    BY <2>4 DEF FoundFrom
  <2>7. PICK k \in Nat : k = Len(regs) + Len(Rules)
    BY <2>1, <2>2
  <2>8. found \in SUBSET Matches(Len(t), k)
    <3> HIDE DEF exact, pattern, values
    <3>1. \A m \in exact : m.start <= m.end
      <4> TAKE m \in exact
      <4>1. PICK w \in Nat : w = Len(values[m.id])
        BY <2>2, <2>6 DEF Patterns
      <4> QED
        BY <2>6, <4>1
    <3>2. 1..Len(regs) \subseteq 0..k /\ 1..Len(Rules) \subseteq 0..k
      BY <2>1, <2>2, <2>7
    <3>3. \A m \in exact : m \in Matches(Len(t), k)
      BY <2>6, <3>1, <3>2 DEF Matches
    <3>4. \A m \in pattern : m \in Matches(Len(t), k)
      BY <2>5, <3>2 DEF Matches
    <3> QED
      BY <3>3, <3>4
  <2> HIDE DEF found, kept, exact, pattern, values
  <2>9. Resolved(found, kept)
    BY <2>1, <2>3, <2>7, <2>8, ResolveResolves
  <2>10. \A m \in found : m.start \in Nat /\ m.end \in Nat
    BY <2>8 DEF Matches
  <2>11. kept \in SUBSET found
    BY <2>9 DEF Resolved
  <2>12. \A m, n \in kept : m = n \/ m.end <= n.start \/ n.end <= m.start
    BY <2>9, <2>10, <2>11 DEF Resolved, Overlaps
  <2>13. ASSUME NEW m \in found \ kept
         PROVE  \E n \in kept : /\ m.start < n.end /\ n.start < m.end /\ Span(n) >= Span(m)
                                /\ m.kind = "Exact" => n.kind = "Pattern"
    <3>1. PICK n \in kept : m.start < n.end /\ n.start < m.end /\ Span(n) >= Span(m)
      BY <2>9 DEF Resolved, Overlaps
    <3>2. ASSUME m.kind = "Exact", n.kind # "Pattern" PROVE FALSE
      <4>1. m \in exact /\ n \in exact
        BY <2>5, <2>11, <3>2 DEF found
      <4>2. m = n \/ m.end <= n.start \/ n.end <= m.start
        BY <2>4, <4>1 DEF FoundFrom
      <4>3. m.start \in Nat /\ m.end \in Nat /\ n.start \in Nat /\ n.end \in Nat
        BY <2>10, <2>11
      <4> QED
        BY <3>1, <4>2, <4>3
    <3> QED
      BY <3>1, <3>2
  <2>14. \A m \in exact : m \in kept \cup displaced
    BY <2>6 DEF found
  <2>15. ASSUME NEW v \in Elements(values), NEW i \in 0..Len(t), StandsAt(t, v, i)
         PROVE  \E m \in kept \cup displaced : m.start < i + Len(v) /\ i < m.end
    <3>1. PICK p \in 1..Len(regs) : v = values[p]
      BY <2>2
    <3>2. \E m \in exact : m.start < i + Len(v) /\ i < m.end
      BY <2>4, <2>15, <2>full, <3>1 DEF FoundFrom
    <3> QED
      BY <2>14, <3>2
  <2>16. \A m \in found \ kept : \E n \in kept :
            /\ m.start < n.end /\ n.start < m.end /\ Span(n) >= Span(m)
            /\ m.kind = "Exact" => n.kind = "Pattern"
    BY <2>13
  <2>17. \A v \in Elements(values), i \in 0..Len(t) :
            StandsAt(t, v, i) =>
               \E m \in kept \cup displaced : m.start < i + Len(v) /\ i < m.end
    BY <2>15
  <2>18. \A m \in kept : Span(m) > 0
    <3> SUFFICES ASSUME NEW m \in kept PROVE Span(m) > 0
      OBVIOUS
    <3>1. m \in exact \/ m \in pattern
      BY <2>11 DEF found
    <3>2. m.start < m.end
      <4>1. CASE m \in exact
        BY <2>6, <2>full, <4>1
      <4>2. CASE m \in pattern
        BY <2>5, <4>2
      <4> QED
        BY <3>1, <4>1, <4>2
    <3> QED
      BY <2>10, <2>11, <3>2 DEF Span
  <2> QED
    BY <2>12, <2>16, <2>17, <2>18, Zenon DEF found, kept, exact, pattern, values
<1> QED
  BY <1>1, EntriesAlwaysKept, PTL

=============================================================================
