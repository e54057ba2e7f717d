----------------------------- MODULE VaultStore -----------------------------
(***************************************************************************)
(* The encrypted vault file, the keychain slot that holds its key, and the *)
(* commands that open, change and save it: register, forget, list, and     *)
(* scrub and restore without --session ("use").  Each command is one       *)
(* process.                                                                *)
(*                                                                         *)
(* A process runs Vault::open (clean leftovers, fetch or create the key,   *)
(* read, decrypt), its command, and Vault::save, whose write_atomic is the *)
(* five file system steps of io.rs.  Every step can fail, a process can be *)
(* killed between any two, and the power can fail.                         *)
(*                                                                         *)
(* File contents are the set of registered labels, the key they are sealed *)
(* with, and whether the bytes are complete and have reached the disk.     *)
(* Sealing is modelled by what matters here: only the sealing key opens a  *)
(* complete file with our header; anything else is refused.                *)
(***************************************************************************)
EXTENDS Naturals, Keychain

CONSTANTS
    Procs,        \* process ids; a leftover may carry the id of a later process
    Labels,       \* labels secrets are registered under
    NoFile,       \* a path that does not exist
    MaxCommands,  \* bound on commands started
    MaxFaults     \* bound on failing steps, kills and power losses

Stranger == MaxCommands + 2       \* a key this keychain never held
Keys == 1..Stranger

\* head: the magic and the version at the start of the file are ours, or
\* one of them is not.
Heads == {"ours", "magic", "version"}
File == [head : Heads, key : Keys, entries : SUBSET Labels,
         whole : BOOLEAN, synced : BOOLEAN]

ASSUME FileAssumption == NoFile \notin File
ASSUME BoundsAssumption ==
    MaxCommands \in Nat /\ MaxFaults \in Nat

Commands == [op : {"register", "forget"}, label : Labels] \cup [op : {"list", "use"}]

\* Who runs, on what: one command at a time from the first run on, as the M1
\* posture has it; several at once on an existing vault; several first runs
\* at once; one at a time on a file that is no vault of this keychain (a
\* wrong --vault, a copied home, a later version).
Modes == {"alone", "shared", "firstRuns", "stranger"}

Steps == {"idle", "scan", "fetch", "storeKey", "read", "output",
          "create", "body", "fsyncBody", "rename", "fsyncDir"}

\* At...: the step of write_atomic an AtomicWriteError names.
Results == {"none", "ok", "exists", "missing", "killed", "panicked", "failed",
            "TruncatedFile", "BadMagic", "UnsupportedVersion", "AeadDecrypt",
            "AtTmpCreate", "AtBodyWrite", "AtBodyFsync", "AtRename",
            "AtParentFsync"}

VARIABLES
    mode,      \* one of Modes; never changes
    pc,        \* next step of each process
    cmd,       \* the command it runs
    key,       \* the vault key it holds
    mem,       \* the labels of the vault it opened, then of the one it saves
    keychain,  \* the key in the keychain slot
    fresh,     \* number of keys generated so far
    vault,     \* what the vault path names
    disk,      \* what the vault path may name after a power loss
    tmp,       \* what each process's tmp path names
    result,    \* how the last command of each process id ended
    started,   \* commands started
    faults,    \* faults that happened
    acked,     \* history: labels of the last save that reported success
    attempts,  \* history: label sets commands tried to save since then
    before,    \* history: what the vault path named when a command started,
               \* then when it read the vault
    replaced   \* history: a first run stored its key over that of another

vars == <<pc, cmd, key, mem, keychain, fresh, vault, disk, tmp, result,
          started, faults, acked, attempts, before, replaced>>

fileVars == <<vault, disk, tmp>>
keyVars  == <<keychain, fresh>>
histVars == <<acked, attempts, before, replaced>>

TypeOK ==
    /\ mode \in Modes
    /\ pc \in [Procs -> Steps]
    /\ cmd \in [Procs -> Commands]
    /\ key \in [Procs -> Keys \cup {NoKey}]
    /\ mem \in [Procs -> SUBSET Labels]
    /\ keychain \in Keys \cup {NoKey}
    /\ fresh \in 0..(MaxCommands + 1)
    /\ vault \in File \cup {NoFile}
    /\ disk \subseteq File \cup {NoFile}
    /\ tmp \in [Procs -> File \cup {NoFile}]
    /\ result \in [Procs -> Results]
    /\ started \in 0..MaxCommands
    /\ faults \in 0..MaxFaults
    /\ acked \subseteq Labels
    /\ attempts \subseteq SUBSET Labels
    /\ before \in [Procs -> File \cup {NoFile}]
    /\ replaced \in BOOLEAN

Contents(f) == IF f = NoFile THEN {} ELSE f.entries

\* encrypt_vault: header, nonce, ciphertext.
SealedBy(k, S) ==
    [head |-> "ours", key |-> k, entries |-> S, whole |-> TRUE, synced |-> TRUE]

Strangers == {[SealedBy(Stranger, {}) EXCEPT !.head = h] : h \in Heads}

Init ==
    /\ mode \in Modes
    /\ pc = [p \in Procs |-> "idle"]
    /\ cmd = [p \in Procs |-> [op |-> "list"]]
    /\ key = [p \in Procs |-> NoKey]
    /\ mem = [p \in Procs |-> {}]
    /\ fresh = (IF mode = "shared" THEN 1 ELSE 0)
    /\ keychain = (IF mode = "shared" THEN 1 ELSE NoKey)
    /\ vault \in (CASE mode = "shared"   -> {SealedBy(1, {})}
                    [] mode = "stranger" -> Strangers
                    [] OTHER             -> {NoFile})
    /\ disk = {vault}
    /\ tmp = [p \in Procs |-> NoFile]
    /\ result = [p \in Procs |-> "none"]
    /\ started = 0
    /\ faults = 0
    /\ acked = {}
    /\ attempts = {}
    /\ before = [p \in Procs |-> NoFile]
    /\ replaced = FALSE

Running == {p \in Procs : pc[p] # "idle"}

-----------------------------------------------------------------------------
(* Control.                                                                *)

Goto(p, step) == pc' = [pc EXCEPT ![p] = step] /\ UNCHANGED result

\* The process ends and reports `how`.
Exit(p, how) ==
    /\ pc' = [pc EXCEPT ![p] = "idle"]
    /\ result' = [result EXCEPT ![p] = how]

Ok == UNCHANGED faults

Fault == faults < MaxFaults /\ faults' = faults + 1

\* A step that failed changes nothing but the process.
FailsWith(p, how) ==
    /\ Fault
    /\ Exit(p, how)
    /\ UNCHANGED <<key, mem, keyVars, fileVars, histVars>>

\* run: the vault path is resolved, then the secret or the input text is
\* read, before the vault is opened.  Either can fail, with nothing touched.
Start(p, c) ==
    /\ pc[p] = "idle"
    /\ mode \in {"alone", "stranger"} => Running = {}
    /\ started < MaxCommands
    /\ started' = started + 1
    /\ cmd' = [cmd EXCEPT ![p] = c]
    /\ key' = [key EXCEPT ![p] = NoKey]
    /\ mem' = [mem EXCEPT ![p] = {}]
    /\ before' = [before EXCEPT ![p] = vault]
    /\ \/ /\ pc' = [pc EXCEPT ![p] = "scan"]
          /\ result' = [result EXCEPT ![p] = "none"]
          /\ Ok
       \/ Exit(p, "failed") /\ Fault
    /\ UNCHANGED <<keyVars, fileVars, acked, attempts, replaced>>

-----------------------------------------------------------------------------
(* Vault::open.                                                            *)

\* list_orphan_tmps goes by name: the tmp file of a save that is under way
\* counts as an orphan.
Orphans == {q \in Procs : tmp[q] # NoFile}

\* Remove every sibling tmp file.  Listing and removing fail silently, so
\* any of them may survive.
RemoveOrphans(p) ==
    /\ pc[p] = "scan"
    /\ \E kept \in SUBSET Orphans :
          /\ kept # {} => Fault
          /\ kept = {} => Ok
          /\ tmp' = [q \in Procs |-> IF q \in kept THEN tmp[q] ELSE NoFile]
    /\ Goto(p, "fetch")
    /\ UNCHANGED <<cmd, key, mem, keyVars, vault, disk, started, histVars>>

\* os_random has no error to return: it ends the process.
RandomFails(p) == FailsWith(p, "panicked")

\* fetch_or_create, first half: the key in the slot, or a newly generated
\* one.  A keychain error never creates a key.
FetchKey(p) ==
    /\ pc[p] = "fetch"
    /\ \E fault \in FetchFaults(keychain) :
          LET got == Fetch(keychain, fault) IN
          \/ /\ got = "Key"
             /\ key' = [key EXCEPT ![p] = keychain]
             /\ Goto(p, "read")
             /\ Ok
             /\ UNCHANGED <<mem, keyVars, fileVars, histVars>>
          \/ /\ got = "Empty"
             /\ fresh' = fresh + 1
             /\ key' = [key EXCEPT ![p] = fresh + 1]
             /\ Goto(p, "storeKey")
             /\ IF fault = "none" THEN Ok ELSE Fault
             /\ UNCHANGED <<mem, keychain, fileVars, histVars>>
          \/ got = "Empty" /\ RandomFails(p)
          \/ got \in {"Backend", "MalformedKey"} /\ FailsWith(p, "failed")
    /\ UNCHANGED <<cmd, started>>

\* fetch_or_create, second half: store before returning.
StoreKey(p) ==
    /\ pc[p] = "storeKey"
    /\ \E fault \in CallFaults :
          \/ /\ Store(fault) = "Stored"
             /\ keychain' = key[p]
             /\ Goto(p, "read")
             /\ replaced' = (replaced \/ keychain # NoKey)
             /\ Ok
             /\ UNCHANGED <<key, mem, fresh, fileVars, acked, attempts, before>>
          \/ Store(fault) = "Backend" /\ FailsWith(p, "failed")
    /\ UNCHANGED <<cmd, started>>

\* decrypt_vault: the checks in their order.
DecryptError(k, f) ==
    CASE f = NoFile           -> "none"
      [] ~f.whole             -> "TruncatedFile"
      [] f.head = "magic"     -> "BadMagic"
      [] f.head = "version"   -> "UnsupportedVersion"
      [] f.key # k            -> "AeadDecrypt"
      [] OTHER                -> "none"

\* Faulty variant: register saves the new entry alone.
DecideForgetsOthers(c, S) ==
    CASE c.op = "register" /\ c.label \in S    -> [exit |-> "exists", save |-> S]
      [] c.op = "register" /\ c.label \notin S -> [exit |-> "none", save |-> {c.label}]
      [] c.op = "forget" /\ c.label \notin S   -> [exit |-> "missing", save |-> S]
      [] c.op = "forget" /\ c.label \in S      -> [exit |-> "none", save |-> S \ {c.label}]
      [] c.op \in {"list", "use"}              -> [exit |-> "ok", save |-> S]

\* What the command makes of the labels it read: the labels to save, or the
\* result it exits with.
Decide(c, S) ==
    CASE c.op = "register" /\ c.label \in S    -> [exit |-> "exists", save |-> S]
      [] c.op = "register" /\ c.label \notin S -> [exit |-> "none", save |-> S \cup {c.label}]
      [] c.op = "forget" /\ c.label \notin S   -> [exit |-> "missing", save |-> S]
      [] c.op = "forget" /\ c.label \in S      -> [exit |-> "none", save |-> S \ {c.label}]
      [] c.op \in {"list", "use"}              -> [exit |-> "ok", save |-> S]

\* Read and decrypt the vault, then run the command on it in memory.
ReadVault(p) ==
    /\ pc[p] = "read"
    /\ \/ /\ DecryptError(key[p], vault) = "none"
          /\ LET d == Decide(cmd[p], Contents(vault)) IN
                /\ mem' = [mem EXCEPT ![p] = d.save]
                /\ IF d.exit = "none"
                   THEN Goto(p, "create") /\ attempts' = attempts \cup {d.save}
                   ELSE /\ IF cmd[p].op = "use" THEN Goto(p, "output") ELSE Exit(p, d.exit)
                        /\ UNCHANGED attempts
          /\ before' = [before EXCEPT ![p] = vault]
          /\ Ok
          /\ UNCHANGED <<key, keyVars, fileVars, acked, replaced>>
       \/ /\ DecryptError(key[p], vault) # "none"
          /\ Exit(p, DecryptError(key[p], vault))
          /\ Ok
          /\ UNCHANGED <<key, mem, keyVars, fileVars, histVars>>
       \/ FailsWith(p, "failed")
    /\ UNCHANGED <<cmd, started>>

\* scrub and restore end by printing; only there can printing fail the
\* command.
WriteOutput(p) ==
    /\ pc[p] = "output"
    /\ \/ /\ Exit(p, "ok")
          /\ Ok
          /\ UNCHANGED <<key, mem, keyVars, fileVars, histVars>>
       \/ FailsWith(p, "failed")
    /\ UNCHANGED <<cmd, started>>

-----------------------------------------------------------------------------
(* Vault::save: seal, then write_atomic.                                   *)

\* open_tmp with O_EXCL: it makes an empty file where there was none.
OpenTmp(p) ==
    /\ tmp[p] = NoFile
    /\ tmp' = [tmp EXCEPT ![p] = [SealedBy(key[p], mem[p]) EXCEPT
                                  !.whole = FALSE, !.synced = FALSE]]

\* The tweak of a new entry and the nonce are drawn first.
CreateTmp(p) ==
    /\ pc[p] = "create"
    /\ \/ /\ OpenTmp(p)
          /\ Goto(p, "body")
          /\ Ok
          /\ UNCHANGED <<key, mem, keyVars, vault, disk, histVars>>
       \/ /\ tmp[p] # NoFile
          /\ Exit(p, "AtTmpCreate")
          /\ Ok
          /\ UNCHANGED <<key, mem, keyVars, fileVars, histVars>>
       \/ FailsWith(p, "AtTmpCreate") \/ RandomFails(p)
    /\ UNCHANGED <<cmd, started>>

\* Steps on the open file succeed even if its path was removed meanwhile.
OnTmp(p, f) == IF tmp[p] = NoFile THEN tmp' = tmp ELSE tmp' = [tmp EXCEPT ![p] = f]

WriteBody(p) ==
    /\ pc[p] = "body"
    /\ \/ /\ OnTmp(p, [tmp[p] EXCEPT !.whole = TRUE])
          /\ Goto(p, "fsyncBody")
          /\ Ok
          /\ UNCHANGED <<key, mem, keyVars, vault, disk, histVars>>
       \/ FailsWith(p, "AtBodyWrite")
    /\ UNCHANGED <<cmd, started>>

FsyncBody(p) ==
    /\ pc[p] = "fsyncBody"
    /\ \/ /\ OnTmp(p, [tmp[p] EXCEPT !.synced = TRUE])
          /\ Goto(p, "rename")
          /\ Ok
          /\ UNCHANGED <<key, mem, keyVars, vault, disk, histVars>>
       \/ FailsWith(p, "AtBodyFsync")
    /\ UNCHANGED <<cmd, started>>

\* Faulty variant: the old file is removed to make way for the rename, which
\* may then fail.
RenameUnlinksFirst(p) ==
    /\ pc[p] = "rename"
    /\ \/ /\ tmp[p] # NoFile
          /\ vault' = tmp[p]
          /\ disk' = disk \cup {NoFile, tmp[p]}
          /\ tmp' = [tmp EXCEPT ![p] = NoFile]
          /\ Goto(p, "fsyncDir")
          /\ Ok
          /\ UNCHANGED <<key, mem, keyVars, histVars>>
       \/ /\ vault' = NoFile
          /\ disk' = disk \cup {NoFile}
          /\ Exit(p, "AtRename")
          /\ Fault
          /\ UNCHANGED <<key, mem, keyVars, tmp, histVars>>
    /\ UNCHANGED <<cmd, started>>

\* Atomic, but not durable before the directory is synced.
Rename(p) ==
    /\ pc[p] = "rename"
    /\ \/ /\ tmp[p] # NoFile
          /\ vault' = tmp[p]
          /\ disk' = disk \cup {tmp[p]}
          /\ tmp' = [tmp EXCEPT ![p] = NoFile]
          /\ Goto(p, "fsyncDir")
          /\ Ok
          /\ UNCHANGED <<key, mem, keyVars, histVars>>
       \/ /\ tmp[p] = NoFile
          /\ Exit(p, "AtRename")
          /\ Ok
          /\ UNCHANGED <<key, mem, keyVars, fileVars, histVars>>
       \/ FailsWith(p, "AtRename")
    /\ UNCHANGED <<cmd, started>>

\* Faulty variant: success is reported without the fsync of the directory.
FsyncDirSkipped(p) ==
    /\ pc[p] = "fsyncDir"
    /\ Exit(p, "ok")
    /\ Ok
    /\ acked' = mem[p]
    /\ attempts' = {}
    /\ UNCHANGED <<cmd, key, mem, keyVars, fileVars, before, replaced, started>>

\* Only after this step does the command report success.
FsyncDir(p) ==
    /\ pc[p] = "fsyncDir"
    /\ \/ /\ disk' = {vault}
          /\ Exit(p, "ok")
          /\ Ok
          /\ acked' = mem[p]
          /\ attempts' = {}
          /\ UNCHANGED <<key, mem, keyVars, vault, tmp, before, replaced>>
       \/ FailsWith(p, "AtParentFsync")
    /\ UNCHANGED <<cmd, started>>

-----------------------------------------------------------------------------
(* Crashes.                                                                *)

Kill(p) ==
    /\ pc[p] # "idle"
    /\ Fault
    /\ Exit(p, "killed")
    /\ UNCHANGED <<cmd, key, mem, keyVars, fileVars, started, histVars>>

\* The data of a file whose fsync has not returned may be incomplete.
AfterPowerLoss(f) ==
    IF f = NoFile THEN {NoFile}
    ELSE IF f.synced THEN {f}
    ELSE {[f EXCEPT !.synced = TRUE], [f EXCEPT !.whole = FALSE, !.synced = TRUE]}

\* Every process dies; the vault path names one of the files that may have
\* reached the disk, and each tmp file is there or not.
PowerLoss ==
    /\ Fault
    /\ pc' = [p \in Procs |-> "idle"]
    /\ result' = [p \in Procs |-> IF pc[p] = "idle" THEN result[p] ELSE "killed"]
    /\ \E f \in disk : vault' \in AfterPowerLoss(f)
    /\ disk' = {vault'}
    /\ \E lost \in SUBSET Procs :
          tmp' = [p \in Procs |->
                    IF p \in lost \/ tmp[p] = NoFile THEN NoFile
                    ELSE [tmp[p] EXCEPT !.whole = tmp[p].whole /\ tmp[p].synced,
                                        !.synced = TRUE]]
    /\ UNCHANGED <<cmd, key, mem, keyVars, started, histVars>>

Next ==
    /\ \/ \E p \in Procs :
             \/ \E c \in Commands : Start(p, c)
             \/ RemoveOrphans(p) \/ FetchKey(p) \/ StoreKey(p)
             \/ ReadVault(p) \/ WriteOutput(p)
             \/ CreateTmp(p) \/ WriteBody(p) \/ FsyncBody(p) \/ Rename(p) \/ FsyncDir(p)
             \/ Kill(p)
       \/ PowerLoss
    /\ UNCHANGED mode

Spec == Init /\ [][Next]_<<mode, vars>>

-----------------------------------------------------------------------------
(* Properties.                                                             *)

\* Whatever the vault path names, now or after a power loss, opens: it is no
\* file, or a complete one sealed with the key in the keychain.  No failing
\* step, no crash between generating the key, storing it and writing the
\* vault, and no keychain error leaves a half-written file or one sealed
\* with a lost key.  Only first runs that overlap between fetch and store
\* can lose a key.  A file sealed elsewhere is never written over.
VaultOpens ==
    /\ TypeOK
    /\ vault # NoFile => vault.whole
    /\ ~replaced => \A f \in (disk \cup {vault}) \ {NoFile} :
                      f.key = IF mode = "stranger" THEN Stranger ELSE keychain
    /\ replaced => mode = "firstRuns"

\* With one command at a time, a save that reported success survives: what
\* a power loss can leave is the last acknowledged set of labels or one that
\* a later, unacknowledged save tried to write.  It is never an older one.
AckedIsDurable ==
    mode = "alone" => \A f \in disk \cup {vault} : Contents(f) \in {acked} \cup attempts

\* A rename takes out what its forget names, or what its load had not seen.
LosesOnlyStale ==
    \A p \in Procs :
       pc[p] = "rename" /\ pc'[p] = "fsyncDir" =>
          \A l \in Contents(vault) \ Contents(vault') :
             \/ cmd[p] = [op |-> "forget", label |-> l]
             \/ l \notin Contents(before[p])

\* A save takes a label out of the vault only if it is the forget of that
\* label, or if it read the vault before the label was there: the lost
\* update of two commands that overlap is the only way to lose an entry.
OnlyStaleSavesLose == [][LosesOnlyStale]_vars

\* The exit code of run: 4 and 5 are decisions of the command, every error
\* is 3; a panic is 101.
ExitCode(how) ==
    CASE how = "ok" -> 0 [] how = "missing" -> 4 [] how = "exists" -> 5
      [] how = "panicked" -> 101 [] OTHER -> 3

\* The change a command makes when it succeeds.
Changed(c, S) ==
    CASE c.op = "register" -> S \cup {c.label}
      [] c.op = "forget"   -> S \ {c.label}
      [] OTHER             -> S

\* p ends its command by itself, with no other command beside it.
Finishes(p) ==
    /\ mode \in {"alone", "stranger"}
    /\ pc[p] # "idle" /\ pc'[p] = "idle"
    /\ result'[p] # "killed"

\* The exit code of p and what p found and left at the vault path.
ExitTellsTruth(p) ==
    Finishes(p) /\ result'[p] # "AtParentFsync" =>
       LET code == ExitCode(result'[p])
           was  == Contents(before[p])
       IN  /\ code = 0 =>
                 /\ Contents(vault') = Changed(cmd[p], was)
                 /\ cmd[p].op \in {"register", "forget"} => Contents(vault') # was
           /\ code = 5 => cmd[p].op = "register" /\ cmd[p].label \in was
           /\ code = 4 => cmd[p].op = "forget" /\ cmd[p].label \notin was
           /\ code # 0 => vault' = before[p]

\* With one command at a time, the exit code tells what happened to the
\* vault: 0, the change is made; 4 or 5, the label was missing or taken and
\* nothing changed; 3 or 101, nothing changed.  A failing directory fsync is
\* left out: it is reported when the rename is done, although of every
\* VaultError::AtomicWrite "the original vault file (if any) is untouched".
ExitTruthful == [][\A p \in Procs : ExitTellsTruth(p)]_vars

=============================================================================
