---------------------------- MODULE SessionFile ----------------------------
(***************************************************************************)
(* `scrub --session PATH` and `restore --session PATH`: the session file   *)
(* (session_file.rs) and the two commands that share it (cli/commands.rs). *)
(*                                                                         *)
(* scrub loads or creates the session, imports it into a SessionMap,       *)
(* scrubs, saves the grown map under the original expiry and only then     *)
(* prints the scrubbed text.  restore loads the session, restores, unlinks *)
(* the file and then prints.  Steps of different processes interleave,     *)
(* every step can fail and a process can be killed between two steps.      *)
(*                                                                         *)
(* A text is the sequence of session-mapped values found in it; what scrub *)
(* prints is the set of (value, fake) replacements it made.  A file is its *)
(* header, the key and header it was sealed under, and its plaintext; PATH *)
(* may also name a file that is no session of this vault.  One command     *)
(* uses one Instant for its whole map, so the map's own clock stands still *)
(* at 0.  What a crash inside the atomic write can leave is the subject of *)
(* VaultStore; here a save happens, fails before its rename, or fails      *)
(* after it.                                                               *)
(***************************************************************************)
EXTENDS SessionMapOps, Sequences

CONSTANTS
    Procs,        \* processes
    Texts,        \* inputs: sequences of registered session-mapped values
    FakeOf,       \* [Reals -> Fakes]: the deterministic fake generators
    SessionTtl,   \* SESSION_TTL_SECS
    NoFile,       \* no session file at PATH
    MaxRunning,   \* how many commands may run at the same time
    MaxTime,      \* bound on the wall clock
    MaxFaults     \* bound on failing steps and kills

ASSUME TextAssumption == Texts \subseteq Seq(Reals)
ASSUME FakeOfAssumption == FakeOf \in [Reals -> Fakes]
ASSUME SessionBounds ==
    /\ SessionTtl \in Nat \ {0} /\ MaxEntries # 0
    /\ MaxRunning \in Nat /\ MaxTime \in Nat /\ MaxFaults \in Nat

Magic == "INVISIBOOL_SESSN"
Version == 1

\* HKDF under distinct labels gives independent keys; so do distinct vaults.
Subkeys == {"session", "vault", "session of another vault"}

VARIABLES
    clock,        \* wall clock, epoch seconds
    file,         \* what PATH names
    pc,           \* next step of each process
    op,           \* which command it runs
    text,         \* its input: for scrub a text, for restore replacements
    now,          \* now_epoch, read once when the command starts
    contents,     \* the session contents scrub is about to save
    out,          \* replacements the command is about to print
    result,       \* how the last command ended
    faults,       \* faults that happened
    delivered,    \* history: replacements printed since the last wipe
    opened        \* history: when the session at PATH was created

vars == <<clock, file, pc, op, text, now, contents, out, result, faults,
          delivered, opened>>

Pairs == Fakes \X Reals
Replacements == Reals \X Fakes
Contents == [expires : Nat, pairs : SUBSET Pairs]
Header == [magic : {Magic, "other"}, version : 1..2]
File == [long : BOOLEAN, header : Header, key : Subkeys, aad : Header,
         decodes : BOOLEAN, expires : Nat, pairs : SUBSET Pairs]

ASSUME NoFileAssumption == NoFile \notin File

Refusals == {"TruncatedFile", "NotASessionFile", "UnsupportedVersion",
             "AeadDecrypt", "Serde", "Expired"}

TypeOK ==
    /\ clock \in 0..MaxTime
    /\ file \in File \cup {NoFile}
    /\ pc \in [Procs -> {"idle", "load", "save", "wipe", "write"}]
    /\ op \in [Procs -> {"scrub", "restore"}]
    /\ \A p \in Procs : IF op[p] = "scrub" THEN text[p] \in Seq(Reals)
                        ELSE text[p] \subseteq Replacements
    /\ now \in [Procs -> 0..MaxTime]
    /\ contents \in [Procs -> Contents]
    /\ out \in [Procs -> SUBSET Replacements]
    /\ result \in [Procs -> {"none", "ok", "failed", "killed", "NotFound"} \cup Refusals]
    /\ faults \in 0..MaxFaults
    /\ delivered \subseteq Replacements
    /\ opened \in 0..MaxTime

Init ==
    /\ clock = 0
    /\ file = NoFile
    /\ pc = [p \in Procs |-> "idle"]
    /\ op = [p \in Procs |-> "scrub"]
    /\ text = [p \in Procs |-> <<>>]
    /\ now = [p \in Procs |-> 0]
    /\ contents = [p \in Procs |-> [expires |-> 0, pairs |-> {}]]
    /\ out = [p \in Procs |-> {}]
    /\ result = [p \in Procs |-> "none"]
    /\ faults = 0
    /\ delivered = {}
    /\ opened = 0

-----------------------------------------------------------------------------
(* The pure parts.                                                         *)

\* import into a new map.  The pairs come from entries() of a consistent
\* map, so they have distinct fakes and distinct values and their order
\* does not matter.
Import(pairs) ==
    [byFake |-> [f \in {p[1] : p \in pairs} |->
                    [real |-> (CHOOSE p \in pairs : p[1] = f)[2], touched |-> 0]],
     byReal |-> [r \in {p[2] : p \in pairs} |-> (CHOOSE p \in pairs : p[2] = r)[1]]]

\* The maps get_or_insert of a value can make of the maps in M.
StoreInEach(M, r) == {o.map : o \in UNION {GetOrInsert(m, r, FakeOf[r], 0) : m \in M}}

\* Faulty variant: the last match is not stored.
ScrubMapsOffByOne(m, t) ==
    LET after[i \in 0..Len(t)] ==
            IF i <= 1 THEN {m} ELSE StoreInEach(after[i - 1], t[i - 1])
    IN  after[Len(t)]

\* scrub_with_session: every match is stored in turn; the maps it can end
\* in.  What is printed for a value is its generated fake.
ScrubMaps(m, t) ==
    LET after[i \in 0..Len(t)] ==
            IF i = 0 THEN {m} ELSE StoreInEach(after[i - 1], t[i])
    IN  after[Len(t)]

ScrubOutput(t) == {<<t[i], FakeOf[t[i]]>> : i \in 1..Len(t)}

\* restore_with_session: each fake of the input that the map knows is
\* replaced by its value; the others stay.
RestoreOutput(m, doc) ==
    UNION {{<<r, d[2]>> : r \in RestoreResult(m, d[2], 0)} : d \in doc}

\* encrypt_session_bytes: the header is authenticated with the plaintext.
Seal(c) ==
    LET h == [magic |-> Magic, version |-> Version] IN
    [long |-> TRUE, header |-> h, key |-> "session", aad |-> h,
     decodes |-> TRUE, expires |-> c.expires, pairs |-> c.pairs]

\* Files that are not live sessions of this vault: too short, a vault, one of
\* a later version, one of another vault, one whose header was altered, one
\* that is sealed but does not decode as SessionContents.  schema_version is
\* decoded and never compared.
Strangers ==
    LET f == Seal([expires |-> MaxTime + 1, pairs |-> {}])
    IN  {[f EXCEPT !.long = FALSE],
         [f EXCEPT !.header.magic = "other", !.aad.magic = "other", !.key = "vault"],
         [f EXCEPT !.header.version = 2, !.aad.version = 2],
         [f EXCEPT !.key = "session of another vault"],
         [f EXCEPT !.aad.version = 2],
         [f EXCEPT !.decodes = FALSE]}

NewAt(t) == [expires |-> t + SessionTtl, pairs |-> {}]

Expires(f, t) == f.expires <= t

\* decrypt_session_bytes: the checks in their order, the header before the
\* seal, the expiry last.
DecryptError(f, t) ==
    IF ~f.long THEN "TruncatedFile"
    ELSE IF f.header.magic # Magic THEN "NotASessionFile"
    ELSE IF f.header.version # Version THEN "UnsupportedVersion"
    ELSE IF f.key # "session" \/ f.aad # f.header THEN "AeadDecrypt"
    ELSE IF ~f.decodes THEN "Serde"
    ELSE IF Expires(f, t) THEN "Expired"
    ELSE "none"

\* Faulty variant: whatever cannot be opened counts as no session.
RefusedOnlyExpired(t) == file # NoFile /\ DecryptError(file, t) = "Expired"

\* load_session_file refuses what it cannot open and leaves it where it is.
Refused(t) == file # NoFile /\ DecryptError(file, t) # "none"

\* Faulty variant: a new session replaces the existing one.
AlwaysCreate(t) == NewAt(t)

\* Faulty variant: every scrub renews the lifetime.
LoadAndExtend(t) ==
    IF file = NoFile THEN NewAt(t) ELSE [expires |-> t + SessionTtl, pairs |-> file.pairs]

\* The session scrub works with; an existing one keeps its expiry.
LoadOrCreate(t) ==
    IF file = NoFile THEN NewAt(t) ELSE [expires |-> file.expires, pairs |-> file.pairs]

-----------------------------------------------------------------------------
(* Control.                                                                *)

Goto(p, step) == pc' = [pc EXCEPT ![p] = step] /\ UNCHANGED result

Exit(p, how) ==
    /\ pc' = [pc EXCEPT ![p] = "idle"]
    /\ result' = [result EXCEPT ![p] = how]

Fault == faults < MaxFaults /\ faults' = faults + 1

Tick ==
    /\ clock < MaxTime
    /\ clock' = clock + 1
    /\ UNCHANGED <<file, pc, op, text, now, contents, out, result, faults,
                   delivered, opened>>

Begin(p, which, input) ==
    /\ pc[p] = "idle"
    /\ Cardinality({q \in Procs : pc[q] # "idle"}) < MaxRunning
    /\ op' = [op EXCEPT ![p] = which]
    /\ text' = [text EXCEPT ![p] = input]
    /\ now' = [now EXCEPT ![p] = clock]
    /\ pc' = [pc EXCEPT ![p] = "load"]
    /\ result' = [result EXCEPT ![p] = "none"]
    /\ UNCHANGED <<clock, file, contents, out, faults, delivered, opened>>

BeginScrub(p) == \E t \in Texts : Begin(p, "scrub", t)

\* The user restores some of what was printed before.
BeginRestore(p) ==
    \E doc \in (SUBSET delivered) \ {{}} : Begin(p, "restore", doc)

-----------------------------------------------------------------------------
(* scrub.                                                                  *)

\* Load or create, import, scrub in memory, collect what is to be saved.
LoadForScrub(p) ==
    /\ pc[p] = "load" /\ op[p] = "scrub"
    /\ \/ /\ Refused(now[p])
          /\ Exit(p, DecryptError(file, now[p]))
          /\ UNCHANGED <<contents, out, faults>>
       \/ /\ ~Refused(now[p])
          /\ LET session == LoadOrCreate(now[p]) IN
                \E m \in ScrubMaps(Import(session.pairs), text[p]) :
                   contents' = [contents EXCEPT ![p] =
                       [expires |-> session.expires, pairs |-> Entries(m)]]
          /\ out' = [out EXCEPT ![p] = ScrubOutput(text[p])]
          /\ Goto(p, "save")
          /\ UNCHANGED faults
       \/ /\ Fault
          /\ Exit(p, "failed")
          /\ UNCHANGED <<contents, out>>
    /\ UNCHANGED <<clock, file, op, text, now, delivered, opened>>

\* save_session_file: replaces the file, or fails before or after doing so.
SaveSessionFile(c, failed) ==
    \/ ~failed /\ file' = Seal(c) /\ UNCHANGED faults
    \/ failed /\ file' \in {file, Seal(c)} /\ Fault

Save(p) ==
    /\ pc[p] = "save"
    /\ \/ SaveSessionFile(contents[p], FALSE) /\ Goto(p, "write")
       \/ SaveSessionFile(contents[p], TRUE) /\ Exit(p, "failed")
    /\ opened' = (IF file = NoFile /\ file' # NoFile THEN now[p] ELSE opened)
    /\ UNCHANGED <<clock, op, text, now, contents, out, delivered>>

-----------------------------------------------------------------------------
(* restore.                                                                *)

\* A missing or expired file is fatal.
LoadForRestore(p) ==
    /\ pc[p] = "load" /\ op[p] = "restore"
    /\ \/ /\ file = NoFile \/ Refused(now[p])
          /\ Exit(p, IF file = NoFile THEN "NotFound" ELSE DecryptError(file, now[p]))
          /\ UNCHANGED <<out, faults>>
       \/ /\ file # NoFile /\ ~Refused(now[p])
          /\ out' = [out EXCEPT ![p] = RestoreOutput(Import(file.pairs), text[p])]
          /\ Goto(p, "wipe")
          /\ UNCHANGED faults
       \/ /\ Fault
          /\ Exit(p, "failed")
          /\ UNCHANGED out
    /\ UNCHANGED <<clock, file, op, text, now, contents, delivered, opened>>

\* wipe_session_file: unlink; a file that is already gone is no failure.
WipeSessionFile ==
    \/ file' = NoFile /\ delivered' = {} /\ UNCHANGED faults
    \/ file' = file /\ UNCHANGED delivered /\ Fault

\* A failure to wipe is only a warning.
Wipe(p) ==
    /\ pc[p] = "wipe"
    /\ WipeSessionFile
    /\ Goto(p, "write")
    /\ UNCHANGED <<clock, op, text, now, contents, out, opened>>

-----------------------------------------------------------------------------
(* Both commands end by writing their output.                              *)

WriteOut(p) ==
    /\ pc[p] = "write"
    /\ \/ /\ Exit(p, "ok")
          /\ UNCHANGED faults
          /\ delivered' = (IF op[p] = "scrub" THEN delivered \cup out[p] ELSE delivered)
       \/ /\ Exit(p, "failed")
          /\ Fault
          /\ UNCHANGED delivered
    /\ UNCHANGED <<clock, file, op, text, now, contents, out, opened>>

Kill(p) ==
    /\ pc[p] # "idle"
    /\ Fault
    /\ Exit(p, "killed")
    /\ UNCHANGED <<clock, file, op, text, now, contents, out, delivered, opened>>

\* A file that is refused is in the way until the user deletes it.
UserDeletes ==
    /\ \A p \in Procs : pc[p] = "idle"
    /\ Refused(clock)
    /\ file' = NoFile
    /\ delivered' = {}
    /\ UNCHANGED <<clock, pc, op, text, now, contents, out, result, faults, opened>>

\* Between commands, PATH may come to name a file that is no session.
UserPlaces ==
    /\ \A p \in Procs : pc[p] = "idle"
    /\ file = NoFile
    /\ file' \in Strangers
    /\ UNCHANGED <<clock, pc, op, text, now, contents, out, result, faults,
                   delivered, opened>>

Next ==
    \/ Tick
    \/ \E p \in Procs :
          \/ BeginScrub(p) \/ BeginRestore(p)
          \/ LoadForScrub(p) \/ Save(p)
          \/ LoadForRestore(p) \/ Wipe(p)
          \/ WriteOut(p) \/ Kill(p)
    \/ UserDeletes
    \/ UserPlaces

Spec == Init /\ [][Next]_vars

-----------------------------------------------------------------------------
(* Properties.                                                             *)

\* "The value IS restorable through the session file": every replacement
\* scrub has printed, in this or an earlier command, is in the file until a
\* restore consumes it.  The notice that says otherwise is suppressed.  Only
\* a session that holds as many pairs as the map can lacks one: within one
\* scrub all pairs have the same age, and any of them may be evicted.  (This
\* and the next property are for values that have different fakes; of two
\* values with one fake the session keeps the last.)
DeliveredRestorable ==
    \A d \in delivered :
        /\ file # NoFile
        /\ <<d[2], d[1]>> \in file.pairs \/ Cardinality(file.pairs) = MaxEntries

\* A restore puts back the value each fake was printed for and no other; it
\* leaves one out only if the session was full.
RestoresOriginal ==
    /\ TypeOK
    /\ \A p \in Procs :
          pc[p] = "wipe" => /\ out[p] \subseteq text[p]
                            /\ out[p] # text[p] => Cardinality(file.pairs) = MaxEntries

\* The end of a session is final.  It is used only within its mandatory
\* lifetime, counted from the scrub that created it, which no sequence of
\* scrubs extends; and once a restore has consumed it nothing of it comes
\* back: the next file holds only pairs of replacements the command that
\* creates it makes itself.
EndIsFinal ==
    [][/\ \A p \in Procs :
             /\ pc[p] = "load"
             /\ pc'[p] \in {"save", "wipe"}
             /\ file # NoFile
             => now[p] < opened + SessionTtl
       /\ file = NoFile /\ file' \notin Strangers \cup {NoFile} =>
             \E p \in Procs : file'.pairs \subseteq {<<d[2], d[1]>> : d \in out[p]}]_vars

\* No command replaces or removes a file it did not open as a live session
\* of this vault: neither an unrelated file nor an expired session, however
\* the command goes on.  Only the user removes it.
RefusedFileKept ==
    [][file # NoFile /\ (\E p \in Procs : pc[p] # "idle" /\ DecryptError(file, now[p]) # "none")
          => file' = file]_vars

=============================================================================
