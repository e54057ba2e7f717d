# inVisibool in TLA+

inVisibool replaces registered secrets in a text by fakes of the same shape
before the text leaves the machine (`scrub`) and puts the secrets back into what
returns (`restore`). This project models the parts of it in which order, failure,
concurrency and boundary values decide whether that works, checks them with TLC,
and proves with TLAPS, for every value of the constants, the safety properties that
hold, all but one: of the session map, the engine, the tokenizers and detection, the
vault, the session file, the daemon's socket, the control channel, the in-memory
clipboard and the X11 clipboard's reading, ownership and serving. Liveness and
`SessionRoundTrip` are model-checked only. Three runs show
where the code does not do what a sentence of the repository says.

Paths below are relative to `src/crates/`.

## 1. The system

| Component | State | Operations | Talks to |
|---|---|---|---|
| Session map (`invisibool-engine/src/tokenizer/session.rs`) | two hash maps, fake to value with last access and value to fake | `get_or_insert`, `restore`, `clear`, `entries`, `import`; pruning and LRU eviction inside | engine, session file |
| Engine (`engine.rs`) | registrations, matcher; a session map is lent to it | `scrub`, `scrub_with_session`, `restore`, `restore_with_session` | tokenizers, session map |
| Tokenizers, reserved fakes, idempotence (`tokenizer/`, `idempotence.rs`) | none of their own; the registrations | eligibility, FF1 scrub and trial decryption, MAC fakes, e-mail, address, phone and card fakes, `classify` | engine |
| Detection (`detection/`) | compiled matchers | exact scan, pattern scan, overlap resolution | engine (exact scan only) |
| Vault (`vault/mod.rs`, `vault/io.rs`) | the encrypted file, tmp files beside it | `open`, `register`, `forget`, `save` = `write_atomic` | keychain, file system |
| Keychain (`keychain/`) | one key slot | `fetch_or_create` | OS keyring |
| Session file (`session_file.rs`, `invisibool/src/cli/commands.rs`) | one encrypted file of pairs with an expiry | load, save, wipe, inside the commands `scrub --session` and `restore --session` | vault key, session map |
| Daemon life cycle (`invisibool-control/src/lifecycle.rs`, `transport.rs`, daemon stub) | directory, lock file, socket file | acquire, probe, bind, serve, shut down | kernel |
| Control channel (`wire.rs`, `transport.rs`, `peer.rs`, `path.rs`, `status` in `commands.rs`) | connections, the backlog, a thread per connection | `dial_once`, `accept`, `serve_one`, time-outs, `status` | daemon, environment |
| Clipboard trait and in-memory backend (`invisibool-clipboard/src/lib.rs`, `in_memory.rs`) | text, change count, tokens, history, subscribers | `read_text`, `write_text`, `clear`, `subscribe`, drop, external writes | callers' threads |
| X11 clipboard (`invisibool-clipboard/src/x11/`) | registered read, INCR receive slot, owned content, server-time slot, INCR sends, subscribers; a caller's thread, an event thread, a watchdog and a dispatcher | the same methods, and the event handlers | X server and its other clients |
| Command line (`cli/commands.rs`, `args.rs`) | none | dispatch, exit codes | all of the above |

What is hard: the steps of `write_atomic` against crashes and power loss; a keyring
whose errors must not look like an empty slot; read-modify-write of files by several
processes without a lock; a lock file that is unlinked by path; a status command
that talks to daemons which stop and are replaced meanwhile; the X11 handlers, which
take locks one at a time between requests to a server that answers late; callbacks
that run after their lock is released; eviction, expiry and collisions of fakes in a
pair of maps that must stay inverse; overlapping windows in `restore`, and strings
that are a secret and look like a fake. The list with lines is under `hazards` in
PROJECT.json.

What makes each part correct:

- *Session map.* The two maps are one relation; a fake stands for the value it was
  last given to; a pair lives as long as the design says.
- *Vault and keychain.* The path names a complete vault that the keychain's key
  opens, at any crash point; what was acknowledged survives; exit codes are true.
- *Session file.* What was printed can be restored while the session lasts; its end
  is final; a file that is refused is not touched.
- *Daemon.* One server, reachable; leftovers never block the next.
- *Control channel.* `status` tells the truth; other users get nothing; both ends of
  a call end.
- *Clipboard.* Each change is told once to those subscribed at that moment, and what
  is told is true of that change. X11: a read returns the answer to that read or an
  error, and returns; a paste delivers one whole text; threads end.
- *Engine.* No registered value leaves; nothing unrestorable is silent; restore
  changes fakes only, and restores them.
- *Tokenizers, detection.* A secret is never taken for a fake; a fake is recognised;
  it fits its value; a scan lets no value slip.

## 2. Modules

| Module | Models | State and actions |
|---|---|---|
| `SessionMapOps` | the pure operations of session.rs | operators on `[byFake, byReal]`; where the code picks one of several equally old victims or a random fake the result is a set |
| `SessionMap` | a session map in use | one action per method; `SaveAndReload` and `ImportPair` carry the pairs through a session file into a new map, in any order |
| `Keychain` | what `OsKeychain` makes of the keyring library's results | operators from a slot and a fault to a result |
| `VaultStore` | vault file, key slot, the commands that open the vault | one process per command; a step is one file system or keychain call; any step fails, any process dies or panics, the power fails |
| `SessionFile` | `scrub --session`, `restore --session` | load, save, wipe and output are separate steps; uses `SessionMapOps` for what happens in memory |
| `OneDaemon` | what the socket path promises to clients | abstract: a daemon is off, up, serving, stopping or closed; the path leads to one, to nobody, or is absent |
| `SingleInstance` | directory, lock, stale socket, bind, shutdown | a step is one system call; inodes and sockets are distinct from their paths; implements `OneDaemon` |
| `Environment` | where socket and vault are looked for | operators on environments: variables unset, empty, relative, absolute |
| `ControlChannel` | clients and connections on top of `OneDaemon` | composes `OneDaemon` and `Environment` with `dial_once`, accept, `serve_one` and `status` |
| `Clipboard` | the contract of the trait | abstract: text, count, subscribers, notifications owed |
| `InMemoryClipboard` | the in-memory backend | one action per method and per callback; implements `Clipboard` |
| `X11Read`, `X11Own`, `X11Serve` | the X11 backend: `read_text` and INCR receive; server-time slot, `write_text`, `clear`, events, dispatcher, drop; selection requests and INCR sends | a step is what a thread does under one lock or in one request; server, owners and requestors are external |
| `Engine` | scrub and restore of one text | one action per match and per window, so that what the code's loop decides is visible; stores pairs through `SessionMapOps` |
| `Tokenizers`, `ReservedFakes`, `Detection` | the pure algorithms | operators; FF1, HMAC and SHA-256 are constants |
| `Recognition` | registrations of every kind and what becomes of their fakes and of texts | register, forget, retire; composes the three above |
| `EngineProofs` | theorems about `SessionMap` and `Engine` | see 5 |
| `VaultProofs` | theorems about `VaultStore`, and about `Recognition` with `Tokenizers`, `ReservedFakes` and `Detection` | see 5 |
| `DaemonProofs` | theorems about `OneDaemon`, `SingleInstance` and `ControlChannel` | see 5 |
| `SessionFileProofs`, `InMemoryClipboardProofs`, `X11OwnProofs`, `X11ReadProofs`, `X11ServeProofs` | theorems about the module each is named after | see 5 |

`MC*` modules only give constants their values, but for `MCScrubbing`: a behaviour of it
is one of the machines `SessionMap`, `Engine` and `Recognition` (the variable `part`
says which), the other two standing still.

Operators named as variants ("Faulty variant: ...") are not used by the
specifications. Each one is the form a plausible mistake would give to the
definition that follows it, and the property listed with it in PROJECT.json is
violated when it takes that definition's place.

**Abstractions.** Labels, and in most modules secrets and fakes, are members of small
sets. Sealing is modelled by what it guarantees: only the key that sealed a complete
file opens it. In `Engine` the prefix of an FF1 registration is empty, as `register`
makes it, no value is empty (`Recognition` has those), the ciphertext of a value
is any text of the alphabet of the value's length (two registrations may share one, and
ciphertexts may overlap values and each other), and a failing tokenizer is a
registration in `Broken`; in `Recognition` FF1 is any permutation of the numerals of a
length, so that fakes meet each other, values and MAC tails. A pattern rule is the string it
matches. Texts of the X11 clipboard are sequences of numbered pieces (one piece is
what one request or chunk carries), so that a mixed, cut or foreign text shows.
Frames on the control socket are what the decoder makes of them: a known request, an
unknown one, no JSON, too large, cut short. Clocks are counters, and a time-out is a
step that may be taken whenever the code could take it.

**Surroundings.** Some properties hold only in some surroundings (one reader, a
prompt owner, one command at a time). `X11Read`, `X11Own` and `X11Serve` choose an
environment from the constant `Environments` initially; `VaultStore` chooses a
`mode`: `alone` from the first run on, `shared` by overlapping commands on an
existing vault, overlapping `firstRuns`, or a `stranger`'s file at the vault path.
The properties name what they need. `SingleInstance` has the constant `Overlap`.

## 3. Runs

| Run | Shows | Bounds | States |
|---|---|---|---|
| `scrubbing` | the session map: maps inverse and bounded (`MapsConsistent`), last owner wins (`LatestOwner`), replies restorable (`ReplyRestorable`), stable fakes (`StableFake`), lifetimes kept (`LifetimesKept`) | 3 values that share 3 fakes, capacity 2, ttl 1, time 3 | 137 338 |
| | the engine: no value passes through (`NoLeak`), silence only for shared fakes and full sessions (`NeverSilent`), restore touches fakes only and finds those that stand alone (`RestoresFakesOnly`), session pairs come back (`SessionRoundTrip`) | texts of up to 6 bytes without and 4 with a session, some with a two-byte character; 3 FF1 registrations of two lengths, 1 failing; 5 session values with shared, nested and missing fakes, capacity 2 | |
| | tokenizers and detection: idempotent scrub (`ScrubIdempotent`), exact recognition (`RestoresItsFakesOnly`), fitting fakes (`FakesFitValues`), complete scan (`NothingSlips`) | 2 registrations, 1 retired; 15 values, cards and PII, 2 prefixes, 2 tweaks, alphabet of 2, tail of 2, domain limit 8, integers up to 15, HKDF fills 2 bytes | |
| `vault_store` | the vault always opens (`VaultOpens`), acknowledged saves survive (`AckedIsDurable`), only overlapping saves lose entries (`OnlyStaleSavesLose`), exit codes are true but for a failing directory fsync (`ExitTruthful`) | 2 processes, 2 labels, 3 commands, 2 faults, 4 modes | 1 855 468 |
| `session_file` | printed fakes stay restorable (`DeliveredRestorable`), to the right value (`RestoresOriginal`), but for full sessions; the end is final (`EndIsFinal`); refused files are kept (`RefusedFileKept`) | 3 values, texts of up to 2, capacity 2, session lifetime 2, time 5, 2 faults, 1 command at a time | 963 895 |
| `single_instance` | implementation of `OneDaemon` (`RefinesOneDaemon`); server reachable (`ServerReachable`); never blocked by leftovers (`StartedServes`) | 3 daemons, 5 starts, 3 kills | 69 555 |
| `status` | `status` is truthful (`StatusTruthful`), other users get nothing (`PeersOnly`), calls end (`CallsEnd`), one daemon reachable (`OneReachable`) | 2 daemons of different versions, 2 starts, 1 status and 1 other client, backlog 0 (1 connection waits), 5 environments, 2 directories, 1 racing time-out | 157 667 |
| `clipboard` | late events are true (`EventsMatchHistory`), implementation of `Clipboard` (`RefinesClipboard`), where no handle is dropped while its callback is due | 2 threads, 2 subscriptions, 2 changes, 1 read | 62 718 |
| `x11_read` | own answer, no registration left (`ReadIsOwnAnswer`), no answer dropped (`AnswerNotDropped`), every read returns (`ReadReturns`) | up to 2 readers, 3 reads, texts of up to 3 pieces, cap 2 | 460 936 |
| `x11_own` | content while owner (`OwnerServes`), right tokens (`TokenOfThatWrite`), writes return unless a failed request left the time slot taken (`WriteReturns`), threads end (`EventThreadExits`) | up to 2 writers, 2 writes, 2 changes by others, 2 subscriptions; slow servers, drops and a broken connection, each in an environment | 390 625 |
| `x11_serve` | pastes deliver one whole text (`PastesOneText`), also at every step of a transfer (`TransferIntact`), pastes end (`PasteEnds`) | 2 requestors, 2 writes, 3 pastes, texts of up to 3 units, single-shot cap 1 | 268 248 |

Every state machine has a type invariant; it is the first conjunct of one safety
invariant of the run (`MapsConsistent`, `VaultOpens`, `RestoresOriginal`,
`ServerReachable`, `StatusTruthful`, `EventsMatchHistory`, `ReadIsOwnAnswer`,
`OwnerServes`, `PastesOneText`, `NeverSilent`).

The bounds are the smallest at which each hazard happens: capacity 2 with three
values makes eviction meet collision, and a scrub overflow its session; two faults
let a crash leave something for a second crash to meet; three commands let a third
meet what two overlapping ones left; three reads let the late answer of the first
reach the third; five starts and three kills let leftovers pile up; two versions of
the daemon let a status call begin with one and end with the other; a backlog of one
fills; a domain limit of 8 and a largest number of 15 put short, eligible and
overflowing values among strings of at most five letters, and an HKDF that fills two
bytes puts some of them beyond it; six bytes hold two overlapping values and their
neighbours. Runs without CHECK_DEADLOCK end when their
bounded supply of commands, starts, reads or writes is used up.

Three runs expect a violation, each of a sentence of the repository:

- `instance_race` (`AtMostOneServing`): a daemon shuts down while two others start.
  `Drop` unlocks, then removes `ctl.lock` by path: one newcomer locks the old inode, the
  other creates and locks a new file, and the second's stale-socket probe meets the
  first between bind and listen or after it lost its path ("two daemon-stubs against the
  same socket path cannot both run", `integration.rs:348-349`).
- `clipboard_drop` (`DropEndsCallbacks`): a thread has copied the subscribers and
  released the lock when a handle is dropped; the callback runs after the drop has
  returned ("MAY fire the callback once after Drop begins but before it completes",
  `lib.rs:94-96`). The X11 dispatcher does the same.
- `engine_round_trip` (`RoundTripExact`): a text that holds no fakes and only values FF1
  encrypts. Scrub's output has a character of several bytes; `restore` with an empty
  prefix tries a window at every byte, slices inside the character, and panics. Among
  characters of one byte the sentence fails too: windows are tried from the left,
  shorter first, and the search moves past a window whether it decrypts or not, so a
  longer fake behind a shorter window stays ("For every input shape, scrub then restore
  must produce a byte-identical copy of the original", `commands.rs:1432-1433`).

What the passing properties leave out, on purpose. Each of these holds of the code
as modelled and can be seen by widening the named property or the named constant:

- Two `scrub --session` on one file at once (two processes and `MaxRunning = 2`):
  each loads, adds its pairs and replaces the file; the first one's pairs are gone
  although its output was printed without a notice ("the value IS restorable through
  the session file", `commands.rs:278-279`). `DeliveredRestorable` is for one
  command at a time.
- One scrub of more distinct values than the session holds, or of values that share a
  fake: all pairs have one age, so one that was just printed goes, and no notice says so
  ("the fake IS restorable in-process through `session`", `engine.rs:268-269`;
  `commands.rs:278-279` says it of the session file). `NeverSilent` excepts exactly these
  two cases; `DeliveredRestorable` and `RestoresOriginal` say that only a full session loses pairs.
- `ExitTruthful` leaves out a failing directory fsync. It comes after the rename, so
  `AtParentFsync` is reported with the new vault in place, while `vault/mod.rs:158-159`
  says of every `AtomicWrite` error "The original vault file (if any) is untouched".
- `FakesFitValues` is for values HKDF can fill. A longer one that is not for FF1 makes
  its fake panic (`mac.rs:152-154`) instead of being redacted ("fails CLOSED on every
  branch where it cannot produce a valid fake", `engine.rs:172-174`); `DeriveBody` has
  the panic, and the run meets it.
- `NothingSlips` is for registrations without an empty value. One can be registered
  (`secret_input.rs:135-139`) and then matches everywhere, with no bytes ("should not
  occur for current matchers", `detection/mod.rs:33`).
- A read that times out during an INCR transfer of a slow owner: the rest of that
  transfer is taken for the next read, which returns a text without its beginning
  ("never truncation", `pending.rs:33-34`). `ReadIsOwnAnswer` is for prompt owners.
- The orphan scan in `Vault::open` also removes the tmp file of a save that is
  running; the saving command then fails with `AtRename`. The vault stays whole.
- Overlapping first runs store two keys, and a vault sealed with the first is lost;
  `keychain/mod.rs:139-144` accepts this. `VaultOpens` says nothing else does it.
- `restore --session` unlinks the session before it writes its output.
- A daemon killed between making its directory and setting the mode leaves a
  directory every later start refuses. `StartedServes` is for private directories.
- `status` needs a vault path although it opens no vault: `run` resolves it first.
- `AnswerNotDropped` is for one reader. With two, the reader that returns removes
  the registration of the other, whose answer is dropped; it times out.
- `TokenOfThatWrite` is for one writing thread and a server that answers in time.
  With two threads, the event of the first write can carry the token of the second.
  With one, the late answer to a rendezvous that timed out is taken for that of the
  next write, which may then store its content before the event of the write before
  it arrives; looking for the inductive invariant brought this to light.
- `DeliveredRestorable` and `RestoresOriginal` are for values with different fakes.
  The generators can give two values one fake; the session then keeps the last
  value only.
- `EventThreadExits` needs an event to arrive: on a quiet server the thread stays
  in `wait_for_event` after the drop, since NoOperation makes no event.
- `PasteEnds` excludes clears, and `PastesOneText` and `TransferIntact` clears together
  with give-ups: a clear between the two times the INCR handler reads `owned` announces a transfer
  that does not exist, or resumes one the requestor gave up at its old offset.
- `NoLeak` does not promise that a fake and the text around it never form a registered
  value by chance; nothing in the code looks for that.
- `NeverSilent` says nothing of a value that FF1 encrypted: nothing announces it, and
  `engine_round_trip` shows when restoring it fails.
- `WriteReturns` excepts a writer that waits for a server-time slot nobody will free: if
  a request fails between taking the slot and waiting for the answer
  (`x11/mod.rs:250-265`), the call returns an error with the slot taken, and the next
  writer waits for nobody, without a bound ("If another writer is mid-fetch, wait our
  turn", `x11/mod.rs:238`).
- `EventsMatchHistory` is checked where no handle is dropped while its callback is due,
  and proved without that restriction.
- `RestoresFakesOnly` promises to find only fakes at the start of a run of alphabet
  bytes than which no registered value is shorter. A string that is another's fake by
  chance is restored too: trial decryption cannot tell.
- `SessionRoundTrip` is for fakes that stand in the scrubbed text only where scrub put
  them and share no byte with the values: the replacement goes by substring, so
  `192.0.2.1` is also replaced inside `192.0.2.17`, and a value may bring the bytes of
  the next fake.
- `NothingSlips`: an occurrence whose exact match a longer pattern match displaced may
  be reached by the pattern match only in part. The engine uses the exact matcher alone.

## 4. Refinement, liveness and fairness

`SingleInstance` implements `OneDaemon` (`RefinesOneDaemon`): the path's target is
the daemon whose listening socket has the inode at the path, and the phase is read
off the program counter. So what `ControlChannel` checks on top of `OneDaemon`, and
what is proved of it, holds of the daemons system call by system call, as long as no
start overlaps a shutdown (`instance_race` shows why). `InMemoryClipboard` implements
`Clipboard` (`RefinesClipboard`): the notifications owed are what the threads that
have released the lock still have to call. Under the contract a drop ends the callbacks
that are due; the backend does not see to that, so the refinement is stated without
`LateDrops`, and `clipboard_drop` shows the rest. Both refinements are also proved (5).

`StartedServes`, `CallsEnd`, `ReadReturns`, `WriteReturns`, `EventThreadExits` and
`PasteEnds` are checked under weak fairness of the steps of the
program's own threads: the operating system schedules them, their waits have
time-outs (`wait_timeout` in `read_text` and `fetch_server_time`, the socket
time-outs of `dial_once` and `accept`), the accept loop polls every 20 ms, the
watchdog wakes up every 100 ms, and no handler blocks. Nothing is assumed of another
client, with one exception: `PasteEnds` is about requestors that read what they are
told is there. In `ControlChannel` a client that stops in the middle of a frame never
goes on. `connect` has no time-out, so `CallsEnd` rests on the accept loop running.
The wait of a second writer for the server-time slot has no time-out either;
`WriteReturns` shows that the first one always frees it while the connection stands,
and when a request fails in between it may not (3).

## 5. Proofs

Every theorem has the form `Spec => []P` or `Spec => [][A]_vars`, some under a
hypothesis on the constants (`ASSUME H PROVE Spec => ...`), and holds for all sets of
processes, threads, values, labels and texts, and for all bounds. The assumptions are
the named ASSUMEs of the modules (types of the constants, bounds are naturals, names
that stand for "none" are not among the things they stand apart from), which TLC
evaluates in the run of the module; no axioms. Every hypothesis is true of the
constants of the run that checks the property. Inductive invariants were invariants of
a TLC run on the constants of the cfg before they were proved. Step lemmas have one case
per action.

What a recursive function computes is proved without the library's induction rules,
which cannot be used here: `LeastNumber` (every non-empty set of naturals has a least
element, from the well-foundedness of `<`) takes their place, on the set of the places
at which the claim fails.

### `EngineProofs`

The session map first:

- `SessionMapConsistent` (`MapsConsistent`): types, the two maps mutually inverse, the
  bound on their size, and imports that never overwrite. It combines
  `SessionMapTypeOK`, `SessionMapInverse` and `SessionMapCapacity`;
- `SessionMapLatestOwner` (`LatestOwner`), `SessionMapReplyRestorable`
  (`ReplyRestorable`);
- the action properties `SessionMapStableFake` (`StableFake`) and
  `SessionMapLifetimesKept` (`LifetimesKept`).

`IndInv` is types, `MapsInverse`, `LatestOwner` and `ImportFresh`: the pairs an import
has yet to store are new to the map and distinct. Without the last one `MapsInverse`
is not inductive, because `import` stores without the look-up `get_or_insert` does: a
pair whose value the map already knows would leave a second fake behind.

Then the engine, for texts and values of any length:

| Theorem | Property | Hypothesis |
|---|---|---|
| `EngineNeverSilent` | `NeverSilent` | none |
| `EngineNoLeak` | `NoLeak` | `NoFixpoint`: no value is its own fake |
| `EngineRestoresFakesOnly` | `RestoresFakesOnly` | none |

Fakes, ciphertexts, values and texts may share bytes, fakes may be shared and the
session may be too small. `NoFixpoint` is about the tokenizers: FF1 can map a value to
itself with the probability of a guess, and the code does not check for it.

`EngineInv` is types and a session map all of whose pairs are the generators' own.
`Accounted` carries `NeverSilent` through the scrub: the pairs of the map are of values
that were replaced (`FromHits`), so a map that must evict is one the text has filled
(`NoRoom`), and storing loses only the owner of the same fake or, in a full map, one
victim (`StoreLoses`). `ScrubGuarded` says of the output that every registered value in
it has a byte that a replacement made, and that the output ends with a replacement; a
value across a seam then has a byte of it, and one inside the text between two matches
would have been a match (`GuardedAppend`, `GapClean`). `RestoreInv` says that the output
is as long as the part of the input it was made from, differs from it only in fakes that
became their values (`FakesOnly`), and that the window of a fake that stands alone has
been restored or is still to be tried (`Restored`, `WindowOfFake`). `str::replace` is a
recursion that goes on behind what it has just emitted; `Walk` is that form, and
`WalkExists` shows that it has a value.

### `VaultProofs`

Of the vault: `VaultAlwaysOpens` (`VaultOpens`), `AckedSavesSurvive`
(`AckedIsDurable`), `SavesLoseOnlyStale` (`OnlyStaleSavesLose`), `ExitCodesTruthful`
(`ExitTruthful`), in all four modes. `VaultOpens` alone is not inductive: that a
rename puts a whole file at the path depends on what each process holds at each of
its steps. `IndInv` adds that a process past `fetch_or_create` has the key of the slot
unless another first run replaced it (`KeysHeld`), that a tmp file is whole and synced
before its rename and sealed with its process's key (`TmpReady`), that what is saved
is what the command makes of what it read (`Decided`), and that without overlap
nobody else has changed the vault in between (`Undisturbed`). `KeysCounted` counts the
commands that may still generate a key, so that the model's supply of keys does not
run out before its commands do.

Of recognition and detection, for every alphabet, permutation, hash and set of rules:

- `RestoresOnlyItsFakes` (`RestoresItsFakesOnly`): trial decryption accepts exactly the
  fakes of the registration;
- `ScrubsOnlyOnce` (`ScrubIdempotent`) and `FakesAlwaysFit` (`FakesFitValues`: FF1
  exactly for values of the alphabet with a domain of `MIN_DOMAIN` or more, and MAC fakes
  of the value's length as far as HKDF reaches), under `Powers`, the two equations that
  define `^`, which the provers do not know;
- `DetectionMissesNothing` (`NothingSlips`).

The invariant is `EntriesKept`: every entry has the kind its eligibility gives it, and
only FF1 entries are kept when they are forgotten; the work is in the lemmas about the
algorithms. FF1 is a permutation of the numerals of a length (`Permutes`, a named
assumption); Luhn digits, MAC tails and numerals are computed by recursive functions.
The two recursions of detection gather a set along a path on which a number gets
smaller (`Gathers`, `GatherExists`). `FoundFrom` says of a search from an offset that
every occurrence it could have found meets a match it did find; `Resolved` says of
overlap resolution that what it keeps does not overlap and that it drops a match only
for one that overlaps it and is no shorter.

### `SessionFileProofs`

For one command at a time (`MaxRunning = 1`):

- `RefusedFilesStay` (`RefusedFileKept`) and `SessionsEnd` (`EndIsFinal`), from
  `CommandInv`: what a command is about to replace or remove it has opened, the file's
  end is its creation plus the lifetime, and a session that is about to be created has
  its creator's pairs only;
- `DeliveredStaysRestorable` (`DeliveredRestorable`) and `RestoreIsExact`
  (`RestoresOriginal`), for values with different fakes (`FakesDistinct`), from
  `SessionInv`: what scrub is about to print is already in the file, and what it is
  about to save holds that along with all that was printed before, or is full.

Both hypotheses are needed: the list in 3 has what happens without them. What a scrub
saves is a recursive function over its text: `RunExists` and `ScrubRun` show that
the recursion has a value, and `RunInduction` carries a property from one stored value
to the next. With different fakes a map all of whose entries have one age is
determined by the set of its values (`MapOf`), which makes the effect of
`get_or_insert` an operation on sets (`MapInserts`, `RunStores`).

### `DaemonProofs`

*OneDaemon.* `OneDaemonReachable` (`OneReachable`). It is inductive as it stands,
because it says both directions: a daemon that is up or serving is what the path leads
to, and what the path leads to has a listener.

*SingleInstance*, when no start overlaps a shutdown (`~Overlap`):
`ServerStaysReachable` (`ServerReachable`), `OnlyOneServes` (`AtMostOneServing`) and
`ImplementsOneDaemon` (`RefinesOneDaemon`), step by step: each system call is a step
of `OneDaemon` or leaves its state alone. `IndInv` says that every open lock file is
the one at the path (`LocksKept`), that one process holds the lock and that one that
stops is the only one there is (`Alone`), and that the path names the holder's socket
from its bind to its unlink (`SocketsKept`). With overlap `LocksKept` is what fails
first, and `instance_race` shows where it leads.

*ControlChannel.* `OnlyPeersServed` (`PeersOnly`) and `StatusIsTruthful`
(`StatusTruthful`), on top of `OneDaemonReachable`. `ControlInv` relates where a client is
to what its connection can carry, and for a status call says which of the daemons that
have served since it began can be at the other end.

### The clipboards

`InMemoryClipboardProofs`: `EventsAlwaysMatchHistory` (`EventsMatchHistory`) and
`ImplementsClipboard` (`RefinesClipboard`, with `~LateDrops`). `IndInv` adds that the event a thread is
delivering is that of an entry of the history and that nobody it still has to call
has seen it.

`X11OwnProofs`: `OwnerAlwaysServes` (`OwnerServes`) and `TokensNeverMixed`
(`TokenOfThatWrite`), a breaking connection included. Nothing in the code compares the time of a SelectionClear with
that of a write; what makes it safe is the order of the event queue and the server's
refusal of old claims, and `LostFirst` says so: a SelectionClear that is still queued
is of a later time than every write that has its time. `OneWriter` says of a lone
writer that it gets its time only after its last change was handled.

`X11ReadProofs`: `ReadsOwnAnswer` (`ReadIsOwnAnswer`) and `AnswersNeverDropped`
(`AnswerNotDropped`). All reads share one property and one registration, and no event
says which piece it is about. `LoneReader` says, for one reader and a prompt owner,
where the single token of a read is: in the request, in the answer on its way, with the
event thread, or between the deletion of the property and its next value; and that
whatever an earlier read left behind is consumed before the next answer arrives.

`X11ServeProofs`: `PastesAreOneText` (`PastesOneText`) and `TransfersStayIntact`
(`TransferIntact`). A deletion does not say which
transfer it belongs to; what keeps pastes apart is that a requestor's deletions reach
the event thread before its next request. `IndInv` is types, the shape of the event
thread's state, that what a transfer holds was owned while it ran (`OwnedSeen`), and per
requestor the stage of its paste (apart, asked, told, receiving) with its one token:
what was received, with the chunk on its way, begins the text that is registered.

### Only model-checked

`StartedServes`, `CallsEnd`, `ReadReturns`, `WriteReturns`, `EventThreadExits` and
`PasteEnds`: liveness under fairness, and `ENABLED` behind it, are out of the prover's
reach. `SessionRoundTrip`: its premises are about one text and its scrub, and a proof
would have to follow them through replacements in any order. The properties of the runs
that expect a violation are refuted. Every other property of the runs is stated by a
theorem.

## 6. Plan

Done: the session map first, because engine and session file rest on it; the vault,
the session file, the daemon life cycle, the X11 backend in three parts, the engine;
then keychain errors and foreign files, the control channel on an abstract daemon,
the clipboard contract and its in-memory backend, tokenizers and detection; then the
proofs of their safety properties and of both refinements; then the runs that hold the
code against sentences of the repository.

Next, in this order:

1. A proof of `SessionRoundTrip`.
2. An atomic register that `VaultStore` implements when `alone`.
3. X11 as an implementation of `Clipboard` for one writer.

## 7. Not modelled

- FF1, HMAC, SHA-256, AEAD and key derivation: arithmetic out of TLC's reach; the
  modules use what they guarantee.
- Regular expressions: a rule is what it matches.
- Zeroizing of memory: not observable in a state machine of values.
- `watch`: it detects the display server and reports that it is not there yet.
- Secret input from the terminal, argument parsing, the wording of notices and of
  `list`, privacy hints, display-server detection, X11 atoms: constant tables, one
  call of a library each, or text.
- The control commands other than `status`: no daemon implements them; they are one
  answer, `not-implemented`. `CONCURRENT_CONN_CAP`: declared, used by no code.
- Paths on macOS and Windows, the macOS and Windows keychains, and
  `KeychainBackend::delete`, which no command calls.
- Other files of the user beside the vault: the orphan scan of a vault `X` goes by
  the prefix `X.tmp.`.
- Same-millisecond ties of X server timestamps, and the removal of directories under
  a running daemon.
