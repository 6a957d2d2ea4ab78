# Agenix in TLA+

Agenix (`cmd/agenix`, `internal/agenix`) runs *skills*: a manifest names inputs, a file and shell scope, and
verifiers; an adapter works through four checked tools; verifiers decide; a trace records everything; a
skill directory can be built into a capsule and published in a local registry.  This directory models the
parts of that code where a result depends on the order of steps, on failure, or on numbers at a limit, checks
them with TLC on small instances and proves the central invariants with TLAPS for every value of the constants.

Paths below are relative to `internal/agenix/`.  `PROJECT.json` maps every definition to its source lines.

## The system

| Component | State | Operations | What makes it hard | What makes it correct |
|---|---|---|---|---|
| Registry store (`registry.go`) | `index.json`, `artifacts/<skill>/<version>/<digest>.agenix` | publish, pull, resolve | no lock; load-modify-write of the whole index; `os.WriteFile` truncates first; inspect-then-copy | one digest per `skill@version`, published stays published, a pull hands out the bytes it names |
| Registry order (`registry.go`) | order of entries | sort at publish, list, show | semver with prereleases, `sort.Slice` unstable, integer parsing that saturates | semantic order, independent of history |
| Capsule (`artifact.go`) | skill directory, lock, capsule, workspace | build, inspect, materialize | every file is read three times while an author edits | an accepted capsule is one state of the directory; a run starts from exactly that |
| Run (`runtime.go`) | trace in memory, result | run | early returns, ignored write errors, adapters that do as they like | success only with complete evidence |
| Tools (`tools.go`), policy (`policy.go`) | repository files, trace events | fs.read, fs.list, fs.write, shell.exec | paths checked in one place and opened in another; failed writes | every call on record, effects in scope |
| Verifiers (`verifier.go`), process runner | verdicts | command, schema | commands that hang, contracts, exit codes, the repository changing in between | the verdict is about the repository as it is |
| Verify, check (`runtime.go`, `check.go`) | the trace read | verify, check | manifest and repository changed since the run, other working directory | never better than the run; same answer when nothing changed |
| Process runner (`process_runner.go`) | one child process, the guard directory | runCommand | deadline against exit against open pipes; cleanup on every path | the class reported is what happened; no network behind the guard |
| Trace (`trace.go`), redaction (`redaction.go`) | `trace.json` | write, read | truncate-then-write, process death, rewriting by Go type | half a trace never counts; no secret the skill names reaches the disk; what Verify relies on survives |
| Manifest parser (`manifest.go`, `schema.go`) | section, sub-key, indentation | LoadManifest | a scanner that never looks back; substitution after validation | every scope and verifier is where the document puts it |
| Adapters (`adapter_builtin.go`, `adapter_catalog.go`) | none; metadata | preflight, compatibility report | defaults and spellings, two callers of the same checks | the report foretells the run; what runs suits the manifest |
| Schema checks (`jsonschema.go`) | none | validate | fields left out, nil slices, failed reports | the program's own documents validate |
| Provider client (`provider_openai.go`) | one HTTP request | Analyze | deadline in any phase, byte limit, 64-bit arithmetic | ends, uses what came in time, limit exact |
| Templates, acceptance script, platform support, command line | none that persists between calls | — | text | not modelled, see below |

The command line calls one operation per process.  Operations of different processes meet in files only: the
registry root (publish, pull, list, show), a capsule (build against run), a repository and its manifest (runs,
verifies, an editor), a trace (run, then verify).  Inside a process everything is sequential: `Run` calls the
adapter, the adapter calls `Tools`, `Tools` asks `Policy` and appends to the `Trace`, `Run` then calls
`RunVerifiers` and `WriteTrace`; `Verify` reads the trace, reloads the manifest and calls `RunVerifiers` again;
`CheckSkill` builds a capsule and composes `Run`, `Verify` and `Replay`.

## The modules

| Module | Is | Read with |
|---|---|---|
| `Registry` | publish and pull, one action per system call another process can observe | `registry.go` 78-250, 386-510 |
| `AtomicRegistry` | what the registry promises: a name is bound once, answers follow the binding | README "Registry", specs |
| `RegistryRefinement` | `Registry` seen as `AtomicRegistry`: the refinement mapping | |
| `RegistryOrder` | the comparison of versions, the sorts, list and show | `registry.go` 39-77, 252-446 |
| `Artifact` | build, inspection and materialization, one action per file read | `artifact.go` |
| `SkillRun` | run, verify and check of several processes in shared repositories | `runtime.go`, `tools.go`, `verifier.go`, `trace.go`, `policy.go`, `check.go` |
| `Provider` | one call of the provider client, its server and the clock | `provider_openai.go`, settings in `adapter_builtin.go` |
| `ProcessRunner` | one command: launch, guard, deadline, output, outcome | `process_runner.go` |
| `ManifestScan` | the scanner of LoadManifest, one action per kind of line; validation and substitution | `manifest.go`, `schema.go`, `redaction.go` 20-57 |
| `ManifestNesting` | the reference for that scanner: what a document says by the nesting of its lines, and which documents are `Regular` | the formats of `specs/skill-manifest.md` |
| `TraceDocument` | the values of a trace, redaction, JSON and schema validation, as operators | `trace.go`, `redaction.go`, `jsonschema.go`, `specs/*.schema.json` |
| `AdapterCatalog` | metadata of the built-in adapters, the two preflight checks, the compatibility report, as operators | `adapter_builtin.go`, `adapter_catalog.go`, `runtime.go` 146-228 |
| `Documents` | composes the four: a manifest is loaded, an adapter admitted or refused, a run recorded, its trace written, read back and reported | `runtime.go` 46-144, `check.go` |
| `MC*` | small instances for TLC | |
| `RegistryProofs`, `RegistryOrderProofs`, `ArtifactProofs`, `ProcessRunnerProofs`, `ProviderProofs`, `SkillRunProofs`, `DocumentsProofs` | theorems about the module so named, and their proofs | |
| `ManifestProofs` | lemmas on the scanner and the nesting, which `DocumentsProofs` uses | |

Definitions whose name has an underscore (`PublishFresh_IndexFirst`) are mutants: the action as a plausible bug
would have it.  They stand before the definition they replace, are used nowhere, and show that a property
notices the bug.

**Registry.**  A process is an invocation; `pc` is its next system call, `snap` the index it decoded, `dig` the
digest `InspectArtifact` or the lookup gave it.  An artifact's bytes are its digest; `Empty` is a truncated file
and `Garbled` one with pieces of two writes.  `index.entries` counts the entries per digest, since order is
`RegistryOrder`'s subject.  `Abort` is a kill or a failed system call at any step, `Remove` a file deleted by
hand, `RebuildTruncate`/`RebuildWrite` a build over a source file.

**RegistryOrder.**  A string is its rank among strings; a version is what the parser sees in it, with numbers
as written, so that `Saturated` can model `strconv.ParseUint` at its limit.  `Sortings` is every result
`sort.Slice` may give.

**Artifact.**  The bytes of a file are their own digest.  Build walks the directory (`BuildStat`, `BuildHash` per
file), hashes and sizes the manifest, and reads everything again for each of the two renderings; `Edit` may come
between any two reads.  `hashed` is a history variable: the directory at the instant the manifest was hashed.
An edit never gives a file contents it had before (`past`): the digests could not tell.

**SkillRun.**  Runs, checks (`Gates`, runs that go on to verify themselves) and verifies (`Audits`) share files.  A
path is a place and a name, or relative (`Here`): `PolicyPlace` is where the policy resolves it, `ActualPlace`
where `os` opens it.  The adapter is the environment: any sequence of tool calls, before or after a
denied one, and any answer; its `changed_files` are strings, or a list with something else in it (`list`), at
which `outputStrings` panics.  `child` is the command a process waits for, of `shell.exec` or of a verifier: while it
runs it may change any file anywhere (`CommandWrites`), and leave a process behind that holds its output
(`CommandForks`, `CommandLetsGo`); `cmd.Run` returns only when nobody does.  A verifier works in `Workdir`, its `cwd`
or, if that is empty or relative, the directory of the process, which differs between a run and a verify called from
elsewhere; if that directory changed under it, its exit code may be that of any repository (`Codes`).  A verifier may
also fail to start (`CommandFails`) or run out of time, which says nothing of the repository (`Inconclusive`).
What redaction does to the facts `Verify` relies on is part of the manifest: `masks` is what it makes of a path,
`hides` the error classes it rewrites.  The workspace a check materializes is its `Home`.  `calls` and `stable` are
history variables: the tool calls as they happened, and that nothing, the verifiers included, touched the directories
in which the verifiers work nor the manifest since the adapter answered.

**Provider.**  `remaining` is `LimitedReader.N` in integers of width `MaxInt`; bodies are read byte by byte; the
server responds, sends, finishes, breaks off or stalls at its own pace, and the transport may give up dialing by
a timer of its own.

**ProcessRunner.**  `child` is the command, `pipes` who still holds its output open, itself or a process it left
behind; `cmd.Run` returns when the one has ended and the other is empty.  `said` is the marker in the output;
`reached` is a history variable: a guarded command got to the network.

**ManifestScan, ManifestNesting, TraceDocument, AdapterCatalog, Documents.**  A line is what the scanner tells of it:
indentation, dash, key, words; a scalar is at most one word, none if it is empty.  `Nested` reads the same document by
the nesting of its lines: `Place` is the path of keys a line stands under, an item belongs to the list at its place, in
the order of the lines; a scalar given twice counts as it is given last, the items of a list given twice add up.  `Regular` says which documents the parser is
made for.  A value of a trace is a function from paths to what stands there: a leaf, or the Go type of what holds the
longer paths, because `redactValue` follows maps and lists and leaves structs and typed slices alone; `Sensitive` looks
at the last key of a path.  So redaction is one definition without recursion, and can be proved about.  Of a text the
model keeps its word, and the secrets it shows, each named by the pattern that finds it; `Finds` says in which fixed words
(an error's class for one) a pattern finds a secret.  Patterns run one after the other, the built-in ones first, each on
what those before it left; `Spoils` says after which replacements one no longer finds its own.  Texts are as recorded,
that is after truncation.  A JSON document to validate is nested.  `++` puts two records together, the
left one first.  `SkillRun` has the control
of a run in full; `Documents` has the order of its events only, with the preflight in detail: `adapter` is the
normalized metadata, `Unsupported` and `Forbidden` the checks that both `Run` and the report make.

## The runs

Passing runs, each exhaustive within its bounds:

| Run | Shows |
|---|---|
| `RegistryRace` | two publishers of rival digests, a reader, a crash, a removal, a rebuild: an index that decodes binds a name once (`IndexDeterministic`); no entry precedes its file (`ListedWasStored`) |
| `RegistryOneWriter` | one publisher at a time, two readers, crash included, four operations: published stays listed, names are bound once, stored bytes are whole, pulls deliver, and the whole implements `AtomicRegistry` |
| `RegistryOrderChain` | any four of eleven artifacts (SemVer's own example chain, build metadata, non-versions, a second skill) in any order of publication: `SemverOrder`, `DiscoveryIsCanonical` |
| `ArtifactEdited` | two builds and a run under two edits at any point: `AcceptedIsSnapshot`, `QuietBuildIsFaithful`, `WorkspaceIsSnapshot` |
| `SkillRunShared` | a run and a check of one repository, any adapter, commands that change a file, one fault: `PassedIsOnRecord`, `ToolCallsOnRecord`, `PassedStillHolds`, `EffectsInScope` |
| `SkillRunVerified` | a run and a verify of its trace from another directory, at any moment, crash, fault, an edit of repository or manifest, commands that change a file or leave a process behind with their output, eight manifests (verifiers with and without a directory of their own, a nonzero `exit_code`, a redaction that rewrites paths and hides denials ...), well and badly typed answers: `VerifyNeverUpgrades`, `NamedTraceExists`, `ReverifyAgrees`; with fairness, `WaitsForAdapterOrOutput` |
| `ProviderAnalyze` | bodies of 0 to 4 bytes against limits 1 to 3, deadlines 3 to 6: `LimitIsExact`, `InTimeIsUsed`, `TimeoutIsNotEarly`, `AnalyzeEnds` |
| `ProcessRunnerDeadline` | every kind of command, network allowed and denied, timeouts -1 to 3, a command that exits, forks, prints, connects or hangs at any time: `OutcomeIsTrue`, `NothingIsMissed`, `GuardCoversCommand`; with fairness, `OnlyOutputDelays` |
| `Documents` | a full manifest, reordered, and with any one line dropped, shifted, swapped or one of eight lines put in; and with other names, needs and network settings; then any of eight adapters, tool call, answer and failure: `ReadsLikeYaml`, `CwdsStillAgree`, `PreflightIsForetold`, `TraceIsMasked`, `ViolationSurvives`, `OwnDocumentsValidate` |

Runs that TLC must find violated, each a statement of the documentation the code does not keep:

| Run | The code | The statement |
|---|---|---|
| `RegistryRivals` | two publishes that both load before either writes both succeed with different digests for one name, and one entry is lost | `README.md` 233-235, "remains deterministic" |
| `SkillRunRelative` | a relative path is checked against the manifest's directory and written in the working directory | `docs/decisions/0012-path-scope-hardening.md` 40-41 |
| `ProviderLateBody` | a deadline that passes while the body is read is a `DriverError` | `specs/tool-contract.md` 110-111 |

Other behaviours met while modelling, contained in the models but not kept as runs of their own:

- A publish that dies between truncation and write leaves an `index.json` that does not decode; from then on
  every operation fails (`PublishTruncateIndex`, then `Abort`).
- Publishing a listed digest whose file was removed appends a second entry (`PublishFresh`).
- A source rebuilt between inspection and copy is stored under the old digest; a stored file rewritten between
  inspection and copy reaches a pull's output.  With one publisher and no rebuild neither happens
  (`CommittedIsComplete`, `PullDelivers`).
- Prerelease numbers beyond 64 bits saturate and compare equal; `SemverOrder` then fails.  `NumbersFit` in
  `DiscoveryFollowsSemver` is exactly the condition.
- A manifest saved with a new version during a build gives an accepted capsule whose lock has the old name:
  name and contents come from different readings.
- An adapter that goes on after a denied call gets a passed run; `Verify` refuses the same trace.
- A run that fails before it loads a manifest, or while it writes its trace, names a trace that was never
  written (`RunResolveFails`, `PersistFails`); `NamedTraceExists` excepts just these.
- A directory with a symbolic link to a file builds, and the capsule's own check rejects it: the lock holds the
  size of the link, digest and payload go through it (`StatSize`, `Links`).
- An adapter whose `changed_files` hold something else than strings ends the process after its trace was written,
  and every verify of that trace (`PersistPanics`, `AuditPanics`).
- A claim that redaction rewrites is judged as rewritten: verify may refuse a run whose claims were in scope, or
  the reverse (`Sanitized`; `VerifyNeverUpgrades` and `CleanRun` speak of claims left readable).
- The scanner drops a list written on one line, as the example of `specs/skill-manifest.md` has it for
  `outputs.required`, and refuses that manifest; a verifier item that begins with another key than `type` is
  merged into the verifier before it; an unknown block inside a verifier after its policy can still set the
  policy's fields; a mis-indented `read:` or `write:` leaves its items to the other list.  `Regular` excludes
  these documents, the scanner of the model reads them the same way.
- Without `repo_path`, `${repo_path}` becomes the empty string; in `shell.allow` it is not replaced at all.
- Redaction does not enter structs and typed slices: the result of a shell command and a listing of `fs.list` are
  written as they are (`Struct`, `Slice`).  A list under a sensitive key is not replaced, only searched.  Both lie
  outside `TraceIsMasked`, and so does a secret that an own pattern of the skill no longer finds because an earlier
  pattern rewrote part of it (`Spoils`).
- Redaction rewrites the class of an error like any other text: a skill that lists `class` as a sensitive key, or has
  a pattern that matches `PolicyViolation` (`([A-Za-z]{12,})` does), hides its own denied calls from `Verify`, which
  then passes the trace.  `HidesDenials` is the exact condition; `ViolationSurvives` says that there is no other way.
- A verifier is any command, run without regard to the write scope: `pytest` leaves caches in a repository whose
  skill may write one source file, as in `examples/repo.apply_small_refactor`.  `EffectsInScope` says what is left:
  such a change happens only while a process waits for a command that its manifest lists.
- A verifier without a `cwd` judges the directory of the process: a verify called from another directory may judge
  another repository than the run did.  `ReverifyAgrees` excepts just these verifiers.
- A verifier whose `success.exit_code` is not 0 never passes: `cmd.Run` makes every other exit code an error
  (`CommandExits`).
- A `reasoning_level` that `reasoningRank` does not know, a number that `Atoi` cannot read and a flag other than
  `true` ask for nothing, so every adapter meets them.  `Suits` takes them as the parser does.  A custom adapter
  without a name is recorded under `fake-scripted`, the name of a built-in one.
- `validateSchemaValue` lets a null pass in a property of any type, and knows no `minimum`.
- A limit setting of the largest integer makes every body empty; a timeout setting whose product with a
  millisecond overflows makes the timeout early.  `ProviderAnalyze` stays below both.

### Bounds, and why they are enough

Two publishers suffice for a lost update, and the third operation of `RegistryRace` can start from what it
left; four operations in `RegistryOneWriter` give a first publish, its repetition or rival, and pulls that
overlap both.  In `RegistryOrderChain` every pair and every triple of the chain meets within four entries.  In
`ArtifactEdited` the hard case needs one edit on either side of the reading of the manifest, hence two; the
second build overwrites what a run is reading.  `SkillRun` allows one tool call per run, of any kind and outcome, and one fault, edit,
crash and change by a command each, since every claim is about the first
thing that goes wrong; a file is missing, empty or fixed, so one change can repair a repository or break it; one
process left behind suffices to hold an output; verifier lists have two entries so that one can pass before another
fails, or change what another has judged.  In `ProcessRunner` time runs to the deadline and no
further, with timeouts below, at and above zero and on both sides of the default.  In `Documents` every line
of the full manifest is disturbed once: a scanner without look-back shows a wrong transition at the first line
after it; one tool call suffices, since redaction treats each event alone.  Besides the five built-in adapters
there is one without name, profile and transport, one whose transport is spelled ` Remote `, and one with an
unknown transport.  In
`Provider` bodies reach one byte beyond the largest limit and time runs to the deadline, after which it makes
no difference.  `MaxOps`, `MaxAborts`, `MaxRemovals`, `MaxRebuilds`, `MaxEdits`, `MaxWrites`, `MaxBuilds`, `MaxCalls`, `MayFork`,
`MaxFaults`, `MaxCrashes`, `MaxEvents` and `MaxEntries` are the bounds; the proofs hold for every value of those that
occur in a proved module.  No symmetry reduction is used.  `CHECK_DEADLOCK FALSE` stands in configurations
whose processes end; `RegistryOrderChain` never stops, and is checked for deadlock.

### Fairness

`SkillRun!FairSpec` assumes that each process goes on with its own code (`WF` of `Step`): it is a running
program.  Nothing is assumed of the adapter, of a verifier command that may never exit, or of crashes and
edits.  The deadline that `runCommand` gives a command is the runtime's own timer, hence part of `Step`; it kills the
command, but without a `WaitDelay` nothing makes a process left behind let go of the output, so `CommandTimesOut` and
`ShellTimesOut` wait for that, and no fairness is assumed of it.  `WaitsForAdapterOrOutput` excepts both: an adapter,
which has no deadline, and a held output.  `Provider!FairSpec` assumes the
client's own steps and that time passes, never the server; `ProcessRunner!FairSpec` the runner's own steps and that
time passes, never the command nor what it leaves behind.  All other properties are safety.

## What is proved

With TLAPS, for all values of the constants that satisfy the named assumptions of the modules:

| Theorem | Says | Argument |
|---|---|---|
| `RegistryProofs!TypeCorrect` | `TypeOK` | inductive |
| `DeterministicIndex` | `IndexDeterministic`, for any number of processes, crashes and removals | `DeterminismInv`: besides the index, every decoded snapshot is deterministic, and past the decision it has no rival of the digest in hand, which is all the write will add |
| `ListedFilesExist` | `ListedWasStored` | `StoredInv`: snapshots list stored files only, and the file of a publisher past the open exists; both needed because a publisher writes its snapshot back |
| `OneWriterKeepsPublished`, `OneWriterCommitsOnce` | with one publisher, `CommittedStaysListed` and `CommittedDeterministic` | `OneWriterInv`: its snapshot contains everything committed until it writes, and only it can have truncated the index |
| `OneWriterStoresAll`, `OneWriterDelivers` | with one publisher, no removal and no rebuild, `CommittedIsComplete` and `PullDelivers` | `DeliveryInv`: whatever an index or a snapshot lists was committed; the publisher opens only files that were not, and has filled one before it lists it |
| `OneWriterRefines` | under the same assumptions, `RefinesAtomicRegistry` | only the write of `index.json` binds, and by `DeliveryInv` to an unbound name; a return confirms, delivers or forgets; everything else stutters |
| `RegistryOrderProofs!TypeCorrect` | `TypeOK` of the order | inductive |
| `DiscoveryIsDeterministic` | `DiscoveryIsCanonical` | the comparison is antisymmetric and decides every pair (`LessIsTotal`), so an arranged sequence has one arrangement |
| `DiscoveryFollowsSemver` | `SemverOrder`, if `NumbersFit` | `Less` contains SemVer's precedence (`LessFollowsSemver`) |
| `ArtifactProofs!TypeCorrect` | `TypeOK` of the capsule | inductive |
| `AcceptedCapsuleIsSnapshot` | `AcceptedIsSnapshot` | `SnapshotInv`: a file read before the manifest's hash and again after it with the same digest cannot have differed in between, since no contents come back |
| `RunStartsFromSnapshot` | `WorkspaceIsSnapshot` | the run holds the bytes it verified; a later build cannot change them |
| `QuietBuildsAreFaithful` | `QuietBuildIsFaithful`, if no symbolic link is packed (`NoLinksPacked`) | `QuietInv`: the lock holds just the entries of the files walked so far, a rendering just the bytes read so far, all as the directory has them |
| `ProcessRunnerProofs!TypeCorrect` | `TypeOK` of the runner | part of `RunnerInv` |
| `ReportsTheTruth`, `OutputIsComplete`, `NetworkStaysDenied` | `OutcomeIsTrue`, `NothingIsMissed`, `GuardCoversCommand` | `RunnerInv`: where the call stands decides which of guard, child, pipes and outcome exist; after the wait none of them changes |
| `ProviderProofs!TypeCorrect` | `TypeOK` of the client | inductive |
| `LimitHolds` | `LimitIsExact`, for any width of the integers | `LimitInv`: what was read and what remains add up to the wrapped limit plus one |
| `GoodAnswersAreUsed` | `InTimeIsUsed`, if `NoLimitOverflows` | `UseInv`: in addition, how far an answer that came in time has been read |
| `TimeoutsAreNotEarly` | `TimeoutIsNotEarly`, if `NoTimeoutOverflows` | `EarlyInv`: the deadline in force is the one asked for |
| `SkillRunProofs!TypeCorrect` | `TypeOK` of the runs | `PlacedInv`: in addition, which locals each step may rely on |
| `CallsAreOnRecord`, `SuccessIsOnRecord`, `NamedTraceIsThere`, `VerifyOnlyConfirms` | `ToolCallsOnRecord`, `PassedIsOnRecord`, `NamedTraceExists`, `VerifyNeverUpgrades`, for any redaction: a denied call is missed only if the manifest hides its class | `RecordInv`: the trace in memory follows the calls, the file is what redaction leaves of it, the verdicts follow the verifiers of the manifest loaded, a complete trace is never touched again, and what a verify has read is still there |
| `SuccessStillHolds`, `VerifyAgreesAgain` | `PassedStillHolds`, `ReverifyAgrees` | `StableInv`: while nothing, the verifiers of any process included, touched the directories in which a run's verifiers work, every one that passed, in memory or in a trace, passes on its directory as it is, and the manifest on disk is the one loaded; a verify whose verifiers work in the same directories (`SameDirs`) then cannot fail but by running out of time or not starting, which ends the stability |
| `EffectsStayInScope` | `EffectsInScope`, if every run starts in the directory of its manifest: a file changes by an `fs.write` in scope or while a process waits for a command its manifest lists | the policy and the system then resolve a path alike, and a process that waits has loaded a manifest with the command (`PlacedInv`); `SkillRunRelative` shows that the assumption is needed |
| `ScannerFollowsNesting` | in any document the scanner is at one of its lines; in a regular one `Scanned` | `ScanInv` is inductive: `Scanned` says that the manifest is the nested reading of the lines above, and `Position` that section, sub-key, current verifier and current rule are what the labels of the next line say |
| `ScannerReadsLikeYaml` | `ReadsLikeYaml`, for any regular document | `ScanInv` at the last line, and what `ValidateManifest` asks for is decided by the nested reading |
| `CwdsAgreeExpanded` | `CwdsStillAgree`, for any `repo_path` | `ScanInv`; the substitution treats two equal words alike |
| `TraceMasked` | `TraceIsMasked`, for any rules, secrets, answers and number of events | `RunInv`: the manifest keeps its shape, each event of the trace is one that `Run` can make, and the file is `Sanitized(trace, Config_)`; then path by path: a leaf is reached through maps and lists or stands in a struct or slice |
| `ViolationKept` | `ViolationSurvives` | for any rules of a skill: `RunInv`; redaction rewrites the class of a denied call exactly if `HidesDenials`, makes no other class one, and makes and drops no event |
| `PreflightForetold` | `PreflightIsForetold`, for any manifest and adapter | `ForetoldInv`: until an adapter's first tool call, the trace refuses it for the class the report foretells (`ForetoldClass`), and how many events it has by then tells how far the preflight got |
| `OwnDocumentsValid` | `OwnDocumentsValidate` | `LoadInv`: the manifest has its type until it is refused or, complete, expanded; `DocumentInv`: from the first event on the trace is named, from the end on it has a status, and a report has the fields of its kind; then each schema, field by field |

Apart from `ScanInv` and the type invariants marked inductive, none of these is so by itself; each proof module states
the strengthening, that `Init` establishes it, that every action keeps it (one step per action), and the implication.  In `DocumentsProofs` the
steps rest on lemmas about the data: how the places of a document change with one more line, what an added item does
to an ordered list, what redaction does at a path, which keys a document has and what is in them.

### Assumptions

Beyond the types of the constants the proofs use:

- `OnePublisher`, a hypothesis of every theorem `OneWriter...`, and `Undisturbed` (`MaxRemovals` and `MaxRebuilds` are
  0) of `OneWriterStoresAll`, `OneWriterDelivers` and `OneWriterRefines`; crashes, readers and operations stay
  unbounded.  The code has no lock that would give the first: `RegistryRivals` shows that it is needed.
- `NumbersFit`, `NoLinksPacked`, `NoLimitOverflows`, `NoTimeoutOverflows`, and the working directory in
  `EffectsStayInScope`: each is the condition at which the code does otherwise, see above.
- `DocumentsAssumption`, with `LineType`: the value of a key of the head (`name`, `version` ...) is at most one word,
  and none if it is empty.  `LoadManifest` takes it from `cleanScalar`, a single string, and asks whether it is `""`.
- `NumeralsAssumption`: `strconv.Atoi` answers with an integer.
- `LowerAssumption`: `strings.ToLower` and `strings.TrimSpace` leave the words of `reasoningRank` and the two
  transports, which are in lower case and without blanks, as they are.
- `RedactionAssumption`: `class` is its own normal form under `normalizeRedactionKey` and is not one of
  `defaultRedactionKeys`; the `defaultRedactionPatterns`, which replace what follows a marker up to a blank, find
  nothing in `PolicyViolation` and are not spoiled by one another.
- `ExitKeysAssumption`: the key `exit_code` contains `exit_code`, which is what the scanner looks for.
- `CustomAssumption`: an adapter has the fields of its Go type.

### What is only model-checked

The liveness properties, `WaitsForAdapterOrOutput`, `AnalyzeEnds` and `OnlyOutputDelays`: the prover cannot reason about
fairness and `ENABLED`.  Every invariant of a passing run, and its two other properties, `EffectsInScope` and
`RefinesAtomicRegistry`, are theorems, some under the assumptions above.  The three statements that the code does not
keep are shown false by runs.

## Not modelled

- Tar and gzip framing, path normalization and symbolic links in policy checks, argument vectors per operating
  system (`platform.go`): arithmetic on strings, without state.
- Templates of `init`, the acceptance script (a fixed sequence of the operations above, run against the
  repository's own examples), the scripts of the built-in adapters' `Execute`, the command line's flags and output.
- The identity a check reports when the capsule is rebuilt between its inspection and its run, and a build whose
  output lies inside its own skill directory.
- The regular expressions of redaction: which text a pattern finds, and which replacement spoils which pattern, is an
  input of the model.  So is, in `SkillRun`, which paths and classes a manifest's redaction rewrites.
- What a process left behind by a command does once nobody waits for the command: to `SkillRun` it is somebody's edit.

## Order of work

The modules were written in the order Registry, RegistryOrder, Artifact, SkillRun, Provider, ProcessRunner,
ManifestScan and TraceDocument, Documents, AdapterCatalog; each with its runs and, where it has any, its theorems;
ManifestNesting was split off, and the values of a trace became functions of paths, for the proofs about Documents.  What
would come next: that `SkillRun` implements an abstract run and verify, as `Registry` does the atomic registry;
that the `masks` and `hides` of `SkillRun` are those that redaction in `Documents` gives a manifest; resolution of links in policy paths
against a reference definition; and the composition of a check's build, run and verify.
