------------------------------ MODULE SkillRun ------------------------------
(***************************************************************************)
(* Running a skill and verifying its trace (runtime.go, tools.go,          *)
(* verifier.go, trace.go, policy.go, check.go).                            *)
(*                                                                         *)
(* Each process is one CLI invocation: `run`, `verify`, or `check`, which  *)
(* runs a skill and then verifies the trace it wrote.  Processes meet in   *)
(* the file system only: runs of one manifest share its directory, a run   *)
(* of a capsule has a workspace of its own, and a trace is written by one  *)
(* run and read by any verify.  The adapter is the environment: it makes   *)
(* any tool calls, in any order, and answers what it likes.                *)
(*                                                                         *)
(* A trace keeps its tool calls and its verifier events in two sequences;  *)
(* the adapter events between them record only how far the run went.       *)
(***************************************************************************)
EXTENDS Naturals, Sequences

CONSTANTS Runs,         \* processes that run a skill
          Gates,        \* those of them that are `agenix check`
          Audits,       \* processes that are `agenix verify`
          Subject,      \* the run whose trace an audit verifies
          Places,       \* directories that hold a manifest and a repository
          Home,         \* Runs -> the directory of the manifest it runs
          Cwd,          \* Procs -> the working directory of the process
          Here,         \* marks a path relative to no named directory
          Names,        \* files of a repository
          Contents,     \* what a file may hold; Empty after a failed write
          Empty,
          Manifests,    \* what LoadManifest may return
          Commands,     \* argument vectors for shell.exec
          ExitCode,     \* verifier name -> repository -> exit code
          Outputs,      \* what an adapter may answer
          FilesInit, DeclaredInit,
          MaxCalls,     \* bound: tool calls of one run
          MaxEdits, MaxWrites, MaxFaults, MaxCrashes,  \* bounds
          MayFork,      \* bound: processes whose commands may leave others behind
          Absent, Truncated

Procs == Runs \union Audits
Paths == (Places \union {Here}) \X Names
Repositories == [Names -> Contents \union {Absent}]
Classes == {"none", "PolicyViolation", "InvalidInput", "DriverError", "Timeout"}
Verifiers == [name : DOMAIN ExitCode, kind : {"command", "schema", "other"},
              contract : BOOLEAN, cwd : Places \union {Here}, wants : Nat]
Preflights == {"fits", "unsupported", "forbidden", "badscope"}

\* What an adapter answers.  Its list of changed files is one of strings, a
\* []any with something else in it, or another Go type that JSON turns into such.
Answers == [changed : SUBSET Paths, complete : BOOLEAN, list : {"strings", "mixed", "opaque"}]

ASSUME SkillRunAssumption ==
    /\ Gates \subseteq Runs /\ Runs \intersect Audits = {}
    /\ Subject \in [Audits -> Runs]
    /\ Home \in [Runs -> Places] /\ Cwd \in [Procs -> Places] /\ Here \notin Places
    /\ Empty \in Contents /\ Absent \notin Contents
    /\ \A m \in Manifests :
          /\ m.preflight \in Preflights
          /\ m.reads \subseteq Names /\ m.writes \subseteq Names
          /\ m.shell \subseteq Commands
          /\ m.checks \in Seq(Verifiers) /\ m.checks # <<>>
          /\ m.masks \in [Paths -> Paths]   \* its redaction, as far as it changes a path
          /\ m.hides \subseteq Classes \ {"none"}   \* ... and an error's class
    /\ Absent \notin Manifests
    /\ Outputs \subseteq Answers
    /\ FilesInit \in [Places -> Repositories]
    /\ DeclaredInit \in [Places -> Manifests \union {Absent}]
    /\ MayFork \subseteq Procs
    /\ {MaxCalls, MaxEdits, MaxWrites, MaxFaults, MaxCrashes} \subseteq Nat

VARIABLES
    files,      \* Places -> repository contents
    declared,   \* Places -> manifest on disk, Absent when it does not load
    pc,         \* Procs -> where the process stands
    manifest,   \* Procs -> manifest it has loaded
    tools,      \* Runs -> tool_call events of the trace in memory
    verdicts,   \* Procs -> verifier events of the trace in memory
    output,     \* Procs -> what the adapter answered
    final,      \* Runs -> final status of the trace in memory
    child,      \* Procs -> the command the process waits for
    traceFile,  \* Runs -> trace.json: Absent, Truncated or a trace
    evidence,   \* Procs -> the trace a verify has read
    result,     \* Procs -> the RunResult returned
    calls,      \* history: Runs -> tool calls made, with what came of them
    stable,     \* history: Runs -> since its adapter answered nothing disturbed
                \* its verifiers, and the manifest is still the one it loaded
    left        \* the bounds that remain

memory == <<manifest, tools, verdicts, output, final, child>>
vars == <<files, declared, pc, memory, traceFile, evidence, result, calls, stable, left>>

-----------------------------------------------------------------------------
Events == [op : {"fs.read", "fs.write"}, on : Paths, class : Classes \union {"REDACTED"}]
          \union [op : {"shell.exec"}, on : Commands, class : Classes \union {"REDACTED"}]
Verdicts == [name : DOMAIN ExitCode, passed : BOOLEAN]
Traces == [tools : Seq(Events), verdicts : Seq(Verdicts), final : {"passed", "failed"},
           output : Answers \union {Absent}, by : Manifests]
Results == [status : {"", "passed", "failed"}, path : BOOLEAN, summary : Seq(Verdicts)]

\* A command: which one, for shell.exec; whether a process it has left behind
\* holds its output; whether the directory of a verifier was left alone since.
Children == [cmd : Commands \union {Absent}, held : BOOLEAN, quiet : BOOLEAN]
Command(cmd) == [cmd |-> cmd, held |-> FALSE, quiet |-> TRUE]

ASSUME AbsentAssumption ==
    Absent \notin Answers \union Commands /\ {Absent, Truncated} \intersect Traces = {}

Returned(p) == pc[p] = "done"

\* The run whose trace p verifies: a check verifies its own.
SubjectOf(p) == IF p \in Audits THEN Subject[p] ELSE p

\* The directory a verifier runs in: filepath.Abs of its cwd, and the working
\* directory of the process for an empty one.
Workdir(p, v) == IF v.cwd = Here THEN Cwd[p] ELSE v.cwd

\* runRoot and newRunID give every run a directory, hence a trace, of its own.
Init ==
    /\ files = FilesInit
    /\ declared = DeclaredInit
    /\ pc = [p \in Procs |-> "idle"]
    /\ manifest = [p \in Procs |-> Absent]
    /\ tools = [r \in Runs |-> <<>>]
    /\ verdicts = [p \in Procs |-> <<>>]
    /\ output = [p \in Procs |-> Absent]
    /\ final = [r \in Runs |-> ""]
    /\ child = [p \in Procs |-> Command(Absent)]
    /\ traceFile = [r \in Runs |-> Absent]
    /\ evidence = [p \in Procs |-> Absent]
    /\ result = [p \in Procs |-> [status |-> "", path |-> FALSE, summary |-> <<>>]]
    /\ calls = [r \in Runs |-> <<>>]
    /\ stable = [r \in Runs |-> FALSE]
    /\ left = [calls |-> [r \in Runs |-> MaxCalls], edits |-> MaxEdits, writes |-> MaxWrites,
               faults |-> MaxFaults, crashes |-> MaxCrashes]

EditSpent == left.edits > 0 /\ left' = [left EXCEPT !.edits = @ - 1]
FaultSpent == left.faults > 0 /\ left' = [left EXCEPT !.faults = @ - 1]
CrashSpent == left.crashes > 0 /\ left' = [left EXCEPT !.crashes = @ - 1]
WriteSpent == left.writes > 0 /\ left' = [left EXCEPT !.writes = @ - 1]

Return(p, status, path, summary) ==
    /\ result' = [result EXCEPT ![p] = [status |-> status, path |-> path, summary |-> summary]]
    /\ pc' = [pc EXCEPT ![p] = "done"]

Elements(s) == {s[i] : i \in DOMAIN s}

\* RunVerifiers takes one verifier after the other, each adding one event.
Pending(p) == Len(verdicts[p]) < Len(manifest[p].checks)
Verifier(p) == manifest[p].checks[Len(verdicts[p]) + 1]
Launching(p) == pc[p] \in {"command", "recommand"}
Running(p) == Launching(p) \/ pc[p] = "shell"

\* Whoever changes a file of a directory disturbs the verifiers that run there.
Put(place, name, c) ==
    /\ files' = [files EXCEPT ![place][name] = c]
    /\ stable' = [r \in Runs |-> stable[r] /\ \A v \in Elements(manifest[r].checks) :
                                                  Workdir(r, v) # place]
    /\ child' = [p \in Procs |-> [child[p] EXCEPT !.quiet =
                                     @ /\ ~(Launching(p) /\ Workdir(p, Verifier(p)) = place)]]

Quiet == UNCHANGED <<files, stable, child>>

-----------------------------------------------------------------------------
\* Run, up to the adapter.

\* ResolveRegistryReference or MaterializeArtifact fails: no trace is written,
\* yet the result names its path.
RunResolveFails(r) ==
    /\ pc[r] = "idle"
    /\ Return(r, "failed", TRUE, <<>>)
    /\ UNCHANGED <<files, declared, memory, traceFile, evidence, calls, stable, left>>

\* checkArtifactTarget: the target of a check is missing, does not inspect,
\* validate or load, or cannot be built.
CheckResolveFails(r) ==
    /\ r \in Gates
    /\ pc[r] = "idle"
    /\ Return(r, "failed", FALSE, <<>>)
    /\ UNCHANGED <<files, declared, memory, traceFile, evidence, calls, stable, left>>

\* LoadManifest fails.  CheckSkill turns the empty status into "failed".
RunLoadFails(r) ==
    /\ pc[r] = "idle"
    /\ declared[Home[r]] = Absent
    /\ Return(r, IF r \in Gates THEN "failed" ELSE "", FALSE, <<>>)
    /\ UNCHANGED <<files, declared, memory, traceFile, evidence, calls, stable, left>>

\* LoadManifest and NewTrace: from here on the manifest is the one in memory.
RunLoad(r) ==
    /\ pc[r] = "idle"
    /\ declared[Home[r]] # Absent
    /\ manifest' = [manifest EXCEPT ![r] = declared[Home[r]]]
    /\ pc' = [pc EXCEPT ![r] = "preflight"]
    /\ UNCHANGED <<files, declared, tools, verdicts, output, final, child, traceFile, evidence,
                   result, calls, stable, left>>

\* Mutant: a refusal returns its error before it writes the trace.
RunRefused_Unwritten(r) ==
    /\ pc[r] = "preflight"
    /\ manifest[r].preflight # "fits"
    /\ final' = [final EXCEPT ![r] = "failed"]
    /\ Return(r, "failed", TRUE, <<>>)
    /\ UNCHANGED <<files, declared, manifest, tools, verdicts, output, child, traceFile, evidence,
                   calls, stable, left>>

\* Mutant: a refusal forgets SetFinal.
RunRefused_NoFinal(r) ==
    /\ pc[r] = "preflight"
    /\ manifest[r].preflight # "fits"
    /\ pc' = [pc EXCEPT ![r] = "persist"]
    /\ UNCHANGED <<files, declared, memory, traceFile, evidence, result, calls, stable, left>>

\* validateAdapter, validateAdapterPolicy or NewPolicyWithBase refuses.
RunRefused(r) ==
    /\ pc[r] = "preflight"
    /\ manifest[r].preflight # "fits"
    /\ final' = [final EXCEPT ![r] = "failed"]
    /\ pc' = [pc EXCEPT ![r] = "persist"]
    /\ UNCHANGED <<files, declared, manifest, tools, verdicts, output, child, traceFile, evidence,
                   result, calls, stable, left>>

RunExecute(r) ==
    /\ pc[r] = "preflight"
    /\ manifest[r].preflight = "fits"
    /\ pc' = [pc EXCEPT ![r] = "execute"]
    /\ UNCHANGED <<files, declared, memory, traceFile, evidence, result, calls, stable, left>>

-----------------------------------------------------------------------------
\* The tools an adapter calls.

\* resolvePolicyPathWithBase takes a relative path from the manifest directory,
\* os.ReadFile and os.WriteFile from the working directory of the process.
PolicyPlace(r, path) == IF path[1] = Here THEN Home[r] ELSE path[1]
ActualPlace(r, path) == IF path[1] = Here THEN Cwd[r] ELSE path[1]

\* pathInScopes: the declared scopes lie in the manifest directory.
InScope(r, path, scope) == PolicyPlace(r, path) = Home[r] /\ path[2] \in scope
At(r, path) == files[ActualPlace(r, path)][path[2]]

\* AddToolEvent.  What happened is the class and, for a write, the effect.
Log(r, op, on, class) ==
    LET event == [op |-> op, on |-> on, class |-> class] IN
    /\ tools' = [tools EXCEPT ![r] = Append(@, event)]
    /\ calls' = [calls EXCEPT ![r] = Append(@, event)]

Calling(r) == pc[r] = "execute"
CallSpent(r) == left.calls[r] > 0 /\ left' = [left EXCEPT !.calls[r] = @ - 1]
Unchanged == UNCHANGED <<declared, pc, manifest, verdicts, output, final, traceFile, evidence, result>>

\* FSRead, and FSList, which differs only in what it reads.
FSRead(r, path) ==
    /\ Calling(r)
    /\ Log(r, "fs.read", path,
           IF ~InScope(r, path, manifest[r].reads) THEN "PolicyViolation"
           ELSE IF At(r, path) = Absent THEN "DriverError" ELSE "none")
    /\ CallSpent(r) /\ Quiet /\ Unchanged

FSWriteDenied(r, path) ==
    /\ Calling(r)
    /\ ~InScope(r, path, manifest[r].writes)
    /\ Log(r, "fs.write", path, "PolicyViolation")
    /\ CallSpent(r) /\ Quiet /\ Unchanged

\* overwrite=false and the target exists.
FSWriteExists(r, path) ==
    /\ Calling(r)
    /\ InScope(r, path, manifest[r].writes)
    /\ At(r, path) # Absent
    /\ Log(r, "fs.write", path, "InvalidInput")
    /\ CallSpent(r) /\ Quiet /\ Unchanged

\* MkdirAll fails, or os.WriteFile fails once it has truncated the file.
FSWriteFails(r, path) ==
    /\ Calling(r)
    /\ InScope(r, path, manifest[r].writes)
    /\ Log(r, "fs.write", path, "DriverError")
    /\ left.calls[r] > 0 /\ left.faults > 0
    /\ left' = [left EXCEPT !.calls[r] = @ - 1, !.faults = @ - 1]
    /\ \/ Quiet
       \/ Put(ActualPlace(r, path), path[2], Empty)
    /\ Unchanged

\* Mutant: the check of the write scope is dropped.
FSWrite_Unchecked(r, path, c) ==
    /\ Calling(r)
    /\ Log(r, "fs.write", path, "none")
    /\ Put(ActualPlace(r, path), path[2], c)
    /\ CallSpent(r) /\ Unchanged

\* Mutant: the event is only added when the write fails.
FSWrite_Unlogged(r, path, c) ==
    /\ Calling(r)
    /\ InScope(r, path, manifest[r].writes)
    /\ calls' = [calls EXCEPT ![r] = Append(@, [op |-> "fs.write", on |-> path, class |-> "none"])]
    /\ UNCHANGED tools
    /\ Put(ActualPlace(r, path), path[2], c)
    /\ CallSpent(r) /\ Unchanged

FSWrite(r, path, c) ==
    /\ Calling(r)
    /\ InScope(r, path, manifest[r].writes)
    /\ Log(r, "fs.write", path, "none")
    /\ Put(ActualPlace(r, path), path[2], c)
    /\ CallSpent(r) /\ Unchanged

\* CheckShell or prepareCommandLaunch refuses the command.
ShellDenied(r, cmd) ==
    /\ Calling(r)
    /\ cmd \notin manifest[r].shell
    /\ Log(r, "shell.exec", cmd, "PolicyViolation")
    /\ CallSpent(r) /\ Quiet /\ Unchanged

ShellLaunch(r, cmd) ==
    /\ Calling(r)
    /\ cmd \in manifest[r].shell
    /\ child' = [child EXCEPT ![r] = Command(cmd)]
    /\ pc' = [pc EXCEPT ![r] = "shell"]
    /\ CallSpent(r)
    /\ UNCHANGED <<files, declared, manifest, tools, verdicts, output, final, traceFile, evidence,
                   result, calls, stable>>

\* cmd.Run returns once nobody holds the output of the command any more.
ShellEnds(r, class) ==
    /\ pc[r] = "shell" /\ ~child[r].held
    /\ Log(r, "shell.exec", child[r].cmd, class)
    /\ child' = [child EXCEPT ![r] = Command(Absent)]
    /\ pc' = [pc EXCEPT ![r] = "execute"]
    /\ UNCHANGED <<files, declared, manifest, verdicts, output, final, traceFile, evidence, result,
                   stable, left>>

\* It exits, or could not be started; a network attempt that its output reports
\* is a PolicyViolation.
ShellReturns(r) == \E class \in {"none", "DriverError", "PolicyViolation"} : ShellEnds(r, class)
ShellTimesOut(r) == ShellEnds(r, "Timeout")

Tool(r) ==
    \/ \E path \in Paths :
          \/ FSRead(r, path)
          \/ FSWriteDenied(r, path) \/ FSWriteExists(r, path) \/ FSWriteFails(r, path)
          \/ \E c \in Contents \ {Empty} : FSWrite(r, path, c)
    \/ \E cmd \in Commands :
          \/ ShellDenied(r, cmd)
          \/ ShellLaunch(r, cmd)

ExecuteReturns(r, out) ==
    /\ Calling(r)
    /\ output' = [output EXCEPT ![r] = out]
    /\ pc' = [pc EXCEPT ![r] = "verify"]
    /\ stable' = [stable EXCEPT ![r] = declared[Home[r]] = manifest[r]]
    /\ UNCHANGED <<files, declared, manifest, tools, verdicts, final, child, traceFile, evidence,
                   result, calls, left>>

ExecuteFails(r) ==
    /\ Calling(r)
    /\ final' = [final EXCEPT ![r] = "failed"]
    /\ pc' = [pc EXCEPT ![r] = "persist"]
    /\ UNCHANGED <<files, declared, manifest, tools, verdicts, output, child, traceFile, evidence,
                   result, calls, stable, left>>

Adapter(r) == Tool(r) \/ ExecuteFails(r) \/ \E out \in Outputs : ExecuteReturns(r, out)

-----------------------------------------------------------------------------
\* RunVerifiers, called by Run and by Verify, goes on until a verifier fails.
\* The caller is told by where p stands.
Verifying(p) == pc[p] \in {"verify", "reverify"}
Launched(l) == IF l = "verify" THEN "command" ELSE "recommand"
Passed(l) == IF l \in {"verify", "command"} THEN "verify" ELSE "reverify"
Failed(l) == IF l \in {"verify", "command"} THEN "rejected" ELSE "refuted"

Verdict(p, ok) ==
    /\ verdicts' = [verdicts EXCEPT ![p] = Append(@, [name |-> Verifier(p).name, passed |-> ok])]
    /\ pc' = [pc EXCEPT ![p] = IF ok THEN Passed(@) ELSE Failed(@)]
    /\ child' = [child EXCEPT ![p] = Command(Absent)]
    /\ UNCHANGED <<files, declared, manifest, tools, output, final, traceFile, evidence, result, calls>>

\* runSchemaVerifier: every required field is in the output.
SchemaVerifier(p) ==
    /\ Verifying(p) /\ Pending(p)
    /\ Verifier(p).kind = "schema"
    /\ Verdict(p, output[p].complete)
    /\ UNCHANGED <<stable, left>>

\* checkVerifierPolicy or prepareCommandLaunch refuses.
CommandRefused(p) ==
    /\ Verifying(p) /\ Pending(p)
    /\ Verifier(p).kind = "command" /\ ~Verifier(p).contract
    /\ Verdict(p, FALSE)
    /\ UNCHANGED <<stable, left>>

\* Neither a command that could not be run as asked nor one that took too long
\* says anything of the repository.
Inconclusive(p) ==
    /\ Verdict(p, FALSE)
    /\ stable' = [stable EXCEPT ![SubjectOf(p)] = FALSE]

\* The network guard cannot be written or the command cannot be started.
CommandFails(p) ==
    /\ Verifying(p) /\ Pending(p)
    /\ Verifier(p).kind = "command" /\ Verifier(p).contract
    /\ Inconclusive(p)
    /\ FaultSpent

CommandLaunch(p) ==
    /\ Verifying(p) /\ Pending(p)
    /\ Verifier(p).kind = "command" /\ Verifier(p).contract
    /\ pc' = [pc EXCEPT ![p] = Launched(@)]
    /\ child' = [child EXCEPT ![p] = Command(Absent)]
    /\ UNCHANGED <<files, declared, manifest, tools, verdicts, output, final, traceFile, evidence,
                   result, calls, stable, left>>

\* The exit codes the command may have come to: it read a directory that may
\* have changed under it, by its own doing too.
Codes(p) ==
    LET v == Verifier(p)
        seen == IF child[p].quiet THEN {files[Workdir(p, v)]} ELSE Repositories
    IN {ExitCode[v.name][repository] : repository \in seen}

\* Mutant: an exit code is compared only with one the manifest declares.
CommandExits_AnyCode(p) ==
    /\ Launching(p) /\ ~child[p].held
    /\ \E code \in Codes(p) : Verdict(p, Verifier(p).wants \in {0, code})
    /\ UNCHANGED <<stable, left>>

\* cmd.Run returns an error for every exit code but 0, and an error fails the
\* verifier whatever success.exit_code says.
CommandExits(p) ==
    /\ Launching(p) /\ ~child[p].held
    /\ \E code \in Codes(p) : Verdict(p, code = 0 /\ code = Verifier(p).wants)
    /\ UNCHANGED <<stable, left>>

\* Mutant: only the verifiers of a run have a deadline.
CommandTimesOut_InRun(p) ==
    /\ pc[p] = "command" /\ ~child[p].held
    /\ Inconclusive(p)
    /\ UNCHANGED left

\* The deadline of verifierTimeout passes first and kills the command; but
\* cmd.Run, without a WaitDelay, waits on while its output is held.
CommandTimesOut(p) ==
    /\ Launching(p) /\ ~child[p].held
    /\ Inconclusive(p)
    /\ UNCHANGED left

\* An unknown verifier type is an error without an event.
VerifierUnknown(p) ==
    /\ Verifying(p) /\ Pending(p)
    /\ Verifier(p).kind = "other"
    /\ pc' = [pc EXCEPT ![p] = Failed(@)]
    /\ UNCHANGED <<files, declared, memory, traceFile, evidence, result, calls, stable, left>>

RunVerifiers(p) ==
    \/ SchemaVerifier(p) \/ CommandRefused(p) \/ CommandFails(p) \/ CommandLaunch(p)
    \/ CommandTimesOut(p) \/ VerifierUnknown(p)

-----------------------------------------------------------------------------
\* What a command does while a process waits for it: neither shell.exec nor a
\* verifier confines it to a directory or to the write scope.
CommandWrites(p, place, name, c) ==
    /\ Running(p)
    /\ Put(place, name, c)
    /\ WriteSpent
    /\ UNCHANGED <<declared, pc, manifest, tools, verdicts, output, final, traceFile, evidence,
                   result, calls>>

\* It leaves a process behind that inherits its output...
CommandForks(p) ==
    /\ Running(p) /\ p \in MayFork
    /\ child' = [child EXCEPT ![p].held = TRUE]
    /\ UNCHANGED <<files, declared, pc, manifest, tools, verdicts, output, final, traceFile,
                   evidence, result, calls, stable, left>>

\* ... and that ends, or closes it.
CommandLetsGo(p) ==
    /\ Running(p)
    /\ child' = [child EXCEPT ![p].held = FALSE]
    /\ UNCHANGED <<files, declared, pc, manifest, tools, verdicts, output, final, traceFile,
                   evidence, result, calls, stable, left>>

Child(p) ==
    \/ CommandExits(p) \/ CommandForks(p) \/ CommandLetsGo(p)
    \/ p \in Runs /\ ShellReturns(p)
    \/ \E place \in Places, n \in Names, c \in Contents \union {Absent} :
          CommandWrites(p, place, n, c)

-----------------------------------------------------------------------------
\* The end of Run.

RunRejected(r) ==
    /\ pc[r] = "rejected"
    /\ final' = [final EXCEPT ![r] = "failed"]
    /\ pc' = [pc EXCEPT ![r] = "persist"]
    /\ UNCHANGED <<files, declared, manifest, tools, verdicts, output, child, traceFile, evidence,
                   result, calls, stable, left>>

RunAccepted(r) ==
    /\ pc[r] = "verify" /\ ~Pending(r)
    /\ final' = [final EXCEPT ![r] = "passed"]
    /\ pc' = [pc EXCEPT ![r] = "persist"]
    /\ UNCHANGED <<files, declared, manifest, tools, verdicts, output, child, traceFile, evidence,
                   result, calls, stable, left>>

\* WriteTrace: sanitizeTrace, ensureParent, then os.WriteFile truncates...
PersistOpen(r) ==
    /\ pc[r] = "persist"
    /\ traceFile' = [traceFile EXCEPT ![r] = Truncated]
    /\ pc' = [pc EXCEPT ![r] = "writing"]
    /\ UNCHANGED <<files, declared, memory, evidence, result, calls, stable, left>>

\* NewPolicyWithBase is the one refusal that leaves the status empty.
FailedStatus(r) ==
    IF manifest[r].preflight = "badscope" /\ r \notin Gates THEN "" ELSE "failed"

\* sanitizeTrace rewrites the output, the claimed paths included, and the request
\* and the error of every event, its class included.
Sanitized(m, out) ==
    IF out = Absent THEN Absent ELSE [out EXCEPT !.changed = {m.masks[path] : path \in @}]

SanitizedEvent(m, e) ==
    [op |-> e.op, on |-> IF e.op = "shell.exec" THEN e.on ELSE m.masks[e.on],
     class |-> IF e.class \in m.hides THEN "REDACTED" ELSE e.class]

Document(r) == [tools |-> [i \in DOMAIN tools[r] |-> SanitizedEvent(manifest[r], tools[r][i])],
                verdicts |-> verdicts[r], final |-> final[r],
                output |-> Sanitized(manifest[r], output[r]), by |-> manifest[r]]

\* ... and writes.  CheckSkill goes on to verify the trace of a run that passed.
PersistPassed(r) ==
    /\ pc[r] = "writing" /\ final[r] = "passed"
    /\ output[r].list # "mixed"
    /\ traceFile' = [traceFile EXCEPT ![r] = Document(r)]
    /\ result' = [result EXCEPT ![r] = [status |-> "passed", path |-> TRUE, summary |-> verdicts[r]]]
    /\ pc' = [pc EXCEPT ![r] = IF r \in Gates THEN "audit" ELSE "done"]
    /\ UNCHANGED <<files, declared, memory, evidence, calls, stable, left>>

\* outputStrings, called once the trace is written, panics at a claim that is
\* not a string.
PersistPanics(r) ==
    /\ pc[r] = "writing" /\ final[r] = "passed"
    /\ output[r].list = "mixed"
    /\ traceFile' = [traceFile EXCEPT ![r] = Document(r)]
    /\ pc' = [pc EXCEPT ![r] = "dead"]
    /\ UNCHANGED <<files, declared, memory, evidence, result, calls, stable, left>>

PersistFailed(r) ==
    /\ pc[r] = "writing" /\ final[r] = "failed"
    /\ traceFile' = [traceFile EXCEPT ![r] = Document(r)]
    /\ Return(r, FailedStatus(r), TRUE, verdicts[r])
    /\ UNCHANGED <<files, declared, memory, evidence, calls, stable, left>>

\* Mutant: the error of WriteTrace is ignored on every path.
PersistFails_Ignored(r) ==
    /\ pc[r] \in {"persist", "writing"}
    /\ Return(r, final[r], TRUE, verdicts[r])
    /\ FaultSpent
    /\ UNCHANGED <<files, declared, memory, traceFile, evidence, calls, stable>>

\* WriteTrace fails, before or after it truncated the file.  Only a run that
\* passed looks at the error, and then it has no status to report.
PersistFails(r) ==
    /\ pc[r] \in {"persist", "writing"}
    /\ Return(r, IF final[r] = "failed" THEN FailedStatus(r)
                 ELSE IF r \in Gates THEN "failed" ELSE "",
              TRUE, verdicts[r])
    /\ FaultSpent
    /\ UNCHANGED <<files, declared, memory, traceFile, evidence, calls, stable>>

-----------------------------------------------------------------------------
\* Verify.

Auditing(p) == pc[p] = IF p \in Audits THEN "idle" ELSE "audit"
Readable(p) == traceFile[SubjectOf(p)] \notin {Absent, Truncated}
Denied(t) == \E e \in Elements(t.tools) : e.class = "PolicyViolation"

\* ReadTrace (and, in a check, ValidateTarget) finds no trace or half of one.
AuditUnreadable(p) ==
    /\ Auditing(p)
    /\ ~Readable(p)
    /\ IF p \in Gates THEN Return(p, "failed", TRUE, verdicts[p]) ELSE Return(p, "", FALSE, <<>>)
    /\ UNCHANGED <<files, declared, memory, traceFile, evidence, calls, stable, left>>

\* The trace is not of a run that passed, or it records a policy violation.
AuditRefuses(p) ==
    /\ Auditing(p)
    /\ Readable(p)
    /\ LET t == traceFile[SubjectOf(p)] IN
        /\ t.final # "passed" \/ Denied(t)
        /\ evidence' = [evidence EXCEPT ![p] = t]
    /\ Return(p, "failed", TRUE, <<>>)
    /\ UNCHANGED <<files, declared, memory, traceFile, calls, stable, left>>

\* Mutant: a trace counts as soon as it holds the adapter's answer.
AuditRead_AnyStatus(p) ==
    /\ Auditing(p)
    /\ Readable(p)
    /\ LET t == traceFile[SubjectOf(p)] IN
        /\ t.output # Absent /\ ~Denied(t)
        /\ evidence' = [evidence EXCEPT ![p] = t]
    /\ pc' = [pc EXCEPT ![p] = "reload"]
    /\ UNCHANGED <<files, declared, memory, traceFile, result, calls, stable, left>>

AuditRead(p) ==
    /\ Auditing(p)
    /\ Readable(p)
    /\ LET t == traceFile[SubjectOf(p)] IN
        /\ t.final = "passed" /\ ~Denied(t)
        /\ evidence' = [evidence EXCEPT ![p] = t]
    /\ pc' = [pc EXCEPT ![p] = "reload"]
    /\ UNCHANGED <<files, declared, memory, traceFile, result, calls, stable, left>>

\* CheckWrite of every changed_files entry, under the manifest of now.
Claims(p) == evidence[p].output.changed
Manifest(p) == declared[Home[SubjectOf(p)]]

\* Mutant: relative claims resolve from the working directory of the verify.
ClaimsInScope_FromCwd(p) ==
    \A path \in Claims(p) :
        /\ Home[SubjectOf(p)] = IF path[1] = Here THEN Cwd[p] ELSE path[1]
        /\ path[2] \in Manifest(p).writes

ClaimsInScope(p) == \A path \in Claims(p) : InScope(SubjectOf(p), path, Manifest(p).writes)

Usable(m) == m # Absent /\ m.preflight # "badscope"

\* LoadManifest fails, or the policy cannot be built.
AuditLoadFails(p) ==
    /\ pc[p] = "reload"
    /\ ~Usable(Manifest(p))
    /\ IF p \in Gates THEN Return(p, "failed", TRUE, <<>>) ELSE Return(p, "", FALSE, <<>>)
    /\ UNCHANGED <<files, declared, memory, traceFile, evidence, calls, stable, left>>

\* outputStrings panics: read back from JSON, every list is a []any.
AuditPanics(p) ==
    /\ pc[p] = "reload"
    /\ Usable(Manifest(p))
    /\ evidence[p].output.list # "strings"
    /\ pc' = [pc EXCEPT ![p] = "dead"]
    /\ UNCHANGED <<files, declared, memory, traceFile, evidence, result, calls, stable, left>>

AuditOutOfScope(p) ==
    /\ pc[p] = "reload"
    /\ Usable(Manifest(p))
    /\ evidence[p].output.list = "strings"
    /\ ~ClaimsInScope(p)
    /\ Return(p, "failed", TRUE, <<>>)
    /\ UNCHANGED <<files, declared, memory, traceFile, evidence, calls, stable, left>>

\* The verifiers rerun are those of the manifest as it is now.
AuditLoad(p) ==
    /\ pc[p] = "reload"
    /\ Usable(Manifest(p))
    /\ evidence[p].output.list = "strings"
    /\ ClaimsInScope(p)
    /\ manifest' = [manifest EXCEPT ![p] = Manifest(p)]
    /\ output' = [output EXCEPT ![p] = evidence[p].output]
    /\ verdicts' = [verdicts EXCEPT ![p] = <<>>]
    /\ pc' = [pc EXCEPT ![p] = "reverify"]
    /\ UNCHANGED <<files, declared, tools, final, child, traceFile, evidence, result, calls, stable,
                   left>>

AuditRefuted(p) ==
    /\ pc[p] = "refuted"
    /\ Return(p, "failed", TRUE, verdicts[p])
    /\ UNCHANGED <<files, declared, memory, traceFile, evidence, calls, stable, left>>

\* In a check, Replay then reads the same trace once more.
AuditPasses(p) ==
    /\ pc[p] = "reverify" /\ ~Pending(p)
    /\ Return(p, "passed", TRUE, verdicts[p])
    /\ UNCHANGED <<files, declared, memory, traceFile, evidence, calls, stable, left>>

-----------------------------------------------------------------------------
\* Someone works in a repository, or a process that a command left behind does.
Edit(place, name, c) ==
    /\ Put(place, name, c)
    /\ EditSpent
    /\ UNCHANGED <<declared, pc, manifest, tools, verdicts, output, final, traceFile, evidence,
                   result, calls>>

\* Someone edits a manifest that is run.
Redeclare(place, m) ==
    /\ declared[place] # m
    /\ declared' = [declared EXCEPT ![place] = m]
    /\ stable' = [r \in Runs |-> stable[r] /\ Home[r] # place]
    /\ EditSpent
    /\ UNCHANGED <<files, pc, memory, traceFile, evidence, result, calls>>

\* The process is killed.
Crash(p) ==
    /\ pc[p] \notin {"idle", "done", "dead"}
    /\ pc' = [pc EXCEPT ![p] = "dead"]
    /\ child' = [child EXCEPT ![p] = Command(Absent)]
    /\ CrashSpent
    /\ UNCHANGED <<files, declared, manifest, tools, verdicts, output, final, traceFile, evidence,
                   result, calls, stable>>

RunStep(r) ==
    \/ CheckResolveFails(r) \/ RunResolveFails(r) \/ RunLoadFails(r) \/ RunLoad(r)
    \/ RunRefused(r) \/ RunExecute(r) \/ ShellTimesOut(r)
    \/ RunRejected(r) \/ RunAccepted(r)
    \/ PersistOpen(r) \/ PersistPassed(r) \/ PersistPanics(r) \/ PersistFailed(r) \/ PersistFails(r)

AuditStep(p) ==
    \/ AuditUnreadable(p) \/ AuditRefuses(p) \/ AuditRead(p)
    \/ AuditLoadFails(p) \/ AuditPanics(p) \/ AuditOutOfScope(p) \/ AuditLoad(p)
    \/ AuditRefuted(p) \/ AuditPasses(p)

\* What a process does of itself; a command that exits and an adapter that
\* answers are not its own doing.
Step(p) == RunVerifiers(p) \/ AuditStep(p) \/ (p \in Runs /\ RunStep(p))

Outside ==
    \/ \E place \in Places, n \in Names, c \in Contents \union {Absent} : Edit(place, n, c)
    \/ \E r \in Runs, m \in Manifests \union {Absent} : Redeclare(Home[r], m)

Next ==
    \/ \E r \in Runs : Adapter(r)
    \/ \E p \in Procs : Step(p) \/ Child(p) \/ Crash(p)
    \/ Outside

Spec == Init /\ [][Next]_vars

(* A process runs on until it returns: its code is sequential, and blocks    *)
(* only in the adapter and in a command.  A deadline kills the command, but  *)
(* nothing makes a process it left behind let go of its output.              *)
FairSpec == Spec /\ \A p \in Procs : WF_vars(Step(p))

-----------------------------------------------------------------------------
Complete(t) == t \notin {Absent, Truncated}
Pcs == {"idle", "preflight", "execute", "shell", "verify", "command", "rejected", "persist", "writing",
        "audit", "reload", "reverify", "recommand", "refuted", "done", "dead"}

(* The type invariant; the locals a program counter relies on are there.    *)
TypeOK ==
    /\ files \in [Places -> Repositories]
    /\ declared \in [Places -> Manifests \union {Absent}]
    /\ pc \in [Procs -> Pcs]
    /\ manifest \in [Procs -> Manifests \union {Absent}]
    /\ tools \in [Runs -> Seq(Events)] /\ calls \in [Runs -> Seq(Events)]
    /\ verdicts \in [Procs -> Seq(Verdicts)]
    /\ output \in [Procs -> Answers \union {Absent}]
    /\ final \in [Runs -> {"", "passed", "failed"}]
    /\ child \in [Procs -> Children]
    /\ traceFile \in [Runs -> Traces \union {Absent, Truncated}]
    /\ evidence \in [Procs -> Traces \union {Absent}]
    /\ result \in [Procs -> Results]
    /\ stable \in [Runs -> BOOLEAN]
    /\ left \in [calls : [Runs -> Nat], edits : Nat, writes : Nat, faults : Nat, crashes : Nat]
    /\ \A p \in Procs :
          /\ pc[p] = "shell" => child[p].cmd # Absent
          /\ pc[p] \in {"verify", "command", "reverify", "recommand"} =>
               manifest[p] # Absent /\ output[p] # Absent
          /\ pc[p] \in {"persist", "writing"} => manifest[p] # Absent /\ final[p] # ""

\* The trace lists the tool calls that were made, in their order, and shows of
\* each what the redaction of its manifest leaves to be seen.
Lists(t, made) ==
    /\ Len(t.tools) = Len(made)
    /\ \A i \in DOMAIN made : LET e == t.tools[i] IN
          /\ e.op = made[i].op
          /\ e.on # made[i].on => made[i].on \in Paths /\ e.on = t.by.masks[made[i].on]
          /\ e.class # made[i].class => made[i].class \in t.by.hides /\ e.class = "REDACTED"

(* A run that reports success has left the evidence on disk: a complete     *)
(* trace with final status passed, every tool call the adapter made, and a  *)
(* passed event for every verifier of the manifest, in its order.  And a    *)
(* run that has returned with such a trace on disk did report success.      *)
PassedIsOnRecord ==
    \A r \in Runs : LET t == traceFile[r] IN
        /\ result[r].status = "passed" =>
              /\ Complete(t) /\ t.final = "passed" /\ Lists(t, calls[r])
              /\ Len(t.verdicts) = Len(t.by.checks)
              /\ \A i \in DOMAIN t.verdicts :
                    t.verdicts[i] = [name |-> t.by.checks[i].name, passed |-> TRUE]
        /\ Returned(r) /\ r \notin Gates /\ Complete(t) =>
              (t.final = "passed" => result[r].status = "passed")

(* The trace a result names is there, complete, whatever the status, once a *)
(* manifest was loaded and unless a system call failed.                     *)
NamedTraceExists ==
    \A r \in Runs :
        result[r].path /\ manifest[r] # Absent /\ left.faults = MaxFaults =>
            Complete(traceFile[r])

(* Whatever became of a run, a complete trace of it lists every tool call   *)
(* it made, the denied and the failed ones too, and nothing else; only the  *)
(* redaction of its manifest can keep a path or an error class out of it.   *)
ToolCallsOnRecord ==
    \A r \in Runs : Complete(traceFile[r]) => Lists(traceFile[r], calls[r])

\* The manifest p has loaded declares the command that p waits for.
Declares(p) ==
    \/ pc[p] = "shell" /\ child[p].cmd \in manifest[p].shell
    \/ Launching(p) /\ Verifier(p).kind = "command" /\ Verifier(p).contract

(* A file changes only as some manifest allows: by an fs.write in the write *)
(* scope of the run that makes it, or by a command that the manifest lists, *)
(* as a shell permission or as a verifier, while a process waits for it.    *)
EffectsInScope ==
    [][\A place \in Places, n \in Names : files'[place][n] # files[place][n] =>
          \/ left'.edits < left.edits
          \/ left'.writes < left.writes /\ \E p \in Procs : Declares(p)
          \/ \E r \in Runs :
                /\ Calling(r) /\ left'.calls[r] < left.calls[r]
                /\ Home[r] = place /\ n \in manifest[r].writes]_vars

(* A verify never upgrades a run: the one it passes wrote its whole trace,  *)
(* passed all its verifiers and was not reported as failed, even if the     *)
(* repository or the manifest was repaired since.  No tool call of it was   *)
(* denied, unless its redaction hides that class of error.  What its        *)
(* adapter claims to have changed lies in the write scope of the manifest   *)
(* verified, as far as redaction left the claims readable.                  *)
VerifyNeverUpgrades ==
    \A a \in Audits : result[a].status = "passed" =>
        LET r == Subject[a] IN
        /\ final[r] = "passed"
        /\ r \notin Gates => result[r].status # "failed"
        /\ \A e \in Elements(calls[r]) :
              e.class = "PolicyViolation" => e.class \in evidence[a].by.hides
        /\ \A v \in Elements(evidence[a].verdicts) : v.passed
        /\ \A path \in output[r].changed :
              manifest[r].masks[path] = path => InScope(r, path, manifest[a].writes)

(* While nothing, its verifiers included, touches the directories in which  *)
(* the verifiers of a run work, a success it reports still holds: each      *)
(* command of its manifest exits with the code the manifest asks for.       *)
PassedStillHolds ==
    \A r \in Runs : result[r].status = "passed" /\ stable[r] =>
        \A v \in Elements(traceFile[r].by.checks) : v.kind = "command" =>
            ExitCode[v.name][files[Workdir(r, v)]] = v.wants

(* The claims of the run that p verifies need no indulgence: none of its    *)
(* tool calls was denied, and its claims lie in its write scope, unmasked.  *)
CleanRun(p) ==
    LET r == SubjectOf(p) IN
    /\ \A e \in Elements(calls[r]) : e.class # "PolicyViolation"
    /\ \A path \in output[r].changed :
          manifest[r].masks[path] = path /\ InScope(r, path, manifest[r].writes)

(* The trace of a clean run that passed verifies again with the same        *)
(* verifier events, while the manifest is the one the run loaded, nothing   *)
(* touched the directories its verifiers work in, and none of them timed    *)
(* out or failed to start.  The verify may be called from elsewhere, as     *)
(* long as no verifier takes the directory of the process for its own.      *)
ReverifyAgrees ==
    \A p \in Procs :
        /\ Returned(p) /\ evidence[p] # Absent
        /\ evidence[p].final = "passed" /\ stable[SubjectOf(p)] /\ CleanRun(p)
        /\ \A v \in Elements(evidence[p].by.checks) : Workdir(p, v) = Workdir(SubjectOf(p), v)
        => result[p].status = "passed" /\ result[p].summary = evidence[p].verdicts

(* A process waits for its adapter, and for one that a command left behind   *)
(* with its output in hand; otherwise it returns, although the command may   *)
(* never exit of itself.  It dies without a result only if it is killed or   *)
(* its adapter's claims are not strings.                                     *)
WaitsForAdapterOrOutput ==
    \A p \in Procs : []<>
        \/ pc[p] \in {"execute", "done"}
        \/ Running(p) /\ child[p].held
        \/ pc[p] = "dead" /\ (left.crashes < MaxCrashes \/ output[SubjectOf(p)].list # "strings")
=============================================================================
