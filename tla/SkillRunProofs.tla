--------------------------- MODULE SkillRunProofs ---------------------------
(***************************************************************************)
(* Proofs about SkillRun for any processes, manifests, adapters, faults,   *)
(* crashes and edits.                                                      *)
(***************************************************************************)
EXTENDS SkillRun, TLAPS

AuditPcs == {"reload", "reverify", "recommand", "refuted"}

\* The sets of values, without what TypeOK says of places in the code.
Typed ==
    /\ files \in [Places -> Repositories]
    /\ declared \in [Places -> Manifests \union {Absent}]
    /\ pc \in [Procs -> Pcs]
    /\ manifest \in [Procs -> Manifests \union {Absent}]
    /\ tools \in [Runs -> Seq(Events)] /\ calls \in [Runs -> Seq(Events)]
    /\ verdicts \in [Procs -> Seq(Verdicts)]
    /\ output \in [Procs -> Answers \union {Absent}]
    /\ final \in [Runs -> {"", "passed", "failed"}]
    /\ child \in [Procs -> Children]
    /\ traceFile \in [Runs -> Traces \union {Absent, Truncated}]
    /\ evidence \in [Procs -> Traces \union {Absent}]
    /\ result \in [Procs -> Results]
    /\ stable \in [Runs -> BOOLEAN]
    /\ left \in [calls : [Runs -> Nat], edits : Nat, writes : Nat, faults : Nat, crashes : Nat]

(* What a process relies on where it stands: a run has a manifest once it   *)
(* is past its load, a verify has the evidence it read, and a command is    *)
(* one that the manifest lists.                                             *)
Placed(p) ==
    /\ p \in Audits => pc[p] \in {"idle", "done", "dead"} \union AuditPcs
    /\ pc[p] \in {"preflight", "execute", "shell", "verify", "command", "rejected", "persist",
                  "writing", "reverify", "recommand"} => manifest[p] # Absent
    /\ pc[p] \in {"verify", "command", "reverify", "recommand"} => output[p] # Absent
    /\ pc[p] \in {"persist", "writing"} => final[p] # ""
    /\ Launching(p) => Pending(p) /\ Verifier(p).kind = "command" /\ Verifier(p).contract
    /\ pc[p] = "shell" => child[p].cmd \in manifest[p].shell
    /\ pc[p] = "reload" => evidence[p] # Absent /\ evidence[p].output # Absent

\* A run that passed has an answer, in memory and in its trace.
Answered(r) ==
    /\ final[r] = "passed" => output[r] # Absent
    /\ Complete(traceFile[r]) /\ traceFile[r].final = "passed" => traceFile[r].output # Absent

PlacedInv ==
    /\ Typed
    /\ \A p \in Procs : Placed(p)
    /\ \A r \in Runs : Answered(r)

LEMMA PlacedTypeOK == PlacedInv => TypeOK
<1> SUFFICES ASSUME PlacedInv PROVE TypeOK
    OBVIOUS
<1>1. ASSUME NEW p \in Procs, pc[p] = "shell" PROVE child[p].cmd # Absent
  <2>1. manifest[p] \in Manifests /\ child[p].cmd \in manifest[p].shell
    BY <1>1 DEF PlacedInv, Typed, Placed
  <2>2. child[p].cmd \in Commands
    BY <2>1, SkillRunAssumption
  <2>. QED
    BY <2>2, AbsentAssumption
<1>. QED
  BY <1>1 DEF PlacedInv, Typed, TypeOK, Placed

-----------------------------------------------------------------------------
LEMMA ProcsType ==
    /\ Procs = Runs \union Audits
    /\ \A r \in Runs : r \in Procs /\ r \notin Audits
    /\ \A a \in Audits : a \in Procs /\ a \notin Runs
    /\ Gates \subseteq Runs
BY SkillRunAssumption DEF Procs

LEMMA ManifestType ==
    ASSUME NEW m \in Manifests
    PROVE  /\ m.checks \in Seq(Verifiers) /\ m.checks # <<>>
           /\ m.masks \in [Paths -> Paths]
           /\ m.hides \subseteq Classes /\ m.shell \subseteq Commands
           /\ m # Absent
BY SkillRunAssumption

LEMMA VerifierType ==
    ASSUME Typed, NEW p \in Procs, manifest[p] # Absent, Pending(p)
    PROVE  Verifier(p) \in Verifiers /\ Verifier(p).name \in DOMAIN ExitCode
<1>1. manifest[p] \in Manifests /\ verdicts[p] \in Seq(Verdicts)
  BY DEF Typed
<1>2. manifest[p].checks \in Seq(Verifiers)
  BY <1>1, ManifestType
<1>3. Len(verdicts[p]) + 1 \in 1..Len(manifest[p].checks)
  BY <1>1, <1>2 DEF Pending
<1>4. Verifier(p) \in Verifiers
  BY <1>2, <1>3 DEF Verifier
<1>. QED
  BY <1>4 DEF Verifiers

LEMMA SubjectType ==
    ASSUME NEW p \in Procs
    PROVE  SubjectOf(p) \in Runs /\ Home[SubjectOf(p)] \in Places
BY SkillRunAssumption DEF SubjectOf, Procs

LEMMA ReturnType ==
    ASSUME Typed, NEW p \in Procs, NEW status \in {"", "passed", "failed"}, NEW path \in BOOLEAN,
           NEW summary \in Seq(Verdicts), Return(p, status, path, summary)
    PROVE  /\ result' \in [Procs -> Results] /\ pc' \in [Procs -> Pcs]
           /\ pc'[p] = "done" /\ \A q \in Procs \ {p} : pc'[q] = pc[q]
           /\ result'[p] = [status |-> status, path |-> path, summary |-> summary]
           /\ \A q \in Procs \ {p} : result'[q] = result[q]
<1>1. [status |-> status, path |-> path, summary |-> summary] \in Results
  BY DEF Results
<1>2. "done" \in Pcs
  BY DEF Pcs
<1>. QED
  BY <1>1, <1>2 DEF Typed, Return

LEMMA GotoType ==
    ASSUME Typed, NEW p \in Procs, NEW l \in Pcs, pc' = [pc EXCEPT ![p] = l]
    PROVE  /\ pc' \in [Procs -> Pcs]
           /\ pc'[p] = l /\ \A q \in Procs \ {p} : pc'[q] = pc[q]
BY DEF Typed

LEMMA SpentType ==
    ASSUME Typed, EditSpent \/ FaultSpent \/ CrashSpent \/ WriteSpent
    PROVE  left' \in [calls : [Runs -> Nat], edits : Nat, writes : Nat, faults : Nat, crashes : Nat]
<1>1. left \in [calls : [Runs -> Nat], edits : Nat, writes : Nat, faults : Nat, crashes : Nat]
  BY DEF Typed
<1>2. CASE EditSpent
  BY <1>1, <1>2 DEF EditSpent
<1>3. CASE FaultSpent
  BY <1>1, <1>3 DEF FaultSpent
<1>4. CASE CrashSpent
  BY <1>1, <1>4 DEF CrashSpent
<1>5. CASE WriteSpent
  BY <1>1, <1>5 DEF WriteSpent
<1>. QED
  BY <1>2, <1>3, <1>4, <1>5

LEMMA SequenceFacts ==
    ASSUME NEW S, NEW s \in Seq(S)
    PROVE  /\ \A i \in DOMAIN s : s[i] \in S
           /\ Len(s) \in Nat /\ DOMAIN s = 1..Len(s)
           /\ \A f \in [DOMAIN s -> S] : f \in Seq(S) /\ Len(f) = Len(s)
OBVIOUS

LEMMA EventType ==
    ASSUME NEW e \in Events
    PROVE  /\ e.class \in Classes \union {"REDACTED"}
           /\ e.op = "shell.exec" => e.on \in Commands
           /\ e.op # "shell.exec" => e.op \in {"fs.read", "fs.write"} /\ e.on \in Paths
BY DEF Events

LEMMA SanitizedType ==
    ASSUME NEW m \in Manifests, NEW e \in Events
    PROVE  SanitizedEvent(m, e) \in Events
<1>1. CASE e.op = "shell.exec"
  BY <1>1, EventType DEF SanitizedEvent, Events
<1>2. CASE e.op # "shell.exec"
  <2>1. e.on \in Paths /\ m.masks[e.on] \in Paths
    BY <1>2, EventType, ManifestType
  <2>. QED
    BY <1>2, <2>1, EventType DEF SanitizedEvent, Events
<1>. QED
  BY <1>1, <1>2

LEMMA DocumentType ==
    ASSUME Typed, NEW r \in Runs, manifest[r] # Absent, final[r] # ""
    PROVE  /\ Document(r) \in Traces
           /\ output[r] # Absent => Document(r).output # Absent
<1>1. /\ manifest[r] \in Manifests /\ final[r] \in {"passed", "failed"}
      /\ tools[r] \in Seq(Events) /\ verdicts[r] \in Seq(Verdicts)
      /\ output[r] \in Answers \union {Absent}
  BY ProcsType DEF Typed
<1>0. [i \in DOMAIN tools[r] |-> SanitizedEvent(manifest[r], tools[r][i])] \in Seq(Events)
  <2>1. tools[r] \in Seq(Events)
    BY <1>1
  <2>2. \A i \in DOMAIN tools[r] : SanitizedEvent(manifest[r], tools[r][i]) \in Events
    BY <1>1, <2>1, SequenceFacts, SanitizedType, Zenon
  <2>3. [i \in DOMAIN tools[r] |-> SanitizedEvent(manifest[r], tools[r][i])]
           \in [DOMAIN tools[r] -> Events]
    BY <2>2, Zenon
  <2>. QED
    BY <2>1, <2>3, SequenceFacts, Zenon
<1>2. CASE output[r] = Absent
  BY <1>0, <1>1, <1>2 DEF Document, Sanitized, Traces
<1>3. CASE output[r] # Absent
  <2> DEFINE claims == {manifest[r].masks[path] : path \in output[r].changed}
  <2>1. output[r] \in Answers
    BY <1>1, <1>3
  <2>2. claims \subseteq Paths
    BY <1>1, <2>1, ManifestType, ZenonT(30) DEF Answers
  <2>3. [output[r] EXCEPT !.changed = claims] \in Answers
    BY <2>1, <2>2 DEF Answers
  <2>4. Sanitized(manifest[r], output[r]) \in Answers
    BY <1>3, <2>3 DEF Sanitized
  <2>. QED
    BY <1>0, <1>1, <2>4, AbsentAssumption DEF Document, Traces
<1>. QED
  BY <1>2, <1>3

-----------------------------------------------------------------------------
\* The step leaves process q alone.
Same(q) ==
    /\ pc'[q] = pc[q] /\ manifest'[q] = manifest[q] /\ verdicts'[q] = verdicts[q]
    /\ output'[q] = output[q] /\ evidence'[q] = evidence[q]
    /\ child'[q].cmd = child[q].cmd
    /\ q \in Runs => final'[q] = final[q] /\ traceFile'[q] = traceFile[q]

LEMMA SameKeepsPlaced ==
    ASSUME NEW q \in Procs, Same(q), Placed(q), q \in Runs => Answered(q)
    PROVE  Placed(q)' /\ (q \in Runs => Answered(q)')
<1>1. q \in Runs => Answered(q)'
  BY DEF Same, Answered, Complete
<1>2. pc[q] \in {"persist", "writing"} => q \in Runs
  BY ProcsType DEF Placed, AuditPcs
<1>3. (Launching(q) => Pending(q) /\ Verifier(q).kind = "command" /\ Verifier(q).contract)'
  BY DEF Same, Placed, Launching, Pending, Verifier
<1>4. (pc[q] \in {"persist", "writing"} => final[q] # "")'
  BY <1>2 DEF Same, Placed
<1>5. (pc[q] = "shell" => child[q].cmd \in manifest[q].shell)'
  BY DEF Same, Placed
<1>. QED
  BY <1>1, <1>3, <1>4, <1>5 DEF Same, Placed

LEMMA OneMoves ==
    ASSUME PlacedInv, NEW p \in Procs, Typed', \A q \in Procs \ {p} : Same(q),
           Placed(p)', p \in Runs => Answered(p)'
    PROVE  PlacedInv'
<1>1. ASSUME NEW q \in Procs PROVE Placed(q)' /\ (q \in Runs => Answered(q)')
  <2>1. CASE q = p
    BY <2>1
  <2>2. CASE q # p
    BY <2>2, SameKeepsPlaced DEF PlacedInv
  <2>. QED
    BY <2>1, <2>2
<1>. QED
  BY <1>1, ProcsType DEF PlacedInv

-----------------------------------------------------------------------------
LEMMA PlacedInit == Init => PlacedInv
<1> SUFFICES ASSUME Init PROVE PlacedInv
    OBVIOUS
<1>1. left \in [calls : [Runs -> Nat], edits : Nat, writes : Nat, faults : Nat, crashes : Nat]
  BY SkillRunAssumption DEF Init
<1>2. files \in [Places -> Repositories] /\ declared \in [Places -> Manifests \union {Absent}]
  BY SkillRunAssumption DEF Init
<1>3. <<>> \in Seq(Verdicts) /\ <<>> \in Seq(Events)
  OBVIOUS
<1>4. [status |-> "", path |-> FALSE, summary |-> <<>>] \in Results
  BY <1>3 DEF Results
<1>5. "idle" \in Pcs /\ Command(Absent) \in Children
  BY DEF Pcs, Command, Children
<1>6. Typed
  BY <1>1, <1>2, <1>3, <1>4, <1>5 DEF Init, Typed
<1>7. ASSUME NEW p \in Procs PROVE Placed(p)
  BY DEF Init, Placed, Launching
<1>8. ASSUME NEW r \in Runs PROVE Answered(r)
  BY DEF Init, Answered, Complete
<1>. QED
  BY <1>6, <1>7, <1>8 DEF PlacedInv

(* A tool call is recorded, and a command of shell.exec ends.               *)
Logged(r, e) ==
    /\ tools' = [tools EXCEPT ![r] = Append(@, e)]
    /\ calls' = [calls EXCEPT ![r] = Append(@, e)]

LEMMA LogIsLogged ==
    ASSUME NEW r \in Runs, NEW op, NEW on, NEW class \in Classes, Log(r, op, on, class),
           \/ (op = "fs.read" \/ op = "fs.write") /\ on \in Paths
           \/ op = "shell.exec" /\ on \in Commands
    PROVE  \E e \in Events : Logged(r, e)
<1>1. [op |-> op, on |-> on, class |-> class] \in Events
  BY DEF Events
<1>2. Logged(r, [op |-> op, on |-> on, class |-> class])
  BY DEF Log, Logged
<1>. QED
  BY <1>1, <1>2

LEMMA LogType ==
    ASSUME Typed, NEW r \in Runs, NEW e \in Events, Logged(r, e)
    PROVE  tools' \in [Runs -> Seq(Events)] /\ calls' \in [Runs -> Seq(Events)]
<1>1. tools[r] \in Seq(Events) /\ calls[r] \in Seq(Events)
  BY DEF Typed
<1>2. Append(tools[r], e) \in Seq(Events) /\ Append(calls[r], e) \in Seq(Events)
  BY <1>1
<1>. QED
  BY <1>2 DEF Logged, Typed

LEMMA CommandGone ==
    ASSUME Typed, NEW p \in Procs, NEW cmd \in Commands \union {Absent},
           child' = [child EXCEPT ![p] = Command(cmd)]
    PROVE  /\ child' \in [Procs -> Children]
           /\ child'[p] = Command(cmd) /\ \A q \in Procs \ {p} : child'[q] = child[q]
<1>1. Command(cmd) \in Children
  BY DEF Command, Children
<1>. QED
  BY <1>1 DEF Typed

LEMMA ShellEndsPlaced ==
    ASSUME PlacedInv, NEW r \in Runs, NEW class \in Classes, ShellEnds(r, class)
    PROVE  PlacedInv'
<1>0. r \in Procs /\ r \notin Audits /\ Typed /\ Placed(r) /\ Answered(r)
  BY ProcsType DEF PlacedInv
<1>1. child[r].cmd \in Commands
  BY <1>0, ManifestType DEF ShellEnds, Placed, Typed
<1>2. \E e \in Events : Logged(r, e)
  BY <1>1, LogIsLogged DEF ShellEnds
<1>3. tools' \in [Runs -> Seq(Events)] /\ calls' \in [Runs -> Seq(Events)]
  BY <1>0, <1>2, LogType
<1>4. child' \in [Procs -> Children] /\ \A q \in Procs \ {r} : child'[q] = child[q]
  BY <1>0, CommandGone DEF ShellEnds
<1>5. /\ pc' \in [Procs -> Pcs]
      /\ pc'[r] = "execute" /\ \A q \in Procs \ {r} : pc'[q] = pc[q]
  BY <1>0, GotoType DEF ShellEnds, Pcs
<1>6. Typed'
  BY <1>0, <1>3, <1>4, <1>5 DEF ShellEnds, Typed
<1>7. Placed(r)' /\ Answered(r)'
  BY <1>0, <1>5 DEF ShellEnds, Placed, Answered, Launching, Complete
<1>8. \A q \in Procs \ {r} : Same(q)
  BY <1>4, <1>5 DEF ShellEnds, Same
<1>. QED
  BY <1>0, <1>6, <1>7, <1>8, OneMoves

(* The steps of Run, from its target to its trace.                          *)
LEMMA RunStepPlaced ==
    ASSUME PlacedInv, NEW r \in Runs, RunStep(r)
    PROVE  PlacedInv'
<1>0. r \in Procs /\ r \notin Audits /\ Typed /\ Placed(r) /\ Answered(r)
  BY ProcsType DEF PlacedInv
<1>1. CASE CheckResolveFails(r) \/ RunResolveFails(r) \/ RunLoadFails(r)
  <2>1. \E status \in {"", "failed"}, path \in BOOLEAN : Return(r, status, path, <<>>)
    BY <1>1 DEF CheckResolveFails, RunResolveFails, RunLoadFails
  <2>2. /\ UNCHANGED <<files, declared, memory, traceFile, evidence, calls, stable, left>>
    BY <1>1 DEF CheckResolveFails, RunResolveFails, RunLoadFails
  <2>3. <<>> \in Seq(Verdicts)
    OBVIOUS
  <2>4. /\ result' \in [Procs -> Results] /\ pc' \in [Procs -> Pcs]
        /\ pc'[r] = "done" /\ \A q \in Procs \ {r} : pc'[q] = pc[q]
    BY <1>0, <2>1, <2>3, ReturnType, ZenonT(30)
  <2>5. Typed'
    BY <1>0, <2>2, <2>4 DEF Typed, memory
  <2>6. Placed(r)' /\ Answered(r)'
    BY <1>0, <2>2, <2>4 DEF Placed, Answered, Launching, memory
  <2>7. \A q \in Procs \ {r} : Same(q)
    BY <2>2, <2>4 DEF Same, memory
  <2>. QED
    BY <1>0, <2>5, <2>6, <2>7, OneMoves
<1>2. CASE RunLoad(r)
  <2>1. declared[Home[r]] \in Manifests
    BY <1>0, <1>2, SkillRunAssumption DEF RunLoad, Typed
  <2>2. manifest' \in [Procs -> Manifests \union {Absent}] /\ manifest'[r] # Absent
    BY <1>0, <1>2, <2>1 DEF RunLoad, Typed
  <2>3. /\ pc' \in [Procs -> Pcs]
        /\ pc'[r] = "preflight" /\ \A q \in Procs \ {r} : pc'[q] = pc[q]
    BY <1>0, <1>2, GotoType DEF RunLoad, Pcs
  <2>4. Typed'
    BY <1>0, <1>2, <2>2, <2>3 DEF RunLoad, Typed
  <2>5. Placed(r)' /\ Answered(r)'
    BY <1>0, <1>2, <2>2, <2>3 DEF RunLoad, Placed, Answered, Launching, Complete
  <2>6. \A q \in Procs \ {r} : Same(q)
    BY <1>2, <2>3 DEF RunLoad, Same, Typed
  <2>. QED
    BY <1>0, <2>4, <2>5, <2>6, OneMoves
<1>3. CASE RunExecute(r)
  <2>1. /\ pc' \in [Procs -> Pcs]
        /\ pc'[r] = "execute" /\ \A q \in Procs \ {r} : pc'[q] = pc[q]
    BY <1>0, <1>3, GotoType DEF RunExecute, Pcs
  <2>2. Typed'
    BY <1>0, <1>3, <2>1 DEF RunExecute, Typed, memory
  <2>3. Placed(r)' /\ Answered(r)'
    BY <1>0, <1>3, <2>1 DEF RunExecute, Placed, Answered, Launching, Complete, memory
  <2>4. \A q \in Procs \ {r} : Same(q)
    BY <1>3, <2>1 DEF RunExecute, Same, memory
  <2>. QED
    BY <1>0, <2>2, <2>3, <2>4, OneMoves
<1>4. CASE RunRefused(r) \/ RunRejected(r) \/ RunAccepted(r)
  <2>1. /\ pc' = [pc EXCEPT ![r] = "persist"]
        /\ \E status \in {"passed", "failed"} :
              /\ final' = [final EXCEPT ![r] = status]
              /\ status = "passed" => pc[r] = "verify"
        /\ pc[r] \in {"preflight", "verify", "rejected"}
        /\ UNCHANGED <<files, declared, manifest, tools, verdicts, output, child, traceFile,
                       evidence, result, calls, stable, left>>
    BY <1>4 DEF RunRefused, RunRejected, RunAccepted
  <2>2. /\ pc' \in [Procs -> Pcs]
        /\ pc'[r] = "persist" /\ \A q \in Procs \ {r} : pc'[q] = pc[q]
    BY <1>0, <2>1, GotoType DEF Pcs
  <2>3. /\ final' \in [Runs -> {"", "passed", "failed"}]
        /\ final'[r] # "" /\ (final'[r] = "passed" => pc[r] = "verify")
        /\ \A q \in Runs \ {r} : final'[q] = final[q]
    BY <1>0, <2>1 DEF Typed
  <2>4. Typed'
    BY <1>0, <2>1, <2>2, <2>3 DEF Typed
  <2>5. Placed(r)' /\ Answered(r)'
    BY <1>0, <2>1, <2>2, <2>3 DEF Placed, Answered, Launching, Complete
  <2>6. \A q \in Procs \ {r} : Same(q)
    BY <2>1, <2>2, <2>3 DEF Same
  <2>. QED
    BY <1>0, <2>4, <2>5, <2>6, OneMoves
<1>5. CASE PersistOpen(r)
  <2>1. /\ pc' \in [Procs -> Pcs]
        /\ pc'[r] = "writing" /\ \A q \in Procs \ {r} : pc'[q] = pc[q]
    BY <1>0, <1>5, GotoType DEF PersistOpen, Pcs
  <2>2. /\ traceFile' \in [Runs -> Traces \union {Absent, Truncated}]
        /\ traceFile'[r] = Truncated /\ \A q \in Runs \ {r} : traceFile'[q] = traceFile[q]
    BY <1>5 DEF PersistOpen, Typed, PlacedInv
  <2>3. Typed'
    BY <1>0, <1>5, <2>1, <2>2 DEF PersistOpen, Typed, memory
  <2>4. Placed(r)' /\ Answered(r)'
    BY <1>0, <1>5, <2>1, <2>2 DEF PersistOpen, Placed, Answered, Launching, Complete, memory
  <2>5. \A q \in Procs \ {r} : Same(q)
    BY <1>5, <2>1, <2>2 DEF PersistOpen, Same, memory
  <2>. QED
    BY <1>0, <2>3, <2>4, <2>5, OneMoves
<1>6. CASE PersistPassed(r) \/ PersistPanics(r) \/ PersistFailed(r)
  <2>1. /\ pc[r] = "writing" /\ traceFile' = [traceFile EXCEPT ![r] = Document(r)]
        /\ UNCHANGED <<files, declared, memory, evidence, calls, stable, left>>
        /\ \E l \in {"done", "audit", "dead"} : pc' = [pc EXCEPT ![r] = l]
    BY <1>6 DEF PersistPassed, PersistPanics, PersistFailed, Return
  <2>2. verdicts[r] \in Seq(Verdicts)
    BY <1>0 DEF Typed
  <2>3. result' \in [Procs -> Results]
    <3>1. \A status \in {"", "passed", "failed"} :
             [status |-> status, path |-> TRUE, summary |-> verdicts[r]] \in Results
      BY <2>2 DEF Results
    <3>2. CASE PersistPassed(r)
      BY <1>0, <3>1, <3>2 DEF PersistPassed, Typed
    <3>3. CASE PersistPanics(r)
      BY <1>0, <3>3 DEF PersistPanics, Typed
    <3>4. CASE PersistFailed(r)
      BY <1>0, <3>1, <3>4 DEF PersistFailed, FailedStatus, Return, Typed
    <3>. QED
      BY <1>6, <3>2, <3>3, <3>4
  <2>4. /\ pc' \in [Procs -> Pcs]
        /\ pc'[r] \in {"done", "audit", "dead"} /\ \A q \in Procs \ {r} : pc'[q] = pc[q]
    BY <1>0, <2>1, ZenonT(30) DEF Pcs, Typed
  <2>5. Document(r) \in Traces /\ (output[r] # Absent => Document(r).output # Absent)
    BY <1>0, <2>1, DocumentType DEF Placed
  <2>6. /\ traceFile' \in [Runs -> Traces \union {Absent, Truncated}]
        /\ traceFile'[r] = Document(r) /\ \A q \in Runs \ {r} : traceFile'[q] = traceFile[q]
    BY <1>0, <2>1, <2>5 DEF Typed
  <2>7. Typed'
    BY <1>0, <2>1, <2>3, <2>4, <2>6 DEF Typed, memory
  <2>8. Answered(r)'
    BY <1>0, <2>1, <2>5, <2>6 DEF Answered, Document, memory
  <2>9. Placed(r)'
    BY <1>0, <2>1, <2>4 DEF Placed, Launching, memory
  <2>10. \A q \in Procs \ {r} : Same(q)
    BY <2>1, <2>4, <2>6 DEF Same, memory
  <2>. QED
    BY <1>0, <2>7, <2>8, <2>9, <2>10, OneMoves
<1>7. CASE PersistFails(r)
  <2>1. \E status \in {"", "failed"} : Return(r, status, TRUE, verdicts[r])
    BY <1>7 DEF PersistFails, FailedStatus
  <2>2. verdicts[r] \in Seq(Verdicts)
    BY <1>0 DEF Typed
  <2>3. /\ result' \in [Procs -> Results] /\ pc' \in [Procs -> Pcs]
        /\ pc'[r] = "done" /\ \A q \in Procs \ {r} : pc'[q] = pc[q]
    BY <1>0, <2>1, <2>2, ReturnType, ZenonT(30)
  <2>4. left' \in [calls : [Runs -> Nat], edits : Nat, writes : Nat, faults : Nat, crashes : Nat]
    BY <1>0, <1>7, SpentType DEF PersistFails
  <2>5. Typed'
    BY <1>0, <1>7, <2>3, <2>4 DEF PersistFails, Typed, memory
  <2>6. Placed(r)' /\ Answered(r)'
    BY <1>0, <1>7, <2>3 DEF PersistFails, Placed, Answered, Launching, Complete, memory
  <2>7. \A q \in Procs \ {r} : Same(q)
    BY <1>7, <2>3 DEF PersistFails, Same, memory
  <2>. QED
    BY <1>0, <2>5, <2>6, <2>7, OneMoves
<1>8. CASE ShellTimesOut(r)
  BY <1>8, ShellEndsPlaced DEF ShellTimesOut, Classes
<1>. QED
  BY <1>1, <1>2, <1>3, <1>4, <1>5, <1>6, <1>7, <1>8 DEF RunStep

(* The calls of an adapter, and its return.                                 *)
LEMMA PutType ==
    ASSUME Typed, NEW place \in Places, NEW n \in Names, NEW c \in Contents \union {Absent},
           Put(place, n, c)
    PROVE  /\ files' \in [Places -> Repositories] /\ stable' \in [Runs -> BOOLEAN]
           /\ child' \in [Procs -> Children]
           /\ \A q \in Procs : child'[q].cmd = child[q].cmd
<1>1. files[place] \in Repositories
  BY DEF Typed
<1>2. [files[place] EXCEPT ![n] = c] \in Repositories
  BY <1>1 DEF Repositories
<1>3. stable' \in [Runs -> BOOLEAN]
  <2>1. \A r \in Runs : stable[r] \in BOOLEAN
    BY DEF Typed
  <2>. QED
    BY <2>1, Zenon DEF Put
<1>4. ASSUME NEW q \in Procs
      PROVE  child'[q] \in Children /\ child'[q].cmd = child[q].cmd
  <2> DEFINE still == child[q].quiet /\ ~(Launching(q) /\ Workdir(q, Verifier(q)) = place)
  <2>1. child'[q] = [child[q] EXCEPT !.quiet = still]
    BY DEF Put
  <2>2. child[q] \in Children /\ still \in BOOLEAN
    BY DEF Typed
  <2> HIDE DEF still
  <2>. QED
    BY <2>1, <2>2 DEF Children
<1>5. child' \in [Procs -> Children]
  BY <1>4 DEF Put
<1>. QED
  BY <1>2, <1>3, <1>4, <1>5 DEF Put, Typed

LEMMA PlaceType ==
    ASSUME NEW r \in Runs, NEW path \in Paths
    PROVE  ActualPlace(r, path) \in Places /\ path[2] \in Names
BY SkillRunAssumption DEF ActualPlace, Paths, Procs

\* The fault of FSWriteFails is taken from both bounds.
FaultyCall(r) ==
    /\ left.calls[r] > 0 /\ left.faults > 0
    /\ left' = [left EXCEPT !.calls[r] = @ - 1, !.faults = @ - 1]

LEMMA CallType ==
    ASSUME Typed, NEW r \in Runs, CallSpent(r) \/ FaultyCall(r)
    PROVE  /\ left' \in [calls : [Runs -> Nat], edits : Nat, writes : Nat, faults : Nat, crashes : Nat]
           /\ left'.calls[r] < left.calls[r]
<1>1. left \in [calls : [Runs -> Nat], edits : Nat, writes : Nat, faults : Nat, crashes : Nat]
  BY DEF Typed
<1>2. left.calls \in [Runs -> Nat] /\ left.faults \in Nat
  BY <1>1
<1>3. left.calls[r] - 1 \in Nat /\ left.calls[r] - 1 < left.calls[r]
  BY <1>2 DEF CallSpent, FaultyCall
<1>4. [left.calls EXCEPT ![r] = @ - 1] \in [Runs -> Nat]
  BY <1>2, <1>3
<1>5. CASE CallSpent(r)
  <2>1. left' = [calls |-> [left.calls EXCEPT ![r] = @ - 1], edits |-> left.edits,
                 writes |-> left.writes, faults |-> left.faults, crashes |-> left.crashes]
    BY <1>1, <1>5 DEF CallSpent
  <2>. QED
    BY <1>1, <1>2, <1>3, <1>4, <2>1
<1>6. CASE FaultyCall(r)
  <2>1. left.faults - 1 \in Nat
    BY <1>2, <1>6 DEF FaultyCall
  <2>2. left' = [calls |-> [left.calls EXCEPT ![r] = @ - 1], edits |-> left.edits,
                 writes |-> left.writes, faults |-> left.faults - 1, crashes |-> left.crashes]
    BY <1>1, <1>6 DEF FaultyCall
  <2>. QED
    BY <1>1, <1>2, <1>3, <1>4, <2>1, <2>2
<1>. QED
  BY <1>5, <1>6

\* A tool call other than the launch of a command.
LEMMA ToolEffect ==
    ASSUME Typed, NEW r \in Runs, Tool(r), \A cmd \in Commands : ~ShellLaunch(r, cmd)
    PROVE  /\ Calling(r) /\ Unchanged
           /\ \E e \in Events : Logged(r, e)
           /\ CallSpent(r) \/ FaultyCall(r)
           /\ \/ Quiet
              \/ \E place \in Places, n \in Names, c \in Contents : Put(place, n, c)
<1>1. ASSUME NEW path \in Paths PROVE ActualPlace(r, path) \in Places /\ path[2] \in Names
  BY PlaceType
<1>2. "none" \in Classes /\ "PolicyViolation" \in Classes /\ "InvalidInput" \in Classes
      /\ "DriverError" \in Classes /\ Empty \in Contents
  BY SkillRunAssumption DEF Classes
<1>3. CASE \E path \in Paths : FSRead(r, path)
  <2> PICK path \in Paths : FSRead(r, path)
    BY <1>3
  <2>1. \E class \in Classes : Log(r, "fs.read", path, class)
    BY <1>2 DEF FSRead
  <2>2. \E e \in Events : Logged(r, e)
    BY <2>1, LogIsLogged
  <2>. QED
    BY <2>2 DEF FSRead
<1>4. CASE \E path \in Paths : FSWriteDenied(r, path) \/ FSWriteExists(r, path)
  <2> PICK path \in Paths : FSWriteDenied(r, path) \/ FSWriteExists(r, path)
    BY <1>4
  <2>1. \E class \in Classes : Log(r, "fs.write", path, class)
    BY <1>2 DEF FSWriteDenied, FSWriteExists
  <2>2. \E e \in Events : Logged(r, e)
    BY <2>1, LogIsLogged
  <2>. QED
    BY <2>2 DEF FSWriteDenied, FSWriteExists
<1>5. CASE \E path \in Paths : FSWriteFails(r, path)
  <2> PICK path \in Paths : FSWriteFails(r, path)
    BY <1>5
  <2>1. Log(r, "fs.write", path, "DriverError") /\ FaultyCall(r)
    BY DEF FSWriteFails, FaultyCall
  <2>2. Quiet \/ Put(ActualPlace(r, path), path[2], Empty)
    BY DEF FSWriteFails
  <2>3. \E e \in Events : Logged(r, e)
    BY <1>2, <2>1, LogIsLogged
  <2>. QED
    BY <1>1, <1>2, <2>1, <2>2, <2>3 DEF FSWriteFails
<1>6. CASE \E path \in Paths, c \in Contents : FSWrite(r, path, c)
  <2> PICK path \in Paths, c \in Contents : FSWrite(r, path, c)
    BY <1>6
  <2>1. Log(r, "fs.write", path, "none") /\ Put(ActualPlace(r, path), path[2], c)
    BY DEF FSWrite
  <2>2. \E e \in Events : Logged(r, e)
    BY <1>2, <2>1, LogIsLogged
  <2>. QED
    BY <1>1, <2>1, <2>2 DEF FSWrite
<1>7. CASE \E cmd \in Commands : ShellDenied(r, cmd)
  <2> PICK cmd \in Commands : ShellDenied(r, cmd)
    BY <1>7
  <2>1. Log(r, "shell.exec", cmd, "PolicyViolation")
    BY DEF ShellDenied
  <2>2. \E e \in Events : Logged(r, e)
    BY <1>2, <2>1, LogIsLogged
  <2>. QED
    BY <2>2 DEF ShellDenied
<1>. QED
  BY <1>3, <1>4, <1>5, <1>6, <1>7 DEF Tool

LEMMA AdapterPlaced ==
    ASSUME PlacedInv, NEW r \in Runs, Adapter(r)
    PROVE  PlacedInv'
<1>0. r \in Procs /\ r \notin Audits /\ Typed /\ Placed(r) /\ Answered(r)
  BY ProcsType DEF PlacedInv
<1>1. CASE Tool(r) /\ \A cmd \in Commands : ~ShellLaunch(r, cmd)
  <2>1. Calling(r) /\ Unchanged
    BY <1>0, <1>1, ToolEffect
  <2>2. tools' \in [Runs -> Seq(Events)] /\ calls' \in [Runs -> Seq(Events)]
    BY <1>0, <1>1, ToolEffect, LogType
  <2>3. left' \in [calls : [Runs -> Nat], edits : Nat, writes : Nat, faults : Nat, crashes : Nat]
    BY <1>0, <1>1, ToolEffect, CallType
  <2>4. /\ files' \in [Places -> Repositories] /\ stable' \in [Runs -> BOOLEAN]
        /\ child' \in [Procs -> Children]
        /\ \A q \in Procs : child'[q].cmd = child[q].cmd
    <3>1. CASE Quiet
      BY <1>0, <3>1 DEF Typed, Quiet
    <3>. QED
      BY <1>0, <1>1, <3>1, ToolEffect, PutType
  <2>5. Typed'
    BY <1>0, <2>1, <2>2, <2>3, <2>4 DEF Typed, Unchanged
  <2>6. Placed(r)' /\ Answered(r)'
    BY <1>0, <2>1 DEF Calling, Unchanged, Placed, Answered, Launching, Complete
  <2>7. \A q \in Procs \ {r} : Same(q)
    BY <2>1, <2>4 DEF Unchanged, Same
  <2>. QED
    BY <1>0, <2>5, <2>6, <2>7, OneMoves
<1>4. ASSUME NEW cmd \in Commands, ShellLaunch(r, cmd) PROVE PlacedInv'
  <2>1. /\ child' \in [Procs -> Children]
        /\ child'[r] = Command(cmd) /\ \A q \in Procs \ {r} : child'[q] = child[q]
    BY <1>0, <1>4, CommandGone DEF ShellLaunch
  <2>2. /\ pc' \in [Procs -> Pcs]
        /\ pc'[r] = "shell" /\ \A q \in Procs \ {r} : pc'[q] = pc[q]
    BY <1>0, <1>4, GotoType DEF ShellLaunch, Pcs
  <2>3. left' \in [calls : [Runs -> Nat], edits : Nat, writes : Nat, faults : Nat, crashes : Nat]
    BY <1>0, <1>4, CallType DEF ShellLaunch
  <2>4. Typed'
    BY <1>0, <1>4, <2>1, <2>2, <2>3 DEF ShellLaunch, Typed
  <2>5. child'[r].cmd = cmd
    BY <2>1 DEF Command
  <2>6. Placed(r)' /\ Answered(r)'
    BY <1>0, <1>4, <2>2, <2>5
       DEF ShellLaunch, Calling, Placed, Answered, Launching, Complete
  <2>7. \A q \in Procs \ {r} : Same(q)
    BY <1>4, <2>1, <2>2 DEF ShellLaunch, Same
  <2>. QED
    BY <1>0, <2>4, <2>6, <2>7, OneMoves
<1>2. CASE ExecuteFails(r)
  <2>1. /\ pc' \in [Procs -> Pcs]
        /\ pc'[r] = "persist" /\ \A q \in Procs \ {r} : pc'[q] = pc[q]
    BY <1>0, <1>2, GotoType DEF ExecuteFails, Pcs
  <2>2. /\ final' \in [Runs -> {"", "passed", "failed"}]
        /\ final'[r] = "failed" /\ \A q \in Runs \ {r} : final'[q] = final[q]
    BY <1>0, <1>2 DEF ExecuteFails, Typed
  <2>3. Typed'
    BY <1>0, <1>2, <2>1, <2>2 DEF ExecuteFails, Typed
  <2>4. Placed(r)' /\ Answered(r)'
    BY <1>0, <1>2, <2>1, <2>2
       DEF ExecuteFails, Calling, Placed, Answered, Launching, Complete
  <2>5. \A q \in Procs \ {r} : Same(q)
    BY <1>2, <2>1, <2>2 DEF ExecuteFails, Same
  <2>. QED
    BY <1>0, <2>3, <2>4, <2>5, OneMoves
<1>3. ASSUME NEW out \in Outputs, ExecuteReturns(r, out) PROVE PlacedInv'
  <2>1. out \in Answers /\ out # Absent
    BY SkillRunAssumption, AbsentAssumption
  <2>2. /\ pc' \in [Procs -> Pcs]
        /\ pc'[r] = "verify" /\ \A q \in Procs \ {r} : pc'[q] = pc[q]
    BY <1>0, <1>3, GotoType DEF ExecuteReturns, Pcs
  <2>3. /\ output' \in [Procs -> Answers \union {Absent}]
        /\ output'[r] # Absent /\ \A q \in Procs \ {r} : output'[q] = output[q]
    BY <1>0, <1>3, <2>1 DEF ExecuteReturns, Typed
  <2>4. stable' \in [Runs -> BOOLEAN]
    BY <1>0, <1>3 DEF ExecuteReturns, Typed
  <2>5. Typed'
    BY <1>0, <1>3, <2>2, <2>3, <2>4 DEF ExecuteReturns, Typed
  <2>6. Placed(r)' /\ Answered(r)'
    BY <1>0, <1>3, <2>2, <2>3
       DEF ExecuteReturns, Calling, Placed, Answered, Launching, Complete
  <2>7. \A q \in Procs \ {r} : Same(q)
    BY <1>3, <2>2, <2>3 DEF ExecuteReturns, Same
  <2>. QED
    BY <1>0, <2>5, <2>6, <2>7, OneMoves
<1>. QED
  BY <1>1, <1>2, <1>3, <1>4 DEF Adapter

(* A verifier adds its event, or is launched.                               *)
LEMMA VerdictType ==
    ASSUME PlacedInv, NEW p \in Procs, NEW ok \in BOOLEAN, Verifying(p) \/ Launching(p),
           Pending(p), Verdict(p, ok)
    PROVE  /\ verdicts' \in [Procs -> Seq(Verdicts)] /\ pc' \in [Procs -> Pcs]
           /\ verdicts'[p] = Append(verdicts[p], [name |-> Verifier(p).name, passed |-> ok])
           /\ pc'[p] = IF ok THEN IF pc[p] \in {"verify", "command"} THEN "verify" ELSE "reverify"
                       ELSE IF pc[p] \in {"verify", "command"} THEN "rejected" ELSE "refuted"
           /\ \A q \in Procs \ {p} : verdicts'[q] = verdicts[q] /\ pc'[q] = pc[q]
<1>0. Typed /\ Placed(p)
  BY DEF PlacedInv
<1>1. manifest[p] # Absent
  BY <1>0 DEF Placed, Verifying, Launching
<1>2. [name |-> Verifier(p).name, passed |-> ok] \in Verdicts
  BY <1>0, <1>1, VerifierType DEF Verdicts
<1>3. verdicts[p] \in Seq(Verdicts)
  BY <1>0 DEF Typed
<1>4. Append(verdicts[p], [name |-> Verifier(p).name, passed |-> ok]) \in Seq(Verdicts)
  BY <1>2, <1>3
<1>5. /\ verdicts' \in [Procs -> Seq(Verdicts)]
      /\ verdicts'[p] = Append(verdicts[p], [name |-> Verifier(p).name, passed |-> ok])
      /\ \A q \in Procs \ {p} : verdicts'[q] = verdicts[q]
  BY <1>0, <1>4 DEF Verdict, Typed
<1>6. pc' = [pc EXCEPT ![p] =
        IF ok THEN IF pc[p] \in {"verify", "command"} THEN "verify" ELSE "reverify"
        ELSE IF pc[p] \in {"verify", "command"} THEN "rejected" ELSE "refuted"]
  BY <1>0 DEF Verdict, Verifying, Launching, Passed, Failed, Typed
<1>. QED
  BY <1>0, <1>5, <1>6 DEF Pcs, Typed

LEMMA VerdictPlaced ==
    ASSUME PlacedInv, NEW p \in Procs, NEW ok \in BOOLEAN, Verifying(p) \/ Launching(p),
           Pending(p), Verdict(p, ok),
           UNCHANGED stable \/ stable' = [stable EXCEPT ![SubjectOf(p)] = FALSE],
           UNCHANGED left \/ FaultSpent
    PROVE  PlacedInv'
<1>0. Typed /\ Placed(p) /\ (p \in Runs => Answered(p))
  BY DEF PlacedInv
<1>1. /\ verdicts' \in [Procs -> Seq(Verdicts)] /\ pc' \in [Procs -> Pcs]
      /\ pc'[p] \in IF pc[p] \in {"verify", "command"} THEN {"verify", "rejected"}
                    ELSE {"reverify", "refuted"}
      /\ \A q \in Procs \ {p} : verdicts'[q] = verdicts[q] /\ pc'[q] = pc[q]
  BY VerdictType
<1>2. stable' \in [Runs -> BOOLEAN]
  BY <1>0, SubjectType DEF Typed
<1>6. left' \in [calls : [Runs -> Nat], edits : Nat, writes : Nat, faults : Nat, crashes : Nat]
  <2>1. CASE UNCHANGED left
    BY <1>0, <2>1 DEF Typed
  <2>. QED
    BY <1>0, <2>1, SpentType
<1>7. child' \in [Procs -> Children] /\ \A q \in Procs \ {p} : child'[q] = child[q]
  BY <1>0, CommandGone DEF Verdict
<1>3. Typed'
  BY <1>0, <1>1, <1>2, <1>6, <1>7 DEF Verdict, Typed
<1>4. Placed(p)' /\ (p \in Runs => Answered(p)')
  BY <1>0, <1>1
     DEF Verdict, Verifying, Launching, Placed, Answered, Complete, AuditPcs
<1>5. \A q \in Procs \ {p} : Same(q)
  BY <1>1, <1>7 DEF Verdict, Same
<1>. QED
  BY <1>0, <1>3, <1>4, <1>5, OneMoves

LEMMA VerifiersPlaced ==
    ASSUME PlacedInv, NEW p \in Procs, RunVerifiers(p)
    PROVE  PlacedInv'
<1>0. Typed /\ Placed(p) /\ (p \in Runs => Answered(p))
  BY DEF PlacedInv
<1>1. CASE SchemaVerifier(p)
  <2>1. output[p] \in Answers
    BY <1>0, <1>1 DEF SchemaVerifier, Verifying, Placed, Typed
  <2>2. output[p].complete \in BOOLEAN
    BY <2>1 DEF Answers
  <2>. QED
    BY <1>1, <2>2, VerdictPlaced DEF SchemaVerifier
<1>2. CASE CommandRefused(p)
  BY <1>2, VerdictPlaced DEF CommandRefused
<1>3. CASE CommandTimesOut(p)
  <2>1. Pending(p)
    BY <1>0, <1>3 DEF CommandTimesOut, Placed
  <2>. QED
    BY <1>3, <2>1, VerdictPlaced DEF CommandTimesOut, Inconclusive
<1>4. CASE CommandFails(p)
  BY <1>4, VerdictPlaced DEF CommandFails, Inconclusive
<1>5. CASE CommandLaunch(p) \/ VerifierUnknown(p)
  <2>1. /\ pc' \in [Procs -> Pcs]
        /\ \A q \in Procs \ {p} : pc'[q] = pc[q]
        /\ pc'[p] \in IF pc[p] = "verify" THEN {"command", "rejected"}
                      ELSE {"recommand", "refuted"}
        /\ Verifying(p) /\ Pending(p)
        /\ pc'[p] \in {"command", "recommand"} =>
              Verifier(p).kind = "command" /\ Verifier(p).contract
    BY <1>0, <1>5 DEF CommandLaunch, VerifierUnknown, Verifying, Launched, Failed, Pcs, Typed
  <2>2. UNCHANGED <<files, declared, manifest, tools, verdicts, output, final, traceFile, evidence,
                    result, calls, stable, left>>
    BY <1>5 DEF CommandLaunch, VerifierUnknown, memory
  <2>6. child' \in [Procs -> Children] /\ \A q \in Procs \ {p} : child'[q] = child[q]
    <3>1. CASE CommandLaunch(p)
      BY <1>0, <3>1, CommandGone DEF CommandLaunch
    <3>2. CASE VerifierUnknown(p)
      BY <1>0, <3>2 DEF VerifierUnknown, memory, Typed
    <3>. QED
      BY <1>5, <3>1, <3>2
  <2>3. Typed'
    BY <1>0, <2>1, <2>2, <2>6 DEF Typed
  <2>4. Placed(p)' /\ (p \in Runs => Answered(p)')
    BY <1>0, <2>1, <2>2
       DEF Verifying, Launching, Pending, Verifier, Placed, Answered, Complete, AuditPcs
  <2>5. \A q \in Procs \ {p} : Same(q)
    BY <2>1, <2>2, <2>6 DEF Same
  <2>. QED
    BY <1>0, <2>3, <2>4, <2>5, OneMoves
<1>. QED
  BY <1>1, <1>2, <1>3, <1>4, <1>5 DEF RunVerifiers

\* A command leaves a process behind, or the last of them lets go.
LEMMA HeldType ==
    ASSUME Typed, NEW p \in Procs, CommandForks(p) \/ CommandLetsGo(p)
    PROVE  /\ child' \in [Procs -> Children]
           /\ \A q \in Procs : child'[q].cmd = child[q].cmd /\ child'[q].quiet = child[q].quiet
<1>1. PICK held \in BOOLEAN : child' = [child EXCEPT ![p].held = held]
  BY DEF CommandForks, CommandLetsGo
<1>2. child[p] \in Children
  BY DEF Typed
<1>3. /\ [child[p] EXCEPT !.held = held] \in Children
      /\ [child[p] EXCEPT !.held = held].cmd = child[p].cmd
      /\ [child[p] EXCEPT !.held = held].quiet = child[p].quiet
  BY <1>2 DEF Children
<1>4. child' = [child EXCEPT ![p] = [child[p] EXCEPT !.held = held]]
  BY <1>1
<1>. QED
  BY <1>3, <1>4 DEF Typed

(* A command, of shell.exec or of a verifier.                               *)
LEMMA ChildPlaced ==
    ASSUME PlacedInv, NEW p \in Procs, Child(p)
    PROVE  PlacedInv'
<1>0. Typed /\ Placed(p) /\ (p \in Runs => Answered(p))
  BY DEF PlacedInv
<1>1. CASE CommandExits(p)
  <2>1. Pending(p)
    BY <1>0, <1>1 DEF CommandExits, Placed
  <2>. QED
    BY <1>1, <2>1, VerdictPlaced DEF CommandExits
<1>2. CASE p \in Runs /\ ShellReturns(p)
  BY <1>2, ShellEndsPlaced DEF ShellReturns, Classes
<1>3. CASE CommandForks(p) \/ CommandLetsGo(p)
  <2>2. child' \in [Procs -> Children] /\ \A q \in Procs : child'[q].cmd = child[q].cmd
    BY <1>0, <1>3, HeldType
  <2>3. UNCHANGED <<files, declared, pc, manifest, tools, verdicts, output, final, traceFile,
                    evidence, result, calls, stable, left>>
    BY <1>3 DEF CommandForks, CommandLetsGo
  <2>4. Typed'
    BY <1>0, <2>2, <2>3 DEF Typed
  <2>5. ASSUME NEW q \in Procs PROVE Same(q)
    BY <2>2, <2>3 DEF Same
  <2>. QED
    BY <2>4, <2>5, SameKeepsPlaced, ProcsType DEF PlacedInv
<1>4. ASSUME NEW place \in Places, NEW n \in Names, NEW c \in Contents \union {Absent},
             CommandWrites(p, place, n, c)
      PROVE  PlacedInv'
  <2>1. /\ files' \in [Places -> Repositories] /\ stable' \in [Runs -> BOOLEAN]
        /\ child' \in [Procs -> Children]
        /\ \A q \in Procs : child'[q].cmd = child[q].cmd
    BY <1>0, <1>4, PutType DEF CommandWrites
  <2>2. left' \in [calls : [Runs -> Nat], edits : Nat, writes : Nat, faults : Nat, crashes : Nat]
    BY <1>0, <1>4, SpentType DEF CommandWrites
  <2>3. Typed'
    BY <1>0, <1>4, <2>1, <2>2 DEF CommandWrites, Typed
  <2>4. ASSUME NEW q \in Procs PROVE Same(q)
    BY <1>4, <2>1 DEF CommandWrites, Same
  <2>. QED
    BY <2>3, <2>4, SameKeepsPlaced, ProcsType DEF PlacedInv
<1>. QED
  BY <1>1, <1>2, <1>3, <1>4 DEF Child

(* The steps of Verify.                                                     *)
LEMMA AuditStepPlaced ==
    ASSUME PlacedInv, NEW p \in Procs, AuditStep(p)
    PROVE  PlacedInv'
<1>0. Typed /\ Placed(p) /\ (p \in Runs => Answered(p))
  BY DEF PlacedInv
<1>s. SubjectOf(p) \in Runs /\ traceFile[SubjectOf(p)] \in Traces \union {Absent, Truncated}
  BY <1>0, SubjectType DEF Typed
<1>1. CASE AuditUnreadable(p) \/ AuditLoadFails(p) \/ AuditOutOfScope(p)
           \/ AuditRefuted(p) \/ AuditPasses(p)
  <2>1. \E status \in {"", "passed", "failed"}, path \in BOOLEAN :
           Return(p, status, path, <<>>) \/ Return(p, status, path, verdicts[p])
    <3>1. CASE AuditUnreadable(p)
      BY <3>1 DEF AuditUnreadable
    <3>2. CASE AuditLoadFails(p)
      BY <3>2 DEF AuditLoadFails
    <3>3. CASE AuditOutOfScope(p) \/ AuditRefuted(p) \/ AuditPasses(p)
      BY <3>3 DEF AuditOutOfScope, AuditRefuted, AuditPasses
    <3>. QED
      BY <1>1, <3>1, <3>2, <3>3
  <2>2. UNCHANGED <<files, declared, memory, traceFile, evidence, calls, stable, left>>
    BY <1>1
       DEF AuditUnreadable, AuditLoadFails, AuditOutOfScope, AuditRefuted, AuditPasses
  <2>7. verdicts[p] \in Seq(Verdicts)
    BY <1>0 DEF Typed
  <2>8. <<>> \in Seq(Verdicts)
    OBVIOUS
  <2>3. /\ result' \in [Procs -> Results] /\ pc' \in [Procs -> Pcs]
        /\ pc'[p] = "done" /\ \A q \in Procs \ {p} : pc'[q] = pc[q]
    <3> PICK status \in {"", "passed", "failed"}, path \in BOOLEAN :
               Return(p, status, path, <<>>) \/ Return(p, status, path, verdicts[p])
      BY <2>1
    <3>1. \E summary \in Seq(Verdicts) : Return(p, status, path, summary)
      BY <2>7, <2>8
    <3>. QED
      BY <1>0, <3>1, ReturnType, ZenonT(60)
  <2>4. Typed'
    BY <1>0, <2>2, <2>3 DEF Typed, memory
  <2>5. Placed(p)' /\ (p \in Runs => Answered(p)')
    BY <1>0, <2>2, <2>3 DEF Placed, Answered, Launching, Complete, memory
  <2>6. \A q \in Procs \ {p} : Same(q)
    BY <2>2, <2>3 DEF Same, memory
  <2>. QED
    BY <1>0, <2>4, <2>5, <2>6, OneMoves
<1>2. CASE AuditRefuses(p)
  <2>1. traceFile[SubjectOf(p)] \in Traces
    BY <1>s, <1>2 DEF AuditRefuses, Readable
  <2>2. /\ evidence' \in [Procs -> Traces \union {Absent}]
        /\ \A q \in Procs \ {p} : evidence'[q] = evidence[q]
    BY <1>0, <1>2, <2>1 DEF AuditRefuses, Typed
  <2>3. <<>> \in Seq(Verdicts)
    OBVIOUS
  <2>4. /\ result' \in [Procs -> Results] /\ pc' \in [Procs -> Pcs]
        /\ pc'[p] = "done" /\ \A q \in Procs \ {p} : pc'[q] = pc[q]
    BY <1>0, <1>2, <2>3, ReturnType DEF AuditRefuses
  <2>5. Typed'
    BY <1>0, <1>2, <2>2, <2>4 DEF AuditRefuses, Typed, memory
  <2>6. Placed(p)' /\ (p \in Runs => Answered(p)')
    BY <1>0, <1>2, <2>4 DEF AuditRefuses, Placed, Answered, Launching, Complete, memory
  <2>7. \A q \in Procs \ {p} : Same(q)
    BY <1>2, <2>2, <2>4 DEF AuditRefuses, Same, memory
  <2>. QED
    BY <1>0, <2>5, <2>6, <2>7, OneMoves
<1>3. CASE AuditRead(p)
  <2>1. traceFile[SubjectOf(p)] \in Traces /\ traceFile[SubjectOf(p)].final = "passed"
        /\ Complete(traceFile[SubjectOf(p)])
    BY <1>s, <1>3 DEF AuditRead, Readable, Complete
  <2>2. traceFile[SubjectOf(p)].output # Absent
    BY <1>s, <2>1 DEF PlacedInv, Answered
  <2>3. /\ evidence' \in [Procs -> Traces \union {Absent}]
        /\ evidence'[p] = traceFile[SubjectOf(p)]
        /\ \A q \in Procs \ {p} : evidence'[q] = evidence[q]
    BY <1>0, <1>3, <2>1 DEF AuditRead, Typed
  <2>4. /\ pc' \in [Procs -> Pcs]
        /\ pc'[p] = "reload" /\ \A q \in Procs \ {p} : pc'[q] = pc[q]
    BY <1>0, <1>3, GotoType DEF AuditRead, Pcs
  <2>5. Typed'
    BY <1>0, <1>3, <2>3, <2>4 DEF AuditRead, Typed, memory
  <2>6. Placed(p)' /\ (p \in Runs => Answered(p)')
    BY <1>0, <1>3, <2>1, <2>2, <2>3, <2>4, AbsentAssumption
       DEF AuditRead, Placed, Answered, Launching, Complete, AuditPcs, memory
  <2>7. \A q \in Procs \ {p} : Same(q)
    BY <1>3, <2>3, <2>4 DEF AuditRead, Same, memory
  <2>. QED
    BY <1>0, <2>5, <2>6, <2>7, OneMoves
<1>4. CASE AuditPanics(p)
  <2>1. /\ pc' \in [Procs -> Pcs]
        /\ pc'[p] = "dead" /\ \A q \in Procs \ {p} : pc'[q] = pc[q]
    BY <1>0, <1>4, GotoType DEF AuditPanics, Pcs
  <2>2. Typed'
    BY <1>0, <1>4, <2>1 DEF AuditPanics, Typed, memory
  <2>3. Placed(p)' /\ (p \in Runs => Answered(p)')
    BY <1>0, <1>4, <2>1 DEF AuditPanics, Placed, Answered, Launching, Complete, memory
  <2>4. \A q \in Procs \ {p} : Same(q)
    BY <1>4, <2>1 DEF AuditPanics, Same, memory
  <2>. QED
    BY <1>0, <2>2, <2>3, <2>4, OneMoves
<1>5. CASE AuditLoad(p)
  <2>1. evidence[p] \in Traces /\ evidence[p].output # Absent
    BY <1>0, <1>5 DEF AuditLoad, Placed, Typed
  <2>2. evidence[p].output \in Answers
    BY <2>1 DEF Traces
  <2>3. Manifest(p) \in Manifests /\ Manifest(p) # Absent
    BY <1>0, <1>5, SubjectType DEF AuditLoad, Usable, Manifest, Typed
  <2>4. /\ manifest' \in [Procs -> Manifests \union {Absent}] /\ manifest'[p] # Absent
        /\ \A q \in Procs \ {p} : manifest'[q] = manifest[q]
    BY <1>0, <1>5, <2>3 DEF AuditLoad, Typed
  <2>5. /\ output' \in [Procs -> Answers \union {Absent}] /\ output'[p] # Absent
        /\ \A q \in Procs \ {p} : output'[q] = output[q]
    BY <1>0, <1>5, <2>1, <2>2 DEF AuditLoad, Typed
  <2>6. <<>> \in Seq(Verdicts)
    OBVIOUS
  <2>7. /\ verdicts' \in [Procs -> Seq(Verdicts)]
        /\ \A q \in Procs \ {p} : verdicts'[q] = verdicts[q]
    BY <1>0, <1>5, <2>6 DEF AuditLoad, Typed
  <2>8. /\ pc' \in [Procs -> Pcs]
        /\ pc'[p] = "reverify" /\ \A q \in Procs \ {p} : pc'[q] = pc[q]
    BY <1>0, <1>5, GotoType DEF AuditLoad, Pcs
  <2>9. Typed'
    BY <1>0, <1>5, <2>4, <2>5, <2>7, <2>8 DEF AuditLoad, Typed
  <2>10. Placed(p)' /\ (p \in Runs => Answered(p)')
    BY <1>0, <1>5, <2>4, <2>5, <2>8
       DEF AuditLoad, Placed, Answered, Launching, Complete, AuditPcs
  <2>11. \A q \in Procs \ {p} : Same(q)
    BY <1>5, <2>4, <2>5, <2>7, <2>8 DEF AuditLoad, Same
  <2>. QED
    BY <1>0, <2>9, <2>10, <2>11, OneMoves
<1>. QED
  BY <1>1, <1>2, <1>3, <1>4, <1>5 DEF AuditStep

(* Editors and kills.                                                       *)
LEMMA OutsidePlaced ==
    ASSUME PlacedInv, Outside
    PROVE  PlacedInv'
<1>0. Typed
  BY DEF PlacedInv
<1>1. UNCHANGED <<pc, manifest, tools, verdicts, output, final, traceFile, evidence, result,
                  calls>>
  BY DEF Outside, Edit, Redeclare, memory
<1>2. left' \in [calls : [Runs -> Nat], edits : Nat, writes : Nat, faults : Nat, crashes : Nat]
  BY <1>0, SpentType DEF Outside, Edit, Redeclare
<1>3. ASSUME NEW place \in Places, NEW n \in Names, NEW c \in Contents \union {Absent},
             Edit(place, n, c)
      PROVE  Typed' /\ \A q \in Procs : child'[q].cmd = child[q].cmd
  <2>1. /\ files' \in [Places -> Repositories] /\ stable' \in [Runs -> BOOLEAN]
        /\ child' \in [Procs -> Children]
        /\ \A q \in Procs : child'[q].cmd = child[q].cmd
    BY <1>0, <1>3, PutType DEF Edit
  <2>. QED
    BY <1>0, <1>1, <1>2, <1>3, <2>1 DEF Edit, Typed
<1>4. ASSUME NEW place \in Places, NEW m \in Manifests \union {Absent}, Redeclare(place, m)
      PROVE  Typed' /\ \A q \in Procs : child'[q].cmd = child[q].cmd
  <2>1. declared' \in [Places -> Manifests \union {Absent}]
    BY <1>0, <1>4 DEF Redeclare, Typed
  <2>2. stable' \in [Runs -> BOOLEAN]
    BY <1>0, <1>4 DEF Redeclare, Typed
  <2>. QED
    BY <1>0, <1>1, <1>2, <1>4, <2>1, <2>2 DEF Redeclare, Typed, memory
<1>5. Typed' /\ \A q \in Procs : child'[q].cmd = child[q].cmd
  BY <1>3, <1>4, SkillRunAssumption DEF Outside
<1>6. ASSUME NEW q \in Procs PROVE Same(q)
  BY <1>1, <1>5 DEF Same
<1>. QED
  BY <1>5, <1>6, SameKeepsPlaced, ProcsType DEF PlacedInv

LEMMA CrashPlaced ==
    ASSUME PlacedInv, NEW p \in Procs, Crash(p)
    PROVE  PlacedInv'
<1>0. Typed /\ Placed(p) /\ (p \in Runs => Answered(p))
  BY DEF PlacedInv
<1>1. /\ pc' \in [Procs -> Pcs]
      /\ pc'[p] = "dead" /\ \A q \in Procs \ {p} : pc'[q] = pc[q]
  BY <1>0, GotoType DEF Crash, Pcs
<1>2. left' \in [calls : [Runs -> Nat], edits : Nat, writes : Nat, faults : Nat, crashes : Nat]
  BY <1>0, SpentType DEF Crash
<1>6. child' \in [Procs -> Children] /\ \A q \in Procs \ {p} : child'[q] = child[q]
  BY <1>0, CommandGone DEF Crash
<1>3. Typed'
  BY <1>0, <1>1, <1>2, <1>6 DEF Crash, Typed
<1>4. Placed(p)' /\ (p \in Runs => Answered(p)')
  BY <1>0, <1>1 DEF Crash, Placed, Answered, Launching, Complete
<1>5. \A q \in Procs \ {p} : Same(q)
  BY <1>1, <1>6 DEF Crash, Same
<1>. QED
  BY <1>0, <1>3, <1>4, <1>5, OneMoves

LEMMA PlacedStep == PlacedInv /\ [Next]_vars => PlacedInv'
<1> SUFFICES ASSUME PlacedInv, [Next]_vars PROVE PlacedInv'
    OBVIOUS
<1>1. ASSUME NEW r \in Runs, Adapter(r) PROVE PlacedInv'
  BY <1>1, AdapterPlaced
<1>2. ASSUME NEW p \in Procs, Step(p) \/ Child(p) PROVE PlacedInv'
  BY <1>2, VerifiersPlaced, ChildPlaced, AuditStepPlaced, RunStepPlaced DEF Step
<1>3. ASSUME NEW p \in Procs, Crash(p) PROVE PlacedInv'
  BY <1>3, CrashPlaced
<1>4. CASE Outside
  BY <1>4, OutsidePlaced
<1>5. CASE UNCHANGED vars
  <2>1. Typed'
    BY <1>5 DEF vars, memory, PlacedInv, Typed
  <2>2. ASSUME NEW q \in Procs PROVE Same(q)
    BY <1>5 DEF Same, vars, memory
  <2>. QED
    BY <2>1, <2>2, SameKeepsPlaced, ProcsType DEF PlacedInv
<1>. QED
  BY <1>1, <1>2, <1>3, <1>4, <1>5 DEF Next

LEMMA PlacedInvariant == Spec => []PlacedInv
BY PlacedInit, PlacedStep, PTL DEF Spec

(* Wherever a process stands it finds the manifest, the answer, the         *)
(* evidence and the status that its next step uses, however its manifest    *)
(* and its repository change, and whatever fails or dies.                   *)
THEOREM TypeCorrect == Spec => []TypeOK
BY PlacedInvariant, PlacedTypeOK, PTL

-----------------------------------------------------------------------------
(* What the trace of a run says of the run, what a verify may conclude     *)
(* from it, and when a verify must agree with the run.                     *)

(* What is on record.  A trace is complete once its run has written it, and *)
(* is not touched again: what a verify read from it is what is there.       *)
Working == {"idle", "preflight", "execute", "shell", "verify", "command", "rejected", "persist",
            "writing"}

\* The events vs are passes of the verifiers cs, in their order.
Passes(vs, cs) == \A i \in DOMAIN vs : vs[i] = [name |-> cs[i].name, passed |-> TRUE]
PassesAll(vs, cs) == Len(vs) = Len(cs) /\ Passes(vs, cs)

Progress(p) ==
    /\ pc[p] \in {"idle", "preflight", "execute", "shell"} => verdicts[p] = <<>>
    /\ Verifying(p) \/ Launching(p) =>
          /\ Len(verdicts[p]) <= Len(manifest[p].checks)
          /\ Passes(verdicts[p], manifest[p].checks)

Recorded(r) ==
    /\ tools[r] = calls[r]
    /\ pc[r] \in Working => ~Complete(traceFile[r])
    /\ pc[r] \in {"audit"} \union AuditPcs => Complete(traceFile[r])
    /\ Complete(traceFile[r]) => Lists(traceFile[r], calls[r]) /\ traceFile[r].final = final[r]
    /\ pc[r] \in {"persist", "writing"} /\ final[r] = "passed" =>
          PassesAll(verdicts[r], manifest[r].checks)
    /\ Complete(traceFile[r]) /\ traceFile[r].final = "passed" =>
          PassesAll(traceFile[r].verdicts, traceFile[r].by.checks)

\* A system call of some process has failed.
Faulty == left.faults < MaxFaults

Outcome(r) ==
    /\ pc[r] \in Working => result[r].status = "" /\ ~result[r].path
    /\ pc[r] = "idle" => manifest[r] = Absent
    /\ r \notin Gates => pc[r] \notin {"audit"} \union AuditPcs
    /\ result[r].status = "passed" => Complete(traceFile[r]) /\ traceFile[r].final = "passed"
    /\ r \notin Gates /\ Complete(traceFile[r]) /\ traceFile[r].final = "passed" =>
          IF pc[r] = "done" THEN result[r].status = "passed" ELSE result[r].status = ""
    /\ result[r].path =>
          manifest[r] = Absent \/ Faulty \/ Complete(traceFile[r])

\* A claim that redaction leaves alone is in the trace.
Claimed(r) ==
    Complete(traceFile[r]) /\ traceFile[r].output # Absent =>
        \A path \in output[r].changed :
            manifest[r].masks[path] = path => path \in traceFile[r].output.changed

Audited(p) ==
    /\ evidence[p] # Absent =>
          Complete(traceFile[SubjectOf(p)]) /\ evidence[p] = traceFile[SubjectOf(p)]
    /\ pc[p] \in AuditPcs => evidence[p] # Absent /\ evidence[p].final = "passed" /\ ~Denied(evidence[p])
    /\ pc[p] \in {"reverify", "recommand", "refuted"} =>
          \A path \in Claims(p) : InScope(SubjectOf(p), path, manifest[p].writes)
    /\ p \in Audits /\ result[p].status = "passed" =>
          /\ pc[p] = "done"
          /\ evidence[p] # Absent /\ evidence[p].final = "passed" /\ ~Denied(evidence[p])
          /\ \A path \in Claims(p) : InScope(SubjectOf(p), path, manifest[p].writes)

Local(p) ==
    /\ Progress(p) /\ Audited(p)
    /\ p \in Runs => Recorded(p) /\ Outcome(p) /\ Claimed(p)

RecordInv ==
    /\ PlacedInv
    /\ left.faults <= MaxFaults
    /\ \A p \in Procs : Local(p)

\* The step leaves process q alone, and the trace it may have read.
Untouched(q) ==
    /\ Same(q) /\ result'[q] = result[q]
    /\ q \in Runs => tools'[q] = tools[q] /\ calls'[q] = calls[q]
    /\ \/ traceFile'[SubjectOf(q)] = traceFile[SubjectOf(q)]
       \/ ~Complete(traceFile[SubjectOf(q)])

LEMMA UntouchedKeepsLocal ==
    ASSUME RecordInv, NEW q \in Procs, Untouched(q), Faulty => Faulty'
    PROVE  Local(q)'
<1>0. Local(q)
  BY DEF RecordInv
<1> USE DEF Untouched, Same
<1>1. Progress(q)'
  BY <1>0 DEF Local, Progress, Verifying, Launching
<1>2. Audited(q)'
  BY <1>0 DEF Local, Audited, Claims, InScope, PolicyPlace, Complete, Denied
<1>3. ASSUME q \in Runs PROVE Recorded(q)' /\ Claimed(q)'
  BY <1>0, <1>3 DEF Local, Recorded, Claimed, Complete
<1>4. ASSUME q \in Runs PROVE Outcome(q)'
  BY <1>0, <1>4 DEF Local, Outcome, Complete
<1>. QED
  BY <1>1, <1>2, <1>3, <1>4 DEF Local

\* Faults are spent, never regained.
LEMMA FaultsOnlySpent ==
    ASSUME RecordInv, NEW spent \in Nat, spent > 0, left'.faults = left.faults - spent
    PROVE  Faulty' /\ left'.faults <= MaxFaults
<1>1. left.faults \in Nat /\ MaxFaults \in Nat
  BY SkillRunAssumption DEF RecordInv, PlacedInv, Typed
<1>2. left.faults <= MaxFaults
  BY DEF RecordInv
<1>. QED
  BY <1>1, <1>2 DEF Faulty

LEMMA OneRecords ==
    ASSUME RecordInv, NEW p \in Procs, PlacedInv',
           \/ left'.faults = left.faults
           \/ left'.faults = left.faults - 1,
           \A q \in Procs \ {p} : Untouched(q),
           Local(p)'
    PROVE  RecordInv'
<1>1. (Faulty => Faulty') /\ left'.faults <= MaxFaults
  <2>1. CASE left'.faults = left.faults
    BY <2>1 DEF Faulty, RecordInv
  <2>2. CASE left'.faults = left.faults - 1
    BY <2>2, FaultsOnlySpent
  <2>. QED
    BY <2>1, <2>2
<1>2. ASSUME NEW q \in Procs PROVE Local(q)'
  <2>1. CASE q = p
    BY <2>1
  <2>2. CASE q # p
    BY <1>1, <2>2, UntouchedKeepsLocal
  <2>. QED
    BY <2>1, <2>2
<1>. QED
  BY <1>1, <1>2 DEF RecordInv

LEMMA RecordInit == Init => RecordInv
<1> SUFFICES ASSUME Init PROVE RecordInv
    OBVIOUS
<1>1. PlacedInv
  BY PlacedInit
<1>2. left.faults <= MaxFaults
  <2>1. left.faults = MaxFaults /\ MaxFaults \in Nat
    BY SkillRunAssumption DEF Init
  <2>. QED
    BY <2>1
<1>3. ASSUME NEW p \in Procs PROVE Progress(p) /\ Audited(p)
  BY <1>3 DEF Init, Progress, Audited, Verifying, Launching, AuditPcs
<1>4. ASSUME NEW r \in Runs PROVE Recorded(r) /\ Outcome(r) /\ Claimed(r)
  BY <1>4, ProcsType DEF Init, Recorded, Outcome, Claimed, Complete, AuditPcs
<1>. QED
  BY <1>1, <1>2, <1>3, <1>4 DEF RecordInv, Local

-----------------------------------------------------------------------------
\* p moves from one place to another: what of it every step leaves alone.
Moves(p, l) == pc'[p] = l /\ \A q \in Procs \ {p} : pc'[q] = pc[q]

LEMMA Moved ==
    ASSUME PlacedInv, NEW p \in Procs, NEW l, pc' = [pc EXCEPT ![p] = l]
    PROVE  Moves(p, l)
BY DEF PlacedInv, Typed, Moves

LEMMA Returns ==
    ASSUME PlacedInv, NEW p \in Procs, NEW status, NEW path, NEW summary,
           Return(p, status, path, summary)
    PROVE  /\ Moves(p, "done")
           /\ result'[p].status = status /\ result'[p].path = path
           /\ \A q \in Procs \ {p} : result'[q] = result[q]
<1>1. pc \in [Procs -> Pcs] /\ result \in [Procs -> Results]
  BY DEF PlacedInv, Typed
<1>2. /\ result'[p] = [status |-> status, path |-> path, summary |-> summary]
      /\ \A q \in Procs \ {p} : result'[q] = result[q]
  BY <1>1 DEF Return
<1>. QED
  BY <1>1, <1>2 DEF Return, Moves

(* A run before its adapter: nothing is on record yet.                      *)
LEMMA RunStartsRecord ==
    ASSUME RecordInv, PlacedInv', NEW r \in Runs,
           \/ CheckResolveFails(r) \/ RunResolveFails(r) \/ RunLoadFails(r)
           \/ RunLoad(r) \/ RunExecute(r)
    PROVE  RecordInv'
<1>0. r \in Procs /\ r \notin Audits /\ PlacedInv /\ Local(r) /\ SubjectOf(r) = r
  BY ProcsType DEF RecordInv, SubjectOf
<1>1. CASE CheckResolveFails(r) \/ RunResolveFails(r) \/ RunLoadFails(r)
  <2>1. \E status \in {"", "failed"}, path \in BOOLEAN : Return(r, status, path, <<>>)
    BY <1>1 DEF CheckResolveFails, RunResolveFails, RunLoadFails
  <2>2. /\ pc[r] = "idle"
        /\ UNCHANGED <<files, declared, memory, traceFile, evidence, calls, stable, left>>
    BY <1>1 DEF CheckResolveFails, RunResolveFails, RunLoadFails
  <2>3. /\ Moves(r, "done") /\ result'[r].status # "passed"
        /\ \A q \in Procs \ {r} : result'[q] = result[q]
    BY <1>0, <2>1, Returns
  <2>4. Progress(r)' /\ Audited(r)'
    BY <1>0, <2>2, <2>3
       DEF Moves, Local, Progress, Audited, Verifying, Launching, AuditPcs, Complete, memory
  <2>5. Recorded(r)' /\ Outcome(r)' /\ Claimed(r)'
    BY <1>0, <2>2, <2>3
       DEF Moves, Local, Recorded, Outcome, Claimed, Working, AuditPcs, Complete, memory
  <2>6. \A q \in Procs \ {r} : Untouched(q)
    BY <2>2, <2>3 DEF Moves, Untouched, Same, memory
  <2>. QED
    BY <1>0, <2>2, <2>4, <2>5, <2>6, OneRecords DEF Local
<1>2. CASE RunLoad(r) \/ RunExecute(r)
  <2>1. /\ pc[r] \in {"idle", "preflight"}
        /\ \E l \in {"preflight", "execute"} : pc' = [pc EXCEPT ![r] = l]
        /\ UNCHANGED <<files, declared, tools, verdicts, output, final, child, traceFile, evidence,
                       result, calls, stable, left>>
    BY <1>2 DEF RunLoad, RunExecute, memory
  <2>2. Moves(r, "preflight") \/ Moves(r, "execute")
    BY <1>0, <2>1, Moved
  <2>3. \A q \in Procs \ {r} : manifest'[q] = manifest[q]
    BY <1>2, <1>0 DEF RunLoad, RunExecute, memory, PlacedInv, Typed
  <2>4. Progress(r)' /\ Audited(r)'
    BY <1>0, <2>1, <2>2
       DEF Moves, Local, Progress, Audited, Verifying, Launching, AuditPcs, Complete
  <2>5. Recorded(r)' /\ Outcome(r)' /\ Claimed(r)'
    BY <1>0, <2>1, <2>2
       DEF Moves, Local, Recorded, Outcome, Claimed, Working, AuditPcs, Complete
  <2>6. \A q \in Procs \ {r} : Untouched(q)
    BY <2>1, <2>2, <2>3 DEF Moves, Untouched, Same
  <2>. QED
    BY <1>0, <2>1, <2>4, <2>5, <2>6, OneRecords DEF Local
<1>. QED
  BY <1>1, <1>2

(* A run settles its final status; success follows the last verifier.       *)
LEMMA RunSettlesRecord ==
    ASSUME RecordInv, PlacedInv', NEW r \in Runs,
           RunRefused(r) \/ RunRejected(r) \/ RunAccepted(r) \/ ExecuteFails(r)
    PROVE  RecordInv'
<1>0. r \in Procs /\ r \notin Audits /\ PlacedInv /\ Local(r) /\ SubjectOf(r) = r
  BY ProcsType DEF RecordInv, SubjectOf
<1>1. /\ pc[r] \in {"preflight", "execute", "rejected", "verify"}
      /\ pc' = [pc EXCEPT ![r] = "persist"]
      /\ \E status \in {"passed", "failed"} :
            /\ final' = [final EXCEPT ![r] = status]
            /\ status = "passed" => pc[r] = "verify" /\ ~Pending(r)
      /\ UNCHANGED <<files, declared, manifest, tools, verdicts, output, child, traceFile, evidence,
                     result, calls, stable, left>>
  BY DEF RunRefused, RunRejected, RunAccepted, ExecuteFails, Calling
<1>2. Moves(r, "persist")
  BY <1>0, <1>1, Moved
<1>3. /\ final'[r] = "passed" => pc[r] = "verify" /\ ~Pending(r)
      /\ \A q \in Runs \ {r} : final'[q] = final[q]
  BY <1>0, <1>1 DEF PlacedInv, Typed
<1>4. final'[r] = "passed" => PassesAll(verdicts[r], manifest[r].checks)
  <2>1. ASSUME pc[r] = "verify", ~Pending(r)
        PROVE  PassesAll(verdicts[r], manifest[r].checks)
    <3>1. manifest[r] \in Manifests /\ verdicts[r] \in Seq(Verdicts)
      BY <1>0, <2>1, ZenonT(30) DEF PlacedInv, Placed, Typed
    <3>2. manifest[r].checks \in Seq(Verifiers)
      BY <3>1, ManifestType
    <3>3. Len(verdicts[r]) <= Len(manifest[r].checks) /\ Passes(verdicts[r], manifest[r].checks)
      BY <1>0, <2>1 DEF Local, Progress, Verifying
    <3>4. Len(verdicts[r]) = Len(manifest[r].checks)
      BY <2>1, <3>1, <3>2, <3>3 DEF Pending
    <3>. QED
      BY <3>3, <3>4 DEF PassesAll
  <2>. QED
    BY <1>3, <2>1
<1>5. Progress(r)' /\ Audited(r)'
  BY <1>0, <1>1, <1>2
     DEF Moves, Local, Progress, Audited, Verifying, Launching, AuditPcs, Complete
<1>6. Recorded(r)' /\ Outcome(r)' /\ Claimed(r)'
  BY <1>0, <1>1, <1>2, <1>4
     DEF Moves, Local, Recorded, Outcome, Claimed, Working, AuditPcs, Complete
<1>7. \A q \in Procs \ {r} : Untouched(q)
  BY <1>1, <1>2, <1>3 DEF Moves, Untouched, Same
<1>. QED
  BY <1>0, <1>1, <1>5, <1>6, <1>7, OneRecords DEF Local

(* What redaction leaves of the calls is what the trace lists of them.      *)
LEMMA DocumentLists ==
    ASSUME Typed, NEW r \in Runs, manifest[r] # Absent
    PROVE  Lists(Document(r), tools[r])
<1>1. manifest[r] \in Manifests /\ tools[r] \in Seq(Events)
  BY ProcsType DEF Typed
<1> DEFINE t == [i \in DOMAIN tools[r] |-> SanitizedEvent(manifest[r], tools[r][i])]
<1>2. ASSUME NEW i \in DOMAIN tools[r]
      PROVE  /\ t[i].op = tools[r][i].op
             /\ t[i].on # tools[r][i].on =>
                   tools[r][i].on \in Paths /\ t[i].on = manifest[r].masks[tools[r][i].on]
             /\ t[i].class # tools[r][i].class =>
                   tools[r][i].class \in manifest[r].hides /\ t[i].class = "REDACTED"
  <2>1. tools[r][i] \in Events
    BY <1>1, <1>2, SequenceFacts, Zenon
  <2>2. t[i] = SanitizedEvent(manifest[r], tools[r][i])
    BY <1>2
  <2>3. tools[r][i].op # "shell.exec" => tools[r][i].on \in Paths
    BY <2>1, EventType
  <2> HIDE DEF t
  <2>. QED
    BY <2>2, <2>3 DEF SanitizedEvent
<1>3. t \in [DOMAIN tools[r] -> Events]
  <2>1. \A i \in DOMAIN tools[r] : SanitizedEvent(manifest[r], tools[r][i]) \in Events
    BY <1>1, SequenceFacts, SanitizedType, Zenon
  <2>. QED
    BY <2>1, Zenon
<1>4. Len(t) = Len(tools[r])
  <2> HIDE DEF t
  <2>. QED
    BY <1>1, <1>3, SequenceFacts, Zenon
<1>5. Document(r).tools = t /\ Document(r).by = manifest[r]
  BY DEF Document
<1> HIDE DEF t
<1>. QED
  BY <1>2, <1>4, <1>5 DEF Lists

(* A run writes its trace.                                                  *)
LEMMA RunPersistsRecord ==
    ASSUME RecordInv, PlacedInv', NEW r \in Runs,
           PersistOpen(r) \/ PersistPassed(r) \/ PersistPanics(r) \/ PersistFailed(r)
             \/ PersistFails(r)
    PROVE  RecordInv'
<1>0. r \in Procs /\ r \notin Audits /\ PlacedInv /\ Local(r) /\ SubjectOf(r) = r
  BY ProcsType DEF RecordInv, SubjectOf
<1>1. CASE PersistOpen(r)
  <2>1. /\ pc[r] = "persist"
        /\ UNCHANGED <<files, declared, memory, evidence, result, calls, stable, left>>
    BY <1>1 DEF PersistOpen
  <2>2. Moves(r, "writing")
    BY <1>0, <1>1, Moved DEF PersistOpen
  <2>3. /\ traceFile'[r] = Truncated /\ \A q \in Runs \ {r} : traceFile'[q] = traceFile[q]
        /\ ~Complete(traceFile[r])
    BY <1>0, <1>1, <2>1, ZenonT(30) DEF PersistOpen, PlacedInv, Typed, Local, Recorded, Working
  <2>4. Progress(r)' /\ Audited(r)'
    BY <1>0, <2>1, <2>2, <2>3
       DEF Moves, Local, Progress, Audited, Verifying, Launching, AuditPcs, Complete, memory
  <2>5. Recorded(r)' /\ Outcome(r)' /\ Claimed(r)'
    BY <1>0, <2>1, <2>2, <2>3
       DEF Moves, Local, Recorded, Outcome, Claimed, Working, AuditPcs, Complete, memory
  <2>6. \A q \in Procs \ {r} : Untouched(q)
    BY <2>1, <2>2, <2>3, SubjectType DEF Moves, Untouched, Same, memory
  <2>. QED
    BY <1>0, <2>1, <2>4, <2>5, <2>6, OneRecords DEF Local
<1>2. CASE PersistPassed(r) \/ PersistPanics(r) \/ PersistFailed(r)
  <2>1. /\ pc[r] = "writing" /\ traceFile' = [traceFile EXCEPT ![r] = Document(r)]
        /\ UNCHANGED <<files, declared, memory, evidence, calls, stable, left>>
    BY <1>2 DEF PersistPassed, PersistPanics, PersistFailed
  <2>2. \/ /\ final[r] = "passed" /\ Moves(r, IF r \in Gates THEN "audit" ELSE "done")
           /\ result'[r].status = "passed"
        \/ final[r] = "passed" /\ Moves(r, "dead") /\ result' = result
        \/ final[r] = "failed" /\ Moves(r, "done") /\ result'[r].status # "passed"
    <3>1. CASE PersistPassed(r)
      <4>1. result'[r].status = "passed"
        BY <1>0, <3>1 DEF PersistPassed, PlacedInv, Typed
      <4>. QED
        BY <1>0, <3>1, <4>1, Moved DEF PersistPassed
    <3>2. CASE PersistPanics(r)
      BY <1>0, <3>2, Moved DEF PersistPanics
    <3>3. CASE PersistFailed(r)
      BY <1>0, <3>3, Returns, ZenonT(30) DEF PersistFailed, FailedStatus
    <3>. QED
      BY <1>2, <3>1, <3>2, <3>3
  <2>3. \A q \in Procs \ {r} : result'[q] = result[q]
    BY <1>0, <1>2 DEF PersistPassed, PersistPanics, PersistFailed, Return, PlacedInv, Typed
  <2>4. Document(r) \in Traces /\ Complete(Document(r))
    BY <1>0, <2>1, DocumentType, AbsentAssumption DEF PlacedInv, Placed, Complete
  <2>5. /\ traceFile'[r] = Document(r) /\ \A q \in Runs \ {r} : traceFile'[q] = traceFile[q]
        /\ ~Complete(traceFile[r])
    BY <1>0, <2>1, ZenonT(30) DEF PlacedInv, Typed, Local, Recorded, Working
  <2>6. /\ Document(r).final = final[r]
        /\ Document(r).verdicts = verdicts[r] /\ Document(r).by = manifest[r]
        /\ Document(r).output = Sanitized(manifest[r], output[r])
    BY DEF Document
  <2>13. Lists(Document(r), calls[r])
    <3>1. manifest[r] # Absent /\ tools[r] = calls[r]
      BY <1>0, <2>1 DEF PlacedInv, Placed, Local, Recorded
    <3>. QED
      BY <1>0, <3>1, DocumentLists DEF PlacedInv
  <2>7. Progress(r)'
    BY <1>0, <2>1, <2>2 DEF Moves, Progress, Verifying, Launching
  <2>8. Audited(r)'
    BY <1>0, <2>1, <2>2, <2>5
       DEF Moves, Local, Audited, AuditPcs, Complete, memory
  <2>9. Recorded(r)'
    BY <1>0, <2>1, <2>2, <2>4, <2>5, <2>6, <2>13
       DEF Moves, Local, Recorded, Working, AuditPcs, memory
  <2>10. Outcome(r)'
    BY <1>0, <2>1, <2>2, <2>4, <2>5, <2>6
       DEF Moves, Local, Outcome, Working, AuditPcs, memory
  <2>11. Claimed(r)'
    <3>1. ASSUME Document(r).output # Absent, NEW path \in output[r].changed,
                 manifest[r].masks[path] = path
          PROVE  path \in Document(r).output.changed
      <4>1. output[r] # Absent /\ output[r] \in Answers
        BY <1>0, <2>6, <3>1 DEF Sanitized, PlacedInv, Typed
      <4>2. Document(r).output.changed = {manifest[r].masks[x] : x \in output[r].changed}
        BY <2>6, <4>1 DEF Sanitized, Answers
      <4>. QED
        BY <3>1, <4>2
    <3>. QED
      BY <2>1, <2>5, <3>1 DEF Claimed, memory
  <2>12. \A q \in Procs \ {r} : Untouched(q)
    <3>1. \A q \in Procs \ {r} : pc'[q] = pc[q]
      BY <2>2 DEF Moves
    <3>. QED
      BY <2>1, <2>3, <2>5, <3>1, SubjectType DEF Untouched, Same, memory
  <2>. QED
    BY <1>0, <2>1, <2>7, <2>8, <2>9, <2>10, <2>11, <2>12, OneRecords DEF Local
<1>3. CASE PersistFails(r)
  <2>1. /\ Moves(r, "done") /\ result'[r].status # "passed"
        /\ \A q \in Procs \ {r} : result'[q] = result[q]
    BY <1>0, <1>3, Returns, ZenonT(30) DEF PersistFails, FailedStatus
  <2>2. /\ pc[r] \in {"persist", "writing"} /\ left'.faults = left.faults - 1
        /\ UNCHANGED <<files, declared, memory, traceFile, evidence, calls, stable>>
    BY <1>0, <1>3 DEF PersistFails, FaultSpent, PlacedInv, Typed
  <2>3. Faulty'
    BY <2>2, FaultsOnlySpent
  <2>4. Progress(r)' /\ Audited(r)'
    BY <1>0, <2>1, <2>2
       DEF Moves, Local, Progress, Audited, Verifying, Launching, AuditPcs, Complete, memory
  <2>5. Recorded(r)' /\ Outcome(r)' /\ Claimed(r)'
    BY <1>0, <2>1, <2>2, <2>3
       DEF Moves, Local, Recorded, Outcome, Claimed, Working, AuditPcs, Complete, memory
  <2>6. \A q \in Procs \ {r} : Untouched(q)
    BY <2>1, <2>2 DEF Moves, Untouched, Same, memory
  <2>. QED
    BY <1>0, <2>2, <2>4, <2>5, <2>6, OneRecords DEF Local
<1>. QED
  BY <1>1, <1>2, <1>3

\* What is logged is made: the trace in memory and the history grow alike.
LEMMA LoggedAlike ==
    ASSUME Typed, NEW r \in Runs, NEW e, Logged(r, e)
    PROVE  /\ tools[r] = calls[r] => tools'[r] = calls'[r]
           /\ \A q \in Runs \ {r} : tools'[q] = tools[q] /\ calls'[q] = calls[q]
<1>1. tools \in [Runs -> Seq(Events)] /\ calls \in [Runs -> Seq(Events)]
  BY DEF Typed
<1>. QED
  BY <1>1 DEF Logged

LEMMA CallFaults ==
    ASSUME Typed, NEW r \in Runs, CallSpent(r) \/ FaultyCall(r)
    PROVE  left'.faults = left.faults \/ left'.faults = left.faults - 1
<1>1. CASE CallSpent(r)
  BY <1>1 DEF CallSpent, Typed
<1>2. CASE FaultyCall(r)
  <2>1. left' = [calls |-> [left.calls EXCEPT ![r] = @ - 1], edits |-> left.edits,
                 writes |-> left.writes, faults |-> left.faults - 1, crashes |-> left.crashes]
    BY <1>2 DEF FaultyCall, Typed
  <2>. QED
    BY <2>1
<1>. QED
  BY <1>1, <1>2

LEMMA ShellEndsRecord ==
    ASSUME RecordInv, PlacedInv', NEW r \in Runs, NEW class \in Classes, ShellEnds(r, class)
    PROVE  RecordInv'
<1>0. r \in Procs /\ r \notin Audits /\ PlacedInv /\ Typed /\ Placed(r) /\ Local(r)
      /\ SubjectOf(r) = r
  BY ProcsType DEF RecordInv, SubjectOf, PlacedInv
<1>1. /\ pc[r] = "shell"
      /\ UNCHANGED <<files, declared, manifest, verdicts, output, final, traceFile, evidence, result,
                     stable, left>>
  BY DEF ShellEnds
<1>2. /\ tools'[r] = calls'[r]
      /\ \A q \in Runs \ {r} : tools'[q] = tools[q] /\ calls'[q] = calls[q]
  <2>1. child[r].cmd \in Commands
    BY <1>0, <1>1, ManifestType DEF Placed, Typed
  <2>2. \E e \in Events : Logged(r, e)
    BY <2>1, LogIsLogged DEF ShellEnds
  <2>. QED
    BY <1>0, <2>2, LoggedAlike DEF Local, Recorded
<1>3. Moves(r, "execute")
  BY <1>0, Moved DEF ShellEnds
<1>4. \A q \in Procs \ {r} : child'[q] = child[q]
  BY <1>0, CommandGone DEF ShellEnds
<1>5. Progress(r)' /\ Audited(r)'
  BY <1>0, <1>1, <1>3
     DEF Moves, Local, Progress, Audited, Verifying, Launching, AuditPcs, Complete
<1>6. Recorded(r)' /\ Outcome(r)' /\ Claimed(r)'
  BY <1>0, <1>1, <1>2, <1>3
     DEF Moves, Local, Recorded, Outcome, Claimed, Working, AuditPcs, Complete, Faulty
<1>7. \A q \in Procs \ {r} : Untouched(q)
  BY <1>1, <1>2, <1>3, <1>4 DEF Moves, Untouched, Same
<1>. QED
  BY <1>0, <1>1, <1>5, <1>6, <1>7, OneRecords DEF Local

(* Every tool call is logged, and the answer ends the calls.                *)
LEMMA AdapterRecord ==
    ASSUME RecordInv, PlacedInv', NEW r \in Runs, Adapter(r)
    PROVE  RecordInv'
<1>0. r \in Procs /\ r \notin Audits /\ PlacedInv /\ Typed /\ Local(r) /\ SubjectOf(r) = r
  BY ProcsType DEF RecordInv, SubjectOf, PlacedInv
<1>1. CASE Tool(r) /\ \A cmd \in Commands : ~ShellLaunch(r, cmd)
  <2>1. Unchanged /\ pc[r] = "execute"
    BY <1>0, <1>1, ToolEffect DEF Calling
  <2>2. /\ tools'[r] = calls'[r]
        /\ \A q \in Runs \ {r} : tools'[q] = tools[q] /\ calls'[q] = calls[q]
    <3>1. tools[r] = calls[r]
      BY <1>0 DEF Local, Recorded
    <3>. QED
      BY <1>0, <1>1, <3>1, ToolEffect, LoggedAlike
  <2>3. left'.faults = left.faults \/ left'.faults = left.faults - 1
    BY <1>0, <1>1, ToolEffect, CallFaults
  <2>7. \A q \in Procs : child'[q].cmd = child[q].cmd
    <3>1. CASE Quiet
      BY <3>1 DEF Quiet
    <3>. QED
      BY <1>0, <1>1, <3>1, ToolEffect, PutType
  <2>4. Progress(r)' /\ Audited(r)'
    BY <1>0, <2>1
       DEF Unchanged, Local, Progress, Audited, Verifying, Launching, AuditPcs, Complete
  <2>5. Recorded(r)' /\ Outcome(r)' /\ Claimed(r)'
    BY <1>0, <2>1, <2>2
       DEF Unchanged, Local, Recorded, Outcome, Claimed, Working, AuditPcs, Complete
  <2>6. \A q \in Procs \ {r} : Untouched(q)
    BY <2>1, <2>2, <2>7 DEF Unchanged, Untouched, Same
  <2>. QED
    BY <1>0, <2>3, <2>4, <2>5, <2>6, OneRecords DEF Local
<1>4. ASSUME NEW cmd \in Commands, ShellLaunch(r, cmd) PROVE RecordInv'
  <2>1. /\ pc[r] = "execute"
        /\ UNCHANGED <<files, declared, manifest, tools, verdicts, output, final, traceFile, evidence,
                       result, calls, stable>>
    BY <1>4 DEF ShellLaunch, Calling
  <2>2. Moves(r, "shell")
    BY <1>0, <1>4, Moved DEF ShellLaunch
  <2>3. left'.faults = left.faults \/ left'.faults = left.faults - 1
    BY <1>0, <1>4, CallFaults DEF ShellLaunch
  <2>4. \A q \in Procs \ {r} : child'[q] = child[q]
    BY <1>0, <1>4, CommandGone DEF ShellLaunch
  <2>5. Progress(r)' /\ Audited(r)'
    BY <1>0, <2>1, <2>2
       DEF Moves, Local, Progress, Audited, Verifying, Launching, AuditPcs, Complete
  <2>6. Recorded(r)' /\ Outcome(r)' /\ Claimed(r)'
    BY <1>0, <2>1, <2>2
       DEF Moves, Local, Recorded, Outcome, Claimed, Working, AuditPcs, Complete, Faulty
  <2>7. \A q \in Procs \ {r} : Untouched(q)
    BY <2>1, <2>2, <2>4 DEF Moves, Untouched, Same
  <2>. QED
    BY <1>0, <2>3, <2>5, <2>6, <2>7, OneRecords DEF Local
<1>2. CASE ExecuteFails(r)
  BY <1>2, RunSettlesRecord
<1>3. ASSUME NEW out \in Outputs, ExecuteReturns(r, out) PROVE RecordInv'
  <2>1. /\ pc[r] = "execute"
        /\ UNCHANGED <<files, declared, manifest, tools, verdicts, final, child, traceFile, evidence,
                       result, calls, left>>
    BY <1>3 DEF ExecuteReturns, Calling
  <2>2. Moves(r, "verify")
    BY <1>0, <1>3, Moved DEF ExecuteReturns
  <2>3. \A q \in Procs \ {r} : output'[q] = output[q]
    BY <1>0, <1>3 DEF ExecuteReturns, Typed
  <2>4. Len(manifest[r].checks) >= 0
    <3>1. manifest[r] \in Manifests
      BY <1>0, <2>1 DEF PlacedInv, Placed, Typed
    <3>. QED
      BY <3>1, ManifestType
  <2>5. Progress(r)' /\ Audited(r)'
    <3>1. verdicts[r] = <<>>
      BY <1>0, <2>1 DEF Local, Progress
    <3>2. Passes(<<>>, manifest[r].checks) /\ Len(<<>>) <= Len(manifest[r].checks)
      BY <2>4 DEF Passes
    <3>3. Progress(r)'
      BY <2>1, <2>2, <3>1, <3>2 DEF Moves, Progress
    <3>. QED
      BY <1>0, <2>1, <2>2, <3>3 DEF Moves, Local, Audited, AuditPcs, Complete
  <2>6. Recorded(r)' /\ Outcome(r)' /\ Claimed(r)'
    BY <1>0, <2>1, <2>2
       DEF Moves, Local, Recorded, Outcome, Claimed, Working, AuditPcs, Complete
  <2>7. \A q \in Procs \ {r} : Untouched(q)
    BY <2>1, <2>2, <2>3 DEF Moves, Untouched, Same
  <2>. QED
    BY <1>0, <2>1, <2>5, <2>6, <2>7, OneRecords DEF Local
<1>. QED
  BY <1>1, <1>2, <1>3, <1>4 DEF Adapter

(* Each verifier adds its own event; only a pass goes on.                   *)
LEMMA VerdictRecord ==
    ASSUME RecordInv, PlacedInv', NEW p \in Procs, NEW ok \in BOOLEAN,
           Verifying(p) \/ Launching(p), Pending(p), Verdict(p, ok), UNCHANGED left \/ FaultSpent
    PROVE  RecordInv'
<1>0. PlacedInv /\ Typed /\ Local(p) /\ (p \in Runs => SubjectOf(p) = p /\ p \notin Audits)
  BY ProcsType DEF RecordInv, SubjectOf, PlacedInv
<1>1. /\ verdicts'[p] = Append(verdicts[p], [name |-> Verifier(p).name, passed |-> ok])
      /\ pc'[p] = IF ok THEN IF pc[p] \in {"verify", "command"} THEN "verify" ELSE "reverify"
                  ELSE IF pc[p] \in {"verify", "command"} THEN "rejected" ELSE "refuted"
      /\ \A q \in Procs \ {p} : verdicts'[q] = verdicts[q] /\ pc'[q] = pc[q]
  BY <1>0, VerdictType
<1>2. /\ UNCHANGED <<files, declared, manifest, tools, output, final, traceFile, evidence, result,
                     calls>>
      /\ \A q \in Procs \ {p} : child'[q] = child[q]
  BY <1>0, CommandGone DEF Verdict
<1>9. /\ left'.faults = left.faults \/ left'.faults = left.faults - 1
      /\ Faulty => Faulty'
  <2>1. left'.faults = left.faults \/ left'.faults = left.faults - 1
    BY <1>0 DEF FaultSpent, Typed
  <2>. QED
    BY <2>1, FaultsOnlySpent DEF Faulty
<1>3. pc[p] \in {"verify", "command", "reverify", "recommand"}
  BY DEF Verifying, Launching
<1>4. Progress(p)'
  <2>1. CASE ok
    <3>1. manifest[p] \in Manifests /\ verdicts[p] \in Seq(Verdicts)
      BY <1>0, <1>3, ZenonT(30) DEF PlacedInv, Placed, Typed
    <3>2. manifest[p].checks \in Seq(Verifiers)
      BY <3>1, ManifestType
    <3>3. Len(verdicts[p]) < Len(manifest[p].checks) /\ Passes(verdicts[p], manifest[p].checks)
      BY <1>0 DEF Local, Progress, Pending
    <3>4. verdicts'[p] = Append(verdicts[p],
                                [name |-> manifest[p].checks[Len(verdicts[p]) + 1].name, passed |-> TRUE])
      BY <1>1, <2>1 DEF Verifier
    <3>5. Len(verdicts'[p]) <= Len(manifest[p].checks)
      BY <3>1, <3>2, <3>3, <3>4
    <3>6. Passes(verdicts'[p], manifest[p].checks)
      <4> DEFINE pass == [name |-> manifest[p].checks[Len(verdicts[p]) + 1].name, passed |-> TRUE]
      <4>1. DOMAIN verdicts'[p] = 1..(Len(verdicts[p]) + 1)
        BY <3>1, <3>4
      <4>2. \A i \in 1..Len(verdicts[p]) :
               verdicts'[p][i] = [name |-> manifest[p].checks[i].name, passed |-> TRUE]
        <5>1. \A i \in 1..Len(verdicts[p]) : verdicts'[p][i] = verdicts[p][i]
          BY <3>1, <3>4
        <5>2. DOMAIN verdicts[p] = 1..Len(verdicts[p])
          BY <3>1
        <5>. QED
          BY <3>3, <5>1, <5>2 DEF Passes
      <4>3. verdicts'[p][Len(verdicts[p]) + 1] = pass
        <5>1. verdicts'[p] = Append(verdicts[p], pass)
          BY <3>4
        <5> HIDE DEF pass
        <5>. QED
          BY <3>1, <5>1
      <4>4. Len(verdicts[p]) \in Nat
        BY <3>1
      <4>5. ASSUME NEW i \in DOMAIN verdicts'[p]
            PROVE  verdicts'[p][i] = [name |-> manifest[p].checks[i].name, passed |-> TRUE]
        <5>1. i \in 1..Len(verdicts[p]) \/ i = Len(verdicts[p]) + 1
          BY <4>1, <4>4, <4>5
        <5>2. CASE i \in 1..Len(verdicts[p])
          BY <4>2, <5>2
        <5>3. CASE i = Len(verdicts[p]) + 1
          BY <4>3, <5>3
        <5>. QED
          BY <5>1, <5>2, <5>3
      <4>. QED
        BY <4>5 DEF Passes
    <3>7. pc'[p] \in {"verify", "reverify"}
      BY <1>1, <2>1
    <3>. QED
      BY <1>2, <3>5, <3>6, <3>7 DEF Progress
  <2>2. CASE ~ok
    BY <1>1, <2>2 DEF Progress, Verifying, Launching
  <2>. QED
    BY <2>1, <2>2
<1>5. pc'[p] \in IF pc[p] \in {"verify", "command"} THEN {"verify", "rejected"}
                 ELSE {"reverify", "refuted"}
  BY <1>1
<1>6. Audited(p)'
  BY <1>0, <1>2, <1>3, <1>5
     DEF Local, Audited, AuditPcs, Complete, Claims, InScope, PolicyPlace, Denied
<1>7. ASSUME p \in Runs PROVE Recorded(p)' /\ Outcome(p)' /\ Claimed(p)'
  BY <1>0, <1>2, <1>3, <1>5, <1>7, <1>9
     DEF Local, Recorded, Outcome, Claimed, Working, AuditPcs, Complete
<1>8. \A q \in Procs \ {p} : Untouched(q)
  BY <1>1, <1>2 DEF Untouched, Same
<1>. QED
  BY <1>0, <1>9, <1>4, <1>6, <1>7, <1>8, OneRecords DEF Local

LEMMA VerifiersRecord ==
    ASSUME RecordInv, PlacedInv', NEW p \in Procs, RunVerifiers(p) \/ CommandExits(p)
    PROVE  RecordInv'
<1>0. PlacedInv /\ Typed /\ Placed(p) /\ Local(p)
      /\ (p \in Runs => SubjectOf(p) = p /\ p \notin Audits)
  BY ProcsType DEF RecordInv, SubjectOf, PlacedInv
<1>1. CASE SchemaVerifier(p)
  <2>1. output[p] \in Answers
    BY <1>0, <1>1 DEF SchemaVerifier, Verifying, Placed, Typed
  <2>2. output[p].complete \in BOOLEAN
    BY <2>1 DEF Answers
  <2>. QED
    BY <1>1, <2>2, VerdictRecord DEF SchemaVerifier
<1>2. CASE CommandRefused(p)
  BY <1>2, VerdictRecord DEF CommandRefused
<1>3. CASE CommandTimesOut(p) \/ CommandExits(p)
  <2>1. Pending(p)
    BY <1>0, <1>3 DEF CommandTimesOut, CommandExits, Placed
  <2>2. CASE CommandTimesOut(p)
    BY <2>1, <2>2, VerdictRecord DEF CommandTimesOut, Inconclusive
  <2>3. CASE CommandExits(p)
    BY <2>1, <2>3, VerdictRecord DEF CommandExits
  <2>. QED
    BY <1>3, <2>2, <2>3
<1>4. CASE CommandLaunch(p) \/ VerifierUnknown(p)
  <2>1. /\ \A q \in Procs \ {p} : pc'[q] = pc[q]
        /\ pc'[p] \in IF pc[p] = "verify" THEN {"command", "rejected"}
                      ELSE {"recommand", "refuted"}
        /\ Verifying(p)
    BY <1>0, <1>4 DEF CommandLaunch, VerifierUnknown, Verifying, Launched, Failed, Typed
  <2>2. UNCHANGED <<files, declared, manifest, tools, verdicts, output, final, traceFile, evidence,
                    result, calls, stable, left>>
    BY <1>4 DEF CommandLaunch, VerifierUnknown, memory
  <2>7. \A q \in Procs \ {p} : child'[q] = child[q]
    <3>1. CASE CommandLaunch(p)
      BY <1>0, <3>1, CommandGone DEF CommandLaunch
    <3>2. CASE VerifierUnknown(p)
      BY <3>2 DEF VerifierUnknown, memory
    <3>. QED
      BY <1>4, <3>1, <3>2
  <2>3. Progress(p)'
    BY <1>0, <2>1, <2>2 DEF Local, Progress, Verifying, Launching
  <2>4. Audited(p)'
    BY <1>0, <2>1, <2>2
       DEF Local, Audited, Verifying, AuditPcs, Complete, Claims, InScope, PolicyPlace, Denied
  <2>5. ASSUME p \in Runs PROVE Recorded(p)' /\ Outcome(p)' /\ Claimed(p)'
    BY <1>0, <2>1, <2>2, <2>5
       DEF Local, Recorded, Outcome, Claimed, Verifying, Working, AuditPcs, Complete, Faulty
  <2>6. \A q \in Procs \ {p} : Untouched(q)
    BY <2>1, <2>2, <2>7 DEF Untouched, Same
  <2>. QED
    BY <1>0, <2>2, <2>3, <2>4, <2>5, <2>6, OneRecords DEF Local
<1>5. CASE CommandFails(p)
  BY <1>5, VerdictRecord DEF CommandFails, Inconclusive
<1>. QED
  BY <1>1, <1>2, <1>3, <1>4, <1>5 DEF RunVerifiers

\* What a command does of itself leaves every record alone.
LEMMA ChildRecord ==
    ASSUME RecordInv, PlacedInv', NEW p \in Procs, Child(p)
    PROVE  RecordInv'
<1>0. PlacedInv /\ Typed
  BY DEF RecordInv, PlacedInv
<1>1. CASE CommandExits(p)
  BY <1>1, VerifiersRecord
<1>2. CASE p \in Runs /\ ShellReturns(p)
  BY <1>2, ShellEndsRecord DEF ShellReturns, Classes
<1>3. ASSUME CommandForks(p) \/ CommandLetsGo(p)
             \/ \E place \in Places, n \in Names, c \in Contents \union {Absent} :
                   CommandWrites(p, place, n, c)
      PROVE  RecordInv'
  <2>1. /\ UNCHANGED <<pc, manifest, tools, verdicts, output, final, traceFile, evidence, result,
                       calls>>
        /\ left'.faults = left.faults
    BY <1>0, <1>3 DEF CommandForks, CommandLetsGo, CommandWrites, WriteSpent, Typed
  <2>2. \A q \in Procs : child'[q].cmd = child[q].cmd
    BY <1>0, <1>3, HeldType, PutType DEF CommandWrites
  <2>3. ASSUME NEW q \in Procs PROVE Untouched(q)
    BY <2>1, <2>2 DEF Untouched, Same
  <2>4. ASSUME NEW q \in Procs PROVE Local(q)'
    BY <2>1, <2>3, UntouchedKeepsLocal DEF Faulty
  <2>. QED
    BY <2>1, <2>4 DEF RecordInv
<1>. QED
  BY <1>1, <1>2, <1>3 DEF Child

(* A verify reads a finished trace, and passes on nothing else.             *)
LEMMA AuditRecord ==
    ASSUME RecordInv, PlacedInv', NEW p \in Procs, AuditStep(p)
    PROVE  RecordInv'
<1>0. PlacedInv /\ Typed /\ Placed(p) /\ Local(p)
      /\ (p \in Runs => SubjectOf(p) = p /\ p \notin Audits)
  BY ProcsType DEF RecordInv, SubjectOf, PlacedInv
<1>s. SubjectOf(p) \in Runs /\ traceFile[SubjectOf(p)] \in Traces \union {Absent, Truncated}
  BY <1>0, SubjectType DEF Typed
<1>w. p \in Runs => p \in Gates /\ pc[p] \in {"audit"} \union AuditPcs /\ Complete(traceFile[p])
  <2>1. p \in Runs => pc[p] \in {"audit"} \union AuditPcs
    BY <1>0 DEF AuditStep, AuditUnreadable, AuditRefuses, AuditRead, AuditLoadFails, AuditPanics,
                AuditOutOfScope, AuditLoad, AuditRefuted, AuditPasses, Auditing, AuditPcs
  <2>. QED
    BY <1>0, <2>1 DEF Local, Outcome, Recorded
<1>1. CASE AuditUnreadable(p) \/ AuditLoadFails(p) \/ AuditOutOfScope(p) \/ AuditRefuted(p)
  <2>1. \E status \in {"", "failed"}, path \in BOOLEAN :
           Return(p, status, path, <<>>) \/ Return(p, status, path, verdicts[p])
    <3>1. CASE AuditUnreadable(p)
      BY <3>1 DEF AuditUnreadable
    <3>2. CASE AuditLoadFails(p)
      BY <3>2 DEF AuditLoadFails
    <3>3. CASE AuditOutOfScope(p) \/ AuditRefuted(p)
      BY <3>3 DEF AuditOutOfScope, AuditRefuted
    <3>. QED
      BY <1>1, <3>1, <3>2, <3>3
  <2>2. UNCHANGED <<files, declared, memory, traceFile, evidence, calls, stable, left>>
    BY <1>1 DEF AuditUnreadable, AuditLoadFails, AuditOutOfScope, AuditRefuted
  <2>3. /\ Moves(p, "done") /\ result'[p].status # "passed"
        /\ \A q \in Procs \ {p} : result'[q] = result[q]
    BY <1>0, <2>1, Returns
  <2>4. Progress(p)' /\ Audited(p)'
    BY <1>0, <2>2, <2>3
       DEF Moves, Local, Progress, Audited, Verifying, Launching, AuditPcs, Complete, memory
  <2>5. ASSUME p \in Runs PROVE Recorded(p)' /\ Outcome(p)' /\ Claimed(p)'
    BY <1>0, <1>w, <2>2, <2>3, <2>5
       DEF Moves, Local, Recorded, Outcome, Claimed, Working, AuditPcs, Complete, memory
  <2>6. \A q \in Procs \ {p} : Untouched(q)
    BY <2>2, <2>3 DEF Moves, Untouched, Same, memory
  <2>. QED
    BY <1>0, <2>2, <2>4, <2>5, <2>6, OneRecords DEF Local
<1>2. CASE AuditPasses(p)
  <2>1. /\ pc[p] = "reverify"
        /\ UNCHANGED <<files, declared, memory, traceFile, evidence, calls, stable, left>>
    BY <1>2 DEF AuditPasses
  <2>2. /\ Moves(p, "done")
        /\ \A q \in Procs \ {p} : result'[q] = result[q]
    BY <1>0, <1>2, Returns DEF AuditPasses
  <2>3. Progress(p)'
    BY <1>0, <2>1, <2>2 DEF Moves, Local, Progress, Verifying, Launching, memory
  <2>4. Audited(p)'
    BY <1>0, <2>1, <2>2
       DEF Moves, Local, Audited, AuditPcs, Complete, Claims, InScope, PolicyPlace, Denied, memory
  <2>5. ASSUME p \in Runs PROVE Recorded(p)' /\ Outcome(p)' /\ Claimed(p)'
    <3>1. evidence[p] = traceFile[p] /\ traceFile[p].final = "passed"
      BY <1>0, <2>1, <2>5 DEF Local, Audited, AuditPcs
    <3>. QED
      BY <1>0, <1>w, <2>1, <2>2, <2>5, <3>1
         DEF Moves, Local, Recorded, Outcome, Claimed, Working, AuditPcs, Complete, memory
  <2>6. \A q \in Procs \ {p} : Untouched(q)
    BY <2>1, <2>2 DEF Moves, Untouched, Same, memory
  <2>. QED
    BY <1>0, <2>1, <2>3, <2>4, <2>5, <2>6, OneRecords DEF Local
<1>3. CASE AuditRefuses(p) \/ AuditRead(p)
  <2>1. /\ UNCHANGED <<files, declared, memory, traceFile, calls, stable, left>>
        /\ evidence' = [evidence EXCEPT ![p] = traceFile[SubjectOf(p)]]
        /\ Complete(traceFile[SubjectOf(p)])
        /\ Auditing(p)
    BY <1>s, <1>3 DEF AuditRefuses, AuditRead, Readable, Complete
  <2>2. /\ evidence'[p] = traceFile[SubjectOf(p)] /\ evidence'[p] # Absent
        /\ \A q \in Procs \ {p} : evidence'[q] = evidence[q]
    BY <1>0, <2>1, AbsentAssumption DEF Typed, Complete
  <2>3. \/ /\ Moves(p, "done") /\ result'[p].status # "passed"
           /\ \A q \in Procs \ {p} : result'[q] = result[q]
        \/ /\ Moves(p, "reload") /\ UNCHANGED result
           /\ evidence'[p].final = "passed" /\ ~Denied(evidence'[p])
    <3>1. CASE AuditRefuses(p)
      <4>1. Return(p, "failed", TRUE, <<>>)
        BY <3>1 DEF AuditRefuses
      <4>2. /\ Moves(p, "done") /\ result'[p].status = "failed"
            /\ \A q \in Procs \ {p} : result'[q] = result[q]
        BY <1>0, <4>1, Returns
      <4>. QED
        BY <4>2
    <3>2. CASE AuditRead(p)
      BY <1>0, <2>2, <3>2, Moved DEF AuditRead
    <3>. QED
      BY <1>3, <3>1, <3>2
  <2>4. result[p].status # "passed" \/ p \notin Audits
    BY <1>0, <2>1 DEF Local, Audited, Auditing
  <2>5. Progress(p)'
    BY <2>3 DEF Moves, Progress, Verifying, Launching
  <2>6. Audited(p)'
    BY <1>0, <2>1, <2>2, <2>3, <2>4
       DEF Moves, Local, Audited, AuditPcs, Complete, Claims, InScope, PolicyPlace, Denied, memory
  <2>7. ASSUME p \in Runs PROVE Recorded(p)' /\ Outcome(p)' /\ Claimed(p)'
    BY <1>0, <1>w, <2>1, <2>3, <2>7
       DEF Moves, Local, Recorded, Outcome, Claimed, Working, AuditPcs, Complete, memory
  <2>8. \A q \in Procs \ {p} : Untouched(q)
    BY <2>1, <2>2, <2>3 DEF Moves, Untouched, Same, memory
  <2>. QED
    BY <1>0, <2>1, <2>5, <2>6, <2>7, <2>8, OneRecords DEF Local
<1>4. CASE AuditPanics(p)
  <2>1. /\ pc[p] = "reload"
        /\ UNCHANGED <<files, declared, memory, traceFile, evidence, result, calls, stable, left>>
    BY <1>4 DEF AuditPanics
  <2>2. Moves(p, "dead")
    BY <1>0, <1>4, Moved DEF AuditPanics
  <2>3. Progress(p)' /\ Audited(p)'
    BY <1>0, <2>1, <2>2
       DEF Moves, Local, Progress, Audited, Verifying, Launching, AuditPcs, Complete, memory
  <2>4. ASSUME p \in Runs PROVE Recorded(p)' /\ Outcome(p)' /\ Claimed(p)'
    BY <1>0, <1>w, <2>1, <2>2, <2>4
       DEF Moves, Local, Recorded, Outcome, Claimed, Working, AuditPcs, Complete, memory
  <2>5. \A q \in Procs \ {p} : Untouched(q)
    BY <2>1, <2>2 DEF Moves, Untouched, Same, memory
  <2>. QED
    BY <1>0, <2>1, <2>3, <2>4, <2>5, OneRecords DEF Local
<1>5. CASE AuditLoad(p)
  <2>1. /\ pc[p] = "reload" /\ ClaimsInScope(p)
        /\ UNCHANGED <<files, declared, tools, final, child, traceFile, evidence, result, calls,
                       stable, left>>
    BY <1>5 DEF AuditLoad
  <2>2. Moves(p, "reverify")
    BY <1>0, <1>5, Moved DEF AuditLoad
  <2>3. /\ manifest'[p] = Manifest(p) /\ output'[p] = evidence[p].output /\ verdicts'[p] = <<>>
        /\ \A q \in Procs \ {p} :
              manifest'[q] = manifest[q] /\ output'[q] = output[q] /\ verdicts'[q] = verdicts[q]
    BY <1>0, <1>5 DEF AuditLoad, Typed
  <2>4. Manifest(p) \in Manifests
    BY <1>0, <1>5, SubjectType DEF AuditLoad, Usable, Manifest, Typed
  <2>5. Progress(p)'
    <3>1. Len(<<>>) <= Len(Manifest(p).checks)
      BY <2>4, ManifestType
    <3>2. Passes(<<>>, Manifest(p).checks)
      BY DEF Passes
    <3>. QED
      BY <2>2, <2>3, <3>1, <3>2 DEF Moves, Progress
  <2>6. Audited(p)'
    BY <1>0, <2>1, <2>2, <2>3
       DEF Moves, Local, Audited, AuditPcs, Complete, ClaimsInScope, Claims, InScope, PolicyPlace, Denied
  <2>7. ASSUME p \in Runs PROVE Recorded(p)' /\ Outcome(p)' /\ Claimed(p)'
    <3>1. evidence[p] = traceFile[p]
      BY <1>0, <2>1, <2>7 DEF Local, Audited, AuditPcs
    <3>2. Claimed(p)'
      BY <2>1, <2>3, <3>1 DEF Claimed
    <3>. QED
      BY <1>0, <1>w, <2>1, <2>2, <2>7, <3>2
         DEF Moves, Local, Recorded, Outcome, Working, AuditPcs, Complete
  <2>8. \A q \in Procs \ {p} : Untouched(q)
    BY <2>1, <2>2, <2>3 DEF Moves, Untouched, Same
  <2>. QED
    BY <1>0, <2>1, <2>5, <2>6, <2>7, <2>8, OneRecords DEF Local
<1>. QED
  BY <1>1, <1>2, <1>3, <1>4, <1>5 DEF AuditStep

LEMMA CrashRecord ==
    ASSUME RecordInv, PlacedInv', NEW p \in Procs, Crash(p)
    PROVE  RecordInv'
<1>0. PlacedInv /\ Typed /\ Local(p)
  BY DEF RecordInv, PlacedInv
<1>1. Moves(p, "dead")
  BY <1>0, Moved DEF Crash
<1>2. /\ pc[p] # "done" /\ left'.faults = left.faults
      /\ UNCHANGED <<files, declared, manifest, tools, verdicts, output, final, traceFile, evidence,
                     result, calls, stable>>
      /\ \A q \in Procs \ {p} : child'[q] = child[q]
  BY <1>0, CommandGone DEF Crash, CrashSpent, Typed
<1>3. Progress(p)' /\ Audited(p)'
  BY <1>0, <1>1, <1>2
     DEF Moves, Local, Progress, Audited, Verifying, Launching, AuditPcs, Complete
<1>4. ASSUME p \in Runs PROVE Recorded(p)' /\ Outcome(p)' /\ Claimed(p)'
  BY <1>0, <1>1, <1>2, <1>4
     DEF Moves, Local, Recorded, Outcome, Claimed, Working, AuditPcs, Complete, Faulty
<1>5. \A q \in Procs \ {p} : Untouched(q)
  BY <1>1, <1>2 DEF Moves, Untouched, Same
<1>. QED
  BY <1>0, <1>2, <1>3, <1>4, <1>5, OneRecords DEF Local

LEMMA OutsideRecord ==
    ASSUME RecordInv, PlacedInv', Outside
    PROVE  RecordInv'
<1>1. /\ UNCHANGED <<pc, manifest, tools, verdicts, output, final, traceFile, evidence, result,
                     calls>>
      /\ left'.faults = left.faults
  BY DEF Outside, Edit, Redeclare, EditSpent, RecordInv, PlacedInv, Typed, memory
<1>4. \A q \in Procs : child'[q].cmd = child[q].cmd
  <2>1. CASE \E place \in Places, n \in Names, c \in Contents \union {Absent} : Edit(place, n, c)
    BY <2>1, PutType DEF Edit, RecordInv, PlacedInv
  <2>2. CASE \E r \in Runs, m \in Manifests \union {Absent} : Redeclare(Home[r], m)
    BY <2>2 DEF Redeclare, memory
  <2>. QED
    BY <2>1, <2>2 DEF Outside
<1>2. ASSUME NEW q \in Procs PROVE Untouched(q)
  BY <1>1, <1>4 DEF Untouched, Same
<1>3. ASSUME NEW q \in Procs PROVE Local(q)'
  BY <1>1, <1>2, UntouchedKeepsLocal DEF Faulty
<1>. QED
  BY <1>1, <1>3 DEF RecordInv

LEMMA RecordStep == RecordInv /\ [Next]_vars => RecordInv'
<1> SUFFICES ASSUME RecordInv, [Next]_vars PROVE RecordInv'
    OBVIOUS
<1>0. PlacedInv'
  BY PlacedStep DEF RecordInv
<1>1. ASSUME NEW r \in Runs, Adapter(r) PROVE RecordInv'
  BY <1>0, <1>1, AdapterRecord
<1>2. ASSUME NEW r \in Runs, RunStep(r) PROVE RecordInv'
  <2>1. CASE ShellTimesOut(r)
    BY <1>0, <2>1, ShellEndsRecord DEF ShellTimesOut, Classes
  <2>. QED
    BY <1>0, <1>2, <2>1, RunStartsRecord, RunSettlesRecord, RunPersistsRecord DEF RunStep
<1>3. ASSUME NEW p \in Procs, Step(p) \/ Child(p) PROVE RecordInv'
  BY <1>0, <1>2, <1>3, VerifiersRecord, ChildRecord, AuditRecord DEF Step
<1>4. ASSUME NEW p \in Procs, Crash(p) PROVE RecordInv'
  BY <1>0, <1>4, CrashRecord
<1>5. CASE Outside
  BY <1>0, <1>5, OutsideRecord
<1>6. CASE UNCHANGED vars
  <2>1. ASSUME NEW q \in Procs PROVE Untouched(q)
    BY <1>6 DEF Untouched, Same, vars, memory
  <2>2. ASSUME NEW q \in Procs PROVE Local(q)'
    BY <1>6, <2>1, UntouchedKeepsLocal DEF Faulty, vars
  <2>. QED
    BY <1>0, <1>6, <2>2 DEF RecordInv, vars
<1>. QED
  BY <1>1, <1>3, <1>4, <1>5, <1>6 DEF Next

LEMMA RecordInvariant == Spec => []RecordInv
BY RecordInit, RecordStep, PTL DEF Spec

LEMMA ListedDomain ==
    ASSUME Typed, NEW r \in Runs, Complete(traceFile[r]), Lists(traceFile[r], calls[r])
    PROVE  DOMAIN traceFile[r].tools = DOMAIN calls[r]
<1>1. traceFile[r] \in Traces /\ calls[r] \in Seq(Events)
  BY DEF Typed, Complete
<1>2. traceFile[r].tools \in Seq(Events)
  BY <1>1 DEF Traces
<1>3. Len(traceFile[r].tools) = Len(calls[r])
  BY DEF Lists
<1>. QED
  BY <1>1, <1>2, <1>3, SequenceFacts, Zenon

-----------------------------------------------------------------------------
(* A complete trace lists the tool calls of its run and nothing else, the   *)
(* denied and the failed ones included, whatever failed or was killed; only *)
(* the redaction of the manifest can change the path or the class it gives. *)
THEOREM CallsAreOnRecord == Spec => []ToolCallsOnRecord
<1>1. RecordInv => ToolCallsOnRecord
  BY ProcsType DEF RecordInv, Local, Recorded, ToolCallsOnRecord
<1>. QED
  BY <1>1, RecordInvariant, PTL

(* A run that reports success has left a complete trace with a pass of      *)
(* every verifier, and a returned run with such a trace reported success.   *)
THEOREM SuccessIsOnRecord == Spec => []PassedIsOnRecord
<1>1. RecordInv => PassedIsOnRecord
  BY ProcsType
     DEF RecordInv, Local, Recorded, Outcome, PassesAll, Passes, PassedIsOnRecord, Returned
<1>. QED
  BY <1>1, RecordInvariant, PTL

(* A result names a trace that is there, once a manifest was loaded and     *)
(* unless a system call failed.                                             *)
THEOREM NamedTraceIsThere == Spec => []NamedTraceExists
<1>1. ASSUME RecordInv PROVE NamedTraceExists
  <2>1. left.faults = MaxFaults => ~Faulty
    BY SkillRunAssumption DEF Faulty
  <2>. QED
    BY <1>1, <2>1, ProcsType DEF RecordInv, Local, Outcome, NamedTraceExists
<1>. QED
  BY <1>1, RecordInvariant, PTL

(* A verify passes only a run that succeeded and whose trace is complete.   *)
(* Its tool calls were denied only if its own redaction hides that class of *)
(* error, and its claims, as far as redaction left them readable, lie in    *)
(* the write scope of the manifest verified.                                *)
THEOREM VerifyOnlyConfirms == Spec => []VerifyNeverUpgrades
<1>1. ASSUME RecordInv, NEW a \in Audits, result[a].status = "passed"
      PROVE  LET r == Subject[a] IN
        /\ final[r] = "passed"
        /\ r \notin Gates => result[r].status # "failed"
        /\ \A e \in Elements(calls[r]) :
              e.class = "PolicyViolation" => e.class \in evidence[a].by.hides
        /\ \A v \in Elements(evidence[a].verdicts) : v.passed
        /\ \A path \in output[r].changed :
              manifest[r].masks[path] = path => InScope(r, path, manifest[a].writes)
  <2> DEFINE r == Subject[a]
  <2>1. a \in Procs /\ r \in Runs /\ r \in Procs /\ SubjectOf(a) = r
    BY SkillRunAssumption, ProcsType DEF SubjectOf
  <2>2. Local(a) /\ Local(r) /\ Answered(r) /\ Typed
    BY <1>1, <2>1 DEF RecordInv, PlacedInv
  <2>3. /\ evidence[a] = traceFile[r] /\ Complete(traceFile[r])
        /\ traceFile[r].final = "passed" /\ ~Denied(traceFile[r])
        /\ \A path \in Claims(a) : InScope(r, path, manifest[a].writes)
    BY <1>1, <2>1, <2>2 DEF Local, Audited
  <2>4. final[r] = "passed" /\ Lists(traceFile[r], calls[r])
    BY <2>1, <2>2, <2>3 DEF Local, Recorded
  <2>5. r \notin Gates => result[r].status # "failed"
    BY <2>1, <2>2, <2>3 DEF Local, Outcome
  <2>6. ASSUME NEW e \in Elements(calls[r]), e.class = "PolicyViolation"
        PROVE  e.class \in evidence[a].by.hides
    <3>1. PICK i \in DOMAIN calls[r] : e = calls[r][i]
      BY <2>6 DEF Elements
    <3>2. i \in DOMAIN traceFile[r].tools
      BY <2>1, <2>2, <2>3, <2>4, <3>1, ListedDomain
    <3>3. traceFile[r].tools[i].class # "PolicyViolation"
      BY <2>3, <3>2 DEF Denied, Elements
    <3>. QED
      BY <2>3, <2>4, <2>6, <3>1, <3>3 DEF Lists
  <2>7. \A v \in Elements(traceFile[r].verdicts) : v.passed
    <3>1. Passes(traceFile[r].verdicts, traceFile[r].by.checks)
      BY <2>1, <2>2, <2>3 DEF Local, Recorded, PassesAll
    <3>2. ASSUME NEW i \in DOMAIN traceFile[r].verdicts PROVE traceFile[r].verdicts[i].passed
      <4>1. traceFile[r].verdicts[i] = [name |-> traceFile[r].by.checks[i].name, passed |-> TRUE]
        BY <3>1 DEF Passes
      <4>2. traceFile[r].verdicts[i].passed = TRUE
        BY <4>1
      <4>. QED
        BY <4>2
    <3>. QED
      BY <3>2 DEF Elements
  <2>8. \A path \in output[r].changed :
           manifest[r].masks[path] = path => InScope(r, path, manifest[a].writes)
    BY <2>1, <2>2, <2>3 DEF Local, Claimed, Answered, Claims
  <2>. QED
    BY <2>3, <2>4, <2>5, <2>6, <2>7, <2>8
<1>2. RecordInv => VerifyNeverUpgrades
  BY <1>1 DEF VerifyNeverUpgrades
<1>. QED
  BY <1>2, RecordInvariant, PTL

(* Where the processes that run a skill work in the directory of its        *)
(* manifest, a file changes only by an fs.write in the write scope of the   *)
(* run that makes it, or by a command that the manifest lists while a       *)
(* process waits for it: as a shell permission, or as a verifier that is    *)
(* allowed to run.  (SkillRunRelative shows that the condition is needed.)  *)
THEOREM EffectsStayInScope ==
    ASSUME \A r \in Runs : Cwd[r] = Home[r]
    PROVE  Spec => EffectsInScope
<1> DEFINE Allowed(place, n) ==
             \/ left'.edits < left.edits
             \/ left'.writes < left.writes /\ \E p \in Procs : Declares(p)
             \/ \E r \in Runs :
                   /\ Calling(r) /\ left'.calls[r] < left.calls[r]
                   /\ Home[r] = place /\ n \in manifest[r].writes
<1>1. ASSUME PlacedInv, [Next]_vars, NEW place \in Places, NEW n \in Names,
             files'[place][n] # files[place][n]
      PROVE  Allowed(place, n)
  <2>0. Typed
    BY <1>1 DEF PlacedInv
  <2>1. ASSUME NEW at \in Places, NEW name \in Names, NEW c \in Contents, Put(at, name, c)
        PROVE  at = place /\ name = n
    <3>1. files \in [Places -> Repositories] /\ files[at] \in [Names -> Contents \union {Absent}]
      BY <2>0 DEF Typed, Repositories
    <3>2. files' = [files EXCEPT ![at] = [files[at] EXCEPT ![name] = c]]
      BY <2>1 DEF Put
    <3>. QED
      BY <1>1, <3>1, <3>2
  <2>2. ASSUME NEW r \in Runs, NEW path \in Paths, NEW c \in Contents, Calling(r),
               InScope(r, path, manifest[r].writes), Put(ActualPlace(r, path), path[2], c),
               CallSpent(r) \/ FaultyCall(r)
        PROVE  Allowed(place, n)
    <3>1. ActualPlace(r, path) = Home[r]
      BY <2>2 DEF InScope, PolicyPlace, ActualPlace
    <3>2. Home[r] = place /\ path[2] = n
      BY <2>1, <2>2, <3>1, PlaceType
    <3>3. left'.calls[r] < left.calls[r]
      BY <2>0, <2>2, CallType
    <3>. QED
      BY <2>2, <3>2, <3>3 DEF InScope
  <2>3. ASSUME NEW r \in Runs, Tool(r) PROVE Allowed(place, n)
    <3>1. CASE \E path \in Paths : FSWriteFails(r, path)
      <4> PICK path \in Paths : FSWriteFails(r, path)
        BY <3>1
      <4>1. Put(ActualPlace(r, path), path[2], Empty)
        BY <1>1 DEF FSWriteFails, Quiet
      <4>2. FaultyCall(r)
        BY DEF FSWriteFails, FaultyCall
      <4>. QED
        BY <2>2, <4>1, <4>2, SkillRunAssumption DEF FSWriteFails
    <3>2. CASE \E path \in Paths, c \in Contents : FSWrite(r, path, c)
      BY <2>2, <3>2 DEF FSWrite
    <3>. QED
      BY <1>1, <2>3, <3>1, <3>2
         DEF Tool, FSRead, FSWriteDenied, FSWriteExists, ShellDenied, ShellLaunch, Quiet
  <2>4. ASSUME NEW at \in Places, NEW name \in Names, NEW c \in Contents \union {Absent},
               Edit(at, name, c)
        PROVE  Allowed(place, n)
    <3>1. left.edits \in Nat /\ left'.edits = left.edits - 1
      BY <2>0, <2>4 DEF Edit, EditSpent, Typed
    <3>. QED
      BY <3>1
  <2>5. ASSUME NEW p \in Procs, Child(p) PROVE Allowed(place, n)
    <3>1. CASE \E at \in Places, name \in Names, c \in Contents \union {Absent} :
                  CommandWrites(p, at, name, c)
      <4>1. left.writes \in Nat /\ left'.writes = left.writes - 1 /\ Running(p)
        BY <2>0, <3>1 DEF CommandWrites, WriteSpent, Typed
      <4>2. Declares(p)
        BY <1>1, <4>1 DEF Running, Declares, PlacedInv, Placed
      <4>. QED
        BY <4>1, <4>2
    <3>. QED
      BY <1>1, <2>5, <3>1
         DEF Child, CommandExits, CommandForks, CommandLetsGo, ShellReturns, ShellEnds, Verdict
  <2>6. ASSUME NEW p \in Procs, Step(p) \/ Crash(p) PROVE files' = files
    <3>1. CASE RunVerifiers(p)
      BY <3>1 DEF RunVerifiers, SchemaVerifier, CommandRefused, CommandFails, CommandLaunch,
                  CommandTimesOut, VerifierUnknown, Inconclusive, Verdict
    <3>2. CASE AuditStep(p)
      BY <3>2 DEF AuditStep, AuditUnreadable, AuditRefuses, AuditRead, AuditLoadFails, AuditPanics,
                  AuditOutOfScope, AuditLoad, AuditRefuted, AuditPasses
    <3>3. CASE RunStep(p)
      BY <3>3 DEF RunStep, CheckResolveFails, RunResolveFails, RunLoadFails, RunLoad, RunRefused,
                  RunExecute, ShellTimesOut, ShellEnds, RunRejected, RunAccepted, PersistOpen,
                  PersistPassed, PersistPanics, PersistFailed, PersistFails
    <3>4. CASE Crash(p)
      BY <3>4 DEF Crash
    <3>. QED
      BY <2>6, <3>1, <3>2, <3>3, <3>4 DEF Step
  <2>7. ASSUME NEW r \in Runs, ExecuteFails(r) \/ \E out \in Outputs : ExecuteReturns(r, out)
        PROVE  files' = files
    BY <2>7 DEF ExecuteFails, ExecuteReturns
  <2>8. ASSUME NEW r \in Runs, NEW m \in Manifests \union {Absent}, Redeclare(Home[r], m)
        PROVE  files' = files
    BY <2>8 DEF Redeclare
  <2>9. CASE UNCHANGED vars
    BY <1>1, <2>9 DEF vars
  <2>. QED
    BY <1>1, <2>3, <2>4, <2>5, <2>6, <2>7, <2>8, <2>9 DEF Next, Adapter, Outside
<1>2. PlacedInv /\ [Next]_vars =>
        [\A place \in Places, n \in Names :
            files'[place][n] # files[place][n] => Allowed(place, n)]_vars
  BY <1>1
<1>. QED
  BY <1>2, PlacedInvariant, PTL DEF Spec, EffectsInScope

-----------------------------------------------------------------------------
(* Why a verify agrees with the run.  A verifier is sound if it passes on   *)
(* the repository that it works in as it is; while a run is stable those    *)
(* that have passed are sound, in its memory and in its trace, and the      *)
(* manifest on disk is the one it loaded.                                   *)
Sound(c, answer, repository) ==
    /\ c.kind # "other"
    /\ c.kind = "schema" => answer.complete
    /\ c.kind = "command" => c.contract /\ ExitCode[c.name][repository] = 0 /\ c.wants = 0

SoundTo(n, checks, answer, r) ==
    \A i \in DOMAIN checks :
        i <= n => Sound(checks[i], answer, files[Workdir(r, checks[i])])

Upheld(r) ==
    /\ pc[r] \in {"execute", "shell"} => manifest[r].preflight = "fits"
    /\ stable[r] =>
         /\ pc[r] \notin {"idle", "preflight", "execute", "shell"}
         /\ pc[r] = "command" => child[r].quiet
         /\ manifest[r] # Absent /\ manifest[r] = declared[Home[r]]
         /\ manifest[r].preflight = "fits"
         /\ pc[r] \in {"verify", "command"} =>
              SoundTo(Len(verdicts[r]), manifest[r].checks, output[r], r)
         /\ pc[r] \in {"persist", "writing"} /\ final[r] = "passed" =>
              SoundTo(Len(manifest[r].checks), manifest[r].checks, output[r], r)
         /\ Complete(traceFile[r]) /\ traceFile[r].final = "passed" =>
              /\ traceFile[r].by = manifest[r]
              /\ traceFile[r].output \in {output[r], Sanitized(manifest[r], output[r])}
              /\ SoundTo(Len(manifest[r].checks), manifest[r].checks, traceFile[r].output, r)

\* The verifiers that p runs again work where those of the run did.
SameDirs(p) ==
    \A v \in Elements(evidence[p].by.checks) : Workdir(p, v) = Workdir(SubjectOf(p), v)

\* A verify that has read a passed trace does not fail on a stable run but
\* for a call that was denied or a claim out of scope.
Agreed(p) ==
    stable[SubjectOf(p)] /\ SameDirs(p) =>
         /\ pc[p] # "refuted"
         /\ pc[p] = "recommand" => child[p].quiet
         /\ pc[p] \in {"reverify", "recommand"} =>
              manifest[p] = evidence[p].by /\ output[p] = evidence[p].output
         /\ pc[p] = "done" /\ evidence[p] # Absent /\ evidence[p].final = "passed" =>
              \/ result[p].status = "passed" /\ result[p].summary = evidence[p].verdicts
              \/ Denied(evidence[p])
              \/ \E path \in Claims(p) : ~InScope(SubjectOf(p), path, evidence[p].by.writes)

StableInv ==
    /\ RecordInv
    /\ \A r \in Runs : Upheld(r)
    /\ \A p \in Procs : Agreed(p)

-----------------------------------------------------------------------------
\* A step of p's own leaves every other process alone.
Bystanders(p) ==
    \A q \in Procs \ {p} : Same(q) /\ result'[q] = result[q] /\ child'[q] = child[q]

\* The steps of a run that wait for no command.
RunMoves(r) ==
    \/ CheckResolveFails(r) \/ RunResolveFails(r) \/ RunLoadFails(r) \/ RunLoad(r)
    \/ RunRefused(r) \/ RunExecute(r) \/ ExecuteFails(r) \/ RunRejected(r) \/ RunAccepted(r)
    \/ PersistOpen(r) \/ PersistPassed(r) \/ PersistPanics(r) \/ PersistFailed(r) \/ PersistFails(r)

LEMMA RunBystanders ==
    ASSUME PlacedInv, NEW p \in Runs, RunMoves(p)
    PROVE  /\ Bystanders(p)
           /\ UNCHANGED <<files, declared, child, stable, evidence, output, verdicts>>
<1> USE DEF RunMoves, CheckResolveFails, RunResolveFails, RunLoadFails, RunLoad, RunRefused,
        RunExecute, RunRejected, RunAccepted, PersistOpen, PersistPassed, PersistPanics,
        PersistFailed, PersistFails, ExecuteFails, Return, memory
<1>1. Typed
  BY DEF PlacedInv
<1>2. pc' = [pc EXCEPT ![p] = pc'[p]]
  BY <1>1, ProcsType DEF Typed
<1>3. manifest' = [manifest EXCEPT ![p] = manifest'[p]]
  BY <1>1, ProcsType, ZenonT(30) DEF Typed
<1>4. final' = [final EXCEPT ![p] = final'[p]]
  BY <1>1 DEF Typed
<1>5. traceFile' = [traceFile EXCEPT ![p] = traceFile'[p]]
  BY <1>1 DEF Typed
<1>6. \A q \in Procs \ {p} : result'[q] = result[q]
  <2>1. result' = result \/ \E x : result' = [result EXCEPT ![p] = x]
    OBVIOUS
  <2>. QED
    BY <1>1, <2>1 DEF Typed
<1>7. UNCHANGED <<files, declared, child, stable, evidence, output, verdicts>>
  OBVIOUS
<1>. QED
  BY <1>1, <1>2, <1>3, <1>4, <1>5, <1>6, <1>7, ZenonT(30) DEF Bystanders, Same, Typed

LEMMA AuditBystanders ==
    ASSUME PlacedInv, NEW p \in Procs, AuditStep(p)
    PROVE  Bystanders(p) /\ UNCHANGED <<files, declared, child, stable, final, traceFile, calls>>
<1> USE DEF AuditStep, AuditUnreadable, AuditRefuses, AuditRead, AuditLoadFails, AuditPanics,
        AuditOutOfScope, AuditLoad, AuditRefuted, AuditPasses, Return, memory
<1>1. Typed
  BY DEF PlacedInv
<1>2. pc' = [pc EXCEPT ![p] = pc'[p]]
  BY <1>1 DEF Typed
<1>3. /\ manifest' = [manifest EXCEPT ![p] = manifest'[p]]
      /\ output' = [output EXCEPT ![p] = output'[p]]
      /\ verdicts' = [verdicts EXCEPT ![p] = verdicts'[p]]
  <2>1. manifest' = [manifest EXCEPT ![p] = manifest'[p]]
    BY <1>1 DEF Typed
  <2>2. output' = [output EXCEPT ![p] = output'[p]]
    BY <1>1 DEF Typed
  <2>3. verdicts' = [verdicts EXCEPT ![p] = verdicts'[p]]
    BY <1>1 DEF Typed
  <2>. QED
    BY <2>1, <2>2, <2>3
<1>4. evidence' = [evidence EXCEPT ![p] = evidence'[p]]
  BY <1>1 DEF Typed
<1>5. \A q \in Procs \ {p} : result'[q] = result[q]
  <2>1. result' = result \/ \E x : result' = [result EXCEPT ![p] = x]
    OBVIOUS
  <2>. QED
    BY <1>1, <2>1 DEF Typed
<1>6. UNCHANGED <<files, declared, child, stable, final, traceFile, calls>>
  OBVIOUS
<1>. QED
  BY <1>1, <1>2, <1>3, <1>4, <1>5, <1>6, ZenonT(30) DEF Bystanders, Same, Typed

\* A step of a verifier changes the place and the verdicts of its process.
LEMMA VerifierBystanders ==
    ASSUME PlacedInv, NEW p \in Procs, RunVerifiers(p) \/ CommandExits(p)
    PROVE  /\ Bystanders(p)
           /\ UNCHANGED <<files, declared, manifest, output, final, traceFile, evidence, result, calls>>
           /\ stable' \in {stable, [stable EXCEPT ![SubjectOf(p)] = FALSE]}
<1> USE DEF RunVerifiers, SchemaVerifier, CommandRefused, CommandFails, CommandLaunch,
        CommandTimesOut, VerifierUnknown, CommandExits, Inconclusive, Verdict, memory
<1>1. Typed
  BY DEF PlacedInv
<1>2. pc' = [pc EXCEPT ![p] = pc'[p]]
  BY <1>1 DEF Typed
<1>3. verdicts' = [verdicts EXCEPT ![p] = verdicts'[p]]
  BY <1>1 DEF Typed
<1>4. UNCHANGED <<files, declared, manifest, output, final, traceFile, evidence, result, calls>>
  OBVIOUS
<1>5. stable' \in {stable, [stable EXCEPT ![SubjectOf(p)] = FALSE]}
  OBVIOUS
<1>6. \A q \in Procs \ {p} : child'[q] = child[q]
  BY <1>1, CommandGone
<1>. QED
  BY <1>1, <1>2, <1>3, <1>4, <1>5, <1>6 DEF Bystanders, Same, Typed

\* What a stable run and a verify rely on: their own locals, the manifest on
\* disk and the directories that the verifiers of the run work in.
LeftAlone(q) ==
    /\ \A v \in Elements(manifest[q].checks) : files'[Workdir(q, v)] = files[Workdir(q, v)]
    /\ declared'[Home[q]] = declared[Home[q]]
    /\ pc[q] = "command" => child'[q].quiet = child[q].quiet

LEMMA UpheldFrame ==
    ASSUME NEW q \in Runs, Upheld(q), Same(q), stable'[q] => stable[q] /\ LeftAlone(q)
    PROVE  Upheld(q)'
<1>0. (pc[q] \in {"execute", "shell"} => manifest[q].preflight = "fits")'
  BY DEF Upheld, Same
<1>1. ASSUME stable'[q] PROVE Upheld(q)'
  <2>1. /\ stable[q] /\ declared'[Home[q]] = declared[Home[q]]
        /\ \A i \in DOMAIN manifest[q].checks :
              LET v == manifest[q].checks[i] IN files'[Workdir(q, v)] = files[Workdir(q, v)]
        /\ pc[q] = "command" => child'[q].quiet = child[q].quiet
    BY <1>1 DEF LeftAlone, Elements
  <2>2. (pc[q] \in {"verify", "command"} =>
            SoundTo(Len(verdicts[q]), manifest[q].checks, output[q], q))'
    BY <2>1 DEF Upheld, Same, SoundTo
  <2>3. (pc[q] \in {"persist", "writing"} /\ final[q] = "passed" =>
            SoundTo(Len(manifest[q].checks), manifest[q].checks, output[q], q))'
    BY <2>1 DEF Upheld, Same, SoundTo
  <2>4. (Complete(traceFile[q]) /\ traceFile[q].final = "passed" =>
            /\ traceFile[q].by = manifest[q]
            /\ traceFile[q].output \in {output[q], Sanitized(manifest[q], output[q])}
            /\ SoundTo(Len(manifest[q].checks), manifest[q].checks, traceFile[q].output, q))'
    BY <2>1 DEF Upheld, Same, SoundTo, Complete, Sanitized
  <2>. QED
    BY <1>0, <2>1, <2>2, <2>3, <2>4 DEF Upheld, Same
<1>. QED
  BY <1>0, <1>1 DEF Upheld

LEMMA AgreedFrame ==
    ASSUME NEW q \in Procs, Agreed(q), Same(q), result'[q] = result[q],
           stable'[SubjectOf(q)] /\ SameDirs(q) =>
               /\ stable[SubjectOf(q)]
               /\ pc[q] = "recommand" => child'[q].quiet = child[q].quiet
    PROVE  Agreed(q)'
BY DEF Agreed, Same, SameDirs, Claims, InScope, PolicyPlace, Denied

LEMMA OneUpholds ==
    ASSUME StableInv, RecordInv', NEW p \in Procs, Bystanders(p), UNCHANGED <<files, declared>>,
           \A r \in Runs : stable'[r] => stable[r],
           p \in Runs => Upheld(p)', Agreed(p)'
    PROVE  StableInv'
<1>1. ASSUME NEW r \in Runs PROVE Upheld(r)'
  <2>1. r \in Procs
    BY ProcsType
  <2>2. CASE r # p
    BY <2>1, <2>2, UpheldFrame DEF Bystanders, LeftAlone, StableInv
  <2>. QED
    BY <2>2
<1>2. ASSUME NEW q \in Procs PROVE Agreed(q)'
  <2>1. CASE q # p
    BY <2>1, SubjectType, AgreedFrame DEF Bystanders, StableInv
  <2>. QED
    BY <2>1
<1>. QED
  BY <1>1, <1>2 DEF StableInv

LEMMA StableInit == Init => StableInv
<1> SUFFICES ASSUME Init PROVE StableInv
    OBVIOUS
<1>1. \A r \in Runs : Upheld(r)
  BY ProcsType DEF Init, Upheld
<1>2. \A p \in Procs : Agreed(p)
  BY SubjectType DEF Init, Agreed
<1>. QED
  BY <1>1, <1>2, RecordInit DEF StableInv

(* A run on its way to its adapter is not stable yet.                       *)
LEMMA RunStartsStable ==
    ASSUME StableInv, RecordInv', NEW r \in Runs,
           \/ CheckResolveFails(r) \/ RunResolveFails(r) \/ RunLoadFails(r) \/ RunLoad(r)
           \/ RunRefused(r) \/ RunExecute(r) \/ ExecuteFails(r)
    PROVE  StableInv'
<1>1. /\ Bystanders(r) /\ UNCHANGED <<files, declared, stable, evidence>>
      /\ r \in Procs /\ SubjectOf(r) = r /\ PlacedInv /\ Typed /\ Local(r) /\ Upheld(r)
  BY RunBystanders, ProcsType DEF StableInv, RecordInv, PlacedInv, SubjectOf, RunMoves
<1>2. /\ pc[r] \in {"idle", "preflight", "execute"}
      /\ pc'[r] \in {"preflight", "execute", "persist", "done"}
      /\ pc'[r] = "execute" => manifest'[r].preflight = "fits"
  BY <1>1 DEF CheckResolveFails, RunResolveFails, RunLoadFails, RunLoad, RunRefused, RunExecute,
              ExecuteFails, Calling, Return, Typed, memory
<1>3. ~stable[r] /\ evidence[r] = Absent
  BY <1>1, <1>2 DEF Upheld, Local, Recorded, Audited, Working
<1>4. Upheld(r)' /\ Agreed(r)'
  BY <1>1, <1>2, <1>3 DEF Upheld, Agreed
<1>. QED
  BY <1>1, <1>4, OneUpholds

(* A run ends: what its verifiers found goes into its trace.                *)
LEMMA RunSettlesStable ==
    ASSUME StableInv, RecordInv', NEW r \in Runs,
           RunRejected(r) \/ RunAccepted(r) \/ PersistOpen(r) \/ PersistFails(r)
    PROVE  StableInv'
<1>1. /\ Bystanders(r) /\ UNCHANGED <<files, declared, child, stable, evidence, output, verdicts>>
      /\ r \in Procs /\ SubjectOf(r) = r /\ PlacedInv /\ Typed /\ Local(r) /\ Upheld(r)
  BY RunBystanders, ProcsType DEF StableInv, RecordInv, PlacedInv, SubjectOf, RunMoves
<1>2. /\ pc[r] \in {"rejected", "verify", "persist", "writing"}
      /\ pc'[r] \in {"persist", "writing", "done"} /\ UNCHANGED manifest
      /\ ~Complete(traceFile'[r])
  BY <1>1 DEF RunRejected, RunAccepted, PersistOpen, PersistFails, Return, Typed, memory,
              Local, Recorded, Working, Complete
<1>3. evidence[r] = Absent
  BY <1>1, <1>2 DEF Local, Recorded, Audited, Working
<1>4. pc'[r] \in {"persist", "writing"} /\ final'[r] = "passed" =>
         \/ pc[r] \in {"persist", "writing"} /\ final[r] = "passed"
         \/ pc[r] = "verify" /\ ~Pending(r)
  BY <1>1 DEF RunRejected, RunAccepted, PersistOpen, PersistFails, Return, Typed, memory
<1>5. pc[r] = "verify" /\ ~Pending(r) => Len(verdicts[r]) = Len(manifest[r].checks)
  <2> SUFFICES ASSUME pc[r] = "verify", ~Pending(r)
               PROVE  Len(verdicts[r]) = Len(manifest[r].checks)
      OBVIOUS
  <2>1. manifest[r] \in Manifests /\ verdicts[r] \in Seq(Verdicts)
    BY <1>1 DEF PlacedInv, Placed, Typed
  <2>2. manifest[r].checks \in Seq(Verifiers)
    BY <2>1, ManifestType
  <2>3. Len(verdicts[r]) <= Len(manifest[r].checks)
    BY <1>1 DEF Local, Progress, Verifying
  <2>. QED
    BY <2>1, <2>2, <2>3 DEF Pending
<1>6. Upheld(r)'
  BY <1>1, <1>2, <1>4, <1>5 DEF Upheld, SoundTo
<1>7. Agreed(r)'
  BY <1>1, <1>2, <1>3 DEF Agreed
<1>. QED
  BY <1>1, <1>6, <1>7, OneUpholds

LEMMA RunPersistsStable ==
    ASSUME StableInv, RecordInv', NEW r \in Runs,
           PersistPassed(r) \/ PersistPanics(r) \/ PersistFailed(r)
    PROVE  StableInv'
<1>1. /\ Bystanders(r) /\ UNCHANGED <<files, declared, child, stable, evidence, output, verdicts>>
      /\ r \in Procs /\ SubjectOf(r) = r /\ PlacedInv /\ Typed /\ Local(r) /\ Upheld(r)
  BY RunBystanders, ProcsType DEF StableInv, RecordInv, PlacedInv, SubjectOf, RunMoves
<1>2. /\ pc[r] = "writing" /\ pc'[r] \in {"audit", "done", "dead"} /\ UNCHANGED <<manifest, final>>
      /\ traceFile'[r] = Document(r)
  BY <1>1 DEF PersistPassed, PersistPanics, PersistFailed, Return, Typed, memory
<1>3. evidence[r] = Absent
  BY <1>1, <1>2 DEF Local, Recorded, Audited, Working
<1>4. /\ Document(r).final = final[r] /\ Document(r).by = manifest[r]
      /\ Document(r).output = Sanitized(manifest[r], output[r])
  BY DEF Document
<1>5. output[r] # Absent => Sanitized(manifest[r], output[r]).complete = output[r].complete
  BY <1>1 DEF Typed, Answers, Sanitized
<1>6. final[r] = "passed" => output[r] # Absent
  BY <1>1 DEF PlacedInv, Answered
<1>7. Upheld(r)'
  <2>1. ASSUME stable[r], final[r] = "passed"
        PROVE  SoundTo(Len(manifest[r].checks), manifest[r].checks, Document(r).output, r)'
    <3>1. SoundTo(Len(manifest[r].checks), manifest[r].checks, output[r], r)
      BY <1>1, <1>2, <2>1 DEF Upheld
    <3>2. Document(r).output.complete = output[r].complete
      BY <1>4, <1>5, <1>6, <2>1
    <3>3. (Document(r).output)' = Document(r).output
      BY <1>1, <1>2, <1>4 DEF Document
    <3>. QED
      BY <1>1, <1>2, <3>1, <3>2, <3>3 DEF SoundTo, Sound
  <2>. QED
    BY <1>1, <1>2, <1>4, <2>1 DEF Upheld, SoundTo, Document
<1>8. Agreed(r)'
  BY <1>1, <1>2, <1>3 DEF Agreed
<1>. QED
  BY <1>1, <1>7, <1>8, OneUpholds

\* What p waits for works on a directory that nothing has touched since.
Sees(p) == Launching(p) => child[p].quiet

\* The next verifier of p is sound where it works.
NextSound(p) == Sound(Verifier(p), output[p], files[Workdir(p, Verifier(p))])

(* A step of a verifier launches a command, passes or fails; unless that    *)
(* was inconclusive it passes just if it is sound.                          *)
LEMMA VerifierOutcome ==
    ASSUME StableInv, NEW p \in Procs, RunVerifiers(p) \/ CommandExits(p)
    PROVE  /\ Verifying(p) \/ Launching(p)
           /\ Pending(p)
           /\ \/ /\ verdicts'[p] = verdicts[p] /\ pc'[p] = Launched(pc[p]) /\ Verifying(p)
                 /\ child'[p].quiet
              \/ /\ Len(verdicts'[p]) = Len(verdicts[p]) + 1
                 /\ pc'[p] = Passed(pc[p])
                 /\ Sees(p) => NextSound(p)
              \/ /\ pc'[p] = Failed(pc[p])
                 /\ stable'[SubjectOf(p)] /\ Sees(p) => ~NextSound(p)
<1>0. PlacedInv /\ Typed /\ Placed(p) /\ SubjectOf(p) \in Runs
  BY SubjectType DEF StableInv, RecordInv, PlacedInv
<1>1. (Verifying(p) \/ Launching(p)) /\ Pending(p)
  BY <1>0 DEF RunVerifiers, SchemaVerifier, CommandRefused, CommandFails, CommandLaunch,
              CommandTimesOut, VerifierUnknown, CommandExits, Placed
<1>2. manifest[p] # Absent /\ output[p] \in Answers
  BY <1>0, <1>1 DEF Placed, Verifying, Launching, Typed
<1>3. Verifier(p) \in Verifiers
  BY <1>0, <1>1, <1>2, VerifierType
<1>4. Launching(p) => Verifier(p).kind = "command" /\ Verifier(p).contract
  BY <1>0 DEF Placed
<1>5. ASSUME NEW ok \in BOOLEAN, Verdict(p, ok)
      PROVE  /\ ok => Len(verdicts'[p]) = Len(verdicts[p]) + 1 /\ pc'[p] = Passed(pc[p])
             /\ ~ok => pc'[p] = Failed(pc[p])
  <2>1. /\ verdicts'[p] = Append(verdicts[p], [name |-> Verifier(p).name, passed |-> ok])
        /\ pc'[p] = IF ok THEN IF pc[p] \in {"verify", "command"} THEN "verify" ELSE "reverify"
                    ELSE IF pc[p] \in {"verify", "command"} THEN "rejected" ELSE "refuted"
    BY <1>0, <1>1, <1>5, VerdictType
  <2>2. verdicts[p] \in Seq(Verdicts)
    BY <1>0 DEF Typed
  <2>3. Len(verdicts'[p]) = Len(verdicts[p]) + 1
    BY <2>1, <2>2
  <2>. QED
    BY <2>1, <2>3 DEF Passed, Failed
<1>6. CASE SchemaVerifier(p)
  <2>1. Verdict(p, output[p].complete) /\ Verifier(p).kind = "schema" /\ output[p].complete \in BOOLEAN
    BY <1>2, <1>6 DEF SchemaVerifier, Answers
  <2>2. output[p].complete <=> NextSound(p)
    BY <2>1 DEF NextSound, Sound
  <2>. QED
    BY <1>1, <1>5, <2>1, <2>2
<1>7. CASE CommandRefused(p)
  <2>1. Verdict(p, FALSE) /\ ~NextSound(p)
    BY <1>7 DEF CommandRefused, NextSound, Sound
  <2>. QED
    BY <1>1, <1>5, <2>1
<1>8. CASE CommandLaunch(p)
  <2>1. child'[p] = Command(Absent)
    BY <1>0, <1>8, CommandGone DEF CommandLaunch
  <2>2. child'[p].quiet
    BY <2>1 DEF Command
  <2>. QED
    BY <1>0, <1>1, <1>8, <2>2 DEF CommandLaunch, Typed
<1>9. CASE Inconclusive(p)
  <2>1. Verdict(p, FALSE) /\ ~stable'[SubjectOf(p)]
    BY <1>0, <1>9 DEF Inconclusive, Typed
  <2>. QED
    BY <1>1, <1>5, <2>1
<1>10. CASE VerifierUnknown(p)
  <2>1. ~NextSound(p)
    BY <1>10 DEF VerifierUnknown, NextSound, Sound
  <2>. QED
    BY <1>0, <1>1, <1>10, <2>1 DEF VerifierUnknown, Typed
<1>11. CASE CommandExits(p)
  <2>1. PICK code \in Codes(p) : Verdict(p, code = 0 /\ code = Verifier(p).wants)
    BY <1>11 DEF CommandExits
  <2>2. Sees(p) => code = ExitCode[Verifier(p).name][files[Workdir(p, Verifier(p))]]
    BY <1>11 DEF Sees, CommandExits, Codes
  <2>3. Sees(p) => ((code = 0 /\ code = Verifier(p).wants) <=> NextSound(p))
    BY <1>4, <1>11, <2>2 DEF NextSound, Sound, CommandExits
  <2>. QED
    BY <1>1, <1>5, <2>1, <2>3
<1>. QED
  BY <1>6, <1>7, <1>8, <1>9, <1>10, <1>11 DEF RunVerifiers, CommandFails, CommandTimesOut

LEMMA PendingIsListed ==
    ASSUME Typed, NEW p \in Procs, manifest[p] # Absent, Pending(p)
    PROVE  /\ Len(verdicts[p]) \in Nat
           /\ Len(verdicts[p]) + 1 \in DOMAIN manifest[p].checks
           /\ Verifier(p) \in Elements(manifest[p].checks)
<1>1. manifest[p] \in Manifests /\ verdicts[p] \in Seq(Verdicts)
  BY DEF Typed
<1>2. manifest[p].checks \in Seq(Verifiers)
  BY <1>1, ManifestType
<1>3. Len(verdicts[p]) \in Nat /\ Len(verdicts[p]) + 1 \in DOMAIN manifest[p].checks
  BY <1>1, <1>2 DEF Pending
<1>. QED
  BY <1>3 DEF Verifier, Elements

\* What a verify checks again, on a run that is stable, is sound.
LEMMA ReverifiedIsSound ==
    ASSUME StableInv, NEW p \in Procs, pc[p] \in {"reverify", "recommand"},
           stable[SubjectOf(p)], SameDirs(p), Pending(p)
    PROVE  NextSound(p)
<1> DEFINE r == SubjectOf(p)
<1>1. /\ Typed /\ Placed(p) /\ Local(p) /\ Agreed(p) /\ r \in Runs /\ Upheld(r)
  BY SubjectType DEF StableInv, RecordInv, PlacedInv
<1>2. /\ evidence[p] = traceFile[r] /\ Complete(traceFile[r]) /\ traceFile[r].final = "passed"
      /\ manifest[p] = evidence[p].by /\ output[p] = evidence[p].output
  BY <1>1 DEF Local, Audited, Agreed, AuditPcs
<1>3. SoundTo(Len(manifest[p].checks), manifest[p].checks, output[p], r)
  BY <1>1, <1>2 DEF Upheld
<1>4. manifest[p] # Absent /\ manifest[p] \in Manifests
  BY <1>1 DEF Placed, Typed
<1>5. /\ Len(verdicts[p]) + 1 \in DOMAIN manifest[p].checks
      /\ Verifier(p) \in Elements(manifest[p].checks)
  BY <1>1, <1>4, PendingIsListed
<1>6. Len(verdicts[p]) + 1 <= Len(manifest[p].checks)
  BY <1>4, <1>5, ManifestType
<1>7. Workdir(p, Verifier(p)) = Workdir(r, Verifier(p))
  BY <1>2, <1>5 DEF SameDirs
<1>. QED
  BY <1>3, <1>5, <1>6, <1>7 DEF SoundTo, NextSound, Verifier

LEMMA VerifiersStable ==
    ASSUME StableInv, RecordInv', NEW p \in Procs, RunVerifiers(p) \/ CommandExits(p)
    PROVE  StableInv'
<1>1. /\ Bystanders(p)
      /\ UNCHANGED <<files, declared, manifest, output, final, traceFile, evidence, result, calls>>
      /\ stable' \in {stable, [stable EXCEPT ![SubjectOf(p)] = FALSE]}
      /\ PlacedInv /\ Typed /\ Placed(p) /\ Local(p) /\ Agreed(p) /\ SubjectOf(p) \in Runs
  BY VerifierBystanders, SubjectType DEF StableInv, RecordInv, PlacedInv
<1>2. \A r \in Runs : stable'[r] => stable[r]
  BY <1>1 DEF Typed
<1>3. /\ pc[p] \in {"verify", "command", "reverify", "recommand"}
      /\ pc'[p] \in {Launched(pc[p]), Passed(pc[p]), Failed(pc[p])}
      /\ pc'[p] \in {Passed(pc[p]), Failed(pc[p])} \/ pc[p] \in {"verify", "reverify"}
  BY VerifierOutcome DEF Verifying, Launching
<1>6. pc'[p] \in {"command", "recommand"} => child'[p].quiet
  BY VerifierOutcome DEF Passed, Failed
<1>7. manifest[p] # Absent
  BY <1>1, <1>3 DEF Placed
<1>4. ASSUME p \in Runs PROVE Upheld(p)'
  <2>1. SubjectOf(p) = p /\ Upheld(p)
    BY <1>4, ProcsType DEF SubjectOf, StableInv
  <2>2. ASSUME stable[p], pc'[p] \in {"verify", "command"}
        PROVE  SoundTo(Len(verdicts'[p]), manifest[p].checks, output[p], p)
    <3>1. /\ pc[p] \in {"verify", "command"}
          /\ SoundTo(Len(verdicts[p]), manifest[p].checks, output[p], p)
          /\ Sees(p)
      BY <1>3, <2>1, <2>2 DEF Upheld, Launched, Passed, Failed, Sees, Launching
    <3>2. CASE verdicts'[p] = verdicts[p]
      BY <3>1, <3>2
    <3>3. CASE Len(verdicts'[p]) = Len(verdicts[p]) + 1 /\ NextSound(p)
      <4>1. Len(verdicts[p]) \in Nat /\ Len(verdicts[p]) + 1 \in DOMAIN manifest[p].checks
        BY <1>1, <1>7, PendingIsListed, VerifierOutcome
      <4>2. manifest[p] \in Manifests
        BY <1>1, <1>7 DEF Typed
      <4>3. \A i \in DOMAIN manifest[p].checks :
               i <= Len(verdicts[p]) + 1 => i <= Len(verdicts[p]) \/ i = Len(verdicts[p]) + 1
        BY <4>1, <4>2, ManifestType
      <4>. QED
        BY <3>1, <3>3, <4>3 DEF SoundTo, NextSound, Verifier
    <3>4. pc'[p] # Failed(pc[p])
      BY <2>2, <3>1 DEF Failed
    <3>. QED
      BY <3>1, <3>2, <3>3, <3>4, VerifierOutcome
  <2>3. pc'[p] \notin {"idle", "preflight", "execute", "shell", "persist", "writing"}
    BY <1>3 DEF Launched, Passed, Failed
  <2>. QED
    BY <1>1, <1>2, <1>3, <1>4, <1>6, <2>1, <2>2, <2>3 DEF Upheld, SoundTo, Complete, Workdir
<1>5. Agreed(p)'
  <2>1. ASSUME stable'[SubjectOf(p)], SameDirs(p) PROVE pc'[p] # "refuted"
    <3>1. CASE pc[p] \in {"verify", "command"}
      BY <1>3, <3>1 DEF Launched, Passed, Failed
    <3>2. CASE pc[p] \in {"reverify", "recommand"}
      <4>1. NextSound(p)
        BY <1>1, <1>2, <2>1, <3>2, ReverifiedIsSound, VerifierOutcome
      <4>2. Sees(p)
        BY <1>1, <1>2, <2>1, <3>2 DEF Agreed, Sees, Launching
      <4>3. pc'[p] \in {Launched(pc[p]), Passed(pc[p])}
        BY <2>1, <4>1, <4>2, VerifierOutcome
      <4>. QED
        BY <3>2, <4>3 DEF Launched, Passed
    <3>. QED
      BY <1>3, <3>1, <3>2
  <2>2. /\ pc'[p] # "done"
        /\ pc'[p] \in {"reverify", "recommand"} => pc[p] \in {"reverify", "recommand"}
    BY <1>3 DEF Launched, Passed, Failed
  <2>3. SameDirs(p)' = SameDirs(p)
    BY <1>1 DEF SameDirs, Workdir, SubjectOf
  <2>. QED
    BY <1>1, <1>2, <1>6, <2>1, <2>2, <2>3 DEF Agreed
<1>. QED
  BY <1>1, <1>2, <1>4, <1>5, OneUpholds

(* The adapter answers: from here on the run may be stable.                 *)
LEMMA ExecuteStable ==
    ASSUME StableInv, RecordInv', NEW r \in Runs, NEW out \in Outputs, ExecuteReturns(r, out)
    PROVE  StableInv'
<1>1. /\ r \in Procs /\ SubjectOf(r) = r /\ PlacedInv /\ Typed /\ Placed(r) /\ Local(r) /\ Upheld(r)
      /\ pc[r] = "execute" /\ verdicts[r] = <<>>
  BY ProcsType
     DEF StableInv, RecordInv, PlacedInv, SubjectOf, ExecuteReturns, Calling, Local, Progress
<1>2. /\ UNCHANGED <<files, declared, manifest, tools, verdicts, final, child, traceFile, evidence,
                    result>>
      /\ pc' = [pc EXCEPT ![r] = "verify"] /\ output' = [output EXCEPT ![r] = out]
      /\ stable' = [stable EXCEPT ![r] = declared[Home[r]] = manifest[r]]
  BY DEF ExecuteReturns
<1>3. Bystanders(r) /\ pc'[r] = "verify"
  BY <1>1, <1>2 DEF Bystanders, Same, Typed
<1>4. ~Complete(traceFile[r])
  BY <1>1 DEF Local, Recorded, Working
<1>5. \A q \in Runs : stable'[q] => (q = r \/ stable[q])
  BY <1>1, <1>2 DEF Typed
<1>6. Upheld(r)'
  <2>1. stable'[r] => declared[Home[r]] = manifest[r]
    BY <1>1, <1>2 DEF Typed
  <2>2. manifest[r] # Absent /\ manifest[r].preflight = "fits"
    BY <1>1 DEF Placed, Upheld
  <2>3. SoundTo(Len(verdicts[r]), manifest[r].checks, output[r], r)'
    <3>1. manifest[r] \in Manifests
      BY <1>1, <2>2 DEF Typed
    <3>2. \A i \in DOMAIN manifest[r].checks : i \in Nat /\ i > 0
      BY <3>1, ManifestType
    <3>3. verdicts'[r] = <<>> /\ manifest'[r] = manifest[r]
      BY <1>1, <1>2
    <3>. QED
      BY <3>2, <3>3 DEF SoundTo
  <2>. QED
    BY <1>2, <1>3, <1>4, <2>1, <2>2, <2>3 DEF Upheld, Complete
<1>7. ASSUME NEW q \in Runs PROVE Upheld(q)'
  <2>1. CASE q # r
    BY <1>2, <1>3, <1>5, <2>1, ProcsType, UpheldFrame DEF Bystanders, LeftAlone, StableInv
  <2>. QED
    BY <1>6, <2>1
<1>8. ASSUME NEW q \in Procs PROVE Agreed(q)'
  <2>1. Local(q) /\ Agreed(q) /\ SubjectOf(q) \in Runs
    BY SubjectType DEF StableInv, RecordInv
  <2>2. CASE SubjectOf(q) # r
    <3>1. q # r /\ (stable'[SubjectOf(q)] => stable[SubjectOf(q)])
      BY <1>1, <1>5, <2>1, <2>2
    <3>. QED
      BY <1>3, <2>1, <3>1, AgreedFrame DEF Bystanders
  <2>3. CASE SubjectOf(q) = r
    \* Nothing can have read the trace of r yet.
    <3>1. evidence[q] = Absent /\ pc[q] \notin AuditPcs
      BY <1>4, <2>1, <2>3 DEF Local, Audited
    <3>2. CASE q = r
      BY <1>2, <1>3, <3>1, <3>2 DEF Agreed
    <3>3. CASE q # r
      BY <1>2, <1>3, <2>1, <3>1, <3>3
         DEF Agreed, Bystanders, Same, AuditPcs
    <3>. QED
      BY <3>2, <3>3
  <2>. QED
    BY <2>2, <2>3
<1>. QED
  BY <1>7, <1>8 DEF StableInv

LEMMA WorkdirType ==
    ASSUME NEW p \in Procs, NEW m \in Manifests, NEW v \in Elements(m.checks)
    PROVE  Workdir(p, v) \in Places
<1>1. v \in Verifiers
  BY ManifestType, SequenceFacts DEF Elements
<1>. QED
  BY <1>1, SkillRunAssumption DEF Workdir, Verifiers

(* Whoever changes a directory takes the runs whose verifiers work in it    *)
(* their stability.                                                         *)
LEMMA DisturbedStable ==
    ASSUME StableInv, RecordInv', \A q \in Procs : Same(q), UNCHANGED result,
           \A r \in Runs : stable'[r] => stable[r] /\ LeftAlone(r),
           \A p \in Procs : stable'[SubjectOf(p)] /\ SameDirs(p) /\ pc[p] = "recommand" =>
                               child'[p].quiet = child[p].quiet
    PROVE  StableInv'
<1>2. ASSUME NEW r \in Runs PROVE Upheld(r)'
  BY ProcsType, UpheldFrame DEF StableInv
<1>3. ASSUME NEW q \in Procs PROVE Agreed(q)'
  BY SubjectType, AgreedFrame DEF StableInv
<1>. QED
  BY <1>2, <1>3 DEF StableInv

\* A command waited for reads the directory of one of the verifiers.
LEMMA PutDisturbs ==
    ASSUME StableInv, NEW place \in Places, NEW n \in Names, NEW c \in Contents \union {Absent},
           Put(place, n, c), UNCHANGED declared
    PROVE  /\ \A r \in Runs : stable'[r] => stable[r] /\ LeftAlone(r)
           /\ \A p \in Procs : stable'[SubjectOf(p)] /\ SameDirs(p) /\ pc[p] = "recommand" =>
                                  child'[p].quiet = child[p].quiet
<1>0. PlacedInv /\ Typed
  BY DEF StableInv, RecordInv, PlacedInv
<1>1. /\ files' = [files EXCEPT ![place] = [files[place] EXCEPT ![n] = c]]
      /\ \A at \in Places \ {place} : files'[at] = files[at]
  BY <1>0 DEF Put, Typed
<1>2. ASSUME NEW r \in Runs, stable'[r]
      PROVE  stable[r] /\ \A v \in Elements(manifest[r].checks) : Workdir(r, v) # place
  BY <1>2 DEF Put
<1>3. ASSUME NEW p \in Procs, Launching(p), Workdir(p, Verifier(p)) # place
      PROVE  child'[p].quiet = child[p].quiet
  <2>1. child'[p] = [child[p] EXCEPT !.quiet =
                        @ /\ ~(Launching(p) /\ Workdir(p, Verifier(p)) = place)]
    BY DEF Put
  <2>2. child[p] \in Children
    BY <1>0 DEF Typed
  <2>3. child'[p].quiet = (child[p].quiet /\ ~(Launching(p) /\ Workdir(p, Verifier(p)) = place))
    BY <2>1, <2>2 DEF Children
  <2>. QED
    BY <1>3, <2>2, <2>3 DEF Children
<1>4. ASSUME NEW p \in Procs, Launching(p)
      PROVE  Verifier(p) \in Elements(manifest[p].checks)
  BY <1>0, <1>4, PendingIsListed DEF PlacedInv, Placed, Launching
<1>5. ASSUME NEW r \in Runs, stable'[r] PROVE stable[r] /\ LeftAlone(r)
  <2>1. stable[r] /\ \A v \in Elements(manifest[r].checks) : Workdir(r, v) # place
    BY <1>2, <1>5
  <2>2. manifest[r] \in Manifests
    <3>1. manifest[r] # Absent
      BY <2>1 DEF StableInv, Upheld
    <3>. QED
      BY <1>0, <3>1, ProcsType DEF Typed
  <2>3. \A v \in Elements(manifest[r].checks) : Workdir(r, v) \in Places
    BY <2>2, ProcsType, WorkdirType
  <2>4. \A v \in Elements(manifest[r].checks) : files'[Workdir(r, v)] = files[Workdir(r, v)]
    BY <1>1, <2>1, <2>3
  <2>5. pc[r] = "command" => child'[r].quiet = child[r].quiet
    BY <1>3, <1>4, <2>1, ProcsType DEF Launching
  <2>. QED
    BY <2>1, <2>4, <2>5 DEF LeftAlone
<1>6. ASSUME NEW p \in Procs, stable'[SubjectOf(p)], SameDirs(p), pc[p] = "recommand"
      PROVE  child'[p].quiet = child[p].quiet
  <2> DEFINE r == SubjectOf(p)
  <2>1. r \in Runs /\ Local(p) /\ Agreed(p) /\ Upheld(r)
    BY SubjectType DEF StableInv, RecordInv
  <2>2. stable[r] /\ \A v \in Elements(manifest[r].checks) : Workdir(r, v) # place
    BY <1>2, <1>6, <2>1
  <2>3. evidence[p] = traceFile[r] /\ Complete(traceFile[r]) /\ traceFile[r].final = "passed"
    BY <1>6, <2>1 DEF Local, Audited, AuditPcs
  <2>4. manifest[p] = evidence[p].by /\ evidence[p].by = manifest[r]
    BY <1>6, <2>1, <2>2, <2>3 DEF Agreed, Upheld
  <2>5. Launching(p)
    BY <1>6 DEF Launching
  <2>6. Workdir(p, Verifier(p)) # place
    BY <1>4, <1>6, <2>2, <2>4, <2>5 DEF SameDirs
  <2>. QED
    BY <1>3, <2>5, <2>6
<1>. QED
  BY <1>5, <1>6

(* The tools of an adapter, other than the launch of a command, and those   *)
(* who work in a repository.                                                *)
LEMMA WorldStable ==
    ASSUME StableInv, RecordInv',
           \/ \E r \in Runs : Tool(r) /\ \A cmd \in Commands : ~ShellLaunch(r, cmd)
           \/ Outside
           \/ UNCHANGED vars
    PROVE  StableInv'
<1>0. PlacedInv /\ Typed
  BY DEF StableInv, RecordInv, PlacedInv
<1>1. ASSUME NEW r \in Runs, Tool(r), \A cmd \in Commands : ~ShellLaunch(r, cmd)
      PROVE  StableInv'
  <2>1. Unchanged
    BY <1>0, <1>1, ToolEffect
  <2>2. CASE Quiet
    <3>1. /\ \A q \in Procs : Same(q)
          /\ UNCHANGED <<result, stable, files, declared, child>>
      BY <2>1, <2>2 DEF Unchanged, Quiet, Same
    <3>. QED
      BY <3>1, DisturbedStable DEF LeftAlone
  <2>3. ASSUME NEW place \in Places, NEW n \in Names, NEW c \in Contents, Put(place, n, c)
        PROVE  StableInv'
    <3>1. \A q \in Procs : child'[q].cmd = child[q].cmd
      BY <1>0, <2>3, PutType
    <3>2. (\A q \in Procs : Same(q)) /\ UNCHANGED <<result, declared>>
      BY <2>1, <3>1 DEF Unchanged, Same
    <3>. QED
      BY <2>3, <3>2, PutDisturbs, DisturbedStable
  <2>. QED
    BY <1>0, <1>1, <2>2, <2>3, ToolEffect
<1>2. ASSUME NEW place \in Places, NEW n \in Names, NEW c \in Contents \union {Absent},
             Edit(place, n, c)
      PROVE  StableInv'
  <2>1. Put(place, n, c)
    BY <1>2 DEF Edit
  <2>2. \A q \in Procs : child'[q].cmd = child[q].cmd
    BY <1>0, <2>1, PutType
  <2>3. (\A q \in Procs : Same(q)) /\ UNCHANGED <<result, declared>>
    BY <1>2, <2>2 DEF Edit, Same
  <2>. QED
    BY <2>1, <2>3, PutDisturbs, DisturbedStable
<1>3. ASSUME NEW place \in Places, NEW m \in Manifests \union {Absent}, Redeclare(place, m)
      PROVE  StableInv'
  <2>1. /\ UNCHANGED <<files, child, result>>
        /\ \A q \in Procs : Same(q)
    BY <1>3 DEF Redeclare, memory, Same
  <2>2. \A q \in Runs : stable'[q] => stable[q] /\ declared'[Home[q]] = declared[Home[q]]
    <3>1. /\ \A q \in Runs : stable'[q] = (stable[q] /\ Home[q] # place)
          /\ \A at \in Places \ {place} : declared'[at] = declared[at]
      BY <1>0, <1>3 DEF Redeclare, Typed
    <3>2. \A q \in Runs : Home[q] \in Places
      BY SkillRunAssumption
    <3>. QED
      BY <3>1, <3>2
  <2>. QED
    BY <2>1, <2>2, DisturbedStable DEF LeftAlone
<1>4. CASE UNCHANGED vars
  <2>1. (\A q \in Procs : Same(q)) /\ UNCHANGED <<files, declared, stable, child, result>>
    BY <1>4 DEF vars, memory, Same
  <2>. QED
    BY <2>1, DisturbedStable DEF LeftAlone
<1>5. Outside => \/ \E place \in Places, n \in Names, c \in Contents \union {Absent} :
                       Edit(place, n, c)
                 \/ \E place \in Places, m \in Manifests \union {Absent} : Redeclare(place, m)
  BY SkillRunAssumption DEF Outside
<1>. QED
  BY <1>1, <1>2, <1>3, <1>4, <1>5

(* A command of shell.exec starts and ends before the run may be stable.    *)
LEMMA ShellStable ==
    ASSUME StableInv, RecordInv', NEW r \in Runs,
           (\E cmd \in Commands : ShellLaunch(r, cmd)) \/ (\E class \in Classes : ShellEnds(r, class))
    PROVE  StableInv'
<1>0. /\ r \in Procs /\ SubjectOf(r) = r /\ Typed /\ Local(r) /\ Upheld(r)
  BY ProcsType DEF StableInv, RecordInv, PlacedInv, SubjectOf
<1>1. /\ UNCHANGED <<files, declared, manifest, verdicts, output, final, traceFile, evidence, result,
                     stable>>
      /\ \E cmd \in Commands \union {Absent} : child' = [child EXCEPT ![r] = Command(cmd)]
      /\ \E l \in {"shell", "execute"} : pc' = [pc EXCEPT ![r] = l]
      /\ pc[r] \in {"shell", "execute"}
  BY DEF ShellLaunch, ShellEnds, Calling
<1>2. \A q \in Procs \ {r} : child'[q] = child[q] /\ pc'[q] = pc[q]
  BY <1>0, <1>1, CommandGone DEF Typed
<1>3. pc'[r] \in {"shell", "execute"}
  BY <1>0, <1>1 DEF Typed
<1>4. Bystanders(r)
  BY <1>1, <1>2 DEF Bystanders, Same
<1>5. ~stable[r] /\ manifest[r].preflight = "fits"
  BY <1>0, <1>1 DEF Upheld
<1>6. Upheld(r)' /\ Agreed(r)'
  BY <1>0, <1>1, <1>3, <1>5 DEF Upheld, Agreed
<1>. QED
  BY <1>0, <1>1, <1>4, <1>6, OneUpholds

(* A command, of shell.exec or of a verifier.                               *)
LEMMA ChildStable ==
    ASSUME StableInv, RecordInv', NEW p \in Procs, Child(p)
    PROVE  StableInv'
<1>0. PlacedInv /\ Typed
  BY DEF StableInv, RecordInv, PlacedInv
<1>1. CASE CommandExits(p)
  BY <1>1, VerifiersStable
<1>2. CASE p \in Runs /\ ShellReturns(p)
  BY <1>2, ShellStable DEF ShellReturns, Classes
<1>3. CASE CommandForks(p) \/ CommandLetsGo(p)
  <2>1. \A q \in Procs : child'[q].cmd = child[q].cmd /\ child'[q].quiet = child[q].quiet
    BY <1>0, <1>3, HeldType
  <2>2. /\ \A q \in Procs : Same(q)
        /\ UNCHANGED <<files, declared, stable, result>>
    BY <1>3, <2>1 DEF CommandForks, CommandLetsGo, Same
  <2>. QED
    BY <2>1, <2>2, ProcsType, DisturbedStable DEF LeftAlone
<1>4. ASSUME NEW place \in Places, NEW n \in Names, NEW c \in Contents \union {Absent},
             CommandWrites(p, place, n, c)
      PROVE  StableInv'
  <2>1. Put(place, n, c)
    BY <1>4 DEF CommandWrites
  <2>2. \A q \in Procs : child'[q].cmd = child[q].cmd
    BY <1>0, <2>1, PutType
  <2>3. (\A q \in Procs : Same(q)) /\ UNCHANGED <<result, declared>>
    BY <1>4, <2>2 DEF CommandWrites, Same
  <2>. QED
    BY <2>1, <2>3, PutDisturbs, DisturbedStable
<1>. QED
  BY <1>1, <1>2, <1>3, <1>4 DEF Child

LEMMA CrashStable ==
    ASSUME StableInv, RecordInv', NEW p \in Procs, Crash(p)
    PROVE  StableInv'
<1>1. /\ Typed
      /\ UNCHANGED <<files, declared, manifest, tools, verdicts, output, final, traceFile, evidence,
                     result, stable>>
      /\ pc' = [pc EXCEPT ![p] = "dead"]
  BY DEF StableInv, RecordInv, PlacedInv, Crash
<1>2. \A q \in Procs \ {p} : child'[q] = child[q]
  BY <1>1, CommandGone DEF Crash
<1>3. Bystanders(p) /\ pc'[p] = "dead"
  BY <1>1, <1>2 DEF Bystanders, Same, Typed
<1>4. p \in Runs => Upheld(p)'
  BY <1>1, <1>3 DEF StableInv, Upheld, SoundTo, Complete, Sanitized, Workdir
<1>5. Agreed(p)'
  BY <1>3 DEF Agreed
<1>. QED
  BY <1>1, <1>3, <1>4, <1>5, OneUpholds

(* A verify finds what the run found.                                       *)
LEMMA AuditStable ==
    ASSUME StableInv, RecordInv', NEW p \in Procs, AuditStep(p)
    PROVE  StableInv'
<1> DEFINE r == SubjectOf(p)
<1>1. /\ Bystanders(p) /\ UNCHANGED <<files, declared, stable, final, traceFile, calls>>
      /\ PlacedInv /\ Typed /\ Placed(p) /\ Local(p) /\ Agreed(p)
      /\ r \in Runs /\ r \in Procs /\ Upheld(r) /\ Local(r)
  BY AuditBystanders, SubjectType, ProcsType DEF StableInv, RecordInv, PlacedInv
<1>2. ASSUME pc[p] \in AuditPcs
      PROVE  /\ evidence[p] = traceFile[r] /\ Complete(traceFile[r])
             /\ traceFile[r].final = "passed" /\ ~Denied(evidence[p])
  BY <1>1, <1>2 DEF Local, Audited
\* A stable run has left its manifest where it was.
<1>3. ASSUME pc[p] \in AuditPcs, stable[r]
      PROVE  Manifest(p) = manifest[r] /\ Manifest(p) = evidence[p].by /\ Usable(Manifest(p))
  BY <1>1, <1>2, <1>3 DEF Upheld, Manifest, Usable
<1>t. Typed
  BY <1>1
<1>5. verdicts[p] \in Seq(Verdicts) /\ <<>> \in Seq(Verdicts)
  <2>1. verdicts[p] \in Seq(Verdicts)
    BY <1>t DEF Typed
  <2>. QED
    BY <2>1
<1>4. ASSUME NEW status \in {"", "passed", "failed"}, NEW path \in BOOLEAN,
             NEW summary \in Seq(Verdicts), Return(p, status, path, summary)
      PROVE  /\ pc'[p] = "done"
             /\ result'[p] = [status |-> status, path |-> path, summary |-> summary]
  <2>1. pc \in [Procs -> Pcs] /\ result \in [Procs -> Results]
    BY <1>t DEF Typed
  <2>. QED
    BY <1>4, <2>1 DEF Return
<1> DEFINE Ends == /\ pc'[p] = "done" /\ UNCHANGED <<manifest, output, verdicts>>
<1>6. CASE AuditUnreadable(p)
  <2>1. Ends /\ UNCHANGED evidence
    BY <1>4, <1>5, <1>6 DEF AuditUnreadable, memory
  <2>2. evidence[p] = Absent
    BY <1>1, <1>6 DEF AuditUnreadable, Readable, Local, Audited, Complete
  <2>3. Agreed(p)'
    BY <2>1, <2>2 DEF Agreed
  <2>4. p \in Runs => Upheld(p)'
    BY <1>1, <2>1, ProcsType DEF StableInv, Upheld, SoundTo, Complete, Sanitized
  <2>. QED
    BY <1>1, <2>3, <2>4, OneUpholds
<1>7. CASE AuditRefuses(p)
  <2>1. Ends
    BY <1>4, <1>5, <1>7 DEF AuditRefuses, memory
  <2>2. /\ evidence'[p] = traceFile[r]
        /\ traceFile[r].final # "passed" \/ Denied(traceFile[r])
    BY <1>1, <1>7 DEF AuditRefuses, Typed
  <2>3. Agreed(p)'
    BY <2>1, <2>2 DEF Agreed, Denied
  <2>4. p \in Runs => Upheld(p)'
    BY <1>1, <2>1, <1>7, ProcsType
       DEF StableInv, Upheld, SoundTo, Complete, Sanitized, AuditRefuses, Auditing
  <2>. QED
    BY <1>1, <2>3, <2>4, OneUpholds
<1>8. CASE AuditRead(p) \/ AuditPanics(p)
  <2>1. pc'[p] \in {"reload", "dead"} /\ UNCHANGED <<manifest, output, verdicts>>
    BY <1>1, <1>8 DEF AuditRead, AuditPanics, memory, Typed
  <2>2. Agreed(p)'
    BY <2>1 DEF Agreed
  <2>3. p \in Runs => Upheld(p)'
    BY <1>1, <2>1, <1>8, ProcsType
       DEF StableInv, Upheld, SoundTo, Complete, Sanitized, AuditRead, AuditPanics, Auditing
  <2>. QED
    BY <1>1, <2>2, <2>3, OneUpholds
<1>9. CASE AuditLoadFails(p) \/ AuditOutOfScope(p) \/ AuditRefuted(p) \/ AuditPasses(p)
  <2>1. Ends /\ UNCHANGED evidence /\ pc[p] \in AuditPcs
    BY <1>4, <1>5, <1>9
       DEF AuditLoadFails, AuditOutOfScope, AuditRefuted, AuditPasses, AuditPcs, memory
  <2>2. ASSUME AuditOutOfScope(p), stable[r]
        PROVE  \E path \in Claims(p) : ~InScope(r, path, evidence[p].by.writes)
    BY <1>3, <2>1, <2>2 DEF AuditOutOfScope, ClaimsInScope
  <2>3. ASSUME AuditPasses(p), stable[r], SameDirs(p)
        PROVE  result'[p].status = "passed" /\ result'[p].summary = evidence[p].verdicts
    <3>1. result'[p].status = "passed" /\ result'[p].summary = verdicts[p]
      <4>1. Return(p, "passed", TRUE, verdicts[p])
        BY <2>3 DEF AuditPasses
      <4>2. result'[p] = [status |-> "passed", path |-> TRUE, summary |-> verdicts[p]]
        BY <1>4, <1>5, <4>1
      <4>. QED
        BY <4>2
    <3>2. manifest[p] = evidence[p].by /\ manifest[p] \in Manifests
      BY <1>1, <2>3 DEF AuditPasses, Agreed, Placed, Typed
    <3>3. manifest[p].checks \in Seq(Verifiers)
      BY <3>2, ManifestType
    <3>4. /\ Len(verdicts[p]) <= Len(manifest[p].checks) /\ Passes(verdicts[p], manifest[p].checks)
          /\ ~Pending(p)
      BY <1>1, <2>3 DEF AuditPasses, Local, Progress, Verifying
    <3>5. Len(verdicts[p]) = Len(manifest[p].checks)
      BY <1>5, <3>3, <3>4 DEF Pending
    <3>6. /\ Len(evidence[p].verdicts) = Len(manifest[p].checks)
          /\ Passes(evidence[p].verdicts, manifest[p].checks)
          /\ evidence[p].verdicts \in Seq(Verdicts)
      <4>1. PassesAll(traceFile[r].verdicts, traceFile[r].by.checks)
        BY <1>1, <1>2, <2>1 DEF Local, Recorded
      <4>2. traceFile[r] \in Traces
        BY <1>1, <1>2, <2>1 DEF Typed, Complete
      <4>. QED
        BY <1>2, <2>1, <3>2, <4>1, <4>2 DEF PassesAll, Traces
    <3>7. verdicts[p] = evidence[p].verdicts
      <4>1. /\ Len(verdicts[p]) = Len(evidence[p].verdicts)
            /\ \A i \in 1..Len(verdicts[p]) : verdicts[p][i] = evidence[p].verdicts[i]
        <5>1. Len(verdicts[p]) = Len(evidence[p].verdicts)
          BY <3>5, <3>6
        <5>2. DOMAIN verdicts[p] = 1..Len(verdicts[p])
              /\ DOMAIN evidence[p].verdicts = 1..Len(verdicts[p])
          BY <1>5, <3>6, <5>1
        <5>. QED
          BY <3>4, <3>6, <5>1, <5>2 DEF Passes
      <4>2. \A s, t \in Seq(Verdicts) :
               Len(s) = Len(t) /\ (\A i \in 1..Len(s) : s[i] = t[i]) => s = t
        OBVIOUS
      <4>. QED
        BY <1>5, <3>6, <4>1, <4>2
    <3>. QED
      BY <3>1, <3>7
  <2>4. AuditLoadFails(p) \/ AuditRefuted(p) => ~(stable[r] /\ SameDirs(p))
    BY <1>1, <1>3, <2>1 DEF AuditLoadFails, AuditRefuted, Agreed
  <2>7. SameDirs(p)' = SameDirs(p)
    BY <2>1 DEF SameDirs
  <2>5. Agreed(p)'
    BY <1>1, <1>9, <2>1, <2>2, <2>3, <2>4, <2>7 DEF Agreed, Claims, InScope, PolicyPlace
  <2>6. p \in Runs => Upheld(p)'
    BY <1>1, <2>1, ProcsType DEF StableInv, Upheld, SoundTo, Complete, Sanitized, AuditPcs
  <2>. QED
    BY <1>1, <2>5, <2>6, OneUpholds
<1>10. CASE AuditLoad(p)
  <2>1. /\ pc[p] \in AuditPcs /\ pc'[p] = "reverify" /\ UNCHANGED evidence
        /\ manifest'[p] = Manifest(p) /\ output'[p] = evidence[p].output
    BY <1>1, <1>10 DEF AuditLoad, AuditPcs, Typed
  <2>2. Agreed(p)'
    BY <1>1, <1>3, <2>1 DEF Agreed
  <2>3. ASSUME p \in Runs PROVE Upheld(p)'
    <3>1. r = p
      BY <2>3, ProcsType DEF SubjectOf
    <3>2. ASSUME stable[p] PROVE manifest'[p] = manifest[p] /\ output'[p] = traceFile[p].output
      BY <1>2, <1>3, <2>1, <3>1, <3>2
    <3>. QED
      BY <1>1, <2>1, <3>1, <3>2 DEF Upheld, SoundTo, Complete, AuditPcs
  <2>. QED
    BY <1>1, <2>2, <2>3, OneUpholds
<1>. QED
  BY <1>6, <1>7, <1>8, <1>9, <1>10 DEF AuditStep

LEMMA StableStep == StableInv /\ [Next]_vars => StableInv'
<1> SUFFICES ASSUME StableInv, [Next]_vars PROVE StableInv'
    OBVIOUS
<1>0. RecordInv'
  BY RecordStep DEF StableInv
<1>1. ASSUME NEW r \in Runs, Adapter(r) PROVE StableInv'
  <2>1. CASE \E cmd \in Commands : ShellLaunch(r, cmd)
    BY <1>0, <2>1, ShellStable
  <2>2. CASE Tool(r) /\ \A cmd \in Commands : ~ShellLaunch(r, cmd)
    BY <1>0, <2>2, WorldStable
  <2>3. CASE ExecuteFails(r) \/ \E out \in Outputs : ExecuteReturns(r, out)
    BY <1>0, <2>3, RunStartsStable, ExecuteStable
  <2>. QED
    BY <1>1, <2>1, <2>2, <2>3 DEF Adapter
<1>2. ASSUME NEW r \in Runs, RunStep(r) PROVE StableInv'
  <2>1. CASE ShellTimesOut(r)
    BY <1>0, <2>1, ShellStable DEF ShellTimesOut, Classes
  <2>. QED
    BY <1>0, <1>2, <2>1, RunStartsStable, RunSettlesStable, RunPersistsStable DEF RunStep
<1>3. ASSUME NEW p \in Procs, Step(p) PROVE StableInv'
  BY <1>0, <1>2, <1>3, VerifiersStable, AuditStable DEF Step
<1>4. ASSUME NEW p \in Procs, Child(p) \/ Crash(p) PROVE StableInv'
  BY <1>0, <1>4, ChildStable, CrashStable
<1>5. CASE Outside \/ UNCHANGED vars
  BY <1>0, <1>5, WorldStable
<1>. QED
  BY <1>1, <1>3, <1>4, <1>5 DEF Next

LEMMA StableInvariant == Spec => []StableInv
BY StableInit, StableStep, PTL DEF Spec

(* While nothing, its verifiers included, touches the directories in which  *)
(* the verifiers of a run work, a success it reports still holds: each      *)
(* command of its manifest exits with the code the manifest asks for.       *)
THEOREM SuccessStillHolds == Spec => []PassedStillHolds
<1>1. ASSUME StableInv, NEW r \in Runs, result[r].status = "passed", stable[r],
             NEW v \in Elements(traceFile[r].by.checks), v.kind = "command"
      PROVE  ExitCode[v.name][files[Workdir(r, v)]] = v.wants
  <2>1. Typed /\ Local(r) /\ Upheld(r)
    BY <1>1, ProcsType DEF StableInv, RecordInv, PlacedInv
  <2>2. Complete(traceFile[r]) /\ traceFile[r].final = "passed"
    BY <1>1, <2>1 DEF Local, Outcome
  <2>3. /\ traceFile[r].by = manifest[r]
        /\ SoundTo(Len(manifest[r].checks), manifest[r].checks, traceFile[r].output, r)
    BY <1>1, <2>1, <2>2 DEF Upheld
  <2>4. manifest[r] \in Manifests
    BY <1>1, <2>1, <2>3, ProcsType DEF Upheld, Typed
  <2>5. PICK i \in DOMAIN manifest[r].checks : v = manifest[r].checks[i]
    BY <1>1, <2>3 DEF Elements
  <2>6. i <= Len(manifest[r].checks)
    BY <2>4, <2>5, ManifestType
  <2>. QED
    BY <1>1, <2>3, <2>5, <2>6 DEF SoundTo, Sound
<1>2. StableInv => PassedStillHolds
  BY <1>1 DEF PassedStillHolds
<1>. QED
  BY <1>2, StableInvariant, PTL

(* The trace of a clean run that passed verifies again with the same        *)
(* verifier events, while the manifest and the directories its verifiers    *)
(* work in are left alone and none of them timed out or failed to start;    *)
(* also from elsewhere, as long as no verifier takes the directory of the   *)
(* process for its own.                                                     *)
THEOREM VerifyAgreesAgain == Spec => []ReverifyAgrees
<1>1. ASSUME StableInv, NEW p \in Procs, Returned(p), evidence[p] # Absent,
             evidence[p].final = "passed", stable[SubjectOf(p)], CleanRun(p), SameDirs(p)
      PROVE  result[p].status = "passed" /\ result[p].summary = evidence[p].verdicts
  <2> DEFINE r == SubjectOf(p)
  <2>1. /\ Typed /\ Local(p) /\ Agreed(p) /\ r \in Runs /\ r \in Procs
        /\ Upheld(r) /\ Local(r) /\ Answered(r)
    BY <1>1, SubjectType, ProcsType DEF StableInv, RecordInv, PlacedInv
  <2>2. evidence[p] = traceFile[r] /\ Complete(traceFile[r]) /\ traceFile[r].final = "passed"
    BY <1>1, <2>1 DEF Local, Audited
  <2>3. ~Denied(evidence[p])
    <3>1. Lists(evidence[p], calls[r]) /\ evidence[p] \in Traces /\ calls[r] \in Seq(Events)
      BY <2>1, <2>2 DEF Local, Recorded, Typed, Complete
    <3>2. ASSUME NEW i \in DOMAIN evidence[p].tools
          PROVE  evidence[p].tools[i].class # "PolicyViolation"
      <4>1. /\ i \in DOMAIN calls[r]
            /\ \/ evidence[p].tools[i].class = calls[r][i].class
               \/ evidence[p].tools[i].class = "REDACTED"
        BY <3>1, ListedDomain DEF Lists
      <4>. QED
        BY <1>1, <4>1 DEF CleanRun, Elements
    <3>. QED
      BY <3>2 DEF Denied, Elements
  <2>4. /\ evidence[p].by = manifest[r]
        /\ evidence[p].output \in {output[r], Sanitized(manifest[r], output[r])}
        /\ evidence[p].output # Absent
    BY <1>1, <2>1, <2>2 DEF Upheld, Answered
  <2>5. output[r] # Absent /\ output[r] \in Answers
    <3>1. output[r] # Absent
      BY <2>4 DEF Sanitized
    <3>2. output \in [Procs -> Answers \union {Absent}]
      BY <2>1 DEF Typed
    <3>. QED
      BY <2>1, <3>1, <3>2
  <2>6. evidence[p].output.changed \subseteq output[r].changed
    <3>1. Sanitized(manifest[r], output[r]).changed = {manifest[r].masks[x] : x \in output[r].changed}
      BY <2>5 DEF Sanitized, Answers
    <3>2. \A x \in output[r].changed : manifest[r].masks[x] = x
      BY <1>1 DEF CleanRun
    <3>. QED
      BY <2>4, <3>1, <3>2
  <2>7. \A path \in Claims(p) : InScope(r, path, evidence[p].by.writes)
    BY <1>1, <2>4, <2>6 DEF CleanRun, Claims
  <2>. QED
    BY <1>1, <2>1, <2>3, <2>7 DEF Agreed, Returned
<1>2. StableInv => ReverifyAgrees
  BY <1>1 DEF ReverifyAgrees, SameDirs
<1>. QED
  BY <1>2, StableInvariant, PTL
=============================================================================
