----------------------------- MODULE MCSkillRun -----------------------------
(* Small instances of SkillRun.  The repository has a source file and notes; *)
(* the tests pass while the source is fixed.  "repair" is the ordinary       *)
(* manifest; the others are what an author may turn it into.                 *)
EXTENDS SkillRun

CONSTANTS run1, run2, audit, home, other, here, source, notes, fixed, lint

Check(kind, name) == [name |-> name, kind |-> kind, contract |-> TRUE, cwd |-> home, wants |-> 0]
Tests == Check("command", "tests")
Schema == Check("schema", "schema")
Declare(preflight, writes, shell, checks) ==
    [preflight |-> preflight, reads |-> {source, notes}, writes |-> writes, shell |-> shell,
     checks |-> checks, masks |-> [path \in Paths |-> path], hides |-> {}]

Repair == Declare("fits", {source}, {}, <<Tests, Schema>>)
WithShell == Declare("fits", {source}, {lint}, <<Schema, [Tests EXCEPT !.cwd = here]>>)
Strange == Declare("fits", {source, notes}, {},
                   <<[Tests EXCEPT !.contract = FALSE], Check("other", "custom")>>)
Custom == Declare("fits", {}, {}, <<Check("other", "custom")>>)
Nonzero == Declare("fits", {source}, {}, <<[Tests EXCEPT !.wants = 1]>>)
Unsupported == Declare("unsupported", {source}, {}, <<Tests>>)
BadScope == Declare("badscope", {source}, {}, <<Tests>>)

\* Its redaction finds a secret in the name of the source, which it turns into
\* the name of the notes, and one in the class of a denial.
Masking == [Repair EXCEPT !.masks = [path \in Paths |-> <<path[1], notes>>],
                          !.writes = {source, notes}, !.hides = {"PolicyViolation"}]

MCAll == {Masking, Repair, WithShell, Strange, Custom, Nonzero, Unsupported, BadScope}
MCTwo == {Repair, WithShell}

MCExitCode == [v \in {"tests", "schema", "custom"} |->
                 [repository \in Repositories |-> IF repository[source] = fixed THEN 0 ELSE 1]]
Answer(changed, complete, list) == [changed |-> changed, complete |-> complete, list |-> list]
MCOutputs == {Answer({<<here, source>>}, TRUE, "strings"),
              Answer({<<home, notes>>}, FALSE, "strings")}
MCAnswers == MCOutputs \union {Answer({<<home, notes>>}, TRUE, "strings"),
                               Answer({}, TRUE, "mixed"), Answer({}, TRUE, "opaque")}
MCFiles == [p \in Places |-> [n \in Names |-> IF n = source THEN Empty ELSE Absent]]

OneHome == [r \in Runs |-> home]
AtHome == [p \in Procs |-> home]
Elsewhere == [p \in Procs |-> other]
AuditElsewhere == [p \in Procs |-> IF p \in Audits THEN other ELSE home]
SubjectRun1 == [a \in Audits |-> run1]
DeclaresRepair == [p \in Places |-> Repair]
DeclaresShell == [p \in Places |-> WithShell]
=============================================================================
