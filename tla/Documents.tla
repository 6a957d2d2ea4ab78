------------------------------ MODULE Documents ------------------------------
(***************************************************************************)
(* The documents of a skill, from its manifest to its trace and its check  *)
(* report: LoadManifest reads the manifest (ManifestScan), a run records   *)
(* events in a trace and WriteTrace redacts it by the rules the manifest   *)
(* added (TraceDocument), and ValidateTarget, ReadTrace and Verify read    *)
(* the file back.  An adapter runs if the preflight admits it              *)
(* (AdapterCatalog).  The order of the events is that of Run (runtime.go); *)
(* SkillRun has the control flow in full.                                  *)
(*                                                                         *)
(* The reference for the manifest is the nesting of its lines: a line      *)
(* belongs to the nearest line above it that is indented less.             *)
(***************************************************************************)
EXTENDS AdapterCatalog, ManifestNesting

CONSTANTS Custom,       \* adapters other than the built-in ones
          Secrets,      \* the secrets a text may show, a set of sets of patterns
          Fields,       \* fields of an adapter's answer, besides changed_files
          MaxEvents     \* bound: tool calls of a run

ASSUME CustomAssumption == Custom \subseteq AdapterType

VARIABLES
    stage,      \* "manifest", "preflight", "execute", "verify", "final", "written", "dead"
    adapter,    \* the metadata of the adapter, normalized, Null before
    trace,      \* the trace in memory
    file,       \* the trace as sanitized and written, Null before
    report      \* the check report printed, Null before

vars == <<scanner, stage, adapter, trace, file, report>>

Init ==
    /\ ScanInit
    /\ stage = "manifest"
    /\ adapter = Null /\ trace = Null /\ file = Null /\ report = Null

Config_ == Config({k[1] : k \in Range(m.keys)}, [i \in DOMAIN m.patterns |-> m.patterns[i].regex])
Record(e) == [trace EXCEPT !.events = Append(@, e)]
Finished(t, status, output, message) ==
    [t EXCEPT !.final = [status |-> status, output |-> output, error |-> message]]

-----------------------------------------------------------------------------
Texts == {Text("text", shown) : shown \in Secrets}
ErrorClasses == {"PolicyViolation", "DriverError"}     \* two of those of errors.go

\* What FSRead, FSWrite, FSList and ShellExec record (tools.go): requests are
\* maps, a listing is a typed slice, the result of a command a struct.
ToolRequests(text) ==
    {<<"fs.read", Map(Leaves([path |-> text])),
       Map(Leaves([content |-> text, encoding |-> Word("utf-8")]))>>,
     <<"fs.write", Map(Leaves([path |-> text, overwrite |-> Boolean(TRUE)])),
       Map(Leaves([written |-> Boolean(TRUE)]))>>,
     <<"fs.list", Map(Leaves([path |-> text])),
       Slice(<<Map(Leaves([name |-> text, type |-> Word("file")]))>>)>>,
     <<"shell.exec", Map([cmd |-> List(Leaves(<<Word("lint"), text>>))]),
       Struct(Leaves([stdout |-> text]))>>}
ToolEventsOf(text) ==
    {ToolEvent(r[1], r[2], r[3], Nil) : r \in ToolRequests(text)}
      \union UNION {{ToolEvent(r[1], r[2], Nil, Failure(class, text)) : r \in ToolRequests(text)} :
                       class \in ErrorClasses}
ToolEvents == UNION {ToolEventsOf(text) : text \in Texts}

\* An adapter answers any map; nil becomes an empty one.
Shapes == {"text", "list", "struct"}
Shaped(shape, key, text) ==
    LET part == [k \in {key} |-> Leaf(text)] IN
    CASE shape = "text"   -> Leaf(text)
      [] shape = "list"   -> List(<<Map(part)>>)
      [] shape = "struct" -> Struct(part)
Answer(text, shape) ==
    Map([changed_files |-> List(Leaves(<<text>>))] ++ [k \in Fields |-> Shaped(shape, k, text)])
Answers == {Map(<<>>)} \union {Answer(text, shape) : text \in Texts, shape \in Shapes}

Load ==
    /\ ScanNext
    /\ UNCHANGED <<stage, adapter, trace, file, report>>

\* Metadata and capabilities are recorded as structs.
CapabilityStruct(can) == Struct(Leaves(CapabilitySet(can)))
Metadata(a) ==
    Struct(Leaves([name |-> Word(a.name), model_profile |-> Word(a.model_profile),
                   transport |-> Word(a.transport)])
           ++ [capabilities |-> CapabilityStruct(a.can)])

Select(a) ==
    /\ load = "loaded" /\ stage = "manifest"
    /\ adapter' = Normalized(a)
    /\ LET t == NewTrace(SkillName(m), adapter'.model_profile) IN
       trace' = [t EXCEPT !.events = <<AdapterEvent("selection", "ok",
                    Map(Leaves([skill |-> Word(t.skill)])), Metadata(adapter'), Nil)>>]
    /\ stage' = "preflight"
    /\ UNCHANGED <<scanner, file, report>>

PolicyCheck(status, error) ==
    AdapterEvent("policy_check", status,
        Map(Leaves([skill |-> Word(SkillName(m)), network |-> Boolean(m.network)])),
        Map(Leaves([adapter |-> Word(adapter.name), transport |-> Word(adapter.transport)])), error)
CapabilityCheck(status, result, error) ==
    AdapterEvent("capability_check", status, CapabilityStruct(Requires(m)), result, error)
CapabilityOk == CapabilityCheck("ok", CapabilityStruct(adapter.can), Nil)
Failed(events, message) ==
    /\ trace' = Finished([trace EXCEPT !.events = @ \o events], "failed", Nil, message)
    /\ stage' = "final"
    /\ UNCHANGED <<scanner, adapter, file, report>>

RefuseUnsupported(message) ==
    /\ stage = "preflight" /\ Unsupported(m, adapter)
    /\ Failed(<<CapabilityCheck("failed", Metadata(adapter),
                                Failure("UnsupportedAdapter", message))>>, message)

RefuseForbidden(message) ==
    /\ stage = "preflight" /\ ~Unsupported(m, adapter) /\ Forbidden(m, adapter)
    /\ Failed(<<CapabilityOk, PolicyCheck("failed", Failure("PolicyViolation", message))>>, message)

\* NewPolicyWithBase: a scope that the file system cannot resolve.
ScopeFails(message) ==
    /\ stage = "preflight" /\ ~Unsupported(m, adapter) /\ ~Forbidden(m, adapter)
    /\ Failed(<<CapabilityOk, PolicyCheck("ok", Nil)>>, message)

Admit ==
    /\ stage = "preflight" /\ ~Unsupported(m, adapter) /\ ~Forbidden(m, adapter)
    /\ trace' = [trace EXCEPT !.events = @ \o <<CapabilityOk, PolicyCheck("ok", Nil)>>]
    /\ stage' = "execute"
    /\ UNCHANGED <<scanner, adapter, file, report>>

ToolCalls == {i \in DOMAIN trace.events : trace.events[i].type = "tool_call"}
CallTool(e) ==
    /\ stage = "execute" /\ Cardinality(ToolCalls) < MaxEvents
    /\ trace' = Record(e)
    /\ UNCHANGED <<scanner, stage, adapter, file, report>>

ExecuteRequest ==
    Map(Leaves([skill |-> Word(SkillName(m)), adapter |-> Word(adapter.name),
                model |-> Word(adapter.model_profile)]
               ++ Field("provider", Word(adapter.provider), adapter.provider # "")))

Execute(output) ==
    /\ stage = "execute"
    /\ trace' = Finished(Record(AdapterEvent("execute", "ok", ExecuteRequest, output, Nil)),
                         "", output, Word(""))
    /\ stage' = "verify"
    /\ UNCHANGED <<scanner, adapter, file, report>>

ExecuteFails(output, message) ==
    /\ stage = "execute"
    /\ trace' = Finished(Record(AdapterEvent("execute", "failed", ExecuteRequest, output,
                                             Failure("DriverError", message))),
                         "failed", output, message)
    /\ stage' = "final"
    /\ UNCHANGED <<scanner, adapter, file, report>>

\* The verifiers' events, here one of the first, and the status they lead to.
Verified(status, stdout) ==
    /\ stage = "verify"
    /\ LET v == m.verifiers[1]
           e == VerifierEvent(v.name[1], status, Map(Leaves([type |-> Word(v.type[1])])), stdout)
       IN trace' = Finished(Record(e), status, trace.final.output,
                            IF status = "passed" THEN Word("") ELSE Word("verifier failed"))
    /\ stage' = "final"
    /\ UNCHANGED <<scanner, adapter, file, report>>

\* WriteTrace.  redactText indexes each match of a pattern by its secret_group.
Indexable == \A p \in Range(m.patterns) : p.secret_group <= Groups[p.regex]
WriteTrace ==
    /\ stage = "final"
    /\ IF Indexable
       THEN file' = Sanitized(trace, Config_) /\ stage' = "written"
       ELSE stage' = "dead" /\ UNCHANGED file
    /\ UNCHANGED <<scanner, adapter, trace, report>>

-----------------------------------------------------------------------------
\* newCheckResult, with what the run left in it.
NewCheckResult(ran) ==
    [kind |-> Word("check_report"), status |-> Word("failed"), skill |-> Word(""),
     version |-> Word(""), artifact_path |-> Word(""),
     run_id |-> Word(IF ran THEN trace.run_id ELSE ""), trace_path |-> Word(""),
     changed_files |-> Null, verifier_summary |-> Null, event_count |-> Integer(0)]

EnsureArrays(r) ==
    [r EXCEPT !.changed_files = IF @ = Null THEN Array(<<>>) ELSE @,
              !.verifier_summary = IF @ = Null THEN Array(<<>>) ELSE @]

WithError(r, class, message) ==
    [EnsureArrays(r) EXCEPT !.kind = IF @.word = "" THEN Word("check_report") ELSE @,
                            !.status = Word("failed")]
    ++ [error_class |-> Word(class), error_message |-> message]

\* `agenix check --json`, when the target does not load ...
ReportRefusal ==
    /\ load = "refused" /\ report = Null
    /\ report' = Object(WithError(NewCheckResult(FALSE), "InvalidInput", Word("manifest")))
    /\ UNCHANGED <<scanner, stage, adapter, trace, file>>

\* ... and when the run is over.
ReportRun ==
    /\ stage = "written" /\ report = Null
    /\ report' = Object(
         IF trace.final.status = "passed"
         THEN EnsureArrays([NewCheckResult(TRUE) EXCEPT
                  !.status = Word("passed"), !.skill = Word(trace.skill),
                  !.verifier_summary = Array(<<Word("tests:passed")>>),
                  !.event_count = Integer(Len(file.events))])
         ELSE WithError([NewCheckResult(TRUE) EXCEPT !.event_count = Integer(Len(file.events))],
                        "VerificationFailed", trace.final.error))
    /\ UNCHANGED <<scanner, stage, adapter, trace, file>>

Next ==
    \/ Load
    \/ \E a \in Range(BuiltinAdapters) \union Custom : Select(a)
    \/ Admit
    \/ \E e \in ToolEvents : CallTool(e)
    \/ \E v \in Answers : Execute(v)
    \/ \E text \in Texts :
          \/ RefuseUnsupported(text) \/ RefuseForbidden(text) \/ ScopeFails(text)
          \/ Verified("failed", text)
          \/ \E v \in Answers : ExecuteFails(v, text)
    \/ Verified("passed", Word("1 passed"))
    \/ WriteTrace
    \/ ReportRefusal \/ ReportRun

Spec == Init /\ [][Next]_vars

-----------------------------------------------------------------------------
\* The manifest as JSON: a nil slice is null, an empty omitempty field absent.
Strs(s) == IF s = <<>> THEN Null ELSE Array([i \in DOMAIN s |-> Word(s[i])])
Scalar(v) == Word(IF v = <<>> THEN "" ELSE v[1])
Scalars(s) == IF s = <<>> THEN Null ELSE Array([i \in DOMAIN s |-> Scalar(s[i])])
VerifierJson(v) ==
    Object([type |-> Scalar(v.type), name |-> Scalar(v.name)]
        ++ Field("cmd", Scalar(v.cmd), v.cmd # <<>>)
        ++ Field("run", Strs(v.run), v.run # <<>>)
        ++ Field("cwd", Scalar(v.cwd), v.cwd # <<>>)
        ++ Field("schemaRef", Scalar(v.schemaRef), v.schemaRef # <<>>)
        ++ Field("policy", Object([executable |-> Scalar(v.policy.executable),
                                cwd |-> Scalar(v.policy.cwd),
                                timeout_ms |-> Integer(v.policy.timeout_ms)]), v.policy.declared)
        ++ [success |-> Object([exit_code |-> Integer(v.exit_code)])])
PatternJson(p) == Object([name |-> Scalar(p.name), regex |-> Scalar(p.regex),
                       secret_group |-> Integer(p.secret_group)])
ManifestJson(n) ==
    Object([k \in Heads |-> Scalar(n.head[k])]
        ++ [tools |-> Scalars(n.tools), outputs |-> Object([required |-> Scalars(n.required)]),
            verifiers |-> Array([i \in DOMAIN n.verifiers |-> VerifierJson(n.verifiers[i])]),
            permissions |-> Object([network |-> Boolean(n.network),
                filesystem |-> Object([read |-> Scalars(n.read), write |-> Scalars(n.write)]),
                shell |-> Object([allow |-> IF n.allow = <<>> THEN Null ELSE
                    Array([i \in DOMAIN n.allow |-> Object([run |-> Strs(n.allow[i])])])])]),
            capabilities |-> Object([requires |-> Object(CapabilitySet(Requires(n)))]),
            redaction |-> Object([keys |-> Scalars(n.keys),
                patterns |-> IF n.patterns = <<>> THEN Null ELSE
                    Array([i \in DOMAIN n.patterns |-> PatternJson(n.patterns[i])])])])

\* ReadTrace.
ReadTrace(t) == Readable(t)

\* ValidateTarget: what a JSON document is taken for, and whether it passes.
ValidateJson(d, asTrace) ==
    IF LooksLikeCheckReport(d) THEN IF CheckReportSchema(d) THEN "check_report" ELSE "error"
    ELSE IF LooksLikeCompatibilityReport(d)
    THEN IF CompatibilitySchema(d) THEN "adapter_compatibility_report" ELSE "error"
    ELSE IF asTrace /\ TraceSchema(d) THEN "trace" ELSE "error"

(* Every document the program makes passes its own validation, as a         *)
(* document of its kind: a manifest that LoadManifest accepts and the       *)
(* compatibility report of it, the trace of any run whatever its redaction  *)
(* rules, and any check report.                                             *)
OwnDocumentsValidate ==
    /\ load = "loaded" /\ stage = "manifest" =>
          /\ ManifestSchema(ManifestJson(m))
          /\ ValidateJson(CompatibilityReport(m), FALSE) = "adapter_compatibility_report"
    /\ file # Null => ValidateJson(TraceJson(file), ReadTrace(file)) = "trace"
    /\ report # Null => ValidateJson(report, FALSE) = "check_report"

-----------------------------------------------------------------------------
(* The scanner, which never looks back, finds in a regular document what    *)
(* its nesting says, whatever is missing, reordered or commented: every     *)
(* scope, tool, verifier and redaction rule is in its place, none is lost,  *)
(* and the manifest loads exactly if nothing required is missing.           *)
ReadsLikeYaml ==
    stage = "manifest" /\ at > Len(doc) /\ Regular(doc) =>
        LET n == Nested(doc, Len(doc) + 1)
            good == Complete(n) /\ \A p \in Range(n.patterns) : Compiles(p)
        IN CASE load = "scan"    -> m = n
             [] load = "loaded"  -> good /\ m = Expanded(n)
             [] load = "refused" -> ~good

(* A verifier whose policy repeats its working directory in the document    *)
(* still agrees with its policy once the variables are replaced.            *)
CwdsStillAgree ==
    stage = "manifest" /\ load = "loaded" /\ Regular(doc) =>
        \A i \in DOMAIN m.verifiers : LET v == Nested(doc, Len(doc) + 1).verifiers[i] IN
            v.cwd = v.policy.cwd => m.verifiers[i].cwd = m.verifiers[i].policy.cwd

-----------------------------------------------------------------------------
\* What document n asks of an adapter.
Suits(n, a) ==
    /\ a.skills = <<>> \/ \E i \in DOMAIN a.skills : n.head["name"] = <<a.skills[i]>>
    /\ \A need \in {"tool_calling", "structured_output"} :
          a.can[need] \/ n.needs[need] # <<"true">>
    /\ LET asked == Number(n.needs["max_context_tokens"]) IN
       asked <= 0 \/ asked <= a.can.max_context_tokens
    /\ \A i, j \in DOMAIN Ranks :
          n.needs["reasoning_level"] = <<Ranks[i]>> /\ a.can.reasoning_level = Ranks[j] => i <= j
    /\ a.transport = "local" \/ n.network

\* The class of the check that a run's trace says refused its adapter.
RefusedClass(t) ==
    LET refusals == {e \in Range(t.events) : /\ e.name \in {"capability_check", "policy_check"}
                                             /\ e.status = "failed"}
    IN IF refusals = {} THEN "" ELSE ErrorClass(CHOOSE e \in refusals : TRUE)

(* The compatibility report of a skill says of every built-in adapter what  *)
(* a run with it records: refused, and for which class, or admitted.  Any   *)
(* adapter that gets to its first tool call has what the lines of the       *)
(* manifest ask for, however its metadata are written.                      *)
PreflightIsForetold ==
    stage \in {"execute", "final"} /\ Len(trace.events) <= 3 =>
        LET class == RefusedClass(trace) IN
        /\ \A i \in DOMAIN BuiltinAdapters : Normalized(BuiltinAdapters[i]) = adapter =>
              LET entry == CompatibilityReport(m).of["adapters"].of[i].of IN
              /\ entry["name"].word = adapter.name
              /\ entry["compatible"].value <=> class = ""
              /\ class # "" => entry["error_class"].word = class
        /\ class = "" /\ Regular(doc) => Suits(Nested(doc, Len(doc) + 1), adapter)

-----------------------------------------------------------------------------
\* Redaction leaves alone what stands in a struct or in a typed slice.
Opaque(v, p) == \E q \in Above(v, p) : v[q].t \in {"struct", "slice"}
Masked(v, keys, patterns) ==
    \A p \in DOMAIN v : v[p].t = "string" /\ ~Opaque(v, p) =>
        /\ v[p].shows \intersect patterns = {}
        /\ Sensitive(v, p, keys) => v[p] = Redacted

(* The built-in redaction, and the one a skill's manifest lists as far as   *)
(* no earlier rule spoils it, holds for every text of the trace on disk     *)
(* that redaction can reach: in events, verifier output, the final output   *)
(* and the error, of runs that failed too.  No rule of a skill weakens a    *)
(* built-in one.  Keys are compared without regard to case and dashes.  A   *)
(* manifest that loads never makes WriteTrace die in its redaction.         *)
TraceIsMasked ==
    stage # "dead" /\ (file # Null =>
        LET keys == DefaultKeys \union {Normal[k[1]] : k \in Range(m.keys)}
            own == {p.regex : p \in Range(m.patterns)} \ {s[2] : s \in Spoils}
            patterns == Range(DefaultPatterns) \union own
        IN /\ \A e \in Range(file.events) :
                 /\ \A v \in {e.request, e.result, e.error} : Masked(v, keys, patterns)
                 /\ \A text \in {e.stdout, e.stderr} : text.shows \intersect patterns = {}
           /\ Masked(file.final.output, keys, patterns)
           /\ file.final.error.shows \intersect patterns = {})

\* The redaction of manifest n rewrites the class of a denied call: "class" is
\* one of its sensitive keys, or one of its patterns matches the class.
HidesDenials(n) ==
    \/ \E k \in Range(n.keys) : Normal[k[1]] = "class"
    \/ \E p \in Range(n.patterns) : <<p.regex, "PolicyViolation">> \in Finds

(* Verify finds a denied tool call in the file exactly if the run recorded  *)
(* one and the skill's redaction does not rewrite its class, which is the   *)
(* only way a denied call is lost between a run and its verification.       *)
ViolationSurvives ==
    file # Null =>
        (HasPolicyViolation(file) <=> HasPolicyViolation(trace) /\ ~HidesDenials(m))
=============================================================================
