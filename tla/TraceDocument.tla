---------------------------- MODULE TraceDocument ----------------------------
(***************************************************************************)
(* What becomes of a trace between the run and the reader: redaction when  *)
(* it is written (redaction.go, sanitizeTrace), the checks of ReadTrace    *)
(* (schema.go) and the published schema (jsonschema.go,                    *)
(* specs/trace.schema.json).                                               *)
(*                                                                         *)
(* A value in memory is a function from paths, sequences of keys and       *)
(* indices, to what stands there: a leaf, or the Go type of what holds the *)
(* longer paths.  redactValue knows "map" (map[string]any,                 *)
(* map[string]string) and "list" ([]any, []string), and leaves every other *)
(* type, "struct" and "slice", alone.  Of a text the model keeps the       *)
(* secrets it shows, each named by the pattern that finds it: a pattern    *)
(* may find one in any word, an error's class for one.  A JSON document to *)
(* validate is nested: objects and arrays.                                 *)
(***************************************************************************)
EXTENDS Naturals, Sequences, SequencesExt

CONSTANTS Normal,           \* normalizeRedactionKey, of the keys in use
          DefaultKeys,      \* defaultRedactionKeys
          DefaultPatterns,  \* defaultRedactionPatterns, in order
          Finds,            \* <<p, word>>: pattern p finds a secret in this word
          Spoils            \* <<S, p>>: once the patterns in S have replaced their secrets,
                            \* p finds its own no longer

\* The key of an error's class is in its normal form, and no secret.  A built-in
\* pattern, which replaces what follows its marker up to a blank, finds nothing
\* in a class and takes no other's secret out of its reach.
ASSUME RedactionAssumption ==
    /\ Normal["class"] = "class" /\ "class" \notin DefaultKeys
    /\ DefaultPatterns \in Seq(Seq(STRING))
    /\ \A f \in Finds : f = <<f[1], f[2]>>
    /\ \A p \in Range(DefaultPatterns) :
          /\ <<p, "PolicyViolation">> \notin Finds
          /\ \A S \in SUBSET Range(DefaultPatterns) : <<S, p>> \notin Spoils

Text(word, secrets) == [t |-> "string", word |-> word, shows |-> secrets]
Word(word) == Text(word, {f[1] : f \in {g \in Finds : g[2] = word}})
Redacted == Text("[REDACTED]", {})
Null == [t |-> "null"]
Integer(n) == [t |-> "integer", value |-> n]
Boolean(b) == [t |-> "boolean", value |-> b]

\* The fields of f, and those of g that f has not.
f ++ g == [x \in DOMAIN f \union DOMAIN g |-> IF x \in DOMAIN f THEN f[x] ELSE g[x]]

Leaf(v) == [p \in {<<>>} |-> v]
Leaves(fields) == [k \in DOMAIN fields |-> Leaf(fields[k])]
Nil == Leaf(Null)
Holding(type, parts) ==
    [p \in {<<>>} \union UNION {{<<k>> \o q : q \in DOMAIN parts[k]} : k \in DOMAIN parts} |->
        IF p = <<>> THEN [t |-> type] ELSE parts[Head(p)][Tail(p)]]
Map(parts) == Holding("map", parts)
List(parts) == Holding("list", parts)
Struct(parts) == Holding("struct", parts)
Slice(parts) == Holding("slice", parts)

Object(fields) == [t |-> "object", of |-> fields]
Array(items) == [t |-> "array", of |-> items]

-----------------------------------------------------------------------------
\* Mutant: a skill's patterns come before the built-in ones.
Config_SkillFirst(keys, patterns) ==
    [keys |-> DefaultKeys \union {Normal[k] : k \in keys}, patterns |-> patterns \o DefaultPatterns]

\* compileRedactionConfig: a skill adds to the defaults.
Config(keys, patterns) ==
    [keys |-> DefaultKeys \union {Normal[k] : k \in keys}, patterns |-> DefaultPatterns \o patterns]

\* redactText: one pattern after the other, each on what those before it left.
Earlier(patterns, i) == {patterns[j] : j \in 1..(i - 1)}
Replaced(secrets, patterns) ==
    {patterns[i] : i \in {j \in DOMAIN patterns :
        <<secrets \intersect Earlier(patterns, j), patterns[j]>> \notin Spoils}}
RedactText(text, config) ==
    IF text.shows \intersect Range(config.patterns) = {} THEN text
    ELSE Text("[REDACTED]", text.shows \ Replaced(text.shows, config.patterns))

\* What holds path p in value v, and whether the last is a map that has it
\* under one of the keys.
Above(v, p) == {q \in DOMAIN v : IsStrictPrefix(q, p)}
Sensitive(v, p, keys) ==
    \E q \in Above(v, p) : Len(p) = Len(q) + 1 /\ v[q].t = "map" /\ Normal[Last(p)] \in keys

\* redactValue.  Under a sensitive key only a text is replaced.
RedactValue(v, config) ==
    [p \in DOMAIN v |->
        IF v[p].t # "string" \/ \E q \in Above(v, p) : v[q].t \notin {"map", "list"} THEN v[p]
        ELSE IF Sensitive(v, p, config.keys) THEN Redacted
        ELSE RedactText(v[p], config)]

\* Mutant: an event is copied field by field, without its error.
SanitizedEvent_DropsError(e, config) ==
    [e EXCEPT !.request = RedactValue(@, config), !.result = RedactValue(@, config),
              !.error = Nil,
              !.stdout = RedactText(@, config), !.stderr = RedactText(@, config)]

SanitizedEvent(e, config) ==
    [e EXCEPT !.request = RedactValue(@, config), !.result = RedactValue(@, config),
              !.error = RedactValue(@, config),
              !.stdout = RedactText(@, config), !.stderr = RedactText(@, config)]

\* sanitizeTrace.  Names, types, statuses and the policy stay as they are.
Sanitized(trace, config) ==
    [trace EXCEPT !.events = [i \in DOMAIN @ |-> SanitizedEvent(@[i], config)],
                  !.final.output = RedactValue(@, config),
                  !.final.error = RedactText(@, config)]

-----------------------------------------------------------------------------
\* AddToolEvent, AddAdapterEvent, AddVerifierEvent and SetFinal.  An error is
\* a map of its class and its message.
Failure(class, message) == Map(Leaves([class |-> Word(class), message |-> message]))
Event(type, name, request, result, error) ==
    [type |-> type, name |-> name, status |-> "", request |-> request, result |-> result,
     error |-> error, stdout |-> Word(""), stderr |-> Word("")]
ToolEvent(name, request, result, error) == Event("tool_call", name, request, result, error)
AdapterEvent(name, status, request, result, error) ==
    [Event("adapter", name, request, result, error) EXCEPT !.status = status]
VerifierEvent(name, status, request, stdout) ==
    [Event("verifier", name, request, Nil, Nil) EXCEPT !.status = status, !.stdout = stdout]

NewTrace(skill, profile) ==
    [run_id |-> "run", skill |-> skill, model_profile |-> profile,
     events |-> <<>>, final |-> [status |-> "", output |-> Nil, error |-> Word("")]]

\* What encoding/json writes: a field tagged omitempty is there only if set.
Field(name, v, set) == [x \in {y \in {name} : set} |-> v]
EventDocument(e) ==
    Object([type |-> Word(e.type), name |-> Word(e.name)]
           ++ Field("status", Word(e.status), e.status # "")
           ++ Field("request", e.request, e.request # Nil)
           ++ Field("result", e.result, e.result # Nil)
           ++ Field("error", e.error, e.error # Nil)
           ++ Field("stdout", e.stdout, e.stdout.word # "")
           ++ Field("stderr", e.stderr, e.stderr.word # ""))
TraceJson(trace) ==
    Object([run_id |-> Word(trace.run_id), skill |-> Word(trace.skill),
            model_profile |-> Word(trace.model_profile),
            events |-> Array([i \in DOMAIN trace.events |-> EventDocument(trace.events[i])]),
            final |-> Object([status |-> Word(trace.final.status)]
                             ++ Field("output", trace.final.output, trace.final.output # Nil)
                             ++ Field("error", trace.final.error, trace.final.error.word # ""))])

\* ValidateTrace.
Readable(trace) ==
    /\ trace.run_id # "" /\ trace.skill # "" /\ trace.model_profile # ""
    /\ trace.final.status # ""
    /\ \A e \in Range(trace.events) : e.type # "" /\ e.name # ""

\* eventErrorClass and traceHasPolicyViolation.
ErrorClass(e) == IF <<"class">> \in DOMAIN e.error THEN e.error[<<"class">>].word ELSE ""
HasPolicyViolation(trace) == \E e \in Range(trace.events) : ErrorClass(e) = "PolicyViolation"

-----------------------------------------------------------------------------
\* validateSchemaValue, by the type that a schema asks for.  A property that is
\* null passes whatever its schema.
IsString(v) == v.t = "string"
IsInteger(v) == v.t = "integer"
IsBoolean(v) == v.t = "boolean"
OneOf(words, v) == IsString(v) /\ v.word \in words
IsArray(v, minItems, Item(_)) ==
    v.t = "array" /\ Len(v.of) >= minItems /\ \A i \in DOMAIN v.of : Item(v.of[i])
Strings(v) == IsArray(v, 0, IsString)
IsObject(v, required) == v.t = "object" /\ required \subseteq DOMAIN v.of
Property(v, key, Schema(_)) ==
    key \in DOMAIN v.of => v.of[key].t = "null" \/ Schema(v.of[key])
StringsIn(v, keys) == \A key \in keys : Property(v, key, IsString)

\* specs/trace.schema.json, but for the policy.
EventSchema(v) ==
    IsObject(v, {"type", "name"}) /\ StringsIn(v, {"type", "name", "status", "stdout", "stderr"})
FinalSchema(v) == IsObject(v, {"status"}) /\ StringsIn(v, {"status", "error"})
TraceSchema(d) ==
    /\ IsObject(d, {"run_id", "skill", "model_profile", "final"})
    /\ StringsIn(d, {"run_id", "skill", "model_profile"})
    /\ Property(d, "events", LAMBDA v : IsArray(v, 0, EventSchema))
    /\ Property(d, "final", FinalSchema)

\* specs/manifest.schema.json
PolicySchema(v) ==
    /\ IsObject(v, {}) /\ StringsIn(v, {"executable", "cwd"})
    /\ Property(v, "timeout_ms", IsInteger)
VerifierSchema(v) ==
    /\ IsObject(v, {"type", "name"})
    /\ StringsIn(v, {"type", "name", "cmd", "cwd", "schemaRef"})
    /\ Property(v, "run", Strings) /\ Property(v, "policy", PolicySchema)
    /\ Property(v, "success", LAMBDA w : IsObject(w, {}) /\ Property(w, "exit_code", IsInteger))
CommandSchema(v) == IsObject(v, {}) /\ Property(v, "run", Strings)
PermissionsSchema(v) ==
    /\ IsObject(v, {}) /\ Property(v, "network", IsBoolean)
    /\ Property(v, "filesystem", LAMBDA w :
          IsObject(w, {}) /\ Property(w, "read", Strings) /\ Property(w, "write", Strings))
    /\ Property(v, "shell", LAMBDA w :
          IsObject(w, {}) /\ Property(w, "allow", LAMBDA x : IsArray(x, 0, CommandSchema)))
CapabilitiesSchema(v, required) ==
    /\ IsObject(v, required)
    /\ Property(v, "tool_calling", IsBoolean) /\ Property(v, "structured_output", IsBoolean)
    /\ Property(v, "max_context_tokens", IsInteger) /\ Property(v, "reasoning_level", IsString)
PatternSchema(v) ==
    /\ IsObject(v, {"name", "regex", "secret_group"}) /\ StringsIn(v, {"name", "regex"})
    /\ Property(v, "secret_group", IsInteger)
RedactionSchema(v) ==
    /\ IsObject(v, {}) /\ Property(v, "keys", Strings)
    /\ Property(v, "patterns", LAMBDA w : IsArray(w, 0, PatternSchema))
ManifestSchema(d) ==
    /\ IsObject(d, {"apiVersion", "kind", "name", "version", "description", "tools", "outputs",
                    "verifiers"})
    /\ StringsIn(d, {"apiVersion", "kind", "name", "version", "description"})
    /\ Property(d, "tools", LAMBDA v : IsArray(v, 1, IsString))
    /\ Property(d, "outputs", LAMBDA v : /\ IsObject(v, {"required"})
                                        /\ Property(v, "required", LAMBDA w : IsArray(w, 1, IsString)))
    /\ Property(d, "verifiers", LAMBDA v : IsArray(v, 1, VerifierSchema))
    /\ Property(d, "permissions", PermissionsSchema)
    /\ Property(d, "capabilities", LAMBDA v : /\ IsObject(v, {})
          /\ Property(v, "requires", LAMBDA w : CapabilitiesSchema(w, {})))
    /\ Property(d, "redaction", RedactionSchema)

\* specs/check-report.schema.json.
CheckReportSchema(d) ==
    /\ IsObject(d, {"kind", "status", "skill", "version", "artifact_path", "run_id", "trace_path",
                    "changed_files", "verifier_summary", "event_count"})
    /\ Property(d, "kind", LAMBDA v : OneOf({"check_report"}, v))
    /\ Property(d, "status", LAMBDA v : OneOf({"passed", "failed"}, v))
    /\ StringsIn(d, {"skill", "version", "artifact_path", "run_id", "trace_path", "error_class",
                     "error_message"})
    /\ Property(d, "changed_files", Strings) /\ Property(d, "verifier_summary", Strings)
    /\ Property(d, "event_count", IsInteger)

\* ValidateTarget of a JSON document: its keys tell what it is taken for.
LooksLikeCheckReport(d) ==
    {"artifact_path", "changed_files", "verifier_summary", "event_count"} \intersect DOMAIN d.of # {}
LooksLikeCompatibilityReport(d) ==
    \/ "kind" \in DOMAIN d.of /\ d.of["kind"].t = "string"
          /\ d.of["kind"].word = "adapter_compatibility_report"
    \/ {"adapters", "target"} \subseteq DOMAIN d.of
=============================================================================
