---------------------------- MODULE AdapterCatalog ----------------------------
(***************************************************************************)
(* Which adapter may run a skill: the metadata of the adapters             *)
(* (adapter_builtin.go, adapter_catalog.go), the preflight of Run          *)
(* (validateAdapter and validateAdapterPolicy, runtime.go), and the        *)
(* compatibility report that foretells it without a run, with its schema   *)
(* (specs/adapter-compatibility-report.schema.json).                       *)
(***************************************************************************)
EXTENDS ManifestScan, TraceDocument

CONSTANTS Lower,    \* strings.ToLower, of the words in use
          Trim      \* strings.TrimSpace

CanType == [tool_calling : BOOLEAN, structured_output : BOOLEAN, max_context_tokens : Int,
            reasoning_level : STRING]
AdapterType == [name : STRING, model_profile : STRING, provider : STRING, transport : STRING,
                skills : Seq(STRING), can : CanType]

\* The metadata of the adapters.
Large == [tool_calling |-> TRUE, structured_output |-> TRUE, max_context_tokens |-> 32000,
          reasoning_level |-> "medium"]
Small == [Large EXCEPT !.max_context_tokens = 4000, !.reasoning_level = "minimal"]
Local(name, skills, can) ==
    [name |-> name, model_profile |-> name, provider |-> "", transport |-> "local",
     skills |-> skills, can |-> can]
FakeScripted ==
    Local("fake-scripted", <<"repo.fix_test_failure", "repo.analyze_test_failures",
                             "repo.apply_small_refactor">>, Large)
Heuristic == Local("heuristic-analyze", <<"repo.analyze_test_failures">>, Large)
OpenAI ==
    [name |-> "openai-analyze", model_profile |-> "openai:gpt-5.4-mini", provider |-> "openai",
     transport |-> "remote", skills |-> <<"repo.analyze_test_failures.remote">>, can |-> Large]
PythonPytest == Local("python-pytest-template", <<>>, Small)
RepoFix == Local("repo-fix-test-failure-template", <<>>, Small)
BuiltinAdapters == <<FakeScripted, Heuristic, OpenAI, PythonPytest, RepoFix>>

\* normalizeTransport
Transport(word) == LET normalized == Lower[Trim[word]] IN
                   IF normalized = "" THEN "local" ELSE normalized

\* Mutant: the model profile is taken as it is.
Normalized_KeepsProfile(a) ==
    [a EXCEPT !.name = IF @ = "" THEN a.model_profile ELSE @, !.transport = Transport(@)]

\* normalizeAdapterMetadata: a profile by default, which names the nameless.
Normalized(a) ==
    LET profile == IF a.model_profile = "" THEN "fake-scripted" ELSE a.model_profile IN
    [a EXCEPT !.model_profile = profile,
              !.name = IF @ = "" THEN profile ELSE @,
              !.transport = Transport(@)]

-----------------------------------------------------------------------------
\* reasoningRank: a word it does not know is below all others, as is one with
\* blanks around it.
Ranks == <<"minimal", "low", "medium", "high", "xhigh">>
ASSUME LowerAssumption ==
    \A word \in Range(Ranks) \union {"local", "remote"} : Lower[word] = word /\ Trim[word] = word
Rank(level) ==
    IF Lower[level] \in Range(Ranks) THEN CHOOSE i \in DOMAIN Ranks : Ranks[i] = Lower[level]
    ELSE 0

SkillName(n) == n.head["name"][1]
Requires(n) ==
    [tool_calling |-> n.needs["tool_calling"] = <<"true">>,
     structured_output |-> n.needs["structured_output"] = <<"true">>,
     max_context_tokens |-> Number(n.needs["max_context_tokens"]),
     reasoning_level |-> IF n.needs["reasoning_level"] = <<>> THEN ""
                         ELSE n.needs["reasoning_level"][1]]

\* validateAdapter refuses adapter a for manifest n.  Without skills it takes any.
Unsupported(n, a) ==
    LET required == Requires(n) IN
    \/ a.skills # <<>> /\ SkillName(n) \notin Range(a.skills)
    \/ required.tool_calling /\ ~a.can.tool_calling
    \/ required.structured_output /\ ~a.can.structured_output
    \/ required.max_context_tokens > 0 /\ a.can.max_context_tokens < required.max_context_tokens
    \/ /\ required.reasoning_level # ""
       /\ Rank(a.can.reasoning_level) < Rank(required.reasoning_level)

\* validateAdapterPolicy refuses it.
Forbidden(n, a) ==
    \/ a.transport \notin {"local", "remote"}
    \/ a.transport = "remote" /\ ~n.network

-----------------------------------------------------------------------------
\* Its fields are tagged omitempty.
CapabilitySet(can) ==
    Field("tool_calling", Boolean(TRUE), can.tool_calling)
    ++ Field("structured_output", Boolean(TRUE), can.structured_output)
    ++ Field("max_context_tokens", Integer(can.max_context_tokens), can.max_context_tokens # 0)
    ++ Field("reasoning_level", Word(can.reasoning_level), can.reasoning_level # "")

\* Mutant: the report leaves the policy to the run.
ForetoldClass_NoPolicy(n, a) == IF Unsupported(n, a) THEN "UnsupportedAdapter" ELSE ""

\* The class of the first check that fails.
ForetoldClass(n, a) ==
    CASE Unsupported(n, a) -> "UnsupportedAdapter"
      [] ~Unsupported(n, a) /\ Forbidden(n, a) -> "PolicyViolation"
      [] OTHER -> ""

\* AdapterCompatibility
Compatibility(n, a) ==
    LET class == ForetoldClass(n, a) IN
    Object([name |-> Word(a.name), model_profile |-> Word(a.model_profile),
            transport |-> Word(a.transport), capabilities |-> Object(CapabilitySet(a.can)),
            compatible |-> Boolean(class = "")]
           ++ Field("provider", Word(a.provider), a.provider # "")
           ++ Field("supported_skills", Array([i \in DOMAIN a.skills |-> Word(a.skills[i])]),
                    a.skills # <<>>)
           ++ Field("error_class", Word(class), class # "")
           ++ Field("error_message", Word("refused"), class # ""))

\* CheckBuiltinAdapterCompatibility, of a target that loads.
CompatibilityReport(n) ==
    Object([kind |-> Word("adapter_compatibility_report"), target |-> Word("target"),
            skill |-> Word(SkillName(n)), version |-> Word(n.head["version"][1]),
            adapters |-> Array([i \in DOMAIN BuiltinAdapters |->
                                   Compatibility(n, Normalized(BuiltinAdapters[i]))])])

\* specs/adapter-compatibility-report.schema.json
EntrySchema(v) ==
    /\ IsObject(v, {"name", "model_profile", "transport", "capabilities", "compatible"})
    /\ StringsIn(v, {"name", "model_profile", "provider", "error_class", "error_message"})
    /\ Property(v, "transport", LAMBDA w : OneOf({"local", "remote"}, w))
    /\ Property(v, "supported_skills", Strings)
    /\ Property(v, "capabilities", LAMBDA w : CapabilitiesSchema(w,
          {"tool_calling", "structured_output", "max_context_tokens", "reasoning_level"}))
    /\ Property(v, "compatible", IsBoolean)
CompatibilitySchema(d) ==
    /\ IsObject(d, {"kind", "target", "skill", "version", "adapters"})
    /\ Property(d, "kind", LAMBDA v : OneOf({"adapter_compatibility_report"}, v))
    /\ StringsIn(d, {"target", "skill", "version"})
    /\ Property(d, "adapters", LAMBDA v : IsArray(v, 1, EntrySchema))
=============================================================================
