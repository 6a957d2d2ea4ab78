---------------------------- MODULE ManifestScan ----------------------------
(***************************************************************************)
(* LoadManifest (manifest.go, schema.go): a manifest is read line by line  *)
(* by a scanner that knows where it is from a section, a sub-key and the   *)
(* indentation, validated, and its ${repo_path} replaced.                  *)
(*                                                                         *)
(* A line is what the scanner tells of it: its indentation, whether it     *)
(* starts with "- ", the key before its first colon ("" without a colon)   *)
(* and its value, a sequence of words: a scalar is at most one word and    *)
(* none if it is empty, an inline list any number.  Quotes, which          *)
(* cleanScalar takes off, are not represented.                             *)
(***************************************************************************)
EXTENDS Integers, Sequences, SequencesExt

CONSTANTS Documents,    \* the documents LoadManifest is given
          Numerals,     \* word -> the number strconv.Atoi reads in it
          ExitKeys,     \* the keys that end in "exit_code", and ...
          ExitWords,    \* ... the words that contain "exit_code:"
          Groups,       \* regular expression -> number of its capture groups
          RepoAt        \* repo_path -> the absolute path it stands for

Heads == {"apiVersion", "kind", "name", "version", "description"}
LineType ==
    {l \in [indent : Nat, dash : BOOLEAN, key : STRING, value : Seq(STRING)] :
        l.key \in Heads => Len(l.value) <= 1 /\ l.value # <<"">>}

ASSUME DocumentsAssumption == Documents \subseteq Seq(LineType)
ASSUME NumeralsAssumption == \A word \in DOMAIN Numerals : Numerals[word] \in Int
ASSUME ExitKeysAssumption == "exit_code" \in ExitKeys

VARIABLES
    doc,        \* the document
    at,         \* the next line
    current,    \* the section
    sub,        \* the sub-key, root and key for permissions
    check,      \* index of currentVerifier, 0 for nil
    pattern,    \* index of currentPattern, 0 for nil
    m,          \* the manifest
    load        \* "scan", "loaded", "refused"

scanner == <<doc, at, current, sub, check, pattern, m, load>>

Needs == {"tool_calling", "structured_output", "max_context_tokens", "reasoning_level"}
Variable == "${repo_path}"

Number(v) == IF v # <<>> /\ v[1] \in DOMAIN Numerals THEN Numerals[v[1]] ELSE 0

NoPolicy == [declared |-> FALSE, executable |-> <<>>, cwd |-> <<>>, timeout_ms |-> 0]
NewCheck(v) == [type |-> v, name |-> <<>>, cmd |-> <<>>, run |-> <<>>, cwd |-> <<>>,
                schemaRef |-> <<>>, policy |-> NoPolicy, exit_code |-> 0]
NewPattern == [name |-> <<>>, regex |-> <<>>, secret_group |-> 0]
Blank == [head |-> [k \in Heads |-> <<>>], needs |-> [k \in Needs |-> <<>>],
          tools |-> <<>>, required |-> <<>>, repo_path |-> <<>>, network |-> FALSE,
          read |-> <<>>, write |-> <<>>, allow |-> <<>>, verifiers |-> <<>>,
          keys |-> <<>>, patterns |-> <<>>]

ScanInit ==
    /\ doc \in Documents
    /\ at = 1
    /\ current = "" /\ sub = <<>>
    /\ check = 0 /\ pattern = 0
    /\ m = Blank
    /\ load = "scan"

-----------------------------------------------------------------------------
\* What the scanner sees of line l.
Comment(l) == l.key = "#"
Section(l) == l.indent = 0 /\ ~l.dash
LoneDash(l) == ~l.dash /\ l.key = "" /\ l.value = <<"-">>
KeyOf(l) == IF l.dash THEN "-" ELSE l.key                   \* splitKeyValue
HasKey(l) == l.key # ""
Item(l) == IF HasKey(l) THEN <<l.key>> \o l.value ELSE l.value
NamesExitCode(l) == l.key \in ExitKeys \/ Range(l.value) \intersect ExitWords # {}

Line == doc[at]
Reading(section) ==
    load = "scan" /\ at <= Len(doc) /\ ~Comment(Line) /\ ~Section(Line) /\ current = section
Advance == at' = at + 1 /\ UNCHANGED <<doc, load>>

SkipComment ==
    /\ load = "scan" /\ at <= Len(doc) /\ Comment(Line)
    /\ Advance
    /\ UNCHANGED <<current, sub, check, pattern, m>>

\* A top-level line opens a section; without a colon it is skipped.
ScanSection ==
    /\ load = "scan" /\ at <= Len(doc) /\ ~Comment(Line) /\ Section(Line)
    /\ IF HasKey(Line)
       THEN /\ current' = Line.key
            /\ sub' = <<>> /\ check' = 0 /\ pattern' = 0
            /\ m' = IF Line.key \in Heads THEN [m EXCEPT !.head[Line.key] = Line.value] ELSE m
       ELSE UNCHANGED <<current, sub, check, pattern, m>>
    /\ Advance

ScanCapabilities ==
    /\ Reading("capabilities")
    /\ sub' = IF Line.indent = 2 /\ HasKey(Line) THEN <<KeyOf(Line)>> ELSE sub
    /\ m' = IF Line.indent = 4 /\ sub = <<"requires">> /\ KeyOf(Line) \in Needs
            THEN [m EXCEPT !.needs[Line.key] = Line.value]
            ELSE m
    /\ Advance
    /\ UNCHANGED <<current, check, pattern>>

ScanTools ==
    /\ Reading("tools")
    /\ m' = IF Line.dash THEN [m EXCEPT !.tools = Append(@, Item(Line))] ELSE m
    /\ Advance
    /\ UNCHANGED <<current, sub, check, pattern>>

\* At any depth; only repo_path is ever used.
ScanInputs ==
    /\ Reading("inputs")
    /\ m' = IF KeyOf(Line) = "repo_path" THEN [m EXCEPT !.repo_path = Line.value] ELSE m
    /\ Advance
    /\ UNCHANGED <<current, sub, check, pattern>>

ScanOutputs ==
    /\ Reading("outputs")
    /\ sub' = IF Line.indent = 2 THEN <<KeyOf(Line)>> ELSE sub
    /\ m' = IF Line.indent # 2 /\ sub = <<"required">> /\ Line.dash
            THEN [m EXCEPT !.required = Append(@, Item(Line))]
            ELSE m
    /\ Advance
    /\ UNCHANGED <<current, check, pattern>>

\* parsePermissionsLine: sub is "filesystem", then "filesystem.read".
Granted(p, l, where) ==
    CASE where = <<"filesystem", "read">>  -> [p EXCEPT !.read = Append(@, Item(l))]
      [] where = <<"filesystem", "write">> -> [p EXCEPT !.write = Append(@, Item(l))]
      [] where = <<"shell", "allow">> /\ l.key = "run" -> [p EXCEPT !.allow = Append(@, l.value)]
      [] OTHER -> p

\* Mutant: the last key stays in force once a list was begun.
ScanPermissions_KeepsKey ==
    /\ Reading("permissions")
    /\ sub' = IF ~HasKey(Line) \/ Line.indent \notin {2, 4} THEN sub
              ELSE IF Line.indent = 2 THEN <<KeyOf(Line)>>
              ELSE IF Len(sub) = 1 THEN Append(sub, KeyOf(Line)) ELSE sub
    /\ m' = IF Line.indent = 2
            THEN IF KeyOf(Line) = "network" THEN [m EXCEPT !.network = (Line.value = <<"true">>)]
                 ELSE m
            ELSE IF Line.indent # 4 /\ Line.dash THEN Granted(m, Line, sub) ELSE m
    /\ Advance
    /\ UNCHANGED <<current, check, pattern>>

ScanPermissions ==
    /\ Reading("permissions")
    /\ sub' = IF ~HasKey(Line) \/ Line.indent \notin {2, 4} THEN sub
              ELSE IF Line.indent = 2 THEN <<KeyOf(Line)>>
              ELSE <<IF sub = <<>> THEN "" ELSE sub[1], KeyOf(Line)>>
    /\ m' = IF Line.indent = 2
            THEN IF KeyOf(Line) = "network" THEN [m EXCEPT !.network = (Line.value = <<"true">>)]
                 ELSE m
            ELSE IF Line.indent # 4 /\ Line.dash THEN Granted(m, Line, sub) ELSE m
    /\ Advance
    /\ UNCHANGED <<current, check, pattern>>

\* The field that a line sets in a verifier, at indentation 4 ...
VerifierField(v, key, value) ==
    CASE key \in {"name", "cmd", "run", "cwd", "schemaRef"} -> [v EXCEPT ![key] = value]
      [] key = "policy" -> [v EXCEPT !.policy = [NoPolicy EXCEPT !.declared = TRUE]]
      [] OTHER -> v

\* ... and in its policy, at indentation 6.
PolicyField(v, key, value) ==
    CASE key \in {"executable", "cwd"} -> [v EXCEPT !.policy[key] = value]
      [] key = "timeout_ms" -> [v EXCEPT !.policy.timeout_ms = Number(value)]
      [] OTHER -> v

\* "- type:" at any depth begins a verifier; other lines belong to the last.
ScanVerifier ==
    /\ Reading("verifiers")
    /\ Line.dash /\ Line.key = "type"
    /\ m' = [m EXCEPT !.verifiers = Append(@, NewCheck(Line.value))]
    /\ check' = Len(m.verifiers) + 1
    /\ sub' = <<>>
    /\ Advance
    /\ UNCHANGED <<current, pattern>>

ScanVerifierLine ==
    /\ Reading("verifiers")
    /\ ~(Line.dash /\ Line.key = "type")
    /\ sub' = IF check = 0 \/ Line.indent # 4 THEN sub
              ELSE CASE KeyOf(Line) = "policy"  -> <<"verifier_policy">>
                     [] KeyOf(Line) = "success" -> <<"verifier_success">>
                     [] OTHER -> sub
    /\ m' = IF check = 0 THEN m
            ELSE LET v == m.verifiers[check] IN
                 [m EXCEPT !.verifiers[check] =
                    CASE Line.indent = 4 -> VerifierField(v, KeyOf(Line), Line.value)
                      [] Line.indent = 6 /\ sub = <<"verifier_policy">> ->
                            PolicyField(v, KeyOf(Line), Line.value)
                      [] Line.indent # 4 /\ sub = <<"verifier_success">> /\ NamesExitCode(Line) ->
                            [v EXCEPT !.exit_code = Number(Line.value)]
                      [] OTHER -> v]
    /\ Advance
    /\ UNCHANGED <<current, check, pattern>>

\* applyRedactionPatternField
PatternField(p, key, value) ==
    CASE key \in {"name", "regex"} -> [p EXCEPT ![key] = value]
      [] key = "secret_group" -> [p EXCEPT !.secret_group = Number(value)]
      [] OTHER -> p

ScanRedactionKey ==
    /\ Reading("redaction")
    /\ Line.indent = 2 \/ sub = <<"keys">>
    /\ pattern' = 0
    /\ IF Line.indent = 2
       THEN /\ sub' = IF HasKey(Line) THEN <<KeyOf(Line)>> ELSE sub
            /\ UNCHANGED m
       ELSE /\ m' = IF Line.indent = 4 /\ Line.dash THEN [m EXCEPT !.keys = Append(@, Item(Line))]
                    ELSE m
            /\ UNCHANGED sub
    /\ Advance
    /\ UNCHANGED <<current, check>>

ScanRedactionPattern ==
    /\ Reading("redaction")
    /\ Line.indent # 2 /\ sub # <<"keys">>
    /\ CASE sub = <<"patterns">> /\ Line.indent = 4 /\ (LoneDash(Line) \/ (Line.dash /\ HasKey(Line))) ->
              /\ m' = [m EXCEPT !.patterns =
                          Append(@, PatternField(NewPattern, Line.key, Line.value))]
              /\ pattern' = Len(m.patterns) + 1
         [] sub = <<"patterns">> /\ Line.indent = 6 /\ pattern # 0 ->
              /\ m' = [m EXCEPT !.patterns[pattern] = PatternField(@, KeyOf(Line), Line.value)]
              /\ UNCHANGED pattern
         [] OTHER -> UNCHANGED <<m, pattern>>
    /\ Advance
    /\ UNCHANGED <<current, sub, check>>

\* A line of a section that the parser does not know, recovery for one.
SkipLine ==
    /\ load = "scan" /\ at <= Len(doc) /\ ~Comment(Line) /\ ~Section(Line)
    /\ current \notin {"capabilities", "tools", "inputs", "outputs", "permissions", "verifiers",
                       "redaction"}
    /\ Advance
    /\ UNCHANGED <<current, sub, check, pattern, m>>

-----------------------------------------------------------------------------
\* ValidateManifest.
Complete(n) ==
    /\ \A k \in Heads : n.head[k] # <<>>
    /\ n.tools # <<>> /\ n.required # <<>> /\ n.verifiers # <<>>
    /\ \A v \in Range(n.verifiers) :
          /\ v.type # <<>> /\ v.name # <<>>
          /\ v.type = <<"command">> => v.cmd # <<>> \/ v.run # <<>>
          /\ v.run # <<>> => /\ v.policy.declared /\ v.policy.executable # <<>>
                             /\ v.policy.cwd # <<>> /\ v.policy.timeout_ms # 0
    /\ \A p \in Range(n.patterns) : p.name # <<>> /\ p.regex # <<>> /\ p.secret_group # 0

\* compileRedactionConfig and validateRedactionPatternSecretGroup.
Compiles(p) == p.regex \in DOMAIN Groups /\ p.secret_group \in 1..Groups[p.regex]

\* expandSubstitutions: repo_path is made absolute and put in the scopes and
\* in the verifiers, not in the commands that shell.exec may run.
Repo(n) == IF n.repo_path = <<>> THEN "" ELSE RepoAt[n.repo_path[1]]
Expand(v, n) == [i \in DOMAIN v |-> IF v[i] = Variable THEN Repo(n) ELSE v[i]]

\* Mutant: the policy of a verifier is left out.
ExpandedCheck_NotPolicy(v, n) ==
    [v EXCEPT !.cwd = Expand(@, n), !.cmd = Expand(@, n), !.run = Expand(@, n)]

ExpandedCheck(v, n) ==
    [v EXCEPT !.cwd = Expand(@, n), !.cmd = Expand(@, n), !.run = Expand(@, n),
              !.policy.cwd = Expand(@, n)]

Expanded(n) ==
    [n EXCEPT !.repo_path = IF @ = <<>> THEN @ ELSE <<Repo(n)>>,
              !.read = [i \in DOMAIN @ |-> Expand(@[i], n)],
              !.write = [i \in DOMAIN @ |-> Expand(@[i], n)],
              !.verifiers = [i \in DOMAIN @ |-> ExpandedCheck(@[i], n)]]

ScanEnds ==
    /\ load = "scan" /\ at > Len(doc)
    /\ IF Complete(m) /\ \A p \in Range(m.patterns) : Compiles(p)
       THEN load' = "loaded" /\ m' = Expanded(m)
       ELSE load' = "refused" /\ UNCHANGED m
    /\ UNCHANGED <<doc, at, current, sub, check, pattern>>

ScanNext ==
    \/ SkipComment \/ ScanSection \/ ScanCapabilities \/ ScanTools \/ ScanInputs \/ ScanOutputs
    \/ ScanPermissions \/ ScanVerifier \/ ScanVerifierLine
    \/ ScanRedactionKey \/ ScanRedactionPattern \/ SkipLine
    \/ ScanEnds
=============================================================================
