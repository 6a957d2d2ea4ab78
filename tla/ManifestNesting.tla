--------------------------- MODULE ManifestNesting ---------------------------
(***************************************************************************)
(* The reference for the scanner of ManifestScan: what a document says by  *)
(* the nesting of its lines.  A line belongs to the nearest lines above it *)
(* that are indented less, one for every two columns; a scalar given twice *)
(* counts as it is given last, and the items of a list given twice add up. *)
(***************************************************************************)
EXTENDS ManifestScan, FiniteSets

\* The nearest line above i that is indented by c columns at most, 0 for none.
Outer(d, i, c) == {j \in 1..(i - 1) : ~Comment(d[j]) /\ d[j].indent <= c}
Opener(d, i, c) == IF Outer(d, i, c) = {} THEN 0 ELSE Max(Outer(d, i, c))

\* The keys that line i stands under, "-" for an item.
Label(d, i, c) ==
    LET j == Opener(d, i, c) IN IF j # 0 /\ d[j].indent = c THEN KeyOf(d[j]) ELSE ""
Place(d, i) == [n \in 1..(d[i].indent \div 2) |-> Label(d, i, 2 * n - 2)]
Places(d, end) == [i \in {j \in 1..(end - 1) : ~Comment(d[j])} |-> Place(d, i)]

-----------------------------------------------------------------------------
\* What the lines say, given their places: items in order, last values.
ItemLines(d, place, where) == {i \in DOMAIN place : place[i] = where /\ d[i].dash}
KeyLines(d, place, where, key) ==
    {i \in DOMAIN place : place[i] = where /\ ~d[i].dash /\ d[i].key = key}

Ranked(S, n) == {i \in S : Cardinality({j \in S : j <= i}) = n}
InOrder(S) == [n \in 1..Cardinality(S) |-> CHOOSE i \in Ranked(S, n) : TRUE]
Latest(d, S) == IF S = {} THEN <<>> ELSE d[Max(S)].value

Each(s, Op(_)) == [n \in DOMAIN s |-> Op(s[n])]
ItemsAt(d, place, where) == Each(InOrder(ItemLines(d, place, where)), LAMBDA h : Item(d[h]))
ValueAt(d, place, where, key) == Latest(d, KeyLines(d, place, where, key))

\* The lines of the item that line h begins, at a place inside it.
Inside(d, place, h, where, key) == {i \in KeyLines(d, place, where, key) : Opener(d, i, d[h].indent) = h}

VerifierAt(d, place, h) ==
    LET Own(key) == Inside(d, place, h, <<"verifiers", "-">>, key)
        Policy(key) == {i \in Inside(d, place, h, <<"verifiers", "-", "policy">>, key) :
                           \A j \in Own("policy") : j < i}
    IN [type |-> d[h].value, name |-> Latest(d, Own("name")), cmd |-> Latest(d, Own("cmd")),
        run |-> Latest(d, Own("run")), cwd |-> Latest(d, Own("cwd")),
        schemaRef |-> Latest(d, Own("schemaRef")),
        policy |-> [declared |-> Own("policy") # {},
                    executable |-> Latest(d, Policy("executable")),
                    cwd |-> Latest(d, Policy("cwd")),
                    timeout_ms |-> Number(Latest(d, Policy("timeout_ms")))],
        exit_code |-> Number(Latest(d, Inside(d, place, h, <<"verifiers", "-", "success">>,
                                              "exit_code")))]

\* A pattern begins with any of its keys.
PatternAt(d, place, h) ==
    LET Own(key) == Inside(d, place, h, <<"redaction", "patterns", "-">>, key)
                    \union (IF d[h].key = key THEN {h} ELSE {})
    IN [name |-> Latest(d, Own("name")), regex |-> Latest(d, Own("regex")),
        secret_group |-> Number(Latest(d, Own("secret_group")))]

\* The manifest that the lines before end say.
Nested(d, end) ==
    LET place == Places(d, end)
        Items(where) == ItemsAt(d, place, where)
        Value(where, key) == ValueAt(d, place, where, key)
    IN [head |-> [k \in Heads |-> Value(<<>>, k)],
        needs |-> [k \in Needs |-> Value(<<"capabilities", "requires">>, k)],
        tools |-> Items(<<"tools">>), required |-> Items(<<"outputs", "required">>),
        repo_path |-> Value(<<"inputs">>, "repo_path"),
        network |-> Value(<<"permissions">>, "network") = <<"true">>,
        read |-> Items(<<"permissions", "filesystem", "read">>),
        write |-> Items(<<"permissions", "filesystem", "write">>),
        allow |-> Each(InOrder(ItemLines(d, place, <<"permissions", "shell", "allow">>)),
                       LAMBDA h : d[h].value),
        verifiers |-> Each(InOrder(ItemLines(d, place, <<"verifiers">>)),
                           LAMBDA h : VerifierAt(d, place, h)),
        keys |-> Items(<<"redaction", "keys">>),
        patterns |-> Each(InOrder(ItemLines(d, place, <<"redaction", "patterns">>)),
                          LAMBDA h : PatternAt(d, place, h))]

-----------------------------------------------------------------------------
\* Where the parser knows a key, and where an item.
KnownKeys(where) ==
    CASE where = <<>> -> Heads \union {"capabilities", "tools", "permissions", "inputs", "outputs",
                                       "verifiers", "redaction", "recovery"}
      [] where = <<"capabilities">> -> {"requires"}
      [] where = <<"capabilities", "requires">> -> Needs
      [] where = <<"permissions">> -> {"network", "filesystem", "shell"}
      [] where = <<"permissions", "filesystem">> -> {"read", "write"}
      [] where = <<"permissions", "shell">> -> {"allow"}
      [] where = <<"inputs">> -> {"repo_path"}
      [] where = <<"outputs">> -> {"required"}
      [] where = <<"verifiers", "-">> -> {"name", "cmd", "run", "cwd", "schemaRef", "policy",
                                          "success"}
      [] where = <<"verifiers", "-", "policy">> -> {"executable", "cwd", "timeout_ms"}
      [] where = <<"verifiers", "-", "success">> -> {"exit_code"}
      [] where = <<"redaction">> -> {"keys", "patterns"}
      [] where = <<"redaction", "patterns", "-">> -> {"name", "regex", "secret_group"}
      [] where = <<"recovery">> -> {"strategy", "intervals"}
      [] OTHER -> {}
Plain == {<<"tools">>, <<"outputs", "required">>, <<"permissions", "filesystem", "read">>,
          <<"permissions", "filesystem", "write">>, <<"redaction", "keys">>}
KnownItem(where, l) ==
    \/ where \in Plain /\ ~HasKey(l)
    \/ where = <<"permissions", "shell", "allow">> /\ l.key = "run"
    \/ where = <<"verifiers">> /\ l.key = "type"
    \/ where = <<"redaction", "patterns">> /\ l.key \in {"name", "regex", "secret_group"}

Blocks == {"capabilities", "requires", "tools", "permissions", "filesystem", "shell", "read",
           "write", "allow", "inputs", "outputs", "required", "verifiers", "policy", "success",
           "redaction", "keys", "patterns", "recovery"}

(* A document the parser is made for: known keys and lists, two columns to  *)
(* a level, no list on one line but a command, and every verifier begins    *)
(* with its type.                                                           *)
Regular(d) ==
    \A i \in DOMAIN d : ~Comment(d[i]) =>
        LET where == Place(d, i) IN
        /\ d[i].indent = 2 * Len(where)
        /\ IF d[i].dash THEN KnownItem(where, d[i]) ELSE d[i].key \in KnownKeys(where)
        /\ d[i].key \in Blocks => d[i].value = <<>>
=============================================================================
