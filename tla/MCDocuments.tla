----------------------------- MODULE MCDocuments -----------------------------
(* A full manifest, and what becomes of it when a line is dropped, moved,    *)
(* indented otherwise, or put in.                                            *)
EXTENDS Documents

Key(indent, key, value) == [indent |-> indent, dash |-> FALSE, key |-> key, value |-> value]
Entry(indent, key, value) == [indent |-> indent, dash |-> TRUE, key |-> key, value |-> value]

Heading == <<Key(0, "apiVersion", <<"agenix/v0.1">>), Key(0, "kind", <<"Skill">>),
          Key(0, "name", <<"repo.demo">>), Key(0, "version", <<"0.1.0">>),
          Key(0, "description", <<"Demo">>)>>
Capabilities == <<Key(0, "capabilities", <<>>), Key(2, "requires", <<>>),
                  Key(4, "tool_calling", <<"true">>),
                  Key(4, "max_context_tokens", <<"4000">>)>>
Tools == <<Key(0, "tools", <<>>), Entry(2, "", <<"fs">>)>>
Permissions == <<Key(0, "permissions", <<>>), Key(2, "network", <<"false">>),
                 Key(2, "filesystem", <<>>),
                 Key(4, "read", <<>>), Entry(6, "", <<"docs">>), Entry(6, "", <<Variable>>),
                 Key(4, "write", <<>>), Entry(6, "", <<Variable>>),
                 Key(2, "shell", <<>>), Key(4, "allow", <<>>),
                 Entry(6, "run", <<"pytest", "-q">>)>>
Inputs == <<Key(0, "inputs", <<>>), Key(2, "repo_path", <<"fixture">>)>>
RequiredOutputs == <<Key(0, "outputs", <<>>), Key(2, "required", <<>>),
                     Entry(4, "", <<"changed_files">>)>>
Verifiers == <<Key(0, "verifiers", <<>>), Entry(2, "type", <<"command">>),
               Key(4, "name", <<"tests">>), Key(4, "run", <<"python3", Variable>>),
               Key(4, "cwd", <<Variable>>), Key(4, "policy", <<>>),
               Key(6, "executable", <<"python3">>), Key(6, "cwd", <<Variable>>),
               Key(6, "timeout_ms", <<"1000">>), Key(4, "success", <<>>),
               Key(6, "exit_code", <<"1">>),
               Entry(2, "type", <<"schema">>), Key(4, "name", <<"outputs">>),
               Key(4, "schemaRef", <<"outputs">>)>>
Redaction == <<Key(0, "redaction", <<>>), Key(2, "keys", <<>>), Entry(4, "", <<"Pin-Code">>),
               Key(2, "patterns", <<>>), Entry(4, "name", <<"pin">>),
               Key(6, "regex", <<"pin=">>), Key(6, "secret_group", <<"1">>)>>
Recovery == <<Key(0, "recovery", <<>>), Key(2, "strategy", <<"checkpoint">>)>>

Sections == <<Heading, Capabilities, Tools, Permissions, Inputs, RequiredOutputs, Verifiers,
              Redaction, Recovery>>
Full == FlattenSeq(Sections)
Rotated == FlattenSeq(<<Redaction, Recovery, Verifiers, RequiredOutputs, Inputs, Permissions,
                        Tools, Heading>>)

Insertable == {Key(6, "#", <<>>), Entry(0, "", <<"fs">>), Key(0, "verifiers", <<>>),
               Entry(6, "", <<Variable>>), Entry(4, "", <<"class">>),
               Key(6, "secret_group", <<"2">>), Key(4, "cmd", <<"make">>),
               Entry(2, "name", <<"late">>)}
Indented(d, i, n) == [d EXCEPT ![i].indent = n]
Swapped(d, i) == [d EXCEPT ![i] = d[i + 1], ![i + 1] = d[i]]
Edits(d) ==
    {d} \union {RemoveAt(d, i) : i \in DOMAIN d}
        \union {Indented(d, i, n) : i \in DOMAIN d, n \in {0, 2, 4, 6}}
        \union {Swapped(d, i) : i \in 1..(Len(d) - 1)}
        \union {InsertAt(d, i, l) : i \in DOMAIN d, l \in Insertable}

\* The manifest with other values: skills that built-in adapters are made for,
\* and needs that the smaller adapters do not meet.
With(d, key, value) == [i \in DOMAIN d |-> IF d[i].key = key THEN [d[i] EXCEPT !.value = value]
                                           ELSE d[i]]
Remote == With(Full, "name", <<"repo.analyze_test_failures.remote">>)
Needing(d, key, word) == InsertAt(d, 8, Key(4, key, <<word>>))
Skills == {With(Full, "name", <<"repo.analyze_test_failures">>), Remote,
           With(Remote, "network", <<"true">>), With(Full, "network", <<"true">>),
           With(Full, "max_context_tokens", <<"8000">>),
           With(Full, "max_context_tokens", <<"plenty">>),
           With(Full, "regex", <<"[A-Z]">>), With(Full, "regex", <<"user=">>)}
          \union {Needing(d, "reasoning_level", level) :
                      d \in {Full, With(Remote, "network", <<"true">>)},
                      level \in {"minimal", "medium", "xhigh", "extreme"}}
          \union {Needing(Full, "structured_output", word) : word \in {"true", "yes"}}
MCDocs == Edits(Full) \union Skills
            \union {Rotated, InsertAt(Full, 7, Key(0, "", <<"stray">>))}

MCNumerals == ("1" :> 1) @@ ("2" :> 2) @@ ("1000" :> 1000) @@ ("4000" :> 4000)
              @@ ("8000" :> 8000)
MCGroups == [r \in {<<"pin=">>, <<"user=">>, <<"[A-Z]">>} |-> 1]
MCRepoAt == [w \in {"fixture"} |-> "/skill/fixture"]

MCLower == [w \in STRING |-> IF w = "Remote" THEN "remote" ELSE w]
MCTrim == [w \in STRING |-> IF w = " Remote " THEN "Remote" ELSE w]
Nameless == [Local("", <<>>, [Large EXCEPT !.max_context_tokens = -1]) EXCEPT !.transport = ""]
Relay == [Local("relay", <<>>, [Large EXCEPT !.structured_output = FALSE,
                                             !.reasoning_level = "high"])
            EXCEPT !.transport = " Remote "]
Satellite == [Local("satellite", <<>>, Large) EXCEPT !.transport = "satellite"]
MCCustom == {Nameless, Relay, Satellite}

MCNormal == [k \in STRING |-> IF k = "Pin-Code" THEN "pin_code" ELSE k]
MCDefaultKeys == {"token", "password"}
MCDefaultPatterns == <<<<"token=">>>>
\* A skill's pattern may match the class of an error, another needs what the
\* built-in one replaces, and a third would take the built-in one's marker.
MCFinds == {<<<<"[A-Z]">>, "PolicyViolation">>, <<<<"[A-Z]">>, "DriverError">>}
MCSpoils == {<<{<<"token=">>}, <<"user=">>>>, <<{<<"pin=">>}, <<"token=">>>>}

MCSecrets == {{<<"token=">>, <<"pin=">>, <<"user=">>}}
=============================================================================
