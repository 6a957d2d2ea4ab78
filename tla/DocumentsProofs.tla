--------------------------- MODULE DocumentsProofs ---------------------------
(***************************************************************************)
(* Proofs about Documents: the scanner finds what the nesting of a regular *)
(* document says, the trace on disk is masked by the rules of the manifest *)
(* and still tells a denied tool call, the preflight does what the         *)
(* compatibility report says, and every document the program makes passes  *)
(* its own validation.                                                     *)
(***************************************************************************)
EXTENDS Documents, ManifestProofs

(* Only Load moves the scanner, and nothing does after the manifest loaded. *)
LEMMA LoadOrNot ==
    ASSUME Next
    PROVE  \/ Load
           \/ UNCHANGED scanner
BY DEF Next, Select, Admit, CallTool, Execute, RefuseUnsupported, RefuseForbidden, ScopeFails,
       Verified, ExecuteFails, Failed, WriteTrace, ReportRefusal, ReportRun

LEMMA LoadedStays == ScanNext => load = "scan"
BY DEF ScanNext, SkipComment, ScanSection, ScanCapabilities, ScanTools, ScanInputs, ScanOutputs,
       ScanPermissions, ScanVerifier, ScanVerifierLine, ScanRedactionKey, ScanRedactionPattern,
       SkipLine, ScanEnds, Reading

-----------------------------------------------------------------------------
(* The manifest.                                                            *)

LEMMA ScanKept == ScanInv /\ [Next]_vars => ScanInv'
<1> SUFFICES ASSUME ScanInv, [Next]_vars PROVE ScanInv'
  OBVIOUS
<1>1. ScanNext \/ UNCHANGED scanner
  BY LoadOrNot DEF Load, vars
<1>. QED
  BY <1>1, ScanSteps, ScanRests

(* Whatever the document, the scanner is at one of its lines, and whatever  *)
(* the length of a regular one, what it has read is what the lines nest.    *)
THEOREM ScannerFollowsNesting == Spec => []ScanInv
<1>1. Init => ScanInv
  BY ScanStarts DEF Init
<1>. QED
  BY <1>1, ScanKept, PTL DEF Spec

(* At the end of a regular document its manifest is the one its nesting     *)
(* says, and loads exactly if nothing that ValidateManifest asks for is     *)
(* missing.                                                                 *)
THEOREM ScannerReadsLikeYaml == Spec => []ReadsLikeYaml
<1>1. ScanInv => ReadsLikeYaml
  <2> SUFFICES ASSUME ScanInv, at > Len(doc), Regular(doc)
               PROVE  LET n == Nested(doc, Len(doc) + 1)
                          good == Complete(n) /\ \A p \in Range(n.patterns) : Compiles(p)
                      IN CASE load = "scan"    -> m = n
                           [] load = "loaded"  -> good /\ m = Expanded(n)
                           [] load = "refused" -> ~good
    BY DEF ReadsLikeYaml
  <2> DEFINE n == Nested(doc, Len(doc) + 1)
  <2>1. Progress /\ load \in {"scan", "loaded", "refused"}
    BY DEF ScanInv
  <2>2. at = Len(doc) + 1
    BY DocumentsAssumption DEF ScanInv
  <2>3. /\ load = "scan" => m = n
        /\ load = "loaded" => Loads(n) /\ m = Expanded(n)
        /\ load = "refused" => ~Loads(n)
    BY <2>1, <2>2, Zenon DEF Progress, Scanned
  <2>4. "loaded" # "scan" /\ "refused" # "scan" /\ "loaded" # "refused"
    OBVIOUS
  <2>5. CASE load = "scan"
    BY <2>3, <2>4, <2>5, Zenon
  <2>6. CASE load = "loaded"
    BY <2>3, <2>4, <2>6, Zenon DEF Loads
  <2>7. CASE load = "refused"
    BY <2>3, <2>4, <2>7, Zenon DEF Loads
  <2>. QED
    BY <2>1, <2>5, <2>6, <2>7
<1>. QED
  BY <1>1, ScannerFollowsNesting, PTL

(* Where a document gives a verifier's working directory and its policy's   *)
(* as the same, they are the same once ${repo_path} is replaced.            *)
THEOREM CwdsAgreeExpanded == Spec => []CwdsStillAgree
<1>1. ScanInv => CwdsStillAgree
  <2> SUFFICES ASSUME ScanInv, load = "loaded", Regular(doc), NEW i \in DOMAIN m.verifiers,
                      Nested(doc, Len(doc) + 1).verifiers[i].cwd
                        = Nested(doc, Len(doc) + 1).verifiers[i].policy.cwd
               PROVE  m.verifiers[i].cwd = m.verifiers[i].policy.cwd
    BY Zenon DEF CwdsStillAgree
  <2> DEFINE n == Nested(doc, Len(doc) + 1)
             vs == n.verifiers
             New(v) == ExpandedCheck(v, n)
  <2>1. m = Expanded(n)
    BY Zenon DEF ScanInv, Progress
  <2>2. DOMAIN n = {"head", "needs", "tools", "required", "repo_path", "network", "read", "write",
                    "allow", "verifiers", "keys", "patterns"}
    BY NestedIs
  <2>3. m.verifiers = [j \in DOMAIN vs |-> New(vs[j])]
    <3> HIDE DEF n
    <3>. QED
      BY <2>1, <2>2 DEF Expanded
  <2>4. ASSUME NEW j \in DOMAIN vs
        PROVE  {"cwd", "cmd", "run", "policy"} \subseteq DOMAIN vs[j] /\ "cwd" \in DOMAIN vs[j].policy
    <3>1. vs = VerifiersAt(doc, Len(doc) + 1)
      BY NestedIs
    <3>2. PICK h : vs[j] = VerifierAt(doc, Places(doc, Len(doc) + 1), h)
      BY <3>1, Zenon DEF VerifiersAt, Each
    <3>. QED
      BY <3>2 DEF VerifierAt
  <2>5. i \in DOMAIN vs /\ m.verifiers[i] = New(vs[i])
    BY <2>3
  <2>6. /\ {"cwd", "cmd", "run", "policy"} \subseteq DOMAIN vs[i]
        /\ "cwd" \in DOMAIN vs[i].policy /\ vs[i].cwd = vs[i].policy.cwd
    BY <2>4, <2>5
  <2>7. ASSUME NEW v, {"cwd", "cmd", "run", "policy"} \subseteq DOMAIN v, "cwd" \in DOMAIN v.policy
        PROVE  New(v).cwd = Expand(v.cwd, n) /\ New(v).policy.cwd = Expand(v.policy.cwd, n)
    <3> HIDE DEF n
    <3>. QED
      BY <2>7 DEF ExpandedCheck
  <2> HIDE DEF n, vs, New
  <2>. QED
    BY <2>5, <2>6, <2>7
<1>. QED
  BY <1>1, ScannerFollowsNesting, PTL

-----------------------------------------------------------------------------
(* Values and their redaction.                                              *)

(* A path is made of keys and indices; what holds a longer path is one of   *)
(* the four kinds, and a text has its secrets.                              *)
Names == {"path", "content", "encoding", "overwrite", "written", "name", "type", "cmd", "stdout",
          "changed_files", "skill", "network", "model_profile", "transport", "capabilities",
          "adapter", "model", "provider", "tool_calling", "structured_output",
          "max_context_tokens", "reasoning_level", "class", "message"}
Part == Names \union Fields \union Nat
Kinds == {"map", "list", "struct", "slice"}
IsText(x) == x = Text(x.word, x.shows)
Value(v) ==
    /\ DOMAIN v \subseteq Seq(Part)
    /\ \A p \in DOMAIN v : v[p].t = "string" => IsText(v[p])
    /\ \A p \in DOMAIN v : \A q \in Above(v, p) : v[q].t \in Kinds

(* The patterns that no earlier ones can keep from finding a secret.         *)
Firm(patterns) ==
    {p \in Range(patterns) : \E i \in DOMAIN patterns :
        patterns[i] = p /\ \A S \in SUBSET Earlier(patterns, i) : <<S, p>> \notin Spoils}

LEMMA RedactTextHides ==
    ASSUME NEW x, IsText(x), NEW keys, NEW patterns
    PROVE  LET y == RedactText(x, [keys |-> keys, patterns |-> patterns]) IN
           /\ y.t = "string"
           /\ y.shows \intersect Firm(patterns) = {}
           /\ y.word = IF x.shows \intersect Range(patterns) = {} THEN x.word ELSE "[REDACTED]"
<1> DEFINE word == x.word
           shows == x.shows
           y == RedactText(x, [keys |-> keys, patterns |-> patterns])
           left == shows \ Replaced(shows, patterns)
<1>1. x = Text(word, shows)
  BY DEF IsText
<1>2. y = IF shows \intersect Range(patterns) = {} THEN x ELSE Text("[REDACTED]", left)
  BY DEF RedactText
<1>3. ASSUME NEW p \in Firm(patterns) PROVE p \in Replaced(shows, patterns)
  <2>1. PICK i \in DOMAIN patterns :
           patterns[i] = p /\ \A S \in SUBSET Earlier(patterns, i) : <<S, p>> \notin Spoils
    BY Zenon DEF Firm
  <2>2. <<shows \intersect Earlier(patterns, i), patterns[i]>> \notin Spoils
    BY <2>1
  <2>. QED
    BY <2>1, <2>2 DEF Replaced
<1>4. left \intersect Firm(patterns) = {} /\ Firm(patterns) \subseteq Range(patterns)
  BY <1>3 DEF Firm
<1> HIDE DEF word, shows, left, y
<1>5. x.t = "string" /\ x.word = word /\ x.shows = shows
  BY <1>1 DEF Text
<1>6. /\ Text("[REDACTED]", left).t = "string" /\ Text("[REDACTED]", left).word = "[REDACTED]"
      /\ Text("[REDACTED]", left).shows = left
  BY DEF Text
<1>7. CASE shows \intersect Range(patterns) = {}
  <2>1. y = x
    BY <1>2, <1>7
  <2>. QED
    BY <1>4, <1>5, <1>7, <2>1, Zenon DEF y
<1>8. CASE shows \intersect Range(patterns) # {}
  <2>1. y = Text("[REDACTED]", left)
    BY <1>2, <1>8
  <2>. QED
    BY <1>4, <1>5, <1>6, <1>8, <2>1 DEF y
<1>. QED
  BY <1>7, <1>8

(* redactValue masks every text it can reach.                               *)
LEMMA RedactValueMasks ==
    ASSUME NEW v, Value(v), NEW keys, NEW patterns
    PROVE  Masked(RedactValue(v, [keys |-> keys, patterns |-> patterns]), keys, Firm(patterns))
<1> DEFINE config == [keys |-> keys, patterns |-> patterns]
           r == RedactValue(v, config)
           closed(p) == \E q \in Above(v, p) : v[q].t \notin {"map", "list"}
<1>1. config.keys = keys
  OBVIOUS
<1>2. DOMAIN r = DOMAIN v
  BY DEF RedactValue
<1>3. \A p \in DOMAIN v :
         r[p] = IF v[p].t # "string" \/ closed(p) THEN v[p]
                ELSE IF Sensitive(v, p, keys) THEN Redacted ELSE RedactText(v[p], config)
  BY <1>1 DEF RedactValue
<1> HIDE DEF r, config
<1>4. \A p \in DOMAIN v : v[p].t = "string" =>
         /\ RedactText(v[p], config).t = "string"
         /\ RedactText(v[p], config).shows \intersect Firm(patterns) = {}
  BY RedactTextHides DEF Value, config
<1>5. Redacted.t = "string" /\ Redacted.shows = {}
  BY DEF Redacted, Text
<1>6. \A p \in DOMAIN v : r[p].t = v[p].t
  BY <1>3, <1>4, <1>5, Zenon
<1>7. \A p : Above(r, p) = Above(v, p)
  BY <1>2 DEF Above
<1>8. \A p : Above(v, p) \subseteq DOMAIN v
  BY DEF Above
<1>9. \A p : Sensitive(r, p, keys) <=> Sensitive(v, p, keys)
  BY <1>6, <1>7, <1>8, Zenon DEF Sensitive
<1>10. ASSUME NEW p \in DOMAIN v, r[p].t = "string", ~Opaque(r, p)
       PROVE  /\ r[p].shows \intersect Firm(patterns) = {}
              /\ Sensitive(r, p, keys) => r[p] = Redacted
  <2>1. \A q \in Above(v, p) : v[q].t \in Kinds /\ v[q].t \notin {"struct", "slice"}
    BY <1>6, <1>7, <1>8, <1>10 DEF Opaque, Value
  <2>2. ~closed(p) /\ v[p].t = "string"
    BY <1>6, <1>10, <2>1 DEF Kinds
  <2> HIDE DEF closed
  <2>3. r[p] = IF Sensitive(v, p, keys) THEN Redacted ELSE RedactText(v[p], config)
    BY <1>3, <2>2, Zenon
  <2>. QED
    BY <1>4, <1>5, <1>9, <2>2, <2>3
<1>11. Masked(r, keys, Firm(patterns))
  BY <1>2, <1>10, Zenon DEF Masked
<1>. QED
  BY <1>11 DEF r, config

(* A path that leads on from a key is longer than one that leads to it.     *)
LEMMA PrefixTail ==
    ASSUME NEW a, NEW b, NEW s \in Seq(Part), NEW t \in Seq(Part), a \in Part, b \in Part,
           IsStrictPrefix(<<a>> \o s, <<b>> \o t)
    PROVE  a = b /\ IsStrictPrefix(s, t)
<1> DEFINE x == <<a>> \o s
           y == <<b>> \o t
<1>1. /\ x \in Seq(Part) /\ Len(x) = Len(s) + 1 /\ x[1] = a /\ \A i \in 1..Len(s) : x[i + 1] = s[i]
      /\ y \in Seq(Part) /\ Len(y) = Len(t) + 1 /\ y[1] = b /\ \A i \in 1..Len(t) : y[i + 1] = t[i]
  OBVIOUS
<1>2. x # y /\ Len(x) <= Len(y) /\ SubSeq(x, 1, Len(x)) = SubSeq(y, 1, Len(x))
  BY DEF IsStrictPrefix, IsPrefix
<1>3. s = t /\ a = b => x = y
  OBVIOUS
<1> HIDE DEF x, y
<1>4. \A i \in 1..Len(x) : x[i] = y[i]
  <2>1. ASSUME NEW i \in 1..Len(x)
        PROVE  SubSeq(x, 1, Len(x))[i] = x[i] /\ SubSeq(y, 1, Len(x))[i] = y[i]
    BY <1>1, <1>2
  <2>. QED
    BY <1>2, <2>1
<1>5. a = b
  BY <1>1, <1>4
<1>6. Len(s) <= Len(t) /\ \A i \in 1..Len(s) : s[i] = t[i]
  <2>1. Len(s) <= Len(t)
    BY <1>1, <1>2
  <2>2. ASSUME NEW i \in 1..Len(s) PROVE s[i] = t[i]
    <3>1. i + 1 \in 1..Len(x) /\ i \in 1..Len(t)
      BY <1>1, <2>1
    <3>. QED
      BY <1>1, <1>4, <3>1
  <2>. QED
    BY <2>1, <2>2
<1>7. SubSeq(s, 1, Len(s)) = SubSeq(t, 1, Len(s))
  BY <1>6
<1>. QED
  BY <1>2, <1>3, <1>5, <1>6, <1>7 DEF IsStrictPrefix, IsPrefix

LEMMA LeafValue ==
    ASSUME NEW x, x.t = "string" => IsText(x)
    PROVE  Value(Leaf(x))
<1>1. DOMAIN Leaf(x) = {<<>>} /\ Leaf(x)[<<>>] = x
  BY DEF Leaf
<1>2. Above(Leaf(x), <<>>) = {}
  BY <1>1, Zenon DEF Above, IsStrictPrefix
<1>3. <<>> \in Seq(Part)
  OBVIOUS
<1>. QED
  BY <1>1, <1>2, <1>3 DEF Value

LEMMA HoldingValue ==
    ASSUME NEW type \in Kinds, NEW parts, DOMAIN parts \subseteq Part,
           \A k \in DOMAIN parts : Value(parts[k])
    PROVE  Value(Holding(type, parts))
<1> DEFINE v == Holding(type, parts)
           Under(k) == {<<k>> \o q : q \in DOMAIN parts[k]}
<1>1. DOMAIN v = {<<>>} \union UNION {Under(k) : k \in DOMAIN parts}
  BY DEF Holding
<1>2. \A p \in DOMAIN v : v[p] = IF p = <<>> THEN [t |-> type] ELSE parts[Head(p)][Tail(p)]
  BY DEF Holding
<1>3. ASSUME NEW k \in DOMAIN parts, NEW q \in DOMAIN parts[k]
      PROVE  /\ k \in Part /\ q \in Seq(Part) /\ <<k>> \o q \in Seq(Part) /\ <<k>> \o q # <<>>
             /\ Head(<<k>> \o q) = k /\ Tail(<<k>> \o q) = q
             /\ <<k>> \o q \in DOMAIN v
  <2>1. k \in Part /\ q \in Seq(Part)
    BY <1>3 DEF Value
  <2>2. Head(<<k>> \o q) = k /\ Tail(<<k>> \o q) = q /\ <<k>> \o q \in Seq(Part) /\ <<k>> \o q # <<>>
    BY <2>1
  <2>3. <<k>> \o q \in Under(k)
    OBVIOUS
  <2>. QED
    BY <1>1, <2>1, <2>2, <2>3
<1> HIDE DEF v
<1>4. ASSUME NEW k \in DOMAIN parts, NEW q \in DOMAIN parts[k]
      PROVE  v[<<k>> \o q] = parts[k][q]
  BY <1>2, <1>3
<1>5. ASSUME NEW p \in DOMAIN v, p # <<>>
      PROVE  \E k \in DOMAIN parts : \E q \in DOMAIN parts[k] : p = <<k>> \o q
  BY <1>1, <1>5
<1>6. v[<<>>] = [t |-> type] /\ <<>> \in DOMAIN v
  BY <1>1, <1>2
<1>7. type # "string"
  BY DEF Kinds
<1>8. DOMAIN v \subseteq Seq(Part)
  <2>1. ASSUME NEW p \in DOMAIN v PROVE p \in Seq(Part)
    <3>1. CASE p = <<>>
      BY <3>1
    <3>2. CASE p # <<>>
      <4>1. PICK k \in DOMAIN parts : \E q \in DOMAIN parts[k] : p = <<k>> \o q
        BY <1>5, <3>2
      <4>. QED
        BY <1>3, <4>1
    <3>. QED
      BY <3>1, <3>2
  <2>. QED
    BY <2>1
<1>9. ASSUME NEW p \in DOMAIN v, v[p].t = "string" PROVE IsText(v[p])
  <2>1. p # <<>>
    BY <1>6, <1>7, <1>9
  <2>2. PICK k \in DOMAIN parts : \E q \in DOMAIN parts[k] : p = <<k>> \o q
    BY <1>5, <2>1
  <2>3. PICK q \in DOMAIN parts[k] : p = <<k>> \o q
    BY <2>2
  <2>4. v[p] = parts[k][q]
    BY <1>4, <2>3
  <2>. QED
    BY <1>9, <2>4, Zenon DEF Value
<1>10. ASSUME NEW p \in DOMAIN v, NEW o \in Above(v, p) PROVE v[o].t \in Kinds
  <2>1. o \in DOMAIN v /\ IsStrictPrefix(o, p)
    BY DEF Above
  <2>2. CASE o = <<>>
    BY <1>6, <2>2
  <2>3. CASE o # <<>>
    <3>1. PICK j \in DOMAIN parts : \E r \in DOMAIN parts[j] : o = <<j>> \o r
      BY <1>5, <2>1, <2>3
    <3>2. PICK r \in DOMAIN parts[j] : o = <<j>> \o r
      BY <3>1
    <3>3. Len(o) >= 1 /\ o \in Seq(Part) /\ p \in Seq(Part)
      BY <1>8, <2>1, <2>3
    <3>4. p # <<>>
      BY <2>1, <3>3 DEF IsStrictPrefix, IsPrefix
    <3>5. PICK k \in DOMAIN parts : \E q \in DOMAIN parts[k] : p = <<k>> \o q
      BY <1>5, <3>4
    <3>6. PICK q \in DOMAIN parts[k] : p = <<k>> \o q
      BY <3>5
    <3>7. j = k /\ IsStrictPrefix(r, q)
      <4>1. j \in Part /\ k \in Part /\ r \in Seq(Part) /\ q \in Seq(Part)
        BY <1>3
      <4>2. IsStrictPrefix(<<j>> \o r, <<k>> \o q)
        BY <2>1, <3>2, <3>6
      <4>. QED
        BY <4>1, <4>2, PrefixTail
    <3>8. r \in Above(parts[k], q)
      BY <3>7 DEF Above
    <3>9. v[o] = parts[k][r]
      BY <1>4, <3>2, <3>7
    <3>. QED
      BY <3>8, <3>9, Zenon DEF Value
  <2>. QED
    BY <2>2, <2>3
<1>11. Value(v)
  BY <1>8, <1>9, <1>10, Zenon DEF Value
<1>. QED
  BY <1>11 DEF v

LEMMA LeavesValue ==
    ASSUME NEW type \in Kinds, NEW fields, DOMAIN fields \subseteq Part,
           \A k \in DOMAIN fields : fields[k].t = "string" => IsText(fields[k])
    PROVE  Value(Holding(type, Leaves(fields)))
<1>1. DOMAIN Leaves(fields) = DOMAIN fields
  BY DEF Leaves
<1>2. \A k \in DOMAIN fields : Leaves(fields)[k] = Leaf(fields[k])
  BY DEF Leaves
<1>3. \A k \in DOMAIN fields : Value(Leaves(fields)[k])
  BY <1>2, LeafValue
<1>. QED
  BY <1>1, <1>3, HoldingValue

(* The leaves of the events.                                                *)
LEMMA Scalars_ ==
    /\ \A word : IsText(Word(word)) /\ Word(word).word = word
    /\ \A word, shown : IsText(Text(word, shown))
    /\ \A n : Integer(n).t # "string"
    /\ \A b : Boolean(b).t # "string"
    /\ Null.t # "string"
BY DEF IsText, Word, Text, Integer, Boolean, Null

LEMMA NilValue == Value(Nil)
BY LeafValue, Scalars_ DEF Nil

LEMMA FailureValue ==
    ASSUME NEW class, NEW message, IsText(message)
    PROVE  /\ Value(Failure(class, message))
           /\ <<"class">> \in DOMAIN Failure(class, message)
           /\ Failure(class, message)[<<"class">>] = Word(class)
           /\ Failure(class, message)[<<>>] = [t |-> "map"]
<1> DEFINE fields == [class |-> Word(class), message |-> message]
           v == Holding("map", Leaves(fields))
<1>1. Failure(class, message) = v
  BY DEF Failure, Map
<1>2. DOMAIN fields = {"class", "message"} /\ DOMAIN fields \subseteq Part
  <2>1. DOMAIN fields = {"class", "message"}
    OBVIOUS
  <2>2. {"class", "message"} \subseteq Names
    BY DEF Names
  <2>3. {"class", "message"} \subseteq Part
    BY <2>2, Zenon DEF Part
  <2>. QED
    BY <2>1, <2>3, Zenon
<1>3. \A k \in DOMAIN fields : fields[k].t = "string" => IsText(fields[k])
  BY <1>2, Scalars_
<1>4. fields["class"] = Word(class)
  OBVIOUS
<1> HIDE DEF fields
<1>5. Value(v)
  BY <1>2, <1>3, LeavesValue DEF Kinds
<1> DEFINE Under(k) == {<<k>> \o q : q \in DOMAIN Leaves(fields)[k]}
<1>6. DOMAIN v = {<<>>} \union UNION {Under(k) : k \in DOMAIN Leaves(fields)}
  BY DEF Holding
<1>7. \A p \in DOMAIN v : v[p] = IF p = <<>> THEN [t |-> "map"]
                                 ELSE Leaves(fields)[Head(p)][Tail(p)]
  BY DEF Holding
<1> HIDE DEF v
<1>8. /\ DOMAIN Leaves(fields) = DOMAIN fields
      /\ Leaves(fields)["class"] = Leaf(Word(class))
  BY <1>2, <1>4 DEF Leaves
<1>9. DOMAIN Leaf(Word(class)) = {<<>>} /\ Leaf(Word(class))[<<>>] = Word(class)
  BY DEF Leaf
<1>10. <<"class">> \o <<>> = <<"class">> /\ Head(<<"class">>) = "class" /\ Tail(<<"class">>) = <<>>
       /\ <<"class">> # <<>>
  OBVIOUS
<1>11. <<"class">> \in DOMAIN v
  <2>1. <<"class">> \o <<>> \in Under("class")
    BY <1>8, <1>9, Zenon
  <2>2. "class" \in DOMAIN Leaves(fields)
    BY <1>2, <1>8
  <2>3. <<"class">> \in Under("class")
    BY <1>10, <2>1, Zenon
  <2> HIDE DEF Under
  <2>. QED
    BY <1>6, <2>2, <2>3
<1>12. v[<<"class">>] = Word(class)
  BY <1>7, <1>8, <1>9, <1>10, <1>11
<1>13. v[<<>>] = [t |-> "map"]
  BY <1>6, <1>7
<1>. QED
  BY <1>1, <1>5, <1>11, <1>12, <1>13
(* A leaf, the leaves of a map and the parts of a value, fit for a value.   *)
LeafFits(x) == x.t = "string" => IsText(x)
LeavesFit(f) == DOMAIN f \subseteq Part /\ \A k \in DOMAIN f : LeafFits(f[k])
PartsFit(f) == DOMAIN f \subseteq Part /\ \A k \in DOMAIN f : Value(f[k])

LEMMA FieldsJoined ==
    ASSUME NEW f, NEW g
    PROVE  /\ DOMAIN (f ++ g) = DOMAIN f \union DOMAIN g
           /\ \A k \in DOMAIN f : (f ++ g)[k] = f[k]
           /\ \A k \in DOMAIN g : k \notin DOMAIN f => (f ++ g)[k] = g[k]
BY DEF ++

LEMMA FieldIs ==
    ASSUME NEW name, NEW x, NEW set
    PROVE  /\ DOMAIN Field(name, x, set) \subseteq {name}
           /\ set <=> name \in DOMAIN Field(name, x, set)
           /\ \A k \in DOMAIN Field(name, x, set) : Field(name, x, set)[k] = x
BY DEF Field

LEMMA Fits ==
    /\ \A name \in Part : \A x, set : LeafFits(x) => LeavesFit(Field(name, x, set))
    /\ \A f, g : LeavesFit(f) /\ LeavesFit(g) => LeavesFit(f ++ g)
    /\ \A f, g : PartsFit(f) /\ PartsFit(g) => PartsFit(f ++ g)
    /\ \A f : LeavesFit(f) => PartsFit(Leaves(f))
    /\ \A type \in Kinds : \A f : PartsFit(f) => Value(Holding(type, f))
    /\ \A type \in Kinds : \A f : LeavesFit(f) => Value(Holding(type, Leaves(f)))
<1>1. ASSUME NEW name \in Part, NEW x, NEW set, LeafFits(x) PROVE LeavesFit(Field(name, x, set))
  <2>1. DOMAIN Field(name, x, set) \subseteq Part
    BY FieldIs
  <2>2. ASSUME NEW k \in DOMAIN Field(name, x, set) PROVE LeafFits(Field(name, x, set)[k])
    <3>1. Field(name, x, set)[k] = x
      BY DEF Field
    <3>. QED
      BY <1>1, <3>1, Zenon
  <2>. QED
    BY <2>1, <2>2, Zenon DEF LeavesFit
<1>2. ASSUME NEW f, NEW g, LeavesFit(f), LeavesFit(g) PROVE LeavesFit(f ++ g)
  <2>1. DOMAIN (f ++ g) \subseteq Part
    BY <1>2, FieldsJoined, Zenon DEF LeavesFit
  <2>2. ASSUME NEW k \in DOMAIN (f ++ g) PROVE LeafFits((f ++ g)[k])
    <3>1. \/ k \in DOMAIN f /\ (f ++ g)[k] = f[k]
          \/ k \in DOMAIN g /\ (f ++ g)[k] = g[k]
      BY DEF ++
    <3>2. LeafFits(f[k]) \/ k \notin DOMAIN f
      BY <1>2, Zenon DEF LeavesFit
    <3>3. LeafFits(g[k]) \/ k \notin DOMAIN g
      BY <1>2, Zenon DEF LeavesFit
    <3>. QED
      BY <3>1, <3>2, <3>3, Zenon
  <2>. QED
    BY <2>1, <2>2, Zenon DEF LeavesFit
<1>3. ASSUME NEW f, NEW g, PartsFit(f), PartsFit(g) PROVE PartsFit(f ++ g)
  <2>1. DOMAIN (f ++ g) \subseteq Part
    BY <1>3, FieldsJoined, Zenon DEF PartsFit
  <2>2. ASSUME NEW k \in DOMAIN (f ++ g) PROVE Value((f ++ g)[k])
    <3>1. \/ k \in DOMAIN f /\ (f ++ g)[k] = f[k]
          \/ k \in DOMAIN g /\ (f ++ g)[k] = g[k]
      BY DEF ++
    <3>2. Value(f[k]) \/ k \notin DOMAIN f
      BY <1>3, Zenon DEF PartsFit
    <3>3. Value(g[k]) \/ k \notin DOMAIN g
      BY <1>3, Zenon DEF PartsFit
    <3>. QED
      BY <3>1, <3>2, <3>3, Zenon
  <2>. QED
    BY <2>1, <2>2, Zenon DEF PartsFit
<1>4. ASSUME NEW f, LeavesFit(f) PROVE PartsFit(Leaves(f))
  <2>1. DOMAIN Leaves(f) = DOMAIN f /\ \A k \in DOMAIN f : Leaves(f)[k] = Leaf(f[k])
    BY DEF Leaves
  <2>2. \A k \in DOMAIN f : Value(Leaf(f[k]))
    BY <1>4, LeafValue, Zenon DEF LeavesFit, LeafFits
  <2>. QED
    BY <1>4, <2>1, <2>2, Zenon DEF LeavesFit, PartsFit
<1>5. ASSUME NEW type \in Kinds, NEW f, PartsFit(f) PROVE Value(Holding(type, f))
  BY <1>5, HoldingValue, Zenon DEF PartsFit
<1>. QED
  BY <1>1, <1>2, <1>3, <1>4, <1>5, Zenon

(* What an adapter tells of itself.                                         *)
LEMMA CapabilitiesFit == \A can : LeavesFit(CapabilitySet(can)) /\ Value(CapabilityStruct(can))
<1> SUFFICES ASSUME NEW can PROVE LeavesFit(CapabilitySet(can)) /\ Value(CapabilityStruct(can))
  OBVIOUS
<1>1. {"tool_calling", "structured_output", "max_context_tokens", "reasoning_level"} \subseteq Part
  BY DEF Part, Names
<1>2. LeafFits(Boolean(TRUE)) /\ (\A n : LeafFits(Integer(n))) /\ (\A w : LeafFits(Word(w)))
  BY Scalars_, Zenon DEF LeafFits
<1>3. LeavesFit(CapabilitySet(can))
  BY <1>1, <1>2, Fits, Zenon DEF CapabilitySet
<1>4. "struct" \in Kinds
  BY DEF Kinds
<1>. QED
  BY <1>3, <1>4, Fits, Zenon DEF CapabilityStruct, Struct
(* A recorded event: its values are maps of texts, its error none or a      *)
(* class and a message.                                                     *)
ErrorOk(v) == v = Nil \/ \E class, message : IsText(message) /\ v = Failure(class, message)
EventOk(e) ==
    /\ DOMAIN e = {"type", "name", "status", "request", "result", "error", "stdout", "stderr"}
    /\ Value(e.request) /\ Value(e.result) /\ ErrorOk(e.error)
    /\ IsText(e.stdout) /\ IsText(e.stderr)

LEMMA ErrorValue == \A v : ErrorOk(v) => Value(v)
BY NilValue, FailureValue, Zenon DEF ErrorOk

LEMMA AdapterEventIs ==
    ASSUME NEW name, NEW status, NEW request, NEW result, NEW error
    PROVE  /\ AdapterEvent(name, status, request, result, error).name = name
           /\ AdapterEvent(name, status, request, result, error).status = status
           /\ AdapterEvent(name, status, request, result, error).error = error
BY DEF AdapterEvent, Event

LEMMA AdapterEventFits ==
    ASSUME NEW name, NEW status, NEW request, NEW result, NEW error,
           Value(request), Value(result), ErrorOk(error)
    PROVE  EventOk(AdapterEvent(name, status, request, result, error))
<1> DEFINE e == AdapterEvent(name, status, request, result, error)
<1>1. /\ DOMAIN e = {"type", "name", "status", "request", "result", "error", "stdout", "stderr"}
      /\ e.request = request /\ e.result = result /\ e.error = error
      /\ e.stdout = Word("") /\ e.stderr = Word("")
  BY DEF AdapterEvent, Event
<1> HIDE DEF e
<1>2. EventOk(e)
  BY <1>1, Scalars_, Zenon DEF EventOk
<1>. QED
  BY <1>2 DEF e

LEMMA ToolEventFits ==
    ASSUME NEW name, NEW request, NEW result, NEW error,
           Value(request), Value(result), ErrorOk(error)
    PROVE  EventOk(ToolEvent(name, request, result, error))
<1> DEFINE e == ToolEvent(name, request, result, error)
<1>1. /\ DOMAIN e = {"type", "name", "status", "request", "result", "error", "stdout", "stderr"}
      /\ e.request = request /\ e.result = result /\ e.error = error
      /\ e.stdout = Word("") /\ e.stderr = Word("")
  BY DEF ToolEvent, Event
<1> HIDE DEF e
<1>2. EventOk(e)
  BY <1>1, Scalars_, Zenon DEF EventOk
<1>. QED
  BY <1>2 DEF e

LEMMA VerifierEventFits ==
    ASSUME NEW name, NEW status, NEW request, NEW stdout, Value(request), IsText(stdout)
    PROVE  EventOk(VerifierEvent(name, status, request, stdout))
<1> DEFINE e == VerifierEvent(name, status, request, stdout)
<1>1. /\ DOMAIN e = {"type", "name", "status", "request", "result", "error", "stdout", "stderr"}
      /\ e.request = request /\ e.result = Nil /\ e.error = Nil
      /\ e.stdout = stdout /\ e.stderr = Word("")
  BY DEF VerifierEvent, Event
<1> HIDE DEF e
<1>2. EventOk(e)
  BY <1>1, Scalars_, NilValue, Zenon DEF EventOk, ErrorOk
<1>. QED
  BY <1>2 DEF e

LEMMA FewFit ==
    /\ \A f : \A k \in Part : DOMAIN f = {k} /\ LeafFits(f[k]) => LeavesFit(f)
    /\ \A f : \A j, k \in Part :
          DOMAIN f = {j, k} /\ LeafFits(f[j]) /\ LeafFits(f[k]) => LeavesFit(f)
    /\ \A f : \A i, j, k \in Part :
          DOMAIN f = {i, j, k} /\ LeafFits(f[i]) /\ LeafFits(f[j]) /\ LeafFits(f[k])
             => LeavesFit(f)
<1>1. ASSUME NEW f, NEW i \in Part, NEW j \in Part, NEW k \in Part,
             DOMAIN f = {i, j, k}, LeafFits(f[i]), LeafFits(f[j]), LeafFits(f[k])
      PROVE  LeavesFit(f)
  <2>1. ASSUME NEW p \in DOMAIN f PROVE p \in Part /\ LeafFits(f[p])
    <3>1. p = i \/ p = j \/ p = k
      BY <1>1
    <3>. QED
      BY <1>1, <3>1, Zenon
  <2>. QED
    BY <2>1, Zenon DEF LeavesFit
<1>2. \A j, k : {k} = {k, k, k} /\ {j, k} = {j, k, k}
  OBVIOUS
<1>. QED
  BY <1>1, <1>2, Zenon

(* What the tools record, whatever the text.                                *)
LEMMA ToolRequestsFit ==
    ASSUME NEW text, IsText(text), NEW r \in ToolRequests(text)
    PROVE  Value(r[2]) /\ Value(r[3])
<1> DEFINE a == [path |-> text]
           b == [content |-> text, encoding |-> Word("utf-8")]
           c == [path |-> text, overwrite |-> Boolean(TRUE)]
           d == [written |-> Boolean(TRUE)]
           e == [name |-> text, type |-> Word("file")]
           f == [stdout |-> text]
           g == <<Word("lint"), text>>
<1>1. /\ LeafFits(text) /\ LeafFits(Boolean(TRUE)) /\ LeafFits(Word("utf-8"))
      /\ LeafFits(Word("file")) /\ LeafFits(Word("lint"))
  BY Scalars_, Zenon DEF LeafFits
<1>2. \A k \in {"path", "content", "encoding", "overwrite", "written", "name", "type", "cmd",
                "stdout"} : k \in Part
  BY DEF Part, Names
<1>3. 1 \in Part /\ 2 \in Part
  BY DEF Part
<1>4. /\ DOMAIN a = {"path"} /\ a["path"] = text
      /\ DOMAIN b = {"content", "encoding"} /\ b["content"] = text /\ b["encoding"] = Word("utf-8")
      /\ DOMAIN c = {"path", "overwrite"} /\ c["path"] = text /\ c["overwrite"] = Boolean(TRUE)
      /\ DOMAIN d = {"written"} /\ d["written"] = Boolean(TRUE)
      /\ DOMAIN e = {"name", "type"} /\ e["name"] = text /\ e["type"] = Word("file")
      /\ DOMAIN f = {"stdout"} /\ f["stdout"] = text
  OBVIOUS
<1>5. DOMAIN g = {1, 2} /\ g[1] = Word("lint") /\ g[2] = text
  OBVIOUS
<1>6. \A P : DOMAIN <<P>> = {1} /\ <<P>>[1] = P
  OBVIOUS
<1>7. \A P : DOMAIN [cmd |-> P] = {"cmd"} /\ [cmd |-> P]["cmd"] = P
  OBVIOUS
<1> HIDE DEF a, b, c, d, e, f, g
<1>8. LeavesFit(a) /\ LeavesFit(b) /\ LeavesFit(c) /\ LeavesFit(d) /\ LeavesFit(e) /\ LeavesFit(f)
      /\ LeavesFit(g)
  <2>1. LeavesFit(a)
    <3>1. LeafFits(a["path"])
      BY <1>1, <1>4, <1>5, Zenon
    <3>. QED
      BY <1>2, <1>3, <1>4, <1>5, <3>1, FewFit, Zenon
  <2>2. LeavesFit(b)
    <3>1. LeafFits(b["content"]) /\ LeafFits(b["encoding"])
      BY <1>1, <1>4, <1>5, Zenon
    <3>. QED
      BY <1>2, <1>3, <1>4, <1>5, <3>1, FewFit, Zenon
  <2>3. LeavesFit(c)
    <3>1. LeafFits(c["path"]) /\ LeafFits(c["overwrite"])
      BY <1>1, <1>4, <1>5, Zenon
    <3>. QED
      BY <1>2, <1>3, <1>4, <1>5, <3>1, FewFit, Zenon
  <2>4. LeavesFit(d)
    <3>1. LeafFits(d["written"])
      BY <1>1, <1>4, <1>5, Zenon
    <3>. QED
      BY <1>2, <1>3, <1>4, <1>5, <3>1, FewFit, Zenon
  <2>5. LeavesFit(e)
    <3>1. LeafFits(e["name"]) /\ LeafFits(e["type"])
      BY <1>1, <1>4, <1>5, Zenon
    <3>. QED
      BY <1>2, <1>3, <1>4, <1>5, <3>1, FewFit, Zenon
  <2>6. LeavesFit(f)
    <3>1. LeafFits(f["stdout"])
      BY <1>1, <1>4, <1>5, Zenon
    <3>. QED
      BY <1>2, <1>3, <1>4, <1>5, <3>1, FewFit, Zenon
  <2>7. LeavesFit(g)
    <3>1. LeafFits(g[1]) /\ LeafFits(g[2])
      BY <1>1, <1>4, <1>5, Zenon
    <3>. QED
      BY <1>2, <1>3, <1>4, <1>5, <3>1, FewFit, Zenon
  <2>. QED
    BY <2>1, <2>2, <2>3, <2>4, <2>5, <2>6, <2>7
<1>9. "map" \in Kinds /\ "list" \in Kinds /\ "struct" \in Kinds /\ "slice" \in Kinds
  BY DEF Kinds
<1>10. /\ Value(Map(Leaves(a))) /\ Value(Map(Leaves(b))) /\ Value(Map(Leaves(c)))
       /\ Value(Map(Leaves(d))) /\ Value(Map(Leaves(e))) /\ Value(Struct(Leaves(f)))
       /\ Value(List(Leaves(g)))
  BY <1>8, <1>9, Fits, Zenon DEF Map, Struct, List
<1>11. \A v : Value(v) => PartsFit(<<v>>) /\ PartsFit([cmd |-> v])
  BY <1>2, <1>3, <1>6, <1>7, Zenon DEF PartsFit
<1>12. Value(Slice(<<Map(Leaves(e))>>)) /\ Value(Map([cmd |-> List(Leaves(g))]))
  BY <1>9, <1>10, <1>11, Fits, Zenon DEF Map, Slice
<1> DEFINE A == Map(Leaves(a))
           B == Map(Leaves(b))
           C == Map(Leaves(c))
           D == Map(Leaves(d))
           E == Slice(<<Map(Leaves(e))>>)
           F == Struct(Leaves(f))
           G == Map([cmd |-> List(Leaves(g))])
<1>13. r \in {<<"fs.read", A, B>>, <<"fs.write", C, D>>, <<"fs.list", A, E>>,
              <<"shell.exec", G, F>>}
  BY DEF ToolRequests, a, b, c, d, e, f, g
<1>14. Value(A) /\ Value(B) /\ Value(C) /\ Value(D) /\ Value(E) /\ Value(F) /\ Value(G)
  BY <1>10, <1>12
<1> HIDE DEF A, B, C, D, E, F, G
<1>15. \A n, x, y : <<n, x, y>>[2] = x /\ <<n, x, y>>[3] = y
  OBVIOUS
<1>16. \/ r[2] = A /\ r[3] = B
       \/ r[2] = C /\ r[3] = D
       \/ r[2] = A /\ r[3] = E
       \/ r[2] = G /\ r[3] = F
  BY <1>13, <1>15
<1>. QED
  BY <1>14, <1>16, Zenon
LEMMA TextsAreTexts == \A text \in Texts : IsText(text)
<1>1. ASSUME NEW text \in Texts PROVE IsText(text)
  <2>1. PICK shown : text = Text("text", shown)
    BY DEF Texts
  <2>. QED
    BY <2>1, Scalars_
<1>. QED
  BY <1>1

LEMMA ToolEventsFit == \A e \in ToolEvents : EventOk(e)
<1>1. ASSUME NEW e \in ToolEvents PROVE EventOk(e)
  <2>1. PICK text \in Texts : e \in ToolEventsOf(text)
    BY DEF ToolEvents
  <2>2. \E r \in ToolRequests(text) :
           \/ e = ToolEvent(r[1], r[2], r[3], Nil)
           \/ \E class : e = ToolEvent(r[1], r[2], Nil, Failure(class, text))
    BY <2>1 DEF ToolEventsOf
  <2>3. PICK r \in ToolRequests(text) :
           \/ e = ToolEvent(r[1], r[2], r[3], Nil)
           \/ \E class : e = ToolEvent(r[1], r[2], Nil, Failure(class, text))
    BY <2>2
  <2>4. IsText(text) /\ Value(r[2]) /\ Value(r[3]) /\ Value(Nil)
    BY ToolRequestsFit, TextsAreTexts, NilValue
  <2>5. ErrorOk(Nil) /\ \A class : ErrorOk(Failure(class, text))
    BY <2>4, Zenon DEF ErrorOk
  <2>. QED
    BY <2>3, <2>4, <2>5, ToolEventFits, Zenon
<1>. QED
  BY <1>1

(* The requests and the results of Run's own events.                        *)
LEMMA RunRequestsFit ==
    /\ \A w : Value(Map(Leaves([skill |-> Word(w)])))
    /\ \A w, b : Value(Map(Leaves([skill |-> Word(w), network |-> Boolean(b)])))
    /\ \A w, x : Value(Map(Leaves([adapter |-> Word(w), transport |-> Word(x)])))
    /\ \A w : Value(Map(Leaves([type |-> Word(w)])))
    /\ Value(ExecuteRequest)
<1>1. \A w, b : LeafFits(Word(w)) /\ LeafFits(Boolean(b))
  BY Scalars_, Zenon DEF LeafFits
<1>2. "map" \in Kinds
  BY DEF Kinds
<1>3. \A k \in {"skill", "network", "adapter", "transport", "type", "model", "provider"} : k \in Part
  BY DEF Part, Names
<1>4. \A x : DOMAIN [skill |-> x] = {"skill"} /\ [skill |-> x]["skill"] = x
  OBVIOUS
<1>5. \A x : DOMAIN [type |-> x] = {"type"} /\ [type |-> x]["type"] = x
  OBVIOUS
<1>6. \A x, y : /\ DOMAIN [skill |-> x, network |-> y] = {"skill", "network"}
                /\ [skill |-> x, network |-> y]["skill"] = x
                /\ [skill |-> x, network |-> y]["network"] = y
  OBVIOUS
<1>7. \A x, y : /\ DOMAIN [adapter |-> x, transport |-> y] = {"adapter", "transport"}
                /\ [adapter |-> x, transport |-> y]["adapter"] = x
                /\ [adapter |-> x, transport |-> y]["transport"] = y
  OBVIOUS
<1>8. \A x, y, z : /\ DOMAIN [skill |-> x, adapter |-> y, model |-> z] = {"skill", "adapter", "model"}
                   /\ [skill |-> x, adapter |-> y, model |-> z]["skill"] = x
                   /\ [skill |-> x, adapter |-> y, model |-> z]["adapter"] = y
                   /\ [skill |-> x, adapter |-> y, model |-> z]["model"] = z
  OBVIOUS
<1>9. ASSUME NEW x, LeafFits(x) PROVE LeavesFit([skill |-> x]) /\ LeavesFit([type |-> x])
  BY <1>3, <1>4, <1>5, <1>9, FewFit, Zenon
<1>10. ASSUME NEW x, NEW y, LeafFits(x), LeafFits(y)
       PROVE  LeavesFit([skill |-> x, network |-> y]) /\ LeavesFit([adapter |-> x, transport |-> y])
  BY <1>3, <1>6, <1>7, <1>10, FewFit, Zenon
<1>11. ASSUME NEW x, NEW y, NEW z, LeafFits(x), LeafFits(y), LeafFits(z)
       PROVE  LeavesFit([skill |-> x, adapter |-> y, model |-> z])
  BY <1>3, <1>8, <1>11, FewFit, ZenonT(30)
<1>12. Value(ExecuteRequest)
  <2> DEFINE f == [skill |-> Word(SkillName(m)), adapter |-> Word(adapter.name),
                   model |-> Word(adapter.model_profile)]
             g == Field("provider", Word(adapter.provider), adapter.provider # "")
  <2>1. LeavesFit(f)
    BY <1>1, <1>11
  <2>2. LeavesFit(g)
    BY <1>1, <1>3, Fits, Zenon
  <2>3. ExecuteRequest = Holding("map", Leaves(f ++ g))
    BY DEF ExecuteRequest, Map
  <2> HIDE DEF f, g
  <2>. QED
    BY <1>2, <2>1, <2>2, <2>3, Fits, Zenon
<1>. QED
  BY <1>1, <1>2, <1>9, <1>10, <1>12, Fits, Zenon DEF Map

LEMMA MetadataFits == \A a : Value(Metadata(a))
<1> SUFFICES ASSUME NEW a PROVE Value(Metadata(a))
  OBVIOUS
<1> DEFINE f == [name |-> Word(a.name), model_profile |-> Word(a.model_profile),
                 transport |-> Word(a.transport)]
           c == CapabilityStruct(a.can)
           g == [capabilities |-> c]
<1>1. DOMAIN f = {"name", "model_profile", "transport"}
      /\ f["name"] = Word(a.name) /\ f["model_profile"] = Word(a.model_profile)
      /\ f["transport"] = Word(a.transport)
  OBVIOUS
<1>2. LeafFits(Word(a.name)) /\ LeafFits(Word(a.model_profile)) /\ LeafFits(Word(a.transport))
  BY Scalars_, Zenon DEF LeafFits
<1>3. \A k \in {"name", "model_profile", "transport", "capabilities"} : k \in Part
  BY DEF Part, Names
<1>4. Value(c)
  BY CapabilitiesFit
<1> HIDE DEF c
<1>5. DOMAIN g = {"capabilities"} /\ g["capabilities"] = c
  OBVIOUS
<1>6. Metadata(a) = Holding("struct", Leaves(f) ++ g)
  BY DEF Metadata, Struct, c
<1> HIDE DEF f, g
<1>7. LeavesFit(f)
  <2>1. LeafFits(f["name"]) /\ LeafFits(f["model_profile"]) /\ LeafFits(f["transport"])
    BY <1>1, <1>2, Zenon
  <2>. QED
    BY <1>1, <1>3, <2>1, FewFit, Zenon
<1>8. PartsFit(g)
  BY <1>3, <1>4, <1>5, Zenon DEF PartsFit
<1>9. "struct" \in Kinds
  BY DEF Kinds
<1>. QED
  BY <1>6, <1>7, <1>8, <1>9, Fits, Zenon

(* Any answer of an adapter.                                                *)
LEMMA AnswersFit == \A v \in Answers : Value(v)
<1> DEFINE One(k, x) == [y \in {k} |-> Leaf(x)]
           Given(text, shape) == [k \in Fields |-> Shaped(shape, k, text)]
           Files(text) == [changed_files |-> List(Leaves(<<text>>))]
<1>1. "map" \in Kinds /\ "list" \in Kinds /\ "struct" \in Kinds
  BY DEF Kinds
<1>2. "changed_files" \in Part /\ 1 \in Part /\ \A k \in Fields : k \in Part
  BY DEF Part, Names
<1>3. \A v : DOMAIN <<v>> = {1} /\ <<v>>[1] = v
  OBVIOUS
<1>4. \A v : DOMAIN [changed_files |-> v] = {"changed_files"}
             /\ [changed_files |-> v]["changed_files"] = v
  OBVIOUS
<1>5. \A v : Value(v) => PartsFit(<<v>>) /\ PartsFit([changed_files |-> v])
  BY <1>2, <1>3, <1>4, Zenon DEF PartsFit
<1>6. ASSUME NEW text, IsText(text) PROVE Value(Leaf(text)) /\ PartsFit(Files(text))
  <2>1. LeafFits(text)
    BY <1>6, Zenon DEF LeafFits
  <2>2. LeavesFit(<<text>>)
    BY <1>2, <1>3, <2>1, FewFit, Zenon
  <2>3. Value(List(Leaves(<<text>>)))
    BY <1>1, <2>2, Fits, Zenon DEF List
  <2>. QED
    BY <1>5, <1>6, <2>3, LeafValue, Zenon
<1>7. ASSUME NEW text, IsText(text), NEW k \in Part PROVE PartsFit(One(k, text))
  <2>1. DOMAIN One(k, text) = {k} /\ \A j \in {k} : One(k, text)[j] = Leaf(text)
    OBVIOUS
  <2>2. Value(Leaf(text))
    BY <1>6, <1>7
  <2> HIDE DEF One
  <2>. QED
    BY <2>1, <2>2, Zenon DEF PartsFit
<1>8. ASSUME NEW text, IsText(text), NEW k \in Fields, NEW shape \in Shapes
      PROVE  Value(Shaped(shape, k, text))
  <2>1. PartsFit(One(k, text)) /\ Value(Leaf(text))
    BY <1>2, <1>6, <1>7, <1>8, Zenon
  <2>2. Value(Map(One(k, text))) /\ Value(Struct(One(k, text)))
    BY <1>1, <2>1, Fits, Zenon DEF Map, Struct
  <2>3. Value(List(<<Map(One(k, text))>>))
    BY <1>1, <1>5, <2>2, Fits, Zenon DEF List
  <2>4. "text" # "list" /\ "text" # "struct" /\ "list" # "struct"
    OBVIOUS
  <2>5. shape = "text" \/ shape = "list" \/ shape = "struct"
    BY DEF Shapes
  <2>. QED
    BY <2>1, <2>2, <2>3, <2>4, <2>5, Zenon DEF Shaped
<1>9. ASSUME NEW text, IsText(text), NEW shape \in Shapes
      PROVE  PartsFit(Given(text, shape))
  BY <1>2, <1>8, <1>9, Zenon DEF PartsFit
<1>10. PartsFit(<<>>)
  BY DEF PartsFit
<1> HIDE DEF Given, Files
<1>11. ASSUME NEW text \in Texts, NEW shape \in Shapes PROVE Value(Answer(text, shape))
  <2>1. PartsFit(Files(text)) /\ PartsFit(Given(text, shape))
    BY <1>6, <1>9, TextsAreTexts, Zenon
  <2>2. Answer(text, shape) = Holding("map", Files(text) ++ Given(text, shape))
    BY Zenon DEF Answer, Map, Files, Given
  <2>. QED
    BY <1>1, <2>1, <2>2, Fits, Zenon
<1>12. Value(Map(<<>>))
  BY <1>1, <1>10, Fits, Zenon DEF Map
<1>13. \A v \in Answers : v = Map(<<>>) \/ \E text \in Texts, shape \in Shapes : v = Answer(text, shape)
  BY DEF Answers
<1>. QED
  BY <1>11, <1>12, <1>13, Zenon
-----------------------------------------------------------------------------
(* The trace of a run.                                                      *)

Sequence(s) == \E S : s \in Seq(S)

LEMMA Joined ==
    ASSUME NEW s, NEW r, Sequence(s), Sequence(r)
    PROVE  /\ Sequence(s \o r) /\ Len(s \o r) = Len(s) + Len(r) /\ DOMAIN (s \o r) = 1..Len(s \o r)
           /\ Len(s) \in Nat /\ Len(r) \in Nat /\ DOMAIN s = 1..Len(s) /\ DOMAIN r = 1..Len(r)
           /\ \A i \in DOMAIN s : (s \o r)[i] = s[i]
           /\ \A i \in DOMAIN r : (s \o r)[Len(s) + i] = r[i]
           /\ \A i \in DOMAIN (s \o r) :
                 \/ i \in DOMAIN s /\ (s \o r)[i] = s[i]
                 \/ i - Len(s) \in DOMAIN r /\ (s \o r)[i] = r[i - Len(s)]
<1>1. PICK S : s \in Seq(S)
  BY Zenon DEF Sequence
<1>2. PICK R : r \in Seq(R)
  BY Zenon DEF Sequence
<1>3. s \in Seq(S \union R) /\ r \in Seq(S \union R)
  BY <1>1, <1>2
<1>4. s \o r \in Seq(S \union R)
  BY <1>3
<1>5. Sequence(s \o r)
  BY <1>4, Zenon DEF Sequence
<1>6. ASSUME NEW i \in DOMAIN (s \o r), i \notin DOMAIN s
      PROVE  i - Len(s) \in DOMAIN r /\ (s \o r)[i] = r[i - Len(s)]
  BY <1>3, <1>6
<1>7. \A i \in DOMAIN s : (s \o r)[i] = s[i]
  BY <1>3
<1>. QED
  BY <1>3, <1>5, <1>6, <1>7

LEMMA JoinedFrom ==
    ASSUME NEW s, NEW r, Sequence(s), Sequence(r), NEW i \in DOMAIN (s \o r)
    PROVE  \/ \E j \in DOMAIN s : (s \o r)[i] = s[j]
           \/ \E j \in DOMAIN r : (s \o r)[i] = r[j]
<1>1. PICK S : s \in Seq(S)
  BY Zenon DEF Sequence
<1>2. PICK R : r \in Seq(R)
  BY Zenon DEF Sequence
<1>3. s \in Seq(S \union R) /\ r \in Seq(S \union R)
  BY <1>1, <1>2
<1>4. CASE i \in DOMAIN s
  BY <1>3, <1>4
<1>5. ASSUME i \notin DOMAIN s
      PROVE  i - Len(s) \in DOMAIN r /\ (s \o r)[i] = r[i - Len(s)]
  BY <1>3, <1>5
<1>. QED
  BY <1>4, <1>5

LEMMA JoinedTail ==
    ASSUME NEW s, NEW r, Sequence(s), Sequence(r), NEW i \in DOMAIN r
    PROVE  Len(s) + i \in DOMAIN (s \o r) /\ (s \o r)[Len(s) + i] = r[i]
<1>1. PICK S : s \in Seq(S)
  BY Zenon DEF Sequence
<1>2. PICK R : r \in Seq(R)
  BY Zenon DEF Sequence
<1>3. s \in Seq(S \union R) /\ r \in Seq(S \union R)
  BY <1>1, <1>2
<1>. QED
  BY <1>3

LEMMA Appended ==
    ASSUME NEW s, Sequence(s), NEW e
    PROVE  Append(s, e) = s \o <<e>>
<1>1. PICK S : s \in Seq(S)
  BY Zenon DEF Sequence
<1>2. s \in Seq(S \union {e}) /\ e \in S \union {e}
  BY <1>1
<1> DEFINE T == S \union {e}
<1> HIDE DEF T
<1>3. s \in Seq(T) /\ e \in T
  BY <1>2 DEF T
<1>. QED
  BY <1>3

LEMMA ShortSequences ==
    /\ \A a : Sequence(<<a>>) /\ Len(<<a>>) = 1 /\ DOMAIN <<a>> = 1..1 /\ <<a>>[1] = a
    /\ \A a, b : /\ Sequence(<<a, b>>) /\ Len(<<a, b>>) = 2 /\ DOMAIN <<a, b>> = 1..2
                 /\ <<a, b>>[1] = a /\ <<a, b>>[2] = b
<1>1. \A a, b : <<a>> \in Seq({a}) /\ <<a, b>> \in Seq({a, b})
  OBVIOUS
<1>2. \A a, b : Sequence(<<a>>) /\ Sequence(<<a, b>>)
  BY <1>1, Zenon DEF Sequence
<1>3. \A a, b : /\ Len(<<a>>) = 1 /\ DOMAIN <<a>> = 1..1 /\ <<a>>[1] = a
               /\ Len(<<a, b>>) = 2 /\ DOMAIN <<a, b>> = 1..2
               /\ <<a, b>>[1] = a /\ <<a, b>>[2] = b
  OBVIOUS
<1>. QED
  BY <1>2, <1>3, Zenon

TraceOk(t) ==
    /\ DOMAIN t = {"run_id", "skill", "model_profile", "events", "final"}
    /\ Sequence(t.events) /\ \A i \in DOMAIN t.events : EventOk(t.events[i])
    /\ DOMAIN t.final = {"status", "output", "error"}
    /\ Value(t.final.output) /\ IsText(t.final.error)

LEMMA TraceGrows ==
    ASSUME NEW t, TraceOk(t), NEW es, Sequence(es), \A i \in DOMAIN es : EventOk(es[i])
    PROVE  LET u == [t EXCEPT !.events = @ \o es] IN
           TraceOk(u) /\ u.events = t.events \o es
<1> DEFINE u == [t EXCEPT !.events = @ \o es]
           s == t.events \o es
<1>1. u = [t EXCEPT !.events = s]
  OBVIOUS
<1>2. Sequence(t.events)
  BY DEF TraceOk
<1>3. Sequence(s)
  BY <1>2, Joined, Zenon
<1>4. ASSUME NEW i \in DOMAIN s PROVE EventOk(s[i])
  <2>1. (\E j \in DOMAIN t.events : s[i] = t.events[j]) \/ (\E j \in DOMAIN es : s[i] = es[j])
    <3>1. \/ \E j \in DOMAIN t.events : (t.events \o es)[i] = t.events[j]
          \/ \E j \in DOMAIN es : (t.events \o es)[i] = es[j]
      BY <1>2, <1>4, JoinedFrom
    <3>. QED
      BY <3>1
  <2>. QED
    BY <2>1, Zenon DEF TraceOk
<1> HIDE DEF s
<1>5. /\ DOMAIN u = {"run_id", "skill", "model_profile", "events", "final"}
      /\ u.events = s /\ u.final = t.final
  BY <1>1 DEF TraceOk
<1> HIDE DEF u
<1>6. TraceOk(u)
  BY <1>3, <1>4, <1>5, Zenon DEF TraceOk
<1>. QED
  BY <1>5, <1>6 DEF u, s

LEMMA TraceEnds ==
    ASSUME NEW t, TraceOk(t), NEW status, NEW output, Value(output), NEW message, IsText(message)
    PROVE  TraceOk(Finished(t, status, output, message))
           /\ Finished(t, status, output, message).events = t.events
<1> DEFINE u == Finished(t, status, output, message)
           f == [status |-> status, output |-> output, error |-> message]
<1>1. u = [t EXCEPT !.final = f]
  BY DEF Finished
<1>2. DOMAIN f = {"status", "output", "error"} /\ f.output = output /\ f.error = message
  OBVIOUS
<1> HIDE DEF f
<1>3. /\ DOMAIN u = {"run_id", "skill", "model_profile", "events", "final"}
      /\ u.events = t.events /\ u.final = f
  BY <1>1 DEF TraceOk
<1> HIDE DEF u
<1>4. TraceOk(u)
  BY <1>2, <1>3, Zenon DEF TraceOk
<1>. QED
  BY <1>3, <1>4 DEF u
-----------------------------------------------------------------------------
(* A manifest has its fields whatever the document, and its patterns        *)
(* compile once it is loaded.                                               *)
ManifestFields == {"head", "needs", "tools", "required", "repo_path", "network", "read", "write",
                   "allow", "verifiers", "keys", "patterns"}
ManifestOk ==
    /\ DOMAIN m = ManifestFields
    /\ load = "loaded" => \A p \in Range(m.patterns) : Compiles(p)

LEMMA ExpandedKeeps ==
    ASSUME NEW n, DOMAIN n = ManifestFields
    PROVE  /\ DOMAIN Expanded(n) = ManifestFields
           /\ Expanded(n).patterns = n.patterns /\ Expanded(n).keys = n.keys
           /\ Expanded(n).head = n.head /\ Expanded(n).needs = n.needs
           /\ Expanded(n).network = n.network
<1> DEFINE a == IF n.repo_path = <<>> THEN n.repo_path ELSE <<Repo(n)>>
           b == [i \in DOMAIN n.read |-> Expand(n.read[i], n)]
           c == [i \in DOMAIN n.write |-> Expand(n.write[i], n)]
           d == [i \in DOMAIN n.verifiers |-> ExpandedCheck(n.verifiers[i], n)]
<1>1. Expanded(n) = [n EXCEPT !.repo_path = a, !.read = b, !.write = c, !.verifiers = d]
  BY DEF Expanded
<1> HIDE DEF a, b, c, d
<1>. QED
  BY <1>1 DEF ManifestFields

LEMMA GrantedFields == \A p, l, where : DOMAIN Granted(p, l, where) = DOMAIN p
BY DEF Granted

LEMMA FieldsScanned == ScanNext => DOMAIN m' = DOMAIN m \/ m' = Expanded(m)
<1>1. SkipComment \/ SkipLine => m' = m
  BY DEF SkipComment, SkipLine
<1>2. ScanSection => DOMAIN m' = DOMAIN m
  BY DEF ScanSection
<1>3. ScanCapabilities => DOMAIN m' = DOMAIN m
  BY DEF ScanCapabilities
<1>4. ScanTools => DOMAIN m' = DOMAIN m
  BY DEF ScanTools
<1>5. ScanInputs => DOMAIN m' = DOMAIN m
  BY DEF ScanInputs
<1>6. ScanOutputs => DOMAIN m' = DOMAIN m
  BY DEF ScanOutputs
<1>7. ScanPermissions => DOMAIN m' = DOMAIN m
  BY GrantedFields DEF ScanPermissions
<1>8. ScanVerifier => DOMAIN m' = DOMAIN m
  BY DEF ScanVerifier
<1>9. ScanVerifierLine => DOMAIN m' = DOMAIN m
  BY DEF ScanVerifierLine
<1>10. ScanRedactionKey => DOMAIN m' = DOMAIN m
  BY DEF ScanRedactionKey
<1>11. ScanRedactionPattern => DOMAIN m' = DOMAIN m
  BY DEF ScanRedactionPattern
<1>12. ScanEnds => m' = m \/ m' = Expanded(m)
  BY DEF ScanEnds
<1>. QED
  BY <1>1, <1>2, <1>3, <1>4, <1>5, <1>6, <1>7, <1>8, <1>9, <1>10, <1>11, <1>12 DEF ScanNext

LEMMA ManifestStarts == ScanInit => ManifestOk
<1> SUFFICES ASSUME ScanInit PROVE ManifestOk
  OBVIOUS
<1>1. DOMAIN m = ManifestFields
  BY DEF ScanInit, Blank, ManifestFields
<1>2. load = "scan" /\ "scan" # "loaded"
  BY DEF ScanInit
<1>. QED
  BY <1>1, <1>2, Zenon DEF ManifestOk

LEMMA ManifestSteps == ManifestOk /\ ScanNext => ManifestOk'
<1> SUFFICES ASSUME ManifestOk, ScanNext PROVE ManifestOk'
  OBVIOUS
<1>1. DOMAIN m' = ManifestFields
  BY FieldsScanned, ExpandedKeeps, Zenon DEF ManifestOk
<1>2. load = "scan" /\ "scan" # "loaded"
  BY LoadedStays
<1>3. load' = load \/ ScanEnds
  BY DEF ScanNext, SkipComment, ScanSection, ScanCapabilities, ScanTools, ScanInputs, ScanOutputs,
         ScanPermissions, ScanVerifier, ScanVerifierLine, ScanRedactionKey, ScanRedactionPattern,
         SkipLine, Advance
<1>4. ASSUME load' = "loaded" PROVE \A p \in Range(m'.patterns) : Compiles(p)
  <2>1. ScanEnds
    BY <1>2, <1>3, <1>4
  <2>2. "refused" # "loaded"
    OBVIOUS
  <2>3. (\A p \in Range(m.patterns) : Compiles(p)) /\ m' = Expanded(m)
    BY <1>4, <2>1, <2>2, Zenon DEF ScanEnds
  <2>4. m'.patterns = m.patterns
    BY <2>3, ExpandedKeeps, Zenon DEF ManifestOk
  <2>. QED
    BY <2>3, <2>4, Zenon
<1>. QED
  BY <1>1, <1>4, Zenon DEF ManifestOk, Compiles
-----------------------------------------------------------------------------
(* What each step of a run records.                                         *)

LEMMA SelectRecords ==
    ASSUME NEW a, Select(a)
    PROVE  /\ TraceOk(trace') /\ Len(trace'.events) = 1
           /\ trace'.events[1].name = "selection"
<1> DEFINE profile == adapter'.model_profile
           t == NewTrace(SkillName(m), profile)
           e == AdapterEvent("selection", "ok", Map(Leaves([skill |-> Word(t.skill)])),
                             Metadata(adapter'), Nil)
           f == [status |-> "", output |-> Nil, error |-> Word("")]
<1>1. trace' = [t EXCEPT !.events = <<e>>]
  BY Zenon DEF Select
<1>2. EventOk(e) /\ e.name = "selection"
  <2>1. Value(Map(Leaves([skill |-> Word(t.skill)]))) /\ Value(Metadata(adapter')) /\ ErrorOk(Nil)
    BY RunRequestsFit, MetadataFits, Zenon DEF ErrorOk
  <2>. QED
    <3>1. EventOk(e)
      BY <2>1, AdapterEventFits, Zenon
    <3>2. e.name = "selection"
      BY AdapterEventIs
    <3>. QED
      BY <3>1, <3>2
<1> HIDE DEF e
<1>3. DOMAIN t = {"run_id", "skill", "model_profile", "events", "final"} /\ t.final = f
  BY DEF NewTrace
<1>4. DOMAIN f = {"status", "output", "error"} /\ f.output = Nil /\ f.error = Word("")
  OBVIOUS
<1> HIDE DEF t, f
<1>5. /\ DOMAIN trace' = {"run_id", "skill", "model_profile", "events", "final"}
      /\ trace'.events = <<e>> /\ trace'.final = f
  BY <1>1, <1>3
<1>6. Sequence(<<e>>) /\ \A i \in DOMAIN <<e>> : EventOk(<<e>>[i])
  <2>1. \A i \in DOMAIN <<e>> : <<e>>[i] = e
    OBVIOUS
  <2>. QED
    BY <1>2, <2>1, ShortSequences, Zenon
<1>7. TraceOk(trace')
  <2>1. Value(f.output) /\ IsText(f.error)
    BY <1>4, NilValue, Scalars_, Zenon
  <2>. QED
    BY <1>4, <1>5, <1>6, <2>1, Zenon DEF TraceOk
<1>8. Len(trace'.events) = 1 /\ trace'.events[1] = e
  BY <1>5
<1>. QED
  BY <1>2, <1>7, <1>8, Zenon

LEMMA OneMore ==
    ASSUME NEW t, TraceOk(t), NEW e, EventOk(e)
    PROVE  LET u == [t EXCEPT !.events = Append(@, e)] IN
           TraceOk(u) /\ u.events = t.events \o <<e>>
<1>1. Append(t.events, e) = t.events \o <<e>>
  BY Appended, Zenon DEF TraceOk
<1>2. Sequence(<<e>>) /\ \A i \in DOMAIN <<e>> : EventOk(<<e>>[i])
  <2>1. \A i \in DOMAIN <<e>> : <<e>>[i] = e
    OBVIOUS
  <2>. QED
    BY <2>1, ShortSequences, Zenon
<1>3. [t EXCEPT !.events = Append(@, e)] = [t EXCEPT !.events = @ \o <<e>>]
  BY <1>1
<1>. QED
  BY <1>2, <1>3, TraceGrows

LEMMA PairsFit ==
    ASSUME NEW a, NEW b, EventOk(a), EventOk(b)
    PROVE  /\ Sequence(<<a>>) /\ Sequence(<<a, b>>)
           /\ \A i \in DOMAIN <<a>> : EventOk(<<a>>[i])
           /\ \A i \in DOMAIN <<a, b>> : EventOk(<<a, b>>[i])
<1>1. /\ \A i \in DOMAIN <<a>> : <<a>>[i] = a
      /\ \A i \in DOMAIN <<a, b>> : <<a, b>>[i] = a \/ <<a, b>>[i] = b
  OBVIOUS
<1>. QED
  BY <1>1, ShortSequences, Zenon

LEMMA ChecksFit ==
    /\ EventOk(CapabilityOk) /\ CapabilityOk.status = "ok"
    /\ EventOk(PolicyCheck("ok", Nil)) /\ PolicyCheck("ok", Nil).status = "ok"
    /\ \A message : IsText(message) =>
          LET e == CapabilityCheck("failed", Metadata(adapter),
                                   Failure("UnsupportedAdapter", message))
          IN /\ EventOk(e) /\ e.name = "capability_check" /\ e.status = "failed"
             /\ e.error = Failure("UnsupportedAdapter", message)
    /\ \A message : IsText(message) =>
          LET e == PolicyCheck("failed", Failure("PolicyViolation", message))
          IN /\ EventOk(e) /\ e.name = "policy_check" /\ e.status = "failed"
             /\ e.error = Failure("PolicyViolation", message)
<1>1. Value(CapabilityStruct(Requires(m))) /\ Value(CapabilityStruct(adapter.can))
      /\ Value(Metadata(adapter))
      /\ Value(Map(Leaves([skill |-> Word(SkillName(m)), network |-> Boolean(m.network)])))
      /\ Value(Map(Leaves([adapter |-> Word(adapter.name), transport |-> Word(adapter.transport)])))
  BY CapabilitiesFit, MetadataFits, RunRequestsFit, Zenon
<1>2. ErrorOk(Nil) /\ \A class, message : IsText(message) => ErrorOk(Failure(class, message))
  BY Zenon DEF ErrorOk
<1> DEFINE request == CapabilityStruct(Requires(m))
           can == CapabilityStruct(adapter.can)
           asked == Map(Leaves([skill |-> Word(SkillName(m)), network |-> Boolean(m.network)]))
           answer == Map(Leaves([adapter |-> Word(adapter.name),
                                 transport |-> Word(adapter.transport)]))
           metadata == Metadata(adapter)
<1>3. /\ CapabilityOk = AdapterEvent("capability_check", "ok", request, can, Nil)
      /\ PolicyCheck("ok", Nil) = AdapterEvent("policy_check", "ok", asked, answer, Nil)
      /\ \A error : CapabilityCheck("failed", metadata, error)
                       = AdapterEvent("capability_check", "failed", request, metadata, error)
      /\ \A error : PolicyCheck("failed", error)
                       = AdapterEvent("policy_check", "failed", asked, answer, error)
  BY Zenon DEF CapabilityOk, CapabilityCheck, PolicyCheck
<1>4. Value(request) /\ Value(can) /\ Value(asked) /\ Value(answer) /\ Value(metadata)
  BY <1>1
<1> HIDE DEF request, can, asked, answer, metadata
<1>5. EventOk(CapabilityOk) /\ CapabilityOk.status = "ok"
  <2>1. EventOk(CapabilityOk)
    BY <1>2, <1>3, <1>4, AdapterEventFits, Zenon
  <2>2. CapabilityOk.status = "ok"
    BY <1>3, AdapterEventIs
  <2>. QED
    BY <2>1, <2>2
<1>6. EventOk(PolicyCheck("ok", Nil)) /\ PolicyCheck("ok", Nil).status = "ok"
  <2>1. EventOk(PolicyCheck("ok", Nil))
    BY <1>2, <1>3, <1>4, AdapterEventFits, Zenon
  <2>2. PolicyCheck("ok", Nil).status = "ok"
    BY <1>3, AdapterEventIs
  <2>. QED
    BY <2>1, <2>2
<1>7. ASSUME NEW message, IsText(message), NEW error, error = Failure("UnsupportedAdapter", message)
      PROVE  LET e == CapabilityCheck("failed", metadata, error)
             IN /\ EventOk(e) /\ e.name = "capability_check" /\ e.status = "failed"
                /\ e.error = error
  <2> DEFINE e == AdapterEvent("capability_check", "failed", request, metadata, error)
  <2>1. EventOk(e)
    BY <1>2, <1>4, <1>7, AdapterEventFits, Zenon
  <2>2. e.name = "capability_check" /\ e.status = "failed" /\ e.error = error
    BY AdapterEventIs
  <2> HIDE DEF e
  <2>3. CapabilityCheck("failed", metadata, error) = e
    BY <1>3, Zenon DEF e
  <2>. QED
    BY <2>1, <2>2, <2>3
<1>8. ASSUME NEW message, IsText(message), NEW error, error = Failure("PolicyViolation", message)
      PROVE  LET e == PolicyCheck("failed", error)
             IN /\ EventOk(e) /\ e.name = "policy_check" /\ e.status = "failed"
                /\ e.error = error
  <2> DEFINE e == AdapterEvent("policy_check", "failed", asked, answer, error)
  <2>1. EventOk(e)
    BY <1>2, <1>4, <1>8, AdapterEventFits, Zenon
  <2>2. e.name = "policy_check" /\ e.status = "failed" /\ e.error = error
    BY AdapterEventIs
  <2> HIDE DEF e
  <2>3. PolicyCheck("failed", error) = e
    BY <1>3, Zenon DEF e
  <2>. QED
    BY <2>1, <2>2, <2>3
<1>9. ASSUME NEW message, IsText(message)
      PROVE  LET e == CapabilityCheck("failed", Metadata(adapter),
                                      Failure("UnsupportedAdapter", message))
             IN /\ EventOk(e) /\ e.name = "capability_check" /\ e.status = "failed"
                /\ e.error = Failure("UnsupportedAdapter", message)
  BY <1>7, <1>9, Zenon DEF metadata
<1>10. ASSUME NEW message, IsText(message)
       PROVE  LET e == PolicyCheck("failed", Failure("PolicyViolation", message))
              IN /\ EventOk(e) /\ e.name = "policy_check" /\ e.status = "failed"
                 /\ e.error = Failure("PolicyViolation", message)
  BY <1>8, <1>10, Zenon
<1>. QED
  BY <1>5, <1>6, <1>9, <1>10, Zenon

(* The preflight adds one event or two, and may end the run.                *)
LEMMA FailedRecords ==
    ASSUME NEW es, NEW message, Failed(es, message), TraceOk(trace), IsText(message),
           Sequence(es), \A i \in DOMAIN es : EventOk(es[i])
    PROVE  TraceOk(trace') /\ trace'.events = trace.events \o es
<1> DEFINE t == [trace EXCEPT !.events = @ \o es]
<1>1. trace' = Finished(t, "failed", Nil, message)
  BY Zenon DEF Failed
<1>2. TraceOk(t) /\ t.events = trace.events \o es
  BY TraceGrows, Zenon
<1> HIDE DEF t
<1>. QED
  BY <1>1, <1>2, TraceEnds, NilValue, Zenon

LEMMA ExecuteRecords ==
    ASSUME NEW output \in Answers, NEW status, NEW end, NEW error, ErrorOk(error),
           NEW message, IsText(message), TraceOk(trace),
           trace' = Finished(Record(AdapterEvent("execute", status, ExecuteRequest, output, error)),
                             end, output, message)
    PROVE  TraceOk(trace') /\ \E e : trace'.events = trace.events \o <<e>>
<1> DEFINE e == AdapterEvent("execute", status, ExecuteRequest, output, error)
<1>1. EventOk(e) /\ Value(output)
  BY RunRequestsFit, AnswersFit, AdapterEventFits, Zenon
<1> HIDE DEF e
<1>2. TraceOk(Record(e)) /\ Record(e).events = trace.events \o <<e>>
  BY <1>1, OneMore, Zenon DEF Record
<1>3. trace' = Finished(Record(e), end, output, message)
  BY DEF e
<1> DEFINE u == Record(e)
<1>4. TraceOk(Finished(u, end, output, message))
      /\ Finished(u, end, output, message).events = u.events
  BY <1>1, <1>2, TraceEnds, Zenon
<1>5. trace' = Finished(u, end, output, message)
  BY <1>3
<1> HIDE DEF u
<1>6. TraceOk(trace') /\ trace'.events = u.events
  BY <1>4, <1>5, Zenon
<1>7. trace'.events = trace.events \o <<e>>
  BY <1>2, <1>6, Zenon DEF u
<1>. QED
  BY <1>6, <1>7, Zenon

LEMMA VerifiedRecords ==
    ASSUME NEW status, NEW stdout, Verified(status, stdout), IsText(stdout), TraceOk(trace)
    PROVE  TraceOk(trace') /\ \E e : trace'.events = trace.events \o <<e>>
<1> DEFINE v == m.verifiers[1]
           e == VerifierEvent(v.name[1], status, Map(Leaves([type |-> Word(v.type[1])])), stdout)
           output == trace.final.output
           message == IF status = "passed" THEN Word("") ELSE Word("verifier failed")
<1>1. trace' = Finished(Record(e), status, output, message)
  BY Zenon DEF Verified
<1>2. EventOk(e)
  BY RunRequestsFit, VerifierEventFits, Zenon
<1>3. Value(output)
  BY Zenon DEF TraceOk
<1>4. IsText(message)
  BY Scalars_, Zenon
<1> HIDE DEF e, output, message
<1>5. TraceOk(Record(e)) /\ Record(e).events = trace.events \o <<e>>
  BY <1>2, OneMore, Zenon DEF Record
<1>. QED
  BY <1>1, <1>3, <1>4, <1>5, TraceEnds, Zenon
-----------------------------------------------------------------------------
(* A run of a loaded manifest: its trace is well made, and the file is what *)
(* redaction leaves of it.                                                  *)
RunInv ==
    /\ ManifestOk
    /\ stage \in {"manifest", "preflight", "execute", "verify", "final", "written"}
    /\ stage # "manifest" => load = "loaded" /\ TraceOk(trace)
    /\ stage = "written" => file = Sanitized(trace, Config_)
    /\ stage # "written" => file = Null

LEMMA RunStarts == Init => RunInv
<1> SUFFICES ASSUME Init PROVE RunInv
  OBVIOUS
<1>1. ManifestOk
  BY ManifestStarts DEF Init
<1>2. stage = "manifest" /\ file = Null
  BY DEF Init
<1>3. "manifest" # "written"
  OBVIOUS
<1>. QED
  BY <1>1, <1>2, <1>3, Zenon DEF RunInv

(* Once the manifest is loaded it stays, and so does the document.          *)
LEMMA ScannerRests ==
    ASSUME RunInv, stage # "manifest" \/ load = "loaded", Next
    PROVE  UNCHANGED scanner
<1>1. load = "loaded" /\ "loaded" # "scan"
  BY Zenon DEF RunInv
<1>2. ~Load
  BY <1>1, LoadedStays DEF Load
<1>. QED
  BY <1>2, LoadOrNot

(* A manifest that loaded never makes redaction fail.                       *)
LEMMA PatternsIndexable == ManifestOk /\ load = "loaded" => Indexable
BY DEF ManifestOk, Indexable, Compiles

LEMMA RunSteps == RunInv /\ Next => RunInv'
<1> SUFFICES ASSUME RunInv, Next PROVE RunInv'
  OBVIOUS
<1> USE DEF RunInv
<1>1. ASSUME Load PROVE RunInv'
  <2>1. stage = "manifest"
    BY <1>1, LoadedStays DEF Load
  <2>2. ManifestOk'
    BY <1>1, ManifestSteps DEF Load
  <2>3. stage' = stage /\ file' = file /\ "manifest" # "written"
    BY <1>1 DEF Load
  <2>. QED
    BY <2>1, <2>2, <2>3, Zenon
<1>2. ASSUME ~Load
      PROVE  ManifestOk' /\ load' = load /\ m' = m /\ Config_' = Config_
  <2>1. UNCHANGED scanner
    BY <1>2, LoadOrNot
  <2>. QED
    BY <2>1 DEF scanner, ManifestOk, Config_, Compiles
<1>3. ASSUME ~Load, load = "loaded", TraceOk(trace'), file' = file, file = Null, stage' # "written",
             stage' \in {"preflight", "execute", "verify", "final"}
      PROVE  RunInv'
  <2>1. stage' \in {"manifest", "preflight", "execute", "verify", "final", "written"}
    BY <1>3
  <2>2. "loaded" = "loaded" /\ TraceOk(trace)'
    BY <1>3 DEF TraceOk, EventOk, ErrorOk, Value, Sequence, IsText
  <2>. QED
    BY <1>2, <1>3, <2>1, <2>2, Zenon
<1>4. /\ "preflight" # "written" /\ "execute" # "written" /\ "verify" # "written"
      /\ "final" # "written" /\ "manifest" # "written"
      /\ "preflight" # "manifest" /\ "execute" # "manifest" /\ "verify" # "manifest"
      /\ "final" # "manifest" /\ "written" # "manifest" /\ "loaded" # "scan" /\ "loaded" # "refused"
  OBVIOUS
<1>5. load = "loaded" => ~Load
  BY <1>4, LoadedStays DEF Load
<1>6. ASSUME NEW a, Select(a) PROVE RunInv'
  <2>1. load = "loaded" /\ stage = "manifest" /\ file' = file /\ stage' = "preflight"
    BY <1>6, Zenon DEF Select
  <2>. QED
    BY <1>3, <1>4, <1>5, <1>6, <2>1, SelectRecords
<1>7. ASSUME NEW es, NEW message, Failed(es, message), stage = "preflight", IsText(message),
             Sequence(es), \A i \in DOMAIN es : EventOk(es[i])
      PROVE  RunInv'
  <2>1. stage' = "final" /\ file' = file
    BY <1>7, Zenon DEF Failed
  <2>2. TraceOk(trace')
    BY <1>4, <1>7, FailedRecords, Zenon
  <2>. QED
    BY <1>3, <1>4, <1>5, <1>7, <2>1, <2>2
<1>8. ASSUME NEW text \in Texts, RefuseUnsupported(text) \/ RefuseForbidden(text) \/ ScopeFails(text)
      PROVE  RunInv'
  <2>1. IsText(text)
    BY TextsAreTexts
  <2>2. CASE RefuseUnsupported(text)
    BY <1>7, <2>1, <2>2, ChecksFit, PairsFit, Zenon DEF RefuseUnsupported
  <2>3. CASE RefuseForbidden(text)
    BY <1>7, <2>1, <2>3, ChecksFit, PairsFit, Zenon DEF RefuseForbidden
  <2>4. CASE ScopeFails(text)
    BY <1>7, <2>1, <2>4, ChecksFit, PairsFit, Zenon DEF ScopeFails
  <2>. QED
    BY <1>8, <2>2, <2>3, <2>4
<1>9. ASSUME Admit PROVE RunInv'
  <2>1. stage = "preflight" /\ stage' = "execute" /\ file' = file
        /\ trace' = [trace EXCEPT !.events = @ \o <<CapabilityOk, PolicyCheck("ok", Nil)>>]
    BY <1>9, Zenon DEF Admit
  <2>2. TraceOk(trace')
    BY <1>4, <2>1, TraceGrows, ChecksFit, PairsFit, Zenon
  <2>. QED
    BY <1>3, <1>4, <1>5, <2>1, <2>2
<1>10. ASSUME NEW e \in ToolEvents, CallTool(e) PROVE RunInv'
  <2>1. stage = "execute" /\ stage' = stage /\ file' = file /\ trace' = Record(e)
    BY <1>10, Zenon DEF CallTool
  <2>2. TraceOk(trace')
    BY <1>4, <2>1, OneMore, ToolEventsFit, Zenon DEF Record
  <2>. QED
    BY <1>3, <1>4, <1>5, <2>1, <2>2
<1>11. ASSUME NEW v \in Answers, Execute(v) PROVE RunInv'
  <2>1. stage = "execute" /\ stage' = "verify" /\ file' = file
        /\ trace' = Finished(Record(AdapterEvent("execute", "ok", ExecuteRequest, v, Nil)),
                             "", v, Word(""))
    BY <1>11, Zenon DEF Execute
  <2>2. ErrorOk(Nil) /\ IsText(Word(""))
    BY Scalars_, Zenon DEF ErrorOk
  <2>3. TraceOk(trace')
    BY <1>4, <2>1, <2>2, ExecuteRecords, Zenon
  <2>. QED
    BY <1>3, <1>4, <1>5, <2>1, <2>3
<1>12. ASSUME NEW v \in Answers, NEW text \in Texts, ExecuteFails(v, text) PROVE RunInv'
  <2>1. stage = "execute" /\ stage' = "final" /\ file' = file
        /\ trace' = Finished(Record(AdapterEvent("execute", "failed", ExecuteRequest, v,
                                                 Failure("DriverError", text))),
                             "failed", v, text)
    BY <1>12, Zenon DEF ExecuteFails
  <2>2. ErrorOk(Failure("DriverError", text)) /\ IsText(text)
    BY TextsAreTexts, Zenon DEF ErrorOk
  <2>3. TraceOk(trace')
    BY <1>4, <2>1, <2>2, ExecuteRecords, Zenon
  <2>. QED
    BY <1>3, <1>4, <1>5, <2>1, <2>3
<1>13. ASSUME NEW status, NEW stdout, Verified(status, stdout), IsText(stdout) PROVE RunInv'
  <2>1. stage = "verify" /\ stage' = "final" /\ file' = file
    BY <1>13, Zenon DEF Verified
  <2>2. TraceOk(trace')
    BY <1>4, <1>13, <2>1, VerifiedRecords, Zenon
  <2>. QED
    BY <1>3, <1>4, <1>5, <2>1, <2>2
<1>14. ASSUME WriteTrace PROVE RunInv'
  <2>1. stage = "final" /\ load = "loaded" /\ TraceOk(trace)
    BY <1>4, <1>14, Zenon DEF WriteTrace
  <2>2. Indexable
    BY <2>1, PatternsIndexable
  <2>3. file' = Sanitized(trace, Config_) /\ stage' = "written" /\ trace' = trace
    BY <1>14, <2>2 DEF WriteTrace
  <2>4. file' = Sanitized(trace', Config_')
    BY <1>2, <1>5, <2>1, <2>3
  <2>5. TraceOk(trace)'
    BY <2>1, <2>3 DEF TraceOk, EventOk, ErrorOk, Value, Sequence, IsText
  <2>. QED
    BY <1>2, <1>4, <1>5, <2>1, <2>3, <2>4, <2>5, Zenon
<1>15. ASSUME ReportRefusal \/ ReportRun PROVE RunInv'
  <2>1. UNCHANGED <<scanner, stage, trace, file>>
    BY <1>15 DEF ReportRefusal, ReportRun
  <2>. QED
    BY <2>1 DEF scanner, ManifestOk, Config_, Compiles, TraceOk, EventOk, ErrorOk, Value, Sequence,
                IsText, Sanitized
<1>16. IsText(Word("1 passed")) /\ \A text \in Texts : IsText(text)
  BY Scalars_, TextsAreTexts
<1>. QED
  BY <1>1, <1>6, <1>8, <1>9, <1>10, <1>11, <1>12, <1>13, <1>14, <1>15, <1>16, Zenon DEF Next

LEMMA RunRests == RunInv /\ UNCHANGED vars => RunInv'
BY DEF RunInv, vars, scanner, ManifestOk, Config_, Compiles, TraceOk, EventOk, ErrorOk, Value,
       Sequence, IsText, Sanitized

LEMMA RunHolds == Spec => []RunInv
BY RunStarts, RunSteps, RunRests, PTL DEF Spec
-----------------------------------------------------------------------------
(* What redaction leaves of an event, and of a trace.                       *)

LEMMA SanitizedEventIs ==
    ASSUME NEW e, EventOk(e), NEW config
    PROVE  LET f == SanitizedEvent(e, config) IN
           /\ f.request = RedactValue(e.request, config)
           /\ f.result = RedactValue(e.result, config)
           /\ f.error = RedactValue(e.error, config)
           /\ f.stdout = RedactText(e.stdout, config)
           /\ f.stderr = RedactText(e.stderr, config)
<1> DEFINE a == RedactValue(e.request, config)
           b == RedactValue(e.result, config)
           c == RedactValue(e.error, config)
           o == RedactText(e.stdout, config)
           r == RedactText(e.stderr, config)
           f == SanitizedEvent(e, config)
<1>1. f = [e EXCEPT !.request = a, !.result = b, !.error = c, !.stdout = o, !.stderr = r]
  BY Zenon DEF SanitizedEvent
<1>2. DOMAIN e = {"type", "name", "status", "request", "result", "error", "stdout", "stderr"}
  BY DEF EventOk
<1> HIDE DEF a, b, c, o, r, f
<1>3. f.request = a /\ f.result = b /\ f.error = c /\ f.stdout = o /\ f.stderr = r
  BY <1>1, <1>2
<1>. QED
  BY <1>3 DEF a, b, c, o, r, f

LEMMA SanitizedIs ==
    ASSUME NEW t, TraceOk(t), NEW config
    PROVE  LET u == Sanitized(t, config) IN
           /\ DOMAIN u.events = DOMAIN t.events
           /\ \A i \in DOMAIN t.events : u.events[i] = SanitizedEvent(t.events[i], config)
           /\ u.final.output = RedactValue(t.final.output, config)
           /\ u.final.error = RedactText(t.final.error, config)
<1> DEFINE es == [i \in DOMAIN t.events |-> SanitizedEvent(t.events[i], config)]
           o == RedactValue(t.final.output, config)
           x == RedactText(t.final.error, config)
           u == Sanitized(t, config)
<1>1. u = [t EXCEPT !.events = es, !.final.output = o, !.final.error = x]
  BY Zenon DEF Sanitized
<1>2. DOMAIN t = {"run_id", "skill", "model_profile", "events", "final"}
      /\ DOMAIN t.final = {"status", "output", "error"}
  BY DEF TraceOk
<1>3. DOMAIN es = DOMAIN t.events
      /\ \A i \in DOMAIN t.events : es[i] = SanitizedEvent(t.events[i], config)
  BY Zenon
<1> HIDE DEF es, o, x, u
<1>4. u.events = es /\ u.final.output = o /\ u.final.error = x
  BY <1>1, <1>2
<1>. QED
  BY <1>3, <1>4, Zenon DEF o, x, u

LEMMA ConfigIs ==
    Config_ = [keys |-> DefaultKeys \union {Normal[k[1]] : k \in Range(m.keys)},
               patterns |-> DefaultPatterns \o [i \in DOMAIN m.patterns |-> m.patterns[i].regex]]
<1>1. {Normal[k] : k \in {k[1] : k \in Range(m.keys)}} = {Normal[k[1]] : k \in Range(m.keys)}
  OBVIOUS
<1>. QED
  BY <1>1, Zenon DEF Config_, Config
-----------------------------------------------------------------------------
(* The preflight.                                                           *)

Refusal(e) == e.name \in {"capability_check", "policy_check"} /\ e.status = "failed"

LEMMA SelectionIsNoRefusal ==
    ASSUME NEW s, Sequence(s), Len(s) = 1, s[1].name = "selection", NEW es, Sequence(es)
    PROVE  {e \in Range(s \o es) : Refusal(e)} = {e \in Range(es) : Refusal(e)}
<1>1. ~Refusal(s[1])
  BY DEF Refusal
<1>2. DOMAIN s = {1}
  <2>1. DOMAIN s = 1..Len(s)
    BY Joined
  <2>. QED
    BY <2>1
<1>3. ASSUME NEW e \in Range(s \o es), Refusal(e) PROVE e \in Range(es)
  <2>1. PICK i \in DOMAIN (s \o es) : e = (s \o es)[i]
    BY DEF Range
  <2>2. (\E j \in DOMAIN s : (s \o es)[i] = s[j]) \/ (\E j \in DOMAIN es : (s \o es)[i] = es[j])
    BY JoinedFrom
  <2>3. ~\E j \in DOMAIN s : (s \o es)[i] = s[j]
    <3> SUFFICES ASSUME NEW j \in DOMAIN s, (s \o es)[i] = s[j] PROVE FALSE
      OBVIOUS
    <3>1. j = 1
      BY <1>2
    <3>2. e = s[1]
      BY <2>1, <3>1
    <3>. QED
      BY <1>1, <1>3, <3>2, Zenon
  <2>. QED
    BY <2>1, <2>2, <2>3 DEF Range
<1>4. ASSUME NEW e \in Range(es) PROVE e \in Range(s \o es)
  <2>1. PICK i \in DOMAIN es : e = es[i]
    BY DEF Range
  <2>2. Len(s) + i \in DOMAIN (s \o es) /\ (s \o es)[Len(s) + i] = es[i]
    BY JoinedTail, Zenon
  <2>. QED
    BY <2>1, <2>2 DEF Range
<1>. QED
  BY <1>3, <1>4, Zenon

LEMMA ShortRanges == \A a, b : Range(<<a>>) = {a} /\ Range(<<a, b>>) = {a, b}
BY DEF Range

LEMMA RefusedClassIs ==
    ASSUME NEW t
    PROVE  /\ {e \in Range(t.events) : Refusal(e)} = {} => RefusedClass(t) = ""
           /\ \A x, class, message :
                 {e \in Range(t.events) : Refusal(e)} = {x} /\ x.error = Failure(class, message)
                 /\ IsText(message) => RefusedClass(t) = class
<1> DEFINE refusals == {e \in Range(t.events) : Refusal(e)}
<1>1. RefusedClass(t) = IF refusals = {} THEN "" ELSE ErrorClass(CHOOSE e \in refusals : TRUE)
  BY Zenon DEF RefusedClass, Refusal
<1> HIDE DEF refusals
<1>2. ASSUME NEW x, NEW class, NEW message, refusals = {x}, x.error = Failure(class, message),
             IsText(message)
      PROVE  RefusedClass(t) = class
  <2>1. (CHOOSE e \in refusals : TRUE) = x /\ refusals # {}
    BY <1>2
  <2>2. <<"class">> \in DOMAIN x.error /\ x.error[<<"class">>] = Word(class)
    BY <1>2, FailureValue, Zenon
  <2>3. Word(class).word = class
    BY Scalars_
  <2>4. ErrorClass(x) = class
    BY <2>2, <2>3, Zenon DEF ErrorClass
  <2>. QED
    BY <1>1, <2>1, <2>4, Zenon
<1>3. refusals = {} => RefusedClass(t) = ""
  BY <1>1, Zenon
<1>. QED
  BY <1>2, <1>3, Zenon DEF refusals

(* The adapters have a number of tokens.                                    *)
AdapterOk(a) == a.can.max_context_tokens \in Int

LEMMA NormalizedKeeps ==
    ASSUME NEW a, {"can", "skills"} \subseteq DOMAIN a
    PROVE  Normalized(a).can = a.can /\ Normalized(a).skills = a.skills
<1> DEFINE profile == IF a.model_profile = "" THEN "fake-scripted" ELSE a.model_profile
           name == IF a.name = "" THEN profile ELSE a.name
           transport == Transport(a.transport)
<1>1. Normalized(a) = [a EXCEPT !.model_profile = profile, !.name = name, !.transport = transport]
  BY Zenon DEF Normalized
<1> HIDE DEF profile, name, transport
<1>. QED
  BY <1>1

LEMMA AdaptersOk == \A a \in Range(BuiltinAdapters) \union Custom : AdapterOk(Normalized(a))
<1>1. ASSUME NEW a \in Custom PROVE AdapterOk(Normalized(a))
  <2>1. a \in AdapterType
    BY CustomAssumption
  <2>2. {"can", "skills"} \subseteq DOMAIN a /\ a.can.max_context_tokens \in Int
    BY <2>1 DEF AdapterType, CanType
  <2>. QED
    BY <2>2, NormalizedKeeps, Zenon DEF AdapterOk
<1>2. Large.max_context_tokens = 32000 /\ Small.max_context_tokens = 4000
  BY DEF Large, Small
<1>3. ASSUME NEW name, NEW skills, NEW can
      PROVE  {"can", "skills"} \subseteq DOMAIN Local(name, skills, can)
             /\ Local(name, skills, can).can = can
  BY DEF Local
<1>4. {"can", "skills"} \subseteq DOMAIN OpenAI /\ OpenAI.can = Large
  BY DEF OpenAI
<1>5. ASSUME NEW a, {"can", "skills"} \subseteq DOMAIN a, a.can = Large \/ a.can = Small
      PROVE  AdapterOk(Normalized(a))
  <2>1. a.can.max_context_tokens \in Int
    BY <1>2, <1>5
  <2>. QED
    BY <1>5, <2>1, NormalizedKeeps, Zenon DEF AdapterOk
<1>6. AdapterOk(Normalized(FakeScripted)) /\ AdapterOk(Normalized(Heuristic))
      /\ AdapterOk(Normalized(OpenAI)) /\ AdapterOk(Normalized(PythonPytest))
      /\ AdapterOk(Normalized(RepoFix))
  <2>1. ASSUME NEW name, NEW skills, NEW can, can = Large \/ can = Small
        PROVE  AdapterOk(Normalized(Local(name, skills, can)))
    BY <1>3, <1>5, <2>1, Zenon
  <2>2. AdapterOk(Normalized(FakeScripted))
    BY <2>1, Zenon DEF FakeScripted
  <2>3. AdapterOk(Normalized(Heuristic))
    BY <2>1, Zenon DEF Heuristic
  <2>4. AdapterOk(Normalized(OpenAI))
    BY <1>4, <1>5, Zenon
  <2>5. AdapterOk(Normalized(PythonPytest)) /\ AdapterOk(Normalized(RepoFix))
    BY <2>1, Zenon DEF PythonPytest, RepoFix
  <2>. QED
    BY <2>2, <2>3, <2>4, <2>5
<1>7. \A a, b, c, d, e : Range(<<a, b, c, d, e>>) = {a, b, c, d, e}
  BY DEF Range
<1>8. Range(BuiltinAdapters) = {FakeScripted, Heuristic, OpenAI, PythonPytest, RepoFix}
  BY <1>7 DEF BuiltinAdapters
<1>9. ASSUME NEW a \in Range(BuiltinAdapters) PROVE AdapterOk(Normalized(a))
  <2>1. a = FakeScripted \/ a = Heuristic \/ a = OpenAI \/ a = PythonPytest \/ a = RepoFix
    BY <1>8, <1>9, Zenon
  <2>. QED
    BY <1>6, <2>1, Zenon
<1>. QED
  BY <1>1, <1>9
LEMMA ClassOf ==
    ASSUME NEW n, NEW a
    PROVE  /\ Unsupported(n, a) => ForetoldClass(n, a) = "UnsupportedAdapter"
           /\ ~Unsupported(n, a) /\ Forbidden(n, a) => ForetoldClass(n, a) = "PolicyViolation"
           /\ ~Unsupported(n, a) /\ ~Forbidden(n, a) <=> ForetoldClass(n, a) = ""
<1>1. "UnsupportedAdapter" # "" /\ "PolicyViolation" # ""
  OBVIOUS
<1>2. Unsupported(n, a) => ForetoldClass(n, a) = "UnsupportedAdapter"
  BY Zenon DEF ForetoldClass
<1>3. ~Unsupported(n, a) /\ Forbidden(n, a) => ForetoldClass(n, a) = "PolicyViolation"
  BY Zenon DEF ForetoldClass
<1>4. ~Unsupported(n, a) /\ ~Forbidden(n, a) => ForetoldClass(n, a) = ""
  BY Zenon DEF ForetoldClass
<1>. QED
  BY <1>1, <1>2, <1>3, <1>4, Zenon

(* Until an adapter runs, the trace refuses it exactly as the report        *)
(* foretells.                                                               *)
ForetoldInv ==
    /\ stage # "manifest" => AdapterOk(adapter)
    /\ stage = "preflight" => Len(trace.events) = 1 /\ trace.events[1].name = "selection"
    /\ stage \in {"execute", "verify"} => Len(trace.events) >= 3
    /\ stage \in {"execute", "final"} /\ Len(trace.events) <= 3 =>
          RefusedClass(trace) = ForetoldClass(m, adapter)

(* What the preflight adds to the trace decides the class.                  *)
LEMMA PreflightDecides ==
    ASSUME RunInv, ForetoldInv, stage = "preflight", NEW es, Sequence(es), Len(es) \in {1, 2},
           trace'.events = trace.events \o es
    PROVE  /\ Len(trace'.events) = Len(es) + 1
           /\ {e \in Range(trace'.events) : Refusal(e)} = {e \in Range(es) : Refusal(e)}
<1>1. Sequence(trace.events) /\ Len(trace.events) = 1 /\ trace.events[1].name = "selection"
  <2>1. "preflight" # "manifest"
    OBVIOUS
  <2>. QED
    BY <2>1, Zenon DEF RunInv, TraceOk, ForetoldInv
<1>2. Len(trace.events \o es) = Len(trace.events) + Len(es)
  BY <1>1, Joined
<1>. QED
  BY <1>1, <1>2, SelectionIsNoRefusal

LEMMA NoRefusals ==
    /\ {e \in Range(<<CapabilityOk, PolicyCheck("ok", Nil)>>) : Refusal(e)} = {}
    /\ \A b : Refusal(b) => {e \in Range(<<CapabilityOk, b>>) : Refusal(e)} = {b}
    /\ \A b : Refusal(b) => {e \in Range(<<b>>) : Refusal(e)} = {b}
<1>1. ~Refusal(CapabilityOk) /\ ~Refusal(PolicyCheck("ok", Nil))
  <2>1. "ok" # "failed"
    OBVIOUS
  <2>. QED
    BY <2>1, ChecksFit, Zenon DEF Refusal
<1> DEFINE a == CapabilityOk
           c == PolicyCheck("ok", Nil)
<1>2. ~Refusal(a) /\ ~Refusal(c)
  BY <1>1
<1> HIDE DEF a, c
<1>3. \A b : Range(<<a, b>>) = {a, b} /\ Range(<<b>>) = {b}
  BY ShortRanges, Zenon
<1>4. {e \in {a, c} : Refusal(e)} = {}
  BY <1>2, Zenon
<1>5. \A b : Refusal(b) => {e \in {a, b} : Refusal(e)} = {b} /\ {e \in {b} : Refusal(e)} = {b}
  BY <1>2, Zenon
<1>6. {e \in Range(<<a, c>>) : Refusal(e)} = {}
  BY <1>3, <1>4
<1>7. \A b : Refusal(b) => {e \in Range(<<a, b>>) : Refusal(e)} = {b}
  BY <1>3, <1>5
<1>8. \A b : Refusal(b) => {e \in Range(<<b>>) : Refusal(e)} = {b}
  BY <1>3, <1>5
<1>. QED
  BY <1>6, <1>7, <1>8 DEF a, c

LEMMA RefusalsRecorded ==
    ASSUME RunInv, ForetoldInv, NEW text, IsText(text)
    PROVE  /\ RefuseUnsupported(text) \/ RefuseForbidden(text) \/ ScopeFails(text) =>
                 RefusedClass(trace') = ForetoldClass(m, adapter)
           /\ Admit => Len(trace'.events) = 3 /\ RefusedClass(trace') = ForetoldClass(m, adapter)
<1>1. "preflight" # "manifest"
  OBVIOUS
<1>2. stage = "preflight" => TraceOk(trace)
  BY <1>1, Zenon DEF RunInv
<1>3. ASSUME RefuseUnsupported(text)
      PROVE  RefusedClass(trace') = ForetoldClass(m, adapter)
  <2> DEFINE x == CapabilityCheck("failed", Metadata(adapter), Failure("UnsupportedAdapter", text))
  <2>1. /\ EventOk(x) /\ x.name = "capability_check" /\ x.status = "failed"
        /\ x.error = Failure("UnsupportedAdapter", text)
    BY ChecksFit, Zenon
  <2>2. stage = "preflight" /\ Unsupported(m, adapter) /\ Failed(<<x>>, text)
    BY <1>3, Zenon DEF RefuseUnsupported
  <2> HIDE DEF x
  <2>3. Refusal(x)
    BY <2>1 DEF Refusal
  <2>4. Sequence(<<x>>) /\ Len(<<x>>) \in {1, 2}
    BY ShortSequences
  <2>5. trace'.events = trace.events \o <<x>>
    BY <1>2, <2>1, <2>2, PairsFit, FailedRecords, Zenon
  <2>6. {e \in Range(trace'.events) : Refusal(e)} = {x}
    BY <2>2, <2>3, <2>4, <2>5, PreflightDecides, NoRefusals, Zenon
  <2>7. RefusedClass(trace') = "UnsupportedAdapter"
    BY <2>1, <2>6, RefusedClassIs, Zenon
  <2>. QED
    BY <2>2, <2>7, ClassOf, Zenon
<1>4. ASSUME RefuseForbidden(text)
      PROVE  RefusedClass(trace') = ForetoldClass(m, adapter)
  <2> DEFINE x == PolicyCheck("failed", Failure("PolicyViolation", text))
  <2>1. /\ EventOk(x) /\ x.name = "policy_check" /\ x.status = "failed"
        /\ x.error = Failure("PolicyViolation", text)
    BY ChecksFit, Zenon
  <2>2. stage = "preflight" /\ ~Unsupported(m, adapter) /\ Forbidden(m, adapter)
        /\ Failed(<<CapabilityOk, x>>, text)
    BY <1>4, Zenon DEF RefuseForbidden
  <2> HIDE DEF x
  <2>3. Refusal(x)
    BY <2>1 DEF Refusal
  <2>4. Sequence(<<CapabilityOk, x>>) /\ Len(<<CapabilityOk, x>>) \in {1, 2}
    BY ShortSequences
  <2>5. trace'.events = trace.events \o <<CapabilityOk, x>>
    BY <1>2, <2>1, <2>2, ChecksFit, PairsFit, FailedRecords, Zenon
  <2>6. {e \in Range(trace'.events) : Refusal(e)} = {x}
    BY <2>2, <2>3, <2>4, <2>5, PreflightDecides, NoRefusals, Zenon
  <2>7. RefusedClass(trace') = "PolicyViolation"
    BY <2>1, <2>6, RefusedClassIs, Zenon
  <2>. QED
    BY <2>2, <2>7, ClassOf, Zenon
<1> DEFINE es == <<CapabilityOk, PolicyCheck("ok", Nil)>>
<1>5. Sequence(es) /\ Len(es) = 2 /\ (\A i \in DOMAIN es : EventOk(es[i]))
  BY ShortSequences, ChecksFit, PairsFit, Zenon
<1>6. {e \in Range(es) : Refusal(e)} = {}
  BY NoRefusals
<1>7. ASSUME ScopeFails(text) \/ Admit
      PROVE  stage = "preflight" /\ ~Unsupported(m, adapter) /\ ~Forbidden(m, adapter)
             /\ trace'.events = trace.events \o es
  <2>1. CASE ScopeFails(text)
    BY <1>2, <1>5, <2>1, FailedRecords, Zenon DEF ScopeFails
  <2>2. CASE Admit
    <3>1. stage = "preflight" /\ ~Unsupported(m, adapter) /\ ~Forbidden(m, adapter)
          /\ trace' = [trace EXCEPT !.events = @ \o es]
      BY <2>2, Zenon DEF Admit
    <3>2. trace'.events = trace.events \o es
      BY <1>2, <1>5, <3>1, TraceGrows, Zenon
    <3>. QED
      BY <3>1, <3>2
  <2>. QED
    BY <1>7, <2>1, <2>2
<1> HIDE DEF es
<1>8. ASSUME ScopeFails(text) \/ Admit
      PROVE  RefusedClass(trace') = ForetoldClass(m, adapter) /\ Len(trace'.events) = 3
  <2>1. Len(es) \in {1, 2}
    BY <1>5
  <2>2. Len(trace'.events) = Len(es) + 1
        /\ {e \in Range(trace'.events) : Refusal(e)} = {}
    BY <1>5, <1>6, <1>7, <1>8, <2>1, PreflightDecides, Zenon
  <2>3. RefusedClass(trace') = ""
    BY <2>2, RefusedClassIs, Zenon
  <2>4. ForetoldClass(m, adapter) = ""
    BY <1>7, <1>8, ClassOf, Zenon
  <2>5. Len(trace'.events) = 3
    BY <1>5, <2>2
  <2>. QED
    BY <2>3, <2>4, <2>5, Zenon
<1>. QED
  BY <1>3, <1>4, <1>8, Zenon
LEMMA ForetoldSteps == RunInv /\ ForetoldInv /\ Next => ForetoldInv'
<1> SUFFICES ASSUME RunInv, ForetoldInv, Next PROVE ForetoldInv'
  OBVIOUS
<1>1. /\ "preflight" # "manifest" /\ "preflight" # "execute" /\ "preflight" # "verify"
      /\ "preflight" # "final" /\ "preflight" # "written" /\ "manifest" # "execute"
      /\ "manifest" # "verify" /\ "manifest" # "final" /\ "final" # "execute"
      /\ "final" # "verify" /\ "verify" # "execute" /\ "written" # "execute" /\ "written" # "final"
      /\ "written" # "verify" /\ "loaded" # "scan"
  OBVIOUS
<1>2. stage # "manifest" => load = "loaded" /\ TraceOk(trace) /\ AdapterOk(adapter)
  BY Zenon DEF RunInv, ForetoldInv
<1>3. stage # "manifest" \/ load = "loaded" => m' = m
  BY ScannerRests DEF scanner
<1>4. ASSUME stage # "manifest", adapter' = adapter, stage' \in {"execute", "verify", "final"},
             Len(trace'.events) >= 4
      PROVE  ForetoldInv'
  <2>1. ~(Len(trace'.events) <= 3) /\ Len(trace'.events) >= 3
    <3>1. Len(trace'.events) \in Int
      BY <1>4
    <3>. QED
      BY <1>4, <3>1
  <2>2. stage' # "preflight" /\ AdapterOk(adapter')
    BY <1>1, <1>2, <1>4, Zenon
  <2>. QED
    BY <2>1, <2>2, Zenon DEF ForetoldInv, AdapterOk
<1>5. ASSUME Load PROVE ForetoldInv'
  <2>1. stage = "manifest" /\ UNCHANGED <<stage, adapter, trace, file, report>>
    BY <1>2, <1>1, <1>5, LoadedStays DEF Load
  <2>. QED
    BY <1>1, <2>1, Zenon DEF ForetoldInv
<1>6. ASSUME NEW a \in Range(BuiltinAdapters) \union Custom, Select(a) PROVE ForetoldInv'
  <2>1. adapter' = Normalized(a) /\ stage' = "preflight"
    BY <1>6, Zenon DEF Select
  <2>2. AdapterOk(adapter')
    BY <2>1, AdaptersOk, Zenon
  <2>3. Len(trace'.events) = 1 /\ trace'.events[1].name = "selection"
    BY <1>6, SelectRecords, Zenon
  <2>. QED
    BY <1>1, <2>1, <2>2, <2>3, Zenon DEF ForetoldInv, AdapterOk
<1>7. ASSUME NEW text \in Texts, RefuseUnsupported(text) \/ RefuseForbidden(text) \/ ScopeFails(text)
      PROVE  ForetoldInv'
  <2>1. stage = "preflight" /\ stage' = "final" /\ adapter' = adapter
    BY <1>7, Zenon DEF RefuseUnsupported, RefuseForbidden, ScopeFails, Failed
  <2>2. IsText(text)
    BY TextsAreTexts
  <2>3. RefusedClass(trace') = ForetoldClass(m, adapter)
    BY <1>7, <2>2, RefusalsRecorded
  <2>4. RefusedClass(trace') = ForetoldClass(m', adapter')
    BY <1>1, <1>3, <2>1, <2>3
  <2>. QED
    BY <1>1, <1>2, <2>1, <2>4, Zenon DEF ForetoldInv, AdapterOk
<1>8. ASSUME Admit PROVE ForetoldInv'
  <2>1. stage = "preflight" /\ stage' = "execute" /\ adapter' = adapter
    BY <1>8, Zenon DEF Admit
  <2>2. Len(trace'.events) = 3 /\ RefusedClass(trace') = ForetoldClass(m, adapter)
    <3>1. \E text : IsText(text)
      BY Scalars_, Zenon
    <3>. QED
      BY <1>8, <3>1, RefusalsRecorded, Zenon
  <2>3. RefusedClass(trace') = ForetoldClass(m', adapter') /\ Len(trace'.events) >= 3
    BY <1>1, <1>3, <2>1, <2>2
  <2>. QED
    BY <1>1, <1>2, <2>1, <2>3, Zenon DEF ForetoldInv, AdapterOk
<1>9. ASSUME stage \in {"execute", "verify"}, NEW e, trace'.events = trace.events \o <<e>>
      PROVE  Len(trace'.events) >= 4
  <2>1. Len(trace.events) >= 3 /\ Sequence(trace.events)
    BY <1>1, <1>2, <1>9, Zenon DEF ForetoldInv, TraceOk
  <2>2. Sequence(<<e>>) /\ Len(<<e>>) = 1
    BY ShortSequences, Zenon
  <2>3. Len(trace.events \o <<e>>) = Len(trace.events) + Len(<<e>>) /\ Len(trace.events) \in Nat
    BY <2>1, <2>2, Joined
  <2>. QED
    BY <1>9, <2>1, <2>2, <2>3
<1>10. ASSUME NEW e \in ToolEvents, CallTool(e) PROVE ForetoldInv'
  <2>1. stage = "execute" /\ stage' = stage /\ adapter' = adapter /\ trace' = Record(e)
    BY <1>10, Zenon DEF CallTool
  <2>2. trace'.events = trace.events \o <<e>>
    BY <1>1, <1>2, <2>1, OneMore, ToolEventsFit, Zenon DEF Record
  <2>. QED
    BY <1>1, <1>4, <1>9, <2>1, <2>2, Zenon
<1>11. ASSUME NEW v \in Answers, Execute(v) PROVE ForetoldInv'
  <2>1. stage = "execute" /\ stage' = "verify" /\ adapter' = adapter
        /\ trace' = Finished(Record(AdapterEvent("execute", "ok", ExecuteRequest, v, Nil)),
                             "", v, Word(""))
    BY <1>11, Zenon DEF Execute
  <2>2. ErrorOk(Nil) /\ IsText(Word(""))
    BY Scalars_, Zenon DEF ErrorOk
  <2>3. PICK e : trace'.events = trace.events \o <<e>>
    BY <1>1, <1>2, <2>1, <2>2, ExecuteRecords, Zenon
  <2>. QED
    BY <1>1, <1>4, <1>9, <2>1, <2>3, Zenon
<1>12. ASSUME NEW v \in Answers, NEW text \in Texts, ExecuteFails(v, text) PROVE ForetoldInv'
  <2>1. stage = "execute" /\ stage' = "final" /\ adapter' = adapter
        /\ trace' = Finished(Record(AdapterEvent("execute", "failed", ExecuteRequest, v,
                                                 Failure("DriverError", text))),
                             "failed", v, text)
    BY <1>12, Zenon DEF ExecuteFails
  <2>2. ErrorOk(Failure("DriverError", text)) /\ IsText(text)
    BY TextsAreTexts, Zenon DEF ErrorOk
  <2>3. PICK e : trace'.events = trace.events \o <<e>>
    BY <1>1, <1>2, <2>1, <2>2, ExecuteRecords, Zenon
  <2>. QED
    BY <1>1, <1>4, <1>9, <2>1, <2>3, Zenon
<1>13. ASSUME NEW status, NEW stdout, Verified(status, stdout), IsText(stdout) PROVE ForetoldInv'
  <2>1. stage = "verify" /\ stage' = "final" /\ adapter' = adapter
    BY <1>13, Zenon DEF Verified
  <2>2. PICK e : trace'.events = trace.events \o <<e>>
    BY <1>1, <1>2, <1>13, <2>1, VerifiedRecords, Zenon
  <2>. QED
    BY <1>1, <1>4, <1>9, <2>1, <2>2, Zenon
<1>14. ASSUME WriteTrace PROVE ForetoldInv'
  <2>1. stage = "final" /\ adapter' = adapter /\ trace' = trace
    BY <1>14, Zenon DEF WriteTrace
  <2>2. load = "loaded" /\ ManifestOk
    BY <1>1, <1>2, <2>1, Zenon DEF RunInv
  <2>3. stage' = "written"
    BY <1>14, <2>2, PatternsIndexable, Zenon DEF WriteTrace
  <2>4. AdapterOk(adapter')
    BY <1>1, <1>2, <2>1, Zenon
  <2>. QED
    BY <1>1, <2>1, <2>3, <2>4, Zenon DEF ForetoldInv, AdapterOk
<1>15. ASSUME ReportRefusal \/ ReportRun PROVE ForetoldInv'
  <2>1. UNCHANGED <<scanner, stage, trace, file, adapter>>
    BY <1>15 DEF ReportRefusal, ReportRun
  <2>2. stage' = stage /\ trace' = trace /\ adapter' = adapter /\ m' = m
    BY <2>1 DEF scanner
  <2>. QED
    BY <2>2, Zenon DEF ForetoldInv, AdapterOk
<1>16. IsText(Word("1 passed")) /\ \A text \in Texts : IsText(text)
  BY Scalars_, TextsAreTexts
<1>. QED
  BY <1>5, <1>6, <1>7, <1>8, <1>10, <1>11, <1>12, <1>13, <1>14, <1>15, <1>16, Zenon DEF Next

LEMMA ForetoldHolds == Spec => []ForetoldInv
<1>1. Init => ForetoldInv
  <2>1. "manifest" \notin {"preflight", "execute", "verify", "final"}
    OBVIOUS
  <2>. QED
    BY <2>1 DEF Init, ForetoldInv
<1>2. ForetoldInv /\ UNCHANGED vars => ForetoldInv'
  <2>1. UNCHANGED vars => stage' = stage /\ trace' = trace /\ adapter' = adapter /\ m' = m
    BY DEF vars, scanner
  <2>. QED
    BY <2>1, Zenon DEF ForetoldInv, AdapterOk
<1>. QED
  BY <1>1, <1>2, ForetoldSteps, RunHolds, PTL DEF Spec
LEMMA OneWord == \A S : \A v \in Seq(S) : Len(v) <= 1 /\ v # <<>> => v = <<v[1]>>
<1> SUFFICES ASSUME NEW S, NEW v \in Seq(S), Len(v) <= 1, v # <<>> PROVE v = <<v[1]>>
  OBVIOUS
<1>1. Len(v) = 1
  <2>1. ASSUME Len(v) = 0 PROVE v = <<>>
    BY <2>1
  <2>2. Len(v) \in Nat
    OBVIOUS
  <2>. QED
    BY <2>1, <2>2
<1>2. DOMAIN v = {1}
  BY <1>1
<1>3. \A x : DOMAIN <<x>> = {1} /\ <<x>>[1] = x
  OBVIOUS
<1>. QED
  BY <1>1, <1>2, <1>3

LEMMA RankIs == \A i \in DOMAIN Ranks : Rank(Ranks[i]) = i
<1> SUFFICES ASSUME NEW i \in DOMAIN Ranks PROVE Rank(Ranks[i]) = i
  OBVIOUS
<1>1. Ranks[i] \in Range(Ranks)
  BY DEF Range
<1>2. Lower[Ranks[i]] = Ranks[i]
  BY <1>1, LowerAssumption
<1>3. \A k \in DOMAIN Ranks : Ranks[k] = Ranks[i] => k = i
  BY DEF Ranks
<1>4. (CHOOSE k \in DOMAIN Ranks : Ranks[k] = Ranks[i]) = i
  BY <1>3
<1>. QED
  BY <1>1, <1>2, <1>4 DEF Rank

(* An adapter that the preflight admits has what the lines of a regular     *)
(* document ask for.                                                        *)
LEMMA AdmittedSuits ==
    ASSUME ScanInv, Regular(doc), load = "loaded", NEW a, AdapterOk(a),
           ~Unsupported(m, a), ~Forbidden(m, a)
    PROVE  Suits(Nested(doc, Len(doc) + 1), a)
<1> DEFINE n == Nested(doc, Len(doc) + 1)
           places == Places(doc, Len(doc) + 1)
<1>1. doc \in Seq(LineType) /\ m = Expanded(n) /\ Complete(n)
  BY DocumentsAssumption, Zenon DEF ScanInv, Progress, Loads
<1>2. DOMAIN n = ManifestFields /\ n.head = HeadAt(doc, Len(doc) + 1)
  BY NestedIs DEF ManifestFields
<1>3. n.head["name"] = ValueAt(doc, places, <<>>, "name")
  BY <1>2 DEF HeadAt, Heads
<1> HIDE DEF n, places
<1>4. m.head = n.head /\ m.needs = n.needs /\ m.network = n.network
  BY <1>1, <1>2, ExpandedKeeps, Zenon
<1>5. \E w : n.head["name"] = <<w>>
  <2> DEFINE S == KeyLines(doc, places, <<>>, "name")
  <2>1. n.head["name"] # <<>>
    BY <1>1 DEF Complete, Heads
  <2>2. \A i \in S : i \in DOMAIN doc /\ doc[i].key = "name"
    BY <1>1 DEF KeyLines, places, Places
  <2>3. n.head["name"] = Latest(doc, S)
    BY <1>3, Zenon DEF ValueAt
  <2> HIDE DEF S
  <2>4. S # {} /\ Latest(doc, S) = doc[Max(S)].value
    BY <2>1, <2>3, Zenon DEF Latest
  <2>5. S \in SUBSET Nat /\ Len(doc) \in Nat /\ \A i \in S : i <= Len(doc)
    BY <1>1, <2>2
  <2>6. Max(S) \in S
    BY <2>4, <2>5, MaxIsIn
  <2>7. doc[Max(S)] \in LineType /\ doc[Max(S)].key = "name"
    BY <1>1, <2>2, <2>6
  <2>8. doc[Max(S)].value \in Seq(STRING) /\ Len(doc[Max(S)].value) <= 1
    BY <2>7 DEF LineType, Heads
  <2> DEFINE v == doc[Max(S)].value
  <2>9. v \in Seq(STRING) /\ Len(v) <= 1 /\ v # <<>>
    BY <2>1, <2>3, <2>4, <2>8
  <2>10. n.head["name"] = v
    BY <2>3, <2>4
  <2> HIDE DEF v
  <2>11. v = <<v[1]>>
    BY <2>9, OneWord
  <2>. QED
    BY <2>10, <2>11, Zenon
<1> DEFINE required == Requires(m)
<1>6. /\ required.tool_calling <=> n.needs["tool_calling"] = <<"true">>
      /\ required.structured_output <=> n.needs["structured_output"] = <<"true">>
      /\ required.max_context_tokens = Number(n.needs["max_context_tokens"])
      /\ required.reasoning_level = IF n.needs["reasoning_level"] = <<>> THEN ""
                                    ELSE n.needs["reasoning_level"][1]
  BY <1>4 DEF Requires
<1> HIDE DEF required
<1>7. /\ a.skills = <<>> \/ SkillName(m) \in Range(a.skills)
      /\ required.tool_calling => a.can.tool_calling
      /\ required.structured_output => a.can.structured_output
      /\ ~(required.max_context_tokens > 0 /\ a.can.max_context_tokens < required.max_context_tokens)
      /\ required.reasoning_level # "" => ~(Rank(a.can.reasoning_level) < Rank(required.reasoning_level))
  BY Zenon DEF Unsupported, required
<1>8. a.skills = <<>> \/ \E i \in DOMAIN a.skills : n.head["name"] = <<a.skills[i]>>
  <2>1. PICK w : n.head["name"] = <<w>>
    BY <1>5
  <2>2. SkillName(m) = w
    BY <1>4, <2>1 DEF SkillName
  <2>. QED
    BY <1>7, <2>1, <2>2 DEF Range
<1>9. \A need \in {"tool_calling", "structured_output"} :
         a.can[need] \/ n.needs[need] # <<"true">>
  <2>1. a.can["tool_calling"] \/ n.needs["tool_calling"] # <<"true">>
    BY <1>6, <1>7, Zenon
  <2>2. a.can["structured_output"] \/ n.needs["structured_output"] # <<"true">>
    BY <1>6, <1>7, Zenon
  <2>. QED
    BY <2>1, <2>2, Zenon
<1>10. \/ Number(n.needs["max_context_tokens"]) <= 0
       \/ Number(n.needs["max_context_tokens"]) <= a.can.max_context_tokens
  <2> DEFINE x == Number(n.needs["max_context_tokens"])
             y == a.can.max_context_tokens
  <2>1. x \in Int
    BY NumeralsAssumption DEF Number
  <2>2. y \in Int
    BY DEF AdapterOk
  <2>3. ~(x > 0 /\ y < x)
    BY <1>6, <1>7, Zenon
  <2> HIDE DEF x, y
  <2>4. x <= 0 \/ x <= y
    BY <2>1, <2>2, <2>3
  <2>. QED
    BY <2>4 DEF x, y
<1>11. ASSUME NEW i \in DOMAIN Ranks, NEW j \in DOMAIN Ranks,
              n.needs["reasoning_level"] = <<Ranks[i]>>, a.can.reasoning_level = Ranks[j]
       PROVE  i <= j
  <2>1. required.reasoning_level = Ranks[i]
    BY <1>6, <1>11
  <2>2. ~(Rank(Ranks[j]) < Rank(Ranks[i]))
    <3>1. Ranks[i] # ""
      <4>1. Ranks[i] \in {"minimal", "low", "medium", "high", "xhigh"}
        BY DEF Ranks
      <4>2. "" \notin {"minimal", "low", "medium", "high", "xhigh"}
        OBVIOUS
      <4>. QED
        BY <4>1, <4>2, Zenon
    <3>. QED
      BY <1>7, <1>11, <2>1, <3>1, Zenon
  <2>3. ~(j < i)
    BY <2>2, RankIs, Zenon
  <2>4. i \in Int /\ j \in Int
    BY DEF Ranks
  <2>. QED
    BY <2>3, <2>4
<1>12. a.transport = "local" \/ n.network
  <2>1. a.transport \in {"local", "remote"} /\ (a.transport = "remote" => m.network)
    BY Zenon DEF Forbidden
  <2>. QED
    BY <1>4, <2>1, Zenon
<1>13. Suits(n, a)
  BY <1>8, <1>9, <1>10, <1>11, <1>12, Zenon DEF Suits
<1>. QED
  BY <1>13 DEF n

(* What the report says of an adapter.                                      *)
LEMMA ReportSays ==
    ASSUME NEW n, NEW a
    PROVE  LET entry == Compatibility(n, a).of IN
           /\ entry["name"] = Word(a.name)
           /\ entry["compatible"] = Boolean(ForetoldClass(n, a) = "")
           /\ ForetoldClass(n, a) # "" => entry["error_class"] = Word(ForetoldClass(n, a))
<1> DEFINE class == ForetoldClass(n, a)
           f1 == [name |-> Word(a.name), model_profile |-> Word(a.model_profile),
                  transport |-> Word(a.transport), capabilities |-> Object(CapabilitySet(a.can)),
                  compatible |-> Boolean(class = "")]
           g1 == Field("provider", Word(a.provider), a.provider # "")
           g2 == Field("supported_skills", Array([i \in DOMAIN a.skills |-> Word(a.skills[i])]),
                       a.skills # <<>>)
           g3 == Field("error_class", Word(class), class # "")
           g4 == Field("error_message", Word("refused"), class # "")
           f == f1 ++ g1 ++ g2 ++ g3 ++ g4
<1>1. Compatibility(n, a) = Object(f)
  BY Zenon DEF Compatibility
<1>2. Object(f).of = f
  BY DEF Object
<1>3. /\ DOMAIN f1 = {"name", "model_profile", "transport", "capabilities", "compatible"}
      /\ f1["name"] = Word(a.name) /\ f1["compatible"] = Boolean(class = "")
  OBVIOUS
<1>4. /\ DOMAIN g1 \subseteq {"provider"} /\ DOMAIN g2 \subseteq {"supported_skills"}
      /\ DOMAIN g3 \subseteq {"error_class"}
  BY DEF Field
<1>5. class # "" => "error_class" \in DOMAIN g3 /\ g3["error_class"] = Word(class)
  BY DEF Field
<1> HIDE DEF class, f1, g1, g2, g3, g4
<1>6. ASSUME NEW x, NEW y, NEW k \in DOMAIN x
      PROVE  k \in DOMAIN (x ++ y) /\ (x ++ y)[k] = x[k]
  BY DEF ++
<1>7. /\ f["name"] = f1["name"] /\ f["compatible"] = f1["compatible"]
  <2>1. ASSUME NEW k \in DOMAIN f1 PROVE f[k] = f1[k]
    <3> DEFINE x == f1 ++ g1
               y == x ++ g2
               z == y ++ g3
    <3>1. k \in DOMAIN x /\ x[k] = f1[k]
      BY <1>6
    <3> HIDE DEF x
    <3>2. k \in DOMAIN y /\ y[k] = x[k]
      BY <1>6, <3>1
    <3> HIDE DEF y
    <3>3. k \in DOMAIN z /\ z[k] = y[k]
      BY <1>6, <3>2
    <3> HIDE DEF z
    <3>4. (z ++ g4)[k] = z[k]
      BY <1>6, <3>3
    <3>. QED
      BY <3>1, <3>2, <3>3, <3>4 DEF x, y, z
  <2>2. "name" \in DOMAIN f1 /\ "compatible" \in DOMAIN f1
    BY <1>3
  <2> HIDE DEF f
  <2>. QED
    BY <2>1, <2>2, Zenon
<1>8. ASSUME class # "" PROVE f["error_class"] = Word(class)
  <2> DEFINE k == "error_class"
             x == f1 ++ g1
             y == x ++ g2
             z == y ++ g3
  <2>1. k \notin DOMAIN y
    <3>1. DOMAIN y = DOMAIN f1 \union DOMAIN g1 \union DOMAIN g2
      BY DEF ++
    <3>. QED
      BY <1>3, <1>4, <3>1
  <2>2. k \in DOMAIN g3 /\ g3[k] = Word(class)
    BY <1>5, <1>8
  <2> HIDE DEF k, y
  <2>3. k \in DOMAIN z /\ z[k] = g3[k]
    BY <2>1, <2>2 DEF ++
  <2> HIDE DEF z
  <2>4. (z ++ g4)[k] = z[k]
    BY <1>6, <2>3
  <2>5. f[k] = Word(class)
    BY <2>2, <2>3, <2>4 DEF z, y
  <2>. QED
    BY <2>5 DEF k
<1> HIDE DEF f
<1>. QED
  BY <1>1, <1>2, <1>3, <1>7, <1>8, Zenon DEF class

(* The compatibility report of a skill tells what a run with each built-in  *)
(* adapter records, and any adapter that is let run suits what the manifest *)
(* asks for, whatever the manifest and whatever the adapters.               *)
THEOREM PreflightForetold == Spec => []PreflightIsForetold
<1>1. RunInv /\ ForetoldInv /\ ScanInv => PreflightIsForetold
  <2> SUFFICES ASSUME RunInv, ForetoldInv, ScanInv, stage \in {"execute", "final"},
                      Len(trace.events) <= 3
               PROVE  LET class == RefusedClass(trace) IN
                      /\ \A i \in DOMAIN BuiltinAdapters :
                            Normalized(BuiltinAdapters[i]) = adapter =>
                               LET entry == CompatibilityReport(m).of["adapters"].of[i].of IN
                               /\ entry["name"].word = adapter.name
                               /\ entry["compatible"].value <=> class = ""
                               /\ class # "" => entry["error_class"].word = class
                      /\ class = "" /\ Regular(doc) => Suits(Nested(doc, Len(doc) + 1), adapter)
    BY Zenon DEF PreflightIsForetold
  <2> DEFINE class == RefusedClass(trace)
  <2>1. class = ForetoldClass(m, adapter)
    BY DEF ForetoldInv
  <2>2. load = "loaded" /\ AdapterOk(adapter)
    <3>1. stage # "manifest"
      OBVIOUS
    <3>. QED
      BY <3>1, Zenon DEF RunInv, ForetoldInv
  <2> HIDE DEF class
  <2>3. ASSUME NEW i \in DOMAIN BuiltinAdapters, Normalized(BuiltinAdapters[i]) = adapter
        PROVE  LET entry == CompatibilityReport(m).of["adapters"].of[i].of IN
               /\ entry["name"].word = adapter.name
               /\ entry["compatible"].value <=> class = ""
               /\ class # "" => entry["error_class"].word = class
    <3> DEFINE entries == [j \in DOMAIN BuiltinAdapters |->
                              Compatibility(m, Normalized(BuiltinAdapters[j]))]
               entry == CompatibilityReport(m).of["adapters"].of[i].of
    <3>1. entries[i] = Compatibility(m, adapter)
      BY <2>3
    <3> HIDE DEF entries
    <3>2. CompatibilityReport(m).of["adapters"].of = entries
      BY DEF CompatibilityReport, Object, Array, entries
    <3>3. entry = Compatibility(m, adapter).of
      BY <3>1, <3>2
    <3> HIDE DEF entry
    <3>4. /\ entry["name"] = Word(adapter.name)
          /\ entry["compatible"] = Boolean(class = "")
          /\ class # "" => entry["error_class"] = Word(class)
      BY <2>1, <3>3, ReportSays, Zenon
    <3>5. \A w : Word(w).word = w
      BY Scalars_
    <3>6. \A b : Boolean(b).value = b
      BY DEF Boolean
    <3>7. entry["compatible"].value = (class = "")
      BY <3>4, <3>6, Zenon
    <3>. QED
      BY <3>4, <3>5, <3>7, Zenon DEF entry
  <2>4. ASSUME class = "", Regular(doc) PROVE Suits(Nested(doc, Len(doc) + 1), adapter)
    <3>1. ~Unsupported(m, adapter) /\ ~Forbidden(m, adapter)
      BY <2>1, <2>4, ClassOf, Zenon
    <3>. QED
      BY <2>2, <2>4, <3>1, AdmittedSuits, Zenon
  <2>. QED
    BY <2>3, <2>4, Zenon DEF class
<1>. QED
  BY <1>1, RunHolds, ForetoldHolds, ScannerFollowsNesting, PTL
-----------------------------------------------------------------------------
(* The types of a manifest.                                                 *)

Words == Seq(STRING)
Single == {w \in Words : Len(w) <= 1 /\ w # <<"">>}
PolicyType == [declared : BOOLEAN, executable : Words, cwd : Words, timeout_ms : Int]
CheckType == [type : Words, name : Single, cmd : Words, run : Words, cwd : Words,
              schemaRef : Words, policy : PolicyType, exit_code : Int]
RuleType == [name : Words, regex : Words, secret_group : Int]
ManifestType ==
    [head : [Heads -> Single], needs : [Needs -> Words], tools : Seq(Words),
     required : Seq(Words), repo_path : Words, network : BOOLEAN, read : Seq(Words),
     write : Seq(Words), allow : Seq(Words), verifiers : Seq(CheckType), keys : Seq(Words),
     patterns : Seq(RuleType)]

LEMMA LineTypes ==
    ASSUME NEW l \in LineType
    PROVE  /\ l.key \in STRING /\ l.value \in Words /\ Item(l) \in Words /\ Number(l.value) \in Int
           /\ l.key \in Heads => l.value \in Single
<1>1. l.key \in STRING /\ l.value \in Words
  <2>1. l \in [indent : Nat, dash : BOOLEAN, key : STRING, value : Seq(STRING)]
    BY Zenon DEF LineType
  <2>. QED
    BY <2>1 DEF Words
<1>2. l.key \in Heads => l.value \in Single
  BY <1>1, Zenon DEF LineType, Single
<1>3. Item(l) \in Words
  <2>1. \A x \in STRING, v \in Seq(STRING) : <<x>> \o v \in Seq(STRING)
    <3> DEFINE S == STRING
    <3> HIDE DEF S
    <3>1. \A x \in S : <<x>> \in Seq(S)
      OBVIOUS
    <3>2. \A u, v \in Seq(S) : u \o v \in Seq(S)
      OBVIOUS
    <3>. QED
      BY <3>1, <3>2, Zenon DEF S
  <2>2. Item(l) = <<l.key>> \o l.value \/ Item(l) = l.value
    BY DEF Item
  <2>. QED
    BY <1>1, <2>1, <2>2, Zenon DEF Words
<1>4. Number(l.value) \in Int
  BY NumeralsAssumption DEF Number
<1>. QED
  BY <1>1, <1>2, <1>3, <1>4

LEMMA NoWords == <<>> \in Words /\ <<>> \in Single
<1>1. <<>> \in Seq(STRING)
  OBVIOUS
<1>2. Len(<<>>) <= 1
  OBVIOUS
<1>3. <<>> # <<"">>
  OBVIOUS
<1>. QED
  BY <1>1, <1>2, <1>3, Zenon DEF Words, Single

LEMMA NewTypes ==
    /\ NewPattern \in RuleType
    /\ \A v \in Words : NewCheck(v) \in CheckType
    /\ NoPolicy \in PolicyType /\ [NoPolicy EXCEPT !.declared = TRUE] \in PolicyType
<1>1. NoPolicy \in PolicyType /\ [NoPolicy EXCEPT !.declared = TRUE] \in PolicyType
  <2>1. ASSUME NEW e \in Words, NEW b \in BOOLEAN
        PROVE  [declared |-> b, executable |-> e, cwd |-> e, timeout_ms |-> 0] \in PolicyType
    BY DEF PolicyType
  <2>2. NoPolicy = [declared |-> FALSE, executable |-> <<>>, cwd |-> <<>>, timeout_ms |-> 0]
    BY DEF NoPolicy
  <2>3. NoPolicy \in PolicyType
    BY <2>1, <2>2, NoWords, Zenon
  <2>4. \A q \in PolicyType : [q EXCEPT !.declared = TRUE] \in PolicyType
    BY DEF PolicyType
  <2>. QED
    BY <2>3, <2>4, Zenon
<1>2. ASSUME NEW e \in Words PROVE [name |-> e, regex |-> e, secret_group |-> 0] \in RuleType
  BY DEF RuleType
<1>3. NewPattern = [name |-> <<>>, regex |-> <<>>, secret_group |-> 0]
  BY DEF NewPattern
<1>4. ASSUME NEW e \in Words, e \in Single, NEW v \in Words, NEW q \in PolicyType
      PROVE  [type |-> v, name |-> e, cmd |-> e, run |-> e, cwd |-> e, schemaRef |-> e,
              policy |-> q, exit_code |-> 0] \in CheckType
  BY <1>4 DEF CheckType
<1>5. \A v : NewCheck(v) = [type |-> v, name |-> <<>>, cmd |-> <<>>, run |-> <<>>, cwd |-> <<>>,
                            schemaRef |-> <<>>, policy |-> NoPolicy, exit_code |-> 0]
  BY DEF NewCheck
<1>6. NewPattern \in RuleType
  BY <1>2, <1>3, NoWords, Zenon
<1>7. \A v \in Words : NewCheck(v) \in CheckType
  BY <1>1, <1>4, <1>5, NoWords, Zenon
<1>. QED
  BY <1>1, <1>6, <1>7

LEMMA FieldTypes ==
    ASSUME NEW v \in CheckType, NEW key, NEW value \in Words, key = "name" => value \in Single
    PROVE  VerifierField(v, key, value) \in CheckType
<1>2. CASE key = "name"
  BY <1>2 DEF VerifierField, CheckType
<1>3. CASE key = "cmd"
  BY <1>3 DEF VerifierField, CheckType
<1>4. CASE key = "run"
  BY <1>4 DEF VerifierField, CheckType
<1>5. CASE key = "cwd"
  BY <1>5 DEF VerifierField, CheckType
<1>6. CASE key = "schemaRef"
  BY <1>6 DEF VerifierField, CheckType
<1>7. CASE key = "policy"
  BY <1>7, NewTypes DEF VerifierField, CheckType
<1>8. CASE key \notin {"name", "cmd", "run", "cwd", "schemaRef", "policy"}
  BY <1>8 DEF VerifierField
<1>. QED
  BY <1>2, <1>3, <1>4, <1>5, <1>6, <1>7, <1>8

LEMMA PolicyTypes ==
    ASSUME NEW v \in CheckType, NEW key, NEW value \in Words, Number(value) \in Int
    PROVE  PolicyField(v, key, value) \in CheckType
<1>1. v.policy \in PolicyType
  BY DEF CheckType
<1>2. CASE key = "executable"
  <2>1. [v.policy EXCEPT !["executable"] = value] \in PolicyType
    BY <1>1 DEF PolicyType
  <2>. QED
    BY <1>2, <2>1 DEF PolicyField, CheckType
<1>3. CASE key = "cwd"
  <2>1. [v.policy EXCEPT !["cwd"] = value] \in PolicyType
    BY <1>1 DEF PolicyType
  <2>. QED
    BY <1>3, <2>1 DEF PolicyField, CheckType
<1>4. CASE key = "timeout_ms"
  <2>1. [v.policy EXCEPT !.timeout_ms = Number(value)] \in PolicyType
    BY <1>1 DEF PolicyType
  <2>. QED
    BY <1>4, <2>1 DEF PolicyField, CheckType
<1>5. CASE key \notin {"executable", "cwd", "timeout_ms"}
  BY <1>5 DEF PolicyField
<1>. QED
  BY <1>2, <1>3, <1>4, <1>5

LEMMA RuleTypes ==
    ASSUME NEW p \in RuleType, NEW key, NEW value \in Words, Number(value) \in Int
    PROVE  PatternField(p, key, value) \in RuleType
<1>1. CASE key = "name"
  BY <1>1 DEF PatternField, RuleType
<1>2. CASE key = "regex"
  BY <1>2 DEF PatternField, RuleType
<1>3. CASE key = "secret_group"
  BY <1>3 DEF PatternField, RuleType
<1>4. CASE key \notin {"name", "regex", "secret_group"}
  BY <1>4 DEF PatternField
<1>. QED
  BY <1>1, <1>2, <1>3, <1>4

LEMMA SequenceTypes ==
    ASSUME NEW T, NEW s \in Seq(T), NEW x
    PROVE  /\ x \in T => Append(s, x) \in Seq(T)
           /\ \A c : (c \in DOMAIN s => x \in T) => [s EXCEPT ![c] = x] \in Seq(T)
<1>1. ASSUME NEW c, c \in DOMAIN s => x \in T PROVE [s EXCEPT ![c] = x] \in Seq(T)
  <2> DEFINE r == [s EXCEPT ![c] = x]
  <2>1. Len(s) \in Nat /\ DOMAIN s = 1..Len(s) /\ DOMAIN r = DOMAIN s
    OBVIOUS
  <2>2. \A i \in DOMAIN s : r[i] \in T
    BY <1>1
  <2>3. r = [i \in 1..Len(s) |-> r[i]]
    BY <2>1
  <2> HIDE DEF r
  <2>4. r \in [1..Len(s) -> T]
    BY <2>1, <2>2, <2>3
  <2>5. r \in Seq(T)
    BY <2>1, <2>4
  <2>. QED
    BY <2>5 DEF r
<1>2. x \in T => Append(s, x) \in Seq(T)
  OBVIOUS
<1>. QED
  BY <1>1, <1>2

LEMMA GrantedTypes ==
    ASSUME NEW p \in ManifestType, NEW l \in LineType, NEW where
    PROVE  Granted(p, l, where) \in ManifestType
<1>1. Item(l) \in Words /\ l.value \in Words
  BY LineTypes
<1>a. p.read \in Seq(Words) /\ p.write \in Seq(Words) /\ p.allow \in Seq(Words)
  BY DEF ManifestType
<1>b. /\ Append(p.read, Item(l)) \in Seq(Words) /\ Append(p.write, Item(l)) \in Seq(Words)
      /\ Append(p.allow, l.value) \in Seq(Words)
  BY <1>1, <1>a, SequenceTypes
<1>2. [p EXCEPT !.read = Append(p.read, Item(l))] \in ManifestType
  BY <1>b DEF ManifestType
<1>3. [p EXCEPT !.write = Append(p.write, Item(l))] \in ManifestType
  BY <1>b DEF ManifestType
<1>4. [p EXCEPT !.allow = Append(p.allow, l.value)] \in ManifestType
  BY <1>b DEF ManifestType
<1>. QED
  BY <1>2, <1>3, <1>4 DEF Granted

(* Every line leaves a manifest of its type.                                *)
LEMMA ScannedTypes ==
    ASSUME m \in ManifestType, doc \in Seq(LineType), at \in 1..(Len(doc) + 1), ScanNext, ~ScanEnds
    PROVE  m' \in ManifestType
<1>1. Line \in LineType
  BY LineByLine DEF Line
<1>2. /\ Line.key \in STRING /\ Line.value \in Words /\ Item(Line) \in Words
      /\ Number(Line.value) \in Int /\ (Line.key \in Heads => Line.value \in Single)
  BY <1>1, LineTypes
<1>3. CASE SkipComment \/ SkipLine
  BY <1>3 DEF SkipComment, SkipLine
<1>4. CASE ScanSection
  <2>1. Line.key \in Heads => [m EXCEPT !.head[Line.key] = Line.value] \in ManifestType
    BY <1>2 DEF ManifestType
  <2>. QED
    BY <1>4, <2>1 DEF ScanSection
<1>5. CASE ScanCapabilities
  <2>1. [m EXCEPT !.needs[Line.key] = Line.value] \in ManifestType
    BY <1>2 DEF ManifestType
  <2>. QED
    BY <1>5, <2>1 DEF ScanCapabilities
<1>6. CASE ScanTools
  <2>1. Append(m.tools, Item(Line)) \in Seq(Words)
    <3>1. m.tools \in Seq(Words)
      BY DEF ManifestType
    <3>. QED
      BY <1>2, <3>1, SequenceTypes
  <2>2. [m EXCEPT !.tools = Append(m.tools, Item(Line))] \in ManifestType
    BY <2>1 DEF ManifestType
  <2>. QED
    BY <1>6, <2>2 DEF ScanTools
<1>7. CASE ScanInputs
  <2>1. [m EXCEPT !.repo_path = Line.value] \in ManifestType
    BY <1>2 DEF ManifestType
  <2>. QED
    BY <1>7, <2>1 DEF ScanInputs
<1>8. CASE ScanOutputs
  <2>1. Append(m.required, Item(Line)) \in Seq(Words)
    <3>1. m.required \in Seq(Words)
      BY DEF ManifestType
    <3>. QED
      BY <1>2, <3>1, SequenceTypes
  <2>2. [m EXCEPT !.required = Append(m.required, Item(Line))] \in ManifestType
    BY <2>1 DEF ManifestType
  <2>. QED
    BY <1>8, <2>2 DEF ScanOutputs
<1>9. CASE ScanPermissions
  <2>1. [m EXCEPT !.network = (Line.value = <<"true">>)] \in ManifestType
    <3>1. \A b \in BOOLEAN : [m EXCEPT !.network = b] \in ManifestType
      BY DEF ManifestType
    <3>. QED
      BY <3>1
  <2>2. Granted(m, Line, sub) \in ManifestType
    BY <1>1, GrantedTypes
  <2>. QED
    BY <1>9, <2>1, <2>2 DEF ScanPermissions
<1>10. CASE ScanVerifier
  <2>1. NewCheck(Line.value) \in CheckType
    BY <1>2, NewTypes
  <2>2. Append(m.verifiers, NewCheck(Line.value)) \in Seq(CheckType)
    <3>1. m.verifiers \in Seq(CheckType)
      BY DEF ManifestType
    <3>. QED
      BY <2>1, <3>1, SequenceTypes
  <2>3. [m EXCEPT !.verifiers = Append(m.verifiers, NewCheck(Line.value))] \in ManifestType
    BY <2>2 DEF ManifestType
  <2>. QED
    BY <1>10, <2>3 DEF ScanVerifier
<1>11. CASE ScanVerifierLine
  <2> DEFINE v == m.verifiers[check]
             w == CASE Line.indent = 4 -> VerifierField(v, KeyOf(Line), Line.value)
                    [] Line.indent = 6 /\ sub = <<"verifier_policy">> ->
                          PolicyField(v, KeyOf(Line), Line.value)
                    [] Line.indent # 4 /\ sub = <<"verifier_success">> /\ NamesExitCode(Line) ->
                          [v EXCEPT !.exit_code = Number(Line.value)]
                    [] OTHER -> v
  <2>1. m' = m \/ m' = [m EXCEPT !.verifiers[check] = w]
    BY <1>11 DEF ScanVerifierLine
  <2>2. ASSUME check \in DOMAIN m.verifiers PROVE w \in CheckType
    <3>1. v \in CheckType
      BY <2>2 DEF ManifestType
    <3>2. VerifierField(v, KeyOf(Line), Line.value) \in CheckType
      <4>1. KeyOf(Line) = "name" => Line.value \in Single
        BY <1>2 DEF KeyOf, Heads
      <4>. QED
        BY <1>2, <3>1, <4>1, FieldTypes
    <3>3. PolicyField(v, KeyOf(Line), Line.value) \in CheckType
      BY <1>2, <3>1, PolicyTypes
    <3>4. [v EXCEPT !.exit_code = Number(Line.value)] \in CheckType
      <4>1. \A u \in CheckType, n \in Int : [u EXCEPT !.exit_code = n] \in CheckType
        BY DEF CheckType
      <4>. QED
        BY <1>2, <3>1, <4>1
    <3>. QED
      BY <3>1, <3>2, <3>3, <3>4
  <2> HIDE DEF w
  <2>3. m.verifiers \in Seq(CheckType)
    BY DEF ManifestType
  <2>4. [m.verifiers EXCEPT ![check] = w] \in Seq(CheckType)
    BY <2>2, <2>3, SequenceTypes
  <2>5. [m EXCEPT !.verifiers = [m.verifiers EXCEPT ![check] = w]] \in ManifestType
    BY <2>4 DEF ManifestType
  <2>. QED
    BY <2>1, <2>5
<1>12. CASE ScanRedactionKey
  <2>1. Append(m.keys, Item(Line)) \in Seq(Words)
    <3>1. m.keys \in Seq(Words)
      BY DEF ManifestType
    <3>. QED
      BY <1>2, <3>1, SequenceTypes
  <2>2. [m EXCEPT !.keys = Append(m.keys, Item(Line))] \in ManifestType
    BY <2>1 DEF ManifestType
  <2>. QED
    BY <1>12, <2>2 DEF ScanRedactionKey
<1>13. CASE ScanRedactionPattern
  <2>1. m.patterns \in Seq(RuleType)
    BY DEF ManifestType
  <2>2. \A s \in Seq(RuleType) : [m EXCEPT !.patterns = s] \in ManifestType
    BY DEF ManifestType
  <2>3. PatternField(NewPattern, Line.key, Line.value) \in RuleType
    BY <1>2, NewTypes, RuleTypes
  <2>4. Append(m.patterns, PatternField(NewPattern, Line.key, Line.value)) \in Seq(RuleType)
    BY <2>1, <2>3, SequenceTypes
  <2> DEFINE r == PatternField(m.patterns[pattern], KeyOf(Line), Line.value)
  <2>5. ASSUME pattern \in DOMAIN m.patterns PROVE r \in RuleType
    BY <1>2, <2>1, <2>5, RuleTypes
  <2>6. \/ m' = m
        \/ m' = [m EXCEPT !.patterns = Append(m.patterns, PatternField(NewPattern, Line.key, Line.value))]
        \/ m' = [m EXCEPT !.patterns[pattern] = r]
    BY <1>13 DEF ScanRedactionPattern
  <2> HIDE DEF r
  <2>7. [m.patterns EXCEPT ![pattern] = r] \in Seq(RuleType)
    BY <2>1, <2>5, SequenceTypes
  <2>. QED
    BY <2>2, <2>4, <2>6, <2>7
<1>. QED
  BY <1>3, <1>4, <1>5, <1>6, <1>7, <1>8, <1>9, <1>10, <1>11, <1>12, <1>13 DEF ScanNext
-----------------------------------------------------------------------------
(* Values that meet a schema.                                               *)

LEMMA SameShape ==
    ASSUME NEW s, Sequence(s), NEW r, r = [i \in DOMAIN s |-> r[i]]
    PROVE  Sequence(r) /\ Len(r) = Len(s) /\ DOMAIN r = 1..Len(s) /\ Len(s) \in Nat
<1>1. PICK S : s \in Seq(S)
  BY Zenon DEF Sequence
<1>2. Len(s) \in Nat /\ DOMAIN s = 1..Len(s)
  BY <1>1
<1>3. DOMAIN r = 1..Len(s)
  BY <1>2
<1> DEFINE T == {r[i] : i \in 1..Len(s)}
<1>4. r \in [1..Len(s) -> T]
  BY <1>2
<1> HIDE DEF T
<1>5. r \in Seq(T)
  BY <1>2, <1>4
<1>6. Len(r) = Len(s)
  BY <1>2, <1>3, <1>5
<1>. QED
  BY <1>2, <1>3, <1>5, <1>6, Zenon DEF Sequence

LEMMA LeavesAre ==
    /\ \A x : Word(x).t = "string" /\ Word(x).word = x
    /\ \A x : Integer(x).t = "integer" /\ Boolean(x).t = "boolean"
    /\ Null.t = "null"
    /\ \A x : Object(x).t = "object" /\ Object(x).of = x /\ Array(x).t = "array" /\ Array(x).of = x
BY DEF Word, Text, Integer, Boolean, Null, Object, Array

LEMMA ArrayIs ==
    ASSUME NEW s, Sequence(s), NEW r, r = [i \in DOMAIN s |-> r[i]],
           \A i \in DOMAIN s : r[i].t = "string"
    PROVE  /\ Strings(Array(r))
           /\ s # <<>> => IsArray(Array(r), 1, IsString)
<1>1. Len(r) = Len(s) /\ DOMAIN r = 1..Len(s) /\ Len(s) \in Nat
  BY SameShape
<1>2. s # <<>> => Len(s) >= 1
  <2>1. PICK S : s \in Seq(S)
    BY Zenon DEF Sequence
  <2>. QED
    BY <2>1
<1>3. DOMAIN s = 1..Len(s)
  <2>1. PICK S : s \in Seq(S)
    BY Zenon DEF Sequence
  <2>. QED
    BY <2>1
<1>4. Array(r).t = "array" /\ Array(r).of = r
  BY LeavesAre
<1> DEFINE a == Array(r)
<1> HIDE DEF a
<1>5. a.t = "array" /\ a.of = r
  BY <1>4 DEF a
<1>6. Strings(a)
  BY <1>1, <1>3, <1>5 DEF Strings, IsArray, IsString
<1>7. s # <<>> => IsArray(a, 1, IsString)
  BY <1>1, <1>2, <1>3, <1>5 DEF IsArray, IsString
<1>. QED
  BY <1>6, <1>7 DEF a

LEMMA ScalarsAre ==
    /\ \A v : Scalar(v).t = "string"
    /\ \A s : Sequence(s) => /\ Strs(s) = Null \/ Strings(Strs(s))
                             /\ Scalars(s) = Null \/ Strings(Scalars(s))
                             /\ s # <<>> => IsArray(Scalars(s), 1, IsString)
<1>1. \A v : Scalar(v).t = "string"
  BY LeavesAre, Zenon DEF Scalar
<1>2. ASSUME NEW s, Sequence(s)
      PROVE  /\ Strs(s) = Null \/ Strings(Strs(s))
             /\ Scalars(s) = Null \/ Strings(Scalars(s))
             /\ s # <<>> => IsArray(Scalars(s), 1, IsString)
  <2> DEFINE r == [i \in DOMAIN s |-> Word(s[i])]
             q == [i \in DOMAIN s |-> Scalar(s[i])]
  <2>1. r = [i \in DOMAIN s |-> r[i]] /\ q = [i \in DOMAIN s |-> q[i]]
    OBVIOUS
  <2>2. /\ \A i \in DOMAIN s : r[i].t = "string"
        /\ \A i \in DOMAIN s : q[i].t = "string"
    <3>1. \A i \in DOMAIN s : r[i] = Word(s[i])
      OBVIOUS
    <3>2. \A i \in DOMAIN s : q[i] = Scalar(s[i])
      OBVIOUS
    <3>. QED
      BY <1>1, <3>1, <3>2, LeavesAre, Zenon
  <2>3. (Strs(s) = Null \/ Strs(s) = Array(r))
    BY DEF Strs
  <2>4. (Scalars(s) = Null \/ Scalars(s) = Array(q)) /\ (s # <<>> => Scalars(s) = Array(q))
    BY DEF Scalars
  <2> HIDE DEF r, q
  <2>5. Strings(Array(r)) /\ Strings(Array(q))
    BY <1>2, <2>1, <2>2, ArrayIs
  <2>6. s # <<>> => IsArray(Array(q), 1, IsString)
    BY <1>2, <2>1, <2>2, ArrayIs
  <2>7. s # <<>> => IsArray(Scalars(s), 1, IsString)
    BY <2>4, <2>6
  <2>. QED
    BY <2>3, <2>4, <2>5, <2>7, Zenon
<1>. QED
  BY <1>1, <1>2, Zenon

(* What the schemas ask of a field, whichever document it is in.            *)
StringKeys == {"type", "name", "status", "stdout", "stderr", "executable", "cwd", "cmd", "schemaRef",
               "reasoning_level", "regex", "model_profile", "provider", "transport", "error_class",
               "error_message"}
IntegerKeys == {"timeout_ms", "exit_code", "max_context_tokens", "secret_group"}
BooleanKeys == {"network", "tool_calling", "structured_output", "compatible"}
ListKeys == {"run", "read", "write", "keys", "supported_skills"}
NestKeys == {"policy", "success", "tools", "required", "filesystem", "shell", "allow", "patterns"}
SomeWords(v) == IsArray(v, 1, IsString)
VerifiersOk(v) == IsArray(v, 1, VerifierSchema)
SuccessOk(v) == IsObject(v, {}) /\ Property(v, "exit_code", IsInteger)
FilesystemOk(v) == IsObject(v, {}) /\ Property(v, "read", Strings) /\ Property(v, "write", Strings)
AllowOk(v) == v.t = "null" \/ IsArray(v, 0, CommandSchema)
ShellOk(v) == IsObject(v, {}) /\ Property(v, "allow", AllowOk)
PatternsOk(v) == v.t = "null" \/ IsArray(v, 0, PatternSchema)
EntriesOk(v) == IsArray(v, 1, EntrySchema)
Nests(key, v) ==
    /\ key = "policy" => PolicySchema(v)
    /\ key = "success" => SuccessOk(v)
    /\ key \in {"tools", "required"} => SomeWords(v)
    /\ key = "filesystem" => FilesystemOk(v)
    /\ key = "shell" => ShellOk(v)
    /\ key = "allow" => AllowOk(v)
    /\ key = "patterns" => PatternsOk(v)
Meets(key, v) ==
    /\ Nests(key, v)
    /\ key \in StringKeys => v.t = "string"
    /\ key \in IntegerKeys => v.t = "integer"
    /\ key \in BooleanKeys => v.t = "boolean"
    /\ key \in ListKeys => v.t = "null" \/ Strings(v)
FieldsMeet(f) == \A key \in DOMAIN f : Meets(key, f[key])

LEMMA MeetsIf ==
    /\ \A key \in StringKeys : \A v : v.t = "string" => Meets(key, v)
    /\ \A key \in IntegerKeys : \A v : v.t = "integer" => Meets(key, v)
    /\ \A key \in BooleanKeys : \A v : v.t = "boolean" => Meets(key, v)
    /\ \A key \in ListKeys : \A v : v.t = "null" \/ Strings(v) => Meets(key, v)
    /\ \A key \in NestKeys : \A v : Nests(key, v) => Meets(key, v)
    /\ \A v : Meets("request", v) /\ Meets("result", v) /\ Meets("error", v) /\ Meets("capabilities", v)
<1> USE DEF StringKeys, IntegerKeys, BooleanKeys, ListKeys, NestKeys
<1>1. \A key \in StringKeys : \A v : v.t = "string" => Meets(key, v)
  BY DEF Meets, Nests
<1>2. \A key \in IntegerKeys : \A v : v.t = "integer" => Meets(key, v)
  BY DEF Meets, Nests
<1>3. \A key \in BooleanKeys : \A v : v.t = "boolean" => Meets(key, v)
  BY DEF Meets, Nests
<1>4. \A key \in ListKeys : \A v : v.t = "null" \/ Strings(v) => Meets(key, v)
  BY DEF Meets, Nests
<1>5. \A key \in NestKeys : \A v : Nests(key, v) => Meets(key, v)
  BY DEF Meets
<1>6. \A v : Meets("request", v) /\ Meets("result", v) /\ Meets("error", v) /\ Meets("capabilities", v)
  BY DEF Meets, Nests
<1>. QED
  BY <1>1, <1>2, <1>3, <1>4, <1>5, <1>6

LEMMA MeetsJoined == \A f, g : FieldsMeet(f) /\ FieldsMeet(g) => FieldsMeet(f ++ g)
<1> SUFFICES ASSUME NEW f, NEW g, FieldsMeet(f), FieldsMeet(g), NEW k \in DOMAIN (f ++ g)
             PROVE  Meets(k, (f ++ g)[k])
  BY DEF FieldsMeet
<1>1. \/ k \in DOMAIN f /\ (f ++ g)[k] = f[k]
      \/ k \in DOMAIN g /\ (f ++ g)[k] = g[k]
  BY DEF ++
<1>2. k \in DOMAIN f => Meets(k, f[k])
  BY Zenon DEF FieldsMeet
<1>3. k \in DOMAIN g => Meets(k, g[k])
  BY Zenon DEF FieldsMeet
<1> DEFINE h == f ++ g
<1> HIDE DEF h
<1>4. \/ k \in DOMAIN f /\ h[k] = f[k]
      \/ k \in DOMAIN g /\ h[k] = g[k]
  BY <1>1 DEF h
<1>5. Meets(k, h[k])
  BY <1>2, <1>3, <1>4, Zenon
<1>. QED
  BY <1>5 DEF h

LEMMA MeetsField == \A name, v, set : Meets(name, v) => FieldsMeet(Field(name, v, set))
<1> SUFFICES ASSUME NEW name, NEW v, NEW set, Meets(name, v), NEW k \in DOMAIN Field(name, v, set)
             PROVE  Meets(k, Field(name, v, set)[k])
  BY DEF FieldsMeet
<1>1. k = name /\ Field(name, v, set)[k] = v
  BY DEF Field
<1>. QED
  BY <1>1, Zenon

LEMMA MeetsObject ==
    ASSUME NEW f, FieldsMeet(f)
    PROVE  /\ \A keys \in SUBSET StringKeys : StringsIn(Object(f), keys)
           /\ \A key \in IntegerKeys : Property(Object(f), key, IsInteger)
           /\ \A key \in BooleanKeys : Property(Object(f), key, IsBoolean)
           /\ \A key \in ListKeys : Property(Object(f), key, Strings)
           /\ \A keys \in SUBSET DOMAIN f : IsObject(Object(f), keys)
           /\ \A key \in DOMAIN f : Nests(key, f[key])
<1> DEFINE d == Object(f)
<1>1. d.t = "object" /\ d.of = f
  BY LeavesAre
<1> HIDE DEF d
<1>2. ASSUME NEW keys \in SUBSET StringKeys PROVE StringsIn(d, keys)
  BY <1>1 DEF StringsIn, Property, IsString, FieldsMeet, Meets
<1>3. ASSUME NEW key \in IntegerKeys PROVE Property(d, key, IsInteger)
  BY <1>1 DEF Property, IsInteger, FieldsMeet, Meets
<1>4. ASSUME NEW key \in BooleanKeys PROVE Property(d, key, IsBoolean)
  BY <1>1 DEF Property, IsBoolean, FieldsMeet, Meets
<1>5. ASSUME NEW key \in ListKeys PROVE Property(d, key, Strings)
  BY <1>1 DEF Property, FieldsMeet, Meets
<1>6. ASSUME NEW keys \in SUBSET DOMAIN f PROVE IsObject(d, keys)
  BY <1>1 DEF IsObject
<1>7. ASSUME NEW key \in DOMAIN f PROVE Nests(key, f[key])
  BY Zenon DEF FieldsMeet, Meets
<1>. QED
  BY <1>2, <1>3, <1>4, <1>5, <1>6, <1>7 DEF d
-----------------------------------------------------------------------------
(* Records of few fields.                                                   *)
LEMMA RecordsMeet ==
    /\ \A f, a : DOMAIN f = {a} /\ Meets(a, f[a]) => FieldsMeet(f)
    /\ \A f, a, b : DOMAIN f = {a, b} /\ Meets(a, f[a]) /\ Meets(b, f[b]) => FieldsMeet(f)
    /\ \A f, a, b, c : DOMAIN f = {a, b, c} /\ Meets(a, f[a]) /\ Meets(b, f[b]) /\ Meets(c, f[c])
                         => FieldsMeet(f)
BY Zenon DEF FieldsMeet

LEMMA JoinKeeps == \A f, g : DOMAIN f \subseteq DOMAIN (f ++ g) /\ DOMAIN g \subseteq DOMAIN (f ++ g)
BY FieldsJoined

(* What ManifestJson writes of a manifest's parts.                          *)
LEMMA VerifierMeets ==
    ASSUME NEW v, Sequence(v.run)
    PROVE  VerifierSchema(VerifierJson(v))
<1> DEFINE f == [type |-> Scalar(v.type), name |-> Scalar(v.name)]
           p == [executable |-> Scalar(v.policy.executable), cwd |-> Scalar(v.policy.cwd),
                 timeout_ms |-> Integer(v.policy.timeout_ms)]
           e == [exit_code |-> Integer(v.exit_code)]
           g == [success |-> Object(e)]
           h == f ++ Field("cmd", Scalar(v.cmd), v.cmd # <<>>)
                  ++ Field("run", Strs(v.run), v.run # <<>>)
                  ++ Field("cwd", Scalar(v.cwd), v.cwd # <<>>)
                  ++ Field("schemaRef", Scalar(v.schemaRef), v.schemaRef # <<>>)
                  ++ Field("policy", Object(p), v.policy.declared)
                  ++ g
<1>1. VerifierJson(v) = Object(h)
  BY DEF VerifierJson
<1>2. /\ \A key \in {"type", "name", "cmd", "cwd", "schemaRef", "executable"} :
            \A x : Meets(key, Scalar(x))
      /\ \A key \in {"timeout_ms", "exit_code"} : \A x : Meets(key, Integer(x))
      /\ Meets("run", Strs(v.run))
  <2>1. /\ {"type", "name", "cmd", "cwd", "schemaRef", "executable"} \subseteq StringKeys
        /\ {"timeout_ms", "exit_code"} \subseteq IntegerKeys /\ "run" \in ListKeys
    BY DEF StringKeys, IntegerKeys, ListKeys
  <2>2. (\A x : Scalar(x).t = "string") /\ (\A x : Integer(x).t = "integer")
    BY LeavesAre, ScalarsAre
  <2>3. Strs(v.run).t = "null" \/ Strings(Strs(v.run))
    BY LeavesAre, ScalarsAre, Zenon
  <2>4. \A key \in {"type", "name", "cmd", "cwd", "schemaRef", "executable"} :
            \A x : Meets(key, Scalar(x))
    BY <2>1, <2>2, MeetsIf, Zenon
  <2>5. \A key \in {"timeout_ms", "exit_code"} : \A x : Meets(key, Integer(x))
    BY <2>1, <2>2, MeetsIf, Zenon
  <2>6. Meets("run", Strs(v.run))
    BY <2>1, <2>3, MeetsIf, Zenon
  <2>. QED
    BY <2>4, <2>5, <2>6
<1>3. /\ DOMAIN f = {"type", "name"} /\ f["type"] = Scalar(v.type) /\ f["name"] = Scalar(v.name)
      /\ DOMAIN p = {"executable", "cwd", "timeout_ms"} /\ p["executable"] = Scalar(v.policy.executable)
      /\ p["cwd"] = Scalar(v.policy.cwd) /\ p["timeout_ms"] = Integer(v.policy.timeout_ms)
      /\ DOMAIN e = {"exit_code"} /\ e["exit_code"] = Integer(v.exit_code)
      /\ DOMAIN g = {"success"} /\ g["success"] = Object(e)
  OBVIOUS
<1> HIDE DEF f, p, e, g
<1>4. FieldsMeet(f) /\ FieldsMeet(p) /\ FieldsMeet(e)
  <2>1. Meets("type", f["type"]) /\ Meets("name", f["name"])
    BY <1>2, <1>3
  <2>2. /\ Meets("executable", p["executable"]) /\ Meets("cwd", p["cwd"])
        /\ Meets("timeout_ms", p["timeout_ms"])
    BY <1>2, <1>3
  <2>3. Meets("exit_code", e["exit_code"])
    BY <1>2, <1>3
  <2>4. DOMAIN f = {"type", "name"} /\ DOMAIN p = {"executable", "cwd", "timeout_ms"}
        /\ DOMAIN e = {"exit_code"}
    BY <1>3
  <2>5. FieldsMeet(f)
    BY <2>1, <2>4, RecordsMeet, Zenon
  <2>6. FieldsMeet(p)
    BY <2>2, <2>4, RecordsMeet, Zenon
  <2>7. FieldsMeet(e)
    BY <2>3, <2>4, RecordsMeet, Zenon
  <2>. QED
    BY <2>5, <2>6, <2>7
<1>5. Meets("policy", Object(p))
  <2>1. PolicySchema(Object(p))
    <3>1. IsObject(Object(p), {}) /\ StringsIn(Object(p), {"executable", "cwd"})
      <4>1. {} \in SUBSET DOMAIN p /\ {"executable", "cwd"} \in SUBSET StringKeys
        BY DEF StringKeys
      <4>. QED
        BY <1>4, <4>1, MeetsObject, Zenon
    <3>2. Property(Object(p), "timeout_ms", IsInteger)
      <4>1. "timeout_ms" \in IntegerKeys
        BY DEF IntegerKeys
      <4>. QED
        BY <1>4, <4>1, MeetsObject, Zenon
    <3>. QED
      BY <3>1, <3>2, Zenon DEF PolicySchema
  <2>2. Nests("policy", Object(p)) /\ "policy" \in NestKeys
    BY <2>1 DEF Nests, NestKeys
  <2>. QED
    BY <2>2, MeetsIf, Zenon
<1>6. Meets("success", Object(e))
  <2>1. SuccessOk(Object(e))
    <3>1. IsObject(Object(e), {}) /\ "exit_code" \in IntegerKeys
      <4>1. {} \in SUBSET DOMAIN e /\ "exit_code" \in IntegerKeys
        BY DEF IntegerKeys
      <4>. QED
        BY <1>4, <4>1, MeetsObject, Zenon
    <3>. QED
      BY <1>4, <3>1, MeetsObject, Zenon DEF SuccessOk
  <2>2. Nests("success", Object(e)) /\ "success" \in NestKeys
    BY <2>1 DEF Nests, NestKeys
  <2>. QED
    BY <2>2, MeetsIf, Zenon
<1>7. FieldsMeet(g)
  BY <1>3, <1>6, RecordsMeet, Zenon
<1>8. FieldsMeet(h)
  BY <1>2, <1>4, <1>5, <1>7, MeetsJoined, MeetsField, SMT
<1>9. {"type", "name"} \subseteq DOMAIN h
  <2> DEFINE a == Field("cmd", Scalar(v.cmd), v.cmd # <<>>)
             b == Field("run", Strs(v.run), v.run # <<>>)
             c == Field("cwd", Scalar(v.cwd), v.cwd # <<>>)
             q == Field("schemaRef", Scalar(v.schemaRef), v.schemaRef # <<>>)
             r == Field("policy", Object(p), v.policy.declared)
  <2>1. h = f ++ a ++ b ++ c ++ q ++ r ++ g
    OBVIOUS
  <2> HIDE DEF a, b, c, q, r, h
  <2>2. DOMAIN f \subseteq DOMAIN h
    BY <2>1, JoinKeeps, SMT
  <2>. QED
    BY <1>3, <2>2
<1> HIDE DEF h
<1> DEFINE d == Object(h)
<1>10. /\ IsObject(d, {"type", "name"})
       /\ StringsIn(d, {"type", "name", "cmd", "cwd", "schemaRef"})
       /\ Property(d, "run", Strings)
  <2>1. {"type", "name"} \in SUBSET DOMAIN h
        /\ {"type", "name", "cmd", "cwd", "schemaRef"} \in SUBSET StringKeys /\ "run" \in ListKeys
    BY <1>9 DEF StringKeys, ListKeys
  <2>. QED
    BY <1>8, <2>1, MeetsObject, Zenon
<1>11. d.of = h /\ \A key \in DOMAIN h : Nests(key, h[key])
  BY <1>8, LeavesAre, MeetsObject, Zenon
<1> HIDE DEF d
<1>12. Property(d, "policy", PolicySchema)
  BY <1>11 DEF Property, Nests
<1>13. Property(d, "success", LAMBDA w : IsObject(w, {}) /\ Property(w, "exit_code", IsInteger))
  BY <1>11 DEF Property, Nests, SuccessOk
<1>14. VerifierSchema(d)
  BY <1>10, <1>12, <1>13, Zenon DEF VerifierSchema
<1>. QED
  BY <1>1, <1>14 DEF d
-----------------------------------------------------------------------------
(* Arrays and lists of scalars.                                             *)
LEMMA ArraysAre ==
    ASSUME NEW s, Sequence(s), NEW r, r = [i \in DOMAIN s |-> r[i]]
    PROVE  /\ (\A i \in DOMAIN s : CommandSchema(r[i])) => IsArray(Array(r), 0, CommandSchema)
           /\ (\A i \in DOMAIN s : PatternSchema(r[i])) => IsArray(Array(r), 0, PatternSchema)
           /\ (\A i \in DOMAIN s : EventSchema(r[i])) => IsArray(Array(r), 0, EventSchema)
           /\ s # <<>> /\ (\A i \in DOMAIN s : VerifierSchema(r[i])) => VerifiersOk(Array(r))
           /\ s # <<>> /\ (\A i \in DOMAIN s : EntrySchema(r[i])) => EntriesOk(Array(r))
<1>1. Len(r) = Len(s) /\ DOMAIN r = 1..Len(s) /\ Len(s) \in Nat
  BY SameShape
<1>2. DOMAIN s = 1..Len(s) /\ (s # <<>> => Len(s) >= 1)
  <2>1. PICK S : s \in Seq(S)
    BY Zenon DEF Sequence
  <2>. QED
    BY <2>1
<1> DEFINE a == Array(r)
<1>3. a.t = "array" /\ a.of = r
  BY LeavesAre
<1> HIDE DEF a
<1>4. DOMAIN a.of = DOMAIN s /\ Len(a.of) >= 0 /\ (s # <<>> => Len(a.of) >= 1)
  BY <1>1, <1>2, <1>3
<1>5. (\A i \in DOMAIN s : CommandSchema(r[i])) => IsArray(a, 0, CommandSchema)
  BY <1>3, <1>4, Zenon DEF IsArray
<1>6. (\A i \in DOMAIN s : PatternSchema(r[i])) => IsArray(a, 0, PatternSchema)
  BY <1>3, <1>4, Zenon DEF IsArray
<1>7. (\A i \in DOMAIN s : EventSchema(r[i])) => IsArray(a, 0, EventSchema)
  BY <1>3, <1>4, Zenon DEF IsArray
<1>8. s # <<>> /\ (\A i \in DOMAIN s : VerifierSchema(r[i])) => VerifiersOk(a)
  BY <1>3, <1>4, Zenon DEF IsArray, VerifiersOk
<1>9. s # <<>> /\ (\A i \in DOMAIN s : EntrySchema(r[i])) => EntriesOk(a)
  BY <1>3, <1>4, Zenon DEF IsArray, EntriesOk
<1>. QED
  BY <1>5, <1>6, <1>7, <1>8, <1>9 DEF a

(* A list of scalars where the schema asks for one, or for null.            *)
LEMMA ListsMeet ==
    ASSUME NEW s, Sequence(s)
    PROVE  /\ \A key \in ListKeys : Meets(key, Scalars(s)) /\ Meets(key, Strs(s))
           /\ s # <<>> => Meets("tools", Scalars(s)) /\ Meets("required", Scalars(s))
<1>1. /\ Strs(s) = Null \/ Strings(Strs(s))
      /\ Scalars(s) = Null \/ Strings(Scalars(s))
      /\ s # <<>> => IsArray(Scalars(s), 1, IsString)
  BY ScalarsAre, Zenon
<1>2. \A key \in ListKeys : Meets(key, Scalars(s)) /\ Meets(key, Strs(s))
  BY <1>1, LeavesAre, MeetsIf, Zenon
<1>3. ASSUME s # <<>> PROVE Meets("tools", Scalars(s)) /\ Meets("required", Scalars(s))
  <2>1. SomeWords(Scalars(s))
    BY <1>1, <1>3, Zenon DEF SomeWords
  <2>2. Nests("tools", Scalars(s)) /\ Nests("required", Scalars(s))
    BY <2>1 DEF Nests
  <2>3. "tools" \in NestKeys /\ "required" \in NestKeys
    BY DEF NestKeys
  <2>. QED
    BY <2>2, <2>3, MeetsIf, Zenon
<1>. QED
  BY <1>2, <1>3

LEMMA CommandMeets == \A s : Sequence(s) => CommandSchema(Object([run |-> Strs(s)]))
<1> SUFFICES ASSUME NEW s, Sequence(s) PROVE CommandSchema(Object([run |-> Strs(s)]))
  OBVIOUS
<1> DEFINE f == [run |-> Strs(s)]
<1>1. DOMAIN f = {"run"} /\ f["run"] = Strs(s)
  OBVIOUS
<1> HIDE DEF f
<1>2. "run" \in ListKeys /\ {} \in SUBSET DOMAIN f
  BY DEF ListKeys
<1>3. Meets("run", f["run"])
  BY <1>1, <1>2, ListsMeet
<1>4. FieldsMeet(f)
  BY <1>1, <1>3, RecordsMeet, Zenon
<1>5. IsObject(Object(f), {}) /\ Property(Object(f), "run", Strings)
  BY <1>2, <1>4, MeetsObject, Zenon
<1>. QED
  BY <1>5, Zenon DEF CommandSchema, f

LEMMA PatternMeets == \A p : PatternSchema(PatternJson(p))
<1> SUFFICES ASSUME NEW p PROVE PatternSchema(PatternJson(p))
  OBVIOUS
<1> DEFINE f == [name |-> Scalar(p.name), regex |-> Scalar(p.regex),
                 secret_group |-> Integer(p.secret_group)]
<1>1. /\ DOMAIN f = {"name", "regex", "secret_group"} /\ f["name"] = Scalar(p.name)
      /\ f["regex"] = Scalar(p.regex) /\ f["secret_group"] = Integer(p.secret_group)
  OBVIOUS
<1>2. PatternJson(p) = Object(f)
  BY DEF PatternJson
<1> HIDE DEF f
<1>3. /\ {"name", "regex"} \in SUBSET StringKeys /\ "name" \in StringKeys /\ "regex" \in StringKeys
      /\ "secret_group" \in IntegerKeys /\ {"name", "regex", "secret_group"} \in SUBSET DOMAIN f
  BY <1>1 DEF StringKeys, IntegerKeys
<1>4. f["name"].t = "string" /\ f["regex"].t = "string" /\ f["secret_group"].t = "integer"
  BY <1>1, ScalarsAre, LeavesAre
<1>5. Meets("name", f["name"]) /\ Meets("regex", f["regex"]) /\ Meets("secret_group", f["secret_group"])
  BY <1>3, <1>4, MeetsIf, Zenon
<1>6. FieldsMeet(f)
  BY <1>1, <1>5, RecordsMeet, Zenon
<1>7. /\ IsObject(Object(f), {"name", "regex", "secret_group"})
      /\ StringsIn(Object(f), {"name", "regex"}) /\ Property(Object(f), "secret_group", IsInteger)
  BY <1>3, <1>6, MeetsObject, Zenon
<1>. QED
  BY <1>2, <1>7, Zenon DEF PatternSchema

(* What the manifest grants, and what it redacts.                           *)
LEMMA PermissionsMeet ==
    ASSUME NEW n, Sequence(n.read), Sequence(n.write), Sequence(n.allow),
           \A i \in DOMAIN n.allow : Sequence(n.allow[i])
    PROVE  PermissionsSchema(
             Object([network |-> Boolean(n.network),
                filesystem |-> Object([read |-> Scalars(n.read), write |-> Scalars(n.write)]),
                shell |-> Object([allow |-> IF n.allow = <<>> THEN Null ELSE
                    Array([i \in DOMAIN n.allow |-> Object([run |-> Strs(n.allow[i])])])])]))
<1> DEFINE r == [i \in DOMAIN n.allow |-> Object([run |-> Strs(n.allow[i])])]
           a == IF n.allow = <<>> THEN Null ELSE Array(r)
           s == [allow |-> a]
           f == [read |-> Scalars(n.read), write |-> Scalars(n.write)]
           p == [network |-> Boolean(n.network), filesystem |-> Object(f), shell |-> Object(s)]
<1>1. r = [i \in DOMAIN n.allow |-> r[i]] /\ \A i \in DOMAIN n.allow : r[i] = Object([run |-> Strs(n.allow[i])])
  OBVIOUS
<1>2. a = Null \/ a = Array(r)
  OBVIOUS
<1>3. /\ DOMAIN s = {"allow"} /\ s["allow"] = a
      /\ DOMAIN f = {"read", "write"} /\ f["read"] = Scalars(n.read) /\ f["write"] = Scalars(n.write)
      /\ DOMAIN p = {"network", "filesystem", "shell"} /\ p["network"] = Boolean(n.network)
      /\ p["filesystem"] = Object(f) /\ p["shell"] = Object(s)
  OBVIOUS
<1> HIDE DEF r, a, s, f, p
<1>4. IsArray(Array(r), 0, CommandSchema)
  <2>1. \A i \in DOMAIN n.allow : CommandSchema(r[i])
    BY <1>1, CommandMeets, Zenon
  <2>. QED
    BY <1>1, <2>1, ArraysAre
<1>5. AllowOk(a)
  BY <1>2, <1>4, LeavesAre, Zenon DEF AllowOk
<1>6. /\ "read" \in ListKeys /\ "write" \in ListKeys /\ "network" \in BooleanKeys
      /\ {"allow", "filesystem", "shell"} \subseteq NestKeys
  BY DEF ListKeys, BooleanKeys, NestKeys
<1>7. FieldsMeet(s)
  <2>1. Nests("allow", s["allow"])
    BY <1>3, <1>5 DEF Nests
  <2>2. Meets("allow", s["allow"])
    BY <1>6, <2>1, MeetsIf
  <2>. QED
    BY <1>3, <2>2, RecordsMeet, Zenon
<1>8. FieldsMeet(f)
  <2>1. Meets("read", f["read"]) /\ Meets("write", f["write"])
    BY <1>3, <1>6, ListsMeet
  <2>. QED
    BY <1>3, <2>1, RecordsMeet, Zenon
<1>9. FilesystemOk(Object(f))
  <2>1. {} \in SUBSET DOMAIN f
    OBVIOUS
  <2>. QED
    BY <1>6, <1>8, <2>1, MeetsObject, Zenon DEF FilesystemOk
<1>10. ShellOk(Object(s))
  <2> DEFINE w == Object(s)
  <2>1. w.of = s /\ {} \in SUBSET DOMAIN s
    BY LeavesAre
  <2>2. IsObject(w, {})
    BY <1>7, <2>1, MeetsObject, Zenon
  <2> HIDE DEF w
  <2>3. Property(w, "allow", AllowOk)
    BY <1>3, <1>5, <2>1 DEF Property
  <2>4. ShellOk(w)
    BY <2>2, <2>3, Zenon DEF ShellOk
  <2>. QED
    BY <2>4 DEF w
<1>11. FieldsMeet(p)
  <2>1. Nests("filesystem", p["filesystem"]) /\ Nests("shell", p["shell"])
    BY <1>3, <1>9, <1>10 DEF Nests
  <2>2. Meets("filesystem", p["filesystem"]) /\ Meets("shell", p["shell"])
    BY <1>6, <2>1, MeetsIf
  <2>3. p["network"].t = "boolean"
    BY <1>3, LeavesAre
  <2>4. Meets("network", p["network"])
    BY <1>6, <2>3, MeetsIf, Zenon
  <2>. QED
    BY <1>3, <2>2, <2>4, RecordsMeet, Zenon
<1> DEFINE d == Object(p)
<1>12. IsObject(d, {}) /\ Property(d, "network", IsBoolean) /\ d.of = p
  <2>1. {} \in SUBSET DOMAIN p
    OBVIOUS
  <2>. QED
    BY <1>6, <1>11, <2>1, MeetsObject, LeavesAre, Zenon
<1> HIDE DEF d
<1>13. Property(d, "filesystem", LAMBDA w :
          IsObject(w, {}) /\ Property(w, "read", Strings) /\ Property(w, "write", Strings))
  BY <1>3, <1>9, <1>12 DEF Property, FilesystemOk
<1>14. Property(d, "shell", LAMBDA w :
          IsObject(w, {}) /\ Property(w, "allow", LAMBDA x : IsArray(x, 0, CommandSchema)))
  <2>1. d.of["shell"] = Object(s)
    BY <1>3, <1>12
  <2>2. IsObject(Object(s), {})
    BY <1>10, Zenon DEF ShellOk
  <2>3. Property(Object(s), "allow", LAMBDA x : IsArray(x, 0, CommandSchema))
    <3>1. Object(s).of = s
      BY LeavesAre
    <3>2. s["allow"].t = "null" \/ IsArray(s["allow"], 0, CommandSchema)
      BY <1>3, <1>5, Zenon DEF AllowOk
    <3>. QED
      BY <3>1, <3>2, Zenon DEF Property
  <2>. QED
    BY <2>1, <2>2, <2>3, Zenon DEF Property
<1>15. PermissionsSchema(d)
  BY <1>12, <1>13, <1>14, Zenon DEF PermissionsSchema
<1>16. a = IF n.allow = <<>> THEN Null ELSE
              Array([i \in DOMAIN n.allow |-> Object([run |-> Strs(n.allow[i])])])
  BY DEF a, r
<1>. QED
  BY <1>15, <1>16 DEF d, p, f, s
-----------------------------------------------------------------------------
(* The redaction rules, the capabilities, and the manifest.                 *)
LEMMA RedactionMeets ==
    ASSUME NEW n, Sequence(n.keys), Sequence(n.patterns)
    PROVE  RedactionSchema(
             Object([keys |-> Scalars(n.keys),
                patterns |-> IF n.patterns = <<>> THEN Null ELSE
                    Array([i \in DOMAIN n.patterns |-> PatternJson(n.patterns[i])])]))
<1> DEFINE r == [i \in DOMAIN n.patterns |-> PatternJson(n.patterns[i])]
           a == IF n.patterns = <<>> THEN Null ELSE Array(r)
           f == [keys |-> Scalars(n.keys), patterns |-> a]
           d == Object(f)
<1>1. r = [i \in DOMAIN n.patterns |-> r[i]] /\ \A i \in DOMAIN n.patterns : r[i] = PatternJson(n.patterns[i])
  OBVIOUS
<1>2. a = Null \/ a = Array(r)
  OBVIOUS
<1>3. /\ DOMAIN f = {"keys", "patterns"} /\ f["keys"] = Scalars(n.keys) /\ f["patterns"] = a
  OBVIOUS
<1>4. a = IF n.patterns = <<>> THEN Null ELSE
              Array([i \in DOMAIN n.patterns |-> PatternJson(n.patterns[i])])
  OBVIOUS
<1> HIDE DEF r, a
<1>5. a.t = "null" \/ IsArray(a, 0, PatternSchema)
  <2>1. \A i \in DOMAIN n.patterns : PatternSchema(r[i])
    BY <1>1, PatternMeets, Zenon
  <2>2. IsArray(Array(r), 0, PatternSchema)
    BY <1>1, <2>1, ArraysAre
  <2>. QED
    BY <1>2, <2>2, LeavesAre, Zenon
<1>6. "keys" \in ListKeys /\ "patterns" \in NestKeys
  BY DEF ListKeys, NestKeys
<1> HIDE DEF f, d
<1>7. FieldsMeet(f)
  <2>1. PatternsOk(a)
    BY <1>5, Zenon DEF PatternsOk
  <2>2. Nests("patterns", f["patterns"])
    BY <1>3, <2>1 DEF Nests
  <2>3. Meets("patterns", f["patterns"])
    BY <1>6, <2>2, MeetsIf
  <2>4. Meets("keys", f["keys"])
    BY <1>3, <1>6, ListsMeet
  <2>. QED
    BY <1>3, <2>3, <2>4, RecordsMeet, Zenon
<1>8. d.of = f /\ IsObject(d, {}) /\ Property(d, "keys", Strings)
  <2>1. {} \in SUBSET DOMAIN f
    OBVIOUS
  <2>. QED
    BY <1>6, <1>7, <2>1, MeetsObject, LeavesAre, Zenon DEF d
<1>9. Property(d, "patterns", LAMBDA w : IsArray(w, 0, PatternSchema))
  BY <1>3, <1>5, <1>8, Zenon DEF Property
<1>10. RedactionSchema(d)
  BY <1>8, <1>9, Zenon DEF RedactionSchema
<1>. QED
  BY <1>4, <1>10 DEF d, f

LEMMA CapabilitiesMeet ==
    ASSUME NEW can, NEW keys \in SUBSET DOMAIN CapabilitySet(can)
    PROVE  CapabilitiesSchema(Object(CapabilitySet(can)), keys)
<1> DEFINE a == Field("tool_calling", Boolean(TRUE), can.tool_calling)
           b == Field("structured_output", Boolean(TRUE), can.structured_output)
           c == Field("max_context_tokens", Integer(can.max_context_tokens), can.max_context_tokens # 0)
           e == Field("reasoning_level", Word(can.reasoning_level), can.reasoning_level # "")
           f == CapabilitySet(can)
<1>1. f = a ++ b ++ c ++ e
  BY DEF CapabilitySet
<1>2. /\ "tool_calling" \in BooleanKeys /\ "structured_output" \in BooleanKeys
      /\ "max_context_tokens" \in IntegerKeys /\ "reasoning_level" \in StringKeys
      /\ {"reasoning_level"} \in SUBSET StringKeys
  BY DEF BooleanKeys, IntegerKeys, StringKeys
<1>3. FieldsMeet(a) /\ FieldsMeet(b) /\ FieldsMeet(c) /\ FieldsMeet(e)
  <2>1. \A x : Boolean(x).t = "boolean" /\ Integer(x).t = "integer" /\ Word(x).t = "string"
    BY LeavesAre
  <2>2. Meets("tool_calling", Boolean(TRUE)) /\ Meets("structured_output", Boolean(TRUE))
    BY <1>2, <2>1, MeetsIf, Zenon
  <2>3. /\ Meets("max_context_tokens", Integer(can.max_context_tokens))
        /\ Meets("reasoning_level", Word(can.reasoning_level))
    BY <1>2, <2>1, MeetsIf, Zenon
  <2>. QED
    BY <2>2, <2>3, MeetsField, Zenon
<1> HIDE DEF a, b, c, e
<1>4. FieldsMeet(f)
  <2> HIDE DEF f
  <2>. QED
    BY <1>1, <1>3, MeetsJoined, SMT
<1> HIDE DEF f
<1>5. keys \in SUBSET DOMAIN f
  BY DEF f
<1> DEFINE d == Object(f)
<1>6. /\ IsObject(d, keys) /\ Property(d, "tool_calling", IsBoolean)
      /\ Property(d, "structured_output", IsBoolean) /\ Property(d, "max_context_tokens", IsInteger)
      /\ StringsIn(d, {"reasoning_level"})
  BY <1>2, <1>4, <1>5, MeetsObject, Zenon
<1>7. CapabilitiesSchema(d, keys)
  <2> HIDE DEF d
  <2>1. Property(d, "reasoning_level", IsString)
    BY <1>6, Zenon DEF StringsIn
  <2>. QED
    BY <1>6, <2>1, Zenon DEF CapabilitiesSchema
<1>. QED
  BY <1>7 DEF d, f

(* A manifest with everything that its JSON needs.                          *)
Writable(n) ==
    /\ Sequence(n.tools) /\ n.tools # <<>> /\ Sequence(n.required) /\ n.required # <<>>
    /\ Sequence(n.verifiers) /\ n.verifiers # <<>>
    /\ \A i \in DOMAIN n.verifiers : Sequence(n.verifiers[i].run)
    /\ Sequence(n.read) /\ Sequence(n.write) /\ Sequence(n.allow)
    /\ \A i \in DOMAIN n.allow : Sequence(n.allow[i])
    /\ Sequence(n.keys) /\ Sequence(n.patterns)

LEMMA OutputsMeet ==
    ASSUME NEW s, Sequence(s), s # <<>>
    PROVE  /\ IsObject(Object([required |-> Scalars(s)]), {"required"})
           /\ Property(Object([required |-> Scalars(s)]), "required", LAMBDA w : IsArray(w, 1, IsString))
<1> DEFINE f == [required |-> Scalars(s)]
           d == Object(f)
<1>1. DOMAIN f = {"required"} /\ f["required"] = Scalars(s)
  OBVIOUS
<1>2. d.of = f /\ d.t = "object"
  BY LeavesAre
<1>3. IsArray(f["required"], 1, IsString)
  BY <1>1, ScalarsAre
<1> HIDE DEF f, d
<1>4. IsObject(d, {"required"})
  BY <1>1, <1>2 DEF IsObject
<1>5. Property(d, "required", LAMBDA w : IsArray(w, 1, IsString))
  BY <1>2, <1>3, Zenon DEF Property
<1>. QED
  BY <1>4, <1>5 DEF d, f

LEMMA ManifestMeets ==
    ASSUME NEW n, Writable(n)
    PROVE  ManifestSchema(ManifestJson(n))
<1> DEFINE f == [k \in Heads |-> Scalar(n.head[k])]
           o == Object([required |-> Scalars(n.required)])
           r == [i \in DOMAIN n.verifiers |-> VerifierJson(n.verifiers[i])]
           p == Object([network |-> Boolean(n.network),
                filesystem |-> Object([read |-> Scalars(n.read), write |-> Scalars(n.write)]),
                shell |-> Object([allow |-> IF n.allow = <<>> THEN Null ELSE
                    Array([i \in DOMAIN n.allow |-> Object([run |-> Strs(n.allow[i])])])])])
           q == Object(CapabilitySet(Requires(n)))
           c == Object([requires |-> q])
           e == Object([keys |-> Scalars(n.keys),
                patterns |-> IF n.patterns = <<>> THEN Null ELSE
                    Array([i \in DOMAIN n.patterns |-> PatternJson(n.patterns[i])])])
           g == [tools |-> Scalars(n.tools), outputs |-> o, verifiers |-> Array(r),
                 permissions |-> p, capabilities |-> c, redaction |-> e]
           h == f ++ g
           d == Object(h)
<1>1. ManifestJson(n) = d
  BY DEF ManifestJson
<1>2. PermissionsSchema(p)
  BY PermissionsMeet, Zenon DEF Writable
<1>3. RedactionSchema(e)
  BY RedactionMeets, Zenon DEF Writable
<1>4. CapabilitiesSchema(q, {})
  <2>1. {} \in SUBSET DOMAIN CapabilitySet(Requires(n))
    OBVIOUS
  <2>. QED
    BY <2>1, CapabilitiesMeet, Zenon
<1>5. IsObject(o, {"required"}) /\ Property(o, "required", LAMBDA w : IsArray(w, 1, IsString))
  <2>1. Sequence(n.required) /\ n.required # <<>>
    BY Zenon DEF Writable
  <2>. QED
    BY <2>1, OutputsMeet, Zenon
<1>6. r = [i \in DOMAIN n.verifiers |-> r[i]] /\ \A i \in DOMAIN n.verifiers : r[i] = VerifierJson(n.verifiers[i])
  OBVIOUS
<1>7. c.of["requires"] = q /\ c.t = "object"
  BY LeavesAre
<1>8. /\ DOMAIN f = Heads /\ \A k \in Heads : f[k] = Scalar(n.head[k])
      /\ DOMAIN g = {"tools", "outputs", "verifiers", "permissions", "capabilities", "redaction"}
      /\ g["tools"] = Scalars(n.tools) /\ g["outputs"] = o /\ g["verifiers"] = Array(r)
      /\ g["permissions"] = p /\ g["capabilities"] = c /\ g["redaction"] = e
  OBVIOUS
<1> HIDE DEF f, o, r, p, q, c, e, g
<1>9. VerifiersOk(Array(r))
  <2>1. \A i \in DOMAIN n.verifiers : VerifierSchema(r[i])
    BY <1>6, VerifierMeets, Zenon DEF Writable
  <2>2. Sequence(n.verifiers) /\ n.verifiers # <<>>
    BY Zenon DEF Writable
  <2>. QED
    BY <1>6, <2>1, <2>2, ArraysAre
<1>10. /\ d.of = h /\ d.t = "object"
  BY LeavesAre
<1>b. \A k \in DOMAIN g : k \notin Heads
  BY <1>8 DEF Heads
<1>11. /\ DOMAIN h = Heads \union DOMAIN g
       /\ \A k \in Heads : h[k].t = "string"
       /\ h["tools"] = g["tools"] /\ h["outputs"] = g["outputs"] /\ h["verifiers"] = g["verifiers"]
       /\ h["permissions"] = g["permissions"] /\ h["capabilities"] = g["capabilities"]
       /\ h["redaction"] = g["redaction"]
  <2>1. DOMAIN f = Heads
    BY <1>8
  <2>2. DOMAIN h = Heads \union DOMAIN g /\ \A k \in DOMAIN g : h[k] = g[k]
    BY <1>b, <2>1 DEF ++
  <2>3. \A k \in Heads : h[k] = f[k]
    BY <2>1 DEF ++
  <2>a. \A k \in Heads : f[k] = Scalar(n.head[k])
    BY <1>8
  <2>b. \A v : Scalar(v).t = "string"
    BY ScalarsAre
  <2> HIDE DEF h
  <2>4. \A k \in Heads : h[k].t = "string"
    BY <2>3, <2>a, <2>b, Zenon
  <2>. QED
    BY <1>8, <2>2, <2>4
<1> HIDE DEF h, d
<1>12. IsObject(d, {"apiVersion", "kind", "name", "version", "description", "tools", "outputs",
                    "verifiers"})
  BY <1>8, <1>10, <1>11 DEF IsObject, Heads
<1>13. StringsIn(d, {"apiVersion", "kind", "name", "version", "description"})
  <2>1. \A k \in Heads : Property(d, k, IsString)
    BY <1>10, <1>11, Zenon DEF Property, IsString
  <2>. QED
    BY <2>1, Zenon DEF StringsIn, Heads
<1>14. Property(d, "tools", LAMBDA v : IsArray(v, 1, IsString))
  <2>1. IsArray(Scalars(n.tools), 1, IsString)
    BY ScalarsAre, Zenon DEF Writable
  <2>. QED
    BY <1>8, <1>10, <1>11, <2>1, Zenon DEF Property
<1>15. Property(d, "outputs", LAMBDA v : /\ IsObject(v, {"required"})
                                         /\ Property(v, "required", LAMBDA w : IsArray(w, 1, IsString)))
  <2>1. d.of["outputs"] = o
    BY <1>8, <1>10, <1>11
  <2>. QED
    BY <1>5, <2>1, Zenon DEF Property
<1>16. Property(d, "verifiers", LAMBDA v : IsArray(v, 1, VerifierSchema))
  <2>1. d.of["verifiers"] = Array(r)
    BY <1>8, <1>10, <1>11
  <2>. QED
    BY <1>9, <2>1, Zenon DEF Property, VerifiersOk
<1>17. Property(d, "permissions", PermissionsSchema) /\ Property(d, "redaction", RedactionSchema)
  <2>1. d.of["permissions"] = p /\ d.of["redaction"] = e
    BY <1>8, <1>10, <1>11
  <2>. QED
    BY <1>2, <1>3, <2>1, Zenon DEF Property
<1>18. Property(d, "capabilities", LAMBDA v : /\ IsObject(v, {})
          /\ Property(v, "requires", LAMBDA w : CapabilitiesSchema(w, {})))
  <2>1. d.of["capabilities"] = c
    BY <1>8, <1>10, <1>11
  <2>2. IsObject(c, {})
    <3>1. {} \subseteq DOMAIN c.of
      OBVIOUS
    <3>. QED
      BY <1>7, <3>1, Zenon DEF IsObject
  <2>3. Property(c, "requires", LAMBDA w : CapabilitiesSchema(w, {}))
    BY <1>4, <1>7, Zenon DEF Property
  <2>. QED
    BY <2>1, <2>2, <2>3, Zenon DEF Property
<1>19. ManifestSchema(d)
  BY <1>12, <1>13, <1>14, <1>15, <1>16, <1>17, <1>18, Zenon DEF ManifestSchema
<1>. QED
  BY <1>1, <1>19
-----------------------------------------------------------------------------
(* The compatibility report.                                                *)
LEMMA EntryMeets ==
    ASSUME NEW n, NEW a, Sequence(a.skills), a.transport \in {"local", "remote"},
           {"tool_calling", "structured_output", "max_context_tokens", "reasoning_level"}
               \subseteq DOMAIN CapabilitySet(a.can)
    PROVE  EntrySchema(Compatibility(n, a))
<1> DEFINE class == ForetoldClass(n, a)
           q == Object(CapabilitySet(a.can))
           r == [i \in DOMAIN a.skills |-> Word(a.skills[i])]
           f1 == [name |-> Word(a.name), model_profile |-> Word(a.model_profile),
                  transport |-> Word(a.transport), capabilities |-> q,
                  compatible |-> Boolean(class = "")]
           g1 == Field("provider", Word(a.provider), a.provider # "")
           g2 == Field("supported_skills", Array(r), a.skills # <<>>)
           g3 == Field("error_class", Word(class), class # "")
           g4 == Field("error_message", Word("refused"), class # "")
           f == f1 ++ g1 ++ g2 ++ g3 ++ g4
           d == Object(f)
<1>1. Compatibility(n, a) = d
  BY Zenon DEF Compatibility
<1>2. CapabilitiesSchema(q, {"tool_calling", "structured_output", "max_context_tokens", "reasoning_level"})
  <2>1. {"tool_calling", "structured_output", "max_context_tokens", "reasoning_level"}
            \in SUBSET DOMAIN CapabilitySet(a.can)
    OBVIOUS
  <2>. QED
    BY <2>1, CapabilitiesMeet, Zenon
<1>3. /\ DOMAIN f1 = {"name", "model_profile", "transport", "capabilities", "compatible"}
      /\ f1["name"] = Word(a.name) /\ f1["model_profile"] = Word(a.model_profile)
      /\ f1["transport"] = Word(a.transport) /\ f1["capabilities"] = q
      /\ f1["compatible"] = Boolean(class = "")
  OBVIOUS
<1>4. /\ DOMAIN g1 \subseteq {"provider"} /\ DOMAIN g2 \subseteq {"supported_skills"}
      /\ DOMAIN g3 \subseteq {"error_class"} /\ DOMAIN g4 \subseteq {"error_message"}
  BY DEF Field
<1>5. /\ {"name", "model_profile", "transport", "provider", "error_class", "error_message"} \subseteq StringKeys
      /\ {"name", "model_profile", "provider", "error_class", "error_message"} \in SUBSET StringKeys
      /\ "compatible" \in BooleanKeys /\ "supported_skills" \in ListKeys
  BY DEF StringKeys, BooleanKeys, ListKeys
<1>6. \A x : Word(x).t = "string" /\ Word(x).word = x /\ Boolean(x).t = "boolean"
  BY LeavesAre
<1>7. Strings(Array(r))
  <2>1. r = [i \in DOMAIN a.skills |-> r[i]] /\ \A i \in DOMAIN a.skills : r[i] = Word(a.skills[i])
    OBVIOUS
  <2> HIDE DEF r
  <2>2. \A i \in DOMAIN a.skills : r[i].t = "string"
    BY <1>6, <2>1, Zenon
  <2>. QED
    BY <2>1, <2>2, ArrayIs
<1>8. FieldsMeet(g1) /\ FieldsMeet(g3) /\ FieldsMeet(g4)
  <2>1. \A key \in {"provider", "error_class", "error_message"} : \A x : Meets(key, Word(x))
    <3>1. \A key \in {"provider", "error_class", "error_message"} : key \in StringKeys
      BY <1>5
    <3>. QED
      BY <1>6, <3>1, MeetsIf, Zenon
  <2>2. /\ Meets("provider", Word(a.provider)) /\ Meets("error_class", Word(class))
        /\ Meets("error_message", Word("refused"))
    BY <2>1
  <2>. QED
    BY <2>2, MeetsField, Zenon
<1>9. FieldsMeet(g2)
  <2>1. Meets("supported_skills", Array(r))
    BY <1>5, <1>7, MeetsIf, Zenon
  <2>. QED
    BY <2>1, MeetsField, Zenon
<1> HIDE DEF class, q, r, f1, g1, g2, g3, g4
<1>10. FieldsMeet(f1)
  <2>1. f1["name"].t = "string" /\ f1["model_profile"].t = "string" /\ f1["transport"].t = "string"
    BY <1>3, <1>6
  <2>2. "name" \in StringKeys /\ "model_profile" \in StringKeys /\ "transport" \in StringKeys
    BY <1>5
  <2>3. Meets("name", f1["name"]) /\ Meets("model_profile", f1["model_profile"])
        /\ Meets("transport", f1["transport"])
    BY <2>1, <2>2, MeetsIf, Zenon
  <2>4. Meets("compatible", f1["compatible"])
    <3>1. f1["compatible"].t = "boolean"
      BY <1>3, <1>6
    <3>. QED
      BY <1>5, <3>1, MeetsIf, Zenon
  <2>5. Meets("capabilities", f1["capabilities"])
    BY MeetsIf, Zenon
  <2>6. \A k \in DOMAIN f1 : k = "name" \/ k = "model_profile" \/ k = "transport"
                             \/ k = "capabilities" \/ k = "compatible"
    BY <1>3
  <2>. QED
    BY <2>3, <2>4, <2>5, <2>6, Zenon DEF FieldsMeet
<1>11. FieldsMeet(f)
  BY <1>8, <1>9, <1>10, MeetsJoined, SMT
<1>12. DOMAIN f1 \subseteq DOMAIN f
  <2> HIDE DEF f
  <2>1. f = f1 ++ g1 ++ g2 ++ g3 ++ g4
    BY DEF f
  <2>. QED
    BY <2>1, JoinKeeps, SMT
<1>13. \A k \in DOMAIN f1 : f[k] = f1[k]
  <2>1. ASSUME NEW x, NEW y, NEW k \in DOMAIN x
        PROVE  k \in DOMAIN (x ++ y) /\ (x ++ y)[k] = x[k]
    BY DEF ++
  <2> SUFFICES ASSUME NEW k \in DOMAIN f1 PROVE f[k] = f1[k]
    OBVIOUS
  <2> DEFINE x == f1 ++ g1
             y == x ++ g2
             z == y ++ g3
  <2>2. k \in DOMAIN x /\ x[k] = f1[k]
    BY <2>1
  <2> HIDE DEF x
  <2>3. k \in DOMAIN y /\ y[k] = x[k]
    BY <2>1, <2>2
  <2> HIDE DEF y
  <2>4. k \in DOMAIN z /\ z[k] = y[k]
    BY <2>1, <2>3
  <2> HIDE DEF z
  <2>5. (z ++ g4)[k] = z[k]
    BY <2>1, <2>4
  <2>. QED
    BY <2>2, <2>3, <2>4, <2>5 DEF x, y, z
<1> HIDE DEF f
<1>14. d.of = f
  BY LeavesAre
<1>15. /\ IsObject(d, {"name", "model_profile", "transport", "capabilities", "compatible"})
       /\ StringsIn(d, {"name", "model_profile", "provider", "error_class", "error_message"})
       /\ Property(d, "supported_skills", Strings) /\ Property(d, "compatible", IsBoolean)
  <2>1. {"name", "model_profile", "transport", "capabilities", "compatible"} \in SUBSET DOMAIN f
    BY <1>3, <1>12
  <2>. QED
    BY <1>5, <1>11, <2>1, MeetsObject, Zenon
<1> HIDE DEF d
<1>16. d.of["transport"] = Word(a.transport) /\ d.of["capabilities"] = q
  <2>1. "transport" \in DOMAIN f1 /\ "capabilities" \in DOMAIN f1
    BY <1>3
  <2>2. d.of["transport"] = f1["transport"] /\ d.of["capabilities"] = f1["capabilities"]
    BY <1>13, <1>14, <2>1, Zenon
  <2>. QED
    BY <1>3, <2>2
<1>17. Property(d, "transport", LAMBDA w : OneOf({"local", "remote"}, w))
  <2>1. OneOf({"local", "remote"}, Word(a.transport))
    BY <1>6, Zenon DEF OneOf, IsString
  <2>. QED
    BY <1>16, <2>1, Zenon DEF Property
<1>18. Property(d, "capabilities", LAMBDA w : CapabilitiesSchema(w,
          {"tool_calling", "structured_output", "max_context_tokens", "reasoning_level"}))
  BY <1>2, <1>16, Zenon DEF Property
<1>19. EntrySchema(d)
  BY <1>15, <1>17, <1>18, Zenon DEF EntrySchema
<1>. QED
  BY <1>1, <1>19

LEMMA BuiltinsKnown ==
    ASSUME NEW i \in DOMAIN BuiltinAdapters
    PROVE  LET a == Normalized(BuiltinAdapters[i]) IN
           /\ Sequence(a.skills) /\ a.transport \in {"local", "remote"}
           /\ {"tool_calling", "structured_output", "max_context_tokens", "reasoning_level"}
                 \subseteq DOMAIN CapabilitySet(a.can)
<1> DEFINE Good(a) ==
             /\ Sequence(a.skills) /\ a.transport \in {"local", "remote"}
             /\ {"tool_calling", "structured_output", "max_context_tokens", "reasoning_level"}
                   \subseteq DOMAIN CapabilitySet(a.can)
           Enough == {"tool_calling", "structured_output", "max_context_tokens", "reasoning_level"}
<1>1. Enough \subseteq DOMAIN CapabilitySet(Large) /\ Enough \subseteq DOMAIN CapabilitySet(Small)
  <2>1. ASSUME NEW can, can.tool_calling, can.structured_output, can.max_context_tokens # 0,
               can.reasoning_level # ""
        PROVE  Enough \subseteq DOMAIN CapabilitySet(can)
    <3> DEFINE a == Field("tool_calling", Boolean(TRUE), can.tool_calling)
               b == Field("structured_output", Boolean(TRUE), can.structured_output)
               c == Field("max_context_tokens", Integer(can.max_context_tokens), can.max_context_tokens # 0)
               e == Field("reasoning_level", Word(can.reasoning_level), can.reasoning_level # "")
               f == CapabilitySet(can)
    <3>1. f = a ++ b ++ c ++ e
      BY DEF CapabilitySet
    <3>2. /\ "tool_calling" \in DOMAIN a /\ "structured_output" \in DOMAIN b
          /\ "max_context_tokens" \in DOMAIN c /\ "reasoning_level" \in DOMAIN e
      BY <2>1, FieldIs
    <3> HIDE DEF a, b, c, e, f
    <3>3. DOMAIN f = DOMAIN a \union DOMAIN b \union DOMAIN c \union DOMAIN e
      BY <3>1 DEF ++
    <3>4. Enough \subseteq DOMAIN f
      BY <3>2, <3>3
    <3>. QED
      BY <3>4 DEF f
  <2>2. /\ Large.tool_calling = TRUE /\ Large.structured_output = TRUE
        /\ Large.max_context_tokens = 32000 /\ Large.reasoning_level = "medium"
    BY DEF Large
  <2>3. /\ Small.tool_calling = TRUE /\ Small.structured_output = TRUE
        /\ Small.max_context_tokens = 4000 /\ Small.reasoning_level = "minimal"
    BY DEF Small, Large
  <2>4. Large.tool_calling /\ Large.structured_output /\ Large.max_context_tokens # 0
        /\ Large.reasoning_level # ""
    BY <2>2
  <2>5. Small.tool_calling /\ Small.structured_output /\ Small.max_context_tokens # 0
        /\ Small.reasoning_level # ""
    BY <2>3
  <2>. QED
    BY <2>1, <2>4, <2>5
<1>2. ASSUME NEW a, {"can", "skills", "transport"} \subseteq DOMAIN a,
             a.transport \in {"local", "remote"}, Sequence(a.skills), a.can = Large \/ a.can = Small
      PROVE  Good(Normalized(a))
  <2>1. Normalized(a).can = a.can /\ Normalized(a).skills = a.skills
    BY <1>2, NormalizedKeeps
  <2>2. Normalized(a).transport = Transport(a.transport)
    <3> DEFINE profile == IF a.model_profile = "" THEN "fake-scripted" ELSE a.model_profile
               name == IF a.name = "" THEN profile ELSE a.name
               transport == Transport(a.transport)
    <3>1. Normalized(a) = [a EXCEPT !.model_profile = profile, !.name = name, !.transport = transport]
      BY Zenon DEF Normalized
    <3> HIDE DEF profile, name, transport
    <3>2. Normalized(a).transport = transport
      BY <1>2, <3>1
    <3>. QED
      BY <3>2 DEF transport
  <2>3. /\ Trim["local"] = "local" /\ Trim["remote"] = "remote"
        /\ Lower["local"] = "local" /\ Lower["remote"] = "remote"
    BY LowerAssumption
  <2>4. Transport("local") = "local" /\ Transport("remote") = "remote"
    BY <2>3 DEF Transport
  <2>5. Normalized(a).transport \in {"local", "remote"}
    BY <1>2, <2>2, <2>4
  <2>. QED
    BY <1>1, <1>2, <2>1, <2>5, Zenon
<1>3. ASSUME NEW name, NEW skills, Sequence(skills), NEW can, can = Large \/ can = Small
      PROVE  Good(Normalized(Local(name, skills, can)))
  <2>1. /\ {"can", "skills", "transport"} \subseteq DOMAIN Local(name, skills, can)
        /\ Local(name, skills, can).transport = "local"
        /\ Local(name, skills, can).skills = skills /\ Local(name, skills, can).can = can
    BY DEF Local
  <2> HIDE DEF Good
  <2>. QED
    BY <1>2, <1>3, <2>1
<1>4. /\ {"can", "skills", "transport"} \subseteq DOMAIN OpenAI /\ OpenAI.can = Large
      /\ OpenAI.transport = "remote" /\ OpenAI.skills = <<"repo.analyze_test_failures.remote">>
  BY DEF OpenAI
<1>5. /\ Sequence(<<>>) /\ \A a : Sequence(<<a>>)
      /\ \A a, b, c : Sequence(<<a, b, c>>)
  <2>1. <<>> \in Seq({}) /\ (\A a : <<a>> \in Seq({a})) /\ \A a, b, c : <<a, b, c>> \in Seq({a, b, c})
    OBVIOUS
  <2>. QED
    BY <2>1, Zenon DEF Sequence
<1> HIDE DEF Good
<1>6. Good(Normalized(FakeScripted))
  BY <1>3, <1>5, Zenon DEF FakeScripted
<1>7. Good(Normalized(Heuristic))
  BY <1>3, <1>5, Zenon DEF Heuristic
<1>8. Good(Normalized(OpenAI))
  BY <1>2, <1>4, <1>5
<1>9. Good(Normalized(PythonPytest)) /\ Good(Normalized(RepoFix))
  BY <1>3, <1>5, Zenon DEF PythonPytest, RepoFix
<1>10. \A a, b, c, d, e, j : j \in DOMAIN <<a, b, c, d, e>> =>
          <<a, b, c, d, e>>[j] = a \/ <<a, b, c, d, e>>[j] = b \/ <<a, b, c, d, e>>[j] = c
          \/ <<a, b, c, d, e>>[j] = d \/ <<a, b, c, d, e>>[j] = e
  OBVIOUS
<1>11. \/ BuiltinAdapters[i] = FakeScripted \/ BuiltinAdapters[i] = Heuristic
       \/ BuiltinAdapters[i] = OpenAI \/ BuiltinAdapters[i] = PythonPytest
       \/ BuiltinAdapters[i] = RepoFix
  BY <1>10 DEF BuiltinAdapters
<1>12. Good(Normalized(BuiltinAdapters[i]))
  BY <1>6, <1>7, <1>8, <1>9, <1>11, Zenon
<1>. QED
  BY <1>12 DEF Good
-----------------------------------------------------------------------------
(* The compatibility report, and the trace.                                 *)
LEMMA CompatibilityMeets ==
    ASSUME NEW n
    PROVE  ValidateJson(CompatibilityReport(n), FALSE) = "adapter_compatibility_report"
<1> DEFINE r == [i \in DOMAIN BuiltinAdapters |-> Compatibility(n, Normalized(BuiltinAdapters[i]))]
           f == [kind |-> Word("adapter_compatibility_report"), target |-> Word("target"),
                 skill |-> Word(SkillName(n)), version |-> Word(n.head["version"][1]),
                 adapters |-> Array(r)]
           d == Object(f)
<1>1. CompatibilityReport(n) = d
  BY Zenon DEF CompatibilityReport
<1>2. /\ DOMAIN f = {"kind", "target", "skill", "version", "adapters"}
      /\ f["kind"] = Word("adapter_compatibility_report") /\ f["target"] = Word("target")
      /\ f["skill"] = Word(SkillName(n)) /\ f["version"] = Word(n.head["version"][1])
      /\ f["adapters"] = Array(r)
  OBVIOUS
<1>3. EntriesOk(Array(r))
  <2>1. r = [i \in DOMAIN BuiltinAdapters |-> r[i]]
        /\ \A i \in DOMAIN BuiltinAdapters : r[i] = Compatibility(n, Normalized(BuiltinAdapters[i]))
    OBVIOUS
  <2> HIDE DEF r
  <2>2. \A i \in DOMAIN BuiltinAdapters : EntrySchema(r[i])
    BY <2>1, BuiltinsKnown, EntryMeets, Zenon
  <2>3. Sequence(BuiltinAdapters) /\ BuiltinAdapters # <<>>
    <3>1. \A a, b, c, e, g : /\ <<a, b, c, e, g>> \in Seq({a, b, c, e, g})
                             /\ <<a, b, c, e, g>> # <<>>
      OBVIOUS
    <3>. QED
      BY <3>1, Zenon DEF Sequence, BuiltinAdapters
  <2>. QED
    BY <2>1, <2>2, <2>3, ArraysAre
<1>4. d.of = f /\ d.t = "object"
  BY LeavesAre
<1>5. \A x : Word(x).t = "string" /\ Word(x).word = x
  BY LeavesAre
<1> HIDE DEF f, r, d
<1>6. ~LooksLikeCheckReport(d)
  BY <1>2, <1>4 DEF LooksLikeCheckReport
<1>7. LooksLikeCompatibilityReport(d)
  BY <1>2, <1>4, <1>5 DEF LooksLikeCompatibilityReport
<1>8. CompatibilitySchema(d)
  <2>1. IsObject(d, {"kind", "target", "skill", "version", "adapters"})
    BY <1>2, <1>4 DEF IsObject
  <2>2. Property(d, "kind", LAMBDA v : OneOf({"adapter_compatibility_report"}, v))
    <3>1. OneOf({"adapter_compatibility_report"}, Word("adapter_compatibility_report"))
      BY <1>5, Zenon DEF OneOf, IsString
    <3>2. d.of["kind"] = Word("adapter_compatibility_report")
      BY <1>2, <1>4
    <3>. QED
      BY <3>1, <3>2, Zenon DEF Property
  <2>3. StringsIn(d, {"target", "skill", "version"})
    <3>1. /\ d.of["target"].t = "string" /\ d.of["skill"].t = "string"
          /\ d.of["version"].t = "string"
      BY <1>2, <1>4, <1>5
    <3>. QED
      BY <3>1, Zenon DEF StringsIn, Property, IsString
  <2>4. Property(d, "adapters", LAMBDA v : IsArray(v, 1, EntrySchema))
    <3>1. d.of["adapters"] = Array(r)
      BY <1>2, <1>4
    <3>. QED
      BY <1>3, <3>1, Zenon DEF Property, EntriesOk
  <2>. QED
    BY <2>1, <2>2, <2>3, <2>4, Zenon DEF CompatibilitySchema
<1>9. ValidateJson(d, FALSE) = "adapter_compatibility_report"
  BY <1>6, <1>7, <1>8 DEF ValidateJson
<1>. QED
  BY <1>1, <1>9

(* The trace.                                                               *)
LEMMA EventMeets ==
    ASSUME NEW e, e.stdout.t = "string", e.stderr.t = "string"
    PROVE  EventSchema(EventDocument(e))
<1> DEFINE f == [type |-> Word(e.type), name |-> Word(e.name)]
           a == Field("status", Word(e.status), e.status # "")
           b == Field("request", e.request, e.request # Nil)
           c == Field("result", e.result, e.result # Nil)
           p == Field("error", e.error, e.error # Nil)
           q == Field("stdout", e.stdout, e.stdout.word # "")
           r == Field("stderr", e.stderr, e.stderr.word # "")
           h == f ++ a ++ b ++ c ++ p ++ q ++ r
<1>1. EventDocument(e) = Object(h)
  BY Zenon DEF EventDocument
<1>2. DOMAIN f = {"type", "name"} /\ f["type"] = Word(e.type) /\ f["name"] = Word(e.name)
  OBVIOUS
<1>3. /\ "type" \in StringKeys /\ "name" \in StringKeys /\ "status" \in StringKeys
      /\ "stdout" \in StringKeys /\ "stderr" \in StringKeys
      /\ {"type", "name", "status", "stdout", "stderr"} \in SUBSET StringKeys
  BY DEF StringKeys
<1>4. \A x : Word(x).t = "string"
  BY LeavesAre
<1>5. /\ \A key \in StringKeys : \A x : Meets(key, Word(x))
      /\ Meets("stdout", e.stdout) /\ Meets("stderr", e.stderr)
      /\ Meets("request", e.request) /\ Meets("result", e.result) /\ Meets("error", e.error)
  BY <1>3, <1>4, MeetsIf, Zenon
<1>6. /\ FieldsMeet(a) /\ FieldsMeet(b) /\ FieldsMeet(c) /\ FieldsMeet(p) /\ FieldsMeet(q)
      /\ FieldsMeet(r)
  BY <1>3, <1>5, MeetsField, Zenon
<1> HIDE DEF f, a, b, c, p, q, r
<1>7. FieldsMeet(f)
  <2>1. Meets("type", f["type"]) /\ Meets("name", f["name"])
    BY <1>2, <1>3, <1>5
  <2>. QED
    BY <1>2, <2>1, RecordsMeet, Zenon
<1>8. FieldsMeet(h)
  BY <1>6, <1>7, MeetsJoined, SMT
<1>9. {"type", "name"} \in SUBSET DOMAIN h
  <2>1. h = f ++ a ++ b ++ c ++ p ++ q ++ r
    OBVIOUS
  <2> HIDE DEF h
  <2>2. DOMAIN f \subseteq DOMAIN h
    BY <2>1, JoinKeeps, SMT
  <2>. QED
    BY <1>2, <2>2
<1> HIDE DEF h
<1>10. EventSchema(Object(h))
  BY <1>3, <1>8, <1>9, MeetsObject, Zenon DEF EventSchema
<1>. QED
  BY <1>1, <1>10

LEMMA FinalMeets ==
    ASSUME NEW status, NEW output, NEW text, text.t = "string"
    PROVE  FinalSchema(Object([status |-> Word(status)]
                              ++ Field("output", output, output # Nil)
                              ++ Field("error", text, text.word # "")))
<1> DEFINE s == [status |-> Word(status)]
           o == Field("output", output, output # Nil)
           x == Field("error", text, text.word # "")
           f == s ++ o ++ x
           d == Object(f)
<1>1. /\ DOMAIN s = {"status"} /\ s["status"] = Word(status) /\ DOMAIN o \subseteq {"output"}
      /\ DOMAIN x \subseteq {"error"} /\ \A k \in DOMAIN x : x[k] = text
  BY DEF Field
<1>2. d.of = f /\ d.t = "object" /\ \A w : Word(w).t = "string"
  BY LeavesAre
<1> HIDE DEF s, o, x, d
<1>3. DOMAIN f = DOMAIN s \union DOMAIN o \union DOMAIN x
  BY DEF ++
<1>4. \A k \in DOMAIN s : f[k] = s[k]
  BY DEF ++
<1>5. \A k \in DOMAIN x : k \notin DOMAIN s /\ k \notin DOMAIN o => f[k] = x[k]
  BY DEF ++
<1> HIDE DEF f
<1>6. "status" \in DOMAIN f /\ f["status"].t = "string"
  BY <1>1, <1>2, <1>3, <1>4
<1>7. "error" \in DOMAIN f => f["error"].t = "string"
  BY <1>1, <1>3, <1>5
<1>8. FinalSchema(d)
  BY <1>2, <1>6, <1>7, Zenon DEF FinalSchema, IsObject, StringsIn, Property, IsString
<1>. QED
  BY <1>8 DEF d, f, s, o, x

LEMMA TraceMeets ==
    ASSUME NEW t, Sequence(t.events),
           \A i \in DOMAIN t.events : t.events[i].stdout.t = "string" /\ t.events[i].stderr.t = "string",
           t.final.error.t = "string", Readable(t)
    PROVE  ValidateJson(TraceJson(t), ReadTrace(t)) = "trace"
<1> DEFINE r == [i \in DOMAIN t.events |-> EventDocument(t.events[i])]
           g == Object([status |-> Word(t.final.status)]
                       ++ Field("output", t.final.output, t.final.output # Nil)
                       ++ Field("error", t.final.error, t.final.error.word # ""))
           f == [run_id |-> Word(t.run_id), skill |-> Word(t.skill),
                 model_profile |-> Word(t.model_profile), events |-> Array(r), final |-> g]
           d == Object(f)
<1>1. TraceJson(t) = d
  BY Zenon DEF TraceJson
<1>2. /\ DOMAIN f = {"run_id", "skill", "model_profile", "events", "final"}
      /\ f["run_id"] = Word(t.run_id) /\ f["skill"] = Word(t.skill)
      /\ f["model_profile"] = Word(t.model_profile) /\ f["events"] = Array(r) /\ f["final"] = g
  OBVIOUS
<1>3. IsArray(Array(r), 0, EventSchema)
  <2>1. r = [i \in DOMAIN t.events |-> r[i]]
        /\ \A i \in DOMAIN t.events : r[i] = EventDocument(t.events[i])
    OBVIOUS
  <2> HIDE DEF r
  <2>2. \A i \in DOMAIN t.events : EventSchema(r[i])
    BY <2>1, EventMeets, Zenon
  <2>. QED
    BY <2>1, <2>2, ArraysAre
<1>4. FinalSchema(g)
  BY FinalMeets, Zenon
<1>5. d.of = f /\ d.t = "object" /\ \A x : Word(x).t = "string"
  BY LeavesAre
<1> HIDE DEF f, g, r, d
<1>6. ~LooksLikeCheckReport(d) /\ ~LooksLikeCompatibilityReport(d)
  BY <1>2, <1>5 DEF LooksLikeCheckReport, LooksLikeCompatibilityReport
<1>7. TraceSchema(d)
  <2>1. IsObject(d, {"run_id", "skill", "model_profile", "final"})
    BY <1>2, <1>5 DEF IsObject
  <2>2. StringsIn(d, {"run_id", "skill", "model_profile"})
    <3>1. /\ d.of["run_id"].t = "string" /\ d.of["skill"].t = "string"
          /\ d.of["model_profile"].t = "string"
      BY <1>2, <1>5
    <3>. QED
      BY <3>1, Zenon DEF StringsIn, Property, IsString
  <2>3. d.of["events"] = Array(r) /\ d.of["final"] = g
    BY <1>2, <1>5
  <2>4. Property(d, "events", LAMBDA v : IsArray(v, 0, EventSchema))
    BY <1>3, <2>3, Zenon DEF Property
  <2>5. Property(d, "final", FinalSchema)
    BY <1>4, <2>3, Zenon DEF Property
  <2>. QED
    BY <2>1, <2>2, <2>4, <2>5, Zenon DEF TraceSchema
<1>8. ValidateJson(d, ReadTrace(t)) = "trace"
  BY <1>6, <1>7 DEF ValidateJson, ReadTrace
<1>. QED
  BY <1>1, <1>8
-----------------------------------------------------------------------------
(* A check report, with the fields it always has and those of an error.     *)
ReportNames == {"kind", "status", "skill", "version", "artifact_path", "run_id", "trace_path",
                "changed_files", "verifier_summary", "event_count"}
ListOk(v) == v.t = "null" \/ Strings(v)
ReportOk(r) ==
    /\ r.kind = Word("check_report")
    /\ r.status = Word("passed") \/ r.status = Word("failed")
    /\ r.skill.t = "string" /\ r.version.t = "string" /\ r.artifact_path.t = "string"
    /\ r.run_id.t = "string" /\ r.trace_path.t = "string"
    /\ ListOk(r.changed_files) /\ ListOk(r.verifier_summary)
    /\ r.event_count.t = "integer"

LEMMA ReportMeets ==
    ASSUME NEW f, ReportNames \subseteq DOMAIN f, ReportOk(f),
           \A key \in {"error_class", "error_message"} : key \in DOMAIN f => f[key].t = "string"
    PROVE  ValidateJson(Object(f), FALSE) = "check_report"
<1> DEFINE d == Object(f)
<1>1. d.of = f /\ d.t = "object" /\ \A x : Word(x).t = "string" /\ Word(x).word = x
  BY LeavesAre
<1> HIDE DEF d
<1>2. LooksLikeCheckReport(d)
  BY <1>1 DEF LooksLikeCheckReport, ReportNames
<1>3. CheckReportSchema(d)
  <2>1. IsObject(d, {"kind", "status", "skill", "version", "artifact_path", "run_id", "trace_path",
                     "changed_files", "verifier_summary", "event_count"})
    BY <1>1, Zenon DEF IsObject, ReportNames
  <2>2. Property(d, "kind", LAMBDA v : OneOf({"check_report"}, v))
    <3>1. OneOf({"check_report"}, Word("check_report"))
      BY <1>1, Zenon DEF OneOf, IsString
    <3>2. d.of["kind"] = Word("check_report")
      BY <1>1, Zenon DEF ReportOk
    <3>. QED
      BY <3>1, <3>2, Zenon DEF Property
  <2>3. Property(d, "status", LAMBDA v : OneOf({"passed", "failed"}, v))
    <3>1. OneOf({"passed", "failed"}, Word("passed")) /\ OneOf({"passed", "failed"}, Word("failed"))
      BY <1>1, Zenon DEF OneOf, IsString
    <3>2. d.of["status"] = Word("passed") \/ d.of["status"] = Word("failed")
      BY <1>1, Zenon DEF ReportOk
    <3>. QED
      BY <3>1, <3>2, Zenon DEF Property
  <2>4. StringsIn(d, {"skill", "version", "artifact_path", "run_id", "trace_path", "error_class",
                      "error_message"})
    <3>1. /\ d.of["skill"].t = "string" /\ d.of["version"].t = "string"
          /\ d.of["artifact_path"].t = "string" /\ d.of["run_id"].t = "string"
          /\ d.of["trace_path"].t = "string"
      BY <1>1, Zenon DEF ReportOk
    <3>2. /\ "error_class" \in DOMAIN d.of => d.of["error_class"].t = "string"
          /\ "error_message" \in DOMAIN d.of => d.of["error_message"].t = "string"
      BY <1>1
    <3>. QED
      BY <3>1, <3>2, Zenon DEF StringsIn, Property, IsString
  <2>5. Property(d, "changed_files", Strings) /\ Property(d, "verifier_summary", Strings)
    <3>1. ListOk(d.of["changed_files"]) /\ ListOk(d.of["verifier_summary"])
      BY <1>1, Zenon DEF ReportOk
    <3>. QED
      BY <3>1, Zenon DEF Property, ListOk
  <2>6. Property(d, "event_count", IsInteger)
    <3>1. d.of["event_count"].t = "integer"
      BY <1>1, Zenon DEF ReportOk
    <3>. QED
      BY <3>1, Zenon DEF Property, IsInteger
  <2>. QED
    BY <2>1, <2>2, <2>3, <2>4, <2>5, <2>6, Zenon DEF CheckReportSchema
<1>4. ValidateJson(d, FALSE) = "check_report"
  BY <1>2, <1>3 DEF ValidateJson
<1>. QED
  BY <1>4 DEF d

LEMMA EmptyList == ListOk(Array(<<>>)) /\ ListOk(Null) /\ \A x : ListOk(Array(<<Word(x)>>))
<1>1. \A v : v.t = "array" /\ Len(v.of) >= 0 /\ (\A i \in DOMAIN v.of : v.of[i].t = "string") => ListOk(v)
  BY Zenon DEF ListOk, Strings, IsArray, IsString
<1>2. \A s : Array(s).t = "array" /\ Array(s).of = s
  BY LeavesAre
<1>3. Len(<<>>) >= 0 /\ \A i \in DOMAIN <<>> : FALSE
  OBVIOUS
<1>4. \A a : Len(<<a>>) >= 0 /\ \A i \in DOMAIN <<a>> : <<a>>[i] = a
  OBVIOUS
<1>5. ListOk(Array(<<>>))
  BY <1>1, <1>2, <1>3
<1>6. ASSUME NEW x PROVE ListOk(Array(<<Word(x)>>))
  <2> DEFINE w == Word(x)
             v == Array(<<w>>)
  <2>1. w.t = "string"
    BY LeavesAre
  <2>2. v.t = "array" /\ v.of = <<w>>
    BY <1>2
  <2> HIDE DEF w, v
  <2>3. ListOk(v)
    BY <1>1, <1>4, <2>1, <2>2
  <2>. QED
    BY <2>3 DEF v, w
<1>7. ListOk(Null)
  BY LeavesAre DEF ListOk
<1>. QED
  BY <1>5, <1>6, <1>7

LEMMA ArraysEnsured ==
    ASSUME NEW r, ReportOk(r), DOMAIN r = ReportNames
    PROVE  ReportOk(EnsureArrays(r)) /\ DOMAIN EnsureArrays(r) = ReportNames
<1> DEFINE a == IF r.changed_files = Null THEN Array(<<>>) ELSE r.changed_files
           b == IF r.verifier_summary = Null THEN Array(<<>>) ELSE r.verifier_summary
           u == [r EXCEPT !.changed_files = a, !.verifier_summary = b]
<1>1. EnsureArrays(r) = u
  BY Zenon DEF EnsureArrays
<1>2. ListOk(a) /\ ListOk(b)
  BY EmptyList, Zenon DEF ReportOk
<1> HIDE DEF a, b
<1>3. /\ DOMAIN u = ReportNames /\ u.changed_files = a /\ u.verifier_summary = b
      /\ u.kind = r.kind /\ u.status = r.status /\ u.skill = r.skill /\ u.version = r.version
      /\ u.artifact_path = r.artifact_path /\ u.run_id = r.run_id /\ u.trace_path = r.trace_path
      /\ u.event_count = r.event_count
  BY DEF ReportNames
<1> HIDE DEF u
<1>4. ReportOk(u)
  BY <1>2, <1>3, Zenon DEF ReportOk
<1>. QED
  BY <1>1, <1>3, <1>4

LEMMA ErrorReported ==
    ASSUME NEW r, ReportOk(r), DOMAIN r = ReportNames, NEW class, NEW message, message.t = "string"
    PROVE  ValidateJson(Object(WithError(r, class, message)), FALSE) = "check_report"
<1> DEFINE u == EnsureArrays(r)
           k == IF u.kind.word = "" THEN Word("check_report") ELSE u.kind
           w == [u EXCEPT !.kind = k, !.status = Word("failed")]
           e == [error_class |-> Word(class), error_message |-> message]
           f == w ++ e
<1>1. WithError(r, class, message) = f
  BY Zenon DEF WithError
<1>2. ReportOk(u) /\ DOMAIN u = ReportNames
  BY ArraysEnsured
<1> HIDE DEF u
<1>3. k = Word("check_report")
  BY <1>2, Zenon DEF ReportOk
<1> HIDE DEF k
<1>4. /\ DOMAIN w = ReportNames /\ w.changed_files = u.changed_files
      /\ w.verifier_summary = u.verifier_summary
      /\ w.kind = k /\ w.status = Word("failed") /\ w.skill = u.skill /\ w.version = u.version
      /\ w.artifact_path = u.artifact_path /\ w.run_id = u.run_id /\ w.trace_path = u.trace_path
      /\ w.event_count = u.event_count
  BY <1>2 DEF ReportNames
<1>5. /\ DOMAIN e = {"error_class", "error_message"} /\ e["error_class"] = Word(class)
      /\ e["error_message"] = message
  OBVIOUS
<1>6. Word(class).t = "string"
  BY LeavesAre
<1> HIDE DEF w, e
<1>7. DOMAIN f = ReportNames \union {"error_class", "error_message"}
  BY <1>4, <1>5 DEF ++
<1>8. \A key \in ReportNames : f[key] = w[key]
  BY <1>4 DEF ++
<1>9. "error_class" \notin ReportNames /\ "error_message" \notin ReportNames
  BY DEF ReportNames
<1>10. f["error_class"] = e["error_class"] /\ f["error_message"] = e["error_message"]
  BY <1>4, <1>5, <1>9 DEF ++
<1>11. /\ "kind" \in ReportNames /\ "status" \in ReportNames /\ "skill" \in ReportNames
       /\ "version" \in ReportNames /\ "artifact_path" \in ReportNames /\ "run_id" \in ReportNames
       /\ "trace_path" \in ReportNames /\ "changed_files" \in ReportNames
       /\ "verifier_summary" \in ReportNames /\ "event_count" \in ReportNames
  BY DEF ReportNames
<1> HIDE DEF f
<1>12. ReportOk(w)
  BY <1>2, <1>3, <1>4, Zenon DEF ReportOk
<1>13. /\ f.kind = w.kind /\ f.status = w.status /\ f.skill = w.skill /\ f.version = w.version
       /\ f.artifact_path = w.artifact_path /\ f.run_id = w.run_id /\ f.trace_path = w.trace_path
       /\ f.changed_files = w.changed_files /\ f.verifier_summary = w.verifier_summary
       /\ f.event_count = w.event_count
  BY <1>8, <1>11
<1>14. ReportOk(f)
  BY <1>12, <1>13, Zenon DEF ReportOk
<1>15. \A key \in {"error_class", "error_message"} : key \in DOMAIN f => f[key].t = "string"
  BY <1>5, <1>6, <1>10
<1>16. ReportNames \subseteq DOMAIN f
  BY <1>7
<1>17. ValidateJson(Object(f), FALSE) = "check_report"
  BY <1>14, <1>15, <1>16, ReportMeets
<1>. QED
  BY <1>1, <1>17

LEMMA NewReport ==
    ASSUME NEW ran
    PROVE  /\ ReportOk(NewCheckResult(ran)) /\ DOMAIN NewCheckResult(ran) = ReportNames
           /\ \A count : LET r == [NewCheckResult(ran) EXCEPT !.event_count = Integer(count)] IN
                 ReportOk(r) /\ DOMAIN r = ReportNames
           /\ \A skill, word, count :
                 LET r == [NewCheckResult(ran) EXCEPT !.status = Word("passed"), !.skill = Word(skill),
                              !.verifier_summary = Array(<<Word(word)>>),
                              !.event_count = Integer(count)]
                 IN ReportOk(r) /\ DOMAIN r = ReportNames
<1> DEFINE id == Word(IF ran THEN trace.run_id ELSE "")
           n == NewCheckResult(ran)
<1>1. n = [kind |-> Word("check_report"), status |-> Word("failed"), skill |-> Word(""),
           version |-> Word(""), artifact_path |-> Word(""), run_id |-> id, trace_path |-> Word(""),
           changed_files |-> Null, verifier_summary |-> Null, event_count |-> Integer(0)]
  BY DEF NewCheckResult
<1>2. id.t = "string" /\ (\A x : Word(x).t = "string") /\ (\A x : Integer(x).t = "integer")
  BY LeavesAre
<1> HIDE DEF id, n
<1>3. DOMAIN n = ReportNames
  BY <1>1 DEF ReportNames
<1>4. /\ n.kind = Word("check_report") /\ n.status = Word("failed") /\ n.skill = Word("")
      /\ n.version = Word("") /\ n.artifact_path = Word("") /\ n.run_id = id
      /\ n.trace_path = Word("") /\ n.changed_files = Null /\ n.verifier_summary = Null
      /\ n.event_count = Integer(0)
  BY <1>1
<1>5. ReportOk(n)
  BY <1>2, <1>4, EmptyList, Zenon DEF ReportOk
<1>6. ASSUME NEW count
      PROVE  LET r == [n EXCEPT !.event_count = Integer(count)] IN
             ReportOk(r) /\ DOMAIN r = ReportNames
  <2> DEFINE c == Integer(count)
             r == [n EXCEPT !.event_count = c]
  <2>1. c.t = "integer"
    BY <1>2
  <2> HIDE DEF c
  <2>2. /\ DOMAIN r = ReportNames /\ r.event_count = c
        /\ r.kind = n.kind /\ r.status = n.status /\ r.skill = n.skill /\ r.version = n.version
        /\ r.artifact_path = n.artifact_path /\ r.run_id = n.run_id /\ r.trace_path = n.trace_path
        /\ r.changed_files = n.changed_files /\ r.verifier_summary = n.verifier_summary
    BY <1>3 DEF ReportNames
  <2> HIDE DEF r
  <2>3. ReportOk(r)
    BY <1>5, <2>1, <2>2, Zenon DEF ReportOk
  <2>. QED
    BY <2>2, <2>3 DEF r, c
<1>7. ASSUME NEW skill, NEW word, NEW count
      PROVE  LET r == [n EXCEPT !.status = Word("passed"), !.skill = Word(skill),
                                !.verifier_summary = Array(<<Word(word)>>),
                                !.event_count = Integer(count)]
             IN ReportOk(r) /\ DOMAIN r = ReportNames
  <2> DEFINE c == Integer(count)
             s == Word(skill)
             p == Word("passed")
             l == Array(<<Word(word)>>)
             r == [n EXCEPT !.status = p, !.skill = s, !.verifier_summary = l, !.event_count = c]
  <2>1. c.t = "integer" /\ s.t = "string" /\ ListOk(l) /\ p = Word("passed")
    BY <1>2, EmptyList
  <2> HIDE DEF c, s, l, p
  <2>2. /\ DOMAIN r = ReportNames /\ r.event_count = c /\ r.status = p /\ r.skill = s
        /\ r.verifier_summary = l /\ r.kind = n.kind /\ r.version = n.version
        /\ r.artifact_path = n.artifact_path /\ r.run_id = n.run_id /\ r.trace_path = n.trace_path
        /\ r.changed_files = n.changed_files
    BY <1>3 DEF ReportNames
  <2> HIDE DEF r
  <2>3. ReportOk(r)
    BY <1>5, <2>1, <2>2, Zenon DEF ReportOk
  <2>. QED
    BY <2>2, <2>3 DEF r, c, s, l, p
<1>. QED
  BY <1>3, <1>5, <1>6, <1>7 DEF n

LEMMA ReportsMeet ==
    ASSUME ReportRefusal \/ (ReportRun /\ trace.final.error.t = "string")
    PROVE  ValidateJson(report', FALSE) = "check_report"
<1>1. CASE ReportRefusal
  <2>1. Word("manifest").t = "string"
    BY LeavesAre
  <2>2. report' = Object(WithError(NewCheckResult(FALSE), "InvalidInput", Word("manifest")))
    BY <1>1, Zenon DEF ReportRefusal
  <2>. QED
    BY <2>1, <2>2, NewReport, ErrorReported
<1>2. ASSUME ReportRun, trace.final.error.t = "string" PROVE ValidateJson(report', FALSE) = "check_report"
  <2> DEFINE count == Len(file.events)
             p == [NewCheckResult(TRUE) EXCEPT
                      !.status = Word("passed"), !.skill = Word(trace.skill),
                      !.verifier_summary = Array(<<Word("tests:passed")>>),
                      !.event_count = Integer(count)]
             r == [NewCheckResult(TRUE) EXCEPT !.event_count = Integer(count)]
  <2>1. \/ report' = Object(EnsureArrays(p))
        \/ report' = Object(WithError(r, "VerificationFailed", trace.final.error))
    BY <1>2, Zenon DEF ReportRun
  <2>2. ReportOk(p) /\ DOMAIN p = ReportNames /\ ReportOk(r) /\ DOMAIN r = ReportNames
    <3> HIDE DEF count
    <3>. QED
      BY NewReport, Zenon
  <2> HIDE DEF p, r
  <2>3. ValidateJson(Object(WithError(r, "VerificationFailed", trace.final.error)), FALSE)
          = "check_report"
    BY <1>2, <2>2, ErrorReported
  <2>4. ValidateJson(Object(EnsureArrays(p)), FALSE) = "check_report"
    <3> DEFINE u == EnsureArrays(p)
    <3>1. ReportOk(u) /\ DOMAIN u = ReportNames
      BY <2>2, ArraysEnsured
    <3> HIDE DEF u
    <3>2. /\ ReportNames \subseteq DOMAIN u
          /\ \A key \in {"error_class", "error_message"} : key \in DOMAIN u => u[key].t = "string"
      BY <3>1 DEF ReportNames
    <3>3. ValidateJson(Object(u), FALSE) = "check_report"
      BY <3>1, <3>2, ReportMeets
    <3>. QED
      BY <3>3 DEF u
  <2>. QED
    BY <2>1, <2>3, <2>4
<1>. QED
  BY <1>1, <1>2
-----------------------------------------------------------------------------
(* What LoadManifest leaves of a manifest that is complete.                 *)
LEMMA OneItem ==
    ASSUME NEW S, NEW w \in Seq(S), w # <<>>, Len(w) <= 1
    PROVE  w = <<w[1]>>
<1>1. Len(w) \in Nat /\ DOMAIN w = 1..Len(w) /\ w = [i \in 1..Len(w) |-> w[i]]
  OBVIOUS
<1>2. Len(w) # 0
  BY <1>1
<1>3. Len(w) = 1
  BY <1>1, <1>2
<1>. QED
  BY <1>1, <1>3

LEMMA SingleWord == \A v \in Single : v # <<>> => v[1] # ""
<1> SUFFICES ASSUME NEW v \in Single, v # <<>>, v[1] = "" PROVE FALSE
  OBVIOUS
<1>1. v \in Seq(STRING) /\ Len(v) <= 1 /\ v # <<"">>
  BY DEF Single, Words
<1>2. v = <<v[1]>>
  BY <1>1, OneItem
<1>. QED
  BY <1>1, <1>2

LEMMA CheckExpanded ==
    ASSUME NEW v \in CheckType, NEW n
    PROVE  ExpandedCheck(v, n).name = v.name /\ Sequence(ExpandedCheck(v, n).run)
<1> DEFINE a == Expand(v.cwd, n)
           b == Expand(v.cmd, n)
           c == Expand(v.run, n)
           u == [v EXCEPT !.cwd = a, !.cmd = b, !.run = c]
           w == ExpandedCheck(v, n)
<1>1. w = [v EXCEPT !.cwd = a, !.cmd = b, !.run = c, !.policy.cwd = Expand(@, n)]
  BY Zenon DEF ExpandedCheck
<1>2. DOMAIN v = {"type", "name", "cmd", "run", "cwd", "schemaRef", "policy", "exit_code"}
  BY DEF CheckType
<1> HIDE DEF a, b, c, w
<1>3. w.name = v.name /\ w.run = c
  BY <1>1, <1>2
<1>4. Sequence(v.run)
  <2>1. v.run \in Words
    BY DEF CheckType
  <2>. QED
    BY <2>1, Zenon DEF Sequence, Words
<1>5. c = [i \in DOMAIN v.run |-> c[i]]
  BY DEF c, Expand
<1>6. Sequence(c)
  BY <1>4, <1>5, SameShape
<1>. QED
  BY <1>3, <1>6, Zenon DEF w

LEMMA LoadedIs ==
    ASSUME NEW n \in ManifestType, Complete(n)
    PROVE  /\ Writable(Expanded(n)) /\ SkillName(Expanded(n)) # ""
           /\ Expanded(n).verifiers[1].name[1] # ""
<1> DEFINE a == IF n.repo_path = <<>> THEN n.repo_path ELSE <<Repo(n)>>
           b == [i \in DOMAIN n.read |-> Expand(n.read[i], n)]
           c == [i \in DOMAIN n.write |-> Expand(n.write[i], n)]
           d == [i \in DOMAIN n.verifiers |-> ExpandedCheck(n.verifiers[i], n)]
           u == Expanded(n)
<1>1. u = [n EXCEPT !.repo_path = a, !.read = b, !.write = c, !.verifiers = d]
  BY DEF Expanded
<1>2. /\ b = [i \in DOMAIN n.read |-> b[i]] /\ c = [i \in DOMAIN n.write |-> c[i]]
      /\ d = [i \in DOMAIN n.verifiers |-> d[i]]
      /\ \A i \in DOMAIN n.verifiers : d[i] = ExpandedCheck(n.verifiers[i], n)
  OBVIOUS
<1>3. DOMAIN n = ManifestFields
  BY DEF ManifestType, ManifestFields
<1> HIDE DEF a, b, c, d, u
<1>4. /\ u.read = b /\ u.write = c /\ u.verifiers = d /\ u.head = n.head /\ u.tools = n.tools
      /\ u.required = n.required /\ u.allow = n.allow /\ u.keys = n.keys /\ u.patterns = n.patterns
  BY <1>1, <1>3 DEF ManifestFields
<1>5. /\ n.head \in [Heads -> Single] /\ n.tools \in Seq(Words) /\ n.required \in Seq(Words)
      /\ n.read \in Seq(Words) /\ n.write \in Seq(Words) /\ n.allow \in Seq(Words)
      /\ n.verifiers \in Seq(CheckType) /\ n.keys \in Seq(Words) /\ n.patterns \in Seq(RuleType)
  BY DEF ManifestType
<1>6. /\ Sequence(n.tools) /\ Sequence(n.required) /\ Sequence(n.read) /\ Sequence(n.write)
      /\ Sequence(n.allow) /\ Sequence(n.verifiers) /\ Sequence(n.keys) /\ Sequence(n.patterns)
  BY <1>5, Zenon DEF Sequence
<1>7. /\ \A k \in Heads : n.head[k] # <<>>
      /\ n.tools # <<>> /\ n.required # <<>> /\ n.verifiers # <<>>
      /\ \A v \in Range(n.verifiers) : v.name # <<>>
  BY Zenon DEF Complete
<1>8. Sequence(b) /\ Sequence(c)
  <2>1. Sequence(b)
    BY <1>2, <1>6, SameShape
  <2>2. Sequence(c)
    BY <1>2, <1>6, SameShape
  <2>. QED
    BY <2>1, <2>2
<1>9. Sequence(d) /\ Len(d) = Len(n.verifiers) /\ DOMAIN d = 1..Len(n.verifiers)
  BY <1>2, <1>6, SameShape
<1>10. 1 \in DOMAIN n.verifiers /\ DOMAIN n.verifiers = DOMAIN d /\ d # <<>>
  <2> DEFINE T == CheckType
  <2>1. n.verifiers \in Seq(T)
    BY <1>5
  <2> HIDE DEF T
  <2>2. 1 \in DOMAIN n.verifiers /\ DOMAIN n.verifiers = DOMAIN d
    BY <1>7, <1>9, <2>1
  <2>3. Len(d) # 0
    BY <1>7, <1>9, <2>1
  <2>4. Len(<<>>) = 0
    OBVIOUS
  <2>. QED
    BY <2>2, <2>3, <2>4, Zenon
<1>11. \A i \in DOMAIN n.verifiers : n.verifiers[i] \in CheckType
  BY <1>5
<1>12. \A i \in DOMAIN d : d[i].name = n.verifiers[i].name /\ Sequence(d[i].run)
  <2> SUFFICES ASSUME NEW i \in DOMAIN d
               PROVE  d[i].name = n.verifiers[i].name /\ Sequence(d[i].run)
    OBVIOUS
  <2>1. n.verifiers[i] \in CheckType /\ d[i] = ExpandedCheck(n.verifiers[i], n)
    BY <1>2, <1>10, <1>11
  <2>. QED
    BY <2>1, CheckExpanded
<1>13. \A i \in DOMAIN n.allow : Sequence(n.allow[i])
  <2>1. \A i \in DOMAIN n.allow : n.allow[i] \in Words
    BY <1>5
  <2>. QED
    BY <2>1, Zenon DEF Sequence, Words
<1>14. Writable(u)
  BY <1>4, <1>6, <1>7, <1>8, <1>9, <1>10, <1>12, <1>13, Zenon DEF Writable
<1>15. SkillName(u) # ""
  <2>1. "name" \in Heads
    BY DEF Heads
  <2>2. n.head["name"] \in Single /\ n.head["name"] # <<>>
    BY <1>5, <1>7, <2>1
  <2>. QED
    BY <1>4, <2>2, SingleWord, Zenon DEF SkillName
<1>16. u.verifiers[1].name[1] # ""
  <2>1. n.verifiers[1] \in Range(n.verifiers)
    BY <1>10 DEF Range
  <2>2. n.verifiers[1].name # <<>>
    BY <1>7, <2>1
  <2>3. n.verifiers[1].name \in Single
    <3>1. n.verifiers[1] \in CheckType
      BY <1>10, <1>11
    <3>. QED
      BY <3>1 DEF CheckType
  <2>4. d[1].name = n.verifiers[1].name
    BY <1>10, <1>12
  <2>. QED
    BY <1>4, <2>2, <2>3, <2>4, SingleWord, Zenon
<1>. QED
  BY <1>14, <1>15, <1>16 DEF u

(* A manifest is of its type until it is refused or, complete, expanded.    *)
LoadInv ==
    /\ load = "scan" => m \in ManifestType
    /\ load = "loaded" => \E n \in ManifestType : Complete(n) /\ m = Expanded(n)

LEMMA BlankType == Blank \in ManifestType
<1>1. ASSUME NEW e \in Words, e \in Single, NEW s \in Seq(Words), NEW c \in Seq(CheckType), NEW r \in Seq(RuleType)
      PROVE  [head |-> [k \in Heads |-> e], needs |-> [k \in Needs |-> e],
              tools |-> s, required |-> s, repo_path |-> e, network |-> FALSE,
              read |-> s, write |-> s, allow |-> s, verifiers |-> c,
              keys |-> s, patterns |-> r] \in ManifestType
  BY <1>1 DEF ManifestType
<1>2. <<>> \in Seq(Words) /\ <<>> \in Seq(CheckType) /\ <<>> \in Seq(RuleType)
  <2>1. \A T : <<>> \in Seq(T)
    OBVIOUS
  <2>. QED
    BY <2>1
<1>. QED
  BY <1>1, <1>2, NoWords, Zenon DEF Blank

LEMMA LoadSteps == ScanInv /\ LoadInv /\ (ScanNext \/ UNCHANGED scanner) => LoadInv'
<1> SUFFICES ASSUME ScanInv, LoadInv, ScanNext \/ UNCHANGED scanner PROVE LoadInv'
  OBVIOUS
<1>1. CASE UNCHANGED scanner
  BY <1>1 DEF scanner, LoadInv
<1>2. CASE ScanNext /\ ~ScanEnds
  <2>1. load = "scan" /\ load' = load
    BY <1>2, LineByLine
  <2>2. m \in ManifestType
    BY <2>1 DEF LoadInv
  <2>3. doc \in Seq(LineType) /\ at \in 1..(Len(doc) + 1)
    BY DocumentsAssumption DEF ScanInv
  <2>4. m' \in ManifestType
    BY <1>2, <2>2, <2>3, ScannedTypes
  <2>. QED
    BY <2>1, <2>4 DEF LoadInv
<1>3. CASE ScanEnds
  <2>1. load = "scan"
    BY <1>3 DEF ScanEnds
  <2>2. m \in ManifestType
    BY <2>1 DEF LoadInv
  <2>3. \/ load' = "loaded" /\ Complete(m) /\ m' = Expanded(m)
        \/ load' = "refused"
    BY <1>3, Zenon DEF ScanEnds
  <2>4. load' # "scan"
    BY <2>3
  <2>5. load' = "loaded" => Complete(m) /\ m' = Expanded(m)
    BY <2>3
  <2>6. load' = "loaded" => \E n \in ManifestType : Complete(n) /\ m' = Expanded(n)
    BY <2>2, <2>5, Zenon
  <2>7. (\E n \in ManifestType : Complete(n) /\ m = Expanded(n))'
            <=> \E n \in ManifestType : Complete(n) /\ m' = Expanded(n)
    BY DEF Complete, Expanded
  <2>. QED
    BY <2>4, <2>6, <2>7 DEF LoadInv
<1>. QED
  BY <1>1, <1>2, <1>3

LEMMA LoadHolds == Spec => []LoadInv
<1>1. Init => LoadInv
  <2>1. ScanInit => m \in ManifestType /\ load = "scan"
    BY BlankType DEF ScanInit
  <2>. QED
    BY <2>1 DEF Init, LoadInv
<1>2. ScanInv /\ LoadInv /\ [Next]_vars => LoadInv'
  <2> SUFFICES ASSUME ScanInv, LoadInv, [Next]_vars PROVE LoadInv'
    OBVIOUS
  <2>1. ScanNext \/ UNCHANGED scanner
    BY LoadOrNot DEF Load, vars
  <2>. QED
    BY <2>1, LoadSteps
<1>. QED
  BY <1>1, <1>2, ScannerFollowsNesting, PTL DEF Spec

LEMMA LoadedManifest ==
    LoadInv /\ load = "loaded" => Writable(m) /\ SkillName(m) # "" /\ m.verifiers[1].name[1] # ""
BY LoadedIs, Zenon DEF LoadInv
-----------------------------------------------------------------------------
(* Redaction by the rules of a manifest that loaded.                        *)

LEMMA LoadedPatterns == LoadInv /\ load = "loaded" => m.patterns \in Seq(RuleType)
<1> SUFFICES ASSUME LoadInv, load = "loaded" PROVE m.patterns \in Seq(RuleType)
  OBVIOUS
<1>1. PICK n \in ManifestType : m = Expanded(n)
  BY Zenon DEF LoadInv
<1>2. "patterns" \in DOMAIN n /\ n.patterns \in Seq(RuleType)
  BY DEF ManifestType
<1>3. m.patterns = n.patterns
  BY <1>1, <1>2 DEF Expanded
<1>. QED
  BY <1>2, <1>3

(* The built-in patterns come first, so that no own one spoils them, and    *)
(* those that nothing spoils are firm as well.                              *)
LEMMA RulesAre ==
    ASSUME NEW T, NEW own \in Seq(T)
    PROVE  LET all == DefaultPatterns \o own IN
           /\ Range(all) = Range(DefaultPatterns) \union Range(own)
           /\ Range(DefaultPatterns) \union (Range(own) \ {s[2] : s \in Spoils}) \subseteq Firm(all)
<1> DEFINE all == DefaultPatterns \o own
           n == Len(DefaultPatterns)
<1>1. Sequence(DefaultPatterns) /\ Sequence(own)
  BY RedactionAssumption, Zenon DEF Sequence
<1>2. /\ n \in Nat /\ DOMAIN DefaultPatterns = 1..n /\ DOMAIN own = 1..Len(own) /\ Len(own) \in Nat
      /\ DOMAIN all = 1..(n + Len(own))
      /\ \A i \in 1..n : all[i] = DefaultPatterns[i]
      /\ \A i \in 1..Len(own) : all[n + i] = own[i]
  BY <1>1, Joined
<1> HIDE DEF all, n
<1>3. \A i \in DOMAIN all : i \in 1..n \/ \E j \in 1..Len(own) : i = n + j
  <2>1. ASSUME NEW i \in DOMAIN all, i \notin 1..n PROVE i - n \in 1..Len(own) /\ i = n + (i - n)
    BY <1>2, <2>1
  <2>. QED
    BY <2>1
<1>4. 1..n \subseteq DOMAIN all /\ \A j \in 1..Len(own) : n + j \in DOMAIN all
  BY <1>2
<1>5. Range(all) = Range(DefaultPatterns) \union Range(own)
  <2>1. ASSUME NEW p \in Range(all) PROVE p \in Range(DefaultPatterns) \union Range(own)
    <3>1. PICK i \in DOMAIN all : p = all[i]
      BY DEF Range
    <3>2. CASE i \in 1..n
      BY <1>2, <3>1, <3>2 DEF Range
    <3>3. CASE \E j \in 1..Len(own) : i = n + j
      BY <1>2, <3>1, <3>3 DEF Range
    <3>. QED
      BY <1>3, <3>2, <3>3
  <2>2. Range(DefaultPatterns) \subseteq Range(all)
    <3>1. \A i \in 1..n : DefaultPatterns[i] \in Range(all)
      BY <1>2, <1>4 DEF Range
    <3>. QED
      BY <1>2, <3>1 DEF Range
  <2>3. Range(own) \subseteq Range(all)
    <3>1. \A j \in 1..Len(own) : own[j] \in Range(all)
      BY <1>2, <1>4 DEF Range
    <3>. QED
      BY <1>2, <3>1 DEF Range
  <2>. QED
    BY <2>1, <2>2, <2>3
<1>6. ASSUME NEW p \in Range(DefaultPatterns) PROVE p \in Firm(all)
  <2>1. PICK i \in 1..n : p = DefaultPatterns[i]
    BY <1>2 DEF Range
  <2>2. Earlier(all, i) \subseteq Range(DefaultPatterns)
    <3>1. \A j \in 1..(i - 1) : j \in 1..n
      BY <1>2
    <3>. QED
      BY <1>2, <3>1 DEF Earlier, Range
  <2>3. \A S \in SUBSET Earlier(all, i) : <<S, p>> \notin Spoils
    <3>1. \A S \in SUBSET Range(DefaultPatterns) : <<S, p>> \notin Spoils
      BY RedactionAssumption, Zenon
    <3>. QED
      BY <2>2, <3>1
  <2>. QED
    BY <1>2, <1>4, <1>5, <2>1, <2>3, Zenon DEF Firm
<1>7. ASSUME NEW p \in Range(own), p \notin {s[2] : s \in Spoils} PROVE p \in Firm(all)
  <2>1. PICK j \in 1..Len(own) : p = own[j]
    BY <1>2 DEF Range
  <2>2. ASSUME NEW S, <<S, p>> \in Spoils PROVE FALSE
    <3>1. <<S, p>>[2] = p
      OBVIOUS
    <3>. QED
      BY <1>7, <2>2, <3>1, Zenon
  <2>3. p \in Range(all) /\ all[n + j] = p /\ n + j \in DOMAIN all
    BY <1>2, <1>4, <1>5, <2>1
  <2>. QED
    BY <2>2, <2>3, Zenon DEF Firm
<1>. QED
  BY <1>5, <1>6, <1>7 DEF all

LEMMA RegexesAre ==
    ASSUME NEW ps \in Seq(RuleType)
    PROVE  LET rules == [i \in DOMAIN ps |-> ps[i].regex] IN
           rules \in Seq(Words) /\ Range(rules) = {p.regex : p \in Range(ps)}
<1> DEFINE rules == [i \in DOMAIN ps |-> ps[i].regex]
<1>1. \A i \in DOMAIN ps : ps[i].regex \in Words
  <2>1. \A p \in RuleType : p.regex \in Words
    BY DEF RuleType
  <2>2. \A i \in DOMAIN ps : ps[i] \in RuleType
    OBVIOUS
  <2>. QED
    BY <2>1, <2>2, Zenon
<1>2. DOMAIN ps = 1..Len(ps) /\ Len(ps) \in Nat
  OBVIOUS
<1>3. rules \in Seq(Words)
  BY <1>1, <1>2
<1>4. DOMAIN rules = DOMAIN ps /\ \A i \in DOMAIN ps : rules[i] = ps[i].regex
  OBVIOUS
<1> HIDE DEF rules
<1>5. Range(rules) = {p.regex : p \in Range(ps)}
  <2>1. ASSUME NEW x \in Range(rules) PROVE \E p \in Range(ps) : x = p.regex
    <3>1. PICK i \in DOMAIN ps : x = ps[i].regex
      BY <1>4 DEF Range
    <3>. QED
      BY <3>1 DEF Range
  <2>2. ASSUME NEW p \in Range(ps) PROVE p.regex \in Range(rules)
    <3>1. PICK i \in DOMAIN ps : p = ps[i]
      BY DEF Range
    <3>. QED
      BY <1>4, <3>1 DEF Range
  <2>. QED
    BY <2>1, <2>2
<1>. QED
  BY <1>3, <1>5 DEF rules

LEMMA MaskedLess ==
    ASSUME NEW v, NEW keys, NEW S, NEW T, Masked(v, keys, S), T \subseteq S
    PROVE  Masked(v, keys, T)
BY DEF Masked

(* The trace on disk shows no secret that redaction can reach, of any run   *)
(* of any skill, and no manifest that loads makes redaction fail.           *)
THEOREM TraceMasked == Spec => []TraceIsMasked
<1>1. RunInv /\ LoadInv => TraceIsMasked
  <2> DEFINE keys == DefaultKeys \union {Normal[k[1]] : k \in Range(m.keys)}
             own == {p.regex : p \in Range(m.patterns)} \ {s[2] : s \in Spoils}
             rules == [i \in DOMAIN m.patterns |-> m.patterns[i].regex]
             patterns == Range(DefaultPatterns) \union own
             config == [keys |-> keys, patterns |-> DefaultPatterns \o rules]
  <2> SUFFICES ASSUME RunInv, LoadInv, file # Null
               PROVE  /\ \A e \in Range(file.events) :
                            /\ \A v \in {e.request, e.result, e.error} : Masked(v, keys, patterns)
                            /\ \A text \in {e.stdout, e.stderr} : text.shows \intersect patterns = {}
                      /\ Masked(file.final.output, keys, patterns)
                      /\ file.final.error.shows \intersect patterns = {}
    <3>1. RunInv => stage # "dead"
      BY DEF RunInv
    <3>. QED
      BY <3>1, Zenon DEF TraceIsMasked
  <2>1. file = Sanitized(trace, config) /\ TraceOk(trace) /\ load = "loaded"
    <3>1. stage = "written" /\ "written" # "manifest"
      BY DEF RunInv
    <3>. QED
      BY <3>1, ConfigIs, Zenon DEF RunInv
  <2>2. patterns \subseteq Firm(DefaultPatterns \o rules)
    <3>1. m.patterns \in Seq(RuleType)
      BY <2>1, LoadedPatterns
    <3>2. rules \in Seq(Words) /\ Range(rules) = {p.regex : p \in Range(m.patterns)}
      BY <3>1, RegexesAre
    <3> HIDE DEF rules
    <3>3. Range(DefaultPatterns) \union (Range(rules) \ {s[2] : s \in Spoils})
             \subseteq Firm(DefaultPatterns \o rules)
      BY <3>2, RulesAre, Zenon
    <3>. QED
      BY <3>2, <3>3, Zenon
  <2> HIDE DEF keys, own, rules, patterns
  <2>3. \A v : Value(v) => Masked(RedactValue(v, config), keys, patterns)
    BY <2>2, RedactValueMasks, MaskedLess, Zenon
  <2>4. ASSUME NEW x, IsText(x) PROVE RedactText(x, config).shows \intersect patterns = {}
    BY <2>2, <2>4, RedactTextHides
  <2> HIDE DEF config
  <2>5. ASSUME NEW e, EventOk(e)
        PROVE  LET f == SanitizedEvent(e, config) IN
               /\ \A v \in {f.request, f.result, f.error} : Masked(v, keys, patterns)
               /\ \A text \in {f.stdout, f.stderr} : text.shows \intersect patterns = {}
    <3> DEFINE f == SanitizedEvent(e, config)
    <3>1. /\ f.request = RedactValue(e.request, config)
          /\ f.result = RedactValue(e.result, config)
          /\ f.error = RedactValue(e.error, config)
          /\ f.stdout = RedactText(e.stdout, config)
          /\ f.stderr = RedactText(e.stderr, config)
      BY <2>5, SanitizedEventIs, Zenon
    <3>2. Value(e.request) /\ Value(e.result) /\ Value(e.error) /\ IsText(e.stdout) /\ IsText(e.stderr)
      BY <2>5, ErrorValue, Zenon DEF EventOk
    <3> HIDE DEF f
    <3>3. Masked(f.request, keys, patterns) /\ Masked(f.result, keys, patterns)
          /\ Masked(f.error, keys, patterns)
      BY <2>3, <3>1, <3>2, Zenon
    <3>4. f.stdout.shows \intersect patterns = {} /\ f.stderr.shows \intersect patterns = {}
      BY <2>4, <3>1, <3>2, Zenon
    <3>5. (\A v \in {f.request, f.result, f.error} : Masked(v, keys, patterns))
          /\ \A text \in {f.stdout, f.stderr} : text.shows \intersect patterns = {}
      BY <3>3, <3>4, Zenon
    <3>. QED
      BY <3>5 DEF f
  <2>6. /\ DOMAIN file.events = DOMAIN trace.events
        /\ \A i \in DOMAIN trace.events : file.events[i] = SanitizedEvent(trace.events[i], config)
        /\ file.final.output = RedactValue(trace.final.output, config)
        /\ file.final.error = RedactText(trace.final.error, config)
    BY <2>1, SanitizedIs, Zenon
  <2>7. ASSUME NEW e \in Range(file.events)
        PROVE  /\ \A v \in {e.request, e.result, e.error} : Masked(v, keys, patterns)
               /\ \A text \in {e.stdout, e.stderr} : text.shows \intersect patterns = {}
    <3>1. PICK i \in DOMAIN file.events : e = file.events[i]
      BY Zenon DEF Range
    <3>2. EventOk(trace.events[i]) /\ e = SanitizedEvent(trace.events[i], config)
      BY <2>1, <2>6, <3>1, Zenon DEF TraceOk
    <3>. QED
      BY <2>5, <3>2, Zenon
  <2>8. Value(trace.final.output) /\ IsText(trace.final.error)
    BY <2>1, Zenon DEF TraceOk
  <2>. QED
    BY <2>3, <2>4, <2>6, <2>7, <2>8, Zenon
<1>. QED
  BY <1>1, RunHolds, LoadHolds, PTL

(* What redaction makes of the class of an error: nothing, unless "class"   *)
(* is a sensitive key or a pattern finds something in it.                   *)
LEMMA ClassRedacted ==
    ASSUME NEW e, EventOk(e), NEW keys, NEW patterns
    PROVE  LET hides == \/ "class" \in keys
                        \/ \E q \in Range(patterns) : <<q, "PolicyViolation">> \in Finds
           IN ErrorClass(SanitizedEvent(e, [keys |-> keys, patterns |-> patterns])) = "PolicyViolation"
                <=> ErrorClass(e) = "PolicyViolation" /\ ~hides
<1> DEFINE config == [keys |-> keys, patterns |-> patterns]
           f == SanitizedEvent(e, config)
           p == <<"class">>
           v == e.error
           r == RedactValue(v, config)
           hides == \/ "class" \in keys
                    \/ \E q \in Range(patterns) : <<q, "PolicyViolation">> \in Finds
<1>1. f.error = r
  BY SanitizedEventIs, Zenon
<1>2. config.keys = keys
  OBVIOUS
<1>3. DOMAIN r = DOMAIN v
  BY DEF RedactValue
<1>4. "[REDACTED]" # "PolicyViolation" /\ "" # "PolicyViolation"
  OBVIOUS
<1>5. CASE p \notin DOMAIN v
  BY <1>1, <1>3, <1>4, <1>5, Zenon DEF ErrorClass
<1>6. ASSUME p \in DOMAIN v
      PROVE  ErrorClass(f) = "PolicyViolation" <=> ErrorClass(e) = "PolicyViolation" /\ ~hides
  <2>1. PICK class, message : IsText(message) /\ v = Failure(class, message)
    <3>1. v # Nil
      <4>1. DOMAIN Nil = {<<>>} /\ p # <<>>
        BY DEF Nil, Leaf
      <4>. QED
        BY <1>6, <4>1
    <3>. QED
      BY <3>1, Zenon DEF EventOk, ErrorOk
  <2>2. v[p] = Word(class) /\ v[<<>>] = [t |-> "map"] /\ Value(v)
    BY <2>1, FailureValue, Zenon
  <2>3. <<>> \in DOMAIN v
    BY <2>1 DEF Failure, Map, Holding
  <2>4. ASSUME NEW q \in Above(v, p) PROVE q = <<>>
    <3>1. q \in Seq(Part) /\ IsStrictPrefix(q, p)
      BY <2>2 DEF Above, Value
    <3>2. Len(q) \in Nat /\ Len(q) <= 1 /\ q # p /\ q = SubSeq(p, 1, Len(q))
      BY <3>1 DEF IsStrictPrefix, IsPrefix
    <3>3. CASE Len(q) = 1
      <4>1. q = SubSeq(p, 1, 1)
        BY <3>2, <3>3
      <4>2. SubSeq(p, 1, 1)[1] = "class"
        OBVIOUS
      <4>3. q[1] = "class"
        BY <4>1, <4>2, Zenon
      <4>4. q = p
        BY <3>1, <3>3, <4>3
      <4>. QED
        BY <3>2, <4>4, Zenon
    <3>. QED
      BY <3>1, <3>2, <3>3
  <2>5. <<>> \in Above(v, p)
    BY <2>3 DEF Above, IsStrictPrefix, IsPrefix
  <2>6. Sensitive(v, p, keys) <=> "class" \in keys
    <3>1. Last(p) = "class" /\ Len(p) = Len(<<>>) + 1
      BY DEF Last
    <3>2. [t |-> "map"].t = "map"
      OBVIOUS
    <3>. QED
      BY <2>2, <2>4, <2>5, <3>1, <3>2, RedactionAssumption, Zenon DEF Sensitive
  <2>7. v[p].t = "string" /\ ~(\E q \in Above(v, p) : v[q].t \notin {"map", "list"})
    <3>1. Word(class).t = "string" /\ [t |-> "map"].t \in {"map", "list"}
      BY DEF Word, Text
    <3>. QED
      BY <2>2, <2>4, <3>1, Zenon
  <2>8. r[p] = IF "class" \in keys THEN Redacted ELSE RedactText(Word(class), config)
    BY <1>2, <1>6, <2>2, <2>6, <2>7, Zenon DEF RedactValue
  <2>9. Redacted.word = "[REDACTED]" /\ Word(class).word = class
    BY DEF Redacted, Word, Text
  <2>10. RedactText(Word(class), config).word
            = IF Word(class).shows \intersect Range(patterns) = {} THEN class ELSE "[REDACTED]"
    BY <2>9, RedactTextHides, Scalars_
  <2>11. Word(class).shows = {g[1] : g \in {h \in Finds : h[2] = class}}
    BY DEF Word, Text
  <2>12. (Word(class).shows \intersect Range(patterns) = {})
            <=> ~(\E q \in Range(patterns) : <<q, class>> \in Finds)
    BY <2>11, RedactionAssumption
  <2>13. ErrorClass(f) = r[p].word /\ ErrorClass(e) = class
    BY <1>1, <1>3, <1>6, <2>2, <2>9, Zenon DEF ErrorClass
  <2> HIDE DEF p, v, r, config, f
  <2>14. CASE class = "PolicyViolation"
    BY <1>4, <2>8, <2>9, <2>10, <2>12, <2>13, <2>14, Zenon
  <2>15. CASE class # "PolicyViolation"
    BY <1>4, <2>8, <2>9, <2>10, <2>13, <2>15, Zenon
  <2>. QED
    BY <2>14, <2>15
<1> HIDE DEF p, v, r
<1>7. ErrorClass(f) = "PolicyViolation" <=> ErrorClass(e) = "PolicyViolation" /\ ~hides
  BY <1>5, <1>6, Zenon
<1>. QED
  BY <1>7

(* A denied tool call is found in the file if and only if the run recorded  *)
(* one and the skill's own redaction does not rewrite its class, whatever   *)
(* the run and whatever else the skill redacts.                             *)
THEOREM ViolationKept == Spec => []ViolationSurvives
<1>1. RunInv /\ LoadInv => ViolationSurvives
  <2> DEFINE keys == DefaultKeys \union {Normal[k[1]] : k \in Range(m.keys)}
             rules == [i \in DOMAIN m.patterns |-> m.patterns[i].regex]
             patterns == DefaultPatterns \o rules
             config == [keys |-> keys, patterns |-> patterns]
             hides == \/ "class" \in keys
                      \/ \E q \in Range(patterns) : <<q, "PolicyViolation">> \in Finds
  <2> SUFFICES ASSUME RunInv, LoadInv, file # Null
               PROVE  HasPolicyViolation(file) <=> HasPolicyViolation(trace) /\ ~HidesDenials(m)
    BY Zenon DEF ViolationSurvives
  <2>1. file = Sanitized(trace, config) /\ TraceOk(trace) /\ load = "loaded"
    <3>1. stage = "written" /\ "written" # "manifest"
      BY DEF RunInv
    <3>. QED
      BY <3>1, ConfigIs, Zenon DEF RunInv
  <2>2. Range(patterns) = Range(DefaultPatterns) \union {p.regex : p \in Range(m.patterns)}
    <3>1. m.patterns \in Seq(RuleType)
      BY <2>1, LoadedPatterns
    <3>2. rules \in Seq(Words) /\ Range(rules) = {p.regex : p \in Range(m.patterns)}
      BY <3>1, RegexesAre
    <3> HIDE DEF rules
    <3>3. Range(patterns) = Range(DefaultPatterns) \union Range(rules)
      BY <3>2, RulesAre, Zenon
    <3>. QED
      BY <3>2, <3>3, Zenon
  <2>3. hides <=> HidesDenials(m)
    <3>1. "class" \in keys <=> \E k \in Range(m.keys) : Normal[k[1]] = "class"
      BY RedactionAssumption
    <3> HIDE DEF patterns, keys
    <3>2. (\E q \in Range(patterns) : <<q, "PolicyViolation">> \in Finds)
             <=> \E p \in Range(m.patterns) : <<p.regex, "PolicyViolation">> \in Finds
      BY <2>2, RedactionAssumption
    <3>. QED
      BY <3>1, <3>2, Zenon DEF HidesDenials
  <2>4. /\ DOMAIN file.events = DOMAIN trace.events
        /\ \A i \in DOMAIN trace.events : file.events[i] = SanitizedEvent(trace.events[i], config)
    BY <2>1, SanitizedIs, Zenon
  <2>5. ASSUME NEW i \in DOMAIN trace.events
        PROVE  ErrorClass(file.events[i]) = "PolicyViolation"
                  <=> ErrorClass(trace.events[i]) = "PolicyViolation" /\ ~HidesDenials(m)
    <3>1. EventOk(trace.events[i])
      BY <2>1, Zenon DEF TraceOk
    <3> HIDE DEF keys, patterns
    <3>2. ErrorClass(SanitizedEvent(trace.events[i], config)) = "PolicyViolation"
             <=> ErrorClass(trace.events[i]) = "PolicyViolation" /\ ~hides
      BY <3>1, ClassRedacted, Zenon
    <3> HIDE DEF config, hides
    <3>. QED
      BY <2>3, <2>4, <3>2, Zenon
  <2>6. HasPolicyViolation(file)
          <=> \E i \in DOMAIN file.events : ErrorClass(file.events[i]) = "PolicyViolation"
    BY Zenon DEF HasPolicyViolation, Range
  <2>7. HasPolicyViolation(trace)
          <=> \E i \in DOMAIN trace.events : ErrorClass(trace.events[i]) = "PolicyViolation"
    BY Zenon DEF HasPolicyViolation, Range
  <2>. QED
    BY <2>4, <2>5, <2>6, <2>7, Zenon
<1>. QED
  BY <1>1, RunHolds, LoadHolds, PTL
-----------------------------------------------------------------------------
(* A trace in which ReadTrace misses nothing but, before the end, a status. *)
EventNamed(e) == e.type # "" /\ e.name # ""
Named(t) ==
    /\ t.run_id # "" /\ t.skill # "" /\ t.model_profile # ""
    /\ \A i \in DOMAIN t.events : EventNamed(t.events[i])

LEMMA EventsNamed ==
    /\ \A name, status, request, result, error :
          name # "" => EventNamed(AdapterEvent(name, status, request, result, error))
    /\ \A name, request, result, error :
          name # "" => EventNamed(ToolEvent(name, request, result, error))
    /\ \A name, status, request, stdout :
          name # "" => EventNamed(VerifierEvent(name, status, request, stdout))
BY DEF EventNamed, AdapterEvent, ToolEvent, VerifierEvent, Event

LEMMA ToolEventsNamed == \A e \in ToolEvents : EventNamed(e)
<1> SUFFICES ASSUME NEW e \in ToolEvents PROVE EventNamed(e)
  OBVIOUS
<1>1. PICK text \in Texts : e \in ToolEventsOf(text)
  BY DEF ToolEvents
<1>2. \E r \in ToolRequests(text) :
         \/ e = ToolEvent(r[1], r[2], r[3], Nil)
         \/ \E class : e = ToolEvent(r[1], r[2], Nil, Failure(class, text))
  BY <1>1, Zenon DEF ToolEventsOf
<1>3. PICK r \in ToolRequests(text) :
         \/ e = ToolEvent(r[1], r[2], r[3], Nil)
         \/ \E class : e = ToolEvent(r[1], r[2], Nil, Failure(class, text))
  BY <1>2, Zenon
<1>4. r[1] # ""
  <2>1. \E x, y : r = <<"fs.read", x, y>> \/ r = <<"fs.write", x, y>> \/ r = <<"fs.list", x, y>>
                  \/ r = <<"shell.exec", x, y>>
    BY Zenon DEF ToolRequests
  <2>2. r[1] \in {"fs.read", "fs.write", "fs.list", "shell.exec"}
    BY <2>1
  <2>. QED
    BY <2>2
<1>. QED
  BY <1>3, <1>4, EventsNamed, Zenon

LEMMA NamedGrows ==
    ASSUME NEW t, TraceOk(t), Named(t), NEW es, Sequence(es), \A i \in DOMAIN es : EventNamed(es[i])
    PROVE  Named([t EXCEPT !.events = @ \o es])
<1> DEFINE s == t.events \o es
           u == [t EXCEPT !.events = s]
<1>1. /\ DOMAIN t = {"run_id", "skill", "model_profile", "events", "final"} /\ Sequence(t.events)
  BY Zenon DEF TraceOk
<1>2. \A i \in DOMAIN s : EventNamed(s[i])
  <2> SUFFICES ASSUME NEW i \in DOMAIN s PROVE EventNamed(s[i])
    OBVIOUS
  <2>1. \/ \E j \in DOMAIN t.events : s[i] = t.events[j]
        \/ \E j \in DOMAIN es : s[i] = es[j]
    BY <1>1, JoinedFrom
  <2> HIDE DEF s
  <2>. QED
    BY <2>1, Zenon DEF Named
<1> HIDE DEF s
<1>3. u.events = s /\ u.run_id = t.run_id /\ u.skill = t.skill /\ u.model_profile = t.model_profile
  BY <1>1
<1> HIDE DEF u
<1>4. Named(u)
  BY <1>2, <1>3, Zenon DEF Named
<1>. QED
  BY <1>4 DEF u, s

LEMMA NamedOneMore ==
    ASSUME NEW t, TraceOk(t), Named(t), NEW e, EventNamed(e)
    PROVE  Named([t EXCEPT !.events = Append(@, e)])
<1>1. Append(t.events, e) = t.events \o <<e>>
  BY Appended, Zenon DEF TraceOk
<1>2. Sequence(<<e>>) /\ \A i \in DOMAIN <<e>> : EventNamed(<<e>>[i])
  <2>1. \A i \in DOMAIN <<e>> : <<e>>[i] = e
    OBVIOUS
  <2>. QED
    BY <2>1, ShortSequences, Zenon
<1>3. Named([t EXCEPT !.events = t.events \o <<e>>])
  BY <1>2, NamedGrows, Zenon
<1>4. [t EXCEPT !.events = Append(@, e)] = [t EXCEPT !.events = t.events \o <<e>>]
  BY <1>1
<1>. QED
  BY <1>3, <1>4

LEMMA NamedEnds ==
    ASSUME NEW t, TraceOk(t), Named(t), NEW status, NEW output, NEW message
    PROVE  /\ Named(Finished(t, status, output, message))
           /\ Finished(t, status, output, message).final.status = status
<1> DEFINE f == [status |-> status, output |-> output, error |-> message]
           u == Finished(t, status, output, message)
<1>1. u = [t EXCEPT !.final = f]
  BY Zenon DEF Finished
<1>2. f.status = status
  OBVIOUS
<1>3. DOMAIN t = {"run_id", "skill", "model_profile", "events", "final"}
  BY Zenon DEF TraceOk
<1> HIDE DEF f, u
<1>4. /\ u.final = f /\ u.events = t.events /\ u.run_id = t.run_id /\ u.skill = t.skill
      /\ u.model_profile = t.model_profile
  BY <1>1, <1>3
<1>5. Named(u)
  BY <1>4, Zenon DEF Named
<1>. QED
  BY <1>2, <1>4, <1>5 DEF u

(* From the first event on the trace is named, from the end on it has a     *)
(* status, and the report of a check is one.                                *)
DocumentInv ==
    /\ stage # "manifest" => Named(trace)
    /\ stage \in {"final", "written"} => trace.final.status # ""
    /\ report # Null => ValidateJson(report, FALSE) = "check_report"

LEMMA DocumentStarts == Init => DocumentInv
BY DEF Init, DocumentInv

LEMMA ProfilesGiven == \A a \in Range(BuiltinAdapters) \union Custom : "model_profile" \in DOMAIN a
<1>1. \A a \in Custom : "model_profile" \in DOMAIN a
  BY CustomAssumption DEF AdapterType
<1>2. /\ \A name, skills, can : "model_profile" \in DOMAIN Local(name, skills, can)
      /\ "model_profile" \in DOMAIN OpenAI
  BY DEF Local, OpenAI
<1>3. \A a, b, c, d, e : Range(<<a, b, c, d, e>>) = {a, b, c, d, e}
  BY DEF Range
<1>4. Range(BuiltinAdapters) = {FakeScripted, Heuristic, OpenAI, PythonPytest, RepoFix}
  BY <1>3 DEF BuiltinAdapters
<1>5. \A a \in Range(BuiltinAdapters) : "model_profile" \in DOMAIN a
  BY <1>2, <1>4, Zenon DEF FakeScripted, Heuristic, PythonPytest, RepoFix
<1>. QED
  BY <1>1, <1>5

LEMMA OneTuple == \A x : \A i \in DOMAIN <<x>> : <<x>>[i] = x
OBVIOUS

LEMMA SelectNamed ==
    ASSUME NEW a, Select(a), "model_profile" \in DOMAIN a, SkillName(m) # ""
    PROVE  Named(trace')
<1> DEFINE profile == adapter'.model_profile
           t == NewTrace(SkillName(m), profile)
           e == AdapterEvent("selection", "ok", Map(Leaves([skill |-> Word(t.skill)])),
                             Metadata(adapter'), Nil)
<1>1. trace' = [t EXCEPT !.events = <<e>>]
  BY Zenon DEF Select
<1>2. EventNamed(e)
  <2>1. "selection" # ""
    OBVIOUS
  <2>. QED
    BY <2>1, EventsNamed, Zenon
<1>3. profile # ""
  <2> DEFINE p == IF a.model_profile = "" THEN "fake-scripted" ELSE a.model_profile
             name == IF a.name = "" THEN p ELSE a.name
             transport == Transport(a.transport)
  <2>1. Normalized(a) = [a EXCEPT !.model_profile = p, !.name = name, !.transport = transport]
    BY Zenon DEF Normalized
  <2>2. adapter' = Normalized(a)
    BY Zenon DEF Select
  <2>3. p # ""
    OBVIOUS
  <2> HIDE DEF p, name, transport
  <2>5. Normalized(a).model_profile = p
    BY <2>1
  <2>. QED
    BY <2>2, <2>3, <2>5
<1>4. /\ DOMAIN t = {"run_id", "skill", "model_profile", "events", "final"} /\ t.run_id = "run"
      /\ t.skill = SkillName(m) /\ t.model_profile = profile
  BY DEF NewTrace
<1> HIDE DEF e, t
<1>5. /\ trace'.events = <<e>> /\ trace'.run_id = "run" /\ trace'.skill = SkillName(m)
      /\ trace'.model_profile = profile
  BY <1>1, <1>4
<1>6. \A i \in DOMAIN <<e>> : <<e>>[i] = e
  BY OneTuple, Zenon
<1>7. "run" # ""
  OBVIOUS
<1>. QED
  BY <1>2, <1>3, <1>5, <1>6, <1>7, Zenon DEF Named

LEMMA FailedNamed ==
    ASSUME NEW es, NEW message, Failed(es, message), TraceOk(trace), Named(trace),
           Sequence(es), \A i \in DOMAIN es : EventOk(es[i]) /\ EventNamed(es[i])
    PROVE  Named(trace') /\ trace'.final.status # ""
<1> DEFINE t == [trace EXCEPT !.events = @ \o es]
<1>1. trace' = Finished(t, "failed", Nil, message)
  BY Zenon DEF Failed
<1>2. TraceOk(t) /\ Named(t)
  BY TraceGrows, NamedGrows, Zenon
<1>3. "failed" # ""
  OBVIOUS
<1> DEFINE u == Finished(t, "failed", Nil, message)
<1> HIDE DEF t
<1>4. Named(u) /\ u.final.status = "failed"
  BY <1>2, NamedEnds
<1>5. trace' = u
  BY <1>1
<1> HIDE DEF u
<1>. QED
  BY <1>3, <1>4, <1>5

LEMMA RecordedNamed ==
    ASSUME NEW e, EventOk(e), EventNamed(e), TraceOk(trace), Named(trace),
           NEW status, NEW output, NEW message,
           trace' = Finished(Record(e), status, output, message)
    PROVE  Named(trace') /\ trace'.final.status = status
<1>1. TraceOk(Record(e)) /\ Named(Record(e))
  BY OneMore, NamedOneMore, Zenon DEF Record
<1> DEFINE t == Record(e)
<1>2. TraceOk(t) /\ Named(t) /\ trace' = Finished(t, status, output, message)
  BY <1>1
<1> DEFINE u == Finished(t, status, output, message)
<1> HIDE DEF t
<1>3. Named(u) /\ u.final.status = status
  BY <1>2, NamedEnds
<1>4. trace' = u
  BY <1>2
<1> HIDE DEF u
<1>. QED
  BY <1>3, <1>4

(* The checks of the preflight.                                             *)
LEMMA ChecksNamed ==
    /\ EventNamed(CapabilityOk) /\ \A status, error : EventNamed(PolicyCheck(status, error))
    /\ \A status, result, error : EventNamed(CapabilityCheck(status, result, error))
<1>1. "capability_check" # "" /\ "policy_check" # ""
  OBVIOUS
<1>. QED
  BY <1>1, EventsNamed, Zenon DEF CapabilityOk, CapabilityCheck, PolicyCheck

LEMMA PairsNamed ==
    ASSUME NEW a, NEW b, EventOk(a), EventOk(b), EventNamed(a), EventNamed(b)
    PROVE  /\ Sequence(<<a>>) /\ Sequence(<<a, b>>)
           /\ \A i \in DOMAIN <<a>> : EventOk(<<a>>[i]) /\ EventNamed(<<a>>[i])
           /\ \A i \in DOMAIN <<a, b>> : EventOk(<<a, b>>[i]) /\ EventNamed(<<a, b>>[i])
<1>1. /\ \A i \in DOMAIN <<a>> : <<a>>[i] = a
      /\ \A i \in DOMAIN <<a, b>> : <<a, b>>[i] = a \/ <<a, b>>[i] = b
  OBVIOUS
<1>. QED
  BY <1>1, ShortSequences, Zenon
-----------------------------------------------------------------------------
(* Every step leaves documents that validate.                               *)
LEMMA ReportsStay == Next => UNCHANGED report \/ ReportRefusal \/ ReportRun
BY DEF Next, Load, Select, Admit, CallTool, Execute, RefuseUnsupported, RefuseForbidden, ScopeFails,
       Verified, ExecuteFails, Failed, WriteTrace

LEMMA ReportPrimed == (ValidateJson(report, FALSE))' = ValidateJson(report', FALSE)
BY DEF ValidateJson, LooksLikeCheckReport, LooksLikeCompatibilityReport, CheckReportSchema,
       CompatibilitySchema, TraceSchema, EntrySchema, CapabilitiesSchema, EventSchema, FinalSchema,
       IsObject, Property, StringsIn, OneOf, IsString, IsInteger, IsBoolean, Strings, IsArray

LEMMA TextsAre == \A x : IsText(x) => x.t = "string"
BY DEF IsText, Text

LEMMA DocumentSteps == RunInv /\ LoadInv /\ DocumentInv /\ Next => DocumentInv'
<1> SUFFICES ASSUME RunInv, LoadInv, DocumentInv, Next PROVE DocumentInv'
  OBVIOUS
<1>a. /\ "manifest" # "preflight" /\ "manifest" # "execute" /\ "manifest" # "verify"
      /\ "manifest" # "final" /\ "manifest" # "written" /\ "final" # "preflight"
      /\ "final" # "execute" /\ "final" # "verify" /\ "final" # "written" /\ "final" # "dead"
      /\ "written" # "preflight" /\ "written" # "execute" /\ "written" # "verify"
      /\ "written" # "dead" /\ "failed" # "" /\ "passed" # ""
  OBVIOUS
<1>b. stage # "manifest" => load = "loaded" /\ TraceOk(trace) /\ Named(trace)
  BY Zenon DEF RunInv, DocumentInv
<1>c. load = "loaded" => SkillName(m) # "" /\ m.verifiers[1].name[1] # ""
  BY LoadedManifest
<1>1. report' # Null => ValidateJson(report', FALSE) = "check_report"
  <2>1. CASE UNCHANGED report
    <3>1. report # Null => ValidateJson(report, FALSE) = "check_report"
      BY Zenon DEF DocumentInv
    <3>. QED
      BY <2>1, <3>1
  <2>2. CASE ReportRefusal
    BY <2>2, ReportsMeet
  <2>3. CASE ReportRun
    <3>1. stage = "written"
      BY <2>3, Zenon DEF ReportRun
    <3>2. IsText(trace.final.error)
      BY <1>a, <1>b, <3>1, Zenon DEF TraceOk
    <3>3. trace.final.error.t = "string"
      BY <3>2, TextsAre, Zenon
    <3>. QED
      BY <2>3, <3>3, ReportsMeet
  <2>. QED
    BY <2>1, <2>2, <2>3, ReportsStay
<1>2. ASSUME Named(trace'), stage' \in {"final", "written"} => trace'.final.status # "" PROVE DocumentInv'
  <2>1. Named(trace)' <=> Named(trace')
    BY DEF Named, EventNamed
  <2>2. (ValidateJson(report, FALSE))' = ValidateJson(report', FALSE)
    BY ReportPrimed
  <2>. QED
    BY <1>1, <1>2, <2>1, <2>2, Zenon DEF DocumentInv
<1>3. ASSUME stage' = stage, trace' = trace PROVE DocumentInv'
  <2>1. CASE stage = "manifest"
    BY <1>1, <1>3, <1>a, <2>1, Zenon DEF DocumentInv
  <2>2. CASE stage # "manifest"
    <3>1. Named(trace')
      BY <1>b, <1>3, <2>2
    <3>2. stage' \in {"final", "written"} => trace'.final.status # ""
      BY <1>3 DEF DocumentInv
    <3>. QED
      BY <1>2, <3>1, <3>2
  <2>. QED
    BY <2>1, <2>2
<1>4. ASSUME Load PROVE DocumentInv'
  BY <1>3, <1>4, Zenon DEF Load
<1>5. ASSUME NEW a \in Range(BuiltinAdapters) \union Custom, Select(a) PROVE DocumentInv'
  <2>1. load = "loaded" /\ stage' = "preflight"
    BY <1>5, Zenon DEF Select
  <2>2. Named(trace')
    BY <1>5, <1>c, <2>1, ProfilesGiven, SelectNamed
  <2>. QED
    BY <1>2, <1>a, <2>1, <2>2
<1>6. ASSUME NEW es, NEW message, Failed(es, message), stage = "preflight",
             Sequence(es), \A i \in DOMAIN es : EventOk(es[i]) /\ EventNamed(es[i])
      PROVE  DocumentInv'
  <2>1. TraceOk(trace) /\ Named(trace)
    BY <1>6, <1>a, <1>b
  <2>. QED
    BY <1>2, <1>6, <2>1, FailedNamed
<1>7. ASSUME NEW text \in Texts, RefuseUnsupported(text) \/ RefuseForbidden(text) \/ ScopeFails(text)
      PROVE  DocumentInv'
  <2>1. IsText(text)
    BY TextsAreTexts
  <2>2. CASE RefuseUnsupported(text)
    BY <1>6, <2>1, <2>2, ChecksFit, ChecksNamed, PairsNamed, Zenon DEF RefuseUnsupported
  <2>3. CASE RefuseForbidden(text)
    BY <1>6, <2>1, <2>3, ChecksFit, ChecksNamed, PairsNamed, Zenon DEF RefuseForbidden
  <2>4. CASE ScopeFails(text)
    BY <1>6, <2>1, <2>4, ChecksFit, ChecksNamed, PairsNamed, Zenon DEF ScopeFails
  <2>. QED
    BY <1>7, <2>2, <2>3, <2>4
<1>8. ASSUME Admit PROVE DocumentInv'
  <2>1. stage = "preflight" /\ stage' = "execute"
        /\ trace' = [trace EXCEPT !.events = @ \o <<CapabilityOk, PolicyCheck("ok", Nil)>>]
    BY <1>8, Zenon DEF Admit
  <2>2. Sequence(<<CapabilityOk, PolicyCheck("ok", Nil)>>)
        /\ \A i \in DOMAIN <<CapabilityOk, PolicyCheck("ok", Nil)>> :
              EventNamed(<<CapabilityOk, PolicyCheck("ok", Nil)>>[i])
    BY ChecksFit, ChecksNamed, PairsNamed, Zenon
  <2>3. TraceOk(trace) /\ Named(trace)
    BY <1>a, <1>b, <2>1
  <2>4. Named(trace')
    BY <2>1, <2>2, <2>3, NamedGrows, Zenon
  <2>. QED
    BY <1>2, <1>a, <2>1, <2>4
<1>9. ASSUME NEW e \in ToolEvents, CallTool(e) PROVE DocumentInv'
  <2>1. stage = "execute" /\ stage' = stage /\ trace' = Record(e)
    BY <1>9, Zenon DEF CallTool
  <2>2. Named(trace')
    BY <1>a, <1>b, <2>1, NamedOneMore, ToolEventsNamed, Zenon DEF Record
  <2>. QED
    BY <1>2, <1>a, <2>1, <2>2
<1>10. ASSUME NEW v \in Answers, Execute(v) PROVE DocumentInv'
  <2> DEFINE e == AdapterEvent("execute", "ok", ExecuteRequest, v, Nil)
  <2>1. stage = "execute" /\ stage' = "verify"
        /\ trace' = Finished(Record(e), "", v, Word(""))
    BY <1>10, Zenon DEF Execute
  <2>2. EventOk(e)
    BY RunRequestsFit, AnswersFit, AdapterEventFits, Zenon DEF ErrorOk
  <2>3. EventNamed(e)
    <3>1. "execute" # ""
      OBVIOUS
    <3>. QED
      BY <3>1, EventsNamed, Zenon
  <2> HIDE DEF e
  <2>4. Named(trace')
    BY <1>a, <1>b, <2>1, <2>2, <2>3, RecordedNamed
  <2>. QED
    BY <1>2, <1>a, <2>1, <2>4
<1>11. ASSUME NEW v \in Answers, NEW text \in Texts, ExecuteFails(v, text) PROVE DocumentInv'
  <2> DEFINE e == AdapterEvent("execute", "failed", ExecuteRequest, v, Failure("DriverError", text))
  <2>1. stage = "execute" /\ trace' = Finished(Record(e), "failed", v, text)
    BY <1>11, Zenon DEF ExecuteFails
  <2>2. EventOk(e)
    BY RunRequestsFit, AnswersFit, AdapterEventFits, TextsAreTexts, Zenon DEF ErrorOk
  <2>3. EventNamed(e)
    <3>1. "execute" # ""
      OBVIOUS
    <3>. QED
      BY <3>1, EventsNamed, Zenon
  <2> HIDE DEF e
  <2>4. Named(trace') /\ trace'.final.status = "failed"
    BY <1>a, <1>b, <2>1, <2>2, <2>3, RecordedNamed
  <2>. QED
    BY <1>2, <1>a, <2>4
<1>12. ASSUME NEW status, status # "", NEW stdout, Verified(status, stdout), IsText(stdout)
       PROVE  DocumentInv'
  <2> DEFINE v == m.verifiers[1]
             e == VerifierEvent(v.name[1], status, Map(Leaves([type |-> Word(v.type[1])])), stdout)
             output == trace.final.output
             message == IF status = "passed" THEN Word("") ELSE Word("verifier failed")
  <2>1. stage = "verify" /\ trace' = Finished(Record(e), status, output, message)
    BY <1>12, Zenon DEF Verified
  <2>2. EventOk(e)
    BY <1>12, RunRequestsFit, VerifierEventFits, Zenon
  <2>3. EventNamed(e)
    <3>1. v.name[1] # ""
      BY <1>a, <1>b, <1>c, <2>1
    <3>. QED
      BY <3>1, EventsNamed, Zenon
  <2> HIDE DEF e, output, message
  <2>4. Named(trace') /\ trace'.final.status = status
    BY <1>a, <1>b, <2>1, <2>2, <2>3, RecordedNamed
  <2>. QED
    BY <1>2, <1>12, <2>4
<1>13. ASSUME WriteTrace PROVE DocumentInv'
  <2>1. stage = "final" /\ trace' = trace
    BY <1>13, Zenon DEF WriteTrace
  <2>2. Named(trace')
    BY <1>a, <1>b, <2>1
  <2>3. trace'.final.status # ""
    BY <2>1 DEF DocumentInv
  <2>. QED
    BY <1>2, <2>2, <2>3
<1>14. ASSUME ReportRefusal \/ ReportRun PROVE DocumentInv'
  <2>1. stage' = stage /\ trace' = trace
    BY <1>14, Zenon DEF ReportRefusal, ReportRun
  <2>. QED
    BY <1>3, <2>1
<1>15. IsText(Word("1 passed")) /\ \A text \in Texts : IsText(text)
  BY Scalars_, TextsAreTexts
<1>. QED
  BY <1>4, <1>5, <1>7, <1>8, <1>9, <1>10, <1>11, <1>12, <1>13, <1>14, <1>15, <1>a, Zenon DEF Next

LEMMA DocumentRests == DocumentInv /\ UNCHANGED vars => DocumentInv'
<1> SUFFICES ASSUME DocumentInv, UNCHANGED vars PROVE DocumentInv'
  OBVIOUS
<1>1. stage' = stage /\ trace' = trace /\ report' = report
  BY DEF vars
<1>2. Named(trace)' <=> Named(trace')
  BY DEF Named, EventNamed
<1>3. (ValidateJson(report, FALSE))' = ValidateJson(report', FALSE)
  BY ReportPrimed
<1>. QED
  BY <1>1, <1>2, <1>3, Zenon DEF DocumentInv

(* Redaction keeps what ReadTrace asks for.                                 *)
LEMMA SanitizedNamed ==
    ASSUME NEW t, TraceOk(t), Named(t), t.final.status # "", NEW keys, NEW patterns
    PROVE  LET u == Sanitized(t, [keys |-> keys, patterns |-> patterns]) IN
           ValidateJson(TraceJson(u), ReadTrace(u)) = "trace"
<1> DEFINE config == [keys |-> keys, patterns |-> patterns]
           es == [i \in DOMAIN t.events |-> SanitizedEvent(t.events[i], config)]
           o == RedactValue(t.final.output, config)
           x == RedactText(t.final.error, config)
           u == Sanitized(t, config)
<1>1. u = [t EXCEPT !.events = es, !.final.output = o, !.final.error = x]
  BY Zenon DEF Sanitized
<1>2. DOMAIN t = {"run_id", "skill", "model_profile", "events", "final"}
      /\ DOMAIN t.final = {"status", "output", "error"} /\ Sequence(t.events)
  BY Zenon DEF TraceOk
<1>3. es = [i \in DOMAIN t.events |-> es[i]]
      /\ \A i \in DOMAIN t.events : es[i] = SanitizedEvent(t.events[i], config)
  BY Zenon
<1>4. \A y : IsText(y) => RedactText(y, config).t = "string"
  BY RedactTextHides
<1>5. x.t = "string"
  BY <1>4, Zenon DEF TraceOk
<1>6. ASSUME NEW e, EventOk(e), EventNamed(e)
      PROVE  /\ EventNamed(SanitizedEvent(e, config))
             /\ SanitizedEvent(e, config).stdout.t = "string"
             /\ SanitizedEvent(e, config).stderr.t = "string"
  <2> DEFINE a == RedactValue(e.request, config)
             b == RedactValue(e.result, config)
             c == RedactValue(e.error, config)
             p == RedactText(e.stdout, config)
             r == RedactText(e.stderr, config)
             f == SanitizedEvent(e, config)
  <2>1. f = [e EXCEPT !.request = a, !.result = b, !.error = c, !.stdout = p, !.stderr = r]
    BY Zenon DEF SanitizedEvent
  <2>2. DOMAIN e = {"type", "name", "status", "request", "result", "error", "stdout", "stderr"}
    BY <1>6, Zenon DEF EventOk
  <2>3. p.t = "string" /\ r.t = "string"
    BY <1>4, <1>6, Zenon DEF EventOk
  <2> HIDE DEF a, b, c, p, r, f, config
  <2>4. f.type = e.type /\ f.name = e.name /\ f.stdout = p /\ f.stderr = r
    BY <2>1, <2>2
  <2>. QED
    BY <1>6, <2>3, <2>4 DEF EventNamed, f
<1> HIDE DEF config, es, o, x, u
<1>7. /\ u.events = es /\ u.final.error = x /\ u.final.status = t.final.status
      /\ u.run_id = t.run_id /\ u.skill = t.skill /\ u.model_profile = t.model_profile
  BY <1>1, <1>2
<1>8. Sequence(es) /\ DOMAIN es = DOMAIN t.events
  <2>1. Sequence(es)
    BY <1>2, <1>3, SameShape
  <2>. QED
    BY <1>3, <2>1
<1>9. \A i \in DOMAIN es : EventNamed(es[i]) /\ es[i].stdout.t = "string" /\ es[i].stderr.t = "string"
  <2> SUFFICES ASSUME NEW i \in DOMAIN es
               PROVE  EventNamed(es[i]) /\ es[i].stdout.t = "string" /\ es[i].stderr.t = "string"
    OBVIOUS
  <2>1. EventOk(t.events[i]) /\ EventNamed(t.events[i]) /\ es[i] = SanitizedEvent(t.events[i], config)
    BY <1>3, <1>8, Zenon DEF TraceOk, Named
  <2>. QED
    BY <1>6, <2>1
<1>10. Readable(u)
  <2>1. \A e \in Range(es) : e.type # "" /\ e.name # ""
    BY <1>9 DEF Range, EventNamed
  <2>. QED
    BY <1>7, <2>1, Zenon DEF Readable, Named
<1>11. ValidateJson(TraceJson(u), ReadTrace(u)) = "trace"
  BY <1>5, <1>7, <1>8, <1>9, <1>10, TraceMeets
<1>. QED
  BY <1>11 DEF u, config

(* Every document that the program makes passes its own validation as what  *)
(* it is: the manifest that loads, the compatibility report of it, the      *)
(* trace on disk whatever the redaction rules, and any check report.        *)
THEOREM OwnDocumentsValid == Spec => []OwnDocumentsValidate
<1>1. RunInv /\ LoadInv /\ DocumentInv => OwnDocumentsValidate
  <2> SUFFICES ASSUME RunInv, LoadInv, DocumentInv PROVE OwnDocumentsValidate
    OBVIOUS
  <2>1. ASSUME load = "loaded"
        PROVE  /\ ManifestSchema(ManifestJson(m))
               /\ ValidateJson(CompatibilityReport(m), FALSE) = "adapter_compatibility_report"
    BY <2>1, LoadedManifest, ManifestMeets, CompatibilityMeets, Zenon
  <2>2. ASSUME file # Null PROVE ValidateJson(TraceJson(file), ReadTrace(file)) = "trace"
    <3>1. stage = "written" /\ file = Sanitized(trace, Config_)
      BY <2>2, Zenon DEF RunInv
    <3>2. "written" # "manifest" /\ "written" \in {"final", "written"}
      OBVIOUS
    <3>3. TraceOk(trace) /\ Named(trace) /\ trace.final.status # ""
      BY <3>1, <3>2, Zenon DEF RunInv, DocumentInv
    <3>4. PICK keys, patterns : Config_ = [keys |-> keys, patterns |-> patterns]
      BY ConfigIs, Zenon
    <3>. QED
      BY <3>1, <3>3, <3>4, SanitizedNamed, Zenon
  <2>3. report # Null => ValidateJson(report, FALSE) = "check_report"
    BY Zenon DEF DocumentInv
  <2>. QED
    BY <2>1, <2>2, <2>3, Zenon DEF OwnDocumentsValidate
<1>2. RunInv /\ LoadInv /\ DocumentInv /\ [Next]_vars => DocumentInv'
  BY DocumentSteps, DocumentRests
<1>. QED
  BY <1>1, <1>2, DocumentStarts, RunHolds, LoadHolds, PTL DEF Spec
=============================================================================
