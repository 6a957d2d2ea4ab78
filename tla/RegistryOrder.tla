---------------------------- MODULE RegistryOrder ----------------------------
(***************************************************************************)
(* The order of registry discovery (registry.go): the index is sorted at   *)
(* every publish, `registry list` sorts it again, `registry show` filters  *)
(* that list by skill and sorts once more.                                 *)
(*                                                                         *)
(* Strings are their rank in the byte order of strings: a skill, a digest  *)
(* and an alphanumeric identifier are numbers.  A version is what          *)
(* parseSemverVersion sees in it; numbers are as written, of any length,   *)
(* and MaxUint is the largest strconv.ParseUint can return.                *)
(* Concurrent publishers are the subject of Registry, not of this module.  *)
(***************************************************************************)
EXTENDS Integers, Sequences, FiniteSets

CONSTANTS Digest,       \* the published artifacts, by the rank of their digest
          SkillOf,      \* the skill an artifact's lock names
          VersionOf,    \* the version it names
          MaxUint,      \* 2^64 - 1
          MaxEntries,   \* bound: entries of the index
          Everything    \* marks a listing of all skills

Identifiers == [numeric : BOOLEAN, value : Nat]

\* wellFormed: an optional v, three dot-separated numbers without leading
\* zeros, then perhaps a prerelease of non-empty identifiers.  Build metadata
\* is cut off: versions that differ in nothing else differ in text only.
Versions == [text : Nat, wellFormed : BOOLEAN, core : [1..3 -> Nat], pre : Seq(Identifiers)]

ASSUME RegistryOrderAssumption ==
    /\ Digest \subseteq Nat
    /\ SkillOf \in [Digest -> Nat]
    /\ VersionOf \in [Digest -> Versions]
    /\ MaxUint \in Nat /\ MaxEntries \in Nat
    /\ Everything \notin Nat

VARIABLES index,    \* the entries of index.json, in order
          listing   \* the last answer of list or show, and for which skill

vars == <<index, listing>>

-----------------------------------------------------------------------------
\* parseSemverVersion: a core number beyond uint64 makes the version one of the
\* strings that are no semver.
Parses(v) == v.wellFormed /\ \A i \in 1..3 : v.core[i] <= MaxUint

\* compareUint64, and the comparison of two strings.
Compare(l, r) == IF l < r THEN -1 ELSE IF l > r THEN 1 ELSE 0

\* strconv.ParseUint on overflow: the largest uint64 (the error is dropped).
Saturated(n) == IF n > MaxUint THEN MaxUint ELSE n

\* The body of comparePrerelease's loop.
CompareIdentifiers(l, r) ==
    CASE l.numeric /\ r.numeric -> Compare(Saturated(l.value), Saturated(r.value))
      [] l.numeric /\ ~r.numeric -> -1
      [] ~l.numeric /\ r.numeric -> 1
      [] ~l.numeric /\ ~r.numeric -> Compare(l.value, r.value)

\* The positions where the loop of comparePrerelease can return.
Decisive(l, r) ==
    {i \in DOMAIN l \intersect DOMAIN r : CompareIdentifiers(l[i], r[i]) # 0}

\* Mutant: the shorter prerelease wins before the loop.
ComparePrerelease_LengthFirst(l, r) ==
    IF l = <<>> /\ r # <<>> THEN 1
    ELSE IF r = <<>> /\ l # <<>> THEN -1
    ELSE Compare(Len(l), Len(r))

ComparePrerelease(l, r) ==
    IF l = <<>> /\ r # <<>> THEN 1
    ELSE IF r = <<>> /\ l # <<>> THEN -1
    ELSE IF Decisive(l, r) = {} THEN Compare(Len(l), Len(r))
    ELSE LET first == CHOOSE i \in Decisive(l, r) : \A j \in Decisive(l, r) : i <= j
         IN  CompareIdentifiers(l[first], r[first])

CompareSemverVersions(l, r) ==
    IF l.core[1] # r.core[1] THEN Compare(l.core[1], r.core[1])
    ELSE IF l.core[2] # r.core[2] THEN Compare(l.core[2], r.core[2])
    ELSE IF l.core[3] # r.core[3] THEN Compare(l.core[3], r.core[3])
    ELSE ComparePrerelease(l.pre, r.pre)

CompareRegistryVersions(l, r) ==
    CASE Parses(l) /\ Parses(r) -> CompareSemverVersions(l, r)
      [] Parses(l) /\ ~Parses(r) -> -1
      [] ~Parses(l) /\ Parses(r) -> 1
      [] ~Parses(l) /\ ~Parses(r) -> Compare(l.text, r.text)

\* Mutant: versions that compare equal are not told apart.
Less_NoTieBreak(d, e) ==
    IF SkillOf[d] # SkillOf[e] THEN SkillOf[d] < SkillOf[e]
    ELSE CompareRegistryVersions(VersionOf[d], VersionOf[e]) < 0

\* The less function of sortRegistryEntries and of ShowRegistrySkill.
Less(d, e) ==
    IF SkillOf[d] # SkillOf[e] THEN SkillOf[d] < SkillOf[e]
    ELSE LET c == CompareRegistryVersions(VersionOf[d], VersionOf[e])
         IN  IF c # 0 THEN c < 0 ELSE d < e

\* sort.Slice: a rearrangement in which no entry is less than an earlier one.
\* It is not stable, so entries that tie may come out in either order.  An
\* index lists no digest twice here, so what is sorted is a set.
Members(s) == {s[i] : i \in DOMAIN s}
Arranged(s) == \A i, j \in DOMAIN s : i < j => ~Less(s[j], s[i])
Sortings(D) == {s \in [1..Cardinality(D) -> D] : Members(s) = D /\ Arranged(s)}

-----------------------------------------------------------------------------
Init ==
    /\ index = <<>>
    /\ listing = [skill |-> Everything, entries |-> <<>>]

\* The name is free: a listed digest is not listed again, and another digest
\* for a listed skill@version is rejected.
Free(d) ==
    \A e \in Members(index) :
        /\ e # d
        /\ SkillOf[e] = SkillOf[d] => VersionOf[e].text # VersionOf[d].text

\* PublishArtifact: the new entry is appended and the index sorted.
Publish(d) ==
    /\ Len(index) < MaxEntries
    /\ Free(d)
    /\ index' \in Sortings(Members(index) \union {d})
    /\ UNCHANGED listing

\* ListRegistryEntries sorts a copy of the index.
List ==
    /\ \E s \in Sortings(Members(index)) : listing' = [skill |-> Everything, entries |-> s]
    /\ UNCHANGED index

OfSkill(skill) == {d \in Members(index) : SkillOf[d] = skill}

\* Mutant: show keeps every skill up to the one asked for.
Show_UpToSkill(skill) ==
    /\ \E s \in Sortings({d \in Members(index) : SkillOf[d] <= skill}) :
          listing' = [skill |-> skill, entries |-> s]
    /\ UNCHANGED index

\* ShowRegistrySkill; no entry of the skill is NotFound, here an empty answer.
Show(skill) ==
    /\ \E s \in Sortings(OfSkill(skill)) : listing' = [skill |-> skill, entries |-> s]
    /\ UNCHANGED index

Next ==
    \/ \E d \in Digest : Publish(d) \/ Show(SkillOf[d])
    \/ List

Spec == Init /\ [][Next]_vars

-----------------------------------------------------------------------------
(* The type invariant; what show answers is about the skill asked for.      *)
TypeOK ==
    /\ index \in Seq(Digest)
    /\ listing \in [skill : Nat \union {Everything}, entries : Seq(Digest)]
    /\ listing.skill # Everything => \A d \in Members(listing.entries) : SkillOf[d] = listing.skill

\* SemVer's own precedence, on the numbers as written.
IdentifierBelow(l, r) ==
    \/ l.numeric /\ ~r.numeric
    \/ l.numeric = r.numeric /\ l.value < r.value

PrereleaseBelow(l, r) ==
    \/ l # <<>> /\ r = <<>>
    \/ /\ l # <<>> /\ r # <<>>
       /\ \E k \in 1..Len(r) :
             /\ \A i \in 1..(k - 1) : i \in DOMAIN l /\ l[i] = r[i]
             /\ k = Len(l) + 1 \/ (k \in DOMAIN l /\ IdentifierBelow(l[k], r[k]))

CoreBelow(l, r) == \E k \in 1..3 : l[k] < r[k] /\ \A i \in 1..(k - 1) : l[i] = r[i]

Precedes(v, w) ==
    \/ v.wellFormed /\ ~w.wellFormed
    \/ ~v.wellFormed /\ ~w.wellFormed /\ v.text < w.text
    \/ /\ v.wellFormed /\ w.wellFormed
       /\ CoreBelow(v.core, w.core) \/ (v.core = w.core /\ PrereleaseBelow(v.pre, w.pre))

(* Within a skill every answer lists valid semver versions in ascending     *)
(* semantic order, and the other strings after them in string order.        *)
SemverOrder ==
    \A i, j \in DOMAIN listing.entries :
        /\ i < j
        /\ SkillOf[listing.entries[i]] = SkillOf[listing.entries[j]]
        => ~Precedes(VersionOf[listing.entries[j]], VersionOf[listing.entries[i]])

\* The position of an entry is the number of entries before it.
Canonical(s) ==
    \A i \in DOMAIN s : \A j \in DOMAIN s : j < i <=> Less(s[j], s[i])

(* Discovery is deterministic: an answer depends on which artifacts are     *)
(* published and not on the order they were published in, although          *)
(* sort.Slice is unstable and versions that differ in build metadata tie.   *)
DiscoveryIsCanonical == Canonical(index) /\ Canonical(listing.entries)
=============================================================================
