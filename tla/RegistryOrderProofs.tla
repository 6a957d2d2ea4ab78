------------------------- MODULE RegistryOrderProofs -------------------------
(***************************************************************************)
(* Proofs about RegistryOrder for any artifacts, any versions and any      *)
(* width of the numbers: the comparison is total and antisymmetric, so     *)
(* discovery is deterministic, and it agrees with SemVer as long as the    *)
(* numbers fit.                                                            *)
(***************************************************************************)
EXTENDS RegistryOrder, FiniteSetTheorems, WellFoundedInduction, TLAPS

Below(i, j) == i < j

(* A nonempty set of positions has a first one.                             *)
LEMMA FirstExists ==
    ASSUME NEW D, D \subseteq Nat, D # {}
    PROVE  \E i \in D : \A j \in D : i <= j
<1>1. OpToRel(<, Nat) = OpToRel(Below, Nat)
  BY DEF OpToRel, Below
<1>2. IsWellFoundedOn(OpToRel(Below, Nat), Nat)
  BY NatLessThanWellFounded, <1>1
<1>3. PICK i \in D : \A j \in D : <<j, i>> \notin OpToRel(Below, Nat)
  BY <1>2, WFMin
<1>4. ASSUME NEW j \in D PROVE i <= j
  <2>1. i \in Nat /\ j \in Nat /\ <<j, i>> \notin OpToRel(Below, Nat)
    BY <1>3
  <2>2. ~(j < i)
    BY <2>1 DEF OpToRel, Below
  <2>. QED
    BY <2>1, <2>2
<1>. QED
  BY <1>4

-----------------------------------------------------------------------------
(* Each comparison turns round with its arguments.                          *)
LEMMA CompareOpposite ==
    ASSUME NEW l \in Int, NEW r \in Int
    PROVE  /\ Compare(l, r) \in {-1, 0, 1}
           /\ Compare(r, l) = 0 - Compare(l, r)
  BY DEF Compare

LEMMA IdentifiersOpposite ==
    ASSUME NEW l \in Identifiers, NEW r \in Identifiers
    PROVE  /\ CompareIdentifiers(l, r) \in {-1, 0, 1}
           /\ CompareIdentifiers(r, l) = 0 - CompareIdentifiers(l, r)
<1>1. Saturated(l.value) \in Nat /\ Saturated(r.value) \in Nat
  BY RegistryOrderAssumption DEF Saturated, Identifiers
<1>2. l.value \in Nat /\ r.value \in Nat /\ l.numeric \in BOOLEAN /\ r.numeric \in BOOLEAN
  BY DEF Identifiers
<1>3. CASE l.numeric /\ r.numeric
  BY <1>1, <1>3, CompareOpposite DEF CompareIdentifiers
<1>4. CASE ~l.numeric /\ ~r.numeric
  BY <1>2, <1>4, CompareOpposite DEF CompareIdentifiers
<1>5. CASE l.numeric /\ ~r.numeric
  <2>1. CompareIdentifiers(l, r) = -1 /\ CompareIdentifiers(r, l) = 1
    BY <1>5 DEF CompareIdentifiers
  <2>. QED
    BY <2>1
<1>6. CASE ~l.numeric /\ r.numeric
  <2>1. CompareIdentifiers(l, r) = 1 /\ CompareIdentifiers(r, l) = -1
    BY <1>6 DEF CompareIdentifiers
  <2>. QED
    BY <2>1
<1>. QED
  BY <1>2, <1>3, <1>4, <1>5, <1>6

LEMMA DecisiveOpposite ==
    ASSUME NEW l \in Seq(Identifiers), NEW r \in Seq(Identifiers)
    PROVE  /\ Decisive(r, l) = Decisive(l, r)
           /\ Decisive(l, r) \subseteq Nat
<1>1. ASSUME NEW i \in DOMAIN l \intersect DOMAIN r
      PROVE  CompareIdentifiers(l[i], r[i]) # 0 <=> CompareIdentifiers(r[i], l[i]) # 0
  <2>1. l[i] \in Identifiers /\ r[i] \in Identifiers
    OBVIOUS
  <2>. QED
    BY <2>1, IdentifiersOpposite
<1>2. DOMAIN l \subseteq Nat
  OBVIOUS
<1>. QED
  BY <1>1, <1>2 DEF Decisive

LEMMA PrereleaseOpposite ==
    ASSUME NEW l \in Seq(Identifiers), NEW r \in Seq(Identifiers)
    PROVE  /\ ComparePrerelease(l, r) \in {-1, 0, 1}
           /\ ComparePrerelease(r, l) = 0 - ComparePrerelease(l, r)
<1>1. CASE l = <<>> \/ r = <<>>
  <2>1. Len(<<>>) = 0 /\ Decisive(<<>>, <<>>) = {}
    BY DEF Decisive
  <2>. QED
    BY <1>1, <2>1 DEF ComparePrerelease, Compare
<1>2. CASE l # <<>> /\ r # <<>> /\ Decisive(l, r) = {}
  <2>1. Len(l) \in Int /\ Len(r) \in Int
    OBVIOUS
  <2>. QED
    BY <1>2, <2>1, DecisiveOpposite, CompareOpposite DEF ComparePrerelease
<1>3. CASE l # <<>> /\ r # <<>> /\ Decisive(l, r) # {}
  <2> DEFINE first == CHOOSE i \in Decisive(l, r) : \A j \in Decisive(l, r) : i <= j
  <2>1. first \in Decisive(l, r)
    BY <1>3, DecisiveOpposite, FirstExists
  <2>2. l[first] \in Identifiers /\ r[first] \in Identifiers
    BY <2>1 DEF Decisive
  <2>3. ComparePrerelease(l, r) = CompareIdentifiers(l[first], r[first])
    BY <1>3 DEF ComparePrerelease
  <2>4. ComparePrerelease(r, l) = CompareIdentifiers(r[first], l[first])
    BY <1>3, DecisiveOpposite DEF ComparePrerelease
  <2>. QED
    BY <2>2, <2>3, <2>4, IdentifiersOpposite
<1>. QED
  BY <1>1, <1>2, <1>3

LEMMA VersionsOpposite ==
    ASSUME NEW v \in Versions, NEW w \in Versions
    PROVE  /\ CompareRegistryVersions(v, w) \in {-1, 0, 1}
           /\ CompareRegistryVersions(w, v) = 0 - CompareRegistryVersions(v, w)
<1>1. /\ v.text \in Int /\ w.text \in Int
      /\ v.pre \in Seq(Identifiers) /\ w.pre \in Seq(Identifiers)
      /\ \A i \in 1..3 : v.core[i] \in Int /\ w.core[i] \in Int
  BY DEF Versions
<1>2. CASE Parses(v) /\ Parses(w)
  <2>1. 1 \in 1..3 /\ 2 \in 1..3 /\ 3 \in 1..3
    OBVIOUS
  <2>2. /\ CompareSemverVersions(v, w) \in {-1, 0, 1}
        /\ CompareSemverVersions(w, v) = 0 - CompareSemverVersions(v, w)
    BY <1>1, <2>1, CompareOpposite, PrereleaseOpposite DEF CompareSemverVersions
  <2>. QED
    BY <1>2, <2>2 DEF CompareRegistryVersions
<1>3. CASE ~Parses(v) /\ ~Parses(w)
  BY <1>1, <1>3, CompareOpposite DEF CompareRegistryVersions
<1>4. CASE Parses(v) /\ ~Parses(w)
  <2>1. CompareRegistryVersions(v, w) = -1 /\ CompareRegistryVersions(w, v) = 1
    BY <1>4 DEF CompareRegistryVersions
  <2>. QED
    BY <2>1
<1>5. CASE ~Parses(v) /\ Parses(w)
  <2>1. CompareRegistryVersions(v, w) = 1 /\ CompareRegistryVersions(w, v) = -1
    BY <1>5 DEF CompareRegistryVersions
  <2>. QED
    BY <2>1
<1>. QED
  BY <1>2, <1>3, <1>4, <1>5

(* No two artifacts tie, and none is before itself.                         *)
LEMMA LessIsTotal ==
    ASSUME NEW d \in Digest, NEW e \in Digest
    PROVE  Less(d, e) \/ Less(e, d) <=> d # e
<1>1. /\ SkillOf[d] \in Nat /\ SkillOf[e] \in Nat /\ d \in Nat /\ e \in Nat
      /\ VersionOf[d] \in Versions /\ VersionOf[e] \in Versions
  BY RegistryOrderAssumption
<1> DEFINE c == CompareRegistryVersions(VersionOf[d], VersionOf[e])
<1>2. /\ c \in {-1, 0, 1}
      /\ CompareRegistryVersions(VersionOf[e], VersionOf[d]) = 0 - c
  BY <1>1, VersionsOpposite
<1>3. CASE SkillOf[d] # SkillOf[e]
  BY <1>1, <1>3 DEF Less
<1>4. CASE SkillOf[d] = SkillOf[e] /\ c # 0
  <2>1. Less(d, e) <=> c < 0
    BY <1>4 DEF Less
  <2>2. Less(e, d) <=> 0 - c < 0
    BY <1>2, <1>4 DEF Less
  <2>3. d = e => c = 0 - c
    BY <1>2
  <2>. QED
    BY <1>2, <1>4, <2>1, <2>2, <2>3
<1>5. CASE SkillOf[d] = SkillOf[e] /\ c = 0
  <2>1. CompareRegistryVersions(VersionOf[e], VersionOf[d]) = 0
    BY <1>2, <1>5
  <2>2. Less(d, e) <=> d < e
    BY <1>5 DEF Less
  <2>3. Less(e, d) <=> e < d
    BY <1>5, <2>1 DEF Less
  <2>. QED
    BY <1>1, <2>2, <2>3
<1>. QED
  BY <1>3, <1>4, <1>5

-----------------------------------------------------------------------------
(* Sorting.                                                                 *)
LEMMA SortingsAre ==
    ASSUME NEW D \in SUBSET Digest, IsFiniteSet(D), NEW s \in Sortings(D)
    PROVE  s \in Seq(Digest) /\ Members(s) = D /\ Arranged(s) /\ Canonical(s)
<1>1. Cardinality(D) \in Nat
  BY FS_CardinalityType
<1>2. s \in [1..Cardinality(D) -> D] /\ Members(s) = D /\ Arranged(s)
  BY DEF Sortings
<1>3. s \in Seq(Digest)
  BY <1>1, <1>2
<1>4. \A i, j \in DOMAIN s : s[i] = s[j] => i = j
  <2>1. s \in Surjection(1..Cardinality(D), D)
    BY <1>2 DEF Surjection, Members
  <2>2. IsFiniteSet(1..Cardinality(D)) /\ Cardinality(1..Cardinality(D)) = Cardinality(D)
    BY <1>1, FS_Interval
  <2>3. s \in Injection(1..Cardinality(D), D)
    BY <2>1, <2>2, FS_SurjSameCardinalityImpliesInj
  <2>. QED
    BY <1>2, <2>3 DEF Injection, IsInjective
<1>5. ASSUME NEW i \in DOMAIN s, NEW j \in DOMAIN s PROVE j < i <=> Less(s[j], s[i])
  <2>1. i \in Nat /\ j \in Nat /\ s[i] \in Digest /\ s[j] \in Digest
    BY <1>1, <1>2
  <2>2. Less(s[j], s[i]) \/ Less(s[i], s[j]) <=> s[i] # s[j]
    BY <2>1, LessIsTotal
  <2>3. (i < j => ~Less(s[j], s[i])) /\ (j < i => ~Less(s[i], s[j]))
    BY <1>2 DEF Arranged
  <2>4. s[i] = s[j] <=> i = j
    BY <1>4
  <2>. QED
    BY <2>1, <2>2, <2>3, <2>4
<1>. QED
  BY <1>2, <1>3, <1>5 DEF Canonical

LEMMA MembersFinite ==
    ASSUME NEW s \in Seq(Digest)
    PROVE  Members(s) \in SUBSET Digest /\ IsFiniteSet(Members(s))
<1>1. s \in Surjection(1..Len(s), Members(s))
  BY DEF Surjection, Members
<1>2. IsFiniteSet(1..Len(s))
  BY FS_Interval
<1>. QED
  BY <1>1, <1>2, FS_Surjection DEF Members

-----------------------------------------------------------------------------
(* Index and listing hold published digests, in an order without inversions; *)
(* that is all the order needs to be unique.                                *)
OrderInv ==
    /\ TypeOK
    /\ Arranged(listing.entries)
    /\ DiscoveryIsCanonical

LEMMA OrderInit == Init => OrderInv
  BY DEF Init, OrderInv, TypeOK, Arranged, Canonical, DiscoveryIsCanonical

(* Every action answers with a sorting.                                     *)
LEMMA OrderStep == OrderInv /\ [Next]_vars => OrderInv'
<1> SUFFICES ASSUME OrderInv, [Next]_vars PROVE OrderInv'
    OBVIOUS
<1> USE DEF OrderInv, DiscoveryIsCanonical
<1>1. /\ index \in Seq(Digest) /\ Members(index) \in SUBSET Digest
      /\ IsFiniteSet(Members(index))
  BY MembersFinite DEF TypeOK
<1>2. ASSUME NEW d \in Digest, Publish(d) PROVE OrderInv'
  <2>1. IsFiniteSet(Members(index) \union {d}) /\ Members(index) \union {d} \in SUBSET Digest
    BY <1>1, FS_AddElement
  <2>2. index' \in Seq(Digest) /\ Canonical(index')
    BY <1>2, <2>1, SortingsAre DEF Publish
  <2>. QED
    BY <1>2, <2>2 DEF Publish, TypeOK
<1>3. ASSUME NEW skill \in Nat, Show(skill) PROVE OrderInv'
  <2>1. PICK s \in Sortings(OfSkill(skill)) : listing' = [skill |-> skill, entries |-> s]
    BY <1>3 DEF Show
  <2>2. OfSkill(skill) \in SUBSET Digest /\ IsFiniteSet(OfSkill(skill))
    BY <1>1, FS_Subset DEF OfSkill
  <2>3. s \in Seq(Digest) /\ Members(s) = OfSkill(skill) /\ Arranged(s) /\ Canonical(s)
    BY <2>2, SortingsAre
  <2>4. \A d \in Members(s) : SkillOf[d] = skill
    BY <2>3 DEF OfSkill
  <2>5. listing'.skill = skill /\ listing'.entries = s
    BY <2>1
  <2>6. listing' \in [skill : Nat \union {Everything}, entries : Seq(Digest)]
    BY <2>1, <2>3
  <2>. QED
    BY <1>3, <2>3, <2>4, <2>5, <2>6 DEF Show, TypeOK
<1>4. CASE List
  <2>1. PICK s \in Sortings(Members(index)) : listing' = [skill |-> Everything, entries |-> s]
    BY <1>4 DEF List
  <2>2. s \in Seq(Digest) /\ Arranged(s) /\ Canonical(s)
    BY <1>1, SortingsAre
  <2>. QED
    BY <1>4, <2>1, <2>2 DEF List, TypeOK
<1>5. CASE UNCHANGED vars
  BY <1>5 DEF vars, TypeOK
<1>6. \A d \in Digest : SkillOf[d] \in Nat
  BY RegistryOrderAssumption
<1>. QED
  BY <1>2, <1>3, <1>4, <1>5, <1>6 DEF Next

LEMMA OrderInvariant == Spec => []OrderInv
  BY OrderInit, OrderStep, PTL DEF Spec

(* What list and show answer is well-formed, and about the skill asked for. *)
THEOREM TypeCorrect == Spec => []TypeOK
<1>1. OrderInv => TypeOK
  BY DEF OrderInv
<1>. QED
  BY <1>1, OrderInvariant, PTL

(* The order of discovery depends only on what is published: for all        *)
(* versions, semver or not, and whatever ties the comparison leaves.        *)
THEOREM DiscoveryIsDeterministic == Spec => []DiscoveryIsCanonical
<1>1. OrderInv => DiscoveryIsCanonical
  BY DEF OrderInv
<1>. QED
  BY <1>1, OrderInvariant, PTL

-----------------------------------------------------------------------------
(* SemVer.  Numbers fit when ParseUint returns them as they are written.    *)
Fits(pre) == \A i \in DOMAIN pre : pre[i].numeric => pre[i].value <= MaxUint

NumbersFit ==
    \A d \in Digest : VersionOf[d].wellFormed =>
        /\ \A i \in 1..3 : VersionOf[d].core[i] <= MaxUint
        /\ Fits(VersionOf[d].pre)

LEMMA IdentifiersFollowSemver ==
    ASSUME NEW l \in Identifiers, NEW r \in Identifiers,
           l.numeric => l.value <= MaxUint, r.numeric => r.value <= MaxUint,
           IdentifierBelow(l, r)
    PROVE  CompareIdentifiers(l, r) = -1
<1>1. /\ l.value \in Nat /\ r.value \in Nat /\ MaxUint \in Nat
      /\ l.numeric \in BOOLEAN /\ r.numeric \in BOOLEAN
  BY RegistryOrderAssumption DEF Identifiers
<1>2. CASE l.numeric /\ ~r.numeric
  BY <1>2 DEF CompareIdentifiers
<1>3. CASE l.numeric = r.numeric /\ l.value < r.value
  <2>1. Compare(l.value, r.value) = -1
    BY <1>1, <1>3 DEF Compare
  <2>2. CASE l.numeric
    <3>1. Saturated(l.value) = l.value /\ Saturated(r.value) = r.value
      BY <1>1, <1>3, <2>2 DEF Saturated
    <3>. QED
      BY <1>3, <2>1, <2>2, <3>1 DEF CompareIdentifiers
  <2>3. CASE ~l.numeric
    BY <1>3, <2>1, <2>3 DEF CompareIdentifiers
  <2>. QED
    BY <2>2, <2>3
<1>. QED
  BY <1>2, <1>3 DEF IdentifierBelow

(* The loop returns at the first identifier in which the two differ.        *)
LEMMA PrereleaseFollowsSemver ==
    ASSUME NEW l \in Seq(Identifiers), NEW r \in Seq(Identifiers),
           Fits(l), Fits(r), PrereleaseBelow(l, r)
    PROVE  ComparePrerelease(l, r) = -1
<1>1. CASE l # <<>> /\ r = <<>>
  BY <1>1 DEF ComparePrerelease
<1>2. CASE l # <<>> /\ r # <<>>
  <2>1. PICK k \in 1..Len(r) :
           /\ \A i \in 1..(k - 1) : i \in DOMAIN l /\ l[i] = r[i]
           /\ k = Len(l) + 1 \/ (k \in DOMAIN l /\ IdentifierBelow(l[k], r[k]))
    BY <1>2 DEF PrereleaseBelow
  <2>2. ASSUME NEW i \in Decisive(l, r) PROVE k <= i
    <3>1. i \in Nat /\ i >= 1 /\ i \in DOMAIN l /\ i \in DOMAIN r
      BY DEF Decisive
    <3>2. l[i] \in Identifiers /\ CompareIdentifiers(l[i], r[i]) # 0
      BY <3>1 DEF Decisive
    <3>3. l[i] # r[i]
      <4>1. CompareIdentifiers(l[i], l[i]) = 0 - CompareIdentifiers(l[i], l[i])
        BY <3>2, IdentifiersOpposite
      <4>2. CompareIdentifiers(l[i], l[i]) \in {-1, 0, 1}
        BY <3>2, IdentifiersOpposite
      <4>. QED
        BY <3>2, <4>1, <4>2
    <3>. QED
      BY <2>1, <3>1, <3>3
  <2>3. CASE k = Len(l) + 1
    <3>1. Decisive(l, r) = {}
      BY <2>2, <2>3 DEF Decisive
    <3>2. Compare(Len(l), Len(r)) = -1
      BY <2>1, <2>3 DEF Compare
    <3>. QED
      BY <1>2, <3>1, <3>2 DEF ComparePrerelease
  <2>4. CASE k \in DOMAIN l /\ IdentifierBelow(l[k], r[k])
    <3>1. k \in DOMAIN r /\ l[k] \in Identifiers /\ r[k] \in Identifiers
      BY <2>1, <2>4
    <3>2. CompareIdentifiers(l[k], r[k]) = -1
      BY <2>4, <3>1, IdentifiersFollowSemver DEF Fits
    <3>3. k \in Decisive(l, r)
      BY <2>4, <3>1, <3>2 DEF Decisive
    <3> DEFINE first == CHOOSE i \in Decisive(l, r) : \A j \in Decisive(l, r) : i <= j
    <3>4. first \in Decisive(l, r) /\ first <= k
      BY <2>2, <3>3
    <3>5. first \in Nat /\ k \in Nat
      BY <3>4, <2>1, DecisiveOpposite
    <3>6. first = k
      BY <2>2, <3>4, <3>5
    <3>. QED
      BY <1>2, <3>2, <3>3, <3>6 DEF ComparePrerelease
  <2>. QED
    BY <2>1, <2>3, <2>4
<1>. QED
  BY <1>1, <1>2 DEF PrereleaseBelow

(* An artifact whose version precedes comes first.                          *)
LEMMA LessFollowsSemver ==
    ASSUME NumbersFit, NEW d \in Digest, NEW e \in Digest, SkillOf[d] = SkillOf[e],
           Precedes(VersionOf[d], VersionOf[e])
    PROVE  Less(d, e)
<1> DEFINE v == VersionOf[d]
           w == VersionOf[e]
<1>1. /\ v \in Versions /\ w \in Versions
      /\ Parses(v) <=> v.wellFormed
      /\ Parses(w) <=> w.wellFormed
  BY RegistryOrderAssumption DEF NumbersFit, Parses
<1>2. /\ v.text \in Nat /\ w.text \in Nat
      /\ v.pre \in Seq(Identifiers) /\ w.pre \in Seq(Identifiers)
      /\ v.core \in [1..3 -> Nat] /\ w.core \in [1..3 -> Nat]
  BY <1>1 DEF Versions
<1>3. CASE v.wellFormed /\ ~w.wellFormed
  BY <1>1, <1>3 DEF Less, CompareRegistryVersions
<1>4. CASE ~v.wellFormed /\ ~w.wellFormed /\ v.text < w.text
  BY <1>1, <1>2, <1>4 DEF Less, CompareRegistryVersions, Compare
<1>5. CASE v.wellFormed /\ w.wellFormed /\ CoreBelow(v.core, w.core)
  <2>1. CompareSemverVersions(v, w) = -1
    BY <1>2, <1>5 DEF CoreBelow, CompareSemverVersions, Compare
  <2>. QED
    BY <1>1, <1>5, <2>1 DEF Less, CompareRegistryVersions
<1>6. CASE v.wellFormed /\ w.wellFormed /\ v.core = w.core /\ PrereleaseBelow(v.pre, w.pre)
  <2>1. ComparePrerelease(v.pre, w.pre) = -1
    BY <1>2, <1>6, PrereleaseFollowsSemver DEF NumbersFit
  <2>2. CompareSemverVersions(v, w) = -1
    BY <1>6, <2>1 DEF CompareSemverVersions
  <2>. QED
    BY <1>1, <1>6, <2>2 DEF Less, CompareRegistryVersions
<1>. QED
  BY <1>3, <1>4, <1>5, <1>6 DEF Precedes

(* Discovery lists semver versions in semantic order and other strings      *)
(* after them, if no version holds a number beyond 64 bits.                 *)
THEOREM DiscoveryFollowsSemver ==
    ASSUME NumbersFit
    PROVE  Spec => []SemverOrder
<1>1. OrderInv => SemverOrder
  <2> SUFFICES ASSUME OrderInv,
                      NEW i \in DOMAIN listing.entries, NEW j \in DOMAIN listing.entries,
                      i < j, SkillOf[listing.entries[i]] = SkillOf[listing.entries[j]],
                      Precedes(VersionOf[listing.entries[j]], VersionOf[listing.entries[i]])
               PROVE  FALSE
    BY DEF SemverOrder
  <2>1. listing.entries[i] \in Digest /\ listing.entries[j] \in Digest
    BY DEF OrderInv, TypeOK
  <2>2. Less(listing.entries[j], listing.entries[i])
    BY <2>1, LessFollowsSemver
  <2>. QED
    BY <2>2 DEF OrderInv, Arranged
<1>. QED
  BY <1>1, OrderInvariant, PTL
=============================================================================
