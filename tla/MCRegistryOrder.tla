--------------------------- MODULE MCRegistryOrder ---------------------------
(* Small instance of RegistryOrder: the example chain of SemVer's rule on    *)
(* prereleases, two builds of one release, a name that is no semver, and a  *)
(* version of another skill.  Digests run against the order of versions.    *)
EXTENDS RegistryOrder

Number(n) == [numeric |-> TRUE, value |-> n]
Word(n) == [numeric |-> FALSE, value |-> n]
Semver(text, core, pre) == [text |-> text, wellFormed |-> TRUE, core |-> core, pre |-> pre]
Name(text) == [text |-> text, wellFormed |-> FALSE, core |-> <<0, 0, 0>>, pre |-> <<>>]

alpha == 1
beta == 2
One == <<1, 0, 0>>

MCVersionOf ==
    [d \in Digest |->
        CASE d = 9 -> Semver(4, One, <<Word(alpha)>>)
          [] d = 8 -> Semver(5, One, <<Word(alpha), Number(1)>>)
          [] d = 7 -> Semver(6, One, <<Word(alpha), Word(beta)>>)
          [] d = 6 -> Semver(8, One, <<Word(beta), Number(2)>>)
          [] d = 5 -> Semver(7, One, <<Word(beta), Number(11)>>)
          [] d = 4 -> Semver(2, One, <<>>)
          [] d = 3 -> Semver(3, One, <<>>)      \* 1.0.0+build
          [] d = 2 -> Semver(1, <<0, 10, 0>>, <<>>)
          [] d = 1 -> Name(9)
          [] d = 0 -> Name(0)
          [] d = 10 -> Semver(2, One, <<>>)]

MCSkillOf == [d \in Digest |-> IF d = 10 THEN 1 ELSE 2]
=============================================================================
