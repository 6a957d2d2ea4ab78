----------------------------- MODULE MCRegistry -----------------------------
(* Small instance of Registry.  d1 and d2 are two builds of the same         *)
(* skill@version i1, d3 is a build of i2; source sN holds dN.                *)
EXTENDS RegistryRefinement

CONSTANTS d1, d2, d3, i1, i2, s1, s2, s3, p1, p2, r1, r2

MCIdOf == [d \in Digest |-> IF d = d3 THEN i2 ELSE i1]
MCSrcInit == [s \in Source |-> CASE s = s1 -> d1 [] s = s2 -> d2 [] s = s3 -> d3]
=============================================================================
