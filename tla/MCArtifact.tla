----------------------------- MODULE MCArtifact -----------------------------
(* Small instance of Artifact: a manifest, two payload files and an ignored *)
(* one.  v1 and v2 are manifests of two versions; a and b are other         *)
(* contents, of different lengths.                                          *)
EXTENDS Artifact

CONSTANTS manifest, f1, f2, cache, v1, v2, a, b, release1, release2

MCSizeOf == [c \in Bytes |-> IF c = b THEN 2 ELSE 1]
MCIdentOf == [c \in Bytes |-> CASE c = v1 -> release1 [] c = v2 -> release2 [] OTHER -> Invalid]
MCDirInit == [n \in Names |-> CASE n = manifest -> v1 [] n = f2 -> Absent [] OTHER -> a]
=============================================================================
