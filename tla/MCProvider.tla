----------------------------- MODULE MCProvider -----------------------------
(* A small int64 and bodies around the limit.                               *)
EXTENDS Provider

MCSizes == 0..4
=============================================================================
