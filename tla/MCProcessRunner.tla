-------------------------- MODULE MCProcessRunner --------------------------
(* Timeouts around zero, and two that differ from the default.               *)
EXTENDS ProcessRunner

MCTimeouts == {-1, 0, 1, 3}
=============================================================================
