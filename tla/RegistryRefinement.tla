------------------------- MODULE RegistryRefinement -------------------------
(***************************************************************************)
(* The file-by-file registry seen as the atomic one.  A name is bound by   *)
(* the write of index.json that first lists a digest for it; an answer is  *)
(* what the command returned and, for a pull, the bytes of the output.     *)
(***************************************************************************)
EXTENDS Registry

BindOf(i) ==
    IF \E d \in committed : IdOf[d] = i
    THEN CHOOSE d \in committed : IdOf[d] = i
    ELSE Absent

AnswerOf(p) ==
    CASE ret[p].status = "ok" /\ ret[p].op = "publish" ->
            [op |-> "publish", ref |-> Absent, digest |-> ret[p].digest, bytes |-> Absent]
      [] ret[p].status = "ok" /\ ret[p].op = "pull" ->
            [op |-> "pull", ref |-> ret[p].ref, digest |-> ret[p].digest, bytes |-> out[p]]
      [] OTHER ->
            [op |-> "none", ref |-> Absent, digest |-> Absent, bytes |-> Absent]

Atomic == INSTANCE AtomicRegistry
            WITH Unbound <- Absent,
                 bind <- [i \in Id |-> BindOf(i)],
                 answer <- [p \in Procs |-> AnswerOf(p)]

(* With one publisher and any number of readers, and nothing outside the    *)
(* commands touching the files, the registry is the atomic one: bindings    *)
(* are permanent, confirmations and deliveries follow them.                 *)
RefinesAtomicRegistry == Atomic!Spec
=============================================================================
