--------------------------- MODULE AtomicRegistry ---------------------------
(***************************************************************************)
(* What the registry promises (README "Registry", specs section 13): each  *)
(* skill@version is bound to one digest, once and for ever; a publish is   *)
(* confirmed only for a bound digest; a pull hands out exactly the bytes   *)
(* of the digest its reference is bound to.  Any operation may also fail,  *)
(* which shows here as an empty answer.                                    *)
(***************************************************************************)
CONSTANTS Procs, Digest, Id, IdOf, Unbound

VARIABLES
    bind,    \* Id -> the digest it is bound to, or Unbound
    answer   \* Procs -> the last successful answer, or NoAnswer

NoAnswer == [op |-> "none", ref |-> Unbound, digest |-> Unbound, bytes |-> Unbound]

Init ==
    /\ bind = [i \in Id |-> Unbound]
    /\ answer = [p \in Procs |-> NoAnswer]

Bind(d) ==
    /\ bind[IdOf[d]] = Unbound
    /\ bind' = [bind EXCEPT ![IdOf[d]] = d]
    /\ UNCHANGED answer

Confirm(p, d) ==
    /\ bind[IdOf[d]] = d
    /\ answer' = [answer EXCEPT ![p] = [op |-> "publish", ref |-> Unbound,
                                        digest |-> d, bytes |-> Unbound]]
    /\ UNCHANGED bind

Deliver(p, ref, d) ==
    /\ ref \in {d, IdOf[d]}
    /\ bind[IdOf[d]] = d
    /\ answer' = [answer EXCEPT ![p] = [op |-> "pull", ref |-> ref,
                                        digest |-> d, bytes |-> d]]
    /\ UNCHANGED bind

Forget(p) ==
    /\ answer' = [answer EXCEPT ![p] = NoAnswer]
    /\ UNCHANGED bind

Next ==
    \/ \E d \in Digest : Bind(d)
    \/ \E p \in Procs, d \in Digest : Confirm(p, d)
    \/ \E p \in Procs, ref \in Digest \union Id, d \in Digest : Deliver(p, ref, d)
    \/ \E p \in Procs : Forget(p)

Spec == Init /\ [][Next]_<<bind, answer>>
=============================================================================
