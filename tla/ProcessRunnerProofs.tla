------------------------ MODULE ProcessRunnerProofs ------------------------
(***************************************************************************)
(* Proofs about ProcessRunner for any timeouts, any exit and any pace of   *)
(* the command, of what it leaves behind and of the clock.                 *)
(***************************************************************************)
EXTENDS ProcessRunner, TLAPS

Before == {"prepare", "mkdir", "content", "launch"}

\* The deadline that Launch sets.
Allowed == IF request.timeout <= 0 THEN DefaultTimeout ELSE request.timeout

(* Whoever runs or prints does so while runExecCommand waits; the deadline  *)
(* is what was asked for, or the default; a kill means it has passed.       *)
Launched ==
    /\ pc \in Before => child = "none" /\ deadline = 0
    /\ pc \in {"wait", "report"} => child # "none"
    /\ child = "none" => pipes = {}
    /\ child = "running" \/ pipes # {} => pc = "wait"
    /\ child # "none" => deadline = Allowed
    /\ child = "killed" => Expired

\* Once there is a result it stays what the end of the command was.
Reported ==
    pc \in {"cleanup", "done"} /\ child # "none" =>
        outcome = [class |-> Class, code |-> code, said |-> said]

\* The guard is written before the command starts and removed after it.
Guarded ==
    /\ pc \in {"prepare", "done"} => guard = "none"
    /\ pc \in {"launch", "wait", "report"} /\ NeedsGuard => guard = "ready"
    /\ ~reached

RunnerInv == TypeOK /\ Launched /\ Reported /\ Guarded

LEMMA RunnerInit == Init => RunnerInv
<1> SUFFICES ASSUME Init PROVE RunnerInv
    OBVIOUS
<1>1. TypeOK
  <2>1. request \in Requests /\ outcome \in Outcomes
    BY DEF Init, Outcomes
  <2>2. deadline \in Nat /\ now \in 0..deadline /\ code \in {-1, 0, 1}
    BY DEF Init
  <2>. QED
    BY <2>1, <2>2 DEF Init, TypeOK
<1>2. Launched /\ Reported /\ Guarded
  BY DEF Init, Launched, Reported, Guarded, Before
<1>. QED
  BY <1>1, <1>2 DEF RunnerInv

LEMMA RunnerStep == RunnerInv /\ [Next]_vars => RunnerInv'
<1> SUFFICES ASSUME RunnerInv, [Next]_vars PROVE RunnerInv'
    OBVIOUS
<1> USE ProcessRunnerAssumption
    DEF RunnerInv, TypeOK, Launched, Reported, Guarded, Before, Allowed, NeedsGuard,
        Expired, Processes, Failed, Class
<1>0. request.timeout \in Int
  BY DEF Requests
<1>1. CASE runCommand
  <2>1. CASE Refuse
    BY <2>1 DEF Refuse, Return, process, Outcomes, Classes
  <2>2. CASE Prepare
    BY <2>2 DEF Prepare, process
  <2>3. CASE GuardMkdir
    BY <2>3 DEF GuardMkdir, process
  <2>4. CASE GuardWrite
    BY <2>4 DEF GuardWrite, process
  <2>5. CASE GuardFails
    BY <2>5 DEF GuardFails, Return, process, Outcomes, Classes
  <2>6. CASE Launch
    BY <2>6, <1>0 DEF Launch
  <2>7. CASE LaunchFails
    BY <2>7 DEF LaunchFails, process, Outcomes, Classes
  <2>8. CASE Kill
    BY <2>8 DEF Kill
  <2>9. CASE Wait
    BY <2>9 DEF Wait, process
  <2>10. CASE Report
    BY <2>10 DEF Report, process, Outcomes, Classes
  <2>11. CASE Cleanup
    BY <2>11 DEF Cleanup, process
  <2>. QED
    BY <1>1, <2>1, <2>2, <2>3, <2>4, <2>5, <2>6, <2>7, <2>8, <2>9, <2>10, <2>11
       DEF runCommand
<1>2. CASE Command
  <2>1. ASSUME NEW c \in {0, 1}, Exits(c) PROVE RunnerInv'
    BY <2>1 DEF Exits
  <2>2. CASE Forks
    BY <2>2 DEF Forks
  <2>3. CASE LetsGo
    BY <2>3 DEF LetsGo
  <2>4. CASE Connects
    BY <2>4 DEF Connects
  <2>5. CASE Prints
    BY <2>5 DEF Prints
  <2>. QED
    BY <1>2, <2>1, <2>2, <2>3, <2>4, <2>5 DEF Command
<1>3. CASE Tick
  BY <1>3 DEF Tick, process
<1>4. CASE UNCHANGED vars
  BY <1>4 DEF vars
<1>. QED
  BY <1>1, <1>2, <1>3, <1>4 DEF Next

LEMMA RunnerInvariant == Spec => []RunnerInv
BY RunnerInit, RunnerStep, PTL DEF Spec

(* Every local of the runner keeps its type, whatever timeout is asked for, *)
(* and a command that runs has a deadline after its launch.                 *)
THEOREM TypeCorrect == Spec => []TypeOK
BY RunnerInvariant, PTL DEF RunnerInv

(* The class that a call reports is what happened to its command, for every *)
(* order of exit, kill, deadline and output.                                *)
THEOREM ReportsTheTruth == Spec => []OutcomeIsTrue
<1>1. RunnerInv => OutcomeIsTrue
  <2> SUFFICES ASSUME RunnerInv, pc = "done", child # "none" PROVE OutcomeIsTrue
      BY DEF OutcomeIsTrue
  <2>1. /\ child \in {"exited", "killed"} /\ deadline = Allowed
        /\ child = "killed" => Expired
    BY DEF RunnerInv, TypeOK, Launched
  <2>2. /\ outcome.class = Class /\ outcome.code = code /\ outcome.said = said
    BY DEF RunnerInv, Reported
  <2>3. request \in Requests /\ deadline \in Nat /\ now \in 0..deadline
    BY DEF RunnerInv, TypeOK
  <2>4. request.timeout \in Int
    BY <2>3, ProcessRunnerAssumption DEF Requests
  <2>5. Expired => now >= request.timeout
    BY <2>1, <2>3, <2>4, ProcessRunnerAssumption DEF Expired, Allowed
  <2>. QED
    BY <2>1, <2>2, <2>5 DEF OutcomeIsTrue, Class, Failed
<1>. QED
  BY <1>1, RunnerInvariant, PTL

(* All output is in the result: nobody is left to print when the call ends. *)
THEOREM OutputIsComplete == Spec => []NothingIsMissed
<1>1. RunnerInv => NothingIsMissed
  BY DEF RunnerInv, Launched, Reported, NothingIsMissed
<1>. QED
  BY <1>1, RunnerInvariant, PTL

(* No command that is denied the network runs without the guard, and no     *)
(* guard is left behind, wherever a call fails.                             *)
THEOREM NetworkStaysDenied == Spec => []GuardCoversCommand
<1>1. RunnerInv => GuardCoversCommand
  BY DEF RunnerInv, Launched, Guarded, GuardCoversCommand
<1>. QED
  BY <1>1, RunnerInvariant, PTL
=============================================================================
