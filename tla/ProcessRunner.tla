--------------------------- MODULE ProcessRunner ---------------------------
(* One command started for shell.exec or for a verifier (process_runner.go): *)
(* how it is launched when the manifest denies the network, how its deadline *)
(* races its exit and its output, and what is reported and cleaned up.  The  *)
(* command, a process it may leave behind and the clock are the environment. *)
EXTENDS Integers

CONSTANTS DefaultTimeout,   \* 30 seconds
          Timeouts          \* what a caller asks for; any integer

ASSUME ProcessRunnerAssumption == DefaultTimeout \in Nat \ {0} /\ Timeouts \subseteq Int

VARIABLES request,   \* [kind, network, timeout]
          pc,
          guard,     \* the directory with sitecustomize.py, on PYTHONPATH
          child,     \* the command's process
          code,      \* its exit code
          pipes,     \* who holds stdout and stderr open
          said,      \* the marker has been printed
          deadline, now,
          outcome,   \* what runCommand returns
          reached    \* history: the command got past a denied network

vars == <<request, pc, guard, child, code, pipes, said, deadline, now, outcome, reached>>
process == <<child, code, pipes, said, reached>>

Kinds == {"empty", "python", "git", "other"}
Requests == [kind : Kinds, network : BOOLEAN, timeout : Timeouts]
Processes == {"child", "grandchild"}
Classes == {"none", "InvalidInput", "PolicyViolation", "DriverError", "Timeout"}
Pending == [class |-> "pending", code |-> 0, said |-> FALSE]
Outcomes == [class : Classes, code : {-1, 0, 1}, said : BOOLEAN] \union {Pending}

Init ==
    /\ request \in Requests
    /\ pc = "prepare" /\ guard = "none" /\ outcome = Pending
    /\ child = "none" /\ code = 0 /\ pipes = {} /\ said = FALSE /\ reached = FALSE
    /\ deadline = 0 /\ now = 0

Return(class) ==
    /\ outcome' = [class |-> class, code |-> 0, said |-> FALSE]
    /\ pc' = "done"

-----------------------------------------------------------------------------
\* prepareCommandLaunch: with the network denied, Python gets a guard, some git
\* commands are known to stay offline, and everything else is refused.
Refuse ==
    /\ pc = "prepare"
    /\ request.kind = "empty" \/ (request.kind = "other" /\ ~request.network)
    /\ Return(IF request.kind = "empty" THEN "InvalidInput" ELSE "PolicyViolation")
    /\ UNCHANGED <<request, guard, process, deadline, now>>

NeedsGuard == request.kind = "python" /\ ~request.network

Prepare ==
    /\ pc = "prepare"
    /\ request.kind # "empty" /\ (request.kind = "other" => request.network)
    /\ pc' = IF NeedsGuard THEN "mkdir" ELSE "launch"
    /\ UNCHANGED <<request, guard, process, deadline, now, outcome>>

GuardMkdir ==
    /\ pc = "mkdir"
    /\ guard' = "empty" /\ pc' = "content"
    /\ UNCHANGED <<request, process, deadline, now, outcome>>

GuardWrite ==
    /\ pc = "content"
    /\ guard' = "ready" /\ pc' = "launch"
    /\ UNCHANGED <<request, process, deadline, now, outcome>>

\* Mutant: the directory stays behind when its file cannot be written.
GuardFails_Leaves ==
    /\ pc \in {"mkdir", "content"}
    /\ Return("DriverError")
    /\ UNCHANGED <<request, guard, process, deadline, now>>

\* MkdirTemp fails, or WriteFile, after which the directory is removed.
GuardFails ==
    /\ pc \in {"mkdir", "content"}
    /\ guard' = "none"
    /\ Return("DriverError")
    /\ UNCHANGED <<request, process, deadline, now>>

-----------------------------------------------------------------------------
\* Mutant: a timeout of zero or less is taken as it is.
Launch_NoDefault ==
    /\ pc = "launch"
    /\ deadline' = request.timeout
    /\ child' = "running" /\ pipes' = {"child"} /\ pc' = "wait"
    /\ UNCHANGED <<request, guard, code, said, reached, now, outcome>>

\* runExecCommand: context.WithTimeout and cmd.Start.
Launch ==
    /\ pc = "launch"
    /\ deadline' = IF request.timeout <= 0 THEN DefaultTimeout ELSE request.timeout
    /\ child' = "running" /\ pipes' = {"child"} /\ pc' = "wait"
    /\ UNCHANGED <<request, guard, code, said, reached, now, outcome>>

\* No such executable, no working directory, or too slow a start.
LaunchFails ==
    /\ pc = "launch"
    /\ outcome' \in [class : {"DriverError", "Timeout"}, code : {-1}, said : {FALSE}]
    /\ pc' = "cleanup"
    /\ UNCHANGED <<request, guard, process, deadline, now>>

Expired == now >= deadline

\* Mutant: the deadline is looked at once the output has ended.
Kill_AfterOutput ==
    /\ child = "running" /\ pipes = {} /\ Expired
    /\ child' = "killed" /\ code' = -1
    /\ UNCHANGED <<request, pc, guard, pipes, said, reached, deadline, now, outcome>>

\* The context kills the command, not the processes it started.
Kill ==
    /\ child = "running" /\ Expired
    /\ child' = "killed" /\ code' = -1
    /\ pipes' = pipes \ {"child"}
    /\ UNCHANGED <<request, pc, guard, said, reached, deadline, now, outcome>>

\* Mutant: the output is taken as soon as the command has exited.
Wait_NoDrain ==
    /\ pc = "wait"
    /\ child # "running"
    /\ pc' = "report"
    /\ UNCHANGED <<request, guard, process, deadline, now, outcome>>

\* cmd.Wait: the process first, then everyone who holds its output; cmd has no
\* WaitDelay.
Wait ==
    /\ pc = "wait"
    /\ child # "running" /\ pipes = {}
    /\ pc' = "report"
    /\ UNCHANGED <<request, guard, process, deadline, now, outcome>>

Failed == child = "killed" \/ code # 0

\* Mutant: the error of the command hides the deadline.
Class_ErrorFirst == IF Failed THEN IF said THEN "PolicyViolation" ELSE "DriverError"
                    ELSE IF Expired THEN "Timeout" ELSE "none"

\* The end of runExecCommand, and runCommand on the marker.
Class == IF ~Failed /\ ~Expired THEN "none"
         ELSE IF said THEN "PolicyViolation"
         ELSE IF Expired THEN "Timeout" ELSE "DriverError"

Report ==
    /\ pc = "report"
    /\ outcome' = [class |-> Class, code |-> code, said |-> said]
    /\ pc' = "cleanup"
    /\ UNCHANGED <<request, guard, process, deadline, now>>

\* The deferred launch.Cleanup.
Cleanup ==
    /\ pc = "cleanup"
    /\ guard' = "none" /\ pc' = "done"
    /\ UNCHANGED <<request, process, deadline, now, outcome>>

runCommand ==
    \/ Refuse \/ Prepare \/ GuardMkdir \/ GuardWrite \/ GuardFails
    \/ Launch \/ LaunchFails \/ Kill \/ Wait \/ Report \/ Cleanup

-----------------------------------------------------------------------------
\* The command, while it or a process it left behind has the output open.
Exits(c) ==
    /\ child = "running"
    /\ child' = "exited" /\ code' = c
    /\ pipes' = pipes \ {"child"}
    /\ UNCHANGED <<request, pc, guard, said, reached, deadline, now, outcome>>

Forks ==
    /\ child = "running"
    /\ pipes' = pipes \union {"grandchild"}
    /\ UNCHANGED <<request, pc, guard, child, code, said, reached, deadline, now, outcome>>

LetsGo ==
    /\ "grandchild" \in pipes
    /\ pipes' = pipes \ {"grandchild"}
    /\ UNCHANGED <<request, pc, guard, child, code, said, reached, deadline, now, outcome>>

\* A process of the command asks for the network.  Under the guard it gets an
\* exception, whose text is the marker.
Connects ==
    /\ pipes # {} /\ NeedsGuard
    /\ said' = (said \/ guard = "ready")
    /\ reached' = (reached \/ guard # "ready")
    /\ UNCHANGED <<request, pc, guard, child, code, pipes, deadline, now, outcome>>

\* Any command may print what looks like the marker.
Prints ==
    /\ pipes # {}
    /\ said' = TRUE
    /\ UNCHANGED <<request, pc, guard, child, code, pipes, reached, deadline, now, outcome>>

Tick ==
    /\ pc \in {"wait", "report"} /\ ~Expired
    /\ now' = now + 1
    /\ UNCHANGED <<request, pc, guard, process, deadline, outcome>>

Command == (\E c \in {0, 1} : Exits(c)) \/ Forks \/ LetsGo \/ Connects \/ Prints

Next == runCommand \/ Command \/ Tick

Spec == Init /\ [][Next]_vars

\* The runner is a running goroutine and time passes.  Nothing is assumed of the
\* command or of what it leaves behind.
FairSpec == Spec /\ WF_vars(runCommand) /\ WF_vars(Tick)

-----------------------------------------------------------------------------
(* The type invariant.  A command that runs has a deadline in the future of  *)
(* its launch, and no output is open that was not opened by it.             *)
TypeOK ==
    /\ request \in Requests
    /\ pc \in {"prepare", "mkdir", "content", "launch", "wait", "report", "cleanup", "done"}
    /\ guard \in {"none", "empty", "ready"}
    /\ child \in {"none", "running", "exited", "killed"}
    /\ code \in {-1, 0, 1} /\ said \in BOOLEAN /\ reached \in BOOLEAN
    /\ pipes \subseteq Processes
    /\ deadline \in Nat /\ now \in 0..deadline
    /\ outcome \in Outcomes
    /\ child # "none" => deadline > 0
    /\ child \in {"exited", "killed"} => "child" \notin pipes

(* The class reported is what happened: success only for a command that      *)
(* exited with 0, by itself and in time; a Timeout is never early, and a     *)
(* command that was killed is never an ordinary failure; the marker outranks *)
(* both, but does not turn a success into a failure.                        *)
OutcomeIsTrue ==
    pc = "done" /\ child # "none" =>
        /\ child # "running" /\ outcome.code = code
        /\ outcome.class = "none" <=> child = "exited" /\ code = 0 /\ ~Expired
        /\ outcome.class = "Timeout" => Expired /\ now >= request.timeout
        /\ child = "killed" /\ ~outcome.said => outcome.class = "Timeout"
        /\ outcome.class = "PolicyViolation" <=> outcome.said /\ outcome.class # "none"

(* Nothing the command prints is missed: once the result is there nobody is  *)
(* left to print the marker, neither the command nor what it left behind.   *)
NothingIsMissed ==
    pc \in {"cleanup", "done"} /\ child # "none" => pipes = {} /\ outcome.said = said

(* A command that is denied the network never gets past the guard: the guard *)
(* is in place before the first instruction of the command and as long as    *)
(* anyone holds its output, and it is gone from the disk when the call ends. *)
GuardCoversCommand ==
    /\ ~reached
    /\ NeedsGuard /\ (child = "running" \/ pipes # {}) => guard = "ready"
    /\ pc = "done" => guard = "none"

(* A call ends at its deadline at the latest, whatever the command does,    *)
(* unless a process it left behind keeps its output open.                   *)
OnlyOutputDelays == <>(pc = "done") \/ <>[]("grandchild" \in pipes)
=============================================================================
