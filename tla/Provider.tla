------------------------------ MODULE Provider ------------------------------
(* The HTTP client of the provider-backed adapter (provider_openai.go and    *)
(* the settings of adapter_builtin.go): one request under a deadline, whose  *)
(* body is read up to a limit.  The server and the clock are the             *)
(* environment; the server may answer, stall or break off at any point.      *)
EXTENDS Integers

CONSTANTS MaxInt,          \* the largest int64
          NanosPerMilli,   \* time.Millisecond
          DefaultTimeout,  \* defaultOpenAIAnalyzeTimeout, in nanoseconds
          DefaultLimit,    \* defaultOpenAIAnalyzeMaxResponseBytes
          Settings,        \* values of the two environment variables; 0 is unset
          Sizes            \* sizes of a response body

ASSUME ProviderAssumption ==
    /\ MaxInt \in Nat
    /\ NanosPerMilli \in Nat \ {0}
    /\ DefaultTimeout \in 1..MaxInt /\ DefaultLimit \in 1..MaxInt
    /\ Settings \subseteq 0..MaxInt
    /\ Sizes \subseteq Nat

VARIABLES setting,     \* AGENIX_OPENAI_TIMEOUT_MS and ..._MAX_RESPONSE_BYTES
          pc, deadline, limit,
          remaining,   \* LimitedReader.N
          read,        \* len(body) so far
          answer,      \* why Analyze returned
          response,    \* the response the server chose
          sent, connection,
          now          \* since the request was made

vars == <<setting, pc, deadline, limit, remaining, read, answer, response, sent,
          connection, now>>
server == <<response, sent, connection>>
client == <<pc, deadline, limit, remaining, read, answer>>

(* Arithmetic of int64. *)
Wrap(x) == ((x + MaxInt + 1) % (2 * (MaxInt + 1))) - (MaxInt + 1)

(* A body is of use to the client as soon as it is read up to the end of its *)
(* document; white space may follow.                                         *)
Silent == [status |-> "none", size |-> 0, document |-> 0, usable |-> FALSE]
Responses ==
    {r \in [status : {"success", "refusal"}, size : Sizes, document : Sizes, usable : BOOLEAN] :
        IF r.usable THEN r.document \in 1..r.size ELSE r.document = 0}

(* What Analyze can return.  "answer" is its only success. *)
Answers == {"none", "setup", "timeout", "unreachable", "unreadable", "oversized",
            "undecodable", "answer", "refused", "explained"}
Class == CASE answer \in {"none", "answer"} -> ""
           [] answer = "timeout" -> "Timeout"
           [] OTHER -> "DriverError"

Init ==
    /\ setting \in [timeout : Settings, limit : Settings]
    /\ pc = "idle" /\ deadline = 0 /\ limit = 0 /\ remaining = 0 /\ read = 0
    /\ answer = "none" /\ now = 0
    /\ response = Silent /\ sent = 0 /\ connection = "open"

Positive(x, default) == IF x > 0 THEN x ELSE default

Give(reason) ==
    /\ pc' = "done" /\ answer' = reason
    /\ UNCHANGED <<setting, deadline, limit, remaining, read, server, now>>

\* Mutants of Start: no defaults; milliseconds taken for nanoseconds.
Start_NoDefaults ==
    /\ pc = "idle"
    /\ pc' = "call"
    /\ deadline' = Wrap(setting.timeout * NanosPerMilli)
    /\ limit' = setting.limit
    /\ UNCHANGED <<setting, remaining, read, answer, server, now>>
Start_Unconverted ==
    /\ pc = "idle"
    /\ pc' = "call"
    /\ deadline' = Positive(setting.timeout, DefaultTimeout)
    /\ limit' = Positive(setting.limit, DefaultLimit)
    /\ UNCHANGED <<setting, remaining, read, answer, server, now>>

(* The two settings are converted and defaulted, and the deadline is set. *)
Start ==
    /\ pc = "idle"
    /\ pc' = "call"
    /\ deadline' = Positive(Wrap(setting.timeout * NanosPerMilli), DefaultTimeout)
    /\ limit' = Positive(setting.limit, DefaultLimit)
    /\ UNCHANGED <<setting, remaining, read, answer, server, now>>

\* No API key, or no request can be made of the base URL.
StartFails == pc = "idle" /\ Give("setup")

Expired == now >= deadline

\* Mutant of DoReturns: the reader stops at the limit and cannot see the
\* byte beyond it.
DoReturns_NoSpareByte ==
    /\ pc = "call" /\ response.status # "none"
    /\ pc' = IF response.status = "success" THEN "body" ELSE "refusal"
    /\ remaining' = limit
    /\ UNCHANGED <<setting, deadline, limit, read, answer, server, now>>

\* client.Do: the headers are there, or it fails.  A failure is a timeout
\* whenever the context has ended by then, and when the transport gives up
\* dialing by its own timer, whose error is a DeadlineExceeded too.
DoReturns ==
    /\ pc = "call" /\ response.status # "none"
    /\ pc' = IF response.status = "success" THEN "body" ELSE "refusal"
    /\ remaining' = Wrap(limit + 1)
    /\ UNCHANGED <<setting, deadline, limit, read, answer, server, now>>
DoTimesOut == pc = "call" /\ (Expired \/ connection = "unreached") /\ Give("timeout")
DoFails == pc = "call" /\ connection = "broken" /\ ~Expired /\ Give("unreachable")

\* io.ReadAll of the limited body, byte by byte.
Reading == pc \in {"body", "refusal"}
ReadSome ==
    /\ Reading /\ remaining > 0 /\ read < sent
    /\ read' = read + 1
    /\ remaining' = remaining - 1
    /\ UNCHANGED <<setting, pc, deadline, limit, answer, server, now>>

\* Mutant of ReadFails: the request was made without the context.
ReadFails_NoContext ==
    /\ Reading /\ remaining > 0
    /\ connection = "broken" /\ read = sent
    /\ Give(IF pc = "body" THEN "unreadable" ELSE "refused")

\* A read returns an error; an error status then goes without its message.
ReadFails ==
    /\ Reading /\ remaining > 0
    /\ Expired \/ (connection = "broken" /\ read = sent)
    /\ Give(IF pc = "body" THEN "unreadable" ELSE "refused")

Decodes == response.usable /\ read >= response.document

\* Mutant of ReadEnds: a body of exactly the limit is refused.
ReadEnds_OffByOne ==
    /\ Reading
    /\ remaining <= 0 \/ (connection = "complete" /\ read = sent)
    /\ Give(IF pc = "body"
            THEN CASE read >= limit -> "oversized"
                   [] read < limit /\ Decodes -> "answer"
                   [] OTHER -> "undecodable"
            ELSE IF read <= limit /\ Decodes THEN "explained" ELSE "refused")

\* The limited reader is used up, or the body has ended.
ReadEnds ==
    /\ Reading
    /\ remaining <= 0 \/ (connection = "complete" /\ read = sent)
    /\ Give(IF pc = "body"
            THEN CASE read > limit -> "oversized"
                   [] read <= limit /\ Decodes -> "answer"
                   [] OTHER -> "undecodable"
            ELSE IF read <= limit /\ Decodes THEN "explained" ELSE "refused")

Analyze == Start \/ StartFails \/ DoReturns \/ DoTimesOut \/ DoFails \/ ReadSome
           \/ ReadFails \/ ReadEnds

Waiting == pc \in {"call", "body", "refusal"}

\* The server, at its own pace, before and after the deadline.
Respond ==
    /\ Waiting /\ connection = "open" /\ response = Silent
    /\ response' \in Responses
    /\ UNCHANGED <<setting, client, sent, connection, now>>
Send ==
    /\ Waiting /\ connection = "open" /\ sent < response.size
    /\ sent' = sent + 1
    /\ UNCHANGED <<setting, client, response, connection, now>>
Finish ==
    /\ Waiting /\ connection = "open" /\ response # Silent /\ sent = response.size
    /\ connection' = "complete"
    /\ UNCHANGED <<setting, client, response, sent, now>>
Break ==
    /\ Waiting /\ connection = "open"
    /\ connection' = "broken"
    /\ UNCHANGED <<setting, client, response, sent, now>>

\* The transport's own dial timeout, which the setting does not change.
GiveUpDialing ==
    /\ pc = "call" /\ connection = "open" /\ response = Silent
    /\ connection' = "unreached"
    /\ UNCHANGED <<setting, client, response, sent, now>>

\* Time passes; past the deadline it makes no difference any more.
Tick ==
    /\ Waiting /\ now < deadline
    /\ now' = now + 1
    /\ UNCHANGED <<setting, client, server>>

Next == Analyze \/ Respond \/ Send \/ Finish \/ Break \/ GiveUpDialing \/ Tick

Spec == Init /\ [][Next]_vars

\* The client is a running goroutine and time does not stop.  Nothing is
\* assumed of the server.
FairSpec == Spec /\ WF_vars(Analyze) /\ WF_vars(Tick)

-----------------------------------------------------------------------------
(* The type invariant.  Once the request is made, deadline and limit are    *)
(* positive, whatever the environment variables hold.                       *)
TypeOK ==
    /\ setting \in [timeout : Settings, limit : Settings]
    /\ pc \in {"idle", "call", "body", "refusal", "done"}
    /\ answer \in Answers
    /\ deadline \in 0..MaxInt /\ limit \in 0..MaxInt
    /\ Waiting => deadline > 0 /\ limit > 0
    /\ remaining \in Int /\ read \in Nat
    /\ response \in Responses \union {Silent}
    /\ sent \in 0..response.size
    /\ connection \in {"open", "complete", "broken", "unreached"}
    /\ now \in Nat

(* The limit is exact: a body is decoded only if all of it was read and it  *)
(* fits, one byte more is refused as oversized and one byte less is not,    *)
(* and the client never takes more than one byte beyond the limit off the   *)
(* connection, even if the document ends before the limit does.             *)
LimitIsExact ==
    /\ read <= limit + 1
    /\ answer \in {"answer", "explained"}
          => connection = "complete" /\ read = response.size /\ read <= limit
    /\ answer = "oversized" => response.size > limit

(* What came in time is used: a usable body that fits and was complete      *)
(* before the deadline is never given up, nor is the message of an error.   *)
InTimeIsUsed ==
    /\ pc = "done" /\ response # Silent /\ connection = "complete" /\ ~Expired
    /\ response.usable /\ response.size <= limit
    => answer = IF response.status = "success" THEN "answer" ELSE "explained"

(* Timeout is not reported before the time the user asked for has passed,   *)
(* unless the server could not even be reached.                             *)
TimeoutIsNotEarly ==
    answer = "timeout" /\ setting.timeout > 0 /\ connection # "unreached"
        => now >= setting.timeout * NanosPerMilli

(* A call ends, whatever the server does: the deadline covers the body too. *)
AnalyzeEnds == <>(pc = "done")

(* "Provider-backed HTTP timeouts are classified as `Timeout`, not          *)
(* `DriverError`": a call that ended at its deadline while the server still *)
(* owed it the rest of a good response is a timeout.                        *)
TimeoutsAreClassified ==
    /\ pc = "done" /\ answer # "setup"
    /\ Expired /\ connection = "open" /\ response.status # "refusal" /\ read <= limit
    => Class = "Timeout"
=============================================================================
