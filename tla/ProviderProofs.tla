--------------------------- MODULE ProviderProofs ---------------------------
(***************************************************************************)
(* Proofs about Provider for any integer width, settings, bodies and pace  *)
(* of the server and the clock.                                            *)
(***************************************************************************)
EXTENDS Provider, TLAPS

(* Arithmetic wraps into the integers of the width, and leaves them alone.  *)
LEMMA WrapRange ==
    ASSUME NEW x \in Int
    PROVE  Wrap(x) \in (-(MaxInt + 1))..MaxInt
BY ProviderAssumption DEF Wrap

LEMMA WrapFits ==
    ASSUME NEW x \in 0..MaxInt
    PROVE  Wrap(x) = x
BY ProviderAssumption DEF Wrap

LEMMA WrapOver == Wrap(MaxInt + 1) = -(MaxInt + 1)
BY ProviderAssumption DEF Wrap
LEMMA DeadlineInRange ==
    ASSUME NEW s \in Settings
    PROVE  /\ Positive(Wrap(s * NanosPerMilli), DefaultTimeout) \in 1..MaxInt
           /\ Positive(s, DefaultLimit) \in 1..MaxInt
<1>1. s \in 0..MaxInt /\ s * NanosPerMilli \in Int
  BY ProviderAssumption
<1>2. Wrap(s * NanosPerMilli) \in (-(MaxInt + 1))..MaxInt
  BY <1>1, WrapRange
<1>. QED
  BY <1>1, <1>2, ProviderAssumption DEF Positive

LEMMA ResponseSize ==
    ASSUME NEW r \in Responses \union {Silent}
    PROVE  /\ r.size \in Nat /\ r.document \in Nat /\ r.usable \in BOOLEAN
           /\ r.usable => r.document \in 1..r.size
           /\ r.status \in {"none", "success", "refusal"}
           /\ r.status = "none" <=> r = Silent
<1>1. CASE r \in Responses
  <2>1. /\ r \in [status : {"success", "refusal"}, size : Sizes, document : Sizes,
                  usable : BOOLEAN]
        /\ IF r.usable THEN r.document \in 1..r.size ELSE r.document = 0
    BY <1>1 DEF Responses
  <2>2. r.size \in Nat /\ r.document \in Nat
    BY <2>1, ProviderAssumption
  <2>3. r.status \in {"success", "refusal"} /\ r.usable \in BOOLEAN
    BY <2>1
  <2>. QED
    BY <2>1, <2>2, <2>3 DEF Silent
<1>2. CASE r = Silent
  BY <1>2 DEF Silent
<1>. QED
  BY <1>1, <1>2

-----------------------------------------------------------------------------
LEMMA TypeInit == Init => TypeOK
<1> SUFFICES ASSUME Init PROVE TypeOK
    OBVIOUS
<1>1. response.size = 0
  BY DEF Init, Silent
<1>. QED
  BY <1>1, ProviderAssumption DEF Init, TypeOK, Answers, Waiting

LEMMA TypeStep == TypeOK /\ [Next]_vars => TypeOK'
<1> SUFFICES ASSUME TypeOK, [Next]_vars PROVE TypeOK'
    OBVIOUS
<1> USE DEF TypeOK, Waiting, server, client
<1>0. response.size \in Nat /\ MaxInt \in Nat
  BY ResponseSize, ProviderAssumption
<1>1. CASE Start
  <2>1. deadline' \in 1..MaxInt /\ limit' \in 1..MaxInt
    BY <1>1, DeadlineInRange DEF Start
  <2>. QED
    BY <1>1, <1>0, <2>1 DEF Start
<1>2. ASSUME NEW reason \in Answers, Give(reason) PROVE TypeOK'
  BY <1>2 DEF Give
<1>3. CASE DoReturns
  <2>1. remaining' \in Int
    BY <1>3, <1>0, WrapRange DEF DoReturns
  <2>. QED
    BY <1>3, <2>1 DEF DoReturns
<1>4. CASE ReadSome
  BY <1>4 DEF ReadSome, Reading
<1>5. CASE Respond
  <2>1. response' \in Responses /\ sent = 0
    BY <1>5 DEF Respond, Silent
  <2>2. response'.size \in Nat
    BY <2>1, ResponseSize
  <2>. QED
    BY <1>5, <2>1, <2>2 DEF Respond
<1>6. CASE Send
  BY <1>6, <1>0 DEF Send
<1>7. CASE Finish \/ Break \/ GiveUpDialing
  BY <1>7 DEF Finish, Break, GiveUpDialing
<1>8. CASE Tick
  BY <1>8 DEF Tick
<1>9. CASE UNCHANGED vars
  BY <1>9 DEF vars
<1>10. CASE StartFails \/ DoTimesOut \/ DoFails \/ ReadFails \/ ReadEnds
  <2>1. \E reason \in Answers : Give(reason)
    BY <1>10 DEF StartFails, DoTimesOut, DoFails, ReadFails, ReadEnds, Answers
  <2>. QED
    BY <1>2, <2>1
<1>. QED
  BY <1>1, <1>3, <1>4, <1>5, <1>6, <1>7, <1>8, <1>9, <1>10 DEF Next, Analyze

(* Deadline and limit are positive once a request is made, whatever the     *)
(* environment variables hold and even if the deadline overflows.           *)
THEOREM TypeCorrect == Spec => []TypeOK
BY TypeInit, TypeStep, PTL DEF Spec

-----------------------------------------------------------------------------
(* The reader has one byte to spare beyond the limit, so that a body of     *)
(* exactly the limit is told from a longer one; with the largest integer as *)
(* the limit the spare byte wraps around and nothing is read.               *)
Counted ==
    /\ read <= sent
    /\ pc \in {"idle", "call"} => read = 0
    /\ Reading => response # Silent
    /\ Reading /\ limit < MaxInt => remaining >= 0 /\ remaining + read = limit + 1
    /\ Reading /\ limit >= MaxInt => remaining < 0 /\ read = 0

Delivered == connection = "complete" => response # Silent /\ sent = response.size

Undecided == pc # "done" => answer = "none"

LimitInv == TypeOK /\ Counted /\ Delivered /\ Undecided /\ LimitIsExact

LEMMA LimitInit == Init => LimitInv
<1> SUFFICES ASSUME Init PROVE LimitInv
    OBVIOUS
<1>1. TypeOK
  BY TypeInit
<1>. QED
  BY <1>1 DEF Init, LimitInv, Counted, Delivered, Undecided, LimitIsExact, Reading

LEMMA LimitStep == LimitInv /\ [Next]_vars => LimitInv'
<1> SUFFICES ASSUME LimitInv, [Next]_vars PROVE LimitInv'
    OBVIOUS
<1>0. TypeOK /\ TypeOK'
  BY TypeStep DEF LimitInv
<1>a. /\ MaxInt \in Nat /\ limit \in 0..MaxInt /\ response.size \in Nat
      /\ remaining \in Int /\ read \in Nat /\ sent \in 0..response.size
      /\ response.status = "none" <=> response = Silent
      /\ response.usable \in BOOLEAN
      /\ response.usable => response.document \in 1..response.size
  BY <1>0, ResponseSize, ProviderAssumption DEF TypeOK
<1> USE DEF LimitInv, Counted, Delivered, Undecided, LimitIsExact, Reading, server, client
<1>1. CASE Start
  BY <1>1, <1>0, <1>a DEF Start, TypeOK
<1>2. CASE StartFails \/ DoTimesOut \/ DoFails
  BY <1>2, <1>0, <1>a DEF StartFails, DoTimesOut, DoFails, Give
<1>3. CASE DoReturns
  <2>1. limit < MaxInt => remaining' = limit + 1
    BY <1>3, <1>a, WrapFits DEF DoReturns
  <2>2. limit >= MaxInt => remaining' = -(MaxInt + 1)
    BY <1>3, <1>a, WrapOver DEF DoReturns
  <2>. QED
    BY <1>3, <1>0, <1>a, <2>1, <2>2 DEF DoReturns
<1>4. CASE ReadSome
  BY <1>4, <1>0, <1>a DEF ReadSome
<1>5. CASE ReadFails
  BY <1>5, <1>0, <1>a DEF ReadFails, Give
<1>6. CASE ReadEnds
  <2>1. CASE remaining <= 0
    <3>1. limit < MaxInt => read = limit + 1
      BY <1>6, <1>a, <2>1 DEF ReadEnds
    <3>2. limit >= MaxInt => ~Decodes /\ read <= limit
      BY <1>6, <1>a DEF ReadEnds, Decodes
    <3>. QED
      BY <1>6, <1>0, <1>a, <3>1, <3>2 DEF ReadEnds, Give
  <2>2. CASE connection = "complete" /\ read = sent
    BY <1>6, <1>0, <1>a, <2>2 DEF ReadEnds, Give
  <2>. QED
    BY <1>6, <2>1, <2>2 DEF ReadEnds
<1>7. CASE Respond
  <2>1. response' # Silent /\ answer = "none" /\ connection # "complete"
    BY <1>7 DEF Respond, Waiting, Responses, Silent
  <2>. QED
    BY <1>7, <1>0, <1>a, <2>1 DEF Respond
<1>8. CASE Send
  BY <1>8, <1>0, <1>a DEF Send, Waiting
<1>9. CASE Finish
  BY <1>9, <1>0, <1>a DEF Finish, Waiting
<1>10. CASE Break \/ GiveUpDialing
  BY <1>10, <1>0, <1>a DEF Break, GiveUpDialing, Waiting
<1>11. CASE Tick
  BY <1>11, <1>0, <1>a DEF Tick, Waiting
<1>12. CASE UNCHANGED vars
  BY <1>12, <1>0, <1>a DEF vars
<1>. QED
  BY <1>1, <1>2, <1>3, <1>4, <1>5, <1>6, <1>7, <1>8, <1>9, <1>10, <1>11, <1>12
     DEF Next, Analyze

(* The limit on a body is exact for every limit of the width, the largest   *)
(* integer included, and every size.                                        *)
THEOREM LimitHolds == Spec => []LimitIsExact
<1>1. LimitInv => LimitIsExact
  BY DEF LimitInv
<1>. QED
  BY <1>1, LimitInit, LimitStep, PTL DEF Spec

-----------------------------------------------------------------------------
NoLimitOverflows == DefaultLimit < MaxInt /\ \A s \in Settings : s < MaxInt

\* The server answers requests only, and its status is what is read on.
Answering ==
    /\ pc = "idle" => response = Silent
    /\ pc = "body" => response.status = "success"
    /\ pc = "refusal" => response.status = "refusal"
    /\ limit < MaxInt

UseInv == LimitInv /\ Answering /\ InTimeIsUsed

LEMMA UseInit == NoLimitOverflows /\ Init => UseInv
BY LimitInit, ProviderAssumption DEF NoLimitOverflows, Init, UseInv, Answering, InTimeIsUsed

LEMMA UseStep == NoLimitOverflows /\ UseInv /\ [Next]_vars => UseInv'
<1> SUFFICES ASSUME NoLimitOverflows, UseInv, [Next]_vars PROVE UseInv'
    OBVIOUS
<1>0. LimitInv /\ LimitInv'
  BY LimitStep DEF UseInv
<1>a. /\ MaxInt \in Nat /\ limit \in 0..MaxInt /\ response.size \in Nat
      /\ remaining \in Int /\ read \in Nat /\ sent \in 0..response.size
      /\ response.status \in {"none", "success", "refusal"}
      /\ response.status = "none" <=> response = Silent
      /\ response.usable => response.document \in 1..response.size
  BY <1>0, ResponseSize, ProviderAssumption DEF TypeOK, LimitInv
<1> USE DEF UseInv, Answering, InTimeIsUsed, Reading, Expired, server, client
<1>1. CASE Start
  <2>1. limit' < MaxInt
    BY <1>1, <1>0, ProviderAssumption
       DEF Start, Positive, NoLimitOverflows, LimitInv, TypeOK
  <2>. QED
    BY <1>1, <1>0, <2>1 DEF Start
<1>2. CASE StartFails \/ DoTimesOut \/ DoFails
  BY <1>2, <1>0, <1>a DEF StartFails, DoTimesOut, DoFails, Give
<1>3. CASE DoReturns
  BY <1>3, <1>0, <1>a DEF DoReturns
<1>4. CASE ReadSome
  BY <1>4, <1>0 DEF ReadSome
<1>5. CASE ReadFails
  BY <1>5, <1>0 DEF ReadFails, Give
<1>6. CASE ReadEnds
  <2> SUFFICES ASSUME connection = "complete", response.usable, response.size <= limit
               PROVE  answer' = IF response.status = "success" THEN "answer" ELSE "explained"
    BY <1>6, <1>0 DEF ReadEnds, Give
  <2>1. read = response.size
    BY <1>6, <1>0, <1>a DEF ReadEnds, LimitInv, Counted, Delivered
  <2>2. Decodes
    BY <2>1, <1>a DEF Decodes
  <2>. QED
    BY <1>6, <1>a, <2>1, <2>2 DEF ReadEnds, Give
<1>7. CASE Respond
  <2>1. response = Silent /\ pc = "call"
    BY <1>7, <1>a, <1>0 DEF Respond, Waiting, LimitInv, Counted
  <2>. QED
    BY <1>7, <1>0, <2>1 DEF Respond
<1>8. CASE Send \/ Finish \/ Break \/ GiveUpDialing \/ Tick
  BY <1>8, <1>0 DEF Send, Finish, Break, GiveUpDialing, Tick, Waiting
<1>9. CASE UNCHANGED vars
  BY <1>9, <1>0 DEF vars
<1>. QED
  BY <1>1, <1>2, <1>3, <1>4, <1>5, <1>6, <1>7, <1>8, <1>9 DEF Next, Analyze

(* A good answer that came in time is never given up, for every limit below *)
(* the largest integer.                                                     *)
THEOREM GoodAnswersAreUsed ==
    ASSUME NoLimitOverflows
    PROVE  Spec => []InTimeIsUsed
<1>1. Init => UseInv
  BY UseInit
<1>2. UseInv /\ [Next]_vars => UseInv'
  BY UseStep
<1>3. UseInv => InTimeIsUsed
  BY DEF UseInv
<1>. QED
  BY <1>1, <1>2, <1>3, PTL DEF Spec

-----------------------------------------------------------------------------
NoTimeoutOverflows == \A s \in Settings : s * NanosPerMilli <= MaxInt

\* The deadline is the time the user asked for.
Asked ==
    (pc # "idle" /\ answer # "setup") /\ setting.timeout > 0 =>
        deadline = setting.timeout * NanosPerMilli

EarlyInv == TypeOK /\ Undecided /\ Asked /\ TimeoutIsNotEarly

LEMMA EarlyInit == Init => EarlyInv
BY TypeInit DEF Init, EarlyInv, Undecided, Asked, TimeoutIsNotEarly

LEMMA EarlyStep == NoTimeoutOverflows /\ EarlyInv /\ [Next]_vars => EarlyInv'
<1> SUFFICES ASSUME NoTimeoutOverflows, EarlyInv, [Next]_vars PROVE EarlyInv'
    OBVIOUS
<1>0. TypeOK /\ TypeOK'
  BY TypeStep DEF EarlyInv
<1> USE DEF EarlyInv, Undecided, Asked, TimeoutIsNotEarly, server, client
<1>1. CASE Start
  <2> DEFINE asked == setting.timeout * NanosPerMilli
  <2>0. setting.timeout \in Settings
    BY <1>0 DEF TypeOK
  <2>1. setting.timeout \in 0..MaxInt /\ MaxInt \in Nat
    BY <2>0, ProviderAssumption
  <2>2. asked \in 0..MaxInt
    BY <2>0, <2>1, ProviderAssumption DEF NoTimeoutOverflows
  <2>3. setting.timeout > 0 => asked > 0
    BY <2>1, ProviderAssumption
  <2>4. Wrap(asked) = asked
    BY <2>2, WrapFits
  <2>5. setting.timeout > 0 => deadline' = asked
    BY <1>1, <2>2, <2>3, <2>4 DEF Start, Positive
  <2>. QED
    BY <1>1, <1>0, <2>5 DEF Start
<1>2. CASE StartFails \/ DoFails \/ ReadFails \/ ReadEnds
  BY <1>2, <1>0 DEF StartFails, DoFails, ReadFails, ReadEnds, Reading, Give
<1>3. CASE DoTimesOut
  BY <1>3, <1>0 DEF DoTimesOut, Give, Expired
<1>4. CASE DoReturns \/ ReadSome
  BY <1>4, <1>0 DEF DoReturns, ReadSome, Reading
<1>5. CASE Respond \/ Send \/ Finish \/ Break \/ GiveUpDialing \/ Tick
  BY <1>5, <1>0 DEF Respond, Send, Finish, Break, GiveUpDialing, Tick, Waiting
<1>6. CASE UNCHANGED vars
  BY <1>6, <1>0 DEF vars
<1>. QED
  BY <1>1, <1>2, <1>3, <1>4, <1>5, <1>6 DEF Next, Analyze

(* A call is not given up before its time, for every setting whose product  *)
(* with a millisecond fits the width.                                       *)
THEOREM TimeoutsAreNotEarly ==
    ASSUME NoTimeoutOverflows
    PROVE  Spec => []TimeoutIsNotEarly
<1>1. EarlyInv /\ [Next]_vars => EarlyInv'
  BY EarlyStep
<1>2. EarlyInv => TimeoutIsNotEarly
  BY DEF EarlyInv
<1>. QED
  BY <1>1, <1>2, EarlyInit, PTL DEF Spec
=============================================================================
