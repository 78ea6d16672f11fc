------------------------ MODULE SendAndConfirmProofs ------------------------
(***************************************************************************)
(* For every :timeout, :poll_interval, latency and limit of a request: how *)
(* long send_and_confirm/2 waits at most, that it does not say :timeout    *)
(* too early, and that what it says holds.                                 *)
(***************************************************************************)
EXTENDS SendAndConfirm, TLAPS

\* When each request or sleep began, and how long it lasts at most.
Clock ==
  /\ since <= now
  /\ stage = "sending" => sent = Unset
  /\ stage = "polling" =>
       /\ deadline = sent + Timeout /\ since <= deadline
       /\ now <= since + RequestLimit
  /\ stage = "sleeping" =>
       /\ deadline = sent + Timeout /\ since <= deadline + Latency
       /\ now <= since + Interval
  /\ stage # "done" => result = Unset
  /\ result = "timeout" => sent # Unset /\ now > sent + Timeout

\* A status that would end a poll was not there when the last poll looked.
Watch ==
  /\ settled # Unset => settled <= now
  /\ settled # Unset <=> Settles(status)
  /\ stage = "polling" /\ reply # Unset /\ Unmet(reply) /\ settled # Unset => settled >= since
  /\ stage = "sleeping" /\ settled # Unset => settled >= since - Latency

\* A status beyond "processed" is not undone after it was seen.
Seen ==
  reply \in Statuses /\ reply.level \in {"confirmed", "finalized"} =>
    /\ status # Unknown /\ status.err = reply.err
    /\ Rank[status.level] >= Rank[reply.level]

\* What was seen when the call ended.
Verdict ==
  /\ result = "ok" =>
       reply \in Statuses \ {Unknown} /\ ~reply.err /\ StatusSatisfies(reply.level)
  /\ result = "transaction_error" => reply \in Statuses \ {Unknown} /\ reply.err

IInv == WaitTypeOK /\ Clock /\ Watch /\ Seen /\ Verdict /\ EndsInTime /\ TimeoutIsLate

-----------------------------------------------------------------------------

LEMMA StatusShape ==
  /\ \A s \in Statuses : s.err \in BOOLEAN /\ s.level \in Levels \cup {"none"}
  /\ \A s \in Statuses : s # Unknown => s.level \in Levels
  /\ Unknown.err = FALSE /\ Unknown.level = "none"
  /\ Signature.err = FALSE /\ Signature.level = "signed"
  /\ Signature \notin Statuses
<1>1. \A s \in Statuses : s = Unknown \/ s \in [level : Levels, err : BOOLEAN]
  BY DEF Statuses
<1>2. \A s \in [level : Levels, err : BOOLEAN] : s.level \in Levels /\ s.err \in BOOLEAN
  OBVIOUS
<1>3. Unknown.err = FALSE /\ Unknown.level = "none"
  BY DEF Unknown
<1>4. Signature.err = FALSE /\ Signature.level = "signed"
  BY DEF Signature
<1>5. Signature \notin Statuses
  BY <1>1, <1>2, <1>3, <1>4 DEF Levels
<1> QED
  BY <1>1, <1>2, <1>3, <1>4, <1>5

LEMMA RankIs ==
  Rank["processed"] = 1 /\ Rank["confirmed"] = 2 /\ Rank["finalized"] = 3
BY DEF Rank, Levels

\* status_satisfies?/2 orders the levels.
LEMMA SatisfiesIs ==
  ASSUME target \in Levels, NEW l \in Levels
  PROVE  StatusSatisfies(l) <=> Rank[l] >= Rank[target]
BY RankIs DEF StatusSatisfies, Levels

LEMMA UnmetIs ==
  ASSUME target \in Levels, NEW s \in Statuses
  PROVE  Unmet(s) <=> ~Settles(s)
<1>1. CASE s = Unknown
  BY <1>1 DEF Unmet, Settles
<1>2. CASE s # Unknown
  BY <1>2, StatusShape, SatisfiesIs, RankIs DEF Unmet, Settles, Levels
<1> QED
  BY <1>1, <1>2

LEMMA InitIInv == ConfirmInit => IInv
<1> SUFFICES ASSUME ConfirmInit PROVE IInv
  OBVIOUS
<1> USE DEF ConfirmInit
<1>1. ~Settles(status) /\ status \in Statuses
  BY DEF Settles, Statuses
<1>2. WaitTypeOK
  BY <1>1, UnsetIsNothing DEF WaitTypeOK
<1>3. Clock /\ Watch
  BY <1>1, WaitOptionsGiven, UnsetIsNothing DEF Clock, Watch, Results
<1>4. Seen /\ Verdict
  BY UnsetIsNothing DEF Seen, Verdict, Results
<1>5. EndsInTime /\ TimeoutIsLate
  BY DEF EndsInTime, TimeoutIsLate
<1> QED
  BY <1>2, <1>3, <1>4, <1>5 DEF IInv

-----------------------------------------------------------------------------
(* The steps. *)

LEMMA SubmittedStep ==
  ASSUME IInv, Submitted
  PROVE  IInv'
<1> USE DEF IInv, Submitted, clusterVars
<1>1. WaitTypeOK'
  BY WaitOptionsGiven, UnsetIsNothing DEF WaitTypeOK
<1>2. Clock'
  BY WaitOptionsGiven, UnsetIsNothing DEF WaitTypeOK, Clock, Results
<1>3. Watch'
  BY DEF Watch, Settles, WaitTypeOK
<1>4. Seen' /\ Verdict'
  BY UnsetIsNothing DEF Seen, Verdict, Clock, Results
<1>5. EndsInTime' /\ TimeoutIsLate'
  BY WaitOptionsGiven, UnsetIsNothing DEF EndsInTime, TimeoutIsLate, WaitTypeOK, Clock, Results
<1> QED
  BY <1>1, <1>2, <1>3, <1>4, <1>5

\* Every way to return.
LEMMA FinishStep ==
  ASSUME IInv, NEW r \in Results, ReturnWith(r), stage # "done",
         r = "ok" => reply \in Statuses \ {Unknown} /\ ~reply.err /\ StatusSatisfies(reply.level),
         r = "transaction_error" => reply \in Statuses \ {Unknown} /\ reply.err,
         r = "timeout" => stage = "sleeping" /\ now = since + Interval /\ now > deadline
  PROVE  IInv'
<1> USE DEF IInv, ReturnWith, clusterVars
<1>1. WaitTypeOK'
  BY DEF WaitTypeOK
<1>2. Clock'
  BY UnsetIsNothing DEF Clock, WaitTypeOK
<1>3. Watch'
  BY DEF Watch, Settles
<1>4. Seen' /\ Verdict'
  BY DEF Seen, Verdict, StatusSatisfies
<1>5. EndsInTime'
  BY DEF EndsInTime
<1>6. TimeoutIsLate'
  BY WaitOptionsGiven, UnsetIsNothing DEF TimeoutIsLate, Watch, Clock, WaitTypeOK
<1> QED
  BY <1>1, <1>2, <1>3, <1>4, <1>5, <1>6

LEMMA RetryStep ==
  ASSUME IInv, SleepAndRetry
  PROVE  IInv'
<1> USE DEF IInv, SleepAndRetry, AnsweredInTime, clusterVars
<1>1. WaitTypeOK'
  BY DEF WaitTypeOK
<1>2. Clock'
  BY WaitOptionsGiven, UnsetIsNothing DEF WaitTypeOK, Clock, Results
<1>3. Watch'
  BY WaitOptionsGiven, UnsetIsNothing DEF Watch, Settles, WaitTypeOK
<1>4. Seen' /\ Verdict'
  BY UnsetIsNothing DEF Seen, Verdict, Clock, Results
<1>5. EndsInTime' /\ TimeoutIsLate'
  BY UnsetIsNothing DEF EndsInTime, TimeoutIsLate, Clock, Results
<1> QED
  BY <1>1, <1>2, <1>3, <1>4, <1>5

LEMMA PollStep ==
  ASSUME IInv, Poll
  PROVE  IInv'
<1> USE DEF IInv, Poll, clusterVars
<1>1. WaitTypeOK'
  BY UnsetIsNothing DEF WaitTypeOK
<1>2. Clock'
  BY WaitOptionsGiven, UnsetIsNothing DEF WaitTypeOK, Clock, Results
<1>3. Watch'
  BY DEF Watch, Settles, WaitTypeOK
<1>4. Seen' /\ Verdict'
  BY UnsetIsNothing DEF Seen, Verdict, Clock, Results
<1>5. EndsInTime' /\ TimeoutIsLate'
  BY UnsetIsNothing DEF EndsInTime, TimeoutIsLate, Clock, Results
<1> QED
  BY <1>1, <1>2, <1>3, <1>4, <1>5

LEMMA TickStep ==
  ASSUME IInv, Tick
  PROVE  IInv'
<1> USE DEF IInv, Tick, Due, waitVars, clusterVars
<1>1. WaitTypeOK'
  BY DEF WaitTypeOK
<1>2. Clock'
  BY WaitOptionsGiven, UnsetIsNothing DEF WaitTypeOK, Clock, Results
<1>3. Watch'
  BY UnsetIsNothing DEF Watch, Settles, WaitTypeOK, Unmet, StatusSatisfies
<1>4. Seen' /\ Verdict'
  BY DEF Seen, Verdict, StatusSatisfies
<1>5. EndsInTime'
  <2>1. CASE stage = "sending"
    BY <2>1 DEF EndsInTime, Clock
  <2>2. CASE stage = "polling"
    BY <1>2, <2>2, WaitOptionsGiven, UnsetIsNothing DEF EndsInTime, Clock, WaitTypeOK
  <2>3. CASE stage = "sleeping"
    BY <1>2, <2>3, WaitOptionsGiven, UnsetIsNothing DEF EndsInTime, Clock, WaitTypeOK
  <2> QED
    BY <2>1, <2>2, <2>3 DEF WaitTypeOK
<1>6. TimeoutIsLate'
  BY DEF TimeoutIsLate
<1> QED
  BY <1>1, <1>2, <1>3, <1>4, <1>5, <1>6

LEMMA ForwardStep ==
  ASSUME IInv, Forward
  PROVE  IInv'
<1> USE DEF IInv, Forward, waitVars
<1>1. WaitTypeOK'
  BY DEF WaitTypeOK
<1>2. Clock'
  BY DEF Clock
<1>3. Watch'
  BY DEF Watch, Settles
<1>4. Seen' /\ Verdict'
  BY StatusShape, UnsetIsNothing DEF Seen, Verdict, Clock, Results
<1>5. EndsInTime' /\ TimeoutIsLate'
  BY DEF EndsInTime, TimeoutIsLate
<1> QED
  BY <1>1, <1>2, <1>3, <1>4, <1>5

LEMMA LookStep ==
  ASSUME IInv, Look
  PROVE  IInv'
<1> USE DEF IInv, Look, waitVars, clusterVars
<1>1. WaitTypeOK'
  BY StatusShape DEF WaitTypeOK
<1>2. Clock'
  BY DEF Clock
<1>3. Unmet(status) => settled = Unset
  BY UnmetIs DEF Watch, WaitTypeOK
<1>4. Watch'
  BY <1>3 DEF Watch, Settles, Unmet, StatusSatisfies
<1>5. Seen'
  BY StatusShape, RankIs DEF Seen, WaitTypeOK, Levels
<1>6. Verdict'
  BY UnsetIsNothing DEF Verdict, Clock, Results
<1>7. EndsInTime' /\ TimeoutIsLate'
  BY DEF EndsInTime, TimeoutIsLate
<1> QED
  BY <1>1, <1>2, <1>4, <1>5, <1>6, <1>7

\* The cluster's own steps.
LEMMA BecomesStep ==
  ASSUME IInv, NEW s \in Statuses, Becomes(s),
         \/ status = Unknown
         \/ status.level = "processed"
         \/ s # Unknown /\ s.err = status.err /\ Rank[s.level] >= Rank[status.level]
  PROVE  IInv'
<1> USE DEF IInv, Becomes, waitVars
<1>1. WaitTypeOK'
  BY DEF WaitTypeOK
<1>2. Clock'
  BY DEF Clock
<1>3. /\ settled' # Unset => settled' \in Nat /\ settled' <= now
      /\ settled' # Unset => settled' = now \/ (settled # Unset /\ settled' = settled)
      /\ settled' # Unset <=> Settles(s)
  BY UnsetIsNothing DEF Watch, WaitTypeOK
<1>4. Watch'
  BY <1>3, WaitOptionsGiven DEF Watch, WaitTypeOK, Clock, Settles, Unmet, StatusSatisfies
<1>5. Seen'
  BY StatusShape, RankIs DEF Seen, WaitTypeOK, Levels
<1>6. Verdict' /\ EndsInTime'
  BY DEF Verdict, EndsInTime, StatusSatisfies
<1>7. TimeoutIsLate'
  BY <1>3, WaitOptionsGiven, UnsetIsNothing DEF TimeoutIsLate, Clock, WaitTypeOK
<1> QED
  BY <1>1, <1>2, <1>4, <1>5, <1>6, <1>7

-----------------------------------------------------------------------------
(* The theorems. *)

LEMMA Inductive == IInv /\ [ConfirmNext]_confirmVars => IInv'
<1> SUFFICES ASSUME IInv, [ConfirmNext]_confirmVars PROVE IInv'
  OBVIOUS
<1>1. CASE Submitted
  BY <1>1, SubmittedStep
<1>2. CASE Fails \/ Confirms
  <2>1. stage = "polling" /\ reply # Unset /\ reply # Signature /\ reply # Unknown
    BY <1>2, StatusShape DEF Fails, Confirms, AnsweredInTime, IInv, WaitTypeOK
  <2>2. reply \in Statuses \ {Unknown} /\ reply.err \in BOOLEAN
    BY <2>1, StatusShape DEF IInv, WaitTypeOK
  <2>3. CASE Fails
    BY <2>1, <2>2, <2>3, FinishStep DEF Fails, Results
  <2>4. CASE Confirms
    BY <2>1, <2>2, <2>4, FinishStep DEF Confirms, Results
  <2> QED
    BY <1>2, <2>3, <2>4
<1>3. CASE SleepAndRetry
  BY <1>3, RetryStep
<1>4. CASE Refused \/ NoAnswer
  BY <1>4, FinishStep DEF Refused, NoAnswer, Results
<1>5. CASE Poll
  BY <1>5, PollStep
<1>6. CASE TimesOut
  BY <1>6, FinishStep DEF TimesOut, Results
<1>7. CASE Tick
  BY <1>7, TickStep
<1>8. CASE Forward
  BY <1>8, ForwardStep
<1>9. CASE Look
  BY <1>9, LookStep
<1>10. CASE Execute
  <2>1. PICK e \in BOOLEAN : Becomes([level |-> "processed", err |-> e])
    BY <1>10 DEF Execute
  <2>2. [level |-> "processed", err |-> e] \in Statuses
    BY DEF Statuses, Levels
  <2> QED
    BY <1>10, <2>1, <2>2, BecomesStep DEF Execute
<1>11. CASE Drop
  BY <1>11, BecomesStep DEF Drop, Statuses
<1>12. CASE Vote
  <2>1. PICK l \in {"confirmed", "finalized"} :
          /\ Becomes([status EXCEPT !.level = l])
          /\ status.level \in {"processed", "confirmed"}
          /\ status.level = "confirmed" => l = "finalized"
    BY <1>12 DEF Vote
  <2>2. status \in [level : Levels, err : BOOLEAN]
    BY <2>1 DEF IInv, WaitTypeOK, Statuses, Unknown
  <2> DEFINE s == [status EXCEPT !.level = l]
  <2>3. s.level = l /\ s.err = status.err /\ s \in [level : Levels, err : BOOLEAN]
    BY <2>2 DEF Levels
  <2>4. s \in Statuses /\ s # Unknown /\ Becomes(s)
    BY <2>1, <2>3 DEF Statuses, Unknown
  <2>5. Rank[s.level] >= Rank[status.level]
    BY <2>1, <2>3, RankIs
  <2> HIDE DEF s
  <2> QED
    BY <2>3, <2>4, <2>5, BecomesStep
<1>13. CASE UNCHANGED confirmVars
  BY <1>13 DEF IInv, confirmVars, waitVars, clusterVars, WaitTypeOK, Clock, Watch, Seen, Verdict,
     EndsInTime, TimeoutIsLate, Unmet, Settles, StatusSatisfies
<1> QED
  BY <1>1, <1>2, <1>3, <1>4, <1>5, <1>6, <1>7, <1>8, <1>9, <1>10, <1>11, <1>12, <1>13
     DEF ConfirmNext, Call, Cluster

LEMMA Invariance == ConfirmSpec => []IInv
<1> QED
  BY InitIInv, Inductive, PTL DEF ConfirmSpec

\* The values of the variables.
THEOREM ConfirmTypeOK == ConfirmSpec => []WaitTypeOK
<1>1. IInv => WaitTypeOK
  BY DEF IInv
<1> QED
  BY <1>1, Invariance, PTL

\* What send_and_confirm/2 says of a transaction beyond "processed" holds for
\* good, for every target.
THEOREM ConfirmAnswerHolds == ConfirmSpec => []AnswerHolds
<1>1. IInv => AnswerHolds
  <2> SUFFICES ASSUME IInv PROVE AnswerHolds
    OBVIOUS
  <2>1. ASSUME result = "ok", target # "processed"
        PROVE  status # Unknown /\ ~status.err /\ Rank[status.level] >= Rank[target]
    <3>1. reply \in Statuses /\ reply.level \in Levels /\ ~reply.err
          /\ Rank[reply.level] >= Rank[target]
      BY <2>1, StatusShape, SatisfiesIs DEF IInv, Verdict, WaitTypeOK
    <3>2. reply.level \in {"confirmed", "finalized"}
      BY <2>1, <3>1, RankIs DEF IInv, WaitTypeOK, Levels
    <3>3. status # Unknown /\ ~status.err /\ Rank[status.level] >= Rank[reply.level]
      BY <3>1, <3>2 DEF IInv, Seen
    <3>4. status.level \in Levels
      BY <3>3, StatusShape DEF IInv, WaitTypeOK
    <3> QED
      BY <3>1, <3>3, <3>4, RankIs DEF IInv, WaitTypeOK, Levels
  <2>2. ASSUME result = "transaction_error", reply.level # "processed"
        PROVE  status # Unknown /\ status.err /\ Rank[status.level] >= 2
    <3>1. reply \in Statuses /\ reply.level \in {"confirmed", "finalized"} /\ reply.err
      BY <2>2, StatusShape DEF IInv, Verdict, Levels
    <3>2. status # Unknown /\ status.err /\ Rank[status.level] >= Rank[reply.level]
      BY <3>1 DEF IInv, Seen
    <3>3. status.level \in Levels
      BY <3>2, StatusShape DEF IInv, WaitTypeOK
    <3> QED
      BY <3>1, <3>2, <3>3, RankIs DEF Levels
  <2> QED
    BY <2>1, <2>2 DEF AnswerHolds
<1> QED
  BY <1>1, Invariance, PTL

\* By how much the wait may exceed :timeout, for every interval and latency,
\* and whatever limit the HTTP client sets a request; the documented maximum,
\* WaitIsMaximal, does not hold.
THEOREM ConfirmEndsInTime == ConfirmSpec => []EndsInTime
<1>1. IInv => EndsInTime
  BY DEF IInv
<1> QED
  BY <1>1, Invariance, PTL

\* {:error, :timeout} is not said of a transaction that was there to be seen.
THEOREM ConfirmTimeoutIsLate == ConfirmSpec => []TimeoutIsLate
<1>1. IInv => TimeoutIsLate
  BY DEF IInv
<1> QED
  BY <1>1, Invariance, PTL

=============================================================================
