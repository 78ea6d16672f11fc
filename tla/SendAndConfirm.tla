--------------------------- MODULE SendAndConfirm ---------------------------
(***************************************************************************)
(* Onchain.Solana.RPC.send_and_confirm/2: submit a transaction and ask for *)
(* its status until it reaches a commitment level, against a cluster that  *)
(* executes, forks and confirms meanwhile.  Time passes in units; what the *)
(* caller computes takes none.                                             *)
(***************************************************************************)
EXTENDS Integers

CONSTANTS
  Timeout,       \* :timeout, 30 s unless given
  Interval,      \* :poll_interval
  RequestLimit,  \* how long the HTTP client lets a request last
  Latency,       \* a request is answered within this time or not at all
  Unset

\* A request has :timeout, being in opts, or else @default_timeout, which is
\* configured, as its receive_timeout; its waits for a connection of the pool
\* and for the connection to be made come on top.  So its limit says nothing
\* of Timeout, nor Timeout of it.

Levels == {"processed", "confirmed", "finalized"}
Unknown == [level |-> "none", err |-> FALSE]
Signature == [level |-> "signed", err |-> FALSE]
Statuses == {Unknown} \cup [level : Levels, err : BOOLEAN]
Results == {"ok", "transaction_error", "timeout", "error"}

ASSUME WaitOptionsGiven ==
  /\ Timeout \in Nat \ {0} /\ Interval \in Nat \ {0}
  /\ RequestLimit \in Nat /\ Latency \in Nat /\ Latency <= RequestLimit

ASSUME UnsetIsNothing ==
  Unset \notin Int /\ Unset \notin Results /\ Unset \notin Statuses \cup {Signature}

VARIABLES
  target,           \* :commitment
  stage,
  now, since,       \* when the current request or sleep began
  sent, deadline,   \* when the signature came; what was made of it
  reply,            \* the node's answer to the current request
  result,
  taken,            \* the node has the transaction
  status,           \* its status on the cluster's main fork
  settled           \* since when that status ends a poll

waitVars == <<target, stage, since, sent, deadline, result>>
clusterVars == <<taken, status, settled>>
confirmVars == <<waitVars, now, reply, clusterVars>>

ConfirmInit ==
  /\ target \in Levels
  /\ stage = "sending" /\ now = 0 /\ since = 0 /\ sent = Unset /\ deadline = Unset
  /\ reply = Unset /\ result = Unset
  /\ taken = FALSE /\ status = Unknown /\ settled = Unset

-----------------------------------------------------------------------------
(* The call. *)

ReturnWith(r) ==
  /\ stage' = "done" /\ result' = r
  /\ UNCHANGED <<target, since, sent, deadline, now, reply, clusterVars>>

AnsweredInTime == reply # Unset /\ now <= since + Latency

\* Faulty variant: the clock starts with the submission.
SubmittedEarly ==
  /\ stage = "sending" /\ AnsweredInTime
  /\ sent' = now /\ deadline' = since + Timeout
  /\ stage' = "polling" /\ since' = now /\ reply' = Unset
  /\ UNCHANGED <<target, now, result, clusterVars>>

\* send_transaction/2 has answered, and the first poll goes out at once.
Submitted ==
  /\ stage = "sending" /\ AnsweredInTime
  /\ sent' = now /\ deadline' = now + Timeout
  /\ stage' = "polling" /\ since' = now /\ reply' = Unset
  /\ UNCHANGED <<target, now, result, clusterVars>>

\* Faulty variant: any status will do unless finality is asked for.
SatisfiesMost(s) == s = target \/ s = "finalized" \/ target # "finalized"

\* status_satisfies?/2, clause by clause.
StatusSatisfies(s) ==
  s = target \/ s = "finalized" \/ (s = "confirmed" /\ target = "processed")

Unmet(s) == s = Unknown \/ (~s.err /\ ~StatusSatisfies(s.level))

\* check_status/5.
Fails ==
  /\ stage = "polling" /\ AnsweredInTime /\ reply.err
  /\ ReturnWith("transaction_error")

Confirms ==
  /\ stage = "polling" /\ AnsweredInTime /\ reply # Unknown /\ ~reply.err
  /\ StatusSatisfies(reply.level)
  /\ ReturnWith("ok")

SleepAndRetry ==
  /\ stage = "polling" /\ AnsweredInTime /\ Unmet(reply)
  /\ stage' = "sleeping" /\ since' = now
  /\ UNCHANGED <<target, sent, deadline, now, reply, result, clusterVars>>

\* An error the node or a gateway answers, to either request.
Refused ==
  /\ stage \in {"sending", "polling"} /\ now <= since + Latency
  /\ ReturnWith("error")

\* Faulty variant: a request that is not answered has no end.
NoAnswerNoEnd == FALSE /\ ReturnWith("error")

\* No connection can be had or it breaks, at any time, or the limit is up.
NoAnswer ==
  /\ stage \in {"sending", "polling"} /\ now <= since + RequestLimit
  /\ ReturnWith("error")

\* Faulty variant: each poll has the whole time before it.
PollWithNewDeadline ==
  /\ stage = "sleeping" /\ now = since + Interval
  /\ stage' = "polling" /\ since' = now /\ reply' = Unset /\ deadline' = now + Timeout
  /\ UNCHANGED <<target, sent, now, result, clusterVars>>

\* poll_signature/5 after the sleep of retry/5.
Poll ==
  /\ stage = "sleeping" /\ now = since + Interval /\ now <= deadline
  /\ stage' = "polling" /\ since' = now /\ reply' = Unset
  /\ UNCHANGED <<target, sent, deadline, now, result, clusterVars>>

TimesOut ==
  /\ stage = "sleeping" /\ now = since + Interval /\ now > deadline
  /\ ReturnWith("timeout")

Call ==
  \/ Submitted \/ Fails \/ Confirms \/ SleepAndRetry \/ Refused \/ NoAnswer \/ Poll \/ TimesOut

Due == IF stage = "sleeping" THEN since + Interval ELSE since + RequestLimit

Tick ==
  /\ stage # "done" /\ now < Due
  /\ now' = now + 1
  /\ UNCHANGED <<waitVars, reply, clusterVars>>

-----------------------------------------------------------------------------
(* The node and its cluster. *)

\* The node forwards the transaction and answers with its signature, or the
\* answer is lost on the way.
Forward ==
  /\ stage = "sending" /\ reply = Unset /\ ~taken
  /\ taken' = TRUE
  /\ reply' \in {Unset, Signature}
  /\ UNCHANGED <<waitVars, now, status, settled>>

\* getSignatureStatuses.
Look ==
  /\ stage = "polling" /\ reply = Unset
  /\ reply' = status
  /\ UNCHANGED <<waitVars, now, clusterVars>>

Rank == [l \in Levels |-> CASE l = "processed" -> 1 [] l = "confirmed" -> 2 [] OTHER -> 3]

Settles(s) == s # Unknown /\ (s.err \/ Rank[s.level] >= Rank[target])

Becomes(s) ==
  /\ status' = s
  /\ settled' = IF ~Settles(s) THEN Unset ELSE IF settled = Unset THEN now ELSE settled
  /\ UNCHANGED <<waitVars, now, reply, taken>>

Execute ==
  /\ taken /\ status = Unknown
  /\ \E e \in BOOLEAN : Becomes([level |-> "processed", err |-> e])

\* The block is not on the fork that wins.
Drop == status.level = "processed" /\ Becomes(Unknown)

Vote ==
  \/ status.level = "processed" /\ Becomes([status EXCEPT !.level = "confirmed"])
  \/ status.level = "confirmed" /\ Becomes([status EXCEPT !.level = "finalized"])

Cluster == Forward \/ Look \/ Execute \/ Drop \/ Vote

-----------------------------------------------------------------------------

ConfirmNext == Call \/ Tick \/ Cluster

ConfirmSpec == ConfirmInit /\ [][ConfirmNext]_confirmVars /\ WF_confirmVars(Call) /\ WF_confirmVars(Tick)

-----------------------------------------------------------------------------
(* Properties. *)

\* The values of the variables.  A poll is answered with a status, and each
\* request's answer is its own.
WaitTypeOK ==
  /\ target \in Levels /\ stage \in {"sending", "polling", "sleeping", "done"}
  /\ now \in Nat /\ since \in Nat
  /\ sent \in Nat \cup {Unset} /\ deadline \in Nat \cup {Unset}
  /\ reply \in {Unset, Signature} \cup Statuses
  /\ stage \in {"polling", "sleeping"} =>
       reply # Signature /\ sent # Unset /\ deadline # Unset
  /\ result \in Results \cup {Unset}
  /\ taken \in BOOLEAN /\ status \in Statuses /\ settled \in Nat \cup {Unset}

\* What send_and_confirm/2 answers of a transaction beyond "processed" is never
\* undone: an answer :ok is at the target for good, and an error that was seen
\* on a confirmed block is the transaction's last word.
AnswerHolds ==
  /\ result = "ok" /\ target # "processed" =>
       status # Unknown /\ ~status.err /\ Rank[status.level] >= Rank[target]
  /\ result = "transaction_error" /\ reply.level # "processed" =>
       status # Unknown /\ status.err /\ Rank[status.level] >= 2

\* The wait after the signature exceeds :timeout, but by no more than a last
\* poll and a last sleep, or by a poll that is not answered, however long the
\* HTTP client lets that last.
EndsInTime ==
  sent # Unset =>
    \/ now <= sent + Timeout + Latency + Interval
    \/ now <= sent + Timeout + RequestLimit

\* The options of send_and_confirm/2: "Maximum confirmation wait in
\* milliseconds", and its doc: "Max time to wait in ms".
WaitIsMaximal == sent # Unset => now <= sent + Timeout

\* {:error, :timeout} is not said of a transaction that was there to be seen
\* early enough for a poll before the deadline.
TimeoutIsLate ==
  result = "timeout" /\ settled # Unset =>
    settled > sent + Timeout - (Interval + Latency)

\* The call returns, whatever the node and the cluster do.
CallReturns == <>(stage = "done")

=============================================================================
