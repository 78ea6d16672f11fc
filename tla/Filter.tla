------------------------------- MODULE Filter -------------------------------
(***************************************************************************)
(* Onchain.Filter: a GenServer that polls a node-side filter and sends the *)
(* results to its listeners, over the JSON-RPC transport of Onchain.RPC    *)
(* and under a supervisor that may restart it.                             *)
(*                                                                         *)
(* The GenServer handles one message at a time, so between the steps of    *)
(* an RPC only the node, the network and the supervisor move.  A log is    *)
(* its position in the chain; topicOf[n] is its first topic.               *)
(***************************************************************************)
EXTENDS Naturals, Sequences, FiniteSets

CONSTANTS
  Listeners,      \* processes that may call listen/1
  Topics,         \* first topics of logs
  Decoded,        \* those whose logs decode: in :events, with data that fits
  MaxRetries,     \* max_retries of the :retry policy in :rpc_opts
  MaxLogs,        \* bound: logs in the chain
  MaxFaults,      \* bound: lost answers, expiries, bad logs, kills
  MaxStarts,      \* bound: incarnations of the GenServer
  NoFilter

ASSUME DecodedAreTopics == Decoded \subseteq Topics
ASSUME BoundsAreNats == {MaxRetries, MaxLogs, MaxFaults, MaxStarts} \subseteq Nat

\* The node numbers its filters as it creates them: one per incarnation and
\* one per fault are enough.
FilterIds == 1..(MaxStarts + MaxFaults)

ASSUME NoFilterIsNoId == NoFilter \notin FilterIds

VARIABLES
  proc,       \* what the GenServer is doing
  filterId,   \* state.filter_id
  listeners,  \* state.listeners, newest first
  armed,      \* a :check_filter is due or queued
  left,       \* retries left for the request in progress
  reply,      \* its outcome, once known
  inbox,      \* what each listener has been sent
  live,       \* the filters alive at the node
  granted,    \* how many filters the node has created
  backlog,    \* logs the node keeps for each filter
  topicOf,    \* the chain
  known,      \* filters this incarnation was told it owns
  reported,   \* logs up to here are covered by a logged error
  retried,    \* logs up to here were in an answer lost under a retry
  since,      \* the chain's length when each listener registered
  faults,
  starts

processVars == <<proc, filterId, listeners, armed>>
rpcVars     == <<left, reply>>
serverVars  == <<live, granted, backlog, topicOf>>
history     == <<inbox, known, reported, retried, since>>
counters    == <<faults, starts>>
filterVars == <<processVars, rpcVars, serverVars, history, counters>>

\* The states in which the GenServer waits for an answer.
Calling == {"init", "polling", "renewing", "terminating"}

Running == {"idle", "polling", "renewing", "terminating"}

NoReply == [kind |-> "none"]
Height == Len(topicOf)

FilterInit ==
  /\ proc = "down" /\ filterId = NoFilter /\ listeners = <<>> /\ armed = FALSE
  /\ left = 0 /\ reply = NoReply
  /\ live = {} /\ granted = 0 /\ topicOf = <<>>
  /\ backlog = [i \in FilterIds |-> <<>>]
  /\ inbox = [l \in Listeners |-> <<>>]
  /\ known = {} /\ reported = 0 /\ retried = 0
  /\ since = [l \in Listeners |-> 0]
  /\ faults = 0 /\ starts = 0

Entries(s) == {s[k] : k \in DOMAIN s}

\* The GenServer enters state p and, if p waits, sends p's request.
Enter(p) ==
  /\ proc' = p
  /\ left' = MaxRetries
  /\ reply' = NoReply

-----------------------------------------------------------------------------
(* The GenServer. *)

\* init/1 and start_link: no listeners, then set_filter.
Start ==
  /\ proc = "down" /\ starts < MaxStarts
  /\ Enter("init")
  /\ starts' = starts + 1
  /\ listeners' = <<>> /\ filterId' = NoFilter
  /\ known' = {}
  /\ UNCHANGED <<armed, serverVars, inbox, reported, retried, since, faults>>

\* handle_cast({:listen, pid}): prepended.  The code neither deduplicates nor
\* monitors; here a listener registers once per incarnation and lives on.
Listen(l) ==
  /\ proc = "idle"
  /\ l \notin Entries(listeners)
  /\ listeners' = <<l>> \o listeners
  /\ since' = [since EXCEPT ![l] = Height]
  /\ UNCHANGED <<proc, filterId, armed, rpcVars, serverVars, inbox, known,
                 reported, retried, counters>>

\* Faulty variant: the timer is not re-armed.
CheckFilterOnce ==
  /\ proc = "idle" /\ armed
  /\ armed' = FALSE
  /\ Enter("polling")
  /\ UNCHANGED <<filterId, listeners, serverVars, history, counters>>

\* handle_info(:check_filter): re-arm the timer, then poll.
CheckFilter ==
  /\ proc = "idle" /\ armed
  /\ armed' = TRUE
  /\ Enter("polling")
  /\ UNCHANGED <<filterId, listeners, serverVars, history, counters>>

\* set_filter's {:ok, filter_id}: at start the timer is armed; at renewal the
\* "some logs may have been lost" of poll_filter covers the chain so far.
SetFilter ==
  /\ proc \in {"init", "renewing"} /\ reply.kind = "ok"
  /\ Enter("idle")
  /\ filterId' = reply.id
  /\ known' = known \cup {reply.id}
  /\ armed' = TRUE
  /\ reported' = IF proc = "renewing" THEN Height ELSE reported
  /\ UNCHANGED <<listeners, serverVars, inbox, retried, since, counters>>

\* set_filter's MatchError.  In init/1 the start fails and terminate/2 is not
\* run; later the GenServer crashes through terminate/2 with the old id.
SetFilterFails ==
  /\ proc \in {"init", "renewing"} /\ reply.kind \in {"unknown", "error"}
  /\ Enter(IF proc = "init" THEN "down" ELSE "terminating")
  /\ reported' = Height
  /\ UNCHANGED <<filterId, listeners, armed, serverVars, inbox, known, retried,
                 since, counters>>

\* The positions in S, lowest first.
InOrder(S) ==
  CHOOSE at \in [1..Cardinality(S) -> S] :
    \A j, k \in DOMAIN at : j < k => at[j] < at[k]

DecodedAt(batch) == {k \in DOMAIN batch : topicOf[batch[k]] \in Decoded}

\* Faulty variant: the groups are not sorted back into the logs' order.
EventsByGroup(batch) ==
  LET first == {k \in DOMAIN batch : topicOf[batch[k]] = topicOf[batch[Len(batch)]]}
      at == InOrder(DecodedAt(batch) \cap first)
              \o InOrder(DecodedAt(batch) \ first)
  IN  [k \in DOMAIN at |-> batch[at[k]]]

\* parse_events: decoded events by topic group, back in the logs' order.
Events(batch) ==
  LET at == InOrder(DecodedAt(batch)) IN [k \in DOMAIN at |-> batch[at[k]]]

\* Faulty variant: a log without a decoded event is not sent.
MessagesDecodedOnly(batch) ==
  LET events == Events(batch) IN
     [k \in DOMAIN events |-> [kind |-> "event", n |-> events[k]]]
  \o [k \in DOMAIN events |-> [kind |-> "log", n |-> events[k]]]

\* What dispatch_changes sends one listener: events, then every raw log.
Messages(batch) ==
  LET events == Events(batch) IN
     [k \in DOMAIN events |-> [kind |-> "event", n |-> events[k]]]
  \o [k \in DOMAIN batch |-> [kind |-> "log", n |-> batch[k]]]

\* poll_filter's {:ok, raw}.
DispatchChanges ==
  /\ proc = "polling" /\ reply.kind = "ok"
  /\ Enter("idle")
  /\ inbox' = [l \in Listeners |->
                 IF l \in Entries(listeners)
                   THEN inbox[l] \o Messages(reply.batch) ELSE inbox[l]]
  /\ UNCHANGED <<filterId, listeners, armed, serverVars, known, reported,
                 retried, since, counters>>

\* Log.decode_logs raises on a malformed log: the batch, already consumed at
\* the node, is lost with the GenServer.
DecodeRaises ==
  /\ proc = "polling" /\ reply.kind = "ok" /\ reply.batch # <<>>
  /\ faults < MaxFaults
  /\ faults' = faults + 1
  /\ Enter("terminating")
  /\ reported' = Height
  /\ UNCHANGED <<filterId, listeners, armed, serverVars, inbox, known, retried,
                 since, starts>>

\* poll_filter's {:error, %{code: -32_000}}: a new filter takes over.
Renew ==
  /\ proc = "polling" /\ reply.kind = "unknown"
  /\ Enter("renewing")
  /\ UNCHANGED <<filterId, listeners, armed, serverVars, history, counters>>

\* poll_filter's other errors: logged, and the next tick polls again.
PollFails ==
  /\ proc = "polling" /\ reply.kind = "error"
  /\ Enter("idle")
  /\ reported' = Height
  /\ UNCHANGED <<filterId, listeners, armed, serverVars, inbox, known, retried,
                 since, counters>>

\* The supervisor stops the GenServer: terminate/2 uninstalls the filter.
Shutdown ==
  /\ proc = "idle"
  /\ Enter("terminating")
  /\ UNCHANGED <<filterId, listeners, armed, serverVars, history, counters>>

\* uninstall_filter returns whatever the answer was, and the process ends.
Terminated ==
  /\ proc = "terminating" /\ reply # NoReply
  /\ Enter("down")
  /\ armed' = FALSE
  /\ UNCHANGED <<filterId, listeners, serverVars, history, counters>>

\* Killed: the shutdown budget ran out, or the node went down.
Kill ==
  /\ proc \in Running /\ faults < MaxFaults
  /\ faults' = faults + 1
  /\ Enter("down")
  /\ armed' = FALSE
  /\ reported' = Height
  /\ UNCHANGED <<filterId, listeners, serverVars, inbox, known, retried,
                 since, starts>>

-----------------------------------------------------------------------------
(* One attempt of the request in progress (Onchain.RPC.retry_request). *)

\* What the node does for the request, and what it answers.  A provider that
\* delivers -32000 under an HTTP error status is answered with a plain error.
NodeServes(answer) ==
  \/ /\ proc \in {"init", "renewing"}
     /\ granted + 1 \in FilterIds
     /\ granted' = granted + 1
     /\ live' = live \cup {granted + 1}
     /\ answer = [kind |-> "ok", id |-> granted + 1]
     /\ UNCHANGED backlog
  \/ /\ proc = "polling" /\ filterId \in live
     /\ answer = [kind |-> "ok", batch |-> backlog[filterId]]
     /\ backlog' = [backlog EXCEPT ![filterId] = <<>>]
     /\ UNCHANGED <<live, granted>>
  \/ /\ proc = "polling" /\ filterId \notin live
     /\ answer.kind \in {"unknown", "error"}
     /\ UNCHANGED <<live, granted, backlog>>
  \/ /\ proc = "terminating"
     /\ live' = live \ {filterId}
     /\ backlog' = [i \in FilterIds |->
                      IF i = filterId THEN <<>> ELSE backlog[i]]
     /\ answer = [kind |-> "ok"]
     /\ UNCHANGED granted

Answers ==
       [kind: {"ok", "unknown", "error"}]
  \cup [kind: {"ok"}, id: FilterIds]
  \cup {[kind |-> "ok", batch |-> backlog[i]] : i \in FilterIds}

AttemptAnswered ==
  /\ proc \in Calling /\ reply = NoReply
  /\ \E answer \in Answers : NodeServes(answer) /\ reply' = answer
  /\ UNCHANGED <<processVars, left, topicOf, history, counters>>

\* A transport failure: the same request again while retries are left.
TransportError ==
  /\ faults < MaxFaults
  /\ faults' = faults + 1
  /\ IF left > 0
       THEN left' = left - 1 /\ UNCHANGED reply
       ELSE reply' = [kind |-> "error"] /\ UNCHANGED left

\* The node served the request and its answer got lost.
AnswerLost ==
  /\ proc \in Calling /\ reply = NoReply
  /\ \E answer \in Answers : NodeServes(answer)
  /\ TransportError
  /\ retried' = IF proc = "polling" /\ left > 0 THEN Height ELSE retried
  /\ UNCHANGED <<processVars, topicOf, inbox, known, reported, since, starts>>

RequestLost ==
  /\ proc \in Calling /\ reply = NoReply
  /\ TransportError
  /\ UNCHANGED <<processVars, serverVars, history, starts>>

\* -32000 is also the code of errors that say nothing about the filter.
SpuriousError ==
  /\ proc = "polling" /\ reply = NoReply
  /\ faults < MaxFaults
  /\ faults' = faults + 1
  /\ reply' = [kind |-> "unknown"]
  /\ UNCHANGED <<processVars, left, serverVars, history, starts>>

-----------------------------------------------------------------------------
(* The node. *)

Emit(t) ==
  /\ Height < MaxLogs
  /\ topicOf' = Append(topicOf, t)
  /\ backlog' = [i \in FilterIds |->
                   IF i \in live THEN Append(backlog[i], Height + 1)
                   ELSE backlog[i]]
  /\ UNCHANGED <<processVars, rpcVars, live, granted, history, counters>>

Expire(i) ==
  /\ i \in live
  /\ faults < MaxFaults
  /\ faults' = faults + 1
  /\ live' = live \ {i}
  /\ backlog' = [backlog EXCEPT ![i] = <<>>]
  /\ UNCHANGED <<processVars, rpcVars, granted, topicOf, history, starts>>

-----------------------------------------------------------------------------
Handle ==
  \/ CheckFilter
  \/ SetFilter \/ SetFilterFails
  \/ DispatchChanges \/ DecodeRaises \/ Renew \/ PollFails
  \/ Terminated

Attempt == AttemptAnswered \/ AnswerLost \/ RequestLost \/ SpuriousError

FilterNext ==
  \/ Start \/ Shutdown \/ Kill
  \/ \E l \in Listeners : Listen(l)
  \/ Handle
  \/ Attempt
  \/ \E t \in Topics : Emit(t)
  \/ \E i \in FilterIds : Expire(i)

\* A running GenServer handles its messages, and every HTTP attempt ends: the
\* transport has a receive timeout.  Starting, stopping and the chain are free.
FilterFairness == WF_filterVars(Handle) /\ WF_filterVars(Attempt)

FilterSpec == FilterInit /\ [][FilterNext]_filterVars /\ FilterFairness

-----------------------------------------------------------------------------
(* Properties. *)

\* dispatch_changes sends a batch's events before its raw logs: a listener
\* has the event of a log that is decoded ahead of the log itself.
EventAhead ==
  \A l \in Listeners, n \in 1..Height : \A k \in DOMAIN inbox[l] :
    topicOf[n] \in Decoded /\ inbox[l][k] = [kind |-> "log", n |-> n] =>
      \E j \in DOMAIN inbox[l] : j < k /\ inbox[l][j] = [kind |-> "event", n |-> n]

\* Across polls, renewals and restarts a listener receives the raw logs in
\* chain order and none twice, the same for the decoded events, and each
\* decoded event ahead of its raw log.
InboxInChainOrder ==
  /\ \A l \in Listeners : \A j, k \in DOMAIN inbox[l] :
       j < k /\ inbox[l][j].kind = inbox[l][k].kind => inbox[l][j].n < inbox[l][k].n
  /\ EventAhead

\* Between polls, a log a registered listener has not got is still to be had
\* from the filter being polled, unless that filter is gone, an error has been
\* logged since, or :retry asked again for changes the node had already given:
\* beyond that the GenServer never passes over a log in silence.
NoSilentLoss ==
  proc = "idle" =>
    \A l \in Entries(listeners) : \A n \in 1..Height :
      \/ n <= since[l]
      \/ n <= reported \/ n <= retried
      \/ [kind |-> "log", n |-> n] \in Entries(inbox[l])
      \/ filterId \notin live
      \/ n \in Entries(backlog[filterId])

\* Polling goes on until every listener has caught up: however the polls in
\* between end, each registered listener gets every log of the chain or a
\* logged error or a retry covers it, unless the GenServer goes down.
CaughtUp ==
  /\ proc = "idle"
  /\ \A l \in Entries(listeners) : \A n \in 1..Height :
       \/ n <= since[l] \/ n <= reported \/ n <= retried
       \/ [kind |-> "log", n |-> n] \in Entries(inbox[l])

ListenersCatchUp == proc = "idle" ~> CaughtUp \/ proc = "down"

\* The moduledoc: the GenServer uninstalls its node-side filter on shutdown.
\* After a shutdown the node has confirmed, none of its filters is left.
ShutdownLeavesNoFilter ==
  [][proc = "terminating" /\ reply.kind = "ok" /\ proc' = "down"
       /\ starts' = starts /\ faults' = faults => live \cap known = {}]_filterVars

=============================================================================
