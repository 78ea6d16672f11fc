---------------------------- MODULE Subscription ----------------------------
(***************************************************************************)
(* Onchain.Subscription: eth_subscribe over one WebSocket connection.      *)
(*                                                                         *)
(* Four kinds of actors share a connection: the processes that call        *)
(* subscribe/3 and unsubscribe/2, the zen_websocket client process that    *)
(* handles inbound frames in order, the Agent that holds the registry, the *)
(* race buffer and the in-flight counter, and the node at the other end.   *)
(* Every Agent call is atomic; everything between two of them is not, nor  *)
(* is what a process does with the Agent's answer.                         *)
(*                                                                         *)
(* A subscription id stands for the node's hex string: the ids are numbers *)
(* because Erlang orders the keys of a small map by term order, and that   *)
(* order decides which buffered id is evicted.  A notification is its      *)
(* position in the order the node sent them, so target[n] is the id of     *)
(* notification n.                                                         *)
(***************************************************************************)
EXTENDS Naturals, Sequences, FiniteSets

CONSTANTS
  Calls,      \* the subscribe/3 calls made on the connection, one run each
  SubIds,     \* the subscription ids the node hands out
  MaxPerId,   \* @max_pending_per_sub_id
  MaxIds,     \* @max_pending_distinct_sub_ids
  MaxNotes,   \* bound: notifications the node sends in a behaviour
  Stoppers,   \* who runs stop_agent: callers of close/1, on_disconnect
  None        \* no id granted yet

ASSUME CallsFinite == IsFiniteSet(Calls)
ASSUME SubIdsAreTerms == SubIds \subseteq Nat /\ IsFiniteSet(SubIds)
ASSUME CapsPositive == MaxPerId \in Nat \ {0} /\ MaxIds \in Nat \ {0}
ASSUME BoundIsNat == MaxNotes \in Nat
ASSUME NoneIsNoId == None \notin SubIds

VARIABLES
  pc,         \* where each call stands
  grant,      \* the id the node allotted to each call
  request,    \* what the node has been asked, per call, and not answered
  flush,      \* the drained notifications a call still has to dispatch
  registry,   \* Agent: the registered ids
  pending,    \* Agent: buffered notifications per id, newest first
  inFlight,   \* Agent: eth_subscribe calls in flight
  conn,       \* "open"; "down": client gone; "stopped": Agent gone too
  wire,       \* frames from the node, oldest first
  stops,      \* where each run of stop_agent stands
  inHand,     \* what the client process found registered, not yet dispatched
  target,     \* id of every notification sent so far
  delivered,  \* notifications handed to the connection's handler
  dropped,    \* notifications discarded without being buffered
  evicted     \* notifications pushed out of the buffer by a cap

agentVars == <<registry, pending, inFlight>>
fates     == <<inHand, delivered, dropped, evicted>>
nodeVars  == <<grant, request, wire, target>>
connVars  == <<conn, stops>>
vars == <<pc, flush, connVars, agentVars, fates, nodeVars>>

Frames ==
       [kind: {"granted", "removed", "refused"}, call: Calls]
  \cup [kind: {"note"}, n: 1..MaxNotes]

\* pc values between the increment of in_flight and the `after` clause.
InFlightAt == {"counted", "waiting", "replied", "flushing", "failing"}

\* pc values at which the caller still expects the notifications of its id.
AwaitingAt == {"waiting", "replied", "flushing", "subscribed", "unsubscribing"}

Places == InFlightAt \cup AwaitingAt
          \cup {"idle", "removing", "failed", "unsubscribed", "exited"}

AgentUp == conn # "stopped"

Init ==
  /\ pc = [c \in Calls |-> "idle"]
  /\ grant = [c \in Calls |-> None]
  /\ request = [c \in Calls |-> "none"]
  /\ flush = [c \in Calls |-> <<>>]
  /\ registry = {}
  /\ pending = [i \in SubIds |-> <<>>]
  /\ inFlight = 0
  /\ conn = "open"
  /\ stops = [s \in Stoppers |-> "idle"]
  /\ wire = <<>>
  /\ inHand = {}
  /\ target = <<>>
  /\ delivered = {}
  /\ dropped = {}
  /\ evicted = {}

Elements(s) == {s[k] : k \in DOMAIN s}

Reversed(s) == [k \in 1..Len(s) |-> s[Len(s) + 1 - k]]

-----------------------------------------------------------------------------
(* The race buffer. *)

\* The ids that are keys of the pending map: no key holds an empty list.
Buffered(p) == {i \in SubIds : p[i] # <<>>}

\* Enum.at(pending, 0): the first key of a small map is the least term.
FirstKey(p) == CHOOSE i \in Buffered(p) : \A j \in Buffered(p) : i <= j

\* evict_oldest_pending_key: a new id takes the place of another at the cap.
EvictOldestPendingKey(p, i) ==
  IF i \in Buffered(p) \/ Cardinality(Buffered(p)) < MaxIds
    THEN p
    ELSE [p EXCEPT ![FirstKey(p)] = <<>>]

\* Faulty variant: at the cap the newcomer is refused.
PushBoundedKeepsOldest(p, i, n) ==
  LET q == EvictOldestPendingKey(p, i)
  IN IF Len(q[i]) = MaxPerId THEN q ELSE [q EXCEPT ![i] = <<n>> \o @]

\* push_bounded: prepend, keep the newest MaxPerId.
PushBounded(p, i, n) ==
  LET q    == EvictOldestPendingKey(p, i)
      next == <<n>> \o q[i]
  IN [q EXCEPT ![i] =
        IF Len(next) > MaxPerId THEN SubSeq(next, 1, MaxPerId) ELSE next]

AllPending(p) == UNION {Elements(p[i]) : i \in SubIds}

-----------------------------------------------------------------------------
(* subscribe/3, one step per Agent call or message. *)

\* Faulty variant: the call is not counted as in flight.
BeginSubscribeUncounted(c) ==
  /\ pc[c] = "idle"
  /\ pc' = [pc EXCEPT ![c] = IF AgentUp THEN "counted" ELSE "exited"]
  /\ UNCHANGED <<flush, connVars, agentVars, fates, nodeVars>>

\* do_subscribe marks an eth_subscribe as in flight; a call on an Agent that
\* has stopped exits the caller.
BeginSubscribe(c) ==
  /\ pc[c] = "idle"
  /\ IF AgentUp
       THEN /\ inFlight' = inFlight + 1
            /\ pc' = [pc EXCEPT ![c] = "counted"]
       ELSE /\ pc' = [pc EXCEPT ![c] = "exited"]
            /\ UNCHANGED inFlight
  /\ UNCHANGED <<flush, registry, pending, connVars, fates, nodeVars>>

\* Client.send_message: the caller blocks until an answer or a timeout.
SendSubscribe(c) ==
  /\ pc[c] = "counted"
  /\ pc' = [pc EXCEPT ![c] = "waiting"]
  /\ request' = [request EXCEPT ![c] =
                   IF conn = "open" THEN "subscribe" ELSE "none"]
  /\ UNCHANGED <<flush, connVars, agentVars, fates, grant, wire, target>>

\* Faulty variant: an error returns past the `after` clause.
SubscribeErrorSkipsAfter(c) ==
  /\ pc[c] = "waiting"
  /\ pc' = [pc EXCEPT ![c] = "failed"]
  /\ UNCHANGED <<flush, connVars, agentVars, fates, nodeVars>>

\* Faulty variant: the caller of a lost connection is not told.
SubscribeErrorNeedsConnection(c) ==
  /\ pc[c] = "waiting" /\ conn = "open"
  /\ pc' = [pc EXCEPT ![c] = "failing"]
  /\ UNCHANGED <<flush, connVars, agentVars, fates, nodeVars>>

\* send_message answers {:error, reason}: the request timed out, or the
\* connection was lost under it.  The node may have granted an id by then.
SubscribeError(c) ==
  /\ pc[c] = "waiting"
  /\ pc' = [pc EXCEPT ![c] = "failing"]
  /\ UNCHANGED <<flush, connVars, agentVars, fates, nodeVars>>

\* Faulty variant: the buffer is read and not popped.
RegisterKeepsBuffer(c) ==
  /\ pc[c] = "replied" /\ AgentUp
  /\ registry' = registry \cup {grant[c]}
  /\ flush' = [flush EXCEPT ![c] = Reversed(pending[grant[c]])]
  /\ pc' = [pc EXCEPT ![c] = "flushing"]
  /\ UNCHANGED <<pending, inFlight, connVars, fates, nodeVars>>

\* register_and_drain: one Agent call that registers the id and pops its
\* buffer, to be dispatched oldest first.
RegisterAndDrain(c) ==
  /\ pc[c] = "replied"
  /\ IF AgentUp
       THEN /\ registry' = registry \cup {grant[c]}
            /\ flush' = [flush EXCEPT ![c] = Reversed(pending[grant[c]])]
            /\ pending' = [pending EXCEPT ![grant[c]] = <<>>]
            /\ pc' = [pc EXCEPT ![c] = "flushing"]
       ELSE /\ pc' = [pc EXCEPT ![c] = "failing"]
            /\ UNCHANGED <<registry, pending, flush>>
  /\ UNCHANGED <<inFlight, connVars, fates, nodeVars>>

\* One drained notification goes through the handler.
Flush(c) ==
  /\ pc[c] = "flushing"
  /\ flush[c] # <<>>
  /\ delivered' = delivered \cup {Head(flush[c])}
  /\ flush' = [flush EXCEPT ![c] = Tail(flush[c])]
  /\ UNCHANGED <<pc, connVars, agentVars, inHand, dropped, evicted, nodeVars>>

\* The handler raises on a drained notification: the rest is lost.
HandlerRaises(c) ==
  /\ pc[c] = "flushing"
  /\ flush[c] # <<>>
  /\ pc' = [pc EXCEPT ![c] = "failing"]
  /\ dropped' = dropped \cup Elements(flush[c])
  /\ flush' = [flush EXCEPT ![c] = <<>>]
  /\ UNCHANGED <<connVars, agentVars, inHand, delivered, evicted, nodeVars>>

\* Faulty variant: subscribe/3 returns before its drained buffer is dispatched.
FinishBeforeFlush(c) ==
  /\ pc[c] \in {"flushing", "failing"} /\ AgentUp
  /\ inFlight' = IF inFlight > 0 THEN inFlight - 1 ELSE 0
  /\ pc' = [pc EXCEPT ![c] = IF @ = "flushing" THEN "subscribed" ELSE "failed"]
  /\ UNCHANGED <<flush, registry, pending, connVars, fates, nodeVars>>

\* The `after` clause: in_flight = max(in_flight - 1, 0), then subscribe/3
\* returns or re-raises.  Without the Agent the update exits the caller.
Finish(c) ==
  /\ \/ pc[c] = "flushing" /\ flush[c] = <<>>
     \/ pc[c] = "failing"
  /\ IF AgentUp
       THEN /\ inFlight' = IF inFlight > 0 THEN inFlight - 1 ELSE 0
            /\ pc' = [pc EXCEPT ![c] =
                        IF pc[c] = "flushing" THEN "subscribed" ELSE "failed"]
       ELSE /\ pc' = [pc EXCEPT ![c] = "exited"]
            /\ UNCHANGED inFlight
  /\ UNCHANGED <<flush, registry, pending, connVars, fates, nodeVars>>

-----------------------------------------------------------------------------
(* unsubscribe/2 for the id a call obtained. *)

Unsubscribe(c) ==
  /\ pc[c] = "subscribed"
  /\ pc' = [pc EXCEPT ![c] = "unsubscribing"]
  /\ request' = [request EXCEPT ![c] =
                   IF conn = "open" THEN "unsubscribe" ELSE "none"]
  /\ UNCHANGED <<flush, connVars, agentVars, fates, grant, wire, target>>

\* {:error, reason}: the id stays registered.
UnsubscribeError(c) ==
  /\ pc[c] = "unsubscribing"
  /\ pc' = [pc EXCEPT ![c] = "failed"]
  /\ UNCHANGED <<flush, connVars, agentVars, fates, nodeVars>>

\* Faulty variant: the id stays in the registry.
RemoveOnlyBuffer(c) ==
  /\ pc[c] = "removing" /\ AgentUp
  /\ pending' = [pending EXCEPT ![grant[c]] = <<>>]
  /\ dropped' = dropped \cup Elements(pending[grant[c]])
  /\ pc' = [pc EXCEPT ![c] = "unsubscribed"]
  /\ UNCHANGED <<flush, registry, inFlight, connVars, inHand, delivered, evicted,
                 nodeVars>>

\* remove_subscription: one Agent call clears the registry and the buffer.
RemoveSubscription(c) ==
  /\ pc[c] = "removing"
  /\ IF AgentUp
       THEN /\ registry' = registry \ {grant[c]}
            /\ pending' = [pending EXCEPT ![grant[c]] = <<>>]
            /\ dropped' = dropped \cup Elements(pending[grant[c]])
            /\ pc' = [pc EXCEPT ![c] = "unsubscribed"]
       ELSE /\ pc' = [pc EXCEPT ![c] = "exited"]
            /\ UNCHANGED <<registry, pending, dropped>>
  /\ UNCHANGED <<flush, inFlight, connVars, inHand, delivered, evicted, nodeVars>>

-----------------------------------------------------------------------------
(* The client process: frames in the order the node sent them. *)

\* An answer wakes the call that waits for it; a late one is unmatched.
Answered(f) ==
  LET c == f.call IN
  CASE f.kind = "refused" /\ pc[c] = "waiting"       -> "failing"
    [] f.kind = "granted" /\ pc[c] = "waiting"       -> "replied"
    [] f.kind = "refused" /\ pc[c] = "unsubscribing" -> "failed"
    [] f.kind = "removed" /\ pc[c] = "unsubscribing" -> "removing"
    [] OTHER -> pc[c]

HandleAnswer ==
  /\ conn = "open" /\ inHand = {}
  /\ wire # <<>>
  /\ Head(wire).kind # "note"
  /\ pc' = [pc EXCEPT ![Head(wire).call] = Answered(Head(wire))]
  /\ wire' = Tail(wire)
  /\ UNCHANGED <<flush, connVars, agentVars, fates, grant, request, target>>

\* lookup_or_buffer is one Agent call: the id is registered and its type comes
\* back, or the notification is dropped, or buffered under the caps.
HandleNote ==
  /\ conn = "open" /\ inHand = {}
  /\ wire # <<>>
  /\ Head(wire).kind = "note"
  /\ wire' = Tail(wire)
  /\ LET n == Head(wire).n
         i == target[n]
         p == PushBounded(pending, i, n)
     IN \/ /\ i \in registry
           /\ inHand' = {n}
           /\ UNCHANGED <<pending, dropped, evicted>>
        \/ /\ i \notin registry /\ inFlight = 0
           /\ dropped' = dropped \cup {n}
           /\ UNCHANGED <<pending, inHand, evicted>>
        \/ /\ i \notin registry /\ inFlight # 0
           /\ pending' = p
           /\ evicted' = evicted \cup
                ((AllPending(pending) \cup {n}) \ AllPending(p))
           /\ UNCHANGED <<inHand, dropped>>
  /\ UNCHANGED <<pc, flush, connVars, registry, inFlight, delivered, grant,
                 request, target>>

\* dispatch_event, with the type the Agent answered: the registry may have
\* changed since, the client process has handled no other frame.
Dispatch ==
  /\ inHand # {}
  /\ delivered' = delivered \cup inHand
  /\ inHand' = {}
  /\ UNCHANGED <<pc, flush, connVars, agentVars, dropped, evicted, nodeVars>>

\* The client process ends, because it was asked to, because the peer went
\* away or because the handler raised; what it had in hand goes with it.
Disconnect ==
  /\ conn = "open"
  /\ conn' = "down"
  /\ wire' = <<>> /\ inHand' = {}
  /\ request' = [c \in Calls |-> "none"]
  /\ UNCHANGED <<pc, flush, stops, agentVars, delivered, dropped, evicted,
                 grant, target>>

\* stop_agent: Process.alive? is asked first.
FindAgent(s) ==
  /\ conn # "open" /\ stops[s] = "idle"
  /\ stops' = [stops EXCEPT ![s] = IF AgentUp THEN "alive" ELSE "done"]
  /\ UNCHANGED <<pc, flush, conn, agentVars, fates, nodeVars>>

\* Then Agent.stop, which exits its caller when the Agent is gone by now.
StopAgent(s) ==
  /\ stops[s] = "alive"
  /\ stops' = [stops EXCEPT ![s] = IF AgentUp THEN "done" ELSE "exited"]
  /\ conn' = "stopped"
  /\ registry' = {}
  /\ pending' = [i \in SubIds |-> <<>>]
  /\ inFlight' = 0
  /\ UNCHANGED <<pc, flush, fates, nodeVars>>

-----------------------------------------------------------------------------
(* The node.  It allots an id before it answers, and may notify about an id *)
(* before its answer is sent, after the caller gave up, and after it was    *)
(* asked to stop.                                                           *)

Grant(c, i) ==
  /\ request[c] = "subscribe"
  /\ \A d \in Calls : grant[d] # i
  /\ grant' = [grant EXCEPT ![c] = i]
  /\ request' = [request EXCEPT ![c] = "granted"]
  /\ UNCHANGED <<pc, flush, connVars, agentVars, fates, wire, target>>

Answer(c, kind) ==
  /\ \/ kind = "granted" /\ request[c] = "granted"
     \/ kind = "refused" /\ request[c] \in {"subscribe", "unsubscribe"}
     \/ kind = "removed" /\ request[c] = "unsubscribe"
  /\ request' = [request EXCEPT ![c] = "none"]
  /\ wire' = Append(wire, [kind |-> kind, call |-> c])
  /\ UNCHANGED <<pc, flush, connVars, agentVars, fates, grant, target>>

Notify(c) ==
  /\ conn = "open"
  /\ grant[c] # None
  /\ Len(target) < MaxNotes
  /\ target' = Append(target, grant[c])
  /\ wire' = Append(wire, [kind |-> "note", n |-> Len(target) + 1])
  /\ UNCHANGED <<pc, flush, connVars, agentVars, fates, grant, request>>

-----------------------------------------------------------------------------
CallerStep(c) ==
  \/ SendSubscribe(c)
  \/ SubscribeError(c)
  \/ RegisterAndDrain(c)
  \/ Flush(c)
  \/ HandlerRaises(c)
  \/ Finish(c)
  \/ UnsubscribeError(c)
  \/ RemoveSubscription(c)

Next ==
  \/ \E c \in Calls :
       \/ BeginSubscribe(c)
       \/ Unsubscribe(c)
       \/ CallerStep(c)
       \/ \E i \in SubIds : Grant(c, i)
       \/ \E kind \in {"granted", "refused", "removed"} : Answer(c, kind)
       \/ Notify(c)
  \/ HandleAnswer
  \/ HandleNote
  \/ Dispatch
  \/ Disconnect
  \/ \E s \in Stoppers : FindAgent(s) \/ StopAgent(s)

\* A caller that has started keeps running: the scheduler runs it, and
\* send_message never blocks past its timeout.  Nothing is assumed of the
\* node, of the users or of the connection.
Fairness == \A c \in Calls : WF_vars(CallerStep(c))

Spec == Init /\ [][Next]_vars /\ Fairness

-----------------------------------------------------------------------------
(* Properties. *)

OnWire == {f.n : f \in {g \in Elements(wire) : g.kind = "note"}}

\* Every variable stays in its type and the race buffer within both caps: the
\* per-id cap and the cap on distinct ids that push_bounded enforces.
TypeOK ==
  /\ pc \in [Calls -> Places]
  /\ grant \in [Calls -> SubIds \cup {None}]
  /\ request \in [Calls -> {"none", "subscribe", "granted", "unsubscribe"}]
  /\ flush \in [Calls -> Seq(1..MaxNotes)]
  /\ registry \subseteq SubIds
  /\ pending \in [SubIds -> Seq(1..MaxNotes)]
  /\ \A i \in SubIds : Len(pending[i]) <= MaxPerId
  /\ Cardinality(Buffered(pending)) <= MaxIds
  /\ inFlight \in Nat
  /\ conn \in {"open", "down", "stopped"}
  /\ stops \in [Stoppers -> {"idle", "alive", "done", "exited"}]
  /\ wire \in Seq(Frames)
  /\ target \in Seq(SubIds) /\ Len(target) <= MaxNotes
  /\ inHand \subseteq 1..MaxNotes /\ \A m, n \in inHand : m = n
  /\ delivered \subseteq 1..MaxNotes
  /\ dropped \subseteq 1..MaxNotes
  /\ evicted \subseteq 1..MaxNotes

\* The Agent's in_flight is exactly the number of subscribe calls between
\* their first and their last Agent update, whatever way each one ended.
InFlightCounts ==
  AgentUp => inFlight = Cardinality({c \in Calls : pc[c] \in InFlightAt})

\* The race the buffer closes: no notification of an id is discarded without
\* being buffered while the call that asked for the id still expects it.
AwaitedNeverDropped ==
  \A c \in Calls : pc[c] \in AwaitingAt =>
    \A n \in dropped : target[n] # grant[c]

\* An id is never both registered and buffered: lookup_or_buffer,
\* register_and_drain and remove_subscription leave no stranded buffer.
RegisteredNotBuffered == registry \cap Buffered(pending) = {}

\* Each notification is in one place only: on the wire, in the hand of the
\* client process, buffered, drained, delivered or discarded.  While the
\* connection is open none vanishes.
OneHome ==
  \A n \in 1..Len(target) :
    LET homes == <<n \in OnWire, n \in inHand, n \in AllPending(pending),
                   \E c \in Calls : n \in Elements(flush[c]),
                   n \in delivered, n \in dropped, n \in evicted>>
        count == Cardinality({k \in DOMAIN homes : homes[k]})
    IN count <= 1 /\ (conn = "open" => count = 1)

\* A cap costs an id its oldest notifications only: what is still buffered or
\* drained for it arrived after everything evicted.
EvictsOnlyOlder ==
  \A n \in evicted :
    \A m \in AllPending(pending) \cup UNION {Elements(flush[c]) : c \in Calls} :
      target[n] = target[m] => n < m

\* Once unsubscribe/2 has returned {:ok, _}, the client process takes up no
\* further notification of the id, however late the node is to stop: all that
\* the handler can still hear of it is the one event already in hand.
NoneTakenUpAfterUnsubscribe ==
  [][\A c \in Calls : pc[c] = "unsubscribed" =>
       \A n \in (inHand' \cup delivered') \ (inHand \cup delivered) :
         target[n] # grant[c]]_vars

\* A subscribe call that has begun ends, whatever becomes of the node, the
\* connection and the Agent.  (Each of the finitely many calls runs once: that
\* all have ended at last is that each does.)
SubscribeReturns ==
  <>[](\A c \in Calls : pc[c] \notin InFlightAt)

\* The comment at evict_oldest_pending_key and the moduledoc: at the cap on
\* distinct ids, the id evicted is the one that has been buffered longest.
EvictsOldestKey ==
  [][\A i \in SubIds :
       LET gone == Elements(pending[i]) \cap (evicted' \ evicted) IN
       gone # {} /\ pending'[i] = <<>> =>
         \A j \in Buffered(pending) :
           \E m \in Elements(pending[i]) : \A k \in Elements(pending[j]) : m <= k]_vars

\* The moduledoc's error format: a connection failure during subscribe/3 is an
\* {:error, {:connection_error, _}}, never an exit of a call that has begun.
FailureIsAnError ==
  [][\A c \in Calls : pc[c] \in InFlightAt => pc'[c] # "exited"]_vars

\* The contract of the module: what is on the wire or in hand is in transit,
\* what is buffered or drained is held back, and an id is open from the return
\* of subscribe/3 until unsubscribe/2 has its answer.
Delivery == INSTANCE NotificationDelivery WITH
  Ids     <- SubIds,
  sent    <- target,
  transit <- OnWire \cup inHand,
  held    <- AllPending(pending) \cup UNION {Elements(flush[c]) : c \in Calls},
  handed  <- delivered,
  open    <- {grant[c] : c \in {d \in Calls : pc[d] \in {"subscribed", "unsubscribing"}}},
  up      <- conn = "open"

\* The detailed specification implements the contract: every step of callers,
\* client process, Agent and node is a step of the contract or a stutter.
ImplementsDelivery == Delivery!Spec

=============================================================================
