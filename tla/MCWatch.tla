------------------------------ MODULE MCWatch ------------------------------
(***************************************************************************)
(* The two ways to watch the chain: a WebSocket subscription, and a filter *)
(* that is polled.  They share nothing, so a behaviour is one of the two,  *)
(* and the other has nothing to do.                                        *)
(***************************************************************************)
EXTENDS Subscription, Filter

NothingSubscribed ==
  /\ pc = [c \in Calls |-> "failed"] /\ grant = [c \in Calls |-> None]
  /\ request = [c \in Calls |-> "none"] /\ flush = [c \in Calls |-> <<>>]
  /\ registry = {} /\ pending = [i \in SubIds |-> <<>>] /\ inFlight = 0
  /\ conn = "open" /\ stops = [s \in Stoppers |-> "idle"]
  /\ wire = <<>> /\ inHand = {} /\ target = <<>>
  /\ delivered = {} /\ dropped = {} /\ evicted = {}

\* The chain is full and the GenServer has had its starts.
NothingPolled ==
  /\ proc = "down" /\ filterId = NoFilter /\ listeners = <<>> /\ armed = FALSE
  /\ left = 0 /\ reply = NoReply
  /\ live = {} /\ granted = 0 /\ backlog = [i \in FilterIds |-> <<>>]
  /\ topicOf = [k \in 1..MaxLogs |-> CHOOSE t \in Topics : TRUE]
  /\ inbox = [l \in Listeners |-> <<>>]
  /\ known = {} /\ reported = 0 /\ retried = 0
  /\ since = [l \in Listeners |-> 0]
  /\ faults = 0 /\ starts = MaxStarts

WatchInit ==
  \/ Init /\ NothingPolled
  \/ FilterInit /\ NothingSubscribed

WatchNext ==
  \/ NothingPolled /\ Next /\ UNCHANGED filterVars
  \/ FilterNext /\ UNCHANGED vars

WatchSpec ==
  /\ WatchInit /\ [][WatchNext]_<<vars, filterVars>>
  /\ Fairness /\ FilterFairness

=============================================================================
