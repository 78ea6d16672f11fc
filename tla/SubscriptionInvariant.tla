------------------------ MODULE SubscriptionInvariant ------------------------
(***************************************************************************)
(* The inductive invariant behind the safety theorems of Subscription:     *)
(* where the granted ids are known, and which id each notification that is *)
(* still held belongs to.                                                  *)
(***************************************************************************)
EXTENDS Subscription

SentTo(n, i) == n \in 1..Len(target) /\ target[n] = i

\* pc values at which a call is known to have an id.
Holding == {"replied", "flushing", "subscribed", "unsubscribing", "removing",
            "unsubscribed"}

\* What a call and the node know of the call's id agrees.
GrantsTracked ==
  \A c \in Calls :
    /\ request[c] = "subscribe" => grant[c] = None
    /\ request[c] = "granted" => grant[c] # None
    /\ pc[c] \in {"idle", "counted"} => grant[c] = None /\ request[c] = "none"
    /\ pc[c] \in Holding => grant[c] # None

\* The node gives no id to two calls.
GrantsDistinct ==
  \A c, d \in Calls : c # d /\ grant[c] # None => grant[c] # grant[d]

\* An answer on the wire has its id, a notification on the wire was sent.
WireTracked ==
  \A f \in Elements(wire) :
    /\ f.kind = "granted" => grant[f.call] # None
    /\ f.kind = "note" => f.n \in 1..Len(target)

\* Notifications are sent for granted ids and kept under the id they are for.
NotesTracked ==
  /\ \A n \in 1..Len(target) : \E c \in Calls : grant[c] = target[n]
  /\ \A i \in SubIds : \A n \in Elements(pending[i]) : SentTo(n, i)
  /\ \A c \in Calls : \A n \in Elements(flush[c]) : SentTo(n, grant[c])
  /\ dropped \subseteq 1..Len(target)

FlushingOnly == \A c \in Calls : flush[c] # <<>> => pc[c] = "flushing"

\* An id stays registered from register_and_drain to remove_subscription.
OpenRegistered ==
  AgentUp => \A c \in Calls :
    pc[c] \in {"flushing", "subscribed", "unsubscribing"} => grant[c] \in registry

\* An id that was unsubscribed is not in the registry again.
ClosedForgotten ==
  AgentUp => \A c \in Calls : pc[c] = "unsubscribed" => grant[c] \notin registry

\* The race window is accounted for: in every state each id, each frame and
\* each notification held is where the call that owns it will find it.
RaceAccounted ==
  /\ TypeOK
  /\ GrantsTracked /\ GrantsDistinct
  /\ WireTracked /\ NotesTracked
  /\ FlushingOnly /\ OpenRegistered /\ ClosedForgotten
  /\ InFlightCounts /\ RegisteredNotBuffered /\ AwaitedNeverDropped

-----------------------------------------------------------------------------
(* Where each notification is: what OneHome and the contract rest on. *)

NotesOf(w) == {f.n : f \in {g \in Elements(w) : g.kind = "note"}}

Flushed == UNION {Elements(flush[c]) : c \in Calls}
Held == AllPending(pending) \cup Flushed
Received == Held \cup inHand \cup delivered \cup dropped \cup evicted

Rising(s)  == \A j, k \in DOMAIN s : j < k => s[j] < s[k]
Falling(s) == \A j, k \in DOMAIN s : j < k => s[k] < s[j]
NotesRising(w) ==
  \A j, k \in DOMAIN w :
    j < k /\ w[j].kind = "note" /\ w[k].kind = "note" => w[j].n < w[k].n

\* Frames are handled in the order of sending: what the client has received
\* was sent before everything still on the wire.
ReceivedFirst ==
  /\ NotesRising(wire)
  /\ Received \subseteq 1..Len(target)
  /\ \A n \in Received : \A m \in OnWire : n < m

\* The buffer keeps an id's newest first, a drained buffer its oldest first.
ListsInOrder ==
  /\ \A i \in SubIds : Falling(pending[i])
  /\ \A c \in Calls : Rising(flush[c])

\* What was received is in one place.
HomesApart ==
  /\ AllPending(pending) \cap Flushed = {}
  /\ inHand \cap Held = {}
  /\ (inHand \cup Held) \cap (delivered \cup dropped \cup evicted) = {}
  /\ delivered \cap (dropped \cup evicted) = {}
  /\ dropped \cap evicted = {}

NoneVanishes == conn = "open" => 1..Len(target) \subseteq OnWire \cup Received

\* What is in hand goes with the client process; stop_agent runs after it.
ClientOutlived ==
  /\ inHand # {} => conn = "open"
  /\ \A s \in Stoppers : stops[s] # "idle" => conn # "open"

\* The buffer goes with the Agent.
StoppedForgets == ~AgentUp => pending = [i \in SubIds |-> <<>>]

\* Every notification is accounted for: where it is, after which others it
\* came, and what was evicted before it.
HomesAccounted ==
  /\ ReceivedFirst /\ ListsInOrder
  /\ HomesApart /\ NoneVanishes /\ ClientOutlived
  /\ StoppedForgets /\ EvictsOnlyOlder

=============================================================================
