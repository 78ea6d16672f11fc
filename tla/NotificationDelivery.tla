------------------------ MODULE NotificationDelivery ------------------------
(***************************************************************************)
(* What Onchain.Subscription promises its user, without Agent, buffer caps *)
(* or callers: a notification is handed to the handler at most once; from  *)
(* the moment an id is open (subscribe/3 has returned it) until it is      *)
(* closed, none of its notifications that reaches the client is lost, and  *)
(* nothing held back for it precedes that moment.  Once the connection is  *)
(* cut, anything not yet handed over may be lost.                          *)
(***************************************************************************)
EXTENDS Naturals, Sequences

CONSTANTS Ids

VARIABLES
  sent,     \* the id of each notification, in the order of sending
  transit,  \* sent and not yet received by the client
  held,     \* received and held back
  handed,   \* given to the handler
  open,     \* ids whose subscribe has returned
  up        \* the connection stands

vars == <<sent, transit, held, handed, open, up>>

Init ==
  /\ sent = <<>>
  /\ transit = {} /\ held = {} /\ handed = {} /\ open = {}
  /\ up = TRUE

HeldFor(i) == {n \in held : sent[n] = i}

Oldest(S, n) == n \in S /\ \A m \in S : n <= m

Send(i) ==
  /\ up
  /\ sent' = Append(sent, i)
  /\ transit' = transit \cup {Len(sent) + 1}
  /\ UNCHANGED <<held, handed, open, up>>

\* The oldest notification in transit arrives and goes to the handler.
HandOver ==
  /\ up
  /\ \E n \in transit :
       /\ Oldest(transit, n)
       /\ transit' = transit \ {n}
       /\ handed' = handed \cup {n}
  /\ UNCHANGED <<sent, held, open, up>>

\* It arrives for an id that is not open: it may be held back or lost, and
\* may push out what was held for other ids that are not open.
HoldBack ==
  /\ up
  /\ \E n \in transit :
       /\ Oldest(transit, n)
       /\ sent[n] \notin open
       /\ transit' = transit \ {n}
       /\ \E kept \in SUBSET (held \cup {n}) :
            /\ held' = kept
            /\ \A m \in held \ kept : sent[m] \notin open
  /\ UNCHANGED <<sent, handed, open, up>>

\* What was held back for an id follows in order.
Release ==
  /\ \E n \in held :
       /\ Oldest(HeldFor(sent[n]), n)
       /\ held' = held \ {n}
       /\ handed' = handed \cup {n}
  /\ UNCHANGED <<sent, transit, open, up>>

\* A handler failure or an unsubscribe gives up what is held for an id.
GiveUp(i) ==
  /\ i \notin open
  /\ held' = held \ HeldFor(i)
  /\ UNCHANGED <<sent, transit, handed, open, up>>

Open(i) ==
  /\ HeldFor(i) = {}
  /\ open' = open \cup {i}
  /\ UNCHANGED <<sent, transit, held, handed, up>>

Close(i) ==
  /\ open' = open \ {i}
  /\ UNCHANGED <<sent, transit, held, handed, up>>

Cut ==
  /\ up' = FALSE
  /\ transit' = {}
  /\ UNCHANGED <<sent, held, handed, open>>

Forget ==
  /\ ~up
  /\ held' \in SUBSET held
  /\ UNCHANGED <<sent, transit, handed, open, up>>

Next ==
  \/ \E i \in Ids : Send(i) \/ GiveUp(i) \/ Open(i) \/ Close(i)
  \/ HandOver \/ HoldBack \/ Release \/ Cut \/ Forget

Spec == Init /\ [][Next]_vars

=============================================================================
