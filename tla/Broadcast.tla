------------------------------ MODULE Broadcast ------------------------------
(***************************************************************************)
(* What a caller of Onchain.RPC.execute_trx/3 may conclude from its        *)
(* answer about the one transaction the call may have sent.                *)
(*                                                                         *)
(*   ok       the node took the transaction                                *)
(*   refused  the node did not take it and will not, unless the request    *)
(*            was repeated: then the node may have taken it the first time *)
(*   lost     nothing: it may have been taken, or may be taken later       *)
(*   unsent   it was never sent                                            *)
(***************************************************************************)
CONSTANTS
  Calls,      \* one call of execute_trx/3 each
  Repeats,    \* requests may be sent again
  None

VARIABLES
  accepted,   \* calls whose transaction a node took at some time
  outcome

absVars == <<accepted, outcome>>

Outcomes == {"ok", "refused", "lost", "unsent"}

Init ==
  /\ accepted = {}
  /\ outcome = [c \in Calls |-> None]

\* The node takes c's transaction, perhaps after c was answered.
Accept(c) ==
  /\ c \notin accepted
  /\ outcome[c] \in {None, "lost"}
  /\ accepted' = accepted \cup {c}
  /\ UNCHANGED outcome

Answer(c, o) ==
  /\ outcome[c] = None
  /\ o = "ok" => c \in accepted
  /\ o = "refused" => c \notin accepted \/ Repeats
  /\ o = "unsent" => c \notin accepted
  /\ outcome' = [outcome EXCEPT ![c] = o]
  /\ UNCHANGED accepted

Next == \E c \in Calls : Accept(c) \/ \E o \in Outcomes : Answer(c, o)

Spec == Init /\ [][Next]_absVars

=============================================================================
