------------------------------- MODULE MCNifs -------------------------------
(***************************************************************************)
(* The calls into the NIFs: those that only compute, with the decoding of  *)
(* a JSON-RPC batch beside them, and those that read a forked chain.  They *)
(* share nothing, so a behaviour is one call of either kind, and the other *)
(* kind has nothing to do.                                                 *)
(***************************************************************************)
EXTENDS MCStatelessCalls, MCEvmFork

ABlock == [header |-> CHOOSE o \in MCOrigins : TRUE,
           memory |-> CHOOSE m \in MCGenesis : TRUE]
ASimulation == CHOOSE p \in MCSimulations : TRUE

NothingSimulated ==
  /\ chain = <<ABlock>> /\ pendingState = ABlock.memory /\ changes = 0
  /\ params = ASimulation
  /\ step = "returned" /\ block = Nil /\ header = Nil /\ spec = Nil
  /\ todo = {}
  /\ cache = [info |-> [a \in Accounts |-> Nil], slot |-> [a \in Accounts |-> Nil]]
  /\ base = Nil /\ results = <<>> /\ answer = Nil /\ cause = "none"
  /\ torn = FALSE

NothingCalled ==
  /\ reply = None /\ call = [callee |-> "none"]
  /\ NoTyped /\ NoDocs /\ NoDecoding

NifInit ==
  \/ Init /\ NothingSimulated
  \/ ForkInit /\ NothingCalled

\* A call that only computes may have no more to do; a simulation, never.
Computed == call.callee # "none" /\ UNCHANGED <<vars, forkVars>>

NifNext ==
  \/ Next /\ UNCHANGED forkVars
  \/ NothingCalled /\ ForkNext /\ UNCHANGED vars
  \/ Computed

NifSpec == NifInit /\ [][NifNext]_<<vars, forkVars>>

=============================================================================
