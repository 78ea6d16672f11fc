---------------------------- MODULE EvmSimulation ----------------------------
(***************************************************************************)
(* What a simulation is to its caller: the calls run one after the other   *)
(* on a private copy of one block's whole state, taken at once, with the   *)
(* state overrides laid over it, under that block's revision.  Only the    *)
(* pending block and a block that is reorganised away are exempt: the copy *)
(* may then change under the calls.                                        *)
(***************************************************************************)
EXTENDS EvmNode

CONSTANT Simulations

VARIABLES params, block, memory, header, results, answer

\* An override leaves alone what it does not name.
Laid(info, o) ==
  [nonce |-> IF o.nonce = Nil THEN info.nonce ELSE o.nonce,
   code  |-> IF o.code = Nil THEN info.code ELSE o.code]

Over(m, overrides) ==
  [info |-> [a \in Accounts |-> Laid(m.info[a], overrides[a])],
   slot |-> [a \in Accounts |-> IF overrides[a].slot = Nil
                                THEN m.slot[a] ELSE overrides[a].slot]]

\* The blocks the parameters may mean when the node is asked: a safe block is
\* anything from the finalized one on.
Named(r) ==
  IF r.number # Nil THEN {b \in 1..Height : b = r.number}
  ELSE CASE r.tag = "pending"   -> {Pending}
         [] r.tag = "earliest"  -> {1}
         [] r.tag = "finalized" -> {Finalized}
         [] r.tag = "safe"      -> Finalized..Height
         [] OTHER               -> {Height}

Init ==
  /\ NodeInit
  /\ params \in Simulations
  /\ block = Nil /\ memory = Nil /\ header = Nil
  /\ results = <<>> /\ answer = Nil

CopyBlock ==
  /\ block = Nil /\ answer = Nil
  /\ \E b \in Named(params) :
       /\ block' = b
       /\ header' = HeaderAt(b)
       /\ memory' = Over(MemoryAt(b), params.overrides)
  /\ UNCHANGED <<nodeVars, params, results, answer>>

Result(m, to, spec) ==
  [success |-> Status(m.info[to].code) = "success", output |-> Output(m, to, spec)]

Revision == ResolveForkSpecId(params.spec, params.chainId, header)

Call ==
  /\ block # Nil /\ answer = Nil
  /\ Len(results) < Len(params.calls)
  /\ LET to == params.calls[Len(results) + 1]
     IN  /\ Status(memory.info[to].code) # "halt"
         /\ results' = Append(results, Result(memory, to, Revision))
         /\ memory' = IF params.op = "batch"
                      THEN Committed(memory, params.from, to) ELSE memory
  /\ UNCHANGED <<nodeVars, params, block, header, answer>>

\* How a finished simulation may be answered.  A reverting call is an error and
\* a batch never is.  Of a reverting transaction the moduledoc says that it
\* is an error and an integration test that it is not: either will do here,
\* and EvmFork's RevertIsAnError holds the code to the moduledoc.
Replies(r, done) ==
  {[tag |-> tag, results |-> done] : tag \in
     IF r.op = "batch" \/ done[1].success THEN {"ok"}
     ELSE IF r.op = "call" THEN {"evm_revert"} ELSE {"ok", "evm_revert"}}

Return ==
  /\ answer = Nil
  /\ Len(results) = Len(params.calls)
  /\ answer' \in Replies(params, results)
  /\ UNCHANGED <<nodeVars, params, block, memory, header, results>>

\* A failure says nothing of the calls that were made.
Fail ==
  /\ answer = Nil
  /\ \E tag \in {"evm_error", "fork_error", "timeout"} :
       answer' = [tag |-> tag, results |-> <<>>]
  /\ UNCHANGED <<nodeVars, params, block, memory, header, results>>

Drift(exposed) ==
  IF exposed THEN memory' \in Memories ELSE UNCHANGED memory

Node ==
  /\ \/ Mine /\ UNCHANGED memory
     \/ Churn /\ Drift(block = Pending)
     \/ Reorg /\ Drift(block = Height)
  /\ UNCHANGED <<params, block, header, results, answer>>

Next == CopyBlock \/ Call \/ Return \/ Fail \/ Node

absVars == <<nodeVars, params, block, memory, header, results, answer>>

Spec == Init /\ [][Next]_absVars

=============================================================================
