------------------------------ MODULE EvmFork ------------------------------
(***************************************************************************)
(* One call of a NIF of the onchain_evm crate: nif_simulate_call,          *)
(* nif_simulate_transaction or nif_simulate_batch.  The NIF keeps no state *)
(* between calls and shares none with other calls, so one call and the     *)
(* node it reads from are the system.                                      *)
(*                                                                         *)
(* It asks the node for a block and for the chain id, then reads accounts  *)
(* and slots of that block one RPC at a time, when the execution first     *)
(* touches them, into a cache (CacheDB) that overrides and committed calls *)
(* write too.  Between two RPCs the node moves on.  Each RPC may fail; it  *)
(* has a deadline, the call as a whole has none.                           *)
(***************************************************************************)
EXTENDS EvmNode

CONSTANT
  Simulations   \* the parameters a call may have

BlockTags == {"latest", "finalized", "pending", "earliest", "safe"}

\* What extract makes of the parameters: an account, calls to accounts, and
\* a tag that Params has let through.
ASSUME SimulationsAreCalls ==
  \A r \in Simulations :
    /\ r.from \in Accounts /\ r.calls \in Seq(Accounts)
    /\ r.tag \in BlockTags \cup {Nil}
    /\ r.overrides \in [Accounts -> [nonce : Nonces \cup {Nil},
                                      code : Codes \cup {Nil},
                                      slot : Words \cup {Nil}]]

VARIABLES
  params,     \* of the call
  step,       \* what the NIF is waiting for or about to do
  block,      \* fork_block_id
  header,     \* of the block get_block returned
  spec,       \* spec_id
  todo,       \* accounts of state_overrides still to be applied
  cache,      \* CacheDB: info and slot of each account, Nil if not read
  base,       \* base_nonce
  results,
  answer,     \* what the NIF returned
  cause,      \* history: why it failed
  torn        \* history: the forked block was reorganised away

nifVars == <<step, block, header, spec, todo, cache, base, results, answer, cause>>
forkVars == <<nodeVars, params, nifVars, torn>>

IsBatch == params.op = "batch"

NoOverride == [nonce |-> Nil, code |-> Nil, slot |-> Nil]

ForkInit ==
  /\ NodeInit
  /\ params \in Simulations
  /\ step = "start" /\ block = Nil /\ header = Nil /\ spec = Nil
  /\ todo = {a \in Accounts : params.overrides[a] # NoOverride}
  /\ cache = [info |-> [a \in Accounts |-> Nil], slot |-> [a \in Accounts |-> Nil]]
  /\ base = Nil /\ results = <<>> /\ answer = Nil /\ cause = "none"
  /\ torn = FALSE

-----------------------------------------------------------------------------
(* Failures.  A failed RPC is a chain of errors: links are the reqwest     *)
(* errors in it, outermost first, and text is what the messages say.       *)

Link(timeout, connect) == [timeout |-> timeout, connect |-> connect]
Caused(links, text) == [links |-> links, text |-> text]

ErrorChains ==
  [deadline         |-> Caused(<<Link(TRUE, FALSE)>>, "timed out"),
   connect_deadline |-> Caused(<<Link(TRUE, TRUE)>>, "timed out"),
   refused          |-> Caused(<<Link(FALSE, TRUE)>>, "connect"),
   reset            |-> Caused(<<Link(FALSE, FALSE)>>, "connect"),
   rpc_error        |-> Caused(<<>>, "other"),
   rpc_timed_out    |-> Caused(<<>>, "timed out")]

FaultKinds == DOMAIN ErrorChains

\* What the text of the whole chain, error_chain_string, is searched for.
TagOfText(text) ==
  IF text = "timed out" THEN "timeout"
  ELSE IF text = "connect" THEN "fork_error" ELSE "evm_error"

\* Faulty variant: a connect failure is looked for first.
ConnectClassifiedFirst(e) ==
  IF \E i \in DOMAIN e.links : e.links[i].connect THEN "fork_error"
  ELSE IF \E i \in DOMAIN e.links : e.links[i].timeout THEN "timeout"
  ELSE TagOfText(e.text)

\* The first link that is a timeout or a connect failure decides, and a
\* connect timeout is a timeout; without one, the text does.
ClassifyTransportError(e) ==
  LET telling == {i \in DOMAIN e.links : e.links[i].timeout \/ e.links[i].connect}
  IN  IF telling # {}
      THEN IF e.links[CHOOSE i \in telling : \A j \in telling : i <= j].timeout
           THEN "timeout" ELSE "fork_error"
      ELSE TagOfText(e.text)

FailWith(tag, why) ==
  /\ step' = "returned"
  /\ answer' = [tag |-> tag, results |-> <<>>]
  /\ cause' = why
  /\ UNCHANGED <<block, header, spec, todo, cache, base, results>>

-----------------------------------------------------------------------------
(* build_fork                                                              *)

\* The blocks parse_block_id's BlockId means to the node; a number wins
\* over a tag, and neither means latest.  Which block is safe is for the
\* node to say, the finalized one or a later one.  An unknown tag, which
\* parse_block_id refuses, does not get past Params in Elixir.
Named ==
  IF params.number # Nil THEN {b \in 1..Height : b = params.number}
  ELSE CASE params.tag = "pending"   -> {Pending}
         [] params.tag = "earliest"  -> {1}
         [] params.tag = "finalized" -> {Finalized}
         [] params.tag = "safe"      -> Finalized..Height
         [] OTHER                     -> {Height}

\* The NIF's state and answer stay; the call's own steps name what changes.
Unfailed == UNCHANGED <<answer, cause>>

\* An empty batch returns before any RPC.
Start ==
  /\ step = "start"
  /\ IF IsBatch /\ params.calls = <<>>
     THEN step' = "returned" /\ answer' = [tag |-> "ok", results |-> <<>>]
     ELSE step' = "block" /\ UNCHANGED answer
  /\ UNCHANGED <<block, header, spec, todo, cache, base, results, cause>>

\* The fork is pinned to the number of the block returned, not to its tag:
\* only pending stays a tag.
GetBlock ==
  /\ step = "block"
  /\ \E b \in Named :
       /\ header' = HeaderAt(b)
       /\ block' = IF params.number = Nil /\ params.tag = "pending" THEN Pending ELSE b
  /\ step' = "chain_id"
  /\ Unfailed /\ UNCHANGED <<spec, todo, cache, base, results>>

BlockNotFound ==
  /\ step = "block" /\ Named = {}
  /\ FailWith("fork_error", "no_block")

GetChainId ==
  /\ step = "chain_id"
  /\ LET resolved == ResolveForkSpecId(params.spec, params.chainId, header)
     IN  IF resolved = Nil
         THEN FailWith("fork_error", "no_schedule")
         ELSE /\ spec' = resolved
              /\ step' = "overrides"
              /\ Unfailed /\ UNCHANGED <<block, header, todo, cache, base, results>>

-----------------------------------------------------------------------------
(* apply_state_overrides: a HashMap, so in any order.                      *)

Merged(info, o) ==
  [nonce |-> IF o.nonce = Nil THEN info.nonce ELSE o.nonce,
   code  |-> IF o.code = Nil THEN info.code ELSE o.code]

\* The account is read (basic) even if every field is overridden.
ApplyOverride(a) ==
  /\ step = "overrides" /\ a \in todo
  /\ LET o == params.overrides[a]
     IN  cache' = [info |-> [cache.info EXCEPT ![a] = Merged(MemoryAt(block).info[a], o)],
                   slot |-> [cache.slot EXCEPT ![a] = o.slot]]
  /\ todo' = todo \ {a}
  /\ Unfailed /\ UNCHANGED <<step, block, header, spec, base, results>>

OverridesApplied ==
  /\ step = "overrides" /\ todo = {}
  /\ step' = IF IsBatch THEN "nonce" ELSE "run"
  /\ Unfailed /\ UNCHANGED <<block, header, spec, todo, cache, base, results>>

\* Faulty variant: the node is asked although an override is cached.
CurrentNonceOfNode ==
  /\ step = "nonce"
  /\ base' = MemoryAt(block).info[params.from].nonce
  /\ step' = "run"
  /\ Unfailed /\ UNCHANGED <<block, header, spec, todo, cache, results>>

\* current_nonce uses basic_ref, which reads the cache but does not fill it.
CurrentNonce ==
  /\ step = "nonce"
  /\ base' = IF cache.info[params.from] # Nil
             THEN cache.info[params.from].nonce
             ELSE MemoryAt(block).info[params.from].nonce
  /\ step' = "run"
  /\ Unfailed /\ UNCHANGED <<block, header, spec, todo, cache, results>>

-----------------------------------------------------------------------------
(* Execution of call number Len(results) + 1, on the cache.                *)

More == Len(results) < Len(params.calls)
To == params.calls[Len(results) + 1]

\* base_nonce + index, checked_add
NonceFits == IsBatch => base + Len(results) <= MaxNonce

\* The EVM checks the nonce of a batch's call; a single call has the check
\* disabled.
NonceMatches ==
  IsBatch => cache.info[params.from].nonce = base + Len(results)

LoadInfo(a) ==
  /\ cache.info[a] = Nil
  /\ cache' = [cache EXCEPT !.info[a] = MemoryAt(block).info[a]]

\* Faulty variant: the fork stays on the tag, not on the number.
LoadSlotOfTag(a) ==
  /\ cache.slot[a] = Nil
  /\ \E b \in Named : cache' = [cache EXCEPT !.slot[a] = MemoryAt(b).slot[a]]

LoadSlot(a) ==
  /\ cache.slot[a] = Nil
  /\ cache' = [cache EXCEPT !.slot[a] = MemoryAt(block).slot[a]]

\* What the EVM reads next: the sender, the callee, then the callee's slot
\* if its code asks for it.
SenderLoaded == cache.info[params.from] # Nil
CalleeLoaded == cache.info[To] # Nil
Ready ==
  /\ SenderLoaded /\ CalleeLoaded
  /\ ReadsSlot(cache.info[To].code) => cache.slot[To] # Nil

Load ==
  /\ step = "run" /\ More /\ NonceFits
  /\ \/ LoadInfo(params.from)
     \/ SenderLoaded /\ NonceMatches /\ LoadInfo(To)
     \/ /\ SenderLoaded /\ NonceMatches /\ CalleeLoaded
        /\ ReadsSlot(cache.info[To].code)
        /\ LoadSlot(To)
  /\ Unfailed /\ UNCHANGED <<step, block, header, spec, todo, base, results>>

NonceRejected ==
  /\ step = "run" /\ More
  /\ \/ ~NonceFits /\ FailWith("evm_error", "nonce_overflow")
     \/ NonceFits /\ SenderLoaded /\ ~NonceMatches /\ FailWith("evm_error", "nonce")

\* transact_commit keeps what a call of a batch wrote, transact does not.
Execute ==
  /\ step = "run" /\ More /\ NonceFits /\ Ready /\ NonceMatches
  /\ LET status == Status(cache.info[To].code)
     IN  IF status = "halt"
         THEN FailWith("evm_error", "halt")
         ELSE /\ results' = Append(results, [success |-> status = "success",
                                             output |-> Output(cache, To, spec)])
              /\ cache' = IF IsBatch THEN Committed(cache, params.from, To) ELSE cache
              /\ Unfailed /\ UNCHANGED <<step, block, header, spec, todo, base>>

\* do_simulate_call turns a revert into an error; extract_tx_result, of the
\* other two, into a result whose success is false.
Reply(r, done) ==
  IF r.op = "call" /\ ~done[1].success
  THEN [tag |-> "evm_revert", results |-> done]
  ELSE [tag |-> "ok", results |-> done]

Return ==
  /\ step = "run" /\ ~More
  /\ step' = "returned"
  /\ answer' = Reply(params, results)
  /\ UNCHANGED <<block, header, spec, todo, cache, base, results, cause>>

\* An RPC is outstanding.
Reading ==
  \/ step \in {"block", "chain_id"}
  \/ step = "overrides" /\ todo # {}
  \/ step = "nonce" /\ cache.info[params.from] = Nil
  \/ /\ step = "run" /\ More /\ NonceFits
     /\ \/ ~SenderLoaded
        \/ SenderLoaded /\ NonceMatches /\ ~Ready

RpcFails ==
  /\ Reading
  /\ \E kind \in FaultKinds :
       FailWith(ClassifyTransportError(ErrorChains[kind]), kind)

-----------------------------------------------------------------------------

Nif ==
  /\ \/ Start
     \/ GetBlock
     \/ BlockNotFound
     \/ GetChainId
     \/ \E a \in Accounts : ApplyOverride(a)
     \/ OverridesApplied
     \/ CurrentNonce
     \/ Load
     \/ NonceRejected
     \/ Execute
     \/ Return
     \/ RpcFails
  /\ UNCHANGED <<nodeVars, params, torn>>

Node ==
  /\ \/ Mine /\ UNCHANGED torn
     \/ Churn /\ UNCHANGED torn
     \/ Reorg /\ torn' = (torn \/ block = Height)
  /\ UNCHANGED <<params, nifVars>>

\* The NIF has answered and nothing is left to see.
Done == step = "returned" /\ UNCHANGED forkVars

ForkNext == Nif \/ (step # "returned" /\ Node) \/ Done

ForkSpec == ForkInit /\ [][ForkNext]_forkVars

-----------------------------------------------------------------------------
(* Properties                                                              *)

Steps == {"start", "block", "chain_id", "overrides", "nonce", "run", "returned"}

\* Types; the cache holds only what an account can hold, and an override
\* that is still to be applied has nothing cached under it.
TypeOK ==
  /\ step \in Steps
  /\ block \in (0..Height) \cup {Nil}
  /\ cache \in [info : [Accounts -> Infos \cup {Nil}],
                slot : [Accounts -> Words \cup {Nil}]]
  /\ todo \subseteq {a \in Accounts : cache.info[a] = Nil /\ cache.slot[a] = Nil}
  /\ step \in {"nonce", "run"} => todo = {}
  /\ step \in {"overrides", "nonce", "run"} => block # Nil /\ spec # Nil
  /\ step = "run" /\ IsBatch => base \in Nonces
  /\ Len(results) <= Len(params.calls)

\* The memory a call that runs now would see: the cache over the overrides
\* still to be applied over the forked block as the node has it.
View ==
  IF block = Nil THEN Nil ELSE
  [info |-> [a \in Accounts |->
     IF cache.info[a] # Nil THEN cache.info[a]
     ELSE IF a \in todo THEN Merged(MemoryAt(block).info[a], params.overrides[a])
     ELSE MemoryAt(block).info[a]],
   slot |-> [a \in Accounts |->
     IF cache.slot[a] # Nil THEN cache.slot[a]
     ELSE IF a \in todo /\ params.overrides[a].slot # Nil
          THEN params.overrides[a].slot
     ELSE MemoryAt(block).slot[a]]]

\* Reading a block piece by piece while the chain grows gives what running
\* on a copy of the whole block would (Onchain.EVM: "forks live chain state").
Sim == INSTANCE EvmSimulation WITH memory <- View
RunsOnACopy == Sim!Spec

\* The moduledoc of Onchain.EVM: "Only `simulate_call/3` and
\* `simulate_transaction/3` surface a revert as `{:error, {:evm_revert,
\* data}}`".  extract_tx_result makes a success of a transaction's.
RevertIsAnError ==
  answer # Nil /\ ~IsBatch =>
    \A i \in DOMAIN results : ~results[i].success => answer.tag = "evm_revert"

\* The nonces a batch numbers its calls with are those the EVM expects,
\* whatever the calls do, unless the block is pending or goes away: the
\* sender's nonce is read once for base_nonce and once more by the EVM.
NonceInSequence ==
  cause = "nonce" => block = Pending \/ torn

\* A caller that retries on the tag is told what happened: :timeout for a
\* deadline, connecting included, :fork_error where the node could not be
\* reached or the fork not built, :evm_error for what the EVM refused.
TagNamesTheCause ==
  cause # "none" =>
    answer.tag =
      IF cause \in {"deadline", "connect_deadline", "rpc_timed_out"} THEN "timeout"
      ELSE IF cause \in {"refused", "reset", "no_block", "no_schedule"} THEN "fork_error"
      ELSE "evm_error"

=============================================================================
