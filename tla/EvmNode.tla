------------------------------ MODULE EvmNode ------------------------------
(***************************************************************************)
(* What the onchain_evm NIFs work on: the node they read state from, the   *)
(* hardfork schedules they pick an EVM revision by, and the EVM itself     *)
(* (the revm library), reduced to what a call reads, writes and returns.   *)
(*                                                                         *)
(* A memory gives each account its info (nonce and code, read together)    *)
(* and one storage slot.  The same operators run a call on a node's state  *)
(* and on the NIF's cache, where a key that was not read is Nil.           *)
(***************************************************************************)
EXTENDS Naturals, Sequences

CONSTANTS
  Accounts,
  MaxNonce,     \* the largest u64
  MaxWord,      \* the largest storage word
  MaxBlocks,    \* bound: blocks mined
  MaxChanges,   \* bound: changes of the pending state, reorganisations
  Origins,      \* headers the first block may have
  Genesis,      \* memories it may leave
  Nil

ASSUME NoncesAndWords == {MaxNonce, MaxWord} \subseteq Nat

Codes == {"none", "read", "bump", "undo", "halt"}
Nonces == 0..MaxNonce
Words == 0..MaxWord
Infos == [nonce : Nonces, code : Codes]
Memories == [info : [Accounts -> Infos], slot : [Accounts -> Words]]

Headers == [number : Nat, time : Nat]

ASSUME BlocksAreTyped == Genesis \subseteq Memories /\ Origins \subseteq Headers

ASSUME NilIsNothing == Nil \notin Infos /\ Nil \notin Nat

-----------------------------------------------------------------------------
(* The revision: SpecId, by block number on mainnet, by time on OP chains. *)

Mainnet ==
  << <<0, "Frontier">>, <<1150000, "Homestead">>, <<2463000, "Tangerine">>,
     <<2675000, "Spurious">>, <<4370000, "Byzantium">>,
     <<7280000, "Petersburg">>, <<9069000, "Istanbul">>,
     <<12244000, "Berlin">>, <<12965000, "London">>, <<15537394, "Merge">>,
     <<17034870, "Shanghai">>, <<19426587, "Cancun">>,
     <<22431084, "Prague">>, <<23935694, "Osaka">> >>

OpMainnet ==
  << <<0, "Merge">>, <<1704992401, "Shanghai">>, <<1710374401, "Cancun">>,
     <<1746806401, "Prague">>, <<1783526401, "Osaka">> >>

BaseMainnet ==
  << <<0, "Merge">>, <<1704992401, "Shanghai">>, <<1710374401, "Cancun">>,
     <<1746806401, "Prague">>, <<1779991200, "Osaka">> >>

\* The names SpecId::from_str knows, in activation order.
Revisions ==
  << "Frontier", "Homestead", "Tangerine", "Spurious", "Byzantium",
     "Petersburg", "Istanbul", "Berlin", "London", "Merge", "Shanghai",
     "Cancun", "Prague", "Osaka", "Amsterdam" >>

\* The last entry of a schedule that is active at the cursor.
Active(schedule, cursor) ==
  CHOOSE i \in DOMAIN schedule :
    /\ schedule[i][1] <= cursor
    /\ \A j \in DOMAIN schedule : j > i => cursor < schedule[j][1]

SpecFromSchedule(schedule, cursor) == schedule[Active(schedule, cursor)][2]

SpecIdForFork(chainId, header) ==
  CASE chainId = 1     -> SpecFromSchedule(Mainnet, header.number)
    [] chainId = 10    -> SpecFromSchedule(OpMainnet, header.time)
    [] chainId = 8453  -> SpecFromSchedule(BaseMainnet, header.time)
    [] OTHER           -> Nil

\* Nil is a :fork_error: no schedule, or a name from_str does not know.
ResolveForkSpecId(caller, chainId, header) ==
  IF caller = Nil THEN SpecIdForFork(chainId, header)
  ELSE IF \E i \in DOMAIN Revisions : Revisions[i] = caller THEN caller
  ELSE Nil

-----------------------------------------------------------------------------
(* The EVM: one call to the code of an account, which may read its slot,   *)
(* write it, write it and revert, or halt.                                 *)

Status(code) ==
  CASE code = "undo" -> "revert" [] code = "halt" -> "halt" [] OTHER -> "success"

ReadsSlot(code) == code \in {"read", "bump", "undo"}

Next1(n, max) == IF n = max THEN 0 ELSE n + 1

\* What the call returns names the revision it ran under.
Output(m, to, spec) ==
  <<IF ~ReadsSlot(m.info[to].code) THEN 0
    ELSE IF m.info[to].code = "read" THEN m.slot[to]
    ELSE Next1(m.slot[to], MaxWord), spec>>

BumpNonce(n) == IF n = MaxNonce THEN n ELSE n + 1

\* The memory a committed call leaves: its sender's nonce is spent even if
\* it reverts, its writes stay only if it succeeds.
Committed(m, from, to) ==
  [info |-> [m.info EXCEPT ![from].nonce = BumpNonce(@)],
   slot |-> IF m.info[to].code = "bump"
            THEN [m.slot EXCEPT ![to] = Next1(@, MaxWord)]
            ELSE m.slot]

-----------------------------------------------------------------------------
(* The node.  chain is its blocks, of which only the last can be replaced; *)
(* pendingState is what its pending block would leave.                     *)

VARIABLES chain, pendingState, changes

nodeVars == <<chain, pendingState, changes>>

Pending == 0                     \* the block id of the pending block
Height == Len(chain)
Finalized == IF Height = 1 THEN 1 ELSE Height - 1

HeaderAt(b) ==
  IF b = Pending
  THEN [number |-> chain[Height].header.number + 1, time |-> chain[Height].header.time + 1]
  ELSE chain[b].header

MemoryAt(b) == IF b = Pending THEN pendingState ELSE chain[b].memory

NodeInit ==
  /\ \E o \in Origins, m \in Genesis :
       /\ chain = <<[header |-> o, memory |-> m]>>
       /\ pendingState = m
  /\ changes = 0

Mine ==
  /\ Height < MaxBlocks
  /\ chain' = Append(chain, [header |-> HeaderAt(Pending), memory |-> pendingState])
  /\ UNCHANGED <<pendingState, changes>>

\* Someone's transaction enters or leaves the pending block.
Churn ==
  /\ changes < MaxChanges
  /\ changes' = changes + 1
  /\ \E a \in Accounts :
       \/ pendingState' = [pendingState EXCEPT !.info[a].nonce = BumpNonce(@)]
       \/ pendingState' = [pendingState EXCEPT !.slot[a] = Next1(@, MaxWord)]
  /\ UNCHANGED chain

\* The last block is replaced by one that leaves the pending state.
Reorg ==
  /\ Height > 1 /\ changes < MaxChanges
  /\ changes' = changes + 1
  /\ chain' = [chain EXCEPT ![Height].memory = pendingState]
  /\ UNCHANGED pendingState

=============================================================================
