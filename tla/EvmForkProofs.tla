---------------------------- MODULE EvmForkProofs ----------------------------
(***************************************************************************)
(* A simulation NIF reads a block as if it had copied it, for every node,  *)
(* every request and every way the node moves on meanwhile; and the nonces *)
(* of a batch are those the EVM expects.                                   *)
(***************************************************************************)
EXTENDS EvmFork, TLAPS, SequenceTheorems

Blocks == [header : Headers, memory : Memories]

NodeTyped ==
  /\ chain \in Seq(Blocks) /\ chain # <<>>
  /\ pendingState \in Memories

Overridden == {a \in Accounts : params.overrides[a] # NoOverride}
NothingRead ==
  [info |-> [a \in Accounts |-> Nil], slot |-> [a \in Accounts |-> Nil]]

\* What each step of the NIF may rely on.
Progress ==
  /\ params \in Simulations
  /\ \E S : results \in Seq(S)
  /\ step \in {"start", "block"} => block = Nil
  /\ step \in {"start", "block", "chain_id"} =>
       cache = NothingRead /\ todo = Overridden
  /\ step \in {"start", "block", "chain_id", "overrides", "nonce"} => results = <<>>
  /\ step \notin {"start", "block", "returned"} => block # Nil
  /\ step \in {"overrides", "nonce", "run"} =>
       spec = ResolveForkSpecId(params.spec, params.chainId, header)
  /\ step # "returned" => answer = Nil /\ cause = "none"
  /\ torn \in BOOLEAN

\* The nonce the EVM will find the sender to have.
SenderNonce ==
  IF cache.info[params.from] # Nil THEN cache.info[params.from].nonce
  ELSE MemoryAt(block).info[params.from].nonce

\* It is the nonce the batch gives its next call, if that fits a u64.
NonceTracked ==
  step = "run" /\ IsBatch /\ block # Pending /\ torn = FALSE =>
    (base + Len(results) <= MaxNonce => SenderNonce = base + Len(results))

Inv ==
  /\ NodeTyped /\ Progress /\ TypeOK
  /\ NonceTracked /\ NonceInSequence /\ TagNamesTheCause

-----------------------------------------------------------------------------
(* The node                                                                *)

LEMMA HeightIsPositive == NodeTyped => Height \in Nat \ {0}
BY EmptySeq DEF NodeTyped, Height

LEMMA BlockTyped ==
  ASSUME NodeTyped, NEW b \in 0..Height
  PROVE  MemoryAt(b) \in Memories /\ HeaderAt(b) \in Headers
<1>1. Height \in Nat \ {0} /\ Height = Len(chain)
  BY HeightIsPositive DEF Height
<1>2. \A i \in 1..Len(chain) : chain[i] \in Blocks
  BY ElementOfSeq DEF NodeTyped
<1>3. \A i \in 1..Len(chain) : chain[i].memory \in Memories /\ chain[i].header \in Headers
  BY <1>2 DEF Blocks
<1>4. CASE b = Pending
  <2>1. chain[Height].header \in Headers
    BY <1>1, <1>3
  <2>2. /\ chain[Height].header.number + 1 \in Nat
        /\ chain[Height].header.time + 1 \in Nat
    BY <2>1 DEF Headers
  <2> QED BY <1>4, <2>2 DEF MemoryAt, HeaderAt, Headers, NodeTyped
<1>5. CASE b # Pending
  BY <1>1, <1>3, <1>5 DEF MemoryAt, HeaderAt, Pending
<1> QED BY <1>4, <1>5

\* The pending state stays a memory.
LEMMA ChurnTyped ==
  ASSUME NodeTyped, Churn PROVE pendingState' \in Memories
<1>1. PICK a \in Accounts :
        \/ pendingState' = [pendingState EXCEPT !.info[a].nonce = BumpNonce(@)]
        \/ pendingState' = [pendingState EXCEPT !.slot[a] = Next1(@, MaxWord)]
  BY DEF Churn
<1>2. pendingState.info \in [Accounts -> Infos] /\ pendingState.slot \in [Accounts -> Words]
  BY DEF NodeTyped, Memories
<1>3. pendingState.info[a].nonce \in Nonces /\ pendingState.info[a].code \in Codes
  BY <1>2 DEF Infos
<1>4. BumpNonce(pendingState.info[a].nonce) \in Nonces
  BY <1>3, NoncesAndWords DEF BumpNonce, Nonces
<1>5. Next1(pendingState.slot[a], MaxWord) \in Words
  <2>1. pendingState.slot[a] \in Words
    BY <1>2
  <2> QED BY <2>1, NoncesAndWords DEF Next1, Words
<1>6. CASE pendingState' = [pendingState EXCEPT !.info[a].nonce = BumpNonce(@)]
  <2> DEFINE i == [pendingState.info[a] EXCEPT !.nonce = BumpNonce(pendingState.info[a].nonce)]
  <2>1. i \in Infos
    BY <1>2, <1>3, <1>4 DEF Infos
  <2>2. pendingState' = [pendingState EXCEPT !.info = [pendingState.info EXCEPT ![a] = i]]
    BY <1>6
  <2> HIDE DEF i
  <2>3. [pendingState.info EXCEPT ![a] = i] \in [Accounts -> Infos]
    BY <1>2, <2>1
  <2> QED BY <2>2, <2>3 DEF NodeTyped, Memories
<1>7. CASE pendingState' = [pendingState EXCEPT !.slot[a] = Next1(@, MaxWord)]
  <2>1. [pendingState.slot EXCEPT ![a] = Next1(pendingState.slot[a], MaxWord)]
          \in [Accounts -> Words]
    BY <1>2, <1>5
  <2> QED BY <1>7, <2>1 DEF NodeTyped, Memories
<1> QED BY <1>1, <1>6, <1>7

LEMMA MineGrows ==
  ASSUME NodeTyped, Mine
  PROVE  /\ NodeTyped' /\ Height' = Height + 1
         /\ \A b \in 1..Height : chain'[b] = chain[b]
<1>1. Height \in Nat \ {0} /\ Height = Len(chain)
  BY HeightIsPositive DEF Height
<1> DEFINE new == [header |-> HeaderAt(Pending), memory |-> pendingState]
<1>2. new \in Blocks
  <2>1. Pending \in 0..Height
    BY <1>1 DEF Pending
  <2>2. HeaderAt(Pending) \in Headers
    BY <2>1, BlockTyped
  <2> QED BY <2>2 DEF Blocks, NodeTyped
<1>3. chain' = Append(chain, new) /\ pendingState' = pendingState
  BY DEF Mine
<1> HIDE DEF new
<1>4. chain \in Seq(Blocks)
  BY DEF NodeTyped
<1>5. chain' \in Seq(Blocks)
  BY <1>2, <1>3, <1>4
<1>6. Len(chain') = Len(chain) + 1
  BY <1>2, <1>3, <1>4
<1>7. \A b \in 1..Len(chain) : chain'[b] = chain[b]
  BY <1>2, <1>3, <1>4
<1>8. chain' # <<>>
  BY <1>1, <1>6, EmptySeq
<1> QED BY <1>1, <1>3, <1>5, <1>6, <1>7, <1>8 DEF NodeTyped, Height

LEMMA ReorgReplaces ==
  ASSUME NodeTyped, Reorg
  PROVE  /\ NodeTyped' /\ Height' = Height /\ pendingState' = pendingState
         /\ \A b \in 1..Height : b # Height => chain'[b] = chain[b]
         /\ chain'[Height].memory = pendingState
<1>1. Height \in Nat \ {0} /\ Height = Len(chain) /\ chain \in Seq(Blocks)
  BY HeightIsPositive DEF Height, NodeTyped
<1>2. chain[Height] \in Blocks
  BY <1>1, ElementOfSeq
<1> DEFINE new == [chain[Height] EXCEPT !.memory = pendingState]
<1>3. new \in Blocks /\ new.memory = pendingState
  BY <1>2 DEF Blocks, NodeTyped
<1>4. chain' = [chain EXCEPT ![Height] = new] /\ pendingState' = pendingState
  BY DEF Reorg
<1> HIDE DEF new
<1>5. /\ chain' \in Seq(Blocks) /\ Len(chain') = Len(chain)
      /\ \A b \in 1..Len(chain) : chain'[b] = IF b = Height THEN new ELSE chain[b]
  BY <1>1, <1>3, <1>4, ExceptSeq
<1>6. chain' # <<>>
  BY <1>1, <1>5, EmptySeq
<1>7. Height' = Height
  BY <1>1, <1>5 DEF Height
<1>8. Height \in 1..Len(chain)
  BY <1>1
<1>9. chain'[Height].memory = pendingState
  BY <1>3, <1>5, <1>8
<1>10. \A b \in 1..Height : b # Height => chain'[b] = chain[b]
  BY <1>1, <1>5
<1>11. NodeTyped'
  BY <1>4, <1>5, <1>6 DEF NodeTyped
<1> QED BY <1>4, <1>7, <1>9, <1>10, <1>11

LEMMA BlockKept ==
  ASSUME NodeTyped, block \in 0..Height, block' = block,
         Mine \/ (Churn /\ block # Pending) \/ (Reorg /\ block # Height)
  PROVE  MemoryAt(block)' = MemoryAt(block)
<1>1. CASE block = Pending
  <2>1. pendingState' = pendingState
    BY <1>1, ReorgReplaces DEF Mine, Churn
  <2> QED BY <1>1, <2>1 DEF MemoryAt
<1>2. CASE block # Pending
  <2>1. block \in 1..Height
    BY <1>2, HeightIsPositive DEF Pending
  <2>2. chain'[block] = chain[block]
    <3>1. CASE Mine
      BY <2>1, <3>1, MineGrows
    <3>2. CASE Churn
      BY <3>2 DEF Churn
    <3>3. CASE Reorg /\ block # Height
      BY <2>1, <3>3, ReorgReplaces
    <3> QED BY <3>1, <3>2, <3>3
  <2> QED BY <1>2, <2>2 DEF MemoryAt
<1> QED BY <1>1, <1>2

LEMMA NodeMoves ==
  ASSUME NodeTyped, Mine \/ Churn \/ Reorg
  PROVE  NodeTyped' /\ Height \in Nat \ {0} /\ Height' \in Nat /\ Height' >= Height
<1>0. Height \in Nat \ {0}
  BY HeightIsPositive
<1>1. CASE Mine
  BY <1>0, <1>1, MineGrows
<1>2. CASE Churn
  BY <1>0, <1>2, ChurnTyped DEF Churn, NodeTyped, Height
<1>3. CASE Reorg
  BY <1>0, <1>3, ReorgReplaces
<1> QED BY <1>1, <1>2, <1>3

-----------------------------------------------------------------------------
(* The steps of the NIF                                                    *)

LEMMA RequestTyped ==
  ASSUME Progress
  PROVE  /\ params.from \in Accounts /\ params.calls \in Seq(Accounts)
         /\ \A a \in Accounts :
              params.overrides[a] \in [nonce : Nonces \cup {Nil},
                                        code : Codes \cup {Nil},
                                        slot : Words \cup {Nil}]
         /\ Len(params.calls) \in Nat
BY SimulationsAreCalls, LenProperties DEF Progress

LEMMA ResultsTyped ==
  ASSUME Progress PROVE Len(results) \in Nat /\ Len(<<>>) = 0
BY LenProperties DEF Progress

LEMMA NothingReadTyped ==
  NothingRead \in [info : [Accounts -> Infos \cup {Nil}],
                   slot : [Accounts -> Words \cup {Nil}]]
BY DEF NothingRead

LEMMA NodeUnmoved ==
  ASSUME Inv, UNCHANGED <<nodeVars, params, torn>>
  PROVE  /\ NodeTyped' /\ Height' = Height /\ Height \in Nat \ {0}
         /\ chain' = chain /\ pendingState' = pendingState
         /\ params' = params /\ torn' = torn
BY HeightIsPositive DEF Inv, nodeVars, NodeTyped, Height

LEMMA InitInv == ForkInit => Inv
<1> SUFFICES ASSUME ForkInit PROVE Inv
  OBVIOUS
<1>1. NodeTyped
  <2>1. PICK o \in Origins, m \in Genesis :
          chain = <<[header |-> o, memory |-> m]>> /\ pendingState = m
    BY DEF ForkInit, NodeInit
  <2>2. [header |-> o, memory |-> m] \in Blocks /\ m \in Memories
    BY BlocksAreTyped DEF Blocks
  <2> HIDE DEF Blocks
  <2>3. chain \in Seq(Blocks) /\ chain # <<>>
    BY <2>1, <2>2
  <2> QED BY <2>1, <2>2, <2>3 DEF NodeTyped
<1>2. /\ step = "start" /\ block = Nil /\ spec = Nil /\ results = <<>>
      /\ answer = Nil /\ cause = "none" /\ torn = FALSE
      /\ params \in Simulations /\ todo = Overridden /\ cache = NothingRead
  BY DEF ForkInit, Overridden, NothingRead
<1>3. Progress
  <2>1. results \in Seq({})
    BY <1>2, EmptySeq
  <2> QED BY <1>2, <2>1 DEF Progress
<1>4. TypeOK
  <2>1. Len(results) <= Len(params.calls)
    BY <1>2, <1>3, RequestTyped, ResultsTyped
  <2>2. todo \subseteq {a \in Accounts : cache.info[a] = Nil /\ cache.slot[a] = Nil}
    BY <1>2 DEF Overridden, NothingRead
  <2> QED BY <1>2, <2>1, <2>2, NothingReadTyped DEF TypeOK, Steps
<1>5. NonceTracked /\ NonceInSequence /\ TagNamesTheCause
  BY <1>2 DEF NonceTracked, NonceInSequence, TagNamesTheCause
<1> QED BY <1>1, <1>3, <1>4, <1>5 DEF Inv

\* What the tag of a failure must be.
TagOf(why) ==
  IF why \in {"deadline", "connect_deadline", "rpc_timed_out"} THEN "timeout"
  ELSE IF why \in {"refused", "reset", "no_block", "no_schedule"} THEN "fork_error"
  ELSE "evm_error"

LEMMA FailKeeps ==
  ASSUME Inv, UNCHANGED <<nodeVars, params, torn>>, step # "returned",
         NEW tag, NEW why, FailWith(tag, why), tag = TagOf(why),
         why = "nonce" => block = Pending \/ torn
  PROVE  Inv'
<1>1. /\ NodeTyped' /\ Height' = Height /\ params' = params /\ torn' = torn
      /\ Height \in Nat \ {0}
  BY NodeUnmoved
<1>2. /\ step' = "returned" /\ block' = block /\ spec' = spec /\ todo' = todo
      /\ cache' = cache /\ base' = base /\ results' = results
      /\ answer'.tag = tag /\ cause' = why
  BY DEF FailWith
<1>3. Progress'
  BY <1>1, <1>2 DEF Inv, Progress
<1>4. TypeOK'
  BY <1>1, <1>2 DEF Inv, TypeOK, Steps
<1>5. NonceTracked'
  BY <1>2 DEF NonceTracked
<1>6. NonceInSequence' /\ TagNamesTheCause'
  BY <1>1, <1>2 DEF NonceInSequence, TagNamesTheCause, TagOf
<1> QED BY <1>1, <1>3, <1>4, <1>5, <1>6 DEF Inv

LEMMA StartKeeps ==
  ASSUME Inv, UNCHANGED <<nodeVars, params, torn>>, Start PROVE Inv'
<1>1. /\ NodeTyped' /\ Height' = Height /\ params' = params /\ torn' = torn
  BY NodeUnmoved
<1>2. /\ step = "start" /\ step' \in {"block", "returned"}
      /\ block' = block /\ spec' = spec /\ todo' = todo /\ cache' = cache
      /\ base' = base /\ results' = results /\ cause' = cause
      /\ step' = "block" => answer' = answer
  BY DEF Start
<1>3. Progress'
  <2>1. /\ cache' = NothingRead /\ todo' = Overridden' /\ results' = <<>>
        /\ block' = Nil
    BY <1>1, <1>2 DEF Inv, Progress, Overridden
  <2>2. (\E S : results \in Seq(S))' /\ torn' \in BOOLEAN /\ params' \in Simulations
    BY <1>1, <1>2 DEF Inv, Progress
  <2>3. cause' = "none" /\ (step' # "returned" => answer' = Nil)
    BY <1>2 DEF Inv, Progress
  <2> QED BY <1>2, <2>1, <2>2, <2>3 DEF Progress
<1>4. TypeOK'
  BY <1>1, <1>2 DEF Inv, TypeOK, Steps
<1>5. cause' = "none"
  BY <1>2 DEF Inv, Progress
<1>6. NonceTracked' /\ NonceInSequence' /\ TagNamesTheCause'
  BY <1>2, <1>5 DEF NonceTracked, NonceInSequence, TagNamesTheCause
<1> QED BY <1>1, <1>3, <1>4, <1>6 DEF Inv

\* The block a fork is pinned to is the one get_block answered with.
LEMMA GetBlockPins ==
  ASSUME Inv, GetBlock
  PROVE  \E b \in Named : /\ block' = b /\ header' = HeaderAt(b)
                          /\ b \in 0..Height /\ b # Nil
<1>1. PICK b \in Named :
        /\ header' = HeaderAt(b)
        /\ block' = IF params.number = Nil /\ params.tag = "pending"
                    THEN Pending ELSE b
  BY DEF GetBlock
<1>2. Height \in Nat \ {0}
  BY HeightIsPositive DEF Inv
<1>3. Finalized \in 1..Height
  BY <1>2 DEF Finalized
<1>4. b \in 0..Height
  <2>1. CASE params.number # Nil
    BY <1>2, <2>1 DEF Named
  <2>2. CASE params.number = Nil
    <3>1. Named \in {{Pending}, {1}, {Finalized}, Finalized..Height, {Height}}
      BY <2>2 DEF Named
    <3>2. b \in {Pending, 1, Height} \cup Finalized..Height
      BY <1>2, <1>3, <3>1
    <3> QED BY <1>2, <1>3, <3>2 DEF Pending
  <2> QED BY <2>1, <2>2
<1>5. block' = b
  BY <1>1 DEF Named
<1> QED BY <1>1, <1>2, <1>4, <1>5, NilIsNothing

LEMMA GetBlockKeeps ==
  ASSUME Inv, UNCHANGED <<nodeVars, params, torn>>, GetBlock PROVE Inv'
<1>1. /\ NodeTyped' /\ Height' = Height /\ params' = params /\ torn' = torn
  BY NodeUnmoved
<1>2. /\ step = "block" /\ step' = "chain_id"
      /\ spec' = spec /\ todo' = todo /\ cache' = cache /\ base' = base
      /\ results' = results /\ cause' = cause /\ answer' = answer
  BY DEF GetBlock, Unfailed
<1>3. block' \in 0..Height /\ block' # Nil
  BY GetBlockPins
<1>4. Progress'
  <2>1. cache' = NothingRead /\ todo' = Overridden' /\ results' = <<>>
    BY <1>1, <1>2 DEF Inv, Progress, Overridden
  <2>2. (\E S : results \in Seq(S))' /\ torn' \in BOOLEAN /\ params' \in Simulations
    BY <1>1, <1>2 DEF Inv, Progress
  <2>3. answer' = Nil /\ cause' = "none"
    BY <1>2 DEF Inv, Progress
  <2> QED BY <1>2, <1>3, <2>1, <2>2, <2>3 DEF Progress
<1>5. TypeOK'
  BY <1>1, <1>2, <1>3 DEF Inv, TypeOK, Steps
<1>6. cause' = "none"
  BY <1>2 DEF Inv, Progress
<1>7. NonceTracked' /\ NonceInSequence' /\ TagNamesTheCause'
  BY <1>2, <1>6 DEF NonceTracked, NonceInSequence, TagNamesTheCause
<1> QED BY <1>1, <1>4, <1>5, <1>7 DEF Inv

LEMMA GetChainIdKeeps ==
  ASSUME Inv, UNCHANGED <<nodeVars, params, torn>>, GetChainId PROVE Inv'
<1> DEFINE resolved == ResolveForkSpecId(params.spec, params.chainId, header)
<1>1. /\ NodeTyped' /\ Height' = Height /\ params' = params /\ torn' = torn
  BY NodeUnmoved
<1>2. CASE resolved = Nil
  <2>1. step # "returned" /\ FailWith("fork_error", "no_schedule")
    BY <1>2 DEF GetChainId
  <2> QED BY <2>1, FailKeeps DEF TagOf
<1>3. CASE resolved # Nil
  <2>1. /\ step = "chain_id" /\ step' = "overrides" /\ spec' = resolved
        /\ block' = block /\ header' = header /\ todo' = todo
        /\ cache' = cache /\ base' = base /\ results' = results
        /\ cause' = cause /\ answer' = answer
    BY <1>3 DEF GetChainId, Unfailed
  <2>2. spec' = ResolveForkSpecId(params'.spec, params'.chainId, header')
    BY <1>1, <2>1
  <2> HIDE DEF resolved
  <2>3. Progress'
    BY <1>1, <2>1, <2>2 DEF Inv, Progress
  <2>4. block # Nil
    BY <2>1 DEF Inv, Progress
  <2>5. TypeOK'
    BY <1>1, <1>3, <2>1, <2>4 DEF Inv, TypeOK, Steps
  <2>6. cause' = "none"
    BY <2>1 DEF Inv, Progress
  <2>7. NonceTracked' /\ NonceInSequence' /\ TagNamesTheCause'
    BY <2>1, <2>6 DEF NonceTracked, NonceInSequence, TagNamesTheCause
  <2> QED BY <1>1, <2>3, <2>5, <2>7 DEF Inv
<1> QED BY <1>2, <1>3

LEMMA MergedTyped ==
  ASSUME NEW info \in Infos,
         NEW o \in [nonce : Nonces \cup {Nil}, code : Codes \cup {Nil},
                    slot : Words \cup {Nil}]
  PROVE  Merged(info, o) \in Infos
BY DEF Merged, Infos

\* While the NIF works, its block is one of the node's.
LEMMA BlockRead ==
  ASSUME Inv, step \notin {"start", "block", "returned"}
  PROVE  /\ block \in 0..Height
         /\ \A a \in Accounts : /\ MemoryAt(block).info[a] \in Infos
                                /\ MemoryAt(block).slot[a] \in Words
<1>1. block \in 0..Height
  BY DEF Inv, TypeOK, Progress
<1>2. MemoryAt(block) \in Memories
  BY <1>1, BlockTyped DEF Inv
<1> QED BY <1>1, <1>2 DEF Memories

LEMMA ApplyOverrideKeeps ==
  ASSUME Inv, UNCHANGED <<nodeVars, params, torn>>,
         NEW a \in Accounts, ApplyOverride(a)
  PROVE  Inv'
<1> DEFINE o == params.overrides[a]
           merged == Merged(MemoryAt(block).info[a], o)
<1>1. /\ NodeTyped' /\ Height' = Height /\ params' = params /\ torn' = torn
  BY NodeUnmoved
<1>2. /\ step = "overrides" /\ step' = step /\ todo' = todo \ {a}
      /\ block' = block /\ header' = header /\ spec' = spec /\ base' = base
      /\ results' = results /\ cause' = cause /\ answer' = answer
      /\ cache' = [info |-> [cache.info EXCEPT ![a] = merged],
                   slot |-> [cache.slot EXCEPT ![a] = o.slot]]
  BY DEF ApplyOverride, Unfailed
<1>3. merged \in Infos
  BY <1>2, BlockRead, RequestTyped, MergedTyped DEF Inv
<1>4. o.slot \in Words \cup {Nil}
  BY RequestTyped DEF Inv
<1> HIDE DEF o, merged
<1>5. /\ cache.info \in [Accounts -> Infos \cup {Nil}]
      /\ cache.slot \in [Accounts -> Words \cup {Nil}]
      /\ todo \subseteq {b \in Accounts : cache.info[b] = Nil /\ cache.slot[b] = Nil}
  BY DEF Inv, TypeOK
<1>6. /\ cache' \in [info : [Accounts -> Infos \cup {Nil}],
                     slot : [Accounts -> Words \cup {Nil}]]
      /\ todo' \subseteq {b \in Accounts : cache'.info[b] = Nil /\ cache'.slot[b] = Nil}
  BY <1>2, <1>3, <1>4, <1>5
<1>7. Progress'
  BY <1>1, <1>2 DEF Inv, Progress
<1>8. TypeOK'
  BY <1>1, <1>2, <1>6 DEF Inv, TypeOK, Steps
<1>9. cause' = "none"
  BY <1>2 DEF Inv, Progress
<1>10. NonceTracked' /\ NonceInSequence' /\ TagNamesTheCause'
  BY <1>2, <1>9 DEF NonceTracked, NonceInSequence, TagNamesTheCause
<1> QED BY <1>1, <1>7, <1>8, <1>10 DEF Inv

\* A batch asks for the nonce first, so "run" is then a single call's.
LEMMA OverridesAppliedKeeps ==
  ASSUME Inv, UNCHANGED <<nodeVars, params, torn>>, OverridesApplied PROVE Inv'
<1>1. /\ NodeTyped' /\ Height' = Height /\ params' = params /\ torn' = torn
  BY NodeUnmoved
<1>2. /\ step = "overrides" /\ todo = {} /\ todo' = todo
      /\ step' = (IF IsBatch THEN "nonce" ELSE "run")
      /\ block' = block /\ header' = header /\ spec' = spec /\ base' = base
      /\ results' = results /\ cause' = cause /\ answer' = answer
      /\ cache' = cache
  BY DEF OverridesApplied, Unfailed
<1>3. IsBatch' = IsBatch /\ (step' = "run" => ~IsBatch) /\ step' \in {"nonce", "run"}
  BY <1>1, <1>2 DEF IsBatch
<1>4. Progress'
  BY <1>1, <1>2, <1>3 DEF Inv, Progress
<1>5. TypeOK'
  BY <1>1, <1>2, <1>3 DEF Inv, TypeOK, Steps
<1>6. cause' = "none"
  BY <1>2 DEF Inv, Progress
<1>7. NonceTracked' /\ NonceInSequence' /\ TagNamesTheCause'
  BY <1>2, <1>3, <1>6 DEF NonceTracked, NonceInSequence, TagNamesTheCause
<1> QED BY <1>1, <1>4, <1>5, <1>7 DEF Inv

\* The cache once more, and what may be assumed of it.
LEMMA CacheTyped ==
  ASSUME Inv
  PROVE  /\ cache = [info |-> cache.info, slot |-> cache.slot]
         /\ cache.info \in [Accounts -> Infos \cup {Nil}]
         /\ cache.slot \in [Accounts -> Words \cup {Nil}]
         /\ \A a \in Accounts : /\ cache.info[a] # Nil => cache.info[a] \in Infos
                                /\ cache.slot[a] # Nil => cache.slot[a] \in Words
BY DEF Inv, TypeOK

LEMMA CurrentNonceKeeps ==
  ASSUME Inv, UNCHANGED <<nodeVars, params, torn>>, CurrentNonce PROVE Inv'
<1>1. /\ NodeTyped' /\ Height' = Height /\ params' = params /\ torn' = torn
      /\ chain' = chain /\ pendingState' = pendingState
  BY NodeUnmoved
<1>2. /\ step = "nonce" /\ step' = "run" /\ base' = SenderNonce
      /\ block' = block /\ header' = header /\ spec' = spec /\ todo' = todo
      /\ results' = results /\ cause' = cause /\ answer' = answer
      /\ cache' = cache
  BY DEF CurrentNonce, Unfailed, SenderNonce
<1>3. SenderNonce \in Nonces
  <2>1. params.from \in Accounts
    BY RequestTyped DEF Inv
  <2>2. MemoryAt(block).info[params.from] \in Infos
    BY <1>2, <2>1, BlockRead
  <2>3. cache.info[params.from] # Nil => cache.info[params.from] \in Infos
    BY <2>1, CacheTyped
  <2> QED BY <2>2, <2>3 DEF SenderNonce, Infos
<1>4. SenderNonce' = SenderNonce
  <2>1. MemoryAt(block)' = MemoryAt(block)
    BY <1>1, <1>2 DEF MemoryAt
  <2> QED BY <1>1, <1>2, <2>1 DEF SenderNonce
<1>5. Progress'
  BY <1>1, <1>2 DEF Inv, Progress
<1>6. TypeOK'
  <2>1. IsBatch' = IsBatch
    BY <1>1 DEF IsBatch
  <2> QED BY <1>1, <1>2, <1>3, <2>1 DEF Inv, TypeOK, Steps
<1>7. NonceTracked'
  <2>1. Len(results') = 0
    BY <1>2, ResultsTyped DEF Inv, Progress
  <2>2. base' + Len(results') = SenderNonce'
    BY <1>2, <1>3, <1>4, <2>1 DEF Nonces
  <2> QED BY <2>2 DEF NonceTracked
<1>8. cause' = "none"
  BY <1>2 DEF Inv, Progress
<1>9. NonceInSequence' /\ TagNamesTheCause'
  BY <1>8 DEF NonceInSequence, TagNamesTheCause
<1> QED BY <1>1, <1>5, <1>6, <1>7, <1>9 DEF Inv

\* While calls run, nothing is left to override.
LEMMA RunTyped ==
  ASSUME Inv, step = "run"
  PROVE  /\ todo = {} /\ params.from \in Accounts
         /\ Len(results) \in Nat /\ Len(params.calls) \in Nat
         /\ Len(results) <= Len(params.calls)
         /\ More => To \in Accounts
         /\ block \in 0..Height
<1>1. /\ todo = {} /\ block \in 0..Height
      /\ Len(results) <= Len(params.calls)
  BY BlockRead DEF Inv, TypeOK
<1>2. /\ params.from \in Accounts /\ Len(results) \in Nat
      /\ params.calls \in Seq(Accounts) /\ Len(params.calls) \in Nat
  BY RequestTyped, ResultsTyped DEF Inv
<1>3. ASSUME More PROVE To \in Accounts
  <2>1. Len(results) + 1 \in 1..Len(params.calls)
    BY <1>2, <1>3 DEF More
  <2> QED BY <1>2, <2>1, ElementOfSeq DEF To
<1> QED BY <1>1, <1>2, <1>3

\* A load fills in what the block holds, so nobody's nonce is another one.
LEMMA LoadFills ==
  ASSUME Inv, Load
  PROVE  /\ step = "run" /\ block' = block /\ step' = step
         /\ \E a \in Accounts :
              \/ /\ cache.info[a] = Nil
                 /\ cache' = [info |-> [cache.info EXCEPT ![a] = MemoryAt(block).info[a]],
                              slot |-> cache.slot]
              \/ /\ cache.slot[a] = Nil
                 /\ cache' = [info |-> cache.info,
                              slot |-> [cache.slot EXCEPT ![a] = MemoryAt(block).slot[a]]]
<1>1. step = "run" /\ More /\ block' = block /\ step' = step
  BY DEF Load
<1>2. params.from \in Accounts /\ To \in Accounts
  BY <1>1, RunTyped
<1>3. cache = [info |-> cache.info, slot |-> cache.slot]
  BY CacheTyped
<1>4. \E a \in Accounts : LoadInfo(a) \/ LoadSlot(a)
  BY <1>2 DEF Load
<1>5. PICK a \in Accounts : LoadInfo(a) \/ LoadSlot(a)
  BY <1>4
<1>6. CASE LoadInfo(a)
  <2>1. cache.info[a] = Nil /\ cache' = [cache EXCEPT !.info = [cache.info EXCEPT ![a] = MemoryAt(block).info[a]]]
    BY <1>6 DEF LoadInfo
  <2>2. cache' = [info |-> [cache.info EXCEPT ![a] = MemoryAt(block).info[a]],
                  slot |-> cache.slot]
    BY <1>3, <2>1
  <2> QED BY <1>1, <2>1, <2>2
<1>7. CASE LoadSlot(a)
  <2>1. cache.slot[a] = Nil /\ cache' = [cache EXCEPT !.slot = [cache.slot EXCEPT ![a] = MemoryAt(block).slot[a]]]
    BY <1>7 DEF LoadSlot
  <2>2. cache' = [info |-> cache.info,
                  slot |-> [cache.slot EXCEPT ![a] = MemoryAt(block).slot[a]]]
    BY <1>3, <2>1
  <2> QED BY <1>1, <2>1, <2>2
<1> QED BY <1>5, <1>6, <1>7

LEMMA LoadKeeps ==
  ASSUME Inv, UNCHANGED <<nodeVars, params, torn>>, Load PROVE Inv'
<1>1. /\ NodeTyped' /\ Height' = Height /\ params' = params /\ torn' = torn
      /\ chain' = chain /\ pendingState' = pendingState
  BY NodeUnmoved
<1>2. /\ step = "run" /\ step' = "run" /\ base' = base
      /\ block' = block /\ header' = header /\ spec' = spec /\ todo' = todo
      /\ results' = results /\ cause' = cause /\ answer' = answer
  BY DEF Load, Unfailed
<1>3. todo = {} /\ params.from \in Accounts
  BY <1>2, RunTyped
<1>4. /\ cache' \in [info : [Accounts -> Infos \cup {Nil}],
                     slot : [Accounts -> Words \cup {Nil}]]
      /\ SenderNonce' = SenderNonce
  <2>1. PICK a \in Accounts :
          \/ /\ cache.info[a] = Nil
             /\ cache' = [info |-> [cache.info EXCEPT ![a] = MemoryAt(block).info[a]],
                          slot |-> cache.slot]
          \/ /\ cache.slot[a] = Nil
             /\ cache' = [info |-> cache.info,
                          slot |-> [cache.slot EXCEPT ![a] = MemoryAt(block).slot[a]]]
    BY LoadFills
  <2>2. MemoryAt(block).info[a] \in Infos /\ MemoryAt(block).slot[a] \in Words
    BY <1>2, BlockRead
  <2>3. /\ cache.info \in [Accounts -> Infos \cup {Nil}]
        /\ cache.slot \in [Accounts -> Words \cup {Nil}]
    BY CacheTyped
  <2>4. cache' \in [info : [Accounts -> Infos \cup {Nil}],
                    slot : [Accounts -> Words \cup {Nil}]]
    BY <2>1, <2>2, <2>3
  <2>5. MemoryAt(block)' = MemoryAt(block)
    BY <1>1, <1>2 DEF MemoryAt
  <2>6. SenderNonce' = SenderNonce
    <3>1. CASE cache'.info = cache.info
      BY <1>1, <2>5, <3>1 DEF SenderNonce
    <3>2. CASE /\ cache.info[a] = Nil
               /\ cache'.info = [cache.info EXCEPT ![a] = MemoryAt(block).info[a]]
      <4>1. CASE a = params.from
        BY <1>1, <1>3, <2>2, <2>3, <3>2, <4>1, NilIsNothing DEF SenderNonce
      <4>2. CASE a # params.from
        <5>1. cache'.info[params.from] = cache.info[params.from]
          BY <1>3, <2>3, <3>2, <4>2
        <5> QED BY <1>1, <2>5, <5>1 DEF SenderNonce
      <4> QED BY <4>1, <4>2
    <3> QED BY <2>1, <3>1, <3>2
  <2> QED BY <2>4, <2>6
<1>5. Progress'
  BY <1>1, <1>2 DEF Inv, Progress
<1>6. TypeOK'
  <2>1. IsBatch' = IsBatch
    BY <1>1 DEF IsBatch
  <2> QED BY <1>1, <1>2, <1>3, <1>4, <2>1 DEF Inv, TypeOK, Steps
<1>7. NonceTracked'
  BY <1>1, <1>2, <1>4 DEF Inv, NonceTracked, IsBatch
<1>8. cause' = "none"
  BY <1>2 DEF Inv, Progress
<1>9. NonceInSequence' /\ TagNamesTheCause'
  BY <1>8 DEF NonceInSequence, TagNamesTheCause
<1> QED BY <1>1, <1>5, <1>6, <1>7, <1>9 DEF Inv

\* The nonce read for the batch is the one the EVM checks, so it can only
\* disagree if the block has changed in between.
LEMMA NonceRejectedKeeps ==
  ASSUME Inv, UNCHANGED <<nodeVars, params, torn>>, NonceRejected PROVE Inv'
<1>1. step = "run" /\ step # "returned"
  BY DEF NonceRejected
<1>2. CASE FailWith("evm_error", "nonce_overflow")
  BY <1>1, <1>2, FailKeeps DEF TagOf
<1>3. CASE NonceFits /\ SenderLoaded /\ ~NonceMatches /\ FailWith("evm_error", "nonce")
  <2>1. IsBatch /\ base + Len(results) <= MaxNonce
    BY <1>3 DEF NonceFits, NonceMatches
  <2>2. SenderNonce # base + Len(results)
    BY <1>3 DEF SenderLoaded, NonceMatches, SenderNonce
  <2>3. block = Pending \/ torn # FALSE
    BY <1>1, <2>1, <2>2 DEF Inv, NonceTracked
  <2>4. block = Pending \/ torn
    BY <2>3 DEF Inv, Progress
  <2> QED BY <1>1, <1>3, <2>4, FailKeeps DEF TagOf
<1> QED BY <1>2, <1>3 DEF NonceRejected

\* What a committed call leaves in a cache that has what it reads.
LEMMA CommittedTyped ==
  ASSUME NEW from \in Accounts, NEW to \in Accounts,
         cache.info \in [Accounts -> Infos \cup {Nil}],
         cache.slot \in [Accounts -> Words \cup {Nil}],
         cache.info[from] \in Infos, cache.info[to].code = "bump" => cache.slot[to] \in Words
  PROVE  /\ Committed(cache, from, to) = [info |-> Committed(cache, from, to).info,
                                      slot |-> Committed(cache, from, to).slot]
         /\ Committed(cache, from, to).info \in [Accounts -> Infos \cup {Nil}]
         /\ Committed(cache, from, to).slot \in [Accounts -> Words \cup {Nil}]
         /\ Committed(cache, from, to).info[from] \in Infos
         /\ Committed(cache, from, to).info[from].nonce = BumpNonce(cache.info[from].nonce)
         /\ Committed(cache, from, to).info
              = [cache.info EXCEPT ![from] = Committed(cache, from, to).info[from]]
         /\ Committed(cache, from, to).slot
              = IF cache.info[to].code = "bump"
                THEN [cache.slot EXCEPT ![to] = Next1(cache.slot[to], MaxWord)] ELSE cache.slot
         /\ cache.info[to].code = "bump" => Next1(cache.slot[to], MaxWord) \in Words
<1> DEFINE n == [cache.info[from] EXCEPT !.nonce = BumpNonce(cache.info[from].nonce)]
           s == IF cache.info[to].code = "bump"
                THEN [cache.slot EXCEPT ![to] = Next1(cache.slot[to], MaxWord)] ELSE cache.slot
<1>1. Committed(cache, from, to) = [info |-> [cache.info EXCEPT ![from] = n], slot |-> s]
  BY DEF Committed
<1>2. BumpNonce(cache.info[from].nonce) \in Nonces
  BY NoncesAndWords DEF BumpNonce, Nonces, Infos
<1>3. n \in Infos /\ n.nonce = BumpNonce(cache.info[from].nonce)
  BY <1>2 DEF Infos
<1>4. cache.info[to].code = "bump" => Next1(cache.slot[to], MaxWord) \in Words
  <2>1. \A w \in Words : Next1(w, MaxWord) \in Words
    BY NoncesAndWords DEF Next1, Words
  <2> QED BY <2>1
<1>5. s \in [Accounts -> Words \cup {Nil}]
  BY <1>4
<1> HIDE DEF n, s
<1>6. /\ [cache.info EXCEPT ![from] = n] \in [Accounts -> Infos \cup {Nil}]
      /\ [cache.info EXCEPT ![from] = n][from] = n
  BY <1>3
<1>7. Committed(cache, from, to).info = [cache.info EXCEPT ![from] = n]
      /\ Committed(cache, from, to).slot = s
  BY <1>1
<1> QED BY <1>1, <1>3, <1>4, <1>5, <1>6, <1>7 DEF s

\* What an execution finds in the cache.
LEMMA ExecuteReads ==
  ASSUME Inv, Execute
  PROVE  /\ step = "run" /\ params.from \in Accounts /\ To \in Accounts
         /\ cache.info[params.from] \in Infos /\ cache.info[To] \in Infos
         /\ ReadsSlot(cache.info[To].code) => cache.slot[To] \in Words
         /\ cache.info[To].code = "bump" => cache.slot[To] \in Words
         /\ Len(results) \in Nat /\ Len(results) < Len(params.calls)
         /\ Len(params.calls) \in Nat
<1>1. step = "run" /\ More /\ Ready
  BY DEF Execute
<1>2. params.from \in Accounts /\ To \in Accounts
  BY <1>1, RunTyped
<1>3. ReadsSlot(cache.info[To].code) => cache.slot[To] \in Words
  BY <1>1, <1>2, CacheTyped DEF Ready
<1>4. cache.info[To].code = "bump" => ReadsSlot(cache.info[To].code)
  BY DEF ReadsSlot
<1>5. cache.info[params.from] \in Infos /\ cache.info[To] \in Infos
  BY <1>1, <1>2, CacheTyped DEF Ready, SenderLoaded, CalleeLoaded
<1> QED BY <1>1, <1>2, <1>3, <1>4, <1>5, RunTyped DEF More

LEMMA ExecuteKeeps ==
  ASSUME Inv, UNCHANGED <<nodeVars, params, torn>>, Execute PROVE Inv'
<1>1. /\ NodeTyped' /\ Height' = Height /\ params' = params /\ torn' = torn
      /\ chain' = chain /\ pendingState' = pendingState
  BY NodeUnmoved
<1> DEFINE status == Status(cache.info[To].code)
           result == [success |-> status = "success",
                      output |-> Output(cache, To, spec)]
           new == Committed(cache, params.from, To)
<1>2. CASE status = "halt"
  <2>1. step # "returned" /\ FailWith("evm_error", "halt")
    BY <1>2 DEF Execute
  <2> QED BY <2>1, FailKeeps DEF TagOf
<1>3. CASE status # "halt"
  <2>1. /\ step = "run" /\ step' = step /\ base' = base
        /\ block' = block /\ header' = header /\ spec' = spec /\ todo' = todo
        /\ cause' = cause /\ answer' = answer
        /\ results' = Append(results, result)
        /\ cache' = IF IsBatch THEN new ELSE cache
        /\ NonceMatches
    BY <1>3 DEF Execute, Unfailed
  <2> HIDE DEF result
  <2>2. /\ params.from \in Accounts /\ cache.info[params.from] \in Infos
        /\ Len(results) \in Nat /\ Len(results) < Len(params.calls)
        /\ Len(params.calls) \in Nat
    BY ExecuteReads
  <2>3. (\E S : results \in Seq(S))' /\ Len(results') = Len(results) + 1
    <3>1. PICK S : results \in Seq(S)
      BY DEF Inv, Progress
    <3>2. results \in Seq(S \cup {result})
      BY <3>1, SeqMonotonic
    <3>3. /\ Append(results, result) \in Seq(S \cup {result})
          /\ Len(Append(results, result)) = Len(results) + 1
      BY <3>2
    <3> QED BY <2>1, <3>3
  <2>4. /\ new = [info |-> new.info, slot |-> new.slot]
        /\ new.info \in [Accounts -> Infos \cup {Nil}]
        /\ new.slot \in [Accounts -> Words \cup {Nil}]
        /\ new.info[params.from] \in Infos
        /\ new.info[params.from].nonce = BumpNonce(cache.info[params.from].nonce)
    <3>1. /\ params.from \in Accounts /\ To \in Accounts
          /\ cache.info[params.from] \in Infos
          /\ cache.info[To].code = "bump" => cache.slot[To] \in Words
      BY ExecuteReads
    <3>2. /\ cache.info \in [Accounts -> Infos \cup {Nil}]
          /\ cache.slot \in [Accounts -> Words \cup {Nil}]
      BY CacheTyped
    <3> DEFINE from == params.from
               to == To
    <3> HIDE DEF from, to
    <3>3. /\ Committed(cache, from, to)
               = [info |-> Committed(cache, from, to).info,
                  slot |-> Committed(cache, from, to).slot]
          /\ Committed(cache, from, to).info \in [Accounts -> Infos \cup {Nil}]
          /\ Committed(cache, from, to).slot \in [Accounts -> Words \cup {Nil}]
          /\ Committed(cache, from, to).info[from] \in Infos
          /\ Committed(cache, from, to).info[from].nonce = BumpNonce(cache.info[from].nonce)
      <4>1. /\ from \in Accounts /\ to \in Accounts /\ cache.info[from] \in Infos
            /\ cache.info[to].code = "bump" => cache.slot[to] \in Words
        BY <3>1 DEF from, to
      <4> QED BY <3>2, <4>1, CommittedTyped
    <3> QED BY <3>3 DEF from, to
  <2> HIDE DEF new
  <2>5. cache' \in [info : [Accounts -> Infos \cup {Nil}],
                    slot : [Accounts -> Words \cup {Nil}]]
    BY <2>1, <2>4, CacheTyped
  <2>6. todo = {} /\ IsBatch' = IsBatch
    BY <1>1, <2>1, RunTyped DEF IsBatch
  <2>7. Progress'
    BY <1>1, <2>1, <2>3 DEF Inv, Progress
  <2>8. Len(results') <= Len(params'.calls)
    BY <1>1, <2>2, <2>3
  <2>9. TypeOK'
    BY <1>1, <2>1, <2>5, <2>6, <2>8 DEF Inv, TypeOK, Steps
  <2>10. NonceTracked'
    <3> SUFFICES ASSUME IsBatch, base + Len(results') <= MaxNonce
                 PROVE  SenderNonce' = base + Len(results')
      BY <2>1, <2>6 DEF NonceTracked
    <3>1. cache.info[params.from].nonce = base + Len(results)
      BY <2>1 DEF NonceMatches
    <3>2. base \in Nat /\ MaxNonce \in Nat
      BY <2>1, NoncesAndWords DEF Inv, TypeOK, Nonces
    <3>3. base + Len(results') = base + Len(results) + 1
      BY <2>2, <2>3, <3>2
    <3>4. base + Len(results) # MaxNonce
      BY <2>2, <3>2, <3>3
    <3>5. BumpNonce(cache.info[params.from].nonce) = base + Len(results) + 1
      BY <3>1, <3>4 DEF BumpNonce
    <3>6. /\ cache'.info[params'.from] \in Infos
          /\ cache'.info[params'.from].nonce = base + Len(results) + 1
      BY <1>1, <2>1, <2>4, <3>5
    <3> QED BY <3>3, <3>6, NilIsNothing DEF SenderNonce
  <2>11. cause' = "none"
    BY <2>1 DEF Inv, Progress
  <2>12. NonceInSequence' /\ TagNamesTheCause'
    BY <2>11 DEF NonceInSequence, TagNamesTheCause
  <2> QED BY <1>1, <2>7, <2>9, <2>10, <2>12 DEF Inv
<1> QED BY <1>2, <1>3

LEMMA ReturnKeeps ==
  ASSUME Inv, UNCHANGED <<nodeVars, params, torn>>, Return PROVE Inv'
<1>1. /\ NodeTyped' /\ Height' = Height /\ params' = params /\ torn' = torn
  BY NodeUnmoved
<1>2. /\ step = "run" /\ step' = "returned" /\ cause' = cause
      /\ block' = block /\ todo' = todo /\ cache' = cache /\ results' = results
  BY DEF Return
<1>3. Progress'
  BY <1>1, <1>2 DEF Inv, Progress
<1>4. TypeOK'
  BY <1>1, <1>2 DEF Inv, TypeOK, Steps
<1>5. cause' = "none"
  BY <1>2 DEF Inv, Progress
<1>6. NonceTracked' /\ NonceInSequence' /\ TagNamesTheCause'
  BY <1>2, <1>5 DEF NonceTracked, NonceInSequence, TagNamesTheCause
<1> QED BY <1>1, <1>3, <1>4, <1>6 DEF Inv

\* Every kind of failure is told by the tag the caller expects of it.
LEMMA KindsClassified ==
  \A kind \in FaultKinds :
    kind # "nonce" /\ ClassifyTransportError(ErrorChains[kind]) = TagOf(kind)
<1>1. ASSUME NEW t \in BOOLEAN, NEW c \in BOOLEAN, NEW text
      PROVE  ClassifyTransportError(Caused(<<Link(t, c)>>, text))
               = IF t \/ c THEN IF t THEN "timeout" ELSE "fork_error"
                 ELSE TagOfText(text)
  <2> DEFINE e == Caused(<<Link(t, c)>>, text)
             telling == {i \in {1} : t \/ c}
  <2>1. /\ DOMAIN e.links = {1} /\ e.links[1].timeout = t
        /\ e.links[1].connect = c /\ e.text = text
    BY DEF Caused, Link
  <2>2. telling = {i \in DOMAIN e.links : e.links[i].timeout \/ e.links[i].connect}
    BY <2>1
  <2>3. (t \/ c => telling = {1}) /\ (~(t \/ c) => telling = {})
    OBVIOUS
  <2> HIDE DEF telling, e
  <2>4. ClassifyTransportError(e)
          = IF telling # {}
            THEN IF e.links[CHOOSE i \in telling : \A j \in telling : i <= j].timeout
                 THEN "timeout" ELSE "fork_error"
            ELSE TagOfText(e.text)
    BY <2>2 DEF ClassifyTransportError
  <2>5. telling = {1} => (CHOOSE i \in telling : \A j \in telling : i <= j) = 1
    OBVIOUS
  <2>6. CASE t \/ c
    BY <2>1, <2>3, <2>4, <2>5, <2>6 DEF e
  <2>7. CASE ~(t \/ c)
    BY <2>1, <2>3, <2>4, <2>7 DEF e
  <2> QED BY <2>6, <2>7 DEF e
<1>2. ASSUME NEW text
      PROVE  ClassifyTransportError(Caused(<<>>, text)) = TagOfText(text)
  <2>1. Caused(<<>>, text).links = <<>> /\ Caused(<<>>, text).text = text
    BY DEF Caused
  <2>2. DOMAIN <<>> = {}
    OBVIOUS
  <2> QED BY <2>1, <2>2 DEF ClassifyTransportError
<1>3. /\ ErrorChains["deadline"] = Caused(<<Link(TRUE, FALSE)>>, "timed out")
      /\ ErrorChains["connect_deadline"] = Caused(<<Link(TRUE, TRUE)>>, "timed out")
      /\ ErrorChains["refused"] = Caused(<<Link(FALSE, TRUE)>>, "connect")
      /\ ErrorChains["reset"] = Caused(<<Link(FALSE, FALSE)>>, "connect")
      /\ ErrorChains["rpc_error"] = Caused(<<>>, "other")
      /\ ErrorChains["rpc_timed_out"] = Caused(<<>>, "timed out")
  BY DEF ErrorChains
<1>4. ClassifyTransportError(ErrorChains["deadline"]) = "timeout"
  BY <1>1, <1>3
<1>5. ClassifyTransportError(ErrorChains["connect_deadline"]) = "timeout"
  BY <1>1, <1>3
<1>6. ClassifyTransportError(ErrorChains["refused"]) = "fork_error"
  BY <1>1, <1>3
<1>7. ClassifyTransportError(ErrorChains["reset"]) = "fork_error"
  BY <1>1, <1>3 DEF TagOfText
<1>8. /\ ClassifyTransportError(ErrorChains["rpc_error"]) = "evm_error"
      /\ ClassifyTransportError(ErrorChains["rpc_timed_out"]) = "timeout"
  BY <1>2, <1>3 DEF TagOfText
<1>9. FaultKinds = {"deadline", "connect_deadline", "refused", "reset",
                   "rpc_error", "rpc_timed_out"}
  BY DEF FaultKinds, ErrorChains
<1> QED BY <1>3, <1>4, <1>5, <1>6, <1>7, <1>8, <1>9 DEF TagOf

LEMMA NifKeeps == Inv /\ Nif => Inv'
<1> SUFFICES ASSUME Inv, Nif PROVE Inv'
  OBVIOUS
<1>1. UNCHANGED <<nodeVars, params, torn>>
  BY DEF Nif
<1>2. CASE Start
  BY <1>1, <1>2, StartKeeps
<1>3. CASE GetBlock
  BY <1>1, <1>3, GetBlockKeeps
<1>4. CASE BlockNotFound
  <2>1. step # "returned" /\ FailWith("fork_error", "no_block")
    BY <1>4 DEF BlockNotFound
  <2> QED BY <1>1, <2>1, FailKeeps DEF TagOf
<1>5. CASE GetChainId
  BY <1>1, <1>5, GetChainIdKeeps
<1>6. ASSUME NEW a \in Accounts, ApplyOverride(a) PROVE Inv'
  BY <1>1, <1>6, ApplyOverrideKeeps
<1>7. CASE OverridesApplied
  BY <1>1, <1>7, OverridesAppliedKeeps
<1>8. CASE CurrentNonce
  BY <1>1, <1>8, CurrentNonceKeeps
<1>9. CASE Load
  BY <1>1, <1>9, LoadKeeps
<1>10. CASE NonceRejected
  BY <1>1, <1>10, NonceRejectedKeeps
<1>11. CASE Execute
  BY <1>1, <1>11, ExecuteKeeps
<1>12. CASE Return
  BY <1>1, <1>12, ReturnKeeps
<1>13. CASE RpcFails
  <2>1. step # "returned"
    BY <1>13 DEF RpcFails, Reading
  <2>2. PICK kind \in FaultKinds :
          FailWith(ClassifyTransportError(ErrorChains[kind]), kind)
    BY <1>13 DEF RpcFails
  <2>3. kind # "nonce" /\ ClassifyTransportError(ErrorChains[kind]) = TagOf(kind)
    BY KindsClassified
  <2> QED BY <1>1, <2>1, <2>2, <2>3, FailKeeps
<1> QED BY <1>2, <1>3, <1>4, <1>5, <1>6, <1>7, <1>8, <1>9, <1>10, <1>11,
           <1>12, <1>13 DEF Nif

\* The node's own steps disturb only what hangs on a pending block or on one
\* that is reorganised away.
LEMMA NodeKeeps == Inv /\ Node => Inv'
<1> SUFFICES ASSUME Inv, Node PROVE Inv'
  OBVIOUS
<1>1. /\ params' = params /\ step' = step /\ block' = block /\ header' = header
      /\ spec' = spec /\ todo' = todo /\ cache' = cache /\ base' = base
      /\ results' = results /\ answer' = answer /\ cause' = cause
  BY DEF Node, nifVars
<1>2. /\ NodeTyped' /\ Height \in Nat \ {0} /\ Height' \in Nat /\ Height' >= Height
  BY NodeMoves DEF Inv, Node
<1>3. torn' \in BOOLEAN /\ (torn' = FALSE => torn = FALSE) /\ (torn => torn')
  BY DEF Node, Inv, Progress
<1>4. Progress'
  BY <1>1, <1>3 DEF Inv, Progress, Overridden
<1>5. TypeOK'
  <2>1. block' \in (0..Height') \cup {Nil}
    BY <1>1, <1>2 DEF Inv, TypeOK
  <2>2. IsBatch' = IsBatch
    BY <1>1 DEF IsBatch
  <2> QED BY <1>1, <2>1, <2>2 DEF Inv, TypeOK, Steps
<1>6. NonceTracked'
  <2> SUFFICES ASSUME step = "run", IsBatch, block # Pending, torn' = FALSE,
                      base + Len(results) <= MaxNonce
               PROVE  SenderNonce' = base + Len(results)
    BY <1>1 DEF NonceTracked, IsBatch
  <2>1. SenderNonce = base + Len(results)
    BY <1>3 DEF Inv, NonceTracked
  <2>2. block \in 0..Height
    BY BlockRead
  <2>3. Mine \/ (Churn /\ block # Pending) \/ (Reorg /\ block # Height)
    BY DEF Node
  <2>4. MemoryAt(block)' = MemoryAt(block)
    BY <1>1, <2>2, <2>3, BlockKept DEF Inv
  <2> QED BY <1>1, <2>1, <2>4 DEF SenderNonce
<1>7. NonceInSequence' /\ TagNamesTheCause'
  BY <1>1, <1>3 DEF Inv, NonceInSequence, TagNamesTheCause
<1> QED BY <1>2, <1>4, <1>5, <1>6, <1>7 DEF Inv

LEMMA NextKeeps == Inv /\ [ForkNext]_forkVars => Inv'
<1> SUFFICES ASSUME Inv, [ForkNext]_forkVars PROVE Inv'
  OBVIOUS
<1>1. CASE UNCHANGED forkVars
  <2>1. /\ chain' = chain /\ pendingState' = pendingState /\ params' = params
        /\ step' = step /\ block' = block /\ header' = header /\ torn' = torn
        /\ spec' = spec /\ todo' = todo /\ cache' = cache /\ base' = base
        /\ results' = results /\ answer' = answer /\ cause' = cause
    BY <1>1 DEF forkVars, nifVars, nodeVars
  <2>2. NodeTyped' /\ Progress'
    BY <2>1 DEF Inv, NodeTyped, Progress, Overridden
  <2>3. TypeOK'
    BY <2>1 DEF Inv, TypeOK, Height, IsBatch
  <2>4. NonceTracked' /\ NonceInSequence' /\ TagNamesTheCause'
    BY <2>1 DEF Inv, NonceTracked, NonceInSequence, TagNamesTheCause, IsBatch,
                SenderNonce, MemoryAt
  <2> QED BY <2>2, <2>3, <2>4 DEF Inv
<1>2. CASE Nif
  BY <1>2, NifKeeps
<1>3. CASE Node
  BY <1>3, NodeKeeps
<1> QED BY <1>1, <1>2, <1>3 DEF ForkNext, Done

LEMMA SpecInv == ForkSpec => []Inv
BY InitInv, NextKeeps, PTL DEF ForkSpec

-----------------------------------------------------------------------------

\* Types, and what is cached is what an account can hold.
THEOREM EvmForkTypeOK == ForkSpec => []TypeOK
<1>1. Inv => TypeOK
  BY DEF Inv
<1> QED BY <1>1, SpecInv, PTL

\* A batch is numbered as the EVM counts, whatever its calls do.
THEOREM EvmForkNonceInSequence == ForkSpec => []NonceInSequence
<1>1. Inv => NonceInSequence
  BY DEF Inv
<1> QED BY <1>1, SpecInv, PTL

\* The tag of a failure tells the caller what happened.
THEOREM EvmForkTagNamesTheCause == ForkSpec => []TagNamesTheCause
<1>1. Inv => TagNamesTheCause
  BY DEF Inv
<1> QED BY <1>1, SpecInv, PTL

-----------------------------------------------------------------------------
(* A call runs as if on a copy of the block                                *)

\* An account and a slot as a call that runs now would see them.
InfoSeen(a) ==
  IF cache.info[a] # Nil THEN cache.info[a]
  ELSE IF a \in todo THEN Merged(MemoryAt(block).info[a], params.overrides[a])
  ELSE MemoryAt(block).info[a]

SlotSeen(a) ==
  IF cache.slot[a] # Nil THEN cache.slot[a]
  ELSE IF a \in todo /\ params.overrides[a].slot # Nil
       THEN params.overrides[a].slot
  ELSE MemoryAt(block).slot[a]

LEMMA ViewSeen ==
  block # Nil => View = [info |-> [a \in Accounts |-> InfoSeen(a)],
                          slot |-> [a \in Accounts |-> SlotSeen(a)]]
BY DEF View, InfoSeen, SlotSeen

LEMMA ViewSeenNext ==
  block' # Nil => View' = [info |-> [a \in Accounts |-> InfoSeen(a)'],
                            slot |-> [a \in Accounts |-> SlotSeen(a)']]
BY DEF View, InfoSeen, SlotSeen

LEMMA ViewKept ==
  ASSUME block' = block,
         block # Nil => \A a \in Accounts : /\ InfoSeen(a)' = InfoSeen(a)
                                             /\ SlotSeen(a)' = SlotSeen(a)
  PROVE  View' = View
<1>1. CASE block = Nil
  BY <1>1 DEF View
<1>2. CASE block # Nil
  BY <1>2, ViewSeen, ViewSeenNext
<1> QED BY <1>1, <1>2

\* If nothing it is made of moves, the view stays.
LEMMA ViewUnmoved ==
  ASSUME block' = block, cache' = cache, todo' = todo, params' = params,
         block # Nil => MemoryAt(block)' = MemoryAt(block)
  PROVE  View' = View
<1>1. ASSUME block # Nil, NEW a \in Accounts
      PROVE  InfoSeen(a)' = InfoSeen(a) /\ SlotSeen(a)' = SlotSeen(a)
  <2>1. MemoryAt(block)' = MemoryAt(block)
    BY <1>1
  <2> QED BY <2>1 DEF InfoSeen, SlotSeen
<1> QED BY <1>1, ViewKept

LEMMA ViewTyped ==
  ASSUME Inv, block # Nil PROVE View \in Memories
<1>1. block \in 0..Height
  BY DEF Inv, TypeOK
<1>2. MemoryAt(block) \in Memories
  BY <1>1, BlockTyped DEF Inv
<1>3. ASSUME NEW a \in Accounts PROVE InfoSeen(a) \in Infos /\ SlotSeen(a) \in Words
  <2>1. MemoryAt(block).info[a] \in Infos /\ MemoryAt(block).slot[a] \in Words
    BY <1>2 DEF Memories
  <2>2. params.overrides[a] \in [nonce : Nonces \cup {Nil}, code : Codes \cup {Nil},
                                  slot : Words \cup {Nil}]
    BY RequestTyped DEF Inv
  <2>3. Merged(MemoryAt(block).info[a], params.overrides[a]) \in Infos
    BY <2>1, <2>2, MergedTyped
  <2>4. params.overrides[a].slot \in Words \cup {Nil}
    BY <2>2
  <2> QED BY <2>1, <2>3, <2>4, CacheTyped DEF InfoSeen, SlotSeen
<1> QED BY <1>3, ViewSeen DEF Memories

LEMMA ViewTypedNext == Inv' => (block # Nil => View \in Memories)'
<1>1. Inv => (block # Nil => View \in Memories)
  BY ViewTyped
<1> QED BY <1>1, PTL

\* A step that shows nowhere.
LEMMA Stutters ==
  ASSUME UNCHANGED nodeVars, params' = params, block' = block, header' = header,
         results' = results, answer' = answer, View' = View
  PROVE  UNCHANGED Sim!absVars
BY DEF Sim!absVars, Sim!nodeVars, nodeVars

LEMMA InitRefines == ForkInit => Sim!Init
<1> SUFFICES ASSUME ForkInit PROVE Sim!Init
  OBVIOUS
<1>1. View = Nil
  BY DEF ForkInit, View
<1> QED BY <1>1 DEF ForkInit, NodeInit, Sim!Init, Sim!NodeInit

\* A failure of the NIF is one the abstract call may have.
LEMMA FailRefines ==
  ASSUME Inv, UNCHANGED <<nodeVars, params, torn>>, step # "returned",
         NEW tag \in {"evm_error", "fork_error", "timeout"}, NEW why,
         FailWith(tag, why)
  PROVE  Sim!Fail
<1>1. /\ block' = block /\ header' = header /\ todo' = todo /\ cache' = cache
      /\ results' = results /\ answer' = [tag |-> tag, results |-> <<>>]
  BY DEF FailWith
<1>2. answer = Nil
  BY DEF Inv, Progress
<1>3. UNCHANGED nodeVars /\ params' = params
      /\ chain' = chain /\ pendingState' = pendingState
  BY DEF nodeVars
<1>4. View' = View
  <2>1. MemoryAt(block)' = MemoryAt(block)
    BY <1>1, <1>3 DEF MemoryAt
  <2> QED BY <1>1, <1>3, <2>1, ViewUnmoved
<1> QED BY <1>1, <1>2, <1>3, <1>4 DEF Sim!Fail, Sim!nodeVars, nodeVars

LEMMA StartRefines ==
  ASSUME Inv, UNCHANGED <<nodeVars, params, torn>>, Start
  PROVE  Sim!Return \/ UNCHANGED Sim!absVars
<1>1. /\ step = "start" /\ block' = block /\ header' = header /\ todo' = todo
      /\ cache' = cache /\ results' = results
  BY DEF Start
<1>2. block = Nil /\ answer = Nil /\ results = <<>>
  BY <1>1 DEF Inv, Progress
<1>3. View' = View
  BY <1>1, <1>2 DEF View
<1>4. CASE IsBatch /\ params.calls = <<>>
  <2>1. answer' = [tag |-> "ok", results |-> <<>>]
    BY <1>4 DEF Start
  <2>2. answer' \in Sim!Replies(params, results)
    BY <1>2, <1>4, <2>1 DEF Sim!Replies, IsBatch
  <2>3. Len(results) = Len(params.calls)
    BY <1>2, <1>4
  <2> QED BY <1>1, <1>2, <1>3, <2>2, <2>3 DEF Sim!Return, Sim!nodeVars, nodeVars
<1>5. CASE ~(IsBatch /\ params.calls = <<>>)
  <2>1. answer' = answer
    BY <1>5 DEF Start
  <2> QED BY <1>1, <1>3, <2>1, Stutters
<1> QED BY <1>4, <1>5

\* Both modules mean the same node.
LEMMA SameNode ==
  /\ Sim!Height = Height /\ Sim!Pending = Pending
  /\ \A b : Sim!HeaderAt(b) = HeaderAt(b) /\ Sim!MemoryAt(b) = MemoryAt(b)
  /\ Sim!Named(params) = Named
<1>1. Sim!Height = Height /\ Sim!Pending = Pending
  BY DEF Sim!Height, Height, Sim!Pending, Pending
<1>2. \A b : Sim!HeaderAt(b) = HeaderAt(b) /\ Sim!MemoryAt(b) = MemoryAt(b)
  BY <1>1 DEF Sim!HeaderAt, HeaderAt, Sim!MemoryAt, MemoryAt
<1>3. Sim!Finalized = Finalized
  BY <1>1 DEF Sim!Finalized, Finalized
<1>4. Sim!Named(params) = Named
  BY <1>1, <1>3 DEF Sim!Named, Named
<1> QED BY <1>1, <1>2, <1>4

\* What get_block answers with is copied then, although it is read later.
LEMMA GetBlockRefines ==
  ASSUME Inv, UNCHANGED <<nodeVars, params, torn>>, GetBlock
  PROVE  Sim!CopyBlock
<1>1. /\ step = "block" /\ todo' = todo /\ cache' = cache
      /\ results' = results /\ answer' = answer
  BY DEF GetBlock, Unfailed
<1>2. /\ block = Nil /\ answer = Nil /\ cache = NothingRead /\ todo = Overridden
  BY <1>1 DEF Inv, Progress
<1>3. PICK b \in Named : /\ block' = b /\ header' = HeaderAt(b)
                         /\ b \in 0..Height /\ b # Nil
  BY GetBlockPins
<1>4. UNCHANGED nodeVars /\ params' = params
      /\ chain' = chain /\ pendingState' = pendingState
  BY DEF nodeVars
<1>5. MemoryAt(block)' = MemoryAt(b)
  BY <1>3, <1>4 DEF MemoryAt
<1>6. MemoryAt(b) \in Memories
  BY <1>3, BlockTyped DEF Inv
<1>7. ASSUME NEW a \in Accounts
      PROVE  /\ InfoSeen(a)' = Sim!Laid(MemoryAt(b).info[a], params.overrides[a])
             /\ SlotSeen(a)' = IF params.overrides[a].slot = Nil
                               THEN MemoryAt(b).slot[a] ELSE params.overrides[a].slot
  <2>1. cache'.info[a] = Nil /\ cache'.slot[a] = Nil
    BY <1>1, <1>2 DEF NothingRead
  <2>2. CASE a \in todo
    <3>1. InfoSeen(a)' = Merged(MemoryAt(b).info[a], params.overrides[a])
      BY <1>1, <1>4, <1>5, <2>1, <2>2 DEF InfoSeen
    <3>2. SlotSeen(a)' = IF params.overrides[a].slot = Nil
                         THEN MemoryAt(b).slot[a] ELSE params.overrides[a].slot
      BY <1>1, <1>4, <1>5, <2>1, <2>2 DEF SlotSeen
    <3> QED BY <3>1, <3>2 DEF Merged, Sim!Laid
  <2>3. CASE a \notin todo
    <3>1. params.overrides[a] = NoOverride
      BY <1>2, <2>3 DEF Overridden
    <3>2. /\ params.overrides[a].nonce = Nil /\ params.overrides[a].code = Nil
          /\ params.overrides[a].slot = Nil
      BY <3>1 DEF NoOverride
    <3>3. InfoSeen(a)' = MemoryAt(b).info[a] /\ SlotSeen(a)' = MemoryAt(b).slot[a]
      BY <1>1, <1>4, <1>5, <2>1, <2>3 DEF InfoSeen, SlotSeen
    <3>4. MemoryAt(b).info[a] \in Infos
      BY <1>6 DEF Memories
    <3>5. Sim!Laid(MemoryAt(b).info[a], params.overrides[a]) = MemoryAt(b).info[a]
      BY <3>2, <3>4 DEF Sim!Laid, Infos
    <3> QED BY <3>2, <3>3, <3>5
  <2> QED BY <2>2, <2>3
<1>8. View' = Sim!Over(MemoryAt(b), params.overrides)
  BY <1>3, <1>7, ViewSeenNext DEF Sim!Over
<1>9. b \in Sim!Named(params) /\ header' = Sim!HeaderAt(b)
      /\ View' = Sim!Over(Sim!MemoryAt(b), params.overrides)
  BY <1>3, <1>8, SameNode
<1> QED BY <1>1, <1>2, <1>3, <1>4, <1>9 DEF Sim!CopyBlock, Sim!nodeVars, nodeVars

LEMMA GetChainIdRefines ==
  ASSUME Inv, UNCHANGED <<nodeVars, params, torn>>, GetChainId
  PROVE  Sim!Fail \/ UNCHANGED Sim!absVars
<1> DEFINE resolved == ResolveForkSpecId(params.spec, params.chainId, header)
<1>1. CASE resolved = Nil
  <2>1. step # "returned" /\ FailWith("fork_error", "no_schedule")
    BY <1>1 DEF GetChainId
  <2> QED BY <2>1, FailRefines
<1>2. CASE resolved # Nil
  <2>1. /\ block' = block /\ header' = header /\ todo' = todo /\ cache' = cache
        /\ results' = results /\ answer' = answer
    BY <1>2 DEF GetChainId, Unfailed
  <2>2. UNCHANGED nodeVars /\ params' = params
        /\ chain' = chain /\ pendingState' = pendingState
    BY DEF nodeVars
  <2>3. MemoryAt(block)' = MemoryAt(block)
    BY <2>1, <2>2 DEF MemoryAt
  <2>4. View' = View
    BY <2>1, <2>2, <2>3, ViewUnmoved
  <2> QED BY <2>1, <2>2, <2>4, Stutters
<1> QED BY <1>1, <1>2

\* An override that is applied was already seen laid over the block.
LEMMA ApplyOverrideRefines ==
  ASSUME Inv, UNCHANGED <<nodeVars, params, torn>>,
         NEW a \in Accounts, ApplyOverride(a)
  PROVE  UNCHANGED Sim!absVars
<1> DEFINE o == params.overrides[a]
           merged == Merged(MemoryAt(block).info[a], o)
<1>1. /\ step = "overrides" /\ a \in todo /\ todo' = todo \ {a}
      /\ block' = block /\ header' = header
      /\ results' = results /\ answer' = answer
      /\ cache' = [info |-> [cache.info EXCEPT ![a] = merged],
                   slot |-> [cache.slot EXCEPT ![a] = o.slot]]
  BY DEF ApplyOverride, Unfailed
<1>2. UNCHANGED nodeVars /\ params' = params
      /\ chain' = chain /\ pendingState' = pendingState
  BY DEF nodeVars
<1>3. MemoryAt(block)' = MemoryAt(block)
  BY <1>1, <1>2 DEF MemoryAt
<1>4. /\ cache.info \in [Accounts -> Infos \cup {Nil}]
      /\ cache.slot \in [Accounts -> Words \cup {Nil}]
      /\ cache.info[a] = Nil /\ cache.slot[a] = Nil
  BY <1>1 DEF Inv, TypeOK
<1>5. merged \in Infos /\ merged # Nil
  BY <1>1, BlockRead, RequestTyped, MergedTyped, NilIsNothing DEF Inv
<1>6. /\ InfoSeen(a) = merged
      /\ SlotSeen(a) = IF o.slot # Nil THEN o.slot ELSE MemoryAt(block).slot[a]
  BY <1>1, <1>4 DEF InfoSeen, SlotSeen
<1> HIDE DEF o, merged
<1>7. InfoSeen(a)' = merged
  BY <1>1, <1>4, <1>5 DEF InfoSeen
<1>8. SlotSeen(a)' = IF o.slot # Nil THEN o.slot ELSE MemoryAt(block).slot[a]
  BY <1>1, <1>3, <1>4 DEF SlotSeen
<1>9. ASSUME NEW b \in Accounts, b # a
      PROVE  InfoSeen(b)' = InfoSeen(b) /\ SlotSeen(b)' = SlotSeen(b)
  <2>1. cache'.info[b] = cache.info[b] /\ cache'.slot[b] = cache.slot[b]
    BY <1>1, <1>4, <1>9
  <2>2. b \in todo' <=> b \in todo
    BY <1>1, <1>9
  <2> QED BY <1>2, <1>3, <2>1, <2>2 DEF InfoSeen, SlotSeen
<1>10. View' = View
  BY <1>1, <1>6, <1>7, <1>8, <1>9, ViewKept
<1> QED BY <1>1, <1>2, <1>10, Stutters

LEMMA OverridesAppliedRefines ==
  ASSUME Inv, UNCHANGED <<nodeVars, params, torn>>,
         OverridesApplied \/ CurrentNonce
  PROVE  UNCHANGED Sim!absVars
<1>1. /\ block' = block /\ header' = header /\ todo' = todo /\ cache' = cache
      /\ results' = results /\ answer' = answer
  BY DEF OverridesApplied, CurrentNonce, Unfailed
<1>2. UNCHANGED nodeVars /\ params' = params
      /\ chain' = chain /\ pendingState' = pendingState
  BY DEF nodeVars
<1>3. MemoryAt(block)' = MemoryAt(block)
  BY <1>1, <1>2 DEF MemoryAt
<1>4. View' = View
  BY <1>1, <1>2, <1>3, ViewUnmoved
<1> QED BY <1>1, <1>2, <1>4, Stutters

\* What is loaded was seen already.
LEMMA LoadRefines ==
  ASSUME Inv, UNCHANGED <<nodeVars, params, torn>>, Load
  PROVE  UNCHANGED Sim!absVars
<1>1. /\ step = "run" /\ block' = block /\ header' = header /\ todo' = todo
      /\ results' = results /\ answer' = answer
  BY DEF Load, Unfailed
<1>2. UNCHANGED nodeVars /\ params' = params
      /\ chain' = chain /\ pendingState' = pendingState
  BY DEF nodeVars
<1>3. MemoryAt(block)' = MemoryAt(block)
  BY <1>1, <1>2 DEF MemoryAt
<1>4. PICK a \in Accounts :
        \/ /\ cache.info[a] = Nil
           /\ cache' = [info |-> [cache.info EXCEPT ![a] = MemoryAt(block).info[a]],
                        slot |-> cache.slot]
        \/ /\ cache.slot[a] = Nil
           /\ cache' = [info |-> cache.info,
                        slot |-> [cache.slot EXCEPT ![a] = MemoryAt(block).slot[a]]]
  BY LoadFills
<1>5. /\ cache.info \in [Accounts -> Infos \cup {Nil}]
      /\ cache.slot \in [Accounts -> Words \cup {Nil}] /\ todo = {}
  BY <1>1, CacheTyped, RunTyped
<1>6. ASSUME NEW b \in Accounts
      PROVE  /\ cache'.info[b] = cache.info[b]
                  \/ (cache.info[b] = Nil /\ cache'.info[b] = MemoryAt(block).info[b])
             /\ cache'.slot[b] = cache.slot[b]
                  \/ (cache.slot[b] = Nil /\ cache'.slot[b] = MemoryAt(block).slot[b])
  BY <1>4, <1>5
<1>7. ASSUME NEW b \in Accounts
      PROVE  InfoSeen(b)' = InfoSeen(b) /\ SlotSeen(b)' = SlotSeen(b)
  <2>1. InfoSeen(b)' = InfoSeen(b)
    BY <1>1, <1>3, <1>5, <1>6 DEF InfoSeen
  <2>2. SlotSeen(b)' = SlotSeen(b)
    BY <1>1, <1>3, <1>5, <1>6 DEF SlotSeen
  <2> QED BY <2>1, <2>2
<1>8. View' = View
  BY <1>1, <1>7, ViewKept
<1> QED BY <1>1, <1>2, <1>8, Stutters

\* The evaluation and the commit of a call, in the cache and in the view.
LEMMA ExecuteRefines ==
  ASSUME Inv, UNCHANGED <<nodeVars, params, torn>>, Execute
  PROVE  Sim!Call \/ Sim!Fail
<1> DEFINE status == Status(cache.info[To].code)
           from == params.from
<1>1. CASE status = "halt"
  <2>1. step # "returned" /\ FailWith("evm_error", "halt")
    BY <1>1 DEF Execute
  <2> QED BY <2>1, FailRefines
<1>2. CASE status # "halt"
  <2>1. /\ step = "run" /\ More /\ block' = block /\ header' = header /\ todo' = todo
        /\ answer' = answer
        /\ results' = Append(results, [success |-> status = "success",
                                       output |-> Output(cache, To, spec)])
        /\ cache' = IF IsBatch THEN Committed(cache, from, To) ELSE cache
    BY <1>2 DEF Execute, Unfailed
  <2>2. UNCHANGED nodeVars /\ params' = params
        /\ chain' = chain /\ pendingState' = pendingState
    BY DEF nodeVars
  <2>3. MemoryAt(block)' = MemoryAt(block)
    BY <2>1, <2>2 DEF MemoryAt
  <2>4. /\ from \in Accounts /\ To \in Accounts
        /\ cache.info[from] \in Infos /\ cache.info[To] \in Infos
        /\ ReadsSlot(cache.info[To].code) => cache.slot[To] \in Words
        /\ cache.info[To].code = "bump" => cache.slot[To] \in Words
        /\ Len(results) < Len(params.calls)
    BY ExecuteReads
  <2>5. /\ cache.info \in [Accounts -> Infos \cup {Nil}]
        /\ cache.slot \in [Accounts -> Words \cup {Nil}]
    BY CacheTyped
  <2>6. answer = Nil /\ block # Nil /\ todo = {}
        /\ spec = ResolveForkSpecId(params.spec, params.chainId, header)
    BY <2>1, RunTyped DEF Inv, Progress
  <2>7. /\ View = [info |-> [a \in Accounts |-> InfoSeen(a)],
                   slot |-> [a \in Accounts |-> SlotSeen(a)]]
        /\ View' = [info |-> [a \in Accounts |-> InfoSeen(a)'],
                    slot |-> [a \in Accounts |-> SlotSeen(a)']]
    BY <2>1, <2>6, ViewSeen, ViewSeenNext
  <2>8. /\ View.info[To] = cache.info[To] /\ View.info[from] = cache.info[from]
        /\ ReadsSlot(cache.info[To].code) => View.slot[To] = cache.slot[To]
    <3>1. InfoSeen(To) = cache.info[To] /\ InfoSeen(from) = cache.info[from]
      BY <2>4, NilIsNothing DEF InfoSeen
    <3>2. Nil \notin Words
      BY NilIsNothing, NoncesAndWords DEF Words
    <3>3. ReadsSlot(cache.info[To].code) => SlotSeen(To) = cache.slot[To]
      BY <2>4, <3>2 DEF SlotSeen
    <3> QED BY <2>4, <2>7, <3>1, <3>3
  <2> DEFINE revision == ResolveForkSpecId(params.spec, params.chainId, header)
  <2>9. Sim!Revision = revision
    BY DEF Sim!Revision, ResolveForkSpecId, Sim!ResolveForkSpecId, SpecIdForFork,
           Sim!SpecIdForFork, SpecFromSchedule, Sim!SpecFromSchedule, Active,
           Sim!Active, Mainnet, Sim!Mainnet, OpMainnet, Sim!OpMainnet, BaseMainnet,
           Sim!BaseMainnet, Revisions, Sim!Revisions
  <2> HIDE DEF revision
  <2>10. Sim!Result(View, To, revision)
           = [success |-> status = "success", output |-> Output(cache, To, spec)]
    <3>1. Sim!Status(View.info[To].code) = status
      BY <2>8 DEF Sim!Status, Status
    <3>2. Sim!Output(View, To, revision) = Output(cache, To, spec)
      <4>1. spec = revision
        BY <2>6 DEF revision
      <4>2. CASE ~ReadsSlot(cache.info[To].code)
        BY <2>8, <4>1, <4>2 DEF Sim!Output, Output, Sim!ReadsSlot, ReadsSlot
      <4>3. CASE ReadsSlot(cache.info[To].code)
        BY <2>8, <4>1, <4>3
           DEF Sim!Output, Output, Sim!ReadsSlot, ReadsSlot, Sim!Next1, Next1
      <4> QED BY <4>2, <4>3
    <3> QED BY <3>1, <3>2 DEF Sim!Result
  <2>11. View' = IF params.op = "batch"
                 THEN Sim!Committed(View, from, To) ELSE View
    <3>1. CASE ~IsBatch
      <4>1. cache' = cache
        BY <2>1, <3>1
      <4> QED BY <2>1, <2>2, <2>3, <3>1, <4>1, ViewUnmoved DEF IsBatch
    <3>2. CASE IsBatch
      <4> DEFINE new == Committed(cache, from, To)
                 seen == Sim!Committed(View, from, To)
      <4>1. cache' = new
        BY <2>1, <3>2
      <4>2. /\ new.info = [cache.info EXCEPT ![from] = new.info[from]]
            /\ new.info[from] \in Infos
            /\ new.slot = IF cache.info[To].code = "bump"
                          THEN [cache.slot EXCEPT ![To] = Next1(cache.slot[To], MaxWord)]
                          ELSE cache.slot
            /\ cache.info[To].code = "bump" => Next1(cache.slot[To], MaxWord) \in Words
        <5> HIDE DEF from
        <5> QED BY <2>4, <2>5, CommittedTyped
      <4>3. new.info[from] = [cache.info[from] EXCEPT !.nonce = BumpNonce(cache.info[from].nonce)]
        BY <2>4, <2>5 DEF Committed
      <4>4. seen = [info |-> [View.info EXCEPT ![from] =
                                [View.info[from] EXCEPT !.nonce = BumpNonce(View.info[from].nonce)]],
                    slot |-> IF View.info[To].code = "bump"
                             THEN [View.slot EXCEPT ![To] = Next1(View.slot[To], MaxWord)]
                             ELSE View.slot]
        BY DEF Sim!Committed, Sim!BumpNonce, BumpNonce, Sim!Next1, Next1
      <4>5. /\ View.info = [a \in Accounts |-> InfoSeen(a)]
            /\ View.slot = [a \in Accounts |-> SlotSeen(a)]
        BY <2>7
      <4> HIDE DEF new, from, seen
      <4>6. ASSUME NEW a \in Accounts
            PROVE  InfoSeen(a)' = IF a = from THEN new.info[from] ELSE InfoSeen(a)
        <5>1. CASE a = from
          BY <2>4, <2>5, <4>1, <4>2, <5>1, NilIsNothing DEF InfoSeen
        <5>2. CASE a # from
          <6>1. cache'.info[a] = cache.info[a]
            BY <2>4, <2>5, <4>1, <4>2, <5>2
          <6> QED BY <2>1, <2>2, <2>3, <5>2, <6>1 DEF InfoSeen
        <5> QED BY <5>1, <5>2
      <4>7. ASSUME NEW a \in Accounts
            PROVE  SlotSeen(a)' = IF cache.info[To].code = "bump" /\ a = To
                                  THEN Next1(cache.slot[To], MaxWord) ELSE SlotSeen(a)
        <5>1. CASE cache.info[To].code = "bump" /\ a = To
          <6>1. cache'.slot[a] = Next1(cache.slot[To], MaxWord)
            BY <2>4, <2>5, <4>1, <4>2, <5>1
          <6>2. cache'.slot[a] # Nil
            BY <4>2, <5>1, <6>1, NilIsNothing, NoncesAndWords DEF Words
          <6> QED BY <5>1, <6>1, <6>2 DEF SlotSeen
        <5>2. CASE ~(cache.info[To].code = "bump" /\ a = To)
          <6>1. cache'.slot[a] = cache.slot[a]
            BY <2>4, <2>5, <4>1, <4>2, <5>2
          <6> QED BY <2>1, <2>2, <2>3, <5>2, <6>1 DEF SlotSeen
        <5> QED BY <5>1, <5>2
      <4>8. ReadsSlot("bump")
        BY DEF ReadsSlot
      <4>9. /\ View'.info = [a \in Accounts |-> InfoSeen(a)']
            /\ View'.slot = [a \in Accounts |-> SlotSeen(a)']
            /\ View' = [info |-> View'.info, slot |-> View'.slot]
        BY <2>7
      <4>10. View'.info = [View.info EXCEPT ![from] = new.info[from]]
        BY <2>4, <4>5, <4>6, <4>9
      <4>11. View'.slot = IF cache.info[To].code = "bump"
                          THEN [View.slot EXCEPT ![To] = Next1(cache.slot[To], MaxWord)]
                          ELSE View.slot
        BY <2>4, <4>5, <4>7, <4>9
      <4>12. seen = [info |-> [View.info EXCEPT ![from] = new.info[from]],
                     slot |-> IF cache.info[To].code = "bump"
                              THEN [View.slot EXCEPT ![To] = Next1(cache.slot[To], MaxWord)]
                              ELSE View.slot]
        <5>1. View.info[To] = cache.info[To] /\ View.info[from] = cache.info[from]
          BY <2>8 DEF from
        <5>2. cache.info[To].code = "bump" => View.slot[To] = cache.slot[To]
          BY <2>8, <4>8
        <5> QED BY <4>3, <4>4, <5>1, <5>2
      <4>13. View' = seen
        BY <4>9, <4>10, <4>11, <4>12
      <4> QED BY <3>2, <4>13 DEF seen, IsBatch
    <3> QED BY <3>1, <3>2
  <2>12. To = params.calls[Len(results) + 1]
    BY DEF To
  <2>13. Sim!Status(View.info[To].code) # "halt"
    BY <1>2, <2>8 DEF Sim!Status, Status
  <2> QED BY <2>1, <2>2, <2>4, <2>6, <2>9, <2>10, <2>11, <2>12, <2>13
          DEF Sim!Call, Sim!nodeVars, nodeVars
<1> QED BY <1>1, <1>2

LEMMA ReturnRefines ==
  ASSUME Inv, UNCHANGED <<nodeVars, params, torn>>, Return
  PROVE  Sim!Return
<1>1. /\ step = "run" /\ ~More /\ answer' = Reply(params, results)
      /\ block' = block /\ header' = header /\ todo' = todo /\ cache' = cache
      /\ results' = results
  BY DEF Return
<1>2. UNCHANGED nodeVars /\ params' = params
      /\ chain' = chain /\ pendingState' = pendingState
  BY DEF nodeVars
<1>3. MemoryAt(block)' = MemoryAt(block)
  BY <1>1, <1>2 DEF MemoryAt
<1>4. View' = View
  BY <1>1, <1>2, <1>3, ViewUnmoved
<1>5. Len(results) = Len(params.calls)
  BY <1>1, RunTyped DEF More
<1>6. answer = Nil
  BY <1>1 DEF Inv, Progress
<1>7. answer' \in Sim!Replies(params, results)
  BY <1>1 DEF Reply, Sim!Replies
<1> QED BY <1>1, <1>2, <1>4, <1>5, <1>6, <1>7 DEF Sim!Return, Sim!nodeVars, nodeVars

LEMMA NifRefines == Inv /\ Nif => [Sim!Next]_(Sim!absVars)
<1> SUFFICES ASSUME Inv, Nif
             PROVE  \/ Sim!CopyBlock \/ Sim!Call \/ Sim!Return \/ Sim!Fail
                    \/ UNCHANGED Sim!absVars
  BY DEF Sim!Next
<1>1. UNCHANGED <<nodeVars, params, torn>>
  BY DEF Nif
<1>2. CASE Start
  BY <1>1, <1>2, StartRefines
<1>3. CASE GetBlock
  BY <1>1, <1>3, GetBlockRefines
<1>4. CASE BlockNotFound
  <2>1. step # "returned" /\ FailWith("fork_error", "no_block")
    BY <1>4 DEF BlockNotFound
  <2> QED BY <1>1, <2>1, FailRefines
<1>5. CASE GetChainId
  BY <1>1, <1>5, GetChainIdRefines
<1>6. ASSUME NEW a \in Accounts, ApplyOverride(a) PROVE UNCHANGED Sim!absVars
  BY <1>1, <1>6, ApplyOverrideRefines
<1>7. CASE OverridesApplied \/ CurrentNonce
  BY <1>1, <1>7, OverridesAppliedRefines
<1>8. CASE Load
  BY <1>1, <1>8, LoadRefines
<1>9. CASE NonceRejected
  <2>1. step # "returned" /\ \E why : FailWith("evm_error", why)
    BY <1>9 DEF NonceRejected
  <2> QED BY <1>1, <2>1, FailRefines
<1>10. CASE Execute
  BY <1>1, <1>10, ExecuteRefines
<1>11. CASE Return
  BY <1>1, <1>11, ReturnRefines
<1>12. CASE RpcFails
  <2>1. step # "returned"
    BY <1>12 DEF RpcFails, Reading
  <2>2. PICK kind \in FaultKinds :
          FailWith(ClassifyTransportError(ErrorChains[kind]), kind)
    BY <1>12 DEF RpcFails
  <2>3. ClassifyTransportError(ErrorChains[kind]) \in {"evm_error", "fork_error", "timeout"}
    BY KindsClassified DEF TagOf
  <2> QED BY <1>1, <2>1, <2>2, <2>3, FailRefines
<1> QED BY <1>2, <1>3, <1>4, <1>5, <1>6, <1>7, <1>8, <1>9, <1>10, <1>11, <1>12
        DEF Nif

\* The node changes the view only where the copy is said to drift.
LEMMA NodeRefines == Inv /\ Node => Sim!Node
<1> SUFFICES ASSUME Inv, Node PROVE Sim!Node
  OBVIOUS
<1>1. /\ params' = params /\ block' = block /\ header' = header /\ todo' = todo
      /\ cache' = cache /\ results' = results /\ answer' = answer
  BY DEF Node, nifVars
<1>2. block # Nil => block \in 0..Height
  BY DEF Inv, TypeOK
<1>3. ASSUME Mine \/ (Churn /\ block # Pending) \/ (Reorg /\ block # Height)
      PROVE  View' = View
  <2>1. block # Nil => MemoryAt(block)' = MemoryAt(block)
    BY <1>1, <1>2, <1>3, BlockKept DEF Inv
  <2> QED BY <1>1, <2>1, ViewUnmoved
<1>4. block # Nil => View' \in Memories
  <2>1. Inv'
    BY NodeKeeps
  <2>2. Inv' => (block # Nil => View \in Memories)'
    BY ViewTypedNext
  <2> QED BY <1>1, <2>1, <2>2
<1>5. Sim!Mine <=> Mine
  BY SameNode DEF Sim!Mine, Mine, Sim!Height, Height
<1>6. Sim!Churn <=> Churn
  BY DEF Sim!Churn, Churn, Sim!BumpNonce, BumpNonce, Sim!Next1, Next1
<1>7. Sim!Reorg <=> Reorg
  BY SameNode DEF Sim!Reorg, Reorg
<1>8. Sim!Memories = Memories
  BY DEF Sim!Memories, Memories, Sim!Infos, Infos, Sim!Words, Words, Sim!Nonces,
         Nonces, Sim!Codes, Codes
<1>9. CASE Mine
  BY <1>1, <1>3, <1>5, <1>9 DEF Sim!Node
<1>10. CASE Churn
  <2>1. Sim!Drift(block = Sim!Pending)
    <3>1. CASE block = Pending
      <4>1. block # Nil
        BY <3>1, NilIsNothing DEF Pending
      <4> QED BY <1>4, <1>8, <3>1, <4>1, SameNode DEF Sim!Drift
    <3>2. CASE block # Pending
      BY <1>3, <1>10, <3>2, SameNode DEF Sim!Drift
    <3> QED BY <3>1, <3>2
  <2> QED BY <1>1, <1>6, <1>10, <2>1 DEF Sim!Node
<1>11. CASE Reorg
  <2>1. Sim!Drift(block = Sim!Height)
    <3>1. CASE block = Height
      <4>1. block # Nil
        BY <3>1, NilIsNothing, HeightIsPositive DEF Inv
      <4> QED BY <1>4, <1>8, <3>1, <4>1, SameNode DEF Sim!Drift
    <3>2. CASE block # Height
      BY <1>3, <1>11, <3>2, SameNode DEF Sim!Drift
    <3> QED BY <3>1, <3>2
  <2> QED BY <1>1, <1>7, <1>11, <2>1 DEF Sim!Node
<1> QED BY <1>9, <1>10, <1>11 DEF Node

LEMMA NextRefines == Inv /\ [ForkNext]_forkVars => [Sim!Next]_(Sim!absVars)
<1> SUFFICES ASSUME Inv, [ForkNext]_forkVars PROVE [Sim!Next]_(Sim!absVars)
  OBVIOUS
<1>1. CASE UNCHANGED forkVars
  <2>1. /\ UNCHANGED nodeVars /\ chain' = chain /\ pendingState' = pendingState
        /\ params' = params /\ block' = block /\ header' = header
        /\ todo' = todo /\ cache' = cache /\ results' = results /\ answer' = answer
    BY <1>1 DEF forkVars, nifVars, nodeVars
  <2>2. MemoryAt(block)' = MemoryAt(block)
    BY <2>1 DEF MemoryAt
  <2>3. View' = View
    BY <2>1, <2>2, ViewUnmoved
  <2> QED BY <2>1, <2>3, Stutters
<1>2. CASE Nif
  BY <1>2, NifRefines
<1>3. CASE Node
  BY <1>3, NodeRefines DEF Sim!Next
<1> QED BY <1>1, <1>2, <1>3 DEF ForkNext, Done

\* The detailed NIF implements the abstract one: reading a block piece by
\* piece, in any order, behind overrides and its own writes, gives what
\* running on a copy of the whole block would have given.
THEOREM EvmForkRunsOnACopy == ForkSpec => RunsOnACopy
<1>1. ForkSpec => Sim!Init /\ [][Sim!Next]_(Sim!absVars)
  BY InitRefines, NextRefines, SpecInv, PTL DEF ForkSpec
<1> QED BY <1>1 DEF RunsOnACopy, Sim!Spec

=============================================================================
