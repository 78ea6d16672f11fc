# A verification development for onchain-stack

onchain-stack is a family of Elixir packages, with some Rust behind them, for
talking to Ethereum-like chains and to Solana: JSON-RPC, ABI, signing, WebSocket
subscriptions, polled filters, contract bindings, testnet faucets. Most of it
is stateless (encode a request, send it, decode the answer). This directory is
about the parts where processes, the network and the clock meet: what is kept
between two steps, who else can move in between, and what is left when a step
fails. The modules are TLA+, checked with TLC on small instances; the results
that matter most are proved for all instances with TLAPS.

Source paths below are relative to `src/packages/`.

## The system and its parts

| component | state it keeps | operations | modelled |
|---|---|---|---|
| `Onchain.Subscription` | per connection: an Agent with registry, race buffer and in-flight counter | connect, subscribe, unsubscribe, close, frame handler | `Subscription` |
| `Onchain.Filter` | a GenServer: node-side filter id, listeners, poll timer | start, listen, poll, renew, dispatch, terminate | `Filter` (log filters) |
| `Onchain.RPC` transport | none between calls; per call an attempt counter | send_rpc, send_batch, retry, refusal classes | attempts inside `Filter` and `Submission`; batches `BatchRPC` |
| `Faucet.TopUp`, `Faucet.Wait` | a `:global` lock per source and address; per call the budget used | ensure_min_balance, until | `TopUp` |
| `Onchain.ABI.Alloy`, `AlloyEvents` | one `persistent_term` map per cache | lookup, compile, insert | `SchemaCache` |
| `Onchain.RPC.execute_trx` | none; the nonce lives at the node | fees, nonce, tries, signature, submission | `Submission` |
| `Onchain.Signer` | a GenServer that memoises its address | sign, address, chain_id | no |
| Solana `send_and_confirm` | none; a deadline per call | send, poll the status, sleep | `SendAndConfirm` |
| ENS CCIP-Read | none; a redirect depth | fetch, gateway round, callback | no |
| Aave and Aerodrome arithmetic | none | ray/wad rounding, epochs | no |
| EVM simulation (`Onchain.EVM`, NIF crate onchain_evm) | none between calls; per call a cache over a forked block | simulate_call, simulate_transaction, simulate_batch | `EvmFork` |
| Solidity parsing (`Onchain.Solidity`, onchain_solidity) | none | parse_sol, with and without a root contract | `Solidity`, `DocComments` |
| ABI codec, JSON ABI (onchain_abi) | compiled schemas; none per call | encode, decode, raw_encode, raw_decode, event, events, parse_abi_json | `AbiCodec`, `BoundedDecoding`, `AbiJson` |
| Transactions and typed data (onchain_abi, `consensus`) | none | encode, decode; the walks over an EIP-712 schema | `Envelope`, `TypedData` |
| Tempo transactions (onchain_tempo) | none | decode, serialize, sender, fee_payer, cosign_fee_payer | `TempoEnvelope` |
| hex, hashing, key derivation, bindings, traces, `onchain_js`, scripts | none of their own | pure or pass-through | no |

How they interact. Callers run in processes of their own. `Subscription` shares
one Agent between all callers of a connection and the zen_websocket client
process, which handles the frames of the node in order; each Agent call is
atomic and nothing else is. `Filter` is one process that blocks in
`Onchain.RPC` calls, so during a poll only node, network and supervisor move.
`TopUp` calls meet at the balance of one address and at a cluster-wide lock.
The schema caches are read by every process that encodes or decodes and written
under a node-wide lock. A NIF keeps nothing from one call to the next and shares
nothing with other calls: `StatelessCalls` is one call of any of them, and
`EvmFork`, whose call takes many RPCs, one call and the node it reads from.
Calls of `execute_trx/3` keep nothing either and meet only at the node: in the
pool, where two transactions with one nonce compete, and in the copies of a
request that a retry leaves on the wire.
Nothing is persisted: a crash is a process that is gone
with its state while the node, the chain and the other processes go on.

What is hard, per component, and the properties that make it correct:

* **Subscription**: the node notifies about an id before the subscriber knows it;
  requests time out while the node goes on; calls share one counter; the
  connection ends under a call. Correct means: nothing a caller expects is lost
  except to a documented cap, nothing comes twice, nothing is taken up after
  unsubscribe, order is kept within the buffer, every call returns.
* **Filter**: `eth_getFilterChanges` consumes what it answers, so a lost answer,
  a retry, a bad log, an expired filter or a crash can each lose logs. Correct
  means: chain order, an event ahead of its log, no duplicates, no loss without
  a logged error, and polling goes on.
* **TopUp**: requests cost real faucet quota and land when they like. Correct
  means: no double request while turns are taken, bounded excess when calls give
  up, the budget is exact, every call returns.
* **Schema caches**: a whole-map read-modify-write. Correct means: no entry is
  lost or replaced, the cap holds, a dead lock holder blocks nobody.
* **EVM simulation**: a block is read account by account and slot by slot, when
  the execution first touches them, while the chain moves on. Correct means: the
  answer is that of a run on a copy of one block, a batch's nonces are those the
  EVM expects, an error names its cause.
* **Native codecs**: untrusted bytes and source text, and third-party decoders that
  accept more than they should or allocate what they are told to. Correct means:
  what is written reads back as itself, two ways to one answer agree, work is
  bounded by a budget whatever the data says.
* **Transport**: a retry repeats what may have been done; the answers of a batch
  come in any order. Correct means: each result is that of its request.
* **Transactions**: a nonce is read at one moment and used at another, answers
  are lost, copies come late. Correct means: one transaction per call, no gap in
  the nonces, and no more said of a transaction than is known.
* **Solana**: a status is that of the fork a node is on, and time runs. Correct
  means: what is answered stays true, the call ends, `:timeout` is not said early.

The full list of hazards, each at its line and with the properties that would
catch it, is `hazards` in `PROJECT.json`.

## Modules

### Subscription

`Subscription.tla` models `onchain/lib/onchain/subscription.ex`. `registry`,
`pending` and `inFlight` are the Agent's three fields; a state where `conn` is
"stopped" has no Agent, and every Agent call made there exits its caller. The
steps of `do_subscribe/3` are separate actions because other processes run
between them: `BeginSubscribe` (in_flight + 1), `SendSubscribe`, then
`SubscribeError` or an answer, `RegisterAndDrain` (one Agent call), `Flush` or
`HandlerRaises` per drained notification, `Finish` (the `after` clause).
`Unsubscribe`, `UnsubscribeError` and `RemoveSubscription` are `unsubscribe/2`.
`HandleAnswer` and `HandleNote` are the client process taking the next frame.
`HandleNote` is the Agent call of `lookup_or_buffer/3`; a notification whose id it
finds registered is then `inHand` until `Dispatch` calls the handler, and callers run
in between: `remove_subscription/2` and the return of `unsubscribe/2` may come first,
and the handler is still called. What `unsubscribe/2` ensures is that nothing is
taken up afterwards (`NoneTakenUpAfterUnsubscribe`). `Disconnect` is the end of the
client process, `FindAgent` and `StopAgent` the two steps of `stop_agent/1` for each of the
`Stoppers`, which are callers of `close/1` and `on_disconnect`: two of them may both
find the Agent alive, and the later one exits.

Abstractions: an id is a number, because Erlang orders the keys of a small map
by term order and that order decides which id is evicted; a notification is its
position in the sending order; the type of a subscription and the parsing of
its results (which never raises, and turns a bad frame into a `:parse_error`
event) do not matter to any property. `delivered`, `dropped` and `evicted` are
history variables that record what became of each notification. Each call
unsubscribes only the id it obtained.

The node is external: it allots an id and answers in two steps, may notify in
between, after the caller gave up and after it was asked to stop, and hands no
id to two calls. zen_websocket itself is external: its own reconnect policy, and what
becomes of its process when the handler raises, are left out.

`NotificationDelivery.tla` is the abstract contract of the module: notifications
in transit, held back, handed over, and ids open or not. It has no Agent, no
caps and no callers. `Subscription` implements it under the mapping at its end
(`ImplementsDelivery`): an id is open from the return of subscribe/3 until
unsubscribe/2 has its answer, what is buffered or drained is held back.

`SubscriptionInvariant.tla` holds the two inductive invariants of the proofs.

### Filter

`Filter.tla` models a log filter of `onchain/lib/onchain/filter.ex` with the part
of `onchain/lib/onchain/rpc.ex` it runs on. `proc` says which RPC the GenServer
waits in; `Enter` starts one with a fresh attempt counter. `AttemptAnswered`,
`AnswerLost`, `RequestLost` and `SpuriousError` are the ways one HTTP attempt can
end; `TransportError` retries while `retry_request/2` would. `SetFilter`, `Renew`,
`PollFails`, `DispatchChanges`, `DecodeRaises` and `Terminated` are the clauses of
`set_filter/1`, `poll_filter/1`, `dispatch_changes/2` and `uninstall_filter/1`. The
MatchError of `set_filter/1` is `SetFilterFails`: at start it fails `init/1`, later
it crashes the GenServer through `terminate/2` with the old id.

A log is its position in the chain with its first topic; decoding is whether the
topic is in `Decoded`. The order and the number of messages a listener gets are
modelled exactly: per batch all decoded events, sorted back from their topic
groups (`Events`, by position), then all raw logs. `reported`
marks how much of the chain a logged error or crash covers, `retried` how much
was in an answer that got lost while retries were left: that is the one loss
the code cannot see, and `NoSilentLoss` names it. A listener registers once per
incarnation; the code would send twice to one that registers twice.

### TopUp

`TopUp.tla` models `faucet_ex/lib/faucet/top_up.ex` with `wait.ex` and the callbacks of
`source.ex`. Each call is at "called", "reading", "funding", "confirming" or at
its result. `Enter` takes the `:global` lock for the calls in `locked`; `Read` is
the three-way decision of `loop/6`; `Fund` and `FundFails` are `request_round/5`
(a failing `fund/2` may or may not have reached the provider); `Confirmed`,
`Reverts`, `TimesOut` and `ProbeFails` are the ends of `confirm/5`, with receipts or
by polling the balance. The provider dispenses a fixed amount or the deficit it
was given. A dispense is in `pending` until it lands or reverts, which may be
long after its call has ended; `gaveUp` are the calls that ended without an
answer to their last request. Time is abstracted: a wait may end after any
probe that said `:retry`.

### SchemaCache

`SchemaCache.tla` models `cached/3` and `insert/3` of `onchain/lib/onchain/abi/alloy.ex`,
and the same steps in `alloy_events.ex`: lock-free lookup, compilation outside
the lock (it may raise), then read, test and write back of the whole map under
the lock. A schema is named by the call that compiled it, since each
compilation yields a new reference. A process may be killed anywhere in a call.

### EvmNode, EvmSimulation, EvmFork

`EvmFork.tla` models the three NIFs of `onchain_evm/native/onchain_evm/src/lib.rs`.
`step` says what the call waits for: the block and the chain id (`build_fork`), the
accounts of the overrides (`apply_state_overrides_map`, a HashMap, so in any
order), the base nonce of a batch (`current_nonce`), then per call of the batch
what the EVM reads first, second and third (`Load`), and `Execute`. `cache` is
revm's `CacheDB`: what was read, overridden or committed. Each read is one RPC and
may fail in six ways (`RpcFails`), which `ClassifyTransportError` turns into the tag
of the answer as the code does: the first reqwest error in the chain that is a
timeout or a connect failure, and without one the text.

`EvmNode.tla` is what lies around it: a chain whose last block can be replaced and
whose pending state changes, the hardfork schedules and the choice of a revision
(from the source), and the EVM reduced to what a call reads, writes and returns:
code that reads its slot, writes it, writes it and reverts, or halts. An account is
its nonce, its code and one slot; a result carries the revision it ran under.

`EvmSimulation.tla` is the abstract specification: one step copies the whole block
with the overrides laid over it, each call is one step on the copy. How a reverted
transaction is answered it leaves open, since the moduledoc of `Onchain.EVM` and its
tests disagree about it; the run `evm_revert` is about that. Only the
pending block, and a block that is reorganised away after the fork was pinned to
its number, may change under the calls. `EvmFork` implements it with the copy
given by `View`: the cache over the overrides still to be applied over the block.

### Submission and Broadcast

`Submission.tla` models `execute_trx/3` of `onchain/lib/onchain/rpc.ex` with the transport
under it. `pc` is the request a call waits on: `Begin`, `GasParameters`, `GetNonce`,
`Try` (or `TryReverts`) for `eth_call` and `eth_estimateGas` where the options ask for
them, then the signature, which takes no request and no step of its own, and
`eth_sendRawTransaction`. `PrepareFails` is any error before that. `Retry` and
`GiveUp` are `retry_request/2` with retries left and without; `Answered` and `Garbled`
are `decode_response/5` with and without an answer of the node in the body.

The node is external: `Receive` puts a transaction in the pool, in place of one
with its nonce and a lower fee, or refuses it; `Mine` takes the next nonce to the
chain. A copy of a transaction on the wire is `current` while its sender waits for
it and `old` afterwards; an old one may still arrive, and its answer is nobody's.
That a request is lost is a copy that never arrives.

`Broadcast.tla` is the abstract specification: what a caller may conclude from
`:ok`, a refusal, a lost answer and an error before the submission about whether
the node ever takes the transaction. `Submission` implements it (`Concludes`).

### SendAndConfirm

`SendAndConfirm.tla` models `send_and_confirm/2` of `onchain_solana/lib/onchain/solana/rpc.ex`:
`Submitted` sets the deadline, `Fails`, `Confirms` and `SleepAndRetry` are `check_status/5`, `Poll`
and `TimesOut` what `poll_signature/5` does after the sleep, `Refused` and `NoAnswer` the
errors of either request. `now` is a clock in units; what the caller computes
takes no time, a request takes up to `Latency` or is not answered and ends within
`RequestLimit`. That is a constant of its own and not `:timeout`: `send_rpc/3` passes
`:timeout` on as `receive_timeout`, or 30 s if the caller gave none, and connecting and
waiting for the pool have limits besides. The cluster is external:
it executes a transaction, drops a block that was only processed, votes for it,
and never drops a confirmed one.

### WireCalls, StatelessCalls and what is under them

`StatelessCalls.tla` is one call of any other NIF, or of `send_batch/2`; its answer is
one step, except that the walks over an EIP-712 schema take a step per name and the
search for doc comments one per line and per function, and the decoding of ABI data
one per type and per value. The
calls that read and write flat messages are in `WireCalls.tla`, which it extends:
Ethereum transactions, Tempo transactions and batches. `WireCalls`, `TypedData`,
`DocComments` and `BoundedDecoding` have no recursive operator, so they can be proved
about; the run is over all of them.

* `BatchRPC.tla` (`onchain/lib/onchain/rpc.ex`): the answers to a batch by id, whatever
  list the node sends, and the first failure. A result is its place in the list.
* `TypedData.tla` (`transaction.rs`): `check_type` with its path and its budget as a
  machine with a stack of frames, then `recursive_encode_type` with its stack of
  pending names. A field's type is the name its array suffix leaves.
* `Solidity.tla` (`onchain_solidity/src/lib.rs`): the type registry with canonical and
  unique short names, `type_to_canonical`, `encode_sol_field`. The tree is
  what the solar parser returns, a name its identifiers, a hash what it is of. Its
  last part says what Solidity means by a type and where a name is clear without
  a compiler; that is the reference, not the code.
* `DocComments.tla` (`onchain_solidity/src/lib.rs`): `byte_offsets` line by line, the loop
  of `extract_doc_comments`, which may jump from a comment to the line it targets,
  and `take_natspec_for_offset` for each function in the order of the source. A
  comment is what `parse_natspec_lines` makes of its tags. A line may end in CRLF:
  the parser's spans count both bytes (`starts`), `byte_offsets` counts one.
* `AbiJson.tla` (`contract.rs`): the same functions, events, errors and constructor as
  read from the compiler's JSON.
* `AbiCodec.tla` (`onchain_abi/src/lib.rs`): `from_term`, `to_term`, `preflight`,
  `decode_compatible` and the operations of `run_codec`, around alloy's encoder and
  decoder, which are written out from how the code uses them. Data is a sequence
  of 32-byte words, offsets count words.
* `BoundedDecoding.tla` (`onchain_abi/src/lib.rs`): the calls of `decode` and `event` once
  more, as a machine with a stack: `small_type` over the types, `preflight` over the
  data, then alloy, or `decode_compatible` around it, over the same data, each with its
  budget. A value has an address, the indices that lead to it, since offsets may
  bring the same bytes up many times; `built` are the addresses that were decoded.
  Whether a type is dynamic, how wide it is and whether it has a part without width
  are fields of it, with the equations that define them as an assumption. The
  checks on topics that come before any decoding are in `AbiCodec`, which answers
  every call in one step; `AbiRoundTrips` says that both give the same answer.
* `Envelope.tla` (`transaction.rs`): `decode` tells unsigned payloads from signed
  transactions by re-encoding; fields are numbers. A chain id is read into 64
  bits, in an unsigned payload, a signed one and inside a legacy v alike.
* `TempoEnvelope.tla` (`onchain_tempo/src/lib.rs`, `transaction.ex`): the fee payer marker
  and co-signing. A signature is a key and what it is over, the marker and the
  signature of zeros are values of their own kind.

## What the runs check

| run | question | states | verdict |
|---|---|---|---|
| `watch` | subscriptions: loss, doubling, order, silence, refinement, return; filters: order, duplicates, silent loss, progress | 0.9 M | holds |
| `subscription_eviction` | is the oldest id evicted at the cap? | | violated |
| `subscription_failure` | is a lost connection always an `{:error, _}`? | | violated |
| `filter_shutdown` | does a shutdown leave no filter behind? | | violated |
| `locks` | top-up: piling up, overfunding, budget, return; caches: lost insertions, visibility, dead lock holders | 1.1 M | holds |
| `nifs` | simulation: refinement of a run on a copy, nonces, error tags; ten properties of the other calls | 1.3 M | holds |
| `evm_revert` | is a reverted transaction an `{:error, {:evm_revert, _}}`? | | violated |
| `doc_comments` | is the comment a function gets its own? | | violated |
| `doc_comments_crlf` | does a function get the comment right before it, whatever ends the lines? | | violated |
| `transactions` | Ethereum: nonces, one transaction, what answers mean, progress; Solana: what answers mean, when the wait ends | 0.2 M | holds |
| `submission_verify` | is a revert found by `:verify` that of the transaction? | | violated |
| `confirm_wait` | is `:timeout` the longest that `send_and_confirm/2` waits? | | violated |

Each of the four passing runs checks two components that share no state, one beside
the other (`MCWatch`, `MCLocks`, `MCNifs`, `MCTransactions`): a behaviour is one of the
first while the second stays in its initial state, or the other way round, so what
a run shows of a component is what a run of it alone would. The eight violated
runs are of a component by itself.

The ten properties of the calls in `nifs` other than simulations: a recursive EIP-712 schema is taken for one
(`RecursiveIsCyclic`) and encodes what it reaches (`EncodesWhatIsReached`);
functions, events, errors and the constructor from source are those of the
compiler's JSON wherever names are clear (`SourceAndJsonAgree`); a function with a
comment of its own that is the first on its line, starts near the start of it and
has no CRLF before it gets that one, no function gets two and no comment is given
twice (`DocsRight`); values round-trip through `encode` and through chunks, for a decoder
that answers as the walks do (`AbiRoundTrips`), no data makes a decoder build more
values than the budget has nodes (`BudgetsBound`), a batch of logs answers as its
logs would one by one until the shared budget is used up (`BatchAgrees`); envelopes round-trip, with signed and
unsigned legacy forms told apart (`EnvelopeRoundTrips`); co-signing keeps the
sender (`SponsorKeepsSender`); a batch of requests gives what they would give one
by one, in whatever order it is answered (`BatchAsOneByOne`).

The violated runs are disagreements between the code and its own documentation,
comments or tests; `findings` in `PROJECT.json` quotes both sides.

* At the cap on distinct ids, `Enum.at(pending, 0)` is the least key in term
  order. The documentation says the oldest key goes. Any id can be the victim,
  the one whose call is about to register included.
* A connection that ends during subscribe/3 may make the call exit instead of
  returning `{:error, {:connection_error, _}}`: the `after` clause updates an Agent
  that is stopped by then.
* A -32000 that was not about the filter makes `poll_filter/1` install a second
  one and forget the first, which no shutdown uninstalls.
* `do_estimate_and_verify/2` makes `eth_call` and `eth_estimateGas` without the signer as
  `from`, unless the caller gives it: `:verify` fails for a contract that accepts
  only the signer, and passes for one that refuses it.
* A reverted `simulate_transaction/3` is answered `{:ok, %{success: false}}`; the moduledoc
  of `Onchain.EVM` says `{:error, {:evm_revert, _}}`. (A test expects what the code does.)
* A doc comment before some other item is given to a function that starts within
  100 bytes after it, though `take_natspec_for_offset` is to find the comment
  "targeting this function". `DocsRight` is what does hold.
* In a file with CRLF the offsets of `extract_doc_comments` fall behind the parser's by
  a byte per line, until a function's own comment is out of reach.
* `:timeout` of `send_and_confirm/2` is documented as the maximum time to wait. A poll
  that began before the deadline, or a sleep, goes on after it; `EndsInTime` says by
  how much.

### Bounds

* Subscription: two calls on two ids, so that one call can hold the buffer open for
  another, caps of 2 per id and 1 distinct id, three notifications: enough to
  overflow each cap, to mix evicted, drained and delivered notifications of one
  id, and to have a straggler. What involves more calls at once is the counter,
  the registry and the ids, and there the theorems hold for any number. The
  eviction run has three ids and room for two.
* Filter: two logs of three topics of which two decode (the grouping can
  disorder, and a log can go undecoded), one listener, one retry, two faults,
  two incarnations. Two faults are an expiry and a lost answer, or a lost
  answer and a lost retry. The shutdown run has no retry and needs one fault.
* TopUp: two calls, both confirmation modes and every choice of locked calls,
  a budget of 2, a minimum of 2 with a drip of 1 (one dispense is not enough)
  and the deficit as alternative, initial balance below and at the minimum, one
  spend: the second round, the exhausted budget and a late landing all occur.
* SchemaCache: three processes with a call each, three keys, a cap of 2: two misses
  meet in front of the lock, and a third finds the cache full. More calls of a
  process are more processes, which share nothing but the map.
* EvmFork: a sender and a contract, two blocks and two changes of the node (a block
  mined, its state replaced, the pending state changed between any two reads),
  nonces up to 2 so that a batch overflows them, batches of two calls that run the
  contract twice or the sender and the contract, and every kind of code. What
  the three NIFs share is varied for one of them: overrides for calls and batches,
  chains, revisions and the ways to name a block for calls.
* Submission: two calls, three fees and two retries, so that up to three copies of
  each are on the wire at once and either call can outbid the other; both tries,
  against contracts that accept the sender or do not. With `:block_number` "pending",
  because `OkStays` does not hold of "latest", the default: there a second call takes
  the nonce of the first and replaces its transaction if it pays more.
* SendAndConfirm: a timeout of 3, an interval of 2, a latency of 1 and 4 for a request
  that is not answered, so that polls fall before, on and after the deadline and
  one may outlast it; each commitment level.
* StatelessCalls: the limits of the code scaled down so that each is reached from both
  sides: a path of 3 structs and 10 names, a type depth of 3, 3 bytes of distance,
  8 nodes and words, 5 and 6 for the small scheduler, 3 logs, ids up to 50. All
  schemas of three structs with up to two fields; types A and B declared in no,
  one or several of a file and two contracts, as struct or enum, inherited or not;
  all sequences of four lines of nine kinds, among them lines with two functions
  and with one beyond the distance that `take_natspec_for_offset` looks back, and of
  five lines of four kinds in which the first two or all end in CRLF; every data of up to four words and
  some longer ones whose offsets alias; nine-field envelopes of every kind;
  every answer of up to three items to up to three requests, with strays, doubles
  and items without a result.
  `Stack` bounds the recursion of `encode_sol_field`, which the code does not bound.

Every bound on a counter is a guard of the action it bounds (`MaxNotes`, `MaxLogs`,
`MaxFaults`, `MaxStarts`, `MaxSpends`, `MaxCalls`, `MaxBlocks`, `MaxChanges`); the clock of
`SendAndConfirm` runs while the call does. Deadlock is checked
in the run `nifs`, where a call that has its answer is the only stop (`Computed`): one
that has not can always go on. It is not checked in the others: a behaviour in which
all calls have returned and the bounded environment has nothing left to do really
stops.

### Fairness

Only the code's own steps are fair, never the node, the network, the chain or
the users, with one exception that is named below.

* A caller of subscribe/3 keeps running, and `send_message` never blocks past its
  timeout (`SubscribeError` is always possible while it waits).
* The GenServer takes its next message, and an HTTP attempt ends: Req limits
  connecting, waiting for the pool and receiving each by a timeout.
* A faucet call goes on: each request has a timeout, each wait a deadline. The
  faults of a call are outside its fairness condition, so no call is assumed to
  be saved by one.
* `:global.trans` retries for ever at random intervals. Each call takes the lock
  a bounded number of times, so weak fairness of each waiting call is enough.
* A call of `execute_trx/3` goes on: each request ends with its `receive_timeout`. The
  exception is that the chain goes on (`Mine`), for `OkIsMined` is about what the
  chain does with what it was given.
* `send_and_confirm/2` goes on and its clock runs.

No liveness is claimed of a NIF. A simulation makes one RPC after the other, each
with a timeout; that there are finitely many follows from the bounded batch, but
the code has no deadline for the whole call.

## What is proved

Each proof module extends its component and needs only the named assumptions on
the constants: finite sets of calls and ids, positive caps, a `None` outside the
data. No bound of a `.cfg` is used: `MaxNotes`, `MaxCalls`, `MaxSpends` are
arbitrary naturals.

**`SubscriptionProofs`**. There are two inductive invariants, since each group of
properties needs its own facts. `RaceAccounted` is about who knows which id. That
`register_and_drain/3` leaves no buffer behind needs
that what is pending for an id was sent for it (`NotesTracked`); that nothing
expected is dropped needs that `in_flight` is not 0 while a call waits, so the
exact count (`InFlightCounts`), and that the id is registered from the drain to
the removal (`OpenRegistered`); that the removal of one id spares the others
needs that no id has two owners (`GrantsDistinct`), which in turn needs to know
when an id may be unknown (`GrantsTracked`, `WireTracked`). From it:
`SubscriptionTypeCorrect` (with both caps), `InFlightCountsHolds`,
`RegisteredNotBufferedHolds`, `AwaitedNeverDroppedHolds`, and the action property
`NoneTakenUpAfterUnsubscribeHolds` by `ClosedForgotten`.

`HomesAccounted` is about where each notification is, and is inductive under
`RaceAccounted`. The client takes frames in the order of sending, so what it
received was sent before all that is on the wire (`ReceivedFirst`); a buffer is
therefore newest first and a drained one oldest first (`ListsInOrder`), which is
why `push_bounded/3` drops the oldest of an id (`EvictsOnlyOlder`); no action puts
a notification in a second place (`HomesApart`) or in none (`NoneVanishes`), and
the buffer is gone with the Agent (`StoppedForgets`). From it: `OneHomeHolds`,
`EvictsOnlyOlderHolds` and the refinement `SubscriptionDelivers`. There every action
is one of the contract or a stutter: `Notify` sends, a `Dispatch` and a flush hand over,
a frame for a registered id is still in transit, a frame during a race holds back, an eviction or a drop
gives up, the return of subscribe/3 opens, the answer to unsubscribe/2 closes, a
disconnection cuts. That the hand-over is in each id's order is what
`HomesAccounted` adds to the guard of the action. The lemmas before both say what
`push_bounded/3` keeps and evicts, that eviction makes room, and that reversal
preserves the elements and turns the order round.

**`FilterProofs`**. The inductive invariant `Inv` has the types, that an answer is the
one its request asks for (`AnswerFits`), the order at the node (`NodeInOrder`) and
on the way (`AnswerInOrder`), that what a listener has is older than all that can
still reach it (`InboxBehind`), and where a log is that a listener has not got
(`LossAccounted`): settled by a report or a retry, at the node, or in the answer
to the poll, unless the node has dropped the filter, for which the next poll
will be told -32000. `FilterInboxInChainOrder` and `FilterNoSilentLoss` follow; the
first needs that `parse_events/2` gives the events in the order of their logs, which
is a lemma about `InOrder`: the positions of the decoded logs can be listed
upwards (proved for every finite set by the smallest for which it would fail), and
then each is among them, since a list of as many cannot leave one out; so the
event of a decoded log is sent, and before the log (`EventAhead`).
Listeners, topics, logs, retries, faults and restarts are any number.

**`TopUpProofs`**. `TurnsAccounted` is the inductive invariant: when all calls are
locked, the holder is the one call in the loop (`OneInLoop`), and what is in
flight is one dispense per call that gave up, plus the holder's own until what
the holder looks at says otherwise (`ConfirmSettles`, `RiseExplained`). The last
two carry the case without receipts, where a risen balance is the only evidence
that some dispense has landed. From it: `TopUpTypeCorrect`, `NoPileUpHolds` and
`NothingRequestedWhenSufficientHolds`. `FundsBounded` is inductive on top of it: what
the address holds and has coming is at most what it held at first, or leaves room
below the bound, and more room while a call is about to request. What is coming
is a sum over the dispenses in flight. It is the number of units in them, a set
of pairs (`Units`), so adding or landing one is a fact about cardinalities, and
`NeverOverfundedHolds` is proved for any number of calls and any amounts.

**`SchemaCacheProofs`**. `LockProtects` is the inductive invariant: only the lock's
holder is between its read and its write, so what it read is still published.
From it: `WithinCapHolds`, `ReturnedIsCachedHolds`, `EntriesStayHolds`.

**`EvmForkProofs`**. The inductive invariant `Inv` joins the types of node and call,
what each step may rely on (`Progress`: nothing is cached before the overrides,
the revision is the one of the header) and `NonceTracked`: unless the block is
pending or was replaced, the nonce the EVM will find the sender to have is the
next number of the batch, also before the sender was read, since a block that
stays is read with the same result twice. From it `EvmForkTypeOK`,
`EvmForkNonceInSequence` and `EvmForkTagNamesTheCause`. `EvmForkRunsOnACopy` is the
refinement: reads and overrides leave `View` as it is and stutter, `GetBlock` is
the copying step, `Execute` the call, a failure `Fail`, and the node's steps are the
node's, with a change of `View` only where `EvmSimulation` allows one.

**`SubmissionProofs`**. The inductive invariant says what a call has at each request
(`Stages`), that every copy of its transaction carries its one nonce and the node
holds one transaction per nonce (`Agreement`), that no nonce below one that was
read is free (`NoGap`), that a nonce that was accepted stays taken (`Held`), that an
answer stays true (`Truthful`), that without retries one copy is sent and its
answer says it all (`Single`), and that a call that began after an `:ok` reads a
later nonce (`Later`). From it, for any number of calls, fees and retries:
`AtMostOnce`, `Gapless`, `OkIsKept` and `TypeCorrect`. `Implements` is the refinement: `Receive`
is `Accept` or a stutter, the ways to return are `Answer`.

**`SendAndConfirmProofs`**. Nothing is assumed of `RequestLimit` but that it is not below
`Latency`, so the bound of `EndsInTime` is the one the HTTP client gives. The invariant bounds the clock by the request or sleep the
call is in (`Clock`), says that a status that would end a poll was not there when
the last poll looked (`Watch`), and ties an answer to the status it was read from,
which is not undone from "confirmed" on (`Seen`, `Verdict`). From it, for every timeout, interval and
latency: `ConfirmAnswerHolds`, `ConfirmEndsInTime`, `ConfirmTimeoutIsLate` and `ConfirmTypeOK`.

**`StatelessProofs`**. `Walk` is the inductive invariant of `check_type`: the path
descends along fields (`PathDescends`), the flag is raised only where there is a
cycle (`BackEdgesAreCycles`), and as long as it is not raised everything reached
from the fields already looked at is free of cycles (`DoneWithIsAcyclic`). At the
end that is the whole of what the primary type reaches: `TypedRecursiveIsCyclic`.
Reachability is by closed sets, so no induction over paths is needed.
`TypedEncodesWhatIsReached` has an invariant of its own, `Gathered`: what was seen and
what is pending are reached, and hold together all that is.

For the calls of `WireCalls` the invariant is that the answer is what the code
computes of the call (`AnswersCall`); the work is in the lemmas about that.
`WireRoundTrips`: a legacy payload of six fields, an unsigned EIP-155 one of nine, a
signed one of nine with a v that may or may not carry a chain id, and the typed
forms with and without a signature are told apart for all values of the fields.
Two facts about the values carry it, and both were found by the proof. A
signature whose r and s are 0 would be read as an unsigned EIP-155 payload; the
theorem, and the run, is about signatures that are not all zeros (`IsSignature`);
no ECDSA signature is. And a chain id must fit in 64 bits wherever it is read,
or a transaction would be decoded that cannot be encoded; alloy's readers see to
that. `WireKeepsSender`: what the sender signs does not depend on
the token or on who pays once someone else does, and the marker is never
taken for a signature. `WireBatchAsOneByOne`: of several items with one id the last is
kept, the first request without a result decides, and a node that answers each
request once makes both the same as asking one by one. These three are about
`WireSpec`, the part of the specification the run checks that makes these calls.

`DocsFound` is the inductive invariant of the doc comments. The lines measured so
far do not overlap (`LinesMeasured`); the loop over the lines never stands in the
middle of a comment, though it jumps from the end of one over the blank lines
(`LoopAtBoundary`), so what it collects are whole comments, one for each that says
something. A comment that targets a function's line is then the closest one
before the first function on that line, since the next line starts behind it,
and it is still there: what the functions before took lies before where those
start (`CommentsShared`). Offsets and spans are two counts in it, which
agree up to the first CRLF (`LinesMeasured`). `DocsAreRight` follows,
for every source, with CRLF or without, and every distance.

`Bounded` is the inductive invariant of the decoder's budget. What a walk has
visited and what it has still before it make up the whole: the root is among them,
and so are the parts of whatever was visited (`TypesCounted`, `ValuesCharged`). So
when `preflight` has nothing left to visit, what it charged is closed under parts,
and the second walk, over the same data, cannot leave it (`ValuesBuilt`), although
it visits less: alloy makes nothing of arrays without width. The charged are no
more than the budget, since each visit adds at most one of them and takes one node
off; the addresses that are built are no more than the values that were charged at
them, and in a small call no more than the types that `small_type` counted, since
each part of a static tuple has the address of its type. From it
`BudgetsAreBound`, for every schema, data and limit. And `PreflightIsEnough`: what
preflight lets through never turns out malformed later, and a call of `decode` has
the nodes for its terms; an event may not, since its topics and
`decode_compatible` spend from the budget of the terms. The assumption on an
event's schema, two tuples, is what `Onchain.ABI.AlloyEvents` writes: preflight
takes the data of the second for its body, where `decode_compatible` would look
for the offset of a type that is dynamic and no tuple.

The theorems on types and the inductive invariants state more than the runs list:
`TypeOK` of each component, `RaceAccounted`, `HomesAccounted`, `TurnsAccounted`,
`FundsBounded`, `LockProtects`, the `Inv` of `FilterProofs`,
`RegisteredNotBuffered`, `NothingRequestedWhenSufficient`, `WithinCap`, `Bounded`
and `PreflightSuffices` were checked with TLC before they were proved, and are
left to the proofs.

Model-checked only: three properties of the calls in `nifs`, `SourceAndJsonAgree`,
`AbiRoundTrips` and `BatchAgrees`. They are about what a codec makes of trees of types
and values: what they say of all of them needs induction over that data, and the
operators are recursive, which the provers have no way to unfold. And all
liveness (`SubscribeReturns`, `ListenersCatchUp`, `EveryCallReturns`, `EveryCallEnds`,
`EveryCallAnswers`, `OkIsMined`, `CallReturns`), which is out of the prover's reach.
Every other property of a passing run is a theorem. That `stop_agent/1` may stop the
Agent twice is in the model of `Subscription` (two `Stoppers`), but the runs have one
and no property is about the other.

## Plan

In this order, the most important behaviour first:

1. `Signer`: the GenServer with a backend that may fail, its supervisor and its
   callers; then `Submission` with a signer that dies between nonce and signature.
2. `Filter`: hash filters and duplicate listeners. `TopUp`: nodes that lag behind
   each other.
3. `events` in `BoundedDecoding`: a batch of logs with the budget they share, walked
   log by log.
4. `CcipRead`: the bounded recursion; `RayMath`: rounding of `onchain_aave` against
   exact rationals.
5. Native code: the text of ABI types and its limits (`parse_schema`, `parse`), the
   coercion and hashing of recursive values.

## Not modelled

* Libraries: alloy, revm, solar, tempo-primitives, zen_websocket, QuickBEAM. They
  appear as what the code around them sees, marked external in `PROJECT.json`.
* Byte work with test vectors in the repository: hex, hashing, key derivation, the
  packed encoding, `profile`, integer widths below a word, `consensus_term.rs` (terms to
  JSON and back), the reading of NIF parameters.
* Of the simulation: balances, gas, logs, more than one slot. Of source parsing:
  the extraction from solar's tree, and imports (files).
* Of transactions: a `:nonce` given by the caller, eviction from the pool and
  reorganisation, replicas behind one URL, a signer that dies; the classification
  of refusals by their text. Of Solana: the other methods (one request and a
  decoding), and nodes of one cluster that disagree.
* `semantics_verification.rs`, which is test code; contract bindings, traces and
  generated code (stateless); `onchain_js` (its state is inside QuickBEAM); the release
  scripts.

## Running

    tlc -workers 2 -config Watch.cfg MCWatch.tla
    tlc -workers 2 -config SubscriptionFailure.cfg Subscription.tla
    tlapm SubscriptionProofs.tla

and likewise for the other runs and proof modules listed in `PROJECT.json`. The
operators named as faulty variants in the modules are what a plausible bug would
make of the definition that follows them; `mutants` in `PROJECT.json` says which
property notices each of them.
