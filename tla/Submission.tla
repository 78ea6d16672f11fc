----------------------------- MODULE Submission -----------------------------
(***************************************************************************)
(* Onchain.RPC.execute_trx/3: calls of several processes that read a       *)
(* nonce, try the transaction, sign it with one signer and submit it, over *)
(* a transport that may repeat a request, to a node with a pool and a      *)
(* chain.  The node serves one account here: the signer's, whose first     *)
(* nonce is 0.  No call is given a :nonce.                                 *)
(***************************************************************************)
EXTENDS Naturals, Sequences, FiniteSets

CONSTANTS
  Calls,        \* one call of execute_trx/3 each
  Fees,         \* fees they may pay; a higher one outbids a lower one
  Tries,        \* of verify (:verify) and estimate (no :gas_limit), those made
  Selector,     \* :block or :block_number, "latest" unless given
  MaxRetries,   \* max_retries of the :retry policy, 0 unless given
  From,         \* :from, None unless given
  Signer,
  Nobody,       \* the sender of a call without one
  Contracts,    \* sets of senders; a contract reverts for any other
  None

ASSUME OptionsGiven ==
  /\ Tries \subseteq {"verify", "estimate"}
  /\ Selector \in {"latest", "pending"}
  /\ MaxRetries \in Nat /\ Fees \subseteq Nat
  /\ Contracts \subseteq SUBSET {Signer, Nobody}

ASSUME NoneIsNoNumber == None \notin Nat /\ None \notin {"ok", "refused", "lost", "unsent"}

VARIABLES
  pc,          \* the request each call waits on
  left,        \* the retries left for it
  contract,    \* the one each call is to
  fee, nonce,  \* of the transaction
  answer,      \* the node's answer to the current eth_sendRawTransaction
  outcome,     \* what execute_trx/3 returned
  reason,      \* why, where the transaction was not sent
  wire,        \* copies of transactions on their way to the node
  pool,        \* <<nonce, call>>: the node's pending transactions
  chain,       \* the mined ones, by nonce
  before,      \* calls that had been answered :ok when each call began
  displaced    \* <<call, call>>: replaced in the pool, and by what

callVars == <<pc, left, contract, fee, nonce, answer, outcome, reason, before>>
nodeVars == <<wire, pool, chain, displaced>>
vars == <<callVars, nodeVars>>

Preparing == {"fees", "nonce", "verify", "estimate"}

Init ==
  /\ pc = [c \in Calls |-> "idle"] /\ left = [c \in Calls |-> 0]
  /\ contract \in [Calls -> Contracts]
  /\ fee = [c \in Calls |-> None] /\ nonce = [c \in Calls |-> None]
  /\ answer = [c \in Calls |-> None] /\ outcome = [c \in Calls |-> None]
  /\ reason = [c \in Calls |-> None] /\ before = [c \in Calls |-> {}]
  /\ wire = {} /\ pool = {} /\ chain = <<>> /\ displaced = {}

-----------------------------------------------------------------------------
(* The call. *)

\* The request that follows request p in prepare_trx_/3 and execute_trx/3.
Following(p) ==
  CASE p = "fees" -> "nonce"
    [] p = "nonce" /\ "verify" \in Tries -> "verify"
    [] p \in {"nonce", "verify"} /\ "estimate" \in Tries -> "estimate"
    [] OTHER -> "send"

Copy(c, n, attempt) == [call |-> c, nonce |-> n, attempt |-> attempt]

\* c no longer waits for the copies it has sent; they may still arrive.
Stale(c) ==
  {IF m.call = c THEN [m EXCEPT !.attempt = "old"] ELSE m : m \in wire}

\* c goes on to request p, with the nonce n if it is to send.
Enter(c, p, n) ==
  /\ pc' = [pc EXCEPT ![c] = p]
  /\ left' = [left EXCEPT ![c] = MaxRetries]
  /\ wire' = IF p = "send" THEN wire \cup {Copy(c, n, "current")} ELSE wire
  /\ UNCHANGED <<contract, answer, outcome, reason, pool, chain, displaced>>

Finish(c, o, why) ==
  /\ pc' = [pc EXCEPT ![c] = "done"]
  /\ outcome' = [outcome EXCEPT ![c] = o]
  /\ reason' = [reason EXCEPT ![c] = why]
  /\ answer' = [answer EXCEPT ![c] = None]
  /\ wire' = Stale(c)
  /\ UNCHANGED <<left, contract, fee, nonce, before, pool, chain, displaced>>

Begin(c) ==
  /\ pc[c] = "idle"
  /\ before' = [before EXCEPT ![c] = {d \in Calls : outcome[d] = "ok"}]
  /\ Enter(c, "fees", None)
  /\ UNCHANGED <<fee, nonce>>

\* v1_gas_parameters or v2_gas_parameters.
GasParameters(c) ==
  /\ pc[c] = "fees"
  /\ \E f \in Fees : fee' = [fee EXCEPT ![c] = f]
  /\ Enter(c, "nonce", None)
  /\ UNCHANGED <<nonce, before>>

Occupied(n) == \E d \in Calls : <<n, d>> \in pool

\* The node's pending count: its chain, and what can be mined next.
PendingCounts ==
  {n \in Len(chain)..(Len(chain) + Cardinality(pool)) :
     ~Occupied(n) /\ \A m \in Len(chain)..n : m < n => Occupied(m)}

\* Faulty variant: the selector is not passed on.
LatestCount == {Len(chain)}

\* Faulty variant: the count is taken for the nonce last used.
CountPlusOne == {n + 1 : n \in PendingCounts}

TransactionCounts ==
  IF Selector = "latest" THEN {Len(chain)} ELSE PendingCounts

\* get_nonce/2 with the options of the call.
GetNonce(c) ==
  /\ pc[c] = "nonce"
  /\ \E n \in TransactionCounts :
       /\ nonce' = [nonce EXCEPT ![c] = n]
       /\ Enter(c, Following("nonce"), n)
  /\ UNCHANGED <<fee, before>>

\* Who eth_call and eth_estimateGas are made as: from is not in the options
\* do_estimate_and_verify/2 is given, unless the caller put it there.
Sender == IF From = None THEN Nobody ELSE From

\* do_estimate_and_verify/2: each try goes through, and what follows the last
\* is the signature and send_trx/2.
Try(c) ==
  /\ pc[c] \in {"verify", "estimate"} /\ Sender \in contract[c]
  /\ Enter(c, Following(pc[c]), nonce[c])
  /\ UNCHANGED <<fee, nonce, before>>

TryReverts(c) ==
  /\ pc[c] \in {"verify", "estimate"} /\ Sender \notin contract[c]
  /\ Finish(c, "unsent", "reverted")

\* Any other error on the way: of the node, of a decoder, of the signer.
PrepareFails(c) ==
  /\ pc[c] \in Preparing
  /\ Finish(c, "unsent", "error")

-----------------------------------------------------------------------------
(* The transport. *)

\* Faulty variant: the transaction is prepared again, not sent again.
ResendFresh(c) ==
  /\ pc[c] = "send"
  /\ \E n \in TransactionCounts :
       /\ nonce' = [nonce EXCEPT ![c] = n]
       /\ wire' = Stale(c) \cup {Copy(c, n, "current")}
  /\ answer' = [answer EXCEPT ![c] = None]

\* retry_request/2: the same body once more.
Resend(c) ==
  /\ pc[c] = "send"
  /\ wire' = Stale(c) \cup {Copy(c, nonce[c], "current")}
  /\ answer' = [answer EXCEPT ![c] = None]
  /\ UNCHANGED nonce

\* Faulty variant: a retry does not use up the policy.
RetryForever(c) ==
  /\ left[c] > 0
  /\ \/ Resend(c)
     \/ pc[c] \in Preparing /\ UNCHANGED <<wire, answer, nonce>>
  /\ UNCHANGED <<pc, left, contract, fee, outcome, reason, before, pool, chain,
                 displaced>>

\* A connection that fails, a timeout or a gateway's error: once more.
Retry(c) ==
  /\ left[c] > 0
  /\ left' = [left EXCEPT ![c] = left[c] - 1]
  /\ \/ Resend(c)
     \/ pc[c] \in Preparing /\ UNCHANGED <<wire, answer, nonce>>
  /\ UNCHANGED <<pc, contract, fee, outcome, reason, before, pool, chain,
                 displaced>>

\* Faulty variant: silence is taken for a refusal.
SilenceRefuses(c) ==
  /\ left[c] = 0
  /\ \/ pc[c] \in Preparing /\ Finish(c, "unsent", "error")
     \/ pc[c] = "send" /\ Finish(c, "refused", None)

\* The same with no retry left: normalize_response/1.
GiveUp(c) ==
  /\ left[c] = 0
  /\ \/ pc[c] \in Preparing /\ Finish(c, "unsent", "error")
     \/ pc[c] = "send" /\ Finish(c, "lost", None)

\* decode_response/5: the node's result or its error is final.
Answered(c) ==
  /\ pc[c] = "send" /\ answer[c] # None
  /\ Finish(c, answer[c], None)

\* Its last clause, and decode_result/4: a body that is no answer is final too,
\* whether the node or a gateway wrote it.
Garbled(c) ==
  /\ pc[c] = "send"
  /\ Finish(c, "lost", None)

-----------------------------------------------------------------------------
(* The node. *)

\* Whether the pool takes c's transaction with nonce n, and in whose place.
Outbids(c, n) == \A d \in Calls : <<n, d>> \in pool => fee[c] > fee[d]

Takes(c, n) == n >= Len(chain) /\ Outbids(c, n)

Receive(m) ==
  /\ m \in wire
  /\ wire' = wire \ {m}
  /\ IF Takes(m.call, m.nonce)
     THEN /\ pool' = {e \in pool : e[1] # m.nonce} \cup {<<m.nonce, m.call>>}
          /\ displaced' = displaced \cup
               {<<d, m.call>> : d \in {d \in Calls : <<m.nonce, d>> \in pool}}
     ELSE UNCHANGED <<pool, displaced>>
  /\ answer' = IF m.attempt = "old" THEN answer
               ELSE [answer EXCEPT ![m.call] =
                       IF Takes(m.call, m.nonce) THEN "ok" ELSE "refused"]
  /\ UNCHANGED <<pc, left, contract, fee, nonce, outcome, reason, before, chain>>

Mine ==
  /\ \E c \in Calls :
       /\ <<Len(chain), c>> \in pool
       /\ pool' = pool \ {<<Len(chain), c>>}
       /\ chain' = Append(chain, c)
  /\ UNCHANGED <<callVars, wire, displaced>>

-----------------------------------------------------------------------------

\* A call that waits is answered, or its receive_timeout passes.
Work(c) ==
  \/ GasParameters(c) \/ GetNonce(c) \/ Try(c) \/ TryReverts(c)
  \/ Retry(c) \/ GiveUp(c) \/ Answered(c)

Next ==
  \/ \E c \in Calls : Begin(c) \/ Work(c) \/ PrepareFails(c) \/ Garbled(c)
  \/ \E m \in wire : Receive(m)
  \/ Mine

Fairness == (\A c \in Calls : WF_vars(Work(c))) /\ WF_vars(Mine)

Spec == Init /\ [][Next]_vars /\ Fairness

-----------------------------------------------------------------------------
(* Properties. *)

Nonces == Nat \cup {None}
Copies == [call : Calls, nonce : Nat, attempt : {"current", "old"}]

\* The values of the variables.
TypeOK ==
  /\ pc \in [Calls -> Preparing \cup {"idle", "send", "done"}]
  /\ left \in [Calls -> 0..MaxRetries]
  /\ contract \in [Calls -> Contracts]
  /\ fee \in [Calls -> Fees \cup {None}] /\ nonce \in [Calls -> Nonces]
  /\ answer \in [Calls -> {None, "ok", "refused"}]
  /\ outcome \in [Calls -> {None, "ok", "refused", "lost", "unsent"}]
  /\ reason \in [Calls -> {None, "reverted", "error"}]
  /\ wire \subseteq Copies /\ pool \subseteq Nat \X Calls
  /\ chain \in Seq(Calls)
  /\ before \in [Calls -> SUBSET Calls] /\ displaced \subseteq Calls \X Calls

Mined(c) == \E i \in DOMAIN chain : chain[i] = c

\* However often its request was repeated, and whatever copies were delayed, a
\* call of execute_trx/3 puts at most one transaction on the chain.
OncePerCall ==
  \A i, j \in DOMAIN chain : chain[i] = chain[j] => i = j

\* No transaction waits for a nonce that nobody uses: between the chain and the
\* nonce of a call every nonce is taken.
NoGap ==
  \A c \in Calls : nonce[c] # None =>
    \A m \in Len(chain)..nonce[c] : m < nonce[c] => Occupied(m)

\* With block_number: "pending" a transaction answered :ok is not replaced by
\* that of a call that began after the answer.  With "latest" it may be.
OkStays ==
  Selector = "pending" => \A e \in displaced : e[1] \notin before[e[2]]

\* Calls whose transaction the node took at some time.
Accepted ==
  {c \in Calls : (\E e \in pool : e[2] = c) \/ Mined(c)
                 \/ \E e \in displaced : e[1] = c}

\* The answers of execute_trx/3 mean what Broadcast says they mean, whatever
\* is lost, late or repeated.
Abs == INSTANCE Broadcast WITH accepted <- Accepted, Repeats <- (MaxRetries > 0)
Concludes == Abs!Spec

\* Every call returns: requests end and retries are bounded.
EveryCallAnswers == \A c \in Calls : pc[c] # "idle" ~> pc[c] = "done"

\* What was answered :ok is mined in the end, unless another call outbids it.
OkIsMined ==
  \A c \in Calls : outcome[c] = "ok" ~> (Mined(c) \/ \E e \in displaced : e[1] = c)

\* The documentation's :verify "runs eth_call first to surface revert reasons
\* before broadcasting": a call ends with a revert only if its transaction,
\* which the signer sends, would revert.
RevertIsTheSigners ==
  \A c \in Calls : reason[c] = "reverted" => Signer \notin contract[c]

=============================================================================
