------------------------------- MODULE TopUp -------------------------------
(***************************************************************************)
(* Faucet.TopUp: several calls of ensure_min_balance/4 fund one address    *)
(* through one source.  Each reads the balance, requests a dispense, waits *)
(* until it is confirmed and reads again.  The calls of a run that keep    *)
(* the default `lock: true` take turns under :global.trans/2.              *)
(*                                                                         *)
(* A dispense that nobody waits for any more stays in flight: the chain    *)
(* lands it or drops it whenever it likes.                                 *)
(***************************************************************************)
EXTENDS Naturals, FiniteSets, FiniteSetsExt

CONSTANTS
  Calls,     \* calls of ensure_min_balance for one source and address
  Minimums,  \* the minimums they ask for
  Balances,  \* the balances the address may start with
  Budget,    \* :max_requests
  Drip,      \* what a provider with a fixed amount dispenses
  MaxSpends, \* bound: times the owner of the address spends from it
  None       \* nobody holds the lock

ASSUME CallsFinite == IsFiniteSet(Calls) /\ None \notin Calls
ASSUME MinimumsAreNat == Minimums \subseteq Nat
ASSUME BalancesAreNat == Balances \subseteq Nat
ASSUME BudgetPositive == Budget \in Nat \ {0}  \* checked by max_requests/1
ASSUME DripPositive == Drip \in Nat \ {0}
ASSUME SpendsAreNat == MaxSpends \in Nat

VARIABLES
  minimum,   \* argument of each call
  locked,    \* the calls with `lock: true`
  receipts,  \* the source exports wait_confirmed/3
  pc,        \* where each call stands
  used,      \* requests spent, per call
  before,    \* the balance each call read before its request
  holder,    \* holder of the :global lock
  balance,   \* of the address, on chain
  pending,   \* dispenses made and neither landed nor reverted
  reverted,  \* dispenses whose transaction reverted
  made,      \* every dispense made
  gaveUp,    \* calls that ended without an answer to their last request
  start,     \* the balance at the beginning
  spends     \* times the owner has spent

options == <<minimum, locked, receipts, start>>
chain == <<balance, pending, reverted, made>>
vars == <<options, pc, used, before, holder, chain, gaveUp, spends>>

InLoop == {"reading", "funding", "confirming"}
Results == {"ok", "exhausted", "reverted", "timeout", "failed",
            "killed"}

\* A dispense is named by the call and by which of its requests it answers.
Dispenses == [call: Calls, nth: Nat, amount: Nat]

Init ==
  /\ minimum \in [Calls -> Minimums]
  /\ locked \in SUBSET Calls
  /\ receipts \in BOOLEAN
  /\ pc = [c \in Calls |-> "called"]
  /\ used = [c \in Calls |-> 0]
  /\ before = [c \in Calls |-> 0]
  /\ holder = None
  /\ balance \in Balances
  /\ start = balance
  /\ pending = {} /\ reverted = {} /\ made = {}
  /\ gaveUp = {}
  /\ spends = 0

-----------------------------------------------------------------------------
(* One call. *)

\* Faulty variant: the lock is taken without looking at its holder.
EnterUnlocked(c) ==
  /\ pc[c] = "called"
  /\ holder' = IF c \in locked THEN c ELSE holder
  /\ pc' = [pc EXCEPT ![c] = "reading"]
  /\ UNCHANGED <<options, used, before, chain, gaveUp, spends>>

\* run/4 starts the loop, inside :global.trans unless `lock: false`.
Enter(c) ==
  /\ pc[c] = "called"
  /\ c \in locked => holder = None
  /\ holder' = IF c \in locked THEN c ELSE holder
  /\ pc' = [pc EXCEPT ![c] = "reading"]
  /\ UNCHANGED <<options, used, before, chain, gaveUp, spends>>

\* Faulty variant: a call leaves and keeps the lock.
ReturnHolding(c, result) ==
  /\ pc' = [pc EXCEPT ![c] = result]
  /\ UNCHANGED <<options, used, before, holder, spends>>

\* The call ends; :global.trans gives the lock back.
Return(c, result) ==
  /\ pc' = [pc EXCEPT ![c] = result]
  /\ holder' = IF holder = c THEN None ELSE holder
  /\ UNCHANGED <<options, used, before, spends>>

\* Faulty variant: the budget is compared after one request too many.
ReadOverBudget(c) ==
  /\ pc[c] = "reading"
  /\ \/ /\ balance >= minimum[c]
        /\ Return(c, "ok")
     \/ /\ balance < minimum[c] /\ used[c] > Budget
        /\ Return(c, "exhausted")
     \/ /\ balance < minimum[c] /\ used[c] <= Budget
        /\ pc' = [pc EXCEPT ![c] = "funding"]
        /\ before' = [before EXCEPT ![c] = balance]
        /\ UNCHANGED <<options, used, holder, spends>>
  /\ UNCHANGED <<chain, gaveUp>>

\* loop/6 reads the balance and decides.
Read(c) ==
  /\ pc[c] = "reading"
  /\ \/ /\ balance >= minimum[c]
        /\ Return(c, "ok")
     \/ /\ balance < minimum[c] /\ used[c] >= Budget
        /\ Return(c, "exhausted")
     \/ /\ balance < minimum[c] /\ used[c] < Budget
        /\ pc' = [pc EXCEPT ![c] = "funding"]
        /\ before' = [before EXCEPT ![c] = balance]
        /\ UNCHANGED <<options, used, holder, spends>>
  /\ UNCHANGED <<chain, gaveUp>>

\* source.balance/2 fails.
ReadFails(c) ==
  /\ pc[c] = "reading"
  /\ Return(c, "failed")
  /\ UNCHANGED <<chain, gaveUp>>

\* The provider dispenses its fixed amount or the :deficit it was given.
Dispensed(c) ==
  \E amount \in {Drip, minimum[c] - before[c]} :
    LET d == [call |-> c, nth |-> used[c] + 1, amount |-> amount] IN
    /\ made' = made \cup {d}
    /\ pending' = pending \cup {d}
    /\ UNCHANGED <<balance, reverted>>

Fund(c) ==
  /\ pc[c] = "funding"
  /\ Dispensed(c)
  /\ pc' = [pc EXCEPT ![c] = "confirming"]
  /\ UNCHANGED <<options, used, before, holder, gaveUp, spends>>

\* source.fund/2 fails, and the request may have reached the provider.
FundFails(c) ==
  /\ pc[c] = "funding"
  /\ Return(c, "failed")
  /\ \/ Dispensed(c) /\ gaveUp' = gaveUp \cup {c}
     \/ UNCHANGED <<chain, gaveUp>>

\* The dispense the call is waiting for.
Awaited(c) == {d \in made : d.call = c /\ d.nth = used[c] + 1}

\* wait_confirmed/3 has a receipt with status 0x1, or the balance is above
\* the reading before the request.
Landed(c) ==
  IF receipts THEN Awaited(c) \cap (pending \cup reverted) = {}
              ELSE balance > before[c]

RevertSeen(c) == receipts /\ Awaited(c) \cap reverted # {}

\* Faulty variant: a dispense is taken for granted once it was accepted.
ConfirmedUnseen(c) ==
  /\ pc[c] = "confirming"
  /\ used' = [used EXCEPT ![c] = @ + 1]
  /\ pc' = [pc EXCEPT ![c] = "reading"]
  /\ UNCHANGED <<options, before, holder, chain, gaveUp, spends>>

Confirmed(c) ==
  /\ pc[c] = "confirming"
  /\ Landed(c)
  /\ used' = [used EXCEPT ![c] = @ + 1]
  /\ pc' = [pc EXCEPT ![c] = "reading"]
  /\ UNCHANGED <<options, before, holder, chain, gaveUp, spends>>

\* A reverted dispense spends one request; only the last one is fatal.
Reverts(c) ==
  /\ pc[c] = "confirming"
  /\ RevertSeen(c)
  /\ \/ /\ used[c] + 1 < Budget
        /\ used' = [used EXCEPT ![c] = @ + 1]
        /\ pc' = [pc EXCEPT ![c] = "reading"]
        /\ UNCHANGED <<options, before, holder, spends>>
     \/ /\ used[c] + 1 >= Budget
        /\ Return(c, "reverted")
  /\ UNCHANGED <<chain, gaveUp>>

\* Faulty variant: a dispense that reverted is waited for past the deadline.
TimesOutNever(c) ==
  /\ pc[c] = "confirming"
  /\ ~Landed(c) /\ ~RevertSeen(c) /\ pending = {}
  /\ Return(c, "timeout")
  /\ gaveUp' = gaveUp \cup {c}
  /\ UNCHANGED chain

\* Wait.until ends at its deadline, after a probe that still said :retry.  The
\* dispense stays in flight.
TimesOut(c) ==
  /\ pc[c] = "confirming"
  /\ ~Landed(c) /\ ~RevertSeen(c)
  /\ Return(c, "timeout")
  /\ gaveUp' = gaveUp \cup {c}
  /\ UNCHANGED chain

\* A probe answers {:error, reason}, whatever became of the dispense.
ProbeFails(c) ==
  /\ pc[c] = "confirming"
  /\ Return(c, "failed")
  /\ gaveUp' = gaveUp \cup {c}
  /\ UNCHANGED chain

\* The calling process is killed; :global drops the locks of a dead process.
Killed(c) ==
  /\ pc[c] \in InLoop
  /\ Return(c, "killed")
  /\ \/ pc[c] = "reading" /\ UNCHANGED <<chain, gaveUp>>
     \/ pc[c] = "funding" /\ Dispensed(c) /\ gaveUp' = gaveUp \cup {c}
     \/ pc[c] # "reading" /\ UNCHANGED chain /\ gaveUp' = gaveUp \cup {c}

-----------------------------------------------------------------------------
(* The chain, and the owner of the address. *)

Land(d) ==
  /\ pending' = pending \ {d}
  /\ balance' = balance + d.amount
  /\ UNCHANGED <<options, pc, used, before, holder, reverted, made, gaveUp, spends>>

Revert(d) ==
  /\ pending' = pending \ {d}
  /\ reverted' = reverted \cup {d}
  /\ UNCHANGED <<options, pc, used, before, holder, balance, made, gaveUp, spends>>

\* The tests that asked for the money spend it.
Spend(amount) ==
  /\ spends < MaxSpends
  /\ spends' = spends + 1
  /\ balance' = balance - amount
  /\ UNCHANGED <<options, pc, used, before, holder, pending, reverted, made, gaveUp>>

-----------------------------------------------------------------------------
Progress(c) ==
  \/ Enter(c)
  \/ Read(c)
  \/ Fund(c)
  \/ Confirmed(c)
  \/ Reverts(c)
  \/ TimesOut(c)

Fault(c) ==
  \/ ReadFails(c)
  \/ FundFails(c)
  \/ ProbeFails(c)
  \/ Killed(c)

Next ==
  \/ \E c \in Calls : Progress(c) \/ Fault(c)
  \/ \E d \in pending : Land(d) \/ Revert(d)
  \/ \E amount \in 1..balance : Spend(amount)

\* A call that can go on does: every request has a timeout, every wait a
\* deadline, and a call waiting for the lock retries for ever.  No fault is
\* assumed to happen, and nothing of the provider, the chain or the owner.
Fairness == \A c \in Calls : WF_vars(Progress(c))

Spec == Init /\ [][Next]_vars /\ Fairness

-----------------------------------------------------------------------------
(* Properties. *)

TypeOK ==
  /\ minimum \in [Calls -> Minimums]
  /\ locked \subseteq Calls
  /\ receipts \in BOOLEAN
  /\ pc \in [Calls -> {"called"} \cup InLoop \cup Results]
  /\ used \in [Calls -> 0..Budget]
  /\ before \in [Calls -> Nat]
  /\ holder \in Calls \cup {None}
  /\ balance \in Nat
  /\ made \subseteq Dispenses
  /\ pending \subseteq made /\ reverted \subseteq made
  /\ gaveUp \subseteq Calls
  /\ start \in Balances
  /\ spends \in 0..MaxSpends

\* The calls that take turns.
TakingTurns == locked = Calls

\* "Serialized per address": when every call takes the lock, the dispenses in
\* flight are one per call that gave up on its own, and one of the holder.
NoPileUp ==
  TakingTurns => Cardinality(pending) <= Cardinality(gaveUp) + 1

\* What the dispenses in flight add up to, counted unit by unit.
Units(d) == {d} \X (1..d.amount)
InFlight == Cardinality(UNION {Units(d) : d \in pending})

\* The highest minimum, and the largest dispense.
Most == Max({0} \cup {minimum[c] : c \in Calls})
Large == Max({Drip, Most})

\* A failed or killed call costs one dispense at most: what the address holds
\* and has coming stays below the highest minimum plus one dispense for the
\* holder and one for each call that gave up.
NeverOverfunded ==
  TakingTurns =>
    balance + InFlight <=
      Max({start, Most + Large * (Cardinality(gaveUp) + 1) - 1})

\* The balance read is not stale when the request goes out: unless a call gave
\* up on a dispense, nothing is requested when the balance already suffices.
NothingRequestedWhenSufficient ==
  [][\A d \in made' \ made :
       TakingTurns /\ gaveUp = {} => balance < minimum[d.call]]_vars

\* Every call returns, whether or not its dispense ever lands, and whoever was
\* killed while holding the lock.  (A call that has returned stays so: that all
\* have at some time is that each does.)
EveryCallReturns ==
  <>(\A c \in Calls : pc[c] \in Results)

-----------------------------------------------------------------------------
(* The inductive invariants behind NoPileUp and NeverOverfunded. *)

\* No more dispenses are in flight than calls gave up on.
Settled == Cardinality(pending) <= Cardinality(gaveUp)

\* A call in its round has budget for it and a balance that is too low; the
\* dispense of this round is made when the round reaches confirm/5.
RoundsTracked ==
  /\ \A c \in gaveUp : pc[c] \in Results
  /\ \A d \in made :
       /\ pc[d.call] # "called"
       /\ d.nth <= used[d.call] + 1
       /\ pc[d.call] \in {"reading", "funding"} => d.nth <= used[d.call]
  /\ \A c \in Calls : pc[c] \in {"funding", "confirming"} =>
       used[c] < Budget /\ before[c] < minimum[c]

\* The lock's holder is the one call in the loop.
OneInLoop == \A c \in Calls : pc[c] \in InLoop <=> holder = c

\* A balance that rose since it was read is a dispense that has landed.
RiseExplained ==
  \A c \in Calls : pc[c] = "funding" /\ balance > before[c] =>
    Cardinality(pending) + 1 <= Cardinality(gaveUp)

\* While the holder confirms, its own dispense may be in flight as well, until
\* what the holder looks at says otherwise.
ConfirmSettles ==
  \A c \in Calls : pc[c] = "confirming" =>
    /\ Cardinality(pending) <= Cardinality(gaveUp) + 1
    /\ receipts /\ Awaited(c) \cap pending = {} => Settled
    /\ receipts /\ Awaited(c) \cap reverted # {} => Settled
    /\ ~receipts /\ balance > before[c] => Settled

\* No dispense exceeds the largest; and a call about to request one has read a
\* balance that leaves room for it.
FundsBounded ==
  /\ \A d \in made : d.amount <= Large
  /\ TakingTurns =>
       /\ \/ balance + InFlight <= start
          \/ balance + InFlight < Most + Large * (Cardinality(gaveUp) + 1)
       /\ \A c \in Calls : pc[c] = "funding" =>
            balance + InFlight < Most + Large * Cardinality(gaveUp)

TurnsAccounted ==
  /\ TypeOK /\ IsFiniteSet(made) /\ RoundsTracked
  /\ TakingTurns => /\ OneInLoop /\ RiseExplained /\ ConfirmSettles
                    /\ (\A c \in Calls : pc[c] # "confirming") => Settled

=============================================================================
