---------------------------- MODULE TopUpProofs ----------------------------
(***************************************************************************)
(* Proofs about TopUp for any number of calls, any minimums, any budget    *)
(* and any drip: calls that take turns under the lock do not pile up       *)
(* dispenses, and request nothing that the balance makes unnecessary.      *)
(***************************************************************************)
EXTENDS TopUp, TLAPS, FiniteSetTheorems, WellFoundedInduction

\* The dispenses in flight and the calls that gave up can be counted.
LEMMA Counted ==
  ASSUME TypeOK, IsFiniteSet(made)
  PROVE  /\ IsFiniteSet(pending) /\ Cardinality(pending) \in Nat
         /\ IsFiniteSet(gaveUp) /\ Cardinality(gaveUp) \in Nat
<1>1. IsFiniteSet(pending) /\ IsFiniteSet(gaveUp)
  BY FS_Subset, CallsFinite DEF TypeOK
<1> QED BY <1>1, FS_CardinalityType

\* A dispense that is made is one more in flight, at most.
LEMMA DispensedOne ==
  ASSUME TypeOK, IsFiniteSet(made), NEW c \in Calls, before[c] < minimum[c],
         Dispensed(c)
  PROVE  /\ made' \subseteq Dispenses /\ pending' \subseteq made'
         /\ IsFiniteSet(made')
         /\ Cardinality(pending') <= Cardinality(pending) + 1
         /\ UNCHANGED <<balance, reverted>>
         /\ made \subseteq made'
         /\ \A d \in made' \ made : d.call = c /\ d.nth = used[c] + 1
         /\ \E d \in pending' : d \in made' /\ d.call = c /\ d.nth = used[c] + 1
<1>1. before[c] \in Nat /\ minimum[c] \in Nat /\ used[c] \in Nat /\ Drip \in Nat
  <2>1. minimum[c] \in Minimums /\ before[c] \in Nat /\ used[c] \in 0..Budget
    BY DEF TypeOK
  <2>2. minimum[c] \in Nat
    BY <2>1, MinimumsAreNat, Zenon
  <2>3. used[c] \in Nat
    BY <2>1, BudgetPositive
  <2> QED BY <2>1, <2>2, <2>3, DripPositive
<1>2. PICK amount \in {Drip, minimum[c] - before[c]} :
        LET d == [call |-> c, nth |-> used[c] + 1, amount |-> amount] IN
        /\ made' = made \cup {d}
        /\ pending' = pending \cup {d}
        /\ UNCHANGED <<balance, reverted>>
  BY DEF Dispensed
<1> DEFINE d == [call |-> c, nth |-> used[c] + 1, amount |-> amount]
<1>3. amount \in Nat
  BY <1>1
<1>4. d \in Dispenses /\ d.call = c /\ d.nth = used[c] + 1
  BY <1>1, <1>3 DEF Dispenses
<1> HIDE DEF d
<1>5. made' = made \cup {d} /\ pending' = pending \cup {d}
  BY <1>2 DEF d
<1>6. IsFiniteSet(made') /\ Cardinality(pending') <= Cardinality(pending) + 1
  <2>1. IsFiniteSet(pending) /\ Cardinality(pending) \in Nat
    BY Counted
  <2>2. IsFiniteSet(made')
    BY <1>5, FS_AddElement
  <2>3. \/ Cardinality(pending \cup {d}) = Cardinality(pending)
        \/ Cardinality(pending \cup {d}) = Cardinality(pending) + 1
    BY <2>1, FS_AddElement
  <2> QED BY <1>5, <2>1, <2>2, <2>3
<1>7. \E e \in pending' : e \in made' /\ e.call = c /\ e.nth = used[c] + 1
  BY <1>4, <1>5
<1> QED BY <1>2, <1>4, <1>5, <1>6, <1>7 DEF TypeOK

\* A call that gives up is one more, and leaves what the others did alone.
LEMMA GivesUp ==
  ASSUME TypeOK, IsFiniteSet(made), NEW c \in Calls, c \notin gaveUp
  PROVE  Cardinality(gaveUp \cup {c}) = Cardinality(gaveUp) + 1
<1>1. IsFiniteSet(gaveUp)
  BY Counted
<1> QED BY <1>1, FS_AddElement

\* A dispense that lands or reverts is one fewer in flight.
LEMMA OneFewer ==
  ASSUME TypeOK, IsFiniteSet(made), NEW d \in pending
  PROVE  Cardinality(pending \ {d}) = Cardinality(pending) - 1
BY Counted, FS_RemoveElement

-----------------------------------------------------------------------------
\* A run of calls starts with nothing requested.
LEMMA InitTurns == Init => TurnsAccounted
<1> SUFFICES ASSUME Init PROVE TurnsAccounted
  OBVIOUS
<1> USE DEF Init
<1>1. TypeOK
  BY BalancesAreNat, SpendsAreNat, BudgetPositive DEF TypeOK
<1>2. IsFiniteSet(made) /\ Cardinality(pending) = 0 /\ Cardinality(gaveUp) = 0
  BY FS_EmptySet
<1>3. RoundsTracked
  BY DEF RoundsTracked
<1>4. OneInLoop /\ RiseExplained /\ ConfirmSettles /\ Settled
  BY <1>2, CallsFinite DEF OneInLoop, RiseExplained, ConfirmSettles, Settled, InLoop
<1> QED BY <1>1, <1>2, <1>3, <1>4 DEF TurnsAccounted

\* Every step keeps the types, among them used within the budget.
LEMMA TypeStep ==
  ASSUME TurnsAccounted, [Next]_vars
  PROVE  TypeOK' /\ IsFiniteSet(made')
<1> USE DEF InLoop, Results
<1>0. TypeOK /\ IsFiniteSet(made) /\ RoundsTracked
  BY DEF TurnsAccounted
<1>1. ASSUME NEW c \in Calls, Enter(c) PROVE TypeOK' /\ IsFiniteSet(made')
  BY <1>0, <1>1 DEF TypeOK, Enter, options, chain
<1>2. ASSUME NEW c \in Calls, Read(c) PROVE TypeOK' /\ IsFiniteSet(made')
  BY <1>0, <1>2 DEF TypeOK, Read, Return, options, chain
<1>3. ASSUME NEW c \in Calls, ReadFails(c) PROVE TypeOK' /\ IsFiniteSet(made')
  BY <1>0, <1>3 DEF TypeOK, ReadFails, Return, options, chain
<1>4. ASSUME NEW c \in Calls, Fund(c) PROVE TypeOK' /\ IsFiniteSet(made')
  <2>1. before[c] < minimum[c] /\ Dispensed(c)
    BY <1>0, <1>4 DEF Fund, RoundsTracked
  <2> QED BY <1>0, <1>4, <2>1, DispensedOne DEF TypeOK, Fund, options
<1>5. ASSUME NEW c \in Calls, FundFails(c) PROVE TypeOK' /\ IsFiniteSet(made')
  <2>1. before[c] < minimum[c]
    BY <1>0, <1>5 DEF FundFails, RoundsTracked
  <2>2. CASE Dispensed(c) /\ gaveUp' = gaveUp \cup {c}
    BY <1>0, <1>5, <2>1, <2>2, DispensedOne DEF TypeOK, FundFails, Return, options
  <2>3. CASE UNCHANGED <<chain, gaveUp>>
    BY <1>0, <1>5, <2>3 DEF TypeOK, FundFails, Return, options, chain
  <2> QED BY <1>5, <2>2, <2>3 DEF FundFails
<1>6. ASSUME NEW c \in Calls, Confirmed(c) PROVE TypeOK' /\ IsFiniteSet(made')
  <2>1. used[c] + 1 \in 0..Budget
    BY <1>0, <1>6, BudgetPositive DEF Confirmed, RoundsTracked, TypeOK
  <2> QED BY <1>0, <1>6, <2>1 DEF TypeOK, Confirmed, options, chain
<1>7. ASSUME NEW c \in Calls, Reverts(c) PROVE TypeOK' /\ IsFiniteSet(made')
  <2>1. used[c] + 1 \in 0..Budget
    BY <1>0, <1>7, BudgetPositive DEF Reverts, RoundsTracked, TypeOK
  <2> QED BY <1>0, <1>7, <2>1 DEF TypeOK, Reverts, Return, options, chain
<1>8. ASSUME NEW c \in Calls, TimesOut(c) PROVE TypeOK' /\ IsFiniteSet(made')
  BY <1>0, <1>8 DEF TypeOK, TimesOut, Return, options, chain
<1>9. ASSUME NEW c \in Calls, ProbeFails(c) PROVE TypeOK' /\ IsFiniteSet(made')
  BY <1>0, <1>9 DEF TypeOK, ProbeFails, Return, options, chain
<1>10. ASSUME NEW c \in Calls, Killed(c) PROVE TypeOK' /\ IsFiniteSet(made')
  <2>1. CASE pc[c] = "funding" /\ Dispensed(c) /\ gaveUp' = gaveUp \cup {c}
    <3>1. before[c] < minimum[c]
      BY <1>0, <2>1 DEF RoundsTracked
    <3> QED BY <1>0, <1>10, <2>1, <3>1, DispensedOne DEF TypeOK, Killed, Return, options
  <2>2. CASE UNCHANGED chain /\ gaveUp' \subseteq gaveUp \cup {c}
    BY <1>0, <1>10, <2>2 DEF TypeOK, Killed, Return, options, chain
  <2> QED BY <1>10, <2>1, <2>2 DEF Killed
<1>11. ASSUME NEW d \in pending, Land(d) PROVE TypeOK' /\ IsFiniteSet(made')
  <2>1. d.amount \in Nat
    BY <1>0 DEF TypeOK, Dispenses
  <2> QED BY <1>0, <1>11, <2>1 DEF TypeOK, Land, options
<1>12. ASSUME NEW d \in pending, Revert(d) PROVE TypeOK' /\ IsFiniteSet(made')
  BY <1>0, <1>12 DEF TypeOK, Revert, options
<1>13. ASSUME NEW amount \in 1..balance, Spend(amount)
       PROVE  TypeOK' /\ IsFiniteSet(made')
  BY <1>0, <1>13, SpendsAreNat DEF TypeOK, Spend, options
<1>14. CASE UNCHANGED vars
  BY <1>0, <1>14 DEF TypeOK, vars, options, chain
<1> QED BY <1>1, <1>2, <1>3, <1>4, <1>5, <1>6, <1>7, <1>8, <1>9, <1>10, <1>11,
           <1>12, <1>13, <1>14 DEF Next, Progress, Fault

\* The dispenses in flight can be counted after a step, too.
LEMMA CountedNext ==
  ASSUME TurnsAccounted, [Next]_vars
  PROVE  Cardinality(pending') \in Nat
<1>1. IsFiniteSet(made') /\ pending' \subseteq made'
  BY TypeStep DEF TypeOK
<1>2. IsFiniteSet(pending')
  BY <1>1, FS_Subset
<1> QED BY <1>2, FS_CardinalityType

\* Every step keeps the rounds within the budget and numbered.
LEMMA RoundsStep ==
  ASSUME TurnsAccounted, [Next]_vars
  PROVE  RoundsTracked'
<1> USE DEF InLoop, Results
<1>0. TypeOK /\ IsFiniteSet(made) /\ RoundsTracked
  BY DEF TurnsAccounted
<1>a. \A d \in made : d.call \in Calls /\ d.nth \in Nat
  BY <1>0 DEF TypeOK, Dispenses
<1>b. \A c \in Calls : used[c] \in Nat
  BY <1>0 DEF TypeOK
<1>1. ASSUME NEW c \in Calls, Enter(c) PROVE RoundsTracked'
  BY <1>0, <1>a, <1>1 DEF TypeOK, RoundsTracked, Enter, options, chain
<1>2. ASSUME NEW c \in Calls, Read(c) PROVE RoundsTracked'
  BY <1>0, <1>a, <1>2 DEF TypeOK, RoundsTracked, Read, Return, options, chain
<1>3. ASSUME NEW c \in Calls, ReadFails(c) PROVE RoundsTracked'
  BY <1>0, <1>a, <1>3 DEF TypeOK, RoundsTracked, ReadFails, Return, options, chain
<1>4. ASSUME NEW c \in Calls, Fund(c) PROVE RoundsTracked'
  <2>1. before[c] < minimum[c] /\ Dispensed(c)
    BY <1>0, <1>4 DEF Fund, RoundsTracked
  <2>2. \A d \in made' : d \in made \/ (d.call = c /\ d.nth = used[c] + 1)
    BY <1>0, <2>1, DispensedOne
  <2> QED BY <1>0, <1>a, <1>4, <2>2 DEF TypeOK, RoundsTracked, Fund, options
<1>5. ASSUME NEW c \in Calls, FundFails(c) PROVE RoundsTracked'
  <2>1. before[c] < minimum[c]
    BY <1>0, <1>5 DEF FundFails, RoundsTracked
  <2>2. \A d \in made' : d \in made \/ (d.call = c /\ d.nth = used[c] + 1)
    BY <1>0, <1>5, <2>1, DispensedOne DEF FundFails, chain
  <2>3. gaveUp' \subseteq gaveUp \cup {c}
    BY <1>5 DEF FundFails
  <2> QED BY <1>0, <1>a, <1>5, <2>2, <2>3
             DEF TypeOK, RoundsTracked, FundFails, Return, options
<1>6. ASSUME NEW c \in Calls, Confirmed(c) PROVE RoundsTracked'
  BY <1>0, <1>a, <1>b, <1>6 DEF TypeOK, RoundsTracked, Confirmed, options, chain
<1>7. ASSUME NEW c \in Calls, Reverts(c) PROVE RoundsTracked'
  BY <1>0, <1>a, <1>b, <1>7 DEF TypeOK, RoundsTracked, Reverts, Return, options, chain
<1>8. ASSUME NEW c \in Calls, TimesOut(c) PROVE RoundsTracked'
  BY <1>0, <1>a, <1>8 DEF TypeOK, RoundsTracked, TimesOut, Return, options, chain
<1>9. ASSUME NEW c \in Calls, ProbeFails(c) PROVE RoundsTracked'
  BY <1>0, <1>a, <1>9 DEF TypeOK, RoundsTracked, ProbeFails, Return, options, chain
<1>10. ASSUME NEW c \in Calls, Killed(c) PROVE RoundsTracked'
  <2>1. \A d \in made' : d \in made \/ (d.call = c /\ d.nth = used[c] + 1)
    BY <1>0, <1>10, DispensedOne DEF Killed, chain, RoundsTracked
  <2>2. gaveUp' \subseteq gaveUp \cup {c}
    BY <1>10 DEF Killed
  <2> QED BY <1>0, <1>a, <1>10, <2>1, <2>2
             DEF TypeOK, RoundsTracked, Killed, Return, options
<1>11. ASSUME NEW d \in pending, Land(d) PROVE RoundsTracked'
  BY <1>0, <1>11 DEF RoundsTracked, Land, options
<1>12. ASSUME NEW d \in pending, Revert(d) PROVE RoundsTracked'
  BY <1>0, <1>12 DEF RoundsTracked, Revert, options
<1>13. ASSUME NEW amount \in 1..balance, Spend(amount) PROVE RoundsTracked'
  BY <1>0, <1>13 DEF RoundsTracked, Spend, options
<1>14. CASE UNCHANGED vars
  BY <1>0, <1>14 DEF RoundsTracked, vars, options, chain
<1> QED BY <1>1, <1>2, <1>3, <1>4, <1>5, <1>6, <1>7, <1>8, <1>9, <1>10, <1>11,
           <1>12, <1>13, <1>14 DEF Next, Progress, Fault

\* Calls that take turns settle what they requested, or give up on it.
LEMMA TurnsStep ==
  ASSUME TurnsAccounted, [Next]_vars, TakingTurns'
  PROVE  /\ OneInLoop' /\ RiseExplained' /\ ConfirmSettles'
         /\ (\A c \in Calls : pc'[c] # "confirming") => Settled'
<1> DEFINE Good == /\ OneInLoop /\ RiseExplained /\ ConfirmSettles
                   /\ (\A c \in Calls : pc[c] # "confirming") => Settled
           p == Cardinality(pending)
           g == Cardinality(gaveUp)
<1> USE DEF InLoop, Results
<1>0. TypeOK /\ IsFiniteSet(made) /\ RoundsTracked
  BY DEF TurnsAccounted
<1>a. locked' = locked /\ TakingTurns
  BY DEF Next, Progress, Fault, Enter, Read, ReadFails, Fund, FundFails,
         Confirmed, Reverts, TimesOut, ProbeFails, Killed, Return, Land,
         Revert, Spend, options, vars, TakingTurns
<1>b. Good /\ locked = Calls
  BY <1>a DEF TurnsAccounted, TakingTurns
<1>c. p \in Nat /\ g \in Nat /\ balance \in Nat /\ None \notin Calls
  BY <1>0, Counted, CallsFinite DEF TypeOK
<1>d. \A c \in Calls : before[c] \in Nat
  BY <1>0 DEF TypeOK
<1>1. ASSUME NEW c \in Calls, Enter(c) PROVE Good'
  BY <1>0, <1>b, <1>c, <1>1
     DEF TypeOK, Enter, options, chain, OneInLoop, RiseExplained, ConfirmSettles,
         Settled, Awaited
<1>2. ASSUME NEW c \in Calls, Read(c) PROVE Good'
  BY <1>0, <1>b, <1>c, <1>2
     DEF TypeOK, Read, Return, options, chain, OneInLoop, RiseExplained,
         ConfirmSettles, Settled, Awaited
<1>3. ASSUME NEW c \in Calls, ReadFails(c) PROVE Good'
  BY <1>0, <1>b, <1>c, <1>3
     DEF TypeOK, ReadFails, Return, options, chain, OneInLoop, RiseExplained,
         ConfirmSettles, Settled, Awaited
<1>4. ASSUME NEW c \in Calls, Fund(c) PROVE Good'
  <2>1. /\ before[c] < minimum[c] /\ Dispensed(c) /\ pc[c] = "funding"
        /\ holder = c /\ UNCHANGED <<holder, used, before, gaveUp, receipts, locked>>
        /\ pc' = [pc EXCEPT ![c] = "confirming"]
    BY <1>0, <1>b, <1>4 DEF Fund, RoundsTracked, options, OneInLoop
  <2>2. /\ UNCHANGED <<balance, reverted>> /\ p' <= p + 1
        /\ \A d \in made' \ made : d.call = c /\ d.nth = used[c] + 1
        /\ \E d \in pending' : d \in made' /\ d.call = c /\ d.nth = used[c] + 1
    BY <1>0, <2>1, DispensedOne
  <2>3. p' \in Nat
    BY CountedNext
  <2>4. \A d \in Calls : pc[d] # "confirming"
    BY <1>b, <2>1 DEF OneInLoop
  <2>5. Settled /\ (balance > before[c] => p + 1 <= g)
    BY <1>b, <2>1, <2>4 DEF RiseExplained
  <2>6. Awaited(c)' \cap pending' # {} /\ Awaited(c)' \cap reverted' = {}
    <3>1. \A d \in made : d.call = c => d.nth <= used[c] /\ d.nth \in Nat
      BY <1>0, <2>1 DEF RoundsTracked, TypeOK, Dispenses
    <3>2. used[c] \in Nat /\ reverted \subseteq made
      BY <1>0, BudgetPositive DEF TypeOK
    <3>3. \A d \in reverted : d \in made /\ ~(d.call = c /\ d.nth = used[c] + 1)
      BY <3>1, <3>2
    <3> QED BY <2>1, <2>2, <3>3 DEF Awaited
  <2>7. ConfirmSettles'
    <3> SUFFICES ASSUME NEW d \in Calls, pc'[d] = "confirming"
                 PROVE  /\ p' <= g' + 1
                        /\ receipts' /\ Awaited(d)' \cap pending' = {} => Settled'
                        /\ receipts' /\ Awaited(d)' \cap reverted' # {} => Settled'
                        /\ ~receipts' /\ balance' > before'[d] => Settled'
      BY DEF ConfirmSettles
    <3>1. d = c
      BY <1>0, <2>1, <2>4 DEF TypeOK
    <3> QED BY <1>c, <2>1, <2>2, <2>3, <2>5, <2>6, <3>1 DEF Settled
  <2>8. OneInLoop'
    BY <1>0, <1>b, <2>1 DEF TypeOK, OneInLoop
  <2>9. RiseExplained' /\ pc'[c] = "confirming"
    BY <1>0, <1>b, <2>1, <2>8 DEF TypeOK, OneInLoop, RiseExplained
  <2> QED BY <2>7, <2>8, <2>9
\* A call leaves the loop and makes no request on its way out.
<1>e. ASSUME NEW c \in Calls, pc[c] \in InLoop, NEW result \in Results,
             Return(c, result), UNCHANGED chain,
             \/ gaveUp' = gaveUp /\ Settled
             \/ gaveUp' = gaveUp \cup {c}
      PROVE  Good'
  <2>1. c \notin gaveUp /\ holder = c
    BY <1>0, <1>b, <1>e DEF RoundsTracked, OneInLoop
  <2>2. g' = g \/ g' = g + 1
    BY <1>0, <1>e, <2>1, GivesUp
  <2>3. p' = p
    BY <1>e DEF chain
  <2>4. Settled'
    BY <1>0, <1>b, <1>c, <1>e, <2>1, <2>3, GivesUp
       DEF Settled, ConfirmSettles, RiseExplained, OneInLoop
  <2>5. \A d \in Calls : pc'[d] \notin InLoop
    BY <1>0, <1>b, <1>e, <2>1 DEF TypeOK, Return, OneInLoop
  <2>6. holder' = None
    BY <1>e, <2>1 DEF Return
  <2> QED BY <1>c, <2>4, <2>5, <2>6 DEF OneInLoop, RiseExplained, ConfirmSettles
\* A call leaves the loop, and its last request reached the provider.
<1>f. ASSUME NEW c \in Calls, pc[c] = "funding", NEW result \in Results,
             Return(c, result), Dispensed(c), gaveUp' = gaveUp \cup {c}
      PROVE  Good'
  <2>1. c \notin gaveUp /\ holder = c /\ before[c] < minimum[c]
    BY <1>0, <1>b, <1>f DEF RoundsTracked, OneInLoop
  <2>2. g' = g + 1
    BY <1>0, <1>f, <2>1, GivesUp
  <2>3. p' <= p + 1 /\ p' \in Nat
    BY <1>0, <1>f, <2>1, DispensedOne, CountedNext
  <2>4. Settled
    BY <1>b, <1>f, <2>1 DEF OneInLoop
  <2>5. \A d \in Calls : pc'[d] \notin InLoop
    BY <1>0, <1>b, <1>f, <2>1 DEF TypeOK, Return, OneInLoop
  <2>6. holder' = None
    BY <1>f, <2>1 DEF Return
  <2> QED BY <1>c, <2>2, <2>3, <2>4, <2>5, <2>6
             DEF OneInLoop, RiseExplained, ConfirmSettles, Settled
<1>g. ASSUME NEW c \in Calls, pc[c] \in {"reading", "funding"} PROVE Settled
  BY <1>b, <1>g DEF OneInLoop
<1>5. ASSUME NEW c \in Calls, FundFails(c) PROVE Good'
  BY <1>5, <1>e, <1>f, <1>g DEF FundFails
<1>6. ASSUME NEW c \in Calls, Confirmed(c) PROVE Good'
  <2>1. Settled /\ pc[c] = "confirming" /\ holder = c
    BY <1>b, <1>6 DEF Confirmed, Landed, ConfirmSettles, OneInLoop
  <2>2. /\ UNCHANGED <<pending, gaveUp, holder>>
        /\ pc' = [pc EXCEPT ![c] = "reading"]
    BY <1>6 DEF Confirmed, chain
  <2>3. \A d \in Calls : pc'[d] \notin {"funding", "confirming"}
    BY <1>0, <1>b, <2>1, <2>2 DEF TypeOK, OneInLoop
  <2> QED BY <1>0, <1>b, <2>1, <2>2, <2>3
             DEF TypeOK, OneInLoop, RiseExplained, ConfirmSettles, Settled
<1>7. ASSUME NEW c \in Calls, Reverts(c) PROVE Good'
  <2>1. Settled /\ pc[c] = "confirming" /\ holder = c
    BY <1>b, <1>7 DEF Reverts, RevertSeen, ConfirmSettles, OneInLoop
  <2>2. UNCHANGED <<chain, gaveUp>>
    BY <1>7 DEF Reverts
  <2>3. CASE pc' = [pc EXCEPT ![c] = "reading"] /\ holder' = holder
    <3>1. \A d \in Calls : pc'[d] \notin {"funding", "confirming"}
      BY <1>0, <1>b, <2>1, <2>3 DEF TypeOK, OneInLoop
    <3> QED BY <1>0, <1>b, <2>1, <2>2, <2>3, <3>1
               DEF TypeOK, OneInLoop, RiseExplained, ConfirmSettles, Settled, chain
  <2>4. CASE Return(c, "reverted")
    BY <1>e, <2>1, <2>2, <2>4
  <2> QED BY <1>7, <2>3, <2>4 DEF Reverts
<1>8. ASSUME NEW c \in Calls, TimesOut(c) PROVE Good'
  BY <1>8, <1>e DEF TimesOut
<1>9. ASSUME NEW c \in Calls, ProbeFails(c) PROVE Good'
  BY <1>9, <1>e DEF ProbeFails
<1>10. ASSUME NEW c \in Calls, Killed(c) PROVE Good'
  <2>1. CASE pc[c] = "reading" /\ UNCHANGED <<chain, gaveUp>>
    BY <1>10, <1>e, <1>g, <2>1 DEF Killed
  <2>2. CASE pc[c] = "funding" /\ Dispensed(c) /\ gaveUp' = gaveUp \cup {c}
    BY <1>10, <1>f, <2>2 DEF Killed
  <2>3. CASE pc[c] # "reading" /\ UNCHANGED chain /\ gaveUp' = gaveUp \cup {c}
    BY <1>10, <1>e, <2>3 DEF Killed
  <2> QED BY <1>10, <2>1, <2>2, <2>3 DEF Killed
\* The chain settles a dispense.
<1>h. ASSUME NEW d \in pending, pending' = pending \ {d},
             UNCHANGED <<options, pc, used, before, holder, made, gaveUp>>,
             reverted' \subseteq reverted \cup {d}
      PROVE  Good'
  <2>1. p' = p - 1
    BY <1>0, <1>h, OneFewer
  <2>2. OneInLoop'
    BY <1>b, <1>h DEF OneInLoop
  <2>3. RiseExplained'
    <3>1. \A c \in Calls : pc[c] = "funding" => Settled
      BY <1>g
    <3> QED BY <1>c, <1>h, <2>1, <3>1 DEF RiseExplained, Settled
  <2>4. ConfirmSettles'
    <3>1. \A c \in Calls : pc[c] = "confirming" => p <= g + 1
      BY <1>b DEF ConfirmSettles
    <3> QED BY <1>c, <1>h, <2>1, <3>1 DEF ConfirmSettles, Settled
  <2> QED BY <1>b, <1>c, <1>h, <2>1, <2>2, <2>3, <2>4 DEF Settled
<1>11. ASSUME NEW d \in pending, Land(d) PROVE Good'
  BY <1>11, <1>h DEF Land
<1>12. ASSUME NEW d \in pending, Revert(d) PROVE Good'
  BY <1>12, <1>h DEF Revert
<1>13. ASSUME NEW amount \in 1..balance, Spend(amount) PROVE Good'
  <2>1. /\ UNCHANGED <<options, pc, used, before, holder, pending, reverted, made, gaveUp>>
        /\ balance' <= balance /\ balance' \in Nat
    BY <1>c, <1>13 DEF Spend
  <2>2. \A c \in Calls : balance' > before[c] => balance > before[c]
    BY <1>c, <1>d, <2>1
  <2> QED BY <1>b, <2>1, <2>2
             DEF options, OneInLoop, RiseExplained, ConfirmSettles, Settled, Awaited
<1>14. CASE UNCHANGED vars
  BY <1>b, <1>14 DEF vars, options, chain, OneInLoop, RiseExplained,
                     ConfirmSettles, Settled, Awaited
<1> QED BY <1>1, <1>2, <1>3, <1>4, <1>5, <1>6, <1>7, <1>8, <1>9, <1>10, <1>11,
           <1>12, <1>13, <1>14 DEF Next, Progress, Fault

-----------------------------------------------------------------------------
\* The invariant holds in every reachable state.
THEOREM TurnsAccountedAlways == Spec => []TurnsAccounted
<1>1. Init => TurnsAccounted
  BY InitTurns
<1>2. TurnsAccounted /\ [Next]_vars => TurnsAccounted'
  BY TypeStep, RoundsStep, TurnsStep DEF TurnsAccounted
<1> QED BY <1>1, <1>2, PTL DEF Spec

\* When every call takes the lock, at most one dispense is in flight for each
\* call that gave up on its own and one for the holder of the lock.
THEOREM NoPileUpHolds == Spec => []NoPileUp
<1>1. TurnsAccounted => NoPileUp
  <2> SUFFICES ASSUME TurnsAccounted, TakingTurns
               PROVE  Cardinality(pending) <= Cardinality(gaveUp) + 1
    BY DEF NoPileUp
  <2>1. Cardinality(pending) \in Nat /\ Cardinality(gaveUp) \in Nat
    BY Counted DEF TurnsAccounted
  <2>2. CASE \A c \in Calls : pc[c] # "confirming"
    BY <2>1, <2>2 DEF TurnsAccounted, Settled
  <2>3. CASE \E c \in Calls : pc[c] = "confirming"
    BY <2>3 DEF TurnsAccounted, ConfirmSettles
  <2> QED BY <2>2, <2>3
<1> QED BY <1>1, TurnsAccountedAlways, PTL

\* The action of NothingRequestedWhenSufficient.
RequestNeeded ==
  \A d \in made' \ made :
    TakingTurns /\ gaveUp = {} => balance < minimum[d.call]

\* While no call has given up on a dispense, no call that holds the lock sends
\* a request that the balance at that moment makes unnecessary.
LEMMA RequestStep ==
  ASSUME TurnsAccounted, [Next]_vars
  PROVE  RequestNeeded
<1>0. TypeOK /\ IsFiniteSet(made) /\ RoundsTracked
  BY DEF TurnsAccounted
<1>1. ASSUME NEW c \in Calls, pc[c] = "funding", Dispensed(c) PROVE RequestNeeded
  <2> SUFFICES ASSUME NEW d \in made' \ made, TakingTurns, gaveUp = {}
               PROVE  balance < minimum[d.call]
    BY DEF RequestNeeded
  <2>1. before[c] < minimum[c]
    BY <1>0, <1>1 DEF RoundsTracked
  <2>2. d.call = c
    BY <1>0, <1>1, <2>1, DispensedOne
  <2>3. Cardinality(gaveUp) = 0 /\ Cardinality(pending) \in Nat
    BY <1>0, Counted, FS_EmptySet
  <2>4. ~(balance > before[c])
    BY <1>1, <2>3 DEF TurnsAccounted, RiseExplained
  <2>5. balance \in Nat /\ before[c] \in Nat /\ minimum[c] \in Minimums
    BY <1>0 DEF TypeOK
  <2>6. minimum[c] \in Nat
    BY <2>5, MinimumsAreNat, Zenon
  <2> QED BY <2>1, <2>2, <2>4, <2>5, <2>6
<1>2. CASE made' = made
  BY <1>2 DEF RequestNeeded
<1>3. (\E c \in Calls : pc[c] = "funding" /\ Dispensed(c)) \/ made' = made
  BY DEF Next, Progress, Fault, Enter, Read, ReadFails, Fund, FundFails,
         Confirmed, Reverts, TimesOut, ProbeFails, Killed, Land, Revert, Spend,
         chain, vars
<1> QED BY <1>1, <1>2, <1>3

\* Nothing is requested when the balance already suffices, in any run of calls
\* that take turns and have not given up on a dispense.
THEOREM NothingRequestedWhenSufficientHolds ==
  Spec => NothingRequestedWhenSufficient
<1>1. TurnsAccounted /\ [Next]_vars => [RequestNeeded]_vars
  BY RequestStep
<1> QED BY <1>1, TurnsAccountedAlways, PTL
           DEF Spec, NothingRequestedWhenSufficient, RequestNeeded

\* Every variable of a run of calls stays in its type, and no call uses more
\* than its budget.
THEOREM TopUpTypeCorrect == Spec => []TypeOK
<1>1. TurnsAccounted => TypeOK
  BY DEF TurnsAccounted
<1> QED BY <1>1, TurnsAccountedAlways, PTL

-----------------------------------------------------------------------------
(* What is in flight, unit by unit.                                        *)

\* A finite, non-empty set of numbers has a highest one.
LEMMA MaxOf ==
  ASSUME NEW S \in SUBSET Nat, IsFiniteSet(S), S # {}
  PROVE  Max(S) \in S /\ \A y \in S : y <= Max(S)
<1> DEFINE R == StrictSubsetOrdering(S)
           HasMax(T) == \E x \in T : \A y \in T : x >= y
           Bad == {T \in FiniteSubsetsOf(S) : T # {} /\ ~HasMax(T)}
<1>1. IsWellFoundedOn(R, FiniteSubsetsOf(S))
  BY FS_StrictSubsetOrderingWellFounded
<1>2. ASSUME Bad # {} PROVE FALSE
  <2>1. PICK T \in Bad : \A U \in Bad : ~(<<U, T>> \in R)
    <3>1. Bad \subseteq FiniteSubsetsOf(S)
      OBVIOUS
    <3> HIDE DEF R, Bad
    <3> QED BY <1>1, <1>2, <3>1, WFMin
  <2>2. T \subseteq S /\ IsFiniteSet(T) /\ T # {} /\ ~HasMax(T)
    BY <2>1 DEF FiniteSubsetsOf
  <2>3. PICK x \in T : TRUE
    BY <2>2
  <2>4. T \ {x} \in FiniteSubsetsOf(S) /\ <<T \ {x}, T>> \in R
    BY <2>2, <2>3, FS_RemoveElement DEF FiniteSubsetsOf, StrictSubsetOrdering
  <2>5. x \in Nat /\ T \subseteq Nat
    BY <2>2, <2>3
  <2>6. CASE T \ {x} = {}
    <3>1. \A y \in T : y = x
      BY <2>6
    <3>2. HasMax(T)
      BY <2>3, <2>5, <3>1
    <3> QED BY <2>2, <3>2
  <2>7. CASE T \ {x} # {}
    <3>1. HasMax(T \ {x})
      BY <2>1, <2>4, <2>7
    <3>2. PICK m \in T \ {x} : \A y \in T \ {x} : m >= y
      BY <3>1
    <3>3. CASE m >= x
      <4>1. \A y \in T : m >= y
        BY <3>2, <3>3
      <4> QED BY <2>2, <4>1
    <3>4. CASE ~(m >= x)
      <4>1. \A y \in T : x >= y
        BY <2>5, <3>2, <3>4
      <4> QED BY <2>2, <2>3, <4>1
    <3> QED BY <3>3, <3>4
  <2> QED BY <2>6, <2>7
<1>3. HasMax(S)
  BY <1>2 DEF FiniteSubsetsOf
<1>4. Max(S) \in S /\ \A y \in S : Max(S) >= y
  BY <1>3 DEF Max
<1>5. Max(S) \in Nat
  BY <1>4
<1> QED BY <1>4, <1>5

LEMMA Highest ==
  ASSUME TypeOK
  PROVE  /\ Most \in Nat /\ Large \in Nat
         /\ \A c \in Calls : minimum[c] \in Nat /\ minimum[c] <= Most
         /\ Drip <= Large /\ Most <= Large
<1> DEFINE asked == {minimum[c] : c \in Calls}
<1>1. \A c \in Calls : minimum[c] \in Nat
  <2>1. \A c \in Calls : minimum[c] \in Minimums
    BY DEF TypeOK
  <2> QED BY <2>1, MinimumsAreNat, Zenon
<1>2. IsFiniteSet(asked)
  <2>1. minimum \in Surjection(Calls, asked)
    BY DEF TypeOK, Surjection
  <2> HIDE DEF asked
  <2> QED BY <2>1, CallsFinite, FS_Surjection
<1>3. IsFiniteSet({0} \cup asked) /\ {0} \cup asked \in SUBSET Nat
  <2>1. IsFiniteSet({0} \cup asked)
    BY <1>2, FS_Singleton, FS_Union
  <2> QED BY <1>1, <2>1
<1>4. Most \in {0} \cup asked /\ \A y \in {0} \cup asked : y <= Most
  BY <1>3, MaxOf DEF Most
<1>5. Most \in Nat
  BY <1>3, <1>4
<1>6. IsFiniteSet({Drip, Most})
  <2>1. {Drip, Most} = {Drip} \cup {Most}
    OBVIOUS
  <2>2. IsFiniteSet({Drip}) /\ IsFiniteSet({Most})
    BY FS_Singleton
  <2>3. IsFiniteSet({Drip} \cup {Most})
    BY <2>2, FS_Union
  <2> QED BY <2>1, <2>3
<1>7. {Drip, Most} \in SUBSET Nat
  BY <1>5, DripPositive
<1>8. Large \in {Drip, Most} /\ \A y \in {Drip, Most} : y <= Large
  BY <1>6, <1>7, MaxOf DEF Large
<1> QED BY <1>1, <1>4, <1>5, <1>7, <1>8

\* The units of a set of dispenses.
UnitsOf(S) == UNION {Units(d) : d \in S}

LEMMA UnitsFinite ==
  ASSUME NEW S \in SUBSET Dispenses, IsFiniteSet(S), NEW large \in Nat,
         \A d \in S : d.amount <= large
  PROVE  /\ IsFiniteSet(UnitsOf(S)) /\ Cardinality(UnitsOf(S)) \in Nat
         /\ Cardinality(UnitsOf(S)) <= Cardinality(S) * large
<1>1. UnitsOf(S) \subseteq S \X (1..large)
  <2> SUFFICES ASSUME NEW d \in S, NEW u \in Units(d) PROVE u \in S \X (1..large)
    BY DEF UnitsOf
  <2>1. d.amount \in Nat /\ d.amount <= large
    BY DEF Dispenses
  <2> QED BY <2>1 DEF Units
<1>2. IsFiniteSet(1..large) /\ Cardinality(1..large) = large
  BY FS_Interval
<1>3. IsFiniteSet(S \X (1..large)) /\ Cardinality(S \X (1..large)) = Cardinality(S) * large
  BY <1>2, FS_Product
<1> QED BY <1>1, <1>3, FS_Subset, FS_CardinalityType

\* One dispense more or less is its amount more or less.
LEMMA UnitsAdded ==
  ASSUME NEW S \in SUBSET Dispenses, IsFiniteSet(S), NEW large \in Nat,
         \A e \in S : e.amount <= large,
         NEW d \in Dispenses
  PROVE  LET was == Cardinality(UnitsOf(S))
             is == Cardinality(UnitsOf(S \cup {d}))
         IN  was \in Nat /\ is \in Nat /\ is <= was + d.amount /\ (d \notin S => is = was + d.amount)
<1>1. IsFiniteSet(UnitsOf(S)) /\ Cardinality(UnitsOf(S)) \in Nat
  BY UnitsFinite
<1>2. d.amount \in Nat
  BY DEF Dispenses
<1>3. IsFiniteSet(Units(d)) /\ Cardinality(Units(d)) = d.amount
  <2>1. IsFiniteSet(1..d.amount) /\ Cardinality(1..d.amount) = d.amount
    BY <1>2, FS_Interval
  <2>2. IsFiniteSet({d}) /\ Cardinality({d}) = 1
    BY FS_Singleton
  <2>3. IsFiniteSet(Units(d)) /\ Cardinality(Units(d)) = 1 * d.amount
    BY <2>1, <2>2, FS_Product DEF Units
  <2> QED BY <1>2, <2>3
<1>4. UnitsOf(S \cup {d}) = UnitsOf(S) \cup Units(d)
  BY DEF UnitsOf
<1>5. /\ IsFiniteSet(UnitsOf(S) \cup Units(d))
      /\ Cardinality(UnitsOf(S) \cup Units(d)) =
           Cardinality(UnitsOf(S)) + Cardinality(Units(d)) - Cardinality(UnitsOf(S) \cap Units(d))
  BY <1>1, <1>3, FS_Union
<1>6. Cardinality(UnitsOf(S) \cap Units(d)) \in Nat /\ Cardinality(UnitsOf(S) \cup Units(d)) \in Nat
  BY <1>1, <1>5, FS_Intersection, FS_CardinalityType
<1>7. d \notin S => Cardinality(UnitsOf(S) \cap Units(d)) = 0
  <2>1. d \notin S => UnitsOf(S) \cap Units(d) = {}
    BY DEF UnitsOf, Units
  <2> QED BY <2>1, FS_EmptySet
<1> DEFINE was == Cardinality(UnitsOf(S))
           is == Cardinality(UnitsOf(S \cup {d}))
           both == Cardinality(UnitsOf(S) \cap Units(d))
<1>8. is = was + d.amount - both /\ is \in Nat /\ was \in Nat /\ both \in Nat
  BY <1>1, <1>3, <1>4, <1>5, <1>6
<1>9. d \notin S => both = 0
  BY <1>7
<1> HIDE DEF was, is, both
<1>10. is <= was + d.amount /\ (d \notin S => is = was + d.amount)
  BY <1>2, <1>8, <1>9
<1> QED BY <1>8, <1>10 DEF was, is

LEMMA UnitsRemoved ==
  ASSUME NEW S \in SUBSET Dispenses, IsFiniteSet(S), NEW large \in Nat,
         \A e \in S : e.amount <= large,
         NEW d \in S
  PROVE  /\ Cardinality(UnitsOf(S \ {d})) \in Nat
         /\ Cardinality(UnitsOf(S)) = Cardinality(UnitsOf(S \ {d})) + d.amount
<1>1. IsFiniteSet(S \ {d}) /\ (S \ {d}) \cup {d} = S /\ d \notin S \ {d} /\ d \in Dispenses
  BY FS_RemoveElement
<1> HIDE DEF UnitsOf
<1>2. PICK T \in SUBSET Dispenses : T = S \ {d}
  OBVIOUS
<1> QED BY <1>1, <1>2, UnitsAdded

-----------------------------------------------------------------------------
(* The address is never overfunded.                                        *)

\* A request adds at most the largest dispense to what is in flight.
LEMMA DispensedFunds ==
  ASSUME TypeOK, IsFiniteSet(made), \A d \in made : d.amount <= Large,
         NEW c \in Calls, before[c] < minimum[c], Dispensed(c), minimum' = minimum
  PROVE  /\ balance' = balance
         /\ \A d \in made' : d.amount <= Large
         /\ InFlight' \in Nat /\ InFlight' <= InFlight + Large
<1>1. before[c] \in Nat /\ used[c] \in Nat /\ Drip \in Nat
  BY BudgetPositive, DripPositive DEF TypeOK
<1>2. /\ Large \in Nat /\ Drip <= Large /\ Most <= Large /\ Most \in Nat
      /\ minimum[c] \in Nat /\ minimum[c] <= Most
  BY Highest
<1>3. PICK amount \in {Drip, minimum[c] - before[c]} :
        LET d == [call |-> c, nth |-> used[c] + 1, amount |-> amount] IN
        /\ made' = made \cup {d}
        /\ pending' = pending \cup {d}
        /\ UNCHANGED <<balance, reverted>>
  BY DEF Dispensed
<1> DEFINE d == [call |-> c, nth |-> used[c] + 1, amount |-> amount]
<1>4. amount \in Nat /\ amount <= Large
  BY <1>1, <1>2
<1>5. d \in Dispenses /\ d.amount = amount
  BY <1>1, <1>4 DEF Dispenses
<1> HIDE DEF d
<1>6. made' = made \cup {d} /\ pending' = pending \cup {d} /\ balance' = balance
  BY <1>3 DEF d
<1>7. pending \in SUBSET Dispenses /\ IsFiniteSet(pending) /\ \A e \in pending : e.amount <= Large
  BY Counted DEF TypeOK
<1>8. LET was == Cardinality(UnitsOf(pending))
          is == Cardinality(UnitsOf(pending \cup {d}))
      IN  was \in Nat /\ is \in Nat /\ is <= was + d.amount
  BY <1>2, <1>5, <1>7, UnitsAdded
<1>9. InFlight = Cardinality(UnitsOf(pending)) /\ InFlight' = Cardinality(UnitsOf(pending \cup {d}))
  BY <1>6 DEF InFlight, UnitsOf
<1> QED BY <1>2, <1>4, <1>5, <1>6, <1>8, <1>9

\* A dispense that lands or reverts is in flight no more.
LEMMA SettledFunds ==
  ASSUME TypeOK, IsFiniteSet(made), \A e \in made : e.amount <= Large,
         NEW d \in pending, pending' = pending \ {d}
  PROVE  InFlight' \in Nat /\ InFlight = InFlight' + d.amount /\ d.amount \in Nat
<1>1. /\ pending \in SUBSET Dispenses /\ IsFiniteSet(pending) /\ Large \in Nat
      /\ \A e \in pending : e.amount <= Large
  BY Counted, Highest DEF TypeOK
<1>2. /\ Cardinality(UnitsOf(pending \ {d})) \in Nat
      /\ Cardinality(UnitsOf(pending)) = Cardinality(UnitsOf(pending \ {d})) + d.amount
  BY <1>1, UnitsRemoved
<1> QED BY <1>1, <1>2 DEF InFlight, UnitsOf, Dispenses

LEMMA Multiples ==
  ASSUME NEW large \in Nat
  PROVE  /\ \A n \in Nat : large * n \in Nat /\ large * (n + 1) = large * n + large
         /\ \A m, n \in Nat : m <= n => large * m <= large * n
<1>1. \A n \in Nat : large * n \in Nat /\ large * (n + 1) = large * n + large
  OBVIOUS
<1>2. ASSUME NEW m \in Nat, NEW n \in Nat, m <= n PROVE large * m <= large * n
  <2>1. n - m \in Nat /\ n = m + (n - m)
    BY <1>2
  <2>2. large * (n - m) \in Nat
    BY <2>1
  <2>3. large * n = large * m + large * (n - m)
    BY <2>1
  <2>4. large * m \in Nat /\ large * n \in Nat
    OBVIOUS
  <2> QED BY <2>2, <2>3, <2>4
<1> QED BY <1>1, <1>2

LEMMA InitFunds == Init => FundsBounded
<1> SUFFICES ASSUME Init PROVE FundsBounded
  OBVIOUS
<1>1. TypeOK /\ IsFiniteSet(made)
  BY InitTurns DEF TurnsAccounted
<1>2. InFlight = 0
  <2>1. UNION {Units(d) : d \in pending} = {}
    BY DEF Init
  <2> QED BY <2>1, FS_EmptySet DEF InFlight
<1>3. balance + InFlight <= start
  <2>1. balance \in Nat
    BY <1>1 DEF TypeOK
  <2> QED BY <1>2, <2>1 DEF Init
<1> QED BY <1>3 DEF Init, FundsBounded

\* A step keeps what the address holds and has coming within the bound.
LEMMA FundsStep ==
  ASSUME TurnsAccounted, FundsBounded, [Next]_vars
  PROVE  FundsBounded'
<1> DEFINE F == InFlight
           p == Cardinality(pending)
           g == Cardinality(gaveUp)
           Low == \A d \in made : d.amount <= Large
           Within == \/ balance + F <= start
                     \/ balance + F < Most + Large * (g + 1)
           Room == \A c \in Calls : pc[c] = "funding" => balance + F < Most + Large * g
<1>0. TypeOK /\ IsFiniteSet(made) /\ RoundsTracked /\ Low
  BY DEF TurnsAccounted, FundsBounded
<1>1. UNCHANGED options
  BY DEF Next, Progress, Fault, Enter, Read, ReadFails, Fund, FundFails,
         Confirmed, Reverts, TimesOut, ProbeFails, Killed, Return, Land,
         Revert, Spend, vars
<1>2. Most' = Most /\ Large' = Large /\ start' = start /\ locked' = locked /\ minimum' = minimum
  BY <1>1 DEF options, Most, Large
<1>3. /\ Most \in Nat /\ Large \in Nat
      /\ \A c \in Calls : minimum[c] \in Nat /\ minimum[c] <= Most
  BY <1>0, Highest
<1>4. p \in Nat /\ g \in Nat /\ balance \in Nat /\ start \in Nat
  BY <1>0, Counted, BalancesAreNat DEF TypeOK
<1>5. g' \in Nat /\ g <= g'
  <2>1. IsFiniteSet(gaveUp') /\ gaveUp \subseteq gaveUp'
    <3>1. gaveUp' \subseteq Calls
      BY TypeStep DEF TypeOK
    <3>2. gaveUp \subseteq gaveUp'
      BY DEF Next, Progress, Fault, Enter, Read, ReadFails, Fund, FundFails,
         Confirmed, Reverts, TimesOut, ProbeFails, Killed, Return, Land,
         Revert, Spend, vars
    <3> QED BY <3>1, <3>2, CallsFinite, FS_Subset
  <2> QED BY <2>1, FS_Subset, FS_CardinalityType
<1>6. F \in Nat /\ F <= p * Large
  <2>1. pending \in SUBSET Dispenses /\ IsFiniteSet(pending) /\ \A d \in pending : d.amount <= Large
    BY <1>0, Counted DEF TypeOK
  <2> QED BY <1>3, <2>1, UnitsFinite DEF InFlight, UnitsOf
<1>7. /\ Large * g \in Nat /\ Large * (g + 1) = Large * g + Large
      /\ Large * g' \in Nat /\ Large * (g' + 1) = Large * g' + Large
      /\ Large * g <= Large * g'
      /\ g' = g + 1 => Large * g' = Large * g + Large
  BY <1>3, <1>4, <1>5, Multiples
<1>d. Large' * (g' + 1) = Large * g' + Large /\ Large' * g' = Large * g'
  BY <1>2, <1>7
<1>8. TakingTurns' => TakingTurns /\ Within /\ Room /\ locked = Calls
  BY <1>2 DEF TakingTurns, FundsBounded
<1> SUFFICES Low' /\ (TakingTurns' => Within' /\ Room')
  BY DEF FundsBounded
\* The chain and who waits for what stay; nobody starts to fund.
<1>a. ASSUME UNCHANGED chain,
             \A c \in Calls : pc'[c] = "funding" => pc[c] = "funding"
      PROVE  Low' /\ (TakingTurns' => Within' /\ Room')
  <2>1. F' = F /\ balance' = balance /\ made' = made
    BY <1>a DEF chain, InFlight
  <2>2. Low'
    BY <1>0, <1>2, <2>1
  <2>3. TakingTurns' => Within'
    <3> SUFFICES ASSUME TakingTurns'
                 PROVE  \/ balance' + F' <= start'
                        \/ balance' + F' < Most' + Large' * (g' + 1)
      OBVIOUS
    <3> HIDE DEF F, g
    <3> DEFINE x == Large * g
               y == Large * g'
               z == Large * (g + 1)
    <3>1. balance + F <= start \/ balance + F < Most + z
      BY <1>8
    <3>0. z = x + Large
      BY <1>7
    <3>2. x \in Nat /\ y \in Nat /\ x <= y /\ Large' * (g' + 1) = y + Large
      BY <1>7, <1>d
    <3>3. balance' + F' = balance + F /\ start' = start /\ Most' = Most
      BY <1>2, <2>1
    <3>4. F \in Nat
      BY <1>6
    <3> HIDE DEF x, y, z
    <3>5. balance + F <= start \/ balance + F < Most + (y + Large)
      BY <1>3, <1>4, <3>0, <3>1, <3>2, <3>4
    <3> QED BY <3>2, <3>3, <3>5
  <2>4. TakingTurns' => Room'
    <3> SUFFICES ASSUME TakingTurns', NEW c \in Calls, pc'[c] = "funding"
                 PROVE  balance' + F' < Most' + Large' * g'
      OBVIOUS
    <3>1. balance + F < Most + Large * g
      BY <1>8, <1>a
    <3> DEFINE x == Large * g
               y == Large * g'
    <3>2. x \in Nat /\ y \in Nat /\ x <= y
      BY <1>7
    <3>3. Large' * g' = y
      BY <1>d
    <3>4. balance + F < Most + x /\ F \in Nat
      BY <1>6, <3>1
    <3> HIDE DEF x, y, F
    <3>5. balance + F < Most + y
      BY <1>3, <1>4, <3>2, <3>4
    <3> QED BY <1>2, <2>1, <3>3, <3>5
  <2> QED BY <2>2, <2>3, <2>4
\* A request goes out, whatever becomes of the call.
<1>b. ASSUME NEW c \in Calls, pc[c] = "funding", Dispensed(c), pc'[c] # "funding",
             \A d \in Calls : d # c => pc'[d] = pc[d]
      PROVE  Low' /\ (TakingTurns' => Within' /\ Room')
  <2>1. before[c] < minimum[c]
    BY <1>0, <1>b DEF RoundsTracked
  <2>2. balance' = balance /\ (\A d \in made' : d.amount <= Large) /\ F' \in Nat /\ F' <= F + Large
    BY <1>0, <1>2, <1>b, <2>1, DispensedFunds
  <2>3. Low'
    BY <1>2, <2>2
  <2>4. TakingTurns' => balance + F < Most + Large * g
    BY <1>8, <1>b
  <2>5. TakingTurns' => Within'
    <3> SUFFICES ASSUME TakingTurns'
                 PROVE  balance' + F' < Most' + Large' * (g' + 1)
      OBVIOUS
    <3> HIDE DEF F, g
    <3> DEFINE x == Large * g
               y == Large * g'
    <3>2. x \in Nat /\ y \in Nat /\ x <= y /\ Large' * (g' + 1) = y + Large
      BY <1>7, <1>d
    <3>4. balance + F < Most + x
      BY <2>4
    <3>3. F \in Nat /\ F' \in Nat /\ F' <= F + Large
      BY <1>6, <2>2
    <3>1. x \in Nat /\ y \in Nat /\ x <= y
      BY <3>2
    <3>0. balance \in Nat /\ Most \in Nat /\ Large \in Nat
      BY <1>3, <1>4
    <3> HIDE DEF x, y
    <3>5. balance + F' < Most + (y + Large)
      <4>1. \A b, f, h, m, i, j, l \in Nat :
              b + f < m + i /\ i <= j /\ h <= f + l => b + h < m + (j + l)
        OBVIOUS
      <4> QED BY <3>0, <3>1, <3>3, <3>4, <4>1
    <3> QED BY <1>2, <2>2, <3>2, <3>5
  <2>6. TakingTurns' => Room'
    <3>1. TakingTurns' => \A d \in Calls : pc'[d] # "funding"
      BY <1>8, <1>b DEF TurnsAccounted, OneInLoop, InLoop
    <3> QED BY <3>1
  <2> QED BY <2>3, <2>5, <2>6
<1>9. ASSUME NEW c \in Calls, Read(c) PROVE Low' /\ (TakingTurns' => Within' /\ Room')
  <2>1. UNCHANGED <<chain, gaveUp>> /\ pc[c] = "reading"
    BY <1>9 DEF Read
  <2>2. CASE \E result \in Results : Return(c, result)
    BY <1>0, <1>a, <2>1, <2>2 DEF Return, Results, TypeOK
  <2>3. CASE balance < minimum[c] /\ pc' = [pc EXCEPT ![c] = "funding"]
    <3>1. F' = F /\ balance' = balance /\ made' = made /\ g' = g
      BY <2>1 DEF chain, InFlight
    <3>2. TakingTurns' => p <= g
      BY <1>8, <2>1 DEF TurnsAccounted, OneInLoop, Settled, InLoop
    <3>3. TakingTurns' => F <= Large * g
      <4>1. p <= g => Large * p <= Large * g
        BY <1>3, <1>4, Multiples
      <4>2. p * Large = Large * p /\ Large * p \in Nat
        BY <1>3, <1>4
      <4> HIDE DEF F, p, g
      <4> QED BY <1>6, <1>7, <3>2, <4>1, <4>2
    <3>4. TakingTurns' => Within' /\ balance + F < Most + Large * g
      <4> HIDE DEF F, g
      <4> QED BY <1>2, <1>3, <1>4, <1>6, <1>7, <2>3, <3>1, <3>3
    <3>5. TakingTurns' => Room'
      <4> HIDE DEF F, g
      <4> QED BY <1>2, <3>1, <3>4
    <3> QED BY <1>0, <1>2, <3>1, <3>4, <3>5
  <2> QED BY <1>9, <2>2, <2>3 DEF Read, Results
<1>10. ASSUME NEW c \in Calls, Killed(c) PROVE Low' /\ (TakingTurns' => Within' /\ Room')
  <2>1. pc' = [pc EXCEPT ![c] = "killed"]
    BY <1>10 DEF Killed, Return
  <2>2. CASE UNCHANGED chain
    BY <1>0, <1>a, <2>1, <2>2 DEF TypeOK
  <2>3. CASE pc[c] = "funding" /\ Dispensed(c)
    BY <1>0, <1>b, <2>1, <2>3 DEF TypeOK
  <2> QED BY <1>10, <2>2, <2>3 DEF Killed
<1>11. ASSUME NEW c \in Calls, FundFails(c) PROVE Low' /\ (TakingTurns' => Within' /\ Room')
  <2>1. pc' = [pc EXCEPT ![c] = "failed"] /\ pc[c] = "funding"
    BY <1>11 DEF FundFails, Return
  <2>2. CASE UNCHANGED chain
    BY <1>0, <1>a, <2>1, <2>2 DEF TypeOK
  <2>3. CASE Dispensed(c)
    BY <1>0, <1>b, <2>1, <2>3 DEF TypeOK
  <2> QED BY <1>11, <2>2, <2>3 DEF FundFails
<1>12. ASSUME NEW c \in Calls, Fund(c) PROVE Low' /\ (TakingTurns' => Within' /\ Room')
  BY <1>0, <1>b, <1>12 DEF Fund, TypeOK
<1>13. ASSUME NEW c \in Calls, \/ Enter(c) \/ ReadFails(c) \/ Confirmed(c) \/ Reverts(c)
                               \/ TimesOut(c) \/ ProbeFails(c)
       PROVE  Low' /\ (TakingTurns' => Within' /\ Room')
  BY <1>0, <1>a, <1>13 DEF Enter, ReadFails, Confirmed, Reverts, TimesOut, ProbeFails, Return, TypeOK
<1>c. ASSUME NEW d \in pending, pending' = pending \ {d}, made' = made, pc' = pc, gaveUp' = gaveUp,
             balance' = balance \/ balance' = balance + d.amount
      PROVE  Low' /\ (TakingTurns' => Within' /\ Room')
  <2>1. F' \in Nat /\ F = F' + d.amount /\ d.amount \in Nat
    BY <1>0, <1>c, SettledFunds
  <2>2. g' = g
    BY <1>c
  <2> HIDE DEF F, g
  <2>3. balance' + F' <= balance + F /\ balance' \in Nat
    BY <1>4, <1>c, <2>1
  <2> QED BY <1>0, <1>2, <1>3, <1>4, <1>6, <1>7, <1>8, <1>c, <2>1, <2>2, <2>3
<1>14. ASSUME NEW d \in pending, Land(d) \/ Revert(d) PROVE Low' /\ (TakingTurns' => Within' /\ Room')
  BY <1>14, <1>c DEF Land, Revert
<1>15. ASSUME NEW amount \in 1..balance, Spend(amount) PROVE Low' /\ (TakingTurns' => Within' /\ Room')
  <2>1. /\ F' = F /\ g' = g /\ made' = made /\ pc' = pc
        /\ balance' = balance - amount
    BY <1>15 DEF Spend, InFlight
  <2> HIDE DEF F, g
  <2>2. balance' + F' <= balance + F /\ balance' \in Nat
    BY <1>4, <1>6, <2>1
  <2> QED BY <1>0, <1>2, <1>3, <1>4, <1>6, <1>7, <1>8, <2>1, <2>2
<1>16. CASE UNCHANGED vars
  BY <1>16, <1>a DEF vars
<1> QED BY <1>9, <1>10, <1>11, <1>12, <1>13, <1>14, <1>15, <1>16 DEF Next, Progress, Fault

\* The bound holds in every reachable state.
THEOREM FundsBoundedAlways == Spec => []FundsBounded
<1>1. TurnsAccounted /\ FundsBounded /\ [Next]_vars => FundsBounded'
  BY FundsStep
<1> QED BY <1>1, InitFunds, TurnsAccountedAlways, PTL DEF Spec

\* When every call takes the lock, the address holds and has coming less than
\* the highest minimum, one dispense for the holder of the lock and one for
\* each call that failed or was killed while it waited.
THEOREM NeverOverfundedHolds == Spec => []NeverOverfunded
<1>1. TurnsAccounted /\ FundsBounded => NeverOverfunded
  <2> DEFINE g == Cardinality(gaveUp)
             bound == Most + Large * (g + 1) - 1
  <2> SUFFICES ASSUME TurnsAccounted, FundsBounded, TakingTurns
               PROVE  balance + InFlight <= Max({start, bound})
    BY DEF NeverOverfunded
  <2>1. TypeOK /\ IsFiniteSet(made) /\ \A d \in made : d.amount <= Large
    BY DEF TurnsAccounted, FundsBounded
  <2>2. Most \in Nat /\ Large \in Nat /\ Drip <= Large
    BY <2>1, Highest
  <2>3. g \in Nat /\ balance \in Nat /\ start \in Nat
    BY <2>1, Counted, BalancesAreNat DEF TypeOK
  <2>4. Large * g \in Nat /\ Large * (g + 1) = Large * g + Large
    BY <2>2, <2>3, Multiples
  <2>5. bound \in Nat
    BY <2>2, <2>4, DripPositive
  <2>6. InFlight \in Nat
    <3>1. pending \in SUBSET Dispenses /\ IsFiniteSet(pending) /\ \A d \in pending : d.amount <= Large
      BY <2>1, Counted DEF TypeOK
    <3> QED BY <2>2, <3>1, UnitsFinite DEF InFlight, UnitsOf
  <2>7. balance + InFlight <= start \/ balance + InFlight <= bound
    BY <2>2, <2>3, <2>4, <2>6 DEF FundsBounded
  <2> HIDE DEF bound
  <2>8. IsFiniteSet({start, bound}) /\ {start, bound} \in SUBSET Nat /\ {start, bound} # {}
    <3>1. {start, bound} = {start} \cup {bound}
      OBVIOUS
    <3>2. IsFiniteSet({start}) /\ IsFiniteSet({bound})
      BY FS_Singleton
    <3>3. IsFiniteSet({start, bound})
      BY <3>1, <3>2, FS_Union
    <3> QED BY <2>3, <2>5, <3>3
  <2>9. start <= Max({start, bound}) /\ bound <= Max({start, bound}) /\ Max({start, bound}) \in {start, bound}
    BY <2>8, MaxOf
  <2> QED BY <2>3, <2>5, <2>6, <2>7, <2>9
<1> QED BY <1>1, TurnsAccountedAlways, FundsBoundedAlways, PTL

=============================================================================
