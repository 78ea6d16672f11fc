------------------------- MODULE SubscriptionProofs --------------------------
(***************************************************************************)
(* Proofs about Subscription for every set of calls and ids, every bound on *)
(* the notifications and every pair of caps.  RaceAccounted is inductive:  *)
(* one lemma per conjunct, one step per action in each.  HomesAccounted is *)
(* inductive relative to it, and with it every step of the code is one of  *)
(* the contract of NotificationDelivery.                                   *)
(***************************************************************************)
EXTENDS SubscriptionInvariant, TLAPS, FiniteSetTheorems, SequenceTheorems,
        WellFoundedInduction

(* Lists with the newest entry first, and the race buffer under its caps. *)

\* Every non-empty set of naturals has a least element: the key that
\* evict_oldest_pending_key picks by term order exists.
LEMMA LeastNat ==
  ASSUME NEW T \in SUBSET Nat, T # {}
  PROVE  \E i \in T : \A j \in T : i <= j
<1> DEFINE R == {ss \in Nat \X Nat : ss[1] < ss[2]}
<1>1. IsWellFoundedOn(R, Nat)
  BY NatLessThanWellFounded DEF OpToRel
<1>2. \E i \in T : \A j \in T : ~(<<j, i>> \in R)
  <2> HIDE DEF R
  <2> QED BY <1>1, WFMin
<1>3. ASSUME NEW i \in Nat, NEW j \in Nat, ~(<<j, i>> \in R) PROVE i <= j
  <2>1. ~(j < i)
    BY <1>3, Zenon
  <2> QED BY <2>1
<1> HIDE DEF R
<1> QED BY <1>2, <1>3

\* The entries of a list of notifications or frames are in its type.
LEMMA ElementsOfSeq ==
  ASSUME NEW S, NEW s \in Seq(S)
  PROVE  Elements(s) \subseteq S
BY DEF Elements

\* An empty list has no entries.
LEMMA ElementsEmpty ==
  Elements(<<>>) = {}
BY DEF Elements

\* Appending to the wire adds nothing but the frame.
LEMMA ElementsAppend ==
  ASSUME NEW S, NEW s \in Seq(S), NEW e \in S
  PROVE  /\ Append(s, e) \in Seq(S)
         /\ Elements(Append(s, e)) \subseteq Elements(s) \cup {e}
<1>1. /\ Append(s, e) \in Seq(S)
      /\ DOMAIN Append(s, e) = 1..(Len(s) + 1)
      /\ \A k \in 1..Len(s) : Append(s, e)[k] = s[k]
      /\ Append(s, e)[Len(s) + 1] = e
      /\ DOMAIN s = 1..Len(s) /\ Len(s) \in Nat
  OBVIOUS
<1>2. ASSUME NEW k \in 1..(Len(s) + 1)
      PROVE  Append(s, e)[k] \in {s[j] : j \in 1..Len(s)} \cup {e}
  <2>1. CASE k = Len(s) + 1
    BY <1>1, <2>1
  <2>2. CASE k \in 1..Len(s)
    BY <1>1, <2>2
  <2> QED BY <1>1, <2>1, <2>2
<1> QED BY <1>1, <1>2 DEF Elements

\* Taking the oldest frame, or the oldest drained notification, leaves the
\* others.
LEMMA ElementsTail ==
  ASSUME NEW S, NEW s \in Seq(S), s # <<>>
  PROVE  /\ Head(s) \in Elements(s)
         /\ Elements(Tail(s)) \subseteq Elements(s)
         /\ Tail(s) \in Seq(S)
BY DEF Elements

\* Enum.reverse in register_and_drain keeps the drained notifications.
LEMMA ReversedSeq ==
  ASSUME NEW S, NEW s \in Seq(S)
  PROVE  Reversed(s) \in Seq(S) /\ Elements(Reversed(s)) = Elements(s)
<1>1. Reversed(s) \in Seq(S)
  BY DEF Reversed
<1>2. DOMAIN Reversed(s) = 1..Len(s) /\ DOMAIN s = 1..Len(s) /\ Len(s) \in Nat
  BY DEF Reversed
<1>3. \A k \in 1..Len(s) : Reversed(s)[k] = s[Len(s) + 1 - k]
  BY DEF Reversed
<1>4. Elements(Reversed(s)) \subseteq Elements(s)
  BY <1>2, <1>3 DEF Elements
<1>5. Elements(s) \subseteq Elements(Reversed(s))
  <2> SUFFICES ASSUME NEW k \in 1..Len(s) PROVE s[k] \in Elements(Reversed(s))
    BY <1>2 DEF Elements
  <2>1. Len(s) + 1 - k \in 1..Len(s) /\ Reversed(s)[Len(s) + 1 - k] = s[k]
    BY <1>2, <1>3
  <2> QED BY <1>2, <2>1 DEF Elements
<1> QED BY <1>1, <1>4, <1>5

\* Enum.take in push_bounded: the newest m entries of a list that has the
\* newest first.
LEMMA Truncated ==
  ASSUME NEW S, NEW s \in Seq(S), Len(s) # 0, NEW m \in Nat \ {0}
  PROVE  LET t == IF Len(s) > m THEN SubSeq(s, 1, m) ELSE s IN
         /\ t \in Seq(S) /\ t # <<>>
         /\ Len(t) <= m /\ Len(t) <= Len(s)
         /\ \A k \in 1..Len(t) : t[k] = s[k]
<1>1. Len(s) \in Nat /\ \A k \in 1..Len(s) : s[k] \in S
  OBVIOUS
<1>2. CASE Len(s) > m
  <2>1. \A k \in 1..m : s[k] \in S
    BY <1>1, <1>2
  <2>2. /\ SubSeq(s, 1, m) \in Seq(S)
        /\ Len(SubSeq(s, 1, m)) = m
        /\ \A k \in 1..m : SubSeq(s, 1, m)[k] = s[k]
    BY <2>1, <1>1, <1>2
  <2>3. SubSeq(s, 1, m) # <<>>
    BY <2>2
  <2> QED BY <1>1, <1>2, <2>2, <2>3
<1>3. CASE Len(s) <= m
  BY <1>1, <1>3
<1> QED BY <1>1, <1>2, <1>3

-----------------------------------------------------------------------------
\* What a pending map is: a list of notifications per id.
Buffers == [SubIds -> Seq(1..MaxNotes)]

\* The buffered ids are finitely many node ids, so Erlang orders them.
LEMMA BufferedFinite ==
  ASSUME NEW p
  PROVE  /\ IsFiniteSet(Buffered(p))
         /\ Cardinality(Buffered(p)) \in Nat
         /\ Buffered(p) \in SUBSET SubIds
         /\ Buffered(p) \in SUBSET Nat
<1>1. Buffered(p) \in SUBSET SubIds /\ IsFiniteSet(SubIds) /\ SubIds \subseteq Nat
  BY SubIdsAreTerms DEF Buffered
<1>2. IsFiniteSet(Buffered(p))
  BY <1>1, FS_Subset
<1> QED BY <1>1, <1>2, FS_CardinalityType

\* Map.pop of one id, in register_and_drain and remove_subscription, empties
\* its buffer, touches no other and keeps both caps.
LEMMA EmptiedBuffer ==
  ASSUME NEW p \in Buffers, NEW i \in SubIds,
         Cardinality(Buffered(p)) <= MaxIds,
         \A j \in SubIds : Len(p[j]) <= MaxPerId
  PROVE  LET q == [p EXCEPT ![i] = <<>>] IN
         /\ q \in Buffers
         /\ q[i] = <<>> /\ \A j \in SubIds \ {i} : q[j] = p[j]
         /\ \A j \in SubIds : Len(q[j]) <= MaxPerId
         /\ Cardinality(Buffered(q)) <= MaxIds
         /\ Buffered(q) = Buffered(p) \ {i}
<1> DEFINE q == [p EXCEPT ![i] = <<>>]
<1>1. q \in Buffers
  BY DEF Buffers
<1>2. q[i] = <<>> /\ \A j \in SubIds \ {i} : q[j] = p[j]
  BY DEF Buffers
<1> HIDE DEF q
<1>3. Buffered(q) = Buffered(p) \ {i}
  BY <1>2 DEF Buffered
<1>4. MaxPerId \in Nat /\ MaxIds \in Nat
  BY CapsPositive
<1>5. \A j \in SubIds : Len(q[j]) <= MaxPerId
  <2>1. Len(<<>>) <= MaxPerId
    BY <1>4
  <2> QED BY <1>2, <2>1
<1>6. Cardinality(Buffered(q)) <= MaxIds
  <2>1. Cardinality(Buffered(q)) <= Cardinality(Buffered(p))
    BY <1>3, BufferedFinite, FS_Subset
  <2>2. Cardinality(Buffered(q)) \in Nat /\ Cardinality(Buffered(p)) \in Nat
    BY BufferedFinite
  <2> QED BY <1>4, <2>1, <2>2
<1> QED BY <1>1, <1>2, <1>3, <1>5, <1>6 DEF q

\* The key that evict_oldest_pending_key removes is a key of the buffer.
LEMMA FirstKeyBuffered ==
  ASSUME NEW p, Buffered(p) # {}
  PROVE  FirstKey(p) \in Buffered(p)
<1>1. \E i \in Buffered(p) : \A j \in Buffered(p) : i <= j
  BY LeastNat, BufferedFinite
<1> QED BY <1>1 DEF FirstKey

\* evict_oldest_pending_key makes room for one id and touches no other.
LEMMA EvictMakesRoom ==
  ASSUME NEW p \in Buffers, NEW i \in SubIds,
         Cardinality(Buffered(p)) <= MaxIds
  PROVE  LET q == EvictOldestPendingKey(p, i) IN
         /\ q \in Buffers
         /\ q[i] = p[i]
         /\ \A j \in SubIds : q[j] = p[j] \/ q[j] = <<>>
         /\ Cardinality(Buffered(q) \cup {i}) <= MaxIds
<1> DEFINE q == EvictOldestPendingKey(p, i)
<1>0. IsFiniteSet(Buffered(p)) /\ Cardinality(Buffered(p)) \in Nat /\ MaxIds \in Nat \ {0}
  BY BufferedFinite, CapsPositive
<1>1. CASE i \in Buffered(p)
  <2>1. q = p /\ Buffered(q) \cup {i} = Buffered(p)
    BY <1>1 DEF EvictOldestPendingKey
  <2> QED BY <2>1
<1>2. CASE i \notin Buffered(p) /\ Cardinality(Buffered(p)) < MaxIds
  <2>1. q = p
    BY <1>2 DEF EvictOldestPendingKey
  <2>2. Cardinality(Buffered(p) \cup {i}) = Cardinality(Buffered(p)) + 1
    BY <1>0, <1>2, FS_AddElement
  <2> QED BY <1>0, <1>2, <2>1, <2>2
<1>3. CASE i \notin Buffered(p) /\ Cardinality(Buffered(p)) = MaxIds
  <2> DEFINE k == FirstKey(p)
  <2>1. k \in Buffered(p)
    <3>1. Buffered(p) # {}
      BY <1>0, <1>3, FS_EmptySet
    <3> QED BY <3>1, FirstKeyBuffered
  <2>2. q = [p EXCEPT ![k] = <<>>]
    BY <1>0, <1>3 DEF EvictOldestPendingKey
  <2>3. k \in SubIds /\ k # i
    BY <1>3, <2>1, BufferedFinite
  <2> HIDE DEF k, q
  <2>4. q \in Buffers /\ q[i] = p[i] /\ \A j \in SubIds : q[j] = p[j] \/ q[j] = <<>>
    BY <2>2, <2>3 DEF Buffers
  <2>5. Buffered(q) = Buffered(p) \ {k}
    BY <2>2, <2>3 DEF Buffered, Buffers
  <2>6. IsFiniteSet(Buffered(q)) /\ Cardinality(Buffered(q)) = MaxIds - 1
    BY <1>0, <1>3, <2>1, <2>5, FS_RemoveElement
  <2>7. Cardinality(Buffered(q) \cup {i}) <= MaxIds
    <3>1. Cardinality(Buffered(q) \cup {i}) \in {MaxIds - 1, MaxIds - 1 + 1}
      BY <2>6, FS_AddElement
    <3> QED BY <1>0, <3>1
  <2> QED BY <2>4, <2>7 DEF q
<1> QED BY <1>0, <1>1, <1>2, <1>3

\* push_bounded keeps both caps, and adds nothing but the notification.
LEMMA PushKeepsCaps ==
  ASSUME NEW p \in Buffers, NEW i \in SubIds, NEW n \in 1..MaxNotes,
         Cardinality(Buffered(p)) <= MaxIds,
         \A j \in SubIds : Len(p[j]) <= MaxPerId
  PROVE  LET r == PushBounded(p, i, n) IN
         /\ r \in Buffers
         /\ \A j \in SubIds : Len(r[j]) <= MaxPerId
         /\ Cardinality(Buffered(r)) <= MaxIds
         /\ Buffered(r) \subseteq Buffered(p) \cup {i}
         /\ Elements(r[i]) \subseteq Elements(p[i]) \cup {n}
         /\ \A j \in SubIds \ {i} : Elements(r[j]) \subseteq Elements(p[j])
<1> DEFINE q == EvictOldestPendingKey(p, i)
           next == <<n>> \o q[i]
           top == IF Len(next) > MaxPerId THEN SubSeq(next, 1, MaxPerId) ELSE next
           r == [q EXCEPT ![i] = top]
<1>1. /\ q \in Buffers /\ q[i] = p[i]
      /\ \A j \in SubIds : q[j] = p[j] \/ q[j] = <<>>
      /\ Cardinality(Buffered(q) \cup {i}) <= MaxIds
  BY EvictMakesRoom
<1>2. PushBounded(p, i, n) = r
  BY DEF PushBounded
<1> HIDE DEF q
<1>3. /\ next \in Seq(1..MaxNotes)
      /\ Len(next) = Len(p[i]) + 1 /\ Len(p[i]) \in Nat
      /\ next[1] = n
      /\ \A k \in 2..Len(next) : next[k] = p[i][k - 1]
  <2>1. p[i] \in Seq(1..MaxNotes) /\ <<n>> \in Seq(1..MaxNotes) /\ Len(<<n>>) = 1
    BY DEF Buffers
  <2> QED BY <1>1, <2>1, ConcatProperties
<1>4. /\ top \in Seq(1..MaxNotes) /\ top # <<>>
      /\ Len(top) <= MaxPerId /\ Len(top) <= Len(next)
      /\ \A k \in 1..Len(top) : top[k] = next[k]
  <2> HIDE DEF next
  <2>1. MaxPerId \in Nat \ {0} /\ Len(next) # 0 /\ Len(next) \in Nat
    BY <1>3, CapsPositive
  <2> QED BY <1>3, <2>1, Truncated
<1>5. Elements(top) \subseteq Elements(p[i]) \cup {n}
  <2> HIDE DEF next, top
  <2> SUFFICES ASSUME NEW k \in 1..Len(top)
               PROVE  top[k] \in Elements(p[i]) \cup {n}
    BY <1>4 DEF Elements
  <2>1. p[i] \in Seq(1..MaxNotes)
    BY DEF Buffers
  <2>2. CASE k = 1
    BY <1>3, <1>4, <2>2
  <2>3. CASE k # 1
    <3>1. k \in 2..Len(next) /\ k - 1 \in DOMAIN p[i]
      BY <1>3, <1>4, <2>1, <2>3
    <3> QED BY <1>3, <1>4, <3>1 DEF Elements
  <2> QED BY <2>2, <2>3
<1> HIDE DEF next, top
<1>6. r \in Buffers /\ r[i] = top /\ \A j \in SubIds \ {i} : r[j] = q[j]
  BY <1>1, <1>4 DEF Buffers
<1> HIDE DEF r
<1>7. ASSUME NEW j \in SubIds \ {i}
      PROVE  Len(r[j]) <= MaxPerId /\ Elements(r[j]) \subseteq Elements(p[j])
  <2>1. Len(<<>>) <= MaxPerId
    BY CapsPositive
  <2> QED BY <1>1, <1>6, <2>1, ElementsEmpty
<1>8. Buffered(r) = Buffered(q) \cup {i}
  BY <1>4, <1>6 DEF Buffered
<1>9. Buffered(q) \subseteq Buffered(p)
  BY <1>1 DEF Buffered
<1> QED BY <1>1, <1>2, <1>4, <1>5, <1>6, <1>7, <1>8, <1>9

-----------------------------------------------------------------------------
(* RaceAccounted. *)

\* A connection that has just been made satisfies the invariant.
LEMMA InitAccounted == Init => RaceAccounted
<1> SUFFICES ASSUME Init PROVE RaceAccounted
  OBVIOUS
<1> USE DEF Init
<1>1. Buffered(pending) = {}
  BY DEF Buffered
<1>2. Cardinality(Buffered(pending)) = 0 /\ MaxIds \in Nat /\ MaxPerId \in Nat
  BY <1>1, FS_EmptySet, CapsPositive
<1>3. TypeOK
  BY <1>2, BoundIsNat DEF TypeOK, Places, InFlightAt, AwaitingAt
<1>4. InFlightCounts
  <2>1. {c \in Calls : pc[c] \in InFlightAt} = {}
    BY DEF InFlightAt
  <2> QED BY <2>1, FS_EmptySet DEF InFlightCounts
<1>5. GrantsTracked /\ GrantsDistinct /\ FlushingOnly /\ OpenRegistered /\ ClosedForgotten
  BY DEF GrantsTracked, GrantsDistinct, FlushingOnly, OpenRegistered, ClosedForgotten, Holding
<1>6. WireTracked /\ NotesTracked
  BY ElementsEmpty DEF WireTracked, NotesTracked
<1>7. RegisteredNotBuffered /\ AwaitedNeverDropped
  BY DEF RegisteredNotBuffered, AwaitedNeverDropped
<1> QED BY <1>3, <1>4, <1>5, <1>6, <1>7 DEF RaceAccounted

\* Every step of callers, client process, Agent and node keeps the types and
\* both caps of the race buffer.
LEMMA TypeStep ==
  ASSUME RaceAccounted, [Next]_vars
  PROVE  TypeOK'
<1> USE DEF connVars, Places, InFlightAt, AwaitingAt
<1>0. /\ TypeOK /\ GrantsTracked /\ WireTracked
      /\ IsFiniteSet(Buffered(pending)) /\ Cardinality(Buffered(pending)) \in Nat
      /\ MaxPerId \in Nat \ {0} /\ MaxIds \in Nat \ {0}
  BY BufferedFinite, CapsPositive DEF RaceAccounted
<1>1. ASSUME NEW c \in Calls, BeginSubscribe(c) PROVE TypeOK'
  <2>1. pc' \in [Calls -> Places]
    BY <1>0, <1>1, Zenon DEF TypeOK, BeginSubscribe
  <2>2. inFlight' \in Nat
    BY <1>0, <1>1 DEF TypeOK, BeginSubscribe
  <2>3. UNCHANGED <<flush, registry, pending, connVars, fates, nodeVars>>
    BY <1>1 DEF BeginSubscribe
  <2> QED BY <1>0, <2>1, <2>2, <2>3 DEF TypeOK, fates, nodeVars
<1>2. ASSUME NEW c \in Calls, SendSubscribe(c) PROVE TypeOK'
  BY <1>0, <1>2 DEF TypeOK, SendSubscribe, fates, agentVars
<1>3. ASSUME NEW c \in Calls, SubscribeError(c) PROVE TypeOK'
  BY <1>0, <1>3 DEF TypeOK, SubscribeError, fates, agentVars, nodeVars
<1>4. ASSUME NEW c \in Calls, RegisterAndDrain(c) PROVE TypeOK'
  <2>1. UNCHANGED <<inFlight, connVars, fates, nodeVars>>
    BY <1>4 DEF RegisterAndDrain
  <2>2. CASE AgentUp
    <3>1. grant[c] \in SubIds /\ pending \in Buffers
      BY <1>0, <1>4
         DEF RegisterAndDrain, TypeOK, GrantsTracked, Holding, Buffers
    <3>2. pending' = [pending EXCEPT ![grant[c]] = <<>>]
      BY <1>4, <2>2 DEF RegisterAndDrain
    <3>3. /\ pending' \in Buffers
          /\ \A j \in SubIds : Len(pending'[j]) <= MaxPerId
          /\ Cardinality(Buffered(pending')) <= MaxIds
      BY <1>0, <3>1, <3>2, EmptiedBuffer DEF TypeOK
    <3>4. Reversed(pending[grant[c]]) \in Seq(1..MaxNotes)
      BY <3>1, ReversedSeq DEF Buffers
    <3>5. flush' \in [Calls -> Seq(1..MaxNotes)]
      <4>1. flush' = [flush EXCEPT ![c] = Reversed(pending[grant[c]])]
        BY <1>4, <2>2 DEF RegisterAndDrain
      <4> QED BY <1>0, <3>4, <4>1 DEF TypeOK
    <3>6. pc' \in [Calls -> Places] /\ registry' \subseteq SubIds
      <4>1. /\ pc' = [pc EXCEPT ![c] = "flushing"]
            /\ registry' = registry \cup {grant[c]}
        BY <1>4, <2>2 DEF RegisterAndDrain
      <4>2. pc \in [Calls -> Places] /\ registry \subseteq SubIds
        BY <1>0 DEF TypeOK
      <4> QED BY <3>1, <4>1, <4>2
    <3> QED BY <1>0, <2>1, <3>3, <3>5, <3>6
               DEF TypeOK, fates, nodeVars, Buffers
  <2>3. CASE ~AgentUp
    BY <1>0, <1>4, <2>3 DEF TypeOK, RegisterAndDrain, fates, nodeVars
  <2> QED BY <2>2, <2>3
<1>5. ASSUME NEW c \in Calls, Flush(c) PROVE TypeOK'
  <2>1. flush[c] \in Seq(1..MaxNotes) /\ flush[c] # <<>>
    BY <1>0, <1>5 DEF Flush, TypeOK
  <2>2. Head(flush[c]) \in 1..MaxNotes /\ Tail(flush[c]) \in Seq(1..MaxNotes)
    BY <2>1, ElementsTail, ElementsOfSeq
  <2> QED BY <1>0, <1>5, <2>2 DEF TypeOK, Flush, agentVars, nodeVars
<1>6. ASSUME NEW c \in Calls, HandlerRaises(c) PROVE TypeOK'
  <2>1. Elements(flush[c]) \subseteq 1..MaxNotes
    BY <1>0, ElementsOfSeq DEF TypeOK
  <2>2. /\ pc' \in [Calls -> Places] /\ dropped' \subseteq 1..MaxNotes
        /\ flush' \in [Calls -> Seq(1..MaxNotes)]
    <3>1. flush' = [flush EXCEPT ![c] = <<>>] /\ <<>> \in Seq(1..MaxNotes)
      BY <1>6 DEF HandlerRaises
    <3>2. flush' \in [Calls -> Seq(1..MaxNotes)]
      BY <1>0, <3>1 DEF TypeOK
    <3> QED BY <1>0, <1>6, <2>1, <3>2 DEF TypeOK, HandlerRaises
  <2>3. UNCHANGED <<connVars, agentVars, inHand, delivered, evicted, nodeVars>>
    BY <1>6 DEF HandlerRaises
  <2> QED BY <1>0, <2>2, <2>3 DEF TypeOK, agentVars, nodeVars
<1>7. ASSUME NEW c \in Calls, Finish(c) PROVE TypeOK'
  <2>1. pc' \in [Calls -> Places]
    BY <1>0, <1>7 DEF TypeOK, Finish
  <2>2. inFlight' \in Nat
    BY <1>0, <1>7 DEF TypeOK, Finish
  <2>3. UNCHANGED <<flush, registry, pending, connVars, fates, nodeVars>>
    BY <1>7 DEF Finish
  <2> QED BY <1>0, <2>1, <2>2, <2>3 DEF TypeOK, fates, nodeVars
<1>8. ASSUME NEW c \in Calls, Unsubscribe(c) PROVE TypeOK'
  BY <1>0, <1>8 DEF TypeOK, Unsubscribe, fates, agentVars
<1>9. ASSUME NEW c \in Calls, UnsubscribeError(c) PROVE TypeOK'
  BY <1>0, <1>9 DEF TypeOK, UnsubscribeError, fates, agentVars, nodeVars
<1>10. ASSUME NEW c \in Calls, RemoveSubscription(c) PROVE TypeOK'
  <2>1. UNCHANGED <<flush, inFlight, connVars, inHand, delivered, evicted, nodeVars>>
    BY <1>10 DEF RemoveSubscription
  <2>2. CASE AgentUp
    <3>1. grant[c] \in SubIds /\ pending \in Buffers
      BY <1>0, <1>10
         DEF RemoveSubscription, TypeOK, GrantsTracked, Holding, Buffers
    <3>2. pending' = [pending EXCEPT ![grant[c]] = <<>>]
      BY <1>10, <2>2 DEF RemoveSubscription
    <3>3. /\ pending' \in Buffers
          /\ \A j \in SubIds : Len(pending'[j]) <= MaxPerId
          /\ Cardinality(Buffered(pending')) <= MaxIds
      BY <1>0, <3>1, <3>2, EmptiedBuffer DEF TypeOK
    <3>4. Elements(pending[grant[c]]) \subseteq 1..MaxNotes
      BY <3>1, ElementsOfSeq DEF Buffers
    <3>5. /\ pc' \in [Calls -> Places] /\ registry' \subseteq SubIds
          /\ dropped' \subseteq 1..MaxNotes
      BY <1>0, <1>10, <2>2, <3>4 DEF TypeOK, RemoveSubscription, AgentUp
    <3> QED BY <1>0, <2>1, <3>3, <3>5 DEF TypeOK, nodeVars, Buffers
  <2>3. CASE ~AgentUp
    BY <1>0, <1>10, <2>3 DEF TypeOK, RemoveSubscription, nodeVars
  <2> QED BY <2>2, <2>3
<1>11. CASE HandleAnswer
  <2>1. wire \in Seq(Frames) /\ wire # <<>> /\ Head(wire).kind # "note"
    BY <1>0, <1>11 DEF TypeOK, HandleAnswer
  <2>2. Head(wire) \in Frames /\ Tail(wire) \in Seq(Frames)
    BY <2>1
  <2>3. Head(wire).call \in Calls
    BY <2>1, <2>2 DEF Frames
  <2>4. Answered(Head(wire)) \in Places
    BY <1>0, <2>3 DEF Answered, TypeOK
  <2> QED BY <1>0, <1>11, <2>2, <2>3, <2>4
             DEF TypeOK, HandleAnswer, agentVars, fates
<1>12. CASE HandleNote
  <2> DEFINE n == Head(wire).n
             i == target[n]
  <2>1. wire \in Seq(Frames) /\ wire # <<>> /\ Head(wire).kind = "note"
    BY <1>0, <1>12 DEF TypeOK, HandleNote
  <2>2. Head(wire) \in Frames /\ Tail(wire) \in Seq(Frames) /\ Head(wire) \in Elements(wire)
    BY <2>1, ElementsTail
  <2>3. n \in 1..Len(target) /\ target \in Seq(SubIds) /\ Len(target) <= MaxNotes
    BY <1>0, <2>1, <2>2 DEF WireTracked, TypeOK
  <2>4. n \in 1..MaxNotes /\ i \in SubIds
    BY <2>3, BoundIsNat
  <2> HIDE DEF n, i
  <2>5. pending \in Buffers
    BY <1>0 DEF TypeOK, Buffers
  <2>6. /\ PushBounded(pending, i, n) \in Buffers
        /\ \A j \in SubIds : Len(PushBounded(pending, i, n)[j]) <= MaxPerId
        /\ Cardinality(Buffered(PushBounded(pending, i, n))) <= MaxIds
    BY <1>0, <2>4, <2>5, PushKeepsCaps DEF TypeOK
  <2>7. AllPending(pending) \subseteq 1..MaxNotes
    <3>1. \A j \in SubIds : Elements(pending[j]) \subseteq 1..MaxNotes
      BY <2>5, ElementsOfSeq DEF Buffers
    <3> QED BY <3>1 DEF AllPending
  <2> QED BY <1>0, <1>12, <2>2, <2>4, <2>6, <2>7
             DEF TypeOK, HandleNote, Buffers, n, i
<1>13. CASE Dispatch
  BY <1>0, <1>13 DEF Dispatch, TypeOK, agentVars, nodeVars
<1>14. CASE Disconnect
  BY <1>0, <1>14 DEF TypeOK, Disconnect, agentVars, fates
<1>15. ASSUME NEW s \in Stoppers, FindAgent(s) PROVE TypeOK'
  BY <1>0, <1>15 DEF FindAgent, TypeOK, agentVars, fates, nodeVars
<1>16. ASSUME NEW s \in Stoppers, StopAgent(s) PROVE TypeOK'
  <2>1. Buffered(pending') = {} /\ Cardinality({}) = 0
    BY <1>16, FS_EmptySet DEF StopAgent, Buffered
  <2>2. /\ pending' \in [SubIds -> Seq(1..MaxNotes)]
        /\ \A j \in SubIds : Len(pending'[j]) <= MaxPerId
    BY <1>0, <1>16 DEF StopAgent
  <2>3. /\ registry' \subseteq SubIds /\ inFlight' \in Nat /\ conn' = "stopped"
        /\ stops' \in [Stoppers -> {"idle", "alive", "done", "exited"}]
    BY <1>0, <1>16 DEF StopAgent, TypeOK
  <2>4. UNCHANGED <<pc, flush, fates, nodeVars>>
    BY <1>16 DEF StopAgent
  <2> QED BY <1>0, <2>1, <2>2, <2>3, <2>4 DEF TypeOK, nodeVars, fates
<1>17. ASSUME NEW c \in Calls, NEW i \in SubIds, Grant(c, i) PROVE TypeOK'
  BY <1>0, <1>17 DEF TypeOK, Grant, agentVars, fates
<1>18. ASSUME NEW c \in Calls, NEW kind \in {"granted", "refused", "removed"},
              Answer(c, kind)
       PROVE  TypeOK'
  <2>1. [kind |-> kind, call |-> c] \in Frames
    BY DEF Frames
  <2>2. wire' \in Seq(Frames)
    BY <1>0, <1>18, <2>1 DEF TypeOK, Answer
  <2> QED BY <1>0, <1>18, <2>2 DEF TypeOK, Answer, agentVars, fates
<1>19. ASSUME NEW c \in Calls, Notify(c) PROVE TypeOK'
  <2>1. /\ target \in Seq(SubIds) /\ grant[c] \in SubIds
        /\ Len(target) \in Nat /\ Len(target) < MaxNotes
    BY <1>0, <1>19 DEF TypeOK, Notify
  <2>2. [kind |-> "note", n |-> Len(target) + 1] \in Frames
    BY <2>1, BoundIsNat DEF Frames
  <2>3. wire' \in Seq(Frames)
    BY <1>0, <1>19, <2>2 DEF TypeOK, Notify
  <2>4. target' \in Seq(SubIds) /\ Len(target') = Len(target) + 1
    BY <1>19, <2>1 DEF Notify
  <2> QED BY <1>0, <1>19, <2>1, <2>3, <2>4, BoundIsNat
             DEF TypeOK, Notify, agentVars, fates
<1>20. CASE UNCHANGED vars
  BY <1>0, <1>20 DEF TypeOK, vars, agentVars, fates, nodeVars, Buffered
<1> QED BY <1>1, <1>2, <1>3, <1>4, <1>5, <1>6, <1>7, <1>8, <1>9,
           <1>10, <1>11, <1>12, <1>13, <1>14, <1>15, <1>16, <1>17, <1>18,
           <1>19, <1>20
        DEF Next, CallerStep

\* Every step keeps what a call and the node know of an id in agreement: no
\* call reaches register_and_drain without an id.
LEMMA GrantsStep ==
  ASSUME RaceAccounted, [Next]_vars
  PROVE  GrantsTracked'
<1> USE DEF connVars, Holding
<1>0. TypeOK /\ GrantsTracked /\ WireTracked
  BY DEF RaceAccounted
<1>1. ASSUME NEW c \in Calls, BeginSubscribe(c) PROVE GrantsTracked'
  BY <1>0, <1>1 DEF BeginSubscribe, GrantsTracked, TypeOK, fates, nodeVars
<1>2. ASSUME NEW c \in Calls, SendSubscribe(c) PROVE GrantsTracked'
  BY <1>0, <1>2 DEF SendSubscribe, GrantsTracked, TypeOK, agentVars, fates
<1>3. ASSUME NEW c \in Calls, SubscribeError(c) PROVE GrantsTracked'
  BY <1>0, <1>3
     DEF SubscribeError, GrantsTracked, TypeOK, agentVars, fates, nodeVars
<1>4. ASSUME NEW c \in Calls, RegisterAndDrain(c) PROVE GrantsTracked'
  BY <1>0, <1>4 DEF RegisterAndDrain, GrantsTracked, TypeOK, fates, nodeVars
<1>5. ASSUME NEW c \in Calls, Flush(c) PROVE GrantsTracked'
  BY <1>0, <1>5 DEF Flush, GrantsTracked, TypeOK, agentVars, nodeVars
<1>6. ASSUME NEW c \in Calls, HandlerRaises(c) PROVE GrantsTracked'
  BY <1>0, <1>6 DEF HandlerRaises, GrantsTracked, TypeOK, agentVars, nodeVars
<1>7. ASSUME NEW c \in Calls, Finish(c) PROVE GrantsTracked'
  BY <1>0, <1>7 DEF Finish, GrantsTracked, TypeOK, fates, nodeVars
<1>8. ASSUME NEW c \in Calls, Unsubscribe(c) PROVE GrantsTracked'
  BY <1>0, <1>8 DEF Unsubscribe, GrantsTracked, TypeOK, agentVars, fates
<1>9. ASSUME NEW c \in Calls, UnsubscribeError(c) PROVE GrantsTracked'
  BY <1>0, <1>9
     DEF UnsubscribeError, GrantsTracked, TypeOK, agentVars, fates, nodeVars
<1>10. ASSUME NEW c \in Calls, RemoveSubscription(c) PROVE GrantsTracked'
  BY <1>0, <1>10 DEF RemoveSubscription, GrantsTracked, TypeOK, nodeVars
<1>11. CASE HandleAnswer
  <2>1. wire \in Seq(Frames) /\ wire # <<>>
    BY <1>0, <1>11 DEF TypeOK, HandleAnswer
  <2>2. Head(wire) \in Frames /\ Head(wire) \in Elements(wire)
    BY <2>1, ElementsTail, ElementsOfSeq
  <2>3. Head(wire).kind = "granted" => grant[Head(wire).call] # None
    BY <1>0, <2>2 DEF WireTracked
  <2> QED BY <1>0, <1>11, <2>2, <2>3
             DEF HandleAnswer, Answered, GrantsTracked, TypeOK, agentVars,
                 fates
<1>12. CASE HandleNote
  BY <1>0, <1>12 DEF HandleNote, GrantsTracked, TypeOK
<1>13. CASE Dispatch
  BY <1>0, <1>13 DEF Dispatch, GrantsTracked, TypeOK, agentVars, nodeVars
<1>14. CASE Disconnect
  BY <1>0, <1>14 DEF Disconnect, GrantsTracked, TypeOK, agentVars, fates
<1>15. ASSUME NEW s \in Stoppers, FindAgent(s) PROVE GrantsTracked'
  BY <1>0, <1>15 DEF FindAgent, GrantsTracked, TypeOK, agentVars, fates, nodeVars
<1>16. ASSUME NEW s \in Stoppers, StopAgent(s) PROVE GrantsTracked'
  BY <1>0, <1>16 DEF StopAgent, GrantsTracked, TypeOK, fates, nodeVars
<1>17. ASSUME NEW c \in Calls, NEW i \in SubIds, Grant(c, i) PROVE GrantsTracked'
  BY <1>0, <1>17 DEF Grant, GrantsTracked, TypeOK, agentVars, fates
<1>18. ASSUME NEW c \in Calls, NEW kind \in {"granted", "refused", "removed"},
              Answer(c, kind)
       PROVE  GrantsTracked'
  BY <1>0, <1>18 DEF Answer, GrantsTracked, TypeOK, agentVars, fates
<1>19. ASSUME NEW c \in Calls, Notify(c) PROVE GrantsTracked'
  BY <1>0, <1>19 DEF Notify, GrantsTracked, TypeOK, agentVars, fates
<1>20. CASE UNCHANGED vars
  BY <1>0, <1>20 DEF vars, GrantsTracked, TypeOK, agentVars, fates, nodeVars
<1> QED BY <1>1, <1>2, <1>3, <1>4, <1>5, <1>6, <1>7, <1>8, <1>9,
           <1>10, <1>11, <1>12, <1>13, <1>14, <1>15, <1>16, <1>17, <1>18,
           <1>19, <1>20
        DEF Next, CallerStep

\* The node never gives one id to two calls.
LEMMA DistinctStep ==
  ASSUME RaceAccounted, [Next]_vars
  PROVE  GrantsDistinct'
<1> USE DEF connVars
<1>0. TypeOK /\ GrantsDistinct
  BY DEF RaceAccounted
<1>1. ASSUME NEW c \in Calls, BeginSubscribe(c) PROVE GrantsDistinct'
  BY <1>0, <1>1 DEF BeginSubscribe, GrantsDistinct, TypeOK, fates, nodeVars
<1>2. ASSUME NEW c \in Calls, SendSubscribe(c) PROVE GrantsDistinct'
  BY <1>0, <1>2 DEF SendSubscribe, GrantsDistinct, TypeOK, agentVars, fates
<1>3. ASSUME NEW c \in Calls, SubscribeError(c) PROVE GrantsDistinct'
  BY <1>0, <1>3
     DEF SubscribeError, GrantsDistinct, TypeOK, agentVars, fates, nodeVars
<1>4. ASSUME NEW c \in Calls, RegisterAndDrain(c) PROVE GrantsDistinct'
  BY <1>0, <1>4 DEF RegisterAndDrain, GrantsDistinct, TypeOK, fates, nodeVars
<1>5. ASSUME NEW c \in Calls, Flush(c) PROVE GrantsDistinct'
  BY <1>0, <1>5 DEF Flush, GrantsDistinct, TypeOK, agentVars, nodeVars
<1>6. ASSUME NEW c \in Calls, HandlerRaises(c) PROVE GrantsDistinct'
  BY <1>0, <1>6 DEF HandlerRaises, GrantsDistinct, TypeOK, agentVars, nodeVars
<1>7. ASSUME NEW c \in Calls, Finish(c) PROVE GrantsDistinct'
  BY <1>0, <1>7 DEF Finish, GrantsDistinct, TypeOK, fates, nodeVars
<1>8. ASSUME NEW c \in Calls, Unsubscribe(c) PROVE GrantsDistinct'
  BY <1>0, <1>8 DEF Unsubscribe, GrantsDistinct, TypeOK, agentVars, fates
<1>9. ASSUME NEW c \in Calls, UnsubscribeError(c) PROVE GrantsDistinct'
  BY <1>0, <1>9
     DEF UnsubscribeError, GrantsDistinct, TypeOK, agentVars, fates, nodeVars
<1>10. ASSUME NEW c \in Calls, RemoveSubscription(c) PROVE GrantsDistinct'
  BY <1>0, <1>10 DEF RemoveSubscription, GrantsDistinct, TypeOK, nodeVars
<1>11. CASE HandleAnswer
  BY <1>0, <1>11 DEF HandleAnswer, GrantsDistinct, TypeOK, agentVars, fates
<1>12. CASE HandleNote
  BY <1>0, <1>12 DEF HandleNote, GrantsDistinct, TypeOK
<1>13. CASE Dispatch
  BY <1>0, <1>13 DEF Dispatch, GrantsDistinct, TypeOK, agentVars, nodeVars
<1>14. CASE Disconnect
  BY <1>0, <1>14 DEF Disconnect, GrantsDistinct, TypeOK, agentVars, fates
<1>15. ASSUME NEW s \in Stoppers, FindAgent(s) PROVE GrantsDistinct'
  BY <1>0, <1>15 DEF FindAgent, GrantsDistinct, TypeOK, agentVars, fates, nodeVars
<1>16. ASSUME NEW s \in Stoppers, StopAgent(s) PROVE GrantsDistinct'
  BY <1>0, <1>16 DEF StopAgent, GrantsDistinct, TypeOK, fates, nodeVars
<1>17. ASSUME NEW c \in Calls, NEW i \in SubIds, Grant(c, i) PROVE GrantsDistinct'
  BY <1>0, <1>17 DEF Grant, GrantsDistinct, TypeOK, agentVars, fates
<1>18. ASSUME NEW c \in Calls, NEW kind \in {"granted", "refused", "removed"},
              Answer(c, kind)
       PROVE  GrantsDistinct'
  BY <1>0, <1>18 DEF Answer, GrantsDistinct, TypeOK, agentVars, fates
<1>19. ASSUME NEW c \in Calls, Notify(c) PROVE GrantsDistinct'
  BY <1>0, <1>19 DEF Notify, GrantsDistinct, TypeOK, agentVars, fates
<1>20. CASE UNCHANGED vars
  BY <1>0, <1>20 DEF vars, GrantsDistinct, TypeOK, agentVars, fates, nodeVars
<1> QED BY <1>1, <1>2, <1>3, <1>4, <1>5, <1>6, <1>7, <1>8, <1>9,
           <1>10, <1>11, <1>12, <1>13, <1>14, <1>15, <1>16, <1>17, <1>18,
           <1>19, <1>20
        DEF Next, CallerStep

\* Only a call that is dispatching has drained notifications.
LEMMA FlushingStep ==
  ASSUME RaceAccounted, [Next]_vars
  PROVE  FlushingOnly'
<1> USE DEF connVars
<1>0. TypeOK /\ FlushingOnly
  BY DEF RaceAccounted
<1>1. ASSUME NEW c \in Calls, BeginSubscribe(c) PROVE FlushingOnly'
  BY <1>0, <1>1 DEF BeginSubscribe, FlushingOnly, TypeOK, fates, nodeVars
<1>2. ASSUME NEW c \in Calls, SendSubscribe(c) PROVE FlushingOnly'
  BY <1>0, <1>2 DEF SendSubscribe, FlushingOnly, TypeOK, agentVars, fates
<1>3. ASSUME NEW c \in Calls, SubscribeError(c) PROVE FlushingOnly'
  BY <1>0, <1>3
     DEF SubscribeError, FlushingOnly, TypeOK, agentVars, fates, nodeVars
<1>4. ASSUME NEW c \in Calls, RegisterAndDrain(c) PROVE FlushingOnly'
  BY <1>0, <1>4 DEF RegisterAndDrain, FlushingOnly, TypeOK, fates, nodeVars
<1>5. ASSUME NEW c \in Calls, Flush(c) PROVE FlushingOnly'
  BY <1>0, <1>5 DEF Flush, FlushingOnly, TypeOK, agentVars, nodeVars
<1>6. ASSUME NEW c \in Calls, HandlerRaises(c) PROVE FlushingOnly'
  BY <1>0, <1>6 DEF HandlerRaises, FlushingOnly, TypeOK, agentVars, nodeVars
<1>7. ASSUME NEW c \in Calls, Finish(c) PROVE FlushingOnly'
  BY <1>0, <1>7 DEF Finish, FlushingOnly, TypeOK, fates, nodeVars
<1>8. ASSUME NEW c \in Calls, Unsubscribe(c) PROVE FlushingOnly'
  BY <1>0, <1>8 DEF Unsubscribe, FlushingOnly, TypeOK, agentVars, fates
<1>9. ASSUME NEW c \in Calls, UnsubscribeError(c) PROVE FlushingOnly'
  BY <1>0, <1>9
     DEF UnsubscribeError, FlushingOnly, TypeOK, agentVars, fates, nodeVars
<1>10. ASSUME NEW c \in Calls, RemoveSubscription(c) PROVE FlushingOnly'
  BY <1>0, <1>10 DEF RemoveSubscription, FlushingOnly, TypeOK, nodeVars
<1>11. CASE HandleAnswer
  BY <1>0, <1>11
     DEF HandleAnswer, Answered, FlushingOnly, TypeOK, agentVars, fates
<1>12. CASE HandleNote
  BY <1>0, <1>12 DEF HandleNote, FlushingOnly, TypeOK
<1>13. CASE Dispatch
  BY <1>0, <1>13 DEF Dispatch, FlushingOnly, TypeOK, agentVars, nodeVars
<1>14. CASE Disconnect
  BY <1>0, <1>14 DEF Disconnect, FlushingOnly, TypeOK, agentVars, fates
<1>15. ASSUME NEW s \in Stoppers, FindAgent(s) PROVE FlushingOnly'
  BY <1>0, <1>15 DEF FindAgent, FlushingOnly, TypeOK, agentVars, fates, nodeVars
<1>16. ASSUME NEW s \in Stoppers, StopAgent(s) PROVE FlushingOnly'
  BY <1>0, <1>16 DEF StopAgent, FlushingOnly, TypeOK, fates, nodeVars
<1>17. ASSUME NEW c \in Calls, NEW i \in SubIds, Grant(c, i) PROVE FlushingOnly'
  BY <1>0, <1>17 DEF Grant, FlushingOnly, TypeOK, agentVars, fates
<1>18. ASSUME NEW c \in Calls, NEW kind \in {"granted", "refused", "removed"},
              Answer(c, kind)
       PROVE  FlushingOnly'
  BY <1>0, <1>18 DEF Answer, FlushingOnly, TypeOK, agentVars, fates
<1>19. ASSUME NEW c \in Calls, Notify(c) PROVE FlushingOnly'
  BY <1>0, <1>19 DEF Notify, FlushingOnly, TypeOK, agentVars, fates
<1>20. CASE UNCHANGED vars
  BY <1>0, <1>20 DEF vars, FlushingOnly, TypeOK, agentVars, fates, nodeVars
<1> QED BY <1>1, <1>2, <1>3, <1>4, <1>5, <1>6, <1>7, <1>8, <1>9,
           <1>10, <1>11, <1>12, <1>13, <1>14, <1>15, <1>16, <1>17, <1>18,
           <1>19, <1>20
        DEF Next, CallerStep

\* From register_and_drain to remove_subscription an id stays registered: no
\* other call, and no late answer, takes it out of the Agent.
LEMMA RegisteredStep ==
  ASSUME RaceAccounted, [Next]_vars
  PROVE  OpenRegistered'
<1> USE DEF connVars, AgentUp
<1>0. TypeOK /\ OpenRegistered /\ GrantsDistinct /\ GrantsTracked
  BY DEF RaceAccounted
<1>1. ASSUME NEW c \in Calls, BeginSubscribe(c) PROVE OpenRegistered'
  BY <1>0, <1>1 DEF BeginSubscribe, OpenRegistered, TypeOK, fates, nodeVars
<1>2. ASSUME NEW c \in Calls, SendSubscribe(c) PROVE OpenRegistered'
  BY <1>0, <1>2 DEF SendSubscribe, OpenRegistered, TypeOK, agentVars, fates
<1>3. ASSUME NEW c \in Calls, SubscribeError(c) PROVE OpenRegistered'
  BY <1>0, <1>3
     DEF SubscribeError, OpenRegistered, TypeOK, agentVars, fates, nodeVars
<1>4. ASSUME NEW c \in Calls, RegisterAndDrain(c) PROVE OpenRegistered'
  BY <1>0, <1>4 DEF RegisterAndDrain, OpenRegistered, TypeOK, fates, nodeVars
<1>5. ASSUME NEW c \in Calls, Flush(c) PROVE OpenRegistered'
  BY <1>0, <1>5 DEF Flush, OpenRegistered, TypeOK, agentVars, nodeVars
<1>6. ASSUME NEW c \in Calls, HandlerRaises(c) PROVE OpenRegistered'
  BY <1>0, <1>6 DEF HandlerRaises, OpenRegistered, TypeOK, agentVars, nodeVars
<1>7. ASSUME NEW c \in Calls, Finish(c) PROVE OpenRegistered'
  BY <1>0, <1>7 DEF Finish, OpenRegistered, TypeOK, fates, nodeVars
<1>8. ASSUME NEW c \in Calls, Unsubscribe(c) PROVE OpenRegistered'
  BY <1>0, <1>8 DEF Unsubscribe, OpenRegistered, TypeOK, agentVars, fates
<1>9. ASSUME NEW c \in Calls, UnsubscribeError(c) PROVE OpenRegistered'
  BY <1>0, <1>9
     DEF UnsubscribeError, OpenRegistered, TypeOK, agentVars, fates, nodeVars
<1>10. ASSUME NEW c \in Calls, RemoveSubscription(c) PROVE OpenRegistered'
  BY <1>0, <1>10
     DEF RemoveSubscription, OpenRegistered, GrantsDistinct, GrantsTracked,
         Holding, TypeOK, nodeVars
<1>11. CASE HandleAnswer
  BY <1>0, <1>11
     DEF HandleAnswer, Answered, OpenRegistered, TypeOK, agentVars, fates
<1>12. CASE HandleNote
  BY <1>0, <1>12 DEF HandleNote, OpenRegistered, TypeOK
<1>13. CASE Dispatch
  BY <1>0, <1>13 DEF Dispatch, OpenRegistered, TypeOK, agentVars, nodeVars
<1>14. CASE Disconnect
  BY <1>0, <1>14 DEF Disconnect, OpenRegistered, TypeOK, agentVars, fates
<1>15. ASSUME NEW s \in Stoppers, FindAgent(s) PROVE OpenRegistered'
  BY <1>0, <1>15 DEF FindAgent, OpenRegistered, TypeOK, agentVars, fates, nodeVars
<1>16. ASSUME NEW s \in Stoppers, StopAgent(s) PROVE OpenRegistered'
  BY <1>0, <1>16 DEF StopAgent, OpenRegistered, TypeOK, fates, nodeVars
<1>17. ASSUME NEW c \in Calls, NEW i \in SubIds, Grant(c, i) PROVE OpenRegistered'
  BY <1>0, <1>17
     DEF Grant, OpenRegistered, GrantsTracked, Holding, TypeOK, agentVars,
         fates
<1>18. ASSUME NEW c \in Calls, NEW kind \in {"granted", "refused", "removed"},
              Answer(c, kind)
       PROVE  OpenRegistered'
  BY <1>0, <1>18 DEF Answer, OpenRegistered, TypeOK, agentVars, fates
<1>19. ASSUME NEW c \in Calls, Notify(c) PROVE OpenRegistered'
  BY <1>0, <1>19 DEF Notify, OpenRegistered, TypeOK, agentVars, fates
<1>20. CASE UNCHANGED vars
  BY <1>0, <1>20 DEF vars, OpenRegistered, TypeOK, agentVars, fates, nodeVars
<1> QED BY <1>1, <1>2, <1>3, <1>4, <1>5, <1>6, <1>7, <1>8, <1>9,
           <1>10, <1>11, <1>12, <1>13, <1>14, <1>15, <1>16, <1>17, <1>18,
           <1>19, <1>20
        DEF Next, CallerStep

\* The effect of HandleNote on the Agent's state.
NoteHandled(n, i) ==
  /\ Head(wire).n = n /\ target[n] = i /\ n \in 1..Len(target)
  /\ conn = "open" /\ conn' = conn
  /\ UNCHANGED <<pc, flush, registry, inFlight, grant, target>>
  /\ \/ pending' = pending /\ dropped' = dropped
     \/ /\ pending' = pending /\ dropped' = dropped \cup {n}
        /\ i \notin registry /\ inFlight = 0
     \/ i \notin registry /\ pending' = PushBounded(pending, i, n) /\ dropped' = dropped

\* Every run of lookup_or_buffer is one of its three outcomes, for a
\* notification that was sent and an id the node allotted.
LEMMA NoteHandling ==
  ASSUME RaceAccounted, HandleNote
  PROVE  \E n \in 1..MaxNotes, i \in SubIds : NoteHandled(n, i)
<1> DEFINE n == Head(wire).n
           i == target[n]
<1>0. TypeOK /\ WireTracked
  BY DEF RaceAccounted
<1>1. wire \in Seq(Frames) /\ wire # <<>> /\ Head(wire).kind = "note"
  BY <1>0 DEF TypeOK, HandleNote
<1>2. Head(wire) \in Elements(wire)
  BY <1>1, ElementsTail
<1>3. n \in 1..Len(target) /\ target \in Seq(SubIds) /\ Len(target) <= MaxNotes
  BY <1>0, <1>1, <1>2 DEF WireTracked, TypeOK
<1>4. n \in 1..MaxNotes /\ i \in SubIds
  BY <1>3, BoundIsNat
<1>5. NoteHandled(n, i)
  BY <1>3 DEF NoteHandled, HandleNote, connVars
<1> QED BY <1>4, <1>5

\* An allotted id is not the value that stands for no id.
LEMMA GrantAllotted == \A i \in SubIds : i # None
BY NoneIsNoId

\* register_and_drain and lookup_or_buffer never leave an id both registered
\* and buffered.
LEMMA BufferStep ==
  ASSUME RaceAccounted, [Next]_vars
  PROVE  RegisteredNotBuffered'
<1> USE DEF connVars, RegisteredNotBuffered
<1>0. TypeOK /\ RegisteredNotBuffered /\ GrantsTracked
  BY DEF RaceAccounted
<1>1. ASSUME NEW c \in Calls, BeginSubscribe(c) PROVE RegisteredNotBuffered'
  BY <1>0, <1>1 DEF BeginSubscribe, fates, nodeVars, Buffered
<1>2. ASSUME NEW c \in Calls, SendSubscribe(c) PROVE RegisteredNotBuffered'
  BY <1>0, <1>2 DEF SendSubscribe, agentVars, fates, Buffered
<1>3. ASSUME NEW c \in Calls, SubscribeError(c) PROVE RegisteredNotBuffered'
  BY <1>0, <1>3 DEF SubscribeError, agentVars, fates, nodeVars, Buffered
<1>4. ASSUME NEW c \in Calls, RegisterAndDrain(c) PROVE RegisteredNotBuffered'
  <2>1. CASE AgentUp
    <3>1. grant[c] \in SubIds /\ pending \in Buffers
      BY <1>0, <1>4
         DEF RegisterAndDrain, TypeOK, GrantsTracked, Holding, Buffers
    <3>2. /\ pending' = [pending EXCEPT ![grant[c]] = <<>>]
          /\ registry' = registry \cup {grant[c]}
      BY <1>4, <2>1 DEF RegisterAndDrain
    <3>3. Buffered(pending') = Buffered(pending) \ {grant[c]}
      BY <1>0, <3>1, <3>2, EmptiedBuffer DEF TypeOK
    <3> QED BY <1>0, <3>2, <3>3
  <2>2. CASE ~AgentUp
    BY <1>0, <1>4, <2>2 DEF RegisterAndDrain
  <2> QED BY <2>1, <2>2
<1>5. ASSUME NEW c \in Calls, Flush(c) PROVE RegisteredNotBuffered'
  BY <1>0, <1>5 DEF Flush, agentVars, nodeVars, Buffered
<1>6. ASSUME NEW c \in Calls, HandlerRaises(c) PROVE RegisteredNotBuffered'
  BY <1>0, <1>6 DEF HandlerRaises, agentVars, nodeVars, Buffered
<1>7. ASSUME NEW c \in Calls, Finish(c) PROVE RegisteredNotBuffered'
  BY <1>0, <1>7 DEF Finish, fates, nodeVars, Buffered
<1>8. ASSUME NEW c \in Calls, Unsubscribe(c) PROVE RegisteredNotBuffered'
  BY <1>0, <1>8 DEF Unsubscribe, agentVars, fates, Buffered
<1>9. ASSUME NEW c \in Calls, UnsubscribeError(c) PROVE RegisteredNotBuffered'
  BY <1>0, <1>9 DEF UnsubscribeError, agentVars, fates, nodeVars, Buffered
<1>10. ASSUME NEW c \in Calls, RemoveSubscription(c) PROVE RegisteredNotBuffered'
  <2>1. CASE AgentUp
    <3>1. grant[c] \in SubIds /\ pending \in Buffers
      BY <1>0, <1>10
         DEF RemoveSubscription, TypeOK, GrantsTracked, Holding, Buffers
    <3>2. /\ pending' = [pending EXCEPT ![grant[c]] = <<>>]
          /\ registry' = registry \ {grant[c]}
      BY <1>10, <2>1 DEF RemoveSubscription
    <3>3. Buffered(pending') = Buffered(pending) \ {grant[c]}
      BY <1>0, <3>1, <3>2, EmptiedBuffer DEF TypeOK
    <3> QED BY <1>0, <3>2, <3>3
  <2>2. CASE ~AgentUp
    BY <1>0, <1>10, <2>2 DEF RemoveSubscription
  <2> QED BY <2>1, <2>2
<1>11. CASE HandleAnswer
  BY <1>0, <1>11 DEF HandleAnswer, agentVars, fates, Buffered
<1>12. CASE HandleNote
  <2>1. PICK n \in 1..MaxNotes, i \in SubIds : NoteHandled(n, i)
    BY <1>12, NoteHandling
  <2>2. CASE pending' = pending
    BY <1>0, <2>1, <2>2 DEF NoteHandled
  <2>3. CASE i \notin registry /\ pending' = PushBounded(pending, i, n)
    <3>1. Buffered(pending') \subseteq Buffered(pending) \cup {i}
      BY <1>0, <2>3, PushKeepsCaps DEF TypeOK, Buffers
    <3> QED BY <1>0, <2>1, <2>3, <3>1 DEF NoteHandled
  <2> QED BY <2>1, <2>2, <2>3 DEF NoteHandled
<1>13. CASE Dispatch
  BY <1>0, <1>13 DEF Dispatch, Buffered, agentVars, nodeVars
<1>14. CASE Disconnect
  BY <1>0, <1>14 DEF Disconnect, agentVars, fates, Buffered
<1>15. ASSUME NEW s \in Stoppers, FindAgent(s) PROVE RegisteredNotBuffered'
  BY <1>0, <1>15 DEF FindAgent, Buffered, agentVars, fates, nodeVars
<1>16. ASSUME NEW s \in Stoppers, StopAgent(s) PROVE RegisteredNotBuffered'
  BY <1>0, <1>16 DEF StopAgent, fates, nodeVars, Buffered
<1>17. ASSUME NEW c \in Calls, NEW i \in SubIds, Grant(c, i) PROVE RegisteredNotBuffered'
  BY <1>0, <1>17 DEF Grant, agentVars, fates, Buffered
<1>18. ASSUME NEW c \in Calls, NEW kind \in {"granted", "refused", "removed"},
              Answer(c, kind)
       PROVE  RegisteredNotBuffered'
  BY <1>0, <1>18 DEF Answer, agentVars, fates, Buffered
<1>19. ASSUME NEW c \in Calls, Notify(c) PROVE RegisteredNotBuffered'
  BY <1>0, <1>19 DEF Notify, agentVars, fates, Buffered
<1>20. CASE UNCHANGED vars
  BY <1>0, <1>20 DEF vars, agentVars, fates, nodeVars, Buffered
<1> QED BY <1>1, <1>2, <1>3, <1>4, <1>5, <1>6, <1>7, <1>8, <1>9,
           <1>10, <1>11, <1>12, <1>13, <1>14, <1>15, <1>16, <1>17, <1>18,
           <1>19, <1>20
        DEF Next, CallerStep

\* What is on the wire was granted or sent.
LEMMA WireStep ==
  ASSUME RaceAccounted, [Next]_vars
  PROVE  WireTracked'
<1> USE DEF connVars
<1>0. /\ TypeOK /\ WireTracked /\ GrantsTracked
      /\ wire \in Seq(Frames) /\ \A f \in Elements(wire) : f \in Frames
  BY ElementsOfSeq DEF RaceAccounted, TypeOK
<1>1. ASSUME NEW c \in Calls, BeginSubscribe(c) PROVE WireTracked'
  BY <1>0, <1>1 DEF BeginSubscribe, WireTracked, fates, nodeVars
<1>2. ASSUME NEW c \in Calls, SendSubscribe(c) PROVE WireTracked'
  BY <1>0, <1>2 DEF SendSubscribe, WireTracked, agentVars, fates
<1>3. ASSUME NEW c \in Calls, SubscribeError(c) PROVE WireTracked'
  BY <1>0, <1>3 DEF SubscribeError, WireTracked, agentVars, fates, nodeVars
<1>4. ASSUME NEW c \in Calls, RegisterAndDrain(c) PROVE WireTracked'
  BY <1>0, <1>4 DEF RegisterAndDrain, WireTracked, fates, nodeVars
<1>5. ASSUME NEW c \in Calls, Flush(c) PROVE WireTracked'
  BY <1>0, <1>5 DEF Flush, WireTracked, agentVars, nodeVars
<1>6. ASSUME NEW c \in Calls, HandlerRaises(c) PROVE WireTracked'
  BY <1>0, <1>6 DEF HandlerRaises, WireTracked, agentVars, nodeVars
<1>7. ASSUME NEW c \in Calls, Finish(c) PROVE WireTracked'
  BY <1>0, <1>7 DEF Finish, WireTracked, fates, nodeVars
<1>8. ASSUME NEW c \in Calls, Unsubscribe(c) PROVE WireTracked'
  BY <1>0, <1>8 DEF Unsubscribe, WireTracked, agentVars, fates
<1>9. ASSUME NEW c \in Calls, UnsubscribeError(c) PROVE WireTracked'
  BY <1>0, <1>9 DEF UnsubscribeError, WireTracked, agentVars, fates, nodeVars
<1>10. ASSUME NEW c \in Calls, RemoveSubscription(c) PROVE WireTracked'
  BY <1>0, <1>10 DEF RemoveSubscription, WireTracked, nodeVars
<1>11. CASE HandleAnswer
  <2>1. Elements(wire') \subseteq Elements(wire)
    BY <1>0, <1>11, ElementsTail DEF HandleAnswer
  <2> QED BY <1>0, <1>11, <2>1 DEF HandleAnswer, WireTracked
<1>12. CASE HandleNote
  <2>1. Elements(wire') \subseteq Elements(wire)
    BY <1>0, <1>12, ElementsTail DEF HandleNote
  <2> QED BY <1>0, <1>12, <2>1 DEF HandleNote, WireTracked
<1>13. CASE Dispatch
  BY <1>0, <1>13 DEF Dispatch, WireTracked, agentVars, nodeVars
<1>14. CASE Disconnect
  BY <1>0, <1>14, ElementsEmpty DEF Disconnect, WireTracked
<1>15. ASSUME NEW s \in Stoppers, FindAgent(s) PROVE WireTracked'
  BY <1>0, <1>15 DEF FindAgent, WireTracked, agentVars, fates, nodeVars
<1>16. ASSUME NEW s \in Stoppers, StopAgent(s) PROVE WireTracked'
  BY <1>0, <1>16 DEF StopAgent, WireTracked, fates, nodeVars
<1>17. ASSUME NEW c \in Calls, NEW i \in SubIds, Grant(c, i) PROVE WireTracked'
  <2>1. \A d \in Calls : grant[d] # None => grant'[d] = grant[d]
    BY <1>0, <1>17 DEF Grant, TypeOK, GrantsTracked
  <2>2. \A f \in Frames : f.kind = "granted" => f.call \in Calls
    BY DEF Frames
  <2>3. UNCHANGED <<wire, target>>
    BY <1>17 DEF Grant
  <2> QED BY <1>0, <2>1, <2>2, <2>3, GrantAllotted DEF WireTracked
<1>18. ASSUME NEW c \in Calls, NEW kind \in {"granted", "refused", "removed"},
              Answer(c, kind)
       PROVE  WireTracked'
  <2> DEFINE f == [kind |-> kind, call |-> c]
  <2>1. f \in Frames /\ f.kind = kind /\ f.call = c /\ f.kind # "note"
    BY DEF Frames
  <2>2. kind = "granted" => grant[c] # None
    BY <1>0, <1>18 DEF Answer, GrantsTracked
  <2>3. wire' = Append(wire, f) /\ UNCHANGED <<grant, target>>
    BY <1>18 DEF Answer
  <2> HIDE DEF f
  <2>4. Elements(wire') \subseteq Elements(wire) \cup {f}
    BY <1>0, <2>1, <2>3, ElementsAppend
  <2> QED BY <1>0, <2>1, <2>2, <2>3, <2>4 DEF WireTracked
<1>19. ASSUME NEW c \in Calls, Notify(c) PROVE WireTracked'
  <2> DEFINE f == [kind |-> "note", n |-> Len(target) + 1]
  <2>1. /\ target' = Append(target, grant[c]) /\ wire' = Append(wire, f)
        /\ UNCHANGED grant /\ grant[c] \in SubIds
    BY <1>0, <1>19 DEF Notify, TypeOK
  <2>2. Len(target) \in Nat /\ Len(target') = Len(target) + 1 /\ Len(target) < MaxNotes
    BY <1>0, <1>19, <2>1 DEF TypeOK, Notify
  <2>3. f \in Frames /\ f.kind = "note" /\ f.n = Len(target')
    BY <2>2, BoundIsNat DEF Frames
  <2> HIDE DEF f
  <2>4. Elements(wire') \subseteq Elements(wire) \cup {f}
    BY <1>0, <2>1, <2>3, ElementsAppend
  <2>5. f.n \in 1..Len(target') /\ 1..Len(target) \subseteq 1..Len(target')
    BY <2>2, <2>3
  <2> QED BY <1>0, <2>1, <2>3, <2>4, <2>5 DEF WireTracked
<1>20. CASE UNCHANGED vars
  BY <1>0, <1>20 DEF vars, WireTracked, agentVars, fates, nodeVars
<1> QED BY <1>1, <1>2, <1>3, <1>4, <1>5, <1>6, <1>7, <1>8, <1>9,
           <1>10, <1>11, <1>12, <1>13, <1>14, <1>15, <1>16, <1>17, <1>18,
           <1>19, <1>20
        DEF Next, CallerStep

\* A buffered or drained notification stays with the id it was sent for.
LEMMA NotesStep ==
  ASSUME RaceAccounted, [Next]_vars
  PROVE  NotesTracked'
<1> USE DEF connVars, SentTo
<1>0. /\ TypeOK /\ NotesTracked /\ GrantsTracked /\ FlushingOnly
      /\ pending \in Buffers
  BY DEF RaceAccounted, TypeOK, Buffers
<1>1. ASSUME NEW c \in Calls, BeginSubscribe(c) PROVE NotesTracked'
  BY <1>0, <1>1 DEF BeginSubscribe, NotesTracked, fates, nodeVars
<1>2. ASSUME NEW c \in Calls, SendSubscribe(c) PROVE NotesTracked'
  BY <1>0, <1>2 DEF SendSubscribe, NotesTracked, agentVars, fates
<1>3. ASSUME NEW c \in Calls, SubscribeError(c) PROVE NotesTracked'
  BY <1>0, <1>3 DEF SubscribeError, NotesTracked, agentVars, fates, nodeVars
<1>4. ASSUME NEW c \in Calls, RegisterAndDrain(c) PROVE NotesTracked'
  <2>1. UNCHANGED <<inFlight, connVars, fates, nodeVars>>
    BY <1>4 DEF RegisterAndDrain
  <2>2. CASE AgentUp
    <3>1. grant[c] \in SubIds
      BY <1>0, <1>4 DEF RegisterAndDrain, TypeOK, GrantsTracked, Holding
    <3>2. \A i \in SubIds : pending'[i] = pending[i] \/ pending'[i] = <<>>
      BY <1>0, <1>4, <2>2 DEF RegisterAndDrain, TypeOK
    <3>3. /\ flush'[c] = Reversed(pending[grant[c]])
          /\ \A d \in Calls \ {c} : flush'[d] = flush[d]
      BY <1>0, <1>4, <2>2 DEF RegisterAndDrain, TypeOK
    <3>4. Elements(flush'[c]) = Elements(pending[grant[c]])
      BY <1>0, <3>1, <3>3, ReversedSeq DEF Buffers
    <3>5. \A i \in SubIds : Elements(pending'[i]) \subseteq Elements(pending[i])
      BY <3>2, ElementsEmpty
    <3> QED BY <1>0, <2>1, <3>1, <3>3, <3>4, <3>5
               DEF NotesTracked, fates, nodeVars
  <2>3. CASE ~AgentUp
    BY <1>0, <1>4, <2>1, <2>3
       DEF RegisterAndDrain, NotesTracked, fates, nodeVars
  <2> QED BY <2>2, <2>3
<1>5. ASSUME NEW c \in Calls, Flush(c) PROVE NotesTracked'
  <2>1. \A d \in Calls : Elements(flush'[d]) \subseteq Elements(flush[d])
    <3>1. Elements(Tail(flush[c])) \subseteq Elements(flush[c])
      BY <1>0, <1>5, ElementsTail DEF Flush, TypeOK
    <3> QED BY <1>0, <1>5, <3>1 DEF Flush, TypeOK
  <2> QED BY <1>0, <1>5, <2>1 DEF Flush, NotesTracked, agentVars, nodeVars
<1>6. ASSUME NEW c \in Calls, HandlerRaises(c) PROVE NotesTracked'
  <2>1. \A d \in Calls : Elements(flush'[d]) \subseteq Elements(flush[d])
    BY <1>0, <1>6, ElementsEmpty DEF HandlerRaises, TypeOK
  <2>2. Elements(flush[c]) \subseteq 1..Len(target)
    BY <1>0 DEF NotesTracked
  <2> QED BY <1>0, <1>6, <2>1, <2>2
             DEF HandlerRaises, NotesTracked, agentVars, nodeVars
<1>7. ASSUME NEW c \in Calls, Finish(c) PROVE NotesTracked'
  BY <1>0, <1>7 DEF Finish, NotesTracked, fates, nodeVars
<1>8. ASSUME NEW c \in Calls, Unsubscribe(c) PROVE NotesTracked'
  BY <1>0, <1>8 DEF Unsubscribe, NotesTracked, agentVars, fates
<1>9. ASSUME NEW c \in Calls, UnsubscribeError(c) PROVE NotesTracked'
  BY <1>0, <1>9 DEF UnsubscribeError, NotesTracked, agentVars, fates, nodeVars
<1>10. ASSUME NEW c \in Calls, RemoveSubscription(c) PROVE NotesTracked'
  <2>1. UNCHANGED <<flush, inFlight, connVars, delivered, evicted, nodeVars>>
    BY <1>10 DEF RemoveSubscription
  <2>2. CASE AgentUp
    <3>1. grant[c] \in SubIds
      BY <1>0, <1>10 DEF RemoveSubscription, TypeOK, GrantsTracked, Holding
    <3>2. \A i \in SubIds : pending'[i] = pending[i] \/ pending'[i] = <<>>
      BY <1>0, <1>10, <2>2 DEF RemoveSubscription, TypeOK
    <3>3. \A i \in SubIds : Elements(pending'[i]) \subseteq Elements(pending[i])
      BY <3>2, ElementsEmpty
    <3>4. dropped' = dropped \cup Elements(pending[grant[c]])
      BY <1>10, <2>2 DEF RemoveSubscription
    <3> QED BY <1>0, <2>1, <3>1, <3>3, <3>4 DEF NotesTracked, nodeVars
  <2>3. CASE ~AgentUp
    BY <1>0, <1>10, <2>1, <2>3 DEF RemoveSubscription, NotesTracked, nodeVars
  <2> QED BY <2>2, <2>3
<1>11. CASE HandleAnswer
  BY <1>0, <1>11 DEF HandleAnswer, NotesTracked, agentVars, fates
<1>12. CASE HandleNote
  <2>1. PICK n \in 1..MaxNotes, i \in SubIds : NoteHandled(n, i)
    BY <1>12, NoteHandling
  <2>2. CASE pending' = pending
    BY <1>0, <2>1, <2>2 DEF NoteHandled, NotesTracked
  <2>3. CASE pending' = PushBounded(pending, i, n) /\ dropped' = dropped
    <3>1. /\ Elements(pending'[i]) \subseteq Elements(pending[i]) \cup {n}
          /\ \A j \in SubIds \ {i} : Elements(pending'[j]) \subseteq Elements(pending[j])
      BY <1>0, <2>3, PushKeepsCaps DEF TypeOK
    <3> QED BY <1>0, <2>1, <2>3, <3>1 DEF NoteHandled, NotesTracked
  <2> QED BY <2>1, <2>2, <2>3 DEF NoteHandled
<1>13. CASE Dispatch
  BY <1>0, <1>13 DEF Dispatch, NotesTracked, agentVars, nodeVars
<1>14. CASE Disconnect
  BY <1>0, <1>14 DEF Disconnect, NotesTracked, agentVars, fates
<1>15. ASSUME NEW s \in Stoppers, FindAgent(s) PROVE NotesTracked'
  BY <1>0, <1>15 DEF FindAgent, NotesTracked, agentVars, fates, nodeVars
<1>16. ASSUME NEW s \in Stoppers, StopAgent(s) PROVE NotesTracked'
  <2>1. \A i \in SubIds : Elements(pending'[i]) = {}
    BY <1>16, ElementsEmpty DEF StopAgent
  <2> QED BY <1>0, <1>16, <2>1 DEF StopAgent, NotesTracked, fates, nodeVars
<1>17. ASSUME NEW c \in Calls, NEW i \in SubIds, Grant(c, i) PROVE NotesTracked'
  <2>1. grant[c] = None /\ flush[c] = <<>>
    BY <1>0, <1>17 DEF Grant, GrantsTracked, FlushingOnly, Holding
  <2>2. \A d \in Calls \ {c} : grant'[d] = grant[d]
    BY <1>0, <1>17 DEF Grant, TypeOK
  <2>3. UNCHANGED <<flush, pending, dropped, target>>
    BY <1>17 DEF Grant, agentVars, fates
  <2>4. \A n \in 1..Len(target) : target[n] # None
    BY <1>0, NoneIsNoId DEF TypeOK
  <2> QED BY <1>0, <2>1, <2>2, <2>3, <2>4, ElementsEmpty DEF NotesTracked
<1>18. ASSUME NEW c \in Calls, NEW kind \in {"granted", "refused", "removed"},
              Answer(c, kind)
       PROVE  NotesTracked'
  BY <1>0, <1>18 DEF Answer, NotesTracked, agentVars, fates
<1>19. ASSUME NEW c \in Calls, Notify(c) PROVE NotesTracked'
  <2>1. /\ target \in Seq(SubIds) /\ Len(target) \in Nat /\ grant[c] \in SubIds
        /\ target' = Append(target, grant[c])
        /\ UNCHANGED <<flush, pending, dropped, grant>>
    BY <1>0, <1>19 DEF Notify, TypeOK, agentVars, fates
  <2>2. /\ Len(target') = Len(target) + 1 /\ target'[Len(target) + 1] = grant[c]
        /\ \A n \in 1..Len(target) : n \in 1..Len(target') /\ target'[n] = target[n]
    BY <2>1
  <2>3. \A n \in 1..Len(target') : n \in 1..Len(target) \/ n = Len(target) + 1
    BY <2>1, <2>2
  <2> QED BY <1>0, <2>1, <2>2, <2>3 DEF NotesTracked
<1>20. CASE UNCHANGED vars
  BY <1>0, <1>20 DEF vars, NotesTracked, agentVars, fates, nodeVars
<1> QED BY <1>1, <1>2, <1>3, <1>4, <1>5, <1>6, <1>7, <1>8, <1>9,
           <1>10, <1>11, <1>12, <1>13, <1>14, <1>15, <1>16, <1>17, <1>18,
           <1>19, <1>20
        DEF Next, CallerStep

\* The calls InFlightCounts counts.
InFlightCalls == {c \in Calls : pc[c] \in InFlightAt}

\* The calls in flight can be counted.
LEMMA InFlightFinite ==
  IsFiniteSet(InFlightCalls) /\ Cardinality(InFlightCalls) \in Nat
<1>1. InFlightCalls \in SUBSET Calls
  BY DEF InFlightCalls
<1>2. IsFiniteSet(InFlightCalls)
  BY <1>1, CallsFinite, FS_Subset
<1> QED BY <1>2, FS_CardinalityType

\* A step that moves no call into or out of flight keeps the count right.
LEMMA CountSame ==
  ASSUME InFlightCounts, AgentUp' => AgentUp, inFlight' = inFlight,
         \A c \in Calls : pc'[c] \in InFlightAt <=> pc[c] \in InFlightAt
  PROVE  InFlightCounts'
<1>1. InFlightCalls' = InFlightCalls
  BY DEF InFlightCalls
<1> QED BY <1>1 DEF InFlightCounts, InFlightCalls

\* The increment of do_subscribe and the decrement of its `after` clause keep
\* in_flight the number of calls in flight; max(_ - 1, 0) never cuts it short.
LEMMA CountStep ==
  ASSUME RaceAccounted, [Next]_vars
  PROVE  InFlightCounts'
<1> USE DEF connVars, InFlightAt
<1>0. TypeOK /\ InFlightCounts
  BY DEF RaceAccounted
<1>1. ASSUME NEW c \in Calls, BeginSubscribe(c) PROVE InFlightCounts'
  <2>1. CASE AgentUp
    <3>1. /\ inFlight' = inFlight + 1 /\ pc[c] \notin InFlightAt
          /\ \A d \in Calls : pc'[d] \in InFlightAt <=> pc[d] \in InFlightAt \/ d = c
      BY <1>0, <1>1, <2>1 DEF BeginSubscribe, TypeOK
    <3>2. InFlightCalls' = InFlightCalls \cup {c} /\ c \notin InFlightCalls
      BY <3>1 DEF InFlightCalls
    <3> QED BY <1>0, <2>1, <3>1, <3>2, InFlightFinite, FS_AddElement
               DEF InFlightCounts, InFlightCalls
  <2>2. CASE ~AgentUp
    BY <1>1, <2>2 DEF BeginSubscribe, InFlightCounts, AgentUp
  <2> QED BY <2>1, <2>2
<1>2. ASSUME NEW c \in Calls, SendSubscribe(c) PROVE InFlightCounts'
  BY <1>0, <1>2, CountSame DEF SendSubscribe, TypeOK, AgentUp, agentVars
<1>3. ASSUME NEW c \in Calls, SubscribeError(c) PROVE InFlightCounts'
  BY <1>0, <1>3, CountSame DEF SubscribeError, TypeOK, AgentUp, agentVars
<1>4. ASSUME NEW c \in Calls, RegisterAndDrain(c) PROVE InFlightCounts'
  <2>1. CASE AgentUp
    BY <1>0, <1>4, <2>1, CountSame DEF RegisterAndDrain, TypeOK
  <2>2. CASE ~AgentUp
    BY <1>4, <2>2 DEF RegisterAndDrain, InFlightCounts, AgentUp
  <2> QED BY <2>1, <2>2
<1>5. ASSUME NEW c \in Calls, Flush(c) PROVE InFlightCounts'
  BY <1>0, <1>5, CountSame DEF Flush, TypeOK, AgentUp, agentVars
<1>6. ASSUME NEW c \in Calls, HandlerRaises(c) PROVE InFlightCounts'
  BY <1>0, <1>6, CountSame DEF HandlerRaises, TypeOK, AgentUp, agentVars
<1>7. ASSUME NEW c \in Calls, Finish(c) PROVE InFlightCounts'
  <2>1. CASE AgentUp
    <3>1. /\ pc[c] \in InFlightAt
          /\ inFlight' = IF inFlight > 0 THEN inFlight - 1 ELSE 0
          /\ \A d \in Calls : pc'[d] \in InFlightAt <=> pc[d] \in InFlightAt /\ d # c
      BY <1>0, <1>7, <2>1 DEF Finish, TypeOK
    <3>2. InFlightCalls' = InFlightCalls \ {c} /\ c \in InFlightCalls
      BY <3>1 DEF InFlightCalls
    <3>3. inFlight = Cardinality(InFlightCalls) /\ Cardinality(InFlightCalls) \in Nat
      BY <1>0, <2>1, InFlightFinite DEF InFlightCounts, InFlightCalls
    <3>4. Cardinality(InFlightCalls') = Cardinality(InFlightCalls) - 1
      BY <3>2, InFlightFinite, FS_RemoveElement
    <3>5. inFlight # 0
      BY <3>2, <3>3, InFlightFinite, FS_EmptySet
    <3> QED BY <3>1, <3>3, <3>4, <3>5 DEF InFlightCounts, InFlightCalls
  <2>2. CASE ~AgentUp
    BY <1>7, <2>2 DEF Finish, InFlightCounts, AgentUp
  <2> QED BY <2>1, <2>2
<1>8. ASSUME NEW c \in Calls, Unsubscribe(c) PROVE InFlightCounts'
  BY <1>0, <1>8, CountSame DEF Unsubscribe, TypeOK, AgentUp, agentVars
<1>9. ASSUME NEW c \in Calls, UnsubscribeError(c) PROVE InFlightCounts'
  BY <1>0, <1>9, CountSame DEF UnsubscribeError, TypeOK, AgentUp, agentVars
<1>10. ASSUME NEW c \in Calls, RemoveSubscription(c) PROVE InFlightCounts'
  <2>1. CASE AgentUp
    BY <1>0, <1>10, <2>1, CountSame DEF RemoveSubscription, TypeOK
  <2>2. CASE ~AgentUp
    BY <1>10, <2>2 DEF RemoveSubscription, InFlightCounts, AgentUp
  <2> QED BY <2>1, <2>2
<1>11. CASE HandleAnswer
  BY <1>0, <1>11, CountSame
     DEF HandleAnswer, Answered, TypeOK, AgentUp, agentVars
<1>12. CASE HandleNote
  BY <1>0, <1>12, CountSame DEF HandleNote, TypeOK, AgentUp
<1>13. CASE Dispatch
  BY <1>0, <1>13, CountSame DEF Dispatch, AgentUp, agentVars, nodeVars
<1>14. CASE Disconnect
  BY <1>0, <1>14, CountSame DEF Disconnect, TypeOK, AgentUp, agentVars
<1>15. ASSUME NEW s \in Stoppers, FindAgent(s) PROVE InFlightCounts'
  BY <1>0, <1>15, CountSame DEF FindAgent, AgentUp, agentVars, fates, nodeVars
<1>16. ASSUME NEW s \in Stoppers, StopAgent(s) PROVE InFlightCounts'
  BY <1>16 DEF StopAgent, InFlightCounts, AgentUp
<1>17. ASSUME NEW c \in Calls, NEW i \in SubIds, Grant(c, i) PROVE InFlightCounts'
  BY <1>0, <1>17, CountSame DEF Grant, TypeOK, AgentUp, agentVars
<1>18. ASSUME NEW c \in Calls, NEW kind \in {"granted", "refused", "removed"},
              Answer(c, kind)
       PROVE  InFlightCounts'
  BY <1>0, <1>18, CountSame DEF Answer, TypeOK, AgentUp, agentVars
<1>19. ASSUME NEW c \in Calls, Notify(c) PROVE InFlightCounts'
  BY <1>0, <1>19, CountSame DEF Notify, TypeOK, AgentUp, agentVars
<1>20. CASE UNCHANGED vars
  BY <1>0, <1>20, CountSame DEF vars, agentVars, AgentUp
<1> QED BY <1>1, <1>2, <1>3, <1>4, <1>5, <1>6, <1>7, <1>8, <1>9,
           <1>10, <1>11, <1>12, <1>13, <1>14, <1>15, <1>16, <1>17, <1>18,
           <1>19, <1>20
        DEF Next, CallerStep

\* No step discards unbuffered a notification whose caller still expects it:
\* lookup_or_buffer drops only when in_flight is 0 and the id is unknown.
LEMMA AwaitedStep ==
  ASSUME RaceAccounted, [Next]_vars
  PROVE  AwaitedNeverDropped'
<1> USE DEF connVars, AwaitingAt
<1>0. TypeOK /\ AwaitedNeverDropped
  BY DEF RaceAccounted
<1>a. /\ GrantsTracked /\ GrantsDistinct /\ NotesTracked /\ FlushingOnly
      /\ OpenRegistered /\ InFlightCounts
  BY DEF RaceAccounted
<1>b. \A n \in dropped : n \in 1..Len(target) /\ target[n] \in SubIds /\ target[n] # None
  BY <1>0, <1>a, NoneIsNoId DEF NotesTracked, TypeOK
<1>1. ASSUME NEW c \in Calls, BeginSubscribe(c) PROVE AwaitedNeverDropped'
  BY <1>0, <1>1
     DEF BeginSubscribe, AwaitedNeverDropped, TypeOK, fates, nodeVars
<1>2. ASSUME NEW c \in Calls, SendSubscribe(c) PROVE AwaitedNeverDropped'
  BY <1>0, <1>a, <1>b, <1>2
     DEF SendSubscribe, GrantsTracked, AwaitedNeverDropped, TypeOK, fates
<1>3. ASSUME NEW c \in Calls, SubscribeError(c) PROVE AwaitedNeverDropped'
  BY <1>0, <1>3
     DEF SubscribeError, AwaitedNeverDropped, TypeOK, agentVars, fates,
         nodeVars
<1>4. ASSUME NEW c \in Calls, RegisterAndDrain(c) PROVE AwaitedNeverDropped'
  BY <1>0, <1>4
     DEF RegisterAndDrain, AwaitedNeverDropped, TypeOK, fates, nodeVars
<1>5. ASSUME NEW c \in Calls, Flush(c) PROVE AwaitedNeverDropped'
  BY <1>0, <1>5 DEF Flush, AwaitedNeverDropped, TypeOK, agentVars, nodeVars
<1>6. ASSUME NEW c \in Calls, HandlerRaises(c) PROVE AwaitedNeverDropped'
  <2>1. \A n \in Elements(flush[c]) : target[n] = grant[c]
    BY <1>a DEF NotesTracked, SentTo
  <2>2. grant[c] # None
    BY <1>a, <1>6 DEF HandlerRaises, GrantsTracked, Holding
  <2>3. \A d \in Calls : pc'[d] \in AwaitingAt => pc[d] \in AwaitingAt /\ d # c
    BY <1>0, <1>6 DEF HandlerRaises, TypeOK
  <2> QED BY <1>0, <1>a, <1>6, <2>1, <2>2, <2>3
             DEF HandlerRaises, GrantsDistinct, AwaitedNeverDropped, nodeVars
<1>7. ASSUME NEW c \in Calls, Finish(c) PROVE AwaitedNeverDropped'
  BY <1>0, <1>7 DEF Finish, AwaitedNeverDropped, TypeOK, fates, nodeVars
<1>8. ASSUME NEW c \in Calls, Unsubscribe(c) PROVE AwaitedNeverDropped'
  BY <1>0, <1>8 DEF Unsubscribe, AwaitedNeverDropped, TypeOK, agentVars, fates
<1>9. ASSUME NEW c \in Calls, UnsubscribeError(c) PROVE AwaitedNeverDropped'
  BY <1>0, <1>9
     DEF UnsubscribeError, AwaitedNeverDropped, TypeOK, agentVars, fates,
         nodeVars
<1>10. ASSUME NEW c \in Calls, RemoveSubscription(c) PROVE AwaitedNeverDropped'
  <2>1. CASE AgentUp
    <3>1. grant[c] \in SubIds /\ grant[c] # None
      BY <1>0, <1>a, <1>10
         DEF RemoveSubscription, GrantsTracked, Holding, TypeOK
    <3>2. \A n \in Elements(pending[grant[c]]) : target[n] = grant[c]
      BY <1>a, <3>1 DEF NotesTracked, SentTo
    <3>3. \A d \in Calls : pc'[d] \in AwaitingAt => pc[d] \in AwaitingAt /\ d # c
      BY <1>0, <1>10, <2>1 DEF RemoveSubscription, TypeOK
    <3> QED BY <1>0, <1>a, <1>10, <2>1, <3>1, <3>2, <3>3
               DEF RemoveSubscription, GrantsDistinct, AwaitedNeverDropped,
                   nodeVars
  <2>2. CASE ~AgentUp
    BY <1>0, <1>10, <2>2
       DEF RemoveSubscription, AwaitedNeverDropped, TypeOK, nodeVars
  <2> QED BY <2>1, <2>2
<1>11. CASE HandleAnswer
  BY <1>0, <1>11 DEF HandleAnswer, Answered, AwaitedNeverDropped, TypeOK, fates
<1>12. CASE HandleNote
  <2>1. PICK n \in 1..MaxNotes, i \in SubIds : NoteHandled(n, i)
    BY <1>12, NoteHandling
  <2>2. CASE dropped' = dropped
    BY <1>0, <2>1, <2>2 DEF NoteHandled, AwaitedNeverDropped
  <2>3. CASE dropped' = dropped \cup {n} /\ i \notin registry /\ inFlight = 0
    <3>1. AgentUp /\ InFlightCalls = {}
      <4>1. AgentUp
        BY <2>1 DEF NoteHandled, AgentUp
      <4>2. Cardinality(InFlightCalls) = 0
        BY <1>a, <2>3, <4>1 DEF InFlightCounts, InFlightCalls
      <4> QED BY <4>1, <4>2, InFlightFinite, FS_EmptySet
    <3>2. \A c \in Calls : pc[c] \in AwaitingAt => grant[c] # i
      <4> SUFFICES ASSUME NEW c \in Calls, pc[c] \in AwaitingAt PROVE grant[c] # i
        OBVIOUS
      <4>1. pc[c] \in {"subscribed", "unsubscribing"}
        BY <3>1 DEF InFlightCalls, InFlightAt
      <4> QED BY <1>a, <2>3, <3>1, <4>1 DEF OpenRegistered
    <3> QED BY <1>0, <2>1, <2>3, <3>2 DEF NoteHandled, AwaitedNeverDropped
  <2> QED BY <2>1, <2>2, <2>3 DEF NoteHandled
<1>13. CASE Dispatch
  BY <1>0, <1>13 DEF Dispatch, AwaitedNeverDropped, TypeOK, agentVars, nodeVars
<1>14. CASE Disconnect
  BY <1>0, <1>14 DEF Disconnect, AwaitedNeverDropped, TypeOK, agentVars, fates
<1>15. ASSUME NEW s \in Stoppers, FindAgent(s) PROVE AwaitedNeverDropped'
  BY <1>0, <1>15 DEF FindAgent, AwaitedNeverDropped, TypeOK, agentVars, fates, nodeVars
<1>16. ASSUME NEW s \in Stoppers, StopAgent(s) PROVE AwaitedNeverDropped'
  BY <1>0, <1>16 DEF StopAgent, AwaitedNeverDropped, TypeOK, fates, nodeVars
<1>17. ASSUME NEW c \in Calls, NEW i \in SubIds, Grant(c, i) PROVE AwaitedNeverDropped'
  <2>1. \A n \in dropped : target[n] # i
    BY <1>0, <1>a, <1>b, <1>17 DEF Grant, NotesTracked
  <2> QED BY <1>0, <1>17, <2>1 DEF Grant, AwaitedNeverDropped, TypeOK, fates
<1>18. ASSUME NEW c \in Calls, NEW kind \in {"granted", "refused", "removed"},
              Answer(c, kind)
       PROVE  AwaitedNeverDropped'
  BY <1>0, <1>18 DEF Answer, AwaitedNeverDropped, TypeOK, agentVars, fates
<1>19. ASSUME NEW c \in Calls, Notify(c) PROVE AwaitedNeverDropped'
  <2>1. \A n \in dropped : target'[n] = target[n]
    BY <1>0, <1>b, <1>19 DEF Notify, TypeOK
  <2> QED BY <1>0, <1>19, <2>1 DEF Notify, AwaitedNeverDropped, fates
<1>20. CASE UNCHANGED vars
  BY <1>0, <1>20
     DEF vars, AwaitedNeverDropped, TypeOK, agentVars, fates, nodeVars
<1> QED BY <1>1, <1>2, <1>3, <1>4, <1>5, <1>6, <1>7, <1>8, <1>9,
           <1>10, <1>11, <1>12, <1>13, <1>14, <1>15, <1>16, <1>17, <1>18,
           <1>19, <1>20
        DEF Next, CallerStep

\* No step registers an id again after remove_subscription took it out.
LEMMA ClosedStep ==
  ASSUME RaceAccounted, [Next]_vars
  PROVE  ClosedForgotten'
<1> USE DEF connVars, AgentUp
<1>0. TypeOK /\ ClosedForgotten /\ GrantsDistinct /\ GrantsTracked
  BY DEF RaceAccounted
<1>1. ASSUME NEW c \in Calls, BeginSubscribe(c) PROVE ClosedForgotten'
  BY <1>0, <1>1 DEF BeginSubscribe, ClosedForgotten, TypeOK, fates, nodeVars
<1>2. ASSUME NEW c \in Calls, SendSubscribe(c) PROVE ClosedForgotten'
  BY <1>0, <1>2 DEF SendSubscribe, ClosedForgotten, TypeOK, agentVars, fates
<1>3. ASSUME NEW c \in Calls, SubscribeError(c) PROVE ClosedForgotten'
  BY <1>0, <1>3
     DEF SubscribeError, ClosedForgotten, TypeOK, agentVars, fates, nodeVars
<1>4. ASSUME NEW c \in Calls, RegisterAndDrain(c) PROVE ClosedForgotten'
  <2>1. UNCHANGED grant /\ registry' \subseteq registry \cup {grant[c]}
    BY <1>4 DEF RegisterAndDrain, nodeVars
  <2>2. \A d \in Calls : pc'[d] = "unsubscribed" => pc[d] = "unsubscribed"
    BY <1>0, <1>4 DEF RegisterAndDrain, TypeOK
  <2>3. \A d \in Calls : pc[d] = "unsubscribed" => grant[d] # grant[c]
    BY <1>0, <1>4 DEF RegisterAndDrain, GrantsDistinct, GrantsTracked, Holding
  <2>4. UNCHANGED conn
    BY <1>4 DEF RegisterAndDrain
  <2> QED BY <1>0, <2>1, <2>2, <2>3, <2>4 DEF ClosedForgotten
<1>5. ASSUME NEW c \in Calls, Flush(c) PROVE ClosedForgotten'
  BY <1>0, <1>5 DEF Flush, ClosedForgotten, TypeOK, agentVars, nodeVars
<1>6. ASSUME NEW c \in Calls, HandlerRaises(c) PROVE ClosedForgotten'
  BY <1>0, <1>6 DEF HandlerRaises, ClosedForgotten, TypeOK, agentVars, nodeVars
<1>7. ASSUME NEW c \in Calls, Finish(c) PROVE ClosedForgotten'
  BY <1>0, <1>7 DEF Finish, ClosedForgotten, TypeOK, fates, nodeVars
<1>8. ASSUME NEW c \in Calls, Unsubscribe(c) PROVE ClosedForgotten'
  BY <1>0, <1>8 DEF Unsubscribe, ClosedForgotten, TypeOK, agentVars, fates
<1>9. ASSUME NEW c \in Calls, UnsubscribeError(c) PROVE ClosedForgotten'
  BY <1>0, <1>9
     DEF UnsubscribeError, ClosedForgotten, TypeOK, agentVars, fates, nodeVars
<1>10. ASSUME NEW c \in Calls, RemoveSubscription(c) PROVE ClosedForgotten'
  BY <1>0, <1>10 DEF RemoveSubscription, ClosedForgotten, TypeOK, nodeVars
<1>11. CASE HandleAnswer
  BY <1>0, <1>11
     DEF HandleAnswer, Answered, ClosedForgotten, TypeOK, agentVars, fates
<1>12. CASE HandleNote
  BY <1>0, <1>12 DEF HandleNote, ClosedForgotten, TypeOK
<1>13. CASE Dispatch
  BY <1>0, <1>13 DEF Dispatch, ClosedForgotten, TypeOK, agentVars, nodeVars
<1>14. CASE Disconnect
  BY <1>0, <1>14 DEF Disconnect, ClosedForgotten, TypeOK, agentVars, fates
<1>15. ASSUME NEW s \in Stoppers, FindAgent(s) PROVE ClosedForgotten'
  BY <1>0, <1>15 DEF FindAgent, ClosedForgotten, TypeOK, agentVars, fates, nodeVars
<1>16. ASSUME NEW s \in Stoppers, StopAgent(s) PROVE ClosedForgotten'
  BY <1>0, <1>16 DEF StopAgent, ClosedForgotten, TypeOK, fates, nodeVars
<1>17. ASSUME NEW c \in Calls, NEW i \in SubIds, Grant(c, i) PROVE ClosedForgotten'
  BY <1>0, <1>17
     DEF Grant, ClosedForgotten, GrantsTracked, Holding, TypeOK, agentVars,
         fates
<1>18. ASSUME NEW c \in Calls, NEW kind \in {"granted", "refused", "removed"},
              Answer(c, kind)
       PROVE  ClosedForgotten'
  BY <1>0, <1>18 DEF Answer, ClosedForgotten, TypeOK, agentVars, fates
<1>19. ASSUME NEW c \in Calls, Notify(c) PROVE ClosedForgotten'
  BY <1>0, <1>19 DEF Notify, ClosedForgotten, TypeOK, agentVars, fates
<1>20. CASE UNCHANGED vars
  BY <1>0, <1>20 DEF vars, ClosedForgotten, TypeOK, agentVars, fates, nodeVars
<1> QED BY <1>1, <1>2, <1>3, <1>4, <1>5, <1>6, <1>7, <1>8, <1>9,
           <1>10, <1>11, <1>12, <1>13, <1>14, <1>15, <1>16, <1>17, <1>18,
           <1>19, <1>20
        DEF Next, CallerStep

-----------------------------------------------------------------------------
\* The inductive invariant holds in every reachable state, for any number of
\* calls, ids, notifications and any caps.
THEOREM RaceAccountedAlways == Spec => []RaceAccounted
<1>1. Init => RaceAccounted
  BY InitAccounted
<1>2. RaceAccounted /\ [Next]_vars => RaceAccounted'
  <2> SUFFICES ASSUME RaceAccounted, [Next]_vars PROVE RaceAccounted'
    OBVIOUS
  <2>1. TypeOK' /\ GrantsTracked' /\ GrantsDistinct' /\ WireTracked'
    BY TypeStep, GrantsStep, DistinctStep, WireStep
  <2>2. NotesTracked' /\ FlushingOnly' /\ OpenRegistered' /\ ClosedForgotten'
    BY NotesStep, FlushingStep, RegisteredStep, ClosedStep
  <2>3. InFlightCounts' /\ RegisteredNotBuffered' /\ AwaitedNeverDropped'
    BY CountStep, BufferStep, AwaitedStep
  <2> QED BY <2>1, <2>2, <2>3 DEF RaceAccounted
<1> QED BY <1>1, <1>2, PTL DEF Spec

\* The race buffer never exceeds @max_pending_per_sub_id or
\* @max_pending_distinct_sub_ids, and every variable stays in its type.
THEOREM SubscriptionTypeCorrect == Spec => []TypeOK
<1>1. RaceAccounted => TypeOK
  BY DEF RaceAccounted
<1> QED BY <1>1, RaceAccountedAlways, PTL

\* in_flight is the number of subscribe calls between their first and their
\* last Agent update, however each one ends.
THEOREM InFlightCountsHolds == Spec => []InFlightCounts
<1>1. RaceAccounted => InFlightCounts
  BY DEF RaceAccounted
<1> QED BY <1>1, RaceAccountedAlways, PTL

\* An id is never both registered and buffered.
THEOREM RegisteredNotBufferedHolds == Spec => []RegisteredNotBuffered
<1>1. RaceAccounted => RegisteredNotBuffered
  BY DEF RaceAccounted
<1> QED BY <1>1, RaceAccountedAlways, PTL

\* No notification of an id is discarded unbuffered while its caller awaits it.
THEOREM AwaitedNeverDroppedHolds == Spec => []AwaitedNeverDropped
<1>1. RaceAccounted => AwaitedNeverDropped
  BY DEF RaceAccounted
<1> QED BY <1>1, RaceAccountedAlways, PTL

-----------------------------------------------------------------------------
(* The action property. *)

\* The action of NoneTakenUpAfterUnsubscribe.
SilentNow ==
  \A c \in Calls : pc[c] = "unsubscribed" =>
    \A n \in (inHand' \cup delivered') \ (inHand \cup delivered) :
      target[n] # grant[c]

\* No step takes up a notification of an id that was unsubscribed: the client
\* process finds it unregistered, and no call has it among its drained ones.
LEMMA SilentStep ==
  ASSUME RaceAccounted, [Next]_vars
  PROVE  SilentNow
<1> USE DEF connVars, SilentNow
<1>0. TypeOK /\ ClosedForgotten /\ GrantsDistinct /\ GrantsTracked /\ NotesTracked
  BY DEF RaceAccounted
<1>1. ASSUME NEW c \in Calls, BeginSubscribe(c) PROVE SilentNow
  BY <1>0, <1>1 DEF BeginSubscribe, fates, nodeVars
<1>2. ASSUME NEW c \in Calls, SendSubscribe(c) PROVE SilentNow
  BY <1>0, <1>2 DEF SendSubscribe, agentVars, fates
<1>3. ASSUME NEW c \in Calls, SubscribeError(c) PROVE SilentNow
  BY <1>0, <1>3 DEF SubscribeError, agentVars, fates, nodeVars
<1>4. ASSUME NEW c \in Calls, RegisterAndDrain(c) PROVE SilentNow
  BY <1>0, <1>4 DEF RegisterAndDrain, fates, nodeVars
<1>5. ASSUME NEW c \in Calls, Flush(c) PROVE SilentNow
  <2>1. flush[c] \in Seq(1..MaxNotes) /\ flush[c] # <<>> /\ pc[c] = "flushing"
    BY <1>0, <1>5 DEF Flush, TypeOK
  <2>2. Head(flush[c]) \in Elements(flush[c])
    BY <2>1, ElementsTail
  <2>3. target[Head(flush[c])] = grant[c]
    BY <1>0, <2>2 DEF NotesTracked, SentTo
  <2>4. delivered' = delivered \cup {Head(flush[c])} /\ inHand' = inHand
    BY <1>5 DEF Flush
  <2>5. \A d \in Calls : pc[d] = "unsubscribed" => grant[d] # grant[c]
    BY <1>0, <2>1 DEF GrantsDistinct, GrantsTracked, Holding
  <2> QED BY <2>3, <2>4, <2>5
<1>6. ASSUME NEW c \in Calls, HandlerRaises(c) PROVE SilentNow
  BY <1>0, <1>6 DEF HandlerRaises, agentVars, nodeVars
<1>7. ASSUME NEW c \in Calls, Finish(c) PROVE SilentNow
  BY <1>0, <1>7 DEF Finish, fates, nodeVars
<1>8. ASSUME NEW c \in Calls, Unsubscribe(c) PROVE SilentNow
  BY <1>0, <1>8 DEF Unsubscribe, agentVars, fates
<1>9. ASSUME NEW c \in Calls, UnsubscribeError(c) PROVE SilentNow
  BY <1>0, <1>9 DEF UnsubscribeError, agentVars, fates, nodeVars
<1>10. ASSUME NEW c \in Calls, RemoveSubscription(c) PROVE SilentNow
  BY <1>0, <1>10 DEF RemoveSubscription, nodeVars
<1>11. CASE HandleAnswer
  BY <1>0, <1>11 DEF HandleAnswer, agentVars, fates
<1>12. CASE HandleNote
  <2>1. conn = "open"
    BY <1>12 DEF HandleNote
  <2>2. \A n \in (inHand' \cup delivered') \ (inHand \cup delivered) : target[n] \in registry
    BY <1>12 DEF HandleNote
  <2> QED BY <1>0, <2>1, <2>2 DEF ClosedForgotten, AgentUp
<1>13. CASE Dispatch
  BY <1>0, <1>13 DEF Dispatch, agentVars, nodeVars
<1>14. CASE Disconnect
  BY <1>0, <1>14 DEF Disconnect, agentVars, fates
<1>15. ASSUME NEW s \in Stoppers, FindAgent(s) PROVE SilentNow
  BY <1>0, <1>15 DEF FindAgent, agentVars, fates, nodeVars
<1>16. ASSUME NEW s \in Stoppers, StopAgent(s) PROVE SilentNow
  BY <1>0, <1>16 DEF StopAgent, fates, nodeVars
<1>17. ASSUME NEW c \in Calls, NEW i \in SubIds, Grant(c, i) PROVE SilentNow
  BY <1>0, <1>17 DEF Grant, agentVars, fates
<1>18. ASSUME NEW c \in Calls, NEW kind \in {"granted", "refused", "removed"},
              Answer(c, kind)
       PROVE  SilentNow
  BY <1>0, <1>18 DEF Answer, agentVars, fates
<1>19. ASSUME NEW c \in Calls, Notify(c) PROVE SilentNow
  BY <1>0, <1>19 DEF Notify, agentVars, fates
<1>20. CASE UNCHANGED vars
  BY <1>0, <1>20 DEF vars, agentVars, fates, nodeVars
<1> QED BY <1>1, <1>2, <1>3, <1>4, <1>5, <1>6, <1>7, <1>8, <1>9,
           <1>10, <1>11, <1>12, <1>13, <1>14, <1>15, <1>16, <1>17, <1>18,
           <1>19, <1>20
        DEF Next, CallerStep

\* Once unsubscribe/2 has returned {:ok, _} the client process takes up no
\* further notification of the id, however late the node is to stop: the one
\* looked up before remove_subscription is the last the handler can hear.
THEOREM NoneTakenUpAfterUnsubscribeHolds == Spec => NoneTakenUpAfterUnsubscribe
<1>1. RaceAccounted /\ [Next]_vars => [SilentNow]_vars
  BY SilentStep
<1>2. Spec => []RaceAccounted
  BY RaceAccountedAlways
<1> QED BY <1>1, <1>2, PTL DEF Spec, NoneTakenUpAfterUnsubscribe, SilentNow

-----------------------------------------------------------------------------
(* The order of lists and frames. *)

\* The notifications of a list of frames, by position.
LEMMA NotesByPosition ==
  ASSUME NEW w \in Seq(Frames)
  PROVE  /\ NotesOf(w) = {w[k].n : k \in {j \in 1..Len(w) : w[j].kind = "note"}}
         /\ NotesOf(w) \subseteq 1..MaxNotes
<1>1. DOMAIN w = 1..Len(w) /\ \A k \in 1..Len(w) : w[k] \in Frames
  OBVIOUS
<1>2. NotesOf(w) = {w[k].n : k \in {j \in 1..Len(w) : w[j].kind = "note"}}
  BY <1>1 DEF NotesOf, Elements
<1>3. \A k \in 1..Len(w) : w[k].kind = "note" => w[k].n \in 1..MaxNotes
  BY <1>1 DEF Frames
<1> QED BY <1>2, <1>3

\* Handling the first frame takes its notification, the oldest one, off the
\* wire, and no other.
LEMMA NotesOfTail ==
  ASSUME NEW w \in Seq(Frames), w # <<>>, NotesRising(w)
  PROVE  /\ NotesRising(Tail(w))
         /\ Head(w).kind # "note" => NotesOf(Tail(w)) = NotesOf(w)
         /\ Head(w).kind = "note" =>
              /\ Head(w).n \in NotesOf(w)
              /\ NotesOf(Tail(w)) = NotesOf(w) \ {Head(w).n}
              /\ \A m \in NotesOf(w) : Head(w).n <= m
<1> DEFINE t == Tail(w)
<1>1. /\ t \in Seq(Frames) /\ Len(t) = Len(w) - 1 /\ Len(w) \in Nat /\ Len(w) # 0
      /\ \A k \in 1..Len(t) : t[k] = w[k + 1]
      /\ Head(w) = w[1]
      /\ DOMAIN w = 1..Len(w) /\ DOMAIN t = 1..Len(t)
  OBVIOUS
<1>2. \A k \in 1..Len(w) : w[k].kind = "note" => w[k].n \in 1..MaxNotes
  BY DEF Frames
<1> HIDE DEF t
<1>3. NotesRising(t)
  <2> SUFFICES ASSUME NEW j \in 1..Len(t), NEW k \in 1..Len(t), j < k,
                      t[j].kind = "note", t[k].kind = "note"
               PROVE  t[j].n < t[k].n
    BY <1>1 DEF NotesRising
  <2>1. j + 1 \in 1..Len(w) /\ k + 1 \in 1..Len(w) /\ j + 1 < k + 1
    BY <1>1
  <2> QED BY <1>1, <2>1 DEF NotesRising
<1>4. \A k \in 2..Len(w) : k - 1 \in 1..Len(t) /\ t[k - 1] = w[k]
  BY <1>1
<1>5. NotesOf(t) = {w[k].n : k \in {j \in 2..Len(w) : w[j].kind = "note"}}
  <2>1. NotesOf(t) = {t[k].n : k \in {j \in 1..Len(t) : t[j].kind = "note"}}
    BY <1>1, NotesByPosition
  <2>2. ASSUME NEW k \in 1..Len(t)
        PROVE  k + 1 \in 2..Len(w) /\ t[k] = w[k + 1]
    BY <1>1
  <2>3. NotesOf(t) \subseteq {w[k].n : k \in {j \in 2..Len(w) : w[j].kind = "note"}}
    BY <2>1, <2>2
  <2>4. ASSUME NEW k \in 2..Len(w), w[k].kind = "note"
        PROVE  w[k].n \in NotesOf(t)
    BY <2>1, <2>4, <1>4
  <2> QED BY <2>3, <2>4
<1>6. NotesOf(w) = {w[k].n : k \in {j \in 1..Len(w) : w[j].kind = "note"}}
  BY NotesByPosition
<1>7. CASE w[1].kind # "note"
  <2>1. NotesOf(t) = NotesOf(w)
    BY <1>1, <1>5, <1>6, <1>7
  <2> QED BY <1>1, <1>3, <1>7, <2>1 DEF t
<1>8. CASE w[1].kind = "note"
  <2>1. \A k \in 2..Len(w) : w[k].kind = "note" => w[1].n < w[k].n
    BY <1>1, <1>8 DEF NotesRising
  <2>2. 1 \in 1..Len(w) /\ w[1].n \in 1..MaxNotes
    BY <1>1, <1>2, <1>8
  <2>3. w[1].n \in NotesOf(w)
    BY <1>6, <1>8, <2>2
  <2>4. \A m \in NotesOf(t) : m \in NotesOf(w) /\ m # w[1].n
    BY <1>1, <1>2, <1>5, <1>6, <2>1, <2>2
  <2>5. \A m \in NotesOf(w) : m # w[1].n => m \in NotesOf(t)
    BY <1>1, <1>5, <1>6
  <2>6. \A m \in NotesOf(w) : w[1].n <= m
    BY <1>1, <1>2, <1>6, <2>1, <2>2
  <2> QED BY <1>1, <1>3, <1>8, <2>3, <2>4, <2>5, <2>6 DEF t
<1> QED BY <1>7, <1>8

\* A new frame comes after the others.
LEMMA NotesOfAppend ==
  ASSUME NEW w \in Seq(Frames), NEW f \in Frames, NotesRising(w),
         f.kind = "note" => \A m \in NotesOf(w) : m < f.n
  PROVE  /\ NotesRising(Append(w, f))
         /\ NotesOf(Append(w, f)) =
              NotesOf(w) \cup (IF f.kind = "note" THEN {f.n} ELSE {})
<1> DEFINE a == Append(w, f)
<1>1. /\ a \in Seq(Frames) /\ Len(a) = Len(w) + 1 /\ Len(w) \in Nat
      /\ \A k \in 1..Len(w) : a[k] = w[k]
      /\ a[Len(w) + 1] = f
      /\ DOMAIN a = 1..(Len(w) + 1) /\ DOMAIN w = 1..Len(w)
  OBVIOUS
<1> HIDE DEF a
<1>2. NotesOf(w) = {w[k].n : k \in {j \in 1..Len(w) : w[j].kind = "note"}}
  BY NotesByPosition
<1>3. NotesOf(a) = {a[k].n : k \in {j \in 1..Len(a) : a[j].kind = "note"}}
  BY <1>1, NotesByPosition
<1>4. NotesRising(a)
  <2> SUFFICES ASSUME NEW j \in 1..(Len(w) + 1), NEW k \in 1..(Len(w) + 1), j < k,
                      a[j].kind = "note", a[k].kind = "note"
               PROVE  a[j].n < a[k].n
    BY <1>1 DEF NotesRising
  <2>1. j \in 1..Len(w)
    BY <1>1
  <2>2. CASE k \in 1..Len(w)
    BY <1>1, <2>1, <2>2 DEF NotesRising
  <2>3. CASE k = Len(w) + 1
    BY <1>1, <1>2, <2>1, <2>3
  <2> QED BY <1>1, <2>2, <2>3
<1>5. NotesOf(a) \subseteq NotesOf(w) \cup (IF f.kind = "note" THEN {f.n} ELSE {})
  <2> SUFFICES ASSUME NEW k \in 1..Len(a), a[k].kind = "note"
               PROVE  a[k].n \in NotesOf(w) \cup (IF f.kind = "note" THEN {f.n} ELSE {})
    BY <1>3
  <2>1. CASE k \in 1..Len(w)
    BY <1>1, <1>2, <2>1
  <2>2. CASE k = Len(w) + 1
    BY <1>1, <2>2
  <2> QED BY <1>1, <2>1, <2>2
<1>6. NotesOf(w) \subseteq NotesOf(a)
  <2> SUFFICES ASSUME NEW k \in 1..Len(w), w[k].kind = "note"
               PROVE  w[k].n \in NotesOf(a)
    BY <1>2
  <2> QED BY <1>1, <1>3
<1>7. f.kind = "note" => f.n \in NotesOf(a)
  BY <1>1, <1>3
<1> QED BY <1>4, <1>5, <1>6, <1>7 DEF a

\* Dispatching the first of a drained buffer leaves later ones only.
LEMMA RisingTail ==
  ASSUME NEW s \in Seq(Nat), s # <<>>, Rising(s)
  PROVE  /\ Rising(Tail(s))
         /\ Elements(Tail(s)) = Elements(s) \ {Head(s)}
         /\ Head(s) \in Elements(s)
         /\ \A m \in Elements(s) : Head(s) <= m
<1> DEFINE t == Tail(s)
<1>1. /\ t \in Seq(Nat) /\ Len(t) = Len(s) - 1 /\ Len(s) \in Nat /\ Len(s) # 0
      /\ \A k \in 1..Len(t) : t[k] = s[k + 1]
      /\ Head(s) = s[1]
      /\ DOMAIN s = 1..Len(s) /\ DOMAIN t = 1..Len(t)
      /\ \A k \in 1..Len(s) : s[k] \in Nat
  OBVIOUS
<1> HIDE DEF t
<1>2. ASSUME NEW k \in 2..Len(s)
      PROVE  k - 1 \in 1..Len(t) /\ t[k - 1] = s[k] /\ s[1] < s[k]
  <2>1. k - 1 \in 1..Len(t) /\ k - 1 + 1 = k
    BY <1>1
  <2>2. 1 \in 1..Len(s) /\ k \in 1..Len(s) /\ 1 < k
    BY <1>1
  <2>3. s[1] < s[k]
    BY <1>1, <2>2 DEF Rising
  <2> QED BY <1>1, <2>1, <2>3
<1>3. Rising(t)
  <2> SUFFICES ASSUME NEW j \in 1..Len(t), NEW k \in 1..Len(t), j < k
               PROVE  t[j] < t[k]
    BY <1>1 DEF Rising
  <2>1. j + 1 \in 1..Len(s) /\ k + 1 \in 1..Len(s) /\ j + 1 < k + 1
    BY <1>1
  <2> QED BY <1>1, <2>1 DEF Rising
<1>4. Elements(t) \subseteq Elements(s) \ {s[1]}
  <2> SUFFICES ASSUME NEW k \in 1..Len(t) PROVE t[k] \in Elements(s) \ {s[1]}
    BY <1>1 DEF Elements
  <2>1. k + 1 \in 2..Len(s) /\ t[k] = s[k + 1] /\ s[k + 1] \in Nat /\ s[1] \in Nat
    BY <1>1
  <2>2. s[k + 1] # s[1]
    BY <1>2, <2>1
  <2>3. k + 1 \in DOMAIN s
    BY <1>1, <2>1
  <2>4. s[k + 1] \in Elements(s)
    BY <2>3, Zenon DEF Elements
  <2> QED BY <2>1, <2>2, <2>4
<1>5. Elements(s) \ {s[1]} \subseteq Elements(t)
  <2> SUFFICES ASSUME NEW k \in 1..Len(s), s[k] # s[1] PROVE s[k] \in Elements(t)
    BY <1>1 DEF Elements
  <2>1. k \in 2..Len(s)
    BY <1>1
  <2> QED BY <1>1, <1>2, <2>1 DEF Elements
<1>6. s[1] \in Elements(s) /\ \A m \in Elements(s) : s[1] <= m
  <2>1. 1 \in DOMAIN s
    BY <1>1
  <2>2. s[1] \in Elements(s)
    BY <2>1, Zenon DEF Elements
  <2>3. ASSUME NEW k \in 1..Len(s) PROVE s[1] <= s[k]
    <3>1. CASE k = 1
      BY <1>1, <3>1
    <3>2. CASE k \in 2..Len(s)
      <4>1. s[1] < s[k]
        BY <1>2, <3>2
      <4>2. s[1] \in Nat /\ s[k] \in Nat
        BY <1>1, <2>1
      <4> QED BY <4>1, <4>2
    <3> QED BY <1>1, <3>1, <3>2
  <2> QED BY <1>1, <2>2, <2>3 DEF Elements
<1> QED BY <1>1, <1>3, <1>4, <1>5, <1>6 DEF t

\* Enum.reverse turns newest-first into oldest-first.
LEMMA FallingReversed ==
  ASSUME NEW s \in Seq(Nat), Falling(s)
  PROVE  Rising(Reversed(s))
<1>1. /\ DOMAIN Reversed(s) = 1..Len(s) /\ DOMAIN s = 1..Len(s) /\ Len(s) \in Nat
      /\ \A k \in 1..Len(s) : Reversed(s)[k] = s[Len(s) + 1 - k]
  BY DEF Reversed
<1> SUFFICES ASSUME NEW j \in 1..Len(s), NEW k \in 1..Len(s), j < k
             PROVE  Reversed(s)[j] < Reversed(s)[k]
  BY <1>1 DEF Rising
<1>2. /\ Len(s) + 1 - j \in 1..Len(s) /\ Len(s) + 1 - k \in 1..Len(s)
      /\ Len(s) + 1 - k < Len(s) + 1 - j
  BY <1>1
<1> QED BY <1>1, <1>2 DEF Falling

\* push_bounded puts the notification before the newest of its id's, drops a
\* suffix of that list, and keeps or empties each other list.
LEMMA PushShape ==
  ASSUME NEW p \in Buffers, NEW i \in SubIds, NEW n \in 1..MaxNotes,
         Cardinality(Buffered(p)) <= MaxIds
  PROVE  LET r == PushBounded(p, i, n) IN
         /\ r \in Buffers
         /\ Len(r[i]) \in 1..(Len(p[i]) + 1)
         /\ r[i][1] = n
         /\ \A k \in 2..Len(r[i]) : r[i][k] = p[i][k - 1]
         /\ \A j \in SubIds \ {i} : r[j] = p[j] \/ r[j] = <<>>
<1> DEFINE q == EvictOldestPendingKey(p, i)
           next == <<n>> \o q[i]
           top == IF Len(next) > MaxPerId THEN SubSeq(next, 1, MaxPerId) ELSE next
           r == [q EXCEPT ![i] = top]
<1>1. /\ q \in Buffers /\ q[i] = p[i]
      /\ \A j \in SubIds : q[j] = p[j] \/ q[j] = <<>>
  BY EvictMakesRoom
<1>2. PushBounded(p, i, n) = r
  BY DEF PushBounded
<1> HIDE DEF q
<1>3. /\ next \in Seq(1..MaxNotes)
      /\ Len(next) = Len(p[i]) + 1 /\ Len(p[i]) \in Nat
      /\ next[1] = n
      /\ \A k \in 2..Len(next) : next[k] = p[i][k - 1]
  <2>1. p[i] \in Seq(1..MaxNotes) /\ <<n>> \in Seq(1..MaxNotes) /\ Len(<<n>>) = 1
    BY DEF Buffers
  <2> QED BY <1>1, <2>1, ConcatProperties
<1>4. /\ top \in Seq(1..MaxNotes) /\ top # <<>> /\ Len(top) <= Len(next)
      /\ \A k \in 1..Len(top) : top[k] = next[k]
  <2> HIDE DEF next
  <2>1. MaxPerId \in Nat \ {0} /\ Len(next) # 0 /\ Len(next) \in Nat
    BY <1>3, CapsPositive
  <2> QED BY <1>3, <2>1, Truncated
<1> HIDE DEF next, top
<1>5. r \in Buffers /\ r[i] = top /\ \A j \in SubIds \ {i} : r[j] = q[j]
  BY <1>1, <1>4 DEF Buffers
<1>6. Len(top) \in 1..(Len(p[i]) + 1)
  BY <1>3, <1>4
<1> HIDE DEF r
<1> QED BY <1>1, <1>2, <1>3, <1>4, <1>5, <1>6

\* A list that has the newest first still has after a push of a newer one, and
\* what the push cuts off is older than what it keeps.
LEMMA PushOrder ==
  ASSUME NEW p \in Buffers, NEW i \in SubIds, NEW n \in 1..MaxNotes,
         Cardinality(Buffered(p)) <= MaxIds,
         \A j \in SubIds : Falling(p[j]),
         \A m \in Elements(p[i]) : m < n
  PROVE  LET r == PushBounded(p, i, n) IN
         /\ \A j \in SubIds : Falling(r[j])
         /\ n \in Elements(r[i])
         /\ \A m \in Elements(p[i]) \ Elements(r[i]) :
              \A k \in Elements(r[i]) : m < k
<1> DEFINE r == PushBounded(p, i, n)
<1>1. /\ r \in Buffers
      /\ Len(r[i]) \in 1..(Len(p[i]) + 1)
      /\ r[i][1] = n
      /\ \A k \in 2..Len(r[i]) : r[i][k] = p[i][k - 1]
      /\ \A j \in SubIds \ {i} : r[j] = p[j] \/ r[j] = <<>>
  BY PushShape
<1>2. /\ p[i] \in Seq(1..MaxNotes) /\ DOMAIN p[i] = 1..Len(p[i]) /\ Len(p[i]) \in Nat
      /\ \A k \in 1..Len(p[i]) : p[i][k] \in 1..MaxNotes /\ p[i][k] < n
  <2>1. p[i] \in Seq(1..MaxNotes)
    BY DEF Buffers
  <2>2. DOMAIN p[i] = 1..Len(p[i]) /\ Len(p[i]) \in Nat
    BY <2>1
  <2>3. \A k \in 1..Len(p[i]) : p[i][k] \in 1..MaxNotes
    <3>1. Elements(p[i]) \subseteq 1..MaxNotes
      BY <2>1, ElementsOfSeq
    <3> QED BY <2>2, <3>1 DEF Elements
  <2>4. \A k \in 1..Len(p[i]) : p[i][k] \in Elements(p[i])
    BY <2>2 DEF Elements
  <2> QED BY <2>1, <2>2, <2>3, <2>4
<1> HIDE DEF r
<1>3. DOMAIN r[i] = 1..Len(r[i])
  BY <1>1 DEF Buffers
<1>4. Falling(r[i])
  <2> SUFFICES ASSUME NEW j \in 1..Len(r[i]), NEW k \in 1..Len(r[i]), j < k
               PROVE  r[i][k] < r[i][j]
    BY <1>3 DEF Falling
  <2>1. k \in 2..Len(r[i]) /\ k - 1 \in 1..Len(p[i]) /\ r[i][k] = p[i][k - 1]
    BY <1>1, <1>2
  <2>2. CASE j = 1
    BY <1>1, <1>2, <2>1, <2>2
  <2>3. CASE j # 1
    <3>1. j - 1 \in 1..Len(p[i]) /\ r[i][j] = p[i][j - 1] /\ j - 1 < k - 1
      BY <1>1, <1>2, <2>1, <2>3
    <3> QED BY <1>2, <2>1, <3>1 DEF Falling
  <2> QED BY <2>2, <2>3
<1>5. \A j \in SubIds \ {i} : Falling(r[j])
  <2>1. Falling(<<>>)
    BY DEF Falling
  <2> QED BY <1>1, <2>1
<1>6. n \in Elements(r[i])
  BY <1>1, <1>3 DEF Elements
<1>7. ASSUME NEW m \in Elements(p[i]) \ Elements(r[i]), NEW k \in Elements(r[i])
      PROVE  m < k
  <2>1. PICK a \in 1..Len(p[i]) : m = p[i][a]
    BY <1>2 DEF Elements
  <2>2. PICK b \in 1..Len(r[i]) : k = r[i][b]
    BY <1>3 DEF Elements
  <2>3. CASE b = 1
    BY <1>1, <1>2, <2>1, <2>2, <2>3
  <2>4. CASE b # 1
    <3>1. b \in 2..Len(r[i]) /\ b - 1 \in 1..Len(p[i]) /\ k = p[i][b - 1]
      BY <1>1, <1>2, <2>2, <2>4
    <3>2. ~(a < Len(r[i]))
      <4> SUFFICES ASSUME a < Len(r[i]) PROVE FALSE
        OBVIOUS
      <4>1. a + 1 \in 2..Len(r[i]) /\ r[i][a + 1] = p[i][(a + 1) - 1] /\ (a + 1) - 1 = a
        BY <1>1, <1>2
      <4> QED BY <1>3, <2>1, <4>1 DEF Elements
    <3>3. b - 1 < a
      BY <1>1, <1>2, <3>1, <3>2
    <3> QED BY <1>2, <2>1, <3>1, <3>3 DEF Falling
  <2> QED BY <2>3, <2>4
<1> QED BY <1>4, <1>5, <1>6, <1>7 DEF r

-----------------------------------------------------------------------------
(* HomesAccounted. *)

\* A buffered notification is in the list of an id, a drained one in that of a
\* call.
LEMMA HeldWhere ==
  /\ \A p, m : m \in AllPending(p) <=> \E i \in SubIds : m \in Elements(p[i])
  /\ \A m : m \in Flushed <=> \E c \in Calls : m \in Elements(flush[c])
  /\ \A m : m \in Flushed' <=> \E c \in Calls : m \in Elements(flush'[c])
BY DEF AllPending, Flushed

\* What is held was sent for the id it is held for; two calls hold nothing in
\* common, and neither do two ids.
LEMMA HeldApart ==
  ASSUME RaceAccounted
  PROVE  /\ \A m \in Held : m \in 1..Len(target)
         /\ \A c \in Calls : \A m \in Elements(flush[c]) :
              /\ target[m] = grant[c]
              /\ pc[c] = "flushing" /\ grant[c] \in SubIds
              /\ \A d \in Calls \ {c} : m \notin Elements(flush[d])
         /\ \A i \in SubIds : \A m \in Elements(pending[i]) :
              /\ target[m] = i
              /\ \A j \in SubIds \ {i} : m \notin Elements(pending[j])
<1>0. TypeOK /\ NotesTracked /\ GrantsDistinct /\ GrantsTracked /\ FlushingOnly
  BY DEF RaceAccounted
<1>1. ASSUME NEW c \in Calls, NEW m \in Elements(flush[c])
      PROVE  /\ m \in 1..Len(target) /\ target[m] = grant[c]
             /\ pc[c] = "flushing" /\ grant[c] \in SubIds
             /\ \A d \in Calls \ {c} : m \notin Elements(flush[d])
  <2>1. m \in 1..Len(target) /\ target[m] = grant[c]
    BY <1>0 DEF NotesTracked, SentTo
  <2>2. pc[c] = "flushing"
    BY <1>0, <1>1, ElementsEmpty DEF FlushingOnly
  <2>3. grant[c] \in SubIds /\ grant[c] # None
    BY <1>0, <2>2 DEF GrantsTracked, Holding, TypeOK
  <2>4. ASSUME NEW d \in Calls \ {c}, m \in Elements(flush[d]) PROVE FALSE
    <3>1. target[m] = grant[d]
      BY <1>0, <2>4 DEF NotesTracked, SentTo
    <3> QED BY <1>0, <2>1, <2>3, <3>1 DEF GrantsDistinct
  <2> QED BY <2>1, <2>2, <2>3, <2>4
<1>2. ASSUME NEW i \in SubIds, NEW m \in Elements(pending[i])
      PROVE  /\ m \in 1..Len(target) /\ target[m] = i
             /\ \A j \in SubIds \ {i} : m \notin Elements(pending[j])
  BY <1>0 DEF NotesTracked, SentTo
<1>3. \A m \in Held : m \in 1..Len(target)
  BY <1>1, <1>2, HeldWhere DEF Held
<1> QED BY <1>1, <1>2, <1>3

\* Nothing that is drained by a call is also buffered for its id.
LEMMA DrainedAlone ==
  ASSUME RaceAccounted, StoppedForgets, NEW c \in Calls, pc[c] = "flushing"
  PROVE  grant[c] \in SubIds /\ pending[grant[c]] = <<>>
<1>0. TypeOK /\ GrantsTracked /\ OpenRegistered /\ RegisteredNotBuffered
  BY DEF RaceAccounted
<1>1. grant[c] \in SubIds
  BY <1>0 DEF GrantsTracked, Holding, TypeOK
<1>2. CASE AgentUp
  <2>1. grant[c] \in registry
    BY <1>0, <1>2 DEF OpenRegistered
  <2> QED BY <1>0, <1>1, <2>1 DEF RegisteredNotBuffered, Buffered
<1>3. CASE ~AgentUp
  BY <1>1, <1>3 DEF StoppedForgets
<1> QED BY <1>1, <1>2, <1>3

\* All that is held for the id of a call that dispatches is what it drained.
LEMMA HeldForCall ==
  ASSUME RaceAccounted, StoppedForgets, NEW c \in Calls, pc[c] = "flushing"
  PROVE  \A m \in Held : target[m] = grant[c] <=> m \in Elements(flush[c])
<1>1. grant[c] \in SubIds /\ pending[grant[c]] = <<>>
  BY DrainedAlone
<1>2. ASSUME NEW m \in Held, target[m] = grant[c] PROVE m \in Elements(flush[c])
  <2>1. CASE m \in AllPending(pending)
    BY <1>1, <1>2, <2>1, HeldWhere, HeldApart, ElementsEmpty
  <2>2. CASE m \in Flushed
    <3>1. PICK d \in Calls : m \in Elements(flush[d])
      BY <2>2, HeldWhere
    <3>2. grant[d] = grant[c]
      BY <1>2, <3>1, HeldApart
    <3>3. d = c
      BY <1>1, <3>2, GrantAllotted DEF RaceAccounted, GrantsDistinct
    <3> QED BY <3>1, <3>3
  <2> QED BY <2>1, <2>2 DEF Held
<1> QED BY <1>2, HeldApart

-----------------------------------------------------------------------------
(* What each step moves. *)

\* Register-and-drain moves an id's buffer to the call, oldest first.
LEMMA DrainMoves ==
  ASSUME RaceAccounted, HomesAccounted, NEW c \in Calls, RegisterAndDrain(c)
  PROVE  /\ UNCHANGED <<wire, target, inHand, delivered, dropped, evicted, connVars>>
         /\ Held' = Held
         /\ AllPending(pending') \cap Flushed' = {}
         /\ ListsInOrder' /\ StoppedForgets'
<1>0. TypeOK /\ GrantsTracked /\ FlushingOnly /\ HomesApart /\ ListsInOrder /\ StoppedForgets
  BY DEF RaceAccounted, HomesAccounted
<1>1. UNCHANGED <<wire, target, inHand, delivered, dropped, evicted, connVars>>
  BY <1>0 DEF RegisterAndDrain, fates, nodeVars
<1>2. CASE AgentUp
  <2> DEFINE g == grant[c]
  <2>1. g \in SubIds /\ pending[g] \in Seq(1..MaxNotes) /\ flush[c] = <<>>
    BY <1>0 DEF RegisterAndDrain, TypeOK, GrantsTracked, Holding, FlushingOnly
  <2>2. /\ flush'[c] = Reversed(pending[g])
        /\ \A d \in Calls \ {c} : flush'[d] = flush[d]
        /\ pending'[g] = <<>>
        /\ \A j \in SubIds \ {g} : pending'[j] = pending[j]
    BY <1>0, <1>2, <2>1 DEF RegisterAndDrain, TypeOK
  <2>3. Elements(flush'[c]) = Elements(pending[g])
    BY <2>1, <2>2, ReversedSeq
  <2>4. \A m : m \in Flushed' <=> m \in Flushed \/ m \in Elements(pending[g])
    BY <2>1, <2>2, <2>3, HeldWhere, ElementsEmpty
  <2>5. \A m : m \in AllPending(pending') <=>
                 m \in AllPending(pending) /\ m \notin Elements(pending[g])
    BY <2>1, <2>2, HeldWhere, HeldApart, ElementsEmpty
  <2>6. Elements(pending[g]) \subseteq AllPending(pending)
    BY <2>1, HeldWhere
  <2>7. Held' = Held /\ AllPending(pending') \cap Flushed' = {}
    BY <1>0, <2>4, <2>5, <2>6 DEF Held, HomesApart
  <2>8. ListsInOrder'
    <3>1. Falling(<<>>)
      BY DEF Falling
    <3>2. pending[g] \in Seq(Nat) /\ Falling(pending[g])
      BY <1>0, <2>1, BoundIsNat DEF ListsInOrder
    <3>3. Rising(flush'[c])
      BY <2>2, <3>2, FallingReversed
    <3> QED BY <1>0, <2>1, <2>2, <3>1, <3>3 DEF ListsInOrder
  <2>9. StoppedForgets'
    BY <1>1, <1>2 DEF StoppedForgets, AgentUp, connVars
  <2> QED BY <1>1, <2>7, <2>8, <2>9
<1>3. CASE ~AgentUp
  <2>1. UNCHANGED <<pending, flush>>
    BY <1>3 DEF RegisterAndDrain
  <2> QED BY <1>0, <1>1, <2>1
          DEF Held, Flushed, HomesApart, ListsInOrder, StoppedForgets, AgentUp,
              connVars
<1> QED BY <1>2, <1>3

\* A dispatch moves the oldest drained notification to the handler.
LEMMA FlushMoves ==
  ASSUME RaceAccounted, HomesAccounted, NEW c \in Calls, Flush(c)
  PROVE  LET n == Head(flush[c]) IN
         /\ UNCHANGED <<wire, target, pending, inHand, dropped, evicted, connVars>>
         /\ n \in Elements(flush[c]) /\ \A m \in Elements(flush[c]) : n <= m
         /\ Flushed' = Flushed \ {n}
         /\ Held' = Held \ {n}
         /\ delivered' = delivered \cup {n}
         /\ ListsInOrder' /\ StoppedForgets'
<1> DEFINE n == Head(flush[c])
<1>0. TypeOK /\ HomesApart /\ ListsInOrder /\ StoppedForgets
  BY DEF RaceAccounted, HomesAccounted
<1>1. UNCHANGED <<wire, target, pending, inHand, dropped, evicted, connVars>>
  BY DEF Flush, agentVars, nodeVars
<1>2. /\ flush[c] \in Seq(Nat) /\ flush[c] # <<>> /\ Rising(flush[c])
      /\ flush'[c] = Tail(flush[c])
      /\ \A d \in Calls \ {c} : flush'[d] = flush[d]
      /\ delivered' = delivered \cup {n}
  BY <1>0, BoundIsNat DEF Flush, TypeOK, ListsInOrder
<1>3. /\ Rising(flush'[c])
      /\ Elements(flush'[c]) = Elements(flush[c]) \ {n}
      /\ n \in Elements(flush[c])
      /\ \A m \in Elements(flush[c]) : n <= m
  BY <1>2, RisingTail
<1>4. \A m : m \in Flushed' <=> m \in Flushed /\ m # n
  BY <1>2, <1>3, HeldWhere, HeldApart
<1>5. n \notin AllPending(pending)
  BY <1>0, <1>3, HeldWhere DEF HomesApart
<1>6. Flushed' = Flushed \ {n} /\ Held' = Held \ {n}
  BY <1>1, <1>4, <1>5 DEF Held
<1>7. ListsInOrder' /\ StoppedForgets'
  BY <1>0, <1>1, <1>2, <1>3 DEF ListsInOrder, StoppedForgets, AgentUp, connVars
<1> QED BY <1>1, <1>2, <1>3, <1>6, <1>7

\* A handler that raises costs the call everything drained for its id.
LEMMA RaisesMoves ==
  ASSUME RaceAccounted, HomesAccounted, NEW c \in Calls, HandlerRaises(c)
  PROVE  /\ UNCHANGED <<wire, target, pending, inHand, delivered, evicted, connVars>>
         /\ Elements(flush[c]) \subseteq Flushed
         /\ Flushed' = Flushed \ Elements(flush[c])
         /\ Held' = Held \ Elements(flush[c])
         /\ dropped' = dropped \cup Elements(flush[c])
         /\ ListsInOrder' /\ StoppedForgets'
<1>0. TypeOK /\ HomesApart /\ ListsInOrder /\ StoppedForgets
  BY DEF RaceAccounted, HomesAccounted
<1>1. UNCHANGED <<wire, target, pending, inHand, delivered, evicted, connVars>>
  BY DEF HandlerRaises, agentVars, nodeVars
<1>2. /\ flush'[c] = <<>>
      /\ \A d \in Calls \ {c} : flush'[d] = flush[d]
      /\ dropped' = dropped \cup Elements(flush[c])
  BY <1>0 DEF HandlerRaises, TypeOK
<1>3. \A m : m \in Flushed' <=> m \in Flushed /\ m \notin Elements(flush[c])
  BY <1>2, HeldWhere, HeldApart, ElementsEmpty
<1>4. Elements(flush[c]) \subseteq Flushed
  BY HeldWhere
<1>5. Flushed' = Flushed \ Elements(flush[c]) /\ Held' = Held \ Elements(flush[c])
  BY <1>0, <1>1, <1>3, <1>4 DEF Held, HomesApart
<1>6. Rising(<<>>)
  BY DEF Rising
<1>7. ListsInOrder' /\ StoppedForgets'
  BY <1>0, <1>1, <1>2, <1>6 DEF ListsInOrder, StoppedForgets, AgentUp, connVars
<1> QED BY <1>1, <1>2, <1>4, <1>5, <1>7

\* Removing a subscription gives up what the buffer holds for its id.
LEMMA RemoveMoves ==
  ASSUME RaceAccounted, HomesAccounted, NEW c \in Calls, RemoveSubscription(c), AgentUp
  PROVE  LET gone == Elements(pending[grant[c]]) IN
         /\ UNCHANGED <<wire, target, flush, inHand, delivered, evicted, connVars>>
         /\ grant[c] \in SubIds
         /\ gone \subseteq AllPending(pending)
         /\ AllPending(pending') = AllPending(pending) \ gone
         /\ Held' = Held \ gone
         /\ dropped' = dropped \cup gone
         /\ ListsInOrder' /\ StoppedForgets'
<1> DEFINE g == grant[c]
<1>0. TypeOK /\ GrantsTracked /\ HomesApart /\ ListsInOrder
  BY DEF RaceAccounted, HomesAccounted
<1>1. UNCHANGED <<wire, target, flush, inHand, delivered, evicted, connVars>>
  BY DEF RemoveSubscription, nodeVars
<1>2. g \in SubIds
  BY <1>0 DEF RemoveSubscription, TypeOK, GrantsTracked, Holding
<1>3. /\ pending'[g] = <<>>
      /\ \A j \in SubIds \ {g} : pending'[j] = pending[j]
      /\ dropped' = dropped \cup Elements(pending[g])
  BY <1>0, <1>2 DEF RemoveSubscription, TypeOK
<1>4. \A m : m \in AllPending(pending') <=>
               m \in AllPending(pending) /\ m \notin Elements(pending[g])
  BY <1>2, <1>3, HeldWhere, HeldApart, ElementsEmpty
<1>5. Elements(pending[g]) \subseteq AllPending(pending)
  BY <1>2, HeldWhere
<1>6. Flushed' = Flushed
  BY <1>1 DEF Flushed
<1>7. /\ AllPending(pending') = AllPending(pending) \ Elements(pending[g])
      /\ Held' = Held \ Elements(pending[g])
  BY <1>0, <1>4, <1>5, <1>6 DEF Held, HomesApart
<1>8. Falling(<<>>)
  BY DEF Falling
<1>9. ListsInOrder' /\ StoppedForgets'
  BY <1>0, <1>1, <1>2, <1>3, <1>8 DEF ListsInOrder, StoppedForgets, AgentUp, connVars
<1> QED BY <1>1, <1>2, <1>3, <1>5, <1>7, <1>9

\* lookup_or_buffer takes the oldest notification off the wire: a registered
\* id's is in hand; another's is dropped or buffered, and what the
\* caps then push out is of an id that is not registered and older than what
\* they leave of that id.
NoteMoved(n) ==
  /\ conn = "open" /\ inHand = {}
  /\ UNCHANGED <<pc, grant, flush, target, delivered, connVars, registry>>
  /\ n \in OnWire /\ OnWire' = OnWire \ {n} /\ NotesRising(wire')
  /\ \A m \in OnWire : n <= m
  /\ \/ /\ target[n] \in registry
        /\ inHand' = {n}
        /\ UNCHANGED <<pending, dropped, evicted>>
     \/ /\ target[n] \notin registry
        /\ dropped' = dropped \cup {n}
        /\ UNCHANGED <<pending, inHand, evicted>>
     \/ /\ target[n] \notin registry
        /\ n \in AllPending(pending')
        /\ AllPending(pending') \subseteq AllPending(pending) \cup {n}
        /\ evicted' = evicted \cup (AllPending(pending) \ AllPending(pending'))
        /\ \A i \in SubIds : Falling(pending'[i])
        /\ \A e \in AllPending(pending) \ AllPending(pending') :
             /\ target[e] \notin registry
             /\ \A m \in Held' : target[e] = target[m] => e < m
        /\ UNCHANGED <<inHand, dropped>>

\* Every run of lookup_or_buffer is such a move.
LEMMA NoteMoves ==
  ASSUME RaceAccounted, HomesAccounted, HandleNote
  PROVE  \E n \in 1..Len(target) : NoteMoved(n)
<1>0. /\ TypeOK /\ WireTracked /\ OpenRegistered /\ RegisteredNotBuffered
      /\ ReceivedFirst /\ ListsInOrder /\ HomesApart
  BY DEF RaceAccounted, HomesAccounted
<1> DEFINE n == Head(wire).n
           i == target[n]
           p == PushBounded(pending, i, n)
<1>1. wire \in Seq(Frames) /\ wire # <<>> /\ Head(wire).kind = "note" /\ wire' = Tail(wire)
  BY <1>0 DEF TypeOK, HandleNote
<1>2. /\ n \in OnWire /\ OnWire' = OnWire \ {n} /\ NotesRising(wire')
      /\ \A m \in OnWire : n <= m
  <2>1. NotesRising(wire) /\ OnWire = NotesOf(wire) /\ OnWire' = NotesOf(wire')
    BY <1>0 DEF ReceivedFirst, OnWire, NotesOf
  <2> QED BY <1>1, <2>1, NotesOfTail
<1>3. n \in 1..Len(target) /\ i \in SubIds /\ n \in 1..MaxNotes
  <2>1. Head(wire) \in Elements(wire)
    BY <1>1, ElementsTail
  <2>2. n \in 1..Len(target) /\ target \in Seq(SubIds) /\ Len(target) <= MaxNotes
    BY <1>0, <1>1, <2>1 DEF WireTracked, TypeOK
  <2> QED BY <2>2, BoundIsNat
<1>4. /\ conn = "open" /\ AgentUp /\ inHand = {}
      /\ UNCHANGED <<pc, grant, flush, target, delivered, connVars, registry>>
  BY DEF HandleNote, AgentUp
<1>5. \/ /\ i \in registry
         /\ inHand' = {n}
         /\ UNCHANGED <<pending, dropped, evicted>>
      \/ /\ i \notin registry
         /\ dropped' = dropped \cup {n}
         /\ UNCHANGED <<pending, inHand, evicted>>
      \/ /\ i \notin registry
         /\ pending' = p
         /\ evicted' = evicted \cup ((AllPending(pending) \cup {n}) \ AllPending(p))
         /\ UNCHANGED <<inHand, dropped>>
  BY DEF HandleNote
<1> HIDE DEF n, i, p
<1>6. ASSUME i \notin registry, pending' = p,
             evicted' = evicted \cup ((AllPending(pending) \cup {n}) \ AllPending(p))
      PROVE  /\ n \in AllPending(pending')
             /\ AllPending(pending') \subseteq AllPending(pending) \cup {n}
             /\ evicted' = evicted \cup (AllPending(pending) \ AllPending(pending'))
             /\ \A j \in SubIds : Falling(pending'[j])
             /\ \A e \in AllPending(pending) \ AllPending(pending') :
                  /\ target[e] \notin registry
                  /\ \A m \in Held' : target[e] = target[m] => e < m
  <2>1. /\ pending \in Buffers
        /\ Cardinality(Buffered(pending)) <= MaxIds
        /\ \A j \in SubIds : Len(pending[j]) <= MaxPerId
    BY <1>0 DEF TypeOK, Buffers
  <2>2. \A m \in Elements(pending[i]) : m < n
    <3>1. Elements(pending[i]) \subseteq Received
      BY <1>3, HeldWhere DEF Received, Held
    <3> QED BY <1>0, <1>2, <3>1 DEF ReceivedFirst
  <2>3. /\ \A j \in SubIds : Falling(pending'[j])
        /\ n \in Elements(pending'[i])
        /\ \A m \in Elements(pending[i]) \ Elements(pending'[i]) :
             \A k \in Elements(pending'[i]) : m < k
    BY <1>0, <1>3, <1>6, <2>1, <2>2, PushOrder DEF p, ListsInOrder
  <2>4. \A j \in SubIds \ {i} : pending'[j] = pending[j] \/ pending'[j] = <<>>
    BY <1>3, <1>6, <2>1, PushShape DEF p
  <2>5. Elements(pending'[i]) \subseteq Elements(pending[i]) \cup {n}
    BY <1>3, <1>6, <2>1, PushKeepsCaps DEF p
  <2>6. n \in AllPending(pending')
    BY <1>3, <2>3, HeldWhere
  <2>7. AllPending(pending') \subseteq AllPending(pending) \cup {n}
    <3>1. ASSUME NEW j \in SubIds, NEW m \in Elements(pending'[j])
          PROVE  m \in AllPending(pending) \cup {n}
      BY <2>4, <2>5, HeldWhere, ElementsEmpty
    <3> QED BY <3>1, HeldWhere
  <2>8. ASSUME NEW e \in AllPending(pending) \ AllPending(pending')
        PROVE  /\ target[e] \notin registry
               /\ \A m \in Held' : target[e] = target[m] => e < m
    <3>1. PICK j \in SubIds : e \in Elements(pending[j])
      BY HeldWhere
    <3>2. target[e] = j /\ j \in Buffered(pending) /\ j \notin registry
      BY <1>0, <3>1, HeldApart, ElementsEmpty DEF Buffered, RegisteredNotBuffered
    <3>3. ASSUME NEW m \in Held', target[e] = target[m] PROVE e < m
      <4>1. CASE m \in Flushed'
        <5>1. PICK c \in Calls : m \in Elements(flush[c])
          BY <1>4, <4>1, HeldWhere
        <5>2. pc[c] = "flushing" /\ target[m] = grant[c]
          BY <5>1, HeldApart
        <5>3. grant[c] \in registry
          BY <1>0, <1>4, <5>2 DEF OpenRegistered
        <5> QED BY <3>2, <3>3, <5>2, <5>3
      <4>2. CASE m \in AllPending(pending')
        <5>1. PICK k \in SubIds : m \in Elements(pending'[k])
          BY <4>2, HeldWhere
        <5>2. target[m] = k
          BY <2>4, <2>5, <5>1, HeldApart, ElementsEmpty DEF i
        <5>3. k = j
          BY <3>2, <3>3, <5>2
        <5>4. e \notin Elements(pending'[j])
          BY HeldWhere
        <5>5. CASE j = i
          BY <2>3, <3>1, <5>1, <5>3, <5>4, <5>5
        <5>6. CASE j # i
          <6>1. pending'[j] = <<>>
            BY <2>4, <3>1, <5>4, <5>6
          <6> QED BY <5>1, <5>3, <6>1, ElementsEmpty
        <5> QED BY <5>5, <5>6
      <4> QED BY <4>1, <4>2 DEF Held
    <3> QED BY <3>2, <3>3
  <2>9. evicted' = evicted \cup (AllPending(pending) \ AllPending(pending'))
    BY <1>6, <2>6
  <2> QED BY <2>3, <2>6, <2>7, <2>8, <2>9
<1> USE <1>3
<1> WITNESS n \in 1..Len(target)
<1> QED BY <1>2, <1>4, <1>5, <1>6 DEF i, NoteMoved

\* The node sends its notifications one after the other, in order.
LEMMA NotifyMoves ==
  ASSUME RaceAccounted, HomesAccounted, NEW c \in Calls, Notify(c)
  PROVE  /\ conn = "open" /\ grant[c] \in SubIds
         /\ UNCHANGED <<pc, grant, flush, pending, fates, connVars>>
         /\ Len(target) \in Nat
         /\ target' = Append(target, grant[c]) /\ Len(target') = Len(target) + 1
         /\ \A n \in 1..Len(target) : target'[n] = target[n]
         /\ OnWire' = OnWire \cup {Len(target) + 1}
         /\ NotesRising(wire')
<1> DEFINE n == Len(target) + 1
           f == [kind |-> "note", n |-> n]
<1>0. TypeOK /\ WireTracked /\ ReceivedFirst
  BY DEF RaceAccounted, HomesAccounted
<1>1. /\ target \in Seq(SubIds) /\ Len(target) \in Nat /\ grant[c] \in SubIds
      /\ target' = Append(target, grant[c])
      /\ conn = "open"
      /\ UNCHANGED <<pc, grant, flush, pending, fates, connVars>>
      /\ wire \in Seq(Frames) /\ wire' = Append(wire, f)
  BY <1>0 DEF Notify, TypeOK, agentVars
<1>2. /\ Len(target') = Len(target) + 1
      /\ \A k \in 1..Len(target) : target'[k] = target[k]
  BY <1>1
<1>3. f \in Frames
  <2>1. n \in 1..MaxNotes
    BY <1>1, BoundIsNat DEF Notify
  <2> QED BY <2>1 DEF Frames
<1>4. OnWire = NotesOf(wire) /\ OnWire' = NotesOf(wire')
  BY DEF OnWire, NotesOf
<1>5. \A m \in NotesOf(wire) : m < n
  <2>1. \A g \in Elements(wire) : g.kind = "note" => g.n \in 1..Len(target)
    BY <1>0 DEF WireTracked
  <2>2. \A m \in NotesOf(wire) : m \in 1..Len(target)
    BY <2>1 DEF NotesOf
  <2> QED BY <1>1, <2>2
<1>6. NotesRising(wire') /\ NotesOf(wire') = NotesOf(wire) \cup {n}
  <2>1. f.kind = "note" /\ f.n = n
    OBVIOUS
  <2> HIDE DEF f
  <2> QED BY <1>0, <1>1, <1>3, <1>5, <2>1, NotesOfAppend DEF ReceivedFirst
<1> QED BY <1>1, <1>2, <1>4, <1>6

\* An answer, sent or handled, moves no notification.
LEMMA AnswerMoves ==
  ASSUME RaceAccounted, HomesAccounted,
         HandleAnswer \/ \E c \in Calls : \E kind \in {"granted", "refused", "removed"} :
                           Answer(c, kind)
  PROVE  /\ UNCHANGED <<flush, pending, target, fates, connVars, grant>>
         /\ OnWire' = OnWire /\ NotesRising(wire')
<1>0. TypeOK /\ ReceivedFirst
  BY DEF RaceAccounted, HomesAccounted
<1>1. /\ wire \in Seq(Frames) /\ NotesRising(wire)
      /\ OnWire = NotesOf(wire) /\ OnWire' = NotesOf(wire')
  BY <1>0 DEF TypeOK, ReceivedFirst, OnWire, NotesOf
<1>2. CASE HandleAnswer
  <2>1. wire # <<>> /\ Head(wire).kind # "note" /\ wire' = Tail(wire)
    BY <1>2 DEF HandleAnswer
  <2> QED BY <1>1, <1>2, <2>1, NotesOfTail DEF HandleAnswer, agentVars
<1>3. ASSUME NEW c \in Calls, NEW kind \in {"granted", "refused", "removed"},
             Answer(c, kind)
      PROVE  /\ UNCHANGED <<flush, pending, target, fates, connVars, grant>>
             /\ OnWire' = OnWire /\ NotesRising(wire')
  <2> DEFINE f == [kind |-> kind, call |-> c]
  <2>1. f \in Frames /\ f.kind # "note"
    BY DEF Frames
  <2>2. wire' = Append(wire, f)
    BY <1>3 DEF Answer
  <2> HIDE DEF f
  <2> QED BY <1>1, <1>3, <2>1, <2>2, NotesOfAppend DEF Answer, agentVars
<1> QED BY <1>2, <1>3

\* The steps that touch neither a list, nor the wire, nor a fate.
homeVars == <<flush, pending, wire, target, fates, connVars>>

LEMMA HomesSame ==
  ASSUME HomesAccounted, UNCHANGED homeVars
  PROVE  HomesAccounted'
BY DEF homeVars, fates, connVars, HomesAccounted, ReceivedFirst, ListsInOrder, HomesApart,
       NoneVanishes, ClientOutlived, StoppedForgets, EvictsOnlyOlder, AgentUp, Received,
       Held, Flushed, OnWire

\* A cap's victims are older than whatever is still held for their id.
LEMMA EvictedOlder ==
  /\ EvictsOnlyOlder <=>
       \A n \in evicted : \A m \in Held : target[n] = target[m] => n < m
  /\ EvictsOnlyOlder' <=>
       \A n \in evicted' : \A m \in Held' : target'[n] = target'[m] => n < m
BY DEF EvictsOnlyOlder, Held, Flushed

\* Moving notifications that were received among the client's own places
\* leaves every notification accounted for.
LEMMA HomesShuffled ==
  ASSUME HomesAccounted, UNCHANGED <<wire, target, evicted, connVars>>,
         ListsInOrder', StoppedForgets',
         Held' \subseteq Held, inHand' \subseteq inHand, Received' = Received,
         AllPending(pending') \cap Flushed' = {},
         (inHand' \cup Held') \cap (delivered' \cup dropped' \cup evicted') = {},
         delivered' \cap (dropped' \cup evicted') = {},
         dropped' \cap evicted' = {}
  PROVE  HomesAccounted'
<1>1. OnWire' = OnWire
  BY DEF OnWire
<1>2. ReceivedFirst' /\ NoneVanishes' /\ ClientOutlived'
  BY <1>1 DEF HomesAccounted, ReceivedFirst, NoneVanishes, ClientOutlived, connVars
<1>3. HomesApart'
  BY DEF HomesAccounted, HomesApart
<1>4. EvictsOnlyOlder'
  BY EvictedOlder DEF HomesAccounted
<1> QED BY <1>2, <1>3, <1>4 DEF HomesAccounted

\* A connection that has just been made has no notification anywhere.
LEMMA InitHomes == Init => HomesAccounted
<1> SUFFICES ASSUME Init PROVE HomesAccounted
  OBVIOUS
<1> USE DEF Init
<1>1. Len(target) = 0 /\ 1..Len(target) = {}
  OBVIOUS
<1>2. \A m : m \notin Held
  BY HeldWhere, ElementsEmpty DEF Held
<1>3. Received = {}
  BY <1>2 DEF Received
<1>4. ReceivedFirst
  BY <1>3 DEF ReceivedFirst, NotesRising
<1>5. ListsInOrder
  BY DEF ListsInOrder, Falling, Rising
<1>6. HomesApart /\ EvictsOnlyOlder
  BY <1>2, EvictedOlder DEF HomesApart, Held
<1>7. NoneVanishes /\ ClientOutlived /\ StoppedForgets
  BY <1>1 DEF NoneVanishes, ClientOutlived, StoppedForgets, AgentUp
<1> QED BY <1>4, <1>5, <1>6, <1>7 DEF HomesAccounted

\* Every step leaves each notification in one place, none lost while the
\* connection is open, and the evicted ones the oldest of their id.
LEMMA HomesStep ==
  ASSUME RaceAccounted, HomesAccounted, [Next]_vars
  PROVE  HomesAccounted'
<1> USE DEF homeVars, fates, connVars
<1>0. /\ ReceivedFirst /\ ListsInOrder /\ HomesApart /\ NoneVanishes
      /\ ClientOutlived /\ StoppedForgets /\ EvictsOnlyOlder
  BY DEF HomesAccounted
<1>a. TypeOK /\ NotesTracked
  BY DEF RaceAccounted
<1>1. ASSUME NEW c \in Calls, BeginSubscribe(c) PROVE HomesAccounted'
  BY <1>1, HomesSame DEF BeginSubscribe, nodeVars
<1>2. ASSUME NEW c \in Calls, SendSubscribe(c) PROVE HomesAccounted'
  BY <1>2, HomesSame DEF SendSubscribe, agentVars
<1>3. ASSUME NEW c \in Calls, SubscribeError(c) PROVE HomesAccounted'
  BY <1>3, HomesSame DEF SubscribeError, agentVars, nodeVars
<1>4. ASSUME NEW c \in Calls, RegisterAndDrain(c) PROVE HomesAccounted'
  BY <1>0, <1>4, DrainMoves, HomesShuffled DEF Received, HomesApart
<1>5. ASSUME NEW c \in Calls, Flush(c) PROVE HomesAccounted'
  <2> DEFINE n == Head(flush[c])
  <2>1. /\ UNCHANGED <<wire, target, pending, inHand, dropped, evicted, connVars>>
        /\ n \in Held /\ Flushed' = Flushed \ {n} /\ Held' = Held \ {n}
        /\ delivered' = delivered \cup {n}
        /\ ListsInOrder' /\ StoppedForgets'
    BY <1>5, FlushMoves, HeldWhere DEF Held
  <2> HIDE DEF n
  <2>2. Received' = Received
    BY <2>1 DEF Received
  <2> QED BY <1>0, <2>1, <2>2, HomesShuffled DEF HomesApart
<1>6. ASSUME NEW c \in Calls, HandlerRaises(c) PROVE HomesAccounted'
  <2> DEFINE lost == Elements(flush[c])
  <2>1. /\ UNCHANGED <<wire, target, pending, inHand, delivered, evicted, connVars>>
        /\ lost \subseteq Held /\ Flushed' = Flushed \ lost /\ Held' = Held \ lost
        /\ dropped' = dropped \cup lost
        /\ ListsInOrder' /\ StoppedForgets'
    BY <1>6, RaisesMoves DEF Held
  <2> HIDE DEF lost
  <2>2. Received' = Received
    BY <2>1 DEF Received
  <2> QED BY <1>0, <2>1, <2>2, HomesShuffled DEF HomesApart
<1>7. ASSUME NEW c \in Calls, Finish(c) PROVE HomesAccounted'
  BY <1>7, HomesSame DEF Finish, nodeVars
<1>8. ASSUME NEW c \in Calls, Unsubscribe(c) PROVE HomesAccounted'
  BY <1>8, HomesSame DEF Unsubscribe, agentVars
<1>9. ASSUME NEW c \in Calls, UnsubscribeError(c) PROVE HomesAccounted'
  BY <1>9, HomesSame DEF UnsubscribeError, agentVars, nodeVars
<1>10. ASSUME NEW c \in Calls, RemoveSubscription(c) PROVE HomesAccounted'
  <2>1. CASE AgentUp
    <3> DEFINE gone == Elements(pending[grant[c]])
    <3>1. /\ UNCHANGED <<wire, target, flush, inHand, delivered, evicted, connVars>>
          /\ gone \subseteq Held /\ AllPending(pending') = AllPending(pending) \ gone
          /\ Held' = Held \ gone
          /\ dropped' = dropped \cup gone
          /\ ListsInOrder' /\ StoppedForgets'
      BY <1>10, <2>1, RemoveMoves DEF Held
    <3> HIDE DEF gone
    <3>2. Received' = Received /\ Flushed' = Flushed
      BY <3>1 DEF Received, Flushed
    <3> QED BY <1>0, <3>1, <3>2, HomesShuffled DEF HomesApart
  <2>2. CASE ~AgentUp
    BY <1>10, <2>2, HomesSame DEF RemoveSubscription, nodeVars
  <2> QED BY <2>1, <2>2
<1>11. ASSUME HandleAnswer \/ \E c \in Calls :
                \E kind \in {"granted", "refused", "removed"} : Answer(c, kind)
       PROVE  HomesAccounted'
  <2>1. /\ UNCHANGED <<flush, pending, target, fates, connVars>>
        /\ OnWire' = OnWire /\ NotesRising(wire')
    BY <1>11, AnswerMoves
  <2>2. Held' = Held /\ Received' = Received
    BY <2>1 DEF Received, Held, Flushed
  <2>3. ReceivedFirst' /\ NoneVanishes' /\ ClientOutlived'
    BY <1>0, <2>1, <2>2 DEF ReceivedFirst, NoneVanishes, ClientOutlived
  <2>4. ListsInOrder' /\ HomesApart' /\ StoppedForgets'
    BY <1>0, <2>1, <2>2 DEF ListsInOrder, HomesApart, StoppedForgets, AgentUp, Flushed
  <2>5. EvictsOnlyOlder'
    BY <1>0, <2>1, <2>2, EvictedOlder
  <2> QED BY <2>3, <2>4, <2>5 DEF HomesAccounted
<1>12. CASE HandleNote
  <2>1. PICK n \in 1..Len(target) : NoteMoved(n)
    BY <1>12, NoteMoves
  <2> USE DEF NoteMoved
  <2>2. Flushed' = Flushed
    BY <2>1 DEF Flushed
  <2>3. n \notin Received
    <3>1. n \in Received => n < n
      BY <1>0, <2>1 DEF ReceivedFirst
    <3> QED BY <3>1
  <2>4. Received' = Received \cup {n}
    BY <2>1, <2>2 DEF Received, Held
  <2>5. ReceivedFirst'
    <3>1. OnWire \subseteq 1..MaxNotes
      BY <1>a, NotesByPosition DEF TypeOK, OnWire, NotesOf
    <3>2. \A m \in OnWire' : n < m
      BY <2>1, <3>1
    <3> QED BY <1>0, <2>1, <2>4, <3>2 DEF ReceivedFirst
  <2>6. ListsInOrder'
    BY <1>0, <2>1 DEF ListsInOrder
  <2>7. HomesApart'
    BY <1>0, <2>1, <2>2, <2>3 DEF HomesApart, Received, Held
  <2>8. NoneVanishes' /\ ClientOutlived'
    BY <1>0, <2>1, <2>4 DEF NoneVanishes, ClientOutlived
  <2>9. StoppedForgets'
    BY <2>1 DEF StoppedForgets, AgentUp
  <2>10. EvictsOnlyOlder'
    <3>1. \A m \in Held' : m \in Held \/ m = n
      BY <2>1, <2>2 DEF Held
    <3>2. \A e \in evicted : e < n
      BY <1>0, <2>1 DEF ReceivedFirst, Received
    <3>3. \A e \in evicted' : e \in evicted \/ e \in AllPending(pending) \ AllPending(pending')
      BY <2>1
    <3>4. ASSUME NEW e \in evicted', NEW m \in Held', target'[e] = target'[m]
          PROVE  e < m
      <4>1. CASE e \in evicted
        <5>1. \A k \in Held : target[e] = target[k] => e < k
          BY <1>0, <4>1, EvictedOlder
        <5> QED BY <2>1, <3>1, <3>2, <3>4, <4>1, <5>1
      <4>2. CASE e \notin evicted
        <5>1. /\ e \in AllPending(pending) \ AllPending(pending')
              /\ \A x \in AllPending(pending) \ AllPending(pending') :
                    \A k \in Held' : target[x] = target[k] => x < k
          BY <2>1, <3>3, <4>2
        <5> QED BY <2>1, <3>4, <5>1
      <4> QED BY <4>1, <4>2
    <3> QED BY <3>4, EvictedOlder
  <2> QED BY <2>5, <2>6, <2>7, <2>8, <2>9, <2>10 DEF HomesAccounted
<1>13. CASE Dispatch
  <2>1. /\ UNCHANGED <<flush, pending, wire, target, dropped, evicted, connVars>>
        /\ delivered' = delivered \cup inHand /\ inHand' = {}
    BY <1>13 DEF Dispatch, agentVars, nodeVars
  <2>2. Held' = Held /\ Received' = Received /\ Flushed' = Flushed
    BY <2>1 DEF Received, Held, Flushed
  <2>3. ListsInOrder' /\ StoppedForgets'
    BY <1>0, <2>1 DEF ListsInOrder, StoppedForgets, AgentUp
  <2> QED BY <1>0, <2>1, <2>2, <2>3, HomesShuffled DEF HomesApart
<1>14. CASE Disconnect
  <2>1. /\ UNCHANGED <<flush, pending, target, delivered, dropped, evicted>>
        /\ wire' = <<>> /\ inHand' = {} /\ conn = "open" /\ conn' = "down"
        /\ stops' = stops
    BY <1>14 DEF Disconnect, agentVars
  <2>2. Held' = Held /\ Received' \subseteq Received /\ Flushed' = Flushed
    BY <2>1 DEF Received, Held, Flushed
  <2>3. OnWire' = {} /\ NotesRising(wire')
    BY <2>1, ElementsEmpty DEF OnWire, NotesRising
  <2>4. ReceivedFirst' /\ NoneVanishes' /\ ClientOutlived'
    BY <1>0, <2>1, <2>2, <2>3 DEF ReceivedFirst, NoneVanishes, ClientOutlived
  <2>5. ListsInOrder' /\ HomesApart' /\ StoppedForgets'
    BY <1>0, <2>1, <2>2 DEF ListsInOrder, HomesApart, StoppedForgets, AgentUp
  <2>6. EvictsOnlyOlder'
    BY <1>0, <2>1, <2>2, EvictedOlder
  <2> QED BY <2>4, <2>5, <2>6 DEF HomesAccounted
<1>15. ASSUME NEW s \in Stoppers, FindAgent(s) PROVE HomesAccounted'
  <2>1. UNCHANGED <<flush, pending, wire, target, fates, conn>> /\ conn # "open"
    BY <1>15 DEF FindAgent, agentVars, nodeVars
  <2>2. ClientOutlived'
    BY <1>0, <2>1 DEF ClientOutlived
  <2>3. OnWire' = OnWire /\ Held' = Held /\ Flushed' = Flushed /\ Received' = Received
    BY <2>1 DEF OnWire, Received, Held, Flushed
  <2>4. ReceivedFirst' /\ NoneVanishes' /\ ListsInOrder' /\ HomesApart' /\ StoppedForgets'
    BY <1>0, <2>1, <2>3
       DEF ReceivedFirst, NoneVanishes, ListsInOrder, HomesApart, StoppedForgets, AgentUp
  <2>5. EvictsOnlyOlder'
    BY <1>0, <2>1, <2>3, EvictedOlder
  <2> QED BY <2>2, <2>4, <2>5 DEF HomesAccounted
<1>16. ASSUME NEW s \in Stoppers, StopAgent(s) PROVE HomesAccounted'
  <2>1. /\ UNCHANGED <<flush, wire, target, fates>> /\ conn # "open"
        /\ pending' = [i \in SubIds |-> <<>>] /\ conn' = "stopped"
    BY <1>0, <1>16 DEF StopAgent, nodeVars, ClientOutlived
  <2>2. \A m : m \notin AllPending(pending')
    BY <2>1, HeldWhere, ElementsEmpty
  <2>3. /\ Flushed' = Flushed /\ OnWire' = OnWire /\ AllPending(pending') = {}
        /\ Held' \subseteq Held /\ Received' \subseteq Received
    BY <2>1, <2>2 DEF Received, Held, Flushed, OnWire
  <2>4. ReceivedFirst' /\ NoneVanishes' /\ ClientOutlived'
    BY <1>0, <2>1, <2>3 DEF ReceivedFirst, NoneVanishes, ClientOutlived
  <2>5. Falling(<<>>)
    BY DEF Falling
  <2>6. ListsInOrder' /\ HomesApart' /\ StoppedForgets'
    BY <1>0, <2>1, <2>3, <2>5 DEF ListsInOrder, HomesApart, StoppedForgets
  <2>7. EvictsOnlyOlder'
    BY <1>0, <2>1, <2>3, EvictedOlder
  <2> QED BY <2>4, <2>6, <2>7 DEF HomesAccounted
<1>17. ASSUME NEW c \in Calls, NEW i \in SubIds, Grant(c, i) PROVE HomesAccounted'
  BY <1>17, HomesSame DEF Grant, agentVars
<1>19. ASSUME NEW c \in Calls, Notify(c) PROVE HomesAccounted'
  <2>1. /\ conn = "open"
        /\ UNCHANGED <<flush, pending, fates, connVars>>
        /\ Len(target) \in Nat /\ Len(target') = Len(target) + 1
        /\ \A n \in 1..Len(target) : target'[n] = target[n]
        /\ OnWire' = OnWire \cup {Len(target) + 1}
        /\ NotesRising(wire')
    BY <1>19, NotifyMoves
  <2>2. Held' = Held /\ Received' = Received /\ Flushed' = Flushed
    BY <2>1 DEF Received, Held, Flushed
  <2>3. ReceivedFirst'
    BY <1>0, <2>1, <2>2 DEF ReceivedFirst
  <2>4. NoneVanishes' /\ ClientOutlived'
    BY <1>0, <2>1, <2>2 DEF NoneVanishes, ClientOutlived
  <2>5. ListsInOrder' /\ HomesApart' /\ StoppedForgets'
    BY <1>0, <2>1, <2>2 DEF ListsInOrder, HomesApart, StoppedForgets, AgentUp
  <2>6. EvictsOnlyOlder'
    <3>1. \A n \in evicted \cup Held : n \in 1..Len(target)
      BY <1>0 DEF ReceivedFirst, Received
    <3> QED BY <1>0, <2>1, <2>2, <3>1, EvictedOlder
  <2> QED BY <2>3, <2>4, <2>5, <2>6 DEF HomesAccounted
<1>20. CASE UNCHANGED vars
  BY <1>20, HomesSame DEF vars, agentVars, nodeVars
<1> QED BY <1>1, <1>2, <1>3, <1>4, <1>5, <1>6, <1>7, <1>8, <1>9,
           <1>10, <1>11, <1>12, <1>13, <1>14, <1>15, <1>16, <1>17, <1>19,
           <1>20
        DEF Next, CallerStep

\* In every reachable state each notification is accounted for.
THEOREM HomesAccountedAlways == Spec => []HomesAccounted
<1>1. Init => HomesAccounted
  BY InitHomes
<1>2. RaceAccounted /\ HomesAccounted /\ [Next]_vars => HomesAccounted'
  BY HomesStep
<1> QED BY <1>1, <1>2, RaceAccountedAlways, PTL DEF Spec

\* A cap costs an id its oldest notifications only.
THEOREM EvictsOnlyOlderHolds == Spec => []EvictsOnlyOlder
<1>1. HomesAccounted => EvictsOnlyOlder
  BY DEF HomesAccounted
<1> QED BY <1>1, HomesAccountedAlways, PTL

\* Each notification is in one place only, and in one place for certain while
\* the connection is open.
THEOREM OneHomeHolds == Spec => []OneHome
<1>1. RaceAccounted /\ HomesAccounted => OneHome
  <2> SUFFICES ASSUME RaceAccounted, HomesAccounted, NEW n \in 1..Len(target)
               PROVE  LET homes == <<n \in OnWire, n \in inHand, n \in AllPending(pending),
                                     \E c \in Calls : n \in Elements(flush[c]),
                                     n \in delivered, n \in dropped, n \in evicted>>
                          count == Cardinality({k \in DOMAIN homes : homes[k]})
                      IN count <= 1 /\ (conn = "open" => count = 1)
    BY DEF OneHome
  <2> DEFINE homes == <<n \in OnWire, n \in inHand, n \in AllPending(pending),
                        \E c \in Calls : n \in Elements(flush[c]),
                        n \in delivered, n \in dropped, n \in evicted>>
             at == {k \in DOMAIN homes : homes[k]}
  <2>1. ReceivedFirst /\ HomesApart /\ NoneVanishes
    BY DEF HomesAccounted
  <2>2. (\E c \in Calls : n \in Elements(flush[c])) <=> n \in Flushed
    BY HeldWhere
  <2>3. /\ 1 \in at <=> n \in OnWire
        /\ 2 \in at <=> n \in inHand
        /\ 3 \in at <=> n \in AllPending(pending)
        /\ 4 \in at <=> n \in Flushed
        /\ 5 \in at <=> n \in delivered
        /\ 6 \in at <=> n \in dropped
        /\ 7 \in at <=> n \in evicted
        /\ at \subseteq 1..7
    <3>1. /\ DOMAIN homes = 1..7
          /\ homes[1] = (n \in OnWire)
          /\ homes[2] = (n \in inHand)
          /\ homes[3] = (n \in AllPending(pending))
          /\ homes[4] = (\E c \in Calls : n \in Elements(flush[c]))
          /\ homes[5] = (n \in delivered)
          /\ homes[6] = (n \in dropped)
          /\ homes[7] = (n \in evicted)
      OBVIOUS
    <3> HIDE DEF homes
    <3>2. \A k : k \in at <=> k \in 1..7 /\ homes[k]
      BY <3>1
    <3>3. at \subseteq 1..7
      BY <3>2
    <3>4. /\ 1 \in 1..7 /\ 2 \in 1..7 /\ 3 \in 1..7 /\ 4 \in 1..7
          /\ 5 \in 1..7 /\ 6 \in 1..7 /\ 7 \in 1..7
      OBVIOUS
    <3> HIDE DEF at
    <3>5. /\ 1 \in at <=> homes[1]
          /\ 2 \in at <=> homes[2]
          /\ 3 \in at <=> homes[3]
          /\ 4 \in at <=> homes[4]
          /\ 5 \in at <=> homes[5]
          /\ 6 \in at <=> homes[6]
          /\ 7 \in at <=> homes[7]
      BY <3>2, <3>4, Zenon
    <3> QED BY <2>2, <3>1, <3>3, <3>5, Zenon
  <2> HIDE DEF at
  <2>4. n \in OnWire => n \notin Received
    <3>1. n \in OnWire /\ n \in Received => n < n
      BY <2>1 DEF ReceivedFirst
    <3> QED BY <3>1
  <2>5. \A j, k \in at : j = k
    <3> SUFFICES ASSUME NEW j \in at, NEW k \in at, j # k PROVE FALSE
      OBVIOUS
    <3>1. j \in {1, 2, 3, 4, 5, 6, 7} /\ k \in {1, 2, 3, 4, 5, 6, 7}
      BY <2>3
    <3> QED BY <2>1, <2>3, <2>4, <3>1 DEF HomesApart, Received, Held
  <2>6. conn = "open" => at # {}
    BY <2>1, <2>3 DEF NoneVanishes, Received, Held
  <2>7. at = {} \/ \E k : at = {k}
    BY <2>5
  <2>8. Cardinality(at) <= 1 /\ (at # {} => Cardinality(at) = 1)
    <3>1. CASE at = {}
      BY <3>1, FS_EmptySet
    <3>2. ASSUME NEW k, at = {k} PROVE Cardinality(at) = 1
      BY <3>2, FS_Singleton
    <3> QED BY <2>7, <3>1, <3>2
  <2> QED BY <2>6, <2>8 DEF at
<1> QED BY <1>1, RaceAccountedAlways, HomesAccountedAlways, PTL

-----------------------------------------------------------------------------
(* The contract: one lemma per step of NotificationDelivery, then the steps *)
(* of the code.                                                            *)

\* The ids that are open in the contract.
OpenIds == {grant[c] : c \in {d \in Calls : pc[d] \in {"subscribed", "unsubscribing"}}}

\* Sent and not yet with the handler, the buffer or a call.
InTransit == OnWire \cup inHand

\* The contract's view of a state.
seen == <<target, InTransit, Held, delivered, OpenIds, conn = "open">>

LEMMA DeliveryStutter ==
  ASSUME UNCHANGED seen
  PROVE  UNCHANGED Delivery!vars
BY DEF seen, Delivery!vars, InTransit, Held, Flushed, OpenIds

LEMMA DeliverySend ==
  ASSUME NEW i \in SubIds, conn = "open", conn' = conn,
         target' = Append(target, i), InTransit' = InTransit \cup {Len(target) + 1},
         UNCHANGED <<Held, delivered, OpenIds>>
  PROVE  Delivery!Next
<1>1. Delivery!Send(i)
  BY DEF Delivery!Send, InTransit, Held, Flushed, OpenIds
<1> QED BY <1>1 DEF Delivery!Next

LEMMA DeliveryHandOver ==
  ASSUME NEW n \in InTransit, conn = "open", conn' = conn,
         \A m \in InTransit : n <= m, InTransit' = InTransit \ {n},
         delivered' = delivered \cup {n},
         UNCHANGED <<target, Held, OpenIds>>
  PROVE  Delivery!Next
<1>1. Delivery!HandOver
  BY DEF Delivery!HandOver, Delivery!Oldest, InTransit, Held, Flushed, OpenIds
<1> QED BY <1>1 DEF Delivery!Next

LEMMA DeliveryHoldBack ==
  ASSUME NEW n \in InTransit, conn = "open", conn' = conn,
         \A m \in InTransit : n <= m, InTransit' = InTransit \ {n},
         target[n] \notin OpenIds,
         Held' \subseteq Held \cup {n},
         \A m \in Held \ Held' : target[m] \notin OpenIds,
         UNCHANGED <<target, delivered, OpenIds>>
  PROVE  Delivery!Next
<1>1. Delivery!HoldBack
  BY DEF Delivery!HoldBack, Delivery!Oldest, InTransit, Held, Flushed, OpenIds
<1> QED BY <1>1 DEF Delivery!Next

LEMMA DeliveryRelease ==
  ASSUME NEW n \in Held, \A m \in Held : target[m] = target[n] => n <= m,
         Held' = Held \ {n}, delivered' = delivered \cup {n},
         UNCHANGED <<target, InTransit, OpenIds, conn>>
  PROVE  Delivery!Next
<1>1. Delivery!Release
  BY DEF Delivery!Release, Delivery!Oldest, Delivery!HeldFor, InTransit, Held, Flushed, OpenIds
<1> QED BY <1>1 DEF Delivery!Next

LEMMA DeliveryGiveUp ==
  ASSUME NEW i \in SubIds, i \notin OpenIds,
         Held' = {m \in Held : target[m] # i},
         UNCHANGED <<target, InTransit, delivered, OpenIds, conn>>
  PROVE  Delivery!Next
<1>1. Delivery!GiveUp(i)
  BY DEF Delivery!GiveUp, Delivery!HeldFor, InTransit, Held, Flushed, OpenIds
<1> QED BY <1>1 DEF Delivery!Next

LEMMA DeliveryOpen ==
  ASSUME NEW i \in SubIds, \A m \in Held : target[m] # i,
         OpenIds' = OpenIds \cup {i},
         UNCHANGED <<target, InTransit, Held, delivered, conn>>
  PROVE  Delivery!Next
<1>1. Delivery!Open(i)
  BY DEF Delivery!Open, Delivery!HeldFor, InTransit, Held, Flushed, OpenIds
<1> QED BY <1>1 DEF Delivery!Next

LEMMA DeliveryClose ==
  ASSUME NEW i \in SubIds, OpenIds' = OpenIds \ {i},
         UNCHANGED <<target, InTransit, Held, delivered, conn>>
  PROVE  Delivery!Next
<1>1. Delivery!Close(i)
  BY DEF Delivery!Close, InTransit, Held, Flushed, OpenIds
<1> QED BY <1>1 DEF Delivery!Next

LEMMA DeliveryCut ==
  ASSUME conn' # "open", InTransit' = {},
         UNCHANGED <<target, Held, delivered, OpenIds>>
  PROVE  Delivery!Next
<1>1. Delivery!Cut
  BY DEF Delivery!Cut, InTransit, Held, Flushed, OpenIds
<1> QED BY <1>1 DEF Delivery!Next

LEMMA DeliveryForget ==
  ASSUME conn # "open", conn' # "open", Held' \subseteq Held,
         UNCHANGED <<target, InTransit, delivered, OpenIds>>
  PROVE  Delivery!Next
<1>1. Delivery!Forget
  BY DEF Delivery!Forget, InTransit, Held, Flushed, OpenIds
<1> QED BY <1>1 DEF Delivery!Next

LEMMA DeliveryInit == Init => Delivery!Init
<1> SUFFICES ASSUME Init PROVE Delivery!Init
  OBVIOUS
<1> USE DEF Init
<1>1. OnWire = {}
  BY ElementsEmpty DEF OnWire
<1>2. \A m : m \notin Held
  BY HeldWhere, ElementsEmpty DEF Held
<1>3. Held = {} /\ OpenIds = {}
  BY <1>2 DEF OpenIds
<1> QED BY <1>1, <1>3 DEF Delivery!Init, InTransit, Held, Flushed, OpenIds

Opened == {"subscribed", "unsubscribing"}

\* An id is open while its own call has it open, and no other call's.
LEMMA OpenWhere ==
  ASSUME RaceAccounted
  PROVE  /\ \A c \in Calls : pc[c] \in Opened => grant[c] \in OpenIds
         /\ \A c \in Calls : pc[c] \in Holding \ Opened => grant[c] \notin OpenIds
         /\ AgentUp => OpenIds \subseteq registry
         /\ UNCHANGED grant /\ (\A d \in Calls : pc'[d] \in Opened <=> pc[d] \in Opened)
              => OpenIds' = OpenIds
BY DEF RaceAccounted, GrantsDistinct, GrantsTracked, Holding, Opened, OpenIds, OpenRegistered

\* A call that fails to unsubscribe, or has its answer, closes its id.
LEMMA CloseMoves ==
  ASSUME RaceAccounted, NEW c \in Calls, pc[c] = "unsubscribing", UNCHANGED grant,
         pc'[c] \notin Opened, \A d \in Calls \ {c} : pc'[d] = pc[d],
         UNCHANGED <<target, InTransit, Held, delivered, conn>>
  PROVE  Delivery!Next
<1>0. GrantsDistinct /\ GrantsTracked /\ TypeOK
  BY DEF RaceAccounted
<1>1. grant[c] \in SubIds /\ grant[c] # None
  BY <1>0 DEF GrantsTracked, Holding, TypeOK
<1>2. OpenIds' = OpenIds \ {grant[c]}
  <2>1. \A d \in Calls \ {c} : grant[d] # grant[c]
    BY <1>0, <1>1 DEF GrantsDistinct
  <2> QED BY <2>1 DEF OpenIds, Opened
<1> QED BY <1>1, <1>2, DeliveryClose

\* Every step of the code is a step of the contract, or one the contract does
\* not see.
LEMMA StepDelivers ==
  ASSUME RaceAccounted, HomesAccounted, [Next]_vars
  PROVE  Delivery!Next \/ UNCHANGED Delivery!vars
<1> USE DEF fates, connVars
<1> DEFINE Delivers == Delivery!Next \/ UNCHANGED Delivery!vars
<1>0. TypeOK /\ GrantsTracked /\ FlushingOnly
  BY DEF RaceAccounted
<1>a. ReceivedFirst /\ HomesApart /\ ClientOutlived /\ StoppedForgets
  BY DEF HomesAccounted
<1>h. ASSUME UNCHANGED homeVars
      PROVE  UNCHANGED <<target, InTransit, Held, delivered, conn>>
  BY <1>h DEF homeVars, InTransit, OnWire, Held, Flushed
<1>s. ASSUME UNCHANGED homeVars, UNCHANGED grant,
             \A d \in Calls : pc'[d] \in Opened <=> pc[d] \in Opened
      PROVE  Delivers
  <2>1. UNCHANGED seen
    BY <1>h, <1>s, OpenWhere DEF seen
  <2> QED BY <2>1, DeliveryStutter
<1> HIDE DEF Delivers
<1>1. ASSUME NEW c \in Calls, BeginSubscribe(c) PROVE Delivers
  <2>1. \A d \in Calls : pc'[d] \in Opened <=> pc[d] \in Opened
    BY <1>0, <1>1 DEF BeginSubscribe, TypeOK, Opened
  <2> QED BY <1>1, <1>s, <2>1 DEF BeginSubscribe, homeVars, nodeVars
<1>2. ASSUME NEW c \in Calls, SendSubscribe(c) PROVE Delivers
  <2>1. \A d \in Calls : pc'[d] \in Opened <=> pc[d] \in Opened
    BY <1>0, <1>2 DEF SendSubscribe, TypeOK, Opened
  <2> QED BY <1>2, <1>s, <2>1 DEF SendSubscribe, homeVars, agentVars
<1>3. ASSUME NEW c \in Calls, SubscribeError(c) PROVE Delivers
  <2>1. \A d \in Calls : pc'[d] \in Opened <=> pc[d] \in Opened
    BY <1>0, <1>3 DEF SubscribeError, TypeOK, Opened
  <2> QED BY <1>3, <1>s, <2>1 DEF SubscribeError, homeVars, agentVars, nodeVars
<1>4. ASSUME NEW c \in Calls, RegisterAndDrain(c) PROVE Delivers
  <2>1. \A d \in Calls : pc'[d] \in Opened <=> pc[d] \in Opened
    BY <1>0, <1>4 DEF RegisterAndDrain, TypeOK, Opened
  <2>2. UNCHANGED grant
    BY <1>4 DEF RegisterAndDrain, nodeVars
  <2>3. UNCHANGED <<target, InTransit, Held, delivered, conn>>
    BY <1>4, DrainMoves DEF InTransit, OnWire
  <2>4. UNCHANGED seen
    BY <2>1, <2>2, <2>3, OpenWhere DEF seen
  <2> QED BY <2>4, DeliveryStutter DEF Delivers
<1>5. ASSUME NEW c \in Calls, Flush(c) PROVE Delivers
  <2> DEFINE n == Head(flush[c])
  <2>1. /\ UNCHANGED <<wire, target, pending, inHand, dropped, evicted, connVars>>
        /\ n \in Elements(flush[c]) /\ \A m \in Elements(flush[c]) : n <= m
        /\ Held' = Held \ {n} /\ delivered' = delivered \cup {n}
    BY <1>5, FlushMoves
  <2>2. pc[c] = "flushing" /\ UNCHANGED <<pc, grant>>
    BY <1>5 DEF Flush, nodeVars
  <2> HIDE DEF n
  <2>3. grant[c] \in SubIds /\ pending[grant[c]] = <<>>
    BY <1>a, <2>2, DrainedAlone
  <2>4. n \in Held /\ target[n] = grant[c]
    BY <2>1, HeldWhere, HeldApart DEF Held
  <2>5. ASSUME NEW m \in Held, target[m] = target[n] PROVE n <= m
    BY <1>a, <2>1, <2>2, <2>4, <2>5, HeldForCall
  <2>6. UNCHANGED <<InTransit, OpenIds>>
    BY <2>1, <2>2, OpenWhere DEF InTransit, OnWire
  <2> QED BY <2>1, <2>4, <2>5, <2>6, DeliveryRelease DEF Delivers
<1>6. ASSUME NEW c \in Calls, HandlerRaises(c) PROVE Delivers
  <2>1. /\ UNCHANGED <<wire, target, pending, inHand, delivered, evicted, connVars>>
        /\ Held' = Held \ Elements(flush[c])
    BY <1>6, RaisesMoves
  <2>2. /\ pc[c] = "flushing" /\ UNCHANGED grant
        /\ \A d \in Calls : pc'[d] \in Opened <=> pc[d] \in Opened
    BY <1>0, <1>6 DEF HandlerRaises, nodeVars, TypeOK, Opened
  <2>3. grant[c] \in SubIds /\ pending[grant[c]] = <<>>
    BY <1>a, <2>2, DrainedAlone
  <2>4. \A m \in Held : target[m] = grant[c] <=> m \in Elements(flush[c])
    BY <1>a, <2>2, HeldForCall
  <2>5. Held' = {m \in Held : target[m] # grant[c]}
    BY <2>1, <2>4
  <2>6. grant[c] \notin OpenIds /\ UNCHANGED <<InTransit, OpenIds>>
    BY <2>1, <2>2, OpenWhere DEF InTransit, OnWire, Holding, Opened
  <2> QED BY <2>1, <2>3, <2>5, <2>6, DeliveryGiveUp DEF Delivers
<1>7. ASSUME NEW c \in Calls, Finish(c) PROVE Delivers
  <2>1. UNCHANGED homeVars /\ UNCHANGED grant
    BY <1>7 DEF Finish, homeVars, nodeVars
  <2>2. CASE pc[c] = "flushing" /\ AgentUp
    <3>1. /\ flush[c] = <<>> /\ pc'[c] = "subscribed"
          /\ \A d \in Calls \ {c} : pc'[d] = pc[d]
      BY <1>0, <1>7, <2>2 DEF Finish, TypeOK
    <3>2. grant[c] \in SubIds /\ pending[grant[c]] = <<>>
      BY <1>a, <2>2, DrainedAlone
    <3>3. \A m \in Held : target[m] # grant[c]
      BY <1>a, <2>2, <3>1, HeldForCall, ElementsEmpty
    <3>4. OpenIds' = OpenIds \cup {grant[c]}
      BY <2>1, <2>2, <3>1 DEF OpenIds
    <3> QED BY <1>h, <2>1, <3>2, <3>3, <3>4, DeliveryOpen DEF Delivers
  <2>3. CASE ~(pc[c] = "flushing" /\ AgentUp)
    <3>1. \A d \in Calls : pc'[d] \in Opened <=> pc[d] \in Opened
      BY <1>0, <1>7, <2>3 DEF Finish, TypeOK, Opened
    <3> QED BY <1>s, <2>1, <3>1
  <2> QED BY <2>2, <2>3
<1>8. ASSUME NEW c \in Calls, Unsubscribe(c) PROVE Delivers
  <2>1. \A d \in Calls : pc'[d] \in Opened <=> pc[d] \in Opened
    BY <1>0, <1>8 DEF Unsubscribe, TypeOK, Opened
  <2> QED BY <1>8, <1>s, <2>1 DEF Unsubscribe, homeVars, agentVars
<1>9. ASSUME NEW c \in Calls, UnsubscribeError(c) PROVE Delivers
  <2>1. /\ pc[c] = "unsubscribing" /\ pc'[c] \notin Opened
        /\ \A d \in Calls \ {c} : pc'[d] = pc[d]
        /\ UNCHANGED homeVars /\ UNCHANGED grant
    BY <1>0, <1>9
       DEF UnsubscribeError, TypeOK, Opened, homeVars, agentVars, nodeVars
  <2> QED BY <1>h, <2>1, CloseMoves DEF Delivers
<1>10. ASSUME NEW c \in Calls, RemoveSubscription(c) PROVE Delivers
  <2>1. /\ pc[c] = "removing" /\ UNCHANGED grant
        /\ \A d \in Calls : pc'[d] \in Opened <=> pc[d] \in Opened
    BY <1>0, <1>10 DEF RemoveSubscription, nodeVars, TypeOK, Opened
  <2>2. CASE AgentUp
    <3>1. /\ UNCHANGED <<wire, target, flush, inHand, delivered, evicted, connVars>>
          /\ grant[c] \in SubIds
          /\ Held' = Held \ Elements(pending[grant[c]])
      BY <1>10, <2>2, RemoveMoves
    <3>2. ASSUME NEW m \in Held
          PROVE  target[m] = grant[c] <=> m \in Elements(pending[grant[c]])
      <4>1. CASE m \in AllPending(pending)
        BY <3>1, <4>1, HeldWhere, HeldApart
      <4>2. CASE m \in Flushed
        <5>1. PICK d \in Calls : m \in Elements(flush[d])
          BY <4>2, HeldWhere
        <5>2. pc[d] = "flushing" /\ target[m] = grant[d]
          BY <5>1, HeldApart
        <5>3. grant[d] # grant[c]
          BY <2>1, <3>1, <5>2, GrantAllotted DEF RaceAccounted, GrantsDistinct
        <5> QED BY <3>1, <5>2, <5>3, HeldApart
      <4> QED BY <4>1, <4>2 DEF Held
    <3>3. Held' = {m \in Held : target[m] # grant[c]}
      BY <3>1, <3>2
    <3>4. grant[c] \notin OpenIds /\ UNCHANGED <<InTransit, OpenIds>>
      BY <2>1, <3>1, OpenWhere DEF InTransit, OnWire, Holding, Opened
    <3> QED BY <3>1, <3>3, <3>4, DeliveryGiveUp DEF Delivers
  <2>3. CASE ~AgentUp
    BY <1>10, <1>s, <2>1, <2>3 DEF RemoveSubscription, homeVars, nodeVars
  <2> QED BY <2>2, <2>3
<1>11. CASE HandleAnswer
  <2> DEFINE c == Head(wire).call
  <2>1. UNCHANGED <<target, InTransit, Held, delivered, conn, grant>>
    BY <1>11, AnswerMoves DEF InTransit, Held, Flushed
  <2>2. pc' = [pc EXCEPT ![c] = Answered(Head(wire))]
    BY <1>11 DEF HandleAnswer
  <2>3. CASE c \in Calls /\ pc[c] = "unsubscribing" /\ pc'[c] \notin Opened
    <3> HIDE DEF c
    <3>1. \A d \in Calls \ {c} : pc'[d] = pc[d]
      BY <1>0, <2>2 DEF TypeOK
    <3> QED BY <2>1, <2>3, <3>1, CloseMoves DEF Delivers
  <2>4. CASE ~(c \in Calls /\ pc[c] = "unsubscribing" /\ pc'[c] \notin Opened)
    <3>1. c \in Calls => pc'[c] = Answered(Head(wire))
      BY <1>0, <2>2 DEF TypeOK
    <3>2. \A d \in Calls : d # c => pc'[d] = pc[d]
      BY <1>0, <2>2 DEF TypeOK
    <3>3. c \in Calls => (pc'[c] \in Opened <=> pc[c] \in Opened)
      BY <2>4, <3>1 DEF Answered, Opened
    <3>4. \A d \in Calls : pc'[d] \in Opened <=> pc[d] \in Opened
      BY <3>2, <3>3
    <3>5. UNCHANGED seen
      BY <2>1, <3>4, OpenWhere DEF seen
    <3> QED BY <3>5, DeliveryStutter DEF Delivers
  <2> QED BY <2>3, <2>4
<1>12. CASE HandleNote
  <2>1. PICK n \in 1..Len(target) : NoteMoved(n)
    BY <1>12, NoteMoves
  <2> USE DEF NoteMoved
  <2>2. Flushed' = Flushed /\ OpenIds' = OpenIds /\ OpenIds \subseteq registry
    BY <2>1, OpenWhere DEF Flushed, AgentUp
  <2>3. CASE inHand' = {n} /\ UNCHANGED pending
    <3>1. Held' = Held /\ InTransit' = InTransit
      BY <2>1, <2>2, <2>3 DEF Held, InTransit
    <3>2. UNCHANGED seen
      BY <2>1, <2>2, <3>1 DEF seen
    <3> QED BY <3>2, DeliveryStutter DEF Delivers
  <2>4. CASE /\ target[n] \notin registry /\ UNCHANGED inHand
             /\ Held' \subseteq Held \cup {n}
             /\ \A m \in Held \ Held' : target[m] \notin registry
    <3>1. target[n] \notin OpenIds /\ \A m \in Held \ Held' : target[m] \notin OpenIds
      BY <2>2, <2>4
    <3>2. InTransit = OnWire /\ InTransit' = OnWire'
      BY <2>1, <2>4 DEF InTransit
    <3> QED BY <2>1, <2>2, <2>4, <3>1, <3>2, DeliveryHoldBack DEF Delivers
  <2> QED BY <2>1, <2>2, <2>3, <2>4 DEF Held
<1>13. CASE Dispatch
  <2>1. /\ UNCHANGED <<pc, grant, flush, pending, wire, target, conn>>
        /\ inHand # {} /\ inHand' = {} /\ delivered' = delivered \cup inHand
    BY <1>13 DEF Dispatch, agentVars, nodeVars
  <2>2. PICK n \in 1..MaxNotes : inHand = {n}
    <3>1. inHand \subseteq 1..MaxNotes /\ \A j, k \in inHand : j = k
      BY <1>0 DEF TypeOK
    <3>2. PICK k \in inHand : TRUE
      BY <2>1
    <3>3. inHand = {k}
      BY <3>1, <3>2
    <3> QED BY <3>1, <3>3
  <2>3. \A m \in OnWire : n < m
    BY <1>a, <2>2 DEF ReceivedFirst, Received
  <2>4. OnWire \subseteq 1..MaxNotes
    BY <1>0, NotesByPosition DEF TypeOK, OnWire, NotesOf
  <2>5. OnWire' = OnWire /\ n \notin OnWire
    BY <2>1, <2>3 DEF OnWire
  <2>6. InTransit' = InTransit \ {n} /\ n \in InTransit /\ \A m \in InTransit : n <= m
    BY <2>1, <2>2, <2>3, <2>4, <2>5 DEF InTransit
  <2>7. Held' = Held /\ OpenIds' = OpenIds
    BY <2>1, OpenWhere DEF Held, Flushed
  <2>8. conn = "open"
    BY <1>a, <2>1 DEF ClientOutlived
  <2> QED BY <2>1, <2>2, <2>6, <2>7, <2>8, DeliveryHandOver DEF Delivers
<1>14. CASE Disconnect
  <2>1. /\ UNCHANGED <<pc, grant, flush, pending, target, delivered>>
        /\ wire' = <<>> /\ inHand' = {} /\ conn' # "open"
    BY <1>14 DEF Disconnect, agentVars
  <2>2. Held' = Held /\ OpenIds' = OpenIds /\ InTransit' = {}
    BY <2>1, ElementsEmpty, OpenWhere DEF Held, Flushed, OnWire, InTransit
  <2> QED BY <2>1, <2>2, DeliveryCut DEF Delivers
<1>15. ASSUME NEW s \in Stoppers, FindAgent(s) PROVE Delivers
  <2>1. UNCHANGED <<pc, grant, flush, pending, wire, inHand, target, delivered, conn>>
    BY <1>15 DEF FindAgent, agentVars, nodeVars
  <2>2. UNCHANGED seen
    BY <2>1, OpenWhere DEF seen, InTransit, OnWire, Held, Flushed
  <2> QED BY <2>2, DeliveryStutter DEF Delivers
<1>16. ASSUME NEW s \in Stoppers, StopAgent(s) PROVE Delivers
  <2>1. /\ UNCHANGED <<pc, grant, flush, wire, inHand, target, delivered>>
        /\ pending' = [i \in SubIds |-> <<>>] /\ conn # "open" /\ conn' # "open"
    BY <1>a, <1>16 DEF StopAgent, nodeVars, ClientOutlived
  <2>2. \A m : m \notin AllPending(pending')
    BY <2>1, HeldWhere, ElementsEmpty
  <2>3. Held' \subseteq Held /\ OpenIds' = OpenIds /\ InTransit' = InTransit
    BY <2>1, <2>2, OpenWhere DEF Held, Flushed, OnWire, InTransit
  <2> QED BY <2>1, <2>3, DeliveryForget DEF Delivers
<1>17. ASSUME NEW c \in Calls, NEW i \in SubIds, Grant(c, i) PROVE Delivers
  <2>1. UNCHANGED homeVars /\ UNCHANGED pc
    BY <1>17 DEF Grant, homeVars, agentVars
  <2>2. pc[c] \notin Opened /\ \A d \in Calls \ {c} : grant'[d] = grant[d]
    BY <1>0, <1>17 DEF Grant, GrantsTracked, Holding, Opened, TypeOK
  <2>3. OpenIds' = OpenIds
    BY <2>1, <2>2 DEF OpenIds, Opened
  <2>4. UNCHANGED seen
    BY <1>h, <2>1, <2>3 DEF seen
  <2> QED BY <2>4, DeliveryStutter DEF Delivers
<1>18. ASSUME NEW c \in Calls, NEW kind \in {"granted", "refused", "removed"},
              Answer(c, kind)
       PROVE  Delivers
  <2>1. UNCHANGED <<target, InTransit, Held, delivered, conn, grant>>
    BY <1>18, AnswerMoves DEF InTransit, Held, Flushed
  <2>2. UNCHANGED pc
    BY <1>18 DEF Answer
  <2>3. UNCHANGED seen
    BY <2>1, <2>2, OpenWhere DEF seen
  <2> QED BY <2>3, DeliveryStutter DEF Delivers
<1>19. ASSUME NEW c \in Calls, Notify(c) PROVE Delivers
  <2>1. /\ conn = "open" /\ conn' = conn /\ grant[c] \in SubIds
        /\ UNCHANGED <<pc, grant, flush, pending, delivered>>
        /\ target' = Append(target, grant[c])
        /\ InTransit' = InTransit \cup {Len(target) + 1}
    BY <1>19, NotifyMoves DEF InTransit
  <2>2. Held' = Held /\ OpenIds' = OpenIds
    BY <2>1, OpenWhere DEF Held, Flushed
  <2> QED BY <2>1, <2>2, DeliverySend DEF Delivers
<1>20. CASE UNCHANGED vars
  <2>1. UNCHANGED homeVars /\ UNCHANGED <<grant, pc>>
    BY <1>20 DEF vars, homeVars, agentVars, nodeVars
  <2> QED BY <1>s, <2>1 DEF Delivers
<1> QED BY <1>1, <1>2, <1>3, <1>4, <1>5, <1>6, <1>7, <1>8, <1>9,
           <1>10, <1>11, <1>12, <1>13, <1>14, <1>15, <1>16, <1>17, <1>18,
           <1>19, <1>20
        DEF Next, CallerStep, Delivers

\* The code of Onchain.Subscription implements the contract of
\* NotificationDelivery: at most one hand-over per notification, none lost for
\* an open id while the connection stands, and each id's in order.
THEOREM SubscriptionDelivers == Spec => ImplementsDelivery
<1>1. Init => Delivery!Init
  BY DeliveryInit
<1>2. RaceAccounted /\ HomesAccounted /\ [Next]_vars => [Delivery!Next]_(Delivery!vars)
  BY StepDelivers
<1> QED BY <1>1, <1>2, RaceAccountedAlways, HomesAccountedAlways, PTL
        DEF Spec, ImplementsDelivery, Delivery!Spec

=============================================================================
