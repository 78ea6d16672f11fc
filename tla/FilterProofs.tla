---------------------------- MODULE FilterProofs ----------------------------
(***************************************************************************)
(* What a listener of Onchain.Filter is sent comes in chain order, none    *)
(* twice, and no log is passed over in silence: for every number of        *)
(* listeners, logs, lost answers, retries, expiries, renewals, crashes and *)
(* restarts.                                                               *)
(***************************************************************************)
EXTENDS Filter, TLAPS, FiniteSetTheorems, SequenceTheorems, WellFoundedInduction

Ascending(s) == \A j, k \in DOMAIN s : j < k => s[j] < s[k]

Message == [kind : {"log", "event"}, n : Nat]

Granted == [kind : {"ok"}, id : FilterIds]
Changes == [kind : {"ok"}, batch : Seq(Nat)]
Replies == {NoReply} \cup [kind : {"ok", "unknown", "error"}] \cup Granted \cup Changes

TypeOK ==
  /\ proc \in Calling \cup {"idle", "down"}
  /\ filterId \in FilterIds \cup {NoFilter}
  /\ listeners \in Seq(Listeners)
  /\ armed \in BOOLEAN
  /\ left \in 0..MaxRetries
  /\ reply \in Replies
  /\ inbox \in [Listeners -> Seq(Message)]
  /\ live \in SUBSET FilterIds
  /\ granted \in Nat
  /\ backlog \in [FilterIds -> Seq(Nat)]
  /\ topicOf \in Seq(Topics)
  /\ known \in SUBSET FilterIds
  /\ reported \in Nat /\ retried \in Nat
  /\ since \in [Listeners -> Nat]
  /\ faults \in 0..MaxFaults
  /\ starts \in 0..MaxStarts

\* An answer is the one its request asks for.
AnswerFits ==
  /\ proc \in {"init", "renewing"} /\ reply.kind = "ok" => reply \in Granted
  /\ proc = "polling" /\ reply.kind = "ok" => reply \in Changes

\* The node keeps for a filter, in chain order, logs since it was created.
NodeInOrder ==
  /\ live \subseteq 1..granted
  /\ \A i \in FilterIds :
       /\ i \notin live => backlog[i] = <<>>
       /\ Ascending(backlog[i])
       /\ \A k \in DOMAIN backlog[i] : backlog[i][k] <= Height

\* A batch on its way is older than what the node keeps.
AnswerInOrder ==
  proc = "polling" /\ reply.kind = "ok" =>
    /\ Ascending(reply.batch)
    /\ \A k \in DOMAIN reply.batch : reply.batch[k] <= Height
    /\ filterId \in FilterIds =>
         \A k \in DOMAIN reply.batch, m \in DOMAIN backlog[filterId] :
           reply.batch[k] < backlog[filterId][m]

SentBefore(l, s) ==
  \A j \in DOMAIN inbox[l] : \A k \in DOMAIN s : inbox[l][j].n < s[k]

\* What a listener has is older than the batch on its way to it, than what
\* its filter will still yield, and than what a filter just granted has.
InboxBehind ==
  \A l \in Listeners :
    /\ \A j \in DOMAIN inbox[l] : inbox[l][j].n <= Height
    /\ filterId \in FilterIds => SentBefore(l, backlog[filterId])
    /\ proc = "polling" /\ reply.kind = "ok" => SentBefore(l, reply.batch)
    /\ proc \in {"init", "renewing"} /\ reply.kind = "ok" =>
         SentBefore(l, backlog[reply.id])

\* The GenServer owes listener l nothing for log n.
Settled(l, n) ==
  \/ n <= since[l]
  \/ n <= reported \/ n <= retried
  \/ [kind |-> "log", n |-> n] \in Entries(inbox[l])

\* What it owes is in the answer to its poll, or at the node.
LossAccounted ==
  /\ proc = "init" => listeners = <<>>
  /\ proc = "idle" \/ (proc = "polling" /\ reply.kind \in {"none", "ok"}) =>
       \A l \in Entries(listeners) : \A n \in 1..Height :
         \/ Settled(l, n)
         \/ filterId \notin live
         \/ n \in Entries(backlog[filterId])
         \/ proc = "polling" /\ reply.kind = "ok" /\ n \in Entries(reply.batch)

Inv ==
  /\ TypeOK /\ AnswerFits
  /\ NodeInOrder /\ AnswerInOrder /\ InboxBehind /\ InboxInChainOrder
  /\ LossAccounted

-----------------------------------------------------------------------------
(* parse_events gives the events in the order of their logs                *)

\* The least number of a set; the library's induction theorems cannot be
\* used, so a lemma is proved for all n by the least n it would fail for.
LEMMA LeastNat ==
  ASSUME NEW T \in SUBSET Nat, T # {}
  PROVE  \E i \in T : \A j \in T : i <= j
<1> DEFINE R == {ss \in Nat \X Nat : ss[1] < ss[2]}
<1>1. IsWellFoundedOn(R, Nat)
  BY NatLessThanWellFounded DEF OpToRel
<1>2. \E i \in T : \A j \in T : ~(<<j, i>> \in R)
  <2> HIDE DEF R
  <2> QED BY <1>1, WFMin
<1>3. ASSUME NEW i \in Nat, NEW j \in Nat, ~(<<j, i>> \in R) PROVE i <= j
  <2>1. ~(j < i)
    BY <1>3, Zenon
  <2> QED BY <2>1
<1> HIDE DEF R
<1> QED BY <1>2, <1>3

LEMMA FunctionIsSeq ==
  ASSUME NEW T, NEW n \in Nat, NEW f \in [1..n -> T]
  PROVE  f \in Seq(T) /\ Len(f) = n
<1>1. f \in Seq(T)
  BY SeqDef
<1>2. Len(f) \in Nat /\ 1..Len(f) = 1..n
  BY <1>1, LenProperties
<1>3. Len(f) = n
  <2>1. CASE Len(f) < n
    BY <1>2, <2>1
  <2>2. CASE n < Len(f)
    BY <1>2, <2>2
  <2> QED BY <1>2, <2>1, <2>2
<1> QED BY <1>1, <1>3

\* The positions in S can be listed lowest first ...
Listing(S) ==
  {at \in [1..Cardinality(S) -> S] : \A j, k \in DOMAIN at : j < k => at[j] < at[k]}

\* ... if those below n can, by adding n at the end.
LEMMA ListingGrows ==
  ASSUME NEW n \in Nat, NEW S \in SUBSET (1..(n + 1)), n + 1 \in S,
         Listing(S \ {n + 1}) # {}
  PROVE  Listing(S) # {}
<1> DEFINE T == S \ {n + 1}
           c == Cardinality(T)
<1>1. IsFiniteSet(S) /\ IsFiniteSet(T)
  <2>1. IsFiniteSet(1..(n + 1))
    BY FS_Interval
  <2> QED BY <2>1, FS_Subset
<1>2. c \in Nat /\ Cardinality(S) = c + 1
  BY <1>1, FS_CardinalityType, FS_RemoveElement
<1>3. PICK at \in [1..c -> T] : \A j, k \in 1..c : j < k => at[j] < at[k]
  BY DEF Listing
<1> DEFINE longer == [k \in 1..(c + 1) |-> IF k = c + 1 THEN n + 1 ELSE at[k]]
<1> HIDE DEF c
<1>4. longer \in [1..(c + 1) -> S]
  BY <1>2, <1>3
<1>5. ASSUME NEW j \in 1..(c + 1), NEW k \in 1..(c + 1), j < k
      PROVE  longer[j] < longer[k]
  <2>1. j \in 1..c
    BY <1>2, <1>5
  <2>2. longer[j] = at[j]
    <3>1. j # c + 1
      BY <1>2, <2>1
    <3> QED BY <3>1
  <2>3. at[j] \in Nat /\ at[j] < n + 1
    <3>1. at[j] \in T
      BY <1>3, <2>1
    <3>2. \A i \in T : i \in Nat /\ i < n + 1
      OBVIOUS
    <3> QED BY <3>1, <3>2
  <2>4. CASE k = c + 1
    <3>1. longer[k] = n + 1
      BY <2>4
    <3> QED BY <2>2, <2>3, <3>1
  <2>5. CASE k # c + 1
    <3>1. k \in 1..c /\ longer[k] = at[k]
      BY <1>2, <2>5
    <3> QED BY <1>3, <1>5, <2>1, <2>2, <3>1
  <2> QED BY <2>4, <2>5
<1>6. longer \in Listing(S)
  BY <1>2, <1>4, <1>5 DEF Listing
<1> QED BY <1>6

LEMMA ListingExists ==
  ASSUME NEW n \in Nat, NEW S \in SUBSET (1..n)
  PROVE  Listing(S) # {}
<1> DEFINE Listed(m) == \A T \in SUBSET (1..m) : Listing(T) # {}
           Bad == {m \in Nat : ~Listed(m)}
<1>1. SUFFICES Bad = {}
  OBVIOUS
<1>2. SUFFICES ASSUME Bad # {} PROVE FALSE
  OBVIOUS
<1>3. PICK m \in Bad : \A j \in Bad : m <= j
  BY <1>2, LeastNat
<1>4. PICK T \in SUBSET (1..m) : Listing(T) = {}
  BY <1>3
<1>5. T # {}
  <2>1. Cardinality({}) = 0
    BY FS_EmptySet
  <2>2. <<>> \in [1..0 -> {}]
    OBVIOUS
  <2>3. <<>> \in Listing({})
    BY <2>1, <2>2 DEF Listing
  <2> QED BY <1>4, <2>3
<1>6. m \in Nat /\ m # 0 /\ m - 1 \in Nat
  <2>1. m \in Nat
    BY <1>3
  <2>2. m # 0
    <3>1. 1..0 = {}
      OBVIOUS
    <3> QED BY <1>4, <1>5, <3>1
  <2> QED BY <2>1, <2>2
<1>7. Listed(m - 1)
  BY <1>3, <1>6
<1>8. Listing(T \ {m}) # {}
  <2>1. T \ {m} \in SUBSET (1..(m - 1))
    BY <1>6
  <2> QED BY <1>7, <2>1
<1>9. CASE m \in T
  <2>1. (m - 1) + 1 = m
    BY <1>6
  <2> QED BY <1>4, <1>6, <1>8, <1>9, <2>1, ListingGrows
<1>10. CASE m \notin T
  <2>1. T \ {m} = T
    BY <1>10
  <2> QED BY <1>4, <1>8, <2>1
<1> QED BY <1>9, <1>10

\* Enum.sort_by puts the positions in order.
LEMMA PositionsInOrder ==
  ASSUME NEW n \in Nat, NEW S \in SUBSET (1..n)
  PROVE  /\ Cardinality(S) \in Nat
         /\ InOrder(S) \in [1..Cardinality(S) -> S]
         /\ Ascending(InOrder(S))
<1>1. Cardinality(S) \in Nat
  <2>1. IsFiniteSet(1..n)
    BY FS_Interval
  <2> QED BY <2>1, FS_Subset, FS_CardinalityType
<1>2. \E at \in [1..Cardinality(S) -> S] :
        \A j, k \in DOMAIN at : j < k => at[j] < at[k]
  BY ListingExists DEF Listing
<1> QED BY <1>1, <1>2 DEF InOrder, Ascending

\* No position of S is missing from the list.
LEMMA PositionsComplete ==
  ASSUME NEW n \in Nat, NEW S \in SUBSET (1..n), NEW m \in S
  PROVE  \E k \in 1..Cardinality(S) : InOrder(S)[k] = m
<1> DEFINE at == InOrder(S)
           c == Cardinality(S)
<1>1. IsFiniteSet(S)
  <2>1. IsFiniteSet(1..n)
    BY FS_Interval
  <2> QED BY <2>1, FS_Subset
<1>2. c \in Nat /\ at \in [1..c -> S] /\ Ascending(at)
  BY PositionsInOrder
<1>3. IsFiniteSet(S \ {m}) /\ Cardinality(S \ {m}) = c - 1
  BY <1>1, FS_RemoveElement
<1>4. IsFiniteSet(1..c) /\ Cardinality(1..c) = c
  <2> HIDE DEF c
  <2>1. IsFiniteSet(1..c) /\ Cardinality(1..c) = IF 1 > c THEN 0 ELSE c - 1 + 1
    BY <1>2, FS_Interval
  <2> QED BY <1>2, <2>1
<1> HIDE DEF at, c
<1>5. SUFFICES ASSUME \A k \in 1..c : at[k] # m PROVE FALSE
  BY DEF at, c
<1>6. at \in [1..c -> S \ {m}]
  BY <1>2, <1>5
<1>7. PICK j \in 1..c, k \in 1..c : j # k /\ at[j] = at[k]
  <2>1. Cardinality(S \ {m}) < Cardinality(1..c)
    BY <1>2, <1>3, <1>4
  <2> DEFINE D == 1..c
             R == S \ {m}
  <2>2. IsFiniteSet(D) /\ IsFiniteSet(R) /\ Cardinality(R) < Cardinality(D) /\ at \in [D -> R]
    BY <1>3, <1>4, <1>6, <2>1
  <2>3. \E x, y \in D : x # y /\ at[x] = at[y]
    <3> HIDE DEF D, R
    <3> QED BY <2>2, FS_PigeonHole
  <2> QED BY <2>3
<1>8. at[j] \in Nat /\ at[k] \in Nat
  <2>1. \A i \in S : i \in Nat
    OBVIOUS
  <2> QED BY <1>2, <2>1
<1>9. j < k \/ k < j
  BY <1>7, <1>2
<1> QED BY <1>2, <1>7, <1>8, <1>9 DEF Ascending

\* The events of a batch are its decoded logs, in the batch's order.
LEMMA EventsOfBatch ==
  ASSUME NEW batch \in Seq(Nat), Ascending(batch)
  PROVE  /\ Events(batch) \in Seq(Nat)
         /\ Ascending(Events(batch))
         /\ \A k \in DOMAIN Events(batch) :
              \E m \in DOMAIN batch : Events(batch)[k] = batch[m]
         /\ \A m \in DOMAIN batch : topicOf[batch[m]] \in Decoded =>
              \E k \in DOMAIN Events(batch) : Events(batch)[k] = batch[m]
<1> DEFINE S == DecodedAt(batch)
           at == InOrder(S)
<1>1. S \in SUBSET (1..Len(batch)) /\ Len(batch) \in Nat
  BY DEF DecodedAt
<1>2. Cardinality(S) \in Nat /\ at \in [1..Cardinality(S) -> S] /\ Ascending(at)
  BY <1>1, PositionsInOrder
<1>3. Events(batch) = [k \in 1..Cardinality(S) |-> batch[at[k]]]
  BY <1>2 DEF Events
<1>7. \A m \in DOMAIN batch : topicOf[batch[m]] \in Decoded =>
        m \in S /\ \E k \in 1..Cardinality(S) : at[k] = m
  <2> SUFFICES ASSUME NEW m \in DOMAIN batch, topicOf[batch[m]] \in Decoded
               PROVE  m \in S /\ \E k \in 1..Cardinality(S) : at[k] = m
    OBVIOUS
  <2>1. m \in S
    BY DEF DecodedAt
  <2>2. \E k \in 1..Cardinality(S) : InOrder(S)[k] = m
    <3> HIDE DEF S
    <3> QED BY <1>1, <2>1, PositionsComplete
  <2> QED BY <2>1, <2>2
<1> HIDE DEF at
<1>4. \A k \in 1..Cardinality(S) : at[k] \in DOMAIN batch /\ batch[at[k]] \in Nat
  BY <1>1, <1>2
<1> HIDE DEF S
<1>5. Events(batch) \in Seq(Nat)
  <2>1. Events(batch) \in [1..Cardinality(S) -> Nat]
    BY <1>3, <1>4
  <2> QED BY <1>2, <2>1, FunctionIsSeq
<1>6. Ascending(Events(batch))
  BY <1>2, <1>3, <1>4 DEF Ascending
<1>8. ASSUME NEW m \in DOMAIN batch, topicOf[batch[m]] \in Decoded
      PROVE  \E k \in DOMAIN Events(batch) : Events(batch)[k] = batch[m]
  <2>1. PICK k \in 1..Cardinality(S) : at[k] = m
    BY <1>7, <1>8
  <2>2. k \in DOMAIN Events(batch) /\ Events(batch)[k] = batch[m]
    BY <1>3, <2>1
  <2> QED BY <2>2
<1>9. \A k \in DOMAIN Events(batch) : \E m \in DOMAIN batch : Events(batch)[k] = batch[m]
  BY <1>3, <1>4
<1> QED BY <1>5, <1>6, <1>8, <1>9

LEMMA Joined ==
  ASSUME NEW T, NEW s \in Seq(T), NEW t \in Seq(T)
  PROVE  /\ s \o t \in Seq(T)
         /\ DOMAIN (s \o t) = 1..(Len(s) + Len(t))
         /\ \A i \in DOMAIN (s \o t) :
              (s \o t)[i] = IF i <= Len(s) THEN s[i] ELSE t[i - Len(s)]
BY ConcatProperties, LenProperties

\* What a listener is sent for a batch: messages about logs of the batch,
\* those of one kind in the batch's order, every log among them, and ahead
\* of a decoded log its event.
LEMMA MessagesOfBatch ==
  ASSUME NEW batch \in Seq(Nat), Ascending(batch)
  PROVE  /\ Messages(batch) \in Seq(Message)
         /\ \A j, k \in DOMAIN Messages(batch) :
              j < k /\ Messages(batch)[j].kind = Messages(batch)[k].kind =>
                Messages(batch)[j].n < Messages(batch)[k].n
         /\ \A j \in DOMAIN Messages(batch) :
              \E m \in DOMAIN batch : Messages(batch)[j].n = batch[m]
         /\ \A m \in DOMAIN batch :
              \E j \in DOMAIN Messages(batch) :
                Messages(batch)[j] = [kind |-> "log", n |-> batch[m]]
         /\ \A k \in DOMAIN Messages(batch), n \in Nat :
              topicOf[n] \in Decoded /\ Messages(batch)[k] = [kind |-> "log", n |-> n] =>
                \E j \in DOMAIN Messages(batch) :
                  j < k /\ Messages(batch)[j] = [kind |-> "event", n |-> n]
<1> DEFINE events == Events(batch)
           first == [k \in DOMAIN events |-> [kind |-> "event", n |-> events[k]]]
           second == [k \in DOMAIN batch |-> [kind |-> "log", n |-> batch[k]]]
           sent == Messages(batch)
<1>1. /\ events \in Seq(Nat) /\ Ascending(events)
      /\ \A k \in DOMAIN events : \E m \in DOMAIN batch : events[k] = batch[m]
      /\ \A m \in DOMAIN batch : topicOf[batch[m]] \in Decoded =>
           \E k \in DOMAIN events : events[k] = batch[m]
  BY EventsOfBatch
<1> HIDE DEF events
<1>2. first \in Seq(Message) /\ Len(first) = Len(events) /\ DOMAIN events = 1..Len(events)
  <2>1. Len(events) \in Nat /\ events \in [1..Len(events) -> Nat]
    BY <1>1, LenProperties
  <2>2. first \in [1..Len(events) -> Message]
    BY <2>1 DEF Message
  <2> QED BY <2>1, <2>2, FunctionIsSeq
<1>3. second \in Seq(Message) /\ Len(second) = Len(batch) /\ DOMAIN batch = 1..Len(batch)
  <2>1. Len(batch) \in Nat /\ batch \in [1..Len(batch) -> Nat]
    BY LenProperties
  <2>2. second \in [1..Len(batch) -> Message]
    BY <2>1 DEF Message
  <2> QED BY <2>1, <2>2, FunctionIsSeq
<1>4. sent = first \o second
  BY DEF Messages, events
<1>5. Len(events) \in Nat /\ Len(batch) \in Nat
  BY <1>1
<1>6. /\ sent \in Seq(Message)
      /\ DOMAIN sent = 1..(Len(events) + Len(batch))
      /\ \A i \in DOMAIN sent :
           sent[i] = IF i <= Len(events) THEN first[i] ELSE second[i - Len(events)]
  BY <1>2, <1>3, <1>4, Joined
<1> DEFINE e == Len(events)
<1>7. \A i \in DOMAIN sent : i <= e =>
        i \in DOMAIN events /\ sent[i] = [kind |-> "event", n |-> events[i]]
  <2> SUFFICES ASSUME NEW i \in DOMAIN sent, i <= e
               PROVE  i \in DOMAIN events /\ sent[i] = [kind |-> "event", n |-> events[i]]
    OBVIOUS
  <2>1. i \in DOMAIN events
    BY <1>2, <1>5, <1>6
  <2>2. sent[i] = first[i]
    BY <1>6
  <2> QED BY <2>1, <2>2
<1>8. \A i \in DOMAIN sent : ~(i <= e) =>
        /\ i - e \in DOMAIN batch
        /\ sent[i] = [kind |-> "log", n |-> batch[i - e]]
  <2> SUFFICES ASSUME NEW i \in DOMAIN sent, ~(i <= e)
               PROVE  /\ i - e \in DOMAIN batch
                      /\ sent[i] = [kind |-> "log", n |-> batch[i - e]]
    OBVIOUS
  <2>1. i - e \in DOMAIN batch
    BY <1>3, <1>5, <1>6
  <2>2. sent[i] = second[i - e]
    BY <1>6
  <2> QED BY <2>1, <2>2
<1>9. \A m \in DOMAIN batch :
        m + e \in DOMAIN sent /\ sent[m + e] = [kind |-> "log", n |-> batch[m]]
  <2> SUFFICES ASSUME NEW m \in DOMAIN batch
               PROVE  m + e \in DOMAIN sent /\ sent[m + e] = [kind |-> "log", n |-> batch[m]]
    OBVIOUS
  <2>1. m \in Nat /\ 1 <= m /\ m <= Len(batch)
    BY <1>3, <1>5
  <2>2. m + e \in DOMAIN sent /\ ~(m + e <= e) /\ (m + e) - e = m
    BY <1>5, <1>6, <2>1
  <2> QED BY <1>8, <2>2
<1>12. \A i \in DOMAIN events :
        i \in DOMAIN sent /\ i <= e /\ sent[i] = [kind |-> "event", n |-> events[i]]
  <2> SUFFICES ASSUME NEW i \in DOMAIN events
               PROVE  i \in DOMAIN sent /\ i <= e /\ sent[i] = [kind |-> "event", n |-> events[i]]
    OBVIOUS
  <2>1. i \in DOMAIN sent /\ i <= e
    BY <1>2, <1>5, <1>6
  <2> QED BY <1>7, <2>1
<1> HIDE DEF first, second, sent, e
<1>13. ASSUME NEW k \in DOMAIN sent, NEW n \in Nat, topicOf[n] \in Decoded,
              sent[k] = [kind |-> "log", n |-> n]
       PROVE  \E j \in DOMAIN sent : j < k /\ sent[j] = [kind |-> "event", n |-> n]
  <2>1. k \in Nat /\ e \in Nat
    BY <1>5, <1>6 DEF e
  <2>2. ~(k <= e)
    BY <1>7, <1>13
  <2>3. k - e \in DOMAIN batch /\ batch[k - e] = n
    BY <1>8, <1>13, <2>2
  <2>4. PICK i \in DOMAIN events : events[i] = n
    BY <1>1, <1>13, <2>3
  <2>5. i \in DOMAIN sent /\ i <= e /\ sent[i] = [kind |-> "event", n |-> n]
    BY <1>12, <2>4
  <2>6. i < k
    BY <1>6, <2>1, <2>2, <2>5
  <2> QED BY <2>5, <2>6
<1>10. ASSUME NEW j \in DOMAIN sent, NEW k \in DOMAIN sent, j < k, sent[j].kind = sent[k].kind
       PROVE  sent[j].n < sent[k].n
  <2>0. j \in Nat /\ k \in Nat /\ e \in Nat
    BY <1>5, <1>6 DEF e
  <2>1. CASE k <= e
    <3>1. \A a, b \in DOMAIN events : a < b => events[a] < events[b]
      BY <1>1 DEF Ascending
    <3> QED BY <1>7, <1>10, <2>0, <2>1, <3>1
  <2>2. CASE ~(j <= e)
    <3>1. ~(k <= e) /\ j - e < k - e
      BY <1>5, <1>10, <2>0, <2>2
    <3> QED BY <1>8, <2>2, <3>1 DEF Ascending
  <2>3. CASE j <= e /\ ~(k <= e)
    BY <1>7, <1>8, <1>10, <2>3
  <2> QED BY <2>1, <2>2, <2>3
<1>11. ASSUME NEW j \in DOMAIN sent
       PROVE  \E m \in DOMAIN batch : sent[j].n = batch[m]
  BY <1>1, <1>7, <1>8
<1> QED BY <1>6, <1>9, <1>10, <1>11, <1>13 DEF sent

-----------------------------------------------------------------------------
(* Types                                                                   *)

LEMMA FiltersOfNode ==
  /\ MaxRetries \in Nat /\ MaxLogs \in Nat /\ MaxFaults \in Nat /\ MaxStarts \in Nat
  /\ FilterIds \subseteq Nat
  /\ NoFilter \notin FilterIds
BY BoundsAreNats, NoFilterIsNoId DEF FilterIds

LEMMA EnterTyped ==
  ASSUME NEW p \in Calling \cup {"idle", "down"}, Enter(p)
  PROVE  /\ proc' \in Calling \cup {"idle", "down"}
         /\ left' \in 0..MaxRetries
         /\ reply' \in Replies
BY FiltersOfNode DEF Enter, Replies

LEMMA ServesTyped ==
  ASSUME TypeOK, NEW answer \in Answers, NodeServes(answer)
  PROVE  /\ live' \in SUBSET FilterIds
         /\ granted' \in Nat
         /\ backlog' \in [FilterIds -> Seq(Nat)]
         /\ answer \in Replies
<1>1. answer \in Replies
  BY DEF TypeOK, Answers, Replies, Granted, Changes
<1>2. CASE /\ granted + 1 \in FilterIds
           /\ granted' = granted + 1
           /\ live' = live \cup {granted + 1}
           /\ UNCHANGED backlog
  BY <1>1, <1>2 DEF TypeOK
<1>3. CASE /\ backlog' = [backlog EXCEPT ![filterId] = <<>>]
           /\ UNCHANGED <<live, granted>>
  <2>1. backlog' \in [FilterIds -> Seq(Nat)]
    BY <1>3, EmptySeq DEF TypeOK
  <2> QED BY <1>1, <1>3, <2>1 DEF TypeOK
<1>4. CASE UNCHANGED <<live, granted, backlog>>
  BY <1>1, <1>4 DEF TypeOK
<1>5. CASE /\ live' = live \ {filterId}
           /\ backlog' = [i \in FilterIds |->
                            IF i = filterId THEN <<>> ELSE backlog[i]]
           /\ UNCHANGED granted
  BY <1>1, <1>5 DEF TypeOK
<1> QED BY <1>2, <1>3, <1>4, <1>5 DEF NodeServes

LEMMA ErrorTyped ==
  ASSUME TypeOK, TransportError
  PROVE  left' \in 0..MaxRetries /\ reply' \in Replies /\ faults' \in 0..MaxFaults
BY FiltersOfNode DEF TypeOK, TransportError, Replies

LEMMA TypeInit == FilterInit => TypeOK
<1> SUFFICES ASSUME FilterInit PROVE TypeOK
  OBVIOUS
<1>1. /\ inbox \in [Listeners -> Seq(Message)]
      /\ backlog \in [FilterIds -> Seq(Nat)]
      /\ listeners \in Seq(Listeners) /\ topicOf \in Seq(Topics)
  BY EmptySeq DEF FilterInit
<1>2. since \in [Listeners -> Nat]
  BY DEF FilterInit
<1>3. left \in 0..MaxRetries /\ faults \in 0..MaxFaults /\ starts \in 0..MaxStarts
  BY FiltersOfNode DEF FilterInit
<1>4. reply \in Replies
  BY DEF FilterInit, Replies
<1>5. /\ proc \in Calling \cup {"idle", "down"} /\ filterId \in FilterIds \cup {NoFilter}
      /\ armed \in BOOLEAN /\ live \in SUBSET FilterIds /\ granted \in Nat
      /\ known \in SUBSET FilterIds /\ reported \in Nat /\ retried \in Nat
  BY DEF FilterInit
<1> QED BY <1>1, <1>2, <1>3, <1>4, <1>5 DEF TypeOK

LEMMA TypeNext ==
  ASSUME TypeOK, AnswerFits, NodeInOrder, AnswerInOrder, [FilterNext]_filterVars
  PROVE  TypeOK'
<1> USE DEF TypeOK
<1>0. Height \in Nat
  BY DEF Height
<1>1. CASE Start
  <2>1. starts' \in 0..MaxStarts /\ listeners' \in Seq(Listeners)
    BY <1>1, FiltersOfNode DEF Start
  <2>2. proc' \in Calling \cup {"idle", "down"} /\ left' \in 0..MaxRetries /\ reply' \in Replies
    BY <1>1, EnterTyped DEF Start, Calling
  <2> QED BY <1>1, <2>1, <2>2 DEF Start, serverVars
<1>2. CASE Shutdown
  <2>1. proc' \in Calling \cup {"idle", "down"} /\ left' \in 0..MaxRetries /\ reply' \in Replies
    BY <1>2, EnterTyped DEF Shutdown, Calling
  <2> QED BY <1>2, <2>1 DEF Shutdown, serverVars, history, counters
<1>3. CASE Kill
  <2>1. proc' \in Calling \cup {"idle", "down"} /\ left' \in 0..MaxRetries /\ reply' \in Replies
    BY <1>3, EnterTyped DEF Kill, Calling
  <2>2. faults' \in 0..MaxFaults
    BY <1>3, FiltersOfNode DEF Kill
  <2> QED BY <1>0, <1>3, <2>1, <2>2 DEF Kill, serverVars
<1>4. CASE \E l \in Listeners : Listen(l)
  <2>1. PICK l \in Listeners : Listen(l)
    BY <1>4
  <2>2. listeners' \in Seq(Listeners)
    BY <2>1 DEF Listen
  <2> QED BY <1>0, <2>1, <2>2 DEF Listen, rpcVars, serverVars, counters
<1>5. CASE CheckFilter
  <2>1. proc' \in Calling \cup {"idle", "down"} /\ left' \in 0..MaxRetries /\ reply' \in Replies
    BY <1>5, EnterTyped DEF CheckFilter, Calling
  <2> QED BY <1>5, <2>1 DEF CheckFilter, serverVars, history, counters
<1>6. CASE SetFilter
  <2>1. proc' \in Calling \cup {"idle", "down"} /\ left' \in 0..MaxRetries /\ reply' \in Replies
    BY <1>6, EnterTyped DEF SetFilter, Calling
  <2>2. reply.id \in FilterIds
    BY <1>6 DEF SetFilter, AnswerFits, Granted
  <2> QED BY <1>0, <1>6, <2>1, <2>2 DEF SetFilter, serverVars, counters
<1>7. CASE SetFilterFails
  <2>1. proc' \in Calling \cup {"idle", "down"} /\ left' \in 0..MaxRetries /\ reply' \in Replies
    BY <1>7, EnterTyped DEF SetFilterFails, Calling
  <2> QED BY <1>0, <1>7, <2>1 DEF SetFilterFails, serverVars, counters
<1>8. CASE DispatchChanges
  <2>1. proc' \in Calling \cup {"idle", "down"} /\ left' \in 0..MaxRetries /\ reply' \in Replies
    BY <1>8, EnterTyped DEF DispatchChanges, Calling
  <2>2. reply.batch \in Seq(Nat) /\ Ascending(reply.batch)
    BY <1>8 DEF DispatchChanges, AnswerFits, Changes, AnswerInOrder
  <2>3. Messages(reply.batch) \in Seq(Message)
    BY <2>2, MessagesOfBatch
  <2>4. inbox' \in [Listeners -> Seq(Message)]
    BY <1>8, <2>3 DEF DispatchChanges
  <2> QED BY <1>8, <2>1, <2>4 DEF DispatchChanges, serverVars, counters
<1>9. CASE DecodeRaises
  <2>1. proc' \in Calling \cup {"idle", "down"} /\ left' \in 0..MaxRetries /\ reply' \in Replies
    BY <1>9, EnterTyped DEF DecodeRaises, Calling
  <2>2. faults' \in 0..MaxFaults
    BY <1>9, FiltersOfNode DEF DecodeRaises
  <2> QED BY <1>0, <1>9, <2>1, <2>2 DEF DecodeRaises, serverVars
<1>10. CASE Renew
  <2>1. proc' \in Calling \cup {"idle", "down"} /\ left' \in 0..MaxRetries /\ reply' \in Replies
    BY <1>10, EnterTyped DEF Renew, Calling
  <2> QED BY <1>10, <2>1 DEF Renew, serverVars, history, counters
<1>11. CASE PollFails
  <2>1. proc' \in Calling \cup {"idle", "down"} /\ left' \in 0..MaxRetries /\ reply' \in Replies
    BY <1>11, EnterTyped DEF PollFails, Calling
  <2> QED BY <1>0, <1>11, <2>1 DEF PollFails, serverVars, counters
<1>12. CASE Terminated
  <2>1. proc' \in Calling \cup {"idle", "down"} /\ left' \in 0..MaxRetries /\ reply' \in Replies
    BY <1>12, EnterTyped DEF Terminated, Calling
  <2> QED BY <1>12, <2>1 DEF Terminated, serverVars, history, counters
<1>13. CASE AttemptAnswered
  <2>1. PICK answer \in Answers : NodeServes(answer) /\ reply' = answer
    BY <1>13 DEF AttemptAnswered
  <2> QED BY <1>13, <2>1, ServesTyped DEF AttemptAnswered, processVars, history, counters
<1>14. CASE AnswerLost
  <2>1. PICK answer \in Answers : NodeServes(answer)
    BY <1>14 DEF AnswerLost
  <2>2. /\ live' \in SUBSET FilterIds /\ granted' \in Nat
        /\ backlog' \in [FilterIds -> Seq(Nat)]
    BY <2>1, ServesTyped
  <2>3. left' \in 0..MaxRetries /\ reply' \in Replies /\ faults' \in 0..MaxFaults
    BY <1>14, ErrorTyped DEF AnswerLost
  <2> QED BY <1>0, <1>14, <2>2, <2>3 DEF AnswerLost, processVars
<1>15. CASE RequestLost
  <2>1. left' \in 0..MaxRetries /\ reply' \in Replies /\ faults' \in 0..MaxFaults
    BY <1>15, ErrorTyped DEF RequestLost
  <2> QED BY <1>15, <2>1 DEF RequestLost, processVars, serverVars, history
<1>16. CASE SpuriousError
  <2>1. reply' \in Replies /\ faults' \in 0..MaxFaults
    BY <1>16, FiltersOfNode DEF SpuriousError, Replies
  <2> QED BY <1>16, <2>1 DEF SpuriousError, processVars, serverVars, history
<1>17. CASE \E t \in Topics : Emit(t)
  <2>1. PICK t \in Topics : Emit(t)
    BY <1>17
  <2>2. topicOf' \in Seq(Topics)
    BY <2>1 DEF Emit
  <2>3. backlog' \in [FilterIds -> Seq(Nat)]
    BY <1>0, <2>1 DEF Emit
  <2> QED BY <2>1, <2>2, <2>3 DEF Emit, processVars, rpcVars, history, counters
<1>18. CASE \E i \in FilterIds : Expire(i)
  <2>1. PICK i \in FilterIds : Expire(i)
    BY <1>18
  <2>2. faults' \in 0..MaxFaults
    BY <2>1, FiltersOfNode DEF Expire
  <2> QED BY <2>1, <2>2 DEF Expire, processVars, rpcVars, history
<1>19. CASE UNCHANGED filterVars
  BY <1>19 DEF filterVars, processVars, rpcVars, serverVars, history, counters
<1> QED
  BY <1>1, <1>2, <1>3, <1>4, <1>5, <1>6, <1>7, <1>8, <1>9, <1>10, <1>11, <1>12,
     <1>13, <1>14, <1>15, <1>16, <1>17, <1>18, <1>19 DEF FilterNext, Handle, Attempt

-----------------------------------------------------------------------------
(* Order                                                                   *)

\* The steps after which the GenServer has no answer at hand, and of which
\* the node sees nothing.
Moves == Start \/ Shutdown \/ Kill \/ Handle

LEMMA MovesForget ==
  ASSUME Moves
  PROVE  reply' = NoReply /\ UNCHANGED serverVars
BY DEF Moves, Handle, Enter, Start, Shutdown, Kill, CheckFilter, SetFilter,
       SetFilterFails, DispatchChanges, DecodeRaises, Renew, PollFails, Terminated

\* A failure leaves the request without an answer, or ends it with an error.
LEMMA ErrorsFail ==
  ASSUME reply = NoReply, TransportError
  PROVE  reply' = NoReply \/ (~(left > 0) /\ reply'.kind = "error")
BY DEF TransportError

\* What the node does for a request.
LEMMA Serves ==
  ASSUME TypeOK, NEW answer \in Answers, NodeServes(answer)
  PROVE  /\ \A i \in FilterIds : backlog'[i] = backlog[i] \/ backlog'[i] = <<>>
         /\ proc \in {"init", "renewing"} =>
              /\ answer \in Granted /\ answer.id = granted + 1
              /\ granted' = granted + 1 /\ live' = live \cup {granted + 1}
              /\ backlog' = backlog
         /\ proc = "polling" =>
              /\ live' = live
              /\ \/ /\ filterId \in live
                    /\ answer \in Changes /\ answer.batch = backlog[filterId]
                    /\ backlog' = [backlog EXCEPT ![filterId] = <<>>]
                 \/ /\ filterId \notin live
                    /\ answer.kind # "ok"
                    /\ backlog' = backlog
         /\ proc \notin {"init", "renewing"} =>
              /\ granted' = granted /\ live' \subseteq live
              /\ \A i \in FilterIds : i \in live => i \in live' \/ backlog'[i] = <<>>
<1>1. CASE /\ proc \in {"init", "renewing"}
           /\ granted + 1 \in FilterIds
           /\ granted' = granted + 1
           /\ live' = live \cup {granted + 1}
           /\ answer = [kind |-> "ok", id |-> granted + 1]
           /\ UNCHANGED backlog
  BY <1>1 DEF Granted
<1>2. CASE /\ proc = "polling" /\ filterId \in live
           /\ answer = [kind |-> "ok", batch |-> backlog[filterId]]
           /\ backlog' = [backlog EXCEPT ![filterId] = <<>>]
           /\ UNCHANGED <<live, granted>>
  <2>1. answer \in Changes /\ answer.batch = backlog[filterId]
    BY <1>2 DEF TypeOK, Changes
  <2> QED BY <1>2, <2>1 DEF TypeOK
<1>3. CASE /\ proc = "polling" /\ filterId \notin live
           /\ answer.kind \in {"unknown", "error"}
           /\ UNCHANGED <<live, granted, backlog>>
  BY <1>3
<1>4. CASE /\ proc = "terminating"
           /\ live' = live \ {filterId}
           /\ backlog' = [i \in FilterIds |->
                            IF i = filterId THEN <<>> ELSE backlog[i]]
           /\ answer = [kind |-> "ok"]
           /\ UNCHANGED granted
  BY <1>4
<1> QED BY <1>1, <1>2, <1>3, <1>4 DEF NodeServes

\* A log joins the end of what the node keeps for a filter.
LEMMA AppendedLast ==
  ASSUME NEW s \in Seq(Nat), NEW h \in Nat
  PROVE  /\ Entries(Append(s, h)) = Entries(s) \cup {h}
         /\ \A k \in DOMAIN Append(s, h) :
              Append(s, h)[k] = h \/ \E m \in DOMAIN s : Append(s, h)[k] = s[m]
         /\ Ascending(s) /\ (\A k \in DOMAIN s : s[k] < h) => Ascending(Append(s, h))
<1> DEFINE t == Append(s, h)
<1>1. /\ Len(s) \in Nat /\ DOMAIN s = 1..Len(s)
      /\ DOMAIN t = 1..(Len(s) + 1)
      /\ \A k \in DOMAIN s : t[k] = s[k]
      /\ t[Len(s) + 1] = h
  OBVIOUS
<1> HIDE DEF t
<1>2. \A k \in DOMAIN t : k \in DOMAIN s \/ k = Len(s) + 1
  BY <1>1
<1>3. Entries(t) = Entries(s) \cup {h}
  BY <1>1, <1>2 DEF Entries
<1>4. ASSUME Ascending(s), \A k \in DOMAIN s : s[k] < h,
             NEW j \in DOMAIN t, NEW k \in DOMAIN t, j < k
      PROVE  t[j] < t[k]
  <2>1. j \in DOMAIN s
    BY <1>1, <1>4
  <2> QED BY <1>1, <1>2, <1>4, <2>1 DEF Ascending
<1> QED BY <1>1, <1>2, <1>3, <1>4 DEF t, Ascending

LEMMA Emits ==
  ASSUME TypeOK, NodeInOrder, NEW t \in Topics, Emit(t)
  PROVE  /\ Height \in Nat /\ Height' = Height + 1
         /\ \A i \in FilterIds : IF i \in live THEN backlog'[i] = Append(backlog[i], Height + 1)
                                 ELSE backlog'[i] = backlog[i]
<1>1. Height \in Nat /\ Height' = Height + 1
  BY DEF TypeOK, Emit, Height
<1> QED BY <1>1 DEF Emit

\* Whatever happens, a filter's logs are those it had or a new one.
LEMMA BacklogsMove ==
  ASSUME TypeOK, NodeInOrder, [FilterNext]_filterVars
  PROVE  /\ Height \in Nat /\ Height' \in Nat /\ Height <= Height'
         /\ \A i \in FilterIds : \A k \in DOMAIN backlog'[i] :
              \/ backlog'[i][k] = Height + 1 /\ Height' = Height + 1
              \/ \E m \in DOMAIN backlog[i] : backlog'[i][k] = backlog[i][m]
<1>0. Height \in Nat
  BY DEF TypeOK, Height
<1>1. CASE Moves \/ UNCHANGED filterVars
  BY <1>0, <1>1, MovesForget DEF serverVars, filterVars, Height
<1>2. CASE \E l \in Listeners : Listen(l)
  BY <1>0, <1>2 DEF Listen, serverVars, Height
<1>3. CASE AttemptAnswered \/ AnswerLost
  <2>1. PICK answer \in Answers : NodeServes(answer)
    BY <1>3 DEF AttemptAnswered, AnswerLost
  <2>2. \A i \in FilterIds : backlog'[i] = backlog[i] \/ backlog'[i] = <<>>
    BY <2>1, Serves
  <2>3. Height' = Height
    BY <1>3 DEF AttemptAnswered, AnswerLost, Height
  <2> QED BY <1>0, <2>2, <2>3
<1>4. CASE RequestLost \/ SpuriousError
  BY <1>0, <1>4 DEF RequestLost, SpuriousError, serverVars, Height
<1>5. CASE \E t \in Topics : Emit(t)
  <2>1. PICK t \in Topics : Emit(t)
    BY <1>5
  <2> SUFFICES ASSUME NEW i \in FilterIds, NEW k \in DOMAIN backlog'[i]
               PROVE  \/ backlog'[i][k] = Height + 1
                      \/ \E m \in DOMAIN backlog[i] : backlog'[i][k] = backlog[i][m]
    BY <1>0, <2>1, Emits
  <2>2. backlog[i] \in Seq(Nat) /\ Height + 1 \in Nat
    BY <1>0 DEF TypeOK
  <2>3. CASE i \in live
    <3>1. backlog'[i] = Append(backlog[i], Height + 1)
      BY <2>1, <2>3, Emits
    <3> QED BY <2>2, <3>1, AppendedLast
  <2>4. CASE i \notin live
    BY <2>1, <2>4, Emits
  <2> QED BY <2>3, <2>4
<1>6. CASE \E i \in FilterIds : Expire(i)
  <2>1. PICK i \in FilterIds : Expire(i)
    BY <1>6
  <2>2. \A j \in FilterIds : backlog'[j] = backlog[j] \/ backlog'[j] = <<>>
    BY <2>1 DEF Expire, TypeOK
  <2> QED BY <1>0, <2>1, <2>2 DEF Expire, Height
<1> QED BY <1>1, <1>2, <1>3, <1>4, <1>5, <1>6 DEF FilterNext, Attempt, Moves

LEMMA NodeInOrderNext ==
  ASSUME TypeOK, NodeInOrder, [FilterNext]_filterVars
  PROVE  NodeInOrder'
<1>1. CASE Moves \/ UNCHANGED filterVars
  BY <1>1, MovesForget DEF serverVars, filterVars, NodeInOrder, Height
<1>2. CASE \E l \in Listeners : Listen(l)
  BY <1>2 DEF Listen, serverVars, NodeInOrder, Height
<1>3. CASE RequestLost \/ SpuriousError
  BY <1>3 DEF RequestLost, SpuriousError, serverVars, NodeInOrder, Height
<1>4. CASE AttemptAnswered \/ AnswerLost
  <2>1. PICK answer \in Answers : NodeServes(answer)
    BY <1>4 DEF AttemptAnswered, AnswerLost
  <2>2. topicOf' = topicOf
    BY <1>4 DEF AttemptAnswered, AnswerLost
  <2>3. \A i \in FilterIds :
          /\ Ascending(backlog'[i])
          /\ \A k \in DOMAIN backlog'[i] : backlog'[i][k] <= Height'
    BY <2>1, <2>2, Serves DEF NodeInOrder, Ascending, Height
  <2>4. CASE proc \in {"init", "renewing"}
    <3>1. /\ granted' = granted + 1 /\ live' = live \cup {granted + 1}
          /\ backlog' = backlog
      BY <2>1, <2>4, Serves
    <3>2. live' \subseteq 1..granted'
      BY <3>1 DEF TypeOK, NodeInOrder
    <3> QED BY <2>3, <3>1, <3>2 DEF NodeInOrder
  <2>5. CASE proc \notin {"init", "renewing"}
    <3>1. /\ granted' = granted /\ live' \subseteq live
          /\ \A i \in FilterIds : i \in live => i \in live' \/ backlog'[i] = <<>>
          /\ \A i \in FilterIds : backlog'[i] = backlog[i] \/ backlog'[i] = <<>>
      BY <2>1, <2>5, Serves
    <3> QED BY <2>3, <3>1 DEF NodeInOrder
  <2> QED BY <2>4, <2>5
<1>5. CASE \E t \in Topics : Emit(t)
  <2>1. PICK t \in Topics : Emit(t)
    BY <1>5
  <2>2. live' = live /\ granted' = granted
    BY <2>1 DEF Emit
  <2>3. ASSUME NEW i \in FilterIds
        PROVE  /\ i \notin live => backlog'[i] = <<>>
               /\ Ascending(backlog'[i])
               /\ \A k \in DOMAIN backlog'[i] : backlog'[i][k] <= Height'
    <3>1. backlog[i] \in Seq(Nat) /\ Height \in Nat /\ Height + 1 \in Nat /\ Height' = Height + 1
      BY <2>1, Emits DEF TypeOK
    <3>2. CASE i \notin live
      <4>1. backlog'[i] = <<>>
        BY <2>1, <3>2, Emits DEF NodeInOrder
      <4> QED BY <4>1 DEF Ascending
    <3>3. CASE i \in live
      <4>1. backlog'[i] = Append(backlog[i], Height + 1)
        BY <2>1, <3>3, Emits
      <4>2. \A k \in DOMAIN backlog[i] : backlog[i][k] \in Nat /\ backlog[i][k] <= Height
        BY <3>1 DEF NodeInOrder
      <4>3. \A k \in DOMAIN backlog[i] : backlog[i][k] < Height + 1
        BY <3>1, <4>2
      <4>4. Ascending(backlog'[i])
        BY <3>1, <4>1, <4>3, AppendedLast DEF NodeInOrder
      <4>5. \A k \in DOMAIN backlog'[i] : backlog'[i][k] = Height + 1 \/ \E m \in DOMAIN backlog[i] : backlog'[i][k] = backlog[i][m]
        BY <3>1, <4>1, AppendedLast
      <4>6. \A k \in DOMAIN backlog'[i] : backlog'[i][k] <= Height'
        BY <3>1, <4>2, <4>5
      <4> QED BY <3>3, <4>4, <4>6
    <3> QED BY <3>2, <3>3
  <2> QED BY <2>2, <2>3 DEF NodeInOrder
<1>6. CASE \E i \in FilterIds : Expire(i)
  <2>1. PICK i \in FilterIds : Expire(i)
    BY <1>6
  <2>2. \A j \in FilterIds : backlog'[j] = IF j = i THEN <<>> ELSE backlog[j]
    BY <2>1 DEF Expire, TypeOK
  <2>3. live' = live \ {i} /\ granted' = granted /\ topicOf' = topicOf
    BY <2>1 DEF Expire
  <2>4. live' \subseteq 1..granted'
    BY <2>3 DEF NodeInOrder
  <2>5. ASSUME NEW j \in FilterIds
        PROVE  /\ j \notin live' => backlog'[j] = <<>>
               /\ Ascending(backlog'[j])
               /\ \A k \in DOMAIN backlog'[j] : backlog'[j][k] <= Height'
    <3>1. CASE j = i
      <4>1. backlog'[j] = <<>>
        BY <2>2, <3>1
      <4> QED BY <4>1 DEF Ascending
    <3>2. CASE j # i
      <4>1. backlog'[j] = backlog[j] /\ (j \in live' <=> j \in live) /\ Height' = Height
        BY <2>2, <2>3, <3>2 DEF Height
      <4> QED BY <4>1 DEF NodeInOrder
    <3> QED BY <3>1, <3>2
  <2> QED BY <2>4, <2>5 DEF NodeInOrder
<1> QED BY <1>1, <1>2, <1>3, <1>4, <1>5, <1>6 DEF FilterNext, Attempt, Moves

LEMMA AnswerFitsNext ==
  ASSUME TypeOK, AnswerFits, [FilterNext]_filterVars
  PROVE  AnswerFits'
<1>1. CASE Moves
  BY <1>1, MovesForget DEF AnswerFits, NoReply
<1>2. CASE \E l \in Listeners : Listen(l)
  BY <1>2 DEF Listen, rpcVars, AnswerFits
<1>3. CASE AttemptAnswered
  <2>1. PICK answer \in Answers : NodeServes(answer) /\ reply' = answer
    BY <1>3 DEF AttemptAnswered
  <2>2. proc' = proc
    BY <1>3 DEF AttemptAnswered, processVars
  <2>3. proc \in {"init", "renewing"} => answer \in Granted
    BY <2>1, Serves
  <2>4. proc = "polling" => answer \in Changes \/ answer.kind # "ok"
    BY <2>1, Serves
  <2> QED BY <2>1, <2>2, <2>3, <2>4 DEF AnswerFits
<1>4. CASE AnswerLost \/ RequestLost
  BY <1>4, ErrorsFail DEF AnswerLost, RequestLost, AnswerFits, NoReply
<1>5. CASE SpuriousError
  BY <1>5 DEF SpuriousError, AnswerFits
<1>6. CASE (\E t \in Topics : Emit(t)) \/ (\E i \in FilterIds : Expire(i))
  BY <1>6 DEF Emit, Expire, processVars, rpcVars, AnswerFits
<1>7. CASE UNCHANGED filterVars
  BY <1>7 DEF filterVars, processVars, rpcVars, AnswerFits
<1> QED BY <1>1, <1>2, <1>3, <1>4, <1>5, <1>6, <1>7 DEF FilterNext, Attempt, Moves

LEMMA AnswerInOrderNext ==
  ASSUME TypeOK, AnswerFits, NodeInOrder, AnswerInOrder, [FilterNext]_filterVars
  PROVE  AnswerInOrder'
<1> SUFFICES ASSUME proc' = "polling", reply'.kind = "ok"
             PROVE  /\ Ascending(reply'.batch)
                    /\ \A k \in DOMAIN reply'.batch : reply'.batch[k] <= Height'
                    /\ filterId' \in FilterIds =>
                         \A k \in DOMAIN reply'.batch, m \in DOMAIN backlog'[filterId'] :
                           reply'.batch[k] < backlog'[filterId'][m]
  BY DEF AnswerInOrder
<1>1. CASE Moves
  BY <1>1, MovesForget DEF NoReply
<1>2. CASE AttemptAnswered
  <2>1. PICK answer \in Answers : NodeServes(answer) /\ reply' = answer
    BY <1>2 DEF AttemptAnswered
  <2>2. proc = "polling" /\ filterId' = filterId /\ topicOf' = topicOf
    BY <1>2 DEF AttemptAnswered, processVars
  <2>3. /\ filterId \in live /\ answer.batch = backlog[filterId]
        /\ backlog' = [backlog EXCEPT ![filterId] = <<>>]
    BY <2>1, <2>2, Serves
  <2>4. filterId \in FilterIds /\ backlog'[filterId] = <<>>
    BY <2>3 DEF TypeOK
  <2>5. Ascending(backlog[filterId]) /\ \A k \in DOMAIN backlog[filterId] : backlog[filterId][k] <= Height
    BY <2>4 DEF NodeInOrder
  <2>6. reply'.batch = backlog[filterId] /\ Height' = Height
    BY <2>1, <2>2, <2>3 DEF Height
  <2> QED BY <2>2, <2>4, <2>5, <2>6
<1>3. CASE AnswerLost \/ RequestLost
  BY <1>3, ErrorsFail DEF AnswerLost, RequestLost, NoReply
<1>4. CASE SpuriousError
  BY <1>4 DEF SpuriousError
<1>5. CASE (\E l \in Listeners : Listen(l)) \/ (\E t \in Topics : Emit(t))
             \/ (\E i \in FilterIds : Expire(i)) \/ UNCHANGED filterVars
  <2>1. proc' = proc /\ filterId' = filterId /\ reply' = reply
    BY <1>5 DEF Listen, Emit, Expire, processVars, rpcVars, filterVars
  <2>2. reply \in Changes
    BY <2>1 DEF AnswerFits
  <2>3. DOMAIN reply.batch \subseteq Nat /\ \A k \in DOMAIN reply.batch : reply.batch[k] \in Nat
    BY <2>2 DEF Changes
  <2>4. Ascending(reply.batch) /\ \A k \in DOMAIN reply.batch : reply.batch[k] <= Height
    BY <2>1 DEF AnswerInOrder
  <2>5. /\ Height \in Nat /\ Height' \in Nat /\ Height <= Height'
        /\ \A i \in FilterIds : \A k \in DOMAIN backlog'[i] :
              \/ backlog'[i][k] = Height + 1
              \/ \E m \in DOMAIN backlog[i] : backlog'[i][k] = backlog[i][m]
    BY BacklogsMove
  <2>6. ASSUME filterId \in FilterIds, NEW k \in DOMAIN reply.batch, NEW m \in DOMAIN backlog'[filterId]
        PROVE  reply.batch[k] < backlog'[filterId][m]
    <3>1. CASE backlog'[filterId][m] = Height + 1
      BY <2>3, <2>4, <2>5, <3>1
    <3>2. CASE \E p \in DOMAIN backlog[filterId] : backlog'[filterId][m] = backlog[filterId][p]
      BY <2>1, <2>6, <3>2 DEF AnswerInOrder
    <3> QED BY <2>5, <2>6, <3>1, <3>2
  <2>7. \A k \in DOMAIN reply.batch : reply.batch[k] <= Height'
    BY <2>3, <2>4, <2>5
  <2> QED BY <2>1, <2>4, <2>6, <2>7
<1> QED BY <1>1, <1>2, <1>3, <1>4, <1>5 DEF FilterNext, Attempt, Moves

\* dispatch_changes sends a batch to the listeners, in order.
LEMMA Dispatches ==
  ASSUME TypeOK, AnswerFits, AnswerInOrder, DispatchChanges, NEW l \in Listeners
  PROVE  /\ reply.batch \in Seq(Nat) /\ Ascending(reply.batch)
         /\ Messages(reply.batch) \in Seq(Message)
         /\ inbox'[l] = IF l \in Entries(listeners)
                          THEN inbox[l] \o Messages(reply.batch) ELSE inbox[l]
         /\ \A j \in DOMAIN inbox'[l] :
              \/ j \in DOMAIN inbox[l] /\ inbox'[l][j] = inbox[l][j]
              \/ /\ l \in Entries(listeners) /\ j \in Nat /\ j > Len(inbox[l])
                 /\ j - Len(inbox[l]) \in DOMAIN Messages(reply.batch)
                 /\ inbox'[l][j] = Messages(reply.batch)[j - Len(inbox[l])]
         /\ Entries(inbox[l]) \subseteq Entries(inbox'[l])
         /\ l \in Entries(listeners) => Entries(Messages(reply.batch)) \subseteq Entries(inbox'[l])
<1> DEFINE sent == Messages(reply.batch)
           old == inbox[l]
<1>1. reply.batch \in Seq(Nat) /\ Ascending(reply.batch)
  BY DEF DispatchChanges, AnswerFits, AnswerInOrder, Changes
<1>2. sent \in Seq(Message)
  BY <1>1, MessagesOfBatch
<1>3. old \in Seq(Message)
  BY DEF TypeOK
<1>4. inbox'[l] = IF l \in Entries(listeners) THEN old \o sent ELSE old
  BY DEF DispatchChanges
<1>5. Len(old) \in Nat /\ Len(sent) \in Nat /\ DOMAIN old = 1..Len(old) /\ DOMAIN sent = 1..Len(sent)
  BY <1>2, <1>3, LenProperties
<1> HIDE DEF sent, old
<1>6. /\ DOMAIN (old \o sent) = 1..(Len(old) + Len(sent))
      /\ \A i \in DOMAIN (old \o sent) :
           (old \o sent)[i] = IF i <= Len(old) THEN old[i] ELSE sent[i - Len(old)]
  BY <1>2, <1>3, Joined
<1>7. \A j \in DOMAIN (old \o sent) :
        \/ j \in DOMAIN old /\ (old \o sent)[j] = old[j]
        \/ /\ j \in Nat /\ j > Len(old) /\ j - Len(old) \in DOMAIN sent
           /\ (old \o sent)[j] = sent[j - Len(old)]
  BY <1>5, <1>6
<1>8. \A j \in DOMAIN old : j \in DOMAIN (old \o sent) /\ (old \o sent)[j] = old[j]
  BY <1>5, <1>6
<1>9. ASSUME NEW j \in DOMAIN sent
      PROVE  j + Len(old) \in DOMAIN (old \o sent) /\ (old \o sent)[j + Len(old)] = sent[j]
  <2>1. j \in Nat /\ 1 <= j /\ j <= Len(sent)
    BY <1>5
  <2>2. j + Len(old) \in DOMAIN (old \o sent) /\ ~(j + Len(old) <= Len(old)) /\ (j + Len(old)) - Len(old) = j
    BY <1>5, <1>6, <2>1
  <2> QED BY <1>6, <2>2
<1>10. Entries(old) \subseteq Entries(old \o sent) /\ Entries(sent) \subseteq Entries(old \o sent)
  BY <1>8, <1>9 DEF Entries
<1> QED BY <1>1, <1>2, <1>4, <1>7, <1>10 DEF sent, old

LEMMA EntriesTyped ==
  ASSUME TypeOK, NEW l \in Listeners, NEW j \in DOMAIN inbox[l]
  PROVE  inbox[l][j].n \in Nat
<1>1. inbox[l] \in Seq(Message)
  BY DEF TypeOK
<1>2. inbox[l][j] \in Message
  BY <1>1, ElementOfSeq, LenProperties
<1> QED BY <1>2 DEF Message

\* What a listener has stays behind a filter's logs while the node goes on.
LEMMA StaysBehind ==
  ASSUME TypeOK, NodeInOrder, [FilterNext]_filterVars, inbox' = inbox,
         NEW l \in Listeners, NEW i \in FilterIds,
         \A j \in DOMAIN inbox[l] : inbox[l][j].n <= Height,
         SentBefore(l, backlog[i])
  PROVE  SentBefore(l, backlog[i])'
<1>1. /\ Height \in Nat
      /\ \A k \in DOMAIN backlog'[i] :
           \/ backlog'[i][k] = Height + 1
           \/ \E m \in DOMAIN backlog[i] : backlog'[i][k] = backlog[i][m]
  BY BacklogsMove
<1>2. \A j \in DOMAIN inbox[l] : inbox[l][j].n \in Nat
  BY EntriesTyped
<1>3. ASSUME NEW j \in DOMAIN inbox[l], NEW k \in DOMAIN backlog'[i]
      PROVE  inbox[l][j].n < backlog'[i][k]
  <2>1. CASE backlog'[i][k] = Height + 1
    BY <1>1, <1>2, <2>1
  <2>2. CASE \E m \in DOMAIN backlog[i] : backlog'[i][k] = backlog[i][m]
    BY <2>2 DEF SentBefore
  <2> QED BY <1>1, <2>1, <2>2
<1> QED BY <1>3 DEF SentBefore

\* After a dispatch a listener is behind what the node keeps, and no entry
\* is of the future.
LEMMA DispatchBehind ==
  ASSUME TypeOK, AnswerFits, AnswerInOrder, InboxBehind, DispatchChanges, NEW l \in Listeners
  PROVE  /\ \A j \in DOMAIN inbox'[l] : inbox'[l][j].n <= Height
         /\ filterId \in FilterIds =>
              \A j \in DOMAIN inbox'[l] : \A k \in DOMAIN backlog[filterId] :
                inbox'[l][j].n < backlog[filterId][k]
<1> DEFINE sent == Messages(reply.batch)
<1>1. \A j \in DOMAIN inbox'[l] :
        \/ j \in DOMAIN inbox[l] /\ inbox'[l][j] = inbox[l][j]
        \/ \E k \in DOMAIN sent : inbox'[l][j] = sent[k]
  BY Dispatches
<1>2. \A k \in DOMAIN sent : \E m \in DOMAIN reply.batch : sent[k].n = reply.batch[m]
  BY Dispatches, MessagesOfBatch
<1> HIDE DEF sent
<1>3. \A m \in DOMAIN reply.batch : reply.batch[m] <= Height
  BY DEF AnswerInOrder, DispatchChanges
<1>4. filterId \in FilterIds =>
         \A k \in DOMAIN reply.batch, m \in DOMAIN backlog[filterId] :
           reply.batch[k] < backlog[filterId][m]
  BY DEF AnswerInOrder, DispatchChanges
<1>5. \A j \in DOMAIN inbox[l] : inbox[l][j].n <= Height
  BY DEF InboxBehind
<1>6. filterId \in FilterIds => SentBefore(l, backlog[filterId])
  BY DEF InboxBehind
<1>7. \A j \in DOMAIN inbox'[l] : inbox'[l][j].n <= Height
  BY <1>1, <1>2, <1>3, <1>5
<1>8. ASSUME filterId \in FilterIds, NEW j \in DOMAIN inbox'[l], NEW k \in DOMAIN backlog[filterId]
      PROVE  inbox'[l][j].n < backlog[filterId][k]
  BY <1>1, <1>2, <1>4, <1>6, <1>8 DEF SentBefore
<1> QED BY <1>7, <1>8

\* Only a dispatch sends the listeners anything.
LEMMA OnlyDispatchSends ==
  ASSUME [FilterNext]_filterVars, ~DispatchChanges
  PROVE  inbox' = inbox
BY DEF FilterNext, Handle, Attempt, filterVars, history, Start, Shutdown, Kill, Listen, CheckFilter,
       SetFilter, SetFilterFails, DecodeRaises, Renew, PollFails, Terminated,
       AttemptAnswered, AnswerLost, RequestLost, SpuriousError, Emit, Expire

LEMMA InboxBehindNext ==
  ASSUME TypeOK, AnswerFits, NodeInOrder, AnswerInOrder, InboxBehind, [FilterNext]_filterVars
  PROVE  InboxBehind'
<1> SUFFICES ASSUME NEW l \in Listeners
             PROVE  /\ \A j \in DOMAIN inbox'[l] : inbox'[l][j].n <= Height'
                    /\ filterId' \in FilterIds => SentBefore(l, backlog[filterId])'
                    /\ proc' = "polling" /\ reply'.kind = "ok" => SentBefore(l, reply.batch)'
                    /\ proc' \in {"init", "renewing"} /\ reply'.kind = "ok" =>
                         SentBefore(l, backlog[reply.id])'
  BY DEF InboxBehind
<1>0. /\ \A j \in DOMAIN inbox[l] : inbox[l][j].n <= Height
      /\ \A j \in DOMAIN inbox[l] : inbox[l][j].n \in Nat
  BY EntriesTyped DEF InboxBehind
<1>1. Height \in Nat /\ Height' \in Nat /\ Height <= Height'
  BY BacklogsMove
<1>2. inbox' = inbox => \A j \in DOMAIN inbox'[l] : inbox'[l][j].n <= Height'
  BY <1>0, <1>1
<1>3. ASSUME inbox' = inbox, filterId \in FilterIds
      PROVE  SentBefore(l, backlog[filterId]) /\ \A f \in FilterIds : f = filterId => SentBefore(l, backlog[f])'
  <2>1. SentBefore(l, backlog[filterId])
    BY <1>3 DEF InboxBehind
  <2>2. ASSUME NEW f \in FilterIds, f = filterId PROVE SentBefore(l, backlog[f])'
    BY <1>0, <1>3, <2>1, <2>2, StaysBehind
  <2> QED BY <2>1, <2>2
<1>4. CASE DispatchChanges
  <2>1. reply' = NoReply /\ backlog' = backlog /\ filterId' = filterId /\ Height' = Height
    BY <1>4 DEF DispatchChanges, Enter, serverVars, Height
  <2> QED BY <1>4, <2>1, DispatchBehind DEF SentBefore, NoReply
<1>5. CASE SetFilter
  <2>1. /\ reply' = NoReply /\ backlog' = backlog /\ filterId' = reply.id /\ inbox' = inbox
        /\ proc \in {"init", "renewing"} /\ reply.kind = "ok"
    BY <1>5 DEF SetFilter, Enter, serverVars
  <2>2. SentBefore(l, backlog[reply.id])
    BY <2>1 DEF InboxBehind
  <2> QED BY <1>2, <2>1, <2>2 DEF SentBefore, NoReply
<1>6. CASE Start
  <2>1. reply' = NoReply /\ filterId' = NoFilter /\ inbox' = inbox
    BY <1>6 DEF Start, Enter
  <2> QED BY <1>2, <2>1, NoFilterIsNoId DEF NoReply
<1>7. CASE Moves /\ ~Start /\ ~SetFilter /\ ~DispatchChanges
  <2>1. reply' = NoReply /\ inbox' = inbox /\ UNCHANGED serverVars
    BY <1>7, MovesForget, OnlyDispatchSends
  <2>2. filterId' = filterId
    BY <1>7 DEF Moves, Handle, Shutdown, Kill, CheckFilter, SetFilterFails,
                DecodeRaises, Renew, PollFails, Terminated
  <2>3. filterId' \in FilterIds => SentBefore(l, backlog[filterId])'
    BY <1>3, <2>1, <2>2 DEF SentBefore, serverVars
  <2> QED BY <1>2, <2>1, <2>3 DEF NoReply
<1>8. CASE AttemptAnswered
  <2>1. PICK answer \in Answers : NodeServes(answer) /\ reply' = answer
    BY <1>8 DEF AttemptAnswered
  <2>2. proc' = proc /\ filterId' = filterId /\ inbox' = inbox
    BY <1>8 DEF AttemptAnswered, processVars, history
  <2>3. filterId' \in FilterIds => SentBefore(l, backlog[filterId])'
    BY <1>3, <2>2 DEF SentBefore
  <2>4. ASSUME proc' = "polling", reply'.kind = "ok" PROVE SentBefore(l, reply.batch)'
    <3>1. filterId \in live /\ answer.batch = backlog[filterId]
      BY <2>1, <2>2, <2>4, Serves
    <3>2. SentBefore(l, backlog[filterId])
      BY <1>3, <2>2, <3>1 DEF TypeOK
    <3> QED BY <2>1, <2>2, <3>1, <3>2 DEF SentBefore
  <2>5. ASSUME proc' \in {"init", "renewing"}, reply'.kind = "ok"
        PROVE  SentBefore(l, backlog[reply.id])'
    <3>1. answer.id = granted + 1 /\ answer.id \in FilterIds /\ backlog' = backlog
      BY <2>1, <2>2, <2>5, Serves DEF Granted
    <3>2. answer.id \notin live
      BY <3>1 DEF NodeInOrder, TypeOK
    <3>3. backlog'[reply'.id] = <<>>
      BY <2>1, <3>1, <3>2 DEF NodeInOrder
    <3> QED BY <3>3 DEF SentBefore
  <2> QED BY <1>2, <2>2, <2>3, <2>4, <2>5
<1>9. CASE AnswerLost \/ RequestLost
  <2>1. filterId' = filterId /\ inbox' = inbox
    BY <1>9 DEF AnswerLost, RequestLost, processVars, history
  <2>2. reply'.kind # "ok"
    BY <1>9, ErrorsFail DEF AnswerLost, RequestLost, NoReply
  <2>3. filterId' \in FilterIds => SentBefore(l, backlog[filterId])'
    BY <1>3, <2>1 DEF SentBefore
  <2> QED BY <1>2, <2>1, <2>2, <2>3
<1>10. CASE SpuriousError
  <2>1. filterId' = filterId /\ inbox' = inbox /\ reply'.kind # "ok"
    BY <1>10 DEF SpuriousError, processVars, history
  <2>3. filterId' \in FilterIds => SentBefore(l, backlog[filterId])'
    BY <1>3, <2>1 DEF SentBefore
  <2> QED BY <1>2, <2>1, <2>3
<1>11. CASE (\E k \in Listeners : Listen(k)) \/ (\E t \in Topics : Emit(t))
             \/ (\E i \in FilterIds : Expire(i)) \/ UNCHANGED filterVars
  <2>1. proc' = proc /\ filterId' = filterId /\ reply' = reply /\ inbox' = inbox
    BY <1>11 DEF Listen, Emit, Expire, processVars, rpcVars, history, filterVars
  <2>2. filterId' \in FilterIds => SentBefore(l, backlog[filterId])'
    BY <1>3, <2>1 DEF SentBefore
  <2>3. proc' = "polling" /\ reply'.kind = "ok" => SentBefore(l, reply.batch)'
    BY <2>1 DEF InboxBehind, SentBefore
  <2>4. ASSUME proc' \in {"init", "renewing"}, reply'.kind = "ok"
        PROVE  SentBefore(l, backlog[reply.id])'
    <3>1. reply.id \in FilterIds
      BY <2>1, <2>4 DEF AnswerFits, Granted
    <3>2. SentBefore(l, backlog[reply.id])
      BY <2>1, <2>4 DEF InboxBehind
    <3>3. PICK i \in FilterIds : i = reply.id
      BY <3>1
    <3>4. SentBefore(l, backlog[i])'
      BY <1>0, <2>1, <3>2, <3>3, StaysBehind
    <3> QED BY <2>1, <3>3, <3>4 DEF SentBefore
  <2> QED BY <1>2, <2>1, <2>2, <2>3, <2>4
<1> QED
  BY <1>4, <1>5, <1>6, <1>7, <1>8, <1>9, <1>10, <1>11 DEF FilterNext, Attempt, Moves

\* The chain only grows, and no listener has a log of the future.
LEMMA QuietAhead ==
  ASSUME TypeOK, InboxBehind, EventAhead, [FilterNext]_filterVars, inbox' = inbox
  PROVE  EventAhead'
<1>1. /\ Height \in Nat /\ Height' \in Nat
      /\ \A n \in 1..Height : topicOf'[n] = topicOf[n]
  <2>1. CASE \E t \in Topics : topicOf' = Append(topicOf, t)
    BY <2>1 DEF TypeOK, Height
  <2>2. CASE topicOf' = topicOf
    BY <2>2 DEF TypeOK, Height
  <2> QED
    BY <2>1, <2>2 DEF FilterNext, Handle, Attempt, filterVars, serverVars, Start, Shutdown, Kill,
       Listen, CheckFilter, SetFilter, SetFilterFails, DispatchChanges, DecodeRaises, Renew,
       PollFails, Terminated, AttemptAnswered, AnswerLost, RequestLost, SpuriousError, Emit, Expire
<1>2. ASSUME NEW l \in Listeners, NEW n \in 1..Height', NEW k \in DOMAIN inbox[l],
             topicOf'[n] \in Decoded, inbox[l][k] = [kind |-> "log", n |-> n]
      PROVE  \E j \in DOMAIN inbox[l] : j < k /\ inbox[l][j] = [kind |-> "event", n |-> n]
  <2>1. n <= Height
    BY <1>2 DEF InboxBehind
  <2>2. n \in 1..Height /\ topicOf[n] \in Decoded
    BY <1>1, <1>2, <2>1
  <2> QED BY <1>2, <2>2 DEF EventAhead
<1> QED BY <1>2 DEF EventAhead

\* A dispatch puts a batch's events before its logs, after what came earlier.
LEMMA DispatchAhead ==
  ASSUME TypeOK, AnswerFits, AnswerInOrder, EventAhead, DispatchChanges
  PROVE  EventAhead'
<1>1. topicOf' = topicOf /\ Height' = Height /\ Height \in Nat
  BY DEF DispatchChanges, serverVars, Height, TypeOK
<1>2. ASSUME NEW l \in Listeners, NEW n \in 1..Height, NEW k \in DOMAIN inbox'[l],
             topicOf[n] \in Decoded, inbox'[l][k] = [kind |-> "log", n |-> n]
      PROVE  \E j \in DOMAIN inbox'[l] : j < k /\ inbox'[l][j] = [kind |-> "event", n |-> n]
  <2> DEFINE sent == Messages(reply.batch)
             end == Len(inbox[l])
  <2>1. /\ inbox[l] \in Seq(Message) /\ sent \in Seq(Message)
        /\ end \in Nat /\ DOMAIN inbox[l] = 1..end
        /\ Len(sent) \in Nat /\ DOMAIN sent = 1..Len(sent)
    BY Dispatches, LenProperties DEF TypeOK
  <2>2. n \in Nat /\ \A b \in DOMAIN sent :
          sent[b] = [kind |-> "log", n |-> n] =>
            \E a \in DOMAIN sent : a < b /\ sent[a] = [kind |-> "event", n |-> n]
    <3>1. n \in Nat
      BY <1>1
    <3> QED BY <1>2, <3>1, Dispatches, MessagesOfBatch
  <2>3. inbox'[l] = IF l \in Entries(listeners) THEN inbox[l] \o sent ELSE inbox[l]
    BY Dispatches
  <2> HIDE DEF sent
  <2>4. CASE inbox'[l] = inbox[l]
    BY <1>2, <2>4 DEF EventAhead
  <2>5. CASE inbox'[l] = inbox[l] \o sent
    <3>1. /\ DOMAIN inbox'[l] = 1..(end + Len(sent))
          /\ \A i \in DOMAIN inbox'[l] :
               inbox'[l][i] = IF i <= end THEN inbox[l][i] ELSE sent[i - end]
      BY <2>1, <2>5, Joined
    <3> HIDE DEF end
    <3>2. CASE k <= end
      <4>1. k \in DOMAIN inbox[l] /\ inbox[l][k] = [kind |-> "log", n |-> n]
        BY <1>2, <2>1, <3>1, <3>2
      <4>2. PICK j \in DOMAIN inbox[l] : j < k /\ inbox[l][j] = [kind |-> "event", n |-> n]
        BY <1>2, <4>1 DEF EventAhead
      <4>3. j \in DOMAIN inbox'[l] /\ j <= end
        BY <2>1, <3>1
      <4> QED BY <3>1, <4>2, <4>3
    <3>3. CASE ~(k <= end)
      <4>1. k \in Nat /\ k - end \in DOMAIN sent /\ sent[k - end] = [kind |-> "log", n |-> n]
        BY <1>2, <2>1, <3>1, <3>3
      <4>2. PICK a \in DOMAIN sent : a < k - end /\ sent[a] = [kind |-> "event", n |-> n]
        BY <2>2, <4>1
      <4>3. /\ a + end \in DOMAIN inbox'[l] /\ ~(a + end <= end) /\ (a + end) - end = a
            /\ a + end < k
        BY <2>1, <3>1, <4>1, <4>2
      <4> QED BY <3>1, <4>2, <4>3
    <3> QED BY <3>2, <3>3
  <2> QED BY <2>3, <2>4, <2>5
<1> QED BY <1>1, <1>2 DEF EventAhead

LEMMA InChainOrderNext ==
  ASSUME TypeOK, AnswerFits, AnswerInOrder, InboxBehind, InboxInChainOrder, [FilterNext]_filterVars
  PROVE  InboxInChainOrder'
<1>1. CASE ~DispatchChanges
  <2>1. inbox' = inbox
    BY <1>1, OnlyDispatchSends
  <2>2. EventAhead'
    BY <2>1, QuietAhead DEF InboxInChainOrder
  <2> QED BY <2>1, <2>2 DEF InboxInChainOrder
<1>2. CASE DispatchChanges
  <2> SUFFICES ASSUME NEW l \in Listeners, NEW j \in DOMAIN inbox'[l], NEW k \in DOMAIN inbox'[l],
                      j < k, inbox'[l][j].kind = inbox'[l][k].kind
               PROVE  inbox'[l][j].n < inbox'[l][k].n
    BY <1>2, DispatchAhead DEF InboxInChainOrder
  <2> DEFINE sent == Messages(reply.batch)
             end == Len(inbox[l])
  <2>1. \A i \in DOMAIN inbox'[l] :
          \/ i \in DOMAIN inbox[l] /\ inbox'[l][i] = inbox[l][i]
          \/ /\ i \in Nat /\ i > end /\ i - end \in DOMAIN sent
             /\ inbox'[l][i] = sent[i - end]
    BY <1>2, Dispatches
  <2>2. /\ \A a, b \in DOMAIN sent : a < b /\ sent[a].kind = sent[b].kind => sent[a].n < sent[b].n
        /\ \A a \in DOMAIN sent : \E m \in DOMAIN reply.batch : sent[a].n = reply.batch[m]
    BY <1>2, Dispatches, MessagesOfBatch
  <2>3. SentBefore(l, reply.batch)
    BY <1>2 DEF DispatchChanges, InboxBehind
  <2>4. end \in Nat /\ DOMAIN inbox[l] = 1..end
    BY DEF TypeOK
  <2> HIDE DEF sent, end
  <2>5. CASE k \in DOMAIN inbox[l] /\ inbox'[l][k] = inbox[l][k]
    <3>1. j \in DOMAIN inbox[l] /\ inbox'[l][j] = inbox[l][j]
      BY <2>1, <2>4, <2>5
    <3> QED BY <2>5, <3>1 DEF InboxInChainOrder
  <2>6. CASE k \in Nat /\ k > end /\ k - end \in DOMAIN sent /\ inbox'[l][k] = sent[k - end]
    <3>1. CASE j \in DOMAIN inbox[l] /\ inbox'[l][j] = inbox[l][j]
      <4>1. PICK m \in DOMAIN reply.batch : sent[k - end].n = reply.batch[m]
        BY <2>2, <2>6
      <4>2. inbox[l][j].n < reply.batch[m]
        BY <2>3, <3>1 DEF SentBefore
      <4> QED BY <2>6, <3>1, <4>1, <4>2
    <3>2. CASE j \in Nat /\ j > end /\ j - end \in DOMAIN sent /\ inbox'[l][j] = sent[j - end]
      <4>1. j - end < k - end
        BY <2>4, <2>6, <3>2
      <4> QED BY <2>2, <2>6, <3>2, <4>1
    <3> QED BY <2>1, <3>1, <3>2
  <2> QED BY <2>1, <2>5, <2>6
<1> QED BY <1>1, <1>2

-----------------------------------------------------------------------------
(* No silent loss                                                          *)

\* The GenServer waits for its poll's answer, has one, or is between polls.
Owing == proc = "idle" \/ (proc = "polling" /\ reply.kind \in {"none", "ok"})

OnItsWay(l, n) ==
  \/ Settled(l, n)
  \/ filterId \notin live
  \/ n \in Entries(backlog[filterId])
  \/ proc = "polling" /\ reply.kind = "ok" /\ n \in Entries(reply.batch)

\* What is settled stays settled.
LEMMA SettledStays ==
  ASSUME TypeOK, AnswerFits, AnswerInOrder, [FilterNext]_filterVars,
         NEW l \in Listeners, NEW n \in Nat, n <= Height, Settled(l, n)
  PROVE  Settled(l, n)'
<1>0. Height \in Nat /\ since[l] \in Nat
  BY DEF TypeOK, Height
<1>1. n <= since[l] => n <= since'[l]
  <2>1. CASE \E k \in Listeners : Listen(k)
    <3>1. since'[l] \in {since[l], Height}
      BY <2>1 DEF Listen, TypeOK
    <3> QED BY <3>1
  <2>2. CASE ~ \E k \in Listeners : Listen(k)
    <3>1. since' = since
      BY <2>2 DEF FilterNext, Handle, Attempt, filterVars, history, Start, Shutdown, Kill, CheckFilter,
         SetFilter, SetFilterFails, DispatchChanges, DecodeRaises, Renew, PollFails, Terminated,
         AttemptAnswered, AnswerLost, RequestLost, SpuriousError, Emit, Expire
    <3> QED BY <3>1
  <2> QED BY <2>1, <2>2
<1>2. n <= reported => n <= reported'
  <2>1. reported' \in {reported, Height}
    BY DEF FilterNext, Handle, Attempt, filterVars, history, Start, Shutdown, Kill, Listen, CheckFilter,
       SetFilter, SetFilterFails, DispatchChanges, DecodeRaises, Renew, PollFails, Terminated,
       AttemptAnswered, AnswerLost, RequestLost, SpuriousError, Emit, Expire
  <2> QED BY <2>1
<1>3. n <= retried => n <= retried'
  <2>1. retried' \in {retried, Height}
    BY DEF FilterNext, Handle, Attempt, filterVars, history, Start, Shutdown, Kill, Listen, CheckFilter,
       SetFilter, SetFilterFails, DispatchChanges, DecodeRaises, Renew, PollFails, Terminated,
       AttemptAnswered, AnswerLost, RequestLost, SpuriousError, Emit, Expire
  <2> QED BY <2>1
<1>4. Entries(inbox[l]) \subseteq Entries(inbox'[l])
  BY OnlyDispatchSends, Dispatches
<1> QED BY <1>1, <1>2, <1>3, <1>4 DEF Settled

\* A batch dispatched settles its logs for every registered listener.
LEMMA DispatchSettles ==
  ASSUME TypeOK, AnswerFits, AnswerInOrder, DispatchChanges,
         NEW l \in Entries(listeners), NEW n \in Entries(reply.batch)
  PROVE  Settled(l, n)'
<1>0. l \in Listeners
  BY DEF TypeOK, Entries
<1>1. PICK m \in DOMAIN reply.batch : n = reply.batch[m]
  BY DEF Entries
<1>2. \E j \in DOMAIN Messages(reply.batch) :
        Messages(reply.batch)[j] = [kind |-> "log", n |-> reply.batch[m]]
  BY <1>0, Dispatches, MessagesOfBatch
<1>3. [kind |-> "log", n |-> n] \in Entries(Messages(reply.batch))
  BY <1>1, <1>2 DEF Entries
<1> QED BY <1>0, <1>3, Dispatches DEF Settled

LEMMA LossAccountedNext ==
  ASSUME TypeOK, AnswerFits, NodeInOrder, AnswerInOrder, LossAccounted, [FilterNext]_filterVars
  PROVE  LossAccounted'
<1> USE DEF Owing
<1>1. proc' = "init" => listeners' = <<>>
  <2>1. CASE Start
    BY <2>1 DEF Start
  <2>2. CASE ~Start
    BY <2>2 DEF LossAccounted, FilterNext, Handle, Attempt, filterVars, processVars, Enter, Shutdown, Kill,
       Listen, CheckFilter, SetFilter, SetFilterFails, DispatchChanges, DecodeRaises, Renew,
       PollFails, Terminated, AttemptAnswered, AnswerLost, RequestLost, SpuriousError, Emit, Expire
  <2> QED BY <2>1, <2>2
<1> SUFFICES ASSUME Owing', NEW l \in Entries(listeners'), NEW n \in 1..Height'
             PROVE  OnItsWay(l, n)'
  BY <1>1 DEF LossAccounted, OnItsWay
<1>2. Height \in Nat /\ Height' \in Nat /\ Height <= Height' /\ n \in Nat
  BY BacklogsMove
\* Steps before which the GenServer owed the same logs to the same listeners.
<1>3. ASSUME Owing, listeners' = listeners, n <= Height PROVE OnItsWay(l, n)
  BY <1>2, <1>3 DEF LossAccounted, OnItsWay
<1>4. l \in Listeners \/ listeners' # listeners
  BY DEF TypeOK, Entries
<1>5. ASSUME l \in Listeners, n <= Height, Settled(l, n) PROVE OnItsWay(l, n)'
  BY <1>2, <1>5, SettledStays DEF OnItsWay
<1>6. ASSUME reported' = Height' PROVE OnItsWay(l, n)'
  BY <1>2, <1>6 DEF OnItsWay, Settled
<1>7. CASE Start \/ Shutdown \/ Kill \/ SetFilterFails \/ DecodeRaises \/ Renew \/ Terminated
  BY <1>7 DEF Start, Shutdown, Kill, SetFilterFails, DecodeRaises, Renew, Terminated, Enter
<1>8. CASE PollFails
  BY <1>6, <1>8 DEF PollFails, serverVars, Height
<1>9. CASE SetFilter
  <2>1. CASE proc = "init"
    <3>1. listeners' = <<>>
      BY <1>9, <2>1 DEF SetFilter, LossAccounted
    <3> QED BY <3>1 DEF Entries
  <2>2. CASE proc = "renewing"
    BY <1>6, <1>9, <2>2 DEF SetFilter, serverVars, Height
  <2> QED BY <1>9, <2>1, <2>2 DEF SetFilter
<1>10. CASE CheckFilter
  <2>1. /\ Owing /\ listeners' = listeners /\ Height' = Height
        /\ filterId' = filterId /\ live' = live /\ backlog' = backlog /\ proc = "idle"
    BY <1>10 DEF CheckFilter, serverVars, Height
  <2>2. OnItsWay(l, n)
    BY <1>2, <1>3, <2>1
  <2> QED BY <1>2, <1>4, <1>5, <2>1, <2>2 DEF OnItsWay
<1>11. CASE DispatchChanges
  <2>1. /\ Owing /\ listeners' = listeners /\ Height' = Height
        /\ filterId' = filterId /\ live' = live /\ backlog' = backlog
    BY <1>11 DEF DispatchChanges, serverVars, Height
  <2>2. OnItsWay(l, n)
    BY <1>2, <1>3, <2>1
  <2>3. n \in Entries(reply.batch) => Settled(l, n)'
    BY <1>11, <2>1, DispatchSettles
  <2> QED BY <1>2, <1>4, <1>5, <2>1, <2>2, <2>3 DEF OnItsWay
<1>12. CASE \E k \in Listeners : Listen(k)
  <2>1. PICK k \in Listeners : Listen(k)
    BY <1>12
  <2>2. /\ Owing /\ Height' = Height /\ proc = "idle"
        /\ filterId' = filterId /\ live' = live /\ backlog' = backlog
    BY <2>1 DEF Listen, serverVars, Height
  <2>3. Entries(listeners') \subseteq Entries(listeners) \cup {k}
    <3>1. listeners \in Seq(Listeners) /\ <<k>> \in Seq(Listeners) /\ Len(<<k>>) = 1 /\ <<k>>[1] = k
      BY DEF TypeOK
    <3>2. listeners' = <<k>> \o listeners
      BY <2>1 DEF Listen
    <3>3. /\ DOMAIN listeners' = 1..(1 + Len(listeners))
          /\ \A i \in DOMAIN listeners' : listeners'[i] = IF i <= 1 THEN k ELSE listeners[i - 1]
      <4> HIDE DEF TypeOK
      <4>1. /\ DOMAIN listeners' = 1..(Len(<<k>>) + Len(listeners))
            /\ \A i \in DOMAIN listeners' :
                 listeners'[i] = IF i <= Len(<<k>>) THEN <<k>>[i] ELSE listeners[i - Len(<<k>>)]
        BY <3>1, <3>2, Joined
      <4> QED BY <3>1, <4>1, LenProperties
    <3>4. Entries(listeners') \subseteq Entries(listeners) \cup {k}
      BY <3>1, <3>3, LenProperties DEF Entries
    <3> QED BY <3>4
  <2>4. CASE l = k
    <3>1. since'[l] = Height
      BY <2>1, <2>4 DEF Listen, TypeOK
    <3> QED BY <1>2, <2>2, <3>1 DEF OnItsWay, Settled
  <2>5. CASE l \in Entries(listeners)
    <3>1. OnItsWay(l, n) /\ l \in Listeners
      BY <1>2, <2>2, <2>5 DEF LossAccounted, OnItsWay, TypeOK, Entries
    <3> QED BY <1>2, <1>5, <2>2, <3>1 DEF OnItsWay
  <2> QED BY <2>3, <2>4, <2>5
<1>13. CASE AttemptAnswered
  <2>1. PICK answer \in Answers : NodeServes(answer) /\ reply' = answer
    BY <1>13 DEF AttemptAnswered
  <2>2. /\ proc = "polling" /\ proc' = proc /\ reply.kind = "none" /\ listeners' = listeners
        /\ Height' = Height /\ filterId' = filterId
    BY <1>13 DEF AttemptAnswered, Calling, processVars, NoReply, Height
  <2>3. OnItsWay(l, n)
    BY <1>2, <1>3, <2>2
  <2>4. live' = live
    BY <2>1, <2>2, Serves
  <2>5. CASE filterId \notin live
    BY <2>2, <2>4, <2>5 DEF OnItsWay
  <2>6. CASE filterId \in live
    <3>1. answer.batch = backlog[filterId] /\ (answer.kind = "ok")
      BY <2>1, <2>2, <2>6, Serves DEF Changes
    <3>2. n \in Entries(backlog[filterId]) => OnItsWay(l, n)'
      BY <2>1, <2>2, <3>1 DEF OnItsWay
    <3> QED BY <1>2, <1>4, <1>5, <2>2, <2>3, <2>6, <3>2 DEF OnItsWay
  <2> QED BY <2>5, <2>6
<1>14. CASE AnswerLost
  <2>1. /\ proc = "polling" /\ listeners' = listeners /\ Height' = Height
        /\ reply'.kind \in {"none", "ok"} /\ reply = NoReply
    BY <1>14 DEF AnswerLost, Calling, processVars, Height
  <2>2. left > 0
    BY <1>14, <2>1 DEF AnswerLost, TransportError
  <2>3. retried' = Height'
    BY <1>14, <2>1, <2>2 DEF AnswerLost
  <2> QED BY <1>2, <2>3 DEF OnItsWay, Settled
<1>15. CASE RequestLost
  <2>1. /\ proc = "polling" /\ reply = NoReply /\ Owing /\ listeners' = listeners
        /\ Height' = Height /\ filterId' = filterId /\ live' = live /\ backlog' = backlog
    BY <1>15 DEF RequestLost, Calling, processVars, serverVars, Height, NoReply
  <2>2. OnItsWay(l, n)
    BY <1>2, <1>3, <2>1
  <2> QED BY <1>2, <1>4, <1>5, <2>1, <2>2 DEF OnItsWay, NoReply
<1>16. CASE SpuriousError
  BY <1>16 DEF SpuriousError, processVars
<1>17. CASE \E t \in Topics : Emit(t)
  <2>1. PICK t \in Topics : Emit(t)
    BY <1>17
  <2>2. /\ proc' = proc /\ reply' = reply /\ listeners' = listeners
        /\ filterId' = filterId /\ live' = live /\ Height' = Height + 1
    BY <2>1, Emits DEF Emit, processVars, rpcVars
  <2>3. CASE filterId \notin live
    BY <2>2, <2>3 DEF OnItsWay
  <2>4. CASE filterId \in live
    <3>1. filterId \in FilterIds /\ backlog[filterId] \in Seq(Nat) /\ Height + 1 \in Nat
      BY <1>2, <2>4 DEF TypeOK
    <3>2. Entries(backlog'[filterId]) = Entries(backlog[filterId]) \cup {Height + 1}
      BY <2>1, <2>4, <3>1, Emits, AppendedLast
    <3>3. CASE n = Height + 1
      BY <2>2, <3>2, <3>3 DEF OnItsWay
    <3>4. CASE n <= Height
      <4>1. OnItsWay(l, n)
        BY <1>3, <2>2, <3>4
      <4> QED BY <1>4, <1>5, <2>2, <3>2, <3>4, <4>1 DEF OnItsWay
    <3> QED BY <1>2, <2>2, <3>3, <3>4
  <2> QED BY <2>3, <2>4
<1>18. CASE (\E i \in FilterIds : Expire(i)) \/ UNCHANGED filterVars
  <2>1. /\ proc' = proc /\ reply' = reply /\ listeners' = listeners /\ Height' = Height
        /\ filterId' = filterId
    BY <1>18 DEF Expire, processVars, rpcVars, filterVars, serverVars, Height
  <2>2. filterId \in live' => filterId \in live /\ backlog'[filterId] = backlog[filterId]
    BY <1>18 DEF Expire, filterVars, serverVars, TypeOK
  <2>3. OnItsWay(l, n)
    BY <1>2, <1>3, <2>1
  <2> QED BY <1>2, <1>4, <1>5, <2>1, <2>2, <2>3 DEF OnItsWay
<1> QED
  BY <1>7, <1>8, <1>9, <1>10, <1>11, <1>12, <1>13, <1>14, <1>15, <1>16, <1>17, <1>18
     DEF FilterNext, Handle, Attempt

-----------------------------------------------------------------------------

LEMMA InvInit == FilterInit => Inv
<1> SUFFICES ASSUME FilterInit PROVE Inv
  OBVIOUS
<1>1. TypeOK
  BY TypeInit
<1>2. AnswerFits /\ AnswerInOrder
  BY DEF FilterInit, AnswerFits, AnswerInOrder
<1>3. NodeInOrder
  BY DEF FilterInit, NodeInOrder, Ascending
<1>4. InboxBehind /\ InboxInChainOrder
  BY DEF FilterInit, InboxBehind, InboxInChainOrder, EventAhead, SentBefore, NoReply
<1>5. LossAccounted
  BY DEF FilterInit, LossAccounted
<1> QED BY <1>1, <1>2, <1>3, <1>4, <1>5 DEF Inv

LEMMA InvNext == Inv /\ [FilterNext]_filterVars => Inv'
BY TypeNext, AnswerFitsNext, NodeInOrderNext, AnswerInOrderNext, InboxBehindNext,
   InChainOrderNext, LossAccountedNext DEF Inv

LEMMA SpecInv == FilterSpec => []Inv
BY InvInit, InvNext, PTL DEF FilterSpec

\* Types, over every call, answer, loss and restart.
THEOREM FilterTypeOK == FilterSpec => []TypeOK
<1>1. Inv => TypeOK
  BY DEF Inv
<1> QED BY <1>1, SpecInv, PTL

\* Across polls, renewals and restarts a listener gets the logs in chain
\* order, none twice, the same for the events, and an event ahead of its log.
THEOREM FilterInboxInChainOrder == FilterSpec => []InboxInChainOrder
<1>1. Inv => InboxInChainOrder
  BY DEF Inv
<1> QED BY <1>1, SpecInv, PTL

\* Between polls no log is passed over in silence.
THEOREM FilterNoSilentLoss == FilterSpec => []NoSilentLoss
<1>1. Inv => NoSilentLoss
  BY DEF Inv, LossAccounted, NoSilentLoss, Settled
<1> QED BY <1>1, SpecInv, PTL

=============================================================================
