-------------------------- MODULE StatelessProofs --------------------------
(***************************************************************************)
(* What the calls that keep nothing answer, proved for every call.         *)
(*                                                                         *)
(* The EIP-712 walk decides what it means to decide, for every set of      *)
(* types, every schema and every budget: a schema takes the recursive way  *)
(* exactly if its primary type reaches a cycle, and what is encoded then   *)
(* is every struct that is reached.                                        *)
(*                                                                         *)
(* A transaction decodes to what was encoded and encodes to what was       *)
(* decoded, a sponsored one keeps its sender, and a batch answers what its *)
(* requests would have been answered one by one.                           *)
(*                                                                         *)
(* A function is given the doc comment that stands before it.              *)
(*                                                                         *)
(* No data makes a decoder build more values than the budget has nodes.    *)
(***************************************************************************)
EXTENDS TypedData, WireCalls, DocComments, BoundedDecoding, TLAPS, SequenceTheorems,
  FiniteSetTheorems, WellFoundedInduction

SchemaTypes == [Structs -> Seq(Names)]

\* No cycle is reached from n.
Acyclic(t, n) == \A m \in ReachedFrom(t, {n}) : ~OnCycle(t, m)

-----------------------------------------------------------------------------
(* Reachability                                                            *)

LEMMA FieldsAreNames ==
  ASSUME NEW t \in SchemaTypes, NEW n \in Names
  PROVE  FieldsOf(t, n) \subseteq Names
BY DEF FieldsOf, SchemaTypes

\* What is reached holds its roots and is closed.
LEMMA ReachedIsClosed ==
  ASSUME NEW t \in SchemaTypes, NEW S \in SUBSET Names
  PROVE  /\ ReachedFrom(t, S) \subseteq Names
         /\ S \subseteq ReachedFrom(t, S)
         /\ Closed(t, ReachedFrom(t, S))
<1>1. ReachedFrom(t, S) \subseteq Names /\ S \subseteq ReachedFrom(t, S)
  BY DEF ReachedFrom
<1>2. ASSUME NEW n \in ReachedFrom(t, S), NEW f \in FieldsOf(t, n)
      PROVE  f \in ReachedFrom(t, S)
  <2>1. f \in Names
    BY <1>1, FieldsAreNames
  <2>2. ASSUME NEW C \in SUBSET Names, S \subseteq C, Closed(t, C) PROVE f \in C
    BY <2>2 DEF ReachedFrom, Closed
  <2> QED BY <2>1, <2>2 DEF ReachedFrom
<1> QED BY <1>1, <1>2 DEF Closed

\* It is in every closed set that holds the roots.
LEMMA ReachedIsLeast ==
  ASSUME NEW t \in SchemaTypes, NEW S \in SUBSET Names,
         NEW C \in SUBSET Names, S \subseteq C, Closed(t, C)
  PROVE  ReachedFrom(t, S) \subseteq C
BY DEF ReachedFrom

\* What is reached from names that are reached is reached.
LEMMA ReachedOfReached ==
  ASSUME NEW t \in SchemaTypes, NEW S \in SUBSET Names, NEW T \in SUBSET Names,
         S \subseteq ReachedFrom(t, T)
  PROVE  ReachedFrom(t, S) \subseteq ReachedFrom(t, T)
BY ReachedIsClosed, ReachedIsLeast

LEMMA FieldsReached ==
  ASSUME NEW t \in SchemaTypes, NEW S \in SUBSET Names,
         NEW n \in ReachedFrom(t, S)
  PROVE  FieldsOf(t, n) \subseteq ReachedFrom(t, S)
BY ReachedIsClosed DEF Closed

\* Beyond n itself, n reaches what its fields reach.
LEMMA ReachedThroughFields ==
  ASSUME NEW t \in SchemaTypes, NEW n \in Names,
         NEW m \in ReachedFrom(t, {n}), m # n
  PROVE  \E f \in FieldsOf(t, n) : m \in ReachedFrom(t, {f})
<1> DEFINE C == {n} \cup UNION {ReachedFrom(t, {f}) : f \in FieldsOf(t, n)}
<1>1. \A f \in FieldsOf(t, n) : {f} \in SUBSET Names
  BY FieldsAreNames
<1>2. C \in SUBSET Names
  <2>1. \A f \in FieldsOf(t, n) : ReachedFrom(t, {f}) \subseteq Names
    BY <1>1, ReachedIsClosed
  <2> QED BY <2>1
<1>3. ASSUME NEW x \in C, NEW y \in FieldsOf(t, x) PROVE y \in C
  <2>1. CASE x = n
    BY <1>1, <1>3, <2>1, ReachedIsClosed
  <2>2. CASE x # n
    <3>1. PICK f \in FieldsOf(t, n) : x \in ReachedFrom(t, {f})
      BY <2>2
    <3>2. y \in ReachedFrom(t, {f})
      BY <1>1, <1>3, <3>1, FieldsReached
    <3> QED BY <3>1, <3>2
  <2> QED BY <2>1, <2>2
<1>4. Closed(t, C)
  BY <1>3 DEF Closed
<1>5. {n} \in SUBSET Names /\ {n} \subseteq C
  OBVIOUS
<1>6. ReachedFrom(t, {n}) \subseteq C
  <2> HIDE DEF C
  <2> QED BY <1>2, <1>4, <1>5, ReachedIsLeast
<1> QED BY <1>6

LEMMA ReachedFromField ==
  ASSUME NEW t \in SchemaTypes, NEW n \in Names, NEW f \in FieldsOf(t, n)
  PROVE  ReachedFrom(t, {f}) \subseteq ReachedFrom(t, FieldsOf(t, n))
<1>1. FieldsOf(t, n) \in SUBSET Names /\ {f} \in SUBSET Names
  BY FieldsAreNames
<1> QED BY <1>1, ReachedIsClosed, ReachedOfReached

\* A name without fields is on no cycle and reaches none.
LEMMA AtomsAreAcyclic ==
  ASSUME NEW t \in SchemaTypes, NEW n \in Names \ Structs
  PROVE  Acyclic(t, n)
<1>1. FieldsOf(t, n) = {}
  BY DEF FieldsOf
<1>2. ASSUME NEW m \in ReachedFrom(t, {n}) PROVE ~OnCycle(t, m)
  <2>1. m = n
    BY <1>1, ReachedThroughFields
  <2>2. Closed(t, {}) /\ {} \in SUBSET Names
    BY DEF Closed
  <2>3. ReachedFrom(t, {}) = {}
    BY <2>2, ReachedIsLeast
  <2> QED BY <1>1, <2>1, <2>3 DEF OnCycle
<1> QED BY <1>2 DEF Acyclic

\* A struct is on a cycle only if one of its fields reaches a cycle.
LEMMA AcyclicFields ==
  ASSUME NEW t \in SchemaTypes, NEW n \in Structs,
         \A f \in FieldsOf(t, n) : Acyclic(t, f)
  PROVE  Acyclic(t, n)
<1>1. n \in Names
  BY DEF Names
<1>2. FieldsOf(t, n) \in SUBSET Names
  BY <1>1, FieldsAreNames
<1>3. ASSUME NEW m \in ReachedFrom(t, {n}), OnCycle(t, m) PROVE FALSE
  <2>1. CASE m # n
    BY <1>1, <1>3, <2>1, ReachedThroughFields DEF Acyclic
  <2>2. CASE m = n
    <3>1. n \in ReachedFrom(t, FieldsOf(t, n))
      BY <1>3, <2>2 DEF OnCycle
    <3>2. \E f \in FieldsOf(t, n) : n \in ReachedFrom(t, {f})
      <4> DEFINE C == UNION {ReachedFrom(t, {f}) : f \in FieldsOf(t, n)}
      <4>1. \A f \in FieldsOf(t, n) : {f} \in SUBSET Names
        BY <1>2
      <4>2. C \in SUBSET Names /\ FieldsOf(t, n) \subseteq C
        <5>1. \A f \in FieldsOf(t, n) :
                ReachedFrom(t, {f}) \subseteq Names /\ f \in ReachedFrom(t, {f})
          BY <4>1, ReachedIsClosed
        <5> QED BY <5>1
      <4>3. Closed(t, C)
        BY <4>1, FieldsReached DEF Closed
      <4>4. ReachedFrom(t, FieldsOf(t, n)) \subseteq C
        <5> HIDE DEF C
        <5> QED BY <1>2, <4>2, <4>3, ReachedIsLeast
      <4> QED BY <3>1, <4>4
    <3> QED BY <1>3, <2>2, <3>2 DEF Acyclic
  <2> QED BY <2>1, <2>2
<1> QED BY <1>3 DEF Acyclic

-----------------------------------------------------------------------------
(* check_type                                                              *)

Frames == [struct : Structs, next : Nat \ {0}]

PathTyped ==
  /\ types \in SchemaTypes /\ primary \in Names
  /\ recursive \in BOOLEAN
  /\ path \in Seq(Frames)
  /\ stage = "primary" => path = <<>> /\ recursive = FALSE
  /\ path # <<>> => stage \in {"check", "limit"}

\* The path descends from the primary type, each struct into the field it
\* looked at last.
PathDescends ==
  /\ path # <<>> => path[1].struct = primary
  /\ \A i \in 1..Len(path) : path[i].next <= Len(types[path[i].struct]) + 1
  /\ \A i \in 1..(Len(path) - 1) :
       /\ path[i].next > 1
       /\ path[i + 1].struct = types[path[i].struct][path[i].next - 1]

\* What is on the path is reached, and a back-edge is a cycle.
BackEdgesAreCycles ==
  /\ \A i \in 1..Len(path) : path[i].struct \in ReachedFrom(types, {primary})
  /\ \A i, j \in 1..Len(path) :
       i < j => path[j].struct
                  \in ReachedFrom(types, FieldsOf(types, path[i].struct))
  /\ recursive => \E n \in ReachedFrom(types, {primary}) : OnCycle(types, n)

\* Without a back-edge so far, no field that is done with reaches a cycle.
DoneWithIsAcyclic ==
  recursive = FALSE =>
    /\ \A i \in 1..Len(path) : \A j \in 1..(path[i].next - 1) :
         i = Len(path) \/ j < path[i].next - 1
           => Acyclic(types, types[path[i].struct][j])
    /\ path = <<>> /\ stage \notin {"primary", "limit"} => Acyclic(types, primary)

Walk == PathTyped /\ PathDescends /\ BackEdgesAreCycles /\ DoneWithIsAcyclic

LEMMA InitWalk == TypedInit => Walk
<1> SUFFICES ASSUME TypedInit PROVE Walk
  OBVIOUS
<1>1. path = <<>> /\ Len(path) = 0 /\ stage = "primary" /\ recursive = FALSE
  BY DEF TypedInit
<1>2. types \in SchemaTypes /\ primary \in Names
  BY SchemasAreSchemas DEF TypedInit, SchemaTypes
<1>3. PathTyped
  <2>1. <<>> \in Seq(Frames)
    OBVIOUS
  <2> QED BY <1>1, <1>2, <2>1 DEF PathTyped
<1>4. PathDescends
  BY <1>1 DEF PathDescends
<1>5. BackEdgesAreCycles
  BY <1>1 DEF BackEdgesAreCycles
<1>6. DoneWithIsAcyclic
  BY <1>1 DEF DoneWithIsAcyclic
<1> QED BY <1>3, <1>4, <1>5, <1>6 DEF Walk

LEMMA FrameAt ==
  ASSUME NEW p \in Seq(Frames), NEW i \in 1..Len(p)
  PROVE  p[i] \in Frames /\ p[i].struct \in Structs /\ p[i].next \in Nat \ {0}
<1>1. p[i] \in Frames
  OBVIOUS
<1> QED BY <1>1 DEF Frames

LEMMA PathPopped ==
  ASSUME NEW p \in Seq(Frames), p # <<>>, NEW q, q = SubSeq(p, 1, Len(p) - 1)
  PROVE  /\ q \in Seq(Frames) /\ Len(q) = Len(p) - 1
         /\ \A i \in 1..(Len(p) - 1) : q[i] = p[i]
         /\ q = <<>> <=> Len(p) = 1
<1>1. Len(p) \in Nat \ {0}
  BY EmptySeq
<1>2. \A i \in 1..(Len(p) - 1) : p[i] \in Frames
  BY <1>1, ElementOfSeq
<1>3. /\ q \in Seq(Frames)
      /\ Len(q) = IF 1 <= Len(p) - 1 THEN Len(p) - 1 ELSE 0
      /\ \A i \in 1..(Len(p) - 1 - 1 + 1) : q[i] = p[1 + i - 1]
  BY <1>1, <1>2, SubSeqProperties
<1>4. Len(q) = Len(p) - 1
  <2>1. \A n \in Nat \ {0} : (IF 1 <= n - 1 THEN n - 1 ELSE 0) = n - 1
    OBVIOUS
  <2> QED BY <1>1, <1>3, <2>1
<1>5. \A i \in 1..(Len(p) - 1) : q[i] = p[i]
  BY <1>1, <1>3
<1>6. q = <<>> <=> Len(q) = 0
  BY <1>3, EmptySeq
<1> QED BY <1>1, <1>3, <1>4, <1>5, <1>6

\* What pushing a frame, moving the top one on and popping it leave of a path.
LEMMA Moved ==
  ASSUME path \in Seq(Frames), path # <<>>
  PROVE  /\ Len(path) \in Nat \ {0}
         /\ Advanced \in Seq(Frames) /\ Len(Advanced) = Len(path)
         /\ \A i \in 1..(Len(path) - 1) : Advanced[i] = path[i]
         /\ Advanced[Len(path)] = [struct |-> Top.struct, next |-> Top.next + 1]
<1>1. Len(path) \in Nat \ {0} /\ path[Len(path)] \in Frames
  OBVIOUS
<1>2. Advanced = [path EXCEPT ![Len(path)] =
                    [path[Len(path)] EXCEPT !.next = path[Len(path)].next + 1]]
  BY DEF Advanced
<1>3. [path[Len(path)] EXCEPT !.next = path[Len(path)].next + 1]
        = [struct |-> Top.struct, next |-> Top.next + 1]
  BY <1>1 DEF Top, Frames
<1>4. [struct |-> Top.struct, next |-> Top.next + 1] \in Frames
  BY <1>1 DEF Top, Frames
<1> DEFINE v == [struct |-> Top.struct, next |-> Top.next + 1]
<1>5. Advanced = [path EXCEPT ![Len(path)] = v] /\ v \in Frames
  BY <1>2, <1>3, <1>4
<1> HIDE DEF v
<1>6. Advanced \in Seq(Frames) /\ Len(Advanced) = Len(path)
  BY <1>1, <1>5
<1>7. Advanced[Len(path)] = v /\ \A i \in 1..(Len(path) - 1) : Advanced[i] = path[i]
  BY <1>1, <1>5
<1>8. Top = path[Len(path)]
  BY DEF Top
<1> QED BY <1>1, <1>6, <1>7 DEF v, Top

LEMMA Pushed ==
  ASSUME path \in Seq(Frames), path # <<>>, NEW name \in Structs,
         NEW p, p = Append(Advanced, [struct |-> name, next |-> 1])
  PROVE  /\ p \in Seq(Frames) /\ Len(p) = Len(path) + 1
         /\ \A i \in 1..(Len(path) - 1) : p[i] = path[i]
         /\ p[Len(path)] = [struct |-> Top.struct, next |-> Top.next + 1]
         /\ p[Len(path) + 1] = [struct |-> name, next |-> 1]
<1>1. [struct |-> name, next |-> 1] \in Frames
  BY DEF Frames
<1> QED BY <1>1, Moved

\* The name CheckField looks at is a field of the struct on top.
LEMMA FieldOnTop ==
  ASSUME Walk, path # <<>>, Top.next <= Len(types[Top.struct])
  PROVE  /\ Len(path) \in Nat \ {0} /\ Top \in Frames /\ Top = path[Len(path)]
         /\ types[Top.struct] \in Seq(Names)
         /\ types[Top.struct][Top.next] \in Names
         /\ types[Top.struct][Top.next] \in FieldsOf(types, Top.struct)
<1>1. Len(path) \in Nat \ {0} /\ Top \in Frames /\ Top = path[Len(path)]
  BY DEF Walk, PathTyped, Top
<1>2. Top.struct \in Structs /\ Top.next \in Nat \ {0}
  BY <1>1 DEF Frames
<1>3. types[Top.struct] \in Seq(Names)
  BY <1>2 DEF Walk, PathTyped, SchemaTypes
<1>4. Top.next \in 1..Len(types[Top.struct])
  BY <1>2, <1>3
<1> QED BY <1>1, <1>2, <1>3, <1>4 DEF FieldsOf

LEMMA PrimaryWalks == Walk /\ CheckPrimary => Walk'
<1> SUFFICES ASSUME Walk, CheckPrimary PROVE Walk'
  OBVIOUS
<1>1. /\ stage = "primary" /\ path = <<>> /\ recursive = FALSE
      /\ types' = types /\ primary' = primary
      /\ types \in SchemaTypes /\ primary \in Names
  BY DEF Walk, PathTyped, CheckPrimary
<1>2. OnPath = {} /\ Advanced = <<>>
  BY <1>1 DEF OnPath, Advanced
<1>3. CASE stage' = "limit" /\ UNCHANGED checkVars
  <2>1. path' = path /\ recursive' = recursive
    BY <1>3 DEF checkVars
  <2> QED BY <1>1, <1>3, <2>1
          DEF Walk, PathTyped, PathDescends, BackEdgesAreCycles, DoneWithIsAcyclic
<1>4. CASE ~(Len(path) > MaxPath \/ nodes = 0) /\ primary \in Structs
  <2> DEFINE frame == [struct |-> primary, next |-> 1]
  <2>1. path' = <<frame>> /\ recursive' = FALSE /\ stage' = "check"
    <3>1. /\ recursive' = (recursive \/ primary \in OnPath)
          /\ path' = Append(Advanced, frame) /\ stage' = "check"
      BY <1>2, <1>4 DEF CheckPrimary, CheckType
    <3>2. Append(<<>>, frame) = <<frame>>
      OBVIOUS
    <3> QED BY <1>1, <1>2, <3>1, <3>2
  <2>2. frame \in Frames
    BY <1>4 DEF Frames
  <2>3. PathTyped'
    <3> HIDE DEF frame
    <3>1. <<frame>> \in Seq(Frames) /\ <<frame>> # <<>>
      BY <2>2
    <3> QED BY <1>1, <2>1, <3>1 DEF PathTyped
  <2>4. types[primary] \in Seq(Names)
    BY <1>1, <1>4 DEF SchemaTypes
  <2>5. Len(path') = 1 /\ path'[1].struct = primary /\ path'[1].next = 1
    BY <2>1
  <2>6. PathDescends'
    <3>1. \A i \in 1..Len(path') : i = 1
      BY <2>5
    <3>2. 1..(Len(path') - 1) = {}
      BY <2>5
    <3>3. Len(types[primary]) + 1 >= 1
      BY <2>4
    <3> QED BY <1>1, <2>5, <3>1, <3>2, <3>3 DEF PathDescends
  <2>7. BackEdgesAreCycles'
    BY <1>1, <2>1, <2>5, ReachedIsClosed DEF BackEdgesAreCycles
  <2>8. DoneWithIsAcyclic'
    <3>1. \A i \in 1..Len(path') : path'[i].next = 1
      BY <2>5
    <3>2. \A i \in 1..Len(path') : 1..(path'[i].next - 1) = {}
      BY <3>1
    <3> QED BY <2>1, <3>2 DEF DoneWithIsAcyclic
  <2> QED BY <2>3, <2>6, <2>7, <2>8 DEF Walk
<1>5. CASE ~(Len(path) > MaxPath \/ nodes = 0) /\ primary \notin Structs
  <2>1. path' = <<>> /\ recursive' = FALSE /\ stage' = "check"
    BY <1>1, <1>2, <1>5 DEF CheckPrimary, CheckType
  <2>2. Acyclic(types, primary)
    BY <1>1, <1>5, AtomsAreAcyclic
  <2> QED BY <1>1, <2>1, <2>2
          DEF Walk, PathTyped, PathDescends, BackEdgesAreCycles, DoneWithIsAcyclic
<1> QED BY <1>3, <1>4, <1>5 DEF CheckPrimary, CheckType

\* A struct on top that is done with reaches no cycle if no back-edge was seen.
LEMMA LeaveWalks == Walk /\ LeaveStruct => Walk'
<1> SUFFICES ASSUME Walk, LeaveStruct PROVE Walk'
  OBVIOUS
<1> DEFINE L == Len(path)
           s == path[L].struct
<1>1. /\ path \in Seq(Frames) /\ path # <<>> /\ L \in Nat \ {0}
      /\ types \in SchemaTypes /\ primary \in Names /\ stage = "check"
      /\ types' = types /\ primary' = primary /\ stage' = stage
      /\ recursive' = recursive /\ recursive \in BOOLEAN
  BY DEF Walk, PathTyped, LeaveStruct
<1>2. path[L] \in Frames /\ s \in Structs /\ path[L].next \in Nat \ {0}
  BY <1>1, FrameAt
<1>3. types[s] \in Seq(Names)
  BY <1>1, <1>2 DEF SchemaTypes
<1>4. path[L].next = Len(types[s]) + 1
  BY <1>1, <1>2, <1>3 DEF LeaveStruct, Top, Walk, PathDescends
<1>5. /\ path' \in Seq(Frames) /\ Len(path') = L - 1
      /\ \A i \in 1..(L - 1) : path'[i] = path[i]
      /\ path' = <<>> <=> L = 1
  <2>1. path' = SubSeq(path, 1, L - 1)
    BY DEF LeaveStruct
  <2> QED BY <1>1, <2>1, PathPopped
<1>6. recursive = FALSE => Acyclic(types, s)
  <2> SUFFICES ASSUME recursive = FALSE PROVE Acyclic(types, s)
    OBVIOUS
  <2>1. \A j \in 1..Len(types[s]) : Acyclic(types, types[s][j])
    BY <1>1, <1>3, <1>4 DEF Walk, DoneWithIsAcyclic
  <2>2. \A f \in FieldsOf(types, s) : Acyclic(types, f)
    BY <1>2, <1>3, <2>1 DEF FieldsOf
  <2> QED BY <1>1, <1>2, <2>2, AcyclicFields
<1>7. PathTyped'
  BY <1>1, <1>5 DEF Walk, PathTyped
<1>8. PathDescends'
  BY <1>1, <1>5 DEF Walk, PathDescends
<1>9. BackEdgesAreCycles'
  <2>1. \A i \in 1..(L - 1) : i \in 1..L
    BY <1>1
  <2>2. \A i \in 1..Len(path') : i \in 1..L /\ path'[i] = path[i]
    BY <1>5, <2>1
  <2> QED BY <1>1, <2>2 DEF Walk, BackEdgesAreCycles
<1>10. DoneWithIsAcyclic'
  <2> SUFFICES ASSUME recursive = FALSE PROVE DoneWithIsAcyclic'
    BY <1>1 DEF DoneWithIsAcyclic
  <2>1. CASE L = 1
    <3>1. path' = <<>> /\ Len(path') = 0 /\ s = primary
      BY <1>1, <1>5, <2>1 DEF Walk, PathDescends
    <3> QED BY <1>1, <1>6, <3>1 DEF DoneWithIsAcyclic
  <2>2. CASE L > 1
    <3>1. path' # <<>>
      BY <1>1, <1>5, <2>2
    <3>2. ASSUME NEW i \in 1..(L - 1), NEW j \in 1..(path[i].next - 1),
                 i = L - 1 \/ j < path[i].next - 1
          PROVE  Acyclic(types, types[path[i].struct][j])
      <4>0. path[i] \in Frames /\ path[i].next \in Nat \ {0}
        BY <1>1, FrameAt
      <4>1. CASE j < path[i].next - 1
        BY <1>1, <4>0, <4>1, <3>2 DEF Walk, DoneWithIsAcyclic
      <4>2. CASE ~(j < path[i].next - 1)
        <5>1. s = types[path[i].struct][j]
          BY <1>1, <3>2, <4>0, <4>2 DEF Walk, PathDescends
        <5> QED BY <1>6, <5>1
      <4> QED BY <4>1, <4>2
    <3>3. \A i \in 1..Len(path') : i \in 1..(L - 1) /\ path'[i] = path[i]
      BY <1>5
    <3>4. Len(path') = L - 1
      BY <1>5
    <3> HIDE DEF L
    <3> QED BY <1>1, <3>1, <3>2, <3>3, <3>4 DEF DoneWithIsAcyclic
  <2>3. L = 1 \/ L > 1
    <3>1. L \in Nat \ {0}
      BY <1>1
    <3> HIDE DEF L
    <3> QED BY <3>1
  <2> QED BY <2>1, <2>2, <2>3
<1> QED BY <1>7, <1>8, <1>9, <1>10 DEF Walk

\* A name that is gone into becomes the top of the path.
LEMMA EnteredWalks ==
  ASSUME Walk, path # <<>>, Top.next <= Len(types[Top.struct]),
         NEW name, name = types[Top.struct][Top.next], name \in Structs \ OnPath,
         path' = Append(Advanced, [struct |-> name, next |-> 1]),
         recursive' = recursive, stage' = "check",
         types' = types, primary' = primary
  PROVE  Walk'
<1> DEFINE L == Len(path)
<1>1. /\ L \in Nat \ {0} /\ Top \in Frames /\ Top = path[L]
      /\ types[Top.struct] \in Seq(Names) /\ name \in Names
      /\ name \in FieldsOf(types, Top.struct)
  BY FieldOnTop
<1>2. /\ path \in Seq(Frames) /\ types \in SchemaTypes /\ primary \in Names
      /\ recursive \in BOOLEAN
  BY DEF Walk, PathTyped
<1>3. Top.struct \in Structs /\ Top.next \in Nat \ {0} /\ Top.struct \in Names
  BY <1>1 DEF Frames, Names
<1>4. /\ path' \in Seq(Frames) /\ Len(path') = L + 1
      /\ \A i \in 1..(L - 1) : path'[i] = path[i]
      /\ path'[L] = [struct |-> Top.struct, next |-> Top.next + 1]
      /\ path'[L + 1] = [struct |-> name, next |-> 1]
  <2>1. path \in Seq(Frames) /\ path # <<>> /\ name \in Structs
    BY <1>2
  <2>2. path' = Append(Advanced, [struct |-> name, next |-> 1])
    OBVIOUS
  <2>3. /\ path' \in Seq(Frames) /\ Len(path') = Len(path) + 1
        /\ \A i \in 1..(Len(path) - 1) : path'[i] = path[i]
        /\ path'[Len(path)] = [struct |-> Top.struct, next |-> Top.next + 1]
        /\ path'[Len(path) + 1] = [struct |-> name, next |-> 1]
    BY ONLY <2>1, <2>2, Pushed
  <2> QED BY ONLY <2>3
<1>5. types[name] \in Seq(Names)
  BY <1>2 DEF SchemaTypes
<1>6. ASSUME NEW i \in 1..L PROVE path'[i].struct = path[i].struct
  <2>1. CASE i = L
    BY <1>1, <1>4, <2>1
  <2>2. CASE i # L
    <3> HIDE DEF L
    <3>1. i \in 1..(L - 1)
      BY <1>1, <2>2
    <3> QED BY <1>4, <3>1
  <2> QED BY <2>1, <2>2
<1>7. path' # <<>> /\ L \in 1..L /\ L + 1 \notin 1..L
  BY <1>1, <1>4, EmptySeq
<1> HIDE DEF L
<1>0. L \in Nat \ {0}
  BY <1>1
<1>8. /\ \A i \in 1..(L + 1) : i \in 1..(L - 1) \/ i = L \/ i = L + 1
      /\ \A i \in 1..(L + 1) : i \in 1..L \/ i = L + 1
      /\ \A i \in 1..L : i \in 1..(L - 1) \/ i = L
      /\ \A i \in 1..(L - 1) : i \in 1..L /\ i + 1 \in 1..L
  BY <1>0
<1>9. PathTyped'
  BY <1>2, <1>4, <1>7 DEF PathTyped
<1>10. PathDescends'
  <2>1. path'[1].struct = primary
    BY <1>1, <1>2, <1>6 DEF Walk, PathDescends
  <2>2. ASSUME NEW i \in 1..(L + 1)
        PROVE  path'[i].next <= Len(types[path'[i].struct]) + 1
    <3>1. CASE i \in 1..(L - 1)
      BY <1>1, <1>4, <3>1 DEF Walk, PathDescends, L
    <3>2. CASE i = L
      BY <1>1, <1>3, <1>4, <3>2
    <3>3. CASE i = L + 1
      BY <1>4, <1>5, <3>3
    <3> QED BY <1>8, <3>1, <3>2, <3>3
  <2>3. ASSUME NEW i \in 1..L
        PROVE  /\ path'[i].next > 1
               /\ path'[i + 1].struct = types[path'[i].struct][path'[i].next - 1]
    <3>1. CASE i \in 1..(L - 1)
      <4>1. path'[i + 1].struct = path[i + 1].struct
        BY <1>6, <1>8, <3>1
      <4> QED BY <1>4, <3>1, <4>1 DEF Walk, PathDescends, L
    <3>2. CASE i = L
      BY <1>3, <1>4, <3>2
    <3> QED BY <1>8, <3>1, <3>2
  <2>4. Len(path') - 1 = L
    BY <1>1, <1>4
  <2> QED BY <1>4, <2>1, <2>2, <2>3, <2>4 DEF PathDescends
<1>11. BackEdgesAreCycles'
  <2>1. \A i \in 1..L : path[i].struct \in Names
    BY <1>2, FrameAt DEF L, Names
  <2>2. \A i \in 1..L : FieldsOf(types, path[i].struct) \in SUBSET Names
    BY <1>2, <2>1, FieldsAreNames
  <2>3. {primary} \in SUBSET Names
    BY <1>2
  <2>4. name \in ReachedFrom(types, {primary})
    BY <1>1, <1>2, <1>7, <2>3, FieldsReached DEF Walk, BackEdgesAreCycles, L
  <2>5. ASSUME NEW i \in 1..L
        PROVE  name \in ReachedFrom(types, FieldsOf(types, path[i].struct))
    <3>1. CASE i = L
      BY <1>1, <1>2, <2>2, <3>1, ReachedIsClosed
    <3>2. CASE i < L
      <4>1. Top.struct \in ReachedFrom(types, FieldsOf(types, path[i].struct))
        BY <1>1, <1>7, <3>2 DEF Walk, BackEdgesAreCycles, L
      <4> QED BY <1>1, <1>2, <2>2, <4>1, FieldsReached
    <3> QED BY <1>1, <3>1, <3>2
  <2>6. \A i \in 1..(L + 1) :
          path'[i].struct \in ReachedFrom(types, {primary})
    <3>1. \A i \in 1..L : path[i].struct \in ReachedFrom(types, {primary})
      BY DEF Walk, BackEdgesAreCycles, L
    <3>2. \A i \in 1..L : path'[i].struct \in ReachedFrom(types, {primary})
      BY <1>6, <3>1
    <3>3. path'[L + 1].struct = name
      BY <1>4
    <3> QED BY <1>8, <2>4, <3>2, <3>3
  <2>7. ASSUME NEW i \in 1..(L + 1), NEW j \in 1..(L + 1), i < j
        PROVE  path'[j].struct
                 \in ReachedFrom(types, FieldsOf(types, path'[i].struct))
    <3>0. i \in 1..L
      BY <1>1, <2>7
    <3>1. CASE j \in 1..L
      BY <1>6, <2>7, <3>0, <3>1 DEF Walk, BackEdgesAreCycles, L
    <3>2. CASE j = L + 1
      BY <1>4, <1>6, <2>5, <3>0, <3>2
    <3> QED BY <1>8, <3>1, <3>2
  <2>8. recursive => \E n \in ReachedFrom(types, {primary}) : OnCycle(types, n)
    BY DEF Walk, BackEdgesAreCycles
  <2> QED BY <1>4, <2>6, <2>7, <2>8 DEF BackEdgesAreCycles
<1>12. DoneWithIsAcyclic'
  <2> SUFFICES ASSUME recursive = FALSE PROVE DoneWithIsAcyclic'
    BY DEF DoneWithIsAcyclic
  <2>1. ASSUME NEW i \in 1..(L + 1), NEW j \in 1..(path'[i].next - 1),
               i = L + 1 \/ j < path'[i].next - 1
        PROVE  Acyclic(types, types[path'[i].struct][j])
    <3>1. CASE i \in 1..(L - 1)
      <4>1. j \in 1..(path[i].next - 1) /\ j < path[i].next - 1
        BY <1>1, <1>4, <2>1, <3>1
      <4>2. i \in 1..L
        BY <1>1, <3>1
      <4> QED BY <1>6, <4>1, <4>2 DEF Walk, DoneWithIsAcyclic, L
    <3>2. CASE i = L
      <4>1. j \in 1..(Top.next - 1)
        BY <1>1, <1>3, <1>4, <2>1, <3>2
      <4> QED BY <1>1, <1>6, <1>7, <3>2, <4>1 DEF Walk, DoneWithIsAcyclic, L
    <3>3. CASE i = L + 1
      <4>1. 1..(path'[i].next - 1) = {}
        BY <1>4, <3>3
      <4> QED BY <4>1
    <3> QED BY <1>8, <3>1, <3>2, <3>3
  <2> QED BY <1>4, <1>7, <2>1 DEF DoneWithIsAcyclic
<1> QED BY <1>9, <1>10, <1>11, <1>12 DEF Walk

\* A name that is passed over, without fields or a back-edge, leaves the
\* struct on top one field further.
LEMMA PassedWalks ==
  ASSUME Walk, path # <<>>, Top.next <= Len(types[Top.struct]),
         NEW name, name = types[Top.struct][Top.next],
         name \notin Structs \ OnPath, path' = Advanced,
         recursive' = (recursive \/ name \in OnPath), stage' = "check",
         types' = types, primary' = primary
  PROVE  Walk'
<1> DEFINE L == Len(path)
<1>1. /\ L \in Nat \ {0} /\ Top \in Frames /\ Top = path[L]
      /\ types[Top.struct] \in Seq(Names) /\ name \in Names
      /\ name \in FieldsOf(types, Top.struct)
  BY FieldOnTop
<1>2. /\ path \in Seq(Frames) /\ types \in SchemaTypes /\ primary \in Names
      /\ recursive \in BOOLEAN
  BY DEF Walk, PathTyped
<1>3. Top.struct \in Structs /\ Top.next \in Nat \ {0} /\ Top.struct \in Names
  BY <1>1 DEF Frames, Names
<1>4. /\ path' \in Seq(Frames) /\ Len(path') = L
      /\ \A i \in 1..(L - 1) : path'[i] = path[i]
      /\ path'[L] = [struct |-> Top.struct, next |-> Top.next + 1]
  BY <1>2, Moved
<1>5. path' # <<>> /\ L \in 1..L
  BY <1>1, <1>4, EmptySeq
<1>6. OnPath = {path[i].struct : i \in 1..L}
  BY <1>2, LenProperties DEF OnPath
<1>7. recursive' \in BOOLEAN
  OBVIOUS
<1> HIDE DEF L
<1>0. L \in Nat \ {0}
  BY <1>1
<1>8. /\ \A i \in 1..L : i \in 1..(L - 1) \/ i = L
      /\ \A i \in 1..(L - 1) : i \in 1..L /\ i + 1 \in 1..L /\ i # L
  BY <1>0
<1>9. \A i \in 1..L : path'[i].struct = path[i].struct
  BY <1>1, <1>4, <1>8
<1>10. PathTyped'
  BY <1>2, <1>4, <1>5, <1>7 DEF PathTyped
<1>11. PathDescends'
  <2>1. path'[1].struct = primary
    BY <1>0, <1>2, <1>9, <1>5 DEF Walk, PathDescends
  <2>2. ASSUME NEW i \in 1..L
        PROVE  path'[i].next <= Len(types[path'[i].struct]) + 1
    <3>1. CASE i \in 1..(L - 1)
      BY <1>4, <1>8, <3>1 DEF Walk, PathDescends, L
    <3>2. CASE i = L
      BY <1>1, <1>3, <1>4, <3>2
    <3> QED BY <1>8, <3>1, <3>2
  <2>3. ASSUME NEW i \in 1..(L - 1)
        PROVE  /\ path'[i].next > 1
               /\ path'[i + 1].struct = types[path'[i].struct][path'[i].next - 1]
    BY <1>4, <1>8, <1>9 DEF Walk, PathDescends, L
  <2> QED BY <1>4, <2>1, <2>2, <2>3 DEF PathDescends
<1>12. BackEdgesAreCycles'
  <2>1. \A i \in 1..L : path[i].struct \in ReachedFrom(types, {primary})
    BY DEF Walk, BackEdgesAreCycles, L
  <2>2. \A i, j \in 1..L :
          i < j => path[j].struct
                     \in ReachedFrom(types, FieldsOf(types, path[i].struct))
    BY DEF Walk, BackEdgesAreCycles, L
  <2>3. ASSUME NEW i \in 1..L, name = path[i].struct PROVE OnCycle(types, name)
    <3>1. FieldsOf(types, name) \in SUBSET Names
      BY <1>1, <1>2, FieldsAreNames
    <3>2. CASE i = L
      BY <1>1, <1>2, <2>3, <3>1, <3>2, ReachedIsClosed DEF OnCycle
    <3>3. CASE i < L
      <4>1. Top.struct \in ReachedFrom(types, FieldsOf(types, name))
        BY <1>1, <1>5, <2>2, <2>3, <3>3
      <4> QED BY <1>1, <1>2, <3>1, <4>1, FieldsReached DEF OnCycle
    <3> QED BY <1>0, <3>2, <3>3
  <2>4. recursive' => \E n \in ReachedFrom(types, {primary}) : OnCycle(types, n)
    <3>1. CASE name \in OnPath
      BY <1>6, <2>1, <2>3, <3>1
    <3>2. CASE name \notin OnPath
      BY <3>2 DEF Walk, BackEdgesAreCycles
    <3> QED BY <3>1, <3>2
  <2>5. \A i \in 1..L : path'[i].struct \in ReachedFrom(types, {primary})
    BY <1>9, <2>1
  <2>6. \A i, j \in 1..L :
          i < j => path'[j].struct
                     \in ReachedFrom(types, FieldsOf(types, path'[i].struct))
    BY <1>9, <2>2
  <2> QED BY <1>4, <2>4, <2>5, <2>6 DEF BackEdgesAreCycles
<1>13. DoneWithIsAcyclic'
  <2> SUFFICES ASSUME recursive' = FALSE PROVE DoneWithIsAcyclic'
    BY DEF DoneWithIsAcyclic
  <2>1. recursive = FALSE /\ name \notin OnPath
    BY <1>2
  <2>2. Acyclic(types, name)
    BY <1>1, <1>2, <2>1, AtomsAreAcyclic
  <2>3. ASSUME NEW i \in 1..L, NEW j \in 1..(path'[i].next - 1),
               i = L \/ j < path'[i].next - 1
        PROVE  Acyclic(types, types[path'[i].struct][j])
    <3>1. CASE i \in 1..(L - 1)
      <4>1. j \in 1..(path[i].next - 1) /\ j < path[i].next - 1
        BY <1>4, <1>8, <2>3, <3>1
      <4> QED BY <1>9, <2>1, <4>1 DEF Walk, DoneWithIsAcyclic, L
    <3>2. CASE i = L
      <4>1. j \in 1..(Top.next - 1) \/ j = Top.next
        BY <1>3, <1>4, <2>3, <3>2
      <4>2. path'[i].struct = Top.struct
        BY <1>4, <3>2
      <4>3. CASE j \in 1..(Top.next - 1)
        BY <1>1, <1>5, <2>1, <3>2, <4>2, <4>3 DEF Walk, DoneWithIsAcyclic, L
      <4>4. CASE j = Top.next
        BY <2>2, <4>2, <4>4
      <4> QED BY <4>1, <4>3, <4>4
    <3> QED BY <1>8, <3>1, <3>2
  <2> QED BY <1>4, <1>5, <2>3 DEF DoneWithIsAcyclic
<1> QED BY <1>10, <1>11, <1>12, <1>13 DEF Walk

LEMMA FieldWalks == Walk /\ CheckField => Walk'
<1> SUFFICES ASSUME Walk, CheckField PROVE Walk'
  OBVIOUS
<1> DEFINE name == types[Top.struct][Top.next]
<1>1. /\ stage = "check" /\ path # <<>> /\ Top.next <= Len(types[Top.struct])
      /\ types' = types /\ primary' = primary /\ CheckType(name)
  BY DEF CheckField
<1>2. CASE stage' = "limit" /\ UNCHANGED checkVars
  <2>1. path' = path /\ recursive' = recursive
    BY <1>2 DEF checkVars
  <2> QED BY <1>1, <1>2, <2>1
          DEF Walk, PathTyped, PathDescends, BackEdgesAreCycles, DoneWithIsAcyclic
<1>3. CASE ~(Len(path) > MaxPath \/ nodes = 0) /\ name \in Structs \ OnPath
  <2>1. /\ path' = Append(Advanced, [struct |-> name, next |-> 1])
        /\ recursive' = (recursive \/ name \in OnPath) /\ stage' = "check"
    BY <1>1, <1>3 DEF CheckType
  <2>2. recursive' = recursive
    BY <1>3, <2>1 DEF Walk, PathTyped
  <2> HIDE DEF name
  <2> QED BY <1>1, <1>3, <2>1, <2>2, EnteredWalks DEF name
<1>4. CASE ~(Len(path) > MaxPath \/ nodes = 0) /\ name \notin Structs \ OnPath
  <2>1. /\ path' = Advanced /\ stage' = "check"
        /\ recursive' = (recursive \/ name \in OnPath)
    BY <1>1, <1>4 DEF CheckType
  <2> QED BY <1>1, <1>4, <2>1, PassedWalks
<1> QED BY <1>1, <1>2, <1>3, <1>4 DEF CheckType

LEMMA NextWalks == Walk /\ [TypedNext]_typedVars => Walk'
<1> SUFFICES ASSUME Walk, [TypedNext]_typedVars PROVE Walk'
  OBVIOUS
<1>1. CASE CheckPrimary
  BY <1>1, PrimaryWalks
<1>2. CASE CheckField
  BY <1>2, FieldWalks
<1>3. CASE LeaveStruct
  BY <1>3, LeaveWalks
<1>4. CASE Checked \/ Collect \/ Collected
  <2>1. /\ types' = types /\ primary' = primary
        /\ path' = path /\ recursive' = recursive
    BY <1>4 DEF Checked, Collect, Collected, checkVars
  <2>2. /\ stage \notin {"primary", "limit"}
        /\ stage' \notin {"primary", "limit"}
    BY <1>4 DEF Checked, Collect, Collected
  <2>3. path = <<>>
    BY <1>4 DEF Checked, Collect, Collected, Walk, PathTyped
  <2>4. PathTyped'
    BY <2>1, <2>2, <2>3 DEF Walk, PathTyped
  <2>5. PathDescends'
    BY <2>1 DEF Walk, PathDescends
  <2>6. BackEdgesAreCycles'
    BY <2>1 DEF Walk, BackEdgesAreCycles
  <2>7. DoneWithIsAcyclic'
    BY <2>1, <2>2 DEF Walk, DoneWithIsAcyclic
  <2> QED BY <2>4, <2>5, <2>6, <2>7 DEF Walk
<1>5. CASE UNCHANGED typedVars
  <2>1. /\ types' = types /\ primary' = primary /\ stage' = stage
        /\ path' = path /\ recursive' = recursive
    BY <1>5 DEF typedVars
  <2> QED BY <2>1
          DEF Walk, PathTyped, PathDescends, BackEdgesAreCycles, DoneWithIsAcyclic
<1> QED BY <1>1, <1>2, <1>3, <1>4, <1>5 DEF TypedNext

THEOREM SpecWalks == TypedSpec => []Walk
BY InitWalk, NextWalks, PTL DEF TypedSpec

LEMMA WalkDecides == Walk => RecursiveIsCyclic
<1> SUFFICES ASSUME Walk, stage \in {"collect", "alloy"}
             PROVE  recursive <=> \E n \in ReachedFrom(types, {primary}) :
                                    OnCycle(types, n)
  BY DEF RecursiveIsCyclic
<1>1. path = <<>> /\ recursive \in BOOLEAN
  BY DEF Walk, PathTyped
<1>2. CASE recursive
  BY <1>2 DEF Walk, BackEdgesAreCycles
<1>3. CASE ~recursive
  <2>1. Acyclic(types, primary)
    BY <1>1, <1>3 DEF Walk, DoneWithIsAcyclic
  <2> QED BY <1>3, <2>1 DEF Acyclic
<1> QED BY <1>2, <1>3

\* check_type, which keeps no set of the types it has left, still finds a
\* cycle exactly if the primary type reaches one: a shared subtype is none.
THEOREM TypedRecursiveIsCyclic == TypedSpec => []RecursiveIsCyclic
BY SpecWalks, WalkDecides, PTL

-----------------------------------------------------------------------------
(* recursive_encode_type                                                   *)

Held(p) == {p[i] : i \in 1..Len(p)}

\* What is seen or pending is reached, and what the seen refer to is seen or
\* pending.
Gathered ==
  /\ types \in SchemaTypes /\ primary \in Names
  /\ pending \in Seq(Names) /\ seen \subseteq Names
  /\ definitions = seen \cap Structs
  /\ stage \in {"primary", "check"} => seen = {}
  /\ stage \in {"collect", "encoded"} => primary \in seen \cup Held(pending)
  /\ seen \cup Held(pending) \subseteq ReachedFrom(types, {primary})
  /\ \A n \in seen : FieldsOf(types, n) \subseteq seen \cup Held(pending)
  /\ stage = "encoded" =>
       /\ pending = <<>>
       /\ encoded.first \cup encoded.rest = definitions

LEMMA HeldNothing == Held(<<>>) = {}
BY DEF Held

LEMMA HeldPopped ==
  ASSUME pending \in Seq(Names), pending # <<>>
  PROVE  /\ Popped \in Seq(Names) /\ Last \in Names
         /\ Held(pending) = Held(Popped) \cup {Last}
<1>1. Len(pending) \in Nat \ {0}
  BY EmptySeq
<1>2. \A i \in 1..Len(pending) : pending[i] \in Names
  BY ElementOfSeq
<1>3. \A i \in 1..(Len(pending) - 1) : pending[i] \in Names
  BY <1>1, <1>2
<1>4. /\ Popped \in Seq(Names)
      /\ Len(Popped) = IF 1 <= Len(pending) - 1 THEN Len(pending) - 1 ELSE 0
      /\ \A i \in 1..(Len(pending) - 1 - 1 + 1) : Popped[i] = pending[1 + i - 1]
  BY <1>1, <1>3, SubSeqProperties DEF Popped
<1>5. Len(Popped) = Len(pending) - 1
  <2>1. \A n \in Nat \ {0} : (IF 1 <= n - 1 THEN n - 1 ELSE 0) = n - 1
    OBVIOUS
  <2> QED BY <1>1, <1>4, <2>1
<1>6. \A i \in 1..(Len(pending) - 1) : Popped[i] = pending[i]
  BY <1>1, <1>4
<1>7. \A i \in 1..Len(pending) : i \in 1..(Len(pending) - 1) \/ i = Len(pending)
  BY <1>1
<1>8. \A i \in 1..(Len(pending) - 1) : i \in 1..Len(pending)
  BY <1>1
<1>9. Len(pending) \in 1..Len(pending)
  BY <1>1
<1>10. Held(pending) \subseteq Held(Popped) \cup {Last}
  BY <1>5, <1>6, <1>7 DEF Held, Last
<1>11. Held(Popped) \cup {Last} \subseteq Held(pending)
  BY <1>5, <1>6, <1>8, <1>9 DEF Held, Last
<1> QED BY <1>2, <1>4, <1>9, <1>10, <1>11 DEF Last

LEMMA HeldConcat ==
  ASSUME NEW S, NEW p \in Seq(S), NEW q \in Seq(S)
  PROVE  p \o q \in Seq(S) /\ Held(p \o q) = Held(p) \cup Held(q)
<1>1. /\ p \o q \in Seq(S) /\ Len(p \o q) = Len(p) + Len(q)
      /\ \A i \in 1..(Len(p) + Len(q)) :
           (p \o q)[i] = IF i <= Len(p) THEN p[i] ELSE q[i - Len(p)]
  BY ConcatProperties
<1>2. Len(p) \in Nat /\ Len(q) \in Nat
  BY LenProperties
<1>3. ASSUME NEW i \in 1..(Len(p) + Len(q))
      PROVE  (p \o q)[i] \in Held(p) \cup Held(q)
  <2>1. CASE i <= Len(p)
    BY <1>1, <1>2, <2>1 DEF Held
  <2>2. CASE i > Len(p)
    <3>1. i - Len(p) \in 1..Len(q) /\ ~(i <= Len(p))
      BY <1>2, <2>2
    <3> QED BY <1>1, <3>1 DEF Held
  <2> QED BY <1>2, <2>1, <2>2
<1>4. ASSUME NEW i \in 1..Len(p) PROVE p[i] \in Held(p \o q)
  <2>1. i \in 1..(Len(p) + Len(q)) /\ i <= Len(p)
    BY <1>2
  <2> QED BY <1>1, <2>1 DEF Held
<1>5. ASSUME NEW i \in 1..Len(q) PROVE q[i] \in Held(p \o q)
  <2>1. i + Len(p) \in 1..(Len(p) + Len(q)) /\ ~(i + Len(p) <= Len(p))
        /\ i + Len(p) - Len(p) = i
    BY <1>2
  <2> QED BY <1>1, <2>1 DEF Held
<1>6. Held(p \o q) \subseteq Held(p) \cup Held(q)
  BY <1>1, <1>3 DEF Held
<1>7. Held(p) \cup Held(q) \subseteq Held(p \o q)
  BY <1>4, <1>5 DEF Held
<1> QED BY <1>1, <1>6, <1>7

LEMMA HeldTogether ==
  ASSUME NEW p \in Seq(Names), NEW q \in Seq(Names)
  PROVE  p \o q \in Seq(Names) /\ Held(p \o q) = Held(p) \cup Held(q)
BY HeldConcat

LEMMA InitGathers == TypedInit => Gathered
<1> SUFFICES ASSUME TypedInit PROVE Gathered
  OBVIOUS
<1>1. types \in SchemaTypes /\ primary \in Names
  BY SchemasAreSchemas DEF TypedInit, SchemaTypes
<1>2. pending = <<>> /\ pending \in Seq(Names) /\ Held(pending) = {}
  BY HeldNothing, EmptySeq DEF TypedInit
<1>3. seen = {} /\ definitions = {} /\ stage = "primary"
  BY DEF TypedInit
<1> QED BY <1>1, <1>2, <1>3 DEF Gathered

\* A name that is looked at brings in its fields, and nothing else.
LEMMA CollectGathers == Gathered /\ Collect => Gathered'
<1> SUFFICES ASSUME Gathered, Collect PROVE Gathered'
  OBVIOUS
<1>1. /\ types' = types /\ primary' = primary /\ stage = "collect"
      /\ types \in SchemaTypes /\ primary \in Names
      /\ pending \in Seq(Names) /\ pending # <<>> /\ seen \subseteq Names
      /\ definitions = seen \cap Structs
  BY DEF Gathered, Collect
<1>2. /\ Popped \in Seq(Names) /\ Last \in Names
      /\ Held(pending) = Held(Popped) \cup {Last}
  BY <1>1, HeldPopped
<1>3. /\ primary \in seen \cup Held(pending)
      /\ seen \cup Held(pending) \subseteq ReachedFrom(types, {primary})
      /\ \A n \in seen : FieldsOf(types, n) \subseteq seen \cup Held(pending)
  BY <1>1 DEF Gathered
<1>4. stage' \in {"collect", "unknown"}
  BY <1>1 DEF Collect
<1>5. CASE Last \in seen
  <2>1. /\ pending' = Popped /\ seen' = seen /\ definitions' = definitions
        /\ stage' = "collect"
    BY <1>1, <1>5 DEF Collect
  <2>2. seen \cup Held(Popped) = seen \cup Held(pending)
    BY <1>2, <1>5
  <2> QED BY <1>1, <1>2, <1>3, <2>1, <2>2 DEF Gathered
<1>6. CASE Last \notin seen /\ Last \in Structs
  <2>1. /\ pending' = Popped \o types[Last] /\ seen' = seen \cup {Last}
        /\ definitions' = definitions \cup {Last} /\ stage' = "collect"
    BY <1>1, <1>6 DEF Collect
  <2>2. types[Last] \in Seq(Names)
    BY <1>1, <1>6 DEF SchemaTypes
  <2>3. Held(types[Last]) = FieldsOf(types, Last)
    BY <1>6, <2>2, LenProperties DEF Held, FieldsOf
  <2>4. /\ pending' \in Seq(Names)
        /\ Held(pending') = Held(Popped) \cup FieldsOf(types, Last)
    BY <1>2, <2>1, <2>2, <2>3, HeldTogether
  <2>5. {primary} \in SUBSET Names
    BY <1>1
  <2>6. FieldsOf(types, Last) \subseteq ReachedFrom(types, {primary})
    BY <1>1, <1>2, <1>3, <2>5, FieldsReached
  <2>7. seen' \cup Held(pending') = seen \cup Held(pending) \cup FieldsOf(types, Last)
    BY <1>2, <2>1, <2>4
  <2>8. definitions' = seen' \cap Structs /\ seen' \subseteq Names
    BY <1>1, <1>2, <1>6, <2>1
  <2>9. primary \in seen' \cup Held(pending')
    BY <1>3, <2>7
  <2>10. seen' \cup Held(pending') \subseteq ReachedFrom(types, {primary})
    BY <1>3, <2>6, <2>7
  <2>11. \A n \in seen' : FieldsOf(types, n) \subseteq seen' \cup Held(pending')
    BY <1>3, <2>1, <2>7
  <2> QED BY <1>1, <2>1, <2>4, <2>8, <2>9, <2>10, <2>11 DEF Gathered
<1>7. CASE Last \notin seen /\ Last \notin Structs
  <2>1. /\ pending' = Popped /\ seen' = seen \cup {Last}
        /\ definitions' = definitions
    BY <1>1, <1>7 DEF Collect
  <2>2. FieldsOf(types, Last) = {}
    BY <1>7 DEF FieldsOf
  <2>3. seen' \cup Held(pending') = seen \cup Held(pending)
    BY <1>2, <2>1
  <2>4. definitions' = seen' \cap Structs /\ seen' \subseteq Names
    BY <1>1, <1>2, <1>7, <2>1
  <2>5. \A n \in seen' : FieldsOf(types, n) \subseteq seen' \cup Held(pending')
    BY <1>3, <2>1, <2>2, <2>3
  <2> QED BY <1>1, <1>2, <1>3, <1>4, <2>1, <2>3, <2>4, <2>5 DEF Gathered
<1> QED BY <1>5, <1>6, <1>7

LEMMA NextGathers == Gathered /\ [TypedNext]_typedVars => Gathered'
<1> SUFFICES ASSUME Gathered, [TypedNext]_typedVars PROVE Gathered'
  OBVIOUS
<1>1. CASE CheckPrimary \/ CheckField
  <2>1. /\ stage \in {"primary", "check"} /\ stage' \in {"check", "limit"}
        /\ types' = types /\ primary' = primary /\ pending' = pending
        /\ seen' = seen /\ definitions' = definitions
    BY <1>1 DEF CheckPrimary, CheckField, CheckType, collectVars
  <2> QED BY <2>1 DEF Gathered
<1>2. CASE LeaveStruct
  <2>1. /\ stage = "check" /\ stage' = "check"
        /\ types' = types /\ primary' = primary /\ pending' = pending
        /\ seen' = seen /\ definitions' = definitions
    BY <1>2 DEF LeaveStruct, collectVars
  <2> QED BY <2>1 DEF Gathered
<1>3. CASE Checked
  <2>1. /\ types' = types /\ primary' = primary /\ seen' = seen
        /\ definitions' = definitions /\ seen = {} /\ definitions = {}
        /\ types \in SchemaTypes /\ primary \in Names
    BY <1>3 DEF Checked, Gathered
  <2>2. {primary} \in SUBSET Names
    BY <2>1
  <2>3. CASE recursive
    <3>1. pending' = <<primary>> /\ stage' = "collect"
      BY <1>3, <2>3 DEF Checked
    <3>2. <<primary>> \in Seq(Names) /\ Held(<<primary>>) = {primary}
      BY <2>1 DEF Held
    <3>3. {primary} \subseteq ReachedFrom(types, {primary})
      BY <2>1, <2>2, ReachedIsClosed
    <3> QED BY <2>1, <3>1, <3>2, <3>3 DEF Gathered
  <2>4. CASE ~recursive
    <3>1. pending' = <<>> /\ stage' = "alloy"
      BY <1>3, <2>4 DEF Checked
    <3>2. pending' \in Seq(Names) /\ Held(pending') = {}
      BY <3>1, HeldNothing, EmptySeq
    <3> QED BY <2>1, <3>1, <3>2 DEF Gathered
  <2> QED BY <2>3, <2>4
<1>4. CASE Collect
  BY <1>4, CollectGathers
<1>5. CASE Collected
  <2>1. /\ types' = types /\ primary' = primary /\ pending' = pending
        /\ seen' = seen /\ definitions' = definitions
        /\ stage = "collect" /\ pending = <<>>
        /\ stage' \in {"encoded", "expected_struct"}
    BY <1>5 DEF Collected, checkVars
  <2>2. stage' = "encoded" =>
          encoded' = [first |-> {primary}, rest |-> definitions \ {primary}]
            /\ primary \in definitions
    BY <1>5 DEF Collected
  <2>3. stage' = "encoded" => encoded'.first \cup encoded'.rest = definitions
    BY <2>2
  <2> QED BY <2>1, <2>3 DEF Gathered
<1>6. CASE UNCHANGED typedVars
  <2>1. /\ types' = types /\ primary' = primary /\ stage' = stage
        /\ pending' = pending /\ seen' = seen /\ definitions' = definitions
        /\ encoded' = encoded
    BY <1>6 DEF typedVars
  <2> QED BY <2>1 DEF Gathered
<1> QED BY <1>1, <1>2, <1>3, <1>4, <1>5, <1>6 DEF TypedNext

LEMMA GatheredEncodes == Gathered => EncodesWhatIsReached
<1> SUFFICES ASSUME Gathered, stage = "encoded"
             PROVE  encoded.first \cup encoded.rest
                      = ReachedFrom(types, {primary}) \cap Structs
  BY DEF EncodesWhatIsReached
<1>1. /\ pending = <<>> /\ Held(pending) = {} /\ seen \in SUBSET Names
      /\ types \in SchemaTypes /\ {primary} \in SUBSET Names
      /\ encoded.first \cup encoded.rest = seen \cap Structs
  BY HeldNothing DEF Gathered
<1>2. {primary} \subseteq seen /\ Closed(types, seen)
  BY <1>1 DEF Gathered, Closed
<1>3. ReachedFrom(types, {primary}) \subseteq seen
  BY <1>1, <1>2, ReachedIsLeast
<1>4. seen \subseteq ReachedFrom(types, {primary})
  BY DEF Gathered
<1> QED BY <1>1, <1>3, <1>4

\* encodeType names every struct that the primary type reaches, and no other.
THEOREM TypedEncodesWhatIsReached == TypedSpec => []EncodesWhatIsReached
BY InitGathers, NextGathers, GatheredEncodes, PTL DEF TypedSpec

-----------------------------------------------------------------------------
(* Sequences                                                               *)

LEMMA Singleton ==
  ASSUME NEW s \in Seq(Nat), Len(s) = 1
  PROVE  s = <<s[1]>> /\ s[1] \in Nat
<1>0. 1 \in 1..Len(s)
  OBVIOUS
<1>1. s[1] \in Nat
  BY <1>0, ElementOfSeq
<1> DEFINE t == <<s[1]>>
<1>2. t \in Seq(Nat) /\ Len(t) = 1 /\ t[1] = s[1]
  BY <1>1
<1> HIDE DEF t
<1>3. s = t
  BY <1>2, SeqEqual
<1> QED BY <1>1, <1>3 DEF t

\* What SubSeq cuts out.
LEMMA Cut ==
  ASSUME NEW s \in Seq(Nat), NEW k \in Nat \ {0}, NEW n \in Nat,
         k <= n + 1, n <= Len(s)
  PROVE  /\ SubSeq(s, k, n) \in Seq(Nat) /\ Len(SubSeq(s, k, n)) = n - k + 1
         /\ \A i \in 1..(n - k + 1) : SubSeq(s, k, n)[i] = s[k - 1 + i]
<1>1. \A i \in k..n : s[i] \in Nat
  BY ElementOfSeq, LenProperties
<1> DEFINE c == SubSeq(s, k, n)
<1>2. /\ c \in Seq(Nat) /\ Len(c) = IF k <= n THEN n - k + 1 ELSE 0
      /\ \A i \in 1..(n - k + 1) : c[i] = s[k + i - 1]
  BY <1>1, SubSeqProperties
<1> HIDE DEF c
<1>3. c \in Seq(Nat) /\ Len(c) = n - k + 1 /\ \A i \in 1..(n - k + 1) : c[i] = s[k - 1 + i]
  BY <1>2
<1> QED BY <1>3 DEF c

\* What stands in s from k to n is what SubSeq cuts out there.
LEMMA CutOf ==
  ASSUME NEW s \in Seq(Nat), NEW a \in Seq(Nat), NEW k \in Nat \ {0}, NEW n \in Nat,
         n = k - 1 + Len(a), n <= Len(s), \A i \in 1..Len(a) : s[k - 1 + i] = a[i]
  PROVE  SubSeq(s, k, n) = a
<1> DEFINE c == SubSeq(s, k, n)
<1>1. Len(a) \in Nat
  BY LenProperties
<1>2. c \in Seq(Nat) /\ Len(c) = n - k + 1 /\ \A i \in 1..(n - k + 1) : c[i] = s[k - 1 + i]
  BY <1>1, Cut
<1> HIDE DEF c
<1>3. Len(c) = Len(a) /\ \A i \in 1..Len(a) : c[i] = a[i]
  BY <1>1, <1>2
<1>4. c = a
  BY <1>2, <1>3, SeqEqual
<1> QED BY <1>4 DEF c

LEMMA FirstPart ==
  ASSUME NEW s \in Seq(Nat), NEW a \in Seq(Nat), Len(a) <= Len(s),
         \A i \in 1..Len(a) : s[i] = a[i]
  PROVE  SubSeq(s, 1, Len(a)) = a
<1>1. Len(a) \in Nat /\ 1 \in Nat \ {0} /\ Len(a) = 1 - 1 + Len(a)
  BY LenProperties
<1>2. \A i \in 1..Len(a) : s[1 - 1 + i] = a[i]
  OBVIOUS
<1> QED BY <1>1, <1>2, CutOf

LEMMA Joined ==
  ASSUME NEW a \in Seq(Nat), NEW b \in Seq(Nat)
  PROVE  /\ a \o b \in Seq(Nat) /\ Len(a \o b) = Len(a) + Len(b)
         /\ \A i \in 1..Len(a) : (a \o b)[i] = a[i]
         /\ \A i \in 1..Len(b) : (a \o b)[Len(a) + i] = b[i]
<1> DEFINE c == a \o b
<1>1. /\ c \in Seq(Nat) /\ Len(c) = Len(a) + Len(b)
      /\ \A i \in 1..(Len(a) + Len(b)) :
           c[i] = IF i <= Len(a) THEN a[i] ELSE b[i - Len(a)]
  BY ConcatProperties
<1>2. Len(a) \in Nat /\ Len(b) \in Nat
  BY LenProperties
<1> HIDE DEF c
<1>3. \A i \in 1..Len(a) : c[i] = a[i]
  BY <1>1, <1>2
<1>4. ASSUME NEW i \in 1..Len(b) PROVE c[Len(a) + i] = b[i]
  <2>1. Len(a) + i \in 1..(Len(a) + Len(b)) /\ ~(Len(a) + i <= Len(a))
        /\ (Len(a) + i) - Len(a) = i
    BY <1>2
  <2> QED BY <1>1, <2>1
<1> QED BY <1>1, <1>3, <1>4 DEF c

\* A sequence is what a cut of it leaves, joined.
LEMMA CutAndJoined ==
  ASSUME NEW s \in Seq(Nat), NEW n \in Nat, n <= Len(s)
  PROVE  s = SubSeq(s, 1, n) \o SubSeq(s, n + 1, Len(s))
<1> DEFINE a == SubSeq(s, 1, n)  b == SubSeq(s, n + 1, Len(s))
<1>0. Len(s) \in Nat
  BY LenProperties
<1>1. a \in Seq(Nat) /\ Len(a) = n /\ \A i \in 1..n : a[i] = s[i]
  <2>1. /\ a \in Seq(Nat) /\ Len(a) = n - 1 + 1
        /\ \A i \in 1..(n - 1 + 1) : a[i] = s[1 - 1 + i]
    BY Cut
  <2> HIDE DEF a
  <2> QED BY <2>1
<1>2. b \in Seq(Nat) /\ Len(b) = Len(s) - n /\ \A i \in 1..(Len(s) - n) : b[i] = s[n + i]
  <2>1. /\ b \in Seq(Nat) /\ Len(b) = Len(s) - (n + 1) + 1
        /\ \A i \in 1..(Len(s) - (n + 1) + 1) : b[i] = s[(n + 1) - 1 + i]
    BY <1>0, Cut
  <2> HIDE DEF b
  <2> QED BY <1>0, <2>1
<1> HIDE DEF a, b
<1>j. /\ a \o b \in Seq(Nat) /\ Len(a \o b) = Len(a) + Len(b)
      /\ \A i \in 1..Len(a) : (a \o b)[i] = a[i]
      /\ \A i \in 1..Len(b) : (a \o b)[Len(a) + i] = b[i]
  BY <1>1, <1>2, Joined
<1>3. a \o b \in Seq(Nat) /\ Len(a \o b) = Len(s)
  BY <1>0, <1>1, <1>2, <1>j
<1>4. ASSUME NEW i \in 1..Len(s) PROVE (a \o b)[i] = s[i]
  <2>1. CASE i \in 1..n
    BY <2>1, <1>1, <1>j
  <2>2. CASE i \notin 1..n
    <3>1. i - n \in 1..(Len(s) - n) /\ i = n + (i - n)
      BY <2>2, <1>0
    <3>2. (a \o b)[n + (i - n)] = b[i - n] /\ b[i - n] = s[n + (i - n)]
      BY <3>1, <1>1, <1>2, <1>j
    <3> QED BY <3>1, <3>2
  <2> QED BY <2>1, <2>2
<1>5. s = a \o b
  BY <1>3, <1>4, SeqEqual
<1> QED BY <1>5 DEF a, b

-----------------------------------------------------------------------------
(* Ethereum transactions                                                   *)

Parses(tx) == Eth!Parse(tx).tag = "ok"

LEMMA ParsedFields ==
  ASSUME NEW tx, IsTransaction(tx), Parses(tx)
  PROVE  /\ tx.type \in 0..4
         /\ tx.chain = <<>> \/ (tx.chain = <<tx.chain[1]>> /\ Len(tx.chain) = 1
                               /\ tx.chain[1] \in Nat /\ tx.chain[1] <= MaxU64)
         /\ tx.type # 0 => tx.chain # <<>>
<1>1. tx.type \in 0..4 /\ (tx.type # 0 => tx.chain # <<>>)
      /\ (tx.chain = <<>> \/ ~(tx.chain[1] > MaxU64))
  BY DEF Parses, Eth!Parse, Eth!Error, Eth!Legacy
<1>2. CASE tx.chain = <<>>
  BY <1>1, <1>2
<1>3. CASE tx.chain # <<>>
  <2>1. Len(tx.chain) = 1
    <3>1. tx.chain \in Seq(Nat) /\ Len(tx.chain) <= 1
      BY DEF IsTransaction
    <3> DEFINE n == Len(tx.chain)
    <3>2. n \in Nat /\ n # 0 /\ n <= 1
      BY <1>3, <3>1, EmptySeq
    <3> HIDE DEF n
    <3>3. n = 1
      BY <3>2
    <3> QED BY <3>3 DEF n
  <2>2. tx.chain = <<tx.chain[1]>> /\ tx.chain[1] \in Nat
    BY <2>1, Singleton DEF IsTransaction
  <2>3. tx.chain[1] <= MaxU64
    BY <2>2, <1>1, <1>3, LimitsOfWire
  <2> QED BY <1>1, <2>1, <2>2, <2>3
<1> QED BY <1>2, <1>3

\* The two writers write a list of numbers.
LEMMA SigningFields ==
  ASSUME NEW tx, IsTransaction(tx), Parses(tx)
  PROVE  LET w == Eth!EncodedForSigning(tx) IN IsWire(w) /\ w.type = tx.type
<1>1. tx.chain \o tx.body \in Seq(Nat) /\ tx.body \o tx.chain \in Seq(Nat)
      /\ tx.body \in Seq(Nat) /\ <<0, 0>> \in Seq(Nat)
  BY Joined DEF IsTransaction
<1>2. tx.body \o tx.chain \o <<0, 0>> \in Seq(Nat)
  BY <1>1, Joined
<1>3. tx.type \in Nat
  BY DEF IsTransaction
<1> QED BY <1>1, <1>2, <1>3 DEF IsWire, Eth!EncodedForSigning

\* The two decoders, case by case.
LEMMA DecodeUnsignedCases ==
  ASSUME NEW w
  PROVE  /\ w.type = 0 /\ Len(w.fields) = 6 =>
              Eth!DecodeUnsigned(w)
                = {[type |-> 0, chain |-> <<>>, body |-> SubSeq(w.fields, 1, 6)]}
         /\ w.type = 0 /\ Len(w.fields) = 9 =>
              Eth!DecodeUnsigned(w)
                = IF w.fields[7] <= MaxU64
                  THEN {[type |-> 0, chain |-> <<w.fields[7]>>, body |-> SubSeq(w.fields, 1, 6)]}
                  ELSE {}
         /\ w.type = 0 /\ Len(w.fields) \notin {6, 9} => Eth!DecodeUnsigned(w) = {}
         /\ w.type # 0 /\ Len(w.fields) = 8 =>
              Eth!DecodeUnsigned(w)
                = IF w.fields[1] <= MaxU64
                  THEN {[type |-> w.type, chain |-> <<w.fields[1]>>, body |-> Tail(w.fields)]}
                  ELSE {}
         /\ w.type # 0 /\ Len(w.fields) # 8 => Eth!DecodeUnsigned(w) = {}
<1>1. 6 + 1 = 7 /\ 6 + 3 = 9 /\ 7 + 1 = 8
  OBVIOUS
<1>2. CASE w.type = 0
  BY <1>1, <1>2 DEF Eth!DecodeUnsigned, Eth!Legacy, Eth!BodyOf
<1>3. CASE w.type # 0
  BY <1>1, <1>3 DEF Eth!DecodeUnsigned, Eth!Legacy, Eth!BodyOf
<1> QED BY <1>2, <1>3

\* What is written unsigned is recognised as such.
LEMMA UnsignedIsRecognised ==
  ASSUME NEW tx, IsTransaction(tx), Parses(tx)
  PROVE  Eth!IsUnsigned(Eth!EncodedForSigning(tx)) = {tx}
<1> DEFINE w == Eth!EncodedForSigning(tx)
<1> SUFFICES Eth!DecodeUnsigned(w) = {tx}
  BY DEF Eth!IsUnsigned
<1>0. /\ tx = [type |-> tx.type, chain |-> tx.chain, body |-> tx.body]
      /\ tx.type \in Nat /\ tx.body \in Seq(Nat) /\ tx.chain \in Seq(Nat)
      /\ Len(tx.body) = IF tx.type = 0 THEN 6 ELSE 7
  BY DEF IsTransaction, Eth!BodyOf, Eth!Legacy
<1>a. CASE tx.chain = <<>>
  <2>1. tx.type = 0
    BY <1>a, ParsedFields
  <2>2. w.type = 0 /\ w.fields = tx.body
    BY <1>a, <2>1 DEF Eth!EncodedForSigning, Eth!Legacy
  <2> HIDE DEF w
  <2>3. Len(w.fields) = 6 /\ SubSeq(w.fields, 1, 6) = tx.body
    BY <1>0, <2>1, <2>2, SubSeqFull
  <2>4. Eth!DecodeUnsigned(w) = {[type |-> 0, chain |-> <<>>, body |-> tx.body]}
    BY <2>2, <2>3, DecodeUnsignedCases
  <2> QED BY <1>0, <1>a, <2>1, <2>4
<1>b. CASE tx.chain # <<>>
  <2>1. tx.chain = <<tx.chain[1]>> /\ tx.chain[1] \in Nat /\ tx.chain[1] <= MaxU64
        /\ Len(tx.chain) = 1
    BY <1>b, ParsedFields
  <2>2. CASE tx.type = 0
    <3>1. w.type = 0 /\ w.fields = tx.body \o tx.chain \o <<0, 0>>
      BY <1>b, <2>2 DEF Eth!EncodedForSigning, Eth!Legacy
    <3> HIDE DEF w
    <3>2. <<0, 0>> \in Seq(Nat) /\ Len(<<0, 0>>) = 2
      OBVIOUS
    <3>3. /\ w.fields \in Seq(Nat) /\ Len(w.fields) = 9
          /\ \A i \in 1..6 : w.fields[i] = tx.body[i]
          /\ w.fields[7] = tx.chain[1]
      <4> DEFINE z == <<0, 0>>  bc == tx.body \o tx.chain  f == bc \o z
      <4>0. z \in Seq(Nat) /\ Len(z) = 2 /\ w.fields = f
        BY <3>1, <3>2
      <4> HIDE DEF z
      <4>1. /\ bc \in Seq(Nat) /\ Len(bc) = Len(tx.body) + Len(tx.chain)
            /\ \A i \in 1..Len(tx.body) : bc[i] = tx.body[i]
            /\ \A i \in 1..Len(tx.chain) : bc[Len(tx.body) + i] = tx.chain[i]
        BY <1>0, Joined DEF bc
      <4> HIDE DEF bc
      <4>2. /\ bc \in Seq(Nat) /\ Len(bc) = 7 /\ \A i \in 1..6 : bc[i] = tx.body[i]
            /\ bc[6 + 1] = tx.chain[1]
        BY <1>0, <2>1, <2>2, <4>1
      <4>3. f \in Seq(Nat) /\ Len(f) = 7 + 2 /\ \A i \in 1..7 : f[i] = bc[i]
        <5>1. bc \in Seq(Nat) /\ z \in Seq(Nat)
          BY <4>0, <4>2
        <5>2. /\ f \in Seq(Nat) /\ Len(f) = Len(bc) + Len(z)
              /\ \A i \in 1..Len(bc) : f[i] = bc[i]
          BY ONLY <5>1, Joined DEF f
        <5> QED BY <4>0, <4>2, <5>2
      <4> HIDE DEF f
      <4> QED BY <4>0, <4>2, <4>3
    <3>4. SubSeq(w.fields, 1, 6) = tx.body
      BY <1>0, <2>2, <3>3, FirstPart
    <3>5. Eth!DecodeUnsigned(w) = {[type |-> 0, chain |-> <<w.fields[7]>>, body |-> tx.body]}
      BY <2>1, <3>1, <3>3, <3>4, DecodeUnsignedCases
    <3> QED BY <1>0, <2>1, <2>2, <3>3, <3>5
  <2>3. CASE tx.type # 0
    <3>1. w.type = tx.type /\ w.fields = tx.chain \o tx.body
      BY <1>b, <2>3 DEF Eth!EncodedForSigning, Eth!Legacy
    <3> HIDE DEF w
    <3>2. /\ w.fields \in Seq(Nat) /\ Len(w.fields) = 8
          /\ \A i \in 1..7 : w.fields[1 + i] = tx.body[i]
          /\ w.fields[1] = tx.chain[1]
      <4> DEFINE f == tx.chain \o tx.body
      <4>1. /\ f \in Seq(Nat) /\ Len(f) = Len(tx.chain) + Len(tx.body)
            /\ \A i \in 1..Len(tx.chain) : f[i] = tx.chain[i]
            /\ \A i \in 1..Len(tx.body) : f[Len(tx.chain) + i] = tx.body[i]
        BY <1>0, Joined
      <4> HIDE DEF f
      <4>2. Len(tx.body) = 7 /\ 1 \in 1..1
        BY <1>0, <2>3
      <4>3. f \in Seq(Nat) /\ Len(f) = 8 /\ (\A i \in 1..7 : f[1 + i] = tx.body[i])
            /\ f[1] = tx.chain[1]
        BY <2>1, <4>1, <4>2
      <4> QED BY <3>1, <4>3 DEF f
    <3>3. SubSeq(w.fields, 2, 8) = tx.body
      <4> DEFINE k == 2  n == 8
      <4>1. k = 2 /\ n = 8
        OBVIOUS
      <4> HIDE DEF k, n
      <4>2. k - 1 = 1 /\ k \in Nat \ {0} /\ n \in Nat /\ n = k - 1 + Len(tx.body)
            /\ n <= Len(w.fields)
        BY <1>0, <2>3, <3>2, <4>1
      <4>3. \A i \in 1..Len(tx.body) : w.fields[k - 1 + i] = tx.body[i]
        BY <1>0, <2>3, <3>2, <4>2
      <4>4. SubSeq(w.fields, k, n) = tx.body
        BY <1>0, <3>2, <4>2, <4>3, CutOf
      <4> QED BY <4>1, <4>4
    <3>4. Tail(w.fields) = tx.body
      <4>1. w.fields # <<>>
        BY <3>2
      <4> QED BY <3>2, <3>3, <4>1, TailIsSubSeq
    <3>5. Eth!DecodeUnsigned(w)
            = {[type |-> w.type, chain |-> <<w.fields[1]>>, body |-> tx.body]}
      BY <2>1, <2>3, <3>1, <3>2, <3>4, DecodeUnsignedCases
    <3> QED BY <1>0, <2>1, <3>1, <3>2, <3>5
  <2> QED BY <2>2, <2>3
<1> QED BY <1>a, <1>b

LEMMA DecodeSignedCases ==
  ASSUME NEW w, IsWire(w), NEW v, v = w.fields[7]
  PROVE  /\ w.type # 0 /\ Len(w.fields) = 11 =>
              Eth!DecodeSigned(w)
                = IF w.fields[1] <= MaxU64 /\ w.fields[9] \in {0, 1}
                  THEN {[tx |-> [type |-> w.type, chain |-> <<w.fields[1]>>,
                                 body |-> SubSeq(w.fields, 2, 8)],
                         signature |-> SubSeq(w.fields, 9, 11)]}
                  ELSE {}
         /\ w.type # 0 /\ Len(w.fields) # 11 => Eth!DecodeSigned(w) = {}
         /\ w.type = 0 /\ Len(w.fields) = 9 /\ v < 35 =>
              Eth!DecodeSigned(w)
                = IF v \in {27, 28}
                  THEN {[tx |-> [type |-> 0, chain |-> <<>>, body |-> SubSeq(w.fields, 1, 6)],
                         signature |-> <<v - 27>> \o SubSeq(w.fields, 8, 9)]}
                  ELSE {}
         /\ w.type = 0 /\ Len(w.fields) = 9 /\ v >= 35 =>
              Eth!DecodeSigned(w)
                = IF (v - 35) \div 2 <= MaxU64
                  THEN {[tx |-> [type |-> 0, chain |-> <<(v - 35) \div 2>>,
                                 body |-> SubSeq(w.fields, 1, 6)],
                         signature |-> <<(v - 35) % 2>> \o SubSeq(w.fields, 8, 9)]}
                  ELSE {}
         /\ w.type = 0 /\ Len(w.fields) # 9 => Eth!DecodeSigned(w) = {}
<1>1. 6 + 1 = 7 /\ 6 + 2 = 8 /\ 6 + 3 = 9 /\ 7 + 1 = 8 /\ 7 + 2 = 9 /\ 7 + 4 = 11
  OBVIOUS
<1>2. CASE w.type = 0
  <2>1. CASE Len(w.fields) # 9
    BY <1>1, <1>2, <2>1 DEF Eth!DecodeSigned, Eth!Legacy, Eth!BodyOf
  <2>2. CASE Len(w.fields) = 9
    <3>1. v \in Nat
      <4>1. 7 \in 1..Len(w.fields) /\ w.fields \in Seq(Nat)
        BY <2>2 DEF IsWire
      <4> QED BY <4>1, ElementOfSeq
    <3>2. CASE v < 35
      <4>1. v \in {27, 28} =>
              Eth!DecodeSigned(w) =
                {[tx |-> [type |-> 0, chain |-> <<>>, body |-> SubSeq(w.fields, 1, 6)],
                  signature |-> <<v - 27>> \o SubSeq(w.fields, 8, 9)]}
        BY <1>1, <1>2, <2>2, <3>1, <3>2 DEF Eth!DecodeSigned, Eth!Legacy, Eth!BodyOf
      <4>2. v \notin {27, 28} => Eth!DecodeSigned(w) = {}
        BY <1>1, <1>2, <2>2, <3>1, <3>2 DEF Eth!DecodeSigned, Eth!Legacy, Eth!BodyOf
      <4> QED BY <1>2, <2>2, <3>1, <3>2, <4>1, <4>2
    <3>3. CASE v >= 35
      <4> DEFINE c == (v - 35) \div 2
      <4>0. ~(v < 35) /\ v \notin {27, 28} /\ <<c>>[1] = c
        BY <3>1, <3>3
      <4>1. c <= MaxU64 =>
              Eth!DecodeSigned(w) =
                {[tx |-> [type |-> 0, chain |-> <<c>>, body |-> SubSeq(w.fields, 1, 6)],
                  signature |-> <<(v - 35) % 2>> \o SubSeq(w.fields, 8, 9)]}
        BY <1>1, <1>2, <2>2, <3>3, <4>0 DEF Eth!DecodeSigned, Eth!Legacy, Eth!BodyOf
      <4>2. ~(c <= MaxU64) => Eth!DecodeSigned(w) = {}
        BY <1>1, <1>2, <2>2, <3>3, <4>0 DEF Eth!DecodeSigned, Eth!Legacy, Eth!BodyOf
      <4> QED BY <1>2, <2>2, <4>0, <4>1, <4>2
    <3> QED BY <1>2, <2>2, <3>1, <3>2, <3>3
  <2> QED BY <1>2, <2>1, <2>2
<1>3. CASE w.type # 0
  BY <1>1, <1>3 DEF Eth!DecodeSigned, Eth!Legacy, Eth!BodyOf
<1> QED BY <1>2, <1>3

\* The recovery of v's parts.
LEMMA ParityOfV ==
  ASSUME NEW c \in Nat, NEW p \in {0, 1}
  PROVE  LET v == 2 * c + 35 + p
         IN  v \in Nat /\ v >= 35 /\ (v - 35) \div 2 = c /\ (v - 35) % 2 = p
<1>1. 2 * c + 35 + p - 35 = 2 * c + p
  OBVIOUS
<1>2. (2 * c + p) \div 2 = c /\ (2 * c + p) % 2 = p
  OBVIOUS
<1> QED BY <1>1, <1>2

LEMMA VOfParity ==
  ASSUME NEW v \in Nat, v >= 35
  PROVE  /\ (v - 35) \div 2 \in Nat /\ (v - 35) % 2 \in {0, 1}
         /\ 2 * ((v - 35) \div 2) + 35 + ((v - 35) % 2) = v
<1> DEFINE n == v - 35
<1>1. n \in Nat
  OBVIOUS
<1> HIDE DEF n
<1>2. n \div 2 \in Nat /\ n % 2 \in {0, 1} /\ 2 * (n \div 2) + (n % 2) = n
  BY <1>1
<1> USE DEF n
<1> QED BY <1>2

LEMMA Pair ==
  ASSUME NEW s \in Seq(Nat), Len(s) = 2
  PROVE  s = <<s[1], s[2]>> /\ s[1] \in Nat /\ s[2] \in Nat
<1>0. 1 \in 1..Len(s) /\ 2 \in 1..Len(s)
  OBVIOUS
<1>1. s[1] \in Nat /\ s[2] \in Nat
  BY <1>0, ElementOfSeq
<1> DEFINE t == <<s[1], s[2]>>
<1>2. t \in Seq(Nat) /\ Len(t) = 2 /\ t[1] = s[1] /\ t[2] = s[2]
  BY <1>1
<1> HIDE DEF t
<1>3. \A i \in 1..2 : s[i] = t[i]
  BY <1>2
<1>4. s = t
  BY <1>2, <1>3, SeqEqual
<1> QED BY <1>1, <1>4 DEF t

LEMMA Triple ==
  ASSUME NEW s \in Seq(Nat), Len(s) = 3
  PROVE  s = <<s[1], s[2], s[3]>> /\ s[1] \in Nat /\ s[2] \in Nat /\ s[3] \in Nat
<1>0. 1 \in 1..Len(s) /\ 2 \in 1..Len(s) /\ 3 \in 1..Len(s)
  OBVIOUS
<1>1. s[1] \in Nat /\ s[2] \in Nat /\ s[3] \in Nat
  BY <1>0, ElementOfSeq
<1> DEFINE t == <<s[1], s[2], s[3]>>
<1>2. t \in Seq(Nat) /\ Len(t) = 3 /\ t[1] = s[1] /\ t[2] = s[2] /\ t[3] = s[3]
  BY <1>1
<1> HIDE DEF t
<1>3. \A i \in 1..3 : s[i] = t[i]
  BY <1>2
<1>4. s = t
  BY <1>2, <1>3, SeqEqual
<1> QED BY <1>1, <1>4 DEF t

LEMMA Prepended ==
  ASSUME NEW a \in Nat, NEW b \in Nat, NEW c \in Nat
  PROVE  <<a>> \o <<b, c>> = <<a, b, c>>
<1> DEFINE x == <<a>>  y == <<b, c>>  z == x \o y
<1>1. x \in Seq(Nat) /\ Len(x) = 1 /\ x[1] = a
      /\ y \in Seq(Nat) /\ Len(y) = 2 /\ y[1] = b /\ y[2] = c
  OBVIOUS
<1> HIDE DEF x, y
<1>2. /\ z \in Seq(Nat) /\ Len(z) = Len(x) + Len(y)
      /\ \A i \in 1..Len(x) : z[i] = x[i]
      /\ \A i \in 1..Len(y) : z[Len(x) + i] = y[i]
  BY ONLY <1>1, Joined DEF z
<1> HIDE DEF z
<1>3. Len(z) = 3 /\ z[1] = a /\ z[1 + 1] = b /\ z[1 + 2] = c
  <2>1. 1 \in 1..Len(x) /\ 1 \in 1..Len(y) /\ 2 \in 1..Len(y)
    BY <1>1
  <2> QED BY <1>1, <1>2, <2>1
<1>4. 1 + 1 = 2 /\ 1 + 2 = 3
  OBVIOUS
<1>5. z = <<a, b, c>>
  BY <1>2, <1>3, <1>4, Triple
<1> QED BY <1>5 DEF z, x, y

\* A list of nine fields is not taken for unsigned unless its last two are 0.
LEMMA SignedIsNotUnsigned ==
  ASSUME NEW w, w.type = 0, Len(w.fields) = 9, w.fields \in Seq(Nat),
         ~(w.fields[8] = 0 /\ w.fields[9] = 0)
  PROVE  Eth!IsUnsigned(w) = {}
<1> SUFFICES ASSUME NEW tx \in Eth!DecodeUnsigned(w), Eth!EncodedForSigning(tx) = w
             PROVE  FALSE
  BY DEF Eth!IsUnsigned
<1> DEFINE a == SubSeq(w.fields, 1, 6)
<1>1. tx = [type |-> 0, chain |-> <<w.fields[7]>>, body |-> a]
  BY DecodeUnsignedCases
<1>2. a \in Seq(Nat) /\ Len(a) = 6
  <2> DEFINE k == 1  n == 6
  <2>1. k = 1 /\ n = 6
    OBVIOUS
  <2> HIDE DEF k, n
  <2>2. k \in Nat \ {0} /\ n \in Nat /\ k <= n + 1 /\ n <= Len(w.fields) /\ n - k + 1 = 6
    BY <2>1
  <2>3. SubSeq(w.fields, k, n) \in Seq(Nat) /\ Len(SubSeq(w.fields, k, n)) = n - k + 1
    BY <2>2, Cut
  <2> QED BY <2>1, <2>2, <2>3
<1> HIDE DEF a
<1> DEFINE c == <<w.fields[7]>>  z == <<0, 0>>  ac == a \o c
<1>3. c \in Seq(Nat) /\ Len(c) = 1 /\ z \in Seq(Nat) /\ Len(z) = 2 /\ z[1] = 0 /\ z[2] = 0
      /\ c # <<>>
  <2>1. 7 \in 1..Len(w.fields)
    OBVIOUS
  <2>2. w.fields[7] \in Nat
    BY <2>1, ElementOfSeq
  <2> QED BY <2>2
<1>4. w.fields = ac \o z
  <2>1. tx.type = 0 /\ tx.chain = c /\ tx.body = a
    BY <1>1
  <2> HIDE DEF c
  <2>2. Eth!EncodedForSigning(tx).fields = a \o c \o <<0, 0>>
    BY <2>1, <1>3 DEF Eth!EncodedForSigning, Eth!Legacy
  <2> QED BY <2>2
<1> HIDE DEF c, z
<1>5. ac \in Seq(Nat) /\ Len(ac) = 7
  <2>1. ac \in Seq(Nat) /\ Len(ac) = Len(a) + Len(c)
    BY <1>2, <1>3, Joined
  <2> HIDE DEF ac
  <2> QED BY <2>1, <1>2, <1>3
<1> HIDE DEF ac
<1>6. \A i \in 1..Len(z) : (ac \o z)[Len(ac) + i] = z[i]
  BY <1>3, <1>5, Joined
<1>7. (ac \o z)[7 + 1] = 0 /\ (ac \o z)[7 + 2] = 0
  <2>1. 1 \in 1..Len(z) /\ 2 \in 1..Len(z)
    BY <1>3
  <2>2. (ac \o z)[Len(ac) + 1] = z[1] /\ (ac \o z)[Len(ac) + 2] = z[2]
    BY <1>6, <2>1
  <2> QED BY <1>3, <1>5, <2>2
<1>8. 7 + 1 = 8 /\ 7 + 2 = 9
  OBVIOUS
<1> QED BY <1>4, <1>7, <1>8

\* What is written signed is read as what it was.
LEMMA SignedIsRead ==
  ASSUME NEW tx, IsTransaction(tx), Parses(tx),
         NEW s, IsSignature(s), s # Eth!Unsigned, NEW w, w = Eth!Encoded2718(tx, s)
  PROVE  /\ IsWire(w) /\ w.type = tx.type /\ Eth!IsUnsigned(w) = {}
         /\ Eth!DecodeSigned(w) = {[tx |-> tx, signature |-> s]}
<1>0. /\ tx = [type |-> tx.type, chain |-> tx.chain, body |-> tx.body]
      /\ tx.type \in Nat /\ tx.body \in Seq(Nat) /\ tx.chain \in Seq(Nat)
      /\ Len(tx.body) = IF tx.type = 0 THEN 6 ELSE 7
  BY DEF IsTransaction, Eth!BodyOf, Eth!Legacy
<1>1. /\ s \in Seq(Nat) /\ Len(s) = 3 /\ s[1] \in {0, 1} /\ ~(s[2] = 0 /\ s[3] = 0)
  BY DEF IsSignature
<1>2. s = <<s[1], s[2], s[3]>> /\ s[2] \in Nat /\ s[3] \in Nat
  BY <1>1, Triple
<1>3. w = [type |-> w.type, fields |-> w.fields] /\ w.type = tx.type
  BY DEF Eth!Encoded2718
<1>a. CASE tx.type = 0
  <2> DEFINE v == Eth!V(tx, s[1])  z == <<v, s[2], s[3]>>
  <2>1. /\ v \in Nat
        /\ tx.chain = <<>> => v = 27 + s[1]
        /\ tx.chain # <<>> => v = 2 * tx.chain[1] + 35 + s[1]
    BY <1>1, ParsedFields DEF Eth!V
  <2> HIDE DEF v
  <2>2. z \in Seq(Nat) /\ Len(z) = 3 /\ z[1] = v /\ z[2] = s[2] /\ z[3] = s[3]
    BY <2>1, <1>2
  <2>3. w.fields = tx.body \o z
    BY <1>a DEF Eth!Encoded2718, Eth!Legacy, v
  <2> HIDE DEF z
  <2>4. Len(tx.body) = 6
    BY <1>0, <1>a
  <2> DEFINE f == w.fields
  <2>5. /\ f \in Seq(Nat) /\ Len(f) = Len(tx.body) + Len(z)
        /\ \A i \in 1..Len(tx.body) : f[i] = tx.body[i]
        /\ \A i \in 1..Len(z) : f[Len(tx.body) + i] = z[i]
    <3>1. tx.body \in Seq(Nat) /\ z \in Seq(Nat)
      BY <1>0, <2>2
    <3> QED BY ONLY <3>1, <2>3, Joined DEF f
  <2> HIDE DEF f
  <2>6. /\ f \in Seq(Nat) /\ Len(f) = 9 /\ \A i \in 1..Len(tx.body) : f[i] = tx.body[i]
        /\ f[6 + 1] = v /\ f[6 + 2] = s[2] /\ f[6 + 3] = s[3]
    BY <2>2, <2>4, <2>5
  <2>7. f[7] = v /\ f[8] = s[2] /\ f[9] = s[3]
    <3>1. 6 + 1 = 7 /\ 6 + 2 = 8 /\ 6 + 3 = 9
      OBVIOUS
    <3> QED BY <2>6, <3>1
  <2>8. IsWire(w)
    BY <1>0, <1>3, <2>6 DEF IsWire, f
  <2>9. Eth!IsUnsigned(w) = {}
    BY <1>1, <1>3, <1>a, <2>6, <2>7, SignedIsNotUnsigned DEF f
  <2>10. SubSeq(f, 1, 6) = tx.body
    <3>1. Len(tx.body) <= Len(f)
      BY <2>4, <2>6
    <3> QED BY <1>0, <2>4, <2>6, <3>1, FirstPart
  <2>11. ASSUME NEW p, p = s[1] PROVE <<p>> \o SubSeq(f, 8, 9) = s
    <3> DEFINE rs == SubSeq(f, 8, 9)
    <3>1. rs \in Seq(Nat) /\ Len(rs) = 2 /\ \A i \in 1..2 : rs[i] = f[7 + i]
      <4> DEFINE k == 8  n == 9
      <4>1. k = 8 /\ n = 9
        OBVIOUS
      <4> HIDE DEF k, n
      <4>2. k \in Nat \ {0} /\ n \in Nat /\ k <= n + 1 /\ n <= Len(f)
            /\ n - k + 1 = 2 /\ k - 1 = 7
        BY <2>6, <4>1
      <4> DEFINE c == SubSeq(f, k, n)
      <4>3. /\ c \in Seq(Nat) /\ Len(c) = n - k + 1
            /\ \A i \in 1..(n - k + 1) : c[i] = f[k - 1 + i]
        BY <2>6, <4>2, Cut
      <4>4. c = rs
        BY <4>1
      <4> HIDE DEF c, rs
      <4> QED BY <4>2, <4>3, <4>4
    <3> HIDE DEF rs
    <3>2. rs[1] = s[2] /\ rs[2] = s[3]
      BY <3>1, <2>7
    <3>3. rs = <<s[2], s[3]>>
      BY <3>1, <3>2, Pair
    <3>4. <<p>> \o <<s[2], s[3]>> = s
      BY <2>11, <1>2
    <3> QED BY <3>3, <3>4 DEF rs
  <2>12. CASE tx.chain = <<>>
    <3>1. v = 27 + s[1] /\ v < 35 /\ v \in {27, 28} /\ v - 27 = s[1]
      BY <2>1, <2>12, <1>1
    <3>2. Eth!DecodeSigned(w)
            = {[tx |-> [type |-> 0, chain |-> <<>>, body |-> SubSeq(f, 1, 6)],
                signature |-> <<v - 27>> \o SubSeq(f, 8, 9)]}
      <4>1. w.type = 0 /\ Len(w.fields) = 9 /\ v = w.fields[7]
        BY <1>3, <1>a, <2>6, <2>7 DEF f
      <4> QED BY ONLY <2>8, <3>1, <4>1, DecodeSignedCases DEF f
    <3> QED BY <1>0, <1>3, <1>a, <2>8, <2>9, <2>10, <2>11, <2>12, <3>1, <3>2
  <2>13. CASE tx.chain # <<>>
    <3> DEFINE c == tx.chain[1]
    <3>1. tx.chain = <<c>> /\ c \in Nat /\ c <= MaxU64
      BY <2>13, ParsedFields
    <3>2. v >= 35 /\ (v - 35) \div 2 = c /\ (v - 35) % 2 = s[1]
      <4>1. v = 2 * c + 35 + s[1]
        BY <2>1, <2>13
      <4> HIDE DEF c
      <4> QED BY <1>1, <3>1, <4>1, ParityOfV
    <3> HIDE DEF c
    <3>3. Eth!DecodeSigned(w)
            = {[tx |-> [type |-> 0, chain |-> <<(v - 35) \div 2>>, body |-> SubSeq(f, 1, 6)],
                signature |-> <<(v - 35) % 2>> \o SubSeq(f, 8, 9)]}
      <4>1. w.type = 0 /\ Len(w.fields) = 9 /\ v = w.fields[7] /\ c \in Nat /\ c <= MaxU64
        BY <1>3, <1>a, <2>6, <2>7, <3>1 DEF f
      <4> QED BY ONLY <2>8, <3>2, <4>1, DecodeSignedCases DEF f
    <3> QED BY <1>0, <1>3, <1>a, <2>8, <2>9, <2>10, <2>11, <3>1, <3>2, <3>3
  <2> QED BY <2>12, <2>13
<1>b. CASE tx.type # 0
  <2>1. tx.chain = <<tx.chain[1]>> /\ tx.chain[1] \in Nat /\ tx.chain[1] <= MaxU64
        /\ Len(tx.chain) = 1 /\ Len(tx.body) = 7
    BY <1>0, <1>b, ParsedFields
  <2> DEFINE cb == tx.chain \o tx.body  f == w.fields
  <2>2. f = cb \o s
    BY <1>b DEF Eth!Encoded2718, Eth!Legacy
  <2>3. /\ cb \in Seq(Nat) /\ Len(cb) = Len(tx.chain) + Len(tx.body)
        /\ \A i \in 1..Len(tx.chain) : cb[i] = tx.chain[i]
        /\ \A i \in 1..Len(tx.body) : cb[Len(tx.chain) + i] = tx.body[i]
    BY <1>0, Joined
  <2> HIDE DEF cb, f
  <2>4. /\ cb \in Seq(Nat) /\ Len(cb) = 8 /\ cb[1] = tx.chain[1]
        /\ \A i \in 1..7 : cb[1 + i] = tx.body[i]
    BY <2>1, <2>3
  <2>5. /\ f \in Seq(Nat) /\ Len(f) = Len(cb) + Len(s)
        /\ \A i \in 1..Len(cb) : f[i] = cb[i]
        /\ \A i \in 1..Len(s) : f[Len(cb) + i] = s[i]
    <3>1. cb \in Seq(Nat) /\ s \in Seq(Nat)
      BY <1>1, <2>4
    <3> QED BY ONLY <3>1, <2>2, Joined
  <2>6. /\ f \in Seq(Nat) /\ Len(f) = 11 /\ f[1] = tx.chain[1]
        /\ \A i \in 1..7 : f[1 + i] = tx.body[i]
        /\ \A i \in 1..3 : f[8 + i] = s[i]
    <3>1. \A i \in 1..7 : 1 + i \in 1..8
      OBVIOUS
    <3> QED BY <1>1, <2>4, <2>5, <3>1
  <2>7. IsWire(w)
    BY <1>0, <1>3, <2>6 DEF IsWire, f
  <2>8. Eth!IsUnsigned(w) = {}
    <3>1. w.type # 0 /\ Len(w.fields) # 8
      BY <1>3, <1>b, <2>6 DEF f
    <3>2. Eth!DecodeUnsigned(w) = {}
      BY <3>1, DecodeUnsignedCases
    <3> QED BY <3>2 DEF Eth!IsUnsigned
  <2>9. SubSeq(f, 2, 8) = tx.body
    <3> DEFINE k == 2  n == 8
    <3>1. k = 2 /\ n = 8
      OBVIOUS
    <3> HIDE DEF k, n
    <3>2. k - 1 = 1 /\ k \in Nat \ {0} /\ n \in Nat /\ n = k - 1 + Len(tx.body) /\ n <= Len(f)
      BY <2>1, <2>6, <3>1
    <3>3. \A i \in 1..Len(tx.body) : f[k - 1 + i] = tx.body[i]
      BY <2>1, <2>6, <3>2
    <3>4. SubSeq(f, k, n) = tx.body
      BY <1>0, <2>6, <3>2, <3>3, CutOf
    <3> QED BY <3>1, <3>4
  <2>10. SubSeq(f, 9, 11) = s
    <3> DEFINE k == 9  n == 11
    <3>1. k = 9 /\ n = 11
      OBVIOUS
    <3> HIDE DEF k, n
    <3>2. k - 1 = 8 /\ k \in Nat \ {0} /\ n \in Nat /\ n = k - 1 + Len(s) /\ n <= Len(f)
      BY <1>1, <2>6, <3>1
    <3>3. \A i \in 1..Len(s) : f[k - 1 + i] = s[i]
      BY <1>1, <2>6, <3>2
    <3>4. SubSeq(f, k, n) = s
      BY <1>1, <2>6, <3>2, <3>3, CutOf
    <3> QED BY <3>1, <3>4
  <2>11. f[9] = s[1]
    <3>1. f[8 + 1] = s[1] /\ 8 + 1 = 9
      BY <2>6
    <3> QED BY <3>1
  <2>12. Eth!DecodeSigned(w)
           = {[tx |-> [type |-> w.type, chain |-> <<f[1]>>, body |-> SubSeq(f, 2, 8)],
               signature |-> SubSeq(f, 9, 11)]}
    BY <1>1, <1>3, <1>b, <2>1, <2>6, <2>7, <2>11, DecodeSignedCases DEF f
  <2> QED BY <1>0, <1>3, <2>1, <2>6, <2>7, <2>8, <2>9, <2>10, <2>12
<1> QED BY <1>a, <1>b

\* What is recognised as unsigned was written so.
LEMMA UnsignedIsRead ==
  ASSUME NEW w, IsWire(w), w.type \in 0..4, NEW tx \in Eth!IsUnsigned(w)
  PROVE  Parses(tx) /\ Eth!EncodedForSigning(tx) = w
<1>1. Eth!EncodedForSigning(tx) = w /\ tx \in Eth!DecodeUnsigned(w)
  BY DEF Eth!IsUnsigned
<1>2. /\ tx.type = w.type /\ (tx.type # 0 => tx.chain # <<>>)
      /\ tx.chain # <<>> => tx.chain[1] <= MaxU64 /\ tx.chain[1] \in Nat
  <2>1. w.fields \in Seq(Nat)
    BY DEF IsWire
  <2>2. CASE w.type = 0 /\ Len(w.fields) = 6
    <3>1. tx.type = 0 /\ tx.chain = <<>>
      BY <1>1, <2>2, DecodeUnsignedCases
    <3> QED BY <2>2, <3>1
  <2>3. CASE w.type = 0 /\ Len(w.fields) = 9
    <3>1. 7 \in 1..Len(w.fields)
      BY <2>3
    <3>2. w.fields[7] \in Nat
      BY <2>1, <3>1, ElementOfSeq
    <3>3. tx.type = 0 /\ tx.chain = <<w.fields[7]>> /\ w.fields[7] <= MaxU64
      BY <1>1, <2>3, DecodeUnsignedCases
    <3> QED BY <2>3, <3>2, <3>3
  <2>4. CASE w.type # 0 /\ Len(w.fields) = 8
    <3>1. 1 \in 1..Len(w.fields)
      BY <2>4
    <3>2. w.fields[1] \in Nat
      BY <2>1, <3>1, ElementOfSeq
    <3>3. tx.type = w.type /\ tx.chain = <<w.fields[1]>> /\ w.fields[1] <= MaxU64
      BY <1>1, <2>4, DecodeUnsignedCases
    <3> QED BY <2>4, <3>2, <3>3
  <2> QED BY <1>1, <2>2, <2>3, <2>4, DecodeUnsignedCases
<1>3. Parses(tx)
  BY <1>2, LimitsOfWire DEF Parses, Eth!Parse, Eth!Legacy
<1> QED BY <1>1, <1>3

\* What is read as signed was written so.
LEMMA SignedIsWritten ==
  ASSUME NEW w, IsWire(w), w.type \in 0..4, NEW e \in Eth!DecodeSigned(w)
  PROVE  /\ Parses(e.tx) /\ e.signature # Eth!Unsigned
         /\ Eth!Encoded2718(e.tx, e.signature) = w
<1> DEFINE f == w.fields  v == f[7]
<1>0. f \in Seq(Nat) /\ w = [type |-> w.type, fields |-> f]
  BY DEF IsWire
<1>a. CASE w.type = 0
  <2>1. Len(f) = 9
    BY <1>a, DecodeSignedCases
  <2>2. 7 \in 1..Len(f) /\ 8 \in 1..Len(f) /\ 9 \in 1..Len(f)
    BY <2>1
  <2>3. v \in Nat /\ f[8] \in Nat /\ f[9] \in Nat
    BY <1>0, <2>2, ElementOfSeq
  <2> DEFINE a == SubSeq(f, 1, 6)  rs == SubSeq(f, 8, 9)
  <2>4. rs = <<f[8], f[9]>>
    <3> DEFINE k == 8  n == 9
    <3>1. k = 8 /\ n = 9
      OBVIOUS
    <3> HIDE DEF k, n
    <3>2. k \in Nat \ {0} /\ n \in Nat /\ k <= n + 1 /\ n <= Len(f)
          /\ n - k + 1 = 2 /\ k - 1 = 7
      BY <2>1, <3>1
    <3> DEFINE c == SubSeq(f, k, n)
    <3>3. /\ c \in Seq(Nat) /\ Len(c) = n - k + 1
          /\ \A i \in 1..(n - k + 1) : c[i] = f[k - 1 + i]
      BY <1>0, <3>2, Cut
    <3>4. c = rs
      BY <3>1
    <3> HIDE DEF c, rs
    <3>5. rs \in Seq(Nat) /\ Len(rs) = 2 /\ rs[1] = f[7 + 1] /\ rs[2] = f[7 + 2]
      <4>1. rs \in Seq(Nat) /\ Len(rs) = 2 /\ \A i \in 1..2 : rs[i] = f[7 + i]
        BY <3>2, <3>3, <3>4
      <4> QED BY ONLY <4>1
    <3>6. 7 + 1 = 8 /\ 7 + 2 = 9
      OBVIOUS
    <3> QED BY <3>5, <3>6, Pair
  <2>5. f = a \o <<v, f[8], f[9]>>
    <3> DEFINE n == 6  b == SubSeq(f, n + 1, Len(f))
    <3>1. n = 6
      OBVIOUS
    <3> HIDE DEF n
    <3>2. f = SubSeq(f, 1, n) \o b
      BY <1>0, <2>1, <3>1, CutAndJoined
    <3>3. n + 1 \in Nat \ {0} /\ Len(f) \in Nat /\ n + 1 <= Len(f) + 1
          /\ Len(f) - (n + 1) + 1 = 3 /\ (n + 1) - 1 = 6
      BY <2>1, <3>1
    <3>4. /\ b \in Seq(Nat) /\ Len(b) = Len(f) - (n + 1) + 1
          /\ \A i \in 1..(Len(f) - (n + 1) + 1) : b[i] = f[(n + 1) - 1 + i]
      <4> DEFINE k == n + 1  m == Len(f)
      <4>1. f \in Seq(Nat) /\ k \in Nat \ {0} /\ m \in Nat /\ k <= m + 1 /\ m <= Len(f)
        BY <1>0, <3>3
      <4> HIDE DEF k, m
      <4>2. /\ SubSeq(f, k, m) \in Seq(Nat) /\ Len(SubSeq(f, k, m)) = m - k + 1
            /\ \A i \in 1..(m - k + 1) : SubSeq(f, k, m)[i] = f[k - 1 + i]
        BY <4>1, Cut
      <4> QED BY <4>2 DEF k, m, b
    <3> HIDE DEF b, f
    <3>5. b \in Seq(Nat) /\ Len(b) = 3
          /\ b[1] = f[6 + 1] /\ b[2] = f[6 + 2] /\ b[3] = f[6 + 3]
      BY <3>3, <3>4
    <3>6. 6 + 1 = 7 /\ 6 + 2 = 8 /\ 6 + 3 = 9
      OBVIOUS
    <3>7. b = <<f[7], f[8], f[9]>>
      BY <3>5, <3>6, Triple
    <3> QED BY <3>1, <3>2, <3>7
  <2> HIDE DEF a, rs
  <2>6. ASSUME NEW c, NEW p \in {0, 1}, p \in Nat,
               e = [tx |-> [type |-> 0, chain |-> c, body |-> a], signature |-> <<p>> \o rs],
               Eth!V(e.tx, p) = v, Parses(e.tx)
        PROVE  /\ Parses(e.tx) /\ e.signature # Eth!Unsigned
               /\ Eth!Encoded2718(e.tx, e.signature) = w
    <3>1. <<p>> \o <<f[8], f[9]>> = <<p, f[8], f[9]>>
      BY <2>3, <2>6, Prepended
    <3>2. e.signature = <<p, f[8], f[9]>> /\ e.tx.type = 0 /\ e.tx.body = a
      BY <2>4, <2>6, <3>1
    <3>3. e.signature # Eth!Unsigned
      BY <3>2 DEF Eth!Unsigned
    <3>4. e.signature[1] = p /\ e.signature[2] = f[8] /\ e.signature[3] = f[9]
      BY <3>2
    <3>5. Eth!Encoded2718(e.tx, e.signature)
            = [type |-> 0, fields |-> a \o <<Eth!V(e.tx, p), f[8], f[9]>>]
      BY <3>2, <3>4 DEF Eth!Encoded2718, Eth!Legacy
    <3> QED BY <1>0, <1>a, <2>5, <2>6, <3>3, <3>5
  <2>7. CASE v < 35
    <3>1. v \in {27, 28} /\ v - 27 \in {0, 1}
          /\ e = [tx |-> [type |-> 0, chain |-> <<>>, body |-> a],
                  signature |-> <<v - 27>> \o rs]
      <4>1. Eth!DecodeSigned(w)
              = IF v \in {27, 28}
                THEN {[tx |-> [type |-> 0, chain |-> <<>>, body |-> a],
                       signature |-> <<v - 27>> \o rs]}
                ELSE {}
        BY <1>a, <2>1, <2>7, DecodeSignedCases DEF a, rs
      <4>2. v \in {27, 28}
        BY <4>1
      <4>3. v - 27 \in {0, 1}
        BY <4>2
      <4> QED BY <4>1, <4>2, <4>3
    <3>2. e.tx.type = 0 /\ e.tx.chain = <<>>
      BY <3>1
    <3>3. Eth!V(e.tx, v - 27) = v
      BY <2>3, <3>2 DEF Eth!V
    <3>4. Parses(e.tx)
      BY <3>2 DEF Parses, Eth!Parse, Eth!Legacy
    <3> QED BY <2>6, <3>1, <3>3, <3>4
  <2>8. CASE v >= 35
    <3> DEFINE c == (v - 35) \div 2  p == (v - 35) % 2
    <3>1. c \in Nat /\ p \in {0, 1} /\ 2 * c + 35 + p = v
      BY <2>3, <2>8, VOfParity
    <3>2. c <= MaxU64
          /\ e = [tx |-> [type |-> 0, chain |-> <<c>>, body |-> a], signature |-> <<p>> \o rs]
      <4>1. Eth!DecodeSigned(w)
              = IF c <= MaxU64
                THEN {[tx |-> [type |-> 0, chain |-> <<c>>, body |-> a],
                       signature |-> <<p>> \o rs]}
                ELSE {}
        BY <1>a, <2>1, <2>8, DecodeSignedCases DEF a, rs
      <4> QED BY <4>1
    <3> HIDE DEF c, p
    <3>3. e.tx.type = 0 /\ e.tx.chain = <<c>> /\ e.tx.chain # <<>> /\ e.tx.chain[1] = c
      BY <3>2
    <3>4. Eth!V(e.tx, p) = v
      BY <3>1, <3>3 DEF Eth!V
    <3>5. Parses(e.tx)
      BY <3>1, <3>2, <3>3, LimitsOfWire DEF Parses, Eth!Parse, Eth!Legacy
    <3> QED BY <2>6, <3>1, <3>2, <3>4, <3>5
  <2> QED BY <2>3, <2>7, <2>8
<1>b. CASE w.type # 0
  <2>1. /\ Len(f) = 11 /\ f[1] <= MaxU64
        /\ e = [tx |-> [type |-> w.type, chain |-> <<f[1]>>, body |-> SubSeq(f, 2, 8)],
                signature |-> SubSeq(f, 9, 11)]
    BY <1>b, DecodeSignedCases
  <2>2. 1 \in 1..Len(f)
    BY <2>1
  <2>3. f[1] \in Nat
    BY <1>0, <2>2, ElementOfSeq
  <2> DEFINE b == SubSeq(f, 2, 8)  s == SubSeq(f, 9, 11)  c == <<f[1]>>
  <2>4. b \in Seq(Nat) /\ Len(b) = 7 /\ \A i \in 1..7 : b[i] = f[1 + i]
    <3> DEFINE k == 2  n == 8
    <3>1. k = 2 /\ n = 8
      OBVIOUS
    <3> HIDE DEF k, n
    <3>2. k \in Nat \ {0} /\ n \in Nat /\ k <= n + 1 /\ n <= Len(f)
          /\ n - k + 1 = 7 /\ k - 1 = 1
      BY <2>1, <3>1
    <3> DEFINE d == SubSeq(f, k, n)
    <3>3. /\ d \in Seq(Nat) /\ Len(d) = n - k + 1
          /\ \A i \in 1..(n - k + 1) : d[i] = f[k - 1 + i]
      BY <1>0, <3>2, Cut
    <3>4. d = b
      BY <3>1
    <3> HIDE DEF d, b
    <3> QED BY <3>2, <3>3, <3>4
  <2>5. s \in Seq(Nat) /\ Len(s) = 3 /\ \A i \in 1..3 : s[i] = f[8 + i]
    <3> DEFINE k == 9  n == 11
    <3>1. k = 9 /\ n = 11
      OBVIOUS
    <3> HIDE DEF k, n
    <3>2. k \in Nat \ {0} /\ n \in Nat /\ k <= n + 1 /\ n <= Len(f)
          /\ n - k + 1 = 3 /\ k - 1 = 8
      BY <2>1, <3>1
    <3> DEFINE d == SubSeq(f, k, n)
    <3>3. /\ d \in Seq(Nat) /\ Len(d) = n - k + 1
          /\ \A i \in 1..(n - k + 1) : d[i] = f[k - 1 + i]
      BY <1>0, <3>2, Cut
    <3>4. d = s
      BY <3>1
    <3> HIDE DEF d, s
    <3> QED BY <3>2, <3>3, <3>4
  <2>6. c \in Seq(Nat) /\ Len(c) = 1 /\ c[1] = f[1] /\ c # <<>>
    BY <2>3
  <2>7. e.tx.type = w.type /\ e.tx.chain = c /\ e.tx.body = b /\ e.signature = s
    BY <2>1
  <2> HIDE DEF b, s, c
  <2>8. c \o b \o s = f
    <3> DEFINE cb == c \o b
    <3>1. /\ cb \in Seq(Nat) /\ Len(cb) = Len(c) + Len(b)
          /\ \A i \in 1..Len(c) : cb[i] = c[i]
          /\ \A i \in 1..Len(b) : cb[Len(c) + i] = b[i]
      BY ONLY <2>4, <2>6, Joined DEF cb
    <3> HIDE DEF cb
    <3>2. cb \in Seq(Nat) /\ Len(cb) = 8 /\ \A i \in 1..8 : cb[i] = f[i]
      <4>1. cb[1] = f[1]
        BY <2>6, <3>1
      <4>2. \A i \in 1..7 : cb[1 + i] = f[1 + i]
        BY <2>4, <2>6, <3>1
      <4>3. ASSUME NEW i \in 1..8, i # 1 PROVE cb[i] = f[i]
        <5>1. i - 1 \in 1..7 /\ 1 + (i - 1) = i
          BY <4>3
        <5> QED BY <4>2, <5>1
      <4> QED BY <2>4, <2>6, <3>1, <4>1, <4>3
    <3> DEFINE g == cb \o s
    <3>3. /\ g \in Seq(Nat) /\ Len(g) = Len(cb) + Len(s)
          /\ \A i \in 1..Len(cb) : g[i] = cb[i]
          /\ \A i \in 1..Len(s) : g[Len(cb) + i] = s[i]
      BY ONLY <2>5, <3>2, Joined DEF g
    <3> HIDE DEF g
    <3>4. Len(g) = 11
      BY <2>5, <3>2, <3>3
    <3>5. ASSUME NEW i \in 1..11 PROVE g[i] = f[i]
      <4>1. CASE i \in 1..8
        BY <3>2, <3>3, <4>1
      <4>2. CASE i \notin 1..8
        <5>1. i - 8 \in 1..3 /\ 8 + (i - 8) = i
          BY <4>2
        <5>2. g[8 + (i - 8)] = s[i - 8] /\ s[i - 8] = f[8 + (i - 8)]
          BY <2>5, <3>2, <3>3, <5>1
        <5> QED BY <5>1, <5>2
      <4> QED BY <4>1, <4>2
    <3>6. g = f
      <4>1. f \in Seq(Nat) /\ g \in Seq(Nat) /\ Len(g) = Len(f)
            /\ \A i \in 1..Len(g) : g[i] = f[i]
        BY <1>0, <2>1, <3>3, <3>4, <3>5
      <4> HIDE DEF f
      <4> QED BY ONLY <4>1, SeqEqual
    <3> QED BY <3>6 DEF g, cb
  <2>9. Parses(e.tx)
    <3>1. e.tx.chain # <<>> /\ e.tx.chain[1] \in Nat /\ e.tx.chain[1] <= MaxU64
      BY <2>1, <2>3, <2>6, <2>7
    <3> QED BY <1>b, <2>7, <3>1, LimitsOfWire DEF Parses, Eth!Parse, Eth!Legacy
  <2>10. e.signature # Eth!Unsigned
    <3>1. ASSUME s = <<>> PROVE FALSE
      <4>1. Len(s) = 0
        BY <3>1
      <4> QED BY <2>5, <4>1
    <3> QED BY <2>7, <3>1 DEF Eth!Unsigned
  <2>11. Eth!Encoded2718(e.tx, e.signature) = [type |-> w.type, fields |-> f]
    BY <1>b, <2>7, <2>8 DEF Eth!Encoded2718, Eth!Legacy
  <2> QED BY <1>0, <2>9, <2>10, <2>11
<1> QED BY <1>a, <1>b

\* What Encode writes, Decode reads.
LEMMA EncodeThenDecode ==
  ASSUME NEW tx, NEW s, IsTransaction(tx), IsSignature(s),
         NEW a, a = Eth!Encode(tx, s), a.tag = "ok"
  PROVE  LET d == Eth!Decode(a.wire)
         IN  IF Eth!RlpItems(a.wire) > RlpNodes THEN d.tag = "value_limit"
             ELSE IF tx.type = 0 /\ tx.chain = <<>> /\ s = <<>>
             THEN d.tag = "invalid_legacy_payload"
             ELSE d.tag = "ok" /\ d.tx = tx /\ d.signature = s
<1> DEFINE w == a.wire  d == Eth!Decode(w)
<1>1. Parses(tx)
  BY DEF Eth!Encode, Parses
<1>2. w = IF s = Eth!Unsigned THEN Eth!EncodedForSigning(tx) ELSE Eth!Encoded2718(tx, s)
  BY <1>1 DEF Eth!Encode, Parses
<1>3. tx.type \in 0..4
  BY <1>1, ParsedFields
<1> HIDE DEF w
<1>4. CASE Eth!RlpItems(w) > RlpNodes
  <2>1. w.type \in 0..4
    <3>1. w.type = tx.type
      BY <1>2 DEF Eth!EncodedForSigning, Eth!Encoded2718
    <3> QED BY <1>3, <3>1
  <2>2. d.tag = "value_limit"
    BY <1>4, <2>1 DEF Eth!Decode, Eth!Error
  <2> QED BY <1>4, <2>2 DEF w
<1>5. CASE ~(Eth!RlpItems(w) > RlpNodes) /\ s = Eth!Unsigned
  <2>1. w.type = tx.type /\ Eth!IsUnsigned(w) = {tx}
    BY <1>1, <1>2, <1>5, SigningFields, UnsignedIsRecognised
  <2>2. d = IF tx.type # 0 THEN Eth!Value(tx, <<>>, Eth!Unsigned)
            ELSE IF tx.chain = <<>> THEN Eth!Error("invalid_legacy_payload")
            ELSE Eth!Value(tx, tx.chain \o <<0, 0>>, Eth!Unsigned)
    <3>1. {tx} # {} /\ (CHOOSE x \in {tx} : TRUE) = tx
      OBVIOUS
    <3> QED BY <1>3, <1>5, <2>1, <3>1 DEF Eth!Decode, Eth!Legacy
  <2>3. CASE tx.type = 0 /\ tx.chain = <<>>
    <3>1. d.tag = "invalid_legacy_payload"
      BY <2>2, <2>3 DEF Eth!Error
    <3> QED BY <1>5, <2>3, <3>1 DEF w, Eth!Unsigned
  <2>4. CASE ~(tx.type = 0 /\ tx.chain = <<>>)
    <3>1. d.tag = "ok" /\ d.tx = tx /\ d.signature = Eth!Unsigned
      BY <2>2, <2>4 DEF Eth!Value
    <3> QED BY <1>5, <2>4, <3>1 DEF w
  <2> QED BY <2>3, <2>4
<1>6. CASE ~(Eth!RlpItems(w) > RlpNodes) /\ s # Eth!Unsigned
  <2> DEFINE e == [tx |-> tx, signature |-> s]
  <2>1. w.type = tx.type /\ Eth!IsUnsigned(w) = {} /\ Eth!DecodeSigned(w) = {e}
    BY <1>1, <1>2, <1>6, SignedIsRead
  <2>2. d = Eth!DecodedEnvelope(w)
    BY <1>3, <1>6, <2>1 DEF Eth!Decode
  <2>3. {e} # {} /\ (CHOOSE x \in {e} : TRUE) = e
    OBVIOUS
  <2>4. e.tx = tx /\ e.signature = s
    OBVIOUS
  <2>5. ~(Tail(s) = <<0, 0>>)
    <3>1. s \in Seq(Nat) /\ Len(s) = 3 /\ ~(s[2] = 0 /\ s[3] = 0)
      BY <1>6 DEF IsSignature
    <3>2. s # <<>>
      BY <1>6 DEF Eth!Unsigned
    <3> DEFINE t == Tail(s)
    <3>3. t \in Seq(Nat) /\ Len(t) = Len(s) - 1 /\ \A i \in 1..Len(t) : t[i] = s[i + 1]
      BY <3>1, <3>2, HeadTailProperties
    <3> HIDE DEF t
    <3>4. Len(t) = 2 /\ 1 \in 1..Len(t) /\ 2 \in 1..Len(t)
      BY <3>1, <3>3
    <3>5. t[1] = s[1 + 1] /\ t[2] = s[2 + 1]
      BY ONLY <3>3, <3>4
    <3>6. 1 + 1 = 2 /\ 2 + 1 = 3
      OBVIOUS
    <3>7. ASSUME t = <<0, 0>> PROVE FALSE
      <4>1. t[1] = 0 /\ t[2] = 0
        BY <3>7
      <4> QED BY <3>1, <3>5, <3>6, <4>1
    <3> QED BY <3>7 DEF t
  <2> HIDE DEF e
  <2>6. \E vrs : d = Eth!Value(tx, vrs, s)
    <3>1. CASE w.type # 0
      <4>1. d = Eth!Value(e.tx, <<>>, e.signature)
        BY <2>1, <2>2, <2>3, <3>1 DEF Eth!DecodedEnvelope, Eth!Legacy
      <4> QED BY <2>4, <4>1
    <3>2. CASE w.type = 0
      <4>1. d = Eth!Value(e.tx, <<Eth!V(e.tx, e.signature[1])>> \o Tail(e.signature),
                          e.signature)
        BY <2>1, <2>2, <2>3, <2>4, <2>5, <3>2 DEF Eth!DecodedEnvelope, Eth!Legacy
      <4> QED BY <2>4, <4>1
    <3> QED BY <3>1, <3>2
  <2>7. d.tag = "ok" /\ d.tx = tx /\ d.signature = s
    BY <2>6 DEF Eth!Value
  <2> QED BY <1>6, <2>7 DEF w, Eth!Unsigned
<1> QED BY <1>4, <1>5, <1>6

\* What Decode takes, Encode writes again.
LEMMA DecodeThenEncode ==
  ASSUME NEW w, IsWire(w), NEW d, d = Eth!Decode(w), d.tag = "ok"
  PROVE  Eth!Encode(d.tx, d.signature) = [tag |-> "ok", wire |-> w]
<1>1. w.type \in 0..4 /\ ~(Eth!RlpItems(w) > RlpNodes)
  BY DEF Eth!Decode, Eth!Error
<1>2. CASE Eth!IsUnsigned(w) # {}
  <2> DEFINE tx == CHOOSE tx \in Eth!IsUnsigned(w) : TRUE
  <2>1. tx \in Eth!IsUnsigned(w)
    BY <1>2
  <2>2. d = IF tx.type # 0 THEN Eth!Value(tx, <<>>, Eth!Unsigned)
            ELSE IF tx.chain = <<>> THEN Eth!Error("invalid_legacy_payload")
            ELSE Eth!Value(tx, tx.chain \o <<0, 0>>, Eth!Unsigned)
    BY <1>1, <1>2 DEF Eth!Decode, Eth!Legacy
  <2> HIDE DEF tx
  <2>3. d.tx = tx /\ d.signature = Eth!Unsigned
    BY <2>2 DEF Eth!Value, Eth!Error
  <2>4. Parses(tx) /\ Eth!EncodedForSigning(tx) = w
    BY <1>1, <2>1, UnsignedIsRead
  <2> QED BY <2>3, <2>4 DEF Eth!Encode, Parses
<1>3. CASE Eth!IsUnsigned(w) = {}
  <2> DEFINE e == CHOOSE e \in Eth!DecodeSigned(w) : TRUE
  <2>1. d = Eth!DecodedEnvelope(w)
    BY <1>1, <1>3 DEF Eth!Decode
  <2>2. Eth!DecodeSigned(w) # {}
    BY <2>1 DEF Eth!DecodedEnvelope, Eth!Error
  <2>3. e \in Eth!DecodeSigned(w)
    BY <2>2
  <2>4. \E vrs : d = Eth!Value(e.tx, vrs, e.signature)
    <3>1. CASE w.type # 0
      <4>1. d = Eth!Value(e.tx, <<>>, e.signature)
        BY <2>1, <2>2, <3>1 DEF Eth!DecodedEnvelope, Eth!Legacy
      <4> QED BY <4>1
    <3>2. CASE w.type = 0
      <4>1. \/ d = Eth!Error("chain_id")
            \/ d = Eth!Value(e.tx, <<Eth!V(e.tx, e.signature[1])>> \o Tail(e.signature),
                             e.signature)
        BY <2>1, <2>2, <3>2 DEF Eth!DecodedEnvelope, Eth!Legacy
      <4>2. Eth!Error("chain_id").tag # "ok"
        BY DEF Eth!Error
      <4> QED BY <4>1, <4>2
    <3> QED BY <3>1, <3>2
  <2> HIDE DEF e
  <2>5. d.tx = e.tx /\ d.signature = e.signature
    BY <2>4 DEF Eth!Value
  <2>6. /\ Parses(e.tx) /\ e.signature # Eth!Unsigned
        /\ Eth!Encoded2718(e.tx, e.signature) = w
    BY <1>1, <2>3, SignedIsWritten
  <2> QED BY <2>5, <2>6 DEF Eth!Encode, Parses
<1> QED BY <1>2, <1>3

-----------------------------------------------------------------------------
(* Tempo transactions                                                      *)

IsTempoTx(tx) == tx = [token |-> tx.token, payer |-> tx.payer, rest |-> tx.rest]

IsTempoWire(w) ==
  /\ w = [tx |-> w.tx, signature |-> w.signature, bad |-> w.bad]
  /\ IsTempoTx(w.tx) /\ w.bad \in BOOLEAN

LEMMA TempoTxWith ==
  ASSUME NEW tx, IsTempoTx(tx), NEW p, NEW t
  PROVE  /\ [tx EXCEPT !.payer = p] = [token |-> tx.token, payer |-> p, rest |-> tx.rest]
         /\ [tx EXCEPT !.token = t] = [token |-> t, payer |-> tx.payer, rest |-> tx.rest]
<1> DEFINE a == tx.token  b == tx.payer  c == tx.rest
<1>1. tx = [token |-> a, payer |-> b, rest |-> c]
  BY DEF IsTempoTx
<1> HIDE DEF a, b, c
<1>2. /\ [tx EXCEPT !.payer = p] = [token |-> a, payer |-> p, rest |-> c]
      /\ [tx EXCEPT !.token = t] = [token |-> t, payer |-> b, rest |-> c]
  BY <1>1
<1> QED BY <1>2 DEF a, b, c

\* What is decoded is what was on the wire, the marker apart.
LEMMA TempoDecoded ==
  ASSUME NEW w, IsTempoWire(w), NEW d \in Tempo!Decode(w)
  PROVE  /\ w.bad = FALSE /\ IsTempoTx(d.tx) /\ d.signature = w.signature
         /\ d.placeholder = (w.tx.payer = Tempo!Marker)
         /\ d.tx = IF w.tx.payer = Tempo!Marker THEN [w.tx EXCEPT !.payer = Tempo!Zero]
                   ELSE w.tx
<1> DEFINE p == w.tx.payer = Tempo!Marker
           x == [w EXCEPT !.tx.payer = IF p THEN Tempo!NoPayer ELSE @]
<1>1. /\ x.bad = w.bad /\ x.signature = w.signature
      /\ x.tx = [w.tx EXCEPT !.payer = IF p THEN Tempo!NoPayer ELSE @]
  BY DEF IsTempoWire, IsTempoTx
<1>2. PICK e \in Tempo!RlpDecode(x) :
        d = [tx |-> IF p THEN [e.tx EXCEPT !.payer = Tempo!Zero] ELSE e.tx,
             signature |-> e.signature, placeholder |-> p]
  BY DEF Tempo!Decode
<1> HIDE DEF x
<1>3. x.bad = FALSE /\ e.tx = x.tx /\ e.signature = x.signature
  BY <1>1, <1>2 DEF Tempo!RlpDecode, IsTempoWire
<1>4. d.signature = w.signature /\ d.placeholder = p
  BY <1>1, <1>2, <1>3
<1>5. d.tx = IF p THEN [w.tx EXCEPT !.payer = Tempo!Zero] ELSE w.tx
  BY <1>1, <1>2, <1>3 DEF IsTempoWire, IsTempoTx
<1>6. IsTempoTx(d.tx)
  BY <1>5 DEF IsTempoWire, IsTempoTx
<1> QED BY <1>1, <1>3, <1>4, <1>5, <1>6

\* Reading and writing again gives what was there.
LEMMA TempoRoundTrips ==
  ASSUME NEW w, IsTempoWire(w), NEW d \in Tempo!Decode(w)
  PROVE  Tempo!Serialize(d.tx, d.signature, d.placeholder) = w
<1>1. /\ w.bad = FALSE /\ d.signature = w.signature
      /\ d.placeholder = (w.tx.payer = Tempo!Marker)
      /\ d.tx = IF w.tx.payer = Tempo!Marker THEN [w.tx EXCEPT !.payer = Tempo!Zero] ELSE w.tx
  BY TempoDecoded
<1>2. (IF d.placeholder THEN [d.tx EXCEPT !.payer = Tempo!Marker] ELSE d.tx) = w.tx
  BY <1>1 DEF IsTempoWire, IsTempoTx
<1> QED BY <1>1, <1>2 DEF Tempo!Serialize, IsTempoWire

\* A sponsored transaction keeps its sender, and is paid by who co-signs it.
LEMMA TempoCosigned ==
  ASSUME NEW w, IsTempoWire(w), w.tx.payer # Tempo!NoPayer, NEW key, NEW token,
         NEW d \in Tempo!Decode(w), NEW c \in Tempo!CosignFeePayer(d, key, token)
  PROVE  /\ Tempo!Sender(c.tx, c.signature) = Tempo!Sender(w.tx, w.signature)
         /\ Tempo!FeePayer(c.tx, Tempo!Sender(c.tx, c.signature)) = key
         /\ c.tx.token = token
<1> DEFINE sender == Tempo!Sender(d.tx, d.signature)
           tokened == [d.tx EXCEPT !.token = token]
           hash == Tempo!FeePayerSignatureHash(tokened, sender)
           paid == Tempo!Signed(key, hash)
           tx == [tokened EXCEPT !.payer = paid]
           v == Tempo!Serialize(tx, d.signature, FALSE)
<1>1. /\ IsTempoTx(d.tx) /\ d.signature = w.signature
      /\ d.tx = IF w.tx.payer = Tempo!Marker THEN [w.tx EXCEPT !.payer = Tempo!Zero] ELSE w.tx
  BY TempoDecoded
<1>2. c \in Tempo!Decode(v)
  BY DEF Tempo!CosignFeePayer
<1>3. paid # Tempo!Marker /\ paid # Tempo!NoPayer /\ Tempo!Zero # Tempo!NoPayer
      /\ paid.kind = "signature" /\ paid.key = key /\ paid.of = hash
  <2>1. paid.kind = "signature" /\ Tempo!Marker.kind = "marker"
        /\ Tempo!NoPayer.kind = "none" /\ Tempo!Zero.kind = "zero"
    BY DEF Tempo!Signed, Tempo!Marker, Tempo!NoPayer, Tempo!Zero
  <2>2. paid.key = key /\ paid.of = hash
    BY DEF Tempo!Signed
  <2> HIDE DEF paid
  <2> QED BY <2>1, <2>2
<1> HIDE DEF paid, hash, sender
<1>4. tx = [token |-> token, payer |-> paid, rest |-> d.tx.rest]
      /\ tokened = [token |-> token, payer |-> d.tx.payer, rest |-> d.tx.rest]
  <2>1. tokened = [token |-> token, payer |-> d.tx.payer, rest |-> d.tx.rest]
    BY <1>1, TempoTxWith
  <2>2. IsTempoTx(tokened) /\ tokened.token = token /\ tokened.rest = d.tx.rest
    BY <2>1 DEF IsTempoTx
  <2>3. tx = [token |-> tokened.token, payer |-> paid, rest |-> tokened.rest]
    BY <2>2, TempoTxWith
  <2> QED BY <2>1, <2>2, <2>3
<1> HIDE DEF tx, tokened
<1>5. v = [tx |-> tx, signature |-> w.signature, bad |-> FALSE] /\ IsTempoTx(tx)
  BY <1>1, <1>4 DEF Tempo!Serialize, IsTempoTx
<1> HIDE DEF v
<1>6. IsTempoWire(v) /\ v.tx = tx /\ v.tx.payer = paid
  BY <1>4, <1>5 DEF IsTempoWire
<1>7. c.tx = tx /\ c.signature = w.signature
  BY <1>2, <1>3, <1>5, <1>6, TempoDecoded
<1>8. w.tx.rest = d.tx.rest /\ d.tx.payer # Tempo!NoPayer
      /\ w.tx = [token |-> w.tx.token, payer |-> w.tx.payer, rest |-> w.tx.rest]
  BY <1>1, <1>3 DEF IsTempoWire, IsTempoTx
<1>9. /\ Tempo!SignatureHash(tx) = Tempo!SignatureHash(w.tx)
      /\ Tempo!SignatureHash(d.tx) = Tempo!SignatureHash(w.tx)
  <2>1. tx.payer # Tempo!NoPayer /\ tx.rest = w.tx.rest
    BY <1>3, <1>4, <1>8
  <2> QED BY <1>8, <2>1 DEF Tempo!SignatureHash
<1>10. /\ Tempo!Sender(c.tx, c.signature) = Tempo!Sender(w.tx, w.signature)
       /\ Tempo!Sender(c.tx, c.signature) = sender
  BY <1>1, <1>7, <1>9 DEF Tempo!Sender, sender
<1>11. Tempo!FeePayerSignatureHash(tx, sender) = hash
  <2>1. [tx EXCEPT !.payer = Tempo!NoPayer] = [tokened EXCEPT !.payer = Tempo!NoPayer]
    BY <1>4
  <2> QED BY <2>1 DEF Tempo!FeePayerSignatureHash, hash
<1>12. Tempo!FeePayer(tx, sender) = key
  BY <1>3, <1>4, <1>11 DEF Tempo!FeePayer, Tempo!Recover
<1> QED BY <1>4, <1>7, <1>10, <1>12

-----------------------------------------------------------------------------
(* send_batch/2                                                            *)

LEMMA LeastNat ==
  ASSUME NEW T \in SUBSET Nat, T # {}
  PROVE  \E i \in T : \A j \in T : i <= j
<1> DEFINE R == {p \in Nat \X Nat : p[1] < p[2]}
<1>1. IsWellFoundedOn(R, Nat)
  BY NatLessThanWellFounded DEF OpToRel
<1>2. \E i \in T : \A j \in T : ~(<<j, i>> \in R)
  <2> HIDE DEF R
  <2> QED BY <1>1, WFMin
<1>3. ASSUME NEW i \in Nat, NEW j \in Nat, ~(<<j, i>> \in R) PROVE i <= j
  <2>1. ~(j < i)
    BY <1>3, Zenon
  <2> QED BY <2>1
<1> HIDE DEF R
<1> QED BY <1>2, <1>3

\* A set of numbers up to n has a greatest, the least of its bounds.
LEMMA GreatestNat ==
  ASSUME NEW n \in Nat, NEW T \in SUBSET (0..n), T # {}
  PROVE  \E i \in T : \A j \in T : j <= i
<1> DEFINE B == {b \in Nat : \A j \in T : j <= b}
<1>1. n \in B
  OBVIOUS
<1>2. PICK b \in B : \A c \in B : b <= c
  BY <1>1, LeastNat
<1>3. b \in Nat /\ \A j \in T : j <= b
  OBVIOUS
<1>4. ASSUME b \notin T PROVE FALSE
  <2>1. \A j \in T : j < b
    BY <1>3, <1>4
  <2>2. b - 1 \in B
    <3>1. PICK j \in T : TRUE
      OBVIOUS
    <3>2. b - 1 \in Nat
      BY <1>3, <2>1, <3>1
    <3> QED BY <2>1, <3>2
  <2> HIDE DEF B
  <2> QED BY <1>2, <1>3, <2>2
<1> QED BY <1>3, <1>4

Item == [id : Nat, kind : {"result", "error", "bare"}]

\* The place of a request's answer: the last item with its id, or none.
LEMMA PlaceOf ==
  ASSUME NEW items \in Seq(Item), NEW i
  PROVE  LET p == RPC!Place(items, i) at == {k \in DOMAIN items : items[k].id = i}
         IN  /\ p \in at \/ (p = 0 /\ at = {})
             /\ at # {} => p # 0
<1> DEFINE at == {k \in DOMAIN items : items[k].id = i}  S == {0} \cup at  p == RPC!Place(items, i)
<1>1. Len(items) \in Nat /\ DOMAIN items = 1..Len(items)
  BY LenProperties
<1>2. S \in SUBSET (0..Len(items)) /\ S # {} /\ 0 \notin at /\ \A k \in at : k \in Nat /\ k > 0
  BY <1>1
<1> HIDE DEF at
<1>3. \E x \in S : \A y \in S : y <= x
  <2> HIDE DEF S
  <2> QED BY <1>1, <1>2, GreatestNat
<1>4. p = RPC!Max(S)
  BY DEF RPC!Place, at
<1>5. p \in S /\ \A y \in S : y <= p
  <2>1. RPC!Max(S) = CHOOSE x \in S : \A y \in S : x >= y
    BY DEF RPC!Max
  <2>2. \E x \in S : \A y \in S : x >= y
    <3>1. S \subseteq Nat
      BY <1>1, <1>2
    <3> HIDE DEF S
    <3> QED BY <1>3, <3>1
  <2>3. RPC!Max(S) \in S /\ \A y \in S : RPC!Max(S) >= y
    <3> HIDE DEF S
    <3> QED BY <2>1, <2>2, Zenon
  <2>4. S \subseteq Nat
    BY <1>1, <1>2
  <2> HIDE DEF S, p
  <2> QED BY <1>4, <2>3, <2>4
<1> HIDE DEF p
<1>6. at # {} => p # 0
  BY <1>2, <1>5
<1>7. p \in at \/ (p = 0 /\ at = {})
  BY <1>5, <1>6
<1> QED BY <1>6, <1>7 DEF p, at

\* All requests have results, or a is the error of the first without.
FirstFailure(items, n, a) ==
  \/ /\ \A i \in 1..n : RPC!Kind(items, i) = "result"
     /\ a = RPC!Ok([i \in 1..n |-> RPC!Place(items, i)])
  \/ \E i \in 1..n :
       /\ RPC!Kind(items, i) # "result"
       /\ \A j \in 1..n : j < i => RPC!Kind(items, j) = "result"
       /\ a = RPC!Error(IF RPC!Kind(items, i) = "missing" THEN "missing"
                        ELSE [place |-> RPC!Place(items, i)])

\* The requests are gone through from the first to the first without a result.
LEMMA CollectedOf ==
  ASSUME NEW items, NEW n \in Nat
  PROVE  FirstFailure(items, n, RPC!Collect(items, n))
<1> DEFINE a == RPC!Collect(items, n)
<1> SUFFICES FirstFailure(items, n, a)
  OBVIOUS
<1> DEFINE failing == {i \in 1..n : RPC!Kind(items, i) # "result"}
<1>1. CASE failing = {}
  BY <1>1 DEF RPC!Collect, FirstFailure
<1>2. CASE failing # {}
  <2> DEFINE i == RPC!Min(failing)
  <2>1. a = RPC!Error(IF RPC!Kind(items, i) = "missing" THEN "missing"
                      ELSE [place |-> RPC!Place(items, i)])
    BY <1>2 DEF RPC!Collect
  <2>2. i \in failing /\ \A y \in failing : i =< y
    <3>1. failing \in SUBSET Nat
      OBVIOUS
    <3>2. \E x \in failing : \A y \in failing : x =< y
      <4> HIDE DEF failing
      <4> QED BY <1>2, <3>1, LeastNat
    <3> HIDE DEF failing
    <3> QED BY <3>2, Zenon DEF RPC!Min
  <2> HIDE DEF i
  <2>3. i \in 1..n /\ RPC!Kind(items, i) # "result"
    BY <2>2
  <2>4. ASSUME NEW j \in 1..n, j < i PROVE RPC!Kind(items, j) = "result"
    BY <2>2, <2>3, <2>4
  <2> HIDE DEF a
  <2> QED BY <2>1, <2>3, <2>4 DEF FirstFailure
<1> QED BY <1>1, <1>2

\* The answer that is given satisfies the property, whatever the node answered.
LEMMA BatchDecoded ==
  ASSUME NEW n \in Nat, n = call.requests, call.body.kind = "list", Items \in Seq(Item),
         NEW a, a = RPC!SendBatch(n, call.body)
  PROVE  LET Succeeds(i) ==
               AnswersTo(i) # {} /\ \A k \in AnswersTo(i) : Items[k].kind = "result"
             Fails(i) == ~Succeeds(i) /\ \A j \in 1..n : j < i => Succeeds(j)
         IN  /\ a.tag = "ok" => \A i \in 1..n :
                  a.places[i] \in AnswersTo(i) /\ Items[a.places[i]].kind = "result"
             /\ (\A i \in 1..n : Succeeds(i)) => a.tag = "ok"
             /\ Conforming(n) => \A i \in 1..n : Fails(i) =>
                  \E k \in AnswersTo(i) : a = RPC!Error([place |-> k])
<1> DEFINE Succeeds(i) ==
             AnswersTo(i) # {} /\ \A k \in AnswersTo(i) : Items[k].kind = "result"
           Fails(i) == ~Succeeds(i) /\ \A j \in 1..n : j < i => Succeeds(j)
<1>1. CASE n = 0
  <2>1. a.tag = "ok" /\ 1..n = {}
    BY <1>1 DEF RPC!SendBatch, RPC!Ok
  <2> QED BY <2>1
<1>2. CASE n # 0
  <2>1. a = RPC!Collect(Items, n)
    BY <1>2 DEF RPC!SendBatch, Items
  <2>2. \A i : /\ RPC!Place(Items, i) \in AnswersTo(i)
                 \/ (RPC!Place(Items, i) = 0 /\ AnswersTo(i) = {})
               /\ AnswersTo(i) # {} => RPC!Place(Items, i) # 0
    BY PlaceOf DEF AnswersTo
  <2>3. \A i : RPC!Kind(Items, i) = "result" =>
               /\ RPC!Place(Items, i) \in AnswersTo(i)
               /\ Items[RPC!Place(Items, i)].kind = "result"
    BY <2>2 DEF RPC!Kind
  <2>4. \A i : Succeeds(i) => RPC!Kind(Items, i) = "result"
    BY <2>2 DEF RPC!Kind
  <2>5. CASE /\ \A i \in 1..n : RPC!Kind(Items, i) = "result"
             /\ a = RPC!Ok([i \in 1..n |-> RPC!Place(Items, i)])
    <3>1. a.tag = "ok" /\ \A i \in 1..n : a.places[i] = RPC!Place(Items, i)
      BY <2>5 DEF RPC!Ok
    <3>2. \A i \in 1..n : a.places[i] \in AnswersTo(i) /\ Items[a.places[i]].kind = "result"
      BY <2>3, <2>5, <3>1
    <3>3. ASSUME Conforming(n), NEW i \in 1..n PROVE Succeeds(i)
      <4>1. RPC!Place(Items, i) \in AnswersTo(i)
            /\ Items[RPC!Place(Items, i)].kind = "result"
        BY <2>3, <2>5
      <4>2. PICK k \in DOMAIN Items : AnswersTo(i) = {k}
        BY <3>3 DEF Conforming
      <4> QED BY <4>1, <4>2
    <3> QED BY <3>1, <3>2, <3>3
  <2>6. CASE \E i \in 1..n :
               /\ RPC!Kind(Items, i) # "result"
               /\ \A j \in 1..n : j < i => RPC!Kind(Items, j) = "result"
               /\ a = RPC!Error(IF RPC!Kind(Items, i) = "missing" THEN "missing"
                                ELSE [place |-> RPC!Place(Items, i)])
    <3>1. PICK f \in 1..n :
               /\ RPC!Kind(Items, f) # "result"
               /\ \A j \in 1..n : j < f => RPC!Kind(Items, j) = "result"
               /\ a = RPC!Error(IF RPC!Kind(Items, f) = "missing" THEN "missing"
                                ELSE [place |-> RPC!Place(Items, f)])
      BY <2>6
    <3>2. a.tag # "ok" /\ ~Succeeds(f)
      BY <2>4, <3>1 DEF RPC!Error
    <3>3. ASSUME Conforming(n), NEW i \in 1..n, Fails(i)
          PROVE  \E k \in AnswersTo(i) : a = RPC!Error([place |-> k])
      <4>1. PICK k \in DOMAIN Items : AnswersTo(i) = {k} /\ Items[k].kind # "bare"
        BY <3>3 DEF Conforming
      <4>2. RPC!Place(Items, i) = k /\ RPC!Place(Items, i) # 0
        BY <2>2, <4>1
      <4>3. Items[k].kind # "result" /\ Items[k].kind \in {"result", "error", "bare"}
        <5>1. Items[k] \in Item
          <6>1. k \in 1..Len(Items)
            BY <4>1, LenProperties
          <6> QED BY <6>1, ElementOfSeq
        <5> QED BY <3>3, <4>1, <5>1 DEF Item
      <4>4. RPC!Kind(Items, i) = Items[k].kind
        BY <4>2 DEF RPC!Kind
      <4>5. f = i
        <5>1. ~(f < i)
          BY <3>2, <3>3
        <5>2. ~(i < f)
          BY <3>1, <4>3, <4>4
        <5> QED BY <5>1, <5>2
      <4>6. a = RPC!Error([place |-> k])
        <5>1. RPC!Kind(Items, f) # "missing"
          BY <4>3, <4>4, <4>5
        <5> QED BY <3>1, <4>2, <4>5, <5>1
      <4> QED BY <4>1, <4>6
    <3> QED BY <3>2, <3>3
  <2>7. FirstFailure(Items, n, a)
    BY <2>1, CollectedOf
  <2> HIDE DEF Succeeds, Fails
  <2> QED BY ONLY <2>5, <2>6, <2>7 DEF FirstFailure
<1> QED BY <1>1, <1>2

-----------------------------------------------------------------------------
(* The calls                                                               *)

\* What the one step of a call answers.
AnswerOf(c) ==
  CASE c.callee = "consensus" -> IF c.op = "decode" THEN Eth!Decode(c.wire)
                                 ELSE Eth!Encode(c.tx, c.signature)
    [] c.callee = "tempo" ->
         IF c.op = "decode" THEN Result(Tempo!Decode(c.wire))
         ELSE Result(UNION {Tempo!CosignFeePayer(d, c.key, c.token) :
                            d \in Tempo!Decode(c.wire)})
    [] c.callee = "batch" -> RPC!SendBatch(c.requests, c.body)

\* A call is one that is tried, and an answer is that of the call.
AnswersCall ==
  /\ call \in ConsensusCalls \cup TempoCalls \cup BatchCalls
  /\ reply = None \/ reply = AnswerOf(call)

LEMMA NextAnswers == AnswersCall /\ [WireNext]_wireVars => AnswersCall'
<1> SUFFICES ASSUME AnswersCall, [WireNext]_wireVars PROVE AnswersCall'
  OBVIOUS
<1>1. CASE Consensus
  <2>1. call' = call /\ reply' = AnswerOf(call)
    BY <1>1 DEF Consensus, Answer, AnswerOf
  <2> QED BY <2>1 DEF AnswersCall
<1>2. CASE TempoTransaction
  <2>1. call.callee = "tempo" /\ call.op \in {"decode", "cosign"}
    <3>1. call.callee = "tempo"
      BY <1>2 DEF TempoTransaction, Answer
    <3> QED BY <3>1, ConsensusCallsAreCalls, TempoCallsAreCalls, BatchCallsAreCalls
            DEF AnswersCall
  <2>2. call' = call /\ reply' = AnswerOf(call)
    BY <1>2, <2>1 DEF TempoTransaction, Answer, AnswerOf
  <2> QED BY <2>2 DEF AnswersCall
<1>3. CASE Batch
  <2>1. call' = call /\ reply' = AnswerOf(call)
    BY <1>3 DEF Batch, Answer, AnswerOf
  <2> QED BY <2>1 DEF AnswersCall
<1>4. CASE UNCHANGED wireVars
  BY <1>4 DEF AnswersCall, wireVars
<1> QED BY <1>1, <1>2, <1>3, <1>4 DEF WireNext

\* Every answer is the one the call has by its definition.
THEOREM WireAnswersCall == WireSpec => []AnswersCall
<1>1. WireInit => AnswersCall
  BY DEF WireInit, AnswersCall
<1> QED BY <1>1, NextAnswers, PTL DEF WireSpec

LEMMA AnswerRoundTrips == AnswersCall => EnvelopeRoundTrips
<1> SUFFICES ASSUME AnswersCall, Answered("consensus"), reply.tag = "ok"
             PROVE  IF call.op = "decode"
                    THEN Eth!Encode(reply.tx, reply.signature) = [tag |-> "ok", wire |-> call.wire]
                    ELSE LET d == Eth!Decode(reply.wire)
                         IN  IF Eth!RlpItems(reply.wire) > RlpNodes THEN d.tag = "value_limit"
                             ELSE IF call.tx.type = 0 /\ call.tx.chain = <<>>
                                     /\ call.signature = <<>>
                             THEN d.tag = "invalid_legacy_payload"
                             ELSE d.tag = "ok" /\ d.tx = call.tx
                                  /\ d.signature = call.signature
  BY DEF EnvelopeRoundTrips
<1>1. call.callee = "consensus" /\ reply = AnswerOf(call)
  BY DEF Answered, AnswersCall
<1>2. call \in ConsensusCalls
  BY <1>1, TempoCallsAreCalls, BatchCallsAreCalls DEF AnswersCall
<1>3. reply = IF call.op = "decode" THEN Eth!Decode(call.wire)
              ELSE Eth!Encode(call.tx, call.signature)
  BY <1>1 DEF AnswerOf
<1>4. CASE call.op = "decode"
  <2>1. IsWire(call.wire)
    BY <1>2, <1>4, ConsensusCallsAreCalls
  <2> QED BY <1>3, <1>4, <2>1, DecodeThenEncode
<1>5. CASE call.op # "decode"
  <2>1. IsTransaction(call.tx) /\ IsSignature(call.signature)
    BY <1>2, <1>5, ConsensusCallsAreCalls
  <2>2. reply = Eth!Encode(call.tx, call.signature)
    BY <1>3, <1>5
  <2> QED BY <1>5, <2>1, <2>2, EncodeThenDecode
<1> QED BY <1>4, <1>5

\* What onchain_abi encodes it decodes again, and what it decodes it encodes
\* again, whatever the transaction, the signature and the wire form.
THEOREM WireRoundTrips == WireSpec => []EnvelopeRoundTrips
BY WireAnswersCall, AnswerRoundTrips, PTL

LEMMA AnswerKeepsSender == AnswersCall => SponsorKeepsSender
<1> SUFFICES ASSUME AnswersCall, Answered("tempo"), reply.tag = "ok"
             PROVE  LET d == reply.value
                    IN  IF call.op = "decode"
                        THEN Tempo!Serialize(d.tx, d.signature, d.placeholder) = call.wire
                        ELSE call.wire.tx.payer # Tempo!NoPayer =>
                               /\ Tempo!Sender(d.tx, d.signature)
                                    = Tempo!Sender(call.wire.tx, call.wire.signature)
                               /\ Tempo!FeePayer(d.tx, Tempo!Sender(d.tx, d.signature))
                                    = call.key
                               /\ d.tx.token = call.token
  BY DEF SponsorKeepsSender
<1> DEFINE w == call.wire
           values == IF call.op = "decode" THEN Tempo!Decode(w)
                     ELSE UNION {Tempo!CosignFeePayer(d, call.key, call.token) :
                                 d \in Tempo!Decode(w)}
<1>1. call.callee = "tempo" /\ reply = AnswerOf(call)
  BY DEF Answered, AnswersCall
<1>2. call \in TempoCalls
  BY <1>1, ConsensusCallsAreCalls, BatchCallsAreCalls DEF AnswersCall
<1>3. IsTempoWire(w)
  <2>1. /\ w = [tx |-> [token |-> w.tx.token, payer |-> w.tx.payer, rest |-> w.tx.rest],
                signature |-> w.signature, bad |-> w.bad]
        /\ w.bad \in BOOLEAN
    BY <1>2, TempoCallsAreCalls
  <2> HIDE DEF w
  <2>2. w.tx = [token |-> w.tx.token, payer |-> w.tx.payer, rest |-> w.tx.rest]
    BY <2>1
  <2> DEFINE tx == w.tx
  <2>3. w = [tx |-> tx, signature |-> w.signature, bad |-> w.bad]
    BY <2>1, <2>2
  <2> QED BY <2>1, <2>2, <2>3 DEF IsTempoWire, IsTempoTx
<1>4. reply = Result(values)
  BY <1>1 DEF AnswerOf
<1>5. reply.value \in values
  BY <1>4 DEF Result
<1>6. CASE call.op = "decode"
  <2>1. reply.value \in Tempo!Decode(w)
    BY <1>5, <1>6
  <2> QED BY <1>3, <1>6, <2>1, TempoRoundTrips
<1>7. CASE call.op # "decode" /\ w.tx.payer # Tempo!NoPayer
  <2>1. PICK d \in Tempo!Decode(w) :
               reply.value \in Tempo!CosignFeePayer(d, call.key, call.token)
    BY <1>5, <1>7
  <2> QED BY <1>3, <1>7, <2>1, TempoCosigned
<1> QED BY <1>6, <1>7

\* A sponsored Tempo transaction that is co-signed still comes from its
\* sender and is paid by the co-signer; one that is read and written is kept.
THEOREM WireKeepsSender == WireSpec => []SponsorKeepsSender
BY WireAnswersCall, AnswerKeepsSender, PTL

LEMMA AnswerAsOneByOne == AnswersCall => BatchAsOneByOne
<1> SUFFICES ASSUME AnswersCall, Answered("batch"), call.body.kind = "list"
             PROVE  BatchAsOneByOne
  BY DEF BatchAsOneByOne
<1>1. call.callee = "batch" /\ reply = AnswerOf(call)
  BY DEF Answered, AnswersCall
<1>2. call \in BatchCalls
  BY <1>1, ConsensusCallsAreCalls, TempoCallsAreCalls DEF AnswersCall
<1>3. call.requests \in Nat /\ Items \in Seq(Item)
  BY <1>2, BatchCallsAreCalls DEF Items, Item
<1>4. reply = RPC!SendBatch(call.requests, call.body)
  BY <1>1 DEF AnswerOf
<1> QED BY <1>3, <1>4, BatchDecoded DEF BatchAsOneByOne

\* A batch gives each request the answer it would have got alone, whatever
\* order, doubles and strays the node answers with.
THEOREM WireBatchAsOneByOne == WireSpec => []BatchAsOneByOne
BY WireAnswersCall, AnswerAsOneByOne, PTL

-----------------------------------------------------------------------------
(* Doc comments                                                            *)

\* The least element of a set of numbers.
LEMMA MinIsLeast ==
  ASSUME NEW S \in SUBSET Nat, S # {}
  PROVE  Sets!Min(S) \in S /\ \A y \in S : Sets!Min(S) =< y
<1>1. \E x \in S : \A y \in S : x =< y
  BY LeastNat
<1> QED BY <1>1, Zenon DEF Sets!Min

\* A comment ends after its own line, and only /// lines belong to it.
LEMMA EndOfComment ==
  ASSUME NEW lines \in Seq(DocLine), NEW i \in DOMAIN lines,
         lines[i].kind \in {"line", "block"}
  PROVE  /\ Ends(lines, i) \in (i + 1)..(Len(lines) + 1)
         /\ \A j \in (i + 1)..(Ends(lines, i) - 1) :
              lines[j].kind = "line" /\ lines[j - 1].kind = "line"
         /\ Ends(lines, i) <= Len(lines) /\ lines[Ends(lines, i)].kind = "line" =>
              lines[i].kind = "block" /\ Ends(lines, i) = i + 1
<1>1. Len(lines) \in Nat /\ DOMAIN lines = 1..Len(lines) /\ i \in 1..Len(lines)
  BY LenProperties
<1>2. CASE lines[i].kind = "block"
  <2>1. Ends(lines, i) = i + 1
    BY <1>2 DEF Ends
  <2> QED BY <1>1, <1>2, <2>1
<1>3. CASE lines[i].kind = "line"
  <2> DEFINE n == Len(lines)
             S == {j \in i..(n + 1) : j > n \/ lines[j].kind # "line"}
             e == Ends(lines, i)
  <2>1. e = Sets!Min(S)
    BY <1>3 DEF Ends
  <2>2. S \in SUBSET Nat /\ n + 1 \in S
    BY <1>1
  <2>3. e \in S /\ \A y \in S : e =< y
    <3> HIDE DEF S, e
    <3> QED BY <2>1, <2>2, MinIsLeast
  <2>4. e \in i..(n + 1) /\ (e <= n => lines[e].kind # "line") /\ e # i
    BY <1>1, <1>3, <2>3
  <2>5. ASSUME NEW j \in i..(e - 1) PROVE lines[j].kind = "line"
    <3>1. j \in i..(n + 1) /\ ~(e =< j) /\ j <= n
      BY <1>1, <2>4
    <3>2. j \notin S
      <4> HIDE DEF S, e
      <4> QED BY <2>3, <3>1
    <3> QED BY <1>1, <3>1, <3>2
  <2> HIDE DEF S, e
  <2>6. ASSUME NEW j \in (i + 1)..(e - 1) PROVE lines[j].kind = "line" /\ lines[j - 1].kind = "line"
    <3>1. j \in i..(e - 1) /\ j - 1 \in i..(e - 1)
      BY <1>1, <2>4
    <3> QED BY <2>5, <3>1
  <2>7. e \in (i + 1)..(n + 1)
    BY <1>1, <2>4
  <2> QED BY <2>4, <2>6, <2>7 DEF e
<1> QED BY <1>2, <1>3

\* Between its end and its target are blank lines, and nothing else.
LEMMA TargetOfComment ==
  ASSUME NEW lines \in Seq(DocLine), NEW i \in DOMAIN lines,
         lines[i].kind \in {"line", "block"}
  PROVE  /\ TargetOf(lines, i) \in Ends(lines, i)..(Len(lines) + 1)
         /\ \A j \in Ends(lines, i)..(TargetOf(lines, i) - 1) : lines[j].kind = "blank"
<1> DEFINE n == Len(lines)  e == Ends(lines, i)  t == TargetOf(lines, i)
           S == {j \in e..(n + 1) : j > n \/ lines[j].kind # "blank"}
<1>1. n \in Nat /\ DOMAIN lines = 1..n /\ i \in 1..n
  BY LenProperties
<1>2. e \in (i + 1)..(n + 1)
  BY EndOfComment
<1>3. t = Sets!Min(S)
  BY DEF TargetOf
<1> HIDE DEF e
<1>4. S \in SUBSET Nat /\ n + 1 \in S
  BY <1>1, <1>2
<1>5. t \in S /\ \A y \in S : t =< y
  <2> HIDE DEF S, t
  <2> QED BY <1>3, <1>4, MinIsLeast
<1> HIDE DEF t
<1>6. t \in e..(n + 1)
  BY <1>5
<1>7. ASSUME NEW j \in e..(t - 1) PROVE lines[j].kind = "blank"
  <2>1. j \in e..(n + 1) /\ ~(t =< j) /\ j <= n
    BY <1>1, <1>2, <1>6
  <2>2. j \notin S
    <3> HIDE DEF S
    <3> QED BY <1>5, <2>1
  <2> QED BY <1>1, <2>1, <2>2
<1> QED BY <1>6, <1>7 DEF t, e, n

\* No comment begins between another and its target, and the target is not
\* in the middle of one.
LEMMA NothingBetween ==
  ASSUME NEW lines \in Seq(DocLine), NEW i \in DOMAIN lines,
         lines[i].kind \in {"line", "block"}
  PROVE  /\ TargetOf(lines, i) \in (i + 1)..(Len(lines) + 1)
         /\ \A j \in (i + 1)..(TargetOf(lines, i) - 1) : ~Begins(lines, j)
         /\ TargetOf(lines, i) <= Len(lines) =>
              ~(/\ lines[TargetOf(lines, i)].kind = "line"
                /\ lines[TargetOf(lines, i) - 1].kind = "line")
<1> DEFINE n == Len(lines)  e == Ends(lines, i)  t == TargetOf(lines, i)
<1>1. n \in Nat /\ DOMAIN lines = 1..n /\ i \in 1..n
  BY LenProperties
<1>2. /\ e \in (i + 1)..(n + 1)
      /\ \A j \in (i + 1)..(e - 1) : lines[j].kind = "line" /\ lines[j - 1].kind = "line"
      /\ e <= n /\ lines[e].kind = "line" => lines[i].kind = "block" /\ e = i + 1
  BY EndOfComment
<1>3. t \in e..(n + 1) /\ \A j \in e..(t - 1) : lines[j].kind = "blank"
  BY TargetOfComment
<1> HIDE DEF n, e, t
<1>4. t \in (i + 1)..(n + 1)
  BY <1>1, <1>2, <1>3
<1>5. ASSUME NEW j \in (i + 1)..(t - 1) PROVE ~Begins(lines, j)
  <2>1. CASE j < e
    <3>1. j \in (i + 1)..(e - 1) /\ j # 1
      BY <1>1, <1>2, <1>4, <2>1
    <3>2. lines[j].kind = "line" /\ lines[j - 1].kind = "line"
      BY <1>2, <3>1
    <3> QED BY <3>1, <3>2 DEF Begins
  <2>2. CASE ~(j < e)
    <3>1. j \in e..(t - 1)
      BY <1>1, <1>2, <1>4, <2>2
    <3>2. lines[j].kind = "blank"
      BY <1>3, <3>1
    <3> QED BY <3>2 DEF Begins
  <2> QED BY <2>1, <2>2
<1>6. ASSUME t <= n, lines[t].kind = "line", lines[t - 1].kind = "line" PROVE FALSE
  <2>1. CASE t = e
    <3>1. lines[i].kind = "block" /\ e - 1 = i
      BY <1>1, <1>2, <1>6, <2>1
    <3> QED BY <1>6, <2>1, <3>1
  <2>2. CASE t # e
    <3>1. t - 1 \in e..(t - 1)
      BY <1>1, <1>2, <1>3, <2>2
    <3> QED BY <1>3, <1>6, <3>1
  <2> QED BY <2>1, <2>2
<1> QED BY <1>4, <1>5, <1>6 DEF n, t

LEMMA DocLineKinds ==
  ASSUME NEW lines \in Seq(DocLine), NEW i \in DOMAIN lines
  PROVE  /\ lines[i].width \in Nat /\ lines[i].width > 0
         /\ Begins(lines, i) => lines[i].kind \in {"line", "block"}
<1>1. i \in 1..Len(lines) /\ lines[i] \in DocLine
  BY LenProperties, ElementOfSeq
<1> QED BY <1>1 DEF DocLine, Begins

\* No two comments target one line.
LEMMA TargetsDiffer ==
  ASSUME NEW lines \in Seq(DocLine), NEW i \in DOMAIN lines, NEW j \in DOMAIN lines,
         Begins(lines, i), Begins(lines, j), TargetOf(lines, i) = TargetOf(lines, j)
  PROVE  i = j
<1>1. Len(lines) \in Nat /\ DOMAIN lines = 1..Len(lines)
  BY LenProperties
<1>2. ASSUME NEW a \in DOMAIN lines, NEW b \in DOMAIN lines, a < b,
             Begins(lines, a), Begins(lines, b), TargetOf(lines, a) = TargetOf(lines, b)
      PROVE  FALSE
  <2> DEFINE t == TargetOf(lines, a)
  <2>1. t \in (b + 1)..(Len(lines) + 1)
    BY <1>2, DocLineKinds, NothingBetween
  <2>2. \A c \in (a + 1)..(t - 1) : ~Begins(lines, c)
    BY <1>2, DocLineKinds, NothingBetween
  <2>3. b \in (a + 1)..(t - 1)
    <3> HIDE DEF t
    <3> QED BY <1>1, <1>2, <2>1
  <2> QED BY <1>2, <2>2, <2>3
<1> QED BY <1>1, <1>2

\* What has been found so far.
Found == {CommentAt(i) : i \in {j \in DOMAIN Lines :
            j < reached /\ Begins(Lines, j) /\ IsKept(j)}}

\* Lines do not overlap, and until the first CRLF the places that the code
\* counts are those in the file.
LinesMeasured ==
  /\ IsDocSource(source)
  /\ byteOffsets \in Seq(Nat) /\ Len(byteOffsets) <= Len(Lines) /\ size \in Nat
  /\ \A i, j \in DOMAIN byteOffsets : i < j => byteOffsets[i] + Lines[i].width <= byteOffsets[j]
  /\ \A i \in DOMAIN byteOffsets : byteOffsets[i] + Lines[i].width <= size
  /\ starts \in Seq(Nat) /\ Len(starts) = Len(byteOffsets) /\ fileSize \in Nat
  /\ \A i \in DOMAIN byteOffsets : NoDrift(i) => starts[i] = byteOffsets[i]
  /\ NoDrift(Len(byteOffsets) + 1) => fileSize = size

\* The loop is never in the middle of a comment.
LoopAtBoundary ==
  /\ reached \in 1..(Len(Lines) + 1)
  /\ ~Measured => reached = 1
  /\ 1 < reached /\ reached <= Len(Lines) =>
       ~(Lines[reached].kind = "line" /\ Lines[reached - 1].kind = "line")

\* A comment that was found is left, or was taken by one function that stands
\* after it.
CommentsShared ==
  /\ given \in Seq(SUBSET Found) /\ Len(given) <= Len(source.functions)
  /\ given # <<>> => Measured /\ reached > Len(Lines)
  /\ docComments \subseteq Found
  /\ \A c \in Found \ docComments : \E k \in DOMAIN given : c \in given[k]
  /\ \A k \in DOMAIN given :
       /\ given[k] \cap docComments = {}
       /\ \A c \in given[k] : c.at <= SpanStart(source.functions[k])

\* The inductive invariant of the search for doc comments.
DocsFound == LinesMeasured /\ LoopAtBoundary /\ CommentsShared /\ DocsRight

LEMMA InitFindsDocs == DocInit => DocsFound
<1> SUFFICES ASSUME DocInit PROVE DocsFound
  OBVIOUS
<1>1. IsDocSource(source)
  BY DocSourcesAreSources DEF DocInit
<1>2. Lines \in Seq(DocLine) /\ Len(Lines) \in Nat /\ Len(source.functions) \in Nat
  BY <1>1, LenProperties DEF IsDocSource, Lines
<1>3. DOMAIN byteOffsets = {} /\ DOMAIN given = {} /\ Len(byteOffsets) = 0 /\ Len(given) = 0
  BY DEF DocInit
<1>4. LinesMeasured
  <2>1. starts = <<>> /\ byteOffsets = <<>> /\ fileSize = 0 /\ size = 0
    BY DEF DocInit
  <2> QED BY <1>1, <1>2, <1>3, <2>1 DEF LinesMeasured
<1>5. LoopAtBoundary
  BY <1>2 DEF LoopAtBoundary, DocInit
<1>6. Found = {}
  <2>1. DOMAIN Lines = 1..Len(Lines)
    BY <1>2, LenProperties
  <2> QED BY <1>2, <2>1 DEF Found, DocInit
<1>7. CommentsShared
  BY <1>2, <1>3, <1>6 DEF CommentsShared, DocInit
<1>8. DocsRight
  BY <1>3 DEF DocsRight
<1> QED BY <1>4, <1>5, <1>7, <1>8 DEF DocsFound

\* The lines, and where they start, once they are measured.
LEMMA PlacesOfLines ==
  ASSUME DocsFound
  PROVE  /\ Lines \in Seq(DocLine) /\ Len(Lines) \in Nat /\ DOMAIN Lines = 1..Len(Lines)
         /\ DOMAIN byteOffsets = 1..Len(byteOffsets) /\ Len(byteOffsets) \in Nat
         /\ \A i \in DOMAIN byteOffsets : byteOffsets[i] \in Nat
         /\ source.functions \in Seq([line : Nat, column : Nat])
         /\ Len(source.functions) \in Nat /\ DOMAIN source.functions = 1..Len(source.functions)
<1>1. IsDocSource(source) /\ byteOffsets \in Seq(Nat)
  BY DEF DocsFound, LinesMeasured
<1> QED BY <1>1, LenProperties, ElementOfSeq DEF IsDocSource, Lines

LEMMA MeasureFindsDocs == DocsFound /\ MeasureLine => DocsFound'
<1> SUFFICES ASSUME DocsFound, MeasureLine PROVE DocsFound'
  OBVIOUS
<1> DEFINE n == Len(byteOffsets)
<1>1. /\ Lines \in Seq(DocLine) /\ Len(Lines) \in Nat /\ DOMAIN Lines = 1..Len(Lines)
      /\ DOMAIN byteOffsets = 1..n /\ n \in Nat
      /\ \A i \in DOMAIN byteOffsets : byteOffsets[i] \in Nat
  BY PlacesOfLines
<1>2. n < Len(Lines) /\ size \in Nat /\ source' = source /\ Lines' = Lines
  BY DEF MeasureLine, DocsFound, LinesMeasured, Lines
<1>3. n + 1 \in DOMAIN Lines /\ Lines[n + 1].width \in Nat
  BY <1>1, <1>2, DocLineKinds
<1>4. /\ byteOffsets \in Seq(Nat) /\ byteOffsets' = Append(byteOffsets, size)
      /\ size' = size + Lines[n + 1].width
  BY DEF MeasureLine, DocsFound, LinesMeasured
<1>5. /\ byteOffsets' \in Seq(Nat) /\ Len(byteOffsets') = n + 1 /\ byteOffsets'[n + 1] = size
      /\ DOMAIN byteOffsets' = 1..(n + 1)
      /\ \A i \in 1..n : byteOffsets'[i] = byteOffsets[i]
  BY <1>1, <1>2, <1>4, AppendProperties
<1>6. LinesMeasured'
  <2>1. \A i, j \in 1..n : i < j => byteOffsets[i] + Lines[i].width <= byteOffsets[j]
    BY <1>1 DEF DocsFound, LinesMeasured
  <2>2. \A i \in 1..n : byteOffsets[i] + Lines[i].width <= size /\ byteOffsets[i] \in Nat
                        /\ Lines[i].width \in Nat
    <3> SUFFICES ASSUME NEW i \in 1..n
                 PROVE  /\ byteOffsets[i] + Lines[i].width <= size /\ byteOffsets[i] \in Nat
                        /\ Lines[i].width \in Nat
      OBVIOUS
    <3>1. i \in DOMAIN Lines /\ i \in DOMAIN byteOffsets
      BY <1>1, <1>2
    <3>2. Lines[i].width \in Nat
      BY <1>1, <3>1, DocLineKinds
    <3> QED BY <1>1, <3>1, <3>2 DEF DocsFound, LinesMeasured
  <2>3. \A i, j \in 1..(n + 1) : i < j => byteOffsets'[i] + Lines[i].width <= byteOffsets'[j]
    <3> SUFFICES ASSUME NEW i \in 1..(n + 1), NEW j \in 1..(n + 1), i < j
                 PROVE  byteOffsets'[i] + Lines[i].width <= byteOffsets'[j]
      OBVIOUS
    <3>1. i \in 1..n /\ (j \in 1..n \/ j = n + 1)
      BY <1>1
    <3> QED BY <1>5, <2>1, <2>2, <3>1
  <2>4. \A i \in 1..(n + 1) : byteOffsets'[i] + Lines[i].width <= size'
    <3> SUFFICES ASSUME NEW i \in 1..(n + 1) PROVE byteOffsets'[i] + Lines[i].width <= size'
      OBVIOUS
    <3>1. CASE i \in 1..n
      <4>1. byteOffsets'[i] = byteOffsets[i] /\ byteOffsets[i] + Lines[i].width <= size
        BY <1>5, <2>2, <3>1
      <4>2. byteOffsets[i] \in Nat /\ Lines[i].width \in Nat
        BY <2>2, <3>1
      <4>3. \A a, w, v \in Nat : a + w <= size => a + w <= size + v
        BY <1>2
      <4>4. byteOffsets[i] + Lines[i].width <= size + Lines[n + 1].width
        <5> HIDE DEF n
        <5> QED BY <1>3, <4>1, <4>2, <4>3
      <4> QED BY ONLY <1>4, <4>1, <4>4
    <3>2. CASE i = n + 1
      BY <1>2, <1>3, <1>4, <1>5, <3>2
    <3> QED BY <1>1, <3>1, <3>2
  <2>5. size' \in Nat
    BY <1>2, <1>3, <1>4
  <2>6. Len(byteOffsets') <= Len(Lines)
    BY <1>1, <1>2, <1>5
  <2>7. IsDocSource(source')
    BY <1>2 DEF DocsFound, LinesMeasured
  <2> DEFINE more == IF Lines[n + 1].crlf THEN 1 ELSE 0
  <2>8. /\ starts \in Seq(Nat) /\ Len(starts) = n /\ fileSize \in Nat
        /\ \A i \in 1..n : NoDrift(i) => starts[i] = byteOffsets[i]
        /\ NoDrift(n + 1) => fileSize = size
        /\ starts' = Append(starts, fileSize)
        /\ fileSize' = fileSize + Lines[n + 1].width + more
    BY <1>1 DEF DocsFound, LinesMeasured, MeasureLine
  <2>9. /\ starts' \in Seq(Nat) /\ Len(starts') = n + 1 /\ starts'[n + 1] = fileSize
        /\ \A i \in 1..n : starts'[i] = starts[i]
    BY <1>1, <2>8, AppendProperties
  <2>10. \A i : NoDrift(i)' = NoDrift(i)
    BY <1>2 DEF NoDrift
  <2>11. \A i \in 1..(n + 1) : NoDrift(i) => starts'[i] = byteOffsets'[i]
    <3> SUFFICES ASSUME NEW i \in 1..(n + 1), NoDrift(i) PROVE starts'[i] = byteOffsets'[i]
      OBVIOUS
    <3>1. i \in 1..n \/ i = n + 1
      BY <1>1
    <3> QED BY <1>5, <2>8, <2>9, <3>1
  <2>12. NoDrift(n + 1 + 1) => fileSize' = size'
    <3> SUFFICES ASSUME NoDrift(n + 1 + 1) PROVE fileSize' = size'
      OBVIOUS
    <3>1. NoDrift(n + 1) /\ ~Lines[n + 1].crlf
      BY <1>1, <1>3 DEF NoDrift
    <3>2. more = 0
      BY <3>1
    <3>3. fileSize = size
      BY <2>8, <3>1
    <3> HIDE DEF n, more
    <3> QED BY <1>2, <1>3, <1>4, <2>8, <3>2, <3>3
  <2>13. fileSize' \in Nat
    <3>1. more \in Nat
      OBVIOUS
    <3> HIDE DEF n, more
    <3> QED BY <1>3, <2>8, <3>1
  <2>14. /\ \A i \in DOMAIN byteOffsets' : NoDrift(i)' => starts'[i] = byteOffsets'[i]
         /\ NoDrift(Len(byteOffsets) + 1)' => fileSize' = size'
    BY <1>5, <2>10, <2>11, <2>12
  <2> HIDE DEF n, more
  <2> QED BY <1>2, <1>5, <2>3, <2>4, <2>5, <2>6, <2>7, <2>9, <2>13, <2>14 DEF LinesMeasured
<1>7. reached = 1 /\ reached' = 1
  BY <1>2 DEF MeasureLine, DocsFound, LoopAtBoundary, Measured
<1>8. LoopAtBoundary'
  BY <1>1, <1>2, <1>7 DEF LoopAtBoundary
<1>9. Found = {} /\ Found' = {}
  BY <1>1, <1>2, <1>7 DEF Found
<1>10. given = <<>> /\ given' = given /\ docComments' = docComments
  BY <1>2 DEF MeasureLine, DocsFound, CommentsShared, Measured
<1>11. CommentsShared'
  <2>1. docComments = {}
    BY <1>9 DEF DocsFound, CommentsShared
  <2> QED BY <1>2, <1>9, <1>10, <2>1 DEF CommentsShared, DocsFound
<1>12. DocsRight'
  BY <1>10 DEF DocsRight
<1> QED BY <1>6, <1>8, <1>11, <1>12 DEF DocsFound

LEMMA ExtractFindsDocs == DocsFound /\ ExtractComment => DocsFound'
<1> SUFFICES ASSUME DocsFound, ExtractComment PROVE DocsFound'
  OBVIOUS
<1> DEFINE n == Len(Lines)  r == reached
<1>1. Lines \in Seq(DocLine) /\ n \in Nat /\ DOMAIN Lines = 1..n
  BY PlacesOfLines
<1>2. /\ Measured /\ r \in DOMAIN Lines /\ r \in 1..n
      /\ source' = source /\ byteOffsets' = byteOffsets /\ size' = size /\ given' = given
      /\ starts' = starts /\ fileSize' = fileSize
  BY <1>1 DEF ExtractComment, DocsFound, LoopAtBoundary
<1>3. Lines' = Lines /\ Measured' /\ given = <<>> /\ DOMAIN given = {}
  BY <1>1, <1>2 DEF Lines, Measured, DocsFound, CommentsShared, ExtractComment
<1>4. LinesMeasured'
  BY <1>2, <1>3 DEF DocsFound, LinesMeasured, NoDrift
<1>5. CASE Lines[r].kind \in {"line", "block"}
  <2> DEFINE t == TargetOf(Lines, r)
  <2>1. /\ t \in (r + 1)..(n + 1)
        /\ \A j \in (r + 1)..(t - 1) : ~Begins(Lines, j)
        /\ t <= n => ~(Lines[t].kind = "line" /\ Lines[t - 1].kind = "line")
    BY <1>1, <1>2, <1>5, NothingBetween
  <2>2. /\ reached' = t
        /\ docComments' = IF IsKept(r) THEN docComments \cup {CommentAt(r)} ELSE docComments
    BY <1>5 DEF ExtractComment
  <2>3. Begins(Lines, r)
    BY <1>1, <1>2, <1>5 DEF Begins, DocsFound, LoopAtBoundary
  <2> HIDE DEF t, n
  <2>4. LoopAtBoundary'
    BY <1>1, <1>2, <1>3, <2>1, <2>2 DEF LoopAtBoundary, n
  <2>5. \A i : CommentAt(i)' = CommentAt(i) /\ IsKept(i)' = IsKept(i)
    BY <1>2, <1>3 DEF CommentAt, IsKept
  <2>6. \A j \in DOMAIN Lines : j < t /\ Begins(Lines, j) <=> (j < r \/ j = r) /\ Begins(Lines, j)
    <3> SUFFICES ASSUME NEW j \in 1..n, Begins(Lines, j) PROVE j < t <=> (j < r \/ j = r)
      BY <1>1
    <3>1. ~(j \in (r + 1)..(t - 1))
      BY <2>1
    <3> QED BY <1>1, <1>2, <2>1, <3>1
  <2>7. Found' = IF IsKept(r) THEN Found \cup {CommentAt(r)} ELSE Found
    <3>1. Found' = {CommentAt(i) : i \in {j \in DOMAIN Lines :
                      j < t /\ Begins(Lines, j) /\ IsKept(j)}}
      BY <1>3, <2>2, <2>5 DEF Found
    <3>2. {j \in DOMAIN Lines : j < t /\ Begins(Lines, j) /\ IsKept(j)}
            = {j \in DOMAIN Lines : j < r /\ Begins(Lines, j) /\ IsKept(j)}
                \cup (IF IsKept(r) THEN {r} ELSE {})
      BY <1>2, <2>3, <2>6
    <3> QED BY <3>1, <3>2 DEF Found
  <2>8. CommentsShared'
    <3>1. docComments \subseteq Found /\ Found \subseteq docComments
      BY <1>3 DEF DocsFound, CommentsShared
    <3>2. docComments' \subseteq Found' /\ Found' \subseteq docComments'
      BY <2>2, <2>7, <3>1
    <3>3. given' \in Seq(SUBSET Found') /\ Len(given') <= Len(source'.functions)
          /\ given' = <<>> /\ DOMAIN given' = {}
      BY <1>2, <1>3 DEF DocsFound, CommentsShared
    <3> QED BY <3>2, <3>3 DEF CommentsShared
  <2> QED BY <1>2, <1>3, <1>4, <2>4, <2>8 DEF DocsFound, DocsRight
<1>6. CASE Lines[r].kind \notin {"line", "block"}
  <2>1. reached' = r + 1 /\ docComments' = docComments /\ ~Begins(Lines, r)
    BY <1>6 DEF ExtractComment, Begins
  <2>2. LoopAtBoundary'
    <3>1. reached' \in 1..(n + 1) /\ reached' - 1 = r
      BY <1>1, <1>2, <2>1
    <3> QED BY <1>3, <1>6, <3>1 DEF LoopAtBoundary
  <2>3. Found' = Found
    <3>1. \A i : CommentAt(i)' = CommentAt(i) /\ IsKept(i)' = IsKept(i)
      BY <1>2, <1>3 DEF CommentAt, IsKept
    <3>2. \A j \in DOMAIN Lines : j < r + 1 /\ Begins(Lines, j) <=> j < r /\ Begins(Lines, j)
      BY <1>1, <1>2, <2>1
    <3>3. {j \in DOMAIN Lines : j < r + 1 /\ Begins(Lines, j) /\ IsKept(j)}
            = {j \in DOMAIN Lines : j < r /\ Begins(Lines, j) /\ IsKept(j)}
      BY <3>2
    <3>4. Found' = {CommentAt(i) : i \in {j \in DOMAIN Lines :
                      j < r + 1 /\ Begins(Lines, j) /\ IsKept(j)}}
      BY <1>3, <2>1, <3>1 DEF Found
    <3> QED BY <3>3, <3>4 DEF Found
  <2>4. CommentsShared'
    BY <1>2, <1>3, <2>1, <2>3 DEF DocsFound, CommentsShared
  <2> QED BY <1>2, <1>3, <1>4, <2>2, <2>4 DEF DocsFound, DocsRight
<1> QED BY <1>5, <1>6

\* What a function that leads its line has before it: its own comment, if it
\* was found, is closer than any other and nobody has taken it.
LEMMA TakeFindsDocs == DocsFound /\ TakeComment => DocsFound'
<1> SUFFICES ASSUME DocsFound, TakeComment PROVE DocsFound'
  OBVIOUS
<1> DEFINE n == Len(Lines)  k == Len(given) + 1  f == source.functions[k]
           at == SpanStart(f)  taken == TakeNatspec(docComments, at)
<1>1. /\ Lines \in Seq(DocLine) /\ n \in Nat /\ DOMAIN Lines = 1..n
      /\ source.functions \in Seq([line : Nat, column : Nat])
      /\ Len(source.functions) \in Nat /\ DOMAIN source.functions = 1..Len(source.functions)
  BY PlacesOfLines
<1>2. /\ Measured /\ reached > n /\ Len(given) < Len(source.functions)
      /\ source' = source /\ byteOffsets' = byteOffsets /\ size' = size /\ reached' = reached
      /\ starts' = starts /\ fileSize' = fileSize
      /\ docComments' = docComments \ taken /\ given' = Append(given, taken)
  BY DEF TakeComment
<1>3. Lines' = Lines /\ Measured'
  BY <1>2 DEF Lines, Measured
<1>4. given \in Seq(SUBSET Found) /\ Len(given) \in Nat /\ DOMAIN given = 1..Len(given)
  BY LenProperties DEF DocsFound, CommentsShared
<1>5. taken \subseteq docComments /\ taken \in SUBSET Found
  BY DEF TakeNatspec, DocsFound, CommentsShared
<1> HIDE DEF taken
<1>6. /\ given' \in Seq(SUBSET Found) /\ Len(given') = k /\ given'[k] = taken
      /\ DOMAIN given' = 1..k /\ \A m \in 1..Len(given) : given'[m] = given[m]
  BY <1>2, <1>4, <1>5, AppendProperties
<1>7. k \in DOMAIN source.functions /\ k \in Nat /\ 1..k = (1..Len(given)) \cup {k}
      /\ k \notin 1..Len(given)
  <2> DEFINE l == Len(given)  p == Len(source.functions)
  <2>1. l \in Nat /\ p \in Nat /\ l < p /\ DOMAIN source.functions = 1..p
    BY <1>1, <1>2, <1>4
  <2> HIDE DEF l, p
  <2>2. l + 1 \in 1..p /\ l + 1 \in Nat /\ 1..(l + 1) = (1..l) \cup {l + 1} /\ l + 1 \notin 1..l
    BY <2>1
  <2> QED BY <2>1, <2>2 DEF l
<1>8. Found' = Found
  <2>1. \A i : CommentAt(i)' = CommentAt(i) /\ IsKept(i)' = IsKept(i)
    BY <1>2, <1>3 DEF CommentAt, IsKept
  <2> QED BY <1>2, <1>3, <2>1 DEF Found
<1>9. LinesMeasured' /\ LoopAtBoundary'
  BY <1>2, <1>3 DEF DocsFound, LinesMeasured, LoopAtBoundary, NoDrift
<1>10. CommentsShared'
  <2>1. docComments' \subseteq Found'
    BY <1>2, <1>8 DEF DocsFound, CommentsShared
  <2>2. \A c \in Found' \ docComments' : \E m \in DOMAIN given' : c \in given'[m]
    <3> SUFFICES ASSUME NEW c \in Found, c \notin docComments \/ c \in taken
                 PROVE  \E m \in 1..k : c \in given'[m]
      BY <1>2, <1>6, <1>8
    <3>1. CASE c \in taken
      BY <1>6, <1>7, <3>1
    <3>2. CASE c \notin docComments
      <4>1. PICK m \in 1..Len(given) : c \in given[m]
        BY <1>4, <3>2 DEF DocsFound, CommentsShared
      <4> QED BY <1>6, <1>7, <4>1
    <3> QED BY <3>1, <3>2
  <2>3. ASSUME NEW m \in DOMAIN given'
        PROVE  /\ given'[m] \cap docComments' = {}
               /\ \A c \in given'[m] : c.at <= SpanStart(source.functions[m])
    <3>1. CASE m = k
      BY <1>2, <1>6, <3>1 DEF taken, TakeNatspec
    <3>2. CASE m \in 1..Len(given)
      BY <1>2, <1>4, <1>6, <3>2 DEF DocsFound, CommentsShared
    <3> QED BY <1>6, <1>7, <2>3, <3>1, <3>2
  <2>5. \A m : SpanStart(source.functions[m])' = SpanStart(source.functions[m])
    BY <1>2 DEF SpanStart
  <2>6. Len(given') <= Len(source'.functions)
    BY <1>1, <1>2, <1>4, <1>6
  <2> QED BY <1>2, <1>3, <1>6, <1>8, <2>1, <2>2, <2>3, <2>5, <2>6 DEF CommentsShared
\* Comments are at lines; where lines start tells them apart.
<1>11. ASSUME NEW c \in Found
       PROVE  \E i \in DOMAIN Lines :
                /\ Begins(Lines, i) /\ IsKept(i) /\ c = CommentAt(i)
                /\ TargetOf(Lines, i) \in 1..n
                /\ c.at = byteOffsets[TargetOf(Lines, i)] /\ c.natspec = NatspecOf(Lines, i)
  <2>1. PICK i \in DOMAIN Lines : Begins(Lines, i) /\ IsKept(i) /\ c = CommentAt(i)
    BY <1>11 DEF Found
  <2>2. TargetOf(Lines, i) \in (i + 1)..(n + 1)
    BY <1>1, <2>1, NothingBetween, DocLineKinds
  <2>3. TargetOf(Lines, i) \in 1..n
    BY <1>1, <2>1, <2>2 DEF IsKept
  <2> QED BY <2>1, <2>3 DEF CommentAt
<1>12. /\ DOMAIN byteOffsets = 1..n
       /\ \A i \in 1..n : byteOffsets[i] \in Nat /\ Lines[i].width \in Nat /\ Lines[i].width > 0
       /\ \A i, j \in 1..n : i < j => byteOffsets[i] + Lines[i].width <= byteOffsets[j]
  <2>1. DOMAIN byteOffsets = 1..n /\ \A i \in DOMAIN byteOffsets : byteOffsets[i] \in Nat
    BY <1>2, PlacesOfLines DEF Measured
  <2>2. \A i, j \in 1..n : i < j => byteOffsets[i] + Lines[i].width <= byteOffsets[j]
    BY <2>1 DEF DocsFound, LinesMeasured
  <2> QED BY <1>1, <2>1, <2>2, DocLineKinds
<1>13. \A i, j \in 1..n : byteOffsets[i] = byteOffsets[j] => i = j
  <2> SUFFICES ASSUME NEW i \in 1..n, NEW j \in 1..n, i < j
               PROVE  byteOffsets[i] # byteOffsets[j]
    BY <1>1
  <2> QED BY <1>12
<1>14. ASSUME NEW d \in taken, NEW e \in taken PROVE d = e
  <2>1. PICK i \in DOMAIN Lines : /\ Begins(Lines, i) /\ d = CommentAt(i)
                                  /\ TargetOf(Lines, i) \in 1..n
                                  /\ d.at = byteOffsets[TargetOf(Lines, i)]
    BY <1>5, <1>11, <1>14
  <2>2. PICK j \in DOMAIN Lines : /\ Begins(Lines, j) /\ e = CommentAt(j)
                                  /\ TargetOf(Lines, j) \in 1..n
                                  /\ e.at = byteOffsets[TargetOf(Lines, j)]
    BY <1>5, <1>11, <1>14
  <2>3. d.at <= e.at /\ e.at <= d.at
    BY <1>14 DEF taken, TakeNatspec
  <2>4. d.at \in Nat /\ e.at \in Nat
    BY <1>12, <2>1, <2>2
  <2>5. TargetOf(Lines, i) = TargetOf(Lines, j)
    BY <1>13, <2>1, <2>2, <2>3, <2>4
  <2>6. i = j
    BY <1>1, <2>1, <2>2, <2>5, TargetsDiffer
  <2> QED BY <2>1, <2>2, <2>6
<1>15. \A m \in DOMAIN source.functions : LET g == source.functions[m] IN
         /\ g.line \in 1..n /\ g.column \in Nat /\ g.column < Lines[g.line].width
         /\ SpanStart(g) = starts[g.line] + g.column
  <2> SUFFICES ASSUME NEW m \in DOMAIN source.functions
               PROVE  LET g == source.functions[m] IN
                        /\ g.line \in 1..n /\ g.column \in Nat /\ g.column < Lines[g.line].width
                        /\ SpanStart(g) = starts[g.line] + g.column
    OBVIOUS
  <2>1. source.functions[m] \in [line : Nat, column : Nat]
    BY <1>1, ElementOfSeq
  <2>2. IsDocSource(source)
    BY DEF DocsFound, LinesMeasured
  <2> QED BY <1>1, <2>1, <2>2 DEF IsDocSource, SpanStart, Lines
<1>16. ASSUME OwnDocs(f.line) # {}, LeadsItsLine(k), NoDrift(f.line)
       PROVE  \E d \in taken : d.natspec \in OwnDocs(f.line)
  <2>1. PICK i \in DOMAIN Lines :
          Begins(Lines, i) /\ TargetOf(Lines, i) = f.line /\ NatspecOf(Lines, i) # NoNatspec
    BY <1>16 DEF OwnDocs
  <2> DEFINE own == CommentAt(i)
  <2>2. f.line \in 1..n /\ f.column \in Nat /\ at = byteOffsets[f.line] + f.column
        /\ f.column < Lines[f.line].width /\ f.column < MaxDistance
    <3>1. f.line \in 1..n /\ f.column \in Nat /\ at = starts[f.line] + f.column
          /\ f.column < Lines[f.line].width /\ f.column < MaxDistance
      BY <1>7, <1>15, <1>16 DEF LeadsItsLine
    <3>2. starts[f.line] = byteOffsets[f.line]
      BY <1>12, <1>16, <3>1 DEF DocsFound, LinesMeasured
    <3> QED BY <3>1, <3>2
  <2>3. own \in Found /\ own.at = byteOffsets[f.line]
    <3>1. i < reached
      BY <1>1, <1>2 DEF DocsFound, LoopAtBoundary
    <3>2. TargetOf(Lines, i) <= Len(Lines)
      BY <2>1, <2>2
    <3>3. IsKept(i)
      BY <2>1, <3>2 DEF IsKept
    <3>4. own \in Found
      BY <2>1, <3>1, <3>3 DEF Found
    <3>5. own.at = byteOffsets[TargetOf(Lines, i)]
      BY DEF CommentAt
    <3> QED BY <2>1, <3>4, <3>5
  <2> HIDE DEF own
  <2>4. own \in docComments
    <3>1. ASSUME NEW m \in DOMAIN given, own \in given[m] PROVE FALSE
      <4> DEFINE g == source.functions[m]
      <4>1. m \in DOMAIN source.functions /\ m < k /\ m \in Nat
        BY <1>1, <1>4, <1>7
      <4>2. own.at <= SpanStart(g)
        BY <3>1 DEF DocsFound, CommentsShared
      <4>3. g.line \in 1..n /\ g.column \in Nat /\ g.column < Lines[g.line].width
            /\ SpanStart(g) = starts[g.line] + g.column
        BY <1>15, <4>1
      <4>4. g.line # f.line
        BY <1>16, <4>1 DEF LeadsItsLine
      <4>5. g.line < f.line
        <5>1. IsBefore(g, f)
          BY <1>7, <4>1 DEF DocsFound, LinesMeasured, IsDocSource
        <5> QED BY <4>4, <5>1 DEF IsBefore
      <4>8. starts[g.line] = byteOffsets[g.line]
        <5>1. NoDrift(g.line)
          <6> HIDE DEF f, g
          <6> QED BY <1>1, <1>16, <2>2, <4>3, <4>5 DEF NoDrift
        <5> QED BY <1>12, <4>3, <5>1 DEF DocsFound, LinesMeasured
      <4>6. byteOffsets[g.line] + Lines[g.line].width <= byteOffsets[f.line]
        BY <1>12, <2>2, <4>3, <4>5
      <4>7. byteOffsets[g.line] \in Nat /\ Lines[g.line].width \in Nat /\ byteOffsets[f.line] \in Nat
        BY <1>12, <2>2, <4>3
      <4> HIDE DEF f, g
      <4>9. SpanStart(g) = byteOffsets[g.line] + g.column
        BY <4>3, <4>8
      <4>10. \A x0, c0, w0, y0 \in Nat : c0 < w0 /\ x0 + w0 <= y0 => ~(y0 <= x0 + c0)
        OBVIOUS
      <4> QED BY <2>3, <4>2, <4>3, <4>6, <4>7, <4>9, <4>10
    <3> QED BY <2>3, <3>1 DEF DocsFound, CommentsShared
  <2>5. ASSUME NEW e \in docComments, e.at <= at
        PROVE  e.at <= own.at /\ (own.at <= e.at => e.natspec \in OwnDocs(f.line))
    <3>1. PICK j \in DOMAIN Lines :
            /\ Begins(Lines, j) /\ IsKept(j) /\ TargetOf(Lines, j) \in 1..n
            /\ e.at = byteOffsets[TargetOf(Lines, j)] /\ e.natspec = NatspecOf(Lines, j)
      <4>1. e \in Found
        BY <2>5 DEF DocsFound, CommentsShared
      <4> QED BY <1>11, <4>1
    <3> DEFINE t == TargetOf(Lines, j)
    <3>2. byteOffsets[t] \in Nat /\ byteOffsets[f.line] \in Nat /\ Lines[f.line].width \in Nat
      BY <1>12, <2>2, <3>1
    <3>3. ~(f.line < t)
      <4>1. ASSUME f.line < t PROVE byteOffsets[f.line] + Lines[f.line].width <= byteOffsets[t]
        BY <1>12, <2>2, <3>1, <4>1
      <4>2. e.at = byteOffsets[t]
        BY <3>1
      <4> HIDE DEF f, t, at
      <4>3. ASSUME f.line < t PROVE FALSE
        <5>1. byteOffsets[f.line] + Lines[f.line].width <= e.at
          BY <4>1, <4>2, <4>3
        <5>2. e.at <= byteOffsets[f.line] + f.column
          BY <2>2, <2>5
        <5>3. \A x0, c0, w0, y0 \in Nat : c0 < w0 /\ x0 + w0 <= y0 => ~(y0 <= x0 + c0)
          OBVIOUS
        <5>4. e.at \in Nat
          BY <3>2, <4>2
        <5> QED BY <2>2, <3>2, <5>1, <5>2, <5>3, <5>4
      <4> QED BY <4>3
    <3>4. e.at <= own.at
      <4>1. t = f.line \/ t < f.line
        BY <2>2, <3>1, <3>3
      <4>2. t < f.line => byteOffsets[t] + Lines[t].width <= byteOffsets[f.line]
        BY <1>12, <2>2, <3>1
      <4>3. Lines[t].width \in Nat
        BY <1>12, <3>1
      <4> HIDE DEF f
      <4>4. byteOffsets[t] <= byteOffsets[f.line]
        <5> HIDE DEF t
        <5> QED BY <3>2, <4>1, <4>2, <4>3
      <4> QED BY <2>3, <3>1, <4>4
    <3>5. ASSUME own.at <= e.at PROVE e.natspec \in OwnDocs(f.line)
      <4>1. t = f.line
        BY <1>13, <2>2, <2>3, <3>1, <3>2, <3>4, <3>5
      <4> QED BY <3>1, <4>1 DEF OwnDocs, IsKept
    <3> QED BY <3>4, <3>5
  <2>6. own \in taken
    <3>1. own.at <= at /\ at - own.at < MaxDistance
      <4>1. byteOffsets[f.line] \in Nat
        BY <1>12, <2>2
      <4> HIDE DEF f, at
      <4> QED BY <2>2, <2>3, <4>1, MaxDistanceIsNat
    <3> QED BY <2>4, <2>5, <3>1 DEF taken, TakeNatspec
  <2>7. own.natspec \in OwnDocs(f.line)
    BY <2>1 DEF own, CommentAt, OwnDocs
  <2> QED BY <2>6, <2>7
<1>17. ASSUME NEW m \in DOMAIN given', OwnDocs(source.functions[m].line)' # {},
              LeadsItsLine(m)', NoDrift(source.functions[m].line)'
       PROVE  \E d \in given'[m] : d.natspec \in OwnDocs(source.functions[m].line)'
  <2>1. /\ OwnDocs(source.functions[m].line)' = OwnDocs(source.functions[m].line)
        /\ LeadsItsLine(m)' = LeadsItsLine(m)
        /\ NoDrift(source.functions[m].line)' = NoDrift(source.functions[m].line)
    BY <1>2, <1>3 DEF OwnDocs, LeadsItsLine, NoDrift
  <2>2. CASE m = k
    BY <1>6, <1>16, <1>17, <2>1, <2>2
  <2>3. CASE m \in 1..Len(given)
    <3>1. /\ OwnDocs(source.functions[m].line) # {} /\ LeadsItsLine(m)
          /\ NoDrift(source.functions[m].line)
      BY <1>17, <2>1
    <3>2. \E d \in given[m] : d.natspec \in OwnDocs(source.functions[m].line)
      BY <1>4, <2>3, <3>1 DEF DocsFound, DocsRight
    <3> QED BY <1>6, <2>1, <2>3, <3>2
  <2> QED BY <1>6, <1>7, <1>17, <2>2, <2>3
<1>18. ASSUME NEW m \in DOMAIN given', NEW d \in given'[m], NEW e \in given'[m] PROVE d = e
  <2>1. CASE m = k
    BY <1>6, <1>14, <1>18, <2>1
  <2>2. CASE m \in 1..Len(given)
    BY <1>4, <1>6, <1>18, <2>2 DEF DocsFound, DocsRight
  <2> QED BY <1>6, <1>7, <1>18, <2>1, <2>2
<1>19. ASSUME NEW l \in DOMAIN given', NEW m \in DOMAIN given', given'[l] \cap given'[m] # {}
       PROVE  l = m
  <2>1. \A o \in 1..Len(given) : given'[o] \cap taken = {}
    BY <1>4, <1>5, <1>6 DEF DocsFound, CommentsShared
  <2>2. CASE l = k \/ m = k
    BY <1>6, <1>7, <1>19, <2>1, <2>2
  <2>3. CASE l \in 1..Len(given) /\ m \in 1..Len(given)
    BY <1>4, <1>6, <1>19, <2>3 DEF DocsFound, DocsRight
  <2> QED BY <1>6, <1>7, <1>19, <2>2, <2>3
<1>20. DocsRight'
  BY <1>17, <1>18, <1>19 DEF DocsRight
<1> QED BY <1>9, <1>10, <1>20 DEF DocsFound

LEMMA NextFindsDocs == DocsFound /\ [DocNext]_docVars => DocsFound'
<1> SUFFICES ASSUME DocsFound, [DocNext]_docVars PROVE DocsFound'
  OBVIOUS
<1>1. CASE UNCHANGED docVars
  <2>1. /\ source' = source /\ byteOffsets' = byteOffsets /\ size' = size
        /\ reached' = reached /\ docComments' = docComments /\ given' = given
        /\ starts' = starts /\ fileSize' = fileSize
    BY <1>1 DEF docVars
  <2>2. Lines' = Lines /\ (Measured' <=> Measured)
    BY <2>1 DEF Lines, Measured
  <2>3. Found' = Found
    <3>1. \A i : CommentAt(i)' = CommentAt(i) /\ IsKept(i)' = IsKept(i)
      BY <2>1, <2>2 DEF CommentAt, IsKept
    <3> QED BY <2>1, <2>2, <3>1 DEF Found
  <2>4. LinesMeasured' /\ LoopAtBoundary'
    BY <2>1, <2>2 DEF DocsFound, LinesMeasured, LoopAtBoundary, NoDrift
  <2>5. CommentsShared'
    <3>1. \A k : SpanStart(source.functions[k])' = SpanStart(source.functions[k])
      BY <2>1 DEF SpanStart
    <3> QED BY <2>1, <2>2, <2>3, <3>1 DEF DocsFound, CommentsShared
  <2>6. DocsRight'
    <3>1. \A l : OwnDocs(l)' = OwnDocs(l)
      BY <2>2 DEF OwnDocs
    <3>2. \A k : LeadsItsLine(k)' = LeadsItsLine(k)
      BY <2>1 DEF LeadsItsLine
    <3>3. \A l : NoDrift(l)' = NoDrift(l)
      BY <2>2 DEF NoDrift
    <3> QED BY <2>1, <3>1, <3>2, <3>3 DEF DocsFound, DocsRight
  <2> QED BY <2>4, <2>5, <2>6 DEF DocsFound
<1> QED BY <1>1, MeasureFindsDocs, ExtractFindsDocs, TakeFindsDocs DEF DocNext

\* Of every source, each function that leads its line and has no CRLF before
\* it is given its own comment if it has one; and whatever ends the lines, no
\* function is given two comments and no comment is given twice.  What a
\* function without a comment may be given, and what a CRLF does to those
\* that have one, is not claimed: DocsAreOwn and AdjacentAttached fail.
THEOREM DocsAreRight == DocSpec => []DocsRight
<1>1. DocSpec => []DocsFound
  BY InitFindsDocs, NextFindsDocs, PTL DEF DocSpec
<1>2. DocsFound => DocsRight
  BY DEF DocsFound
<1> QED BY <1>1, <1>2, PTL

-----------------------------------------------------------------------------
(* The budget of a decoder                                                 *)

Nameds == [at : Seq(Nat), ty : AbiTypes]
Values == [at : Seq(Nat), ty : AbiTypes, place : SUBSET Nat, apart : BOOLEAN]

NameOf(v) == [at |-> v.at, ty |-> v.ty]

\* What a walk has before it, the next first.
LEMMA HeldFirst ==
  ASSUME NEW S, NEW s \in Seq(S), s # <<>>
  PROVE  /\ Head(s) \in S /\ Tail(s) \in Seq(S)
         /\ Held(s) = {Head(s)} \cup Held(Tail(s))
<1>1. /\ Head(s) \in S /\ Tail(s) \in Seq(S) /\ Len(s) \in Nat /\ Len(s) > 0
      /\ Head(s) = s[1] /\ Len(Tail(s)) = Len(s) - 1
      /\ \A i \in 1..(Len(s) - 1) : Tail(s)[i] = s[i + 1]
  BY HeadTailProperties, EmptySeq, LenProperties
<1>2. ASSUME NEW i \in 1..Len(s) PROVE s[i] \in {Head(s)} \cup Held(Tail(s))
  <2>1. i = 1 \/ i - 1 \in 1..(Len(s) - 1)
    BY <1>1
  <2>2. ASSUME i - 1 \in 1..(Len(s) - 1) PROVE s[i] \in Held(Tail(s))
    <3>1. Tail(s)[i - 1] = s[(i - 1) + 1] /\ (i - 1) + 1 = i
      BY <1>1, <2>2
    <3> QED BY <1>1, <2>2, <3>1 DEF Held
  <2> QED BY <1>1, <2>1, <2>2
<1>3. ASSUME NEW i \in 1..(Len(s) - 1) PROVE Tail(s)[i] \in Held(s)
  <2>1. i + 1 \in 1..Len(s)
    BY <1>1
  <2> QED BY <1>1, <2>1 DEF Held
<1>4. 1 \in 1..Len(s)
  BY <1>1
<1>5. Held(s) \subseteq {Head(s)} \cup Held(Tail(s))
  BY <1>2 DEF Held
<1>6. {Head(s)} \cup Held(Tail(s)) \subseteq Held(s)
  BY <1>1, <1>3, <1>4 DEF Held
<1> QED BY <1>1, <1>5, <1>6

\* A value that is visited is replaced by its parts.
LEMMA HeldVisited ==
  ASSUME NEW S, NEW s \in Seq(S), s # <<>>, NEW p \in Seq(S)
  PROVE  /\ Head(s) \in S /\ p \o Tail(s) \in Seq(S)
         /\ Head(s) \in Held(s)
         /\ Held(s) \subseteq {Head(s)} \cup Held(p \o Tail(s))
         /\ Held(p) \subseteq Held(p \o Tail(s))
         /\ Held(p \o Tail(s)) \subseteq Held(p) \cup Held(s)
<1>1. /\ Head(s) \in S /\ Tail(s) \in Seq(S)
      /\ Held(s) = {Head(s)} \cup Held(Tail(s))
  BY HeldFirst
<1>2. p \o Tail(s) \in Seq(S) /\ Held(p \o Tail(s)) = Held(p) \cup Held(Tail(s))
  <2>1. p \in Seq(S) /\ Tail(s) \in Seq(S)
    BY <1>1
  <2> QED BY ONLY <2>1, HeldConcat
<1> QED BY <1>1, <1>2

\* One more of a set is one off the budget.
LEMMA SpendCounts ==
  ASSUME NEW S, IsFiniteSet(S), NEW b \in Nat, b # 0, NEW N \in Nat,
         Cardinality(S) + b <= N, NEW x
  PROVE  /\ IsFiniteSet(S \cup {x}) /\ Spend(b) \in Nat
         /\ Cardinality(S \cup {x}) + Spend(b) <= N
         /\ Cardinality(S \cup {x}) <= N
<1>1. Cardinality(S) \in Nat
  BY FS_CardinalityType
<1>2. /\ IsFiniteSet(S \cup {x})
      /\ \/ Cardinality(S \cup {x}) = Cardinality(S)
         \/ Cardinality(S \cup {x}) = Cardinality(S) + 1
  BY FS_AddElement
<1> QED BY <1>1, <1>2 DEF Spend

\* There are no more addresses than there is at them.
LEMMA AddressesCounted ==
  ASSUME NEW S, IsFiniteSet(S), NEW N \in Nat, Cardinality(S) <= N,
         NEW T, T \subseteq {v.at : v \in S}
  PROVE  IsFiniteSet(T) /\ Cardinality(T) <= N
<1> DEFINE A == {v.at : v \in S}
           f == [v \in S |-> v.at]
<1>1. f \in Surjection(S, A)
  BY DEF Surjection
<1>2. IsFiniteSet(A) /\ Cardinality(A) <= Cardinality(S)
  BY <1>1, FS_Surjection
<1>3. T \in SUBSET A
  OBVIOUS
<1> HIDE DEF A
<1>4. IsFiniteSet(T) /\ Cardinality(T) <= Cardinality(A)
  BY <1>2, <1>3, FS_Subset
<1>5. Cardinality(T) \in Nat /\ Cardinality(A) \in Nat /\ Cardinality(S) \in Nat
  BY <1>2, <1>4, FS_CardinalityType
<1> QED BY <1>2, <1>4, <1>5

LEMMA TypeParted ==
  ASSUME NEW v \in Nameds
  PROVE  TypeParts(v) \in Seq(Nameds)
<1>1. v.at \in Seq(Nat) /\ v.ty.of \in Seq(AbiTypes)
  BY AbiTypesAreTypes DEF Nameds, IsType
<1>2. Len(v.ty.of) \in Nat /\ DOMAIN v.ty.of = 1..Len(v.ty.of)
  BY <1>1, LenProperties
<1>3. ASSUME NEW i \in 1..Len(v.ty.of)
      PROVE  [at |-> Append(v.at, i), ty |-> v.ty.of[i]] \in Nameds
  <2>1. i \in Nat
    BY <1>2
  <2>2. Append(v.at, i) \in Seq(Nat)
    BY <1>1, <2>1, AppendProperties
  <2>3. v.ty.of[i] \in AbiTypes
    BY <1>1, ElementOfSeq
  <2> QED BY <2>2, <2>3 DEF Nameds
<1> QED BY <1>2, <1>3, IsASeq DEF TypeParts

LEMMA PlaceIsNat ==
  ASSUME IsRequest(request), NEW ty, NEW start, NEW head
  PROVE  Place(ty, start, head) \subseteq Nat
<1>1. Len(Data) \in Nat
  BY LenProperties DEF IsRequest, IsShapedRequest, Data
<1>2. 0..Len(Data) \subseteq Nat
  BY <1>1
<1>3. Offset(start, head) \subseteq 0..Len(Data)
  BY DEF Offset
<1> QED BY <1>2, <1>3 DEF Place

\* What there is data for has a number of parts.
LEMMA CountIsNat ==
  ASSUME IsRequest(request), NEW v \in Values, IsShaped(v)
  PROVE  Count(v) \in Nat
<1>1. v.ty.n \in Nat /\ v.ty.of \in Seq(AbiTypes) /\ v.place \subseteq Nat
  BY AbiTypesAreTypes DEF Values, IsType
<1>2. Len(v.ty.of) \in Nat
  BY <1>1, LenProperties
<1>3. CASE v.ty.kind = "array"
  <2>1. Base(v) \in Nat
    BY <1>1 DEF Base, IsShaped
  <2>2. Data \in Seq(Nat) /\ Len(Data) \in Nat
    BY LenProperties DEF IsRequest, IsShapedRequest, Data
  <2>3. Base(v) < Len(Data)
    BY <1>3 DEF IsShaped
  <2>4. Base(v) + 1 \in 1..Len(Data)
    BY <2>1, <2>2, <2>3
  <2>5. Data[Base(v) + 1] \in Nat
    BY <2>2, <2>4, ElementOfSeq
  <2> QED BY <1>3, <2>5 DEF Count
<1>4. CASE v.ty.kind # "array"
  BY <1>1, <1>2, <1>4 DEF Count
<1> QED BY <1>3, <1>4

LEMMA PartTyped ==
  ASSUME IsRequest(request), NEW v \in Values, IsShaped(v), NEW i \in 1..Count(v)
  PROVE  PartType(v, i) \in AbiTypes /\ Part(v, i) \in Values
<1>1. /\ v.ty \in AbiTypes /\ v.ty.of \in Seq(AbiTypes) /\ v.at \in Seq(Nat)
      /\ IsItems(v.ty) => Len(v.ty.of) = 1
      /\ v.ty.kind \in {"word", "bytes", "tuple", "fixed", "array"}
  BY AbiTypesAreTypes DEF Values, IsType
<1>2. Count(v) \in Nat
  BY CountIsNat
<1>3. i \in Nat /\ Append(v.at, i) \in Seq(Nat)
  BY <1>1, <1>2, AppendProperties
<1>4. PartType(v, i) \in AbiTypes
  <2>1. CASE v.ty.kind = "tuple"
    <3>1. i \in 1..Len(v.ty.of)
      BY <2>1 DEF Count
    <3> QED BY <1>1, <2>1, <3>1, ElementOfSeq DEF PartType
  <2>2. CASE IsItems(v.ty)
    <3>0. Len(v.ty.of) = 1
      BY <1>1, <2>2
    <3>1. 1 \in 1..Len(v.ty.of)
      BY <3>0
    <3>2. v.ty.kind # "tuple"
      BY <2>2 DEF IsItems
    <3> QED BY <1>1, <3>1, <3>2, ElementOfSeq DEF PartType
  <2>3. CASE v.ty.kind \in {"word", "bytes"}
    <3>1. Count(v) = 0
      BY <2>3 DEF Count
    <3> QED BY <3>1
  <2> QED BY <1>1, <2>1, <2>2, <2>3 DEF IsItems
<1>5. v.ty.zero \in BOOLEAN
  BY <1>1, AbiTypesAreTypes DEF IsType
<1>6. \A start, head : Place(PartType(v, i), start, head) \subseteq Nat
  BY PlaceIsNat
<1> QED BY <1>3, <1>4, <1>5, <1>6 DEF Part, Value, Values

LEMMA PartsTyped ==
  ASSUME IsRequest(request), NEW v \in Values, IsShaped(v)
  PROVE  /\ Parts(v) \in Seq(Values) /\ Len(Parts(v)) = Count(v)
         /\ \A i \in 1..Count(v) : Parts(v)[i] = Part(v, i)
<1>1. Count(v) \in Nat
  BY CountIsNat
<1>2. \A i \in 1..Count(v) : Part(v, i) \in Values
  BY PartTyped
<1>3. Parts(v) \in [1..Count(v) -> Values]
  BY <1>2 DEF Parts
<1>4. Parts(v) \in Seq(Values) /\ Len(Parts(v)) = Count(v)
  BY <1>1, <1>3, IsASeq, LenProperties
<1> QED BY <1>4 DEF Parts

\* The parts of a tuple have the types of its type's parts.
LEMMA PartsNamed ==
  ASSUME IsRequest(request), NEW v \in Values, IsShaped(v),
         v.ty.kind \in {"word", "tuple"}, NEW w \in Held(Parts(v))
  PROVE  NameOf(w) \in Held(TypeParts(NameOf(v)))
<1>1. PICK i \in 1..Count(v) : w = Part(v, i)
  BY PartsTyped DEF Held
<1>2. v.ty.kind = "tuple" /\ i \in 1..Len(v.ty.of)
  BY <1>1 DEF Count
<1>3. NameOf(w) = [at |-> Append(v.at, i), ty |-> v.ty.of[i]]
  BY <1>1, <1>2 DEF NameOf, Part, Value, PartType
<1>4. v.ty.of \in Seq(AbiTypes)
  BY AbiTypesAreTypes DEF Values, IsType
<1>5. Len(v.ty.of) \in Nat /\ DOMAIN v.ty.of = 1..Len(v.ty.of)
  BY <1>4, LenProperties
<1>6. TypeParts(NameOf(v))
        = [j \in 1..Len(v.ty.of) |-> [at |-> Append(v.at, j), ty |-> v.ty.of[j]]]
  BY <1>5 DEF TypeParts, NameOf
<1>7. Len(TypeParts(NameOf(v))) = Len(v.ty.of)
  BY <1>5, <1>6
<1> QED BY <1>2, <1>3, <1>6, <1>7 DEF Held

DecodingTyped ==
  /\ IsRequest(request) /\ budget \in Nat
  /\ IsFiniteSet(named) /\ named \subseteq Nameds
  /\ IsFiniteSet(charged) /\ charged \subseteq Values
  /\ phase = "small_type" => toVisit \in Seq(Nameds)
  /\ phase \in {"preflight", "decode"} => toVisit \in Seq(Values) /\ TooMuch = "no"
  /\ phase \in {"small_type", "start"} => charged = {}
  /\ phase \in {"small_type", "start", "preflight"} => built = {}

\* What small_type has counted, with what it has before it, is the schema.
TypesHeldBy(S) == Whole \in S /\ \A v \in named : Held(TypeParts(v)) \subseteq S

TypesCounted ==
  /\ Cardinality(named) <= SmallNodes
  /\ \A v \in named : v.ty.kind \in {"word", "tuple"}
  /\ phase = "small_type" =>
       Cardinality(named) + budget <= SmallNodes /\ TypesHeldBy(named \cup Held(toVisit))
  /\ request.small /\ phase \in {"start", "preflight", "decode"} =>
       request.op = "event" /\ TypesHeldBy(named)

\* What preflight has charged, with what it has before it, is the data.
DataHeldBy(S) == Root \in S /\ \A v \in charged : Held(Parts(v)) \subseteq S

ValuesCharged ==
  /\ Cardinality(charged) <= AbiNodes
  /\ \A v \in charged : IsShaped(v) /\ (request.small => NameOf(v) \in named)
  /\ phase = "preflight" =>
       /\ Cardinality(charged) + budget <= AbiNodes
       /\ DataHeldBy(charged \cup Held(toVisit))
       /\ request.small => \A v \in Held(toVisit) : NameOf(v) \in named

ValuesBuilt ==
  /\ built \subseteq {v.at : v \in charged}
  /\ phase = "decode" => /\ DataHeldBy(charged) /\ Held(toVisit) \subseteq charged
                         /\ request.op = "decode" => budget = AbiNodes

Bounded == DecodingTyped /\ TypesCounted /\ ValuesCharged /\ ValuesBuilt

LEMMA DataStays ==
  ASSUME request' = request
  PROVE  /\ Root' = Root /\ Whole' = Whole /\ TooMuch' = TooMuch /\ Topics' = Topics
         /\ \A v : Parts(v)' = Parts(v) /\ (IsShaped(v)' <=> IsShaped(v))
<1>1. Data' = Data /\ Topics' = Topics
  BY DEF Data, Topics
<1>2. \A ty, start, head : Place(ty, start, head)' = Place(ty, start, head)
  BY <1>1 DEF Place, Offset
<1>3. Root' = Root /\ Whole' = Whole /\ TooMuch' = TooMuch
  BY <1>1, <1>2 DEF Root, Whole, TooMuch, Value
<1>4. ASSUME NEW v PROVE IsShaped(v)' <=> IsShaped(v)
  BY <1>1 DEF IsShaped
<1>5. ASSUME NEW v PROVE Parts(v)' = Parts(v)
  <2>1. Count(v)' = Count(v)
    BY <1>1 DEF Count
  <2>2. ASSUME NEW i PROVE Part(v, i)' = Part(v, i)
    BY <1>2 DEF Part, Value
  <2> QED BY <2>1, <2>2 DEF Parts
<1> QED BY <1>1, <1>3, <1>4, <1>5

LEMMA LimitsTyped ==
  AbiNodes \in Nat /\ SmallNodes \in Nat
BY LimitsAreNat

LEMMA RootTyped ==
  ASSUME IsRequest(request)
  PROVE  /\ Whole \in Nameds /\ Root \in Values
         /\ request.op = "event" => NameOf(Root) \in Held(TypeParts(Whole))
<1>1. request.schema \in AbiTypes /\ <<>> \in Seq(Nat) /\ <<2>> \in Seq(Nat)
  BY DEF IsRequest, IsShapedRequest
<1>2. request.schema.of \in Seq(AbiTypes)
  BY <1>1, AbiTypesAreTypes DEF IsType
<1>3. Whole \in Nameds
  BY <1>1 DEF Whole, Nameds
<1>4. {0} \subseteq Nat /\ \A ty : Place(ty, 0, 0) \subseteq Nat
  BY PlaceIsNat
<1>5. CASE request.op = "event"
  <2>1. Len(request.schema.of) = 2 /\ 2 \in 1..Len(request.schema.of)
    BY <1>5 DEF IsRequest, IsShapedRequest
  <2>2. request.schema.of[2] \in AbiTypes
    BY <1>2, <2>1, ElementOfSeq
  <2>3. Root \in Values
    BY <1>1, <1>4, <1>5, <2>2 DEF Root, Value, Values
  <2>4. NameOf(Root) = [at |-> <<2>>, ty |-> request.schema.of[2]]
    BY <1>5 DEF NameOf, Root, Value
  <2>5. DOMAIN request.schema.of = 1..2
    BY <1>2, <2>1, LenProperties
  <2>6. TypeParts(Whole) = [i \in 1..2 |-> [at |-> Append(<<>>, i), ty |-> request.schema.of[i]]]
    BY <2>5 DEF TypeParts, Whole
  <2>7. Len(TypeParts(Whole)) = 2 /\ 2 \in 1..2 /\ Append(<<>>, 2) = <<2>>
    BY <2>6
  <2>8. TypeParts(Whole)[2] = NameOf(Root)
    BY <2>4, <2>6, <2>7
  <2>9. NameOf(Root) \in Held(TypeParts(Whole))
    BY <2>7, <2>8 DEF Held
  <2> QED BY <1>3, <2>3, <2>9
<1>6. CASE request.op # "event"
  BY <1>1, <1>3, <1>4, <1>6 DEF Root, Value, Values
<1> QED BY <1>5, <1>6

LEMMA InitIsBounded == DecodeInit => Bounded
<1> SUFFICES ASSUME DecodeInit PROVE Bounded
  OBVIOUS
<1>1. /\ IsRequest(request) /\ budget = SmallNodes /\ toVisit = <<Whole>>
      /\ named = {} /\ charged = {} /\ built = {}
      /\ phase = IF request.small THEN "small_type" ELSE "start"
  BY SchemasAreTypes, RequestsAreShaped DEF DecodeInit, IsRequest
<1>2. Whole \in Nameds
  BY <1>1, RootTyped
<1>3. IsFiniteSet({}) /\ Cardinality({}) = 0
  BY FS_EmptySet
<1>4. toVisit \in Seq(Nameds) /\ Held(toVisit) = {Whole}
  <2>1. Len(toVisit) = 1 /\ toVisit[1] = Whole
    BY <1>1
  <2>2. 1..1 = {1}
    OBVIOUS
  <2> QED BY <1>1, <1>2, <2>1, <2>2 DEF Held
<1>5. DecodingTyped
  BY <1>1, <1>3, <1>4, LimitsTyped DEF DecodingTyped
<1>6. TypesCounted
  BY <1>1, <1>3, <1>4, LimitsTyped DEF TypesCounted, TypesHeldBy
<1>7. ValuesCharged
  BY <1>1, <1>3, LimitsTyped DEF ValuesCharged
<1>8. ValuesBuilt
  BY <1>1 DEF ValuesBuilt
<1> QED BY <1>5, <1>6, <1>7, <1>8 DEF Bounded

LEMMA CountTypeIsBounded == Bounded /\ CountType => Bounded'
<1> SUFFICES ASSUME Bounded, CountType PROVE Bounded'
  OBVIOUS
<1> DEFINE v == Head(toVisit)
<1>1. /\ phase = "small_type" /\ phase' = phase /\ toVisit # <<>> /\ request' = request
      /\ charged' = charged /\ built' = built
      /\ named' = named \cup {v} /\ budget' = Spend(budget)
      /\ toVisit' = TypeParts(v) \o Tail(toVisit)
      /\ budget > 0 /\ v.ty.kind \in {"word", "tuple"}
  BY DEF CountType, IsSmall
<1>2. /\ toVisit \in Seq(Nameds) /\ IsRequest(request) /\ budget \in Nat
      /\ charged = {} /\ built = {} /\ IsFiniteSet(named) /\ named \subseteq Nameds
  BY <1>1 DEF Bounded, DecodingTyped
<1>3. /\ Cardinality(named) + budget <= SmallNodes /\ TypesHeldBy(named \cup Held(toVisit))
      /\ \A n \in named : n.ty.kind \in {"word", "tuple"}
  BY <1>1 DEF Bounded, TypesCounted
<1>4. v \in Nameds
  BY <1>1, <1>2, HeldFirst
<1>5. TypeParts(v) \in Seq(Nameds)
  BY <1>4, TypeParted
<1>6. /\ toVisit' \in Seq(Nameds) /\ v \in Held(toVisit)
      /\ Held(toVisit) \subseteq {v} \cup Held(toVisit')
      /\ Held(TypeParts(v)) \subseteq Held(toVisit')
  BY <1>1, <1>2, <1>5, HeldVisited
<1>7. /\ IsFiniteSet(named') /\ budget' \in Nat
      /\ Cardinality(named') + budget' <= SmallNodes /\ Cardinality(named') <= SmallNodes
  <2>1. budget # 0 /\ SmallNodes \in Nat
    BY <1>1, <1>2, LimitsTyped
  <2> HIDE DEF v
  <2> QED BY <1>1, <1>2, <1>3, <2>1, SpendCounts
<1> HIDE DEF v
<1>8. DecodingTyped'
  <2>1. IsRequest(request')
    BY <1>1, <1>2
  <2>2. named' \subseteq Nameds
    BY <1>1, <1>2, <1>4
  <2>3. phase' = "small_type" /\ charged' = {} /\ built' = {}
    BY <1>1, <1>2
  <2>4. IsFiniteSet(charged') /\ charged' \subseteq Values
    BY <2>3, FS_EmptySet
  <2> QED BY <1>6, <1>7, <2>1, <2>2, <2>3, <2>4 DEF DecodingTyped
<1>9. TypesCounted'
  <2>1. Whole' = Whole
    BY <1>1, DataStays
  <2>2. TypesHeldBy(named \cup Held(toVisit))'
    <3>1. named \cup Held(toVisit) \subseteq named' \cup Held(toVisit')
      BY <1>1, <1>6
    <3>2. \A n \in named' : Held(TypeParts(n)) \subseteq named' \cup Held(toVisit')
      BY <1>1, <1>3, <1>6, <3>1 DEF TypesHeldBy
    <3> QED BY <1>3, <2>1, <3>1, <3>2 DEF TypesHeldBy
  <2>3. \A n \in named' : n.ty.kind \in {"word", "tuple"}
    BY <1>1, <1>3
  <2> QED BY <1>1, <1>7, <2>2, <2>3 DEF TypesCounted
<1>10. ValuesCharged'
  BY <1>1, <1>2 DEF ValuesCharged, Bounded
<1>11. ValuesBuilt'
  BY <1>1, <1>2 DEF ValuesBuilt
<1> QED BY <1>8, <1>9, <1>10, <1>11 DEF Bounded

LEMMA EndIsBounded ==
  ASSUME Bounded, UNCHANGED <<request, budget, toVisit, named, charged, built>>,
         phase' \notin {"small_type", "start", "preflight", "decode"}
  PROVE  Bounded'
<1>1. DecodingTyped'
  <2>1. IsRequest(request')
    BY DEF Bounded, DecodingTyped
  <2> QED BY <2>1 DEF Bounded, DecodingTyped
<1>2. TypesCounted'
  BY DEF Bounded, TypesCounted
<1>3. ValuesCharged'
  BY DataStays DEF Bounded, ValuesCharged
<1>4. ValuesBuilt'
  BY DEF Bounded, ValuesBuilt
<1> QED BY <1>1, <1>2, <1>3, <1>4 DEF Bounded

LEMMA AllSmallIsBounded == Bounded /\ AllSmall => Bounded'
<1> SUFFICES ASSUME Bounded, AllSmall PROVE Bounded'
  OBVIOUS
<1>1. /\ phase = "small_type" /\ toVisit = <<>>
      /\ phase' = IF request.op = "event" THEN "start" ELSE "dirty_required"
      /\ UNCHANGED <<request, budget, toVisit, named, charged, built>>
  BY DEF AllSmall
<1>2. CASE request.op = "event"
  <2>1. phase' = "start"
    BY <1>1, <1>2
  <2>2. charged = {} /\ built = {} /\ IsRequest(request')
    BY <1>1 DEF Bounded, DecodingTyped
  <2>3. TypesHeldBy(named)'
    <3>1. TypesHeldBy(named)
      BY <1>1, HeldNothing DEF Bounded, TypesCounted
    <3> QED BY <1>1, <3>1, DataStays DEF TypesHeldBy
  <2>4. DecodingTyped'
    BY <1>1, <2>1, <2>2 DEF Bounded, DecodingTyped
  <2>5. TypesCounted'
    BY <1>1, <1>2, <2>1, <2>3 DEF Bounded, TypesCounted
  <2>6. ValuesCharged'
    BY <1>1, <2>1, <2>2 DEF Bounded, ValuesCharged
  <2>7. ValuesBuilt'
    BY <1>1, <2>1, <2>2 DEF Bounded, ValuesBuilt
  <2> QED BY <2>4, <2>5, <2>6, <2>7 DEF Bounded
<1>3. CASE request.op # "event"
  <2>1. phase' \notin {"small_type", "start", "preflight", "decode"}
    BY <1>1, <1>3
  <2> QED BY <1>1, <2>1, EndIsBounded
<1> QED BY <1>2, <1>3

\* What small_type has counted stays the schema, whatever is walked then.
LEMMA TypesStayCounted ==
  ASSUME Bounded, request' = request, named' = named,
         phase \in {"start", "preflight", "decode"}, phase' # "small_type"
  PROVE  TypesCounted'
<1>1. request.small => request.op = "event" /\ TypesHeldBy(named)
  BY DEF Bounded, TypesCounted
<1>2. TypesHeldBy(named) => TypesHeldBy(named)'
  BY DataStays DEF TypesHeldBy
<1> QED BY <1>1, <1>2 DEF Bounded, TypesCounted

LEMMA StartPreflightIsBounded == Bounded /\ StartPreflight => Bounded'
<1> SUFFICES ASSUME Bounded, StartPreflight PROVE Bounded'
  OBVIOUS
<1>1. /\ phase = "start" /\ phase' = IF TooMuch = "no" THEN "preflight" ELSE TooMuch
      /\ budget' = AbiNodes /\ toVisit' = <<Root>>
      /\ request' = request /\ named' = named /\ charged' = charged /\ built' = built
  BY DEF StartPreflight
<1>2. /\ IsRequest(request) /\ charged = {} /\ built = {}
      /\ IsFiniteSet(named) /\ named \subseteq Nameds
  BY <1>1 DEF Bounded, DecodingTyped
<1>3. phase' \notin {"small_type", "start", "decode"}
  BY <1>1 DEF TooMuch
<1>4. phase' = "preflight" => TooMuch' = "no"
  BY <1>1, DataStays DEF TooMuch
<1>5. Root \in Values /\ toVisit' \in Seq(Values) /\ Held(toVisit') = {Root}
  <2>1. Root \in Values
    BY <1>2, RootTyped
  <2>2. Len(toVisit') = 1 /\ toVisit'[1] = Root /\ 1..1 = {1}
    BY <1>1
  <2> QED BY <1>1, <2>1, <2>2 DEF Held
<1>6. IsFiniteSet({}) /\ Cardinality({}) = 0
  BY FS_EmptySet
<1>7. DecodingTyped'
  <2>1. IsRequest(request') /\ budget' \in Nat
    BY <1>1, <1>2, LimitsTyped
  <2>2. IsFiniteSet(charged') /\ charged' \subseteq Values /\ charged' = {} /\ built' = {}
    BY <1>1, <1>2, <1>6
  <2>3. IsFiniteSet(named') /\ named' \subseteq Nameds
    BY <1>1, <1>2
  <2> QED BY <1>3, <1>4, <1>5, <2>1, <2>2, <2>3 DEF DecodingTyped
<1>8. TypesCounted'
  BY <1>1, <1>3, TypesStayCounted
<1>9. ValuesCharged'
  <2>1. Root' = Root
    BY <1>1, DataStays
  <2>2. request.small => NameOf(Root) \in named
    BY <1>1, <1>2, RootTyped DEF Bounded, TypesCounted, TypesHeldBy
  <2>3. charged' = {} /\ Cardinality(charged') = 0
    BY <1>1, <1>2, <1>6
  <2>4. DataHeldBy(charged \cup Held(toVisit))'
    BY <1>5, <2>1, <2>3 DEF DataHeldBy
  <2>5. Cardinality(charged') + budget' <= AbiNodes /\ Cardinality(charged') <= AbiNodes
    BY <1>1, <2>3, LimitsTyped
  <2>6. request'.small => \A v \in Held(toVisit') : NameOf(v) \in named'
    BY <1>1, <1>5, <2>2
  <2> QED BY <2>3, <2>4, <2>5, <2>6 DEF ValuesCharged
<1>10. ValuesBuilt'
  BY <1>1, <1>2, <1>3 DEF ValuesBuilt
<1> QED BY <1>7, <1>8, <1>9, <1>10 DEF Bounded

LEMMA PreflightIsBounded == Bounded /\ Preflight => Bounded'
<1> SUFFICES ASSUME Bounded, Preflight PROVE Bounded'
  OBVIOUS
<1> DEFINE v == Head(toVisit)
<1>1. /\ phase = "preflight" /\ phase' = phase /\ toVisit # <<>> /\ request' = request
      /\ named' = named /\ built' = built
      /\ charged' = charged \cup {v} /\ budget' = Spend(budget)
      /\ toVisit' = Parts(v) \o Tail(toVisit)
  BY DEF Preflight
<1>2. IsShaped(v) /\ budget # 0
  BY DEF Preflight, Unfit
<1>3. /\ toVisit \in Seq(Values) /\ TooMuch = "no" /\ IsRequest(request) /\ budget \in Nat
      /\ built = {} /\ IsFiniteSet(named) /\ named \subseteq Nameds
      /\ IsFiniteSet(charged) /\ charged \subseteq Values
  BY <1>1 DEF Bounded, DecodingTyped
<1>4. /\ Cardinality(charged) + budget <= AbiNodes /\ DataHeldBy(charged \cup Held(toVisit))
      /\ request.small => \A w \in Held(toVisit) : NameOf(w) \in named
      /\ \A w \in charged : IsShaped(w) /\ (request.small => NameOf(w) \in named)
  BY <1>1 DEF Bounded, ValuesCharged
<1>5. v \in Values
  BY <1>1, <1>3, HeldFirst
<1>6. Parts(v) \in Seq(Values)
  BY <1>2, <1>3, <1>5, PartsTyped
<1>7. /\ toVisit' \in Seq(Values) /\ v \in Held(toVisit)
      /\ Held(toVisit) \subseteq {v} \cup Held(toVisit')
      /\ Held(Parts(v)) \subseteq Held(toVisit')
      /\ Held(toVisit') \subseteq Held(Parts(v)) \cup Held(toVisit)
  BY <1>1, <1>3, <1>6, HeldVisited
<1> HIDE DEF v
<1>8. /\ IsFiniteSet(charged') /\ budget' \in Nat
      /\ Cardinality(charged') + budget' <= AbiNodes /\ Cardinality(charged') <= AbiNodes
  BY <1>1, <1>2, <1>3, <1>4, LimitsTyped, SpendCounts
<1>9. TooMuch' = TooMuch /\ Root' = Root
      /\ \A w : Parts(w)' = Parts(w) /\ (IsShaped(w)' <=> IsShaped(w))
  BY <1>1, DataStays
<1>10. DecodingTyped'
  <2>1. IsRequest(request') /\ charged' \subseteq Values
    BY <1>1, <1>3, <1>5
  <2>2. IsFiniteSet(named') /\ named' \subseteq Nameds /\ built' = {} /\ phase' = "preflight"
        /\ TooMuch' = "no"
    BY <1>1, <1>3, <1>9
  <2> QED BY <1>7, <1>8, <2>1, <2>2 DEF DecodingTyped
<1>11. TypesCounted'
  BY <1>1, TypesStayCounted
<1>12. ValuesCharged'
  <2>1. DataHeldBy(charged \cup Held(toVisit))'
    <3>1. charged \cup Held(toVisit) \subseteq charged' \cup Held(toVisit')
      BY <1>1, <1>7
    <3>2. \A w \in charged' : Held(Parts(w)) \subseteq charged' \cup Held(toVisit')
      BY <1>1, <1>4, <1>7, <3>1 DEF DataHeldBy
    <3>3. Root \in charged' \cup Held(toVisit')
      BY <1>4, <3>1 DEF DataHeldBy
    <3> QED BY <1>9, <3>2, <3>3 DEF DataHeldBy
  <2>2. \A w \in charged' : IsShaped(w) /\ (request.small => NameOf(w) \in named)
    BY <1>1, <1>2, <1>4, <1>7
  <2>3. ASSUME request.small, NEW w \in Held(toVisit') PROVE NameOf(w) \in named
    <3>1. CASE w \in Held(toVisit)
      BY <1>4, <2>3, <3>1
    <3>2. CASE w \in Held(Parts(v))
      <4>1. NameOf(v) \in named
        BY <1>4, <1>7, <2>3
      <4>2. v.ty.kind \in {"word", "tuple"} /\ Held(TypeParts(NameOf(v))) \subseteq named
        <5>1. NameOf(v).ty = v.ty
          BY DEF NameOf
        <5>2. /\ TypesHeldBy(named)
              /\ \A n \in named : n.ty.kind \in {"word", "tuple"}
          BY <1>1, <2>3 DEF Bounded, TypesCounted
        <5> QED BY <4>1, <5>1, <5>2 DEF TypesHeldBy
      <4> QED BY <1>2, <1>3, <1>5, <3>2, <4>2, PartsNamed
    <3> QED BY <1>7, <3>1, <3>2
  <2>4. /\ \A w \in charged' : IsShaped(w)' /\ (request'.small => NameOf(w) \in named')
        /\ request'.small => \A w \in Held(toVisit') : NameOf(w) \in named'
    BY <1>1, <1>9, <2>2, <2>3
  <2> QED BY <1>8, <2>1, <2>4 DEF ValuesCharged
<1>13. ValuesBuilt'
  BY <1>1, <1>3 DEF ValuesBuilt
<1> QED BY <1>10, <1>11, <1>12, <1>13 DEF Bounded

\* What was charged stays charged while it is decoded.
LEMMA ValuesStayCharged ==
  ASSUME Bounded, request' = request, named' = named, charged' = charged,
         phase' = "decode"
  PROVE  ValuesCharged'
BY DataStays DEF Bounded, ValuesCharged

LEMMA StartDecodingIsBounded == Bounded /\ StartDecoding => Bounded'
<1> SUFFICES ASSUME Bounded, StartDecoding PROVE Bounded'
  OBVIOUS
<1>1. /\ phase = "preflight" /\ toVisit = <<>> /\ phase' = "decode"
      /\ budget' = AbiNodes - Topics /\ toVisit' = <<Root>>
      /\ request' = request /\ named' = named /\ charged' = charged /\ built' = built
  BY DEF StartDecoding
<1>2. /\ TooMuch = "no" /\ IsRequest(request) /\ built = {}
      /\ IsFiniteSet(named) /\ named \subseteq Nameds
      /\ IsFiniteSet(charged) /\ charged \subseteq Values
  BY <1>1 DEF Bounded, DecodingTyped
<1>3. DataHeldBy(charged)
  BY <1>1, HeldNothing DEF Bounded, ValuesCharged
<1>4. budget' \in Nat /\ (request.op = "decode" => budget' = AbiNodes)
  <2>1. Topics \in Nat /\ (request.op = "decode" => Topics = 0)
    <3>1. CASE request.op = "event"
      <4>1. request.schema \in AbiTypes /\ Len(request.schema.of) = 2
        BY <1>2, <3>1 DEF IsRequest, IsShapedRequest
      <4>2. request.schema.of \in Seq(AbiTypes)
        BY <4>1, AbiTypesAreTypes DEF IsType
      <4>3. 1 \in 1..Len(request.schema.of)
        BY <4>1
      <4>4. request.schema.of[1] \in AbiTypes
        BY <4>2, <4>3, ElementOfSeq
      <4>5. request.schema.of[1].of \in Seq(AbiTypes)
        BY <4>4, AbiTypesAreTypes DEF IsType
      <4> QED BY <3>1, <4>5, LenProperties DEF Topics
    <3>2. CASE request.op # "event"
      BY <3>2 DEF Topics
    <3> QED BY <3>1, <3>2
  <2>2. ~(Topics > AbiNodes)
    BY <1>2 DEF TooMuch
  <2> QED BY <1>1, <2>1, <2>2, LimitsTyped
<1>5. Root \in Values /\ toVisit' \in Seq(Values) /\ Held(toVisit') = {Root}
  <2>1. Root \in Values
    BY <1>2, RootTyped
  <2>2. Len(toVisit') = 1 /\ toVisit'[1] = Root /\ 1..1 = {1}
    BY <1>1
  <2> QED BY <1>1, <2>1, <2>2 DEF Held
<1>6. DecodingTyped'
  <2>1. IsRequest(request') /\ TooMuch' = "no"
    BY <1>1, <1>2, DataStays
  <2>2. /\ IsFiniteSet(named') /\ named' \subseteq Nameds
        /\ IsFiniteSet(charged') /\ charged' \subseteq Values
    BY <1>1, <1>2
  <2> QED BY <1>1, <1>4, <1>5, <2>1, <2>2 DEF DecodingTyped
<1>7. TypesCounted'
  BY <1>1, TypesStayCounted
<1>8. ValuesCharged'
  BY <1>1, ValuesStayCharged
<1>9. ValuesBuilt'
  <2>1. DataHeldBy(charged)'
    BY <1>1, <1>3, DataStays DEF DataHeldBy
  <2>2. Held(toVisit') \subseteq charged'
    BY <1>1, <1>3, <1>5 DEF DataHeldBy
  <2> QED BY <1>1, <1>2, <1>4, <2>1, <2>2 DEF ValuesBuilt
<1> QED BY <1>6, <1>7, <1>8, <1>9 DEF Bounded

LEMMA DecodeIsBounded == Bounded /\ Decode => Bounded'
<1> SUFFICES ASSUME Bounded, Decode PROVE Bounded'
  OBVIOUS
<1> DEFINE v == Head(toVisit)
<1>1. /\ phase = "decode" /\ phase' = phase /\ toVisit # <<>> /\ request' = request
      /\ named' = named /\ charged' = charged
      /\ built' = built \cup {v.at} /\ budget' = budget - Cost(v)
      /\ toVisit' = PartsDecoded(v) \o Tail(toVisit)
  BY DEF Decode
<1>2. /\ toVisit \in Seq(Values) /\ TooMuch = "no" /\ IsRequest(request) /\ budget \in Nat
      /\ IsFiniteSet(named) /\ named \subseteq Nameds
      /\ IsFiniteSet(charged) /\ charged \subseteq Values
  BY <1>1 DEF Bounded, DecodingTyped
<1>3. /\ DataHeldBy(charged) /\ Held(toVisit) \subseteq charged
      /\ request.op = "decode" => budget = AbiNodes
      /\ built \subseteq {w.at : w \in charged}
  BY <1>1 DEF Bounded, ValuesBuilt
<1>4. v \in Values /\ v \in charged
  BY <1>1, <1>2, <1>3, HeldFirst
<1>5. PartsDecoded(v) \in Seq(Values) /\ Held(PartsDecoded(v)) \subseteq charged
  <2>1. IsShaped(v)
    BY <1>4 DEF Bounded, ValuesCharged
  <2>2. Parts(v) \in Seq(Values)
    BY <1>2, <1>4, <2>1, PartsTyped
  <2>3. Held(Parts(v)) \subseteq charged
    BY <1>3, <1>4 DEF DataHeldBy
  <2>4. <<>> \in Seq(Values)
    OBVIOUS
  <2> HIDE DEF v
  <2> QED BY <2>2, <2>3, <2>4, HeldNothing DEF PartsDecoded
<1>6. /\ toVisit' \in Seq(Values)
      /\ Held(toVisit') \subseteq Held(PartsDecoded(v)) \cup Held(toVisit)
  BY <1>1, <1>2, <1>5, HeldVisited
<1>7. budget' \in Nat /\ (request.op = "decode" => budget' = AbiNodes)
  <2>1. ~(budget < Cost(v))
    BY DEF Decode, Undecodable
  <2>2. Cost(v) \in {0, 1, 2} /\ (request.op = "decode" => Cost(v) = 0)
    BY DEF Cost, IsAsked
  <2> HIDE DEF v
  <2> QED BY <1>1, <1>2, <1>3, <2>1, <2>2
<1> HIDE DEF v
<1>8. DecodingTyped'
  <2>1. IsRequest(request') /\ TooMuch' = "no"
    BY <1>1, <1>2, DataStays
  <2>2. /\ IsFiniteSet(named') /\ named' \subseteq Nameds
        /\ IsFiniteSet(charged') /\ charged' \subseteq Values /\ phase' = "decode"
    BY <1>1, <1>2
  <2> QED BY <1>6, <1>7, <2>1, <2>2 DEF DecodingTyped
<1>9. TypesCounted'
  BY <1>1, TypesStayCounted
<1>10. ValuesCharged'
  BY <1>1, ValuesStayCharged
<1>11. ValuesBuilt'
  <2>1. DataHeldBy(charged)'
    BY <1>1, <1>3, DataStays DEF DataHeldBy
  <2>2. Held(toVisit') \subseteq charged' /\ built' \subseteq {w.at : w \in charged'}
    BY <1>1, <1>3, <1>4, <1>5, <1>6
  <2> QED BY <1>1, <1>7, <2>1, <2>2 DEF ValuesBuilt
<1> QED BY <1>8, <1>9, <1>10, <1>11 DEF Bounded

LEMMA RefusalsAreBounded ==
  Bounded /\ (NotSmall \/ RefuseUnfit \/ RefuseUndecodable \/ GiveTerms) => Bounded'
<1> SUFFICES ASSUME Bounded, NotSmall \/ RefuseUnfit \/ RefuseUndecodable \/ GiveTerms
             PROVE  Bounded'
  OBVIOUS
<1>1. UNCHANGED <<request, budget, toVisit, named, charged, built>>
  BY DEF NotSmall, RefuseUnfit, RefuseUndecodable, GiveTerms
<1>2. phase' \notin {"small_type", "start", "preflight", "decode"}
  <2>1. CASE NotSmall
    BY <2>1 DEF NotSmall
  <2>2. CASE RefuseUnfit
    BY <2>2 DEF RefuseUnfit, Unfit
  <2>3. CASE RefuseUndecodable
    BY <2>3 DEF RefuseUndecodable, Undecodable
  <2>4. CASE GiveTerms
    BY <2>4 DEF GiveTerms
  <2> QED BY <2>1, <2>2, <2>3, <2>4
<1> QED BY <1>1, <1>2, EndIsBounded

LEMMA StutterIsBounded == Bounded /\ UNCHANGED decodeVars => Bounded'
<1> SUFFICES ASSUME Bounded, UNCHANGED decodeVars PROVE Bounded'
  OBVIOUS
<1>1. /\ request' = request /\ phase' = phase /\ budget' = budget /\ toVisit' = toVisit
      /\ named' = named /\ charged' = charged /\ built' = built
  BY DEF decodeVars
<1>2. /\ Root' = Root /\ Whole' = Whole /\ TooMuch' = TooMuch
      /\ \A v : Parts(v)' = Parts(v) /\ (IsShaped(v)' <=> IsShaped(v))
  BY <1>1, DataStays
<1>3. DecodingTyped'
  <2>1. IsRequest(request')
    BY <1>1 DEF Bounded, DecodingTyped
  <2> QED BY <1>1, <1>2, <2>1 DEF Bounded, DecodingTyped
<1>4. TypesCounted'
  <2>1. \A S : TypesHeldBy(S)' <=> TypesHeldBy(S)
    BY <1>1, <1>2 DEF TypesHeldBy
  <2> QED BY <1>1, <2>1 DEF Bounded, TypesCounted, TypesHeldBy
<1>5. ValuesCharged'
  BY <1>1, <1>2 DEF Bounded, ValuesCharged, DataHeldBy
<1>6. ValuesBuilt'
  BY <1>1, <1>2 DEF Bounded, ValuesBuilt, DataHeldBy
<1> QED BY <1>3, <1>4, <1>5, <1>6 DEF Bounded

LEMMA NextIsBounded == Bounded /\ [DecodeNext]_decodeVars => Bounded'
BY CountTypeIsBounded, AllSmallIsBounded, StartPreflightIsBounded, PreflightIsBounded,
   StartDecodingIsBounded, DecodeIsBounded, RefusalsAreBounded, StutterIsBounded
   DEF DecodeNext

\* What is built was charged, and in a small call its types were counted.
LEMMA BoundedSuffices == Bounded => BudgetsBound
<1> SUFFICES ASSUME Bounded PROVE BudgetsBound
  OBVIOUS
<1>1. /\ IsFiniteSet(charged) /\ Cardinality(charged) <= AbiNodes
      /\ IsFiniteSet(named) /\ Cardinality(named) <= SmallNodes
      /\ built \subseteq {v.at : v \in charged}
      /\ \A v \in charged : request.small => NameOf(v) \in named
  BY DEF Bounded, DecodingTyped, TypesCounted, ValuesCharged, ValuesBuilt
<1>2. Cardinality(built) <= AbiNodes
  BY <1>1, LimitsTyped, AddressesCounted
<1>3. ASSUME request.small PROVE Cardinality(built) <= SmallNodes
  <2>1. \A v : NameOf(v).at = v.at
    BY DEF NameOf
  <2>2. built \subseteq {n.at : n \in named}
    BY <1>1, <1>3, <2>1
  <2> QED BY <1>1, <2>2, LimitsTyped, AddressesCounted
<1> QED BY <1>2, <1>3 DEF BudgetsBound

THEOREM BudgetsAreBound == DecodeSpec => []BudgetsBound
<1>1. Bounded /\ [DecodeNext]_decodeVars => Bounded'
  BY NextIsBounded
<1> QED BY <1>1, InitIsBounded, BoundedSuffices, PTL DEF DecodeSpec

\* What preflight lets through is decoded: there is data for all that alloy
\* looks at, and in a call of decode the nodes suffice for its terms.  In an
\* event they may not, for the topics and decode_compatible spend some.
PreflightSuffices ==
  phase = "decode" =>
    /\ toVisit # <<>> /\ Undecodable(Head(toVisit)) # "no" =>
         request.op = "event" /\ Undecodable(Head(toVisit)) = "value_limit"
    /\ request.op = "decode" => Cardinality(built) <= budget

THEOREM PreflightIsEnough == DecodeSpec => []PreflightSuffices
<1>1. ASSUME Bounded PROVE PreflightSuffices
  <2> SUFFICES ASSUME phase = "decode" PROVE PreflightSuffices
    BY DEF PreflightSuffices
  <2>1. toVisit \in Seq(Values) /\ Held(toVisit) \subseteq charged /\ budget \in Nat
    BY <1>1 DEF Bounded, DecodingTyped, ValuesBuilt
  <2>2. ASSUME toVisit # <<>>, Undecodable(Head(toVisit)) # "no"
        PROVE  request.op = "event" /\ Undecodable(Head(toVisit)) = "value_limit"
    <3>1. Head(toVisit) \in charged
      BY <2>1, <2>2, HeldFirst
    <3>2. IsShaped(Head(toVisit))
      BY <1>1, <3>1 DEF Bounded, ValuesCharged
    <3>3. Undecodable(Head(toVisit)) = "value_limit"
      BY <2>2, <3>2 DEF Undecodable
    <3>4. ASSUME request.op # "event" PROVE FALSE
      <4>1. Cost(Head(toVisit)) = 0 /\ ~IsRebuilt(Head(toVisit))
        BY <3>4 DEF Cost, IsAsked, IsRebuilt
      <4>2. ~(budget < 0)
        BY <2>1
      <4> QED BY <3>2, <2>2, <4>1, <4>2 DEF Undecodable
    <3> QED BY <3>3, <3>4
  <2>3. request.op = "decode" => Cardinality(built) <= budget
    BY <1>1, BoundedSuffices DEF Bounded, ValuesBuilt, BudgetsBound
  <2> QED BY <2>2, <2>3 DEF PreflightSuffices
<1>2. Bounded /\ [DecodeNext]_decodeVars => Bounded'
  BY NextIsBounded
<1> QED BY <1>1, <1>2, InitIsBounded, PTL DEF DecodeSpec

=============================================================================
