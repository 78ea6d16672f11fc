-------------------------- MODULE BoundedDecoding --------------------------
(***************************************************************************)
(* How much onchain_abi lets alloy build.  Before alloy decodes anything,  *)
(* preflight walks the data as alloy will and takes a node off a budget    *)
(* for each value: offsets may alias one another, so the length of the     *)
(* data bounds nothing.  Then alloy decodes, or decode_compatible, which   *)
(* puts together what has parts without width and leaves the rest to       *)
(* alloy.  For a schema to be decoded on a normal scheduler, small_type    *)
(* has counted its types.  One step is one value, or one type, of one of   *)
(* these walks; what is still to be visited is a stack, as the calls that  *)
(* are still to be made would be.                                          *)
(*                                                                         *)
(* Data is a sequence of 32-byte words; lengths and offsets count words.   *)
(***************************************************************************)
EXTENDS Naturals, Sequences, FiniteSets
SeqOps == INSTANCE SequencesExt

CONSTANTS
  AbiTypes,     \* the types that are part of some schema
  Requests,     \* the calls of abi and abi_small that are tried
  AbiNodes,     \* MAX_NODES
  MaxPayload,   \* MAX_BYTES
  SmallNodes,   \* nodes of a schema for the normal scheduler (32)
  SmallPayload  \* an event's data there (4096 bytes)

Total(terms) == SeqOps!FoldLeft(LAMBDA sum, term : sum + term, 0, terms)

IsItems(ty) == ty.kind \in {"array", "fixed"}

\* A type with what alloy (is_dynamic, minimum_words) and has_zero say of it.
IsType(ty) ==
  /\ ty.kind \in {"word", "bytes", "tuple", "fixed", "array"}
  /\ ty.of \in Seq(AbiTypes) /\ ty.n \in Nat
  /\ ty.kind \in {"word", "bytes"} => ty.of = <<>>
  /\ IsItems(ty) => Len(ty.of) = 1
  /\ ty.dynamic =
       (ty.kind \in {"bytes", "array"} \/ \E i \in DOMAIN ty.of : ty.of[i].dynamic)
  /\ ty.words = LET of == Total([i \in DOMAIN ty.of |-> ty.of[i].words])
                IN  CASE ty.kind = "tuple" -> of [] ty.kind = "fixed" -> ty.n * of [] OTHER -> 1
  /\ ty.zero = (\/ ty.kind = "tuple" /\ ty.of = <<>>
                \/ ty.kind = "fixed" /\ ty.n = 0
                \/ \E i \in DOMAIN ty.of : ty.of[i].zero)

\* The schema of an event is a tuple of the topics' types and one of the
\* body's (Onchain.ABI.AlloyEvents writes no other).
IsShapedRequest(r) ==
  /\ r.op \in {"decode", "event"} /\ r.small \in BOOLEAN
  /\ r.data \in Seq(Nat)
  /\ r.op = "event" => /\ r.schema.kind = "tuple" /\ Len(r.schema.of) = 2
                       /\ \A i \in 1..2 : r.schema.of[i].kind = "tuple"

IsRequest(r) == r.schema \in AbiTypes /\ IsShapedRequest(r)

ASSUME AbiTypesAreTypes == \A ty \in AbiTypes : IsType(ty)
ASSUME SchemasAreTypes == {r.schema : r \in Requests} \subseteq AbiTypes
ASSUME RequestsAreShaped == \A r \in Requests : IsShapedRequest(r)
ASSUME LimitsAreNat == {AbiNodes, MaxPayload, SmallNodes, SmallPayload} \subseteq Nat

VARIABLES
  request,  \* the call: its operation, schema and data, and if it is abi_small's
  phase,    \* the walk it is in, or the tag of its answer
  budget,   \* nodes: those the walk may still spend
  toVisit,  \* what the walk has still to visit, next first
  named,    \* the types small_type counted
  charged,  \* the values preflight spent a node on
  built     \* the addresses of the values that were decoded

decodeVars == <<request, phase, budget, toVisit, named, charged, built>>

Data == request.data
Topics == IF request.op = "event" THEN Len(request.schema.of[1].of) ELSE 0

Whole == [at |-> <<>>, ty |-> request.schema]

DecodeInit ==
  /\ request \in Requests
  /\ phase = IF request.small THEN "small_type" ELSE "start"
  /\ budget = SmallNodes /\ toVisit = <<Whole>>
  /\ named = {} /\ charged = {} /\ built = {}

\* Faulty variant: the node is not taken off.
SpendNothing(left) == left

Spend(left) == left - 1

-----------------------------------------------------------------------------
(* small_type: no array and no bytes, and few types                        *)

TypeParts(v) ==
  [i \in DOMAIN v.ty.of |-> [at |-> Append(v.at, i), ty |-> v.ty.of[i]]]

IsSmall(v) == budget > 0 /\ v.ty.kind \in {"word", "tuple"}

CountType ==
  /\ phase = "small_type" /\ toVisit # <<>>
  /\ IsSmall(Head(toVisit))
  /\ named' = named \cup {Head(toVisit)} /\ budget' = Spend(budget)
  /\ toVisit' = TypeParts(Head(toVisit)) \o Tail(toVisit)
  /\ UNCHANGED <<request, phase, charged, built>>

\* The caller has to use abi, and so a dirty scheduler.
NotSmall ==
  /\ phase = "small_type" /\ toVisit # <<>>
  /\ ~IsSmall(Head(toVisit))
  /\ phase' = "dirty_required"
  /\ UNCHANGED <<request, budget, toVisit, named, charged, built>>

AllSmall ==
  /\ phase = "small_type" /\ toVisit = <<>>
  /\ phase' = IF request.op = "event" THEN "start" ELSE "dirty_required"
  /\ UNCHANGED <<request, budget, toVisit, named, charged, built>>

-----------------------------------------------------------------------------
(* Values.  One has an address, the indices that lead to it, a type, the   *)
(* place of its body, if there is one, and says if its parent has a part   *)
(* without width.                                                          *)

Value(at, ty, place, apart) == [at |-> at, ty |-> ty, place |-> place, apart |-> apart]

Base(v) == CHOOSE b \in v.place : TRUE

\* The place that the word at a place says, counted from a start.
Offset(start, at) ==
  {b \in 0..Len(Data) : at < Len(Data) /\ b = start + Data[at + 1]}

Place(ty, start, head) ==
  IF ty.dynamic THEN Offset(start, head) ELSE {head} \cap 0..Len(Data)

\* A tuple is the parameters themselves, anything else the only one.
Root ==
  LET ty == IF request.op = "event" THEN request.schema.of[2] ELSE request.schema
  IN  Value(IF request.op = "event" THEN <<2>> ELSE <<>>, ty,
            IF ty.kind = "tuple" THEN {0} ELSE Place(ty, 0, 0), TRUE)

Count(v) ==
  CASE v.ty.kind = "tuple" -> Len(v.ty.of)
    [] v.ty.kind = "fixed" -> v.ty.n
    [] v.ty.kind = "array" -> Data[Base(v) + 1]
    [] OTHER               -> 0

PartType(v, i) == IF v.ty.kind = "tuple" THEN v.ty.of[i] ELSE v.ty.of[1]

HeadWords(ty) == IF ty.dynamic THEN 1 ELSE ty.words

Part(v, i) ==
  LET start == IF v.ty.kind = "array" THEN Base(v) + 1 ELSE Base(v)
      head == start + Total([j \in 1..(i - 1) |-> HeadWords(PartType(v, j))])
  IN  Value(Append(v.at, i), PartType(v, i), Place(PartType(v, i), start, head), v.ty.zero)

Parts(v) == [i \in 1..Count(v) |-> Part(v, i)]

\* Data is there for the value itself.
IsShaped(v) ==
  /\ v.place # {}
  /\ v.ty.kind \in {"word", "bytes", "array"} => Base(v) < Len(Data)
  /\ v.ty.kind = "bytes" => Base(v) + Data[Base(v) + 1] < Len(Data)

-----------------------------------------------------------------------------
(* preflight                                                               *)

\* The limits that come first; each topic of an event is a node of its terms.
TooMuch ==
  IF Topics > 4 THEN "value_limit"
  ELSE IF Len(Data) > (IF request.small THEN SmallPayload ELSE MaxPayload) THEN "payload_limit"
  ELSE IF Topics > AbiNodes THEN "value_limit" ELSE "no"

StartPreflight ==
  /\ phase = "start"
  /\ phase' = IF TooMuch = "no" THEN "preflight" ELSE TooMuch
  /\ budget' = AbiNodes /\ toVisit' = <<Root>>
  /\ UNCHANGED <<request, named, charged, built>>

\* What is wrong with a value, if anything.
Unfit(v) ==
  IF v.place = {} THEN "malformed"
  ELSE IF budget = 0 THEN "value_limit"
  ELSE IF ~IsShaped(v) THEN "malformed"
  ELSE IF IsItems(v.ty) /\ Count(v) > Spend(budget) THEN "value_limit" ELSE "no"

Preflight ==
  /\ phase = "preflight" /\ toVisit # <<>>
  /\ Unfit(Head(toVisit)) = "no"
  /\ charged' = charged \cup {Head(toVisit)} /\ budget' = Spend(budget)
  /\ toVisit' = Parts(Head(toVisit)) \o Tail(toVisit)
  /\ UNCHANGED <<request, phase, named, built>>

RefuseUnfit ==
  /\ phase = "preflight" /\ toVisit # <<>>
  /\ Unfit(Head(toVisit)) # "no"
  /\ phase' = Unfit(Head(toVisit))
  /\ UNCHANGED <<request, budget, toVisit, named, charged, built>>

-----------------------------------------------------------------------------
(* alloy, and decode_compatible in an event                                *)

\* The budget of the terms, which decode_compatible shares.
StartDecoding ==
  /\ phase = "preflight" /\ toVisit = <<>>
  /\ phase' = "decode" /\ budget' = AbiNodes - Topics /\ toVisit' = <<Root>>
  /\ UNCHANGED <<request, named, charged, built>>

\* decode_compatible is called for a value, and puts it together.
IsAsked(v) == request.op = "event" /\ v.apart
IsRebuilt(v) == request.op = "event" /\ v.ty.zero

\* The items of an array are the parts of a tuple, which costs a node more.
Cost(v) ==
  IF ~IsAsked(v) THEN 0 ELSE IF IsRebuilt(v) /\ IsItems(v.ty) THEN 2 ELSE 1

Undecodable(v) ==
  IF ~IsShaped(v) THEN "malformed"
  ELSE IF budget < Cost(v) THEN "value_limit"
  ELSE IF IsRebuilt(v) /\ IsItems(v.ty) /\ Count(v) > budget - 1 THEN "value_limit" ELSE "no"

\* alloy makes an empty array of items without width.
PartsDecoded(v) ==
  IF ~IsRebuilt(v) /\ IsItems(v.ty) /\ v.ty.of[1].words = 0 THEN <<>> ELSE Parts(v)

Decode ==
  /\ phase = "decode" /\ toVisit # <<>>
  /\ Undecodable(Head(toVisit)) = "no"
  /\ built' = built \cup {Head(toVisit).at}
  /\ budget' = budget - Cost(Head(toVisit))
  /\ toVisit' = PartsDecoded(Head(toVisit)) \o Tail(toVisit)
  /\ UNCHANGED <<request, phase, named, charged>>

RefuseUndecodable ==
  /\ phase = "decode" /\ toVisit # <<>>
  /\ Undecodable(Head(toVisit)) # "no"
  /\ phase' = Undecodable(Head(toVisit))
  /\ UNCHANGED <<request, budget, toVisit, named, charged, built>>

\* to_term, with a node for each value.
GiveTerms ==
  /\ phase = "decode" /\ toVisit = <<>>
  /\ phase' = IF Cardinality(built) <= budget THEN "ok" ELSE "value_limit"
  /\ UNCHANGED <<request, budget, toVisit, named, charged, built>>

DecodeNext ==
  \/ CountType \/ NotSmall \/ AllSmall
  \/ StartPreflight \/ Preflight \/ RefuseUnfit
  \/ StartDecoding \/ Decode \/ RefuseUndecodable \/ GiveTerms

DecodeSpec == DecodeInit /\ [][DecodeNext]_decodeVars

-----------------------------------------------------------------------------

\* Whatever the data, no more values are built than the budget has nodes,
\* and for a call that stays on a normal scheduler no more than its schema may
\* have types.
BudgetsBound ==
  /\ Cardinality(built) <= AbiNodes
  /\ request.small => Cardinality(built) <= SmallNodes

=============================================================================
