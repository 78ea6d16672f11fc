------------------------------ MODULE AbiCodec ------------------------------
(***************************************************************************)
(* onchain_abi's "abi" and "abi_small" NIFs: bounded encoding and decoding *)
(* of ABI values around alloy, which does the work and would allocate      *)
(* whatever the data asks for.  Data is a sequence of 32-byte words, and   *)
(* lengths and offsets count words; a binary is a sequence of words too.   *)
(*                                                                         *)
(* A type is [kind, of, n]: a "word" of at most n, "bytes", a "tuple" or   *)
(* an "array" of types, or a "fixed" array of n.  A value or a term has    *)
(* the shape "int", "binary" or "list".                                    *)
(***************************************************************************)
LOCAL INSTANCE Integers
LOCAL INSTANCE Sequences
LOCAL INSTANCE SequencesExt

CONSTANTS
  MaxNodes,     \* MAX_NODES
  MaxPayload,   \* MAX_BYTES
  SmallNodes,   \* nodes of a schema for the normal scheduler (32)
  SmallPayload, \* an event's data there (4096 bytes)
  MaxLogs       \* logs in a batch (10,000)

Rep(ty, n) == [i \in 1..n |-> ty]
From(raw, at) == SubSeq(raw, at + 1, Len(raw))
Sum(s) == FoldLeft(LAMBDA a, b : a + b, 0, s)

Word(w) == [shape |-> "int", word |-> w, bytes |-> <<>>, items |-> <<>>]
Bytes(b) == [shape |-> "binary", word |-> 0, bytes |-> b, items |-> <<>>]
List(items) == [shape |-> "list", word |-> 0, bytes |-> <<>>, items |-> items]

\* A budget that is left, or why there is none.
Limit == -1
Malformed == -2

Spend(budget) == IF budget > 0 THEN budget - 1 ELSE IF budget = 0 THEN Limit ELSE budget

\* What a decoder answers, and the budget it leaves to what follows.
Got(value, left) == [tag |-> "ok", value |-> value, left |-> left]
Refused(tag, left) == [tag |-> tag, value |-> List(<<>>), left |-> left]

-----------------------------------------------------------------------------
(* Schemas                                                                 *)

RECURSIVE Dynamic(_)
Dynamic(ty) ==
  \/ ty.kind \in {"bytes", "array"}
  \/ \E i \in DOMAIN ty.of : Dynamic(ty.of[i])

RECURSIVE MinimumWords(_)
MinimumWords(ty) ==
  LET of == Sum([i \in DOMAIN ty.of |-> MinimumWords(ty.of[i])])
  IN  CASE ty.kind = "tuple" -> of [] ty.kind = "fixed" -> ty.n * of [] OTHER -> 1

HeadWords(ty) == IF Dynamic(ty) THEN 1 ELSE MinimumWords(ty)

RECURSIVE SchemaSize(_)
SchemaSize(ty) ==
  LET of == Sum([i \in DOMAIN ty.of |-> SchemaSize(ty.of[i])])
  IN  IF ty.kind = "fixed" THEN of * ty.n + 1 ELSE of + 1

RECURSIVE HasZero(_)
HasZero(ty) ==
  \/ ty.kind = "tuple" /\ ty.of = <<>>
  \/ ty.kind = "fixed" /\ ty.n = 0
  \/ \E i \in DOMAIN ty.of : HasZero(ty.of[i])

\* small_type: static, no array, few nodes.
RECURSIVE SmallType(_)
SmallType(ty) ==
  /\ ty.kind \in {"word", "tuple"} /\ \A i \in DOMAIN ty.of : SmallType(ty.of[i])
  /\ SchemaSize(ty) <= SmallNodes

-----------------------------------------------------------------------------
(* Terms and values.  from_term checks a term against its type and spends  *)
(* nodes and bytes; to_term spends nodes.                                  *)

RECURSIVE Nodes(_)
Nodes(v) == 1 + Sum([i \in DOMAIN v.items |-> Nodes(v.items[i])])

RECURSIVE Payload(_)
Payload(v) == Len(v.bytes) + Sum([i \in DOMAIN v.items |-> Payload(v.items[i])])

RECURSIVE Fits(_, _)
Fits(ty, v) ==
  CASE ty.kind = "word"  -> v.shape = "int" /\ v.word <= ty.n
    [] ty.kind = "bytes" -> v.shape = "binary"
    [] ty.kind = "tuple" -> /\ v.shape = "list" /\ Len(v.items) = Len(ty.of)
                            /\ \A i \in DOMAIN ty.of : Fits(ty.of[i], v.items[i])
    [] OTHER             -> /\ v.shape = "list"
                            /\ ty.kind = "fixed" => Len(v.items) = ty.n
                            /\ \A i \in DOMAIN v.items : Fits(ty.of[1], v.items[i])

FromTerm(ty, v) == Fits(ty, v) /\ Nodes(v) <= MaxNodes /\ Payload(v) <= MaxPayload

\* A value beyond the budget uses it up.
ToTerm(v, budget) ==
  IF Nodes(v) <= budget THEN Got(v, budget - Nodes(v)) ELSE Refused("value_limit", 0)

-----------------------------------------------------------------------------
(* alloy                                                                   *)

\* Heads first, each dynamic one the offset of its body.
RECURSIVE Body(_, _)
Body(ty, v) ==
  LET types == IF ty.kind = "tuple" THEN ty.of ELSE Rep(ty.of[1], Len(v.items))
      bodies == [i \in DOMAIN types |-> Body(types[i], v.items[i])]
      heads == Sum([i \in DOMAIN types |-> HeadWords(types[i])])
      tails == [i \in DOMAIN types |-> IF Dynamic(types[i]) THEN bodies[i] ELSE <<>>]
      Head1(i) == IF Dynamic(types[i])
                  THEN <<heads + Len(FlattenSeq(SubSeq(tails, 1, i - 1)))>>
                  ELSE bodies[i]
      parts == FlattenSeq([i \in DOMAIN types |-> Head1(i)]) \o FlattenSeq(tails)
  IN  CASE ty.kind = "word"  -> <<v.word>>
        [] ty.kind = "bytes" -> <<Len(v.bytes)>> \o v.bytes
        [] ty.kind = "array" -> <<Len(v.items)>> \o parts
        [] OTHER             -> parts

\* A tuple is the parameters themselves, anything else the only one.
AbiEncodeParams(ty, v) ==
  IF ty.kind # "tuple" /\ Dynamic(ty) THEN <<1>> \o Body(ty, v) ELSE Body(ty, v)

\* Where a part whose head is at a position has its body, if anywhere.
Place(ty, raw, head) ==
  IF head > Len(raw) THEN {}
  ELSE IF ~Dynamic(ty) THEN {head}
  ELSE IF head < Len(raw) /\ raw[head + 1] <= Len(raw) THEN {raw[head + 1]} ELSE {}

The(set) == CHOOSE x \in set : TRUE
HeadOf(types, i) == Sum([j \in 1..(i - 1) |-> HeadWords(types[j])])

\* The parts of a tuple or an array whose body is at the start of raw.
PartsOf(ty, raw) ==
  CASE ty.kind = "tuple" -> [types |-> ty.of, rest |-> raw]
    [] ty.kind = "fixed" -> [types |-> Rep(ty.of[1], ty.n), rest |-> raw]
    [] ty.kind = "array" -> [types |-> Rep(ty.of[1], raw[1]), rest |-> From(raw, 1)]

\* One list of all the values, if there are all of them.
Together(values) ==
  IF \E i \in DOMAIN values : values[i] = {} THEN {}
  ELSE {List([i \in DOMAIN values |-> The(values[i])])}

RECURSIVE Decoded(_, _)

DecodedParts(laid) ==
  Together([i \in DOMAIN laid.types |->
    UNION {Decoded(laid.types[i], From(laid.rest, at)) :
             at \in Place(laid.types[i], laid.rest, HeadOf(laid.types, i))}])

\* The value at the start of raw, if there is one; an array of items without
\* width is empty, whatever it is said to hold.
Decoded(ty, raw) ==
  CASE ty.kind \notin {"tuple", "fixed"} /\ raw = <<>> -> {}
    [] ty.kind = "word" /\ raw # <<>>  -> {Word(raw[1])}
    [] ty.kind = "bytes" /\ raw # <<>> ->
         IF raw[1] < Len(raw) THEN {Bytes(SubSeq(raw, 2, raw[1] + 1))} ELSE {}
    [] OTHER ->
         IF ty.kind # "tuple" /\ MinimumWords(ty.of[1]) = 0 THEN {List(<<>>)}
         ELSE DecodedParts(PartsOf(ty, raw))

AbiDecodeParams(ty, raw) ==
  IF ty.kind = "tuple" THEN Decoded(ty, raw)
  ELSE UNION {Decoded(ty, From(raw, at)) : at \in Place(ty, raw, 0)}

-----------------------------------------------------------------------------
(* preflight: walk the data as alloy will, spending a node per value, so   *)
(* that offsets that alias one another cannot make it allocate more.       *)

RECURSIVE Preflight(_, _, _)

PreflightPart(ty, rest, at, budget) ==
  IF budget < 0 THEN budget ELSE IF at = {} THEN Malformed
  ELSE Preflight(ty, From(rest, The(at)), budget)

PreflightParts(laid, left) ==
  FoldLeft(LAMBDA budget, i :
             PreflightPart(laid.types[i], laid.rest,
                           Place(laid.types[i], laid.rest, HeadOf(laid.types, i)), budget),
           left, [i \in DOMAIN laid.types |-> i])

Preflight(ty, raw, nodes) ==
  LET left == Spend(nodes)
  IN  IF left < 0 THEN left
      ELSE CASE ty.kind \notin {"tuple", "fixed"} /\ raw = <<>> -> Malformed
             [] ty.kind = "word" /\ raw # <<>>  -> left
             [] ty.kind = "bytes" /\ raw # <<>> -> IF raw[1] < Len(raw) THEN left ELSE Malformed
             [] OTHER ->
                  IF ty.kind # "tuple" /\ Len(PartsOf(ty, raw).types) > left THEN Limit
                  ELSE PreflightParts(PartsOf(ty, raw), left)

\* A single dynamic value stands behind its offset.
PreflightParams(ty, raw, nodes) ==
  IF ty.kind = "tuple" \/ ~Dynamic(ty) THEN Preflight(ty, raw, nodes)
  ELSE IF nodes = 0 THEN Limit
  ELSE IF Place(ty, raw, 0) = {} THEN Malformed
  ELSE Preflight(ty, From(raw, The(Place(ty, raw, 0))), nodes)

-----------------------------------------------------------------------------
(* decode_compatible: where a type has parts without width, their shape is *)
(* put together here; alloy decodes the rest.                              *)

ByAlloy(ty, raw, left) ==
  LET decoded == AbiDecodeParams(ty, raw)
  IN  IF decoded = {} THEN Refused("malformed", left) ELSE Got(The(decoded), left)

\* Faulty variant: the chunk is decoded as it came.
AsParamsAsItCame(ty, raw) == raw

\* A part's bytes as the parameters they would be by themselves.
AsParams(ty, raw) == IF Dynamic(ty) /\ ty.kind # "tuple" THEN <<1>> \o raw ELSE raw

\* The parts, if the data has a body for them.
Layout(ty, raw) ==
  IF ty.kind = "tuple" THEN {PartsOf(ty, raw)}
  ELSE {PartsOf(ty, From(raw, at)) :
          at \in {at \in Place(ty, raw, 0) : ty.kind = "fixed" \/ at < Len(raw)}}

\* Done so far, and one part more.
Extended(done, part) ==
  IF part.tag # "ok" THEN part
  ELSE Got(List(Append(done.value.items, part.value)), part.left)

RECURSIVE DecodeCompatible(_, _, _)

DecodePart(ty, rest, at, done) ==
  IF at = {} THEN Refused("malformed", done.left)
  ELSE Extended(done, DecodeCompatible(ty, AsParams(ty, From(rest, The(at))), done.left))

DecodeParts(laid, left) ==
  FoldLeft(LAMBDA done, i :
             IF done.tag # "ok" THEN done
             ELSE DecodePart(laid.types[i], laid.rest,
                             Place(laid.types[i], laid.rest, HeadOf(laid.types, i)), done),
           Got(List(<<>>), left), [i \in DOMAIN laid.types |-> i])

\* The items of an array are the parts of a tuple, which costs a node more.
DecodeLaid(ty, laid, left) ==
  IF laid = {} THEN Refused("malformed", left)
  ELSE IF ty.kind = "tuple" THEN DecodeParts(The(laid), left)
  ELSE IF left = 0 \/ Len(The(laid).types) > left THEN Refused("value_limit", left)
  ELSE DecodeParts(The(laid), left - 1)

DecodeCompatible(ty, raw, budget) ==
  IF budget = 0 THEN Refused("value_limit", 0)
  ELSE IF HasZero(ty) THEN DecodeLaid(ty, Layout(ty, raw), budget - 1)
  ELSE ByAlloy(ty, raw, budget - 1)

-----------------------------------------------------------------------------
(* The operations                                                          *)

No(tag) == Refused(tag, 0)

\* to_term of what a decoder got, from the same budget.
Then(result) == IF result.tag = "ok" THEN ToTerm(result.value, result.left) ELSE result

Unfit(left) == IF left = Limit THEN "value_limit" ELSE "malformed"

Encode(ty, v) ==
  IF ~FromTerm(ty, v) THEN No("invalid_term")
  ELSE IF Len(AbiEncodeParams(ty, v)) > MaxPayload THEN No("payload_limit")
  ELSE Got(Bytes(AbiEncodeParams(ty, v)), 0)

Decode(ty, raw) ==
  LET fit == PreflightParams(ty, raw, MaxNodes)
  IN  IF Len(raw) > MaxPayload THEN No("payload_limit")
      ELSE IF fit < 0 THEN No(Unfit(fit))
      ELSE Then(ByAlloy(ty, raw, MaxNodes))

\* The parameters of a tuple one after the other, without a common head.
RawEncode(ty, v) ==
  IF ~FromTerm(ty, v) THEN No("invalid_term")
  ELSE IF ty.kind # "tuple" THEN No("schema")
  ELSE LET raw == FlattenSeq([i \in DOMAIN ty.of |-> Body(ty.of[i], v.items[i])])
       IN  IF Len(raw) > MaxPayload THEN No("payload_limit") ELSE Got(Bytes(raw), 0)

\* What a decoder gets from data that preflight let through.
Checked(fit, left, result) == IF fit < 0 THEN Refused(Unfit(fit), left) ELSE result

\* One chunk for each parameter; only decoding and terms share a budget.
DecodeChunk(ty, raw, left) ==
  Checked(PreflightParams(ty, raw, MaxNodes), left, Then(DecodeCompatible(ty, raw, left)))

RawDecode(ty, chunks) ==
  IF ty.kind # "tuple" THEN No("schema")
  ELSE IF Len(chunks) > Len(ty.of) THEN No("value_limit")
  ELSE IF Len(FlattenSeq(chunks)) > MaxPayload THEN No("payload_limit")
  ELSE IF Len(chunks) < Len(ty.of) THEN No("arity")
  ELSE FoldLeft(LAMBDA done, i :
                  IF done.tag # "ok" THEN done
                  ELSE Extended(done, DecodeChunk(ty.of[i], AsParams(ty.of[i], chunks[i]),
                                                  done.left)),
                Got(List(<<>>), MaxNodes), [i \in DOMAIN chunks |-> i])

\* A log against [topic0, indexed, body]; topics count a node each.
DecodeEvent(schema, log, small, remaining) ==
  LET topics == Len(log.topics)
      left == remaining - topics
      values == List([i \in 1..topics |-> Word(log.topics[i])])
  IN  IF topics > 4 THEN Refused("value_limit", remaining)
      ELSE IF schema.topic0 # <<>> /\ (topics = 0 \/ log.topics[1] # schema.topic0[1])
      THEN Refused("event_signature_mismatch", remaining)
      ELSE IF topics # schema.indexed THEN Refused("topic_count", remaining)
      ELSE IF Len(log.data) > (IF small THEN SmallPayload ELSE MaxPayload)
      THEN Refused("payload_limit", remaining)
      ELSE IF topics > remaining THEN Refused("value_limit", 0)
      ELSE Extended(Got(List(<<values>>), left),
                    Checked(Preflight(schema.body, log.data, MaxNodes), left,
                            Then(DecodeCompatible(schema.body, log.data, left))))

EventType(schema) ==
  [kind |-> "tuple", n |-> 0,
   of |-> <<[kind |-> "tuple", n |-> 0,
             of |-> Rep([kind |-> "word", of |-> <<>>, n |-> 0], schema.indexed)],
            schema.body>>]

Event(schema, log, small) == DecodeEvent(schema, log, small, MaxNodes)

\* Faulty variant: a log that fails ends the batch.
EventsUntilError(schema, logs) ==
  LET Log(done, log) ==
        LET one == DecodeEvent(schema, log, FALSE, done.left)
        IN  IF done.answers # <<>> /\ Last(done.answers).tag # "ok" THEN done
            ELSE [answers |-> Append(done.answers, one), left |-> one.left]
  IN  FoldLeft(Log, [answers |-> <<>>, left |-> MaxNodes], logs).answers

\* A batch: each log an answer of its own, all from one budget.
Events(schema, logs) ==
  LET Log(done, log) ==
        LET one == DecodeEvent(schema, log, FALSE, done.left)
        IN  [answers |-> Append(done.answers, one), left |-> one.left]
  IN  FoldLeft(Log, [answers |-> <<>>, left |-> MaxNodes], logs).answers

\* run_codec, with the limits on a schema that parse_schema applies.
RunCodec(call) ==
  LET ty == IF call.op \in {"event", "events"} THEN EventType(call.schema) ELSE call.schema
  IN  IF SchemaSize(ty) > MaxNodes THEN No("type_limit")
      ELSE IF call.small /\ ~SmallType(ty) THEN No("dirty_required")
      ELSE IF call.op = "event" THEN Event(call.schema, call.input, call.small)
      ELSE IF call.small THEN No("dirty_required")
      ELSE CASE call.op = "encode"     -> Encode(ty, call.input)
             [] call.op = "decode"     -> Decode(ty, call.input)
             [] call.op = "raw_encode" -> RawEncode(ty, call.input)
             [] call.op = "raw_decode" -> RawDecode(ty, call.input)
             [] call.op = "events"     ->
                  IF Len(call.input) > MaxLogs THEN No("value_limit")
                  ELSE [tag |-> "ok", logs |-> Events(call.schema, call.input)]

=============================================================================
