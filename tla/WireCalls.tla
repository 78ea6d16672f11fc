----------------------------- MODULE WireCalls -----------------------------
(***************************************************************************)
(* One call of the code that reads and writes messages without keeping     *)
(* anything: Ethereum transactions (onchain_abi's "consensus" NIF), Tempo  *)
(* transactions (onchain_tempo) and the answer to a JSON-RPC batch         *)
(* (Onchain.RPC).                                                          *)
(***************************************************************************)
EXTENDS Integers, Sequences

CONSTANTS
  ConsensusCalls, TempoCalls, BatchCalls,  \* those tried
  MaxU64, RlpNodes,
  None, Stranger

Eth == INSTANCE Envelope
Tempo == INSTANCE TempoEnvelope
RPC == INSTANCE BatchRPC

\* A transaction has the fields of its type.  No signature is all zeros.
IsTransaction(tx) ==
  /\ tx = [type |-> tx.type, chain |-> tx.chain, body |-> tx.body]
  /\ tx.type \in Nat /\ tx.chain \in Seq(Nat) /\ Len(tx.chain) <= 1
  /\ tx.body \in Seq(Nat) /\ Len(tx.body) = Eth!BodyOf(tx.type)

IsSignature(s) ==
  \/ s = Eth!Unsigned
  \/ s \in Seq(Nat) /\ Len(s) = 3 /\ s[1] \in {0, 1} /\ ~(s[2] = 0 /\ s[3] = 0)

IsWire(w) ==
  /\ w = [type |-> w.type, fields |-> w.fields]
  /\ w.type \in Nat /\ w.fields \in Seq(Nat)

ASSUME LimitsOfWire == MaxU64 \in Nat /\ RlpNodes \in Nat

ASSUME ConsensusCallsAreCalls ==
  \A c \in ConsensusCalls :
    /\ c.callee = "consensus" /\ c.op \in {"encode", "decode"}
    /\ IF c.op = "decode" THEN IsWire(c.wire)
       ELSE IsTransaction(c.tx) /\ IsSignature(c.signature)

ASSUME TempoCallsAreCalls ==
  \A c \in TempoCalls : LET w == c.wire IN
    /\ c.callee = "tempo" /\ c.op \in {"decode", "cosign"}
    /\ w = [tx |-> [token |-> w.tx.token, payer |-> w.tx.payer, rest |-> w.tx.rest],
            signature |-> w.signature, bad |-> w.bad]
    /\ w.bad \in BOOLEAN

ASSUME BatchCallsAreCalls ==
  \A c \in BatchCalls :
    /\ c.callee = "batch" /\ c.requests \in Nat
    /\ c.body.kind = "list" =>
         c.body.items \in Seq([id : Nat, kind : {"result", "error", "bare"}])

VARIABLES
  call,         \* a record with its "callee"
  reply         \* the answer, or None

wireVars == <<call, reply>>

WireInit ==
  /\ reply = None
  /\ \/ call \in ConsensusCalls
     \/ call \in TempoCalls
     \/ call \in BatchCalls

-----------------------------------------------------------------------------

\* A call that is answered by a value of its arguments.
Answer(callee, value) ==
  /\ call.callee = callee /\ reply = None
  /\ reply' = value
  /\ UNCHANGED call

\* The tag of an answer; a set of at most one value stands for a Result.
Result(values) ==
  IF values = {} THEN [tag |-> "error"]
  ELSE [tag |-> "ok", value |-> CHOOSE v \in values : TRUE]

Consensus ==
  Answer("consensus", IF call.op = "decode" THEN Eth!Decode(call.wire)
                      ELSE Eth!Encode(call.tx, call.signature))

TempoTransaction ==
  Answer("tempo", CASE call.op = "decode" -> Result(Tempo!Decode(call.wire))
                    [] call.op = "cosign" ->
                         Result(UNION {Tempo!CosignFeePayer(d, call.key, call.token) :
                                       d \in Tempo!Decode(call.wire)}))

Batch == Answer("batch", RPC!SendBatch(call.requests, call.body))

WireNext == Consensus \/ TempoTransaction \/ Batch

WireSpec == WireInit /\ [][WireNext]_wireVars

Answered(callee) == call.callee = callee /\ reply # None

-----------------------------------------------------------------------------
(* Properties of transactions on the wire                                  *)

\* A transaction that is encoded decodes to itself, signed or not: an
\* unsigned EIP-155 payload and a signed legacy one, both of nine fields, are
\* told apart.  And what is decoded was written that way.
EnvelopeRoundTrips ==
  Answered("consensus") /\ reply.tag = "ok" =>
    IF call.op = "decode"
    THEN Eth!Encode(reply.tx, reply.signature) = [tag |-> "ok", wire |-> call.wire]
    ELSE LET d == Eth!Decode(reply.wire)
         IN  IF Eth!RlpItems(reply.wire) > RlpNodes THEN d.tag = "value_limit"
             ELSE IF call.tx.type = 0 /\ call.tx.chain = <<>> /\ call.signature = <<>>
             THEN d.tag = "invalid_legacy_payload"
             ELSE d.tag = "ok" /\ d.tx = call.tx /\ d.signature = call.signature

\* A sponsored transaction that is co-signed still comes from the one who
\* signed it first, is paid by the co-signer in the co-signer's token, and one
\* that is only read and written again is what it was.
SponsorKeepsSender ==
  Answered("tempo") /\ reply.tag = "ok" =>
    LET d == reply.value
    IN  IF call.op = "decode"
        THEN Tempo!Serialize(d.tx, d.signature, d.placeholder) = call.wire
        ELSE call.wire.tx.payer # Tempo!NoPayer =>
               /\ Tempo!Sender(d.tx, d.signature)
                    = Tempo!Sender(call.wire.tx, call.wire.signature)
               /\ Tempo!FeePayer(d.tx, Tempo!Sender(d.tx, d.signature)) = call.key
               /\ d.tx.token = call.token

-----------------------------------------------------------------------------
(* Properties of send_batch/2                                              *)

Items == call.body.items
AnswersTo(i) == {k \in DOMAIN Items : Items[k].id = i}

\* A node that answers each request once, in whatever order.
Conforming(n) ==
  /\ \A i \in 1..n : \E k \in DOMAIN Items : AnswersTo(i) = {k}
  /\ Len(Items) = n /\ \A k \in DOMAIN Items : Items[k].kind # "bare"

\* Whatever the node answers, a result is that of its own request, none is
\* made up, and items that answer nothing spoil nothing.  Whatever order a
\* conforming node answers in, send_batch/2 gives what the requests would have
\* given one after the other: their results, or the error of the first that
\* fails.
BatchAsOneByOne ==
  Answered("batch") /\ call.body.kind = "list" =>
    LET n == call.requests
        Succeeds(i) ==
          AnswersTo(i) # {} /\ \A k \in AnswersTo(i) : Items[k].kind = "result"
        Fails(i) == ~Succeeds(i) /\ \A j \in 1..n : j < i => Succeeds(j)
    IN  /\ reply.tag = "ok" => \A i \in 1..n :
             reply.places[i] \in AnswersTo(i) /\ Items[reply.places[i]].kind = "result"
        /\ (\A i \in 1..n : Succeeds(i)) => reply.tag = "ok"
        /\ Conforming(n) => \A i \in 1..n : Fails(i) =>
             \E k \in AnswersTo(i) : reply = RPC!Error([place |-> k])

=============================================================================
