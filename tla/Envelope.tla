------------------------------ MODULE Envelope ------------------------------
(***************************************************************************)
(* Ethereum transactions on the wire: the transaction family of            *)
(* onchain_abi's "consensus" NIF, around alloy's readers and writers.      *)
(*                                                                         *)
(* A transaction is [type, chain, body]; chain is <<>> if it has none.  Its *)
(* wire form is [type, fields], the fields of the outer RLP list.  A field *)
(* is a number (an empty field and 0 are one thing); an access list, the   *)
(* last of a typed body, is the number of items below it.                  *)
(***************************************************************************)
LOCAL INSTANCE Integers
LOCAL INSTANCE Sequences

CONSTANTS
  MaxU64,       \* chain ids, and an unsigned payload's v
  RlpNodes      \* items preflight_rlp lets alloy look at (100,000)

Legacy == 0
Unsigned == <<>>

-----------------------------------------------------------------------------
(* alloy                                                                   *)

\* encoded_for_signing: an EIP-155 payload ends in the chain id, 0 and 0.
EncodedForSigning(tx) ==
  [type |-> tx.type,
   fields |-> IF tx.type # Legacy THEN tx.chain \o tx.body
              ELSE IF tx.chain = <<>> THEN tx.body
              ELSE tx.body \o tx.chain \o <<0, 0>>]

V(tx, parity) ==
  IF tx.chain = <<>> THEN 27 + parity ELSE 2 * tx.chain[1] + 35 + parity

\* A signature is <<parity, r, s>>.
Encoded2718(tx, signature) ==
  [type |-> tx.type,
   fields |-> IF tx.type = Legacy
              THEN tx.body \o <<V(tx, signature[1]), signature[2], signature[3]>>
              ELSE tx.chain \o tx.body \o signature]

BodyOf(type) == IF type = Legacy THEN 6 ELSE 7

\* decode_unsigned: a legacy payload's last two fields are not looked at.
DecodeUnsigned(wire) ==
  LET n == BodyOf(wire.type)
      body == SubSeq(wire.fields, 1, n)
  IN  CASE wire.type = Legacy /\ Len(wire.fields) = n ->
             {[type |-> Legacy, chain |-> <<>>, body |-> body]}
        [] wire.type = Legacy /\ Len(wire.fields) = n + 3 /\ wire.fields[n + 1] <= MaxU64 ->
             {[type |-> Legacy, chain |-> <<wire.fields[n + 1]>>, body |-> body]}
        [] wire.type # Legacy /\ Len(wire.fields) = n + 1 /\ wire.fields[1] <= MaxU64 ->
             {[type |-> wire.type, chain |-> <<wire.fields[1]>>, body |-> Tail(wire.fields)]}
        [] OTHER -> {}

\* decode_2718
DecodeSigned(wire) ==
  LET n == BodyOf(wire.type)
      v == wire.fields[n + 1]
      chain == IF v < 35 THEN <<>> ELSE <<(v - 35) \div 2>>
      parity == IF v < 35 THEN v - 27 ELSE (v - 35) % 2
  IN  CASE /\ wire.type # Legacy /\ Len(wire.fields) = n + 4
           /\ wire.fields[1] <= MaxU64 /\ wire.fields[n + 2] \in {0, 1} ->
             {[tx |-> [type |-> wire.type, chain |-> <<wire.fields[1]>>,
                       body |-> SubSeq(wire.fields, 2, n + 1)],
               signature |-> SubSeq(wire.fields, n + 2, n + 4)]}
        [] /\ wire.type = Legacy /\ Len(wire.fields) = n + 3
           /\ v \in {27, 28} \/ (v >= 35 /\ chain[1] <= MaxU64) ->
             {[tx |-> [type |-> Legacy, chain |-> chain, body |-> SubSeq(wire.fields, 1, n)],
               signature |-> <<parity>> \o SubSeq(wire.fields, n + 2, n + 3)]}
        [] OTHER -> {}

-----------------------------------------------------------------------------
(* onchain_abi                                                             *)

Error(tag) == [tag |-> tag]

\* parse_transaction: widths first, then the fields the type calls for.
Parse(tx) ==
  IF tx.chain # <<>> /\ tx.chain[1] > MaxU64 THEN Error("chain_id")
  ELSE IF tx.type \notin 0..4 THEN Error("unknown_type")
  ELSE IF tx.type # Legacy /\ tx.chain = <<>> THEN Error("invalid_fields")
  ELSE [tag |-> "ok"]

Encode(tx, signature) ==
  IF Parse(tx).tag # "ok" THEN Parse(tx)
  ELSE [tag |-> "ok", wire |-> IF signature = Unsigned THEN EncodedForSigning(tx)
                               ELSE Encoded2718(tx, signature)]

\* preflight_rlp: the outer list, its fields, and what is below them.
RlpItems(wire) ==
  1 + Len(wire.fields)
    + (IF wire.type # Legacy /\ Len(wire.fields) > 7 THEN wire.fields[8] ELSE 0)

\* vrs: what the value holds under "v", "r" and "s" of a legacy transaction;
\* without a "yParity" the signature is Unsigned.
Value(tx, vrs, signature) ==
  [tag |-> "ok", tx |-> tx, vrs |-> vrs, signature |-> signature]

\* Faulty variant: what alloy's unsigned decoder accepts is unsigned.
ReadsUnsigned(wire) == DecodeUnsigned(wire)

\* Re-encoding tells an unsigned payload from a signed one, which alloy's
\* unsigned decoder accepts as well.
IsUnsigned(wire) == {tx \in DecodeUnsigned(wire) : EncodedForSigning(tx) = wire}

\* decoded_envelope, and the check of a v that alloy took for a signed one.
DecodedEnvelope(wire) ==
  LET e == CHOOSE e \in DecodeSigned(wire) : TRUE
      rs == Tail(e.signature)
      v == V(e.tx, e.signature[1])
  IN  IF DecodeSigned(wire) = {} THEN Error("invalid")
      ELSE IF wire.type # Legacy THEN Value(e.tx, <<>>, e.signature)
      ELSE IF rs = <<0, 0>> /\ v > MaxU64 THEN Error("chain_id")
      ELSE Value(e.tx, <<v>> \o rs, e.signature)

Decode(wire) ==
  LET unsigned == IsUnsigned(wire)
      tx == CHOOSE tx \in unsigned : TRUE
  IN  IF wire.type \notin 0..4 THEN Error("invalid_envelope")
      ELSE IF RlpItems(wire) > RlpNodes THEN Error("value_limit")
      ELSE IF unsigned = {} THEN DecodedEnvelope(wire)
      ELSE IF tx.type # Legacy THEN Value(tx, <<>>, Unsigned)
      ELSE IF tx.chain = <<>> THEN Error("invalid_legacy_payload")
      ELSE Value(tx, tx.chain \o <<0, 0>>, Unsigned)

=============================================================================
