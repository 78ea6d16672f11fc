---------------------------- MODULE TempoEnvelope ----------------------------
(***************************************************************************)
(* Tempo transactions: the onchain_tempo NIF around tempo-primitives, and  *)
(* the co-signing of a sponsored one (transaction.ex).  A sponsored        *)
(* transaction travels with a one-byte marker where the fee payer's        *)
(* signature goes, which tempo-primitives writes and cannot read.          *)
(*                                                                         *)
(* A transaction is [token, payer, rest]: the fee token (None if empty),   *)
(* the fee payer's signature (NoPayer, or Zero in a sponsored one) and the *)
(* other fields.  A wire form is the transaction and the sender's          *)
(* signature, and whether its bytes are bad; its payer field is NoPayer    *)
(* (0x80), Marker (0x00) or a signature.                                   *)
(***************************************************************************)
CONSTANTS None, Stranger

\* A signature, by what it is over; the others are told from it by their kind.
Signed(key, of) == [kind |-> "signature", key |-> key, of |-> of]
NoPayer == [kind |-> "none"]
Marker == [kind |-> "marker"]
Zero == [kind |-> "zero"]

-----------------------------------------------------------------------------
(* tempo-primitives                                                        *)

\* What the sender signs: a sponsored transaction without its fee token, and
\* with the marker, whoever pays.
SignatureHash(tx) ==
  IF tx.payer = NoPayer THEN [domain |-> "sender", tx |-> tx]
  ELSE [domain |-> "sender", tx |-> [token |-> None, payer |-> Marker, rest |-> tx.rest]]

\* What the fee payer signs: the token, and who sends.
FeePayerSignatureHash(tx, sender) ==
  [domain |-> "payer", tx |-> [tx EXCEPT !.payer = NoPayer], sender |-> sender]

Recover(signature, hash) ==
  IF signature.kind = "signature" /\ signature.of = hash THEN signature.key ELSE Stranger

\* Its decoder takes no marker.
RlpDecode(wire) ==
  IF wire.tx.payer = Marker \/ wire.bad THEN {}
  ELSE {[tx |-> wire.tx, signature |-> wire.signature]}

-----------------------------------------------------------------------------
(* onchain_tempo                                                           *)

\* Faulty variant: the marker becomes no fee payer, and stays that.
DecodeDroppingMarker(wire) ==
  {[tx |-> e.tx, signature |-> e.signature, placeholder |-> FALSE] :
   e \in RlpDecode([wire EXCEPT !.tx.payer = IF @ = Marker THEN NoPayer ELSE @])}

\* decode: the marker is read as an empty field, and then put back as a
\* signature of zeros and a flag.
Decode(wire) ==
  LET placeholder == wire.tx.payer = Marker
  IN  {[tx |-> IF placeholder THEN [e.tx EXCEPT !.payer = Zero] ELSE e.tx,
        signature |-> e.signature, placeholder |-> placeholder] :
       e \in RlpDecode([wire EXCEPT !.tx.payer = IF placeholder THEN NoPayer ELSE @])}

\* execute: "serialize" (and "hash", which is of what it writes).
Serialize(tx, signature, placeholder) ==
  [tx |-> IF placeholder THEN [tx EXCEPT !.payer = Marker] ELSE tx,
   signature |-> signature, bad |-> FALSE]

\* execute: "sender" and "fee_payer"
Sender(tx, signature) == Recover(signature, SignatureHash(tx))
FeePayer(tx, sender) == Recover(tx.payer, FeePayerSignatureHash(tx, sender))

-----------------------------------------------------------------------------
(* Onchain.Tempo.Transaction                                               *)

\* cosign_fee_payer: sender, fee_hash, sign, serialize, and read it again.
CosignFeePayer(d, key, token) ==
  LET sender == Sender(d.tx, d.signature)
      tokened == [d.tx EXCEPT !.token = token]
      paid == Signed(key, FeePayerSignatureHash(tokened, sender))
  IN  Decode(Serialize([tokened EXCEPT !.payer = paid], d.signature, FALSE))

=============================================================================
