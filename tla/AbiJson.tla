------------------------------- MODULE AbiJson -------------------------------
(***************************************************************************)
(* onchain_abi's parse_abi_json, on what a compiler writes: a parameter is *)
(* its type's name and dimensions and, for a tuple, its components.  Names *)
(* are read by alloy; the return type is put together here.                *)
(***************************************************************************)
LOCAL INSTANCE Naturals
LOCAL INSTANCE Sequences

\* What solc writes for a type (a Plain or a Tuple of module Solidity).
RECURSIVE Compiled(_)
Compiled(ty) ==
  [ty |-> IF ty.form = "tuple" THEN <<"tuple">> ELSE ty.name, dims |-> ty.dims,
   components |-> [i \in DOMAIN ty.of |-> Compiled(ty.of[i])]]

\* Without components the type stands as it is written.
RECURSIVE CanonicalType(_)
CanonicalType(p) ==
  IF p.components = <<>>
  THEN [form |-> "plain", name |-> p.ty, of |-> <<>>, dims |-> p.dims]
  ELSE [form |-> "tuple", name |-> <<>>,
        of |-> [i \in DOMAIN p.components |-> CanonicalType(p.components[i])],
        dims |-> IF p.ty = <<"tuple">> THEN p.dims ELSE <<>>]

BuildReturnType(outputs) == [i \in DOMAIN outputs |-> CanonicalType(outputs[i])]

\* encode_param: name, ty and components, as written, all the way down.
RECURSIVE EncodeParam(_)
EncodeParam(p) ==
  [form |-> IF p.ty = <<"tuple">> THEN "tuple" ELSE "plain",
   name |-> IF p.ty = <<"tuple">> THEN <<>> ELSE p.ty,
   of |-> [i \in DOMAIN p.components |-> EncodeParam(p.components[i])],
   dims |-> p.dims]

EncodeParams(params) == [i \in DOMAIN params |-> EncodeParam(params[i])]

\* A signature, as alloy reads it.
Signature(item) ==
  [name |-> item.name, types |-> [i \in DOMAIN item.inputs |-> CanonicalType(item.inputs[i])]]

EncodeFunction(f) ==
  [signature |-> Signature(f), return_type |-> BuildReturnType(f.outputs),
   state_mutability |-> f.mutability, inputs |-> EncodeParams(f.inputs)]

\* encode_event_param: what encode_param says, and whether it is indexed.
EncodeEvent(e) ==
  [signature |-> Signature(e), anonymous |-> e.anonymous,
   inputs |-> EncodeParams(e.inputs), indexed |-> e.indexed]

EncodeError(e) == [signature |-> Signature(e), inputs |-> EncodeParams(e.inputs)]

EncodeConstructor(c) ==
  [inputs |-> EncodeParams(c.inputs), state_mutability |-> c.mutability]

\* encode_abi: the items by kind, in the order that alloy keeps them; the
\* constructor, of which there is at most one.
EncodeAbi(abi) ==
  [functions |-> [i \in DOMAIN abi.functions |-> EncodeFunction(abi.functions[i])],
   events |-> [i \in DOMAIN abi.events |-> EncodeEvent(abi.events[i])],
   errors |-> [i \in DOMAIN abi.errors |-> EncodeError(abi.errors[i])],
   constructor |-> [i \in DOMAIN abi.constructor |-> EncodeConstructor(abi.constructor[i])]]

=============================================================================
