------------------------------ MODULE Solidity ------------------------------
(***************************************************************************)
(* The onchain_solidity NIF: parse_sol and __parse_sol_root__.  A source   *)
(* is what the solar parser makes of it (the parser itself is a library):  *)
(* a tree of items.  The NIF works out each function's signature, from     *)
(* type names it resolves without a compiler.  What it makes of the doc    *)
(* comments is in DocComments.                                             *)
(*                                                                         *)
(* A name is its identifiers, <<"C", "S">> for C.S.  A type is a name with *)
(* array dimensions: "dyn" is [], "lit" is [3], "sym" is [N].  A hash is   *)
(* the signature it is of.                                                 *)
(***************************************************************************)
LOCAL INSTANCE Naturals
LOCAL INSTANCE Sequences
LOCAL INSTANCE SequencesExt
LOCAL INSTANCE FiniteSetsExt
LOCAL INSTANCE FiniteSets

CONSTANTS
  MaxTypeDepth,     \* MAX_TYPE_RECURSION_DEPTH
  Stack,            \* bound: nested calls of encode_sol_field
  None              \* no root, no constructor

Of(items, kind) == SelectSeq(items, LAMBDA item : item.kind = kind)
Contracts(tree) == Of(tree, "contract")

-----------------------------------------------------------------------------
(* The type registry                                                       *)

Declaration(owner, item) ==
  [canonical |-> owner \o <<item.name>>, short |-> <<item.name>>, fields |-> item.fields]

Declared(tree, kind) ==
  {Declaration(<<>>, item) : item \in Range(Of(tree, kind))}
  \cup UNION {{Declaration(<<contract.name>>, item) :
                 item \in Range(Of(contract.items, kind))} :
              contract \in Range(Contracts(tree))}

\* A canonical name, or a short one that is declared once.
Lookup(declared, name) ==
  LET exact == {d \in declared : d.canonical = name}
      short == {d \in declared : d.short = name}
  IN  IF exact # {} THEN exact ELSE IF Cardinality(short) = 1 THEN short ELSE {}

\* The owner's own declaration first.
Resolve(declared, name, owner) ==
  IF owner # <<>> /\ Lookup(declared, owner \o name) # {}
  THEN Lookup(declared, owner \o name)
  ELSE Lookup(declared, name)

OwnerFromCanonical(name) == Front(name)

-----------------------------------------------------------------------------
(* Types                                                                   *)

\* A type that is worked out: a plain name, or the tuple of a struct.
Plain(name, dims) == [form |-> "plain", name |-> name, of |-> <<>>, dims |-> dims]
Tuple(of, dims) == [form |-> "tuple", name |-> <<>>, of |-> of, dims |-> dims]

\* The longest suffix of [] and [digits]; what is left before it belongs to
\* the name, which then names nothing.
SplitArraySuffix(ty) ==
  LET cut == Max({0} \cup {i \in DOMAIN ty.dims : ty.dims[i] = "sym"})
  IN  [name |-> ty.name, held |-> SubSeq(ty.dims, 1, cut),
       suffix |-> SubSeq(ty.dims, cut + 1, Len(ty.dims))]

StructOf(tree, ty, owner) ==
  IF SplitArraySuffix(ty).held # <<>> THEN {}
  ELSE Resolve(Declared(tree, "struct"), ty.name, owner)

\* What is no struct: a contract is an address, an enum an uint8.
Leaf(tree, ty, owner) ==
  LET s == SplitArraySuffix(ty)
  IN  IF s.held # <<>> THEN Plain(ty.name, ty.dims)
      ELSE IF \E c \in Range(Contracts(tree)) : <<c.name>> = ty.name
           THEN Plain(<<"address">>, s.suffix)
      ELSE IF Resolve(Declared(tree, "enum"), ty.name, owner) # {}
           THEN Plain(<<"uint8">>, s.suffix)
      ELSE Plain(ty.name, s.suffix)

\* Faulty variant: fields are resolved where the function stands.
RECURSIVE CanonicalFromCaller(_, _, _, _)
CanonicalFromCaller(tree, ty, owner, depth) ==
  IF depth > MaxTypeDepth THEN Plain(ty.name, ty.dims)
  ELSE IF StructOf(tree, ty, owner) = {} THEN Leaf(tree, ty, owner)
  ELSE LET s == CHOOSE d \in StructOf(tree, ty, owner) : TRUE
       IN  Tuple([i \in DOMAIN s.fields |->
                    CanonicalFromCaller(tree, s.fields[i], owner, depth + 1)],
                 SplitArraySuffix(ty).suffix)

\* type_to_canonical_inner: a struct's fields in the struct's own context.
RECURSIVE TypeToCanonical(_, _, _, _)
TypeToCanonical(tree, ty, owner, depth) ==
  IF depth > MaxTypeDepth THEN Plain(ty.name, ty.dims)
  ELSE IF StructOf(tree, ty, owner) = {} THEN Leaf(tree, ty, owner)
  ELSE LET s == CHOOSE d \in StructOf(tree, ty, owner) : TRUE
       IN  Tuple([i \in DOMAIN s.fields |->
                    TypeToCanonical(tree, s.fields[i],
                                    OwnerFromCanonical(s.canonical), depth + 1)],
                 SplitArraySuffix(ty).suffix)

Overflow == Plain(<<"stack overflow">>, <<>>)

\* encode_sol_field, encode_sol_param: the components, in the function's
\* context, at whatever depth.
RECURSIVE EncodeField(_, _, _, _)
EncodeField(tree, ty, owner, stack) ==
  IF stack = 0 THEN Overflow
  ELSE IF StructOf(tree, ty, owner) = {} THEN Leaf(tree, ty, owner)
  ELSE LET s == CHOOSE d \in StructOf(tree, ty, owner) : TRUE
       IN  Tuple([i \in DOMAIN s.fields |->
                    EncodeField(tree, s.fields[i], owner, stack - 1)],
                 SplitArraySuffix(ty).suffix)

\* normalize_struct_field_type: a struct keeps its canonical name.
NormalizeStructFieldType(tree, ty, owner) ==
  IF StructOf(tree, ty, owner) = {} THEN Leaf(tree, ty, owner)
  ELSE Plain((CHOOSE d \in StructOf(tree, ty, owner) : TRUE).canonical,
             SplitArraySuffix(ty).suffix)

-----------------------------------------------------------------------------
(* encode_sol_source                                                       *)

Canonical(tree, types, owner) ==
  [i \in DOMAIN types |-> TypeToCanonical(tree, types[i], owner, 0)]

Signature(tree, item, owner) ==
  [name |-> item.name, types |-> Canonical(tree, item.fields, owner)]

Inputs(tree, item, owner) ==
  [i \in DOMAIN item.fields |-> EncodeField(tree, item.fields[i], owner, Stack)]

Mutability(item) == IF item.mutability = None THEN "nonpayable" ELSE item.mutability

\* Without its comment, which DocComments gives it.
EncodeFunction(tree, item, owner) ==
  [signature |-> Signature(tree, item, owner),
   return_type |-> Canonical(tree, item.returns, owner),
   state_mutability |-> Mutability(item),
   inputs |-> Inputs(tree, item, owner)]

EncodeConstructor(tree, item, owner) ==
  [inputs |-> Inputs(tree, item, owner), state_mutability |-> Mutability(item)]

\* Its parameters, and which of them are indexed.
EncodeEvent(tree, item, owner) ==
  [signature |-> Signature(tree, item, owner), anonymous |-> item.anonymous,
   inputs |-> Inputs(tree, item, owner), indexed |-> item.indexed]

EncodeError(tree, item, owner) ==
  [signature |-> Signature(tree, item, owner), inputs |-> Inputs(tree, item, owner)]

\* The items of one kind, with their owners, that the answer lists: all of
\* them, or those of the root contract.
Listed(tree, root, kind) ==
  FlattenSeq([i \in DOMAIN tree |->
    IF tree[i].kind = "contract" /\ root \in {None, tree[i].name}
    THEN LET own == Of(tree[i].items, kind)
         IN  [j \in DOMAIN own |-> [item |-> own[j], owner |-> <<tree[i].name>>]]
    ELSE IF tree[i].kind = kind /\ root = None
    THEN <<[item |-> tree[i], owner |-> <<>>]>>
    ELSE <<>>])

\* Constants of every contract, whatever the root.
Constants(tree) ==
  LET declared == Declared(tree, "constant")
  IN  {[name |-> d.canonical,
        type |-> NormalizeStructFieldType(tree, d.fields[1], OwnerFromCanonical(d.canonical))] :
       d \in declared}

StructsOf(tree) ==
  {[name |-> d.canonical,
    types |-> [i \in DOMAIN d.fields |->
      NormalizeStructFieldType(tree, d.fields[i], OwnerFromCanonical(d.canonical))]] :
   d \in Declared(tree, "struct")}

RootFound(tree, root) == root = None \/ \E c \in Range(Contracts(tree)) : c.name = root

ParseSol(tree, root) ==
  IF ~RootFound(tree, root) THEN [tag |-> "parse_error"] ELSE
  LET All(kind, Encode(_, _, _)) ==
        LET listed == Listed(tree, root, kind)
        IN  [i \in DOMAIN listed |-> Encode(tree, listed[i].item, listed[i].owner)]
      constructors == All("constructor", EncodeConstructor)
  IN  [tag |-> "ok", functions |-> All("function", EncodeFunction),
       events |-> All("event", EncodeEvent), errors |-> All("error", EncodeError),
       constructor |-> IF constructors = <<>> THEN None ELSE Last(constructors),
       structs |-> StructsOf(tree), enums |-> {d.canonical : d \in Declared(tree, "enum")},
       constants |-> Constants(tree)]

-----------------------------------------------------------------------------
(* What Solidity means by a type, where a compiler would find the names.   *)

KindsOfNames == {"struct", "enum", "contract"}

Names(tree) == UNION {{[d |-> d, kind |-> kind] : d \in Declared(tree, kind)} :
                      kind \in KindsOfNames}

BasesOf(tree, contract) ==
  UNION {c.bases : c \in {c \in Range(Contracts(tree)) : <<c.name>> = contract}}

\* What a name declared in a contract or one it inherits from refers to.
MembersNamed(tree, contract, short) ==
  {n \in Names(tree) : /\ n.d.short = short
                       /\ \E b \in {contract} \cup {<<b>> : b \in BasesOf(tree, contract)} :
                            n.d.canonical = b \o short}

ScopedName(tree, name, owner) ==
  IF Len(name) = 2 THEN MembersNamed(tree, <<name[1]>>, <<name[2]>>)
  ELSE IF owner # <<>> /\ MembersNamed(tree, owner, name) # {}
  THEN MembersNamed(tree, owner, name)
  ELSE {n \in Names(tree) : n.d.canonical = name}

\* Its ABI form; undefined (a name stays) past the depth of the code.
RECURSIVE Meaning(_, _, _, _)
Meaning(tree, ty, owner, depth) ==
  LET found == ScopedName(tree, ty.name, owner)
      n == CHOOSE n \in found : TRUE
  IN  IF found = {} \/ depth > MaxTypeDepth THEN Plain(ty.name, ty.dims)
      ELSE CASE n.kind = "contract" -> Plain(<<"address">>, ty.dims)
             [] n.kind = "enum"     -> Plain(<<"uint8">>, ty.dims)
             [] n.kind = "struct"   ->
                  Tuple([i \in DOMAIN n.d.fields |->
                           Meaning(tree, n.d.fields[i], Front(n.d.canonical), depth + 1)],
                        ty.dims)

\* A name without a compiler's help: written in full, a struct of the
\* contract itself, or declared once in the whole source.
ClearName(tree, name, owner) ==
  LET found == ScopedName(tree, name, owner)
  IN  \/ Len(name) = 2 /\ \E n \in found : n.d.canonical = name
      \/ \E n \in found : n.kind = "struct" /\ owner # <<>> /\ n.d.canonical = owner \o name
      \/ Cardinality({n \in Names(tree) : n.d.short = name}) = Cardinality(found)

\* ... so for the type, and for all it consists of.
RECURSIVE Clear(_, _, _, _)
Clear(tree, ty, owner, depth) ==
  /\ "sym" \notin Range(ty.dims) /\ depth <= MaxTypeDepth
  /\ ClearName(tree, ty.name, owner)
  /\ \A n \in ScopedName(tree, ty.name, owner) : n.kind = "struct" =>
       \A i \in DOMAIN n.d.fields :
         Clear(tree, n.d.fields[i], Front(n.d.canonical), depth + 1)

=============================================================================
