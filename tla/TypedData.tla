----------------------------- MODULE TypedData -----------------------------
(***************************************************************************)
(* EIP-712 schemas that refer to themselves, in onchain_abi's "typed" NIF: *)
(* check_type looks for a cycle below the primary type, along every path   *)
(* and within a budget, and recursive_encode_type then collects each type  *)
(* the primary type reaches, once.  A schema without a cycle is left to    *)
(* alloy.  Both loops are machines here, one step per name they look at.   *)
(*                                                                         *)
(* A schema gives each struct the names of its fields' types, array        *)
(* suffixes stripped; Atomic names are Solidity's own, Unknown ones are    *)
(* defined nowhere.                                                        *)
(***************************************************************************)
EXTENDS Naturals, Sequences

CONSTANTS
  Structs, Atomic, Unknown,
  Schemas,      \* the schemas that are tried
  MaxPath,      \* structs on a path (64)
  MaxNodes      \* names looked at (100,000)

Names == Structs \cup Atomic \cup Unknown

ASSUME SchemasAreSchemas == Schemas \subseteq [Structs -> Seq(Names)]
ASSUME StructsAreNotNames == Structs \cap (Atomic \cup Unknown) = {}
ASSUME LimitsAreNats == {MaxPath, MaxNodes} \subseteq Nat

VARIABLES
  types,        \* value["types"]
  primary,      \* value["primaryType"]
  stage,
  path,         \* structs check_type is in, each with its next field
  nodes,        \* budget left
  recursive,
  pending,      \* names recursive_encode_type has yet to look at, a stack
  seen,
  definitions,  \* structs whose definitions it has formatted
  encoded       \* the answer: the primary type's definition, then the rest

typedVars == <<types, primary, stage, path, nodes, recursive, pending, seen,
               definitions, encoded>>
checkVars == <<path, nodes, recursive>>
collectVars == <<pending, seen, definitions, encoded>>

Nothing == [first |-> {}, rest |-> {}]

TypedInit ==
  /\ types \in Schemas /\ primary \in Names
  /\ stage = "primary"
  /\ path = <<>> /\ nodes = MaxNodes /\ recursive = FALSE
  /\ pending = <<>> /\ seen = {} /\ definitions = {} /\ encoded = Nothing

-----------------------------------------------------------------------------
(* check_type                                                              *)

OnPath == {path[i].struct : i \in DOMAIN path}

\* The caller's frame, past the field it has just looked at.
Advanced ==
  IF path = <<>> THEN <<>> ELSE [path EXCEPT ![Len(path)].next = @ + 1]

\* Faulty variant: a field without a cycle clears the flag.
CheckTypeClearing(name) ==
  IF Len(path) > MaxPath \/ nodes = 0
  THEN stage' = "limit" /\ UNCHANGED checkVars
  ELSE /\ nodes' = nodes - 1
       /\ recursive' = (name \in OnPath)
       /\ path' = IF name \in Structs \ OnPath
                  THEN Append(Advanced, [struct |-> name, next |-> 1])
                  ELSE Advanced
       /\ stage' = "check"

\* check_type(name): a name on the path is a back-edge and is not entered.
CheckType(name) ==
  IF Len(path) > MaxPath \/ nodes = 0
  THEN stage' = "limit" /\ UNCHANGED checkVars
  ELSE /\ nodes' = nodes - 1
       /\ recursive' = (recursive \/ name \in OnPath)
       /\ path' = IF name \in Structs \ OnPath
                  THEN Append(Advanced, [struct |-> name, next |-> 1])
                  ELSE Advanced
       /\ stage' = "check"

CheckPrimary ==
  /\ stage = "primary"
  /\ CheckType(primary)
  /\ UNCHANGED <<types, primary, collectVars>>

Top == path[Len(path)]

CheckField ==
  /\ stage = "check" /\ path # <<>> /\ Top.next <= Len(types[Top.struct])
  /\ CheckType(types[Top.struct][Top.next])
  /\ UNCHANGED <<types, primary, collectVars>>

\* All fields of the struct on top have been looked at: path.pop().
LeaveStruct ==
  /\ stage = "check" /\ path # <<>> /\ Top.next > Len(types[Top.struct])
  /\ path' = SubSeq(path, 1, Len(path) - 1)
  /\ UNCHANGED <<types, primary, stage, nodes, recursive, collectVars>>

\* typed_value: only a recursive schema takes the crate's own way.
Checked ==
  /\ stage = "check" /\ path = <<>>
  /\ stage' = IF recursive THEN "collect" ELSE "alloy"
  /\ pending' = IF recursive THEN <<primary>> ELSE <<>>
  /\ UNCHANGED <<types, primary, checkVars, seen, definitions, encoded>>

-----------------------------------------------------------------------------
(* recursive_encode_type                                                   *)

Last == pending[Len(pending)]
Popped == SubSeq(pending, 1, Len(pending) - 1)

\* Faulty variant: only the primary type's fields are gone into.
CollectShallow ==
  /\ stage = "collect" /\ pending # <<>>
  /\ pending' = Popped \o (IF Last = primary /\ Last \notin seen THEN types[Last] ELSE <<>>)
  /\ seen' = seen \cup {Last}
  /\ definitions' = definitions \cup ({Last} \cap Structs)
  /\ UNCHANGED <<types, primary, stage, checkVars, encoded>>

Collect ==
  /\ stage = "collect" /\ pending # <<>>
  /\ IF Last \in seen
     THEN pending' = Popped /\ UNCHANGED <<stage, seen, definitions>>
     ELSE /\ seen' = seen \cup {Last}
          /\ IF Last \in Structs
             THEN /\ pending' = Popped \o types[Last]
                  /\ definitions' = definitions \cup {Last}
                  /\ UNCHANGED stage
             ELSE /\ pending' = Popped
                  /\ stage' = IF Last \in Unknown THEN "unknown" ELSE stage
                  /\ UNCHANGED definitions
  /\ UNCHANGED <<types, primary, checkVars, encoded>>

\* The definitions are a map sorted by name, so the set gives their order.
Collected ==
  /\ stage = "collect" /\ pending = <<>>
  /\ IF primary \in definitions
     THEN /\ stage' = "encoded"
          /\ encoded' = [first |-> {primary}, rest |-> definitions \ {primary}]
     ELSE stage' = "expected_struct" /\ UNCHANGED encoded
  /\ UNCHANGED <<types, primary, checkVars, pending, seen, definitions>>

TypedNext ==
  CheckPrimary \/ CheckField \/ LeaveStruct \/ Checked \/ Collect \/ Collected

TypedSpec == TypedInit /\ [][TypedNext]_typedVars

-----------------------------------------------------------------------------
(* Properties                                                              *)

FieldsOf(t, n) == IF n \in Structs THEN {t[n][i] : i \in DOMAIN t[n]} ELSE {}

Closed(t, C) == \A n \in C : FieldsOf(t, n) \subseteq C

\* The names reached from those of S: in every closed set that holds S.
ReachedFrom(t, S) ==
  {n \in Names : \A C \in SUBSET Names : S \subseteq C /\ Closed(t, C) => n \in C}

\* A name that the fields of n reach again.
OnCycle(t, n) == n \in ReachedFrom(t, FieldsOf(t, n))

\* encodeType names the primary type and every struct it refers to, however
\* deep and however cyclic, and nothing else.
EncodesWhatIsReached ==
  stage = "encoded" =>
    encoded.first \cup encoded.rest = ReachedFrom(types, {primary}) \cap Structs

\* A schema goes the recursive way exactly if the primary type reaches a
\* struct that reaches itself: alloy rejects the cycles it is not spared,
\* and a shared subtype is no cycle.
RecursiveIsCyclic ==
  stage \in {"collect", "alloy"} =>
    (recursive <=> \E n \in ReachedFrom(types, {primary}) : OnCycle(types, n))

=============================================================================
