--------------------------- MODULE StatelessCalls ---------------------------
(***************************************************************************)
(* The code that keeps nothing from one call to the next: the NIFs, as the *)
(* BEAM sees them, and the decoding of a JSON-RPC batch.  A behaviour is   *)
(* one call.  The answer is one step, except that the walk over an EIP-712 *)
(* schema is followed name by name (TypedData), the search for doc         *)
(* comments line by line (DocComments) and the decoding of ABI data value  *)
(* by value (BoundedDecoding).  The calls whose answers are flat are those *)
(* of WireCalls; here are those about recursive data.                      *)
(***************************************************************************)
EXTENDS TypedData, DocComments, BoundedDecoding, WireCalls

CONSTANTS
  SolidityCalls, AbiCalls,                              \* those tried
  MaxTypeDepth, Stack,                                  \* onchain_solidity
  MaxLogs                                               \* onchain_abi

Sol == INSTANCE Solidity
Json == INSTANCE AbiJson
Abi == INSTANCE AbiCodec WITH MaxNodes <- AbiNodes

vars == <<call, reply, typedVars, docVars, decodeVars>>

TypedCall == [callee |-> "typed"]
DocCall == [callee |-> "docs"]
DecodeCall == [callee |-> "decoding"]

NoTyped ==
  /\ types = [s \in Structs |-> <<>>] /\ primary = CHOOSE n \in Names : TRUE
  /\ stage = "idle"
  /\ path = <<>> /\ nodes = 0 /\ recursive = FALSE
  /\ pending = <<>> /\ seen = {} /\ definitions = {} /\ encoded = Nothing

NoDocs ==
  /\ source = [lines |-> <<>>, functions |-> <<>>]
  /\ byteOffsets = <<>> /\ size = 0 /\ starts = <<>> /\ fileSize = 0 /\ reached = 1
  /\ docComments = {} /\ given = <<>>

NoDecoding ==
  /\ request = [op |-> "none", small |-> FALSE] /\ phase = "idle"
  /\ budget = 0 /\ toVisit = <<>>
  /\ named = {} /\ charged = {} /\ built = {}

Init ==
  \/ WireInit /\ NoTyped /\ NoDocs /\ NoDecoding
  \/ reply = None /\ call \in SolidityCalls /\ NoTyped /\ NoDocs /\ NoDecoding
  \/ reply = None /\ call \in AbiCalls /\ NoTyped /\ NoDocs /\ NoDecoding
  \/ reply = None /\ call = TypedCall /\ TypedInit /\ NoDocs /\ NoDecoding
  \/ reply = None /\ call = DocCall /\ NoTyped /\ DocInit /\ NoDecoding
  \/ reply = None /\ call = DecodeCall /\ NoTyped /\ NoDocs /\ DecodeInit

-----------------------------------------------------------------------------

Solidity ==
  /\ Answer("solidity", Sol!ParseSol(call.tree, call.root))
  /\ UNCHANGED <<typedVars, docVars, decodeVars>>

Codec ==
  /\ Answer("abi", Abi!RunCodec(call))
  /\ UNCHANGED <<typedVars, docVars, decodeVars>>

Wire == WireNext /\ UNCHANGED <<typedVars, docVars, decodeVars>>

Typed == TypedNext /\ UNCHANGED <<call, reply, docVars, decodeVars>>

Docs == DocNext /\ UNCHANGED <<call, reply, typedVars, decodeVars>>

Decoding == DecodeNext /\ UNCHANGED <<call, reply, typedVars, docVars>>

Next == Solidity \/ Codec \/ Wire \/ Typed \/ Docs \/ Decoding

Spec == Init /\ [][Next]_vars

-----------------------------------------------------------------------------
(* Properties of onchain_solidity                                          *)

Tree == call.tree
Listed(kind) == Sol!Listed(Tree, call.root, kind)

AllClear(of, owner) == \A i \in DOMAIN of : Sol!Clear(Tree, of[i], owner, 0)

NoNameTwice ==
  \A m, n \in Sol!Names(Tree) : m.d.short = n.d.short => m = n

\* What a compiler makes of an item, given what Solidity means by its types.
CompiledItem(f) ==
  LET Compiled(of) ==
        [i \in DOMAIN of |-> Json!Compiled(Sol!Meaning(Tree, of[i], f.owner, 0))]
  IN  [name |-> f.item.name, inputs |-> Compiled(f.item.fields),
       outputs |-> Compiled(f.item.returns),
       indexed |-> f.item.indexed, anonymous |-> f.item.anonymous,
       mutability |-> IF f.item.mutability = None THEN "nonpayable" ELSE f.item.mutability]

\* What a compiler writes of the items that are listed.
CompiledAbi ==
  LET ItemsOf(kind) == [i \in DOMAIN Listed(kind) |-> CompiledItem(Listed(kind)[i])]
  IN  [functions |-> ItemsOf("function"), events |-> ItemsOf("event"),
       errors |-> ItemsOf("error"), constructor |-> ItemsOf("constructor")]

\* The two ways to a contract's interface agree: from the source, without a
\* compiler, and from the compiler's JSON.  They do so for every type whose
\* names are clear without a compiler; the components of a tuple, which are
\* resolved where the item stands, when no name is declared twice.
SourceAndJsonAgree ==
  Answered("solidity") /\ reply.tag = "ok" =>
    \A abi \in {CompiledAbi} : \A json \in {Json!EncodeAbi(abi)} :
      LET Clear(f) == AllClear(f.item.fields, f.owner)
          Agree(kind, ours, theirs) ==
            /\ DOMAIN ours = DOMAIN theirs
            /\ \A i \in DOMAIN ours : Clear(Listed(kind)[i]) =>
                 /\ ours[i].signature = theirs[i].signature
                 /\ NoNameTwice => ours[i].inputs = theirs[i].inputs
      IN  /\ Agree("function", reply.functions, json.functions)
          /\ Agree("event", reply.events, json.events)
          /\ Agree("error", reply.errors, json.errors)
          /\ \A i \in DOMAIN reply.functions : LET f == Listed("function")[i] IN
               /\ reply.functions[i].state_mutability = json.functions[i].state_mutability
               /\ AllClear(f.item.returns, f.owner) =>
                    reply.functions[i].return_type = json.functions[i].return_type
          /\ \A i \in DOMAIN reply.events :
               /\ reply.events[i].indexed = json.events[i].indexed
               /\ reply.events[i].anonymous = json.events[i].anonymous
          /\ Len(json.constructor) <= 1 /\ NoNameTwice
               /\ (\A i \in DOMAIN json.constructor : Clear(Listed("constructor")[i])) =>
                 reply.constructor = IF json.constructor = <<>> THEN None ELSE json.constructor[1]

-----------------------------------------------------------------------------
(* Properties of onchain_abi                                               *)

Coded(op) == Answered("abi") /\ call.op = op /\ reply.tag = "ok"

Chunks ==
  [i \in DOMAIN call.schema.of |-> Abi!Body(call.schema.of[i], call.input.items[i])]

GivesBack(answer) ==
  answer.tag # "value_limit" => answer.tag = "ok" /\ answer.value = call.input

\* The tag of the answer that AbiCodec gives to the call of a walk.
AnswerOf(r) ==
  LET Call(schema, input) ==
        [op |-> r.op, schema |-> schema, input |-> input, small |-> r.small]
  IN  Abi!RunCodec(
        IF r.op = "decode" THEN Call(r.schema, r.data)
        ELSE Call([topic0 |-> <<>>, indexed |-> Topics, body |-> r.schema.of[2]],
                  [topics |-> [i \in 1..Topics |-> 0], data |-> r.data])).tag

\* What is encoded decodes to itself within the same limits, as one binary
\* (but for parts without width, which alloy drops) and, part by part, as the
\* chunks that raw_decode takes; those need a node more for each.  The decoder
\* meant here answers as the walks of BoundedDecoding do.
AbiRoundTrips ==
  /\ phase \in {"ok", "malformed", "value_limit", "payload_limit", "dirty_required"} =>
       phase = AnswerOf(request)
  /\ Coded("encode") /\ ~Abi!HasZero(call.schema) =>
       Abi!Decode(call.schema, reply.value.bytes).value = call.input
  /\ Coded("raw_encode") => GivesBack(Abi!RawDecode(call.schema, Chunks))
  /\ Coded("raw_encode") /\ 2 * Abi!Nodes(call.input) <= AbiNodes =>
       Abi!RawDecode(call.schema, Chunks).tag = "ok"

\* A batch of logs gives each the answer it gets by itself, whatever becomes
\* of the others, until the budget that they share is used up.
BatchAgrees ==
  LET Agrees(this, one, i) ==
        \/ this.tag = one.tag /\ this.value = one.value
        \/ /\ this.tag = "value_limit"
           /\ \E j \in 1..i : reply.logs[j].left < Abi!Nodes(one.value) + i
  IN  Coded("events") =>
        /\ Len(reply.logs) = Len(call.input)
        /\ \A i \in DOMAIN call.input :
             Agrees(reply.logs[i], Abi!Event(call.schema, call.input[i], FALSE), i)

=============================================================================
