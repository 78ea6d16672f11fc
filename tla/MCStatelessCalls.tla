-------------------------- MODULE MCStatelessCalls --------------------------
(* The calls that tell the rules of each callee apart.  u is a builtin.     *)
EXTENDS StatelessCalls, MCDocComments

CONSTANTS A, B, C, u, x         \* EIP-712 names
CONSTANTS alice, bob, carol, usd  \* Tempo: a sender, two payers, a fee token

SeqsUpTo(S, n) == UNION {[1..m -> S] : m \in 0..n}

-----------------------------------------------------------------------------
(* typed                                                                   *)

MCSchemas ==
  {[n \in Structs |-> CASE n = A -> a [] n = B -> b [] n = C -> c] :
     a \in SeqsUpTo({A, B, C, u}, 2), b \in SeqsUpTo({A, B, C, u}, 2),
     c \in SeqsUpTo({A, B, C, u, x}, 1)}

-----------------------------------------------------------------------------
(* onchain_solidity: who declares A and B, and what is called with them     *)

Item(kind, name, fields) ==
  [kind |-> kind, name |-> name, fields |-> fields, returns |-> <<>>,
   items |-> <<>>, bases |-> {},
   indexed |-> [i \in DOMAIN fields |-> i > 1], anonymous |-> FALSE, mutability |-> None]

Ty(name) == [name |-> name, dims |-> <<>>]
Dim(name, dim) == [name |-> name, dims |-> <<dim>>]

Uint == Ty(<<"uint">>)

As == {<<>>, <<Item("struct", "A", <<Uint>>)>>, <<Item("struct", "A", <<Ty(<<"B">>)>>)>>}
Bs(field) == {<<>>, <<Item("struct", "B", <<field>>)>>, <<Item("enum", "B", <<>>)>>}
Circular == <<Item("struct", "A", <<Dim(<<"A">>, "dyn")>>)>>

Function(tys) == [Item("function", "f", tys) EXCEPT !.returns = tys]

Contract(name, bases, items) ==
  [Item("contract", name, <<>>) EXCEPT !.bases = bases, !.items = items]

\* A function for each type, and the other items that have parameters.
TypesUsed ==
  <<Uint, Ty(<<"A">>), Ty(<<"B">>), Ty(<<"D", "A">>), Ty(<<"C">>),
    Dim(<<"A">>, "lit"), Dim(<<"A">>, "sym")>>

Uses ==
  [i \in DOMAIN TypesUsed |-> Function(<<TypesUsed[i]>>)]
  \o <<Item("event", "E", <<Ty(<<"A">>), Ty(<<"B">>)>>), Item("error", "X", <<Ty(<<"B">>)>>),
       [Item("constructor", "", <<Ty(<<"A">>)>>) EXCEPT !.mutability = "payable"]>>

\* The same parameters outside of every contract.
FileEvent == [Item("event", "E", <<Ty(<<"A">>), Uint>>) EXCEPT !.anonymous = TRUE]

\* What C inherits it may not declare again.
Trees ==
  {fileA \o fileB \o <<FileEvent, Contract("D", {}, dA \o dB),
     Contract("C", bases, cA \o cB \o Uses)>> :
     fileA \in As, dA \in As, cA \in As \cup {Circular}, fileB \in Bs(Uint),
     dB \in Bs(Dim(<<"uint">>, "dyn")), cB \in Bs(Dim(<<"uint">>, "lit")), bases \in {{}, {"D"}}}

NamesIn(items) == {items[i].name : i \in DOMAIN items}

Valid(tree) ==
  LET before == tree[Len(tree) - 1] last == tree[Len(tree)]
  IN  last.bases = {} \/ NamesIn(before.items) \cap NamesIn(last.items) = {}

TypeCalls ==
  {[callee |-> "solidity", tree |-> tree, root |-> root] :
     tree \in {tree \in Trees : Valid(tree)}, root \in {None, "C"}}

NoSuchRoot == {[callee |-> "solidity", tree |-> <<>>, root |-> "X"]}

MCSolidityCalls == TypeCalls \cup NoSuchRoot

-----------------------------------------------------------------------------
(* abi: every kind of type, around those of no width; every value that is  *)
(* small, and every data that is short.                                    *)

Type(kind, of, n) == [kind |-> kind, of |-> of, n |-> n]

WordTy == Type("word", <<>>, 3)
BytesTy == Type("bytes", <<>>, 0)
TupleOf(of) == Type("tuple", of, 0)
ArrayOf(ty) == Type("array", <<ty>>, 0)

Schemata ==
  {WordTy, BytesTy, ArrayOf(WordTy), ArrayOf(ArrayOf(WordTy)), Type("fixed", <<WordTy>>, 2),
   TupleOf(<<WordTy>>), TupleOf(<<WordTy, BytesTy>>), TupleOf(<<BytesTy, WordTy>>),
   TupleOf(<<ArrayOf(WordTy), WordTy>>), ArrayOf(TupleOf(<<WordTy, WordTy>>)),
   TupleOf(<<TupleOf(<<WordTy, WordTy>>), BytesTy>>),
   TupleOf(<<TupleOf(<<>>), ArrayOf(TupleOf(<<>>))>>), ArrayOf(Type("fixed", <<WordTy>>, 0)),
   Type("fixed", <<WordTy>>, 9)}

RECURSIVE ValuesOf(_)
ValuesOf(ty) ==
  LET Lists(m) == {Abi!List(items) : items \in [1..m -> ValuesOf(ty.of[1])]}
  IN  CASE ty.kind = "word"  -> {Abi!Word(w) : w \in 0..1}
        [] ty.kind = "bytes" -> {Abi!Bytes(b) : b \in {<<>>, <<2>>, <<1, 3>>}}
        [] ty.kind = "fixed" -> Lists(IF ty.n > 2 THEN 2 ELSE ty.n)
        [] ty.kind = "array" -> UNION {Lists(m) : m \in 0..2}
        [] ty.of = <<>>      -> {Abi!List(<<>>)}
        [] OTHER             ->
             {Abi!List(items) :
                items \in {f \in [DOMAIN ty.of -> UNION {ValuesOf(ty.of[i]) : i \in DOMAIN ty.of}] :
                             \A i \in DOMAIN ty.of : f[i] \in ValuesOf(ty.of[i])}}

Ask(op, schema, input, small) ==
  [callee |-> "abi", op |-> op, schema |-> schema, input |-> input, small |-> small]

Misfits == {Abi!Word(7), Abi!List(<<Abi!Word(0)>>), Abi!Bytes([i \in 1..8 |-> 0])}

EncodeCalls ==
  {Ask(op, ty, v, FALSE) : op \in {"encode", "raw_encode"}, ty \in Schemata, v \in Misfits}
  \cup UNION {{Ask(op, ty, v, FALSE) : op \in {"encode", "raw_encode"}, v \in ValuesOf(ty)} :
              ty \in Schemata}

ChunkCalls ==
  {Ask("raw_decode", ty, chunks, FALSE) :
     ty \in {TupleOf(<<WordTy, BytesTy>>), TupleOf(<<ArrayOf(TupleOf(<<>>)), TupleOf(<<>>)>>),
             WordTy},
     chunks \in SeqsUpTo({<<>>, <<0>>, <<1>>, <<3>>, <<2, 1, 0>>, <<1, 2>>}, 3)}

EventSchema(body) == [topic0 |-> <<1>>, indexed |-> 1, body |-> TupleOf(body)]

ALog(topics, data) == [topics |-> topics, data |-> data]

\* Batches of what fits, what fails, and what uses up the budget.
LogBatchCalls ==
  {Ask("events", EventSchema(<<ArrayOf(WordTy)>>), logs, FALSE) :
     logs \in SeqsUpTo({ALog(<<1>>, data) : data \in {<<>>, <<1, 0>>, <<1, 2, 0, 0>>}}
                         \cup {ALog(<<0>>, <<1, 0>>), ALog(<<1, 2>>, <<1, 0>>)}, 4)}
  \cup {Ask("events", EventSchema(<<WordTy>>), <<>>, TRUE)}

MCAbiCalls == EncodeCalls \cup ChunkCalls \cup LogBatchCalls

-----------------------------------------------------------------------------
(* decoding: every data that is short, and bodies that alias one another    *)

ShortData == SeqsUpTo(0..3, 4)

Aliased ==
  {<<1, 3, o, o, o>> : o \in 0..2} \cup {<<1, 4, o, o, o, o>> : o \in 0..2}
  \cup {<<1, 2, 1, 1, 0>>, <<2, 0, 5, 0, 0, 0, 0, 0>>, [i \in 1..9 |-> 0]}

\* The event's data, too, at the limits of its length.
EventData ==
  SeqsUpTo(0..2, 3) \cup Aliased \cup {[i \in 1..7 |-> 0], <<1, 2, 0, 0>>, <<1, 4, 0, 0, 0, 0>>}

\* What alloy and has_zero say of a type, and of its parts.
RECURSIVE Described(_)
Described(ty) ==
  [kind |-> ty.kind, of |-> [i \in DOMAIN ty.of |-> Described(ty.of[i])], n |-> ty.n,
   dynamic |-> Abi!Dynamic(ty), words |-> Abi!MinimumWords(ty), zero |-> Abi!HasZero(ty)]

RECURSIVE AllParts(_)
AllParts(ty) == {ty} \cup UNION {AllParts(ty.of[i]) : i \in DOMAIN ty.of}

\* Schemas that parse_schema lets through.
Parsed(schemata) == {Described(ty) : ty \in {ty \in schemata : Abi!SchemaSize(ty) <= AbiNodes}}

EventBodies ==
  {<<WordTy>>, <<ArrayOf(WordTy)>>, <<WordTy, WordTy>>, <<TupleOf(<<WordTy, WordTy>>)>>,
   <<TupleOf(<<>>), ArrayOf(WordTy)>>, <<ArrayOf(TupleOf(<<>>)), WordTy>>,
   <<Type("fixed", <<TupleOf(<<>>)>>, 2)>>, <<BytesTy, ArrayOf(Type("fixed", <<WordTy>>, 0))>>}

EventTypes ==
  {TupleOf(<<TupleOf(Abi!Rep(WordTy, topics)), TupleOf(body)>>) :
     topics \in 0..5, body \in EventBodies}

Request(op, schema, data, small) ==
  [op |-> op, schema |-> schema, data |-> data, small |-> small]

MCRequests ==
  {Request("decode", ty, raw, FALSE) : ty \in Parsed(Schemata), raw \in ShortData \cup Aliased}
  \cup {Request("decode", ty, <<1>>, TRUE) : ty \in Parsed(Schemata)}
  \cup {Request("event", ty, raw, small) :
          ty \in Parsed(EventTypes), raw \in EventData, small \in BOOLEAN}

MCAbiTypes == UNION {AllParts(ty) : ty \in Parsed(Schemata) \cup Parsed(EventTypes)}

-----------------------------------------------------------------------------
(* consensus: chain ids at the width of a u64, nine fields of every kind    *)

Transactions ==
  {[type |-> 0, chain |-> chain, body |-> <<0, 1, 0, 1, 0, 1>>] :
     chain \in {<<>>, <<0>>, <<1>>, <<MaxU64>>, <<MaxU64 + 1>>}}
  \cup {[type |-> type, chain |-> chain, body |-> <<0, 1, 0, 1, 0, 1, access>>] :
          type \in {1, 2, 5}, chain \in {<<>>, <<1>>, <<MaxU64>>, <<MaxU64 + 1>>},
          access \in {0, 2, 3, 6}}

Signatures == {Eth!Unsigned} \cup {<<parity, r, 1>> : parity \in 0..1, r \in 0..1}

Wires ==
  {[type |-> type, fields |-> <<first, 1, 0, 1, 0, 1>> \o rest] : type \in {0, 2, 5},
     first \in {0, MaxU64 + 1},
     rest \in {<<>>, <<1>>, <<1, 0>>, <<1, 0, 1, 1, 1>>, <<1, 0, 2, 1, 1>>}
              \cup {<<v, r, z>> :
                      v \in {0, 1, 27, 28, 34, 35, 36, 37, MaxU64, MaxU64 + 1,
                             2 * MaxU64 + 36, 2 * MaxU64 + 37},
                      r \in 0..1, z \in 0..1}}

MCConsensusCalls ==
  {[callee |-> "consensus", op |-> "encode", tx |-> tx, signature |-> signature] :
     tx \in Transactions, signature \in Signatures}
  \cup {[callee |-> "consensus", op |-> "decode", wire |-> wire] : wire \in Wires}

-----------------------------------------------------------------------------
(* tempo: sponsored, paid by the sender, already co-signed, or broken       *)

Plain(token) == [token |-> token, payer |-> Tempo!NoPayer, rest |-> None]

Paid(token) ==
  [Plain(token) EXCEPT
     !.payer = Tempo!Signed(carol, Tempo!FeePayerSignatureHash(Plain(token), alice))]

TempoTransactions ==
  {Plain(None), Plain(usd), Paid(usd), [Plain(None) EXCEPT !.payer = Tempo!Marker],
   [Plain(usd) EXCEPT !.payer = Tempo!Marker]}

TempoWires ==
  {[tx |-> tx, signature |-> Tempo!Signed(alice, Tempo!SignatureHash(over)), bad |-> bad] :
     tx \in TempoTransactions, over \in TempoTransactions, bad \in BOOLEAN}

MCTempoCalls ==
  {[callee |-> "tempo", op |-> "decode", wire |-> wire] : wire \in TempoWires}
  \cup {[callee |-> "tempo", op |-> "cosign", wire |-> wire, key |-> bob, token |-> usd] :
          wire \in TempoWires}

-----------------------------------------------------------------------------
(* batch: every answer of up to three items to up to three requests         *)

MCItems == [id : 0..3, kind : {"result", "error", "bare"}]

Bodies ==
  {[kind |-> kind] : kind \in {"invalid", "transport", "batch", "unexpected"}}
  \cup {[kind |-> "list", items |-> items] : items \in SeqsUpTo(MCItems, 3)}

MCBatchCalls ==
  {[callee |-> "batch", requests |-> n, body |-> body] : n \in 0..3, body \in Bodies}

=============================================================================
