--------------------------- MODULE MCDocComments ---------------------------
(* Sources for the search for doc comments, line by line. *)
EXTENDS DocComments

Kinds == {"doc", "bare", "dev", "block", "blank", "function", "pair", "deep", "wide"}

\* A line of code has a byte before each function, where it has several or
\* is deep.
Line(kind, i) ==
  LET Tagged(tag) == <<[tag |-> tag, text |-> i]>>
      Of(type, width, tags) == [kind |-> type, width |-> width, tags |-> tags, crlf |-> FALSE]
  IN  CASE kind \in {"doc", "bare", "dev"} ->
             Of("line", 1, Tagged(IF kind = "doc" THEN "notice" ELSE kind))
        [] kind = "block" -> Of("block", 1, Tagged("return"))
        [] kind = "blank" -> Of("blank", 1, <<>>)
        [] kind = "function" -> Of("code", 1, <<>>)
        [] kind = "pair" -> Of("code", 3, <<>>)
        [] kind = "deep" -> Of("code", 4, <<>>)
        [] kind = "wide" -> Of("code", 3, <<>>)

Columns(kind) ==
  CASE kind = "function" -> <<0>> [] kind = "pair" -> <<1, 2>> [] kind = "deep" -> <<3>>
    [] OTHER -> <<>>

\* The functions of a root that begins after a place.
FunctionsIn(kinds, place) ==
  Seqs!FlattenSeq([i \in 1..Len(kinds) |->
    IF i <= place THEN <<>>
    ELSE [j \in DOMAIN Columns(kinds[i]) |-> [line |-> i, column |-> Columns(kinds[i])[j]]]])

LfSources ==
  {[lines |-> [i \in 1..Len(kinds) |-> Line(kinds[i], i)],
    functions |-> FunctionsIn(kinds, place)] :
     kinds \in [1..4 -> Kinds], place \in {0, 2}}

\* The first lines end in CRLF, or all do.
CrlfSources ==
  {[lines |-> [i \in 1..Len(kinds) |-> [Line(kinds[i], i) EXCEPT !.crlf = i <= last]],
    functions |-> FunctionsIn(kinds, 0)] :
     kinds \in [1..5 -> {"doc", "blank", "wide", "function"}], last \in {2, 5}}

MCDocSources == LfSources \cup CrlfSources

\* Comments of variables and of functions, with nothing else about.
PlainSources ==
  {[lines |-> [i \in 1..Len(kinds) |-> Line(kinds[i], i)], functions |-> FunctionsIn(kinds, 0)] :
     kinds \in [1..4 -> {"doc", "wide", "function"}]}

=============================================================================
