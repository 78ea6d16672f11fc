---------------------------- MODULE DocComments ----------------------------
(***************************************************************************)
(* The NatSpec comments of the onchain_solidity NIF: extract_doc_comments  *)
(* measures where the lines of a source start and collects its doc         *)
(* comments, each with the place of the line it targets; each function     *)
(* that the answer lists then takes the closest comment before it out of   *)
(* those that are left (take_natspec_for_offset).  One step is a line that *)
(* is measured, a turn of the loop over the lines, or a function.          *)
(*                                                                         *)
(* A line is a /// line, a whole block comment, blank or code.  It has its *)
(* width in bytes, with one for its newline, which is what the code counts *)
(* even where the file has CRLF, and a doc line has the tags it carries.   *)
(* A function starts at a column of a line of code.  Its span is in bytes  *)
(* of the file as the NIF gets it; the parser is taken to count them all.  *)
(***************************************************************************)
EXTENDS Naturals, Sequences
Seqs == INSTANCE SequencesExt
Sets == INSTANCE FiniteSetsExt

CONSTANTS
  DocSources,       \* the sources that are tried
  MaxDistance       \* MAX_NATSPEC_DISTANCE_BYTES

DocLine ==
  [kind : {"line", "block", "blank", "code"}, width : Nat \ {0}, crlf : BOOLEAN,
   tags : Seq([tag : {"notice", "param", "return", "bare", "dev"}, text : Nat])]

IsBefore(f, g) ==
  f.line < g.line \/ (f.line = g.line /\ f.column < g.column)

\* The parser gives functions their places, and in the order of the source.
IsDocSource(s) ==
  /\ s \in [lines : Seq(DocLine), functions : Seq([line : Nat, column : Nat])]
  /\ \A k \in DOMAIN s.functions : LET f == s.functions[k] IN
       /\ f.line \in DOMAIN s.lines /\ s.lines[f.line].kind = "code"
       /\ f.column < s.lines[f.line].width
  /\ \A k, m \in DOMAIN s.functions : k < m => IsBefore(s.functions[k], s.functions[m])

ASSUME DocSourcesAreSources == \A s \in DocSources : IsDocSource(s)
ASSUME MaxDistanceIsNat == MaxDistance \in Nat

VARIABLES
  source,       \* its lines, and the functions that are listed
  byteOffsets,  \* byte_offsets: where the lines measured so far start
  size,         \* offset: how long they are together
  starts,       \* where these lines start in the file, as spans count
  fileSize,     \* how long they are together in the file
  reached,      \* i: the line the loop has reached
  docComments,  \* doc_comments: those no function has taken
  given         \* for each function so far, the comment it took, if any

docVars == <<source, byteOffsets, size, starts, fileSize, reached, docComments, given>>

Lines == source.lines

DocInit ==
  /\ source \in DocSources
  /\ byteOffsets = <<>> /\ size = 0 /\ starts = <<>> /\ fileSize = 0 /\ reached = 1
  /\ docComments = {} /\ given = <<>>

-----------------------------------------------------------------------------
(* Comments                                                                *)

Texts(tags, tag) ==
  LET tagged == SelectSeq(tags, LAMBDA t : t.tag = tag)
  IN  [i \in DOMAIN tagged |-> tagged[i].text]

\* The last @notice, or else the first untagged line; @dev says nothing.
ParseNatspecLines(tags) ==
  LET notices == Texts(tags, "notice")
      bare == Texts(tags, "bare")
  IN  [notice |-> IF notices # <<>> THEN <<Seqs!Last(notices)>>
                  ELSE IF bare # <<>> THEN <<Head(bare)>> ELSE <<>>,
       params |-> Texts(tags, "param"), returns |-> Texts(tags, "return")]

\* What parse_natspec_lines makes None of.
NoNatspec == [notice |-> <<>>, params |-> <<>>, returns |-> <<>>]

\* The first of a comment's lines; adjacent /// lines are one comment.
Begins(lines, i) ==
  \/ lines[i].kind = "block"
  \/ lines[i].kind = "line" /\ (i = 1 \/ lines[i - 1].kind # "line")

\* The first line after a comment.
Ends(lines, i) ==
  IF lines[i].kind = "block" THEN i + 1
  ELSE Sets!Min({j \in i..(Len(lines) + 1) : j > Len(lines) \/ lines[j].kind # "line"})

\* The first line after a comment that is not blank.
TargetOf(lines, i) ==
  Sets!Min({j \in Ends(lines, i)..(Len(lines) + 1) : j > Len(lines) \/ lines[j].kind # "blank"})

\* The comment that begins at a line.
NatspecOf(lines, i) ==
  ParseNatspecLines(Seqs!FoldLeft(LAMBDA tags, line : tags \o line.tags, <<>>,
                             SubSeq(lines, i, Ends(lines, i) - 1)))

-----------------------------------------------------------------------------
(* extract_doc_comments                                                    *)

\* source.lines() drops a CRLF; offset counts one byte for it.
MeasureLine ==
  /\ Len(byteOffsets) < Len(Lines)
  /\ byteOffsets' = Append(byteOffsets, size)
  /\ starts' = Append(starts, fileSize)
  /\ LET line == Lines[Len(byteOffsets) + 1]
     IN  /\ size' = size + line.width
         /\ fileSize' = fileSize + line.width + (IF line.crlf THEN 1 ELSE 0)
  /\ UNCHANGED <<source, reached, docComments, given>>

Measured == Len(byteOffsets) = Len(Lines)

CommentAt(i) ==
  [at |-> byteOffsets[TargetOf(Lines, i)], natspec |-> NatspecOf(Lines, i)]

\* Nothing is kept of a comment that says nothing or has nothing after it.
IsKept(i) == TargetOf(Lines, i) <= Len(Lines) /\ NatspecOf(Lines, i) # NoNatspec

\* No two comments target one line, so doc_comments is a set.
ExtractComment ==
  /\ Measured /\ reached <= Len(Lines)
  /\ IF Lines[reached].kind \in {"line", "block"}
     THEN /\ docComments' = IF IsKept(reached)
                            THEN docComments \cup {CommentAt(reached)} ELSE docComments
          /\ reached' = TargetOf(Lines, reached)
     ELSE /\ reached' = reached + 1
          /\ UNCHANGED docComments
  /\ UNCHANGED <<source, byteOffsets, size, starts, fileSize, given>>

-----------------------------------------------------------------------------
(* take_natspec_for_offset                                                 *)

\* Faulty variant: any comment before the function that is near enough.
TakeNatspecAnyNear(comments, offset) ==
  LET near == {d \in comments : d.at <= offset /\ offset - d.at < MaxDistance}
  IN  {d \in near : \A e \in near : d.at <= e.at}

\* The closest one before it, if near enough.
TakeNatspec(comments, offset) ==
  {d \in comments : /\ d.at <= offset /\ offset - d.at < MaxDistance
                    /\ \A e \in comments : e.at <= offset => e.at <= d.at}

\* span_start, of the parser.
SpanStart(f) == starts[f.line] + f.column

\* The next function, in source order.
TakeComment ==
  /\ Measured /\ reached > Len(Lines) /\ Len(given) < Len(source.functions)
  /\ LET taken == TakeNatspec(docComments, SpanStart(source.functions[Len(given) + 1]))
     IN  docComments' = docComments \ taken /\ given' = Append(given, taken)
  /\ UNCHANGED <<source, byteOffsets, size, starts, fileSize, reached>>

DocNext == MeasureLine \/ ExtractComment \/ TakeComment

DocSpec == DocInit /\ [][DocNext]_docVars

-----------------------------------------------------------------------------

\* The comments that stand right before a line and say something.
OwnDocs(line) ==
  {NatspecOf(Lines, i) : i \in {j \in DOMAIN Lines :
     Begins(Lines, j) /\ TargetOf(Lines, j) = line}} \ {NoNatspec}

\* The first function on its line, and near the start of it.
LeadsItsLine(k) ==
  LET f == source.functions[k]
  IN  /\ f.column < MaxDistance
      /\ \A m \in DOMAIN source.functions : m < k => source.functions[m].line # f.line

\* No line before this one ends in CRLF.
NoDrift(line) == \A i \in DOMAIN Lines : i < line => ~Lines[i].crlf

\* A function that has a comment of its own is given that one, whatever
\* stands near it, as long as no CRLF comes before it; a function is given at
\* most one comment, and no comment is given to two functions, CRLF or not.
DocsRight ==
  /\ \A k \in DOMAIN given : LET f == source.functions[k] IN
       OwnDocs(f.line) # {} /\ LeadsItsLine(k) /\ NoDrift(f.line) =>
         \E d \in given[k] : d.natspec \in OwnDocs(f.line)
  /\ \A k \in DOMAIN given : \A d, e \in given[k] : d = e
  /\ \A k, m \in DOMAIN given : given[k] \cap given[m] # {} => k = m

\* take_natspec_for_offset: "Find and consume the NatSpec comment targeting
\* this function ... prevents bleeding to adjacent functions".
DocsAreOwn ==
  \A k \in DOMAIN given : \A d \in given[k] :
    d.natspec \in OwnDocs(source.functions[k].line)

\* The test adjacent_natspec_is_attached_to_the_function: the comment right
\* before a function is attached to it, whatever ends the lines.
AdjacentAttached ==
  \A k \in DOMAIN given : LET own == OwnDocs(source.functions[k].line) IN
    own # {} /\ LeadsItsLine(k) => \E d \in given[k] : d.natspec \in own

=============================================================================
