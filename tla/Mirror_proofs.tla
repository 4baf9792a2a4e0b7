--------------------------- MODULE Mirror_proofs ---------------------------
(****************************************************************************)
(* Theorems about BulkLoad, proved of every state of the mirror that module *)
(* Browse adds its readers to: how dumps and daily files make the tables,   *)
(* for every set of licences, days, contents and batch size.                *)
(****************************************************************************)
EXTENDS Browse, TLAPS, FiniteSetTheorems, SequenceTheorems

WriteRecord(file, u, p) == file \o Lines(u, Version(u, p[1]), p[2])

TakeRow(st, r, key) ==
  LET full == [st EXCEPT !.batch = Append(@, r)]
  IN  IF Len(full.batch) >= BatchSize THEN ExecuteMany(full, key) ELSE full

\* The events of one row, with p the file, its day and whether the day is informed.
RowEvents(T, row, p) ==
  LET old == T[row.usi[1]]
      event(field, frn, new) ==
        [key |-> row.usi[1], subject |-> row.call_sign, field |-> field, frn |-> frn,
         isNew |-> new, day |-> p[2], file |-> p[1], informed |-> p[3]]
  IN  IF old # None THEN {event(c, None, FALSE) : c \in DiffRows(old, row)}
      ELSE IF p[1] = "EN" /\ row.frn # None
        THEN {event("license_granted", row.frn, ~HasPriorLicense(T, row.frn))}
      ELSE {}

IngestAs(st, row, p) ==
  [table |-> Upsert(st.table, row, "usi"), events |-> st.events \cup RowEvents(st.table, row, p)]

Reading == INSTANCE FoldInduction WITH Op <- ReadLine
Writing == INSTANCE FoldInduction WITH Op <- WriteRecord
Storing == INSTANCE FoldInduction WITH Op <- Upsert
Taking == INSTANCE FoldInduction WITH Op <- TakeRow
Ingesting == INSTANCE FoldInduction WITH Op <- IngestAs

LEMMA FoldOfReading ==
  ASSUME NEW physical, NEW rt, NEW b
  PROVE  FoldLeft(LAMBDA s, line : ReadLine(s, line, rt), b, physical) = Reading!Folded(rt, b, physical)
BY DEF FoldLeft, MapThenFoldSet, Max, Reading!Folded, Reading!IsIter, Reading!Top

LEMMA FoldOfWriting ==
  ASSUME NEW s, NEW d, NEW f, NEW b
  PROVE  FoldLeft(LAMBDA file, u : file \o Lines(u, Version(u, d), f), b, s) = Writing!Folded(<<d, f>>, b, s)
BY DEF FoldLeft, MapThenFoldSet, Max, Writing!Folded, Writing!IsIter, Writing!Top, WriteRecord

LEMMA FoldOfStoring ==
  ASSUME NEW s, NEW key, NEW b
  PROVE  FoldLeft(LAMBDA t, r : Upsert(t, r, key), b, s) = Storing!Folded(key, b, s)
BY DEF FoldLeft, MapThenFoldSet, Max, Storing!Folded, Storing!IsIter, Storing!Top

LEMMA BatchOfTaking ==
  ASSUME NEW s, NEW key, NEW b
  PROVE UpsertBatch(b, s, key) = 
   LET read == Taking!Folded(key, [table |-> b, count |-> 0, batch |-> <<>>], s)
    IN  IF read.batch # <<>> THEN ExecuteMany(read, key) ELSE read
BY DEF FoldLeft, MapThenFoldSet, Max, Taking!Folded, Taking!IsIter, Taking!Top, UpsertBatch, TakeRow

LEMMA FoldOfIngesting ==
  ASSUME NEW s, NEW b, NEW f, NEW d
  PROVE IngestRows(b, s, f, d) = Ingesting!Folded(<<f, d, Informed(d)>>, [table |-> b, events |-> {}], s)
BY DEF FoldLeft, MapThenFoldSet, Max, Ingesting!Folded, Ingesting!IsIter, Ingesting!Top, IngestRows, IngestRow, IngestAs, RowEvents

-----------------------------------------------------------------------------
(* What the parser makes of a file                                         *)

\* The row the parser makes of u's record of version v: a delimiter in a text moves
\* the cells after it by one, and the last one off the end.
Kept(u, v, f) ==
  IF f = "EN" /\ Style[u] = "delimited" THEN [Meant(u, v, f) EXCEPT !.frn = <<Rest>>]
  ELSE Meant(u, v, f)

\* The logical line of that record.
Joined(u, v, f) ==
  CASE f = "HD" -> << <<"HD">>, <<u>>, <<Call[u]>>, <<Status(u, v)>>, <<v>> >>
    [] f = "EN" /\ Style[u] = "plain" -> << <<"EN">>, <<u>>, <<Call[u]>>, <<v>>, <<Frn[u]>> >>
    [] f = "EN" /\ Style[u] = "split" ->
         << <<"EN">>, <<u>>, <<Call[u]>>, <<v, Blank, Rest>>, <<Frn[u]>> >>
    [] OTHER -> << <<"EN">>, <<u>>, <<Call[u]>>, <<v>>, <<Rest>>, <<Frn[u]>> >>

LEMMA FilesAre == ToSet(Files) = {"HD", "EN"}
BY DEF ToSet, Files

LEMMA KeptIsRow ==
  ASSUME NEW u \in Keys, NEW v \in Days, NEW f \in ToSet(Files)
  PROVE  /\ Kept(u, v, f) \in RowsOf(f)
         /\ Kept(u, v, f) # None
         /\ Kept(u, v, f).usi = <<u>>
         /\ Kept(u, v, f).call_sign = <<Call[u]>>
         /\ Kept(u, v, f).text \in {<<v>>, <<v, Blank, Rest>>}
<1>1. Kept(u, v, f) \in RowsOf(f) /\ Kept(u, v, f).usi = <<u>> /\ Kept(u, v, f).call_sign = <<Call[u]>>
       /\ Kept(u, v, f).text \in {<<v>>, <<v, Blank, Rest>>}
  BY FilesAre DEF Kept, Meant, RowsOf, UsiCell, CallCell, FrnCell, TextCell, Status
<1> QED
  BY <1>1, FileAssumption

LEMMA RowKept ==
  ASSUME NEW u \in Keys, NEW v \in Days, NEW f \in ToSet(Files)
  PROVE  RowOf(Joined(u, v, f), Schema[f]) = Kept(u, v, f)
<1> DEFINE at(c) == CHOOSE i \in 2..5 : Schema[f][i] = c
           cell(c) == Fitted(Joined(u, v, f), 5)[at(c)]
<1>1. Len(Schema[f]) = 5
  BY FilesAre DEF Schema
<1>2. RowOf(Joined(u, v, f), Schema[f])
        = [c \in ToSet(Tail(Schema[f])) |-> IF cell(c) = <<Blank>> THEN None ELSE cell(c)]
  BY <1>1 DEF RowOf
<1>3. CASE f = "HD"
  <2>1. Schema[f] = <<"record_type", "usi", "call_sign", "status", "text">>
    BY <1>3 DEF Schema
  <2>2. at("usi") = 2 /\ at("call_sign") = 3 /\ at("status") = 4 /\ at("text") = 5
    <3>1. \A i \in 2..5 : i = 2 \/ i = 3 \/ i = 4 \/ i = 5
      OBVIOUS
    <3> QED
      BY <2>1, <3>1
  <2>3. ToSet(Tail(Schema[f])) = {"usi", "call_sign", "status", "text"}
    <3>1. PICK w : w = Tail(Schema[f])
      OBVIOUS
    <3>2. w = <<"usi", "call_sign", "status", "text">> /\ DOMAIN w = 1..4
      BY <2>1, <3>1
    <3>3. \A i \in 1..4 : i = 1 \/ i = 2 \/ i = 3 \/ i = 4
      OBVIOUS
    <3>4. {w[i] : i \in 1..4} = {"usi", "call_sign", "status", "text"}
      BY <3>2, <3>3
    <3> QED
      BY <3>1, <3>2, <3>4 DEF ToSet
  <2>4. Joined(u, v, f) = << <<"HD">>, <<u>>, <<Call[u]>>, <<Status(u, v)>>, <<v>> >>
    BY <1>3 DEF Joined
  <2>5. /\ cell("usi") = <<u>> /\ cell("call_sign") = <<Call[u]>>
        /\ cell("status") = <<Status(u, v)>> /\ cell("text") = <<v>>
    <3> HIDE DEF at
    <3> QED
      BY <2>2, <2>4 DEF Fitted
  <2>6. <<Blank>> \notin {<<u>>, <<Call[u]>>, <<Status(u, v)>>, <<v>>}
    BY FileAssumption DEF Status
  <2>7. RowOf(Joined(u, v, f), Schema[f])
          = [c \in {"usi", "call_sign", "status", "text"} |->
               IF cell(c) = <<Blank>> THEN None ELSE cell(c)]
    BY <1>2, <2>3
  <2>8. Kept(u, v, f) = [usi |-> <<u>>, call_sign |-> <<Call[u]>>, status |-> <<Status(u, v)>>, text |-> <<v>>]
    BY <1>3 DEF Kept, Meant
  <2> HIDE DEF cell
  <2> QED
    BY <2>5, <2>6, <2>7, <2>8
<1>4. CASE f = "EN"
  <2>1. Schema[f] = <<"record_type", "usi", "call_sign", "text", "frn">>
    BY <1>4 DEF Schema
  <2>2. at("usi") = 2 /\ at("call_sign") = 3 /\ at("text") = 4 /\ at("frn") = 5
    <3>1. \A i \in 2..5 : i = 2 \/ i = 3 \/ i = 4 \/ i = 5
      OBVIOUS
    <3> QED
      BY <2>1, <3>1
  <2>3. ToSet(Tail(Schema[f])) = {"usi", "call_sign", "text", "frn"}
    <3>1. PICK w : w = Tail(Schema[f])
      OBVIOUS
    <3>2. w = <<"usi", "call_sign", "text", "frn">> /\ DOMAIN w = 1..4
      BY <2>1, <3>1
    <3>3. \A i \in 1..4 : i = 1 \/ i = 2 \/ i = 3 \/ i = 4
      OBVIOUS
    <3>4. {w[i] : i \in 1..4} = {"usi", "call_sign", "text", "frn"}
      BY <3>2, <3>3
    <3> QED
      BY <3>1, <3>2, <3>4 DEF ToSet
  <2>4. /\ cell("usi") = <<u>> /\ cell("call_sign") = <<Call[u]>>
        /\ cell("text") \in {<<v>>, <<v, Blank, Rest>>} /\ cell("frn") \in {<<Frn[u]>>, <<Rest>>}
        /\ Kept(u, v, f) = [usi |-> <<u>>, call_sign |-> <<Call[u]>>, text |-> cell("text"), frn |-> cell("frn")]
    <3> HIDE DEF at
    <3>1. CASE Style[u] = "plain"
      <4>1. Joined(u, v, f) = << <<"EN">>, <<u>>, <<Call[u]>>, <<v>>, <<Frn[u]>> >>
        BY <1>4, <3>1 DEF Joined
      <4>2. Kept(u, v, f) = [usi |-> <<u>>, call_sign |-> <<Call[u]>>, text |-> <<v>>, frn |-> <<Frn[u]>>]
        BY <1>4, <3>1 DEF Kept, Meant
      <4> QED
        BY <2>2, <4>1, <4>2 DEF Fitted
    <3>2. CASE Style[u] = "split"
      <4>1. Joined(u, v, f) = << <<"EN">>, <<u>>, <<Call[u]>>, <<v, Blank, Rest>>, <<Frn[u]>> >>
        BY <1>4, <3>2 DEF Joined
      <4>2. Kept(u, v, f) = [usi |-> <<u>>, call_sign |-> <<Call[u]>>, text |-> <<v, Blank, Rest>>,
                             frn |-> <<Frn[u]>>]
        BY <1>4, <3>2 DEF Kept, Meant
      <4> QED
        BY <2>2, <4>1, <4>2 DEF Fitted
    <3>3. CASE Style[u] = "delimited"
      <4>1. Joined(u, v, f) = << <<"EN">>, <<u>>, <<Call[u]>>, <<v>>, <<Rest>>, <<Frn[u]>> >>
        BY <1>4, <3>3 DEF Joined
      <4>2. Kept(u, v, f) = [usi |-> <<u>>, call_sign |-> <<Call[u]>>, text |-> <<v>>, frn |-> <<Rest>>]
        BY <1>4, <3>3 DEF Kept, Meant
      <4> QED
        BY <2>2, <4>1, <4>2 DEF Fitted
    <3> QED
      BY <3>1, <3>2, <3>3, FileAssumption
  <2>5. <<Blank>> \notin {<<u>>, <<Call[u]>>, cell("text"), cell("frn")}
    <3> HIDE DEF cell
    <3> QED
      BY <2>4, FileAssumption
  <2>6. RowOf(Joined(u, v, f), Schema[f])
          = [c \in {"usi", "call_sign", "text", "frn"} |->
               IF cell(c) = <<Blank>> THEN None ELSE cell(c)]
    BY <1>2, <2>3
  <2> HIDE DEF cell
  <2> QED
    BY <2>4, <2>5, <2>6
<1> QED
  BY <1>3, <1>4, FilesAre

\* Short sequences, element by element.
LEMMA AppendToOne ==
  ASSUME NEW a, NEW b
  PROVE  Append(<<a>>, b) = <<a, b>>
<1> DEFINE S == {a, b}
<1>1. PICK s : s = Append(<<a>>, b)
  OBVIOUS
<1>2. s \in Seq(S) /\ Len(s) = 2 /\ s[1] = a /\ s[2] = b
  BY <1>1
<1>3. s = <<a, b>>
  BY <1>2
<1> QED
  BY <1>1, <1>3

LEMMA AppendToTwo ==
  ASSUME NEW a, NEW b, NEW c
  PROVE  Append(<<a, b>>, c) = <<a, b, c>>
<1> DEFINE S == {a, b, c}
<1>1. PICK s : s = Append(<<a, b>>, c)
  OBVIOUS
<1>2. s \in Seq(S) /\ Len(s) = 3 /\ s[1] = a /\ s[2] = b /\ s[3] = c
  BY <1>1
<1>3. s = <<a, b, c>>
  BY <1>2
<1> QED
  BY <1>1, <1>3

LEMMA ConcatToThree ==
  ASSUME NEW a, NEW b, NEW c, NEW e
  PROVE  <<a, b, c>> \o <<e>> = <<a, b, c, e>>
<1> DEFINE S == {a, b, c, e}
<1>1. PICK s : s = <<a, b, c>> \o <<e>>
  OBVIOUS
<1>2. s \in Seq(S) /\ Len(s) = 4 /\ s[1] = a /\ s[2] = b /\ s[3] = c /\ s[4] = e
  BY <1>1
<1>3. s = <<a, b, c, e>>
  BY <1>2
<1> QED
  BY <1>1, <1>3

LEMMA ConcatToFour ==
  ASSUME NEW a, NEW b, NEW c, NEW e, NEW g
  PROVE  <<a, b, c, e>> \o <<g>> = <<a, b, c, e, g>>
<1> DEFINE S == {a, b, c, e, g}
<1>1. PICK s : s = <<a, b, c, e>> \o <<g>>
  OBVIOUS
<1>2. s \in Seq(S) /\ Len(s) = 5 /\ s[1] = a /\ s[2] = b /\ s[3] = c /\ s[4] = e /\ s[5] = g
  BY <1>1
<1>3. s = <<a, b, c, e, g>>
  BY <1>2
<1> QED
  BY <1>1, <1>3

LEMMA FrontOfFour ==
  ASSUME NEW a, NEW b, NEW c, NEW e
  PROVE  Front(<<a, b, c, e>>) = <<a, b, c>>
<1> DEFINE S == {a, b, c, e}
<1>1. PICK s : s = <<a, b, c, e>>
  OBVIOUS
<1>2. Len(s) = 4 /\ s[1] = a /\ s[2] = b /\ s[3] = c
  BY <1>1
<1>3. PICK t : t = SubSeq(s, 1, 3)
  OBVIOUS
<1>4. t \in Seq(S) /\ Len(t) = 3 /\ t[1] = a /\ t[2] = b /\ t[3] = c
  BY <1>2, <1>3
<1>5. t = <<a, b, c>>
  BY <1>4
<1>6. Front(s) = SubSeq(s, 1, 3)
  BY <1>2 DEF Front
<1> QED
  BY <1>1, <1>3, <1>5, <1>6

\* A line that continues a cell.
LEMMA CellContinued ==
  ASSUME NEW a, NEW b, NEW c, NEW x, NEW y
  PROVE  Continue(<<a, b, c, <<x>> >>, <<y>>) = <<a, b, c, <<x, y>> >>
<1>1. Front(<<a, b, c, <<x>> >>) = <<a, b, c>>
  BY FrontOfFour
<1>2. Append(Last(<<a, b, c, <<x>> >>), <<y>>[1]) = <<x, y>>
  <2>1. Last(<<a, b, c, <<x>> >>) = <<x>> /\ <<y>>[1] = y
    BY DEF Last
  <2> QED
    BY <2>1, AppendToOne
<1>3. Tail(Cells(<<y>>)) = <<>>
  BY DEF Cells
<1>4. <<a, b, c>> \o << <<x, y>> >> = <<a, b, c, <<x, y>> >>
  BY ConcatToThree
<1>5. <<a, b, c, <<x, y>> >> \o <<>> = <<a, b, c, <<x, y>> >>
  OBVIOUS
<1> QED
  BY <1>1, <1>2, <1>3, <1>4, <1>5, Zenon DEF Continue

\* A line that ends the cell and adds another.
LEMMA CellEnded ==
  ASSUME NEW a, NEW b, NEW c, NEW x, NEW y, NEW z, NEW w
  PROVE  Continue(<<a, b, c, <<x, y>> >>, <<z, w>>) = <<a, b, c, <<x, y, z>>, <<w>> >>
<1>1. Front(<<a, b, c, <<x, y>> >>) = <<a, b, c>>
  BY FrontOfFour
<1>2. Append(Last(<<a, b, c, <<x, y>> >>), <<z, w>>[1]) = <<x, y, z>>
  <2>1. Last(<<a, b, c, <<x, y>> >>) = <<x, y>> /\ <<z, w>>[1] = z
    BY DEF Last
  <2> QED
    BY <2>1, AppendToTwo
<1>3. Tail(Cells(<<z, w>>)) = << <<w>> >>
  <2>1. Cells(<<z, w>>) = << <<z>>, <<w>> >>
    BY DEF Cells
  <2>2. \A p, q : Tail(<<p, q>>) = <<q>>
    OBVIOUS
  <2> QED
    BY <2>1, <2>2
<1>4. <<a, b, c>> \o << <<x, y, z>> >> = <<a, b, c, <<x, y, z>> >>
  BY ConcatToThree
<1>5. <<a, b, c, <<x, y, z>> >> \o << <<w>> >> = <<a, b, c, <<x, y, z>>, <<w>> >>
  BY ConcatToFour
<1> QED
  BY <1>1, <1>2, <1>3, <1>4, <1>5, Zenon DEF Continue

\* The lines of a record: some, all pieces in order, and only the first starts one.
LEMMA LinesAreASequence ==
  ASSUME NEW u \in Keys, NEW v, NEW f \in ToSet(Files)
  PROVE  Len(Lines(u, v, f)) \in {1, 3} /\ DOMAIN Lines(u, v, f) = 1..Len(Lines(u, v, f))
<1>1. CASE f = "HD"
  BY <1>1 DEF Lines
<1>2. CASE f = "EN" /\ Style[u] = "plain"
  BY <1>2 DEF Lines
<1>3. CASE f = "EN" /\ Style[u] = "split"
  BY <1>3 DEF Lines
<1>4. CASE f = "EN" /\ Style[u] = "delimited"
  BY <1>4 DEF Lines
<1> QED
  BY <1>1, <1>2, <1>3, <1>4, FilesAre, FileAssumption

LEMMA BufferReplaced ==
  ASSUME NEW y, NEW b, NEW c
  PROVE  [[yielded |-> y, buffer |-> b] EXCEPT !.buffer = c] = [yielded |-> y, buffer |-> c]
OBVIOUS

\* Reading a record ends the one in the buffer and leaves its own there, whole.
LEMMA RecordRead ==
  ASSUME NEW u \in Keys, NEW v, NEW f \in ToSet(Files), NEW yielded, NEW buffer
  PROVE  Reading!Folded(f, [yielded |-> yielded, buffer |-> buffer], Lines(u, v, f))
           = [yielded |-> yielded \o buffer, buffer |-> <<Joined(u, v, f)>>]
<1> DEFINE st == [yielded |-> yielded, buffer |-> buffer]
           lines == Lines(u, v, f)
           m == Len(lines)
<1>1. m \in {1, 3} /\ DOMAIN lines = 1..m
  BY LinesAreASequence
<1>2. PICK h : Reading!Runs(h, f, st, lines, m) /\ Reading!Folded(f, st, lines) = h[m]
  <2> HIDE DEF st, lines, m
  <2>1. m \in Nat
    BY <1>1
  <2> QED
    BY <1>1, <2>1, Reading!FoldedSteps
<1>3. /\ h[0] = st
      /\ \A i \in 1..m : h[i] = ReadLine(h[i - 1], lines[i], f)
  <2> HIDE DEF st, lines, m
  <2> QED
    BY <1>2 DEF Reading!Runs
<1>4. h[1] = ReadLine(st, lines[1], f)
  <2> HIDE DEF st, lines, m
  <2>1. 1 \in 1..m /\ 1 - 1 = 0
    BY <1>1
  <2> QED
    BY <1>3, <2>1
<1>5. h[1] = [yielded |-> yielded \o buffer, buffer |-> <<Cells(lines[1])>>]
  <2>1. StartsRecord(lines[1], f)
    BY FilesAre, FileAssumption DEF StartsRecord, Lines
  <2> QED
    BY <1>4, <2>1 DEF ReadLine
<1>6. CASE ~(f = "EN" /\ Style[u] = "split")
  <2>1. m = 1 /\ Cells(lines[1]) = Joined(u, v, f)
    <3>1. CASE f = "HD"
      BY <3>1 DEF Lines, Cells, Joined
    <3>2. CASE f = "EN" /\ Style[u] = "plain"
      BY <3>2 DEF Lines, Cells, Joined
    <3>3. CASE f = "EN" /\ Style[u] = "delimited"
      BY <3>3 DEF Lines, Cells, Joined
    <3> QED
      BY <1>6, <3>1, <3>2, <3>3, FilesAre, FileAssumption
  <2> HIDE DEF st, lines, m
  <2> QED
    BY <1>2, <1>5, <2>1 DEF st, lines
<1>7. CASE f = "EN" /\ Style[u] = "split"
  <2>1. lines = << <<"EN", u, Call[u], v>>, <<Blank>>, <<Rest, Frn[u]>> >>
    BY <1>7 DEF Lines
  <2>2. Cells(lines[1]) = << <<"EN">>, <<u>>, <<Call[u]>>, <<v>> >>
    BY <2>1 DEF Cells
  <2>3. m = 3 /\ lines[2] = <<Blank>> /\ lines[3] = <<Rest, Frn[u]>>
    BY <2>1
  <2>4. h[2] = ReadLine(h[1], <<Blank>>, f) /\ h[3] = ReadLine(h[2], <<Rest, Frn[u]>>, f)
    <3> HIDE DEF st, lines, m
    <3>1. 2 \in 1..m /\ 3 \in 1..m /\ 2 - 1 = 1 /\ 3 - 1 = 2
      BY <2>3
    <3> QED
      BY <1>3, <2>3, <3>1
  <2>5. ~StartsRecord(<<Blank>>, f) /\ ~StartsRecord(<<Rest, Frn[u]>>, f)
    BY FileAssumption DEF StartsRecord
  <2>6. PICK c1 : c1 = << <<"EN">>, <<u>>, <<Call[u]>>, <<v>> >>
    OBVIOUS
  <2>7. PICK c2 : c2 = << <<"EN">>, <<u>>, <<Call[u]>>, <<v, Blank>> >>
    OBVIOUS
  <2>8. Continue(c1, <<Blank>>) = c2
    BY <2>6, <2>7, CellContinued
  <2>9. Continue(c2, <<Rest, Frn[u]>>) = Joined(u, v, f)
    <3>1. Joined(u, v, f) = << <<"EN">>, <<u>>, <<Call[u]>>, <<v, Blank, Rest>>, <<Frn[u]>> >>
      BY <1>7 DEF Joined
    <3>2. Continue(<< <<"EN">>, <<u>>, <<Call[u]>>, <<v, Blank>> >>, <<Rest, Frn[u]>>)
            = << <<"EN">>, <<u>>, <<Call[u]>>, <<v, Blank, Rest>>, <<Frn[u]>> >>
      BY CellEnded
    <3> QED
      BY <2>7, <3>1, <3>2, Zenon
  <2> HIDE DEF st, lines, m
  <2>10. h[1] = [yielded |-> yielded \o buffer, buffer |-> <<c1>>]
    BY <1>5, <2>2, <2>6
  <2>11. h[2] = [yielded |-> yielded \o buffer, buffer |-> <<c2>>]
    <3>1. h[2] = [h[1] EXCEPT !.buffer = <<Continue(h[1].buffer[1], <<Blank>>)>>]
      BY <2>4, <2>5, <2>10 DEF ReadLine
    <3>2. h[1].buffer[1] = c1
      BY <2>10
    <3>3. h[2] = [[yielded |-> yielded \o buffer, buffer |-> <<c1>>] EXCEPT !.buffer = <<c2>>]
      BY <2>8, <2>10, <3>1, <3>2, Zenon
    <3> QED
      BY <3>3, BufferReplaced, Zenon
  <2>12. h[3] = [yielded |-> yielded \o buffer, buffer |-> <<Joined(u, v, f)>>]
    <3>1. h[3] = [h[2] EXCEPT !.buffer = <<Continue(h[2].buffer[1], <<Rest, Frn[u]>>)>>]
      BY <2>4, <2>5, <2>11 DEF ReadLine
    <3>2. h[2].buffer[1] = c2
      BY <2>11
    <3>3. h[3] = [[yielded |-> yielded \o buffer, buffer |-> <<c2>>] EXCEPT !.buffer = <<Joined(u, v, f)>>]
      BY <2>9, <2>11, <3>1, <3>2, Zenon
    <3> QED
      BY <3>3, BufferReplaced, Zenon
  <2> QED
    BY <1>2, <2>3, <2>12 DEF st, lines
<1> QED
  BY <1>6, <1>7


\* The newest version up to a day is a day the licence was touched, the last one.
LEMMA NewestVersion ==
  ASSUME NEW u \in Keys, NEW d \in Nat, d <= Len(Touched)
  PROVE  /\ Version(u, d) \in 0..d
         /\ Version(u, d) > 0 => u \in Touched[Version(u, d)]
         /\ \A e \in 1..d : u \in Touched[e] => e <= Version(u, d)
<1> DEFINE hits == {e \in 1..d : u \in Touched[e]}
<1>1. CASE hits = {}
  <2>1. Version(u, d) = 0
    BY <1>1 DEF Version
  <2> QED
    BY <1>1, <2>1
<1>2. CASE hits # {}
  <2>1. hits \in SUBSET (1..d)
    OBVIOUS
  <2>2. Reading!Top(hits) \in hits /\ \A e \in hits : Reading!Top(hits) >= e
    <3> HIDE DEF hits
    <3> QED
      BY <1>2, <2>1, Reading!TopIsMember
  <2>3. Reading!Top(hits) = Max(hits)
    BY DEF Reading!Top, Max
  <2>4. Version(u, d) = Max(hits)
    BY <1>2 DEF Version
  <2>5. Version(u, d) \in hits /\ \A e \in hits : Version(u, d) >= e
    <3> HIDE DEF hits
    <3> QED
      BY <2>2, <2>3, <2>4, Zenon
  <2> QED
    BY <2>5
<1> QED
  BY <1>1, <1>2


\* SetToSeq lists a finite set, each member once.
LEMMA Listed ==
  ASSUME NEW S, IsFiniteSet(S)
  PROVE  /\ Cardinality(S) \in Nat
         /\ SetToSeq(S) \in [1..Cardinality(S) -> S]
         /\ \A i, j \in 1..Cardinality(S) : SetToSeq(S)[i] = SetToSeq(S)[j] => i = j
         /\ \A x \in S : \E i \in 1..Cardinality(S) : SetToSeq(S)[i] = x
<1>1. Cardinality(S) \in Nat /\ ExistsBijection(1..Cardinality(S), S)
  BY FS_CardinalityType
<1>2. PICK b : b \in Bijection(1..Cardinality(S), S)
  BY <1>1 DEF ExistsBijection
<1>3. b \in [1..Cardinality(S) -> S] /\ IsInjective(b)
  BY <1>2 DEF Bijection, Injection, IsInjective
<1>4. SetToSeq(S) \in [1..Cardinality(S) -> S] /\ IsInjective(SetToSeq(S))
  BY <1>3 DEF SetToSeq
<1>5. SetToSeq(S) \in Surjection(1..Cardinality(S), S)
  <2>1. SetToSeq(S) \in Injection(1..Cardinality(S), S)
    BY <1>4 DEF Injection, IsInjective
  <2>2. Cardinality(1..Cardinality(S)) = Cardinality(S)
    BY <1>1, FS_Interval
  <2> QED
    BY <2>1, <2>2, FS_Injection
<1> QED
  BY <1>1, <1>4, <1>5 DEF IsInjective, Surjection

-----------------------------------------------------------------------------
LineSet(f) == {Lines(u, v, f)[j] : u \in Keys, v \in Days, j \in 1..3}

LEMMA LinesAreLines ==
  ASSUME NEW u \in Keys, NEW v \in Days, NEW f \in ToSet(Files)
  PROVE  Lines(u, v, f) \in Seq(LineSet(f))
<1>1. CASE f = "HD"
  <2>1. Lines(u, v, f) = << <<"HD", u, Call[u], Status(u, v), v>> >>
    BY <1>1 DEF Lines
  <2>2. \A i \in 1..1 : i \in 1..3 /\ Lines(u, v, f)[i] \in LineSet(f)
    BY DEF LineSet
  <2>3. <<"HD", u, Call[u], Status(u, v), v>> \in LineSet(f)
    <3>1. Lines(u, v, f)[1] \in LineSet(f)
      BY <2>2
    <3> QED
      BY <2>1, <3>1
  <2> QED
    BY <2>1, <2>3
<1>2. CASE f = "EN" /\ Style[u] = "plain"
  <2>1. Lines(u, v, f) = << <<"EN", u, Call[u], v, Frn[u]>> >>
    BY <1>2 DEF Lines
  <2>2. Lines(u, v, f)[1] \in LineSet(f)
    BY DEF LineSet
  <2> QED
    BY <2>1, <2>2
<1>3. CASE f = "EN" /\ Style[u] = "split"
  <2>1. Lines(u, v, f) = << <<"EN", u, Call[u], v>>, <<Blank>>, <<Rest, Frn[u]>> >>
    BY <1>3 DEF Lines
  <2>2. Lines(u, v, f)[1] \in LineSet(f) /\ Lines(u, v, f)[2] \in LineSet(f) /\ Lines(u, v, f)[3] \in LineSet(f)
    BY DEF LineSet
  <2> QED
    BY <2>1, <2>2
<1>4. CASE f = "EN" /\ Style[u] = "delimited"
  <2>1. Lines(u, v, f) = << <<"EN", u, Call[u], v, Rest, Frn[u]>> >>
    BY <1>4 DEF Lines
  <2>2. Lines(u, v, f)[1] \in LineSet(f)
    BY DEF LineSet
  <2> QED
    BY <2>1, <2>2
<1> QED
  BY <1>1, <1>2, <1>3, <1>4, FilesAre, FileAssumption


\* What a sequence of joined lines becomes with one more.
LEMMA OneMore ==
  ASSUME NEW J, NEW m \in Nat \ {0}, NEW y, y = [k \in 1..(m - 1) |-> J[k]]
  PROVE  y \o <<J[m]>> = [k \in 1..m |-> J[k]]
<1>0. PICK i \in Nat : i = m - 1 /\ m = i + 1
  BY m - 1 \in Nat
<1> DEFINE S == {J[k] : k \in 1..(i + 1)}
           s == [k \in 1..i |-> J[k]]
           t == [k \in 1..(i + 1) |-> J[k]]
<1>1. s \in Seq(S) /\ t \in Seq(S) /\ <<J[i + 1]>> \in Seq(S)
  OBVIOUS
<1>2. Len(s) = i /\ Len(t) = i + 1 /\ Len(<<J[i + 1]>>) = 1
  OBVIOUS
<1>3. /\ s \o <<J[i + 1]>> \in Seq(S)
      /\ Len(s \o <<J[i + 1]>>) = i + 1
      /\ \A k \in 1..(i + 1) : (s \o <<J[i + 1]>>)[k] = IF k <= i THEN s[k] ELSE <<J[i + 1]>>[k - i]
  <2> HIDE DEF s, t, S
  <2> QED
    BY <1>1, <1>2, ConcatProperties
<1>4. ASSUME NEW k \in 1..(i + 1)
      PROVE  (s \o <<J[i + 1]>>)[k] = t[k]
  <2>1. CASE k <= i
    BY <1>3, <2>1
  <2>2. CASE k = i + 1
    BY <1>3, <2>2
  <2> QED
    BY <2>1, <2>2
<1> HIDE DEF s, t, S
<1>5. s \o <<J[i + 1]>> = t
  BY <1>1, <1>2, <1>3, <1>4, SeqEqual
<1>6. s = y
  BY <1>0 DEF s
<1> QED
  BY <1>0, <1>5, <1>6 DEF t


\* Reading a file yields each record once, whole, in order.
LEMMA FileRead ==
  ASSUME NEW us \in SUBSET Keys, NEW d \in Days, NEW f \in ToSet(Files),
         \A u \in us : Version(u, d) \in Days,
         NEW n \in Nat, n = Cardinality(us),
         NEW J, J = [k \in 1..n |-> Joined(SetToSeq(us)[k], Version(SetToSeq(us)[k], d), f)]
  PROVE  LogicalLines(FileOf(us, d, f), f) = J
<1> DEFINE S == SetToSeq(us)
           L(i) == Lines(S[i], Version(S[i], d), f)
           Set == LineSet(f)
           init == [yielded |-> <<>>, buffer |-> <<>>]
           After(i) == IF i = 0 THEN init
                       ELSE [yielded |-> [k \in 1..(i - 1) |-> J[k]], buffer |-> <<J[i]>>]
<1>1. S \in [1..n -> us] /\ DOMAIN S = 1..n
  <2>1. IsFiniteSet(us)
    BY FileAssumption, FS_Subset
  <2>2. Cardinality(us) \in Nat /\ SetToSeq(us) \in [1..Cardinality(us) -> us]
    BY <2>1, Listed
  <2> QED
    BY <2>2
<1>2. \A i \in 1..n : S[i] \in Keys /\ Version(S[i], d) \in Days
  BY <1>1
<1>3. PICK g : Writing!Runs(g, <<d, f>>, <<>>, S, n) /\ Writing!Folded(<<d, f>>, <<>>, S) = g[n]
  <2> HIDE DEF S
  <2> QED
    BY <1>1, Writing!FoldedSteps
<1>4. FileOf(us, d, f) = g[n]
  BY <1>3, FoldOfWriting, Zenon DEF FileOf
<1>5. g[0] = <<>> /\ \A i \in 1..n : g[i] = g[i - 1] \o L(i)
  BY <1>3 DEF Writing!Runs, WriteRecord
<1>6. \A i \in 1..n : L(i) \in Seq(Set)
  BY <1>2, LinesAreLines
<1>7. \A i \in 1..n : \A y, b : Reading!Folded(f, [yielded |-> y, buffer |-> b], L(i))
                              = [yielded |-> y \o b, buffer |-> <<J[i]>>]
  BY <1>2, RecordRead
<1> DEFINE P == {i \in 0..n : g[i] \in Seq(Set) /\ Reading!Folded(f, init, g[i]) = After(i)}
<1>8. 0 \in P
  <2>1. PICK h : Reading!Runs(h, f, init, <<>>, 0) /\ Reading!Folded(f, init, <<>>) = h[0]
    <3>1. DOMAIN <<>> = 1..0 /\ 0 \in Nat
      OBVIOUS
    <3> HIDE DEF init
    <3> QED
      BY <3>1, Reading!FoldedSteps
  <2>2. h[0] = init
    BY <2>1 DEF Reading!Runs
  <2>3. Reading!Folded(f, init, g[0]) = init
    BY <1>5, <2>1, <2>2
  <2>4. g[0] \in Seq(Set)
    BY <1>5
  <2> QED
    BY <2>3, <2>4
<1>9. ASSUME NEW i \in 0..(n - 1), i \in P
      PROVE  i + 1 \in P
  <2>1. i + 1 \in 1..n /\ (i + 1) - 1 = i /\ i + 1 \in 0..n /\ i \in Nat
    OBVIOUS
  <2>2. PICK l : l = L(i + 1)
    OBVIOUS
  <2>3. PICK w : w = g[i + 1]
    OBVIOUS
  <2>4. PICK s : s = g[i]
    OBVIOUS
  <2>5. w = s \o l
    BY <1>5, <2>1, <2>2, <2>3, <2>4
  <2>6. s \in Seq(Set) /\ l \in Seq(Set)
    BY <1>6, <1>9, <2>1, <2>2, <2>4
  <2>7. /\ w \in Seq(Set) /\ Len(w) = Len(s) + Len(l)
        /\ Len(s) \in Nat /\ Len(l) \in Nat
        /\ DOMAIN s = 1..Len(s) /\ DOMAIN l = 1..Len(l) /\ DOMAIN w = 1..(Len(s) + Len(l))
        /\ \A j \in 1..Len(s) : w[j] = s[j]
        /\ \A j \in 1..Len(l) : w[Len(s) + j] = l[j]
    <3> HIDE DEF Set
    <3>1. /\ w \in Seq(Set) /\ Len(w) = Len(s) + Len(l)
          /\ \A j \in 1..Len(s) + Len(l) : w[j] = IF j <= Len(s) THEN s[j] ELSE l[j - Len(s)]
      BY <2>5, <2>6, ConcatProperties
    <3>2. /\ Len(s) \in Nat /\ Len(l) \in Nat
          /\ DOMAIN s = 1..Len(s) /\ DOMAIN l = 1..Len(l) /\ DOMAIN w = 1..Len(w)
      BY <2>6, <3>1
    <3> QED
      BY <3>1, <3>2
  <2>8. Reading!Folded(f, init, w) = Reading!Folded(f, Reading!Folded(f, init, s), l)
    <3>1. PICK m \in Nat : m = Len(s)
      BY <2>7
    <3>2. PICK r \in Nat : r = Len(l)
      BY <2>7
    <3>3. Reading!Joins(w, s, l, m, r)
      BY <2>7, <3>1, <3>2 DEF Reading!Joins
    <3> HIDE DEF init
    <3> QED
      BY <3>3, Reading!FoldedConcat
  <2>9. Reading!Folded(f, init, s) = After(i)
    BY <1>9, <2>4
  <2>10. Reading!Folded(f, After(i), l) = After(i + 1)
    <3>1. CASE i = 0
      <4>1. Reading!Folded(f, init, l) = [yielded |-> <<>> \o <<>>, buffer |-> <<J[i + 1]>>]
        BY <1>7, <2>1, <2>2
      <4>2. <<>> \o <<>> = [k \in 1..0 |-> J[k]]
        OBVIOUS
      <4> QED
        BY <3>1, <4>1, <4>2
    <3>2. CASE i # 0
      <4>1. PICK y : y = [k \in 1..(i - 1) |-> J[k]]
        OBVIOUS
      <4>2. Reading!Folded(f, [yielded |-> y, buffer |-> <<J[i]>>], l)
              = [yielded |-> y \o <<J[i]>>, buffer |-> <<J[i + 1]>>]
        BY <1>7, <2>1, <2>2
      <4>3. y \o <<J[i]>> = [k \in 1..i |-> J[k]]
        <5>1. i \in Nat \ {0}
          BY <2>1, <3>2
        <5>2. PICK m \in Nat \ {0} : m = i
          BY <5>1
        <5>3. PICK K : K = J
          OBVIOUS
        <5>4. y = [k \in 1..(m - 1) |-> K[k]]
          BY <4>1, <5>2, <5>3
        <5>5. y \o <<K[m]>> = [k \in 1..m |-> K[k]]
          BY <5>4, OneMore
        <5> QED
          BY <5>2, <5>3, <5>5
      <4>4. After(i) = [yielded |-> y, buffer |-> <<J[i]>>]
        BY <3>2, <4>1
      <4>5. After(i + 1) = [yielded |-> [k \in 1..i |-> J[k]], buffer |-> <<J[i + 1]>>]
        <5>1. i + 1 # 0 /\ (i + 1) - 1 = i
          BY <2>1
        <5> QED
          BY <5>1
      <4> QED
        BY <4>2, <4>3, <4>4, <4>5, Zenon
    <3> QED
      BY <3>1, <3>2
  <2>11. Reading!Folded(f, init, w) = After(i + 1)
    BY <2>8, <2>9, <2>10, Zenon
  <2> QED
    BY <2>1, <2>3, <2>7, <2>11
<1>10. Reading!Folded(f, init, g[n]) = After(n)
  <2> HIDE DEF P
  <2>1. \A i \in 0..n : i \in P
    BY <1>8, <1>9, Reading!BoundedInduction
  <2>2. n \in P
    BY <2>1
  <2> QED
    BY <2>2 DEF P
<1>11. LogicalLines(FileOf(us, d, f), f) = After(n).yielded \o After(n).buffer
  <2>1. LogicalLines(FileOf(us, d, f), f)
          = LET st == Reading!Folded(f, init, FileOf(us, d, f)) IN st.yielded \o st.buffer
    BY FoldOfReading, Zenon DEF LogicalLines
  <2> QED
    BY <1>4, <1>10, <2>1, Zenon
<1>12. CASE n = 0
  BY <1>11, <1>12
<1>13. CASE n # 0
  <2>1. PICK m \in Nat \ {0} : m = n
    BY <1>13
  <2>4. PICK y : y = [k \in 1..(n - 1) |-> J[k]]
    OBVIOUS
  <2>2. y \o <<J[n]>> = J
    <3>1. y = [k \in 1..(m - 1) |-> J[k]]
      BY <2>1, <2>4
    <3>2. PICK K : K = J
      OBVIOUS
    <3>3. y = [k \in 1..(m - 1) |-> K[k]]
      BY <3>1, <3>2
    <3>4. y \o <<K[m]>> = [k \in 1..m |-> K[k]]
      BY <3>3, OneMore
    <3>5. J = [k \in 1..n |-> J[k]]
      OBVIOUS
    <3> QED
      BY <2>1, <3>2, <3>4, <3>5, Zenon
  <2>3. After(n).yielded \o After(n).buffer = y \o <<J[n]>>
    BY <1>13, <2>4
  <2> QED
    BY <1>11, <2>2, <2>3
<1> QED
  BY <1>12, <1>13


\* parse_dat_file yields one row for each record of the file.
LEMMA FileParsed ==
  ASSUME NEW us \in SUBSET Keys, NEW d \in Days, NEW f \in ToSet(Files),
         \A u \in us : Version(u, d) \in Days
  PROVE  Parsed(FileOf(us, d, f), f)
           = [i \in 1..Cardinality(us) |-> Kept(SetToSeq(us)[i], Version(SetToSeq(us)[i], d), f)]
<1>1. PICK n : n = Cardinality(us)
  OBVIOUS
<1>2. PICK S : S = SetToSeq(us)
  OBVIOUS
<1>3. n \in Nat /\ S \in [1..n -> us]
  <2>1. IsFiniteSet(us)
    BY FileAssumption, FS_Subset
  <2> QED
    BY <1>1, <1>2, <2>1, Listed
<1>4. PICK J : J = [k \in 1..n |-> Joined(S[k], Version(S[k], d), f)]
  OBVIOUS
<1>5. LogicalLines(FileOf(us, d, f), f) = J
  BY <1>1, <1>2, <1>3, <1>4, FileRead
<1>6. Len(J) = n
  BY <1>3, <1>4
<1>7. Parsed(FileOf(us, d, f), f) = [i \in 1..n |-> RowOf(J[i], Schema[f])]
  BY <1>5, <1>6 DEF Parsed, ParseDatFile
<1>8. ASSUME NEW i \in 1..n
      PROVE  RowOf(J[i], Schema[f]) = Kept(S[i], Version(S[i], d), f)
  <2>1. S[i] \in Keys /\ Version(S[i], d) \in Days
    BY <1>3
  <2>2. J[i] = Joined(S[i], Version(S[i], d), f)
    BY <1>4
  <2> QED
    BY <2>1, <2>2, RowKept
<1>9. Parsed(FileOf(us, d, f), f) = [i \in 1..n |-> Kept(S[i], Version(S[i], d), f)]
  BY <1>7, <1>8
<1> QED
  BY <1>1, <1>2, <1>9

-----------------------------------------------------------------------------
(* What a load does to a table                                             *)

\* The i-th row is the one that belongs to the licence listed i-th.
RowsFor(rows, S, R, n) ==
  /\ S \in [1..n -> Keys]
  /\ DOMAIN rows = 1..n
  /\ \A i \in 1..n : rows[i] = R[S[i]] /\ rows[i].usi = <<S[i]>>

\* The table after the first i rows.
With(T, S, R, i) == [u \in Keys |-> IF \E k \in 1..i : S[k] = u THEN R[u] ELSE T[u]]

LEMMA OneRowStored ==
  ASSUME NEW T, NEW S, NEW R, NEW rows, NEW n \in Nat, RowsFor(rows, S, R, n), NEW i \in 1..n
  PROVE  Upsert(With(T, S, R, i - 1), rows[i], "usi") = With(T, S, R, i)
<1>1. S[i] \in Keys /\ rows[i] = R[S[i]] /\ rows[i].usi[1] = S[i]
  BY DEF RowsFor
<1>2. Upsert(With(T, S, R, i - 1), rows[i], "usi") = [With(T, S, R, i - 1) EXCEPT ![S[i]] = R[S[i]]]
  BY <1>1 DEF Upsert
<1>3. ASSUME NEW u \in Keys
      PROVE  [With(T, S, R, i - 1) EXCEPT ![S[i]] = R[S[i]]][u] = With(T, S, R, i)[u]
  <2>1. CASE u = S[i]
    BY <1>1, <2>1 DEF With
  <2>2. CASE u # S[i]
    <3>1. (\E k \in 1..i : S[k] = u) <=> (\E k \in 1..(i - 1) : S[k] = u)
      <4>1. \A k \in 1..i : S[k] = u => k \in 1..(i - 1)
        BY <2>2
      <4> QED
        BY <4>1
    <3> QED
      BY <1>1, <2>2, <3>1 DEF With
  <2> QED
    BY <2>1, <2>2
<1> QED
  BY <1>2, <1>3 DEF With

LEMMA AppendOne ==
  ASSUME NEW J, NEW m \in Nat \ {0}, NEW y, y = [k \in 1..(m - 1) |-> J[k]]
  PROVE  Append(y, J[m]) = [k \in 1..m |-> J[k]] /\ Len(Append(y, J[m])) = m
<1> DEFINE S == {J[k] : k \in 1..m}
<1>1. y \in Seq(S) /\ J[m] \in S
  OBVIOUS
<1>2. Append(y, J[m]) = y \o <<J[m]>>
  <2> HIDE DEF S
  <2> QED
    BY <1>1, AppendIsConcat
<1>3. y \o <<J[m]>> = [k \in 1..m |-> J[k]]
  BY OneMore
<1> QED
  BY <1>2, <1>3

\* executemany of the rows after the a-th and up to the i-th.
LEMMA BatchStored ==
  ASSUME NEW T, NEW S, NEW R, NEW rows, NEW n \in Nat, RowsFor(rows, S, R, n),
         NEW a \in 0..n, NEW i \in a..n, NEW batch, batch = [k \in 1..(i - a) |-> rows[a + k]]
  PROVE  Storing!Folded("usi", With(T, S, R, a), batch) = With(T, S, R, i)
<1>1. i - a \in Nat /\ DOMAIN batch = 1..(i - a)
  OBVIOUS
<1>2. PICK m \in Nat : m = i - a
  BY <1>1
<1>3. PICK h : Storing!Runs(h, "usi", With(T, S, R, a), batch, m)
               /\ Storing!Folded("usi", With(T, S, R, a), batch) = h[m]
  <2>1. PICK w : w = batch
    OBVIOUS
  <2>2. DOMAIN w = 1..m
    BY <1>1, <1>2, <2>1
  <2>3. PICK t : t = With(T, S, R, a)
    OBVIOUS
  <2>4. \E h : Storing!Runs(h, "usi", t, w, m) /\ Storing!Folded("usi", t, w) = h[m]
    BY <2>2, Storing!FoldedSteps
  <2> QED
    BY <2>1, <2>3, <2>4, Zenon
<1>4. h[0] = With(T, S, R, a) /\ \A k \in 1..m : h[k] = Upsert(h[k - 1], batch[k], "usi")
  BY <1>3 DEF Storing!Runs
<1> DEFINE P == {k \in 0..m : h[k] = With(T, S, R, a + k)}
<1>5. 0 \in P
  BY <1>4
<1>6. ASSUME NEW k \in 0..(m - 1), k \in P
      PROVE  k + 1 \in P
  <2>1. PICK b \in 1..n : b = a + (k + 1) /\ b - 1 = a + k
    BY <1>2
  <2>2. k + 1 \in 1..m /\ (k + 1) - 1 = k /\ batch[k + 1] = rows[b]
    BY <1>2, <2>1
  <2>3. h[k + 1] = Upsert(h[k], rows[b], "usi")
    BY <1>4, <2>2
  <2>4. h[k] = With(T, S, R, b - 1)
    BY <1>6, <2>1
  <2>5. h[k + 1] = With(T, S, R, b)
    BY <2>3, <2>4, OneRowStored
  <2> QED
    BY <2>1, <2>2, <2>5
<1>7. h[m] = With(T, S, R, a + m)
  <2> HIDE DEF P
  <2>1. \A k \in 0..m : k \in P
    BY <1>5, <1>6, Reading!BoundedInduction
  <2> QED
    BY <2>1 DEF P
<1> QED
  BY <1>2, <1>3, <1>7


\* Some of the rows are in the table and the others wait in the batch.
Waiting(st, T, S, R, rows, i) ==
  \E a \in 0..i : \E c : st = [table |-> With(T, S, R, a), count |-> c, batch |-> [k \in 1..(i - a) |-> rows[a + k]]]

LEMMA BatchSent ==
  ASSUME NEW T, NEW S, NEW R, NEW rows, NEW n \in Nat, RowsFor(rows, S, R, n), NEW i \in 0..n,
         NEW st, Waiting(st, T, S, R, rows, i)
  PROVE  /\ ExecuteMany(st, "usi").table = With(T, S, R, i)
         /\ Waiting(ExecuteMany(st, "usi"), T, S, R, rows, i)
<1>1. PICK a, c :
        a \in 0..i /\ st = [table |-> With(T, S, R, a), count |-> c, batch |-> [k \in 1..(i - a) |-> rows[a + k]]]
  BY DEF Waiting
<1>2. a \in 0..n /\ i \in a..n
  <2>1. a \in 0..i
    BY <1>1
  <2> QED
    BY <2>1
<1>3. st.table = With(T, S, R, a) /\ st.batch = [k \in 1..(i - a) |-> rows[a + k]]
  BY <1>1
<1>4. Storing!Folded("usi", With(T, S, R, a), st.batch) = With(T, S, R, i)
  BY <1>2, <1>3, BatchStored
<1>5. FoldLeft(LAMBDA t, r : Upsert(t, r, "usi"), st.table, st.batch)
        = Storing!Folded("usi", st.table, st.batch)
  BY FoldOfStoring
<1>6. ExecuteMany(st, "usi")
        = [table |-> Storing!Folded("usi", st.table, st.batch), count |-> st.count + Len(st.batch),
           batch |-> <<>>]
  BY <1>5, Zenon DEF ExecuteMany
<1>7. ExecuteMany(st, "usi")
        = [table |-> With(T, S, R, i), count |-> st.count + Len(st.batch), batch |-> <<>>]
  BY <1>3, <1>4, <1>6, Zenon
<1>8. <<>> = [k \in 1..(i - i) |-> rows[i + k]] /\ i \in 0..i
  OBVIOUS
<1>9. Waiting(ExecuteMany(st, "usi"), T, S, R, rows, i)
  BY <1>7, <1>8, Zenon DEF Waiting
<1> QED
  BY <1>7, <1>9

LEMMA BatchReplaced ==
  ASSUME NEW g, NEW w, NEW c, NEW y, NEW z, NEW full,
         g = [table |-> w, count |-> c, batch |-> y], full = [g EXCEPT !.batch = z]
  PROVE  full = [table |-> w, count |-> c, batch |-> z]
  OBVIOUS

\* upsert_rows_batch stores every row, whatever the size of a batch.
LEMMA BatchesStoreAll ==
  ASSUME NEW T, NEW S, NEW R, NEW rows, NEW n \in Nat, RowsFor(rows, S, R, n), DOMAIN T = Keys,
         T = [u \in Keys |-> T[u]]
  PROVE  UpsertBatch(T, rows, "usi").table = With(T, S, R, n)
<1> DEFINE start == [table |-> T, count |-> 0, batch |-> <<>>]
<1>1. PICK read : read = Taking!Folded("usi", start, rows)
  OBVIOUS
<1>2. UpsertBatch(T, rows, "usi") = IF read.batch # <<>> THEN ExecuteMany(read, "usi") ELSE read
  BY <1>1, BatchOfTaking, Zenon
<1>3. DOMAIN rows = 1..n
  BY DEF RowsFor
<1>4. PICK h : Taking!Runs(h, "usi", start, rows, n) /\ read = h[n]
  <2> HIDE DEF start
  <2>1. \E h : Taking!Runs(h, "usi", start, rows, n) /\ Taking!Folded("usi", start, rows) = h[n]
    BY <1>3, Taking!FoldedSteps
  <2> QED
    BY <1>1, <2>1
<1>5. h[0] = start /\ \A i \in 1..n : h[i] = TakeRow(h[i - 1], rows[i], "usi")
  BY <1>4 DEF Taking!Runs
<1> DEFINE P == {i \in 0..n : Waiting(h[i], T, S, R, rows, i)}
<1>6. 0 \in P
  <2>1. With(T, S, R, 0) = T
    BY DEF With
  <2>2. <<>> = [k \in 1..(0 - 0) |-> rows[0 + k]] /\ 0 \in 0..0
    OBVIOUS
  <2>3. Waiting(start, T, S, R, rows, 0)
    BY <2>1, <2>2, Zenon DEF Waiting
  <2> QED
    BY <1>5, <2>3
<1>7. ASSUME NEW i \in 0..(n - 1), i \in P
      PROVE  i + 1 \in P
  <2>1. i + 1 \in 0..n /\ i + 1 \in 1..n /\ (i + 1) - 1 = i
    OBVIOUS
  <2>2. PICK a, c :
          a \in 0..i /\ h[i] = [table |-> With(T, S, R, a), count |-> c, batch |-> [k \in 1..(i - a) |-> rows[a + k]]]
    BY <1>7 DEF Waiting
  <2>3. h[i + 1] = TakeRow(h[i], rows[i + 1], "usi")
    BY <1>5, <2>1
  <2>4. PICK full : full = [h[i] EXCEPT !.batch = Append(@, rows[i + 1])]
    OBVIOUS
  <2>5. Append([k \in 1..(i - a) |-> rows[a + k]], rows[i + 1]) = [k \in 1..((i + 1) - a) |-> rows[a + k]]
    <3>1. PICK m \in Nat \ {0} : m = (i + 1) - a
      <4>1. a \in 0..i
        BY <2>2
      <4>2. (i + 1) - a \in Nat \ {0}
        BY <4>1, <2>1
      <4> QED
        BY <4>2
    <3>2. PICK J : J = [k \in 1..m |-> rows[a + k]]
      OBVIOUS
    <3>3. PICK y : y = [k \in 1..(i - a) |-> rows[a + k]]
      OBVIOUS
    <3>4. y = [k \in 1..(m - 1) |-> J[k]] /\ J[m] = rows[i + 1] /\ J = [k \in 1..m |-> J[k]]
      <4>1. a \in 0..i /\ m - 1 = i - a
        <5>1. a \in 0..i
          BY <2>2
        <5> QED
          BY <5>1, <3>1
      <4> QED
        BY <3>1, <3>2, <3>3, <4>1
    <3>5. PICK K : K = J
      OBVIOUS
    <3>6. y = [k \in 1..(m - 1) |-> K[k]]
      BY <3>4, <3>5
    <3>7. Append(y, K[m]) = [k \in 1..m |-> K[k]]
      BY <3>6, AppendOne
    <3>8. Append(y, rows[i + 1]) = J
      BY <3>4, <3>5, <3>7, Zenon
    <3> QED
      BY <3>1, <3>2, <3>3, <3>8, Zenon
  <2>6. full = [table |-> With(T, S, R, a), count |-> c, batch |-> [k \in 1..((i + 1) - a) |-> rows[a + k]]]
    <3>1. PICK y, z : y = [k \in 1..(i - a) |-> rows[a + k]] /\ z = [k \in 1..((i + 1) - a) |-> rows[a + k]]
      OBVIOUS
    <3>2. Append(y, rows[i + 1]) = z
      BY <2>5, <3>1, Zenon
    <3>3. h[i] = [table |-> With(T, S, R, a), count |-> c, batch |-> y]
      BY <2>2, <3>1, Zenon
    <3>4. full = [h[i] EXCEPT !.batch = z]
      <4>1. h[i].batch = y
        BY <3>3
      <4> QED
        BY <2>4, <3>2, <4>1, Zenon
    <3>5. full = [table |-> With(T, S, R, a), count |-> c, batch |-> z]
      <4>1. PICK w, g : w = With(T, S, R, a) /\ g = h[i]
        OBVIOUS
      <4>2. g = [table |-> w, count |-> c, batch |-> y]
        BY <3>3, <4>1
      <4>3. full = [g EXCEPT !.batch = z]
        BY <3>4, <4>1, Zenon
      <4>4. full = [table |-> w, count |-> c, batch |-> z]
        BY <4>2, <4>3, BatchReplaced
      <4> QED
        BY <4>1, <4>4, Zenon
    <3> QED
      BY <3>1, <3>5, Zenon
  <2>7. Waiting(full, T, S, R, rows, i + 1)
    <3>1. a \in 0..(i + 1)
      <4>1. a \in 0..i
        BY <2>2
      <4> QED
        BY <4>1
    <3> QED
      BY <2>6, <3>1, Zenon DEF Waiting
  <2>8. h[i + 1] = full \/ h[i + 1] = ExecuteMany(full, "usi")
    BY <2>3, <2>4, Zenon DEF TakeRow
  <2>9. Waiting(ExecuteMany(full, "usi"), T, S, R, rows, i + 1)
    BY <2>1, <2>7, BatchSent
  <2>10. Waiting(h[i + 1], T, S, R, rows, i + 1)
    BY <2>7, <2>8, <2>9, Zenon
  <2> QED
    BY <2>1, <2>10
<1>8. Waiting(read, T, S, R, rows, n)
  <2> HIDE DEF P
  <2>1. \A i \in 0..n : i \in P
    BY <1>6, <1>7, Reading!BoundedInduction
  <2>2. n \in P
    BY <2>1
  <2> QED
    BY <1>4, <2>2, Zenon DEF P
<1>9. CASE read.batch # <<>>
  <2>1. ExecuteMany(read, "usi").table = With(T, S, R, n)
    BY <1>8, BatchSent
  <2> QED
    BY <1>2, <1>9, <2>1
<1>10. CASE read.batch = <<>>
  <2>1. PICK a, c :
          a \in 0..n /\ read = [table |-> With(T, S, R, a), count |-> c, batch |-> [k \in 1..(n - a) |-> rows[a + k]]]
    BY <1>8 DEF Waiting
  <2>2. a = n
    <3>1. SUFFICES ASSUME a # n
                   PROVE  FALSE
      OBVIOUS
    <3>2. DOMAIN read.batch = 1..(n - a) /\ 1 \in 1..(n - a)
      BY <2>1, <3>1
    <3>3. DOMAIN <<>> = {}
      OBVIOUS
    <3> QED
      BY <1>10, <3>2, <3>3
  <2>3. read.table = With(T, S, R, n)
    BY <2>1, <2>2
  <2> QED
    BY <1>2, <1>10, <2>3
<1> QED
  BY <1>9, <1>10

\* ingest_file with diffs stores every row, and each row's events are decided
\* against the table as the rows before it left it.
LEMMA RowsIngested ==
  ASSUME NEW T, NEW S, NEW R, NEW rows, NEW n \in Nat, RowsFor(rows, S, R, n),
         T = [u \in Keys |-> T[u]], NEW f, NEW d, NEW p, p = <<f, d, Informed(d)>>
  PROVE  /\ IngestRows(T, rows, f, d).table = With(T, S, R, n)
         /\ IngestRows(T, rows, f, d).events
              = UNION {RowEvents(With(T, S, R, i - 1), rows[i], p) : i \in 1..n}
<1> DEFINE start == [table |-> T, events |-> {}]
           all(i) == UNION {RowEvents(With(T, S, R, k - 1), rows[k], p) : k \in 1..i}
<1>1. PICK st : st = Ingesting!Folded(p, start, rows)
  OBVIOUS
<1>2. IngestRows(T, rows, f, d) = st
  BY <1>1, FoldOfIngesting
<1>3. DOMAIN rows = 1..n
  BY DEF RowsFor
<1>4. PICK h : Ingesting!Runs(h, p, start, rows, n) /\ st = h[n]
  <2> HIDE DEF start
  <2>1. \E h : Ingesting!Runs(h, p, start, rows, n) /\ Ingesting!Folded(p, start, rows) = h[n]
    BY <1>3, Ingesting!FoldedSteps
  <2> QED
    BY <1>1, <2>1
<1>5. h[0] = start /\ \A i \in 1..n : h[i] = IngestAs(h[i - 1], rows[i], p)
  BY <1>4 DEF Ingesting!Runs
<1> DEFINE P == {i \in 0..n : h[i] = [table |-> With(T, S, R, i), events |-> all(i)]}
<1>6. 0 \in P
  <2>1. With(T, S, R, 0) = T
    BY DEF With
  <2>2. all(0) = {}
    OBVIOUS
  <2>3. h[0] = [table |-> With(T, S, R, 0), events |-> all(0)]
    BY <1>5, <2>1, <2>2, Zenon
  <2> HIDE DEF all
  <2> QED
    BY <2>3
<1>7. ASSUME NEW i \in 0..(n - 1), i \in P
      PROVE  i + 1 \in P
  <2>1. PICK j \in 1..n : j = i + 1 /\ j - 1 = i
    OBVIOUS
  <2>2. h[j] = IngestAs(h[i], rows[j], p)
    BY <1>5, <2>1
  <2>3. h[i].table = With(T, S, R, i) /\ h[i].events = all(i)
    BY <1>7
  <2>4. h[j] = [table |-> Upsert(With(T, S, R, i), rows[j], "usi"),
                events |-> all(i) \cup RowEvents(With(T, S, R, i), rows[j], p)]
    BY <2>2, <2>3, Zenon DEF IngestAs
  <2>5. Upsert(With(T, S, R, i), rows[j], "usi") = With(T, S, R, j)
    BY <2>1, OneRowStored
  <2>6. all(i) \cup RowEvents(With(T, S, R, i), rows[j], p) = all(j)
    <3>1. \A k : k \in 1..j <=> k \in 1..i \/ k = j
      BY <2>1
    <3> QED
      BY <2>1, <3>1
  <2>7. h[j] = [table |-> With(T, S, R, j), events |-> all(j)]
    BY <2>4, <2>5, <2>6, Zenon
  <2>8. j \in 0..n
    BY <2>1
  <2> QED
    BY <2>1, <2>7, <2>8
<1>8. n \in P
  <2> HIDE DEF P
  <2>1. \A i \in 0..n : i \in P
    BY <1>6, <1>7, Reading!BoundedInduction
  <2> QED
    BY <2>1
<1> QED
  BY <1>2, <1>4, <1>8

-----------------------------------------------------------------------------
(* The events of one daily file                                            *)

FrnOf(u) == IF Style[u] = "delimited" THEN <<Rest>> ELSE <<Frn[u]>>
Change(u, c, p) ==
  [key |-> u, subject |-> <<Call[u]>>, field |-> c, frn |-> None,
   isNew |-> FALSE, day |-> p[2], file |-> p[1], informed |-> p[3]]
Grant(u, new, p) ==
  [key |-> u, subject |-> <<Call[u]>>, field |-> "license_granted", frn |-> FrnOf(u),
   isNew |-> new, day |-> p[2], file |-> p[1], informed |-> p[3]]

\* A table of rows as the parser makes them.
IsTable(T, f) ==
  /\ T = [u \in Keys |-> T[u]]
  /\ \A u \in Keys : T[u] = None \/ \E v \in Days : T[u] = Kept(u, v, f)

\* The file of day d has one row for each licence, in some order.
IsDayFile(S, R, rows, n, d, f) ==
  /\ d \in Days /\ f \in ToSet(Files)
  /\ n \in Nat /\ S \in [1..n -> Touched[d]]
  /\ \A i, j \in 1..n : S[i] = S[j] => i = j
  /\ \A u \in Touched[d] : \E i \in 1..n : S[i] = u
  /\ R = [u \in Keys |-> Kept(u, d, f)]
  /\ rows = [i \in 1..n |-> Kept(S[i], d, f)]

LEMMA FrnKept ==
  ASSUME NEW u \in Keys, NEW v \in Days
  PROVE  Kept(u, v, "EN").frn = FrnOf(u) /\ FrnOf(u) \in FrnCell /\ FrnOf(u) # None
<1>1. Kept(u, v, "EN").frn = FrnOf(u) /\ FrnOf(u) \in FrnCell
  BY DEF Kept, Meant, FrnOf, FrnCell
<1> QED
  BY <1>1, FileAssumption

LEMMA TouchedAreKeys ==
  ASSUME NEW d \in Days
  PROVE  Touched[d] \subseteq Keys /\ IsFiniteSet(Touched[d])
<1>1. Touched[d] \subseteq Keys
  BY FileAssumption DEF Days
<1> QED
  BY <1>1, FileAssumption, FS_Subset

LEMMA DayFileHasRows ==
  ASSUME NEW S, NEW R, NEW rows, NEW n, NEW d, NEW f, IsDayFile(S, R, rows, n, d, f)
  PROVE  RowsFor(rows, S, R, n)
<1>1. S \in [1..n -> Keys] /\ DOMAIN rows = 1..n
  BY TouchedAreKeys DEF IsDayFile
<1>2. ASSUME NEW i \in 1..n
      PROVE  rows[i] = R[S[i]] /\ rows[i].usi = <<S[i]>>
  <2>1. S[i] \in Keys /\ d \in Days /\ f \in ToSet(Files)
    BY <1>1 DEF IsDayFile
  <2>2. rows[i] = Kept(S[i], d, f) /\ R[S[i]] = Kept(S[i], d, f)
    BY <2>1 DEF IsDayFile
  <2> QED
    BY <2>1, <2>2, KeptIsRow
<1> QED
  BY <1>1, <1>2 DEF RowsFor

\* Whose rows are in the table when the i-th row's turn comes.
LEMMA PriorLicenses ==
  ASSUME NEW S, NEW R, NEW rows, NEW n, NEW d, NEW T, IsDayFile(S, R, rows, n, d, "EN"),
         IsTable(T, "EN"), NEW i \in 1..n, NEW c
  PROVE  HasPriorLicense(With(T, S, R, i - 1), c)
           <=> HasPriorLicense(T, c) \/ \E k \in 1..(i - 1) : FrnOf(S[k]) = c
<1> DEFINE Ti == With(T, S, R, i - 1)
<1>1. ASSUME NEW u \in Keys
      PROVE  /\ (\E k \in 1..(i - 1) : S[k] = u) => Ti[u] = R[u]
             /\ (~ \E k \in 1..(i - 1) : S[k] = u) => Ti[u] = T[u]
             /\ R[u] # None /\ R[u].frn = FrnOf(u)
             /\ T[u] # None => T[u].frn = FrnOf(u)
  <2>1. R[u] = Kept(u, d, "EN") /\ d \in Days /\ "EN" \in ToSet(Files)
    BY DEF IsDayFile
  <2>2. R[u] # None /\ R[u].frn = FrnOf(u)
    BY <2>1, KeptIsRow, FrnKept
  <2>3. T[u] # None => T[u].frn = FrnOf(u)
    BY FrnKept DEF IsTable
  <2> QED
    BY <2>2, <2>3 DEF With
<1>2. \A k \in 1..(i - 1) : k \in 1..n /\ S[k] \in Keys
  <2>1. S \in [1..n -> Keys]
    BY DayFileHasRows DEF RowsFor
  <2>2. n \in Nat
    BY DEF IsDayFile
  <2> QED
    BY <2>1, <2>2
<1> HIDE DEF Ti
<1>3. ASSUME HasPriorLicense(Ti, c)
      PROVE  HasPriorLicense(T, c) \/ \E k \in 1..(i - 1) : FrnOf(S[k]) = c
  <2>1. PICK u \in Keys : Ti[u] # None /\ Ti[u].frn = c
    BY <1>3 DEF HasPriorLicense
  <2> QED
    BY <1>1, <2>1 DEF HasPriorLicense
<1>4. ASSUME HasPriorLicense(T, c)
      PROVE  HasPriorLicense(Ti, c)
  <2>1. PICK u \in Keys : T[u] # None /\ T[u].frn = c
    BY <1>4 DEF HasPriorLicense
  <2> QED
    BY <1>1, <2>1 DEF HasPriorLicense
<1>5. ASSUME NEW k \in 1..(i - 1), FrnOf(S[k]) = c
      PROVE  HasPriorLicense(Ti, c)
  <2>1. Ti[S[k]] # None /\ Ti[S[k]].frn = c
    BY <1>1, <1>2, <1>5
  <2> QED
    BY <1>2, <2>1 DEF HasPriorLicense
<1> QED
  BY <1>3, <1>4, <1>5 DEF Ti

\* The events of u's row, given whether its licensee had another one.
OfRow(T, R, u, prior, f, p) ==
  IF T[u] # None THEN {Change(u, c, p) : c \in DiffRows(T[u], R[u])}
  ELSE IF f = "EN" THEN {Grant(u, ~prior, p)}
  ELSE {}

\* Each row is compared with the one the table had before the file.
LEMMA EventsOfARow ==
  ASSUME NEW S, NEW R, NEW rows, NEW n, NEW d, NEW f, NEW T, IsDayFile(S, R, rows, n, d, f),
         IsTable(T, f), NEW i \in 1..n, NEW p, p[1] = f
  PROVE  RowEvents(With(T, S, R, i - 1), rows[i], p)
           = OfRow(T, R, S[i], HasPriorLicense(With(T, S, R, i - 1), FrnOf(S[i])), f, p)
<1>1. S[i] \in Keys /\ rows[i] = R[S[i]] /\ rows[i].usi[1] = S[i]
  <2>1. RowsFor(rows, S, R, n)
    BY DayFileHasRows
  <2>2. S[i] \in Keys /\ rows[i] = R[S[i]] /\ rows[i].usi = <<S[i]>>
    BY <2>1 DEF RowsFor
  <2> QED
    BY <2>2
<1>2. R[S[i]] = Kept(S[i], d, f) /\ d \in Days /\ f \in ToSet(Files)
  BY <1>1 DEF IsDayFile
<1>3. rows[i].call_sign = <<Call[S[i]]>>
  BY <1>1, <1>2, KeptIsRow
<1>4. f = "EN" => rows[i].frn = FrnOf(S[i]) /\ FrnOf(S[i]) # None
  BY <1>1, <1>2, FrnKept
<1>5. PICK Ti : Ti = With(T, S, R, i - 1)
  OBVIOUS
<1>6. Ti[S[i]] = T[S[i]]
  <2>1. \A k \in 1..(i - 1) : S[k] # S[i]
    BY DEF IsDayFile
  <2> QED
    BY <1>1, <1>5, <2>1 DEF With
<1>7. CASE T[S[i]] # None
  BY <1>1, <1>3, <1>5, <1>6, <1>7 DEF RowEvents, Change, OfRow
<1>8. CASE T[S[i]] = None
  BY <1>1, <1>3, <1>4, <1>5, <1>6, <1>8 DEF RowEvents, Grant, OfRow
<1> QED
  BY <1>7, <1>8

LEMMA ColumnsAre ==
  /\ ToSet(Schema["HD"]) = {"record_type", "usi", "call_sign", "status", "text"}
  /\ ToSet(Schema["EN"]) = {"record_type", "usi", "call_sign", "text", "frn"}
<1>1. \A a, b, c, d, e : ToSet(<<a, b, c, d, e>>) = {a, b, c, d, e}
  <2> TAKE a, b, c, d, e
  <2>1. \A i \in 1..5 : i = 1 \/ i = 2 \/ i = 3 \/ i = 4 \/ i = 5
    OBVIOUS
  <2>2. {<<a, b, c, d, e>>[i] : i \in 1..5} = {a, b, c, d, e}
    BY <2>1
  <2>3. DOMAIN <<a, b, c, d, e>> = 1..5
    OBVIOUS
  <2> QED
    BY <2>2, <2>3 DEF ToSet
<1> QED
  BY <1>1 DEF Schema

LEMMA FiveAreFinite ==
  ASSUME NEW a, NEW b, NEW c, NEW d, NEW e
  PROVE  IsFiniteSet({a, b, c, d, e})
<1>1. IsFiniteSet({a})
  BY FS_Singleton
<1>2. IsFiniteSet({a} \cup {b})
  BY <1>1, FS_AddElement
<1>3. IsFiniteSet(({a} \cup {b}) \cup {c})
  BY <1>2, FS_AddElement
<1>4. IsFiniteSet((({a} \cup {b}) \cup {c}) \cup {d})
  BY <1>3, FS_AddElement
<1>5. IsFiniteSet(((({a} \cup {b}) \cup {c}) \cup {d}) \cup {e})
  BY <1>4, FS_AddElement
<1>6. ((({a} \cup {b}) \cup {c}) \cup {d}) \cup {e} = {a, b, c, d, e}
  OBVIOUS
<1> QED
  BY <1>5, <1>6

\* What the events of a daily file say: a licence without a row is granted, once, and
\* of a licensee whom the table did not have, exactly one grant is the first.
DayEvents(new, T, d, f, w) ==
  /\ IsFiniteSet(new)
  /\ new \subseteq Event
  /\ \A e \in new :
       /\ e.key \in Touched[d] /\ e.subject = <<Call[e.key]>>
       /\ e.day = d /\ e.file = f /\ e.informed = w
       /\ T[e.key] # None =>
            e.field \in ToSet(Schema[f]) /\ e.field # "license_granted" /\ ~e.isNew
            /\ T[e.key] # Kept(e.key, d, f)
       /\ T[e.key] = None => e.field = "license_granted" /\ f = "EN" /\ e.frn = FrnOf(e.key)
       /\ e.isNew => ~HasPriorLicense(T, e.frn)
       /\ T[e.key] = None => HasPriorLicense(T, e.frn) \/ \E g \in new : g.isNew /\ g.frn = e.frn
  /\ \A e, g \in new : T[e.key] = None /\ T[g.key] = None /\ e # g =>
       e.key # g.key /\ ~(e.isNew /\ g.isNew /\ e.frn = g.frn)

LEMMA DayEventsAre ==
  ASSUME NEW S, NEW R, NEW rows, NEW n, NEW d, NEW f, NEW T, IsDayFile(S, R, rows, n, d, f),
         IsTable(T, f), NEW w \in BOOLEAN, NEW p, p[1] = f /\ p[2] = d /\ p[3] = w,
         NEW new, new = UNION {RowEvents(With(T, S, R, i - 1), rows[i], p) : i \in 1..n}
  PROVE  DayEvents(new, T, d, f, w)
<1> DEFINE prior(i) == HasPriorLicense(With(T, S, R, i - 1), FrnOf(S[i]))
           Ev(i) == OfRow(T, R, S[i], prior(i), f, p)
<1>0. p[1] = f /\ p[2] = d /\ p[3] = w
  OBVIOUS
<1>1. new = UNION {Ev(i) : i \in 1..n}
  <2>1. ASSUME NEW i \in 1..n
        PROVE  RowEvents(With(T, S, R, i - 1), rows[i], p) = Ev(i)
    <3>1. RowEvents(With(T, S, R, i - 1), rows[i], p)
            = OfRow(T, R, S[i], HasPriorLicense(With(T, S, R, i - 1), FrnOf(S[i])), f, p)
      BY EventsOfARow
    <3> QED
      BY <3>1, Zenon
  <2> HIDE DEF Ev
  <2> QED
    BY <2>1
<1>2. n \in Nat /\ d \in Days /\ f \in ToSet(Files)
  BY DEF IsDayFile
<1>3. ASSUME NEW i \in 1..n
      PROVE  /\ S[i] \in Touched[d] /\ S[i] \in Keys
             /\ R[S[i]] = Kept(S[i], d, f)
             /\ DOMAIN R[S[i]] \subseteq ToSet(Schema[f])
             /\ "license_granted" \notin ToSet(Schema[f])
             /\ IsFiniteSet(DOMAIN R[S[i]])
  <2>1. S[i] \in Touched[d] /\ S[i] \in Keys
    BY <1>2, TouchedAreKeys DEF IsDayFile
  <2>2. R[S[i]] = Kept(S[i], d, f)
    BY <2>1 DEF IsDayFile
  <2>3. R[S[i]] \in RowsOf(f)
    BY <1>2, <2>1, <2>2, KeptIsRow
  <2>4. DOMAIN R[S[i]] \subseteq ToSet(Schema[f]) /\ "license_granted" \notin ToSet(Schema[f])
    <3>1. CASE f = "HD"
      BY <2>3, <3>1, ColumnsAre DEF RowsOf
    <3>2. CASE f = "EN"
      BY <2>3, <3>2, ColumnsAre DEF RowsOf
    <3> QED
      BY <1>2, <3>1, <3>2, FilesAre
  <2>5. IsFiniteSet(DOMAIN R[S[i]])
    <3>1. DOMAIN R[S[i]] \in {{"usi", "call_sign", "status", "text"}, {"usi", "call_sign", "text", "frn"}}
      BY <1>2, <2>3, FilesAre DEF RowsOf
    <3>2. IsFiniteSet(ToSet(Schema[f]))
      <4>1. IsFiniteSet(ToSet(Schema["HD"])) /\ IsFiniteSet(ToSet(Schema["EN"]))
        <5>1. /\ IsFiniteSet({"record_type", "usi", "call_sign", "status", "text"})
              /\ IsFiniteSet({"record_type", "usi", "call_sign", "text", "frn"})
          BY FiveAreFinite
        <5> QED
          BY <5>1, ColumnsAre
      <4> QED
        BY <1>2, <4>1, FilesAre
    <3> QED
      BY <2>4, <3>2, FS_Subset
  <2> QED
    BY <2>1, <2>2, <2>4, <2>5
<1>4. ASSUME NEW i \in 1..n, NEW e \in Ev(i)
      PROVE  \/ /\ T[S[i]] # None
                /\ \E c \in ToSet(Schema[f]) : e = Change(S[i], c, p)
                /\ T[S[i]] # R[S[i]]
             \/ /\ T[S[i]] = None /\ f = "EN"
                /\ e = Grant(S[i], ~prior(i), p)
  <2> HIDE DEF prior
  <2>1. CASE T[S[i]] # None
    <3>1. PICK c \in DiffRows(T[S[i]], R[S[i]]) : e = Change(S[i], c, p)
      BY <1>4, <2>1 DEF OfRow
    <3>2. c \in DOMAIN R[S[i]] /\ T[S[i]][c] # R[S[i]][c]
      BY <2>1, <3>1 DEF DiffRows
    <3> QED
      BY <1>3, <2>1, <3>1, <3>2
  <2>2. CASE T[S[i]] = None
    BY <1>4, <2>2 DEF OfRow
  <2> QED
    BY <2>1, <2>2
<1>5. IsFiniteSet(new)
  <2>1. ASSUME NEW i \in 1..n
        PROVE  IsFiniteSet(Ev(i))
    <3>1. CASE T[S[i]] # None
      <4>1. IsFiniteSet(DiffRows(T[S[i]], R[S[i]]))
        <5>1. DiffRows(T[S[i]], R[S[i]]) \in SUBSET DOMAIN R[S[i]]
          BY DEF DiffRows
        <5> QED
          BY <1>3, <5>1, FS_Subset
      <4> DEFINE g == [c \in DiffRows(T[S[i]], R[S[i]]) |-> Change(S[i], c, p)]
      <4>2. g \in Surjection(DiffRows(T[S[i]], R[S[i]]), Ev(i))
        BY <3>1 DEF Surjection, OfRow
      <4> HIDE DEF g
      <4> QED
        BY <4>1, <4>2, FS_Surjection
    <3>2. CASE T[S[i]] = None
      BY <3>2, FS_Singleton, FS_EmptySet DEF OfRow
    <3> QED
      BY <3>1, <3>2
  <2> HIDE DEF Ev
  <2>2. IsFiniteSet({Ev(i) : i \in 1..n})
    <3> DEFINE g == [i \in 1..n |-> Ev(i)]
               Es == {Ev(i) : i \in 1..n}
    <3>1. g \in Surjection(1..n, Es)
      BY DEF Surjection
    <3>2. IsFiniteSet(1..n)
      BY <1>2, FS_Interval
    <3> HIDE DEF g, Es
    <3>3. IsFiniteSet(Es)
      BY <3>1, <3>2, FS_Surjection
    <3> QED
      BY <3>3 DEF Es
  <2>3. \A E \in {Ev(i) : i \in 1..n} : IsFiniteSet(E)
    BY <2>1
  <2>4. IsFiniteSet(UNION {Ev(i) : i \in 1..n})
    <3> DEFINE Es == {Ev(i) : i \in 1..n}
    <3>1. IsFiniteSet(Es) /\ \A E \in Es : IsFiniteSet(E)
      BY <2>2, <2>3
    <3> HIDE DEF Es
    <3>2. IsFiniteSet(UNION Es)
      BY <3>1, FS_UNION
    <3> QED
      BY <3>2 DEF Es
  <2> QED
    BY <1>1, <2>4
<1>6. ASSUME NEW e \in new
      PROVE  \E i \in 1..n :
               /\ e.key = S[i] /\ S[i] \in Touched[d] /\ e.subject = <<Call[S[i]]>>
               /\ e.day = d /\ e.file = f /\ e.informed = w
               /\ e \in Event
               /\ T[S[i]] # None =>
                    e.field \in ToSet(Schema[f]) /\ e.field # "license_granted" /\ ~e.isNew
                    /\ T[S[i]] # Kept(S[i], d, f)
               /\ T[S[i]] = None => f = "EN" /\ e = Grant(S[i], ~prior(i), p)
  <2>1. PICK i \in 1..n : e \in Ev(i)
    <3> HIDE DEF Ev
    <3> QED
      BY <1>1, <1>6
  <2> HIDE DEF prior, Ev
  <2>2. <<Call[S[i]]>> \in CallCell /\ S[i] \in Keys
    BY <1>3 DEF CallCell
  <2>3. ToSet(Schema[f]) \subseteq ToSet(Schema["HD"]) \cup ToSet(Schema["EN"])
    BY <1>2, FilesAre
  <2>4. CASE T[S[i]] # None
    <3>1. PICK c \in ToSet(Schema[f]) : e = Change(S[i], c, p)
      BY <1>4, <2>1, <2>4
    <3>2. e = [key |-> S[i], subject |-> <<Call[S[i]]>>, field |-> c, frn |-> None,
               isNew |-> FALSE, day |-> d, file |-> f, informed |-> w]
      BY <1>0, <3>1 DEF Change
    <3>3. e \in Event
      BY <1>2, <2>2, <2>3, <3>2 DEF Event
    <3>4. T[S[i]] # Kept(S[i], d, f)
      BY <1>3, <1>4, <2>1, <2>4
    <3> QED
      BY <1>3, <2>4, <3>2, <3>3, <3>4
  <2>5. CASE T[S[i]] = None
    <3>1. f = "EN" /\ e = Grant(S[i], ~prior(i), p)
      BY <1>4, <2>1, <2>5
    <3>2. prior(i) \in BOOLEAN
      BY DEF prior, HasPriorLicense
    <3>3. FrnOf(S[i]) \in FrnCell
      BY <1>2, <2>2, FrnKept
    <3>4. e = [key |-> S[i], subject |-> <<Call[S[i]]>>, field |-> "license_granted", frn |-> FrnOf(S[i]),
               isNew |-> ~prior(i), day |-> d, file |-> f, informed |-> w]
      BY <1>0, <3>1 DEF Grant
    <3>5. e \in Event
      BY <1>2, <2>2, <3>2, <3>3, <3>4 DEF Event
    <3> QED
      BY <1>3, <2>5, <3>1, <3>4, <3>5
  <2> QED
    BY <2>4, <2>5
<1>7. ASSUME NEW i \in 1..n
      PROVE  /\ Grant(S[i], ~prior(i), p).frn = FrnOf(S[i])
             /\ Grant(S[i], ~prior(i), p).isNew <=> ~prior(i)
  <2>1. PICK b : b = ~prior(i)
    OBVIOUS
  <2>2. Grant(S[i], b, p).isNew = b /\ Grant(S[i], b, p).frn = FrnOf(S[i])
    BY DEF Grant
  <2> HIDE DEF prior
  <2> QED
    BY <2>1, <2>2, Zenon
<1>8. ASSUME f = "EN", NEW i \in 1..n
      PROVE  prior(i) <=> HasPriorLicense(T, FrnOf(S[i]))
                           \/ \E k \in 1..(i - 1) : FrnOf(S[k]) = FrnOf(S[i])
  BY <1>8, PriorLicenses
<1>9. ASSUME NEW i \in 1..n, T[S[i]] = None, f = "EN"
      PROVE  Grant(S[i], ~prior(i), p) \in new
  <2>1. Grant(S[i], ~prior(i), p) \in Ev(i)
    BY <1>9 DEF OfRow
  <2> HIDE DEF Ev
  <2> QED
    BY <1>1, <2>1
<1> HIDE DEF prior, Ev
<1>10. ASSUME NEW e \in new, e.isNew
       PROVE  ~HasPriorLicense(T, e.frn)
  <2>1. PICK i \in 1..n : T[S[i]] = None /\ f = "EN" /\ e = Grant(S[i], ~prior(i), p)
    BY <1>6, <1>10
  <2>2. e.frn = FrnOf(S[i]) /\ ~prior(i)
    BY <1>7, <1>10, <2>1, Zenon
  <2> QED
    BY <1>8, <2>1, <2>2
<1>11. ASSUME NEW e \in new, T[e.key] = None, ~HasPriorLicense(T, e.frn)
       PROVE  \E g \in new : g.isNew /\ g.frn = e.frn
  <2>1. PICK i \in 1..n : f = "EN" /\ e = Grant(S[i], ~prior(i), p) /\ e.key = S[i]
    BY <1>6, <1>11
  <2>2. e.frn = FrnOf(S[i])
    BY <1>7, <2>1
  <2> DEFINE K == {k \in 1..n : FrnOf(S[k]) = FrnOf(S[i])}
  <2>3. PICK k \in K : \A j \in K : k <= j
    <3>1. K \subseteq Nat /\ i \in K
      OBVIOUS
    <3> HIDE DEF K
    <3> QED
      BY <3>1, Reading!LeastNatural
  <2>4. \A j \in 1..(k - 1) : FrnOf(S[j]) # FrnOf(S[k])
    <3>1. \A j \in 1..(k - 1) : j \in 1..n /\ j < k
      BY <1>2, <2>3
    <3> QED
      BY <2>3, <3>1
  <2>5. ~prior(k)
    BY <1>8, <1>11, <2>1, <2>2, <2>3, <2>4
  <2>6. T[S[k]] = None
    <3>1. SUFFICES ASSUME T[S[k]] # None
                   PROVE  HasPriorLicense(T, e.frn)
      BY <1>11
    <3>2. S[k] \in Keys
      BY <1>3, <2>3
    <3>3. PICK v \in Days : T[S[k]] = Kept(S[k], v, "EN")
      BY <2>1, <3>1, <3>2 DEF IsTable
    <3>4. T[S[k]].frn = FrnOf(S[k])
      BY <3>2, <3>3, FrnKept
    <3> QED
      BY <2>2, <2>3, <3>1, <3>2, <3>4 DEF HasPriorLicense
  <2>7. Grant(S[k], ~prior(k), p) \in new
    BY <1>9, <2>1, <2>3, <2>6
  <2>8. k \in 1..n /\ FrnOf(S[k]) = FrnOf(S[i])
    BY <2>3
  <2>9. Grant(S[k], ~prior(k), p).isNew /\ Grant(S[k], ~prior(k), p).frn = e.frn
    BY <1>7, <2>2, <2>5, <2>8, Zenon
  <2> QED
    BY <2>7, <2>9, Zenon
<1>12. ASSUME NEW e \in new, NEW g \in new, T[e.key] = None, T[g.key] = None, e # g
       PROVE  e.key # g.key /\ ~(e.isNew /\ g.isNew /\ e.frn = g.frn)
  <2>1. PICK i \in 1..n : f = "EN" /\ e = Grant(S[i], ~prior(i), p) /\ e.key = S[i]
    BY <1>6, <1>12
  <2>2. PICK j \in 1..n : f = "EN" /\ g = Grant(S[j], ~prior(j), p) /\ g.key = S[j]
    BY <1>6, <1>12
  <2>3. i # j
    BY <1>12, <2>1, <2>2
  <2>4. S[i] # S[j]
    BY <2>3 DEF IsDayFile
  <2>5. i \in 1..(j - 1) \/ j \in 1..(i - 1)
    BY <1>2, <2>3
  <2>6. FrnOf(S[i]) = FrnOf(S[j]) => prior(i) \/ prior(j)
    BY <1>8, <2>1, <2>5
  <2>7. e.frn = FrnOf(S[i]) /\ g.frn = FrnOf(S[j]) /\ (e.isNew <=> ~prior(i)) /\ (g.isNew <=> ~prior(j))
    BY <1>7, <2>1, <2>2, Zenon
  <2>8. e.key # g.key
    BY <2>1, <2>2, <2>4
  <2> QED
    BY <2>6, <2>7, <2>8, Zenon
<1>13. ASSUME NEW e \in new
       PROVE  /\ e.key \in Touched[d] /\ e.subject = <<Call[e.key]>>
              /\ e.day = d /\ e.file = f /\ e.informed = w
              /\ e \in Event
              /\ T[e.key] # None =>
                   e.field \in ToSet(Schema[f]) /\ e.field # "license_granted" /\ ~e.isNew
                   /\ T[e.key] # Kept(e.key, d, f)
              /\ T[e.key] = None => e.field = "license_granted" /\ f = "EN" /\ e.frn = FrnOf(e.key)
  <2>1. PICK i \in 1..n :
          /\ e.key = S[i] /\ S[i] \in Touched[d] /\ e.subject = <<Call[S[i]]>>
          /\ e.day = d /\ e.file = f /\ e.informed = w
          /\ e \in Event
          /\ T[S[i]] # None =>
               e.field \in ToSet(Schema[f]) /\ e.field # "license_granted" /\ ~e.isNew
               /\ T[S[i]] # Kept(S[i], d, f)
          /\ T[S[i]] = None => f = "EN" /\ e = Grant(S[i], ~prior(i), p)
    BY <1>6, Zenon
  <2>2. T[e.key] = None => f = "EN" /\ e.field = "license_granted" /\ e.frn = FrnOf(e.key)
    <3>1. PICK b : b = ~prior(i)
      OBVIOUS
    <3> QED
      BY <2>1, <3>1 DEF Grant
  <2> QED
    BY <2>1, <2>2, Zenon
<1>14. new \subseteq Event
  BY <1>13
<1> QED
  BY <1>5, <1>10, <1>11, <1>12, <1>13, <1>14, Zenon DEF DayEvents

-----------------------------------------------------------------------------
(* The two loads                                                           *)

DayTable(T, d, f) == [u \in Keys |-> IF u \in Touched[d] THEN Kept(u, d, f) ELSE T[u]]
DumpTable(T, cut, f) ==
  [u \in Keys |-> IF Version(u, cut) > 0 THEN Kept(u, Version(u, cut), f) ELSE T[u]]

LEMMA TouchedNow ==
  ASSUME NEW d \in Days, NEW u \in Touched[d]
  PROVE  Version(u, d) = d
<1>1. u \in Keys
  BY TouchedAreKeys
<1>2. d \in Nat /\ d <= Len(Touched) /\ d \in 1..d
  BY DEF Days
<1>3. Version(u, d) \in 0..d /\ d <= Version(u, d)
  BY <1>1, <1>2, NewestVersion
<1> QED
  BY <1>2, <1>3

Replaced(T, us, R) == [u \in Keys |-> IF u \in us THEN R[u] ELSE T[u]]

\* A table all of whose listed rows have been stored.
LEMMA AllStored ==
  ASSUME NEW us, NEW T, NEW S, NEW R, NEW n, S \in [1..n -> us], us \subseteq Keys,
         \A u \in us : \E i \in 1..n : S[i] = u
  PROVE  With(T, S, R, n) = Replaced(T, us, R)
<1>1. ASSUME NEW u \in Keys
      PROVE  (\E k \in 1..n : S[k] = u) <=> u \in us
  OBVIOUS
<1> QED
  BY <1>1 DEF With, Replaced

\* A daily file stores FCC's newest rows of the licences touched on its day.
LEMMA DayLoaded ==
  ASSUME NEW d \in Days, NEW f \in ToSet(Files), NEW T, IsTable(T, f), NEW st,
         st = IngestRows(T, Parsed(DailyFile(d, f), f), f, d)
  PROVE  st.table = DayTable(T, d, f) /\ DayEvents(st.events, T, d, f, Informed(d))
<1>1. PICK us : us = Touched[d]
  OBVIOUS
<1>2. us \in SUBSET Keys /\ IsFiniteSet(us)
  BY <1>1, TouchedAreKeys
<1>3. PICK S : S = SetToSeq(us)
  OBVIOUS
<1>4. PICK n : n = Cardinality(us)
  OBVIOUS
<1>5. /\ n \in Nat /\ S \in [1..n -> us]
      /\ \A i, j \in 1..n : S[i] = S[j] => i = j
      /\ \A u \in us : \E i \in 1..n : S[i] = u
  BY <1>2, <1>3, <1>4, Listed
<1>6. PICK rows : rows = [i \in 1..n |-> Kept(S[i], d, f)]
  OBVIOUS
<1>7. PICK R : R = [u \in Keys |-> Kept(u, d, f)]
  OBVIOUS
<1>8. Parsed(DailyFile(d, f), f) = rows
  <2>1. \A u \in us : Version(u, d) = d
    BY <1>1, TouchedNow
  <2>2. Parsed(FileOf(us, d, f), f)
          = [i \in 1..Cardinality(us) |-> Kept(SetToSeq(us)[i], Version(SetToSeq(us)[i], d), f)]
    BY <1>2, <2>1, FileParsed
  <2>3. Parsed(FileOf(us, d, f), f) = [i \in 1..n |-> Kept(S[i], Version(S[i], d), f)]
    BY <1>3, <1>4, <2>2
  <2>4. [i \in 1..n |-> Kept(S[i], Version(S[i], d), f)] = rows
    BY <1>5, <1>6, <2>1
  <2> QED
    BY <1>1, <2>3, <2>4, Zenon DEF DailyFile
<1>9. IsDayFile(S, R, rows, n, d, f)
  BY <1>1, <1>5, <1>6, <1>7 DEF IsDayFile
<1>10. PICK w \in BOOLEAN : w = Informed(d)
  BY DEF Informed
<1>11. PICK p : p = <<f, d, Informed(d)>>
  OBVIOUS
<1>12. p[1] = f /\ p[2] = d /\ p[3] = w
  BY <1>10, <1>11
<1>13. /\ st.table = With(T, S, R, n)
       /\ st.events = UNION {RowEvents(With(T, S, R, i - 1), rows[i], p) : i \in 1..n}
  <2>1. RowsFor(rows, S, R, n)
    BY <1>9, DayFileHasRows
  <2>2. T = [u \in Keys |-> T[u]]
    BY DEF IsTable
  <2>3. /\ IngestRows(T, rows, f, d).table = With(T, S, R, n)
        /\ IngestRows(T, rows, f, d).events
             = UNION {RowEvents(With(T, S, R, i - 1), rows[i], p) : i \in 1..n}
    BY <1>5, <1>11, <2>1, <2>2, RowsIngested
  <2> QED
    BY <1>8, <2>3, Zenon
<1>14. PICK new : new = st.events
  OBVIOUS
<1>15. DayEvents(new, T, d, f, w)
  BY <1>9, <1>12, <1>13, <1>14, DayEventsAre
<1>16. With(T, S, R, n) = Replaced(T, us, R)
  BY <1>2, <1>5, AllStored
<1>17. st.table = DayTable(T, d, f)
  BY <1>1, <1>7, <1>13, <1>16 DEF DayTable, Replaced
<1> QED
  BY <1>10, <1>14, <1>15, <1>17, Zenon

\* A complete dump stores the newest row up to its cut of every licence granted by then.
LEMMA DumpLoaded ==
  ASSUME NEW cut \in Days, NEW f \in ToSet(Files), NEW T, IsTable(T, f)
  PROVE  UpsertBatch(T, Parsed(CompleteFile(cut, f), f), "usi").table = DumpTable(T, cut, f)
<1>1. PICK us : us = {u \in Keys : Version(u, cut) > 0}
  OBVIOUS
<1>2. us \in SUBSET Keys /\ IsFiniteSet(us)
  <2>1. us \in SUBSET Keys
    BY <1>1
  <2> QED
    BY <2>1, FileAssumption, FS_Subset
<1>3. PICK S : S = SetToSeq(us)
  OBVIOUS
<1>4. PICK n : n = Cardinality(us)
  OBVIOUS
<1>5. /\ n \in Nat /\ S \in [1..n -> us]
      /\ \A u \in us : \E i \in 1..n : S[i] = u
  BY <1>2, <1>3, <1>4, Listed
<1>6. PICK R : R = [u \in Keys |-> Kept(u, Version(u, cut), f)]
  OBVIOUS
<1>7. PICK rows : rows = [i \in 1..n |-> R[S[i]]]
  OBVIOUS
<1>8. \A u \in us : Version(u, cut) \in Days
  <2>1. cut \in Nat /\ cut <= Len(Touched) /\ Len(Touched) \in Nat
    BY FileAssumption DEF Days
  <2>2. \A u \in us : Version(u, cut) \in 0..cut /\ Version(u, cut) > 0
    BY <1>1, <2>1, NewestVersion
  <2> QED
    BY <2>1, <2>2 DEF Days
<1>9. Parsed(CompleteFile(cut, f), f) = rows
  <2>1. Parsed(FileOf(us, cut, f), f)
          = [i \in 1..Cardinality(us) |-> Kept(SetToSeq(us)[i], Version(SetToSeq(us)[i], cut), f)]
    BY <1>2, <1>8, FileParsed
  <2>2. Parsed(FileOf(us, cut, f), f) = [i \in 1..n |-> Kept(S[i], Version(S[i], cut), f)]
    BY <1>3, <1>4, <2>1
  <2>3. [i \in 1..n |-> Kept(S[i], Version(S[i], cut), f)] = rows
    <3>1. \A i \in 1..n : S[i] \in Keys
      BY <1>2, <1>5
    <3> QED
      BY <1>6, <1>7, <3>1
  <2> QED
    BY <1>1, <2>2, <2>3, Zenon DEF CompleteFile
<1>10. RowsFor(rows, S, R, n)
  <2>1. S \in [1..n -> Keys] /\ DOMAIN rows = 1..n
    BY <1>2, <1>5, <1>7
  <2>2. ASSUME NEW i \in 1..n
        PROVE  rows[i] = R[S[i]] /\ rows[i].usi = <<S[i]>>
    <3>1. S[i] \in Keys /\ Version(S[i], cut) \in Days
      BY <1>2, <1>5, <1>8
    <3>2. rows[i] = R[S[i]] /\ R[S[i]] = Kept(S[i], Version(S[i], cut), f)
      BY <1>6, <1>7, <3>1
    <3> QED
      BY <3>1, <3>2, KeptIsRow
  <2> QED
    BY <2>1, <2>2 DEF RowsFor
<1>11. UpsertBatch(T, rows, "usi").table = With(T, S, R, n)
  <2>1. T = [u \in Keys |-> T[u]] /\ DOMAIN T = Keys
    BY DEF IsTable
  <2> QED
    BY <1>5, <1>10, <2>1, BatchesStoreAll
<1>12. With(T, S, R, n) = Replaced(T, us, R)
  BY <1>2, <1>5, AllStored
<1>13. With(T, S, R, n) = DumpTable(T, cut, f)
  BY <1>1, <1>6, <1>12 DEF DumpTable, Replaced
<1> QED
  BY <1>9, <1>11, <1>13, Zenon

-----------------------------------------------------------------------------
(* What every variable holds, and the loads as steps of the state          *)

FccOK ==
  /\ today \in 2..(Len(Touched) + 1)
  /\ dump \in CutDays \cup {0} /\ dump < today
  /\ noticed \in CutDays \cup {0} /\ noticed <= dump
  /\ announced \in Seq(CutDays)

\* A row is the parser's of a day the licence was touched and FCC has published.
RowsOK ==
  /\ tables = [f \in ToSet(Files) |-> tables[f]]
  /\ \A f \in ToSet(Files) : IsTable(tables[f], f)
  /\ \A f \in ToSet(Files), u \in Keys : tables[f][u] # None =>
       \E v \in Days : v < today /\ u \in Touched[v] /\ tables[f][u] = Kept(u, v, f)

\* A day that is to be loaded is not recorded; only published files are loaded.
JobOK ==
  /\ job \in Job \cup {None}
  /\ job # None /\ job.kind = "daily" => \A d \in job.days : d < today /\ d \notin ingested
  /\ job # None /\ job.kind = "bootstrap" => job.cut < today

RestOK ==
  /\ events \subseteq Event /\ IsFiniteSet(events)
  /\ ingested \subseteq Days
  /\ views = Dropped \/ views \in [Keys -> FrnCell \cup {None}]
  /\ used \in [bootstraps : 0..MaxBootstraps, crashes : 0..MaxFaults, migrations : 0..MaxFaults]
  /\ base \in [ToSet(Files) -> CutDays \cup {0}]
  /\ since \in [ToSet(Files) -> 1..(Len(Touched) + 1)]
  /\ undone \in [ToSet(Files) -> SUBSET Days]

DataInv == FccOK /\ RowsOK /\ JobOK /\ RestOK

\* LoadDaily: the file f of day d, with the events it yields.
DailyStep(f, d, new) ==
  /\ job # None /\ job.kind = "daily"
  /\ \/ f = "HD" /\ job.files = Files /\ job' = [job EXCEPT !.files = <<"EN">>]
     \/ f = "EN" /\ job.files = <<"EN">> /\ job' = [job EXCEPT !.files = <<>>]
  /\ f \in ToSet(Files) /\ d \in Days /\ d \in job.days /\ \A e \in job.days : d <= e
  /\ d = Min(job.days)
  /\ tables' = [tables EXCEPT ![f] = DayTable(tables[f], d, f)]
  /\ events' = events \cup new
  /\ DayEvents(new, tables[f], d, f, Informed(d))
  /\ since' = [since EXCEPT ![f] = IF d < since[f] THEN d ELSE since[f]]

\* LoadComplete: the file f of the dump the job is about.
DumpStep(f, cut) ==
  /\ job # None /\ job.kind = "bootstrap" /\ cut = job.cut
  /\ \/ f = "HD" /\ job.files = Files /\ job' = [job EXCEPT !.files = <<"EN">>]
     \/ f = "EN" /\ job.files = <<"EN">> /\ job' = [job EXCEPT !.files = <<>>]
  /\ f \in ToSet(Files) /\ cut \in CutDays /\ cut \in Days
  /\ tables' = [tables EXCEPT ![f] = DumpTable(tables[f], cut, f)]
  /\ base' = [base EXCEPT ![f] = cut]
  /\ since' = [since EXCEPT ![f] = cut + 1]
  /\ undone' = [undone EXCEPT ![f] = {d \in ingested : d > cut}]

LEMMA FilesInOrder ==
  /\ Head(Files) = "HD" /\ Tail(Files) = <<"EN">>
  /\ Head(<<"EN">>) = "EN" /\ Tail(<<"EN">>) = <<>>
  /\ Files # <<>> /\ <<"EN">> # <<>> /\ Files # <<"EN">>
<1>1. Head(Files) = "HD" /\ Head(<<"EN">>) = "EN" /\ Len(Files) = 2 /\ Len(<<"EN">>) = 1 /\ Len(<<>>) = 0
  BY DEF Files
<1>2. Tail(Files) = <<"EN">>
  BY DEF Files
<1>3. Tail(<<"EN">>) = <<>>
  OBVIOUS
<1> QED
  BY <1>1, <1>2, <1>3

LEMMA Least ==
  ASSUME NEW S, S \subseteq Nat, S # {}
  PROVE  Min(S) \in S /\ \A y \in S : Min(S) <= y
<1>1. \E x \in S : \A y \in S : x <= y
  BY Reading!LeastNatural
<1> QED
  BY <1>1 DEF Min

LEMMA LeastOfTwo ==
  ASSUME NEW a \in Nat, NEW b \in Nat
  PROVE  Min({a, b}) = IF b < a THEN b ELSE a
<1>1. Min({a, b}) \in {a, b} /\ \A y \in {a, b} : Min({a, b}) <= y
  BY Least
<1> QED
  BY <1>1

LEMMA DaysAreNat == Days \subseteq Nat /\ Len(Touched) \in Nat /\ 0 \notin Days
BY FileAssumption DEF Days

LEMMA DailyEffect ==
  ASSUME DataInv, LoadDaily
  PROVE  \E f, d, new : DailyStep(f, d, new)
<1>1. PICK j : j = job
  OBVIOUS
<1>2. /\ j # None /\ j.kind = "daily" /\ j.days # {} /\ j.files # <<>>
      /\ job' = [j EXCEPT !.files = Tail(@)]
  BY <1>1 DEF LoadDaily
<1>3. j.days \subseteq Days /\ j.files \in {Files, <<"EN">>}
  <2>1. j \in Job
    BY <1>1, <1>2 DEF DataInv, JobOK
  <2>2. j.days \in SUBSET Days /\ j.files \in {Files, Tail(Files), <<>>}
    BY <2>1 DEF Job
  <2> QED
    BY <1>2, <2>2, FilesInOrder
<1>4. PICK d : d = Min(j.days)
  OBVIOUS
<1>5. d \in j.days /\ (\A e \in j.days : d <= e) /\ d \in Days
  BY <1>2, <1>3, <1>4, DaysAreNat, Least
<1>6. PICK f : f = Head(j.files)
  OBVIOUS
<1>7. f \in ToSet(Files)
  BY <1>3, <1>6, FilesAre, FilesInOrder
<1>8. PICK st : st = IngestRows(tables[f], Parsed(DailyFile(d, f), f), f, d)
  OBVIOUS
<1>9. /\ tables' = [tables EXCEPT ![f] = st.table]
      /\ events' = events \cup st.events
      /\ since' = [since EXCEPT ![f] = Min({@, d})]
  BY <1>1, <1>4, <1>6, <1>8 DEF LoadDaily
<1>10. st.table = DayTable(tables[f], d, f) /\ DayEvents(st.events, tables[f], d, f, Informed(d))
  <2>1. IsTable(tables[f], f)
    BY <1>7 DEF DataInv, RowsOK
  <2> QED
    BY <1>5, <1>7, <1>8, <2>1, DayLoaded
<1>11. since' = [since EXCEPT ![f] = IF d < since[f] THEN d ELSE since[f]]
  <2>1. since[f] \in Nat
    BY <1>7, DaysAreNat DEF DataInv, RestOK
  <2>2. Min({since[f], d}) = IF d < since[f] THEN d ELSE since[f]
    BY <1>5, <2>1, DaysAreNat, LeastOfTwo
  <2> QED
    BY <1>9, <2>2, Zenon
<1>12. \/ f = "HD" /\ job.files = Files /\ job' = [job EXCEPT !.files = <<"EN">>]
       \/ f = "EN" /\ job.files = <<"EN">> /\ job' = [job EXCEPT !.files = <<>>]
  <2>1. CASE j.files = Files
    <3>1. f = "HD" /\ Tail(j.files) = <<"EN">>
      BY <1>6, <2>1, FilesInOrder
    <3> QED
      BY <1>1, <1>2, <2>1, <3>1, Zenon
  <2>2. CASE j.files = <<"EN">>
    <3>1. f = "EN" /\ Tail(j.files) = <<>>
      BY <1>6, <2>2, FilesInOrder
    <3> QED
      BY <1>1, <1>2, <2>2, <3>1, Zenon
  <2> QED
    BY <1>3, <2>1, <2>2
<1>13. DailyStep(f, d, st.events)
  BY <1>1, <1>2, <1>4, <1>5, <1>7, <1>9, <1>10, <1>11, <1>12, Zenon DEF DailyStep
<1> QED
  BY <1>13, Zenon

LEMMA DumpEffect ==
  ASSUME DataInv, LoadComplete
  PROVE  \E f, cut : DumpStep(f, cut)
<1>1. PICK j : j = job
  OBVIOUS
<1>2. /\ j # None /\ j.kind = "bootstrap" /\ j.files # <<>>
      /\ job' = [j EXCEPT !.files = Tail(@)]
  BY <1>1 DEF LoadComplete
<1>3. j.cut \in CutDays /\ j.cut \in Days /\ j.files \in {Files, <<"EN">>}
  <2>1. j \in Job
    BY <1>1, <1>2 DEF DataInv, JobOK
  <2>2. j.cut \in CutDays /\ j.files \in {Files, Tail(Files), <<>>}
    BY <1>2, <2>1 DEF Job
  <2> QED
    BY <1>2, <2>2, FilesInOrder, LoadAssumption
<1>4. PICK f : f = Head(j.files)
  OBVIOUS
<1>5. f \in ToSet(Files)
  BY <1>3, <1>4, FilesAre, FilesInOrder
<1>6. /\ tables' = [tables EXCEPT ![f] = UpsertBatch(@, Parsed(CompleteFile(j.cut, f), f), "usi").table]
      /\ base' = [base EXCEPT ![f] = j.cut]
      /\ since' = [since EXCEPT ![f] = j.cut + 1]
      /\ undone' = [undone EXCEPT ![f] = {d \in ingested : d > j.cut}]
  BY <1>1, <1>4 DEF LoadComplete
<1>7. UpsertBatch(tables[f], Parsed(CompleteFile(j.cut, f), f), "usi").table = DumpTable(tables[f], j.cut, f)
  <2>1. IsTable(tables[f], f)
    BY <1>5 DEF DataInv, RowsOK
  <2> QED
    BY <1>3, <1>5, <2>1, DumpLoaded
<1>8. tables' = [tables EXCEPT ![f] = DumpTable(tables[f], j.cut, f)]
  BY <1>6, <1>7, Zenon
<1>9. \/ f = "HD" /\ job.files = Files /\ job' = [job EXCEPT !.files = <<"EN">>]
      \/ f = "EN" /\ job.files = <<"EN">> /\ job' = [job EXCEPT !.files = <<>>]
  <2>1. CASE j.files = Files
    <3>1. f = "HD" /\ Tail(j.files) = <<"EN">>
      BY <1>4, <2>1, FilesInOrder
    <3> QED
      BY <1>1, <1>2, <2>1, <3>1, Zenon
  <2>2. CASE j.files = <<"EN">>
    <3>1. f = "EN" /\ Tail(j.files) = <<>>
      BY <1>4, <2>2, FilesInOrder
    <3> QED
      BY <1>1, <1>2, <2>2, <3>1, Zenon
  <2> QED
    BY <1>3, <2>1, <2>2
<1>10. DumpStep(f, j.cut)
  BY <1>1, <1>2, <1>3, <1>5, <1>6, <1>8, <1>9, Zenon DEF DumpStep
<1> QED
  BY <1>10, Zenon

-----------------------------------------------------------------------------
(* What the variables hold, always                                         *)

\* The steps that load nothing.
LEMMA OtherLoads ==
  ASSUME Load
  PROVE  \/ LoadDaily \/ LoadComplete
         \/ UNCHANGED <<tables, events, base, since, undone>>
BY DEF Load, Tick, CutDump, BeginDaily, RecordDay, BeginBootstrap, RefreshViews, Crash, DropViews,
       CreateViews, CheckCompleteDumps, fcc, ghosts, watch

LEMMA DataInitially ==
  ASSUME Init
  PROVE  DataInv
<1> USE DEF Init, LoadInit
<1>1. FccOK
  BY FileAssumption DEF FccOK
<1>2. RowsOK
  <2>1. \A f \in ToSet(Files) : tables[f] = [u \in Keys |-> None]
    BY DEF PerFile
  <2>2. tables = [f \in ToSet(Files) |-> tables[f]]
    BY DEF PerFile
  <2> QED
    BY <2>1, <2>2 DEF RowsOK, IsTable
<1>3. JobOK
  BY DEF JobOK
<1>4. RestOK
  <2>1. views \in [Keys -> FrnCell \cup {None}]
    OBVIOUS
  <2>2. used \in [bootstraps : 0..MaxBootstraps, crashes : 0..MaxFaults, migrations : 0..MaxFaults]
    BY LoadAssumption
  <2>3. base \in [ToSet(Files) -> CutDays \cup {0}] /\ since \in [ToSet(Files) -> 1..(Len(Touched) + 1)]
        /\ undone \in [ToSet(Files) -> SUBSET Days]
    BY DaysAreNat DEF PerFile
  <2>4. IsFiniteSet(events)
    BY FS_EmptySet
  <2> QED
    BY <2>1, <2>2, <2>3, <2>4 DEF RestOK
<1> QED
  BY <1>1, <1>2, <1>3, <1>4 DEF DataInv

LEMMA FccStep ==
  ASSUME DataInv, Load
  PROVE  FccOK' /\ today <= today' /\ dump <= dump'
<1>1. today \in Nat /\ dump \in Nat /\ noticed \in Nat /\ CutDays \subseteq Nat
  BY DaysAreNat, LoadAssumption DEF DataInv, FccOK
<1>2. CASE Tick
  BY <1>1, <1>2, DaysAreNat DEF Tick, watch, DataInv, FccOK
<1>3. CASE CutDump
  BY <1>1, <1>3 DEF CutDump, watch, DataInv, FccOK
<1>4. CASE CheckCompleteDumps
  <2>1. dump \in CutDays
    BY <1>4 DEF CheckCompleteDumps, DataInv, FccOK
  <2>2. announced' \in Seq(CutDays)
    BY <1>4, <2>1 DEF CheckCompleteDumps, DataInv, FccOK
  <2> QED
    BY <1>1, <1>4, <2>2 DEF CheckCompleteDumps, fcc, DataInv, FccOK
<1>5. CASE UNCHANGED <<today, dump, noticed, announced>>
  BY <1>1, <1>5 DEF DataInv, FccOK
<1> QED
  BY <1>2, <1>3, <1>4, <1>5 DEF Load, BeginDaily, LoadDaily, RecordDay, BeginBootstrap, LoadComplete,
       RefreshViews, Crash, DropViews, CreateViews, fcc, watch

\* What a load leaves in a table it loads.
LEMMA DayRow ==
  ASSUME NEW T, NEW f \in ToSet(Files), NEW d \in Days, NEW u \in Keys
  PROVE  /\ u \in Touched[d] => DayTable(T, d, f)[u] = Kept(u, d, f) /\ DayTable(T, d, f)[u] # None
         /\ u \notin Touched[d] => DayTable(T, d, f)[u] = T[u]
BY KeptIsRow DEF DayTable

LEMMA DumpRow ==
  ASSUME NEW T, NEW f \in ToSet(Files), NEW c \in Days, NEW u \in Keys
  PROVE  /\ Version(u, c) \in 0..c
         /\ Version(u, c) > 0 => /\ Version(u, c) \in Days
                                 /\ u \in Touched[Version(u, c)]
                                 /\ DumpTable(T, c, f)[u] = Kept(u, Version(u, c), f)
                                 /\ DumpTable(T, c, f)[u] # None
         /\ ~(Version(u, c) > 0) => DumpTable(T, c, f)[u] = T[u]
         /\ \A e \in 1..c : u \in Touched[e] => e <= Version(u, c)
<1>1. c \in Nat /\ c <= Len(Touched) /\ Len(Touched) \in Nat
  BY DaysAreNat DEF Days
<1>2. /\ Version(u, c) \in 0..c
      /\ Version(u, c) > 0 => u \in Touched[Version(u, c)]
      /\ \A e \in 1..c : u \in Touched[e] => e <= Version(u, c)
  BY <1>1, NewestVersion
<1>3. Version(u, c) > 0 => Version(u, c) \in Days
  BY <1>1, <1>2 DEF Days
<1>4. Version(u, c) > 0 => Kept(u, Version(u, c), f) # None
  BY <1>3, KeptIsRow
<1> QED
  BY <1>2, <1>3, <1>4 DEF DumpTable

\* Each row is kept or becomes one of a published day of the same licence.
LEMMA RowsAfter ==
  ASSUME RowsOK, today \in Nat, today' \in Nat, today <= today', NEW f \in ToSet(Files), NEW T,
         T = [u \in Keys |-> T[u]], tables' = [tables EXCEPT ![f] = T],
         \A u \in Keys : \/ T[u] = tables[f][u]
                         \/ \E v \in Days : v < today /\ u \in Touched[v] /\ T[u] = Kept(u, v, f)
  PROVE  RowsOK'
<1>1. tables' = [g \in ToSet(Files) |-> tables'[g]] /\ tables'[f] = T
      /\ \A g \in ToSet(Files) \ {f} : tables'[g] = tables[g]
  BY DEF RowsOK
<1>2. ASSUME NEW g \in ToSet(Files)
      PROVE  IsTable(tables'[g], g)
  <2>1. CASE g = f
    <3>1. \A u \in Keys : T[u] = None \/ \E v \in Days : T[u] = Kept(u, v, f)
      BY DEF RowsOK, IsTable
    <3> QED
      BY <1>1, <2>1, <3>1 DEF IsTable
  <2>2. CASE g # f
    BY <1>1, <2>2 DEF RowsOK
  <2> QED
    BY <2>1, <2>2
<1>3. ASSUME NEW g \in ToSet(Files), NEW u \in Keys, tables'[g][u] # None
      PROVE  \E v \in Days : v < today' /\ u \in Touched[v] /\ tables'[g][u] = Kept(u, v, g)
  <2>1. PICK v \in Days : v < today /\ u \in Touched[v] /\ tables'[g][u] = Kept(u, v, g)
    BY <1>1, <1>3 DEF RowsOK
  <2>2. v < today'
    BY <2>1, DaysAreNat
  <2> QED
    BY <2>1, <2>2
<1> QED
  BY <1>1, <1>2, <1>3 DEF RowsOK

LEMMA RowsStep ==
  ASSUME DataInv, Load
  PROVE  RowsOK'
<1>1. today \in Nat /\ today' \in Nat /\ today <= today' /\ RowsOK
  BY FccStep, DaysAreNat DEF DataInv, FccOK
<1>2. CASE LoadDaily
  <2>1. PICK f, d, new : DailyStep(f, d, new)
    BY <1>2, DailyEffect
  <2>2. f \in ToSet(Files) /\ d \in Days /\ tables' = [tables EXCEPT ![f] = DayTable(tables[f], d, f)]
    BY <2>1 DEF DailyStep
  <2>3. d < today
    BY <2>1 DEF DailyStep, DataInv, JobOK
  <2>4. PICK T : T = DayTable(tables[f], d, f)
    OBVIOUS
  <2>5. T = [u \in Keys |-> T[u]]
    BY <2>4 DEF DayTable
  <2>6. \A u \in Keys : \/ T[u] = tables[f][u]
                        \/ \E v \in Days : v < today /\ u \in Touched[v] /\ T[u] = Kept(u, v, f)
    BY <2>2, <2>3, <2>4, DayRow
  <2> QED
    BY <1>1, <2>2, <2>4, <2>5, <2>6, RowsAfter
<1>3. CASE LoadComplete
  <2>1. PICK f, c : DumpStep(f, c)
    BY <1>3, DumpEffect
  <2>2. f \in ToSet(Files) /\ c \in Days /\ tables' = [tables EXCEPT ![f] = DumpTable(tables[f], c, f)]
    BY <2>1 DEF DumpStep
  <2>3. c < today
    BY <2>1 DEF DumpStep, DataInv, JobOK
  <2>4. PICK T : T = DumpTable(tables[f], c, f)
    OBVIOUS
  <2>5. T = [u \in Keys |-> T[u]]
    BY <2>4 DEF DumpTable
  <2>6. ASSUME NEW u \in Keys
        PROVE  \/ T[u] = tables[f][u]
               \/ \E v \in Days : v < today /\ u \in Touched[v] /\ T[u] = Kept(u, v, f)
    <3>1. CASE Version(u, c) > 0
      <4>1. /\ Version(u, c) \in 0..c /\ Version(u, c) \in Days /\ u \in Touched[Version(u, c)]
            /\ T[u] = Kept(u, Version(u, c), f)
        BY <2>2, <2>4, <3>1, DumpRow
      <4>2. Version(u, c) < today
        BY <1>1, <2>2, <2>3, <4>1, DaysAreNat
      <4> QED
        BY <4>1, <4>2
    <3>2. CASE ~(Version(u, c) > 0)
      BY <2>2, <2>4, <3>2, DumpRow
    <3> QED
      BY <3>1, <3>2
  <2> QED
    BY <1>1, <2>2, <2>4, <2>5, <2>6, RowsAfter
<1>4. CASE UNCHANGED <<tables, events, base, since, undone>>
  <2>1. \A v \in Days : v < today => v < today'
    BY <1>1, DaysAreNat
  <2> QED
    BY <1>1, <1>4, <2>1 DEF RowsOK
<1> QED
  BY <1>2, <1>3, <1>4, OtherLoads

\* A job with other files left is a job.
LEMMA JobGoesOn ==
  ASSUME JobOK, job # None, NEW files \in {Files, <<"EN">>, <<>>}, job' = [job EXCEPT !.files = files]
  PROVE  /\ job' \in Job /\ job'.kind = job.kind /\ job'.days = job.days
         /\ job.kind = "bootstrap" => job'.cut = job.cut
<1>1. files \in {Files, Tail(Files), <<>>}
  BY FilesInOrder
<1>2. CASE job \in [kind : {"daily"}, days : SUBSET Days, files : {Files, Tail(Files), <<>>}]
  BY <1>1, <1>2 DEF Job
<1>3. CASE job \in [kind : {"bootstrap"}, cut : CutDays, days : {{}}, files : {Files, Tail(Files), <<>>}]
  BY <1>1, <1>3 DEF Job
<1> QED
  BY <1>2, <1>3 DEF Job, JobOK

\* A load that begins or goes on is one, as JobOK has it.
LEMMA JobHolds ==
  ASSUME DataInv, today \in Nat, today' \in Nat, today <= today',
         LoadDaily \/ LoadComplete \/ RecordDay \/ BeginDaily \/ BeginBootstrap
  PROVE  JobOK' /\ job' # None
<1>1. JobOK /\ ingested \subseteq Days
  BY DEF DataInv, RestOK
<1>2. CASE LoadDaily \/ LoadComplete
  <2>1. PICK files \in {Files, <<"EN">>, <<>>} : job' = [job EXCEPT !.files = files] /\ job # None
    BY <1>2, DailyEffect, DumpEffect DEF DailyStep, DumpStep
  <2>2. job' \in Job /\ job'.kind = job.kind /\ job'.days = job.days
        /\ (job.kind = "bootstrap" => job'.cut = job.cut)
    BY <1>1, <2>1, JobGoesOn
  <2>3. UNCHANGED <<today, ingested>>
    BY <1>2 DEF LoadDaily, LoadComplete, fcc
  <2> QED
    BY <1>1, <2>1, <2>2, <2>3, LoadAssumption DEF JobOK
<1>3. CASE RecordDay
  <2>1. PICK d : d = Min(job.days)
    OBVIOUS
  <2>2. /\ job # None /\ job.kind = "daily" /\ job.days # {}
        /\ job' = [job EXCEPT !.days = job.days \ {d}, !.files = Files]
        /\ ingested' = ingested \cup {d} /\ today' = today
    BY <1>3, <2>1 DEF RecordDay, fcc
  <2>3. job \in [kind : {"daily"}, days : SUBSET Days, files : {Files, Tail(Files), <<>>}]
    BY <1>1, <2>2 DEF JobOK, Job
  <2>4. job' = [kind |-> "daily", days |-> job.days \ {d}, files |-> Files]
    BY <2>2, <2>3
  <2>5. job' \in Job
    BY <2>3, <2>4 DEF Job
  <2> QED
    BY <1>1, <2>2, <2>4, <2>5, LoadAssumption DEF JobOK
<1>4. CASE BeginDaily
  <2>1. job' = [kind |-> "daily", days |-> Pending, files |-> Files] /\ today' = today /\ ingested' = ingested
    BY <1>4 DEF BeginDaily, fcc
  <2>2. Pending \in SUBSET Days /\ \A d \in Pending : d < today /\ d \notin ingested
    BY DEF Pending
  <2>3. job' \in Job
    BY <2>1, <2>2 DEF Job
  <2> QED
    BY <2>1, <2>2, <2>3, LoadAssumption DEF JobOK
<1>5. CASE BeginBootstrap
  <2>1. job' = [kind |-> "bootstrap", cut |-> dump, days |-> {}, files |-> Files] /\ today' = today
    BY <1>5 DEF BeginBootstrap, fcc
  <2>2. dump \in CutDays /\ dump < today
    BY <1>5 DEF BeginBootstrap, DataInv, FccOK
  <2>3. job' \in Job
    BY <2>1, <2>2 DEF Job
  <2> QED
    BY <2>1, <2>2, <2>3, LoadAssumption DEF JobOK
<1> QED
  BY <1>2, <1>3, <1>4, <1>5

LEMMA JobStep ==
  ASSUME DataInv, Load
  PROVE  JobOK'
<1>1. today \in Nat /\ today' \in Nat /\ today <= today' /\ JobOK
  BY FccStep, DaysAreNat DEF DataInv, FccOK
<1>2. CASE LoadDaily \/ LoadComplete \/ RecordDay \/ BeginDaily \/ BeginBootstrap
  BY <1>1, <1>2, JobHolds
<1>3. CASE RefreshViews \/ Crash
  BY <1>3 DEF RefreshViews, Crash, JobOK
<1>4. CASE UNCHANGED <<job, ingested>>
  <2>1. \A d \in Days : d < today => d < today'
    BY <1>1, DaysAreNat
  <2>2. ASSUME job # None, job.kind = "daily"
        PROVE  job.days \subseteq Days
    BY <1>1, <2>2 DEF JobOK, Job
  <2>3. ASSUME job # None, job.kind = "bootstrap"
        PROVE  job.cut \in Days
    BY <1>1, <2>3, LoadAssumption DEF JobOK, Job
  <2> QED
    BY <1>1, <1>4, <2>1, <2>2, <2>3 DEF JobOK
<1> QED
  BY <1>2, <1>3, <1>4 DEF Load, Tick, CutDump, DropViews, CreateViews, CheckCompleteDumps

LEMMA IdentityTyped ==
  ASSUME DataInv
  PROVE  Identity(tables["EN"]) \in [Keys -> FrnCell \cup {None}]
<1>1. ASSUME NEW u \in Keys, tables["EN"][u] # None
      PROVE  tables["EN"][u].frn \in FrnCell
  <2>1. PICK v \in Days : tables["EN"][u] = Kept(u, v, "EN")
    BY <1>1, FilesAre DEF DataInv, RowsOK
  <2> QED
    BY <2>1, FrnKept
<1> QED
  BY <1>1 DEF Identity

LEMMA RestStep ==
  ASSUME DataInv, Load
  PROVE  RestOK'
<1>1. RestOK /\ JobOK /\ MaxBootstraps \in Nat /\ MaxFaults \in Nat /\ Days \subseteq Nat /\ CutDays \subseteq Days
  BY DaysAreNat, LoadAssumption DEF DataInv
<1>2. events' \subseteq Event /\ IsFiniteSet(events')
  <2>1. CASE LoadDaily
    <3>1. PICK f, d, new : DailyStep(f, d, new)
      BY <2>1, DailyEffect
    <3>2. events' = events \cup new /\ IsFiniteSet(new) /\ new \subseteq Event
      BY <3>1 DEF DailyStep, DayEvents
    <3> QED
      BY <1>1, <3>2, FS_Union DEF RestOK
  <2>2. CASE LoadComplete
    BY <1>1, <2>2 DEF LoadComplete, RestOK
  <2>3. CASE UNCHANGED events
    BY <1>1, <2>3 DEF RestOK
  <2> QED
    BY <2>1, <2>2, <2>3, OtherLoads
<1>3. ingested' \subseteq Days
  <2>1. CASE RecordDay
    <3>1. job # None /\ job.kind = "daily" /\ job.days # {} /\ ingested' = ingested \cup {Min(job.days)}
      BY <2>1 DEF RecordDay
    <3>2. job.days \subseteq Days
      BY <1>1, <3>1 DEF JobOK, Job
    <3>3. Min(job.days) \in job.days
      BY <1>1, <3>1, <3>2, Least
    <3> QED
      BY <1>1, <3>1, <3>2, <3>3 DEF RestOK
  <2>2. CASE UNCHANGED ingested
    BY <1>1, <2>2 DEF RestOK
  <2> QED
    BY <2>1, <2>2 DEF Load, Tick, CutDump, BeginDaily, LoadDaily, BeginBootstrap, LoadComplete,
       RefreshViews, Crash, DropViews, CreateViews, CheckCompleteDumps
<1>4. views' = Dropped \/ views' \in [Keys -> FrnCell \cup {None}]
  <2>1. views' \in {views, Dropped, Identity(tables["EN"])}
    BY DEF Load, Tick, CutDump, BeginDaily, LoadDaily, RecordDay, BeginBootstrap, LoadComplete,
       RefreshViews, Crash, DropViews, CreateViews, CheckCompleteDumps
  <2> QED
    BY <1>1, <2>1, IdentityTyped DEF RestOK
<1>5. used' \in [bootstraps : 0..MaxBootstraps, crashes : 0..MaxFaults, migrations : 0..MaxFaults]
  <2>1. PICK b \in 0..MaxBootstraps, c \in 0..MaxFaults, m \in 0..MaxFaults :
          used = [bootstraps |-> b, crashes |-> c, migrations |-> m]
    BY <1>1 DEF RestOK
  <2>2. CASE BeginBootstrap
    <3>1. b < MaxBootstraps /\ used' = [bootstraps |-> b + 1, crashes |-> c, migrations |-> m]
      BY <2>1, <2>2 DEF BeginBootstrap, Counted
    <3> QED
      BY <1>1, <3>1
  <2>3. CASE Crash
    <3>1. c + m < MaxFaults /\ used' = [bootstraps |-> b, crashes |-> c + 1, migrations |-> m]
      BY <2>1, <2>3 DEF Crash, Counted, MayFail
    <3> QED
      BY <1>1, <3>1
  <2>4. CASE DropViews
    <3>1. c + m < MaxFaults /\ used' = [bootstraps |-> b, crashes |-> c, migrations |-> m + 1]
      BY <2>1, <2>4 DEF DropViews, Counted, MayFail
    <3> QED
      BY <1>1, <3>1
  <2>5. CASE UNCHANGED used
    BY <1>1, <2>5 DEF RestOK
  <2> QED
    BY <2>2, <2>3, <2>4, <2>5 DEF Load, Tick, CutDump, BeginDaily, LoadDaily, RecordDay, LoadComplete,
       RefreshViews, CreateViews, CheckCompleteDumps
<1>6. /\ base' \in [ToSet(Files) -> CutDays \cup {0}]
      /\ since' \in [ToSet(Files) -> 1..(Len(Touched) + 1)]
      /\ undone' \in [ToSet(Files) -> SUBSET Days]
  <2>1. CASE LoadDaily
    <3>1. PICK f, d, new : DailyStep(f, d, new)
      BY <2>1, DailyEffect
    <3>2. /\ f \in ToSet(Files) /\ d \in Days
          /\ since' = [since EXCEPT ![f] = IF d < since[f] THEN d ELSE since[f]]
      BY <3>1 DEF DailyStep
    <3>3. UNCHANGED <<base, undone>>
      BY <2>1 DEF LoadDaily
    <3>4. d \in 1..(Len(Touched) + 1)
      BY <3>2, DaysAreNat DEF Days
    <3> QED
      BY <1>1, <3>2, <3>3, <3>4 DEF RestOK
  <2>2. CASE LoadComplete
    <3>1. PICK f, c : DumpStep(f, c)
      BY <2>2, DumpEffect
    <3>2. /\ f \in ToSet(Files) /\ c \in CutDays /\ c \in Days
          /\ base' = [base EXCEPT ![f] = c] /\ since' = [since EXCEPT ![f] = c + 1]
          /\ undone' = [undone EXCEPT ![f] = {d \in ingested : d > c}]
      BY <3>1 DEF DumpStep
    <3>3. c + 1 \in 1..(Len(Touched) + 1)
      BY <3>2, DaysAreNat DEF Days
    <3>4. {d \in ingested : d > c} \in SUBSET Days
      BY <1>1 DEF RestOK
    <3> QED
      BY <1>1, <3>2, <3>3, <3>4 DEF RestOK
  <2>3. CASE UNCHANGED <<base, since, undone>>
    BY <1>1, <2>3 DEF RestOK
  <2> QED
    BY <2>1, <2>2, <2>3, OtherLoads
<1> QED
  BY <1>2, <1>3, <1>4, <1>5, <1>6 DEF RestOK

LEMMA DataStep ==
  ASSUME DataInv, [Next]_vars
  PROVE  DataInv'
<1>1. CASE LoadStep
  <2>1. Load
    BY <1>1 DEF LoadStep
  <2> QED
    BY <2>1, FccStep, RowsStep, JobStep, RestStep DEF DataInv
<1>2. CASE UNCHANGED loadVars
  BY <1>2 DEF loadVars, DataInv, FccOK, RowsOK, JobOK, RestOK
<1> QED
  BY <1>1, <1>2 DEF Next, vars, Answer, Begin, Count, ReadPage, Search, ByFrn, ToolWhere, ResolveHolder,
     ReadHeader, ReadRegistration, ReadEntity, ReadChanges, ReadRelated, Close

LEMMA DataAlways == Spec => []DataInv
BY DataInitially, DataStep, PTL DEF Spec

\* Type correctness of the loads, for every number of licences and days.
THEOREM TypeCorrect == Spec => []LoadTypeOK
<1>1. ASSUME DataInv
      PROVE  LoadTypeOK
  <2>1. DOMAIN tables = ToSet(Files)
    BY <1>1 DEF DataInv, RowsOK
  <2>2. ASSUME NEW f \in ToSet(Files)
        PROVE  tables[f] \in [Keys -> RowsOf(f) \cup {None}]
    <3>1. \A u \in Keys : tables[f][u] # None => tables[f][u] \in RowsOf(f)
      BY <1>1, KeptIsRow DEF DataInv, RowsOK
    <3> QED
      BY <1>1, <3>1 DEF DataInv, RowsOK, IsTable
  <2> QED
    BY <1>1, <2>1, <2>2 DEF DataInv, FccOK, JobOK, RestOK, LoadTypeOK
<1> QED
  BY <1>1, DataAlways, PTL

\* parser.py: whatever newlines a text holds, a stored row is one FCC wrote, whole, for
\* every file and every batch size, unless the text holds a delimiter.
THEOREM StoredAsWrittenAlways == Spec => []StoredAsWritten
<1>1. ASSUME DataInv
      PROVE  StoredAsWritten
  <2>1. SUFFICES ASSUME NEW f \in ToSet(Files), NEW u \in Keys,
                        tables[f][u] # None, f = "EN" => Style[u] # "delimited"
                 PROVE  \E d \in Days : u \in Touched[d] /\ tables[f][u] = Meant(u, d, f)
    BY DEF StoredAsWritten
  <2>2. PICK v \in Days : u \in Touched[v] /\ tables[f][u] = Kept(u, v, f)
    BY <1>1, <2>1 DEF DataInv, RowsOK
  <2> QED
    BY <2>1, <2>2 DEF Kept
<1> QED
  BY <1>1, DataAlways, PTL

-----------------------------------------------------------------------------
(* The views and the watch for dumps                                       *)

\* scheduler.py and migration 009: without a crash the identity view is current or
\* dropped whenever no load runs, however a load and a migration interleave.
THEOREM ViewsFollowAlways == Spec => []ViewsFollow
<1>1. Init => ViewsFollow
  <2>1. SUFFICES ASSUME Init PROVE views = Identity(tables["EN"])
    BY DEF ViewsFollow
  <2> QED
    BY <2>1, FilesAre DEF Init, LoadInit, PerFile, Identity
<1>2. ASSUME DataInv, ViewsFollow, [Next]_vars
      PROVE  ViewsFollow'
  <2>1. CASE LoadStep
    <3>1. Load
      BY <2>1 DEF LoadStep
    <3>2. today \in Nat /\ today' \in Nat /\ today <= today'
      BY <1>2, <3>1, FccStep, DaysAreNat DEF DataInv, FccOK
    <3>3. CASE LoadDaily \/ LoadComplete \/ RecordDay \/ BeginDaily \/ BeginBootstrap
      <4>1. job' # None
        BY <1>2, <3>2, <3>3, JobHolds
      <4> QED
        BY <4>1 DEF ViewsFollow
    <3>4. CASE Crash
      <4>1. used.crashes \in Nat /\ used'.crashes = used.crashes + 1
        BY <1>2, <3>4, LoadAssumption DEF DataInv, RestOK, Crash, Counted
      <4>2. used'.crashes # 0
        BY <4>1
      <4> QED
        BY <4>2 DEF ViewsFollow
    <3>5. CASE RefreshViews
      BY <3>5 DEF RefreshViews, ViewsFollow
    <3>6. CASE DropViews
      BY <3>6 DEF DropViews, ViewsFollow
    <3>7. CASE CreateViews
      BY <3>7 DEF CreateViews, ViewsFollow
    <3>8. CASE Tick \/ CutDump \/ CheckCompleteDumps
      BY <1>2, <3>8 DEF Tick, CutDump, CheckCompleteDumps, ViewsFollow
    <3> QED
      BY <3>1, <3>3, <3>4, <3>5, <3>6, <3>7, <3>8 DEF Load
  <2>2. CASE UNCHANGED loadVars
    BY <1>2, <2>2 DEF loadVars, ViewsFollow
  <2> QED
    BY <1>2, <2>1, <2>2 DEF Next, vars, Answer, Begin, Count, ReadPage, Search, ByFrn, ToolWhere,
       ResolveHolder, ReadHeader, ReadRegistration, ReadEntity, ReadChanges, ReadRelated, Close
<1> QED
  BY <1>1, <1>2, DataAlways, PTL DEF Spec

\* db.py's record_complete_dump: each complete dump is announced at most once, in the
\* order of their cuts, and the last one announced is the newest seen.
Announced ==
  /\ Len(announced) = 0 <=> noticed = 0
  /\ Len(announced) > 0 => announced[Len(announced)] = noticed
  /\ \A i, j \in 1..Len(announced) : i < j => announced[i] < announced[j]

THEOREM AnnouncedOnceAlways == Spec => []AnnouncedOnce
<1>1. Init => Announced
  BY DEF Init, LoadInit, Announced
<1>2. ASSUME DataInv, Announced, [Next]_vars
      PROVE  Announced'
  <2>1. noticed \in Nat /\ dump \in Nat /\ noticed <= dump /\ announced \in Seq(CutDays) /\ CutDays \subseteq Nat \ {0}
    BY <1>2, DaysAreNat, LoadAssumption DEF DataInv, FccOK
  <2>2. CASE CheckCompleteDumps
    <3>1. dump \in CutDays /\ noticed' = dump
      BY <1>2, <2>2 DEF CheckCompleteDumps, DataInv, FccOK
    <3>2. CASE noticed = 0 \/ dump > noticed
      <4>1. announced' = Append(announced, dump)
        BY <2>2, <3>2 DEF CheckCompleteDumps, IsNewDump
      <4>2. PICK n \in Nat : n = Len(announced)
        BY <2>1
      <4>3. /\ Len(announced') = n + 1 /\ announced'[n + 1] = dump
            /\ \A i \in 1..n : announced'[i] = announced[i]
        BY <2>1, <3>1, <4>1, <4>2
      <4>4. \A i \in 1..n : announced[i] < dump
        <5>1. ASSUME NEW i \in 1..n
              PROVE  announced[i] <= noticed /\ announced[i] \in Nat
          <6>1. n \in 1..n /\ n > 0
            BY <4>2
          <6>3. announced[i] \in CutDays
            BY <2>1, <4>2
          <6>4. announced[n] = noticed
            BY <1>2, <4>2, <6>1 DEF Announced
          <6>2. i < n => announced[i] < announced[n]
            BY <1>2, <4>2, <6>1 DEF Announced
          <6>5. announced[i] \in Nat /\ noticed \in Nat
            BY <2>1, <6>3
          <6>6. i < n \/ i = n
            BY <4>2
          <6>7. announced[i] < noticed \/ announced[i] = noticed
            BY <6>2, <6>4, <6>6
          <6> QED
            BY <6>5, <6>7
        <5> QED
          BY <1>2, <2>1, <3>2, <4>2, <5>1 DEF Announced
      <4>5. \A i, j \in 1..(n + 1) : i < j => announced'[i] < announced'[j]
        BY <1>2, <4>2, <4>3, <4>4 DEF Announced
      <4> QED
        BY <2>1, <3>1, <4>2, <4>3, <4>5 DEF Announced
    <3>3. CASE ~(noticed = 0 \/ dump > noticed)
      <4>1. announced' = announced /\ dump = noticed
        BY <2>1, <2>2, <3>3 DEF CheckCompleteDumps, IsNewDump
      <4> QED
        BY <1>2, <3>1, <4>1 DEF Announced
    <3> QED
      BY <3>2, <3>3
  <2>3. CASE UNCHANGED <<noticed, announced>>
    BY <1>2, <2>3 DEF Announced
  <2> QED
    BY <1>2, <2>2, <2>3 DEF Next, vars, LoadStep, Load, Tick, CutDump, BeginDaily, LoadDaily, RecordDay,
       BeginBootstrap, LoadComplete, RefreshViews, Crash, DropViews, CreateViews, watch, loadVars,
       Answer, Begin, Count, ReadPage, Search, ByFrn, ToolWhere,
       ResolveHolder, ReadHeader, ReadRegistration, ReadEntity, ReadChanges, ReadRelated, Close
<1>3. ASSUME DataInv, Announced
      PROVE  AnnouncedOnce
  <2>1. noticed > 0 => announced # <<>> /\ Last(announced) = noticed
    <3>1. Len(announced) \in Nat /\ noticed \in Nat
      BY <1>3, DaysAreNat, LoadAssumption DEF DataInv, FccOK
    <3>2. Last(announced) = announced[Len(announced)]
      BY DEF Last
    <3>3. Len(<<>>) = 0
      OBVIOUS
    <3> QED
      BY <1>3, <3>1, <3>2, <3>3 DEF Announced
  <2> QED
    BY <1>3, <2>1 DEF Announced, AnnouncedOnce
<1> QED
  BY <1>1, <1>2, <1>3, DataAlways, PTL DEF Spec

-----------------------------------------------------------------------------
(* The order in which days are loaded                                      *)

Daily == job # None /\ job.kind = "daily"

\* The file of day v is not loaded again by a load that has not begun.
Passed(v) == v \in ingested \/ v < today - Window

\* A load takes its days in order and leaves out none that could still be taken; what
\* is recorded was taken in order too.
DaysInOrder ==
  /\ Daily => \A d \in job.days, v \in Days : v < d => v \in job.days \/ Passed(v)
  /\ \A e \in ingested, v \in Days : v < e => Passed(v)
  /\ Daily => \A e \in ingested, d \in job.days : e < d

LEMMA StillBefore ==
  \A v, w, a, b \in Nat : a <= b /\ v < a - w => v < b - w
  OBVIOUS

LEMMA Passes ==
  ASSUME DataInv, Load
  PROVE  /\ ingested \subseteq ingested' /\ ingested \subseteq Nat /\ Days \subseteq Nat
         /\ today \in Nat /\ today' \in Nat /\ today <= today' /\ Window \in Nat
         /\ \A v \in Days : Passed(v) => Passed(v)'
<1>1. /\ ingested \subseteq Nat /\ Days \subseteq Nat
      /\ today \in Nat /\ today' \in Nat /\ today <= today' /\ Window \in Nat
  BY FccStep, DaysAreNat, LoadAssumption DEF DataInv, FccOK, RestOK
<1>2. ingested \subseteq ingested'
  BY DEF Load, Tick, CutDump, BeginDaily, LoadDaily, RecordDay, BeginBootstrap, LoadComplete,
       RefreshViews, Crash, DropViews, CreateViews, CheckCompleteDumps
<1>3. ASSUME NEW v \in Days, Passed(v)
      PROVE  Passed(v)'
  <2>1. v \in Nat
    BY <1>1
  <2>2. v < today - Window => v < today' - Window
    BY <1>1, <2>1, StillBefore, Zenon
  <2> QED
    BY <1>2, <1>3, <2>2 DEF Passed
<1> QED
  BY <1>1, <1>2, <1>3

\* Only RecordDay records, and BeginDaily alone gives a load days that it did not have.
LEMMA LoadsAndDays ==
  ASSUME DataInv, Load
  PROVE  \/ RecordDay
         \/ BeginDaily
         \/ ingested' = ingested /\ (Daily' => Daily /\ job'.days = job.days)
<1>1. CASE LoadDaily \/ LoadComplete
  <2>1. PICK files \in {Files, <<"EN">>, <<>>} : job' = [job EXCEPT !.files = files] /\ job # None
    BY <1>1, DailyEffect, DumpEffect DEF DailyStep, DumpStep
  <2>2. job'.kind = job.kind /\ job'.days = job.days
    BY <2>1, JobGoesOn DEF DataInv
  <2> QED
    BY <1>1, <2>1, <2>2 DEF LoadDaily, LoadComplete, Daily
<1>2. CASE BeginBootstrap
  BY <1>2 DEF BeginBootstrap, Daily
<1>3. CASE RefreshViews \/ Crash
  BY <1>3 DEF RefreshViews, Crash, Daily
<1>4. CASE Tick \/ CutDump \/ DropViews \/ CreateViews \/ CheckCompleteDumps
  BY <1>4 DEF Tick, CutDump, DropViews, CreateViews, CheckCompleteDumps, Daily
<1> QED
  BY <1>1, <1>2, <1>3, <1>4 DEF Load

\* RecordDay, with the day it records.
LEMMA RecordEffect ==
  ASSUME DataInv, RecordDay
  PROVE  \E d \in Days : /\ Daily /\ d = Min(job.days) /\ d \in job.days /\ job.days \subseteq Days
                         /\ \A e \in job.days : d <= e
                         /\ job.files = <<>> /\ job'.files = Files
                         /\ ingested' = ingested \cup {d}
                         /\ job'.days = job.days \ {d}
                         /\ UNCHANGED <<today, tables, events, base, since, undone>>
<1>1. PICK d : d = Min(job.days)
  OBVIOUS
<1>2. /\ Daily /\ job.days # {} /\ ingested' = ingested \cup {d} /\ job.files = <<>>
      /\ job' = [job EXCEPT !.days = job.days \ {d}, !.files = Files]
      /\ UNCHANGED <<today, tables, events, base, since, undone>>
  BY <1>1 DEF RecordDay, Daily, fcc, ghosts
<1>3. job \in [kind : {"daily"}, days : SUBSET Days, files : {Files, Tail(Files), <<>>}]
  BY <1>2 DEF Daily, DataInv, JobOK, Job
<1>4. d \in job.days /\ \A e \in job.days : d <= e
  BY <1>1, <1>2, <1>3, DaysAreNat, Least
<1>5. job'.days = job.days \ {d} /\ job'.files = Files
  BY <1>2, <1>3
<1> QED
  BY <1>1, <1>2, <1>3, <1>4, <1>5

LEMMA BeginEffect ==
  ASSUME DataInv, BeginDaily
  PROVE  /\ job' = [kind |-> "daily", days |-> Pending, files |-> Files]
         /\ UNCHANGED <<today, tables, events, ingested, base, since, undone>>
         /\ Pending \subseteq Days /\ \A d \in Pending : d < today /\ ~Passed(d)
<1>1. ASSUME NEW d \in Pending
      PROVE  d < today /\ ~Passed(d)
  <2>1. d \in Days /\ d < today /\ d >= today - Window /\ d \notin ingested
    BY DEF Pending
  <2>2. ~(d < today - Window)
    BY <2>1, DaysAreNat, LoadAssumption DEF DataInv, FccOK
  <2> QED
    BY <2>1, <2>2 DEF Passed
<1> QED
  BY <1>1 DEF BeginDaily, fcc, ghosts, Pending

LEMMA OrderStep ==
  ASSUME DataInv, DaysInOrder, Load
  PROVE  DaysInOrder'
<1>1. /\ ingested \subseteq ingested' /\ ingested \subseteq Nat /\ Days \subseteq Nat
      /\ \A v \in Days : Passed(v) => Passed(v)'
  BY Passes
<1>2. CASE RecordDay
  <2>1. PICK d \in Days : /\ Daily /\ d \in job.days /\ job.days \subseteq Days
                          /\ \A e \in job.days : d <= e
                          /\ ingested' = ingested \cup {d}
                          /\ job'.days = job.days \ {d}
    BY <1>2, RecordEffect
  <2>2. \A v \in Days : v < d => Passed(v)
    BY <1>1, <2>1 DEF DaysInOrder
  <2>3. ASSUME NEW e \in job'.days
        PROVE  d < e
    <3>1. e \in job.days /\ e # d /\ e \in Nat /\ d \in Nat
      BY <1>1, <2>1
    <3> QED
      BY <2>1, <3>1
  <2>4. Passed(d)'
    BY <2>1 DEF Passed
  <2> QED
    BY <1>1, <2>1, <2>2, <2>3, <2>4 DEF DaysInOrder
<1>3. CASE BeginDaily
  <2>1. Pending \subseteq Days /\ \A d \in Pending : d < today /\ ~Passed(d)
    BY <1>3, BeginEffect
  <2>2. job'.days = Pending /\ ingested' = ingested /\ today' = today
    BY <1>3, BeginEffect
  <2>3. ASSUME NEW d \in Pending, NEW v \in Days, v < d
        PROVE  v \in Pending \/ Passed(v)
    <3>1. v < today /\ today \in Nat /\ Window \in Nat
      BY <1>1, <2>1, <2>3, LoadAssumption, DaysAreNat DEF DataInv, FccOK
    <3> QED
      BY <1>1, <3>1 DEF Pending, Passed
  <2>4. ASSUME NEW e \in ingested, NEW d \in Pending
        PROVE  e < d
    BY <1>1, <2>1 DEF DaysInOrder, Passed
  <2>5. \A v \in Days : Passed(v)' <=> Passed(v)
    BY <2>2 DEF Passed
  <2> QED
    BY <2>2, <2>3, <2>4, <2>5 DEF DaysInOrder
<1>4. CASE ingested' = ingested /\ (Daily' => Daily /\ job'.days = job.days)
  <2>1. Daily => job.days \subseteq Days
    BY DEF Daily, DataInv, JobOK, Job
  <2> QED
    BY <1>1, <1>4, <2>1 DEF DaysInOrder
<1> QED
  BY <1>2, <1>3, <1>4, LoadsAndDays

-----------------------------------------------------------------------------
(* What is in a table, and how new it is                                   *)

\* What a load does to any row of any table.
LEMMA RowAfterDay ==
  ASSUME DataInv, NEW f, NEW d, NEW new, DailyStep(f, d, new), NEW g \in ToSet(Files), NEW u \in Keys
  PROVE  /\ g = f /\ u \in Touched[d] => tables'[g][u] = Kept(u, d, g) /\ tables'[g][u] # None
         /\ ~(g = f /\ u \in Touched[d]) => tables'[g][u] = tables[g][u]
<1>1. f \in ToSet(Files) /\ d \in Days /\ tables' = [tables EXCEPT ![f] = DayTable(tables[f], d, f)]
  BY DEF DailyStep
<1>2. tables'[f] = DayTable(tables[f], d, f) /\ (g # f => tables'[g] = tables[g])
  BY <1>1 DEF DataInv, RowsOK
<1>3. PICK T : T = tables[f]
  OBVIOUS
<1>4. tables'[f] = DayTable(T, d, f)
  BY <1>2, <1>3
<1>5. CASE g = f
  <2>1. tables'[g][u] = DayTable(T, d, f)[u] /\ tables[g][u] = T[u]
    BY <1>3, <1>4, <1>5
  <2> QED
    BY <1>1, <1>5, <2>1, DayRow
<1>6. CASE g # f
  BY <1>2, <1>6
<1> QED
  BY <1>5, <1>6

LEMMA RowAfterDump ==
  ASSUME DataInv, NEW f, NEW c, DumpStep(f, c), NEW g \in ToSet(Files), NEW u \in Keys
  PROVE  /\ Version(u, c) \in 0..c
         /\ \A e \in 1..c : u \in Touched[e] => e <= Version(u, c)
         /\ g = f /\ Version(u, c) > 0 =>
              /\ Version(u, c) \in Days /\ u \in Touched[Version(u, c)]
              /\ tables'[g][u] = Kept(u, Version(u, c), g) /\ tables'[g][u] # None
         /\ ~(g = f /\ Version(u, c) > 0) => tables'[g][u] = tables[g][u]
<1>1. f \in ToSet(Files) /\ c \in Days /\ tables' = [tables EXCEPT ![f] = DumpTable(tables[f], c, f)]
  BY DEF DumpStep
<1>2. tables'[f] = DumpTable(tables[f], c, f) /\ (g # f => tables'[g] = tables[g])
  BY <1>1 DEF DataInv, RowsOK
<1>3. PICK T : T = tables[f]
  OBVIOUS
<1>4. tables'[f] = DumpTable(T, c, f)
  BY <1>2, <1>3
<1>5. /\ Version(u, c) \in 0..c
      /\ \A e \in 1..c : u \in Touched[e] => e <= Version(u, c)
  BY <1>1, DumpRow
<1>6. CASE g = f
  <2>1. tables'[g][u] = DumpTable(T, c, f)[u] /\ tables[g][u] = T[u]
    BY <1>3, <1>4, <1>6
  <2> QED
    BY <1>1, <1>5, <1>6, <2>1, DumpRow
<1>7. CASE g # f
  BY <1>2, <1>5, <1>7
<1> QED
  BY <1>6, <1>7

\* A row that is there stays there.
LEMMA RowsStay ==
  ASSUME DataInv, Load, NEW g \in ToSet(Files), NEW u \in Keys, tables[g][u] # None
  PROVE  tables'[g][u] # None
<1>1. CASE LoadDaily
  <2>1. PICK f, d, new : DailyStep(f, d, new)
    BY <1>1, DailyEffect
  <2> QED
    BY <2>1, RowAfterDay
<1>2. CASE LoadComplete
  <2>1. PICK f, c : DumpStep(f, c)
    BY <1>2, DumpEffect
  <2> QED
    BY <2>1, RowAfterDump
<1>3. CASE UNCHANGED <<tables, events, base, since, undone>>
  BY <1>3
<1> QED
  BY <1>1, <1>2, <1>3, OtherLoads

LEMMA VersionKept ==
  ASSUME NEW u \in Keys, NEW v \in Days, NEW f \in ToSet(Files)
  PROVE  Kept(u, v, f).text[1] = v
BY KeptIsRow

Stored(f, us) == \A u \in us : tables[f][u] # None
UpTo(f, w) == \A e \in Days : e <= w => Stored(f, Touched[e])
DayIn(f, d) == \A u \in Touched[d] : tables[f][u] = Kept(u, d, f)

\* Days recorded and dumps loaded are in the tables; so is, of the day or the dump that
\* is being loaded, the file whose turn is over.
DaysStored == \A f \in ToSet(Files) : UpTo(f, base[f]) /\ \A e \in ingested : Stored(f, Touched[e])
FilesLoaded ==
  /\ Daily /\ job.days # {} => /\ job.files # Files => DayIn("HD", Min(job.days))
                               /\ job.files = <<>> => DayIn("EN", Min(job.days))
  /\ job # None /\ job.kind = "bootstrap" /\ job.files # Files => UpTo("HD", job.cut)
Headed == \A u \in Keys : tables["EN"][u] # None => tables["HD"][u] # None

StoredInv == DaysStored /\ FilesLoaded /\ Headed

LEMMA StaysStored ==
  ASSUME DataInv, Load, NEW f \in ToSet(Files)
  PROVE  /\ \A us \in SUBSET Keys : Stored(f, us) => Stored(f, us)'
         /\ \A w : UpTo(f, w) => UpTo(f, w)'
<1>1. \A u \in Keys : tables[f][u] # None => tables'[f][u] # None
  BY RowsStay
<1>2. \A e \in Days : Touched[e] \subseteq Keys
  BY TouchedAreKeys
<1> QED
  BY <1>1, <1>2 DEF Stored, UpTo

\* The dump leaves a row of every licence granted by its cut.
LEMMA DumpStores ==
  ASSUME DataInv, NEW f, NEW c, DumpStep(f, c)
  PROVE  UpTo(f, c)'
<1>1. SUFFICES ASSUME NEW e \in Days, e <= c, NEW u \in Touched[e]
               PROVE  tables'[f][u] # None
  BY DEF UpTo, Stored
<1>2. u \in Keys /\ f \in ToSet(Files) /\ c \in Days /\ e \in 1..c
  BY <1>1, TouchedAreKeys, DaysAreNat DEF DailyStep, DumpStep, Days
<1>3. Version(u, c) > 0
  <2>1. e <= Version(u, c) /\ Version(u, c) \in 0..c
    BY <1>1, <1>2, RowAfterDump
  <2> QED
    BY <1>2, <2>1
<1> QED
  BY <1>2, <1>3, RowAfterDump

LEMMA StoredStep ==
  ASSUME DataInv, StoredInv, Load
  PROVE  StoredInv'
<1>1. DaysStored'
  <2>1. CASE RecordDay
    <3>1. PICK d \in Days : /\ Daily /\ d = Min(job.days) /\ d \in job.days /\ job.files = <<>>
                            /\ ingested' = ingested \cup {d} /\ UNCHANGED <<tables, base>>
      BY <2>1, RecordEffect
    <3>2. DayIn("HD", d) /\ DayIn("EN", d)
      BY <3>1, FilesInOrder DEF StoredInv, FilesLoaded
    <3>3. \A f \in ToSet(Files) : Stored(f, Touched[d])
      <4>1. SUFFICES ASSUME NEW f \in ToSet(Files), NEW u \in Touched[d]
                     PROVE  tables[f][u] # None
        BY DEF Stored
      <4>2. u \in Keys /\ tables[f][u] = Kept(u, d, f)
        BY <3>2, FilesAre, TouchedAreKeys DEF DayIn
      <4> QED
        BY <4>2, KeptIsRow
    <3> QED
      BY <3>1, <3>3 DEF StoredInv, DaysStored, UpTo, Stored
  <2>2. CASE LoadComplete
    <3>1. PICK f, c : DumpStep(f, c)
      BY <2>2, DumpEffect
    <3>2. UpTo(f, c)' /\ base' = [base EXCEPT ![f] = c] /\ ingested' = ingested
      <4>1. UpTo(f, c)'
        BY <3>1, DumpStores
      <4>2. base' = [base EXCEPT ![f] = c]
        BY <3>1 DEF DumpStep
      <4>3. ingested' = ingested
        BY <2>2 DEF LoadComplete
      <4> QED
        BY <4>1, <4>2, <4>3
    <3>3. base'[f] = c /\ \A g \in ToSet(Files) \ {f} : base'[g] = base[g]
      BY <3>1, <3>2 DEF DumpStep, DataInv, RestOK
    <3>4. ASSUME NEW g \in ToSet(Files)
          PROVE  UpTo(g, base[g])'
      <4>1. CASE g = f
        BY <3>2, <3>3, <4>1 DEF UpTo
      <4>2. CASE g # f
        <5>1. UpTo(g, base[g])
          BY DEF StoredInv, DaysStored
        <5> QED
          BY <3>3, <4>2, <5>1, StaysStored DEF UpTo
      <4> QED
        BY <4>1, <4>2
    <3>5. ASSUME NEW g \in ToSet(Files), NEW e \in ingested'
          PROVE  Stored(g, Touched[e])'
      <4>1. Stored(g, Touched[e]) /\ Touched[e] \in SUBSET Keys
        BY <3>2, <3>5, TouchedAreKeys DEF StoredInv, DaysStored, DataInv, RestOK
      <4> QED
        BY <4>1, StaysStored
    <3> QED
      BY <3>4, <3>5 DEF DaysStored
  <2>3. CASE UNCHANGED <<ingested, base>>
    <3>1. ASSUME NEW g \in ToSet(Files)
          PROVE  UpTo(g, base[g])'
      <4>1. UpTo(g, base[g])
        BY DEF StoredInv, DaysStored
      <4> QED
        BY <2>3, <4>1, StaysStored DEF UpTo
    <3>2. ASSUME NEW g \in ToSet(Files), NEW e \in ingested'
          PROVE  Stored(g, Touched[e])'
      <4>1. Stored(g, Touched[e]) /\ Touched[e] \in SUBSET Keys
        BY <2>3, <3>2, TouchedAreKeys DEF StoredInv, DaysStored, DataInv, RestOK
      <4> QED
        BY <4>1, StaysStored
    <3> QED
      BY <3>1, <3>2 DEF DaysStored
  <2> QED
    BY <2>1, <2>2, <2>3 DEF Load, Tick, CutDump, BeginDaily, LoadDaily, BeginBootstrap,
       RefreshViews, Crash, DropViews, CreateViews, CheckCompleteDumps, ghosts
<1>2. FilesLoaded'
  <2>1. CASE LoadDaily
    <3>1. PICK f, d, new : DailyStep(f, d, new)
      BY <2>1, DailyEffect
    <3>2. /\ Daily /\ d \in job.days /\ d = Min(job.days) /\ d \in Days /\ f \in ToSet(Files)
          /\ \/ f = "HD" /\ job' = [job EXCEPT !.files = <<"EN">>]
             \/ f = "EN" /\ job.files = <<"EN">> /\ job' = [job EXCEPT !.files = <<>>]
      BY <3>1 DEF DailyStep, Daily
    <3>3. job'.days = job.days /\ job'.kind = "daily"
      BY <3>2, JobGoesOn DEF DataInv, Daily
    <3>4. DayIn(f, d)'
      BY <3>1, <3>2, RowAfterDay, TouchedAreKeys DEF DayIn
    <3>5. CASE f = "HD"
      <4>1. job'.files = <<"EN">>
        BY <3>2, <3>5 DEF DataInv, JobOK, Job, Daily
      <4> QED
        BY <3>2, <3>3, <3>4, <3>5, <4>1 DEF FilesLoaded, DayIn
    <3>6. CASE f = "EN"
      <4>1. DayIn("HD", d)
        BY <3>2, <3>6, FilesInOrder DEF StoredInv, FilesLoaded
      <4>2. DayIn("HD", d)'
        <5>1. "HD" \in ToSet(Files) /\ \A u \in Touched[d] : u \in Keys
          BY <3>2, FilesAre, TouchedAreKeys
        <5>2. \A u \in Keys : tables'["HD"][u] = tables["HD"][u]
          BY <3>1, <3>6, <5>1, RowAfterDay
        <5> QED
          BY <4>1, <5>1, <5>2 DEF DayIn
      <4> QED
        BY <3>2, <3>3, <3>4, <3>6, <4>2 DEF FilesLoaded, DayIn
    <3> QED
      BY <3>2, <3>5, <3>6
  <2>2. CASE LoadComplete
    <3>1. PICK f, c : DumpStep(f, c)
      BY <2>2, DumpEffect
    <3>2. /\ job # None /\ job.kind = "bootstrap" /\ c = job.cut
          /\ \/ f = "HD" /\ job' = [job EXCEPT !.files = <<"EN">>]
             \/ f = "EN" /\ job.files = <<"EN">> /\ job' = [job EXCEPT !.files = <<>>]
      BY <3>1 DEF DumpStep
    <3>3. job'.kind = "bootstrap" /\ job'.cut = c
      BY <3>2, JobGoesOn DEF DataInv
    <3>4. UpTo("HD", c)'
      <4>1. CASE f = "HD"
        BY <3>1, <4>1, DumpStores
      <4>2. CASE f = "EN"
        <5>1. UpTo("HD", c)
          BY <3>2, <4>2, FilesInOrder DEF StoredInv, FilesLoaded
        <5> QED
          BY <5>1, FilesAre, StaysStored
      <4> QED
        BY <3>2, <4>1, <4>2
    <3> QED
      BY <3>3, <3>4 DEF FilesLoaded, Daily, UpTo
  <2>3. CASE RecordDay
    <3>1. job'.files = Files /\ Daily
      BY <2>3, RecordEffect
    <3>2. job'.kind = "daily"
      BY <2>3, <3>1 DEF RecordDay, DataInv, JobOK, Job, Daily
    <3> QED
      BY <3>1, <3>2, FilesInOrder DEF FilesLoaded
  <2>4. CASE BeginDaily
    BY <2>4, FilesInOrder DEF BeginDaily, FilesLoaded
  <2>5. CASE BeginBootstrap
    BY <2>5, FilesInOrder DEF BeginBootstrap, FilesLoaded, Daily
  <2>6. CASE RefreshViews \/ Crash
    BY <2>6 DEF RefreshViews, Crash, FilesLoaded, Daily
  <2>7. CASE UNCHANGED <<job, tables>>
    BY <2>7 DEF StoredInv, FilesLoaded, Daily, DayIn, UpTo, Stored
  <2> QED
    BY <2>1, <2>2, <2>3, <2>4, <2>5, <2>6, <2>7 DEF Load, Tick, CutDump, DropViews, CreateViews, CheckCompleteDumps
<1>3. Headed'
  <2>1. "EN" \in ToSet(Files) /\ "HD" \in ToSet(Files)
    BY FilesAre
  <2>2. CASE LoadDaily
    <3>1. PICK f, d, new : DailyStep(f, d, new)
      BY <2>2, DailyEffect
    <3>2. SUFFICES ASSUME NEW u \in Keys, tables'["EN"][u] # None, tables["EN"][u] = None
                   PROVE  tables["HD"][u] # None
      BY <2>1, RowsStay DEF StoredInv, Headed
    <3>3. f = "EN" /\ u \in Touched[d]
      BY <2>1, <3>1, <3>2, RowAfterDay
    <3>4. Daily /\ d \in job.days /\ d = Min(job.days) /\ job.files = <<"EN">> /\ d \in Days
      BY <3>1, <3>3 DEF DailyStep, Daily
    <3>5. tables["HD"][u] = Kept(u, d, "HD")
      BY <3>3, <3>4, FilesInOrder DEF StoredInv, FilesLoaded, DayIn
    <3> QED
      BY <2>1, <3>4, <3>5, KeptIsRow
  <2>3. CASE LoadComplete
    <3>1. PICK f, c : DumpStep(f, c)
      BY <2>3, DumpEffect
    <3>2. SUFFICES ASSUME NEW u \in Keys, tables'["EN"][u] # None, tables["EN"][u] = None
                   PROVE  tables["HD"][u] # None
      BY <2>1, RowsStay DEF StoredInv, Headed
    <3>3. f = "EN" /\ Version(u, c) > 0
      BY <2>1, <3>1, <3>2, RowAfterDump
    <3>4. UpTo("HD", c)
      BY <3>1, <3>3, FilesInOrder DEF DumpStep, StoredInv, FilesLoaded
    <3>5. Version(u, c) \in Days /\ Version(u, c) <= c /\ u \in Touched[Version(u, c)]
      BY <2>1, <3>1, <3>3, RowAfterDump
    <3> QED
      BY <3>4, <3>5 DEF UpTo, Stored
  <2>4. CASE UNCHANGED <<tables, events, base, since, undone>>
    BY <2>4 DEF StoredInv, Headed
  <2> QED
    BY <2>2, <2>3, <2>4, OtherLoads
<1> QED
  BY <1>1, <1>2, <1>3 DEF StoredInv

-----------------------------------------------------------------------------
(* What is loaded, and in which order                                       *)

\* Of the requests, nothing here; a step is one of a load or leaves the mirror as it is.
LEMMA LoadsOnly ==
  ASSUME [Next]_vars
  PROVE  Load \/ UNCHANGED loadVars
BY DEF Next, vars, LoadStep, Answer, Begin, Count, ReadPage, Search, ByFrn, ToolWhere, ResolveHolder,
     ReadHeader, ReadRegistration, ReadEntity, ReadChanges, ReadRelated, Close

LEMMA EmptyAtFirst ==
  ASSUME Init
  PROVE  /\ job = None /\ ingested = {} /\ events = {}
         /\ \A f \in ToSet(Files) : /\ base[f] = 0 /\ since[f] = 1 /\ undone[f] = {}
                                    /\ \A u \in Keys : tables[f][u] = None
BY DEF Init, LoadInit, PerFile

LEMMA OrderInitially ==
  ASSUME Init
  PROVE  DaysInOrder /\ StoredInv
<1>1. DaysInOrder
  BY EmptyAtFirst DEF DaysInOrder, Daily
<1>2. \A f \in ToSet(Files) : UpTo(f, base[f])
  BY EmptyAtFirst, DaysAreNat DEF UpTo, Days
<1> QED
  BY <1>1, <1>2, EmptyAtFirst, FilesAre DEF StoredInv, DaysStored, FilesLoaded, Headed, Daily

\* What is recorded or loaded is in the tables, and days are taken in order, always.
LEMMA OrderAlways == Spec => [](DaysInOrder /\ StoredInv)
<1>1. ASSUME DataInv, DaysInOrder, StoredInv, [Next]_vars
      PROVE  DaysInOrder' /\ StoredInv'
  <2>1. CASE Load
    BY <1>1, <2>1, OrderStep, StoredStep
  <2>2. CASE UNCHANGED loadVars
    BY <1>1, <2>2 DEF loadVars, DaysInOrder, StoredInv, DaysStored, FilesLoaded, Headed, Daily, Passed,
       UpTo, Stored, DayIn
  <2> QED
    BY <1>1, <2>1, <2>2, LoadsOnly
<1> QED
  BY <1>1, OrderInitially, DataAlways, PTL DEF Spec

-----------------------------------------------------------------------------
(* A table that has caught up                                              *)

AtLeast(f, u, e) == tables[f][u] # None /\ e <= tables[f][u].text[1]

\* The row of u is no older than day e, if the day is recorded or older than any file
\* loaded on top of the last dump.
KeptUp ==
  \A f \in ToSet(Files), e \in Days : \A u \in Touched[e] :
    e < since[f] \/ (undone[f] = {} /\ e \in ingested) => AtLeast(f, u, e)

LEMMA KeptUpStep ==
  ASSUME DataInv, DaysInOrder, StoredInv, KeptUp, Load
  PROVE  KeptUp'
<1>1. SUFFICES ASSUME NEW g \in ToSet(Files), NEW e \in Days, NEW u \in Touched[e],
                      e < since'[g] \/ (undone'[g] = {} /\ e \in ingested')
               PROVE  AtLeast(g, u, e)'
  BY DEF KeptUp
<1>2. u \in Keys /\ e \in Nat
  BY TouchedAreKeys, DaysAreNat
<1>3. CASE LoadDaily
  <2>1. PICK f, d, new : DailyStep(f, d, new)
    BY <1>3, DailyEffect
  <2>2. /\ Daily /\ d \in job.days /\ d \in Days /\ d \in Nat /\ f \in ToSet(Files)
        /\ since' = [since EXCEPT ![f] = IF d < since[f] THEN d ELSE since[f]]
    BY <2>1, DaysAreNat DEF DailyStep, Daily
  <2>3. undone' = undone /\ ingested' = ingested
    BY <1>3 DEF LoadDaily
  <2>4. since[g] \in Nat /\ since'[g] \in Nat /\ since'[g] <= since[g] /\ (g = f => since'[g] <= d)
    BY <2>2, DaysAreNat DEF DataInv, RestOK
  <2>5. AtLeast(g, u, e)
    <3>1. e < since'[g] => e < since[g]
      BY <1>2, <2>4
    <3>2. e < since[g] \/ (undone[g] = {} /\ e \in ingested)
      BY <1>1, <2>3, <3>1
    <3> QED
      BY <3>2 DEF KeptUp
  <2>6. CASE g = f /\ u \in Touched[d]
    <3>1. tables'[g][u] = Kept(u, d, g) /\ tables'[g][u] # None
      BY <1>2, <2>1, <2>6, RowAfterDay
    <3>2. e <= d
      <4>1. CASE e < since'[g]
        BY <1>2, <2>2, <2>4, <2>6, <4>1
      <4>2. CASE e \in ingested
        BY <1>2, <2>2, <4>2 DEF DaysInOrder
      <4> QED
        BY <1>1, <2>3, <4>1, <4>2
    <3>3. Kept(u, d, g).text[1] = d
      BY <1>2, <2>2, VersionKept
    <3> QED
      BY <3>1, <3>2, <3>3 DEF AtLeast
  <2>7. CASE ~(g = f /\ u \in Touched[d])
    <3>1. tables'[g][u] = tables[g][u]
      BY <1>2, <2>1, <2>7, RowAfterDay
    <3> QED
      BY <2>5, <3>1 DEF AtLeast
  <2> QED
    BY <2>6, <2>7
<1>4. CASE LoadComplete
  <2>1. PICK f, c : DumpStep(f, c)
    BY <1>4, DumpEffect
  <2>2. ingested' = ingested
    BY <1>4 DEF LoadComplete
  <2>3. /\ f \in ToSet(Files) /\ c \in Days /\ c \in Nat
        /\ since' = [since EXCEPT ![f] = c + 1]
        /\ undone' = [undone EXCEPT ![f] = {x \in ingested : x > c}]
    BY <2>1, DaysAreNat DEF DumpStep
  <2>4. CASE g = f
    <3>1. since'[g] = c + 1 /\ undone'[g] = {x \in ingested : x > c}
      BY <2>3, <2>4 DEF DataInv, RestOK
    <3>2. e <= c
      BY <1>1, <1>2, <2>2, <2>3, <3>1
    <3>3. e \in 1..c
      BY <1>1, <1>2, <2>3, <3>2 DEF Days
    <3>4. e <= Version(u, c) /\ Version(u, c) \in 0..c
      BY <1>2, <2>1, <3>3, RowAfterDump
    <3>5. Version(u, c) > 0
      BY <3>3, <3>4
    <3>6. /\ tables'[g][u] = Kept(u, Version(u, c), g) /\ tables'[g][u] # None
          /\ Version(u, c) \in Days
      BY <1>2, <2>1, <2>4, <3>5, RowAfterDump
    <3>7. Kept(u, Version(u, c), g).text[1] = Version(u, c)
      BY <1>2, <3>6, VersionKept
    <3> QED
      BY <3>4, <3>6, <3>7 DEF AtLeast
  <2>5. CASE g # f
    <3>1. since'[g] = since[g] /\ undone'[g] = undone[g]
      BY <2>3, <2>5 DEF DataInv, RestOK
    <3>2. AtLeast(g, u, e)
      BY <1>1, <2>2, <3>1 DEF KeptUp
    <3>3. tables'[g][u] = tables[g][u]
      BY <1>2, <2>1, <2>5, RowAfterDump
    <3> QED
      BY <3>2, <3>3 DEF AtLeast
  <2> QED
    BY <2>4, <2>5
<1>5. CASE RecordDay
  <2>1. PICK d \in Days : /\ Daily /\ d = Min(job.days) /\ d \in job.days /\ job.files = <<>>
                          /\ ingested' = ingested \cup {d} /\ UNCHANGED <<tables, since, undone>>
    BY <1>5, RecordEffect
  <2>2. CASE e = d
    <3>1. DayIn("HD", d) /\ DayIn("EN", d)
      BY <2>1, FilesInOrder DEF StoredInv, FilesLoaded
    <3>2. tables[g][u] = Kept(u, e, g)
      BY <2>2, <3>1, FilesAre DEF DayIn
    <3>3. Kept(u, e, g).text[1] = e /\ Kept(u, e, g) # None
      BY <1>2, VersionKept, KeptIsRow
    <3> QED
      BY <1>2, <2>1, <3>2, <3>3 DEF AtLeast
  <2>3. CASE e # d
    BY <1>1, <2>1, <2>3 DEF KeptUp, AtLeast
  <2> QED
    BY <2>2, <2>3
<1>6. CASE UNCHANGED <<tables, ingested, since, undone>>
  BY <1>1, <1>6 DEF KeptUp, AtLeast
<1> QED
  BY <1>3, <1>4, <1>5, <1>6 DEF Load, Tick, CutDump, BeginDaily, BeginBootstrap, RefreshViews, Crash,
     DropViews, CreateViews, CheckCompleteDumps, ghosts

\* scheduler.py's --bootstrap and --catch-up: whatever crashed and whichever load ran
\* when, a table whose days are recorded from the last dump on holds the newest version
\* of every licence, unless a dump was loaded over a newer recorded day.
THEOREM CaughtUpAlways == Spec => []CaughtUp
<1>1. Init => KeptUp
  <2>1. SUFFICES ASSUME Init PROVE KeptUp
    OBVIOUS
  <2> QED
    BY <2>1, EmptyAtFirst, DaysAreNat DEF KeptUp, Days
<1>2. ASSUME DataInv, DaysInOrder, StoredInv, KeptUp, [Next]_vars
      PROVE  KeptUp'
  <2>1. CASE UNCHANGED loadVars
    BY <1>2, <2>1 DEF loadVars, ghosts, KeptUp, AtLeast
  <2> QED
    BY <1>2, <2>1, LoadsOnly, KeptUpStep
<1>3. ASSUME DataInv, KeptUp
      PROVE  CaughtUp
  <2>1. SUFFICES ASSUME NEW f \in ToSet(Files), undone[f] = {}, since[f]..(today - 1) \subseteq ingested,
                        NEW u \in Keys, f = "EN" => Style[u] # "delimited"
                 PROVE  tables[f][u] = IF Version(u, today - 1) = 0 THEN None
                                       ELSE Meant(u, Version(u, today - 1), f)
    BY DEF CaughtUp
  <2>2. today - 1 \in Nat /\ today - 1 <= Len(Touched) /\ since[f] \in Nat /\ today \in Nat
    BY <1>3, DaysAreNat DEF DataInv, FccOK, RestOK
  <2>3. PICK V : V = Version(u, today - 1)
    OBVIOUS
  <2>4. /\ V \in 0..(today - 1)
        /\ V > 0 => u \in Touched[V]
        /\ \A e \in 1..(today - 1) : u \in Touched[e] => e <= V
    BY <2>2, <2>3, NewestVersion
  <2>5. ASSUME tables[f][u] # None
        PROVE  \E v \in Days : v <= V /\ tables[f][u] = Kept(u, v, f)
    <3>1. PICK v \in Days : v < today /\ u \in Touched[v] /\ tables[f][u] = Kept(u, v, f)
      BY <1>3, <2>5 DEF DataInv, RowsOK
    <3>2. v \in 1..(today - 1)
      BY <2>2, <3>1, DaysAreNat DEF Days
    <3> QED
      BY <2>4, <3>1, <3>2
  <2>6. CASE V = 0
    BY <2>3, <2>5, <2>6, DaysAreNat DEF Days
  <2>7. CASE V # 0
    <3>1. V \in Days /\ u \in Touched[V] /\ V \in Nat
      BY <2>2, <2>4, <2>7, DaysAreNat DEF Days
    <3>2. V < since[f] \/ V \in ingested
      <4>1. V < since[f] \/ V \in since[f]..(today - 1)
        BY <2>2, <2>4, <3>1
      <4> QED
        BY <2>1, <4>1
    <3>3. AtLeast(f, u, V)
      BY <1>3, <2>1, <3>1, <3>2 DEF KeptUp
    <3>4. PICK v \in Days : v <= V /\ tables[f][u] = Kept(u, v, f)
      BY <2>5, <3>3 DEF AtLeast
    <3>5. Kept(u, v, f).text[1] = v
      BY VersionKept
    <3>6. v = V
      BY <3>1, <3>3, <3>4, <3>5, DaysAreNat DEF AtLeast
    <3> QED
      BY <2>1, <2>3, <2>7, <3>4, <3>6 DEF Kept
  <2> QED
    BY <2>6, <2>7
<1> QED
  BY <1>1, <1>2, <1>3, DataAlways, OrderAlways, PTL DEF Spec

-----------------------------------------------------------------------------
(* New hams                                                                *)

\* No file of a day before w will be loaded any more.
Frontier(w) ==
  /\ \A v \in Days : v < w => Passed(v)
  /\ Daily => \A d \in job.days : w <= d

\* How a version w comes into a table: with the file of its day, all of it, and in
\* order; or with a dump that has everything up to it.
CameInOrder(f, w) ==
  \/ Frontier(w) /\ Stored(f, Touched[w])
  \/ base[f] > 0 /\ UpTo(f, w)

RowsPlaced ==
  \A f \in ToSet(Files), u \in Keys :
    tables[f][u] # None => CameInOrder(f, tables[f][u].text[1])

LEMMA FrontierStays ==
  ASSUME DataInv, Load, NEW w \in Days, Frontier(w)
  PROVE  Frontier(w)'
<1>1. \A v \in Days : v < w => Passed(v)'
  BY Passes DEF Frontier
<1>2. ASSUME Daily', NEW d \in job'.days
      PROVE  w <= d
  <2>1. CASE RecordDay
    <3>1. Daily /\ job'.days \subseteq job.days
      BY <2>1, RecordEffect
    <3> QED
      BY <1>2, <3>1 DEF Frontier
  <2>2. CASE BeginDaily
    <3>1. d \in Pending
      BY <1>2, <2>2, BeginEffect
    <3>2. d \in Days /\ ~Passed(d)
      BY <2>2, <3>1, BeginEffect
    <3> QED
      BY <3>2, DaysAreNat DEF Frontier
  <2>3. CASE Daily' => Daily /\ job'.days = job.days
    BY <1>2, <2>3 DEF Frontier
  <2> QED
    BY <2>1, <2>2, <2>3, LoadsAndDays
<1> QED
  BY <1>1, <1>2 DEF Frontier

\* Once a dump is loaded there always is one.
LEMMA BaseStays ==
  ASSUME DataInv, Load, NEW f \in ToSet(Files), base[f] > 0
  PROVE  base'[f] > 0
<1>1. CASE LoadComplete
  <2>1. PICK g, c : DumpStep(g, c)
    BY <1>1, DumpEffect
  <2>2. base' = [base EXCEPT ![g] = c] /\ c \in Days /\ c > 0
    BY <2>1, DaysAreNat DEF DumpStep, Days
  <2> QED
    BY <2>2 DEF DataInv, RestOK
<1>2. CASE base' = base
  BY <1>2
<1> QED
  BY <1>1, <1>2 DEF Load, Tick, CutDump, BeginDaily, LoadDaily, RecordDay, BeginBootstrap,
     RefreshViews, Crash, DropViews, CreateViews, CheckCompleteDumps, ghosts

LEMMA PlaceStays ==
  ASSUME DataInv, Load, NEW f \in ToSet(Files), NEW w \in Days, CameInOrder(f, w)
  PROVE  CameInOrder(f, w)'
<1>1. Touched[w] \in SUBSET Keys
  BY TouchedAreKeys
<1>2. CASE Frontier(w) /\ Stored(f, Touched[w])
  <2>1. Frontier(w)' /\ Stored(f, Touched[w])'
    BY <1>1, <1>2, FrontierStays, StaysStored
  <2> QED
    BY <2>1 DEF CameInOrder
<1>3. CASE base[f] > 0 /\ UpTo(f, w)
  <2>1. (base[f] > 0)' /\ UpTo(f, w)'
    BY <1>3, BaseStays, StaysStored
  <2> QED
    BY <2>1 DEF CameInOrder
<1> QED
  BY <1>2, <1>3 DEF CameInOrder

\* The day a load is at is not behind any other that may still be loaded.
LEMMA DayIsNext ==
  ASSUME DataInv, DaysInOrder, NEW f, NEW d, NEW new, DailyStep(f, d, new)
  PROVE  Frontier(d)
<1>1. Daily /\ d \in job.days /\ d \in Nat /\ job.days \subseteq Days /\ Days \subseteq Nat
  BY DaysAreNat DEF DailyStep, Daily, DataInv, JobOK, Job
<1>2. \A e \in job.days : d <= e
  BY DEF DailyStep
<1>3. ASSUME NEW v \in Days, v < d
      PROVE  Passed(v)
  <2>1. v \notin job.days
    BY <1>1, <1>2, <1>3
  <2> QED
    BY <1>1, <1>3, <2>1 DEF DaysInOrder
<1> QED
  BY <1>2, <1>3 DEF Frontier

LEMMA PlacesStep ==
  ASSUME DataInv, DaysInOrder, RowsPlaced, Load
  PROVE  RowsPlaced'
<1>1. SUFFICES ASSUME NEW g \in ToSet(Files), NEW u \in Keys, tables'[g][u] # None
               PROVE  CameInOrder(g, tables[g][u].text[1])'
  BY DEF RowsPlaced
<1>2. CASE tables'[g][u] = tables[g][u]
  <2>1. PICK w \in Days : w = tables[g][u].text[1]
    <3>1. PICK v \in Days : tables[g][u] = Kept(u, v, g)
      BY <1>1, <1>2 DEF DataInv, RowsOK
    <3> QED
      BY <3>1, VersionKept
  <2>2. CameInOrder(g, w)
    BY <1>1, <1>2, <2>1 DEF RowsPlaced
  <2>3. CameInOrder(g, w)'
    BY <2>2, PlaceStays
  <2>4. tables'[g][u].text[1] = w
    BY <1>2, <2>1
  <2> QED
    BY <2>3, <2>4
<1>3. CASE LoadDaily
  <2>1. PICK f, d, new : DailyStep(f, d, new)
    BY <1>3, DailyEffect
  <2>2. CASE g = f /\ u \in Touched[d]
    <3>1. d \in Days /\ tables'[g][u] = Kept(u, d, g)
      <4>1. d \in Days
        BY <2>1 DEF DailyStep
      <4> QED
        BY <2>1, <2>2, <4>1, RowAfterDay
    <3>2. tables'[g][u].text[1] = d
      BY <3>1, VersionKept
    <3>3. Frontier(d)'
      BY <2>1, <3>1, DayIsNext, FrontierStays
    <3>4. Stored(g, Touched[d])'
      BY <2>1, <2>2, <3>1, RowAfterDay, TouchedAreKeys DEF Stored
    <3>5. CameInOrder(g, d)'
      BY <3>3, <3>4 DEF CameInOrder
    <3> QED
      BY <3>2, <3>5
  <2> QED
    BY <1>2, <2>1, <2>2, RowAfterDay
<1>4. CASE LoadComplete
  <2>1. PICK f, c : DumpStep(f, c)
    BY <1>4, DumpEffect
  <2>2. CASE g = f /\ Version(u, c) > 0
    <3>1. PICK w \in Days : w = Version(u, c)
      BY <2>1, <2>2, RowAfterDump
    <3>2. w \in 0..c /\ tables'[g][u] = Kept(u, w, g)
      BY <2>1, <2>2, <3>1, RowAfterDump
    <3>8. c \in Days /\ f \in ToSet(Files) /\ base' = [base EXCEPT ![f] = c]
      BY <2>1 DEF DumpStep
    <3>3. tables'[g][u].text[1] = w
      BY <3>1, <3>2, VersionKept
    <3>4. base'[g] > 0
      BY <2>2, <3>8, DaysAreNat DEF Days, DataInv, RestOK
    <3>5. UpTo(g, c)'
      BY <2>1, <2>2, DumpStores
    <3>6. UpTo(g, w)'
      BY <3>1, <3>2, <3>5, <3>8, DaysAreNat DEF UpTo
    <3>7. CameInOrder(g, w)'
      BY <3>4, <3>6 DEF CameInOrder
    <3> QED
      BY <3>3, <3>7
  <2> QED
    BY <1>2, <2>1, <2>2, RowAfterDump
<1> QED
  BY <1>2, <1>3, <1>4, OtherLoads

\* Where a grant is news, the table holds licences of earlier days only, and if the day
\* is informed all of them.
LEMMA EarlierLicences ==
  ASSUME DataInv, DaysInOrder, StoredInv, RowsPlaced, NEW f, NEW d, NEW new, DailyStep(f, d, new), f = "EN",
         NEW k \in Touched[d], tables[f][k] = None, NEW u \in Keys
  PROVE  /\ tables[f][u] # None => Version(u, d - 1) > 0
         /\ Informed(d) /\ Version(u, d - 1) > 0 => tables[f][u] # None
<1>1. d \in Days /\ d \in Nat /\ d - 1 \in Nat /\ d - 1 <= Len(Touched) /\ f \in ToSet(Files) /\ d >= 1
  BY DaysAreNat DEF DailyStep, Days
<1>2. PICK V : V = Version(u, d - 1)
  OBVIOUS
<1>3. V \in 0..(d - 1) /\ (V > 0 => u \in Touched[V]) /\ \A e \in 1..(d - 1) : u \in Touched[e] => e <= V
  BY <1>1, <1>2, NewestVersion
<1>4. ~Stored(f, Touched[d])
  BY DEF Stored
<1>5. ASSUME tables[f][u] # None
      PROVE  V > 0
  <2>1. PICK v \in Days : u \in Touched[v] /\ tables[f][u] = Kept(u, v, f)
    BY <1>1, <1>5 DEF DataInv, RowsOK
  <2>2. CameInOrder(f, v)
    BY <1>1, <1>5, <2>1, VersionKept DEF RowsPlaced
  <2>3. CASE Frontier(v) /\ Stored(f, Touched[v])
    <3>1. Daily /\ d \in job.days
      BY DEF DailyStep, Daily
    <3>2. v <= d /\ v # d
      BY <1>4, <2>3, <3>1 DEF Frontier
    <3>3. v \in 1..(d - 1)
      BY <1>1, <2>1, <3>2, DaysAreNat DEF Days
    <3> QED
      BY <1>3, <2>1, <3>3
  <2>4. CASE UpTo(f, v)
    <3>1. ~(d <= v)
      BY <1>1, <1>4, <2>4 DEF UpTo
    <3>2. v \in 1..(d - 1)
      BY <1>1, <2>1, <3>1, DaysAreNat DEF Days
    <3> QED
      BY <1>3, <2>1, <3>2
  <2> QED
    BY <2>2, <2>3, <2>4 DEF CameInOrder
<1>6. ASSUME Informed(d), V > 0
      PROVE  tables[f][u] # None
  <2>1. V \in Days /\ u \in Touched[V] /\ V \in Nat
    BY <1>1, <1>3, <1>6, DaysAreNat DEF Days
  <2>2. base["EN"] \in Nat
    <3>1. "EN" \in ToSet(Files)
      BY FilesAre
    <3>2. base["EN"] \in CutDays \cup {0}
      BY <3>1 DEF DataInv, RestOK
    <3>3. \A c \in CutDays : c \in Nat
      BY DaysAreNat, LoadAssumption
    <3> QED
      BY <3>2, <3>3
  <2>3. CASE V <= base["EN"]
    BY <1>1, <2>1, <2>3 DEF StoredInv, DaysStored, UpTo, Stored
  <2>4. CASE V \in (base["EN"] + 1)..(d - 1)
    <3>1. V \in ingested
      BY <1>6, <2>4 DEF Informed
    <3> QED
      BY <1>1, <2>1, <3>1 DEF StoredInv, DaysStored, Stored
  <2> QED
    BY <1>1, <1>3, <2>1, <2>2, <2>3, <2>4
<1> QED
  BY <1>2, <1>5, <1>6

GrantsOK ==
  \A e \in Grants :
    /\ e.file = "EN" /\ e.key \in Keys /\ e.day \in Days /\ e.frn = FrnOf(e.key)
    /\ tables["EN"][e.key] # None /\ Stored("EN", Touched[e.day])

\* A load adds the grants of the licences that its file has and the table had not.
LEMMA GrantsAfter ==
  ASSUME DataInv, Load
  PROVE  \/ Grants' = Grants
         \/ \E d, new : /\ DailyStep("EN", d, new)
                        /\ Grants' = Grants \cup {e \in new : tables["EN"][e.key] = None}
<1>1. CASE LoadDaily
  <2>1. PICK f, d, new : DailyStep(f, d, new)
    BY <1>1, DailyEffect
  <2>2. /\ events' = events \cup new
        /\ \A e \in new : tables[f][e.key] = None <=> e.field = "license_granted"
        /\ \A e \in new : tables[f][e.key] = None => f = "EN"
    BY <2>1 DEF DailyStep, DayEvents
  <2>3. CASE f = "EN"
    <3>1. Grants' = Grants \cup {e \in new : tables["EN"][e.key] = None}
      BY <2>2, <2>3 DEF Grants
    <3> QED
      BY <2>1, <2>3, <3>1
  <2>4. CASE f # "EN"
    BY <2>2, <2>4 DEF Grants
  <2> QED
    BY <2>3, <2>4
<1>2. CASE events' = events
  BY <1>2 DEF Grants
<1>3. CASE LoadComplete
  BY <1>3, <1>2 DEF LoadComplete
<1> QED
  BY <1>1, <1>2, <1>3, OtherLoads

LEMMA GrantsStep ==
  ASSUME DataInv, GrantsOK, Load
  PROVE  GrantsOK'
<1>1. "EN" \in ToSet(Files)
  BY FilesAre
<1>2. ASSUME NEW e \in Grants
      PROVE  /\ e.file = "EN" /\ e.key \in Keys /\ e.day \in Days /\ e.frn = FrnOf(e.key)
             /\ tables'["EN"][e.key] # None /\ Stored("EN", Touched[e.day])'
  <2>1. /\ e.file = "EN" /\ e.key \in Keys /\ e.day \in Days /\ e.frn = FrnOf(e.key)
        /\ tables["EN"][e.key] # None /\ Stored("EN", Touched[e.day])
    BY <1>2 DEF GrantsOK
  <2>2. tables'["EN"][e.key] # None
    BY <1>1, <2>1, RowsStay
  <2>3. Stored("EN", Touched[e.day])'
    BY <1>1, <2>1, TouchedAreKeys, StaysStored
  <2> QED
    BY <2>1, <2>2, <2>3
<1>3. ASSUME NEW d, NEW new, DailyStep("EN", d, new), NEW e \in new, tables["EN"][e.key] = None
      PROVE  /\ e.file = "EN" /\ e.key \in Keys /\ e.day \in Days /\ e.frn = FrnOf(e.key)
             /\ tables'["EN"][e.key] # None /\ Stored("EN", Touched[e.day])'
  <2>1. d \in Days /\ e.file = "EN" /\ e.key \in Touched[d] /\ e.day = d /\ e.frn = FrnOf(e.key)
    BY <1>3 DEF DailyStep, DayEvents
  <2>2. \A u \in Touched[d] : u \in Keys /\ tables'["EN"][u] # None
    BY <1>1, <1>3, <2>1, RowAfterDay, TouchedAreKeys
  <2> QED
    BY <2>1, <2>2 DEF Stored
<1>4. CASE Grants' = Grants
  BY <1>2, <1>4 DEF GrantsOK
<1>5. CASE \E d, new : /\ DailyStep("EN", d, new)
                       /\ Grants' = Grants \cup {e \in new : tables["EN"][e.key] = None}
  BY <1>2, <1>3, <1>5 DEF GrantsOK
<1> QED
  BY <1>4, <1>5, GrantsAfter

\* The licensee of a grant has no licence whose text a delimiter touches.
Clean(e) == \A u \in Keys : Style[u] = "delimited" => Frn[e.key] \notin {Frn[u], Rest}
FirstOf(e) == \A u \in Keys : Frn[u] = Frn[e.key] => Version(u, e.day - 1) = 0
Celebrated(e, grants) == \E g \in grants : g.isNew /\ g.frn = e.frn /\ g.day = e.day

Once(grants) == \A e, g \in grants : e # g => e.key # g.key /\ (e.isNew /\ g.isNew => e.frn # g.frn)
HamsInv ==
  /\ Once(Grants)
  /\ \A e \in Grants : e.informed /\ Clean(e) => (FirstOf(e) <=> Celebrated(e, Grants))

LEMMA RowsOfFrn ==
  ASSUME DataInv, NEW c
  PROVE  HasPriorLicense(tables["EN"], c) <=> \E u \in Keys : tables["EN"][u] # None /\ FrnOf(u) = c
<1>1. ASSUME NEW u \in Keys, tables["EN"][u] # None
      PROVE  tables["EN"][u].frn = FrnOf(u)
  <2>1. PICK v \in Days : tables["EN"][u] = Kept(u, v, "EN")
    BY <1>1, FilesAre DEF DataInv, RowsOK
  <2> QED
    BY <2>1, FrnKept
<1> QED
  BY <1>1 DEF HasPriorLicense

\* What frn_has_prior_amateur_license answers when it is asked for an informed grant.
LEMMA PriorMeansEarlier ==
  ASSUME DataInv, DaysInOrder, StoredInv, RowsPlaced, NEW d, NEW new, DailyStep("EN", d, new),
         NEW e \in new, tables["EN"][e.key] = None, e.informed, Clean(e)
  PROVE  HasPriorLicense(tables["EN"], e.frn) <=> ~FirstOf(e)
<1>1. d \in Days /\ e.key \in Touched[d] /\ e.key \in Keys /\ e.day = d /\ e.frn = FrnOf(e.key) /\ Informed(d)
  BY TouchedAreKeys DEF DailyStep, DayEvents
<1>2. Style[e.key] # "delimited" /\ e.frn = <<Frn[e.key]>>
  BY <1>1 DEF Clean, FrnOf
<1>3. ASSUME NEW u \in Keys
      PROVE  FrnOf(u) = e.frn <=> Frn[u] = Frn[e.key]
  <2>1. CASE Style[u] = "delimited"
    <3>1. Frn[e.key] # Frn[u] /\ Frn[e.key] # Rest
      BY <2>1 DEF Clean
    <3> QED
      BY <1>2, <2>1, <3>1 DEF FrnOf
  <2>2. CASE Style[u] # "delimited"
    BY <1>2, <2>2 DEF FrnOf
  <2> QED
    BY <2>1, <2>2
<1>4. ASSUME NEW u \in Keys
      PROVE  tables["EN"][u] # None <=> Version(u, d - 1) > 0
  BY <1>1, <1>4, EarlierLicences
<1>5. ASSUME NEW u \in Keys
      PROVE  Version(u, d - 1) > 0 <=> Version(u, d - 1) # 0
  <2>1. Version(u, d - 1) \in 0..(d - 1) /\ d \in Nat
    BY <1>1, <1>5, DaysAreNat, NewestVersion DEF Days
  <2> QED
    BY <2>1
<1> QED
  BY <1>1, <1>3, <1>4, <1>5, RowsOfFrn DEF FirstOf

LEMMA HamsStep ==
  ASSUME DataInv, DaysInOrder, StoredInv, RowsPlaced, GrantsOK, HamsInv,
         NEW d, NEW new, DailyStep("EN", d, new), NEW more, more = {e \in new : tables["EN"][e.key] = None}
  PROVE  /\ Once(Grants \cup more)
         /\ \A e \in Grants \cup more :
              e.informed /\ Clean(e) => (FirstOf(e) <=> Celebrated(e, Grants \cup more))
<1>1. \A e \in more : /\ e \in new /\ tables["EN"][e.key] = None
                      /\ e.key \in Touched[d] /\ e.key \in Keys /\ e.day = d /\ e.frn = FrnOf(e.key)
                      /\ e.isNew => ~HasPriorLicense(tables["EN"], e.frn)
                      /\ HasPriorLicense(tables["EN"], e.frn) \/ \E g \in new : g.isNew /\ g.frn = e.frn
  BY TouchedAreKeys DEF DailyStep, DayEvents
<1>2. \A e, g \in more : e # g => e.key # g.key /\ (e.isNew /\ g.isNew => e.frn # g.frn)
  BY DEF DailyStep, DayEvents
<1>3. \A e \in new : e.isNew => e \in more /\ e.day = d
  BY DEF DailyStep, DayEvents
<1>4. \A e \in Grants : tables["EN"][e.key] # None /\ e.key \in Keys /\ HasPriorLicense(tables["EN"], e.frn)
  BY RowsOfFrn DEF GrantsOK
<1>5. ASSUME NEW e \in Grants, NEW g \in more
      PROVE  e.key # g.key /\ ~(e.isNew /\ g.isNew /\ e.frn = g.frn) /\ e.day # g.day
  <2>1. e.key # g.key /\ (g.isNew => e.frn # g.frn)
    BY <1>1, <1>4, <1>5
  <2>2. e.day # d
    BY <1>1, <1>5 DEF GrantsOK, Stored
  <2> QED
    BY <1>1, <2>1, <2>2
<1>6. Once(Grants \cup more)
  BY <1>2, <1>5 DEF HamsInv, Once
<1>7. ASSUME NEW e \in Grants
      PROVE  Celebrated(e, Grants \cup more) <=> Celebrated(e, Grants)
  BY <1>5, <1>7 DEF Celebrated
<1>8. ASSUME NEW e \in more, e.informed, Clean(e)
      PROVE  FirstOf(e) <=> Celebrated(e, Grants \cup more)
  <2>1. HasPriorLicense(tables["EN"], e.frn) <=> ~FirstOf(e)
    BY <1>1, <1>8, PriorMeansEarlier
  <2>2. Celebrated(e, Grants \cup more) <=> \E g \in more : g.isNew /\ g.frn = e.frn
    BY <1>1, <1>5, <1>8 DEF Celebrated
  <2>3. (\E g \in more : g.isNew /\ g.frn = e.frn) <=> ~HasPriorLicense(tables["EN"], e.frn)
    BY <1>1, <1>3, <1>8
  <2> QED
    BY <2>1, <2>2, <2>3
<1> QED
  BY <1>6, <1>7, <1>8 DEF HamsInv

LEMMA HamsAlways == Spec => [](RowsPlaced /\ GrantsOK /\ HamsInv)
<1>1. Init => RowsPlaced /\ GrantsOK /\ HamsInv
  <2>1. SUFFICES ASSUME Init PROVE RowsPlaced /\ GrantsOK /\ HamsInv
    OBVIOUS
  <2>2. Grants = {}
    BY <2>1, EmptyAtFirst DEF Grants
  <2> QED
    BY <2>1, <2>2, EmptyAtFirst DEF RowsPlaced, GrantsOK, HamsInv, Once
<1>2. ASSUME DataInv, DaysInOrder, StoredInv, RowsPlaced, GrantsOK, HamsInv, [Next]_vars
      PROVE  RowsPlaced' /\ GrantsOK' /\ HamsInv'
  <2>1. CASE Load
    <3>1. RowsPlaced' /\ GrantsOK'
      BY <1>2, <2>1, PlacesStep, GrantsStep
    <3>2. HamsInv'
      <4>1. CASE Grants' = Grants
        BY <1>2, <4>1 DEF HamsInv, Once, FirstOf, Clean, Celebrated
      <4>2. ASSUME NEW d, NEW new, DailyStep("EN", d, new),
                   Grants' = Grants \cup {e \in new : tables["EN"][e.key] = None}
            PROVE  HamsInv'
        <5>1. PICK more : more = {e \in new : tables["EN"][e.key] = None}
          OBVIOUS
        <5>2. /\ Once(Grants \cup more)
              /\ \A e \in Grants \cup more :
                   e.informed /\ Clean(e) => (FirstOf(e) <=> Celebrated(e, Grants \cup more))
          BY <1>2, <4>2, <5>1, HamsStep
        <5>3. Grants' = Grants \cup more
          BY <4>2, <5>1
        <5> QED
          BY <5>2, <5>3 DEF HamsInv, Once, FirstOf, Clean, Celebrated
      <4> QED
        BY <1>2, <2>1, <4>1, <4>2, GrantsAfter
    <3> QED
      BY <3>1, <3>2
  <2>2. CASE UNCHANGED loadVars
    <3>1. Grants' = Grants
      BY <2>2 DEF Grants, loadVars
    <3>2. RowsPlaced'
      BY <1>2, <2>2 DEF loadVars, ghosts, RowsPlaced, CameInOrder, Frontier, Daily, Passed, UpTo, Stored
    <3>3. GrantsOK'
      BY <1>2, <2>2, <3>1 DEF loadVars, GrantsOK, Stored
    <3>4. HamsInv'
      BY <1>2, <3>1 DEF HamsInv, Once, FirstOf, Clean, Celebrated
    <3> QED
      BY <3>2, <3>3, <3>4
  <2> QED
    BY <1>2, <2>1, <2>2, LoadsOnly
<1> QED
  BY <1>1, <1>2, DataAlways, OrderAlways, PTL DEF Spec

\* ingest.py's is_new_operator: however loads, dumps and crashes interleave, a licence is
\* granted once, a licensee celebrated once, and on a day before which nothing is missing
\* a licensee is celebrated just if no licence came before.
THEOREM NewHamsAreNewAlways == Spec => []NewHamsAreNew
<1>1. HamsInv => NewHamsAreNew
  BY DEF HamsInv, Once, Clean, FirstOf, Celebrated, NewHamsAreNew
<1> QED
  BY <1>1, HamsAlways, PTL

==============================================================================
