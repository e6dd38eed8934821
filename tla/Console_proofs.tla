----------------------------- MODULE Console_proofs -----------------------------
(***************************************************************************)
(* Proofs about the shell's line editor (LineInput), for any keys, prompt, *)
(* range of a CHAR and length of a line, and about the text of a message   *)
(* (Format), for any size of the block and range of an int, any characters *)
(* and any calls.                                                          *)
(***************************************************************************)
EXTENDS LineInput, Format, SequenceTheorems, FiniteSetTheorems, WellFoundedInduction, TLAPS

LEMMA ModLemma ==
  ASSUME NEW a \in Int, NEW m \in Nat \ {0}
  PROVE  /\ a % m \in 0..(m - 1)
         /\ a \in 0..(m - 1) => a % m = a
         /\ a = m => a % m = 0
  BY SMTT(60)

LEMMA CharLemma ==
  ASSUME NEW n \in Int
  PROVE  /\ Char(n) \in Index
         /\ n \in Index => Char(n) = n
         /\ n = HalfChar => Char(n) = -HalfChar
<1> DEFINE m == 2 * HalfChar
<1>1. HalfChar \in Nat \ {0} /\ m \in Nat \ {0} /\ n + HalfChar \in Int
  BY HalfCharAssumption
<1>2. /\ (n + HalfChar) % m \in 0..(m - 1)
      /\ n + HalfChar \in 0..(m - 1) => (n + HalfChar) % m = n + HalfChar
      /\ n + HalfChar = m => (n + HalfChar) % m = 0
  BY <1>1, ModLemma
<1>3. Char(n) = ((n + HalfChar) % m) - HalfChar
  BY DEF Char
<1> HIDE DEF m
<1>4. m = 2 * HalfChar
  BY DEF m
<1>5. QED
  BY <1>1, <1>2, <1>3, <1>4 DEF Index

-----------------------------------------------------------------------------
\* Overwriting a row from position c on.
LEMMA OverwriteLemma ==
  ASSUME NEW row \in Seq(Glyphs), NEW s \in Seq(Glyphs), NEW c \in 0..Len(row),
         NEW n \in Nat, n = Len(s)
  PROVE  /\ Overwrite(row, s, c) \in Seq(Glyphs)
         /\ c + n >= Len(row) => Len(Overwrite(row, s, c)) = c + n
         /\ c + n < Len(row) => Len(Overwrite(row, s, c)) = Len(row)
         /\ \A i \in 1..c : Overwrite(row, s, c)[i] = row[i]
         /\ \A i \in 1..n : Overwrite(row, s, c)[c + i] = s[i]
         /\ \A i \in (c + n + 1)..Len(row) : Overwrite(row, s, c)[i] = row[i]
<1> DEFINE new == Overwrite(row, s, c)
           left == SubSeq(row, 1, c)
           right == SubSeq(row, c + Len(s) + 1, Len(row))
           both == left \o s
<1>1. Len(row) \in Nat /\ Len(s) \in Nat /\ c \in Nat /\ c <= Len(row)
  BY LenProperties
<1>2. /\ left \in Seq(Glyphs) /\ Len(left) = c
      /\ \A i \in 1..c : left[i] = row[i]
  <2>1. \A i \in 1..c : row[i] \in Glyphs
    BY <1>1, ElementOfSeq
  <2>2. QED
    BY <1>1, <2>1, SubSeqProperties
<1>3. /\ right \in Seq(Glyphs)
      /\ c + n >= Len(row) => Len(right) = 0
      /\ c + n < Len(row) => Len(right) = Len(row) - c - n
      /\ \A i \in (c + n + 1)..Len(row) : right[i - c - n] = row[i]
  <2>1. \A i \in (c + n + 1)..Len(row) : row[i] \in Glyphs
    BY <1>1, ElementOfSeq
  <2>2. /\ right \in Seq(Glyphs)
        /\ Len(right) = IF c + n + 1 <= Len(row) THEN Len(row) - (c + n + 1) + 1 ELSE 0
        /\ \A i \in 1..(Len(row) - (c + n + 1) + 1) : right[i] = row[c + n + 1 + i - 1]
    BY <1>1, <2>1, SubSeqProperties
  <2>3. ASSUME NEW i \in (c + n + 1)..Len(row)
        PROVE  right[i - c - n] = row[i]
    <3>1. i - c - n \in 1..(Len(row) - (c + n + 1) + 1) /\ c + n + 1 + (i - c - n) - 1 = i
      BY <1>1
    <3>2. QED
      BY <2>2, <3>1
  <2>4. QED
    BY <1>1, <2>2, <2>3, SMTT(30)
<1> HIDE DEF left, right
<1>4. /\ both \in Seq(Glyphs) /\ Len(both) = c + n
      /\ \A i \in 1..(c + n) : both[i] = IF i <= c THEN left[i] ELSE s[i - c]
  BY <1>2, ConcatProperties
<1> HIDE DEF both
<1>5. /\ both \o right \in Seq(Glyphs)
      /\ Len(both \o right) = c + n + Len(right)
      /\ \A i \in 1..(c + n + Len(right)) :
           (both \o right)[i] = IF i <= c + n THEN both[i] ELSE right[i - (c + n)]
  <2>1. both \in Seq(Glyphs) /\ right \in Seq(Glyphs)
    BY <1>3, <1>4
  <2>2. /\ both \o right \in Seq(Glyphs)
        /\ Len(both \o right) = Len(both) + Len(right)
        /\ \A i \in 1..(Len(both) + Len(right)) :
             (both \o right)[i] = IF i <= Len(both) THEN both[i] ELSE right[i - Len(both)]
    BY <2>1, ConcatProperties
  <2>3. Len(both) = c + n
    BY <1>4
  <2>4. QED
    BY <2>2, <2>3
<1>6. new = both \o right
  BY DEF Overwrite, both, left, right
<1> HIDE DEF new
<1>7. Len(right) \in Nat
  BY <1>3, LenProperties
<1>8. ASSUME NEW i \in 1..c
      PROVE  new[i] = row[i]
  BY <1>1, <1>2, <1>4, <1>5, <1>6, <1>7
<1>9. ASSUME NEW i \in 1..n
      PROVE  new[c + i] = s[i]
  <2>1. c + i \in 1..(c + n) /\ c + i \in 1..(c + n + Len(right)) /\ ~(c + i <= c) /\ (c + i) - c = i
    BY <1>1, <1>7
  <2>2. QED
    BY <1>4, <1>5, <1>6, <2>1
<1>10. ASSUME NEW i \in (c + n + 1)..Len(row)
       PROVE  new[i] = row[i]
  <2>1. /\ i \in 1..(c + n + Len(right)) /\ ~(i <= c + n)
        /\ i - (c + n) = i - c - n
    BY <1>1, <1>3
  <2>2. QED
    BY <1>3, <1>5, <1>6, <2>1
<1>11. /\ c + n >= Len(row) => Len(new) = c + n
       /\ c + n < Len(row) => Len(new) = Len(row)
  <2>1. Len(new) = c + n + Len(right)
    BY <1>5, <1>6
  <2>2. QED
    BY <1>1, <1>3, <2>1
<1>12. QED
  BY <1>5, <1>6, <1>8, <1>9, <1>10, <1>11 DEF new

-----------------------------------------------------------------------------
\* The cursor is not beyond what is on its row.
Placed(d) == d \in Display /\ d.cursor <= Len(d.row)

\* The row shows the buffer and the cursor is behind it.
Shows(d) ==
  /\ d \in Display
  /\ d.cursor = Len(d.buffer) /\ Len(d.buffer) <= Len(d.row)
  /\ \A i \in 1..Len(d.buffer) : d.row[i] = d.buffer[i]

\* Nothing else is on the row from position n on.
BlankFrom(d, n) == \A i \in (n + 1)..Len(d.row) : d.row[i] = Blank

LEMMA DisplayType ==
  ASSUME NEW d \in Display
  PROVE  /\ d.buffer \in Seq(Glyphs) /\ Len(d.buffer) \in Nat
         /\ d.row \in Seq(Glyphs) /\ Len(d.row) \in Nat
         /\ d.cursor \in Nat /\ d.cursor < Columns /\ d.begins \in {"here", "above"}
  BY LenProperties, ColumnsAssumption DEF Display

\* The display as the cursor goes back and as the buffer changes.
LEMMA ReturnLemma ==
  ASSUME NEW d \in Display, NEW e, e = CarriageReturn(d)
  PROVE  /\ e \in Display /\ e.buffer = d.buffer /\ e.row = d.row
         /\ e.cursor = 0 /\ e.begins = d.begins
<1>1. e = [buffer |-> d.buffer, row |-> d.row, cursor |-> 0, begins |-> d.begins]
  BY DEF CarriageReturn, Display
<1>2. 0 \in 0..(Columns - 1)
  BY ColumnsAssumption
<1>3. QED
  BY <1>1, <1>2 DEF Display

LEMMA BufferLemma ==
  ASSUME NEW d \in Display, NEW b \in Seq(Glyphs), NEW e, e = [d EXCEPT !.buffer = b]
  PROVE  /\ e \in Display /\ e.buffer = b /\ e.row = d.row
         /\ e.cursor = d.cursor /\ e.begins = d.begins
<1>1. e = [buffer |-> b, row |-> d.row, cursor |-> d.cursor, begins |-> d.begins]
  BY DEF Display
<1>2. QED
  BY <1>1 DEF Display

LEMMA BlankLemma == Blank \in Glyphs
  BY DEF Blank, Glyphs

\* What a string drawn does to the screen: nothing but the row, the cursor and
\* the rows above; as long as nothing goes above, the row is overwritten.
LEMMA DrawLemma ==
  ASSUME NEW d, Placed(d), NEW s \in Seq(Glyphs), NEW e, e = Draw(d, s)
  PROVE  /\ Placed(e) /\ e.buffer = d.buffer
         /\ d.begins = "above" => e.begins = "above"
         /\ e.begins # "above" => /\ e.row = Overwrite(d.row, s, d.cursor)
                                 /\ e.cursor = d.cursor + Len(s) /\ d.begins # "above"
<1> DEFINE row == d.row
           c == d.cursor
           n == Len(s)
           flat == Overwrite(row, s, c)
           end == c + n
           column == end % Columns
<1>1. /\ d \in Display /\ row \in Seq(Glyphs) /\ Len(row) \in Nat /\ n \in Nat
      /\ c \in Nat /\ c <= Len(row) /\ end \in Nat
  BY DisplayType, LenProperties DEF Placed
<1>2. /\ flat \in Seq(Glyphs) /\ Len(flat) \in Nat /\ end <= Len(flat)
  <2>1. c \in 0..Len(row)
    BY <1>1
  <2> HIDE DEF row, c, n
  <2>2. /\ Overwrite(row, s, c) \in Seq(Glyphs)
        /\ c + n >= Len(row) => Len(Overwrite(row, s, c)) = c + n
        /\ c + n < Len(row) => Len(Overwrite(row, s, c)) = Len(row)
    BY <1>1, <2>1, OverwriteLemma DEF n
  <2>3. QED
    BY <1>1, <2>2, LenProperties
<1>3. CASE end < Columns
  <2>1. e = [buffer |-> d.buffer, row |-> flat, cursor |-> end, begins |-> d.begins]
    BY <1>3 DEF Draw
  <2> HIDE DEF flat, end
  <2>2. end \in 0..(Columns - 1) /\ d.buffer \in Seq(Glyphs) /\ d.begins \in {"here", "above"}
    BY <1>1, <1>3, ColumnsAssumption, DisplayType
  <2>3. /\ e \in Display /\ e.row = flat /\ e.cursor = end /\ e.buffer = d.buffer
        /\ e.begins = d.begins
    BY <1>2, <2>1, <2>2 DEF Display
  <2>4. QED
    BY <1>2, <2>3 DEF Placed, flat, end
<1>4. CASE ~(end < Columns)
  <2>1. e = [buffer |-> d.buffer, row |-> SubSeq(flat, end - column + 1, end),
             cursor |-> column, begins |-> "above"]
    BY <1>4 DEF Draw
  <2> HIDE DEF flat, end
  <2>2. column \in 0..(Columns - 1)
    BY <1>1, ColumnsAssumption, ModLemma
  <2> HIDE DEF column
  <2>3. \A i \in (end - column + 1)..end : flat[i] \in Glyphs
    BY <1>1, <1>2, <1>4, <2>2, ColumnsAssumption, ElementOfSeq
  <2>4. PICK left : left = SubSeq(flat, end - column + 1, end)
    OBVIOUS
  <2>5. /\ left \in Seq(Glyphs)
        /\ Len(left) = IF end - column + 1 <= end THEN end - (end - column + 1) + 1 ELSE 0
    BY <1>1, <1>4, <2>2, <2>3, <2>4, ColumnsAssumption, SubSeqProperties
  <2>6. Len(left) = column /\ column <= column
    BY <1>1, <2>2, <2>5, ColumnsAssumption
  <2>7. d.buffer \in Seq(Glyphs)
    BY <1>1, DisplayType
  <2>8. /\ e \in Display /\ e.row = left /\ e.cursor = column /\ e.buffer = d.buffer
        /\ e.begins = "above"
    <3>1. e = [buffer |-> d.buffer, row |-> left, cursor |-> column, begins |-> "above"]
      BY <2>1, <2>4
    <3>2. QED
      BY <2>2, <2>5, <2>7, <3>1 DEF Display
  <2>9. QED
    BY <2>6, <2>8 DEF Placed
<1>5. QED
  BY <1>3, <1>4

LEMMA ShowsPlaced == \A d : Shows(d) => Placed(d)
  BY DEF Shows, Placed

\* Printing s, wherever the line has got to.
LEMMA PrintPlaced ==
  ASSUME NEW d, Placed(d), NEW s \in Seq(Glyphs),
         NEW e, e = RtlCliPrintString(d, s)
  PROVE  /\ Placed(e) /\ e.buffer = d.buffer \o s
         /\ d.begins = "above" => e.begins = "above"
         /\ e.begins # "above" => /\ e.row = Overwrite(d.row, s, d.cursor)
                                 /\ e.cursor = d.cursor + Len(s) /\ d.begins # "above"
<1>1. d \in Display /\ d.buffer \in Seq(Glyphs) /\ d.buffer \o s \in Seq(Glyphs)
  BY DisplayType, ConcatProperties DEF Placed
<1>2. PICK b \in Seq(Glyphs) : b = d.buffer \o s
  BY <1>1
<1>3. PICK longer : longer = [d EXCEPT !.buffer = b]
  OBVIOUS
<1>4. /\ longer \in Display /\ longer.buffer = b /\ longer.row = d.row
      /\ longer.cursor = d.cursor /\ longer.begins = d.begins
  BY <1>1, <1>3, BufferLemma
<1>5. Placed(longer) /\ e = Draw(longer, s)
  BY <1>2, <1>3, <1>4 DEF Placed, RtlCliPrintString
<1>6. /\ Placed(e) /\ e.buffer = longer.buffer
      /\ longer.begins = "above" => e.begins = "above"
      /\ e.begins # "above" => /\ e.row = Overwrite(longer.row, s, longer.cursor)
                              /\ e.cursor = longer.cursor + Len(s) /\ longer.begins # "above"
  BY <1>5, DrawLemma
<1>7. QED
  BY <1>2, <1>4, <1>6

\* Printing s behind what is shown.
LEMMA PrintLemma ==
  ASSUME NEW d, Shows(d), NEW s \in Seq(Glyphs),
         NEW e, e = RtlCliPrintString(d, s), e.begins # "above"
  PROVE  /\ Shows(e)
         /\ \A m \in Nat : m >= Len(e.buffer) /\ BlankFrom(d, m) => BlankFrom(e, m)
<1> DEFINE c == Len(d.buffer)
           n == Len(s)
           new == Overwrite(d.row, s, c)
<1>1. /\ d \in Display /\ c \in Nat /\ n \in Nat /\ d.cursor = c
      /\ Len(d.row) \in Nat /\ c <= Len(d.row) /\ d.row \in Seq(Glyphs) /\ d.buffer \in Seq(Glyphs)
  BY DisplayType, LenProperties DEF Shows
<1>2. /\ d.buffer \o s \in Seq(Glyphs) /\ Len(d.buffer \o s) = c + n
      /\ \A i \in 1..(c + n) : (d.buffer \o s)[i] = IF i <= c THEN d.buffer[i] ELSE s[i - c]
  BY <1>1, ConcatProperties
<1>3. e \in Display /\ e.buffer = d.buffer \o s /\ e.row = new /\ e.cursor = c + n
  <2>1. Placed(d)
    BY ShowsPlaced
  <2>2. /\ Placed(e) /\ e.buffer = d.buffer \o s
        /\ e.row = Overwrite(d.row, s, d.cursor) /\ e.cursor = d.cursor + Len(s)
    BY <2>1, PrintPlaced
  <2>3. Overwrite(d.row, s, d.cursor) = new /\ d.cursor + Len(s) = c + n
    BY <1>1
  <2> HIDE DEF c, n, new
  <2>4. QED
    BY <2>2, <2>3 DEF Placed
<1>4. /\ new \in Seq(Glyphs)
      /\ c + n >= Len(d.row) => Len(new) = c + n
      /\ c + n < Len(d.row) => Len(new) = Len(d.row)
      /\ \A i \in 1..c : new[i] = d.row[i]
      /\ \A i \in 1..n : new[c + i] = s[i]
      /\ \A i \in (c + n + 1)..Len(d.row) : new[i] = d.row[i]
  <2> DEFINE row == d.row
  <2>1. row \in Seq(Glyphs) /\ c \in 0..Len(row) /\ n \in Nat /\ n = Len(s)
    BY <1>1
  <2> HIDE DEF c, n, row
  <2>2. /\ Overwrite(row, s, c) \in Seq(Glyphs)
        /\ c + n >= Len(row) => Len(Overwrite(row, s, c)) = c + n
        /\ c + n < Len(row) => Len(Overwrite(row, s, c)) = Len(row)
        /\ \A i \in 1..c : Overwrite(row, s, c)[i] = row[i]
        /\ \A i \in 1..n : Overwrite(row, s, c)[c + i] = s[i]
        /\ \A i \in (c + n + 1)..Len(row) : Overwrite(row, s, c)[i] = row[i]
    BY <2>1, OverwriteLemma, SMTT(60)
  <2>3. new = Overwrite(row, s, c) /\ d.row = row
    BY DEF row
  <2> HIDE DEF new
  <2>4. QED
    BY <2>2, <2>3
<1> HIDE DEF c, n, new
<1>5. ASSUME NEW i \in 1..(c + n)
      PROVE  new[i] = (d.buffer \o s)[i]
  <2>1. CASE i <= c
    BY <1>1, <1>2, <1>4, <2>1, SMTT(30) DEF Shows, c
  <2>2. CASE ~(i <= c)
    <3>1. i - c \in 1..n /\ c + (i - c) = i
      BY <1>1, <2>2
    <3>2. QED
      BY <1>2, <1>4, <2>2, <3>1
  <2>3. QED
    BY <2>1, <2>2
<1>6. Shows(e)
  BY <1>1, <1>2, <1>4, <1>3, <1>5, SMTT(60) DEF Shows
<1>7. ASSUME NEW m \in Nat, m >= c + n, BlankFrom(d, m)
      PROVE  BlankFrom(e, m)
  <2>1. ASSUME NEW i \in (m + 1)..Len(new)
        PROVE  new[i] = Blank
    <3>1. i \in (c + n + 1)..Len(d.row) /\ i \in (m + 1)..Len(d.row)
      BY <1>1, <1>4, <1>7
    <3>2. QED
      BY <1>4, <1>7, <3>1 DEF BlankFrom
  <2>2. QED
    BY <1>3, <2>1 DEF BlankFrom
<1>8. QED
  BY <1>2, <1>3, <1>6, <1>7

\* A character is a string of one.
LEMMA PutLemma ==
  ASSUME NEW d \in Display, NEW c \in Glyphs
  PROVE  /\ <<c>> \in Seq(Glyphs) /\ Len(<<c>>) = 1
         /\ RtlCliPutChar(d, c) = RtlCliPrintString(d, <<c>>)
<1>1. <<c>> \in Seq(Glyphs) /\ Len(<<c>>) = 1
  OBVIOUS
<1>2. Append(d.buffer, c) = d.buffer \o <<c>>
  BY DisplayType, AppendIsConcat
<1>3. QED
  BY <1>1, <1>2 DEF RtlCliPutChar, RtlCliPrintString

\* One of the two redraws of a backspace, wherever the line has got to.
LEMMA BackPlaced ==
  ASSUME NEW d, Placed(d), NEW e, e = RtlClipBackspace(CarriageReturn(d))
  PROVE  /\ Placed(e)
         /\ e.buffer = SubSeq(d.buffer, 1, Len(d.buffer) - 1)
         /\ d.begins = "above" => e.begins = "above"
         /\ e.begins # "above" => /\ e.row = Overwrite(d.row, e.buffer, 0)
                                 /\ e.cursor = Len(e.buffer) /\ d.begins # "above"
<1>1. /\ d \in Display /\ d.buffer \in Seq(Glyphs) /\ Len(d.buffer) \in Nat
      /\ d.row \in Seq(Glyphs) /\ Len(d.row) \in Nat
  BY DisplayType DEF Placed
<1>2. PICK shorter : shorter = SubSeq(d.buffer, 1, Len(d.buffer) - 1)
  OBVIOUS
<1>3. shorter \in Seq(Glyphs) /\ Len(shorter) \in Nat /\ 0 + Len(shorter) = Len(shorter)
  <2>1. \A i \in 1..(Len(d.buffer) - 1) : d.buffer[i] \in Glyphs
    BY <1>1, ElementOfSeq
  <2>2. shorter \in Seq(Glyphs)
    BY <1>1, <1>2, <2>1, SubSeqProperties
  <2>3. QED
    BY <2>2, LenProperties
<1>4. PICK back : back = CarriageReturn(d)
  OBVIOUS
<1>5. /\ back \in Display /\ back.buffer = d.buffer /\ back.row = d.row
      /\ back.cursor = 0 /\ back.begins = d.begins
  BY <1>1, <1>4, ReturnLemma
<1>6. PICK start : start = [back EXCEPT !.buffer = shorter]
  OBVIOUS
<1>7. /\ start \in Display /\ start.buffer = shorter /\ start.row = d.row
      /\ start.cursor = 0 /\ start.begins = d.begins
  BY <1>3, <1>5, <1>6, BufferLemma
<1>8. e = Draw(start, shorter)
  BY <1>2, <1>4, <1>5, <1>6 DEF RtlClipBackspace
<1>9. Placed(start)
  BY <1>1, <1>7 DEF Placed
<1>10. /\ Placed(e) /\ e.buffer = start.buffer
       /\ start.begins = "above" => e.begins = "above"
       /\ e.begins # "above" => /\ e.row = Overwrite(start.row, shorter, start.cursor)
                               /\ e.cursor = start.cursor + Len(shorter) /\ start.begins # "above"
  BY <1>3, <1>8, <1>9, DrawLemma
<1>11. QED
  BY <1>2, <1>3, <1>7, <1>10

\* On the first row a redraw leaves the row as it is.
LEMMA BackLemma ==
  ASSUME NEW d, Shows(d), NEW e, e = RtlClipBackspace(CarriageReturn(d)), e.begins # "above"
  PROVE  Shows(e) /\ e.row = d.row
<1> DEFINE c == Len(d.buffer)
           n == IF c > 0 THEN c - 1 ELSE 0
           shorter == SubSeq(d.buffer, 1, c - 1)
           new == Overwrite(d.row, shorter, 0)
<1>1. /\ d \in Display /\ c \in Nat /\ d.cursor = c
      /\ Len(d.row) \in Nat /\ c <= Len(d.row) /\ d.row \in Seq(Glyphs) /\ d.buffer \in Seq(Glyphs)
      /\ n \in Nat /\ n <= c
  BY DisplayType DEF Shows
<1>2. /\ shorter \in Seq(Glyphs) /\ Len(shorter) = n
      /\ \A i \in 1..n : shorter[i] = d.buffer[i]
  <2>1. \A i \in 1..(c - 1) : d.buffer[i] \in Glyphs
    BY <1>1, ElementOfSeq
  <2>2. /\ shorter \in Seq(Glyphs)
        /\ Len(shorter) = IF 1 <= c - 1 THEN (c - 1) - 1 + 1 ELSE 0
        /\ \A i \in 1..((c - 1) - 1 + 1) : shorter[i] = d.buffer[1 + i - 1]
    BY <1>1, <2>1, SubSeqProperties
  <2>3. QED
    BY <1>1, <2>2
<1>3. e \in Display /\ e.buffer = shorter /\ e.row = new /\ e.cursor = n
  <2>1. Placed(d)
    BY ShowsPlaced
  <2>2. /\ Placed(e) /\ e.buffer = shorter /\ e.row = Overwrite(d.row, e.buffer, 0)
        /\ e.cursor = Len(e.buffer)
    BY <2>1, BackPlaced
  <2> HIDE DEF shorter, n
  <2>3. QED
    BY <1>2, <2>2 DEF Placed
<1> HIDE DEF shorter, n
<1>4. /\ new \in Seq(Glyphs)
      /\ 0 + n >= Len(d.row) => Len(new) = 0 + n
      /\ 0 + n < Len(d.row) => Len(new) = Len(d.row)
      /\ \A i \in 1..n : new[0 + i] = shorter[i]
      /\ \A i \in (0 + n + 1)..Len(d.row) : new[i] = d.row[i]
  <2>1. 0 \in 0..Len(d.row)
    BY <1>1
  <2>2. /\ d.row \in Seq(Glyphs) /\ shorter \in Seq(Glyphs) /\ n \in Nat /\ n = Len(shorter)
    BY <1>1, <1>2
  <2>3. /\ Overwrite(d.row, shorter, 0) \in Seq(Glyphs)
        /\ 0 + n >= Len(d.row) => Len(Overwrite(d.row, shorter, 0)) = 0 + n
        /\ 0 + n < Len(d.row) => Len(Overwrite(d.row, shorter, 0)) = Len(d.row)
        /\ \A i \in 1..n : Overwrite(d.row, shorter, 0)[0 + i] = shorter[i]
        /\ \A i \in (0 + n + 1)..Len(d.row) : Overwrite(d.row, shorter, 0)[i] = d.row[i]
    BY <2>1, <2>2, OverwriteLemma, ZenonT(60)
  <2>4. QED
    BY <2>3
<1> HIDE DEF new
<1>5. /\ Len(new) = Len(d.row)
      /\ \A i \in 1..Len(d.row) : new[i] = d.row[i]
  <2>1. Len(new) = Len(d.row)
    BY <1>1, <1>4
  <2>2. ASSUME NEW i \in 1..Len(d.row)
        PROVE  new[i] = d.row[i]
    <3>1. CASE i <= n
      <4>1. i \in 1..n /\ i \in 1..c /\ 0 + i = i
        BY <1>1, <3>1
      <4>2. QED
        BY <1>2, <1>4, <4>1 DEF Shows
    <3>2. CASE ~(i <= n)
      BY <1>1, <1>4, <3>2
    <3>3. QED
      BY <3>1, <3>2
  <2>3. QED
    BY <2>1, <2>2
<1>6. new = d.row
  BY <1>1, <1>4, <1>5, SeqEqual
<1>7. Shows(e)
  BY <1>1, <1>2, <1>3, <1>6 DEF Shows
<1>8. QED
  BY <1>3, <1>6, <1>7

\* The backspace of RtlCliGetLine takes the last character off the buffer and
\* off the row.
Redrawn(d, once, put, e) ==
  /\ Placed(once) /\ once.buffer = SubSeq(d.buffer, 1, Len(d.buffer) - 1)
  /\ Placed(put) /\ put = RtlCliPrintString(once, <<Blank>>) /\ <<Blank>> \in Seq(Glyphs)
  /\ Placed(e) /\ e.buffer = once.buffer
  /\ d.begins = "above" => once.begins = "above"
  /\ once.begins = "above" => put.begins = "above"
  /\ put.begins = "above" => e.begins = "above"
  /\ Len(once.buffer) \in Nat /\ Len(once.buffer) + 1 >= Len(d.buffer)
  /\ Len(put.buffer) = Len(once.buffer) + 1
  /\ put.buffer[Len(once.buffer) + 1] = Blank

LEMMA EraseBuffer ==
  ASSUME NEW d, Placed(d), NEW once, once = RtlClipBackspace(CarriageReturn(d)),
         NEW put, put = RtlCliPutChar(once, Blank),
         NEW e, e = RtlClipBackspace(CarriageReturn(put))
  PROVE  Redrawn(d, once, put, e)
<1> DEFINE c == Len(d.buffer)
           k == Len(once.buffer)
<1>1. Placed(once) /\ once.buffer = SubSeq(d.buffer, 1, c - 1) /\ (d.begins = "above" => once.begins = "above")
  BY BackPlaced
<1>2. c \in Nat /\ k \in Nat /\ k + 1 >= c /\ once.buffer \in Seq(Glyphs)
  <2>1. d.buffer \in Seq(Glyphs) /\ c \in Nat /\ once.buffer \in Seq(Glyphs)
    BY <1>1, DisplayType DEF Placed
  <2>2. \A i \in 1..(c - 1) : d.buffer[i] \in Glyphs
    BY <2>1, ElementOfSeq
  <2>3. k = IF 1 <= c - 1 THEN (c - 1) - 1 + 1 ELSE 0
    BY <1>1, <2>1, <2>2, SubSeqProperties
  <2>4. QED
    BY <2>1, <2>3
<1>3. put = RtlCliPrintString(once, <<Blank>>) /\ <<Blank>> \in Seq(Glyphs) /\ Len(<<Blank>>) = 1
  BY <1>1, PutLemma, BlankLemma DEF Placed
<1>4. Placed(put) /\ put.buffer = once.buffer \o <<Blank>> /\ (once.begins = "above" => put.begins = "above")
  BY <1>1, <1>3, PrintPlaced
<1>5. /\ put.buffer \in Seq(Glyphs) /\ Len(put.buffer) = k + 1
      /\ \A i \in 1..k : put.buffer[i] = once.buffer[i]
      /\ put.buffer[k + 1] = Blank
  <2>1. /\ once.buffer \o <<Blank>> \in Seq(Glyphs)
        /\ Len(once.buffer \o <<Blank>>) = k + 1
        /\ \A i \in 1..(k + 1) : (once.buffer \o <<Blank>>)[i] =
             IF i <= k THEN once.buffer[i] ELSE <<Blank>>[i - k]
    BY <1>2, <1>3, ConcatProperties
  <2>2. k + 1 \in 1..(k + 1) /\ ~(k + 1 <= k) /\ (k + 1) - k = 1
    BY <1>2
  <2>3. <<Blank>>[1] = Blank
    OBVIOUS
  <2>4. put.buffer[k + 1] = Blank
    BY <1>4, <2>1, <2>2, <2>3
  <2>5. QED
    BY <1>2, <1>4, <2>1, <2>4
<1>6. /\ Placed(e) /\ (put.begins = "above" => e.begins = "above")
      /\ e.buffer = SubSeq(put.buffer, 1, Len(put.buffer) - 1)
  BY <1>4, BackPlaced
<1>7. e.buffer = once.buffer
  <2>1. \A i \in 1..k : put.buffer[i] \in Glyphs
    BY <1>2, <1>5, ElementOfSeq
  <2>2. /\ SubSeq(put.buffer, 1, k) \in Seq(Glyphs)
        /\ Len(SubSeq(put.buffer, 1, k)) = IF 1 <= k THEN k - 1 + 1 ELSE 0
        /\ \A i \in 1..(k - 1 + 1) : SubSeq(put.buffer, 1, k)[i] = put.buffer[1 + i - 1]
    BY <1>2, <2>1, SubSeqProperties
  <2>3. Len(put.buffer) - 1 = k
    BY <1>2, <1>5
  <2>4. Len(SubSeq(put.buffer, 1, k)) = k
    BY <1>2, <2>2
  <2>5. \A i \in 1..k : SubSeq(put.buffer, 1, k)[i] = once.buffer[i]
    BY <1>2, <1>5, <2>2
  <2>6. SubSeq(put.buffer, 1, k) = once.buffer
    BY <1>2, <2>2, <2>4, <2>5, SeqEqual
  <2>7. QED
    BY <1>6, <2>3, <2>6
<1>8. QED
  BY <1>1, <1>2, <1>3, <1>4, <1>5, <1>6, <1>7 DEF Redrawn

\* On the first row it takes it off the row too.
LEMMA EraseLemma ==
  ASSUME NEW d, Shows(d), BlankFrom(d, Len(d.buffer)),
         NEW e, e = Erase(d), e.begins # "above"
  PROVE  Shows(e) /\ BlankFrom(e, Len(e.buffer))
<1>1. PICK once : once = RtlClipBackspace(CarriageReturn(d))
  OBVIOUS
<1>2. PICK put : put = RtlCliPutChar(once, Blank)
  OBVIOUS
<1>3. PICK k : k = Len(once.buffer)
  OBVIOUS
<1>4. Placed(d) /\ e = RtlClipBackspace(CarriageReturn(put))
  BY <1>1, <1>2, ShowsPlaced DEF Erase
<1>5. /\ put = RtlCliPrintString(once, <<Blank>>) /\ <<Blank>> \in Seq(Glyphs)
      /\ e.buffer = once.buffer /\ put.begins # "above" /\ once.begins # "above"
      /\ k \in Nat /\ k + 1 >= Len(d.buffer)
      /\ Len(put.buffer) = k + 1 /\ put.buffer[k + 1] = Blank
  <2>1. Redrawn(d, once, put, e)
    BY <1>1, <1>2, <1>4, EraseBuffer
  <2>2. QED
    BY <1>3, <2>1 DEF Redrawn
<1>6. Shows(once) /\ once.row = d.row
  BY <1>1, <1>5, BackLemma
<1>7. /\ Shows(put)
      /\ \A m \in Nat : m >= Len(put.buffer) /\ BlankFrom(once, m) => BlankFrom(put, m)
  BY <1>5, <1>6, PrintLemma
<1>8. BlankFrom(put, k)
  <2>1. Len(d.buffer) \in Nat /\ Len(put.row) \in Nat
    BY <1>7, DisplayType DEF Shows
  <2>2. BlankFrom(once, k + 1)
    BY <1>5, <1>6, <2>1 DEF BlankFrom
  <2>3. BlankFrom(put, k + 1)
    BY <1>5, <1>7, <2>2
  <2>4. put.row[k + 1] = Blank
    BY <1>5, <1>7 DEF Shows
  <2>5. ASSUME NEW i \in (k + 1)..Len(put.row)
        PROVE  put.row[i] = Blank
    <3>1. CASE i = k + 1
      BY <2>4, <3>1
    <3>2. CASE i # k + 1
      <4>1. i \in (k + 1 + 1)..Len(put.row)
        BY <1>5, <2>1, <3>2
      <4>2. QED
        BY <2>3, <4>1 DEF BlankFrom
    <3>3. QED
      BY <3>1, <3>2
  <2>6. QED
    BY <2>5 DEF BlankFrom
<1>9. Shows(e) /\ e.row = put.row
  BY <1>4, <1>7, BackLemma
<1>10. QED
  BY <1>3, <1>5, <1>8, <1>9 DEF BlankFrom

-----------------------------------------------------------------------------
\* ScreenShowsBuffer, point by point.
Screen == /\ Placed(display)
          /\ display.begins # "above" => Shows(display) /\ BlankFrom(display, Len(display.buffer))

\* Between two commands the display is on a new line, and the line is not
\* edited.
AtRest == /\ pc = "prompt" => display = NewLine
          /\ pc # "read" => CurrentPosition = 0

IInv == TypeOK /\ Screen /\ AtRest /\ EchoIsStored /\ ReturnsTyped /\ ShiftTracksKeys

LEMMA NewLineLemma ==
  /\ Placed(NewLine) /\ Shows(NewLine) /\ BlankFrom(NewLine, Len(NewLine.buffer))
  /\ NewLine.buffer = <<>>
<1>1. <<>> \in Seq(Glyphs) /\ Len(<<>>) = 0
  BY EmptySeq
<1>2. NewLine \in Display
  BY <1>1, ColumnsAssumption DEF NewLine, Display
<1>3. NewLine.buffer = <<>> /\ NewLine.row = <<>> /\ NewLine.cursor = 0
  BY DEF NewLine
<1>4. QED
  BY <1>1, <1>2, <1>3 DEF Placed, Shows, BlankFrom

LEMMA PromptLemma == Prompt \in Seq(Glyphs)
<1>1. [key : PathKeys, shift : BOOLEAN] \subseteq Glyphs
  BY DEF Glyphs
<1>2. QED
  BY <1>1, PromptAssumption, SeqMonotonic

LEMMA CharsLemma ==
  /\ Chars \subseteq Glyphs
  /\ \A s \in Seq(Chars) : s \in Seq(Glyphs) /\ Len(s) \in Nat
<1>1. Chars \subseteq Glyphs
  BY DEF Chars, Glyphs
<1>2. QED
  BY <1>1, SeqMonotonic, LenProperties

\* A key event does to the shift bit what it does to the keys.
LEMMA ShiftLemma ==
  ASSUME TypeOK, ShiftTracksKeys, NEW k \in Keys, NEW press \in BOOLEAN,
         RtlCliGetChar(k, press)
  PROVE  /\ ShiftTracksKeys' /\ down' \subseteq Keys
         /\ dwControlKeyState' \in BOOLEAN /\ stale' \in BOOLEAN
<1>1. /\ down \subseteq Keys /\ dwControlKeyState \in BOOLEAN /\ stale \in BOOLEAN
      /\ down' = IF press THEN down \cup {k} ELSE down \ {k}
      /\ dwControlKeyState' = IntUpdateControlKeyState(dwControlKeyState, k, press)
  BY DEF TypeOK, RtlCliGetChar
<1>2. stale' \in BOOLEAN
  BY <1>1, Zenon DEF RtlCliGetChar
<1>3. CASE k \in Shifts /\ press
  BY <1>1, <1>2, <1>3, Zenon DEF ShiftTracksKeys, IntUpdateControlKeyState
<1>4. CASE k \in Shifts /\ ~press
  <2>1. dwControlKeyState' = press
    BY <1>1, <1>4, Zenon DEF IntUpdateControlKeyState
  <2>2. down' \subseteq Keys
    BY <1>1, <1>4
  <2>3. ~dwControlKeyState' /\ dwControlKeyState' \in BOOLEAN
    BY <1>4, <2>1
  <2>4. QED
    BY <1>2, <2>2, <2>3 DEF ShiftTracksKeys
<1>5. CASE k \notin Shifts
  <2>1. dwControlKeyState' = dwControlKeyState
    BY <1>1, <1>5, Zenon DEF IntUpdateControlKeyState
  <2>2. down' \subseteq Keys
    BY <1>1
  <2>3. down \cap Shifts # {} => down' \cap Shifts # {}
    BY <1>1, <1>5
  <2>4. dwControlKeyState' \in BOOLEAN
    BY <1>1, <2>1
  <2>5. stale => stale'
    BY <1>5, Zenon DEF RtlCliGetChar
  <2>6. ShiftTracksKeys'
    BY <2>1, <2>3, <2>5 DEF ShiftTracksKeys
  <2>7. QED
    BY <1>2, <2>2, <2>4, <2>6
<1>6. QED
  BY <1>3, <1>4, <1>5

LEMMA InitInv == Init => IInv
<1> SUFFICES ASSUME Init
             PROVE  IInv
  OBVIOUS
<1>1. <<>> \in Seq(Chars) /\ Len(<<>>) = 0
  BY EmptySeq
<1>2. Blank \in Chars
  BY DEF Blank, Chars
<1>3. 0 \in Index
  BY HalfCharAssumption DEF Index
<1>4. Screen
  BY NewLineLemma DEF Init, Screen
<1>5. TypeOK
  <2>1. Line \in [Index -> Chars]
    BY <1>2 DEF Init
  <2>2. display \in Display
    BY <1>4 DEF Screen, Placed
  <2>3. dwControlKeyState \in BOOLEAN /\ wrapped \in BOOLEAN /\ stale \in BOOLEAN
    BY Zenon DEF Init
  <2>4. QED
    BY <1>1, <1>3, <2>1, <2>2, <2>3, MaxTypedAssumption DEF Init, TypeOK
<1>6. EchoIsStored /\ ReturnsTyped /\ AtRest
  BY DEF Init, EchoIsStored, ReturnsTyped, AtRest
<1>7. ShiftTracksKeys
  BY Zenon DEF Init, ShiftTracksKeys
<1>8. QED
  BY <1>4, <1>5, <1>6, <1>7 DEF IInv

LEMMA PromptStep == IInv /\ ShowPrompt => IInv'
<1> SUFFICES ASSUME IInv, ShowPrompt
             PROVE  IInv'
  OBVIOUS
<1>1. TypeOK /\ Screen /\ display = NewLine /\ CurrentPosition = 0
  BY DEF IInv, AtRest, ShowPrompt
<1>2. <<>> \in Seq(Chars) /\ Len(<<>>) = 0
  BY EmptySeq
<1>3. Screen' /\ display'.buffer = Prompt
  <2>1. display' = RtlCliPrintString(NewLine, Prompt)
    BY <1>1 DEF ShowPrompt
  <2>2. Placed(display') /\ display'.buffer = <<>> \o Prompt
    <3>1. PICK d : d = NewLine
      OBVIOUS
    <3>2. PICK e : e = display'
      OBVIOUS
    <3>3. Placed(d) /\ e = RtlCliPrintString(d, Prompt) /\ d.buffer = <<>>
      BY <2>1, <3>1, <3>2, NewLineLemma
    <3>4. Placed(e) /\ e.buffer = d.buffer \o Prompt
      BY <3>3, PromptLemma, PrintPlaced
    <3>5. QED
      BY <3>2, <3>3, <3>4
  <2>3. display'.buffer = Prompt /\ Len(Prompt) \in Nat
    BY <2>2, PromptLemma, ConcatEmptySeq, LenProperties
  <2>4. ASSUME display'.begins # "above"
        PROVE  Shows(display') /\ BlankFrom(display', Len(display'.buffer))
    <3>1. /\ Shows(display')
          /\ \A m \in Nat : m >= Len(display'.buffer) /\ BlankFrom(NewLine, m) => BlankFrom(display', m)
      BY <2>1, <2>4, NewLineLemma, PromptLemma, PrintLemma
    <3>2. BlankFrom(NewLine, Len(Prompt))
      BY <2>3, EmptySeq DEF BlankFrom, NewLine
    <3>3. QED
      BY <2>3, <3>1, <3>2
  <2>5. QED
    BY <2>2, <2>3, <2>4 DEF Screen
<1>4. TypeOK'
  <2>1. display' \in Display
    BY <1>3 DEF Screen, Placed
  <2>2. QED
    BY <1>1, <1>2, <2>1, MaxTypedAssumption DEF ShowPrompt, TypeOK
<1>5. EchoIsStored'
  <2>1. Prompt \o <<>> = Prompt
    BY PromptLemma, ConcatEmptySeq
  <2>2. QED
    BY <1>1, <1>2, <1>3, <2>1 DEF ShowPrompt, EchoIsStored
<1>6. ReturnsTyped' /\ AtRest' /\ ShiftTracksKeys'
  BY DEF IInv, ShowPrompt, ReturnsTyped, AtRest, ShiftTracksKeys
<1>7. QED
  BY <1>3, <1>4, <1>5, <1>6 DEF IInv, Screen

LEMMA CommandStep == IInv /\ (RunCommand \/ RunProgram) => IInv'
<1> SUFFICES ASSUME IInv, RunCommand \/ RunProgram
             PROVE  IInv'
  OBVIOUS
<1>1. display' = NewLine /\ CurrentPosition' = CurrentPosition /\ pc = "command" /\ pc' = "prompt"
  BY DEF RunCommand, RunProgram
<1>2. Screen'
  BY <1>1, NewLineLemma DEF Screen
<1>3. /\ ShiftTracksKeys' /\ down' \subseteq Keys
      /\ dwControlKeyState' \in BOOLEAN /\ stale' \in BOOLEAN
  BY DEF IInv, TypeOK, RunCommand, RunProgram, ShiftTracksKeys
<1>4. TypeOK'
  <2>1. display' \in Display
    BY <1>2 DEF Screen, Placed
  <2>2. QED
    BY <1>3, <2>1 DEF IInv, RunCommand, RunProgram, TypeOK
<1>5. EchoIsStored' /\ ReturnsTyped' /\ AtRest'
  BY <1>1 DEF IInv, EchoIsStored, ReturnsTyped, AtRest
<1>6. QED
  BY <1>2, <1>3, <1>4, <1>5 DEF IInv

\* A command that reads a key leaves the line alone.
LEMMA AwaitStep == IInv /\ AwaitKey => IInv'
<1> SUFFICES ASSUME IInv, AwaitKey
             PROVE  IInv'
  OBVIOUS
<1>1. PICK k \in Keys, press \in BOOLEAN : RtlCliGetChar(k, press)
  BY DEF AwaitKey
<1>2. /\ ShiftTracksKeys' /\ down' \subseteq Keys
      /\ dwControlKeyState' \in BOOLEAN /\ stale' \in BOOLEAN
  BY <1>1, ShiftLemma DEF IInv
<1>3. TypeOK'
  BY <1>2 DEF IInv, TypeOK, AwaitKey
<1>4. Screen' /\ EchoIsStored' /\ ReturnsTyped' /\ AtRest'
  BY DEF IInv, AwaitKey, Screen, EchoIsStored, ReturnsTyped, AtRest
<1>5. QED
  BY <1>2, <1>3, <1>4 DEF IInv

\* What a step on the line keeps, beside the keys.
LineInv == /\ pc \in {"prompt", "read", "command"}
           /\ Line \in [Index -> Chars] /\ CurrentPosition \in Index
           /\ display \in Display
           /\ text \in Seq(Chars) /\ Len(text) <= MaxTyped /\ wrapped \in BOOLEAN
           /\ Screen /\ AtRest /\ EchoIsStored /\ ReturnsTyped

LEMMA ReturnStep ==
  ASSUME LineInv, pc = "read", ReturnLine
  PROVE  LineInv'
<1>1. Terminator \in Chars /\ 0 \in Index
  BY HalfCharAssumption DEF Terminator, Chars, Index
<1>2. Line' \in [Index -> Chars]
  BY <1>1 DEF LineInv, ReturnLine
<1>3. ReturnsTyped'
  <2> SUFFICES ASSUME ~wrapped
               PROVE  /\ \A i \in 1..Len(text) : Line'[i - 1] = text[i]
                      /\ Line'[Len(text)] = Terminator
    BY DEF ReturnLine, ReturnsTyped
  <2>1. /\ CurrentPosition = Len(text) /\ Len(text) \in Index /\ Len(text) \in Nat
        /\ \A i \in 1..Len(text) : Line[i - 1] = text[i]
    BY CharsLemma DEF LineInv, EchoIsStored
  <2>2. \A i \in 1..Len(text) : i - 1 # Len(text) /\ i - 1 \in Index
    BY <2>1, HalfCharAssumption DEF Index
  <2>3. QED
    BY <2>1, <2>2 DEF LineInv, ReturnLine
<1>4. Screen' /\ EchoIsStored' /\ AtRest'
  BY DEF LineInv, ReturnLine, Screen, EchoIsStored, AtRest
<1>5. QED
  BY <1>1, <1>2, <1>3, <1>4 DEF LineInv, ReturnLine

LEMMA AddStep ==
  ASSUME LineInv, pc = "read", Len(text) < MaxTyped, NEW c \in Chars, AddChar(c)
  PROVE  LineInv'
<1> DEFINE n == Len(text)
<1>1. /\ c \in Glyphs /\ text \in Seq(Glyphs) /\ n \in Nat /\ text \in Seq(Chars)
      /\ Placed(display) /\ display \in Display
      /\ display.buffer \in Seq(Glyphs) /\ Len(display.buffer) \in Nat
  BY CharsLemma, DisplayType DEF LineInv, Screen
<1>2. /\ text' \in Seq(Chars) /\ Len(text') = n + 1
      /\ \A i \in 1..n : text'[i] = text[i]
      /\ text'[n + 1] = c
  BY <1>1, AppendProperties DEF AddChar
<1>3. CurrentPosition' \in Index /\ Line' \in [Index -> Chars]
  <2>1. CurrentPosition + 1 \in Int
    BY HalfCharAssumption DEF LineInv, Index
  <2>2. QED
    BY <2>1, CharLemma DEF LineInv, AddChar
<1>4. /\ Screen' /\ display'.buffer = Append(display.buffer, c) /\ display' \in Display
  <2>1. display' = RtlCliPrintString(display, <<c>>) /\ <<c>> \in Seq(Glyphs) /\ Len(<<c>>) = 1
    BY <1>1, PutLemma DEF AddChar
  <2>2. /\ Placed(display') /\ display'.buffer = display.buffer \o <<c>>
        /\ display.begins = "above" => display'.begins = "above"
    BY <1>1, <2>1, PrintPlaced
  <2>3. Append(display.buffer, c) = display.buffer \o <<c>>
    BY <1>1, AppendIsConcat
  <2>4. Len(display'.buffer) = Len(display.buffer) + 1
    BY <1>1, <2>1, <2>2, ConcatProperties
  <2>5. ASSUME display'.begins # "above"
        PROVE  Shows(display') /\ BlankFrom(display', Len(display'.buffer))
    <3>1. Shows(display) /\ BlankFrom(display, Len(display.buffer))
      BY <2>2, <2>5 DEF LineInv, Screen
    <3>2. /\ Shows(display')
          /\ \A m \in Nat : m >= Len(display'.buffer) /\ BlankFrom(display, m) => BlankFrom(display', m)
      BY <2>1, <2>5, <3>1, PrintLemma
    <3>3. BlankFrom(display, Len(display.buffer) + 1)
      BY <1>1, <3>1 DEF BlankFrom
    <3>4. QED
      BY <1>1, <2>4, <3>2, <3>3
  <2>6. QED
    BY <2>2, <2>3, <2>5 DEF Screen, Placed
<1>5. EchoIsStored'
  <2> SUFFICES ASSUME ~wrapped'
               PROVE  /\ display'.buffer = Prompt \o text'
                      /\ CurrentPosition' = n + 1
                      /\ \A i \in 1..(n + 1) : Line'[i - 1] = text'[i]
    BY <1>2 DEF EchoIsStored
  <2>1. /\ ~wrapped /\ ~(CurrentPosition' < 0)
    BY DEF AddChar
  <2>2. /\ CurrentPosition = n /\ n \in Index /\ display.buffer = Prompt \o text
        /\ \A i \in 1..n : Line[i - 1] = text[i]
    BY <2>1 DEF LineInv, EchoIsStored
  <2>3. CurrentPosition' = Char(n + 1)
    BY <2>2 DEF AddChar
  <2>4. n + 1 \in Int /\ (n + 1 \in Index \/ n + 1 = HalfChar)
    BY <1>1, <2>2, HalfCharAssumption DEF Index
  <2>5. n + 1 # HalfChar
    BY <2>1, <2>3, <2>4, CharLemma, HalfCharAssumption
  <2>6. CurrentPosition' = n + 1
    BY <2>3, <2>4, <2>5, CharLemma
  <2>7. ASSUME NEW i \in 1..(n + 1)
        PROVE  Line'[i - 1] = text'[i]
    <3>1. Line' = [Line EXCEPT ![n] = c] /\ Line \in [Index -> Chars] /\ i - 1 \in Index
      BY <1>1, <2>2, HalfCharAssumption DEF LineInv, AddChar, Index
    <3>2. CASE i = n + 1
      BY <1>1, <1>2, <2>2, <3>1, <3>2
    <3>3. CASE i # n + 1
      <4>1. i \in 1..n /\ i - 1 # n
        BY <1>1, <3>3
      <4>2. QED
        BY <1>2, <2>2, <3>1, <4>1
    <3>4. QED
      BY <3>2, <3>3
  <2>8. display'.buffer = Prompt \o text'
    <3>1. text' = text \o <<c>> /\ <<c>> \in Seq(Glyphs)
      BY <1>1, PutLemma, AppendIsConcat DEF AddChar
    <3>2. display'.buffer = (Prompt \o text) \o <<c>>
      BY <1>1, <1>4, <2>2, AppendIsConcat
    <3>3. QED
      BY <1>1, <3>1, <3>2, PromptLemma, ConcatAssociative, SMTT(30)
  <2>9. QED
    BY <2>6, <2>7, <2>8
<1>6. wrapped' \in BOOLEAN
  BY Zenon DEF LineInv, AddChar
<1>7. ReturnsTyped' /\ AtRest'
  BY DEF AddChar, ReturnsTyped, AtRest
<1>8. Len(text') <= MaxTyped
  BY <1>1, <1>2, MaxTypedAssumption
<1>9. QED
  BY <1>2, <1>3, <1>4, <1>5, <1>6, <1>7, <1>8 DEF LineInv, AddChar

LEMMA EraseStep ==
  ASSUME LineInv, pc = "read", EraseLast
  PROVE  LineInv'
<1>1. CASE CurrentPosition = 0
  BY <1>1 DEF LineInv, EraseLast, Screen, AtRest, EchoIsStored, ReturnsTyped
<1>2. CASE CurrentPosition # 0
  <2> DEFINE n == Len(text)
             k == IF n > 0 THEN n - 1 ELSE 0
  <2>1. /\ text \in Seq(Glyphs) /\ n \in Nat /\ text \in Seq(Chars) /\ k \in Nat /\ k <= n
    BY CharsLemma DEF LineInv
  <2>2. /\ display' = Erase(display) /\ CurrentPosition' = Char(CurrentPosition - 1)
        /\ text' = SubSeq(text, 1, n - 1)
    BY <1>2 DEF EraseLast
  <2>3. /\ text' \in Seq(Chars) /\ Len(text') = k
        /\ \A i \in 1..k : text'[i] = text[i]
    <3>1. \A i \in 1..(n - 1) : text[i] \in Chars
      BY <2>1, ElementOfSeq
    <3>2. /\ SubSeq(text, 1, n - 1) \in Seq(Chars)
          /\ Len(SubSeq(text, 1, n - 1)) = IF 1 <= n - 1 THEN (n - 1) - 1 + 1 ELSE 0
          /\ \A i \in 1..((n - 1) - 1 + 1) : SubSeq(text, 1, n - 1)[i] = text[1 + i - 1]
      BY <2>1, <3>1, SubSeqProperties
    <3>3. QED
      BY <2>1, <2>2, <3>2
  <2>4. /\ Screen' /\ display' \in Display
        /\ display'.buffer = SubSeq(display.buffer, 1, Len(display.buffer) - 1)
    <3>1. PICK d, e : d = display /\ e = display'
      OBVIOUS
    <3>2. Placed(d) /\ e = Erase(d)
      BY <2>2, <3>1 DEF LineInv, Screen
    <3>3. /\ Placed(e) /\ (d.begins = "above" => e.begins = "above")
          /\ e.buffer = SubSeq(d.buffer, 1, Len(d.buffer) - 1)
      <4>1. PICK once : once = RtlClipBackspace(CarriageReturn(d))
        OBVIOUS
      <4>2. PICK put : put = RtlCliPutChar(once, Blank)
        OBVIOUS
      <4>3. e = RtlClipBackspace(CarriageReturn(put))
        BY <3>2, <4>1, <4>2 DEF Erase
      <4>4. Redrawn(d, once, put, e)
        BY <3>2, <4>1, <4>2, <4>3, EraseBuffer
      <4>5. QED
        BY <4>4 DEF Redrawn
    <3>4. ASSUME e.begins # "above"
          PROVE  Shows(e) /\ BlankFrom(e, Len(e.buffer))
      <4>1. Shows(d) /\ BlankFrom(d, Len(d.buffer))
        BY <3>1, <3>3, <3>4 DEF LineInv, Screen
      <4>2. QED
        BY <3>2, <3>4, <4>1, EraseLemma
    <3>5. QED
      BY <3>1, <3>3, <3>4 DEF Screen, Placed
  <2>5. CurrentPosition' \in Index
    <3>1. CurrentPosition - 1 \in Int
      BY HalfCharAssumption DEF LineInv, Index
    <3>2. QED
      BY <2>2, <3>1, CharLemma
  <2>6. EchoIsStored'
    <3> SUFFICES ASSUME ~wrapped
                 PROVE  /\ display'.buffer = Prompt \o text'
                        /\ CurrentPosition' = Len(text')
                        /\ \A i \in 1..Len(text') : Line[i - 1] = text'[i]
      BY DEF EchoIsStored, EraseLast
    <3>1. /\ CurrentPosition = n /\ n \in Index /\ display.buffer = Prompt \o text
          /\ \A i \in 1..n : Line[i - 1] = text[i]
      BY DEF LineInv, EchoIsStored
    <3> HIDE DEF k
    <3>2. n > 0 /\ k = n - 1 /\ n - 1 \in Index /\ n - 1 \in Int
      BY <1>2, <2>1, <3>1, HalfCharAssumption DEF Index, k
    <3>3. CurrentPosition' = Len(text')
      BY <2>2, <2>3, <3>1, <3>2, CharLemma
    <3>4. \A i \in 1..Len(text') : Line[i - 1] = text'[i]
      BY <2>1, <2>3, <3>1
    <3>5. display'.buffer = Prompt \o text'
      <4> DEFINE p == Len(Prompt)
                 both == Prompt \o text
                 rest == Prompt \o text'
      <4>1. Prompt \in Seq(Glyphs) /\ p \in Nat /\ text' \in Seq(Glyphs)
        BY <2>3, CharsLemma, PromptLemma, LenProperties
      <4>2. /\ both \in Seq(Glyphs) /\ Len(both) = p + n
            /\ \A i \in 1..(p + n) : both[i] = IF i <= p THEN Prompt[i] ELSE text[i - p]
        BY <2>1, <4>1, ConcatProperties
      <4>3. /\ rest \in Seq(Glyphs) /\ Len(rest) = p + k
            /\ \A i \in 1..(p + k) : rest[i] = IF i <= p THEN Prompt[i] ELSE text'[i - p]
        <5>1. /\ rest \in Seq(Glyphs) /\ Len(rest) = p + Len(text')
              /\ \A i \in 1..(p + Len(text')) :
                   rest[i] = IF i <= p THEN Prompt[i] ELSE text'[i - p]
          BY <4>1, ConcatProperties
        <5>2. Len(text') = k
          BY <2>3
        <5>3. QED
          BY <5>1, <5>2
      <4> HIDE DEF both, rest, p
      <4>4. \A i \in 1..(p + n - 1) : both[i] \in Glyphs
        BY <2>1, <4>1, <4>2, ElementOfSeq
      <4>5. /\ SubSeq(both, 1, p + n - 1) \in Seq(Glyphs)
            /\ Len(SubSeq(both, 1, p + n - 1)) = IF 1 <= p + n - 1 THEN (p + n - 1) - 1 + 1 ELSE 0
            /\ \A i \in 1..((p + n - 1) - 1 + 1) : SubSeq(both, 1, p + n - 1)[i] = both[1 + i - 1]
        BY <2>1, <4>1, <4>4, SubSeqProperties
      <4>6. Len(SubSeq(both, 1, p + n - 1)) = p + k
        BY <2>1, <3>2, <4>1, <4>5
      <4>7. ASSUME NEW i \in 1..(p + k)
            PROVE  SubSeq(both, 1, p + n - 1)[i] = rest[i]
        <5>1. SubSeq(both, 1, p + n - 1)[i] = both[i]
          BY <2>1, <3>2, <4>1, <4>5
        <5>2. CASE i <= p
          <6>1. i \in 1..(p + n)
            BY <2>1, <4>1
          <6>2. both[i] = Prompt[i] /\ rest[i] = Prompt[i]
            BY <4>2, <4>3, <5>2, <6>1
          <6>3. QED
            BY <5>1, <6>2
        <5>3. CASE ~(i <= p)
          <6>1. i - p \in 1..k /\ i \in 1..(p + n)
            BY <2>1, <4>1, <5>3
          <6>2. QED
            BY <2>3, <4>2, <4>3, <5>1, <5>3, <6>1
        <5>4. QED
          BY <5>2, <5>3
      <4>8. SubSeq(both, 1, p + n - 1) = rest
        BY <4>3, <4>5, <4>6, <4>7, SeqEqual
      <4>9. display'.buffer = SubSeq(both, 1, p + n - 1)
        <5>1. display.buffer = both
          BY <3>1 DEF both
        <5>2. Len(display.buffer) - 1 = p + n - 1
          BY <2>1, <4>1, <4>2, <5>1
        <5>3. QED
          BY <2>4, <5>1, <5>2
      <4>10. QED
        BY <4>8, <4>9 DEF rest
    <3>6. QED
      BY <3>3, <3>4, <3>5
  <2>7. ReturnsTyped' /\ AtRest'
    BY DEF EraseLast, ReturnsTyped, AtRest
  <2>8. Len(text') <= MaxTyped
    BY <2>1, <2>3, MaxTypedAssumption DEF LineInv
  <2>9. QED
    BY <2>3, <2>4, <2>5, <2>6, <2>7, <2>8 DEF LineInv, EraseLast
<1>3. QED
  BY <1>1, <1>2

\* A key that is pressed or released.
LEMMA KeyStep ==
  ASSUME IInv, NEW k \in Keys, NEW press \in BOOLEAN, KeyEvent(k, press)
  PROVE  IInv'
<1>1. TypeOK /\ ShiftTracksKeys /\ LineInv /\ pc = "read"
  BY DEF IInv, TypeOK, LineInv, KeyEvent
<1>2. /\ ShiftTracksKeys' /\ down' \subseteq Keys
      /\ dwControlKeyState' \in BOOLEAN /\ stale' \in BOOLEAN
  BY <1>1, ShiftLemma DEF KeyEvent
<1>3. LineInv'
  <2>1. CASE ReturnLine
    BY <1>1, <2>1, ReturnStep
  <2>2. CASE EraseLast
    BY <1>1, <2>2, EraseStep
  <2>3. CASE /\ press /\ k \in Letters /\ Len(text) < MaxTyped
             /\ AddChar([key |-> k, shift |-> dwControlKeyState'])
    <3>1. [key |-> k, shift |-> dwControlKeyState'] \in Chars
      BY <1>2, <2>3 DEF Chars
    <3>2. QED
      BY <1>1, <2>3, <3>1, AddStep
  <2>4. CASE UNCHANGED <<pc, Line, CurrentPosition, display, text, wrapped>>
    BY <1>1, <2>4 DEF LineInv, Screen, AtRest, EchoIsStored, ReturnsTyped
  <2>5. QED
    BY <2>1, <2>2, <2>3, <2>4 DEF KeyEvent
<1>4. TypeOK'
  BY <1>2, <1>3 DEF TypeOK, LineInv
<1>5. QED
  BY <1>2, <1>3, <1>4 DEF IInv, LineInv

LEMMA NextInv == IInv /\ [Next]_vars => IInv'
<1> SUFFICES ASSUME IInv, [Next]_vars
             PROVE  IInv'
  OBVIOUS
<1>1. CASE ShowPrompt
  BY <1>1, PromptStep
<1>2. CASE RtlCliGetLine
  <2>1. PICK k \in Keys, press \in BOOLEAN : KeyEvent(k, press)
    BY <1>2 DEF RtlCliGetLine
  <2>2. QED
    BY <2>1, KeyStep
<1>3. CASE RunCommand \/ RunProgram
  BY <1>3, CommandStep
<1>4. CASE AwaitKey
  BY <1>4, AwaitStep
<1>5. CASE UNCHANGED vars
  BY <1>5 DEF vars, IInv, TypeOK, Screen, AtRest, EchoIsStored, ReturnsTyped, ShiftTracksKeys
<1>6. QED
  BY <1>1, <1>2, <1>3, <1>4, <1>5 DEF Next

LEMMA Invariance == Spec => []IInv
  BY InitInv, NextInv, PTL DEF Spec

-----------------------------------------------------------------------------
(***************************************************************************)
(* Every variable has its type: whatever keys are typed, the index into    *)
(* Line stays in the range of a CHAR.                                      *)
(***************************************************************************)
THEOREM TypeCorrect == Spec => []TypeOK
<1>1. IInv => TypeOK
  BY DEF IInv
<1>2. QED
  BY <1>1, Invariance, PTL

(***************************************************************************)
(* As long as a line has not left its first row, the row shows exactly     *)
(* DisplayBuffer: the redraws of RtlClipBackspace leave nothing of what    *)
(* was erased, for a screen of any width and any prompt and line.          *)
(***************************************************************************)
THEOREM ScreenCorrect == Spec => []ScreenShowsBuffer
<1>1. ASSUME Screen, display.begins # "above"
      PROVE  ScreenShowsBuffer
  <2> DEFINE n == Len(display.buffer)
             shown == SubSeq(display.row, 1, n)
  <2>1. /\ display \in Display /\ display.cursor = n /\ n <= Len(display.row)
        /\ n \in Nat /\ Len(display.row) \in Nat
        /\ display.row \in Seq(Glyphs) /\ display.buffer \in Seq(Glyphs)
        /\ \A i \in 1..n : display.row[i] = display.buffer[i]
    BY <1>1, DisplayType DEF Screen, Shows
  <2>2. \A i \in 1..n : display.row[i] \in Glyphs
    BY <2>1, ElementOfSeq
  <2>3. /\ shown \in Seq(Glyphs)
        /\ Len(shown) = IF 1 <= n THEN n - 1 + 1 ELSE 0
        /\ \A i \in 1..(n - 1 + 1) : shown[i] = display.row[1 + i - 1]
    BY <2>1, <2>2, SubSeqProperties
  <2>4. Len(shown) = n /\ \A i \in 1..n : shown[i] = display.buffer[i]
    BY <2>1, <2>3
  <2>5. shown = display.buffer
    BY <2>1, <2>3, <2>4, SeqEqual
  <2>6. QED
    BY <1>1, <2>1, <2>5 DEF Screen, BlankFrom, ScreenShowsBuffer
<1>2. IInv => ScreenShowsBuffer
  BY <1>1 DEF IInv, ScreenShowsBuffer
<1>3. QED
  BY <1>2, Invariance, PTL

(***************************************************************************)
(* What the user sees behind the prompt is what RtlCliGetLine stored, as   *)
(* long as CurrentPosition never left the buffer.                          *)
(***************************************************************************)
THEOREM EchoCorrect == Spec => []EchoIsStored
<1>1. IInv => EchoIsStored
  BY DEF IInv
<1>2. QED
  BY <1>1, Invariance, PTL

(***************************************************************************)
(* The parser gets the line that was typed and edited, terminated, with    *)
(* nothing left of a longer line before it.                                *)
(***************************************************************************)
THEOREM ReturnCorrect == Spec => []ReturnsTyped
<1>1. IInv => ReturnsTyped
  BY DEF IInv
<1>2. QED
  BY <1>1, Invariance, PTL

(***************************************************************************)
(* The shift bit of IntUpdateControlKeyState is on only while a shift key  *)
(* is down, for any sequence of presses, repeats and releases; what a      *)
(* program run in between leaves wrong, the next shift event puts right.   *)
(***************************************************************************)
THEOREM ShiftCorrect == Spec => []ShiftTracksKeys
<1>1. IInv => ShiftTracksKeys
  BY DEF IInv
<1>2. QED
  BY <1>1, Invariance, PTL

--------------------------------------------------------------------------------
\* Format.  Inductions are by the least number for which a claim fails.
LEMMA Least ==
  ASSUME NEW T, T \subseteq Nat, T # {}
  PROVE  \E x \in T : \A y \in T : x <= y
<1>1. PICK R : R = OpToRel(<, Nat)
  OBVIOUS
<1>2. IsWellFoundedOn(R, Nat)
  BY <1>1, NatLessThanWellFounded
<1>3. PICK x \in T : \A y \in T : ~(<<y, x>> \in R)
  BY <1>2, WFMin
<1>4. \A y \in T : ~(y < x)
  BY <1>1, <1>3 DEF OpToRel
<1>5. QED
  BY <1>3, <1>4

\* Induction from i to n: P is the set where the claim holds.
LEMMA Upwards ==
  ASSUME NEW i \in Nat, NEW n \in Nat, NEW P, i \in P,
         \A k \in i..(n - 1) : k \in P => k + 1 \in P
  PROVE  \A k \in i..n : k \in P
<1>1. SUFFICES ASSUME NEW j \in i..n, j \notin P
               PROVE  FALSE
  OBVIOUS
<1>2. PICK x \in {k \in i..n : k \notin P} : \A y \in {k \in i..n : k \notin P} : x <= y
  <2>1. PICK T : T = {k \in i..n : k \notin P}
    OBVIOUS
  <2>2. T \subseteq Nat /\ T # {}
    BY <1>1, <2>1
  <2>3. QED
    BY <2>1, <2>2, Least
<1>3. x # i /\ x \in i..n /\ x - 1 \in i..(n - 1) /\ (x - 1) + 1 = x
  BY <1>2
<1>4. x - 1 \in P
  <2>1. x - 1 \in i..n /\ ~(x <= x - 1)
    BY <1>3
  <2>2. QED
    BY <1>2, <2>1
<1>5. QED
  BY <1>2, <1>3, <1>4
--------------------------------------------------------------------------------
Bases == {10, 16}

\* A row of digits, and the values of its beginnings.
Row(base, r) == /\ Len(r) \in Nat /\ r = [i \in 1..Len(r) |-> r[i]]
                /\ \A i \in 1..Len(r) : r[i] \in 0..(base - 1)

Valuing(r, base, v) ==
  v = [i \in 0..Len(r) |-> IF i = 0 THEN 0 ELSE v[i - 1] * base + r[i]]

LEMMA DivLemma ==
  ASSUME NEW base \in Bases, NEW v \in Nat, NEW d \in 0..(base - 1)
  PROVE  /\ v * base + d \in Nat
         /\ (v * base + d) \div base = v /\ (v * base + d) % base = d
         /\ v <= v * base + d
         /\ v = 0 => v * base + d = d
         /\ v > 0 => v * base + d >= base
         /\ v \div base \in Nat /\ v % base \in 0..(base - 1)
         /\ (v \div base) * base + (v % base) = v
         /\ v >= base => v \div base < v /\ v \div base > 0
<1>1. CASE base = 10
  BY <1>1
<1>2. CASE base = 16
  BY <1>2
<1>3. QED
  BY <1>1, <1>2 DEF Bases

LEMMA ValuesExist ==
  ASSUME NEW base, NEW r, Len(r) \in Nat
  PROVE  \E v : Valuing(r, base, v)
<1>1. PICK n : n = Len(r)
  OBVIOUS
<1>2. PICK P : P = {m \in 0..n :
                      \E v : v = [i \in 0..m |-> IF i = 0 THEN 0 ELSE v[i - 1] * base + r[i]]}
  OBVIOUS
<1>3. 0 \in P
  <2>1. PICK v : v = [k \in 0..0 |-> 0]
    OBVIOUS
  <2>2. v = [k \in 0..0 |-> IF k = 0 THEN 0 ELSE v[k - 1] * base + r[k]]
    BY <2>1
  <2>3. QED
    BY <1>1, <1>2, <2>2
<1>4. ASSUME NEW m \in 0..(n - 1), m \in P
      PROVE  m + 1 \in P
  <2>1. PICK v : v = [i \in 0..m |-> IF i = 0 THEN 0 ELSE v[i - 1] * base + r[i]]
    BY <1>2, <1>4
  <2>2. PICK w : w = [i \in 0..(m + 1) |-> IF i <= m THEN v[i] ELSE v[m] * base + r[m + 1]]
    OBVIOUS
  <2>3. ASSUME NEW k \in 0..(m + 1)
        PROVE  w[k] = IF k = 0 THEN 0 ELSE w[k - 1] * base + r[k]
    <3>1. CASE k = 0
      BY <2>1, <2>2, <3>1
    <3>2. CASE k \in 1..m
      <4>1. k \in 0..m /\ k - 1 \in 0..m /\ k - 1 \in 0..(m + 1) /\ k - 1 <= m /\ k # 0 /\ k <= m
        BY <3>2
      <4>2. w[k] = v[k] /\ w[k - 1] = v[k - 1]
        BY <2>2, <4>1
      <4>3. v[k] = v[k - 1] * base + r[k]
        BY <2>1, <4>1
      <4>4. QED
        BY <4>1, <4>2, <4>3
    <3>3. CASE k = m + 1
      <4>1. ~(m + 1 <= m) /\ (m + 1) - 1 = m /\ m \in 0..(m + 1) /\ m + 1 # 0 /\ m <= m
        OBVIOUS
      <4>2. w[m] = v[m] /\ w[m + 1] = v[m] * base + r[m + 1]
        BY <2>2, <4>1
      <4>3. QED
        BY <3>3, <4>1, <4>2
    <3>4. QED
      BY <3>1, <3>2, <3>3
  <2>4. w = [i \in 0..(m + 1) |-> IF i = 0 THEN 0 ELSE w[i - 1] * base + r[i]]
    BY <2>2, <2>3
  <2>5. m + 1 \in 0..n
    BY <1>1
  <2>6. QED
    BY <1>2, <2>4, <2>5
<1>5. n \in P
  <2>1. n \in Nat /\ 0 \in Nat /\ n \in 0..n
    BY <1>1
  <2>2. \A k \in 0..n : k \in P
    BY <1>3, <1>4, <2>1, Upwards
  <2>3. QED
    BY <2>1, <2>2
<1>6. QED
  BY <1>1, <1>2, <1>5 DEF Valuing

LEMMA ValueLemma ==
  ASSUME NEW base, NEW r, Len(r) \in Nat
  PROVE  \E v : Valuing(r, base, v) /\ Value(r, base) = v[Len(r)]
<1>1. PICK w : Valuing(r, base, w)
  BY ValuesExist
<1>2. PICK v : v = CHOOSE u : Valuing(r, base, u)
  OBVIOUS
<1>3. Valuing(r, base, v)
  BY <1>1, <1>2
<1>4. Value(r, base) = v[Len(r)]
  BY <1>2 DEF Value, Valuing
<1>5. QED
  BY <1>3, <1>4

LEMMA ValuingStep ==
  ASSUME NEW base \in Bases, NEW r, Row(base, r), NEW v, Valuing(r, base, v)
  PROVE  /\ v[0] = 0
         /\ \A i \in 0..(Len(r) - 1) : v[i + 1] = v[i] * base + r[i + 1]
         /\ \A i \in 0..Len(r) : v[i] \in Nat
<1>1. PICK n \in Nat : n = Len(r)
  BY DEF Row
<1>2. v = [i \in 0..n |-> IF i = 0 THEN 0 ELSE v[i - 1] * base + r[i]]
  BY <1>1 DEF Valuing
<1>3. v[0] = 0
  BY <1>1, <1>2
<1>4. \A i \in 0..(n - 1) : v[i + 1] = v[i] * base + r[i + 1]
  <2>1. TAKE i \in 0..(n - 1)
  <2>2. i + 1 \in 0..n /\ i + 1 # 0 /\ (i + 1) - 1 = i
    BY <1>1
  <2>3. QED
    BY <1>2, <2>2
<1>5. PICK P : P = {i \in 0..n : v[i] \in Nat}
  OBVIOUS
<1>6. 0 \in P
  BY <1>1, <1>3, <1>5
<1>7. ASSUME NEW i \in 0..(n - 1), i \in P
      PROVE  i + 1 \in P
  <2>1. i + 1 \in 1..n /\ i + 1 \in 0..n
    BY <1>1
  <2>2. r[i + 1] \in 0..(base - 1)
    BY <1>1, <2>1 DEF Row
  <2>3. v[i] * base + r[i + 1] \in Nat
    BY <1>5, <1>7, <2>2, DivLemma
  <2>4. QED
    BY <1>4, <1>5, <2>1, <2>3
<1>8. \A i \in 0..n : i \in P
  BY <1>1, <1>6, <1>7, Upwards
<1>9. QED
  BY <1>1, <1>3, <1>4, <1>5, <1>8

LEMMA ValuingUnique ==
  ASSUME NEW base, NEW r, Len(r) \in Nat, NEW v, Valuing(r, base, v), NEW w, Valuing(r, base, w)
  PROVE  v = w
<1>1. PICK n \in Nat : n = Len(r)
  OBVIOUS
<1>2. /\ v = [i \in 0..n |-> IF i = 0 THEN 0 ELSE v[i - 1] * base + r[i]]
      /\ w = [i \in 0..n |-> IF i = 0 THEN 0 ELSE w[i - 1] * base + r[i]]
  BY <1>1 DEF Valuing
<1>3. PICK P : P = {i \in 0..n : v[i] = w[i]}
  OBVIOUS
<1>4. 0 \in P
  BY <1>1, <1>2, <1>3
<1>5. ASSUME NEW i \in 0..(n - 1), i \in P
      PROVE  i + 1 \in P
  <2>1. i + 1 \in 0..n /\ i + 1 # 0 /\ (i + 1) - 1 = i
    BY <1>1
  <2>2. v[i + 1] = v[i] * base + r[i + 1] /\ w[i + 1] = w[i] * base + r[i + 1]
    BY <1>2, <2>1
  <2>3. QED
    BY <1>3, <1>5, <2>1, <2>2
<1>6. \A i \in 0..n : i \in P
  BY <1>1, <1>4, <1>5, Upwards
<1>7. QED
  BY <1>2, <1>3, <1>6

\* The value of a row with one more digit.
LEMMA ValueAppend ==
  ASSUME NEW base \in Bases, NEW r, Row(base, r), NEW s, Row(base, s), Len(s) = Len(r) + 1,
         \A i \in 1..Len(r) : s[i] = r[i]
  PROVE  Value(s, base) = Value(r, base) * base + s[Len(s)]
<1>1. PICK n \in Nat : n = Len(r) /\ n + 1 = Len(s)
  BY DEF Row
<1>2. PICK v : Valuing(r, base, v) /\ Value(r, base) = v[n]
  BY <1>1, ValueLemma
<1>3. PICK w : Valuing(s, base, w) /\ Value(s, base) = w[n + 1]
  BY <1>1, ValueLemma
<1>4. PICK P : P = {i \in 0..n : v[i] = w[i]}
  OBVIOUS
<1>5. 0 \in P
  BY <1>1, <1>2, <1>3, <1>4, ValuingStep
<1>6. ASSUME NEW i \in 0..(n - 1), i \in P
      PROVE  i + 1 \in P
  <2>1. i \in 0..(n + 1 - 1) /\ i + 1 \in 1..n /\ i + 1 \in 0..n
    BY <1>1
  <2>2. v[i + 1] = v[i] * base + r[i + 1] /\ w[i + 1] = w[i] * base + s[i + 1]
    BY <1>1, <1>2, <1>3, <2>1, ValuingStep
  <2>3. QED
    BY <1>1, <1>4, <1>6, <2>1, <2>2
<1>7. \A i \in 0..n : i \in P
  BY <1>1, <1>5, <1>6, Upwards
<1>8. v[n] = w[n]
  BY <1>1, <1>4, <1>7
<1>9. w[n + 1] = w[n] * base + s[n + 1]
  <2>1. n \in 0..((n + 1) - 1)
    OBVIOUS
  <2>2. QED
    BY <1>1, <1>3, <2>1, ValuingStep
<1>10. QED
  BY <1>1, <1>2, <1>3, <1>8, <1>9

Highest == 2 * HalfInt - 1

LEMMA WordsLemma == Highest \in Nat /\ Words = 0..Highest /\ Words \subseteq Nat
  BY HalfIntAssumption DEF Words, Highest

Digiting(base, m, f) ==
  f = [v \in 0..m |-> IF v < base THEN <<v>> ELSE Append(f[v \div base], v % base)]

LEMMA DigitsExist ==
  ASSUME NEW base \in Bases
  PROVE  \E f : Digiting(base, Highest, f)
<1>1. PICK n \in Nat : n = Highest
  BY WordsLemma
<1>2. PICK P : P = {m \in 0..n : \E f : Digiting(base, m, f)}
  OBVIOUS
<1>3. 0 \in P
  <2>1. PICK f : f = [v \in 0..0 |-> <<v>>]
    OBVIOUS
  <2>2. \A v \in 0..0 : v < base
    BY DEF Bases
  <2>3. f = [v \in 0..0 |-> IF v < base THEN <<v>> ELSE Append(f[v \div base], v % base)]
    BY <2>1, <2>2
  <2>4. QED
    BY <1>1, <1>2, <2>3 DEF Digiting
<1>4. ASSUME NEW m \in 0..(n - 1), m \in P
      PROVE  m + 1 \in P
  <2>1. PICK f : Digiting(base, m, f)
    BY <1>2, <1>4
  <2>2. f = [v \in 0..m |-> IF v < base THEN <<v>> ELSE Append(f[v \div base], v % base)]
    BY <2>1 DEF Digiting
  <2>3. PICK g : g = [v \in 0..(m + 1) |->
                        IF v <= m THEN f[v]
                        ELSE IF v < base THEN <<v>> ELSE Append(f[v \div base], v % base)]
    OBVIOUS
  <2>4. ASSUME NEW v \in 0..(m + 1)
        PROVE  g[v] = IF v < base THEN <<v>> ELSE Append(g[v \div base], v % base)
    <3>1. g[v] = IF v < base THEN <<v>> ELSE Append(f[v \div base], v % base)
      <4>1. CASE v <= m
        <5>1. v \in 0..m /\ g[v] = f[v]
          BY <2>3, <4>1
        <5>2. QED
          BY <2>2, <5>1
      <4>2. CASE ~(v <= m)
        BY <2>3, <4>2
      <4>3. QED
        BY <4>1, <4>2
    <3>2. CASE v < base
      BY <3>1, <3>2
    <3>3. CASE ~(v < base)
      <4>1. v \in Nat /\ v >= base
        BY <3>3 DEF Bases
      <4>2. 0 \in 0..(base - 1)
        BY DEF Bases
      <4>3. v \div base \in Nat /\ v \div base < v
        BY <4>1, <4>2, DivLemma
      <4>4. v \div base \in 0..(m + 1) /\ v \div base <= m
        BY <4>1, <4>3
      <4>5. g[v \div base] = f[v \div base]
        BY <2>3, <4>4
      <4>6. QED
        BY <3>1, <3>3, <4>5
    <3>4. QED
      BY <3>2, <3>3
  <2>5. Digiting(base, m + 1, g)
    BY <2>3, <2>4 DEF Digiting
  <2>6. m + 1 \in 0..n
    BY <1>1
  <2>7. QED
    BY <1>2, <2>5, <2>6
<1>5. n \in P
  <2>1. n \in Nat /\ 0 \in Nat /\ n \in 0..n
    BY <1>1
  <2>2. \A k \in 0..n : k \in P
    BY <1>3, <1>4, <2>1, Upwards
  <2>3. QED
    BY <2>1, <2>2
<1>6. QED
  BY <1>1, <1>2, <1>5

\* The recursion of the two fmt_utoa has a value.
LEMMA DigitsLemma ==
  ASSUME NEW base \in Bases, NEW n \in Words
  PROVE  Digits(n, base) = IF n < base THEN <<n>>
                           ELSE Append(Digits(n \div base, base), n % base)
<1>1. PICK f : f = CHOOSE g : Digiting(base, Highest, g)
  OBVIOUS
<1>2. Digiting(base, Highest, f)
  BY <1>1, DigitsExist
<1>3. \A v : Digits(v, base) = f[v]
  BY <1>1, WordsLemma DEF Digits, Digiting
<1>4. f[n] = IF n < base THEN <<n>> ELSE Append(f[n \div base], n % base)
  BY <1>2, WordsLemma DEF Digiting
<1>5. QED
  BY <1>3, <1>4

LEMMA SmallerWord ==
  ASSUME NEW base \in Bases, NEW n \in Words, n >= base
  PROVE  n \div base \in Words /\ n \div base < n /\ n \div base > 0 /\ n % base \in 0..(base - 1)
<1>1. n \in Nat /\ 0 \in 0..(base - 1)
  BY WordsLemma DEF Bases
<1>2. n \div base \in Nat /\ n % base \in 0..(base - 1) /\ n \div base < n /\ n \div base > 0
  BY <1>1, DivLemma
<1>3. QED
  BY <1>1, <1>2, WordsLemma

LEMMA RowLemma ==
  ASSUME NEW base \in Bases, NEW r \in Seq(0..(base - 1))
  PROVE  Row(base, r) /\ Len(r) \in Nat
<1>1. Len(r) \in Nat /\ r \in [1..Len(r) -> 0..(base - 1)]
  BY LenProperties
<1>2. QED
  BY <1>1 DEF Row

\* What the digits of n have to be.
Denotes(base, r, n) ==
  /\ r \in Seq(0..(base - 1)) /\ Len(r) \in Nat \ {0}
  /\ Value(r, base) = n
  /\ n > 0 => r[1] # 0
  /\ n = 0 => Len(r) = 1

LEMMA OneDigit ==
  ASSUME NEW base \in Bases, NEW n \in 0..(base - 1)
  PROVE  Denotes(base, <<n>>, n)
<1>1. PICK r : r = <<n>>
  OBVIOUS
<1>2. r \in Seq(0..(base - 1)) /\ Len(r) = 1 /\ r[1] = n
  BY <1>1
<1>3. PICK v : Valuing(r, base, v) /\ Value(r, base) = v[1]
  <2>1. Len(r) \in Nat
    BY <1>2
  <2>2. PICK v : Valuing(r, base, v) /\ Value(r, base) = v[Len(r)]
    BY <2>1, ValueLemma
  <2>3. QED
    BY <1>2, <2>2
<1>4. Row(base, r)
  BY <1>2, RowLemma
<1>5. v[0] = 0 /\ v[0 + 1] = v[0] * base + r[0 + 1]
  <2>1. 0 \in 0..(Len(r) - 1)
    BY <1>2
  <2>2. QED
    BY <1>3, <1>4, <2>1, ValuingStep
<1>6. v[1] = n
  BY <1>2, <1>5 DEF Bases
<1>7. QED
  BY <1>1, <1>2, <1>3, <1>6 DEF Denotes

LEMMA OneMoreDigit ==
  ASSUME NEW base \in Bases, NEW r, NEW q \in Nat, q > 0, Denotes(base, r, q),
         NEW d \in 0..(base - 1)
  PROVE  Denotes(base, Append(r, d), q * base + d)
<1>1. PICK s : s = Append(r, d)
  OBVIOUS
<1>2. r \in Seq(0..(base - 1)) /\ Len(r) \in Nat \ {0}
  BY DEF Denotes
<1>3. /\ s \in Seq(0..(base - 1)) /\ Len(s) = Len(r) + 1
      /\ s[Len(s)] = d /\ \A i \in 1..Len(r) : s[i] = r[i]
  BY <1>1, <1>2, AppendProperties
<1>4. Value(s, base) = q * base + d
  BY <1>2, <1>3, RowLemma, ValueAppend DEF Denotes
<1>5. s[1] # 0
  <2>1. 1 \in 1..Len(r)
    BY <1>2
  <2>2. QED
    BY <1>3, <2>1 DEF Denotes
<1>6. q * base + d >= base /\ q * base + d \in Nat /\ base > 0
  BY DivLemma DEF Bases
<1>7. PICK e : e = q * base + d
  OBVIOUS
<1>8. e > 0 /\ e # 0
  BY <1>6, <1>7 DEF Bases
<1>9. Len(s) \in Nat \ {0}
  BY <1>2, <1>3
<1>10. Denotes(base, s, e)
  BY <1>3, <1>4, <1>5, <1>7, <1>8, <1>9 DEF Denotes
<1>11. QED
  BY <1>1, <1>7, <1>10

\* The digits of a word have its value and no zero in front.
LEMMA DigitsDenote ==
  ASSUME NEW base \in Bases
  PROVE  \A n \in Words : Denotes(base, Digits(n, base), n)
<1>1. PICK P : P = {n \in Words : ~Denotes(base, Digits(n, base), n)}
  OBVIOUS
<1>2. SUFFICES ASSUME P # {}
               PROVE  FALSE
  BY <1>1
<1>3. PICK n \in P : \A y \in P : n <= y
  BY <1>1, <1>2, WordsLemma, Least
<1>4. n \in Words /\ n \in Nat
  BY <1>1, WordsLemma
<1>5. CASE n < base
  <2>1. n \in 0..(base - 1)
    BY <1>4, <1>5 DEF Bases
  <2>2. Digits(n, base) = <<n>>
    BY <1>4, <1>5, DigitsLemma
  <2>3. QED
    BY <1>1, <2>1, <2>2, OneDigit
<1>6. CASE ~(n < base)
  <2>1. n >= base
    BY <1>4, <1>6 DEF Bases
  <2>2. PICK q : q = n \div base
    OBVIOUS
  <2>3. PICK d : d = n % base
    OBVIOUS
  <2>4. q \in Words /\ q < n /\ q > 0 /\ d \in 0..(base - 1) /\ q \in Nat
    BY <1>4, <2>1, <2>2, <2>3, SmallerWord, WordsLemma
  <2>5. Denotes(base, Digits(q, base), q)
    BY <1>1, <1>3, <1>4, <2>4
  <2>6. Digits(n, base) = Append(Digits(q, base), d)
    BY <1>4, <1>6, <2>2, <2>3, DigitsLemma
  <2>7. q * base + d = n
    BY <1>4, <2>2, <2>3, <2>4, DivLemma
  <2>8. QED
    BY <1>1, <2>4, <2>5, <2>6, <2>7, OneMoreDigit
<1>7. QED
  BY <1>5, <1>6

\* A row with the value of n has as many digits, and is the digits of n when
\* it has no zero in front.
LEMMA RowsOf ==
  ASSUME NEW base \in Bases, NEW r \in Seq(0..(base - 1)), Len(r) \in Nat \ {0},
         Value(r, base) \in Words
  PROVE  /\ Len(Digits(Value(r, base), base)) <= Len(r)
         /\ (Len(r) > 1 => r[1] # 0) => r = Digits(Value(r, base), base)
<1>1. PICK m \in Nat \ {0} : m = Len(r)
  OBVIOUS
<1>2. PICK v : Valuing(r, base, v) /\ Value(r, base) = v[m]
  BY <1>1, ValueLemma
<1>3. Row(base, r)
  BY RowLemma
<1>4. /\ v[0] = 0
      /\ \A i \in 0..(m - 1) : v[i + 1] = v[i] * base + r[i + 1]
      /\ \A i \in 0..m : v[i] \in Nat
  BY <1>1, <1>2, <1>3, ValuingStep
<1>5. \A i \in 1..m : r[i] \in 0..(base - 1)
  BY <1>1, <1>3 DEF Row
<1>6. PICK P : P = {k \in 1..m :
         /\ v[k] \in Words =>
              /\ Digits(v[k], base) \in Seq(0..(base - 1))
              /\ Len(Digits(v[k], base)) <= k
              /\ (m > 1 => r[1] # 0) => Digits(v[k], base) = [i \in 1..k |-> r[i]]
         /\ r[1] # 0 => v[k] > 0}
  OBVIOUS
<1>7. 1 \in P
  <2>1. v[0 + 1] = v[0] * base + r[0 + 1]
    BY <1>1, <1>4
  <2>2. 1 \in 1..m /\ r[1] \in 0..(base - 1)
    BY <1>1, <1>5
  <2>3. v[1] = r[1]
    BY <1>4, <2>1, <2>2 DEF Bases
  <2>4. v[1] < base /\ v[1] \in 0..(base - 1)
    BY <2>2, <2>3 DEF Bases
  <2>5. PICK z : z = <<v[1]>>
    OBVIOUS
  <2>6. v[1] \in Words => Digits(v[1], base) = z
    BY <2>4, <2>5, DigitsLemma
  <2>7. z = [i \in 1..1 |-> r[i]] /\ z \in Seq(0..(base - 1)) /\ Len(z) = 1
    BY <2>3, <2>4, <2>5
  <2>8. r[1] # 0 => v[1] > 0
    BY <2>2, <2>3 DEF Bases
  <2>9. v[1] \in Words =>
          /\ Digits(v[1], base) \in Seq(0..(base - 1))
          /\ Len(Digits(v[1], base)) <= 1
          /\ Digits(v[1], base) = [i \in 1..1 |-> r[i]]
    <3>1. SUFFICES ASSUME v[1] \in Words
                   PROVE  /\ z \in Seq(0..(base - 1)) /\ Len(z) <= 1
                          /\ z = [i \in 1..1 |-> r[i]]
      BY <2>6
    <3>2. QED
      BY <2>7
  <2>10. QED
    BY <1>6, <2>2, <2>8, <2>9
<1>8. ASSUME NEW k \in 1..(m - 1), k \in P
      PROVE  k + 1 \in P
  <2>1. PICK q : q = v[k]
    OBVIOUS
  <2>2. PICK d : d = r[k + 1]
    OBVIOUS
  <2>3. /\ k \in 0..(m - 1) /\ k \in 0..m /\ k + 1 \in 1..m /\ k + 1 \in 0..m
        /\ k \in Nat \ {0} /\ m > 1
    BY <1>1
  <2>4. q \in Nat /\ d \in 0..(base - 1) /\ v[k + 1] = q * base + d
    BY <1>4, <1>5, <2>1, <2>2, <2>3
  <2>5. /\ (q * base + d) \div base = q /\ (q * base + d) % base = d
        /\ q <= q * base + d
        /\ q > 0 => q * base + d >= base
        /\ q = 0 => q * base + d = d
    BY <2>4, DivLemma
  <2>6. r[1] # 0 => q > 0 /\ v[k + 1] >= base
    BY <1>6, <1>8, <2>1, <2>4, <2>5
  <2>7. r[1] # 0 => v[k + 1] > 0
    BY <2>4, <2>5, <2>6 DEF Bases
  <2>8. ASSUME v[k + 1] \in Words
        PROVE  /\ Digits(v[k + 1], base) \in Seq(0..(base - 1))
               /\ Len(Digits(v[k + 1], base)) <= k + 1
               /\ (m > 1 => r[1] # 0) => Digits(v[k + 1], base) = [i \in 1..(k + 1) |-> r[i]]
    <3>1. q \in Words
      BY <2>4, <2>5, <2>8, WordsLemma
    <3>2. PICK s : s = Digits(q, base)
      OBVIOUS
    <3>3. /\ s \in Seq(0..(base - 1)) /\ Len(s) <= k
          /\ r[1] # 0 => s = [i \in 1..k |-> r[i]]
      BY <1>6, <1>8, <2>1, <3>1, <3>2
    <3>4. CASE v[k + 1] < base
      <4>1. v[k + 1] \in 0..(base - 1)
        BY <2>4, <2>5, <3>4 DEF Bases
      <4>2. Digits(v[k + 1], base) = <<v[k + 1]>>
        BY <2>8, <3>4, DigitsLemma
      <4>3. <<v[k + 1]>> \in Seq(0..(base - 1)) /\ Len(<<v[k + 1]>>) = 1
        BY <4>1
      <4>4. r[1] = 0
        BY <2>6, <3>4, <4>1 DEF Bases
      <4>5. QED
        BY <2>3, <4>2, <4>3, <4>4
    <3>5. CASE ~(v[k + 1] < base)
      <4>1. Digits(v[k + 1], base) = Append(s, d)
        BY <2>4, <2>5, <2>8, <3>2, <3>5, DigitsLemma
      <4>2. PICK t : t = Append(s, d)
        OBVIOUS
      <4>3. /\ t \in Seq(0..(base - 1)) /\ Len(t) = Len(s) + 1 /\ t[Len(s) + 1] = d
            /\ \A i \in 1..Len(s) : t[i] = s[i]
        BY <2>4, <3>3, <4>2, AppendProperties
      <4>4. Len(s) \in Nat /\ Len(t) <= k + 1
        BY <2>3, <3>3, <4>3, LenProperties
      <4>5. ASSUME r[1] # 0
            PROVE  t = [i \in 1..(k + 1) |-> r[i]]
        <5>1. s = [i \in 1..k |-> r[i]]
          BY <3>3, <4>5
        <5>2. Len(s) = k
          BY <2>3, <5>1
        <5>3. Len(t) = k + 1 /\ t = [i \in 1..(k + 1) |-> t[i]]
          BY <4>3, <5>2, LenProperties
        <5>4. \A i \in 1..(k + 1) : t[i] = r[i]
          <6>1. TAKE i \in 1..(k + 1)
          <6>2. i \in 1..k \/ i = k + 1
            BY <2>3
          <6>3. QED
            BY <2>2, <4>3, <5>1, <5>2, <6>2
        <5>5. QED
          BY <5>3, <5>4
      <4>6. QED
        BY <2>3, <4>1, <4>2, <4>3, <4>4, <4>5
    <3>6. QED
      BY <3>4, <3>5
  <2>9. QED
    BY <1>6, <2>3, <2>7, <2>8
<1>9. m \in P
  <2>1. 1 \in Nat /\ m \in Nat /\ m \in 1..m
    BY <1>1
  <2>2. \A k \in 1..m : k \in P
    BY <1>7, <1>8, <2>1, Upwards
  <2>3. QED
    BY <2>1, <2>2
<1>10. r = [i \in 1..m |-> r[i]]
  BY <1>1, <1>3 DEF Row
<1>11. QED
  BY <1>1, <1>2, <1>6, <1>9, <1>10

LEMMA SeqLemma ==
  ASSUME NEW S, NEW m \in Nat, NEW r \in [1..m -> S]
  PROVE  r \in Seq(S) /\ Len(r) = m
<1>1. r \in Seq(S)
  OBVIOUS
<1>2. QED
  BY <1>1, LenProperties

LEMMA ShortestLemma ==
  ASSUME NEW base \in Bases, NEW n \in Words
  PROVE  Shortest(n, base) = Digits(n, base)
<1>1. PICK s : s = Digits(n, base)
  OBVIOUS
<1>2. Denotes(base, s, n) /\ n \in Nat
  BY <1>1, DigitsDenote, WordsLemma
<1>3. \A r \in Rows(base) : /\ r \in Seq(0..(base - 1)) /\ Len(r) \in Nat \ {0}
                            /\ Len(r) \in 1..MaxDigits
  <2>1. TAKE r \in Rows(base)
  <2>2. PICK m \in 1..MaxDigits : r \in [1..m -> 0..(base - 1)]
    BY DEF Rows
  <2>3. m \in Nat \ {0}
    BY <2>2
  <2>4. r \in Seq(0..(base - 1)) /\ Len(r) = m
    BY <2>2, <2>3, SeqLemma
  <2>5. QED
    BY <2>2, <2>3, <2>4
<1>4. PICK row \in Rows(base) : Value(row, base) = n
  BY MaxDigitsAssumption DEF Bases
<1>5. Len(s) <= Len(row) /\ Len(row) \in 1..MaxDigits
  BY <1>1, <1>3, <1>4, RowsOf
<1>6. s \in Rows(base)
  <2>1. Len(s) \in Nat \ {0} /\ s \in [1..Len(s) -> 0..(base - 1)]
    BY <1>2, LenProperties DEF Denotes
  <2>2. Len(s) \in 1..MaxDigits
    BY <1>5, <2>1, MaxDigitsAssumption
  <2>3. QED
    BY <2>1, <2>2 DEF Rows
<1>7. Value(s, base) = n /\ (Len(s) > 1 => s[1] # 0)
  BY <1>2 DEF Denotes
<1>8. ASSUME NEW r \in Rows(base), Value(r, base) = n, Len(r) > 1 => r[1] # 0
      PROVE  r = s
  BY <1>1, <1>3, <1>8, RowsOf
<1>9. QED
  BY <1>1, <1>6, <1>7, <1>8 DEF Shortest

\* fmt_utoa_dec and fmt_utoa_hex give a word's numeral, fmt_itoa_dec an int's.
LEMMA UtoaLemma ==
  ASSUME NEW base \in Bases, NEW n \in Words
  PROVE  FmtUtoa(n, base) = Numeral(n, base)
<1>1. QED
  BY ShortestLemma DEF FmtUtoa, Numeral

LEMMA ItoaLemma ==
  ASSUME NEW n \in Words
  PROVE  FmtItoa(n) = Signed(n)
<1>1. 10 \in Bases /\ n \in Nat /\ n \in 0..(2 * HalfInt - 1) /\ HalfInt \in Nat \ {0}
  BY HalfIntAssumption, WordsLemma DEF Bases, Words
<1>2. CASE n >= HalfInt
  <2>1. n - 2 * HalfInt < 0 /\ -((n - 2 * HalfInt) + 1) + 1 = 2 * HalfInt - n
    BY <1>1
  <2>2. 2 * HalfInt - n \in 0..(2 * HalfInt - 1)
    BY <1>1, <1>2
  <2>3. (2 * HalfInt - n) % (2 * HalfInt) = 2 * HalfInt - n
    <3>1. PICK a \in Nat : a = 2 * HalfInt - n
      BY <2>2
    <3>2. PICK m \in Nat : m = 2 * HalfInt
      BY <1>1
    <3>3. a < m /\ m > 0
      BY <1>1, <2>2, <3>1, <3>2
    <3>4. a % m = a
      BY <3>3, SMTT(30)
    <3>5. QED
      BY <3>1, <3>2, <3>4
  <2>4. FmtUtoa(2 * HalfInt - n, 10) = Numeral(2 * HalfInt - n, 10)
    BY <1>1, <2>2, UtoaLemma DEF Words
  <2>5. FmtItoa(n) = <<"-">> \o FmtUtoa((-((n - 2 * HalfInt) + 1) + 1) % (2 * HalfInt), 10)
    BY <1>2, <2>1 DEF FmtItoa
  <2>6. QED
    BY <1>2, <2>1, <2>3, <2>4, <2>5 DEF Signed
<1>3. CASE ~(n >= HalfInt)
  <2>1. ~(n < 0)
    BY <1>1
  <2>2. QED
    BY <1>1, <1>3, <2>1, UtoaLemma DEF FmtItoa, Signed
<1>4. QED
  BY <1>2, <1>3

\* What a message can consist of.
Bytes == Symbols \cup {"-", "?", "%", "(", "n", "u", "l", ")"} \cup {DigitChars[k] : k \in 1..16}

LEMMA BytesLemma ==
  /\ Nul \notin Bytes /\ Symbols \subseteq Bytes
  /\ {"-", "?", "%", "(", "n", "u", "l", ")"} \subseteq Bytes
  /\ \A k \in 1..16 : DigitChars[k] \in Bytes
<1>1. \A k \in 1..16 : DigitChars[k] # "NUL"
  <2>1. TAKE k \in 1..16
  <2>2. k \in {1, 2, 3, 4, 5, 6, 7, 8, 9, 10, 11, 12, 13, 14, 15, 16}
    OBVIOUS
  <2>3. QED
    BY <2>2 DEF DigitChars
<1>2. QED
  BY <1>1, SymbolsAssumption DEF Bytes, Nul

LEMMA NumeralBytes ==
  ASSUME NEW base \in Bases, NEW n \in Words
  PROVE  FmtUtoa(n, base) \in Seq(Bytes)
<1>1. PICK r : r = Digits(n, base)
  OBVIOUS
<1>2. r \in Seq(0..(base - 1))
  BY <1>1, DigitsDenote DEF Denotes
<1>3. Len(r) \in Nat /\ \A i \in 1..Len(r) : r[i] \in 0..(base - 1)
  BY <1>2, LenProperties
<1>4. \A i \in 1..Len(r) : DigitChars[r[i] + 1] \in Bytes
  <2>1. TAKE i \in 1..Len(r)
  <2>2. PICK d : d = r[i]
    OBVIOUS
  <2>3. d \in 0..(base - 1)
    BY <1>3, <2>2
  <2>4. d + 1 \in 1..16
    BY <2>3 DEF Bases
  <2>5. QED
    BY <2>2, <2>4, BytesLemma
<1>5. [i \in 1..Len(r) |-> DigitChars[r[i] + 1]] \in [1..Len(r) -> Bytes]
  BY <1>4
<1>6. [i \in 1..Len(r) |-> DigitChars[r[i] + 1]] \in Seq(Bytes)
  BY <1>3, <1>5, SeqLemma
<1>7. QED
  BY <1>1, <1>6 DEF FmtUtoa

LEMMA IntBytes ==
  ASSUME NEW n \in Words
  PROVE  FmtItoa(n) \in Seq(Bytes)
<1>1. 10 \in Bases
  BY DEF Bases
<1>2. CASE n >= HalfInt
  <2>1. 2 * HalfInt - n \in Words
    BY <1>2, HalfIntAssumption DEF Words
  <2>2. Numeral(2 * HalfInt - n, 10) \in Seq(Bytes)
    BY <1>1, <2>1, NumeralBytes, UtoaLemma
  <2>3. <<"-">> \in Seq(Bytes)
    BY BytesLemma
  <2>4. <<"-">> \o Numeral(2 * HalfInt - n, 10) \in Seq(Bytes)
    BY <2>2, <2>3, ConcatProperties
  <2>5. QED
    BY <1>2, <2>4, ItoaLemma DEF Signed
<1>3. CASE ~(n >= HalfInt)
  BY <1>1, <1>3, ItoaLemma, NumeralBytes, UtoaLemma DEF Signed
<1>4. QED
  BY <1>2, <1>3

LEMMA NarrowBytes ==
  ASSUME NEW s \in Seq(Symbols)
  PROVE  s \in Seq(Bytes) /\ AsNarrow(s) \in Seq(Bytes)
<1>1. Len(s) \in Nat /\ s \in [1..Len(s) -> Symbols]
  BY LenProperties
<1>2. s \in [1..Len(s) -> Bytes]
  BY <1>1, BytesLemma
<1>3. \A i \in 1..Len(s) : (IF s[i] \in Ascii THEN s[i] ELSE "?") \in Bytes
  BY <1>2, BytesLemma
<1>4. [i \in 1..Len(s) |-> IF s[i] \in Ascii THEN s[i] ELSE "?"] \in [1..Len(s) -> Bytes]
  BY <1>3
<1>5. QED
  BY <1>1, <1>2, <1>4, SeqLemma DEF AsNarrow

LEMMA NullBytes == NullText \in Seq(Bytes) /\ <<>> \in Seq(Bytes)
<1>1. {"-", "?", "%", "(", "n", "u", "l", ")"} \subseteq Bytes
  BY BytesLemma
<1>2. QED
  BY <1>1 DEF NullText

\* An argument has the type it says.
LEMMA ArgumentLemma ==
  ASSUME NEW a \in Arguments
  PROVE  /\ a.type \in {"int", "char", "char*", "wchar_t*"}
         /\ a.type = "int" => a.value \in Words
         /\ a.type = "char" => a.value \in Symbols
         /\ a.type \in {"char*", "wchar_t*"} => a.value \in Seq(Symbols) /\ a # Null
         /\ WordsOf(a) \subseteq Words
<1>1. CASE a \in [type : {"int"}, value : Words]
  BY <1>1 DEF WordsOf
<1>2. CASE a \in [type : {"char"}, value : Symbols]
  BY <1>2, AddressesAssumption DEF WordsOf
<1>3. CASE a \in [type : {"char*", "wchar_t*"}, value : Seq(Symbols)]
  BY <1>3, AddressesAssumption DEF WordsOf, Null, Number
<1>4. QED
  BY <1>1, <1>2, <1>3 DEF Arguments

LEMMA TextBytes ==
  ASSUME NEW c, NEW a \in Arguments, Fits(c, a)
  PROVE  Text(c, a) \in Seq(Bytes)
<1> USE DEF Numbers
<1>1. CASE c = "s"
  <2>1. c \notin {"S", "c", "d", "i", "u", "x", "X"}
    BY <1>1
  <2>2. a = Null \/ a.type = "char*"
    BY <1>1 DEF Fits
  <2>3. Text(c, a) = IF a = Null THEN NullText ELSE a.value
    BY <1>1 DEF Text
  <2>4. QED
    BY <2>2, <2>3, ArgumentLemma, NarrowBytes, NullBytes
<1>2. CASE c = "S"
  <2>2. a = Null \/ a.type = "wchar_t*"
    BY <1>2 DEF Fits
  <2>3. Text(c, a) = IF a = Null THEN <<>> ELSE AsNarrow(a.value)
    BY <1>2 DEF Text
  <2>4. QED
    BY <2>2, <2>3, ArgumentLemma, NarrowBytes, NullBytes
<1>3. CASE c = "c"
  <2>1. a.type = "char" /\ Text(c, a) = <<a.value>>
    BY <1>3 DEF Fits, Text
  <2>2. a.value \in Bytes
    BY <2>1, ArgumentLemma, BytesLemma
  <2>3. QED
    BY <2>1, <2>2
<1>4. CASE c \in Numbers
  <2>1. a.type = "int" /\ a.value \in Words
    BY <1>4, ArgumentLemma DEF Fits
  <2>2. Text(c, a) = FmtItoa(a.value) \/ Text(c, a) = FmtUtoa(a.value, 10)
        \/ Text(c, a) = FmtUtoa(a.value, 16)
    BY <1>4, <2>1, ItoaLemma, UtoaLemma DEF Text, Bases
  <2>3. QED
    BY <2>1, <2>2, IntBytes, NumeralBytes DEF Bases
<1>5. QED
  BY <1>1, <1>2, <1>3, <1>4 DEF Fits

--------------------------------------------------------------------------------
\* The arguments of the first i items.
LEMMA TakenLemma ==
  ASSUME NEW f, NEW i \in Nat
  PROVE  /\ Taken(f, i) \in Nat
         /\ Taken(f, i + 1) = IF Takes(f[i + 1]) THEN Taken(f, i) + 1 ELSE Taken(f, i)
         /\ \A n \in Nat : i <= n => Taken(f, i) <= Taken(f, n)
<1> DEFINE S(m) == {j \in 1..m : Takes(f[j])}
<1>1. \A m \in Nat : IsFiniteSet(S(m))
  <2>1. TAKE m \in Nat
  <2>2. IsFiniteSet(1..m)
    BY FS_Interval
  <2>3. QED
    BY <2>2, FS_Subset
<1>2. \A m \in Nat : Cardinality(S(m)) \in Nat /\ Taken(f, m) = Cardinality(S(m))
  BY <1>1, FS_CardinalityType DEF Taken
<1>3. Taken(f, i + 1) = IF Takes(f[i + 1]) THEN Taken(f, i) + 1 ELSE Taken(f, i)
  <2>1. CASE Takes(f[i + 1])
    <3>1. S(i + 1) = S(i) \cup {i + 1} /\ i + 1 \notin S(i)
      BY <2>1
    <3>2. Cardinality(S(i) \cup {i + 1}) = Cardinality(S(i)) + 1
      <4> HIDE DEF S
      <4>1. QED
        BY <1>1, <3>1, FS_AddElement
    <3>3. QED
      BY <1>2, <2>1, <3>1, <3>2
  <2>2. CASE ~Takes(f[i + 1])
    <3>1. S(i + 1) = S(i)
      BY <2>2
    <3>2. i + 1 \in Nat
      OBVIOUS
    <3>3. QED
      BY <1>2, <2>2, <3>1, <3>2
  <2>3. QED
    BY <2>1, <2>2
<1>4. ASSUME NEW n \in Nat, i <= n
      PROVE  Taken(f, i) <= Taken(f, n)
  <2>1. S(i) \subseteq S(n)
    BY <1>4
  <2>2. Cardinality(S(i)) <= Cardinality(S(n))
    <3> HIDE DEF S
    <3>1. QED
      BY <1>1, <2>1, FS_Subset
  <2>3. QED
    BY <1>2, <2>2
<1>5. QED
  BY <1>2, <1>3, <1>4

\* The text a call stands for, up to each of its items.
Texts(cl, t) ==
  t = [i \in 0..Len(cl.format) |-> IF i = 0 THEN <<>> ELSE t[i - 1] \o ItemText(cl, i)]

TextTo(cl) == CHOOSE t : Texts(cl, t)

LEMMA TextsExist ==
  ASSUME NEW cl, Len(cl.format) \in Nat
  PROVE  /\ Texts(cl, TextTo(cl))
         /\ Whole(cl) = TextTo(cl)[Len(cl.format)]
<1>1. PICK n : n = Len(cl.format)
  OBVIOUS
<1>2. PICK P : P = {m \in 0..n :
        \E t : t = [i \in 0..m |-> IF i = 0 THEN <<>> ELSE t[i - 1] \o ItemText(cl, i)]}
  OBVIOUS
<1>3. 0 \in P
  <2>1. PICK t : t = [i \in 0..0 |-> <<>>]
    OBVIOUS
  <2>2. t = [i \in 0..0 |-> IF i = 0 THEN <<>> ELSE t[i - 1] \o ItemText(cl, i)]
    BY <2>1
  <2>3. QED
    BY <1>1, <1>2, <2>2
<1>4. ASSUME NEW m \in 0..(n - 1), m \in P
      PROVE  m + 1 \in P
  <2>1. PICK t : t = [i \in 0..m |-> IF i = 0 THEN <<>> ELSE t[i - 1] \o ItemText(cl, i)]
    BY <1>2, <1>4
  <2> DEFINE last == t[m] \o ItemText(cl, m + 1)
  <2> HIDE DEF last
  <2>2. PICK u : u = [i \in 0..(m + 1) |-> IF i <= m THEN t[i] ELSE last]
    OBVIOUS
  <2>3. ASSUME NEW k \in 0..(m + 1)
        PROVE  u[k] = IF k = 0 THEN <<>> ELSE u[k - 1] \o ItemText(cl, k)
    <3>1. CASE k = 0
      BY <2>1, <2>2, <3>1
    <3>2. CASE k \in 1..m
      <4>1. k \in 0..m /\ k - 1 \in 0..m /\ k - 1 \in 0..(m + 1) /\ k - 1 <= m /\ k # 0 /\ k <= m
        BY <3>2
      <4>2. u[k] = t[k] /\ u[k - 1] = t[k - 1]
        BY <2>2, <4>1
      <4>3. t[k] = t[k - 1] \o ItemText(cl, k)
        BY <2>1, <4>1
      <4>4. QED
        BY <4>1, <4>2, <4>3
    <3>3. CASE k = m + 1
      <4>1. ~(m + 1 <= m) /\ (m + 1) - 1 = m /\ m \in 0..(m + 1) /\ m + 1 # 0 /\ m <= m
        OBVIOUS
      <4>2. u[m] = t[m]
        BY <2>2, <4>1
      <4>3. u[m + 1] = last
        BY <2>2, <4>1
      <4>4. QED
        BY <3>3, <4>1, <4>2, <4>3 DEF last
    <3>4. QED
      BY <3>1, <3>2, <3>3
  <2>4. u = [i \in 0..(m + 1) |-> IF i = 0 THEN <<>> ELSE u[i - 1] \o ItemText(cl, i)]
    BY <2>2, <2>3
  <2>5. m + 1 \in 0..n
    BY <1>1
  <2>6. QED
    BY <1>2, <2>4, <2>5
<1>5. n \in P
  <2>1. n \in Nat /\ 0 \in Nat /\ n \in 0..n
    BY <1>1
  <2>2. \A k \in 0..n : k \in P
    BY <1>3, <1>4, <2>1, Upwards
  <2>3. QED
    BY <2>1, <2>2
<1>6. \E t : Texts(cl, t)
  BY <1>1, <1>2, <1>5 DEF Texts
<1>7. QED
  BY <1>6 DEF TextTo, Texts, Whole

\* A call has the arguments its format takes, each of its type.
LEMMA CallLemma ==
  ASSUME NEW cl \in Calls \cup {NoCall}
  PROVE  /\ cl.format \in Seq(Items) /\ cl.args \in Seq(Arguments)
         /\ Len(cl.format) \in Nat /\ Len(cl.args) \in Nat
         /\ Taken(cl.format, Len(cl.format)) <= Len(cl.args)
<1>1. CASE cl \in Calls
  BY <1>1, CallsAssumption, LenProperties
<1>2. CASE cl = NoCall
  <2>1. cl.format = <<>> /\ cl.args = <<>>
    BY <1>2 DEF NoCall
  <2>2. {j \in 1..0 : Takes(cl.format[j])} = {}
    OBVIOUS
  <2>3. Taken(cl.format, 0) = 0
    BY <2>2, FS_EmptySet DEF Taken
  <2>4. QED
    BY <2>1, <2>3
<1>3. QED
  BY <1>1, <1>2

\* The argument of an item that takes one.
LEMMA ArgumentOfLemma ==
  ASSUME NEW cl \in Calls \cup {NoCall}, NEW i \in 0..(Len(cl.format) - 1),
         Takes(cl.format[i + 1])
  PROVE  /\ Taken(cl.format, i + 1) = Taken(cl.format, i) + 1
         /\ Taken(cl.format, i + 1) \in 1..Len(cl.args)
         /\ ArgumentOf(cl, i + 1) = cl.args[Taken(cl.format, i) + 1]
         /\ ArgumentOf(cl, i + 1) \in Arguments
<1>1. PICK n \in Nat : n = Len(cl.format)
  BY CallLemma
<1>2. i \in Nat /\ i + 1 \in Nat /\ i + 1 <= n
  BY <1>1
<1>3. Taken(cl.format, i) \in Nat /\ Taken(cl.format, i + 1) = Taken(cl.format, i) + 1
  BY <1>2, TakenLemma
<1>4. Taken(cl.format, i + 1) <= Taken(cl.format, n) /\ Taken(cl.format, n) \in Nat
  BY <1>1, <1>2, TakenLemma
<1>5. Taken(cl.format, i + 1) \in 1..Len(cl.args)
  BY <1>1, <1>3, <1>4, CallLemma
<1>6. QED
  BY <1>3, <1>5, CallLemma, ElementOfSeq DEF ArgumentOf

LEMMA ItemBytes ==
  ASSUME NEW cl \in Calls \cup {NoCall}, Matched(cl), NEW i \in 0..(Len(cl.format) - 1)
  PROVE  ItemText(cl, i + 1) \in Seq(Bytes)
<1>1. PICK n \in Nat : n = Len(cl.format)
  BY CallLemma
<1>2. i + 1 \in 1..n /\ i + 1 \in DOMAIN cl.format
  BY <1>1, CallLemma, LenProperties
<1>3. cl.format[i + 1] \in Items
  BY <1>1, <1>2, CallLemma, ElementOfSeq
<1>4. CASE Takes(cl.format[i + 1])
  <2>1. Fits(cl.format[i + 1].char, ArgumentOf(cl, i + 1))
    BY <1>2, <1>4 DEF Matched
  <2>2. ArgumentOf(cl, i + 1) \in Arguments
    BY <1>4, ArgumentOfLemma
  <2>3. QED
    BY <1>4, <2>1, <2>2, TextBytes DEF ItemText
<1>5. CASE ~Takes(cl.format[i + 1])
  <2>1. cl.format[i + 1].char \in Bytes
    BY <1>3, BytesLemma DEF Items
  <2>2. QED
    BY <1>5, <2>1 DEF ItemText
<1>6. QED
  BY <1>4, <1>5

LEMMA TextLemma ==
  ASSUME NEW cl \in Calls \cup {NoCall}, Matched(cl)
  PROVE  /\ TextTo(cl)[0] = <<>>
         /\ \A i \in 0..(Len(cl.format) - 1) :
              TextTo(cl)[i + 1] = TextTo(cl)[i] \o ItemText(cl, i + 1)
         /\ \A i \in 0..Len(cl.format) : TextTo(cl)[i] \in Seq(Bytes)
<1>1. PICK n \in Nat : n = Len(cl.format)
  BY CallLemma
<1>2. PICK t : t = TextTo(cl)
  OBVIOUS
<1>3. t = [i \in 0..n |-> IF i = 0 THEN <<>> ELSE t[i - 1] \o ItemText(cl, i)]
  BY <1>1, <1>2, TextsExist DEF Texts
<1>4. t[0] = <<>>
  BY <1>3
<1>5. \A i \in 0..(n - 1) : t[i + 1] = t[i] \o ItemText(cl, i + 1)
  <2>1. TAKE i \in 0..(n - 1)
  <2>2. i + 1 \in 0..n /\ i + 1 # 0 /\ (i + 1) - 1 = i
    OBVIOUS
  <2>3. QED
    BY <1>3, <2>2
<1>6. PICK P : P = {i \in 0..n : t[i] \in Seq(Bytes)}
  OBVIOUS
<1>7. 0 \in P
  <2>1. t[0] \in Seq(Bytes)
    BY <1>4, NullBytes
  <2>2. QED
    BY <1>1, <1>6, <2>1
<1>8. ASSUME NEW i \in 0..(n - 1), i \in P
      PROVE  i + 1 \in P
  <2>1. i + 1 \in 0..n
    BY <1>1
  <2>2. t[i + 1] = t[i] \o ItemText(cl, i + 1)
    BY <1>5
  <2>3. t[i] \in Seq(Bytes) /\ ItemText(cl, i + 1) \in Seq(Bytes)
    BY <1>1, <1>6, <1>8, ItemBytes
  <2>4. t[i] \o ItemText(cl, i + 1) \in Seq(Bytes)
    BY <2>3, ConcatProperties
  <2>5. QED
    BY <1>6, <2>1, <2>2, <2>4
<1>9. \A i \in 0..n : i \in P
  BY <1>1, <1>7, <1>8, Upwards
<1>10. QED
  BY <1>1, <1>2, <1>4, <1>5, <1>6, <1>9

\* The text up to an item is how the whole text begins.
LEMMA TextBegins ==
  ASSUME NEW cl \in Calls \cup {NoCall}, Matched(cl), NEW i \in 0..Len(cl.format)
  PROVE  /\ Whole(cl) \in Seq(Bytes)
         /\ Len(TextTo(cl)[i]) \in Nat /\ Len(Whole(cl)) \in Nat
         /\ Len(TextTo(cl)[i]) <= Len(Whole(cl))
         /\ \A k \in 1..Len(TextTo(cl)[i]) : Whole(cl)[k] = TextTo(cl)[i][k]
<1>1. PICK n \in Nat : n = Len(cl.format)
  BY CallLemma
<1>2. PICK t : t = TextTo(cl)
  OBVIOUS
<1>3. /\ \A j \in 0..(n - 1) : t[j + 1] = t[j] \o ItemText(cl, j + 1)
      /\ \A j \in 0..n : t[j] \in Seq(Bytes) /\ Len(t[j]) \in Nat
  BY <1>1, <1>2, TextLemma, LenProperties
<1>4. PICK s : s = t[i]
  OBVIOUS
<1>5. i \in Nat /\ i \in 0..n /\ s \in Seq(Bytes) /\ Len(s) \in Nat
  BY <1>1, <1>3, <1>4
<1>6. PICK P : P = {j \in i..n : /\ Len(s) <= Len(t[j])
                                 /\ \A k \in 1..Len(s) : t[j][k] = s[k]}
  OBVIOUS
<1>7. i \in P
  BY <1>4, <1>5, <1>6
<1>8. ASSUME NEW j \in i..(n - 1), j \in P
      PROVE  j + 1 \in P
  <2>1. j \in 0..(n - 1) /\ j \in 0..n /\ j + 1 \in i..n
    BY <1>1, <1>5
  <2>2. PICK a : a = t[j]
    OBVIOUS
  <2>3. PICK b : b = ItemText(cl, j + 1)
    OBVIOUS
  <2>4. a \in Seq(Bytes) /\ b \in Seq(Bytes) /\ t[j + 1] = a \o b /\ Len(a) \in Nat
    BY <1>1, <1>3, <2>1, <2>2, <2>3, ItemBytes
  <2>5. /\ Len(a \o b) = Len(a) + Len(b) /\ Len(b) \in Nat
        /\ \A k \in 1..Len(a) : (a \o b)[k] = a[k]
    <3>1. Len(b) \in Nat /\ Len(a \o b) = Len(a) + Len(b)
      BY <2>4, ConcatProperties, LenProperties
    <3>2. \A k \in 1..(Len(a) + Len(b)) : (a \o b)[k] = IF k <= Len(a) THEN a[k] ELSE b[k - Len(a)]
      BY <2>4, ConcatProperties
    <3>3. QED
      BY <2>4, <3>1, <3>2
  <2>6. Len(s) <= Len(a) /\ \A k \in 1..Len(s) : a[k] = s[k]
    BY <1>6, <1>8, <2>2
  <2>7. \A k \in 1..Len(s) : (a \o b)[k] = s[k]
    BY <1>5, <2>4, <2>5, <2>6
  <2>8. Len(s) <= Len(a \o b)
    BY <1>5, <2>4, <2>5, <2>6
  <2>9. QED
    BY <1>6, <2>1, <2>4, <2>7, <2>8
<1>9. n \in P
  <2>1. \A j \in i..n : j \in P
    BY <1>1, <1>5, <1>7, <1>8, Upwards
  <2>2. n \in i..n
    BY <1>1, <1>5
  <2>3. QED
    BY <2>1, <2>2
<1>10. Whole(cl) = t[n] /\ n \in 0..n
  BY <1>1, <1>2, TextsExist
<1>11. QED
  BY <1>2, <1>3, <1>4, <1>5, <1>6, <1>9, <1>10

\* The block, as far as the text of the first i items has got.
Block == buf = [k \in 0..(Size - 1) |-> buf[k]]

Stored(i) == /\ pos = Len(TextTo(call)[i])
             /\ \A k \in 0..(Size - 3) : k < pos => buf[k] = TextTo(call)[i][k + 1]

Reading(i, k) ==
  /\ fmt = SubSeq(call.format, i + 1, Len(call.format))
  /\ ap = SubSeq(call.args, k + 1, Len(call.args))
  /\ Matched(call) => k = Taken(call.format, i) /\ Stored(i)

\* What is stored behind the block is the Nul that damages the heap.
Behind ==
  \A k \in DOMAIN buf :
    k >= Size => buf[k] = Nul /\ heap = "damaged" /\ stage \in {"displayed", "dead"}

\* A fault leaves the message where it was; one in the heap may come when
\* nothing is left of it.
MessageInv ==
  /\ stage \in {"idle", "format", "displayed", "dead"} /\ heap \in {"whole", "damaged"}
  /\ call \in Calls \cup {NoCall}
  /\ stage \in {"idle", "format"} => Block
  /\ Behind /\ pos \in Nat
  /\ stage \in {"format", "dead"} =>
       \/ \E i \in 0..Len(call.format), k \in Nat : k <= Taken(call.format, i) /\ Reading(i, k)
       \/ stage = "dead" /\ fmt = <<>> /\ ap = <<>>
  /\ stage \in {"idle", "displayed"} => fmt = <<>> /\ ap = <<>> /\ pos = 0
  /\ TextDisplayed

\* What is left behind some of a sequence.
LEMMA LeftLemma ==
  ASSUME NEW S, NEW t \in Seq(S), NEW i \in 0..Len(t)
  PROVE  /\ Len(t) \in Nat
         /\ SubSeq(t, i + 1, Len(t)) \in Seq(S)
         /\ Len(SubSeq(t, i + 1, Len(t))) = Len(t) - i
         /\ \A j \in 1..(Len(t) - i) : SubSeq(t, i + 1, Len(t))[j] = t[i + j]
<1>1. PICK n \in Nat : n = Len(t)
  BY LenProperties
<1>2. PICK s : s = SubSeq(t, i + 1, n)
  OBVIOUS
<1>3. i \in 0..n /\ i + 1 \in 1..(n + 1)
  BY <1>1
<1>4. \A j \in (i + 1)..n : t[j] \in S
  BY <1>1, <1>3, ElementOfSeq
<1>5. /\ s \in Seq(S)
      /\ Len(s) = IF i + 1 <= n THEN n - (i + 1) + 1 ELSE 0
      /\ \A j \in 1..(n - (i + 1) + 1) : s[j] = t[i + 1 + j - 1]
  BY <1>1, <1>2, <1>3, <1>4, SubSeqProperties
<1>6. Len(s) = n - i
  BY <1>1, <1>3, <1>5
<1>7. \A j \in 1..(n - i) : s[j] = t[i + j]
  <2>1. TAKE j \in 1..(n - i)
  <2>2. j \in 1..(n - (i + 1) + 1) /\ i + 1 + j - 1 = i + j
    BY <1>1, <1>3
  <2>3. QED
    BY <1>5, <2>2
<1>8. QED
  BY <1>1, <1>2, <1>5, <1>6, <1>7

\* The first of what is left, and what is left behind it.
LEMMA NextLemma ==
  ASSUME NEW S, NEW t \in Seq(S), NEW i \in 0..Len(t)
  PROVE  /\ SubSeq(t, i + 1, Len(t)) = <<>> <=> i = Len(t)
         /\ i < Len(t) => /\ i + 1 \in 0..Len(t) /\ i + 1 \in 1..Len(t)
                          /\ Head(SubSeq(t, i + 1, Len(t))) = t[i + 1]
                          /\ Tail(SubSeq(t, i + 1, Len(t))) = SubSeq(t, (i + 1) + 1, Len(t))
<1>1. PICK n \in Nat : n = Len(t)
  BY LenProperties
<1>2. PICK s : s = SubSeq(t, i + 1, n)
  OBVIOUS
<1>3. /\ i \in 0..n /\ s \in Seq(S) /\ Len(s) = n - i
      /\ \A j \in 1..(n - i) : s[j] = t[i + j]
  BY <1>1, <1>2, LeftLemma
<1>4. s = <<>> <=> i = n
  <2>1. s = <<>> <=> Len(s) = 0
    BY <1>3, EmptySeq
  <2>2. QED
    BY <1>1, <1>3, <2>1
<1>5. ASSUME i < n
      PROVE  /\ i + 1 \in 0..n /\ i + 1 \in 1..n
             /\ Head(s) = t[i + 1] /\ Tail(s) = SubSeq(t, (i + 1) + 1, n)
  <2>1. i + 1 \in 0..n /\ i + 1 \in 1..n /\ 1 \in 1..(n - i) /\ s # <<>>
    BY <1>1, <1>3, <1>4, <1>5
  <2>2. Head(s) = s[1] /\ s[1] = t[i + 1]
    BY <1>3, <2>1, HeadTailProperties
  <2>3. PICK u : u = SubSeq(t, (i + 1) + 1, n)
    OBVIOUS
  <2>4. /\ u \in Seq(S) /\ Len(u) = n - (i + 1)
        /\ \A j \in 1..(n - (i + 1)) : u[j] = t[(i + 1) + j]
    BY <1>1, <2>1, <2>3, LeftLemma
  <2>5. PICK v : v = Tail(s)
    OBVIOUS
  <2>6. /\ v \in Seq(S) /\ Len(v) = Len(s) - 1
        /\ \A j \in 1..Len(v) : v[j] = s[j + 1]
    BY <1>3, <2>1, <2>5, HeadTailProperties
  <2>7. Len(v) = Len(u) /\ Len(u) \in Nat
    BY <1>1, <1>3, <2>1, <2>4, <2>6
  <2>8. \A j \in 1..Len(u) : u[j] = v[j]
    <3>1. TAKE j \in 1..Len(u)
    <3>2. j + 1 \in 1..(n - i) /\ j \in 1..(n - (i + 1)) /\ i + (j + 1) = (i + 1) + j
      BY <1>1, <1>3, <2>1, <2>4
    <3>3. QED
      BY <1>3, <2>4, <2>6, <2>7, <3>2
  <2>9. u = v
    BY <2>4, <2>6, <2>7, <2>8, SeqEqual
  <2>10. QED
    BY <2>1, <2>2, <2>3, <2>5, <2>9
<1>6. QED
  BY <1>1, <1>2, <1>4, <1>5

LEMMA WriteLemma ==
  ASSUME Block, pos \in Nat, NEW s, Len(s) \in Nat, FmtWrite(s)
  PROVE  /\ Block' /\ pos' \in Nat /\ pos' = pos + Len(s)
         /\ \A k \in 0..(Size - 3) :
              /\ k < pos => buf'[k] = buf[k]
              /\ pos <= k /\ k < pos + Len(s) => buf'[k] = s[k - pos + 1]
<1>1. DOMAIN buf = 0..(Size - 1)
  BY DEF Block
<1>2. buf' = [k \in 0..(Size - 1) |->
                IF pos <= k /\ k < pos + Len(s) /\ k < Size - 2 THEN s[k - pos + 1] ELSE buf[k]]
  BY <1>1 DEF FmtWrite
<1>3. Block'
  BY <1>2 DEF Block
<1>4. pos' = pos + Len(s) /\ pos' \in Nat
  BY DEF FmtWrite
<1>5. ASSUME NEW k \in 0..(Size - 3)
      PROVE  /\ k < pos => buf'[k] = buf[k]
             /\ pos <= k /\ k < pos + Len(s) => buf'[k] = s[k - pos + 1]
  <2>1. k \in 0..(Size - 1) /\ k < Size - 2 /\ k \in Nat
    BY SizeAssumption
  <2>2. buf'[k] = IF pos <= k /\ k < pos + Len(s) THEN s[k - pos + 1] ELSE buf[k]
    BY <1>2, <2>1
  <2>3. k < pos => ~(pos <= k)
    BY <2>1
  <2>4. QED
    BY <2>2, <2>3
<1>6. QED
  BY <1>3, <1>4, <1>5

\* The text of one item more.
LEMMA StoredStep ==
  ASSUME MessageInv, stage = "format", Matched(call),
         NEW i \in 0..(Len(call.format) - 1), Stored(i),
         FmtWrite(ItemText(call, i + 1)), call' = call
  PROVE  Stored(i + 1)'
<1>1. PICK n \in Nat : n = Len(call.format)
  BY CallLemma DEF MessageInv
<1>2. PICK t : t = TextTo(call)
  OBVIOUS
<1>3. PICK a : a = t[i]
  OBVIOUS
<1>4. PICK b : b = ItemText(call, i + 1)
  OBVIOUS
<1>5. i \in 0..n /\ i + 1 \in 0..n
  BY <1>1
<1>6. a \in Seq(Bytes) /\ b \in Seq(Bytes) /\ t[i + 1] = a \o b
  BY <1>1, <1>2, <1>3, <1>4, <1>5, TextLemma, ItemBytes DEF MessageInv
<1>7. Len(a) \in Nat /\ Len(b) \in Nat /\ Len(a \o b) = Len(a) + Len(b)
  BY <1>6, LenProperties, ConcatProperties
<1>8. \A k \in 1..(Len(a) + Len(b)) : (a \o b)[k] = IF k <= Len(a) THEN a[k] ELSE b[k - Len(a)]
  BY <1>6, ConcatProperties
<1>9. /\ pos = Len(a)
      /\ \A k \in 0..(Size - 3) : k < pos => buf[k] = a[k + 1]
  BY <1>2, <1>3 DEF Stored
<1>10. /\ pos' = pos + Len(b)
       /\ \A k \in 0..(Size - 3) :
            /\ k < pos => buf'[k] = buf[k]
            /\ pos <= k /\ k < pos + Len(b) => buf'[k] = b[k - pos + 1]
  BY <1>4, <1>7, WriteLemma DEF MessageInv
<1>11. PICK c : c = a \o b
  OBVIOUS
<1>12. ASSUME NEW k \in 0..(Size - 3), k < pos'
       PROVE  buf'[k] = c[k + 1]
  <2>1. k \in Nat /\ k + 1 \in 1..(Len(a) + Len(b))
    BY <1>7, <1>9, <1>10, <1>12, SizeAssumption
  <2>2. CASE k < pos
    <3>1. k + 1 <= Len(a)
      BY <1>7, <1>9, <2>1, <2>2
    <3>2. c[k + 1] = a[k + 1]
      BY <1>8, <1>11, <2>1, <3>1
    <3>3. QED
      BY <1>9, <1>10, <2>2, <3>2
  <2>3. CASE ~(k < pos)
    <3>1. ~(k + 1 <= Len(a)) /\ pos <= k /\ k < pos + Len(b) /\ (k + 1) - Len(a) = k - pos + 1
      BY <1>7, <1>9, <1>10, <1>12, <2>1, <2>3
    <3>2. c[k + 1] = b[k - pos + 1]
      BY <1>8, <1>11, <2>1, <3>1
    <3>3. QED
      BY <1>10, <3>1, <3>2
  <2>4. QED
    BY <2>2, <2>3
<1>13. pos' = Len(c)
  BY <1>7, <1>9, <1>10, <1>11
<1>14. TextTo(call') = t
  BY <1>2
<1>15. QED
  BY <1>6, <1>11, <1>12, <1>13, <1>14 DEF Stored

\* What a conversion does with its argument.
LEMMA ConvertLemma ==
  ASSUME NEW c, c # "%", Head(ap) \in Arguments, Convert(c)
  PROVE  \/ /\ stage' = stage /\ ap' \in {ap, Tail(ap)}
            /\ \E s : /\ Len(s) \in Nat /\ FmtWrite(s)
                      /\ Fits(c, Head(ap)) => ap' = Tail(ap) /\ s = Text(c, Head(ap))
         \/ Fault /\ ~Fits(c, Head(ap))
<1>1. PICK a : a = Head(ap)
  OBVIOUS
<1>2. a \in Arguments
  BY <1>1
<1>3. SUFFICES \/ /\ stage' = stage /\ ap' \in {ap, Tail(ap)}
                  /\ \E s : /\ Len(s) \in Nat /\ FmtWrite(s)
                            /\ Fits(c, a) => ap' = Tail(ap) /\ s = Text(c, a)
               \/ Fault /\ ~Fits(c, a)
  BY <1>1
<1>4. CASE c = "s" /\ FormatString
  <2>1. CASE a.type = "char*" /\ FmtWrite(a.value) /\ Took /\ Goes
    <3>1. Len(a.value) \in Nat /\ a # Null
      BY <1>2, <2>1, ArgumentLemma, LenProperties
    <3>2. Text(c, a) = a.value
      BY <1>4, <3>1 DEF Text
    <3>3. QED
      BY <2>1, <3>1, <3>2 DEF Took, Goes
  <2>2. CASE a = Null /\ FmtWrite(NullText) /\ Took /\ Goes
    <3>1. Len(NullText) \in Nat
      BY NullBytes, LenProperties
    <3>2. Text(c, a) = NullText
      BY <1>4, <2>2 DEF Text
    <3>3. QED
      BY <2>2, <3>1, <3>2 DEF Took, Goes
  <2>3. CASE a.type = "int" /\ a # Null /\ Fault
    BY <1>4, <2>3 DEF Fits, Numbers
  <2>4. QED
    BY <1>1, <1>4, <2>1, <2>2, <2>3 DEF FormatString
<1>5. CASE c = "S" /\ FormatWide
  <2>1. CASE a.type = "wchar_t*" /\ FmtWrite(AsNarrow(a.value)) /\ Took /\ Goes
    <3>1. Len(AsNarrow(a.value)) \in Nat /\ a # Null
      BY <1>2, <2>1, ArgumentLemma, NarrowBytes, LenProperties
    <3>2. Text(c, a) = AsNarrow(a.value)
      BY <1>5, <3>1 DEF Text
    <3>3. QED
      BY <2>1, <3>1, <3>2 DEF Took, Goes
  <2>2. CASE a = Null /\ FmtWrite(<<>>) /\ Took /\ Goes
    <3>1. Len(<<>>) \in Nat
      OBVIOUS
    <3>2. Text(c, a) = <<>>
      BY <1>5, <2>2 DEF Text
    <3>3. QED
      BY <2>2, <3>1, <3>2 DEF Took, Goes
  <2>3. CASE a.type = "int" /\ a # Null /\ Fault
    BY <1>5, <2>3 DEF Fits, Numbers
  <2>4. QED
    BY <1>1, <1>5, <2>1, <2>2, <2>3 DEF FormatWide
<1>6. CASE c \in Numbers /\ FormatNumber(c)
  <2>1. PICK n \in WordsOf(a) :
          /\ FmtWrite(CASE c \in {"d", "i"} -> FmtItoa(n)
                        [] c = "u" -> FmtUtoa(n, 10)
                        [] c \in {"x", "X"} -> FmtUtoa(n, 16))
          /\ Took /\ Goes
    BY <1>1, <1>6 DEF FormatNumber
  <2>2. n \in Words
    BY <1>2, <2>1, ArgumentLemma
  <2>3. PICK s : s = CASE c \in {"d", "i"} -> FmtItoa(n)
                       [] c = "u" -> FmtUtoa(n, 10)
                       [] c \in {"x", "X"} -> FmtUtoa(n, 16)
    OBVIOUS
  <2>4. /\ c \in {"d", "i"} => s = Signed(n)
        /\ c = "u" => s = Numeral(n, 10)
        /\ c \in {"x", "X"} => s = Numeral(n, 16)
    BY <2>2, <2>3, ItoaLemma, UtoaLemma DEF Bases
  <2>5. /\ FmtItoa(n) \in Seq(Bytes) /\ FmtUtoa(n, 10) \in Seq(Bytes)
        /\ FmtUtoa(n, 16) \in Seq(Bytes)
    BY <2>2, IntBytes, NumeralBytes DEF Bases
  <2>6. s \in Seq(Bytes)
    BY <1>6, <2>3, <2>5 DEF Numbers
  <2>7. ASSUME Fits(c, a)
        PROVE  s = Text(c, a)
    <3>1. a.type = "int"
      BY <1>6, <2>7 DEF Fits, Numbers
    <3>2. n = a.value
      BY <2>1, <3>1 DEF WordsOf
    <3>3. QED
      BY <1>6, <2>4, <3>2 DEF Text, Numbers
  <2>8. FmtWrite(s) /\ Len(s) \in Nat
    BY <2>1, <2>3, <2>6, LenProperties
  <2>9. QED
    BY <2>1, <2>7, <2>8 DEF Took, Goes
<1>7. CASE c = "c" /\ FormatChar
  <2>1. Text(c, a) = <<a.value>> /\ Len(<<a.value>>) = 1
    BY <1>7 DEF Text
  <2>2. QED
    BY <1>1, <1>7, <2>1 DEF FormatChar, Took, Goes
<1>8. CASE c \notin Supported /\ Unsupported(c)
  <2>1. ~Fits(c, a)
    BY <1>8 DEF Fits, Supported
  <2>2. Len(<<"%", c>>) = 2
    OBVIOUS
  <2>3. QED
    BY <1>8, <2>1, <2>2 DEF Unsupported, Goes
<1>9. QED
  BY <1>4, <1>5, <1>6, <1>7, <1>8 DEF Convert

LEMMA LoopStep ==
  ASSUME MessageInv, NativeVsnprintf
  PROVE  MessageInv'
<1>1. PICK n \in Nat : n = Len(call.format)
  BY CallLemma DEF MessageInv
<1>2. PICK m \in Nat : m = Len(call.args)
  BY CallLemma DEF MessageInv
<1>3. PICK i \in 0..n, k \in Nat : k <= Taken(call.format, i) /\ Reading(i, k)
  BY <1>1 DEF MessageInv, NativeVsnprintf
<1>4. call \in Calls \cup {NoCall} /\ Block /\ pos \in Nat /\ stage = "format"
  BY DEF MessageInv, NativeVsnprintf
<1>5. call' = call /\ fmt' = Tail(fmt) /\ heap' = heap /\ heap \in {"whole", "damaged"}
  BY DEF NativeVsnprintf, MessageInv
<1>6. /\ i < n /\ i + 1 \in 0..n /\ i + 1 \in 1..n /\ i \in 0..(n - 1) /\ i \in Nat
      /\ Head(fmt) = call.format[i + 1]
      /\ fmt' = SubSeq(call.format, (i + 1) + 1, n)
  <2>1. call.format \in Seq(Items) /\ fmt = SubSeq(call.format, i + 1, n) /\ fmt # <<>>
    BY <1>1, <1>3, <1>4, CallLemma DEF Reading, NativeVsnprintf
  <2>2. i # n
    BY <1>1, <2>1, NextLemma
  <2>3. i < n /\ i \in 0..(n - 1) /\ i \in Nat
    BY <1>1, <2>2
  <2>4. QED
    BY <1>1, <1>5, <2>1, <2>3, NextLemma
<1>7. PICK item : item = call.format[i + 1]
  OBVIOUS
<1>8. item \in Items
  BY <1>1, <1>4, <1>6, <1>7, CallLemma, ElementOfSeq
<1>9. /\ Taken(call.format, i) \in Nat
      /\ Taken(call.format, i + 1) = IF Takes(item) THEN Taken(call.format, i) + 1
                                     ELSE Taken(call.format, i)
  BY <1>6, <1>7, TakenLemma
<1>10. Matched(call) => k = Taken(call.format, i) /\ Stored(i)
  BY <1>3 DEF Reading
<1>11. ASSUME NEW s, Len(s) \in Nat, FmtWrite(s), stage' = stage,
              NEW j \in Nat, j <= Taken(call.format, i + 1),
              ap' = SubSeq(call.args, j + 1, m),
              Matched(call) => s = ItemText(call, i + 1) /\ j = Taken(call.format, i + 1)
       PROVE  MessageInv'
  <2>1. Block' /\ pos' \in Nat
    BY <1>4, <1>11, WriteLemma
  <2>2. Matched(call) => Stored(i + 1)'
    BY <1>1, <1>4, <1>5, <1>6, <1>10, <1>11, StoredStep
  <2>3. Reading(i + 1, j)'
    BY <1>1, <1>2, <1>5, <1>6, <1>11, <2>2 DEF Reading
  <2>4. \E x \in 0..Len(call'.format), y \in Nat : y <= Taken(call'.format, x) /\ Reading(x, y)'
    BY <1>1, <1>5, <1>6, <1>11, <2>3
  <2>5. \A x \in DOMAIN buf' : x < Size
    BY <2>1, SizeAssumption DEF Block
  <2>6. TextDisplayed' /\ Behind'
    <3>1. stage' = "format"
      BY <1>4, <1>11
    <3>2. TextDisplayed'
      BY <2>5, <3>1 DEF TextDisplayed
    <3>3. DOMAIN buf' = 0..(Size - 1) /\ \A x \in 0..(Size - 1) : ~(x >= Size)
      BY <2>1, SizeAssumption DEF Block
    <3>4. QED
      BY <3>2, <3>3 DEF Behind
  <2>7. QED
    BY <1>4, <1>5, <1>11, <2>1, <2>4, <2>6 DEF MessageInv
<1>12. CASE ~Takes(item)
  <2>1. CASE ~item.percent
    <3>1. FmtWrite(<<item.char>>) /\ ap' = ap /\ stage' = stage
      BY <1>6, <1>7, <2>1 DEF NativeVsnprintf, Goes
    <3>2. Len(<<item.char>>) = 1 /\ ItemText(call, i + 1) = <<item.char>>
      BY <1>7, <1>12 DEF ItemText
    <3>3. ap' = SubSeq(call.args, k + 1, m)
      BY <1>2, <1>3, <3>1 DEF Reading
    <3>4. QED
      BY <1>3, <1>9, <1>10, <1>11, <1>12, <3>1, <3>2, <3>3
  <2>2. CASE item.percent
    <3>1. item.char = "%" /\ Convert("%")
      BY <1>6, <1>7, <1>12, <2>2 DEF NativeVsnprintf, Takes
    <3>2. FmtWrite(<<"%">>) /\ ap' = ap /\ stage' = stage
      BY <3>1 DEF Convert, Supported, Numbers, Goes
    <3>3. Len(<<"%">>) = 1 /\ ItemText(call, i + 1) = <<"%">>
      BY <1>7, <1>12, <3>1 DEF ItemText
    <3>4. ap' = SubSeq(call.args, k + 1, m)
      BY <1>2, <1>3, <3>2 DEF Reading
    <3>5. QED
      BY <1>3, <1>9, <1>10, <1>11, <1>12, <3>2, <3>3, <3>4
  <2>3. QED
    BY <2>1, <2>2
<1>13. CASE Takes(item)
  <2>1. PICK c : c = item.char
    OBVIOUS
  <2>2. c # "%" /\ Convert(c)
    BY <1>6, <1>7, <1>13, <2>1 DEF NativeVsnprintf, Takes
  <2>3. /\ Taken(call.format, i + 1) = Taken(call.format, i) + 1
        /\ Taken(call.format, i + 1) \in 1..m
        /\ ArgumentOf(call, i + 1) = call.args[Taken(call.format, i) + 1]
    BY <1>1, <1>2, <1>4, <1>6, <1>7, <1>13, ArgumentOfLemma
  <2>4. k \in 0..m /\ k < m /\ k + 1 \in 1..m /\ k + 1 \in Nat
    BY <1>3, <1>9, <2>3
  <2>5. /\ Head(ap) = call.args[k + 1] /\ Tail(ap) = SubSeq(call.args, (k + 1) + 1, m)
        /\ ap = SubSeq(call.args, k + 1, m)
    <3>1. call.args \in Seq(Arguments) /\ ap = SubSeq(call.args, k + 1, m)
      BY <1>2, <1>3, <1>4, CallLemma DEF Reading
    <3>2. QED
      BY <1>2, <2>4, <3>1, NextLemma
  <2>6. Head(ap) \in Arguments
    BY <1>2, <1>4, <2>4, <2>5, CallLemma, ElementOfSeq
  <2>7. ASSUME Matched(call)
        PROVE  /\ Fits(c, Head(ap)) /\ ItemText(call, i + 1) = Text(c, Head(ap))
               /\ k + 1 = Taken(call.format, i + 1)
    <3>1. ArgumentOf(call, i + 1) = Head(ap) /\ k + 1 = Taken(call.format, i + 1)
      BY <1>10, <2>3, <2>5, <2>7
    <3>2. i + 1 \in DOMAIN call.format
      BY <1>1, <1>4, <1>6, CallLemma, LenProperties
    <3>3. QED
      BY <1>7, <1>13, <2>1, <2>7, <3>1, <3>2 DEF Matched, ItemText
  <2>8. CASE /\ stage' = stage /\ ap' \in {ap, Tail(ap)}
             /\ \E s : /\ Len(s) \in Nat /\ FmtWrite(s)
                       /\ Fits(c, Head(ap)) => ap' = Tail(ap) /\ s = Text(c, Head(ap))
    <3>1. PICK s : /\ Len(s) \in Nat /\ FmtWrite(s)
                   /\ Fits(c, Head(ap)) => ap' = Tail(ap) /\ s = Text(c, Head(ap))
      BY <2>8
    <3>2. CASE ap' = Tail(ap)
      <4>1. k + 1 <= Taken(call.format, i + 1)
        BY <1>3, <1>9, <2>3
      <4>2. QED
        BY <1>11, <2>4, <2>5, <2>7, <2>8, <3>1, <3>2, <4>1
    <3>3. CASE ap' # Tail(ap)
      <4>1. ap' = ap /\ ~Matched(call) /\ k <= Taken(call.format, i + 1)
        BY <1>3, <1>9, <2>3, <2>7, <2>8, <3>1, <3>3
      <4>2. QED
        BY <1>3, <1>11, <2>5, <2>8, <3>1, <4>1
    <3>4. QED
      BY <3>2, <3>3
  <2>9. CASE Fault /\ ~Fits(c, Head(ap))
    <3>1. ~Matched(call)
      BY <2>7, <2>9
    <3>2. stage' = "dead" /\ ap' = ap /\ buf' = buf /\ pos' = pos
      BY <2>9 DEF Fault
    <3>3. k <= Taken(call.format, i + 1)
      BY <1>3, <1>9, <2>3
    <3>4. Reading(i + 1, k)'
      BY <1>1, <1>2, <1>5, <1>6, <2>5, <3>1, <3>2 DEF Reading
    <3>5. \E x \in 0..Len(call'.format), y \in Nat : y <= Taken(call'.format, x) /\ Reading(x, y)'
      BY <1>1, <1>3, <1>5, <1>6, <3>3, <3>4
    <3>6. TextDisplayed'
      BY <1>5, <3>1 DEF TextDisplayed
    <3>7. Behind'
      BY <1>4, <3>2, SizeAssumption DEF Block, Behind
    <3>8. QED
      BY <1>4, <1>5, <3>2, <3>5, <3>6, <3>7 DEF MessageInv
  <2>10. QED
    BY <2>2, <2>6, <2>8, <2>9, ConvertLemma
<1>14. QED
  BY <1>12, <1>13

\* The string in a block: it begins with what is before a place without Nul,
\* and ends at a Nul.
LEMMA DisplayedLemma ==
  ASSUME NEW b, NEW p \in 0..Size, \A k \in 0..(p - 1) : b[k] # Nul
  PROVE  /\ \E e \in p..(Size + 1) :
              /\ DOMAIN Displayed(b) = 1..e /\ Displayed(b) = [k \in 1..e |-> Displayed(b)[k]]
              /\ Len(Displayed(b)) = e
              /\ \A k \in 1..p : Displayed(b)[k] = b[k - 1]
         /\ p < Size /\ b[p] = Nul => Displayed(b) = [k \in 1..p |-> b[k - 1]]
<1>1. PICK ends : ends = {k \in 0..(Size - 1) : b[k] = Nul}
  OBVIOUS
<1>2. ends \subseteq Nat /\ ends \subseteq p..(Size - 1)
  BY <1>1, SizeAssumption
<1>3. CASE ends = {}
  <2>1. Displayed(b) = [k \in 1..Size |-> b[k - 1]] \o <<Garbage>>
    BY <1>1, <1>3 DEF Displayed
  <2>2. PICK s : s = [k \in 1..Size |-> b[k - 1]]
    OBVIOUS
  <2>3. PICK S : S = {b[k] : k \in 0..(Size - 1)} \cup {Garbage}
    OBVIOUS
  <2>4. \A k \in 1..Size : k - 1 \in 0..(Size - 1)
    BY SizeAssumption
  <2>5. s \in [1..Size -> S] /\ Garbage \in S
    BY <2>2, <2>3, <2>4
  <2>6. s \in Seq(S) /\ Len(s) = Size
    BY <2>5, SeqLemma, SizeAssumption
  <2>7. PICK g : g = <<Garbage>>
    OBVIOUS
  <2>8. g \in Seq(S) /\ Len(g) = 1
    BY <2>5, <2>7
  <2>9. /\ s \o g \in Seq(S) /\ Len(s \o g) = Size + 1
        /\ \A k \in 1..(Size + 1) : (s \o g)[k] = IF k <= Size THEN s[k] ELSE g[k - Size]
    <3>1. s \o g \in Seq(S)
      BY <2>6, <2>8, ConcatProperties
    <3>2. Len(s \o g) = Len(s) + Len(g)
      BY <2>6, <2>8, ConcatProperties
    <3>3. \A k \in 1..(Len(s) + Len(g)) :
            (s \o g)[k] = IF k <= Len(s) THEN s[k] ELSE g[k - Len(s)]
      BY <2>6, <2>8, ConcatProperties
    <3>4. QED
      BY <2>6, <2>8, <3>1, <3>2, <3>3
  <2>10. PICK d : d = s \o g
    OBVIOUS
  <2>11. d = [k \in 1..(Size + 1) |-> d[k]] /\ Len(d) = Size + 1
    BY <2>9, <2>10, LenProperties
  <2>12. \A k \in 1..p : d[k] = b[k - 1]
    <3>1. TAKE k \in 1..p
    <3>2. k \in 1..Size /\ k \in 1..(Size + 1) /\ k <= Size
      BY SizeAssumption
    <3>3. QED
      BY <2>2, <2>9, <2>10, <3>2
  <2>13. Size + 1 \in p..(Size + 1)
    BY SizeAssumption
  <2>14. ~(p < Size /\ b[p] = Nul)
    BY <1>1, <1>3, SizeAssumption
  <2>15. Displayed(b) = d
    BY <2>1, <2>2, <2>7, <2>10
  <2>16. QED
    BY <2>11, <2>12, <2>13, <2>14, <2>15
<1>4. CASE ends # {}
  <2>1. PICK e \in ends : \A j \in ends : e <= j
    BY <1>2, <1>4, Least
  <2>2. e \in p..(Size - 1) /\ e \in Nat
    BY <1>2, <2>1
  <2>3. PICK z : z = CHOOSE k \in ends : \A j \in ends : k <= j
    OBVIOUS
  <2>4. z \in ends /\ \A j \in ends : z <= j
    BY <2>1, <2>3
  <2>5. z = e
    BY <1>2, <2>1, <2>2, <2>4
  <2>6. Displayed(b) = [k \in 1..e |-> b[k - 1]] \o <<>>
    BY <1>1, <1>4, <2>3, <2>5 DEF Displayed
  <2>7. PICK s : s = [k \in 1..e |-> b[k - 1]]
    OBVIOUS
  <2>8. PICK S : S = {b[k] : k \in 0..(Size - 1)}
    OBVIOUS
  <2>9. \A k \in 1..e : k - 1 \in 0..(Size - 1)
    BY <2>2, SizeAssumption
  <2>10. s \in [1..e -> S]
    BY <2>7, <2>8, <2>9
  <2>11. s \in Seq(S) /\ Len(s) = e
    BY <2>2, <2>10, SeqLemma
  <2>12. Displayed(b) = s
    BY <2>6, <2>7, <2>11, ConcatEmptySeq
  <2>13. \A k \in 1..p : s[k] = b[k - 1]
    BY <2>2, <2>7
  <2>14. p < Size /\ b[p] = Nul => e = p
    BY <1>1, <2>1, <2>2, SizeAssumption
  <2>15. e \in p..(Size + 1)
    BY <2>2, SizeAssumption
  <2>16. QED
    BY <2>7, <2>11, <2>12, <2>13, <2>14, <2>15
<1>5. QED
  BY <1>3, <1>4

LEMMA PrefixLemma ==
  ASSUME NEW S, NEW s \in Seq(S), NEW t \in Seq(S), Len(s) <= Len(t),
         \A k \in 1..Len(s) : s[k] = t[k]
  PROVE  IsPrefix(s, t)
<1>1. PICK n \in Nat : n = Len(s)
  BY LenProperties
<1>2. PICK m \in Nat : m = Len(t)
  BY LenProperties
<1>3. n <= m /\ \A k \in 1..n : s[k] = t[k] /\ s[k] \in S /\ t[k] \in S
  BY <1>1, <1>2, ElementOfSeq
<1>4. PICK u : u = SubSeq(s, 1, n)
  OBVIOUS
<1>5. PICK v : v = SubSeq(t, 1, n)
  OBVIOUS
<1>6. u \in Seq(S) /\ Len(u) = n /\ \A k \in 1..n : u[k] = s[k]
  BY <1>1, <1>3, <1>4, SubSeqProperties
<1>7. v \in Seq(S) /\ Len(v) = n /\ \A k \in 1..n : v[k] = t[k]
  BY <1>2, <1>3, <1>5, SubSeqProperties
<1>8. \A k \in 1..Len(u) : u[k] = v[k]
  BY <1>3, <1>6, <1>7
<1>9. u = v
  BY <1>6, <1>7, <1>8, SeqEqual
<1>10. QED
  BY <1>1, <1>2, <1>3, <1>4, <1>5, <1>9 DEF IsPrefix

\* What is left behind some of a sequence is a suffix of it.
LEMMA SuffixLemma ==
  ASSUME NEW S, NEW t \in Seq(S), NEW i \in 0..Len(t)
  PROVE  IsSuffix(SubSeq(t, i + 1, Len(t)), t)
<1>1. PICK n \in Nat : n = Len(t)
  BY LenProperties
<1>2. PICK s : s = SubSeq(t, i + 1, n)
  OBVIOUS
<1>3. /\ i \in 0..n /\ s \in Seq(S) /\ Len(s) = n - i
      /\ \A j \in 1..(n - i) : s[j] = t[i + j]
  BY <1>1, <1>2, LeftLemma
<1>4. PICK m \in Nat : m = Len(s)
  BY <1>1, <1>3
<1>5. PICK u : u = [j \in 1..m |-> s[(m - j) + 1]]
  OBVIOUS
<1>6. PICK v : v = [j \in 1..n |-> t[(n - j) + 1]]
  OBVIOUS
<1>7. u = Reverse(s) /\ v = Reverse(t)
  BY <1>1, <1>4, <1>5, <1>6 DEF Reverse
<1>8. u \in Seq(S) /\ Len(u) = m
  <2>1. \A j \in 1..m : s[(m - j) + 1] \in S
    <3>1. TAKE j \in 1..m
    <3>2. (m - j) + 1 \in 1..m
      OBVIOUS
    <3>3. QED
      BY <1>3, <1>4, <3>2, ElementOfSeq
  <2>2. QED
    BY <1>5, <2>1, SeqLemma
<1>9. v \in Seq(S) /\ Len(v) = n
  <2>1. \A j \in 1..n : t[(n - j) + 1] \in S
    <3>1. TAKE j \in 1..n
    <3>2. (n - j) + 1 \in 1..n
      OBVIOUS
    <3>3. QED
      BY <1>1, <3>2, ElementOfSeq
  <2>2. QED
    BY <1>6, <2>1, SeqLemma
<1>10. \A j \in 1..m : u[j] = v[j]
  <2>1. TAKE j \in 1..m
  <2>2. /\ j \in 1..n /\ (m - j) + 1 \in 1..(n - i)
        /\ i + ((m - j) + 1) = (n - j) + 1
    BY <1>1, <1>3, <1>4
  <2>3. QED
    BY <1>3, <1>5, <1>6, <2>2
<1>11. IsPrefix(u, v)
  BY <1>1, <1>3, <1>4, <1>8, <1>9, <1>10, PrefixLemma
<1>12. QED
  BY <1>1, <1>2, <1>7, <1>11 DEF IsSuffix

LEMMA EmptySuffix ==
  ASSUME NEW S, NEW t \in Seq(S)
  PROVE  IsSuffix(<<>>, t)
<1>1. PICK n \in Nat : n = Len(t)
  BY LenProperties
<1>2. n \in 0..Len(t)
  BY <1>1
<1>3. SubSeq(t, n + 1, Len(t)) = <<>>
  BY <1>1, <1>2, NextLemma
<1>4. QED
  BY <1>2, <1>3, SuffixLemma

\* The end of a message whose conversions match.
LEMMA EndLemma ==
  ASSUME MessageInv, EndOfMessage, Matched(call)
  PROVE  /\ Len(Whole(call)) < Size => pos < Size
         /\ stage' = "displayed" =>
              IF Len(Whole(call)) <= Size - 2 THEN message' = Whole(call)
              ELSE IsPrefix(SubSeq(Whole(call), 1, Size - 2), message')
<1>1. PICK n \in Nat : n = Len(call.format)
  BY CallLemma DEF MessageInv
<1>2. PICK i \in 0..n, k \in Nat : k <= Taken(call.format, i) /\ Reading(i, k)
  BY <1>1 DEF MessageInv, EndOfMessage
<1>3. call \in Calls \cup {NoCall} /\ Block /\ pos \in Nat
  BY DEF MessageInv, EndOfMessage
<1>4. PICK w : w = Whole(call)
  OBVIOUS
<1>5. PICK t : t = TextTo(call)[i]
  OBVIOUS
<1>6. /\ w \in Seq(Bytes) /\ Len(t) \in Nat /\ Len(w) \in Nat /\ Len(t) <= Len(w)
      /\ \A j \in 1..Len(t) : w[j] = t[j]
  BY <1>1, <1>2, <1>3, <1>4, <1>5, TextBegins
<1>7. pos = Len(t) /\ \A j \in 0..(Size - 3) : j < pos => buf[j] = t[j + 1]
  BY <1>2, <1>5 DEF Reading, Stored
<1>8. \A j \in 0..(Size - 3) : j < pos => buf[j] = w[j + 1] /\ buf[j] # Nul
  <2>1. TAKE j \in 0..(Size - 3)
  <2>2. SUFFICES ASSUME j < pos
                 PROVE  buf[j] = w[j + 1] /\ buf[j] # Nul
    OBVIOUS
  <2>3. j + 1 \in 1..Len(t) /\ j + 1 \in 1..Len(w)
    BY <1>6, <1>7, <2>2, SizeAssumption
  <2>4. w[j + 1] \in Bytes
    BY <1>6, <2>3, ElementOfSeq
  <2>5. QED
    BY <1>6, <1>7, <2>2, <2>3, <2>4, BytesLemma
<1>9. fmt = <<>> => pos = Len(w)
  <2>1. fmt = SubSeq(call.format, i + 1, n)
    BY <1>1, <1>2 DEF Reading
  <2>2. fmt = <<>> => i = n
    BY <1>1, <1>2, <1>3, <2>1, CallLemma, NextLemma
  <2>3. w = TextTo(call)[n]
    BY <1>1, <1>4, TextsExist
  <2>4. QED
    BY <1>5, <1>7, <2>2, <2>3
<1>10. fmt = <<>> \/ pos >= Size - 1
  BY DEF EndOfMessage, Ended
<1>11. PICK b : b = Terminate(buf)
  OBVIOUS
<1>12. stage' = "displayed" => message' = Displayed(b)
  BY <1>11 DEF EndOfMessage
<1>13. DOMAIN buf = 0..(Size - 1)
  BY <1>3 DEF Block
<1>14. \A j \in 0..(Size - 1) : j # pos => b[j] = buf[j]
  BY <1>11, <1>13 DEF Terminate
<1>15. b[pos] = Nul
  BY <1>11 DEF Terminate
<1>16. ASSUME Len(w) <= Size - 2
       PROVE  Displayed(b) = w
  <2>1. pos = Len(w) /\ pos < Size /\ pos \in 0..Size
    BY <1>3, <1>6, <1>7, <1>9, <1>10, <1>16, SizeAssumption
  <2>2. \A j \in 0..(pos - 1) : b[j] = w[j + 1] /\ b[j] # Nul
    <3>1. TAKE j \in 0..(pos - 1)
    <3>2. j \in 0..(Size - 3) /\ j < pos /\ j \in 0..(Size - 1) /\ j # pos
      BY <1>3, <1>16, <2>1, SizeAssumption
    <3>3. QED
      BY <1>8, <1>14, <3>2
  <2>3. Displayed(b) = [j \in 1..pos |-> b[j - 1]]
    BY <1>15, <2>1, <2>2, DisplayedLemma
  <2>4. w = [j \in 1..pos |-> w[j]]
    BY <1>6, <2>1, LenProperties
  <2>5. \A j \in 1..pos : b[j - 1] = w[j]
    <3>1. TAKE j \in 1..pos
    <3>2. j - 1 \in 0..(pos - 1) /\ (j - 1) + 1 = j
      BY <1>3
    <3>3. QED
      BY <2>2, <3>2
  <2>6. QED
    BY <2>3, <2>4, <2>5
<1>17. ASSUME ~(Len(w) <= Size - 2)
       PROVE  IsPrefix(SubSeq(w, 1, Size - 2), Displayed(b))
  <2>1. pos >= Size - 1 /\ Size - 2 \in 0..Size /\ Size - 2 <= Len(w)
    BY <1>3, <1>6, <1>9, <1>10, <1>17, SizeAssumption
  <2>2. PICK p \in Nat : p = Size - 2
    BY SizeAssumption
  <2>3. \A j \in 0..(p - 1) : b[j] = w[j + 1] /\ b[j] # Nul
    <3>1. TAKE j \in 0..(p - 1)
    <3>2. j \in 0..(Size - 3) /\ j < pos /\ j \in 0..(Size - 1) /\ j # pos
      BY <1>3, <2>1, <2>2, SizeAssumption
    <3>3. QED
      BY <1>8, <1>14, <3>2
  <2>4. PICK d : d = Displayed(b)
    OBVIOUS
  <2>5. PICK e \in p..(Size + 1) : /\ d = [j \in 1..e |-> d[j]] /\ Len(d) = e
                                   /\ \A j \in 1..p : d[j] = b[j - 1]
    <3>1. p \in 0..Size /\ \A j \in 0..(p - 1) : b[j] # Nul
      BY <2>1, <2>2, <2>3
    <3>2. \E e \in p..(Size + 1) :
            /\ DOMAIN Displayed(b) = 1..e /\ Displayed(b) = [j \in 1..e |-> Displayed(b)[j]]
            /\ Len(Displayed(b)) = e
            /\ \A j \in 1..p : Displayed(b)[j] = b[j - 1]
      BY <3>1, DisplayedLemma
    <3>3. QED
      BY <2>4, <3>2
  <2>6. PICK S : S = Bytes \cup {d[j] : j \in 1..e}
    OBVIOUS
  <2>7. d \in Seq(S) /\ e \in Nat
    <3>1. e \in Nat /\ d \in [1..e -> S]
      BY <2>2, <2>5, <2>6, SizeAssumption
    <3>2. QED
      BY <3>1, SeqLemma
  <2>8. PICK s : s = SubSeq(w, 1, p)
    OBVIOUS
  <2>9. s \in Seq(Bytes) /\ Len(s) = p /\ \A j \in 1..p : s[j] = w[j]
    <3>1. p <= Len(w) /\ \A j \in 1..p : w[j] \in Bytes
      BY <1>6, <2>1, <2>2, ElementOfSeq
    <3>2. QED
      BY <1>6, <2>2, <2>8, <3>1, SubSeqProperties
  <2>10. s \in Seq(S)
    <3>1. s \in [1..p -> Bytes]
      BY <2>9, LenProperties
    <3>2. s \in [1..p -> S]
      BY <2>6, <3>1
    <3>3. QED
      BY <2>2, <3>2, SeqLemma
  <2>11. \A j \in 1..Len(s) : s[j] = d[j]
    <3>1. TAKE j \in 1..Len(s)
    <3>2. j \in 1..p /\ j - 1 \in 0..(p - 1) /\ (j - 1) + 1 = j
      BY <2>2, <2>9
    <3>3. QED
      BY <2>3, <2>5, <2>9, <3>2
  <2>12. Len(s) <= Len(d)
    BY <2>2, <2>5, <2>7, <2>9
  <2>13. IsPrefix(s, d)
    BY <2>7, <2>10, <2>11, <2>12, PrefixLemma
  <2>14. QED
    BY <2>2, <2>4, <2>8, <2>13
<1>18. Len(w) < Size => pos < Size
  BY <1>3, <1>6, <1>7, SizeAssumption
<1>19. QED
  BY <1>4, <1>12, <1>16, <1>17, <1>18

LEMMA MessageStep == MessageInv /\ [FormatNext]_formatVars => MessageInv'
<1>1. SUFFICES ASSUME MessageInv, [FormatNext]_formatVars
               PROVE  MessageInv'
  OBVIOUS
<1>2. /\ call \in Calls \cup {NoCall} /\ pos \in Nat /\ heap \in {"whole", "damaged"}
      /\ stage \in {"idle", "format"} => Block
  BY <1>1 DEF MessageInv
<1>3. CASE RtlCliDisplayString
  <2>1. /\ stage = "idle" /\ call' \in Calls /\ fmt' = call'.format /\ ap' = call'.args
        /\ stage' = "format" \/ (stage' = "dead" /\ heap' = "damaged")
        /\ buf' = buf /\ pos' = pos /\ heap' = heap
    BY <1>3 DEF RtlCliDisplayString, HeapCall
  <2>2. pos = 0
    BY <1>1, <2>1 DEF MessageInv
  <2>3. PICK c \in Calls : c = call'
    BY <2>1
  <2>4. /\ c.format \in Seq(Items) /\ c.args \in Seq(Arguments)
        /\ Len(c.format) \in Nat /\ Len(c.args) \in Nat
    BY CallLemma
  <2>5. /\ c.format = SubSeq(c.format, 0 + 1, Len(c.format))
        /\ c.args = SubSeq(c.args, 0 + 1, Len(c.args))
    <3>1. ASSUME NEW S, NEW t \in Seq(S)
          PROVE  t = SubSeq(t, 0 + 1, Len(t))
      <4>1. PICK n \in Nat : n = Len(t)
        BY LenProperties
      <4>2. 0 \in 0..n /\ n - 0 = n /\ \A j \in 1..n : 0 + j = j
        OBVIOUS
      <4>3. PICK s : s = SubSeq(t, 0 + 1, n)
        OBVIOUS
      <4>4. s \in Seq(S) /\ Len(s) = n /\ \A j \in 1..n : s[j] = t[j]
        BY <4>1, <4>2, <4>3, LeftLemma
      <4>5. s = t
        BY <4>1, <4>4, SeqEqual
      <4>6. QED
        BY <4>1, <4>3, <4>5
    <3>2. QED
      BY <2>4, <3>1
  <2>6. Taken(c.format, 0) = 0
    <3>1. {j \in 1..0 : Takes(c.format[j])} = {}
      OBVIOUS
    <3>2. QED
      BY <3>1, FS_EmptySet DEF Taken
  <2>7. Matched(c) => pos = Len(TextTo(c)[0])
    <3>1. Matched(c) => TextTo(c)[0] = <<>>
      BY TextLemma
    <3>2. QED
      BY <2>2, <3>1
  <2>8. Stored(0)' <=> /\ pos = Len(TextTo(c)[0])
                       /\ \A j \in 0..(Size - 3) : j < pos => buf[j] = TextTo(c)[0][j + 1]
    BY <2>1, <2>3 DEF Stored
  <2>9. \A j \in 0..(Size - 3) : ~(j < pos)
    BY <2>2, SizeAssumption
  <2>10. Reading(0, 0)'
    BY <2>1, <2>3, <2>5, <2>6, <2>7, <2>8, <2>9 DEF Reading
  <2>11. \E x \in 0..Len(call'.format), y \in Nat : y <= Taken(call'.format, x) /\ Reading(x, y)'
    <3>1. 0 \in 0..Len(call'.format) /\ 0 <= Taken(call'.format, 0)
      BY <2>3, <2>4, <2>6
    <3>2. QED
      BY <2>10, <3>1
  <2>12. Block' /\ pos' \in Nat
    BY <1>2, <2>1 DEF Block
  <2>13. \A x \in DOMAIN buf' : x < Size
    BY <2>12, SizeAssumption DEF Block
  <2>14. TextDisplayed' /\ Behind'
    BY <2>1, <2>13, SizeAssumption DEF TextDisplayed, Behind
  <2>15. QED
    BY <1>2, <2>1, <2>11, <2>12, <2>14 DEF MessageInv
<1>4. CASE NativeVsnprintf
  BY <1>1, <1>4, LoopStep
<1>5. CASE EndOfMessage
  <2>1. /\ stage = "format" /\ call' = call /\ fmt' = <<>> /\ ap' = <<>> /\ pos' = 0
        /\ buf' = Terminate(buf) /\ heap' = IF pos >= Size THEN "damaged" ELSE heap
        /\ stage' = "displayed" \/ (stage' = "dead" /\ heap' = "damaged")
    BY <1>5 DEF EndOfMessage, HeapCall
  <2>2. DOMAIN buf' = 0..(Size - 1) \cup {pos} /\ buf'[pos] = Nul
    BY <1>2, <2>1 DEF Block, Terminate
  <2>3. Behind'
    <3>1. ASSUME NEW k \in DOMAIN buf', k >= Size
          PROVE  k = pos /\ heap' = "damaged"
      BY <1>2, <2>1, <2>2, <3>1, SizeAssumption
    <3>2. QED
      BY <2>1, <2>2, <3>1 DEF Behind
  <2>4. ASSUME pos < Size
        PROVE  \A k \in DOMAIN buf' : k < Size
    BY <1>2, <2>2, <2>4, SizeAssumption
  <2>5. TextDisplayed'
    <3>1. SUFFICES ASSUME Matched(call)
                   PROVE  /\ stage' = "dead" => heap' = "damaged"
                          /\ Len(Whole(call)) < Size => \A k \in DOMAIN buf' : k < Size
                          /\ stage' = "displayed" =>
                               IF Len(Whole(call)) <= Size - 2 THEN message' = Whole(call)
                               ELSE IsPrefix(SubSeq(Whole(call), 1, Size - 2), message')
      BY <2>1 DEF TextDisplayed
    <3>2. QED
      BY <1>1, <1>5, <2>1, <2>4, <3>1, EndLemma
  <2>6. QED
    BY <1>2, <2>1, <2>3, <2>5 DEF MessageInv
<1>6. CASE FreeMessage
  <2>1. /\ stage = "displayed" /\ call' = NoCall /\ buf' = Empty
        /\ fmt' = fmt /\ ap' = ap /\ pos' = pos /\ heap' = heap
        /\ stage' = "idle" \/ (stage' = "dead" /\ heap' = "damaged")
    BY <1>6 DEF FreeMessage, HeapCall
  <2>2. Block' /\ DOMAIN buf' = 0..(Size - 1)
    BY <2>1 DEF Block, Empty
  <2>3. \A k \in DOMAIN buf' : k < Size
    BY <2>2, SizeAssumption
  <2>4. TextDisplayed' /\ Behind'
    BY <2>1, <2>3, SizeAssumption DEF TextDisplayed, Behind
  <2>5. QED
    BY <1>1, <1>2, <2>1, <2>2, <2>4 DEF MessageInv
<1>7. CASE UNCHANGED formatVars
  <2>1. /\ stage' = stage /\ call' = call /\ fmt' = fmt /\ ap' = ap /\ buf' = buf
        /\ pos' = pos /\ heap' = heap /\ message' = message
    BY <1>7 DEF formatVars
  <2>2. (Block <=> Block') /\ Behind' /\ TextDisplayed'
    BY <1>1, <2>1 DEF Block, Behind, TextDisplayed, MessageInv
  <2>3. \A x, y : Reading(x, y) => Reading(x, y)'
    BY <2>1 DEF Reading, Stored
  <2>4. stage \in {"format", "dead"} =>
          \/ \E x \in 0..Len(call'.format), y \in Nat : y <= Taken(call'.format, x) /\ Reading(x, y)'
          \/ stage = "dead" /\ fmt = <<>> /\ ap = <<>>
    BY <1>1, <2>1, <2>3 DEF MessageInv
  <2>5. QED
    BY <1>1, <2>1, <2>2, <2>4 DEF MessageInv
<1>8. QED
  BY <1>1, <1>3, <1>4, <1>5, <1>6, <1>7 DEF FormatNext

LEMMA MessageBegins == FormatInit => MessageInv
<1>1. SUFFICES ASSUME FormatInit
               PROVE  MessageInv
  OBVIOUS
<1>2. Block
  BY <1>1 DEF FormatInit, Empty, Block
<1>3. \A k \in DOMAIN buf : k < Size
  BY <1>2, SizeAssumption DEF Block
<1>4. TextDisplayed /\ Behind
  <2>1. stage = "idle"
    BY <1>1 DEF FormatInit
  <2>2. TextDisplayed
    BY <1>3, <2>1 DEF TextDisplayed
  <2>3. DOMAIN buf = 0..(Size - 1) /\ \A k \in 0..(Size - 1) : ~(k >= Size)
    BY <1>2, SizeAssumption DEF Block
  <2>4. QED
    BY <2>2, <2>3 DEF Behind
<1>5. QED
  BY <1>1, <1>2, <1>4 DEF FormatInit, MessageInv

LEMMA MessageHolds == FormatSpec => []MessageInv
<1>1. QED
  BY MessageBegins, MessageStep, PTL DEF FormatSpec

LEMMA MessageTyped == MessageInv => MessageTypeOK
<1>1. SUFFICES ASSUME MessageInv
               PROVE  MessageTypeOK
  OBVIOUS
<1>2. Behind
  BY <1>1 DEF MessageInv
<1>3. call.format \in Seq(Items) /\ call.args \in Seq(Arguments)
  BY <1>1, CallLemma DEF MessageInv
<1>4. IsSuffix(fmt, call.format) /\ IsSuffix(ap, call.args)
  <2>1. CASE fmt = <<>> /\ ap = <<>>
    BY <1>3, <2>1, EmptySuffix
  <2>2. CASE ~(fmt = <<>> /\ ap = <<>>)
    <3>1. PICK i \in 0..Len(call.format), k \in Nat :
            k <= Taken(call.format, i) /\ Reading(i, k)
      BY <1>1, <2>2 DEF MessageInv
    <3>2. k \in 0..Len(call.args)
      <4>1. PICK n \in Nat : n = Len(call.format)
        BY <1>1, CallLemma DEF MessageInv
      <4>2. i \in Nat /\ i <= n
        BY <3>1, <4>1
      <4>3. /\ Taken(call.format, i) \in Nat /\ Taken(call.format, n) \in Nat
            /\ Taken(call.format, i) <= Taken(call.format, n)
        BY <4>1, <4>2, TakenLemma
      <4>4. Taken(call.format, n) <= Len(call.args) /\ Len(call.args) \in Nat
        BY <1>1, <4>1, CallLemma DEF MessageInv
      <4>5. QED
        BY <3>1, <4>3, <4>4
    <3>3. QED
      BY <1>3, <3>1, <3>2, SuffixLemma DEF Reading
  <2>3. QED
    BY <1>1, <2>1, <2>2 DEF MessageInv
<1>5. QED
  BY <1>1, <1>2, <1>4 DEF MessageInv, Behind, MessageTypeOK

(***************************************************************************)
(* Every variable of native_vsnprintf has its type.  What it stores behind *)
(* the block is the Nul at the end of a text and nothing else, for any     *)
(* size of the block, any characters and any calls.                        *)
(***************************************************************************)
THEOREM MessageTypeCorrect == FormatSpec => []MessageTypeOK
<1>1. QED
  BY MessageHolds, MessageTyped, PTL

(***************************************************************************)
(* A format whose conversions are supported and match their arguments      *)
(* displays the text it stands for: every int and word as its shortest     *)
(* numeral, the least int, zero and null pointers included; a text that    *)
(* does not fit, up to two bytes of the block.  A text that fits stores    *)
(* nothing behind the block, and none faults on a heap that is whole.      *)
(***************************************************************************)
THEOREM TextCorrect == FormatSpec => []TextDisplayed
<1>1. MessageInv => TextDisplayed
  BY DEF MessageInv
<1>2. QED
  BY <1>1, MessageHolds, PTL
================================================================================
