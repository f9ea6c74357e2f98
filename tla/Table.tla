------------------------------- MODULE Table -------------------------------
(***************************************************************************)
(* The tables that `list` and `info` print (src/utils/pretty_table and the *)
(* end of src/ipc/client.rs): a table is built, given the width of the     *)
(* terminal when there is one, and laid out.                               *)
(*                                                                         *)
(* A text is its number of characters, its number of bytes in UTF-8, and   *)
(* the columns of the terminal each of its characters takes: two in most   *)
(* East Asian scripts.  What is printed of it is an interval of its        *)
(* characters, with or without the three dots.  Colours, the shapes of the *)
(* frame and on which side a cell is padded are left out.                  *)
(***************************************************************************)
EXTENDS Integers, Sequences, FiniteSetsExt

CONSTANTS
    Columns,    \* number of columns, the same in every row
    Texts,      \* the texts of cells, [chars, bytes, cells]
    Headers,    \* the headers
    Widths,     \* widths of the terminal
    MaxRows     \* bound of the model: rows of a table

MIN_FLEX_WIDTH == 8
ELLIPSIS       == 3    \* its length
None           == 0    \* no width is set

ASSUME TableAssumption ==
    /\ Columns \in Nat \ {0}
    /\ Texts \subseteq [chars : Nat, bytes : Nat, cells : {1, 2}]
    /\ \A text \in Texts : text.chars <= text.bytes /\ text.bytes <= 4 * text.chars
    /\ Headers \subseteq [1 .. Columns -> Texts]
    /\ Widths \subseteq Nat \ {None}
    /\ MaxRows \in Nat

VARIABLES
    header,     \* the texts of the header
    rows,       \* the rows, sequences of texts
    max_width,  \* the width of the terminal, or None
    wrap,       \* whether the flex column is wrapped, otherwise truncated
    lines       \* what was printed; the table is done when it is not empty

tableVars == <<header, rows, max_width, wrap, lines>>

flex_column == Columns    \* the command of list, the value of info: the last one

SumOf(lens) ==
    LET sum[n \in 0 .. Columns] == IF n = 0 THEN 0 ELSE sum[n - 1] + lens[n]
    IN  sum[Columns]

\* Two spaces for each column, a bar on either side of each.
overhead == 2 * Columns + Columns + 1

-----------------------------------------------------------------------------
(* Widths of columns *)

\* The longest text of a column, in bytes.
NaturalLens ==
    [i \in 1 .. Columns |-> Max({header[i].bytes} \cup {rows[k][i].bytes : k \in DOMAIN rows})]

\* Mutant of shrink_flex_column: the outer border is forgotten.
shrink_flex_column_NoBorder(lens) ==
    LET total  == SumOf(lens) + overhead - 1
        target == Max({lens[flex_column] - (total - max_width), MIN_FLEX_WIDTH})
    IN  IF max_width = None \/ total <= max_width \/ target >= lens[flex_column] THEN lens
        ELSE [lens EXCEPT ![flex_column] = target]

\* Mutant of shrink_flex_column: there is no minimum.
shrink_flex_column_NoMinimum(lens) ==
    LET total == SumOf(lens) + overhead
    IN  IF max_width = None \/ total <= max_width THEN lens
        ELSE [lens EXCEPT ![flex_column] = @ - (total - max_width)]

\* Takes what is too much from the flex column, down to the minimum.
shrink_flex_column(lens) ==
    LET total  == SumOf(lens) + overhead
        target == Max({lens[flex_column] - (total - max_width), MIN_FLEX_WIDTH})
    IN  IF max_width = None \/ total <= max_width \/ target >= lens[flex_column] THEN lens
        ELSE [lens EXCEPT ![flex_column] = target]

column_lens == shrink_flex_column(NaturalLens)

-----------------------------------------------------------------------------
(* Cells *)

Piece(from, to, dots) == [from |-> from, to |-> to, dots |-> dots]
Blank                 == Piece(1, 0, FALSE)
LengthOf(piece)       == piece.to - piece.from + 1 + IF piece.dots THEN ELLIPSIS ELSE 0

\* Mutant of wrap_cell: a last chunk that is not full is dropped.
wrap_cell_FullOnly(text, width) ==
    IF text.chars = 0 \/ width = 0 THEN <<Piece(1, text.chars, FALSE)>>
    ELSE [k \in 1 .. Max({1, text.chars \div width}) |->
            Piece((k - 1) * width + 1, Min({k * width, text.chars}), FALSE)]

\* Chunks of the width, the last one may be shorter.
wrap_cell(text, width) ==
    IF text.chars = 0 \/ width = 0 THEN <<Piece(1, text.chars, FALSE)>>
    ELSE [k \in 1 .. (text.chars + width - 1) \div width |->
            Piece((k - 1) * width + 1, Min({k * width, text.chars}), FALSE)]

\* Mutant of fit_cell: the dots come on top of the width.
fit_cell_DotsOnTop(text, width) ==
    IF text.chars <= width THEN Piece(1, text.chars, FALSE)
    ELSE Piece(1, width, width > ELLIPSIS)

\* The text if it fits, otherwise its beginning and the dots, if they fit.
fit_cell(text, width) ==
    IF text.chars <= width THEN Piece(1, text.chars, FALSE)
    ELSE IF width <= ELLIPSIS THEN Piece(1, width, FALSE)
    ELSE Piece(1, width - ELLIPSIS, TRUE)

-----------------------------------------------------------------------------
(* Lines: a frame is the lengths of its dashes, a line of text the pieces in its cells *)

\* The length is in characters, which is what padding counts.
Line(k, pieces, widths) ==
    [row |-> k, pieces |-> pieces, length |-> SumOf([i \in 1 .. Columns |-> widths[i] + 2]) + Columns + 1]

Frame == Line(None, <<>>, column_lens)

Cells(content) ==
    [i \in 1 .. Columns |->
        IF wrap /\ i = flex_column THEN wrap_cell(content[i], column_lens[i])
        ELSE <<fit_cell(content[i], column_lens[i])>>]

\* A row is as high as its highest cell; a cell is padded to the width of its column.
print_row(k, content) ==
    LET cells  == Cells(content)
        height == Max({Len(cells[i]) : i \in 1 .. Columns})
        At(n)  == [i \in 1 .. Columns |-> IF n \in DOMAIN cells[i] THEN cells[i][n] ELSE Blank]
    IN  [n \in 1 .. height |->
            Line(k, At(n), [i \in 1 .. Columns |-> Max({column_lens[i], LengthOf(At(n)[i])})])]

\* The header stands above and below the rows.
Above == MaxRows + 1
Below == MaxRows + 2

print_rows ==
    LET printed[k \in 0 .. Len(rows)] ==
            IF k = 0 THEN <<>> ELSE printed[k - 1] \o print_row(k, rows[k])
    IN  printed[Len(rows)]

Titled(k) == <<Frame>> \o print_row(k, header) \o <<Frame>>

Layout == Titled(Above) \o print_rows \o Titled(Below)

-----------------------------------------------------------------------------
Building == lines = <<>>

add_row ==
    /\ Building /\ max_width = None
    /\ Len(rows) < MaxRows
    /\ \E row \in [1 .. Columns -> Texts] : rows' = Append(rows, row)
    /\ UNCHANGED <<header, max_width, wrap, lines>>

\* With a terminal: fit_to_width (list) or wrap_to_width (info).
SetWidth(wraps) ==
    /\ Building /\ max_width = None
    /\ max_width' \in Widths
    /\ wrap' = wraps
    /\ UNCHANGED <<header, rows, lines>>

\* Display; a table without rows prints nothing.
fmt ==
    /\ Building
    /\ rows # <<>>
    /\ lines' = Layout
    /\ UNCHANGED <<header, rows, max_width, wrap>>

TableInit ==
    /\ header \in Headers
    /\ rows = <<>>
    /\ max_width = None
    /\ wrap = FALSE
    /\ lines = <<>>

TableNext == add_row \/ SetWidth(FALSE) \/ SetWidth(TRUE) \/ fmt

TableSpec == TableInit /\ [][TableNext]_tableVars

-----------------------------------------------------------------------------
(* Properties *)

\* The types; no width and no piece of a text comes out negative (usize, saturating_sub).
TableTypeOK ==
    /\ header \in Headers
    /\ rows \in Seq([1 .. Columns -> Texts]) /\ Len(rows) <= MaxRows
    /\ max_width \in Widths \cup {None}
    /\ wrap \in BOOLEAN
    /\ \A n \in DOMAIN lines :
          /\ lines[n].length \in Nat
          /\ \A i \in DOMAIN lines[n].pieces : LengthOf(lines[n].pieces[i]) \in Nat

\* All lines of a table are equally long in characters: frames, headers, truncated cells and
\* wrapped cells beside blank ones (table.rs 206-316).
Rectangular == \A n, m \in DOMAIN lines : lines[n].length = lines[m].length

\* The text of a cell, in a row, or in the header that stands above and below.
TextOf(k, i) == IF k \in DOMAIN rows THEN rows[k][i] ELSE header[i]

\* The columns of the terminal a line takes are its characters, and one more for
\* each that is wide.
Extra(line, i) ==
    IF line.row # None /\ TextOf(line.row, i).cells = 2
    THEN line.pieces[i].to - line.pieces[i].from + 1 ELSE 0
WidthOf(line) == line.length + SumOf([i \in 1 .. Columns |-> Extra(line, i)])

\* The least a table can be: the flex column at its minimum or, when its texts
\* are shorter, at its own width.
Least == SumOf([NaturalLens EXCEPT ![flex_column] = Min({@, MIN_FLEX_WIDTH})]) + overhead

\* The table is constrained to the columns of the terminal, as far as the other
\* columns allow (table.rs 18, 63-80, 180-217).
FitsTerminal ==
    max_width # None => \A n \in DOMAIN lines : WidthOf(lines[n]) <= Max({max_width, Least})

\* So is each line that shows no wide character, whatever the others show.
NarrowLinesFit ==
    max_width # None =>
        \A n \in DOMAIN lines :
            (\A i \in 1 .. Columns : Extra(lines[n], i) = 0) => WidthOf(lines[n]) <= Max({max_width, Least})

Chars(piece)  == piece.from .. piece.to
LinesOf(k)    == {n \in DOMAIN lines : lines[n].row = k}

\* The cell of a row in a column shows the whole text, each character once.
Whole(k, i, text) ==
    /\ UNION {Chars(lines[n].pieces[i]) : n \in LinesOf(k)} = 1 .. text.chars
    /\ \A n, m \in LinesOf(k) : n < m =>
          \A c \in Chars(lines[n].pieces[i]), d \in Chars(lines[m].pieces[i]) : c < d
    /\ \A n \in LinesOf(k) : ~lines[n].pieces[i].dots

\* The cell shows the beginning of the text, in one line, and the dots.
Cut(k, i, text) ==
    \E n \in LinesOf(k) :
        /\ lines[n].pieces[i].dots
        /\ Chars(lines[n].pieces[i]) = 1 .. lines[n].pieces[i].to
        /\ lines[n].pieces[i].to < text.chars
        /\ \A m \in LinesOf(k) \ {n} : lines[m].pieces[i] = Blank

\* Every text is printed once, whole and in order, header included; only a
\* truncated table cuts texts, those of one column, and marks what it cuts
\* (table.rs 63-80, 206-228).
NothingLost ==
    lines # <<>> =>
        \A i \in 1 .. Columns, k \in DOMAIN rows \cup {Above, Below} :
            \/ Whole(k, i, TextOf(k, i))
            \/ max_width # None /\ ~wrap /\ i = flex_column /\ Cut(k, i, TextOf(k, i))
=============================================================================
