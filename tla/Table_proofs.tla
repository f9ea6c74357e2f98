---------------------------- MODULE Table_proofs ----------------------------
(***************************************************************************)
(* What holds of the tables for any number of columns and rows, any texts  *)
(* and any width of the terminal.                                          *)
(***************************************************************************)
EXTENDS Table, Chains, TLAPS

-----------------------------------------------------------------------------
(* Sums over columns *)

Lens == [1 .. Columns -> Nat]

\* s has the sums over the first columns.
SumsUp(s, lens) ==
    s \in [0 .. Columns -> Nat] /\ s[0] = 0 /\ \A n \in 1 .. Columns : s[n] = s[n - 1] + lens[n]

LEMMA SumIsLast ==
    ASSUME NEW lens \in Lens
    PROVE  \E s : SumsUp(s, lens) /\ SumOf(lens) = s[Columns]
<1> DEFINE sum  == CHOOSE s : s = [n \in 0 .. Columns |-> IF n = 0 THEN 0 ELSE s[n - 1] + lens[n]]
           step == [n \in 1 .. Columns |-> [t \in Nat |-> t + lens[n]]]
<1>1. SumOf(lens) = sum[Columns]
  BY DEF SumOf
<1>2. Columns \in Nat /\ 0 \in 0 .. Columns
  BY TableAssumption
<1>3. \E s : s = [n \in 0 .. Columns |-> IF n = 0 THEN 0 ELSE s[n - 1] + lens[n]]
  <2>1. step \in [1 .. Columns -> [Nat -> Nat]]
    BY DEF Lens
  <2> HIDE DEF step
  <2>2. HasChain(Columns, Nat, 0, step)
    BY <1>2, <2>1, ChainExists
  <2>3. PICK s \in [0 .. Columns -> Nat] :
            s[0] = 0 /\ \A n \in 1 .. Columns : s[n] = step[n][s[n - 1]]
    BY <2>2 DEF HasChain
  <2>4. ASSUME NEW n \in 0 .. Columns PROVE s[n] = IF n = 0 THEN 0 ELSE s[n - 1] + lens[n]
    <3>1. CASE n = 0
      BY <2>3, <3>1
    <3>2. CASE n # 0
      <4>1. n \in 1 .. Columns /\ n - 1 \in 0 .. Columns
        BY <1>2, <3>2
      <4>2. s[n - 1] \in Nat /\ s[n] = step[n][s[n - 1]]
        BY <2>3, <4>1
      <4> QED
        BY <3>2, <4>1, <4>2 DEF step
    <3> QED
      BY <3>1, <3>2
  <2>5. s = [n \in 0 .. Columns |-> IF n = 0 THEN 0 ELSE s[n - 1] + lens[n]]
    BY <2>3, <2>4
  <2> QED
    BY <2>5
<1>4. sum = [n \in 0 .. Columns |-> IF n = 0 THEN 0 ELSE sum[n - 1] + lens[n]]
  BY <1>3
<1> HIDE DEF sum
<1>5. sum[0] = 0
  BY <1>2, <1>4
<1>6. ASSUME NEW n \in 1 .. Columns PROVE sum[n] = sum[n - 1] + lens[n]
  <2>1. n \in 0 .. Columns /\ n # 0
    BY <1>2
  <2> QED
    BY <1>4, <2>1
<1>7. ASSUME NEW n \in 0 .. Columns PROVE sum[n] \in Nat
  <2> DEFINE S == [m \in 0 .. n |-> Nat]
  <2>1. n \in Nat /\ 0 \in 0 .. n /\ n \in 0 .. n /\ \A m \in 1 .. n : m \in 1 .. Columns
    BY <1>2
  <2>2. sum[0] \in S[0]
    BY <1>5, <2>1
  <2>3. ASSUME NEW m \in 1 .. n, sum[m - 1] \in S[m - 1] PROVE sum[m] \in S[m]
    <3>1. m \in 0 .. n /\ m - 1 \in 0 .. n /\ m \in 1 .. Columns /\ lens[m] \in Nat
      BY <2>1 DEF Lens
    <3>2. sum[m - 1] \in Nat
      BY <2>3, <3>1
    <3> QED
      BY <1>6, <3>1, <3>2
  <2>4. S[n] = Nat
    BY <2>1
  <2> HIDE DEF S
  <2>5. sum[n] \in S[n]
    BY <2>1, <2>2, <2>3, ChainArrives
  <2> QED
    BY <2>4, <2>5
<1>8. sum \in [0 .. Columns -> Nat]
  BY <1>4, <1>7
<1> QED
  BY <1>1, <1>5, <1>6, <1>8 DEF SumsUp

LEMMA SumIsNatural == \A lens \in Lens : SumOf(lens) \in Nat
<1> SUFFICES ASSUME NEW lens \in Lens PROVE SumOf(lens) \in Nat
  OBVIOUS
<1>1. PICK s : SumsUp(s, lens) /\ SumOf(lens) = s[Columns]
  BY SumIsLast
<1>2. Columns \in 0 .. Columns
  BY TableAssumption
<1> QED
  BY <1>1, <1>2 DEF SumsUp

\* A column that changes changes the sum by as much.
LEMMA SumChanges ==
    ASSUME NEW lens \in Lens, NEW j \in 1 .. Columns, NEW len \in Nat
    PROVE  /\ [lens EXCEPT ![j] = len] \in Lens
           /\ SumOf([lens EXCEPT ![j] = len]) = SumOf(lens) - lens[j] + len
<1> DEFINE other == [lens EXCEPT ![j] = len]
           S     == [n \in 0 .. Columns |-> {s \in Nat \X Nat :
                        s[2] = s[1] + IF n < j THEN 0 ELSE len - lens[j]}]
<1>1. /\ other \in Lens /\ other[j] = len /\ \A n \in 1 .. Columns : n # j => other[n] = lens[n]
      /\ Columns \in Nat /\ 0 \in 0 .. Columns /\ Columns \in 0 .. Columns
      /\ j \in Nat /\ 0 < j /\ j <= Columns /\ lens[j] \in Nat
  BY TableAssumption DEF Lens
<1> HIDE DEF other
<1>2. PICK s : SumsUp(s, lens) /\ SumOf(lens) = s[Columns]
  BY SumIsLast
<1>3. PICK t : SumsUp(t, other) /\ SumOf(other) = t[Columns]
  BY <1>1, SumIsLast
<1> DEFINE both == [n \in 0 .. Columns |-> <<s[n], t[n]>>]
<1>4. both[0] \in S[0]
  BY <1>1, <1>2, <1>3 DEF SumsUp
<1>5. ASSUME NEW n \in 1 .. Columns, both[n - 1] \in S[n - 1] PROVE both[n] \in S[n]
  <2>1. /\ n \in Nat /\ n \in 0 .. Columns /\ n - 1 \in 0 .. Columns
        /\ lens[n] \in Nat /\ other[n] \in Nat
    BY <1>1 DEF Lens
  <2>2. /\ s[n - 1] \in Nat /\ t[n - 1] \in Nat /\ s[n] \in Nat /\ t[n] \in Nat
        /\ s[n] = s[n - 1] + lens[n] /\ t[n] = t[n - 1] + other[n]
    <3>1. s[n - 1] \in Nat /\ s[n] \in Nat /\ s[n] = s[n - 1] + lens[n]
      BY <1>2, <2>1 DEF SumsUp
    <3>2. t[n - 1] \in Nat /\ t[n] \in Nat /\ t[n] = t[n - 1] + other[n]
      BY <1>3, <2>1 DEF SumsUp
    <3> QED
      BY <3>1, <3>2
  <2>3. t[n - 1] = s[n - 1] + IF n - 1 < j THEN 0 ELSE len - lens[j]
    BY <1>5, <2>1, <2>2
  <2>4. t[n] = s[n] + IF n < j THEN 0 ELSE len - lens[j]
    <3>1. CASE n < j
      BY <1>1, <2>1, <2>2, <2>3, <3>1
    <3>2. CASE n = j
      BY <1>1, <2>1, <2>2, <2>3, <3>2
    <3>3. CASE j < n
      BY <1>1, <2>1, <2>2, <2>3, <3>3
    <3> QED
      BY <1>1, <2>1, <3>1, <3>2, <3>3
  <2> QED
    BY <2>1, <2>2, <2>4
<1>6. S[Columns] = {r \in Nat \X Nat : r[2] = r[1] + len - lens[j]} /\ both[Columns] = <<s[Columns], t[Columns]>>
  BY <1>1
<1> HIDE DEF S, both
<1>7. both[Columns] \in S[Columns]
  BY <1>1, <1>4, <1>5, ChainArrives
<1>8. t[Columns] = s[Columns] + len - lens[j] /\ s[Columns] \in Nat
  BY <1>6, <1>7
<1> QED
  BY <1>1, <1>2, <1>3, <1>8 DEF other

\* The spaces beside the columns, summed up.
LEMMA SumOfPadded ==
    ASSUME NEW lens \in Lens
    PROVE  SumOf([i \in 1 .. Columns |-> lens[i] + 2]) = SumOf(lens) + 2 * Columns
<1> DEFINE padded == [i \in 1 .. Columns |-> lens[i] + 2]
           S      == [n \in 0 .. Columns |-> {s \in Nat \X Nat : s[2] = s[1] + 2 * n}]
<1>1. /\ padded \in Lens /\ \A n \in 1 .. Columns : padded[n] = lens[n] + 2
      /\ Columns \in Nat /\ 0 \in 0 .. Columns /\ Columns \in 0 .. Columns
  BY TableAssumption DEF Lens
<1>2. PICK s : SumsUp(s, lens) /\ SumOf(lens) = s[Columns]
  BY SumIsLast
<1>3. PICK t : SumsUp(t, padded) /\ SumOf(padded) = t[Columns]
  BY <1>1, SumIsLast
<1> HIDE DEF padded
<1> DEFINE both == [n \in 0 .. Columns |-> <<s[n], t[n]>>]
<1>4. both[0] \in S[0]
  BY <1>1, <1>2, <1>3 DEF SumsUp
<1>5. ASSUME NEW n \in 1 .. Columns, both[n - 1] \in S[n - 1] PROVE both[n] \in S[n]
  <2>1. n \in Nat /\ n \in 0 .. Columns /\ n - 1 \in 0 .. Columns /\ lens[n] \in Nat
    BY <1>1 DEF Lens
  <2>2. /\ s[n - 1] \in Nat /\ t[n - 1] \in Nat /\ s[n] \in Nat /\ t[n] \in Nat
        /\ s[n] = s[n - 1] + lens[n] /\ t[n] = t[n - 1] + lens[n] + 2
    <3>1. s[n - 1] \in Nat /\ s[n] \in Nat /\ s[n] = s[n - 1] + lens[n]
      BY <1>2, <2>1 DEF SumsUp
    <3>2. t[n - 1] \in Nat /\ t[n] \in Nat /\ t[n] = t[n - 1] + padded[n]
      BY <1>3, <2>1 DEF SumsUp
    <3>3. padded[n] = lens[n] + 2
      BY <1>1
    <3> QED
      BY <2>1, <3>1, <3>2, <3>3
  <2>3. t[n - 1] = s[n - 1] + 2 * (n - 1)
    BY <1>5, <2>1, <2>2
  <2>4. t[n] = s[n] + 2 * n
    BY <2>1, <2>2, <2>3
  <2> QED
    BY <2>1, <2>2, <2>4
<1>6. S[Columns] = {r \in Nat \X Nat : r[2] = r[1] + 2 * Columns} /\ both[Columns] = <<s[Columns], t[Columns]>>
  BY <1>1
<1> HIDE DEF S, both
<1>7. both[Columns] \in S[Columns]
  BY <1>1, <1>4, <1>5, ChainArrives
<1>8. t[Columns] = s[Columns] + 2 * Columns
  BY <1>6, <1>7
<1> QED
  BY <1>2, <1>3, <1>8 DEF padded

LEMMA SumOfNothing == SumOf([i \in 1 .. Columns |-> 0]) = 0
<1> DEFINE zeros == [i \in 1 .. Columns |-> 0]
           S     == [n \in 0 .. Columns |-> {0}]
<1>1. /\ zeros \in Lens /\ \A n \in 1 .. Columns : zeros[n] = 0
      /\ Columns \in Nat /\ 0 \in 0 .. Columns /\ Columns \in 0 .. Columns
  BY TableAssumption DEF Lens
<1> HIDE DEF zeros
<1>2. PICK s : SumsUp(s, zeros) /\ SumOf(zeros) = s[Columns]
  BY <1>1, SumIsLast
<1>3. s[0] \in S[0]
  BY <1>1, <1>2 DEF SumsUp
<1>4. ASSUME NEW n \in 1 .. Columns, s[n - 1] \in S[n - 1] PROVE s[n] \in S[n]
  <2>1. n \in 0 .. Columns /\ n - 1 \in 0 .. Columns
    BY <1>1
  <2>2. s[n - 1] = 0 /\ s[n] = s[n - 1] + zeros[n] /\ zeros[n] = 0
    BY <1>1, <1>2, <1>4, <2>1 DEF SumsUp
  <2> QED
    BY <2>1, <2>2
<1>5. S[Columns] = {0}
  BY <1>1
<1> HIDE DEF S
<1>6. s[Columns] \in S[Columns]
  BY <1>1, <1>3, <1>4, ChainArrives
<1> QED
  BY <1>2, <1>5, <1>6 DEF zeros

-----------------------------------------------------------------------------
(* Widths of columns *)

LEMMA MaxIs ==
    ASSUME NEW S \in SUBSET Int, NEW x \in S, \A y \in S : y <= x
    PROVE  Max(S) = x
<1>1. x \in Int /\ \A y \in S : y \in Int /\ x >= y
  OBVIOUS
<1>2. \E m \in S : \A y \in S : m >= y
  BY <1>1
<1>3. Max(S) \in S /\ \A y \in S : Max(S) >= y
  BY <1>2 DEF Max
<1>4. Max(S) >= x /\ x >= Max(S) /\ Max(S) \in Int
  BY <1>1, <1>3
<1> QED
  BY <1>1, <1>4

LEMMA MaxOfTwo ==
    ASSUME NEW a \in Int, NEW b \in Int
    PROVE  Max({a, b}) = IF a >= b THEN a ELSE b
BY DEF Max

LEMMA MinOfTwo ==
    ASSUME NEW a \in Int, NEW b \in Int
    PROVE  Min({a, b}) = IF a <= b THEN a ELSE b
BY DEF Min

TextType == [chars : Nat, bytes : Nat, cells : {1, 2}]

TableTypes ==
    /\ header \in Headers
    /\ rows \in Seq([1 .. Columns -> Texts]) /\ Len(rows) <= MaxRows
    /\ max_width \in Widths \cup {None}
    /\ wrap \in BOOLEAN

LEMMA TextsAreTyped ==
    ASSUME TableTypes
    PROVE  /\ Len(rows) \in Nat /\ DOMAIN rows = 1 .. Len(rows)
           /\ \A i \in 1 .. Columns : header[i] \in TextType /\ header[i].chars <= header[i].bytes
           /\ \A k \in 1 .. Len(rows), i \in 1 .. Columns :
                 rows[k][i] \in TextType /\ rows[k][i].chars <= rows[k][i].bytes
<1>1. \A text \in Texts : text \in TextType /\ text.chars <= text.bytes
  BY TableAssumption DEF TextType
<1>2. \A i \in 1 .. Columns : header[i] \in Texts
  BY TableAssumption DEF TableTypes
<1>3. \A k \in 1 .. Len(rows) : rows[k] \in [1 .. Columns -> Texts]
  BY DEF TableTypes
<1>4. \A k \in 1 .. Len(rows), i \in 1 .. Columns : rows[k][i] \in Texts
  BY <1>3
<1> QED
  BY <1>1, <1>2, <1>4 DEF TableTypes

\* The contents that are printed: the header, and each row.
Printed(content) == content = header \/ \E k \in 1 .. Len(rows) : content = rows[k]

LEMMA NaturalLensCover ==
    ASSUME TableTypes
    PROVE  /\ NaturalLens \in Lens
           /\ \A content : Printed(content) =>
                 \A i \in 1 .. Columns : content[i] \in TextType /\ content[i].chars <= NaturalLens[i]
<1>1. ASSUME NEW i \in 1 .. Columns
      PROVE  /\ NaturalLens[i] \in Nat
             /\ header[i].bytes <= NaturalLens[i]
             /\ \A k \in 1 .. Len(rows) : rows[k][i].bytes <= NaturalLens[i]
  <2> DEFINE S == {header[i].bytes} \cup {rows[k][i].bytes : k \in 1 .. Len(rows)}
             N == Len(rows) + 1
             f == [k \in 1 .. N |-> IF k = N THEN header[i].bytes ELSE rows[k][i].bytes]
  <2>1. NaturalLens[i] = Max(S)
    BY TextsAreTyped DEF NaturalLens
  <2>2. /\ Len(rows) \in Nat /\ header[i].bytes \in Nat
        /\ \A k \in 1 .. Len(rows) : rows[k][i].bytes \in Nat
    BY TextsAreTyped DEF TextType
  <2>3. N \in Nat \ {0} /\ \A k \in 1 .. N : k = N \/ k \in 1 .. Len(rows)
    BY <2>2
  <2>4. f \in [1 .. N -> Nat] /\ \A k \in 1 .. N : f[k] \in S
    BY <2>2, <2>3
  <2>5. \A x \in S : \E k \in 1 .. N : f[k] = x
    <3>1. N \in 1 .. N /\ f[N] = header[i].bytes
      BY <2>3
    <3>2. \A k \in 1 .. Len(rows) : k \in 1 .. N /\ f[k] = rows[k][i].bytes
      BY <2>2, <2>3
    <3> HIDE DEF f, N
    <3> QED
      BY <3>1, <3>2
  <2> HIDE DEF f, N
  <2>6. PICK k \in 1 .. N : \A n \in 1 .. N : f[n] <= f[k]
    BY <2>3, <2>4, GreatestExists
  <2>7. S \in SUBSET Int /\ f[k] \in S /\ f[k] \in Nat /\ \A x \in S : x <= f[k]
    <3>1. S \in SUBSET Int
      BY <2>2
    <3> HIDE DEF S
    <3> QED
      BY <2>4, <2>5, <2>6, <3>1
  <2>8. header[i].bytes \in S /\ \A n \in 1 .. Len(rows) : rows[n][i].bytes \in S
    OBVIOUS
  <2> HIDE DEF S
  <2>9. Max(S) = f[k]
    BY <2>7, MaxIs
  <2> QED
    BY <2>1, <2>7, <2>8, <2>9
<1>2. NaturalLens \in Lens
  BY <1>1 DEF NaturalLens, Lens
<1>3. ASSUME NEW content, Printed(content), NEW i \in 1 .. Columns
      PROVE  content[i] \in TextType /\ content[i].chars <= NaturalLens[i]
  <2>1. /\ content[i] \in TextType /\ content[i].chars <= content[i].bytes
        /\ content[i].bytes <= NaturalLens[i]
    BY <1>1, <1>3, TextsAreTyped DEF Printed
  <2> QED
    BY <1>1, <2>1 DEF TextType
<1> QED
  BY <1>2, <1>3

Total == SumOf(NaturalLens) + overhead

LEMMA OverheadIsNatural == overhead \in Nat /\ flex_column \in 1 .. Columns /\ Columns \in Nat
BY TableAssumption DEF overhead, flex_column

\* Columns keep their natural widths, except that the flex column of a table
\* that is too wide may shrink, to what fits or to its minimum.
LEMMA ShrinkOrKeep ==
    ASSUME TableTypes
    PROVE  /\ column_lens \in Lens /\ Total \in Nat
           /\ \/ column_lens = NaturalLens /\ max_width = None
              \/ column_lens = NaturalLens /\ max_width # None /\ Total <= max_width
              \/ /\ column_lens = NaturalLens /\ max_width # None
                 /\ NaturalLens[flex_column] <= MIN_FLEX_WIDTH
              \/ \E target \in Nat :
                    /\ max_width # None /\ MIN_FLEX_WIDTH <= target /\ target < NaturalLens[flex_column]
                    /\ column_lens = [NaturalLens EXCEPT ![flex_column] = target]
                    /\ \/ target = MIN_FLEX_WIDTH
                       \/ target = NaturalLens[flex_column] - (Total - max_width)
<1> DEFINE nat    == NaturalLens[flex_column]
           target == Max({nat - (Total - max_width), MIN_FLEX_WIDTH})
<1>1. NaturalLens \in Lens /\ flex_column \in 1 .. Columns /\ nat \in Nat
  BY NaturalLensCover, OverheadIsNatural DEF Lens
<1>2. Total \in Nat
  BY <1>1, SumIsNatural, OverheadIsNatural DEF Total
<1>3. max_width \in Nat /\ None = 0
  BY TableAssumption DEF TableTypes, None
<1>4. column_lens = IF max_width = None \/ Total <= max_width \/ target >= nat THEN NaturalLens
                    ELSE [NaturalLens EXCEPT ![flex_column] = target]
  BY DEF column_lens, shrink_flex_column, Total
<1>5. /\ target = IF nat - (Total - max_width) >= 8 THEN nat - (Total - max_width) ELSE 8
      /\ MIN_FLEX_WIDTH = 8
  BY <1>1, <1>2, <1>3, MaxOfTwo DEF MIN_FLEX_WIDTH
<1> HIDE DEF nat, target
<1>6. target \in Nat /\ 8 <= target
  BY <1>1, <1>2, <1>3, <1>5
<1>7. CASE max_width = None \/ Total <= max_width
  BY <1>1, <1>2, <1>4, <1>7
<1>8. CASE max_width # None /\ ~(Total <= max_width) /\ target >= nat
  <2>1. nat <= 8
    BY <1>1, <1>2, <1>3, <1>5, <1>6, <1>8
  <2> QED
    BY <1>1, <1>2, <1>4, <1>5, <1>8, <2>1 DEF nat
<1>9. CASE max_width # None /\ ~(Total <= max_width) /\ ~(target >= nat)
  <2>1. column_lens = [NaturalLens EXCEPT ![flex_column] = target]
    BY <1>4, <1>9
  <2>2. column_lens \in Lens
    BY <1>1, <1>6, <2>1, SumChanges
  <2>3. target < nat /\ (target = 8 \/ target = nat - (Total - max_width))
    BY <1>1, <1>5, <1>6, <1>9
  <2> QED
    BY <1>2, <1>5, <1>6, <1>9, <2>1, <2>2, <2>3 DEF nat
<1> QED
  BY <1>7, <1>8, <1>9

-----------------------------------------------------------------------------
(* Cells *)

Pieces == [from : Nat, to : Nat, dots : BOOLEAN]

\* The pieces show a whole text, each character once and in order.
WholeText(pieces, text) ==
    /\ UNION {Chars(pieces[n]) : n \in DOMAIN pieces} = 1 .. text.chars
    /\ \A n, m \in DOMAIN pieces : n < m =>
          \A c \in Chars(pieces[n]), d \in Chars(pieces[m]) : c < d
    /\ \A n \in DOMAIN pieces : ~pieces[n].dots

\* A piece of a text is never of negative length.
LongPieces == {piece \in Pieces : LengthOf(piece) \in Nat}

FitsIn(piece, width) == piece \in Pieces /\ LengthOf(piece) \in Nat /\ LengthOf(piece) <= width

LEMMA OnePieceIsWhole ==
    ASSUME NEW text \in TextType, NEW width \in Nat, text.chars <= width
    PROVE  /\ FitsIn(Piece(1, text.chars, FALSE), width)
           /\ WholeText(<<Piece(1, text.chars, FALSE)>>, text)
<1> DEFINE p == Piece(1, text.chars, FALSE)
<1>1. text.chars \in Nat /\ p.from = 1 /\ p.to = text.chars /\ p.dots = FALSE /\ p \in Pieces
  BY DEF TextType, Piece, Pieces
<1> HIDE DEF p
<1>2. LengthOf(p) = text.chars /\ Chars(p) = 1 .. text.chars
  BY <1>1 DEF LengthOf, Chars
<1>3. WholeText(<<p>>, text)
  <2>1. DOMAIN <<p>> = {1} /\ <<p>>[1] = p
    OBVIOUS
  <2>2. \A n, m \in {1} : ~(n < m)
    OBVIOUS
  <2>3. UNION {Chars(<<p>>[n]) : n \in {1}} = Chars(p)
    BY <2>1
  <2> QED
    BY <1>1, <1>2, <2>1, <2>2, <2>3 DEF WholeText
<1> QED
  BY <1>1, <1>2, <1>3 DEF FitsIn, p

\* A truncated cell keeps to its width, and says so where it cuts, unless the
\* column is narrower than any column that is cut.
LEMMA FitCellFits ==
    ASSUME NEW text \in TextType, NEW width \in Nat
    PROVE  /\ FitsIn(fit_cell(text, width), width)
           /\ text.chars <= width => WholeText(<<fit_cell(text, width)>>, text)
           /\ ~(text.chars <= width) /\ MIN_FLEX_WIDTH <= width =>
                 /\ fit_cell(text, width).dots
                 /\ Chars(fit_cell(text, width)) = 1 .. fit_cell(text, width).to
                 /\ fit_cell(text, width).to < text.chars
<1>1. text.chars \in Nat
  BY DEF TextType
<1>2. CASE text.chars <= width
  BY <1>1, <1>2, OnePieceIsWhole DEF fit_cell
<1>3. CASE ~(text.chars <= width) /\ width <= ELLIPSIS
  BY <1>1, <1>3 DEF fit_cell, Piece, Pieces, FitsIn, LengthOf, ELLIPSIS, MIN_FLEX_WIDTH
<1>4. CASE ~(text.chars <= width) /\ ~(width <= ELLIPSIS)
  BY <1>1, <1>4 DEF fit_cell, Piece, Pieces, FitsIn, LengthOf, Chars, ELLIPSIS, MIN_FLEX_WIDTH
<1> QED
  BY <1>2, <1>3, <1>4

LEMMA Division ==
    ASSUME NEW a \in Nat, NEW b \in Nat \ {0}
    PROVE  a \div b \in Nat /\ (a \div b) * b <= a /\ a < (a \div b) * b + b
BY SMTT(30)

LEMMA Products ==
    ASSUME NEW a \in Nat, NEW b \in Nat, NEW w \in Nat \ {0}
    PROVE  /\ a * w \in Nat
           /\ (a - 1) * w = a * w - w
           /\ a <= b => a * w <= b * w
           /\ a * w < b * w => a < b
<1>1. a * w \in Nat /\ (a - 1) * w = a * w - w
  BY SMTT(30)
<1>2. a <= b => a * w <= b * w
  BY SMTT(30)
<1>3. a * w < b * w => a < b
  BY SMTT(30)
<1> QED
  BY <1>1, <1>2, <1>3

\* The chunks of a wrapped cell fit, and they are the text: the last one, which
\* may be shorter, ends where the text ends.
LEMMA ChunksCover ==
    ASSUME NEW text \in TextType, NEW w \in Nat \ {0}, text.chars # 0
    PROVE  LET ws == wrap_cell(text, w)
           IN  /\ \E h \in Nat \ {0} : ws \in [1 .. h -> Pieces]
               /\ \A n \in DOMAIN ws : FitsIn(ws[n], w)
               /\ WholeText(ws, text)
<1> DEFINE c     == text.chars
           h     == (c + w - 1) \div w
           To(n) == Min({n * w, c})
           ws    == [n \in 1 .. h |-> Piece((n - 1) * w + 1, To(n), FALSE)]
<1>1. c \in Nat \ {0}
  BY DEF TextType
<1>2. wrap_cell(text, w) = ws
  BY <1>1 DEF wrap_cell
<1> HIDE DEF c
<1>3. h \in Nat /\ h * w <= c + w - 1 /\ c + w - 1 < h * w + w
  <2>1. c + w - 1 \in Nat
    BY <1>1
  <2> QED
    BY <2>1, Division
<1> HIDE DEF h
<1>4. h \in Nat \ {0} /\ h * w \in Nat /\ c <= h * w /\ h * w - w < c
  <2>1. h * w \in Nat
    BY <1>3, Products
  <2>2. 0 * w = 0
    OBVIOUS
  <2> QED
    BY <1>1, <1>3, <2>1, <2>2
<1>5. ASSUME NEW n \in 1 .. h
      PROVE  /\ n * w \in Nat /\ (n - 1) * w = n * w - w /\ n * w - w \in Nat
             /\ n * w - w < c /\ To(n) \in Nat /\ To(n) <= n * w /\ To(n) <= c
             /\ To(n) = n * w \/ To(n) = c
  <2>1. n \in Nat /\ 1 <= n /\ n <= h
    BY <1>3
  <2>2. n * w \in Nat /\ (n - 1) * w = n * w - w /\ n * w <= h * w
    BY <1>3, <2>1, Products
  <2>3. n - 1 \in Nat
    BY <2>1
  <2>4. (n - 1) * w \in Nat
    BY <2>3, Products
  <2>5. To(n) = IF n * w <= c THEN n * w ELSE c
    BY <1>1, <2>2, MinOfTwo
  <2> HIDE DEF To
  <2> QED
    BY <1>1, <1>4, <2>2, <2>4, <2>5
<1> HIDE DEF To
<1>6. ASSUME NEW n \in 1 .. h
      PROVE  /\ ws[n] \in Pieces /\ ws[n].from = n * w - w + 1 /\ ws[n].to = To(n) /\ ws[n].dots = FALSE
             /\ Chars(ws[n]) = n * w - w + 1 .. To(n)
             /\ FitsIn(ws[n], w)
  <2>1. ws[n] = Piece(n * w - w + 1, To(n), FALSE)
    BY <1>5
  <2>2. ws[n] \in Pieces /\ ws[n].from = n * w - w + 1 /\ ws[n].to = To(n) /\ ws[n].dots = FALSE
    BY <1>5, <2>1 DEF Piece, Pieces
  <2> DEFINE before == n * w - w
  <2>3. before \in Nat /\ before < c /\ To(n) \in Nat /\ To(n) <= before + w /\ To(n) <= c
        /\ (To(n) = before + w \/ To(n) = c)
    BY <1>5
  <2>4. ws[n].from = before + 1 /\ ws[n].to = To(n) /\ ws[n].dots = FALSE
    BY <2>2
  <2> HIDE DEF ws, before
  <2>5. Chars(ws[n]) = before + 1 .. To(n)
    BY <2>4 DEF Chars
  <2>6. LengthOf(ws[n]) = To(n) - (before + 1) + 1 + 0
    BY <2>4 DEF LengthOf
  <2>7. LengthOf(ws[n]) \in Nat /\ LengthOf(ws[n]) <= w
    BY <1>1, <2>3, <2>6
  <2>8. FitsIn(ws[n], w)
    BY <2>2, <2>7 DEF FitsIn
  <2> QED
    BY <2>2, <2>5, <2>8 DEF before
<1>7. DOMAIN ws = 1 .. h /\ ws \in [1 .. h -> Pieces]
  BY <1>6
<1> HIDE DEF ws
<1>8. ASSUME NEW d \in 1 .. c PROVE \E n \in 1 .. h : d \in Chars(ws[n])
  <2> DEFINE n == (d - 1) \div w + 1
  <2>1. d \in Nat /\ d - 1 \in Nat /\ d <= c
    BY <1>1
  <2>2. n \in Nat \ {0} /\ (n - 1) * w <= d - 1 /\ d - 1 < (n - 1) * w + w
    BY <2>1, Division
  <2> HIDE DEF n
  <2>3. n * w \in Nat /\ (n - 1) * w = n * w - w
    BY <2>2, Products
  <2>4. n \in 1 .. h
    <3>1. n - 1 \in Nat /\ (n - 1) * w \in Nat
      BY <2>2, Products
    <3>2. (n - 1) * w < h * w
      BY <1>1, <1>4, <2>1, <2>2, <3>1
    <3>3. n - 1 < h
      BY <1>3, <3>1, <3>2, Products
    <3> QED
      BY <1>3, <2>2, <3>3
  <2>5. d \in n * w - w + 1 .. To(n)
    BY <1>1, <1>5, <2>1, <2>2, <2>3, <2>4
  <2> QED
    BY <1>6, <2>4, <2>5
<1>9. ASSUME NEW n \in 1 .. h, NEW d \in Chars(ws[n]) PROVE d \in 1 .. c
  <2> DEFINE before == n * w - w
  <2>1. before \in Nat /\ To(n) \in Nat /\ To(n) <= c /\ Chars(ws[n]) = before + 1 .. To(n)
    BY <1>5, <1>6
  <2> HIDE DEF before
  <2> QED
    BY <1>1, <2>1
<1>10. ASSUME NEW n \in 1 .. h, NEW m \in 1 .. h, n < m,
              NEW d \in Chars(ws[n]), NEW e \in Chars(ws[m])
       PROVE  d < e
  <2>1. n \in Nat /\ m \in Nat /\ m - 1 \in Nat /\ n <= m - 1
    BY <1>3, <1>10
  <2>2. n * w <= (m - 1) * w
    BY <2>1, Products
  <2>3. d \in Int /\ d <= To(n) /\ e \in Int /\ m * w - w + 1 <= e
    <3> DEFINE before(k) == k * w - w
    <3>1. /\ before(n) \in Nat /\ To(n) \in Nat /\ Chars(ws[n]) = before(n) + 1 .. To(n)
          /\ before(m) \in Nat /\ To(m) \in Nat /\ Chars(ws[m]) = before(m) + 1 .. To(m)
      BY <1>5, <1>6
    <3> HIDE DEF before
    <3>2. d \in Int /\ d <= To(n) /\ e \in Int /\ before(m) + 1 <= e
      BY <3>1
    <3> QED
      BY <3>2 DEF before
  <2> QED
    BY <1>5, <2>2, <2>3
<1>11. UNION {Chars(ws[n]) : n \in 1 .. h} = 1 .. c
  BY <1>8, <1>9
<1>12. WholeText(ws, text)
  BY <1>6, <1>7, <1>10, <1>11 DEF WholeText, c
<1> QED
  BY <1>2, <1>4, <1>6, <1>7, <1>12

LEMMA WrapCellCovers ==
    ASSUME NEW text \in TextType, NEW w \in Nat, w = 0 => text.chars = 0
    PROVE  LET ws == wrap_cell(text, w)
           IN  /\ \E h \in Nat \ {0} : ws \in [1 .. h -> Pieces]
               /\ \A n \in DOMAIN ws : FitsIn(ws[n], w)
               /\ WholeText(ws, text)
<1>1. CASE text.chars # 0
  BY <1>1, ChunksCover
<1>2. CASE text.chars = 0
  <2> DEFINE p == Piece(1, text.chars, FALSE)
  <2>1. wrap_cell(text, w) = <<p>>
    BY <1>2 DEF wrap_cell
  <2>2. text.chars <= w
    BY <1>2
  <2>3. FitsIn(p, w) /\ WholeText(<<p>>, text)
    BY <2>2, OnePieceIsWhole
  <2> HIDE DEF p
  <2>4. p \in Pieces
    BY <2>3 DEF FitsIn
  <2>5. <<p>> \in [1 .. 1 -> Pieces] /\ DOMAIN <<p>> = 1 .. 1 /\ <<p>>[1] = p
    BY <2>4
  <2>6. 1 \in Nat \ {0} /\ \A n \in 1 .. 1 : n = 1
    OBVIOUS
  <2> QED
    BY <2>1, <2>3, <2>5, <2>6
<1> QED
  BY <1>1, <1>2

-----------------------------------------------------------------------------
(* Rows *)

\* The pieces show the beginning of a text and the dots, and nothing else.
CutText(pieces, text) ==
    \E n \in DOMAIN pieces :
        /\ pieces[n].dots
        /\ Chars(pieces[n]) = 1 .. pieces[n].to
        /\ pieces[n].to < text.chars
        /\ \A m \in DOMAIN pieces \ {n} : pieces[m] = Blank

\* The texts that may be cut: those of one column of a truncated table.
MayBeCut(i) == max_width # None /\ ~wrap /\ i = flex_column

ShowsText(pieces, i, text) ==
    WholeText(pieces, text) \/ (MayBeCut(i) /\ CutText(pieces, text))

\* A column is as wide as its texts, or has shrunk and is not below the minimum.
LEMMA WidthsSuffice ==
    ASSUME TableTypes, NEW content, Printed(content), NEW i \in 1 .. Columns
    PROVE  /\ column_lens[i] \in Nat
           /\ content[i] \in TextType
           /\ \/ content[i].chars <= column_lens[i]
              \/ i = flex_column /\ max_width # None /\ MIN_FLEX_WIDTH <= column_lens[i]
<1>1. NaturalLens \in Lens /\ content[i] \in TextType /\ content[i].chars <= NaturalLens[i]
  BY NaturalLensCover
<1>2. column_lens \in Lens
  BY ShrinkOrKeep
<1>3. CASE column_lens = NaturalLens
  BY <1>1, <1>2, <1>3 DEF Lens
<1>4. CASE \E target \in Nat :
              /\ max_width # None /\ MIN_FLEX_WIDTH <= target
              /\ column_lens = [NaturalLens EXCEPT ![flex_column] = target]
  BY <1>1, <1>2, <1>4 DEF Lens
<1> QED
  BY <1>3, <1>4, ShrinkOrKeep

LEMMA CellShowsText ==
    ASSUME TableTypes, NEW content, Printed(content), NEW i \in 1 .. Columns
    PROVE  LET cell == Cells(content)[i]
           IN  /\ \E h \in Nat \ {0} : cell \in [1 .. h -> Pieces]
               /\ \A n \in DOMAIN cell : FitsIn(cell[n], column_lens[i])
               /\ ShowsText(cell, i, content[i])
<1> DEFINE w    == column_lens[i]
           text == content[i]
<1>1. /\ w \in Nat /\ text \in TextType
      /\ text.chars <= w \/ (i = flex_column /\ max_width # None /\ MIN_FLEX_WIDTH <= w)
  BY WidthsSuffice
<1>2. Cells(content)[i] = IF wrap /\ i = flex_column THEN wrap_cell(text, w) ELSE <<fit_cell(text, w)>>
  BY DEF Cells
<1> HIDE DEF w, text
<1>3. CASE wrap /\ i = flex_column
  <2>1. w = 0 => text.chars = 0
    BY <1>1 DEF TextType, MIN_FLEX_WIDTH
  <2> DEFINE ws == wrap_cell(text, w)
  <2>2. /\ \E h \in Nat \ {0} : ws \in [1 .. h -> Pieces]
        /\ \A n \in DOMAIN ws : FitsIn(ws[n], w)
        /\ WholeText(ws, text)
    BY <1>1, <2>1, WrapCellCovers
  <2>3. Cells(content)[i] = ws
    BY <1>2, <1>3
  <2> HIDE DEF ws
  <2> QED
    BY <2>2, <2>3 DEF ShowsText, w, text
<1>4. CASE ~(wrap /\ i = flex_column)
  <2> DEFINE p == fit_cell(text, w)
  <2>1. /\ FitsIn(p, w)
        /\ text.chars <= w => WholeText(<<p>>, text)
        /\ ~(text.chars <= w) /\ MIN_FLEX_WIDTH <= w =>
              p.dots /\ Chars(p) = 1 .. p.to /\ p.to < text.chars
    BY <1>1, FitCellFits
  <2>2. Cells(content)[i] = <<p>>
    BY <1>2, <1>4
  <2> HIDE DEF p
  <2>3. p \in Pieces
    BY <2>1 DEF FitsIn
  <2>4. <<p>> \in [1 .. 1 -> Pieces] /\ DOMAIN <<p>> = 1 .. 1 /\ <<p>>[1] = p
    BY <2>3
  <2>5. 1 \in Nat \ {0} /\ \A n \in 1 .. 1 : n = 1
    OBVIOUS
  <2>6. ShowsText(<<p>>, i, text)
    <3>1. CASE text.chars <= w
      BY <2>1, <3>1 DEF ShowsText
    <3>2. CASE ~(text.chars <= w)
      <4>1. MayBeCut(i)
        BY <1>1, <1>4, <3>2 DEF MayBeCut
      <4>2. CutText(<<p>>, text)
        BY <1>1, <2>1, <2>4, <2>5, <3>2 DEF CutText
      <4> QED
        BY <4>1, <4>2 DEF ShowsText
    <3> QED
      BY <3>1, <3>2
  <2> QED
    BY <2>1, <2>2, <2>4, <2>5, <2>6 DEF w, text
<1> QED
  BY <1>3, <1>4

\* Blank lines below a cell show nothing more.
LEMMA PaddingShowsText ==
    ASSUME NEW low \in Nat \ {0}, NEW high \in Nat, low <= high,
           NEW cell \in [1 .. low -> Pieces], NEW padded,
           DOMAIN padded = 1 .. high,
           \A n \in 1 .. high : padded[n] = IF n \in 1 .. low THEN cell[n] ELSE Blank,
           NEW i, NEW text, ShowsText(cell, i, text)
    PROVE  ShowsText(padded, i, text)
<1>1. /\ DOMAIN cell = 1 .. low
      /\ \A n \in 1 .. low : n \in 1 .. high /\ padded[n] = cell[n]
      /\ \A n \in 1 .. high : IF n \in 1 .. low THEN padded[n] = cell[n] ELSE padded[n] = Blank
  <2>1. \A n \in 1 .. low : n \in 1 .. high
    OBVIOUS
  <2> QED
    BY <2>1
<1>2. Blank.dots = FALSE /\ Chars(Blank) = {}
  BY DEF Blank, Piece, Chars
<1>3. ASSUME WholeText(cell, text) PROVE WholeText(padded, text)
  <2>1. UNION {Chars(padded[n]) : n \in 1 .. high} = UNION {Chars(cell[n]) : n \in 1 .. low}
    <3>1. ASSUME NEW n \in 1 .. high, NEW c \in Chars(padded[n])
          PROVE  n \in 1 .. low /\ padded[n] = cell[n]
      BY <1>1, <1>2, <3>1
    <3>2. \A n \in 1 .. low : n \in 1 .. high /\ Chars(padded[n]) = Chars(cell[n])
      BY <1>1
    <3>3. UNION {Chars(padded[n]) : n \in 1 .. high} \subseteq UNION {Chars(cell[n]) : n \in 1 .. low}
      BY <3>1
    <3>4. UNION {Chars(cell[n]) : n \in 1 .. low} \subseteq UNION {Chars(padded[n]) : n \in 1 .. high}
      BY <3>2
    <3> QED
      BY <3>3, <3>4
  <2>2. ASSUME NEW n \in 1 .. high, NEW m \in 1 .. high, n < m,
               NEW c \in Chars(padded[n]), NEW d \in Chars(padded[m])
        PROVE  c < d
    <3>1. n \in 1 .. low /\ padded[n] = cell[n] /\ m \in 1 .. low /\ padded[m] = cell[m]
      BY <1>1, <1>2, <2>2
    <3> QED
      BY <1>1, <1>3, <2>2, <3>1 DEF WholeText
  <2>3. \A n \in 1 .. high : ~padded[n].dots
    BY <1>1, <1>2, <1>3 DEF WholeText
  <2> QED
    BY <1>1, <1>3, <2>1, <2>2, <2>3 DEF WholeText
<1>4. ASSUME CutText(cell, text) PROVE CutText(padded, text)
  <2>1. PICK n \in 1 .. low :
            /\ cell[n].dots /\ Chars(cell[n]) = 1 .. cell[n].to /\ cell[n].to < text.chars
            /\ \A m \in 1 .. low \ {n} : cell[m] = Blank
    BY <1>1, <1>4 DEF CutText
  <2>2. n \in 1 .. high /\ padded[n] = cell[n] /\ \A m \in 1 .. high \ {n} : padded[m] = Blank
    BY <1>1, <2>1
  <2> QED
    BY <2>1, <2>2 DEF CutText
<1> QED
  BY <1>3, <1>4 DEF ShowsText

-----------------------------------------------------------------------------
(* Lines *)

LineLength == SumOf(column_lens) + overhead

Lines == [row : Nat, pieces : {<<>>} \cup [1 .. Columns -> LongPieces], length : {LineLength}]

\* What the lines show in a column.
Shown(block, i) == [n \in DOMAIN block |-> block[n].pieces[i]]

\* The lines of a row, or of the header, and nothing else.
RowBlock(block, k, content) ==
    /\ \E h \in Nat \ {0} : block \in [1 .. h -> Lines]
    /\ \A n \in DOMAIN block : block[n].row = k /\ block[n].pieces \in [1 .. Columns -> LongPieces]
    /\ \A i \in 1 .. Columns : ShowsText(Shown(block, i), i, content[i])

LEMMA LineHasLength ==
    ASSUME TableTypes, NEW k, NEW pieces
    PROVE  /\ Line(k, pieces, column_lens).length = LineLength
           /\ Line(k, pieces, column_lens).row = k
           /\ Line(k, pieces, column_lens).pieces = pieces
           /\ LineLength \in Nat
<1>1. /\ column_lens \in Lens /\ SumOf(column_lens) \in Nat
      /\ SumOf([i \in 1 .. Columns |-> column_lens[i] + 2]) = SumOf(column_lens) + 2 * Columns
  BY ShrinkOrKeep, SumIsNatural, SumOfPadded
<1> QED
  BY <1>1, OverheadIsNatural DEF Line, LineLength, overhead

LEMMA FrameIsLine ==
    ASSUME TableTypes
    PROVE  Frame \in Lines /\ Frame.row = None
BY LineHasLength DEF Frame, Lines, Line, None

LEMMA RowIsBlock ==
    ASSUME TableTypes, NEW content, Printed(content), NEW k \in Nat
    PROVE  RowBlock(print_row(k, content), k, content)
<1> DEFINE cells   == Cells(content)
           height  == Max({Len(cells[i]) : i \in 1 .. Columns})
           At(n)   == [i \in 1 .. Columns |-> IF n \in DOMAIN cells[i] THEN cells[i][n] ELSE Blank]
           Wide(n) == [i \in 1 .. Columns |-> Max({column_lens[i], LengthOf(At(n)[i])})]
           block   == [n \in 1 .. height |-> Line(k, At(n), Wide(n))]
<1>1. print_row(k, content) = block
  BY DEF print_row
<1>2. ASSUME NEW i \in 1 .. Columns
      PROVE  /\ Len(cells[i]) \in Nat \ {0} /\ cells[i] \in [1 .. Len(cells[i]) -> Pieces]
             /\ \A n \in DOMAIN cells[i] : FitsIn(cells[i][n], column_lens[i])
             /\ ShowsText(cells[i], i, content[i])
  <2>1. PICK h \in Nat \ {0} : cells[i] \in [1 .. h -> Pieces]
    BY CellShowsText
  <2>2. Len(cells[i]) = h
    BY <2>1
  <2> QED
    BY <2>1, <2>2, CellShowsText
<1> HIDE DEF cells
<1>3. height \in Nat \ {0} /\ \A i \in 1 .. Columns : Len(cells[i]) <= height
  <2> DEFINE f == [i \in 1 .. Columns |-> Len(cells[i])]
             S == {Len(cells[i]) : i \in 1 .. Columns}
  <2>1. Columns \in Nat \ {0} /\ f \in [1 .. Columns -> Nat]
    BY <1>2, TableAssumption
  <2>2. PICK j \in 1 .. Columns : \A i \in 1 .. Columns : f[i] <= f[j]
    BY <2>1, GreatestExists
  <2>3. S \in SUBSET Int /\ f[j] \in S /\ \A x \in S : x <= f[j]
    BY <1>2, <2>2
  <2>4. Max(S) = f[j]
    <3> HIDE DEF S, f
    <3> QED
      BY <2>3, MaxIs
  <2> QED
    BY <1>2, <2>2, <2>4
<1> HIDE DEF height
<1>4. ASSUME NEW n \in 1 .. height, NEW i \in 1 .. Columns
      PROVE  At(n)[i] \in LongPieces /\ Wide(n)[i] = column_lens[i]
  <2>1. column_lens[i] \in Nat
    BY ShrinkOrKeep DEF Lens
  <2>2. FitsIn(Blank, column_lens[i])
    BY <2>1 DEF Blank, Piece, FitsIn, Pieces, LengthOf
  <2>3. FitsIn(At(n)[i], column_lens[i])
    BY <1>2, <2>2
  <2> HIDE DEF At
  <2>4. Wide(n)[i] = Max({column_lens[i], LengthOf(At(n)[i])})
    OBVIOUS
  <2>5. LengthOf(At(n)[i]) \in Nat /\ LengthOf(At(n)[i]) <= column_lens[i]
    BY <2>3 DEF FitsIn
  <2>6. Wide(n)[i] = column_lens[i]
    BY <2>1, <2>4, <2>5, MaxOfTwo
  <2> QED
    BY <2>3, <2>6 DEF FitsIn, LongPieces
<1>5. ASSUME NEW n \in 1 .. height
      PROVE  /\ block[n] \in Lines /\ block[n].row = k /\ block[n].pieces = At(n)
             /\ At(n) \in [1 .. Columns -> LongPieces]
  <2>1. At(n) \in [1 .. Columns -> LongPieces]
    BY <1>4
  <2>2. Wide(n) = column_lens
    <3>1. column_lens \in Lens
      BY ShrinkOrKeep
    <3>2. \A i \in 1 .. Columns : Wide(n)[i] = column_lens[i]
      BY <1>4
    <3> QED
      BY <3>1, <3>2 DEF Lens
  <2> HIDE DEF At, Wide
  <2>3. block[n] = Line(k, At(n), column_lens)
    BY <2>2
  <2>4. /\ block[n].length = LineLength /\ block[n].row = k /\ block[n].pieces = At(n)
    BY <2>3, LineHasLength
  <2>5. block[n] \in Lines
    BY <2>1, <2>3, <2>4 DEF Lines, Line
  <2> QED
    BY <2>1, <2>4, <2>5
<1>6. DOMAIN block = 1 .. height /\ block \in [1 .. height -> Lines]
  BY <1>5
<1> HIDE DEF block
<1>7. ASSUME NEW i \in 1 .. Columns PROVE ShowsText(Shown(block, i), i, content[i])
  <2> DEFINE low == Len(cells[i])
             pad == Shown(block, i)
  <2>1. low \in Nat \ {0} /\ low <= height /\ cells[i] \in [1 .. low -> Pieces]
    BY <1>2, <1>3
  <2>2. DOMAIN pad = 1 .. height /\ \A n \in 1 .. height : pad[n] = At(n)[i]
    BY <1>5, <1>6 DEF Shown
  <2>3. \A n \in 1 .. height : pad[n] = IF n \in 1 .. low THEN cells[i][n] ELSE Blank
    BY <2>1, <2>2
  <2> HIDE DEF low, pad
  <2>4. ShowsText(pad, i, content[i])
    BY <1>2, <1>3, <2>1, <2>2, <2>3, PaddingShowsText
  <2> QED
    BY <2>4 DEF pad
<1> QED
  BY <1>1, <1>3, <1>5, <1>6, <1>7 DEF RowBlock

-----------------------------------------------------------------------------
(* The layout *)

Without(s, k) == \A p \in 1 .. Len(s) : s[p].row # k

\* The lines of a row stand in s as they are in its block, together, and there are no more.
Placed(s, k, block) ==
    \E o \in Nat :
        /\ o + Len(block) <= Len(s)
        /\ \A n \in 1 .. Len(block) : s[o + n] = block[n]
        /\ \A p \in 1 .. Len(s) : s[p].row = k => p - o \in 1 .. Len(block)

LEMMA Concatenation ==
    ASSUME NEW S, NEW s \in Seq(S), NEW t \in Seq(S)
    PROVE  /\ s \o t \in Seq(S) /\ Len(s \o t) = Len(s) + Len(t) /\ Len(s) \in Nat /\ Len(t) \in Nat
           /\ \A p \in 1 .. Len(s) : (s \o t)[p] = s[p]
           /\ \A p \in 1 .. Len(t) : (s \o t)[Len(s) + p] = t[p]
           /\ \A p \in 1 .. Len(s \o t) :
                 IF p \in 1 .. Len(s) THEN (s \o t)[p] = s[p]
                 ELSE p - Len(s) \in 1 .. Len(t) /\ (s \o t)[p] = t[p - Len(s)]
<1>1. s \o t \in Seq(S) /\ Len(s \o t) = Len(s) + Len(t) /\ Len(s) \in Nat /\ Len(t) \in Nat
  OBVIOUS
<1>2. \A p \in 1 .. Len(s) : (s \o t)[p] = s[p]
  OBVIOUS
<1>3. ASSUME NEW p \in 1 .. Len(t) PROVE (s \o t)[Len(s) + p] = t[p]
  BY <1>1
<1>4. ASSUME NEW p \in 1 .. Len(s \o t), p \notin 1 .. Len(s)
      PROVE  p - Len(s) \in 1 .. Len(t) /\ (s \o t)[p] = t[p - Len(s)]
  <2>1. p - Len(s) \in 1 .. Len(t) /\ Len(s) + (p - Len(s)) = p
    BY <1>1, <1>4
  <2> QED
    BY <1>3, <2>1
<1> QED
  BY <1>1, <1>2, <1>3, <1>4

LEMMA WithoutBoth ==
    ASSUME NEW S, NEW s \in Seq(S), NEW t \in Seq(S), NEW k, Without(s, k), Without(t, k)
    PROVE  Without(s \o t, k)
BY Concatenation DEF Without

LEMMA PlacedBefore ==
    ASSUME NEW S, NEW s \in Seq(S), NEW t \in Seq(S), NEW block \in Seq(S), NEW k,
           Placed(s, k, block), Without(t, k)
    PROVE  Placed(s \o t, k, block)
<1>1. PICK o \in Nat :
          /\ o + Len(block) <= Len(s)
          /\ \A n \in 1 .. Len(block) : s[o + n] = block[n]
          /\ \A p \in 1 .. Len(s) : s[p].row = k => p - o \in 1 .. Len(block)
  BY DEF Placed
<1>2. Len(block) \in Nat /\ Len(s) \in Nat /\ Len(t) \in Nat /\ Len(s \o t) = Len(s) + Len(t)
  OBVIOUS
<1>3. o + Len(block) <= Len(s \o t)
  BY <1>1, <1>2
<1>4. ASSUME NEW n \in 1 .. Len(block) PROVE (s \o t)[o + n] = block[n]
  <2>1. o + n \in 1 .. Len(s)
    BY <1>1, <1>2
  <2> QED
    BY <1>1, <2>1, Concatenation
<1>5. ASSUME NEW p \in 1 .. Len(s \o t), (s \o t)[p].row = k PROVE p - o \in 1 .. Len(block)
  <2>1. p \in 1 .. Len(s)
    BY <1>5, Concatenation DEF Without
  <2> QED
    BY <1>1, <1>5, <2>1, Concatenation
<1> QED
  BY <1>3, <1>4, <1>5 DEF Placed

LEMMA PlacedAfter ==
    ASSUME NEW S, NEW s \in Seq(S), NEW t \in Seq(S), NEW block \in Seq(S), NEW k,
           Without(s, k), Placed(t, k, block)
    PROVE  Placed(s \o t, k, block)
<1>1. PICK o \in Nat :
          /\ o + Len(block) <= Len(t)
          /\ \A n \in 1 .. Len(block) : t[o + n] = block[n]
          /\ \A p \in 1 .. Len(t) : t[p].row = k => p - o \in 1 .. Len(block)
  BY DEF Placed
<1>2. Len(block) \in Nat /\ Len(s) \in Nat /\ Len(t) \in Nat /\ Len(s \o t) = Len(s) + Len(t)
  OBVIOUS
<1> DEFINE from == Len(s) + o
<1>3. from \in Nat /\ from + Len(block) <= Len(s \o t)
  BY <1>1, <1>2
<1>4. ASSUME NEW n \in 1 .. Len(block) PROVE (s \o t)[from + n] = block[n]
  <2>1. o + n \in 1 .. Len(t) /\ from + n = Len(s) + (o + n)
    BY <1>1, <1>2
  <2>2. (s \o t)[Len(s) + (o + n)] = t[o + n]
    BY <2>1, Concatenation
  <2> QED
    BY <1>1, <2>1, <2>2
<1>5. ASSUME NEW p \in 1 .. Len(s \o t), (s \o t)[p].row = k PROVE p - from \in 1 .. Len(block)
  <2>1. p - Len(s) \in 1 .. Len(t) /\ (s \o t)[p] = t[p - Len(s)]
    BY <1>5, Concatenation DEF Without
  <2>2. p - Len(s) - o \in 1 .. Len(block)
    BY <1>1, <1>5, <2>1
  <2>3. p - Len(s) - o = p - from
    BY <1>1, <1>2
  <2> QED
    BY <2>2, <2>3
<1> HIDE DEF from
<1> QED
  BY <1>3, <1>4, <1>5 DEF Placed

LEMMA BlockIsLines ==
    ASSUME NEW block, NEW k, NEW content, RowBlock(block, k, content)
    PROVE  /\ block \in Seq(Lines) /\ block # <<>> /\ Placed(block, k, block)
           /\ \A j : j # k => Without(block, j)
<1>1. PICK h \in Nat \ {0} : block \in [1 .. h -> Lines]
  BY DEF RowBlock
<1>2. Len(block) = h /\ DOMAIN block = 1 .. h
  BY <1>1
<1>3. block \in Seq(Lines) /\ block # <<>>
  BY <1>1, <1>2
<1>4. \A p \in 1 .. h : block[p].row = k
  BY <1>2 DEF RowBlock
<1>5. Placed(block, k, block)
  <2>1. 0 \in Nat /\ 0 + h <= h /\ \A p \in 1 .. h : 0 + p = p /\ p - 0 = p
    BY <1>1
  <2> QED
    BY <1>2, <2>1 DEF Placed
<1>6. \A j : j # k => Without(block, j)
  BY <1>2, <1>4 DEF Without
<1> QED
  BY <1>3, <1>5, <1>6

\* The rows, one after another, each with its own lines.
RowsUpTo(n) ==
    {s \in Seq(Lines) : /\ \A p \in 1 .. Len(s) : s[p].row \in 1 .. n
                        /\ \A k \in 1 .. n : Placed(s, k, print_row(k, rows[k]))}

LEMMA RowAdded ==
    ASSUME TableTypes, NEW n \in 1 .. Len(rows), NEW s \in RowsUpTo(n - 1)
    PROVE  s \o print_row(n, rows[n]) \in RowsUpTo(n)
<1> DEFINE block == print_row(n, rows[n])
           more  == s \o block
<1>1. Len(rows) \in Nat /\ n \in Nat \ {0} /\ 1 .. n = (1 .. n - 1) \cup {n} /\ n \notin 1 .. n - 1
  BY TextsAreTyped
<1>2. RowBlock(block, n, rows[n])
  BY <1>1, RowIsBlock DEF Printed
<1> HIDE DEF block
<1>3. block \in Seq(Lines) /\ Placed(block, n, block) /\ \A j : j # n => Without(block, j)
  BY <1>2, BlockIsLines
<1>4. s \in Seq(Lines) /\ (\A p \in 1 .. Len(s) : s[p].row \in 1 .. n - 1)
      /\ \A k \in 1 .. n - 1 : Placed(s, k, print_row(k, rows[k]))
  BY DEF RowsUpTo
<1>5. more \in Seq(Lines)
  BY <1>3, <1>4
<1>6. ASSUME NEW p \in 1 .. Len(more) PROVE more[p].row \in 1 .. n
  <2>1. \A q \in 1 .. Len(block) : block[q].row = n
    BY <1>3 DEF Without
  <2>2. more[p].row \in 1 .. n - 1 \/ more[p].row = n
    BY <1>3, <1>4, <2>1, Concatenation
  <2> QED
    BY <1>1, <2>2
<1>7. Placed(more, n, block)
  <2>1. Without(s, n)
    BY <1>1, <1>4 DEF Without
  <2> QED
    BY <1>3, <1>4, <2>1, PlacedAfter
<1>8. ASSUME NEW k \in 1 .. n - 1 PROVE Placed(more, k, print_row(k, rows[k]))
  <2>1. k \in 1 .. Len(rows) /\ k \in Nat /\ k # n
    BY <1>1
  <2>2. RowBlock(print_row(k, rows[k]), k, rows[k])
    BY <2>1, RowIsBlock DEF Printed
  <2>3. print_row(k, rows[k]) \in Seq(Lines)
    BY <2>2, BlockIsLines
  <2> QED
    BY <1>3, <1>4, <2>1, <2>3, PlacedBefore
<1> HIDE DEF more
<1>9. more \in RowsUpTo(n)
  BY <1>1, <1>5, <1>6, <1>7, <1>8 DEF RowsUpTo, block
<1> QED
  BY <1>9 DEF more, block

LEMMA RowsArePrinted ==
    ASSUME TableTypes
    PROVE  print_rows \in RowsUpTo(Len(rows))
<1> DEFINE N       == Len(rows)
           T       == Seq(Lines)
           block(k) == print_row(k, rows[k])
           step    == [k \in 1 .. N |-> [s \in T |-> s \o block(k)]]
           printed == CHOOSE f : f = [k \in 0 .. N |-> IF k = 0 THEN <<>> ELSE f[k - 1] \o block(k)]
           S       == [k \in 0 .. N |-> RowsUpTo(k)]
<1>1. N \in Nat
  BY TextsAreTyped
<1>2. print_rows = printed[N]
  BY DEF print_rows
<1>3. ASSUME NEW k \in 1 .. N PROVE block(k) \in T
  <2>1. k \in Nat /\ RowBlock(block(k), k, rows[k])
    BY <1>1, RowIsBlock DEF Printed
  <2> QED
    BY <2>1, BlockIsLines
<1>4. ASSUME NEW k \in 1 .. N, NEW s \in RowsUpTo(k - 1) PROVE s \o block(k) \in RowsUpTo(k)
  BY RowAdded
<1>5. <<>> \in RowsUpTo(0)
  BY DEF RowsUpTo
<1> HIDE DEF N, block
<1>6. \E f : f = [k \in 0 .. N |-> IF k = 0 THEN <<>> ELSE f[k - 1] \o block(k)]
  <2>1. step \in [1 .. N -> [T -> T]]
    BY <1>3
  <2>2. <<>> \in T
    OBVIOUS
  <2> HIDE DEF step, T
  <2>3. HasChain(N, T, <<>>, step)
    BY <1>1, <2>1, <2>2, ChainExists
  <2>4. PICK f \in [0 .. N -> T] : f[0] = <<>> /\ \A k \in 1 .. N : f[k] = step[k][f[k - 1]]
    BY <2>3 DEF HasChain
  <2>5. ASSUME NEW k \in 1 .. N PROVE f[k] = f[k - 1] \o block(k)
    <3>1. k - 1 \in 0 .. N
      BY <1>1
    <3>2. f[k - 1] \in T
      BY <2>4, <3>1
    <3> QED
      BY <2>4, <3>2 DEF step
  <2>6. ASSUME NEW k \in 0 .. N PROVE f[k] = IF k = 0 THEN <<>> ELSE f[k - 1] \o block(k)
    <3>1. k = 0 \/ k \in 1 .. N
      BY <1>1
    <3> QED
      BY <2>4, <2>5, <3>1
  <2>7. f = [k \in 0 .. N |-> IF k = 0 THEN <<>> ELSE f[k - 1] \o block(k)]
    BY <2>4, <2>6
  <2> QED
    BY <2>7
<1>7. printed = [k \in 0 .. N |-> IF k = 0 THEN <<>> ELSE printed[k - 1] \o block(k)]
  BY <1>6
<1> HIDE DEF printed
<1>8. printed[0] \in S[0]
  <2>1. 0 \in 0 .. N
    BY <1>1
  <2> QED
    BY <1>5, <1>7, <2>1
<1>9. ASSUME NEW k \in 1 .. N, printed[k - 1] \in S[k - 1] PROVE printed[k] \in S[k]
  <2>1. k \in 0 .. N /\ k - 1 \in 0 .. N /\ k # 0
    BY <1>1
  <2>2. printed[k] = printed[k - 1] \o block(k) /\ printed[k - 1] \in RowsUpTo(k - 1)
    BY <1>7, <1>9, <2>1
  <2> QED
    BY <1>4, <2>1, <2>2
<1>10. S[N] = RowsUpTo(N)
  BY <1>1
<1> HIDE DEF S
<1>11. printed[N] \in S[N]
  BY <1>1, <1>8, <1>9, ChainArrives
<1> QED
  BY <1>2, <1>10, <1>11 DEF N

LEMMA TitleIsPlaced ==
    ASSUME TableTypes, NEW k \in Nat \ {0}
    PROVE  /\ Titled(k) \in Seq(Lines) /\ Titled(k) # <<>>
           /\ Placed(Titled(k), k, print_row(k, header))
           /\ \A j \in Nat \ {0, k} : Without(Titled(k), j)
<1> DEFINE block == print_row(k, header)
           frame == <<Frame>>
<1>1. block \in Seq(Lines) /\ Placed(block, k, block) /\ \A j : j # k => Without(block, j)
  <2>1. RowBlock(block, k, header)
    BY RowIsBlock DEF Printed
  <2> QED
    BY <2>1, BlockIsLines
<1>2. frame \in Seq(Lines) /\ \A j \in Nat \ {0} : Without(frame, j)
  <2>1. Frame \in Lines /\ Frame.row = 0
    BY FrameIsLine DEF None
  <2>2. Len(<<Frame>>) = 1 /\ <<Frame>>[1] = Frame /\ \A p \in 1 .. 1 : p = 1
    OBVIOUS
  <2>3. \A p \in 1 .. Len(<<Frame>>) : <<Frame>>[p].row = 0
    BY <2>1, <2>2
  <2> QED
    BY <2>1, <2>3 DEF Without
<1>3. Titled(k) = (frame \o block) \o frame
  BY DEF Titled
<1> HIDE DEF block, frame
<1>4. frame \o block \in Seq(Lines) /\ Placed(frame \o block, k, block)
  BY <1>1, <1>2, PlacedAfter
<1>5. \A j \in Nat \ {0, k} : Without(frame \o block, j)
  BY <1>1, <1>2, WithoutBoth
<1>6. (frame \o block) \o frame \in Seq(Lines) /\ Placed((frame \o block) \o frame, k, block)
  <2> DEFINE begun == frame \o block
  <2>1. begun \in Seq(Lines) /\ Placed(begun, k, block) /\ Without(frame, k)
    BY <1>2, <1>4
  <2> HIDE DEF begun
  <2>2. begun \o frame \in Seq(Lines) /\ Placed(begun \o frame, k, block)
    BY <1>1, <1>2, <2>1, PlacedBefore
  <2> QED
    BY <2>2 DEF begun
<1>7. \A j \in Nat \ {0, k} : Without((frame \o block) \o frame, j)
  BY <1>2, <1>4, <1>5, WithoutBoth
<1>8. (frame \o block) \o frame # <<>>
  <2>1. Len(frame) = 1
    BY DEF frame
  <2> DEFINE begun == frame \o block
  <2>2. begun \in Seq(Lines)
    BY <1>4
  <2> HIDE DEF begun
  <2>3. Len(begun \o frame) = Len(begun) + 1 /\ Len(begun) \in Nat
    BY <1>2, <2>1, <2>2, Concatenation
  <2>4. begun \o frame # <<>>
    BY <2>3
  <2> QED
    BY <2>4 DEF begun
<1> QED
  BY <1>3, <1>6, <1>7, <1>8 DEF block

Content(k) == IF k \in 1 .. Len(rows) THEN rows[k] ELSE header

\* Every row and both headers are printed once.
LEMMA LayoutIsPlaced ==
    ASSUME TableTypes
    PROVE  /\ Layout \in Seq(Lines) /\ Layout # <<>>
           /\ \A k \in 1 .. Len(rows) \cup {Above, Below} : Placed(Layout, k, print_row(k, Content(k)))
<1> DEFINE top    == Titled(Above)
           middle == print_rows
           bottom == Titled(Below)
           N      == Len(rows)
<1>1. /\ N \in Nat /\ Above \in Nat \ {0} /\ Below \in Nat \ {0} /\ Above # Below
      /\ Above \notin 1 .. N /\ Below \notin 1 .. N
  BY TableAssumption, TextsAreTyped DEF Above, Below, TableTypes
<1>2. /\ top \in Seq(Lines) /\ top # <<>> /\ Placed(top, Above, print_row(Above, header))
      /\ \A j \in Nat \ {0, Above} : Without(top, j)
  BY <1>1, TitleIsPlaced
<1>3. /\ bottom \in Seq(Lines) /\ Placed(bottom, Below, print_row(Below, header))
      /\ \A j \in Nat \ {0, Below} : Without(bottom, j)
  BY <1>1, TitleIsPlaced
<1>4. /\ middle \in Seq(Lines) /\ \A p \in 1 .. Len(middle) : middle[p].row \in 1 .. N
      /\ \A k \in 1 .. N : Placed(middle, k, print_row(k, rows[k]))
  BY RowsArePrinted DEF RowsUpTo
<1>5. Layout = (top \o middle) \o bottom
  BY DEF Layout
<1>6. ASSUME NEW k \in Nat, NEW content, Printed(content) PROVE print_row(k, content) \in Seq(Lines)
  BY <1>6, RowIsBlock, BlockIsLines
<1>7. \A k \in 1 .. N : Printed(rows[k])
  BY DEF Printed
<1>8. Printed(header)
  BY DEF Printed
<1> HIDE DEF top, middle, bottom, N
<1>9. Without(middle, Above) /\ Without(middle, Below)
  BY <1>1, <1>4 DEF Without
<1>10. top \o middle \in Seq(Lines) /\ Layout \in Seq(Lines) /\ Layout # <<>>
  BY <1>2, <1>3, <1>4, <1>5
<1>11. Placed(Layout, Above, print_row(Above, header))
  <2>1. print_row(Above, header) \in Seq(Lines)
    BY <1>1, <1>6, <1>8
  <2>2. Placed(top \o middle, Above, print_row(Above, header))
    BY <1>2, <1>4, <1>9, <2>1, PlacedBefore
  <2>3. Without(bottom, Above)
    BY <1>1, <1>3
  <2> QED
    BY <1>3, <1>5, <1>10, <2>1, <2>2, <2>3, PlacedBefore
<1>12. Placed(Layout, Below, print_row(Below, header))
  <2>1. print_row(Below, header) \in Seq(Lines)
    BY <1>1, <1>6, <1>8
  <2>2. Without(top \o middle, Below)
    <3>1. Without(top, Below)
      BY <1>1, <1>2
    <3> QED
      BY <1>2, <1>4, <1>9, <3>1, WithoutBoth
  <2> QED
    BY <1>3, <1>5, <1>10, <2>1, <2>2, PlacedAfter
<1>13. ASSUME NEW k \in 1 .. N PROVE Placed(Layout, k, print_row(k, rows[k]))
  <2>1. k \in Nat /\ k \in Nat \ {0, Above} /\ k \in Nat \ {0, Below}
    BY <1>1
  <2>2. print_row(k, rows[k]) \in Seq(Lines)
    BY <1>6, <1>7, <2>1
  <2>3. Placed(top \o middle, k, print_row(k, rows[k]))
    BY <1>2, <1>4, <2>1, <2>2, PlacedAfter
  <2> QED
    BY <1>3, <1>5, <1>10, <2>1, <2>2, <2>3, PlacedBefore
<1>14. ASSUME NEW k \in 1 .. N \cup {Above, Below} PROVE Placed(Layout, k, print_row(k, Content(k)))
  BY <1>1, <1>11, <1>12, <1>13 DEF Content, N
<1> QED
  BY <1>10, <1>14 DEF N

-----------------------------------------------------------------------------
(* What is shown *)

RowsOf(s, k) == {n \in DOMAIN s : s[n].row = k}

\* What Whole and Cut say of the lines of a table, said of any.
WholeIn(s, k, i, text) ==
    /\ UNION {Chars(s[n].pieces[i]) : n \in RowsOf(s, k)} = 1 .. text.chars
    /\ \A n, m \in RowsOf(s, k) : n < m =>
          \A c \in Chars(s[n].pieces[i]), d \in Chars(s[m].pieces[i]) : c < d
    /\ \A n \in RowsOf(s, k) : ~s[n].pieces[i].dots

CutIn(s, k, i, text) ==
    \E n \in RowsOf(s, k) :
        /\ s[n].pieces[i].dots
        /\ Chars(s[n].pieces[i]) = 1 .. s[n].pieces[i].to
        /\ s[n].pieces[i].to < text.chars
        /\ \A m \in RowsOf(s, k) \ {n} : s[m].pieces[i] = Blank

LEMMA PlacedShows ==
    ASSUME NEW S, NEW s \in Seq(S), NEW k, NEW h \in Nat \ {0}, NEW block \in [1 .. h -> S],
           \A n \in 1 .. h : block[n].row = k, Placed(s, k, block), NEW i, NEW text
    PROVE  /\ WholeText(Shown(block, i), text) => WholeIn(s, k, i, text)
           /\ CutText(Shown(block, i), text) => CutIn(s, k, i, text)
<1> DEFINE shown == Shown(block, i)
<1>1. Len(block) = h /\ DOMAIN block = 1 .. h /\ Len(s) \in Nat /\ DOMAIN s = 1 .. Len(s)
  OBVIOUS
<1>2. PICK o \in Nat :
          /\ o + h <= Len(s)
          /\ \A n \in 1 .. h : s[o + n] = block[n]
          /\ \A p \in 1 .. Len(s) : s[p].row = k => p - o \in 1 .. h
  BY <1>1 DEF Placed
<1>3. DOMAIN shown = 1 .. h /\ \A n \in 1 .. h : shown[n] = block[n].pieces[i]
  BY <1>1 DEF Shown
<1> HIDE DEF shown
<1>4. ASSUME NEW n \in 1 .. h PROVE o + n \in RowsOf(s, k) /\ s[o + n].pieces[i] = shown[n]
  <2>1. o + n \in DOMAIN s
    BY <1>1, <1>2
  <2> QED
    BY <1>2, <1>3, <2>1 DEF RowsOf
<1>5. ASSUME NEW p \in RowsOf(s, k)
      PROVE  p \in Nat /\ p - o \in 1 .. h /\ s[p].pieces[i] = shown[p - o]
  <2>1. p \in Nat /\ p - o \in 1 .. h /\ o + (p - o) = p
    BY <1>1, <1>2 DEF RowsOf
  <2> QED
    BY <1>4, <2>1
<1>6. ASSUME WholeText(shown, text) PROVE WholeIn(s, k, i, text)
  <2>1. UNION {Chars(s[p].pieces[i]) : p \in RowsOf(s, k)} = UNION {Chars(shown[n]) : n \in 1 .. h}
    <3>1. UNION {Chars(s[p].pieces[i]) : p \in RowsOf(s, k)} \subseteq UNION {Chars(shown[n]) : n \in 1 .. h}
      BY <1>5
    <3>2. UNION {Chars(shown[n]) : n \in 1 .. h} \subseteq UNION {Chars(s[p].pieces[i]) : p \in RowsOf(s, k)}
      BY <1>4
    <3> QED
      BY <3>1, <3>2
  <2>2. ASSUME NEW p \in RowsOf(s, k), NEW q \in RowsOf(s, k), p < q,
               NEW c \in Chars(s[p].pieces[i]), NEW d \in Chars(s[q].pieces[i])
        PROVE  c < d
    <3>1. /\ p - o \in 1 .. h /\ q - o \in 1 .. h /\ p - o < q - o
          /\ c \in Chars(shown[p - o]) /\ d \in Chars(shown[q - o])
      <4>1. /\ p \in Nat /\ p - o \in 1 .. h /\ s[p].pieces[i] = shown[p - o]
            /\ q \in Nat /\ q - o \in 1 .. h /\ s[q].pieces[i] = shown[q - o]
        BY <1>5
      <4> QED
        BY <2>2, <4>1
    <3> QED
      BY <1>3, <1>6, <3>1 DEF WholeText
  <2>3. ASSUME NEW p \in RowsOf(s, k) PROVE ~s[p].pieces[i].dots
    BY <1>3, <1>5, <1>6 DEF WholeText
  <2> QED
    BY <1>3, <1>6, <2>1, <2>2, <2>3 DEF WholeText, WholeIn
<1>7. ASSUME CutText(shown, text) PROVE CutIn(s, k, i, text)
  <2>1. PICK n \in 1 .. h :
            /\ shown[n].dots /\ Chars(shown[n]) = 1 .. shown[n].to /\ shown[n].to < text.chars
            /\ \A m \in 1 .. h \ {n} : shown[m] = Blank
    BY <1>3, <1>7 DEF CutText
  <2>2. o + n \in RowsOf(s, k) /\ s[o + n].pieces[i] = shown[n]
    BY <1>4
  <2>3. ASSUME NEW p \in RowsOf(s, k) \ {o + n} PROVE s[p].pieces[i] = Blank
    <3>1. p \in Nat /\ p - o \in 1 .. h /\ s[p].pieces[i] = shown[p - o]
      BY <1>5
    <3>2. p - o # n
      BY <2>3, <3>1
    <3> QED
      BY <2>1, <3>1, <3>2
  <2> QED
    BY <2>1, <2>2, <2>3 DEF CutIn
<1> QED
  BY <1>6, <1>7 DEF shown

LEMMA LayoutShows ==
    ASSUME TableTypes, NEW k \in 1 .. Len(rows) \cup {Above, Below}, NEW i \in 1 .. Columns
    PROVE  \/ WholeIn(Layout, k, i, Content(k)[i])
           \/ MayBeCut(i) /\ CutIn(Layout, k, i, Content(k)[i])
<1> DEFINE block == print_row(k, Content(k))
           text  == Content(k)[i]
           all   == Layout
<1>1. k \in Nat
  BY TableAssumption, TextsAreTyped DEF Above, Below
<1>2. Printed(Content(k))
  BY DEF Content, Printed
<1>3. RowBlock(block, k, Content(k)) /\ Placed(all, k, block) /\ all \in Seq(Lines)
  BY <1>1, <1>2, RowIsBlock, LayoutIsPlaced
<1> HIDE DEF block, all, text
<1>4. PICK h \in Nat \ {0} : block \in [1 .. h -> Lines]
  BY <1>3 DEF RowBlock
<1>5. \A n \in 1 .. h : block[n].row = k
  BY <1>3, <1>4 DEF RowBlock
<1>6. ShowsText(Shown(block, i), i, text)
  BY <1>3 DEF RowBlock, text
<1>7. /\ WholeText(Shown(block, i), text) => WholeIn(all, k, i, text)
      /\ CutText(Shown(block, i), text) => CutIn(all, k, i, text)
  BY <1>3, <1>4, <1>5, PlacedShows
<1>8. WholeIn(all, k, i, text) \/ (MayBeCut(i) /\ CutIn(all, k, i, text))
  BY <1>6, <1>7 DEF ShowsText
<1> QED
  BY <1>8 DEF all, text

-----------------------------------------------------------------------------
(* The theorems *)

LEMMA LayoutTypes ==
    ASSUME TableTypes
    PROVE  /\ LineLength \in Nat
           /\ \A n \in DOMAIN Layout :
                 /\ Layout[n].length = LineLength
                 /\ \A i \in DOMAIN Layout[n].pieces : LengthOf(Layout[n].pieces[i]) \in Nat
<1> DEFINE all == Layout
<1>1. all \in Seq(Lines) /\ LineLength \in Nat
  BY LayoutIsPlaced, LineHasLength
<1> HIDE DEF all
<1>2. ASSUME NEW n \in DOMAIN all
      PROVE  /\ all[n].length = LineLength
             /\ \A i \in DOMAIN all[n].pieces : LengthOf(all[n].pieces[i]) \in Nat
  <2>1. all[n] \in Lines
    BY <1>1
  <2>2. all[n].length = LineLength /\ all[n].pieces \in {<<>>} \cup [1 .. Columns -> LongPieces]
    BY <2>1 DEF Lines
  <2>3. CASE all[n].pieces = <<>>
    <3>1. DOMAIN all[n].pieces = {}
      BY <2>3
    <3> QED
      BY <2>2, <3>1
  <2>4. CASE all[n].pieces \in [1 .. Columns -> LongPieces]
    BY <2>2, <2>4 DEF LongPieces
  <2> QED
    BY <2>2, <2>3, <2>4
<1> QED
  BY <1>1, <1>2 DEF all

\* A table is built and then printed once.
LEMMA OnceLaid ==
    ASSUME [TableNext]_tableVars
    PROVE  \/ UNCHANGED tableVars
           \/ lines' = <<>>
           \/ lines' = Layout /\ UNCHANGED <<header, rows, max_width, wrap>>
BY DEF TableNext, add_row, SetWidth, fmt, Building, tableVars

LEMMA TypesStep == TableTypes /\ [TableNext]_tableVars => TableTypes'
<1> SUFFICES ASSUME TableTypes, [TableNext]_tableVars PROVE TableTypes'
  OBVIOUS
<1>1. CASE add_row
  <2>1. PICK row \in [1 .. Columns -> Texts] : rows' = Append(rows, row)
    BY <1>1 DEF add_row
  <2>2. rows \in Seq([1 .. Columns -> Texts]) /\ Len(rows) < MaxRows /\ MaxRows \in Nat
    BY <1>1, TableAssumption DEF add_row, TableTypes
  <2>3. rows' \in Seq([1 .. Columns -> Texts]) /\ Len(rows') <= MaxRows
    BY <2>1, <2>2
  <2> QED
    BY <1>1, <2>3 DEF add_row, TableTypes
<1>2. ASSUME NEW wraps \in BOOLEAN, SetWidth(wraps) PROVE TableTypes'
  BY <1>2 DEF SetWidth, TableTypes
<1>3. CASE fmt
  BY <1>3 DEF fmt, TableTypes
<1>4. CASE UNCHANGED tableVars
  BY <1>4 DEF tableVars, TableTypes
<1> QED
  BY <1>1, <1>2, <1>3, <1>4 DEF TableNext

LEMMA TypesInit == TableInit => TableTypes
<1> SUFFICES ASSUME TableInit PROVE TableTypes
  OBVIOUS
<1>1. rows = <<>> /\ MaxRows \in Nat
  BY TableAssumption DEF TableInit
<1>2. <<>> \in Seq([1 .. Columns -> Texts]) /\ Len(<<>>) = 0
  OBVIOUS
<1>3. rows \in Seq([1 .. Columns -> Texts]) /\ Len(rows) <= MaxRows
  BY <1>1, <1>2
<1> QED
  BY <1>3 DEF TableInit, TableTypes

\* No width and no piece of a text comes out negative.
THEOREM TableTypesCorrect == TableSpec => []TableTypeOK
<1>1. TableInit => TableTypeOK
  BY TypesInit DEF TableInit, TableTypeOK, TableTypes
<1>2. TableTypeOK /\ [TableNext]_tableVars => TableTypeOK'
  <2> SUFFICES ASSUME TableTypeOK, [TableNext]_tableVars PROVE TableTypeOK'
    OBVIOUS
  <2>1. TableTypes /\ TableTypes'
    BY TypesStep DEF TableTypeOK, TableTypes
  <2>2. \A n \in DOMAIN lines' :
           /\ lines'[n].length \in Nat
           /\ \A i \in DOMAIN lines'[n].pieces : LengthOf(lines'[n].pieces[i]) \in Nat
    <3>1. CASE UNCHANGED tableVars
      BY <3>1 DEF TableTypeOK, tableVars
    <3>2. CASE lines' = <<>>
      BY <3>2
    <3>3. CASE lines' = Layout
      BY <2>1, <3>3, LayoutTypes
    <3> QED
      BY <3>1, <3>2, <3>3, OnceLaid
  <2> QED
    BY <2>1, <2>2 DEF TableTypeOK, TableTypes, LengthOf
<1> QED
  BY <1>1, <1>2, PTL DEF TableSpec

LEMMA TypesInvariant == TableSpec => []TableTypes
BY TypesInit, TypesStep, PTL DEF TableSpec

\* All lines of a table are equally long, for any columns, texts and widths.
THEOREM TablesAreRectangular == TableSpec => []Rectangular
<1>1. TableInit => Rectangular
  BY DEF TableInit, Rectangular
<1>2. TableTypes /\ Rectangular /\ [TableNext]_tableVars => Rectangular'
  <2> SUFFICES ASSUME TableTypes, Rectangular, [TableNext]_tableVars PROVE Rectangular'
    OBVIOUS
  <2>1. CASE UNCHANGED tableVars
    BY <2>1 DEF Rectangular, tableVars
  <2>2. CASE lines' = <<>>
    BY <2>2 DEF Rectangular
  <2>3. CASE lines' = Layout
    BY <2>3, LayoutTypes DEF Rectangular
  <2> QED
    BY <2>1, <2>2, <2>3, OnceLaid
<1> QED
  BY <1>1, <1>2, TypesInvariant, PTL DEF TableSpec

LEMMA ShrunkFits ==
    ASSUME TableTypes, max_width # None
    PROVE  LineLength <= Max({max_width, Least})
<1> DEFINE nat == NaturalLens[flex_column]
           low == Min({nat, MIN_FLEX_WIDTH})
<1>1. /\ NaturalLens \in Lens /\ flex_column \in 1 .. Columns /\ nat \in Nat
      /\ SumOf(NaturalLens) \in Nat /\ overhead \in Nat /\ max_width \in Nat
  <2>1. NaturalLens \in Lens /\ flex_column \in 1 .. Columns
    BY NaturalLensCover, OverheadIsNatural
  <2> QED
    BY <2>1, SumIsNatural, OverheadIsNatural, TableAssumption DEF Lens, TableTypes, None
<1>2. low = (IF nat <= 8 THEN nat ELSE 8) /\ MIN_FLEX_WIDTH = 8
  BY <1>1, MinOfTwo DEF MIN_FLEX_WIDTH
<1>3. Least = SumOf([NaturalLens EXCEPT ![flex_column] = low]) + overhead
  BY <1>1 DEF Least, Lens
<1>4. Total = SumOf(NaturalLens) + overhead
  BY DEF Total
<1> HIDE DEF nat, low
<1>5. Least = Total - nat + low /\ Least \in Int /\ Total \in Nat
  <2>1. low \in Nat
    BY <1>1, <1>2
  <2>2. SumOf([NaturalLens EXCEPT ![flex_column] = low]) = SumOf(NaturalLens) - nat + low
    BY <1>1, <2>1, SumChanges DEF nat
  <2> QED
    BY <1>1, <1>3, <1>4, <2>1, <2>2
<1>6. LineLength \in Nat /\ (LineLength <= max_width \/ LineLength <= Least)
  <2>1. CASE column_lens = NaturalLens /\ Total <= max_width
    BY <1>4, <1>5, <2>1 DEF LineLength
  <2>2. CASE column_lens = NaturalLens /\ nat <= MIN_FLEX_WIDTH
    BY <1>1, <1>2, <1>4, <1>5, <2>2 DEF LineLength
  <2>3. ASSUME NEW target \in Nat, MIN_FLEX_WIDTH <= target, target < nat,
               column_lens = [NaturalLens EXCEPT ![flex_column] = target],
               target = MIN_FLEX_WIDTH \/ target = nat - (Total - max_width)
        PROVE  LineLength \in Nat /\ (LineLength <= max_width \/ LineLength <= Least)
    <3>1. SumOf(column_lens) = SumOf(NaturalLens) - nat + target
      BY <1>1, <2>3, SumChanges DEF nat
    <3>2. LineLength = Total - nat + target
      BY <1>1, <1>4, <3>1 DEF LineLength
    <3>3. LineLength \in Nat
      BY LineHasLength
    <3> QED
      BY <1>1, <1>2, <1>5, <2>3, <3>2, <3>3
  <2> QED
    BY <2>1, <2>2, <2>3, ShrinkOrKeep DEF nat
<1> QED
  BY <1>1, <1>5, <1>6, MaxOfTwo

\* No line is longer, in characters, than the terminal or the least table is wide.
Fitting ==
    /\ \A n \in DOMAIN lines : lines[n].length \in Nat
    /\ max_width # None => \A n \in DOMAIN lines : lines[n].length <= Max({max_width, Least})

LEMMA FittingStep == TableTypes /\ Fitting /\ [TableNext]_tableVars => Fitting'
<1> SUFFICES ASSUME TableTypes, Fitting, [TableNext]_tableVars PROVE Fitting'
  OBVIOUS
<1>1. ASSUME UNCHANGED <<header, rows>> PROVE Least' = Least
  <2>1. header' = header /\ rows' = rows
    BY <1>1
  <2>2. NaturalLens' = NaturalLens
    BY <2>1 DEF NaturalLens
  <2> QED
    BY <2>2 DEF Least
<1>2. CASE UNCHANGED tableVars
  BY <1>1, <1>2 DEF tableVars, Fitting
<1>3. CASE lines' = <<>>
  BY <1>3 DEF Fitting
<1>4. CASE lines' = Layout /\ UNCHANGED <<header, rows, max_width, wrap>>
  <2>1. LineLength \in Nat
    BY LineHasLength
  <2> QED
    BY <1>1, <1>4, <2>1, LayoutTypes, ShrunkFits DEF Fitting
<1> QED
  BY <1>2, <1>3, <1>4, OnceLaid

\* For any columns, rows, texts and terminal: a line that shows no wide character
\* is no wider than the terminal, or than the least the table can be; a line that
\* shows some can be (table.rs 180-228).
THEOREM NarrowLinesStayWithin == TableSpec => []NarrowLinesFit
<1>1. TableInit => Fitting
  BY DEF TableInit, Fitting
<1>2. Fitting => NarrowLinesFit
  <2> SUFFICES ASSUME Fitting, max_width # None, NEW n \in DOMAIN lines,
                      \A i \in 1 .. Columns : Extra(lines[n], i) = 0
               PROVE  WidthOf(lines[n]) <= Max({max_width, Least})
    BY DEF NarrowLinesFit
  <2>1. [i \in 1 .. Columns |-> Extra(lines[n], i)] = [i \in 1 .. Columns |-> 0]
    OBVIOUS
  <2>2. SumOf([i \in 1 .. Columns |-> Extra(lines[n], i)]) = 0
    BY <2>1, SumOfNothing
  <2>3. WidthOf(lines[n]) = lines[n].length
    BY <2>2 DEF WidthOf, Fitting
  <2> QED
    BY <2>3 DEF Fitting
<1> QED
  BY <1>1, <1>2, FittingStep, TypesInvariant, PTL DEF TableSpec

\* Every text is printed once, whole and in order, except those of the flex
\* column of a truncated table, which are marked where they are cut.
THEOREM NothingIsLost == TableSpec => []NothingLost
<1>1. TableInit => NothingLost
  BY DEF TableInit, NothingLost
<1>2. TableTypes /\ NothingLost /\ [TableNext]_tableVars => NothingLost'
  <2> SUFFICES ASSUME TableTypes, NothingLost, [TableNext]_tableVars PROVE NothingLost'
    OBVIOUS
  <2>1. CASE UNCHANGED tableVars
    BY <2>1 DEF NothingLost, Whole, Cut, TextOf, LinesOf, tableVars, Above, Below
  <2>2. CASE lines' = <<>>
    BY <2>2 DEF NothingLost
  <2>3. CASE lines' = Layout /\ UNCHANGED <<header, rows, max_width, wrap>>
    <3>1. DOMAIN rows = 1 .. Len(rows)
      BY TextsAreTyped
    <3>2. ASSUME NEW i \in 1 .. Columns, NEW k \in DOMAIN rows \cup {Above, Below}
          PROVE  \/ WholeIn(lines', k, i, Content(k)[i])
                 \/ MayBeCut(i) /\ CutIn(lines', k, i, Content(k)[i])
      BY <2>3, <3>1, LayoutShows
    <3>3. \A i \in 1 .. Columns, k \in DOMAIN rows \cup {Above, Below} :
             Content(k)[i] = IF k \in DOMAIN rows THEN rows[k][i] ELSE header[i]
      BY <3>1 DEF Content
    <3>4. header' = header /\ rows' = rows /\ max_width' = max_width /\ wrap' = wrap
      BY <2>3
    <3>5. \A k, i, text : /\ Whole(k, i, text)' <=> WholeIn(lines', k, i, text)
                          /\ Cut(k, i, text)' <=> CutIn(lines', k, i, text)
      BY DEF Whole, Cut, LinesOf, WholeIn, CutIn, RowsOf
    <3> QED
      BY <3>2, <3>3, <3>4, <3>5 DEF NothingLost, TextOf, MayBeCut
  <2> QED
    BY <2>1, <2>2, <2>3, OnceLaid
<1> QED
  BY <1>1, <1>2, TypesInvariant, PTL DEF TableSpec
=============================================================================
