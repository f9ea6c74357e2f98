------------------------------ MODULE MCTable ------------------------------
(* Values for checking tables: of two columns, like those of info. *)
EXTENDS Table

Ascii(n) == [chars |-> n, bytes |-> n, cells |-> 1]

\* Shorter and longer than the minimum; one whose characters take two bytes, and
\* one whose characters take three and are wide.
MCTexts   == {Ascii(n) : n \in {0, 3, 9, 20}}
             \cup {[chars |-> 10, bytes |-> 20, cells |-> 1], [chars |-> 7, bytes |-> 21, cells |-> 2]}
MCHeaders == { <<Ascii(3), Ascii(3)>>, <<Ascii(9), Ascii(20)>> }
=============================================================================
