------------------------- MODULE MCEnumBitOpSplitter -------------------------
(***************************************************************************)
(* Texts of up to four operands over two bits: enumerators that magic_enum *)
(* knows, that only the table knows, or nobody; the beginning of one;      *)
(* numbers, blanks and missing operands.                                   *)
(***************************************************************************)
EXTENDS EnumBitOpSplitter

\* "M0" and "M1" are known to magic_enum, "T0", "T01" and "M12" to the table
\* only.
Magic   == [name \in {"M0", "M1"} |-> IF name = "M0" THEN {0} ELSE {1}]
Table   == [name \in {"T0", "T01", "M12"} |-> IF name = "T01" THEN {0, 1} ELSE {0}]
Numbers == [name \in {"2"} |-> {1}]

\* "T" and "M1" are answered by a longer name, the empty name by the first of
\* its chain.
Entries == [name \in DOMAIN Table \cup {"T", "M1", NoOperand} |->
               CASE name = "T" -> "T0"
                 [] name = "M1" -> "M12"
                 [] name = NoOperand -> "T01"
                 [] OTHER -> name]

FewOperands == {[name |-> name, blanks |-> FALSE] :
                   name \in {"M0", "M1", "T", "T01", "2", NoOperand}}
         \cup {[name |-> name, blanks |-> TRUE] :
                   name \in {"M0", "M1", "T0", NoOperand}}
=============================================================================
