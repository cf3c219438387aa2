---------------------------- MODULE MCAsmWordCount ----------------------------
(***************************************************************************)
(* AsmWordCount for TLC: every stream of up to four bytes: a terminator, a *)
(* newline, a blank, a full stop, a capital and two small letters, and the *)
(* byte 255; and streams of eight bytes, of blanks and small letters, in   *)
(* which words occur again and again.                                      *)
(***************************************************************************)
EXTENDS AsmWordCount

Bytes == {0, 10, 32, 46, 65, 97, 98, 255}

Streams == UNION {[1 .. n -> Bytes] : n \in 0 .. 4}
             \cup [1 .. 8 -> {32, 97, 98}]
=============================================================================
