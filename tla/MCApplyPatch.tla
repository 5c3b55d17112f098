---------------------------- MODULE MCApplyPatch ----------------------------
(* Files of up to three lines, of which one line contains another; patches of *)
(* one or more operations on lines that may be empty.                         *)
EXTENDS ApplyPatch

MCTexts == {<<>>, <<"a">>, <<"b">>}
MCFiles == UNION {[1..n -> {<<>>, <<"a">>, <<"b", "a">>}] : n \in 1..3}
=============================================================================
