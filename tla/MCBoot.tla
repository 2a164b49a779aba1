------------------------------- MODULE MCBoot --------------------------------
(***************************************************************************)
(* An instance of Boot for TLC.  One server reads every short text over a  *)
(* few characters at a time; two servers share a database with scripts of  *)
(* one and of two statements.                                              *)
(***************************************************************************)
EXTENDS Boot

CONSTANTS a, b

TextsOf(chars, length) == UNION {[1..n -> chars] : n \in 0..length}

Texts ==
    UNION {TextsOf({q, ";", "x"}, 6) : q \in Quotes}
        \cup TextsOf({"[", "]", ";", "x"}, 4)
        \cup TextsOf({"-", "nl", ";", "x"}, 5)
        \cup TextsOf({"/", "*", ";", "x"}, 6)
        \cup TextsOf({"single", "-", "nl", ";"}, 5)
        \cup TextsOf({"BEGIN", "x", ";", "single"}, 4)
        \cup TextsOf({"BEGIN", "/", "*", "["}, 5)

Two == <<"x", ";", "x", ";">>

SomeCases ==
    {[texts |-> <<t>>, servers |-> {a}, failures |-> 0] : t \in Texts} \cup
    {[texts |-> ts, servers |-> {a, b}, failures |-> 2] :
        ts \in {<<<<"x">>, Two>>, <<Two, <<"x">>, <<"BEGIN">> >>}}
=============================================================================
