---------------------------- MODULE MCLogScreen ------------------------------
(***************************************************************************)
(* An instance of LogScreen for TLC: two polls under way, answers of at    *)
(* most two bytes, so that the cap, the tail window and the end of the     *)
(* file all fall inside a character in some behaviour.                     *)
(***************************************************************************)
EXTENDS LogScreen

Char == <<"lead", "rest">>
Case(text, rotations, streams, losses, refusals) ==
    [text |-> text, rotations |-> rotations, streams |-> streams, losses |-> losses,
     refusals |-> refusals]
SomeScenarios ==
    {Case(<<"letter">> \o Char \o <<"letter">>, 0, 1, 0, 0),
     Case(<<"letter", "newline">> \o Char, 0, 1, 0, 0),
     Case(<<"letter", "newline", "lead">>, 0, 1, 0, 0),
     Case(Char, 1, 1, 0, 0),
     Case(<<"lead">> \o Char, 0, 1, 0, 0),
     Case(<<"letter", "letter", "newline">>, 1, 1, 0, 0),
     Case(<<"letter", "letter", "lead">>, 0, 2, 0, 0),
     Case(<<"letter">> \o Char, 0, 1, 1, 0),
     Case(<<"letter", "letter", "letter">>, 0, 1, 0, 1)}
=============================================================================
