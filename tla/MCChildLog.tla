----------------------------- MODULE MCChildLog ------------------------------
(***************************************************************************)
(* An instance of ChildLog for TLC.  A file takes two chunks, so that a    *)
(* second run begins in a file half full and every archive is reached.     *)
(***************************************************************************)
EXTENDS ChildLog

\* Every fault on POSIX; on Windows the ones that bear on renames.
EverySetting ==
    ({"posix"} \X Faults) \cup {<<"windows", "none">>, <<"windows", "open">>, <<"windows", "move">>}

\* Bound: only the children whose files cannot be moved write the last of the
\* chunks, which an archive held open needs before it leaves a gap.
MCSpec == Init /\ [][Next /\ (produced' < Chunks \/ fault = "move")]_vars
=============================================================================
