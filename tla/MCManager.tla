------------------------------ MODULE MCManager ------------------------------
(***************************************************************************)
(* Instances of Manager for TLC.                                           *)
(***************************************************************************)
EXTENDS Manager, TLC

\* Clients are alike; entries differ (restored or fresh).
ClientSymmetry == Permutations(Clients)

\* Run "shutdown": one entry whose callers contend for it and whose runs follow one
\* another, or two entries that are stopped together, with one run each and one
\* caller, who restarts.  Which of the two a single entry is makes no difference.
SmallInit == Init /\ (Cardinality(created) = 1 => created = {CHOOSE i \in Ids : TRUE})

\* The bound forbids calls, which nobody owes, and starts that succeed, as any may
\* fail: what fairness demands stays possible.
SmallEnough ==
    Cardinality(created) > 1 =>
        /\ \A t \in Clients \ {CHOOSE c \in Clients : TRUE} : ~Busy(t)
        /\ \A t \in Clients : loc[t].op \in {"none", "restart"}
        /\ \A i \in Ids : live[i].gen <= 1

SmallSpec == SmallInit /\ [][Next /\ SmallEnough']_vars /\ Fairness
=============================================================================
