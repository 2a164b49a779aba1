------------------------------- MODULE RunSlot -------------------------------
(***************************************************************************)
(* What the manager promises about the runs of an entry.  An entry has one *)
(* slot.  A run takes the free slot, numbered above all earlier runs, with *)
(* one new process; the slot is given back only after the process has      *)
(* ended or was killed beyond escape, and nobody else starts a process     *)
(* before that.                                                            *)
(***************************************************************************)
EXTENDS Naturals

CONSTANT Ids

VARIABLES
    slot,   \* the run that occupies the entry's slot, 0 when it is free
    up,     \* the runs of the entry whose process may live on
    last    \* the number of the latest run

svars == <<slot, up, last>>

Init ==
    /\ slot = [i \in Ids |-> 0]
    /\ up = [i \in Ids |-> {}]
    /\ last = [i \in Ids |-> 0]

Start(i) ==
    /\ slot[i] = 0 /\ up[i] = {}
    /\ last' = [last EXCEPT ![i] = @ + 1]
    /\ slot' = [slot EXCEPT ![i] = last'[i]]
    /\ up' = [up EXCEPT ![i] = {last'[i]}]

\* Processes end, one entry's or, when the server group closes, many at once.
Perish(gone) ==
    /\ up' = [i \in Ids |-> IF i \in gone THEN {} ELSE up[i]]
    /\ UNCHANGED <<slot, last>>

Free(i) ==
    /\ slot[i] # 0 /\ up[i] = {}
    /\ slot' = [slot EXCEPT ![i] = 0]
    /\ UNCHANGED <<up, last>>

Next ==
    \/ \E i \in Ids : Start(i) \/ Free(i)
    \/ \E gone \in SUBSET Ids : Perish(gone)

Spec == Init /\ [][Next]_svars
=============================================================================
