------------------------------ MODULE MCHelpMi ------------------------------
(* Instances of HelpMi for TLC: a poster and the doers of the cfg. *)
EXTENDS Claims, TLC

CONSTANT poster

MCPosterOf == [t \in Tasks |-> poster]

MCSymmetry ==
    Permutations(Reqs) \cup Permutations(Crons) \cup Permutations(Doers)

\* One task at a time: an escrow task or a cash task.
MCOneTask == Cardinality({t \in Tasks : task[t].status # "NONE"}) <= 1

MCTaskSymmetry == Permutations(Tasks)
=============================================================================
