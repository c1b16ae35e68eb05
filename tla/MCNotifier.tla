----------------------------- MODULE MCNotifier -----------------------------
(* An instance of Notifier for TLC: one poster, two doers of the tier that  *)
(* his tasks ask for, one below it and one banned; an escrow task and a    *)
(* CASH task, explored one at a time.                                      *)
EXTENDS Notifier, TLC

CONSTANTS poster, d1, d2, low, barred

MCPosterOf == [t \in Tasks |-> poster]
MCRequiredTier == [t \in Tasks |-> "SILVER"]
MCTierOf == (d1 :> "SILVER") @@ (d2 :> "SILVER") @@ (low :> "BRONZE") @@ (barred :> "GOLD")

\* The sends of one event at a time: those of different events never meet.
MCOneDelivery ==
    Cardinality({s.type : s \in sends}) + Cardinality(fanouts) <= 1

\* One task at a time.
MCOneTask ==
    Cardinality({t \in Tasks : task[t].status # "UNPAID" \/ \E p \in Reqs : req[p].task = t}) <= 1

\* Histories that contain the whole life of a task.
CONSTANT MaxChanges
MCShort == Cardinality(changes) <= MaxChanges

MCSymmetry == Permutations(Reqs) \cup Permutations({d1, d2})
=============================================================================
