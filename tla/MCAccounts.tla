----------------------------- MODULE MCAccounts -----------------------------
(***************************************************************************)
(* Accounts for TLC: the identities that may be exchanged for one another. *)
(***************************************************************************)
EXTENDS Accounts, TLC

Interchangeable ==
    Permutations(Reqs) \cup Permutations(Ids) \cup Permutations(Phones)
      \cup Permutations(Codes)
=============================================================================
