----------------------------- MODULE MCAccounts ----------------------------
(* Accounts with the symmetry of its random ids and its clients.           *)
EXTENDS Accounts, TLC

Symmetry ==
  Permutations(TokenIds) \cup Permutations(SessionIds)
    \cup Permutations(Clients) \cup Permutations(Admins)

=============================================================================
