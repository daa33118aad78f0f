---------------------------- MODULE MCAccounts ----------------------------
(* A small instance of Accounts for TLC: two users with two emails, three  *)
(* codes, two zones and two requests at once.                              *)
EXTENDS Accounts, TLC

Symmetry == Permutations(Clients) \cup Permutations(Passwords) \cup Permutations(Emails)
=============================================================================
