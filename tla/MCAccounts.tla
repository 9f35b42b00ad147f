----------------------------- MODULE MCAccounts -----------------------------
(* Accounts for TLC. *)
EXTENDS Accounts, TLC

CONSTANTS Padded, Bare

\* One password is another one with a blank in front.
MCTrim == [p \in Passwords |-> IF p = Padded THEN Bare ELSE p]
Perms == Permutations(Requests) \cup Permutations(Users \ {Initial})
=============================================================================
