--------------------------- MODULE MCManagedConfig ---------------------------
(* ManagedConfig for TLC. *)
EXTENDS ManagedConfig, TLC

\* The source directory holds a policy that denies everything and a group of
\* risky templates; users save a policy that allows them under approval.
Closed == [kind |-> "policies", allowed |-> {}, levels |-> <<>>]
Open == [kind |-> "policies", allowed |-> Codes, levels |-> <<"high">>]
Group == [kind |-> "templates", templates |-> SetToSeq([code : Codes, risk : {"high"}])]

MCContents == {Open}
MCSource == [k \in Keys |-> IF k \in Policies THEN Closed ELSE Group]
MCFiles == <<CHOOSE k \in Policies : TRUE, CHOOSE k \in Groups : TRUE>>
Perms == Permutations(Admins \ {Boot})
=============================================================================
