----------------------------- MODULE MCAccounts -----------------------------
(* Small instances of Accounts: two spellings of one address, and bodies that  *)
(* change one field each.                                                      *)
EXTENDS Accounts, TLC

CONSTANTS bob, Bob

MCAddress == {bob, Bob}
MCLower == [e \in MCAddress |-> bob]

Unset == [role |-> None, status |-> None, verified |-> None, password |-> FALSE]
MCBody == {[Unset EXCEPT !.role = "agent"], [Unset EXCEPT !.status = "active"],
           [Unset EXCEPT !.status = "inactive"],
           [Unset EXCEPT !.verified = FALSE], [Unset EXCEPT !.verified = TRUE]}

MCSymmetry == Permutations(User) \cup Permutations(Tenant) \cup Permutations(Request)
=============================================================================
