---- MODULE MCEmployeeAuth ----
EXTENDS EmployeeAuth, TLC

AuthSymmetry == Permutations(Accounts) \cup Permutations(Sessions) \cup Permutations(Servers)
====
