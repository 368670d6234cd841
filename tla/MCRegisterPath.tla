--------------------------- MODULE MCRegisterPath ---------------------------
(* Constants for checking RegisterPath with TLC.                            *)
EXTENDS RegisterPath, TLC

Nothing == [e \in Events |-> 0]

\* Phones come, move, share a line and refresh.
LifeBudget == [Nothing EXCEPT !["refresh"] = 3]
\* What ends a registration, or looks as if it did, and a line that is taken
\* from its phone.
OffBudget == [Nothing EXCEPT !["refresh"] = 2, !["gone"] = 1, !["star"] = 1,
                             !["heartbeat"] = 1, !["unconfigure"] = 1]
\* A phone starts again, in order, or too late, or is refused.
BootBudget == [Nothing EXCEPT !["refresh"] = 2, !["gone"] = 1, !["reboot"] = 1,
                              !["expire"] = 1]
LateBudget == [Nothing EXCEPT !["refresh"] = 2, !["lapse"] = 1, !["reboot"] = 1,
                              !["refuse"] = 1]

Scenarios == {LifeBudget, OffBudget, BootBudget, LateBudget}

Symmetry == Permutations(Lines) \cup Permutations(Macs) \cup Permutations(Hosts)
=============================================================================
