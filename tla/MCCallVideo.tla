---------------------------- MODULE MCCallVideo ----------------------------
(* Constants for checking CallVideo with TLC.                               *)
EXTENDS CallVideo

CONSTANTS a, b, c, h

Nothing == [e \in Events |-> 0]

\* One callee, a helper on the way, early media or an early answer.
PlainBudget == [Nothing EXCEPT !["dial"] = 1, !["helper"] = 1, !["early"] = 1,
                               !["ring"] = 1]
\* Two callees ring; one is taken, the other hangs up or joins later.
ForkBudget == [Nothing EXCEPT !["dial"] = 2, !["ring"] = 1, !["hangup"] = 1]
\* A call that is up: hold, resume, refreshes that cross them.
MidCallBudget == [Nothing EXCEPT !["dial"] = 1, !["reinvite"] = 2,
                                 !["refresh"] = 1]

Scenarios == {PlainBudget, ForkBudget, MidCallBudget}
=============================================================================
