----------------------------- MODULE MCRemotecc -----------------------------
(* Constants for checking Remotecc, and Park in it, with TLC.               *)
EXTENDS Remotecc

CONSTANTS a, b

APeerOrNone == {a, NoPeer}

Nothing == [e \in Events |-> 0]

\* Two softkeys on one call.
TwiceBudget == [Nothing EXCEPT !["press"] = 2]
\* The call changes hands under a softkey, or is parked without it.
SwitchBudget == [Nothing EXCEPT !["press"] = 1, !["switch"] = 2,
                                !["elsewhere"] = 1, !["fault"] = 1]
\* The lot loses the call, or gets another for it.
LotBudget == [Nothing EXCEPT !["press"] = 1, !["elsewhere"] = 1, !["swap"] = 1,
                             !["vanish"] = 1, !["fault"] = 2]
\* A call that was asked for takes the place of another in the lot.
SwapBudget == [Nothing EXCEPT !["press"] = 1, !["switch"] = 2, !["elsewhere"] = 1,
                              !["swap"] = 1]
\* Softkeys of all kinds on a call that ends, a push that fails.
KeysBudget == [Nothing EXCEPT !["request"] = 3, !["hangup"] = 1, !["fault"] = 1]
\* A recording while the call is parked.
ParkKeysBudget == [Nothing EXCEPT !["press"] = 1, !["request"] = 2]
\* A transfer that never returns, and a trace behind it.
StuckBudget == [Nothing EXCEPT !["press"] = 1, !["request"] = 1, !["stuck"] = 1]

Scenarios == {TwiceBudget, SwitchBudget, LotBudget, KeysBudget, ParkKeysBudget,
              StuckBudget, SwapBudget}
=============================================================================
