---------------------------- MODULE MCBulkupdate ----------------------------
(* Constants for checking Bulkupdate with TLC.                              *)
EXTENDS Bulkupdate

AllOff == {[f \in Features |-> FALSE]}

NoEvents == [e \in Events |-> 0]

\* Two phones, a write and a REFER that fails; two writes that overlap; and
\* what else answers a REGISTER or pushes.
CfwdBudgets == {[NoEvents EXCEPT !["register"] = 2, !["write"] = 1, !["fault"] = 1],
                [NoEvents EXCEPT !["register"] = 1, !["write"] = 2],
                [NoEvents EXCEPT !["register"] = 1, !["deregister"] = 1,
                                 !["heartbeat"] = 1, !["challenge"] = 1,
                                 !["hlog"] = 1, !["fault"] = 1],
                [NoEvents EXCEPT !["register"] = 1, !["expire"] = 1, !["push"] = 1,
                                 !["publish"] = 1, !["fault"] = 1]}

\* One disagreement each.
HLogBudgets == {[NoEvents EXCEPT !["register"] = 1, !["write"] = 1, !["hlog"] = 1]}
RetryBudgets == {[NoEvents EXCEPT !["register"] = 1, !["write"] = 1, !["fault"] = 1]}
=============================================================================
