---------------------------- MODULE MCConference ----------------------------
(* Constants for checking Conference with TLC.                              *)
EXTENDS Conference, TLC

NoEvents == [e \in Events |-> 0]

\* A conference of two calls that someone leaves, a Join on the third,
\* RmLastConf.
MergeBudget == [NoEvents EXCEPT !["confrn"] = 1, !["join"] = 1, !["select"] = 1,
                                !["rmlast"] = 1, !["hangup"] = 1]
\* A Join that the initiator or others walk out of.
JoinBudget == [NoEvents EXCEPT !["join"] = 1, !["select"] = 1, !["hangup"] = 2,
                               !["fault"] = 1]
\* More Selects than are stored, two at once.
SelectBudget == [NoEvents EXCEPT !["select"] = 3, !["unselect"] = 1, !["join"] = 1]
\* The ConfList menu in a conference.
MenuBudget == [NoEvents EXCEPT !["confrn"] = 1, !["conflist"] = 1,
                               !["softkey"] = 1, !["pick"] = 2]

\* The initiator of a Join walks out of it.
DroppedBudget == [NoEvents EXCEPT !["join"] = 1, !["select"] = 1, !["hangup"] = 1]

Dropped == {DroppedBudget}
Scenarios == {MergeBudget, JoinBudget, SelectBudget, MenuBudget}

Symmetry == Permutations(Threads)
=============================================================================
