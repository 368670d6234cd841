-------------------------- MODULE MCUnsolicitedBlf --------------------------
(***************************************************************************)
(* Constants for checking UnsolicitedBlf with TLC.  INUSE and INUSE|RINGING
   are two hint states with the same lamp, the pair the dedup is there for. *)
(***************************************************************************)
EXTENDS UnsolicitedBlf, TLC

Idle == [exten |-> {}, presence |-> "other"]
InUse == [exten |-> {"INUSE"}, presence |-> "other"]
InUseRinging == [exten |-> {"INUSE", "RINGING"}, presence |-> "other"]

TwoHints == {Idle, InUse}
ThreeHints == {Idle, InUse, InUseRinging}

NoEvents == [e \in Events |-> 0]

\* Two phones, an extension that changes, one NOTIFY or push may fail; and a
\* phone that comes and goes in every way.
LampsBudgets == {[NoEvents EXCEPT !["register"] = 2, !["challenge"] = 1,
                                  !["hint"] = 2, !["fault"] = 1],
                 [NoEvents EXCEPT !["register"] = 1, !["deregister"] = 1,
                                  !["expire"] = 1, !["heartbeat"] = 1,
                                  !["hint"] = 1]}
\* A phone that stays while hints change twice; and one that comes and may
\* go, with everything else that answers a REGISTER.
LiveBudgets == {[NoEvents EXCEPT !["register"] = 1, !["hint"] = 2,
                                 !["fault"] = 1],
                [NoEvents EXCEPT !["register"] = 1, !["deregister"] = 1,
                                 !["expire"] = 1, !["heartbeat"] = 1,
                                 !["hint"] = 1, !["fault"] = 1]}

\* One disagreement each.
PartialBudgets == {[NoEvents EXCEPT !["register"] = 2, !["hint"] = 4,
                                    !["fault"] = 1]}
DeregisterBudgets == {[NoEvents EXCEPT !["register"] = 2, !["deregister"] = 1]}

Symmetry == Permutations(Contacts)
=============================================================================
