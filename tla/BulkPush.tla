------------------------------ MODULE BulkPush ------------------------------
(***************************************************************************)
(* Bulkupdate implements StatePush for call forwarding: the one feature that
   nobody but the module's own serializer sends.  History variables record
   the targets that were set and how far each phone, and the task, have come
   in them.  (The hunt-group login does not implement it: the HLog answer
   carries a value from another serializer, see HuntGroupCurrent.)          *)
(***************************************************************************)
EXTENDS Bulkupdate

VARIABLES
    log,        \* the call-forward targets that were set, in order
    stamp,      \* the place in log of what the task has read
    upto        \* upto[c]: the place of what c was last sent

pushVars == <<vars, log, stamp, upto>>

Push == INSTANCE StatePush WITH
    Phones <- Contacts,
    Items <- {"cf"},
    Values <- BOOLEAN,
    present <- contacts,
    shown <- [c \in Contacts |-> [f \in {"cf"} |-> shown[c][f]]],
    log <- [f \in {"cf"} |-> log],
    upto <- [c \in Contacts |-> [f \in {"cf"} |-> upto[c]]]

PushInit ==
    /\ Init
    /\ log = <<db["cf"]>>
    /\ stamp = 0
    /\ upto = [c \in Contacts |-> 0]

SetCfwd(p) ==
    /\ \E v \in BOOLEAN : SetFeature(p, "cf", v)
    /\ log' = Append(log, db'["cf"])

SetOther(p) == \E f \in Features \ {"cf"}, v \in BOOLEAN : SetFeature(p, f, v)

ReadCfwd ==
    /\ ReadFeature
    /\ stamp' = IF Head(unread) = "cf" THEN Len(log) ELSE stamp

Delivered(c) ==
    /\ SendRefer(c)
    /\ upto' = IF c \in contacts /\ budget' = budget
               THEN [upto EXCEPT ![c] = stamp] ELSE upto

Traffic ==
    /\ RegisterTraffic
    /\ upto' = [c \in Contacts |-> IF c \in contacts' THEN upto[c] ELSE 0]

Otherwise ==
    \/ \E p \in Procs :
          SetOther(p) \/ QueueRefer(p) \/ HLogRead(p) \/ HLogSet(p)
          \/ QueueHLogUpdate(p)
    \/ CliCiscoBulkupdate
    \/ \E c \in Contacts : PressDnd(c) \/ HandleDndPublishBody(c)
    \/ StartTask \/ RetrieveContacts \/ TaskDone \/ RememberLink
    \/ HLogSerializer

PushNext ==
    \/ (\E p \in Procs : SetCfwd(p)) /\ UNCHANGED <<stamp, upto>>
    \/ ReadCfwd /\ UNCHANGED <<log, upto>>
    \/ (\E c \in Contacts : Delivered(c)) /\ UNCHANGED <<log, stamp>>
    \/ Traffic /\ UNCHANGED <<log, stamp>>
    \/ Otherwise /\ UNCHANGED <<log, stamp, upto>>

PushSpec == PushInit /\ [][PushNext]_pushVars /\ Fairness

-----------------------------------------------------------------------------
(* The inductive invariant behind the refinement.                           *)

PushTypeOK ==
    /\ log \in Seq(BOOLEAN)
    /\ stamp \in Nat
    /\ upto \in [Contacts -> Nat]

\* The log ends in the target astdb holds, and no phone is ahead of it.
LogEndsNow ==
    /\ log # <<>>
    /\ log[Len(log)] = db["cf"]
    /\ \A c \in Contacts : upto[c] <= Len(log)

\* The task has read CF and may still send it.
InHand == phase = "send" \/ (phase = "read" /\ unread = <<>>)

\* What it has read is an entry of the log that no phone has got past.
NobodyIsAhead ==
    InHand =>
        /\ stamp \in 1..Len(log)
        /\ snap["cf"] = {log[stamp]}
        /\ \A c \in Contacts : upto[c] <= stamp

PushInv == CfwdInv /\ PushTypeOK /\ LogEndsNow /\ NobodyIsAhead

-----------------------------------------------------------------------------
(* Properties.                                                              *)

\* What a phone shows for call forwarding goes through the targets set and
\* never back to an older one, whatever commands, REGISTERs, forced pushes
\* and failures overlap.  The task reading astdb when it runs is what this
\* rests on.
PhonesFollowCfwd == Push!SafeSpec

\* A phone that stays registered is sent the target at last, whatever pushes
\* and REFERs fail.
EveryPhoneIsSent == Push!EveryoneIsTold

=============================================================================
