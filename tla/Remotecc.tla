------------------------------ MODULE Remotecc ------------------------------
(***************************************************************************)
(* The REFERs a phone sends in (res_pjsip_cisco_remotecc.c), with the softkeys
   that work on a call: MCID and recording (cisco_remotecc/mcid.c, record.c),
   next to Park, whose module this one extends.

   Each REFER is handled on a servant thread and answered when the handler
   returns.  What follows is a task on remotecc_serializer, in the order it was
   queued and together with the feedback of Park: the REFER that says that a
   call is being traced, the hunt-group REFER, and the recording applications,
   which are run on the phone's channel from there.                         *)
(***************************************************************************)
EXTENDS Park

VARIABLES
    call,       \* the phone's channel: "ringing", "up" or "gone"
    recorders,  \* MixMonitors on it
    traces,     \* AST_CONTROL_MCID frames queued on it
    answer,     \* what the last REFER got
    shown,      \* what the phone was sent besides Park's feedback
    keys        \* history: the recording softkeys that got their 202

rcVars == <<call, recorders, traces, answer, shown, keys>>
allVars == <<vars, rcVars>>

Codes == {202, 400, 413, 481, 500, 603}

Tasks == [task : {"mcid", "hlog", "start", "stop"}]

ASSUME RemoteccConstants == OtherTasks = Tasks

RemoteccTypeOK ==
    /\ TypeOK
    /\ call \in {"ringing", "up", "gone"}
    /\ peer # NoPeer => call = "up"
    /\ recorders \in Nat
    /\ traces \in Nat
    /\ answer \in Codes \cup {0}
    /\ shown \in Seq({"mcid", "hlog"})
    /\ keys \in Seq({"start", "stop"})

RemoteccInit ==
    /\ Init
    /\ call \in {"ringing", "up"}
    /\ peer # NoPeer => call = "up"
    \* Bounds: a call rings, and Park is left out, where only this module looks.
    /\ call = "ringing" => budget["request"] > 0
    /\ budget["press"] = 0 => target = "none"
    /\ recorders = 0
    /\ traces = 0
    /\ answer = 0
    /\ shown = <<>>
    /\ keys = <<>>

-----------------------------------------------------------------------------
(* remotecc_on_rx_request(), handle_remotecc_xml(), handle_softkey_event().  *)

\* What has no effect but its answer, as the handlers come to it.
Signals == {"token-registration", "x-cisco-alarm", "remotecc-response",
            "x-cisco-location", "Cancel"}
Unreadable == {"empty body", "no XML", "other root", "no softkeyevent"}
Unsupported == {"datapassthroughreq", "other element", "other softkey"}

AnswerTo(request) ==
    IF request \in Signals THEN 202
    ELSE IF request \in Unreadable THEN 400
    ELSE IF request = "body over 8192" THEN 413
    ELSE 603

parkVars == <<callVars, step, prdVars, subVars, taskVars, histVars>>

Answered(request) ==
    /\ Spend("request")
    /\ answer' = AnswerTo(request)
    /\ UNCHANGED <<parkVars, sendVars, call, recorders, traces, shown, keys>>

\* ast_sip_push_task(): it may fail, which is a fault.
Push(t) ==
    \/ /\ sendQueue' = Append(sendQueue, [task |-> t])
       /\ Spend("request")
    \/ /\ budget["fault"] > 0 /\ budget["request"] > 0
       /\ budget' = [budget EXCEPT !["request"] = @ - 1, !["fault"] = @ - 1]
       /\ UNCHANGED sendQueue
Pushed == sendQueue' # sendQueue

\* The dialogid names one of the phone's calls, or the call is over.
HasCall == call # "gone"

\* queue_mcid_feedback() comes in any case: bridged or not, traced or not.
HandleMCID(complete) ==
    /\ IF complete /\ HasCall
       THEN /\ Push("mcid")
            /\ answer' = 202
            /\ traces' = IF peer # NoPeer THEN traces + 1 ELSE traces
       ELSE /\ Spend("request")
            /\ answer' = IF complete THEN 481 ELSE 400
            /\ UNCHANGED <<sendQueue, traces>>
    /\ UNCHANGED <<parkVars, sent, call, recorders, shown, keys>>

\* Mutant: the push is not looked at.
AcceptedAnyway == TRUE
Accepted == Pushed

HandleRecord(complete, start) ==
    LET key == IF start THEN "start" ELSE "stop"
    IN  /\ IF complete /\ call = "up"
           THEN /\ Push(key)
                /\ answer' = IF Accepted THEN 202 ELSE 500
                /\ keys' = IF Accepted THEN Append(keys, key) ELSE keys
           ELSE /\ Spend("request")
                /\ answer' = IF complete THEN 481 ELSE 400
                /\ UNCHANGED <<sendQueue, keys>>
        /\ UNCHANGED <<parkVars, sent, call, recorders, traces, shown>>

\* The hunt-group's side of it is Bulkupdate's.
HandleHLog ==
    /\ Push("hlog")
    /\ answer' = 202
    /\ UNCHANGED <<parkVars, sent, call, recorders, traces, shown, keys>>

-----------------------------------------------------------------------------
(* remotecc_serializer.                                                     *)

NextTask(ts) ==
    /\ SendReady
    /\ ~IsFeedback(Head(sendQueue))
    /\ Head(sendQueue).task \in ts
    /\ sendQueue' = Tail(sendQueue)
    /\ UNCHANGED <<parkVars, sent, budget, call, traces, answer, keys>>

\* mcid_feedback_send_task(), hlog_send_task().
ReferTask ==
    /\ NextTask({"mcid", "hlog"})
    /\ shown' = Append(shown, Head(sendQueue).task)
    /\ UNCHANGED recorders

\* record_app_task(): one MixMonitor more, or StopMixMonitor of the last one.
RecordAppTask ==
    /\ NextTask({"start", "stop"})
    /\ recorders' = IF call = "gone" THEN 0
                    ELSE IF Head(sendQueue).task = "start" THEN recorders + 1
                    ELSE IF recorders > 0 THEN recorders - 1 ELSE 0
    /\ UNCHANGED shown

-----------------------------------------------------------------------------
(* The phone's call.                                                        *)

Pickup ==
    /\ call = "ringing"
    /\ call' = "up"
    /\ UNCHANGED <<vars, recorders, traces, answer, shown, keys>>

\* With the channel its recorders go.
Hangup ==
    /\ call # "gone"
    /\ Spend("hangup")
    /\ call' = "gone"
    /\ recorders' = 0
    /\ PeerBecomes(NoPeer)
    /\ UNCHANGED <<target, entering, lot, step, prdVars, subVars, sendVars, taskVars,
                   times, parkedBy, excused, traces, answer, shown, keys>>

\* Park, as long as there is a channel to have a peer.
ParkStep ==
    /\ Next
    /\ peer' # NoPeer => call = "up"
    /\ UNCHANGED rcVars

Refer ==
    \/ \E r \in Signals \cup Unreadable \cup Unsupported \cup {"body over 8192"} :
          Answered(r)
    \/ \E complete \in BOOLEAN : HandleMCID(complete)
    \/ \E complete, start \in BOOLEAN : HandleRecord(complete, start)
    \/ HandleHLog

RemoteccNext ==
    \/ ParkStep
    \/ Refer
    \/ ReferTask \/ RecordAppTask
    \/ Pickup \/ Hangup

RemoteccSpec ==
    /\ RemoteccInit
    /\ [][RemoteccNext]_allVars
    /\ Fairness
    /\ WF_allVars(ReferTask \/ RecordAppTask)

-----------------------------------------------------------------------------
RecordTasks == {i \in 1..Len(sendQueue) :
                   /\ ~IsFeedback(sendQueue[i])
                   /\ sendQueue[i].task \in {"start", "stop"}}

\* Start, stop, start, ...: nobody pressed the same key twice.
InTurn == \A i \in 1..Len(keys) : (keys[i] = "start") = (i % 2 = 1)

\* The recording tasks that wait are the last softkeys, in the order in which
\* they were pressed; the first n of them have run.
KeysFit ==
    \E n \in 0..Len(keys) : \E pos \in [RecordTasks -> (n + 1)..Len(keys)] :
        /\ \A i, j \in RecordTasks : i < j => pos[i] < pos[j]
        /\ \A k \in (n + 1)..Len(keys) : \E i \in RecordTasks : pos[i] = k
        /\ \A i \in RecordTasks : sendQueue[i].task = keys[pos[i]]
        /\ call = "up" /\ InTurn => recorders = n % 2
        /\ call = "ringing" => keys = <<>> /\ recorders = 0

\* The inductive invariant behind RecordsAsAsked and the properties of Park.
RemoteccInv == RemoteccTypeOK /\ ParkInv /\ KeysFit

\* A call is recorded if and only if the last softkey that was accepted said
\* so, once everything has run, whatever else the serializer had to do and
\* whatever was refused.  Pressing the same key twice is another matter: each
\* Start adds a recorder, a Stop takes one away.
RecordsAsAsked ==
    RecordTasks = {} /\ call = "up" /\ InTurn =>
        recorders = IF keys # <<>> /\ keys[Len(keys)] = "start" THEN 1 ELSE 0

\* The comment on the serializers (res_pjsip_cisco_remotecc.c:91-95): a stuck
\* bridge operation does not stall what the phone is to be sent.
OthersGoOn == sendQueue # <<>> ~> sendQueue = <<>>
=============================================================================
