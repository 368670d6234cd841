-------------------------------- MODULE Park --------------------------------
(***************************************************************************)
(* The Park and ParkMonitor softkeys (res/cisco_remotecc/park.c), for the
   calls of one phone.

   Four threads take part.  handle_park() answers the REFER on a servant
   thread: it finds the call's other party, the parkee, subscribes to the
   parking topic and queues the transfer.  park_xfer_task() does the transfer
   on park_serializer.  park_stasis_cb() hears the parking events on a thread
   of the subscription's own, and the feedback it queues, like the one for a
   failed transfer, is sent on remotecc_serializer.

   Meanwhile the call goes on: its parties may change until the transfer is
   done, the parkee may be parked by somebody else, or leave the lot before
   the phone was told that it is there.                                     *)
(***************************************************************************)
EXTENDS Integers, Sequences, FiniteSets

CONSTANTS
    NRequests,  \* how many Park softkeys may be pressed
    Remotes,    \* the channels the phone may talk to
    FirstPeers, \* those it talks to at the start, or nobody
    OtherTasks, \* what else remotecc_serializer runs
    Budgets     \* how often each thing may happen, by scenario

Requests == 1..NRequests
NoPeer == "nobody"

\* press: a softkey is pressed; switch: the phone's peer changes; elsewhere: someone
\* else parks the peer; swap: another channel takes a parked one's place;
\* vanish: a channel hangs up on its way into the lot; stuck: a transfer never
\* returns; fault: a subscription, a push, a transfer or a parking fails;
\* request, hangup: see Remotecc.
Events == {"press", "switch", "elsewhere", "swap", "vanish", "stuck", "fault",
           "request", "hangup"}

ASSUME ParkConstants ==
    /\ NRequests \in Nat
    /\ NoPeer \notin Remotes
    /\ FirstPeers \subseteq Remotes \cup {NoPeer}
    /\ \A b \in Budgets : b \in [Events -> Nat]

VARIABLES
    target,     \* what parkext is in the dialplan
    peer,       \* the bridge peer of the phone's channel
    entering,   \* channels transferred to the lot, not there yet
    lot,        \* parked channels
    \* --- handle_park(), by request ---
    step,       \* "ready", "resolved", "subscribed", "accepted" or "refused"
    monitor,    \* prd->monitor
    parkee,     \* prd->parkee_uniqueid
    version,    \* prd->version
    held,       \* prd->sub is set
    \* --- the subscription, by request ---
    open,       \* it is on the topic
    inbox,      \* events it has not heard
    heard,      \* the feedback of the callback that is running
    \* --- the serializers ---
    parkQueue,  \* park_serializer
    xfer,       \* the running park_xfer_task()
    sendQueue,  \* remotecc_serializer
    sent,       \* what the phone was sent
    \* --- history ---
    times,      \* how often a channel came to the lot
    parkedBy,   \* the channel a request's transfer took, or nobody
    excused,    \* requests whose feedback the code cannot answer for
    raced,      \* requests whose peer changed between check and transfer
    budget

callVars == <<target, peer, entering, lot>>
prdVars  == <<monitor, parkee, version, held>>
subVars  == <<open, inbox, heard>>
sendVars == <<sendQueue, sent>>
taskVars == <<parkQueue, xfer>>
histVars == <<times, parkedBy, excused, raced>>
vars == <<callVars, step, prdVars, subVars, sendVars, taskVars, histVars, budget>>

\* What res_parking says of a call: "gone" is retrieved, forwarded or
\* abandoned.  park_event_name() has no name for a swap.
LotEvents == {"parked", "gone", "error"}
\* Mutant: every event type has a name.
NamesAll == LotEvents \cup {"swap"}
Named == LotEvents

Feedback == [req : Requests, event : LotEvents, version : Nat]
IsFeedback(t) == "req" \in DOMAIN t

ASSUME OtherTasksAreOther == \A t \in OtherTasks : ~IsFeedback(t)

TypeOK ==
    /\ target \in {"unloaded", "none", "other", "park"}
    /\ peer \in Remotes \cup {NoPeer}
    /\ entering \subseteq Remotes
    /\ lot \subseteq Remotes
    /\ step \in [Requests -> {"ready", "resolved", "subscribed", "accepted", "refused"}]
    /\ monitor \in [Requests -> BOOLEAN]
    /\ parkee \in [Requests -> Remotes \cup {NoPeer}]
    /\ version \in [Requests -> Nat]
    /\ held \in [Requests -> BOOLEAN]
    /\ open \in [Requests -> BOOLEAN]
    /\ inbox \in [Requests -> Seq([parkee : Remotes, event : LotEvents \cup {"swap"}])]
    /\ heard \in [Requests -> SUBSET Feedback]
    /\ parkQueue \in Seq(Requests)
    /\ xfer \subseteq [req : Requests, stage : {"checked", "stuck", "failed"}]
    /\ sendQueue \in Seq(Feedback \cup OtherTasks)
    /\ sent \in Seq(Feedback)
    /\ times \in [Remotes -> Nat]
    /\ parkedBy \in [Requests -> Remotes \cup {NoPeer}]
    /\ excused \subseteq Requests
    /\ raced \subseteq Requests

Init ==
    /\ target \in {"unloaded", "none", "other", "park"}
    /\ peer \in FirstPeers
    /\ entering = {}
    /\ lot = {}
    /\ step = [q \in Requests |-> "ready"]
    /\ monitor = [q \in Requests |-> FALSE]
    /\ parkee = [q \in Requests |-> NoPeer]
    /\ version = [q \in Requests |-> 0]
    /\ held = [q \in Requests |-> FALSE]
    /\ open = [q \in Requests |-> FALSE]
    /\ inbox = [q \in Requests |-> <<>>]
    /\ heard = [q \in Requests |-> {}]
    /\ parkQueue = <<>>
    /\ xfer = {}
    /\ sendQueue = <<>>
    /\ sent = <<>>
    /\ times = [p \in Remotes |-> 0]
    /\ parkedBy = [q \in Requests |-> NoPeer]
    /\ excused = {}
    /\ raced = {}
    /\ budget \in Budgets

Spend(e) == budget[e] > 0 /\ budget' = [budget EXCEPT ![e] = @ - 1]

-----------------------------------------------------------------------------
(* handle_park().                                                           *)

Refuse(q) == step' = [step EXCEPT ![q] = "refused"]

\* The checks and the parkee, in one go: nothing is kept of a refused request.
HandlePark(q, mon) ==
    /\ step[q] = "ready"
    /\ \A r \in Requests : r < q => step[r] # "ready"
    /\ Spend("press")
    /\ monitor' = [monitor EXCEPT ![q] = mon]
    /\ IF peer = NoPeer \/ target \in {"unloaded", "none"}
       THEN Refuse(q) /\ UNCHANGED parkee
       ELSE /\ step' = [step EXCEPT ![q] = "resolved"]
            /\ parkee' = [parkee EXCEPT ![q] = peer]
    /\ UNCHANGED <<callVars, version, held, subVars, sendVars, taskVars, histVars>>

\* stasis_subscribe(): from here the callback may run, prd->sub is not set yet.
Subscribe(q) ==
    /\ step[q] = "resolved"
    /\ \/ /\ open' = [open EXCEPT ![q] = TRUE]
          /\ step' = [step EXCEPT ![q] = "subscribed"]
          /\ UNCHANGED budget
       \/ Spend("fault") /\ Refuse(q) /\ UNCHANGED open
    /\ UNCHANGED <<callVars, prdVars, inbox, heard, sendVars, taskVars, histVars>>

\* stasis_unsubscribe(prd->sub): what is in the inbox already is still heard.
Unsubscribe(q) ==
    /\ open' = [open EXCEPT ![q] = IF held[q] THEN FALSE ELSE @]
    /\ held' = [held EXCEPT ![q] = FALSE]

\* prd->sub is set, the transfer queued.
QueueTransfer(q) ==
    /\ step[q] = "subscribed"
    /\ \/ /\ parkQueue' = Append(parkQueue, q)
          /\ held' = [held EXCEPT ![q] = TRUE]
          /\ step' = [step EXCEPT ![q] = "accepted"]
          /\ UNCHANGED <<open, budget>>
       \/ /\ Spend("fault")
          /\ Refuse(q)
          /\ open' = [open EXCEPT ![q] = FALSE]
          /\ UNCHANGED <<held, parkQueue>>
    /\ UNCHANGED <<callVars, monitor, parkee, version, inbox, heard, sendVars,
                   xfer, histVars>>

-----------------------------------------------------------------------------
(* Feedback: an orbit NOTIFY with a version for ParkMonitor, a toast for
   Park.  A push that fails is logged.                                      *)

\* Mutant: the version is sent as it is.
SameVersion(q) == version[q]

NextVersion(q) == IF monitor[q] THEN version[q] + 1 ELSE version[q]
FeedbackOf(q, event) == [req |-> q, event |-> event, version |-> NextVersion(q)]

QueueFeedback(f) ==
    \/ sendQueue' = Append(sendQueue, f) /\ UNCHANGED <<excused, budget>>
    \/ Spend("fault") /\ excused' = excused \cup {f.req} /\ UNCHANGED sendQueue

\* Mutant: one serializer for the transfers and all else.
NotTransferring == sendQueue # <<>> /\ xfer = {}

SendReady == sendQueue # <<>>

\* park_toast_send_task(), park_orbit_send_task().
SendTask ==
    /\ SendReady
    /\ IsFeedback(Head(sendQueue))
    /\ sent' = Append(sent, Head(sendQueue))
    /\ sendQueue' = Tail(sendQueue)
    /\ UNCHANGED <<callVars, step, prdVars, subVars, taskVars, histVars, budget>>

-----------------------------------------------------------------------------
(* park_xfer_task().                                                        *)

\* Mutant: no second look at the peer.
SomePeer(q) == peer # NoPeer

StillTheParkee(q) == peer = parkee[q]
\* ++prd->version, on the way to queueing the failure.
FailTransfer(q) ==
    /\ version' = [version EXCEPT ![q] = NextVersion(q)]
    /\ xfer' = {[req |-> q, stage |-> "failed"]}

XferCheck ==
    /\ xfer = {}
    /\ parkQueue # <<>>
    /\ parkQueue' = Tail(parkQueue)
    /\ LET q == Head(parkQueue)
       IN  IF StillTheParkee(q)
           THEN xfer' = {[req |-> q, stage |-> "checked"]} /\ UNCHANGED version
           ELSE FailTransfer(q)
    /\ UNCHANGED <<callVars, step, monitor, parkee, held, subVars, sendVars,
                   histVars, budget>>

\* ast_bridge_transfer_blind() takes the peer there is now.
XferTransfer ==
    \E x \in xfer :
        /\ x.stage = "checked"
        /\ \/ /\ peer # NoPeer
              /\ peer' = NoPeer
              /\ IF target = "park"
                 THEN /\ entering' = entering \cup {peer}
                      /\ times' = [times EXCEPT ![peer] = @ + 1]
                 ELSE UNCHANGED <<entering, times>>
              /\ parkedBy' = [parkedBy EXCEPT ![x.req] = peer]
              /\ xfer' = {}
              /\ UNCHANGED <<version, budget>>
           \/ /\ IF peer = NoPeer THEN UNCHANGED budget ELSE Spend("fault")
              /\ FailTransfer(x.req)
              /\ UNCHANGED <<peer, entering, times, parkedBy>>
        /\ UNCHANGED <<target, lot, step, monitor, parkee, held, subVars,
                       sendVars, parkQueue, excused, raced>>

\* A bridge operation that never comes back.
XferStuck ==
    \E x \in xfer :
        /\ x.stage = "checked"
        /\ Spend("stuck")
        /\ xfer' = {[x EXCEPT !.stage = "stuck"]}
        /\ UNCHANGED <<callVars, step, prdVars, subVars, sendVars, parkQueue, histVars>>

\* Mutant: only a log line.
LogFailure(x) == UNCHANGED <<sendQueue, excused, budget>>

\* The phone had its 202: it is told, and nobody listens any more.
ReportFailure(x) ==
    QueueFeedback([FeedbackOf(x.req, "error") EXCEPT !.version = version[x.req]])
XferReport ==
    \E x \in xfer :
        /\ x.stage = "failed"
        /\ ReportFailure(x)
        /\ Unsubscribe(x.req)
        /\ xfer' = {}
        /\ UNCHANGED <<callVars, step, monitor, parkee, version, inbox, heard,
                       sent, parkQueue, times, parkedBy, raced>>

-----------------------------------------------------------------------------
(* park_stasis_cb().                                                        *)

Relevant(q, m) == m.parkee = parkee[q] /\ m.event \in Named

StasisEvent(q) ==
    /\ heard[q] = {}
    /\ inbox[q] # <<>>
    /\ inbox' = [inbox EXCEPT ![q] = Tail(@)]
    /\ LET m == Head(inbox[q])
       IN  IF Relevant(q, m)
           THEN /\ heard' = [heard EXCEPT ![q] = {FeedbackOf(q, m.event)}]
                /\ version' = [version EXCEPT ![q] = NextVersion(q)]
           ELSE UNCHANGED <<heard, version>>
    /\ UNCHANGED <<callVars, step, monitor, parkee, held, open, sendVars,
                   taskVars, histVars, budget>>

\* Mutant: ParkMonitor hears one event too.
DoneAtOnce(q, event) == TRUE
\* Mutant: the end of the call's stay is not acted on.
DoneWhenTold(q, event) == ~monitor[q]

\* Park hears one event, ParkMonitor all of them until the call has left.
Done(q, event) == ~monitor[q] \/ event # "parked"
StasisReply(q) ==
    \E f \in heard[q] :
        /\ QueueFeedback(f)
        /\ IF Done(q, f.event) THEN Unsubscribe(q) ELSE UNCHANGED <<open, held>>
        /\ heard' = [heard EXCEPT ![q] = {}]
        /\ UNCHANGED <<callVars, step, monitor, parkee, version, inbox, sent,
                       taskVars, times, parkedBy, raced>>

-----------------------------------------------------------------------------
(* The phone's call and the lot, which are the server's.                    *)

Publish(p, event) ==
    inbox' = [q \in Requests |->
                 IF open[q] THEN Append(inbox[q], [parkee |-> p, event |-> event])
                 ELSE inbox[q]]

serverVars == <<step, prdVars, open, heard, sendVars, taskVars>>

Connected == {peer} \cup entering \cup lot

\* The phone's peer changes, maybe behind the back of the transfer task.
PeerBecomes(p) ==
    /\ peer' = p
    /\ raced' = raced \cup {x.req : x \in {y \in xfer : y.stage = "checked"}}

\* A transfer, a pickup, a hangup: another peer, or none.
SwitchPeer(p) ==
    /\ p \notin Connected
    /\ Spend("switch")
    /\ PeerBecomes(p)
    /\ UNCHANGED <<target, entering, lot, inbox, times, parkedBy, excused, serverVars>>

\* Somebody else parks the phone's peer.
ParkElsewhere ==
    /\ peer # NoPeer
    /\ Spend("elsewhere")
    /\ PeerBecomes(NoPeer)
    /\ entering' = entering \cup {peer}
    /\ times' = [times EXCEPT ![peer] = @ + 1]
    /\ UNCHANGED <<target, lot, inbox, parkedBy, excused, serverVars>>

\* The channel arrives in the lot, or there is no room.
Arrive(p) ==
    /\ p \in entering
    /\ entering' = entering \ {p}
    /\ \/ lot' = lot \cup {p} /\ Publish(p, "parked") /\ UNCHANGED budget
       \/ Spend("fault") /\ Publish(p, "error") /\ UNCHANGED lot
    /\ UNCHANGED <<target, peer, histVars, serverVars>>

\* Those who asked for p and will hear nothing more of it.
Askers(p) == {q \in Requests : parkee[q] = p}

Vanish(p) ==
    /\ p \in entering
    /\ Spend("vanish")
    /\ entering' = entering \ {p}
    /\ excused' = excused \cup Askers(p)
    /\ UNCHANGED <<target, peer, lot, inbox, times, parkedBy, raced, serverVars>>

\* The call leaves the lot; the phone may be the one who gets it.
LeaveLot(p) ==
    /\ p \in lot
    /\ lot' = lot \ {p}
    /\ Publish(p, "gone")
    /\ \/ UNCHANGED <<peer, raced>>
       \/ peer = NoPeer /\ PeerBecomes(p)
    /\ UNCHANGED <<target, entering, times, parkedBy, excused, budget, serverVars>>

\* r takes p's place: later events are about r.
Swap(p, r) ==
    /\ p \in lot
    /\ r \notin Connected
    /\ r # NoPeer
    /\ Spend("swap")
    /\ lot' = (lot \ {p}) \cup {r}
    /\ Publish(r, "swap")
    /\ times' = [times EXCEPT ![r] = @ + 1]
    /\ excused' = excused \cup Askers(p)
    /\ UNCHANGED <<target, peer, entering, parkedBy, raced, serverVars>>

HandleParkSteps(q) ==
    \/ \E mon \in BOOLEAN : HandlePark(q, mon)
    \/ Subscribe(q)
    \/ QueueTransfer(q)
XferTask == XferCheck \/ XferTransfer \/ XferReport
StasisCb(q) == StasisEvent(q) \/ StasisReply(q)

Next ==
    \/ \E q \in Requests : HandleParkSteps(q) \/ StasisCb(q)
    \/ XferTask \/ XferStuck
    \/ SendTask
    \/ ParkElsewhere
    \/ \E p \in Remotes \cup {NoPeer} : SwitchPeer(p)
    \/ \E p \in Remotes : Arrive(p) \/ Vanish(p) \/ LeaveLot(p)
    \/ \E p, r \in Remotes : Swap(p, r)

\* Server threads run while they have something to do, and a transferred
\* channel gets somewhere.  No softkey is ever pressed, no call ever leaves
\* the lot for sure.
Fairness ==
    /\ \A q \in Requests : /\ WF_vars(Subscribe(q) \/ QueueTransfer(q))
                           /\ WF_vars(StasisCb(q))
    /\ WF_vars(XferTask)
    /\ WF_vars(SendTask)
    /\ \A p \in Remotes : WF_vars(Arrive(p) \/ Vanish(p))

Spec == Init /\ [][Next]_vars
FairSpec == Spec /\ Fairness

-----------------------------------------------------------------------------
(* The inductive invariant behind the safety properties below.              *)

\* A channel is with the phone, on its way to the lot, in it or elsewhere.
PlacesFit ==
    /\ peer \notin entering \cup lot
    /\ entering \cap lot = {}
    /\ \A p \in entering \cup lot : times[p] > 0
    /\ \A q \in Requests : \A i \in 1..Len(inbox[q]) : times[inbox[q][i].parkee] > 0

Queued(q) == \E i \in 1..Len(parkQueue) : parkQueue[i] = q
Running(q) == \E x \in xfer : x.req = q

\* Each request is transferred once, and one at a time.
TransfersFit ==
    /\ \A i, j \in 1..Len(parkQueue) : parkQueue[i] = parkQueue[j] => i = j
    /\ \A x, y \in xfer : x = y
    /\ \A q \in Requests :
          /\ Queued(q) \/ Running(q) => step[q] = "accepted" /\ parkedBy[q] = NoPeer
          /\ ~(Queued(q) /\ Running(q))
          /\ parkedBy[q] # NoPeer => step[q] = "accepted"

\* What a request has, by how far its handler is.
StepFits(q) ==
    /\ step[q] \in {"resolved", "subscribed", "accepted"} =>
          parkee[q] # NoPeer /\ target \in {"other", "park"}
    /\ step[q] = "subscribed" => open[q]
    /\ open[q] => step[q] \in {"subscribed", "accepted"}
    /\ held[q] <=> open[q] /\ step[q] = "accepted"
    /\ step[q] \in {"ready", "resolved"} =>
          inbox[q] = <<>> /\ heard[q] = {} /\ version[q] = 0

\* The peer that a transfer looked at is still there, or the request was raced.
PeerFits ==
    /\ \A x \in xfer : x.stage = "checked" => peer = parkee[x.req] \/ x.req \in raced
    /\ \A q \in Requests : parkedBy[q] \in {NoPeer, parkee[q]} \/ q \in raced

\* News of its call that a subscription has not heard.
News(q) == {i \in 1..Len(inbox[q]) : Relevant(q, inbox[q][i])}

\* A subscription that is held waits for a transfer, a call or its own end.
WatchFits(q) ==
    held[q] /\ target = "park" /\ q \notin excused \cup raced =>
        \/ Queued(q) \/ Running(q)
        \/ parkee[q] \in entering
        \/ monitor[q] /\ parkee[q] \in lot
        \/ \E i \in News(q) : Done(q, inbox[q][i].event)
        \/ \E f \in heard[q] : Done(q, f.event)

\* What the phone was told and will be told, and of which request.
Line == sent \o sendQueue
Lines(q) == {i \in 1..Len(Line) : IsFeedback(Line[i]) /\ Line[i].req = q}

LinesFit(q) ==
    /\ step[q] \in {"ready", "resolved"} => Lines(q) = {}
    /\ \A f \in heard[q] : f.req = q /\ parkee[q] # NoPeer /\ times[parkee[q]] > 0
    /\ \A f, g \in heard[q] : f = g

\* The call was not transferred, and will not be.
Failed(q) ==
    /\ step[q] = "accepted" /\ parkedBy[q] = NoPeer /\ ~Queued(q)
    /\ \A x \in xfer : x.req = q => x.stage = "failed"

\* The call was parked once at most, and if so a failure is not told as well.
OneStay(q) ==
    /\ parkee[q] # NoPeer /\ q \notin excused
    /\ times[parkee[q]] = 0 \/ (times[parkee[q]] = 1 /\ ~Failed(q))

Parked(e) == e.event = "parked"
AllParked(q) ==
    /\ \A i \in Lines(q) : Parked(Line[i])
    /\ \A f \in heard[q] : Parked(f)
    /\ \A i \in News(q) : Parked(inbox[q][i])
NoNews(q) == heard[q] = {} /\ News(q) = {}

\* The order of events of one stay, wherever the news of them have got to.
OrderFits(q) ==
    /\ \A i, j \in Lines(q) : i < j => Parked(Line[i])
    /\ ~NoNews(q) => \A i \in Lines(q) : Parked(Line[i])
    /\ News(q) # {} => \A f \in heard[q] : Parked(f)
    /\ \A i, j \in News(q) : i < j => Parked(inbox[q][i])
    /\ parkee[q] \in entering => Lines(q) = {} /\ NoNews(q)
    /\ parkee[q] \in lot => AllParked(q)

\* prd->version counts what was queued, and what is about to be.
VersionFits(q) ==
    LET said == IF heard[q] # {} \/ (Running(q) /\ Failed(q))
                THEN version[q] - 1 ELSE version[q]
    IN  /\ said \in Nat
        /\ \A i, j \in Lines(q) : i < j => Line[i].version < Line[j].version
        /\ \A i \in Lines(q) : Line[i].version \in 1..said
        /\ \A v \in 1..said : \E i \in Lines(q) : Line[i].version = v
        /\ \A f \in heard[q] : f.version = version[q]

\* A call that was never parked: the one thing to tell is a failure.
FailureFits(q) ==
    times[parkee[q]] = 0 =>
        /\ ~Failed(q) \/ Running(q) => Lines(q) = {}
        /\ \A i, j \in Lines(q) : i = j
        /\ \A i \in Lines(q) : Line[i].event = "error"

\* The last ParkMonitor heard is that its call is in the lot: so it is, and
\* the subscription is there to hear the rest.
ButtonFits(q) ==
    /\ monitor[q] /\ times[parkee[q]] = 1 /\ step[q] # "refused"
    /\ AllParked(q) /\ ~(Lines(q) = {} /\ NoNews(q))
    => open[q] /\ parkee[q] \in lot

StoryFits(q) ==
    OneStay(q) => /\ OrderFits(q) /\ FailureFits(q) /\ ButtonFits(q)
                  /\ monitor[q] => VersionFits(q)

ParkInv ==
    /\ TypeOK
    /\ PlacesFit /\ TransfersFit /\ PeerFits
    /\ \A q \in Requests : StepFits(q) /\ WatchFits(q) /\ LinesFit(q) /\ StoryFits(q)

-----------------------------------------------------------------------------
\* What the phone was told of a request.
Told(q) == {i \in 1..Len(sent) : sent[i].req = q}
Stuck == \E x \in xfer : x.stage = "stuck"

\* Nothing is on its way: only a new softkey or a change in the lot goes on.
Quiet ==
    /\ parkQueue = <<>> /\ xfer = {} /\ sendQueue = <<>> /\ entering = {}
    /\ \A q \in Requests : /\ inbox[q] = <<>> /\ heard[q] = {}
                           /\ step[q] \notin {"resolved", "subscribed"}

\* The parkee was in the lot because of this request alone, or not at all.
Sole(q) ==
    /\ parkee[q] # NoPeer
    /\ \/ times[parkee[q]] = 0
       \/ times[parkee[q]] = 1 /\ parkedBy[q] = parkee[q]

\* The call that gets parked is the one the softkey was pressed on, however
\* the phone's peer changed after that: the comment of park_xfer_task() says
\* what goes wrong otherwise.  Out of its reach is only a change between the
\* look at the peer and the transfer.
ParksTheCallAsked ==
    \A q \in Requests : parkedBy[q] \in {NoPeer, parkee[q]} \/ q \in raced

\* A subscription outlives its request only to watch a call that is in the
\* lot: none is left behind by a refusal, a failed transfer, a one-shot toast
\* or the call's leaving.  A parkext that is no parking extension, and a call
\* that got lost or replaced, leave one, as the code says of the former.
NobodyListensInVain ==
    Quiet => \A q \in Requests :
        open[q] => \/ monitor[q] /\ parkee[q] \in lot
                   \/ target = "other" \/ q \in excused \cup raced

\* What the phone is told of one parking is in order: nothing follows the
\* news that the call is gone, and NOTIFY versions rise by one.
FeedbackInOrder ==
    \A q \in Requests :
        Sole(q) /\ q \notin excused =>
            \A i \in Told(q) :
                LET before == {j \in Told(q) : j < i}
                IN  /\ \A j \in before : sent[j].event = "parked"
                    /\ monitor[q] => {sent[j].version : j \in before} = 1..(sent[i].version - 1)

\* ParkMonitor's button: with nothing on its way it is lit if the call is in
\* the lot, and only then.
ButtonSettles ==
    Quiet => \A q \in Requests :
        monitor[q] /\ Sole(q) /\ q \notin excused =>
            \A i \in Told(q) :
                (\A j \in Told(q) : j <= i) =>
                    (sent[i].event = "parked" <=> parkee[q] \in lot)

\* Every Park that got its 202 is answered: with the slot, or with the news
\* that there is none.  The 202 alone says nothing to the user.  A transfer that
\* is stuck holds up the others.
AcceptedIsAnswered ==
    \A q \in Requests :
        step[q] = "accepted" ~>
            Told(q) # {} \/ target = "other" \/ q \in excused \cup raced \/ Stuck
=============================================================================
