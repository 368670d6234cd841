----------------------------- MODULE Conference -----------------------------
(***************************************************************************)
(* res_pjsip_cisco_conference.c for one phone that is in several calls: the
   softkeys Confrn, Select, Unselect, Join, RmLastConf and ConfList, with the
   action keys of the ConfList menu.

   A softkey REFER is handled on a servant thread, which changes the lists
   of selected calls and pending actions or queues a task; the tasks run one
   after the other on the module's serializer.  Meanwhile any party may hang
   up.  A merge moves one channel after the other into a new bridge and is
   split at each move; what it looks up before the first move is used at
   once, and a hangup in between only makes the move fail.

   Bridges and channels belong to the core of the server: a bridge the core
   made for a two-party call dissolves when one of its parties hangs up, a
   bridge the module made when its last channel leaves or a channel flagged
   for it hangs up.  What is only sent to the phone - menus, NOTIFYs, the
   REFERs that end a merge, the video mode of the mix - is left out, but for
   the mark that shows a call as a conference.                             *)
(***************************************************************************)
EXTENDS Integers, Sequences, FiniteSets

CONSTANTS
    NCalls,       \* the calls the phone is in, numbered from 1
    Threads,      \* servant threads handling softkey REFERs
    JoinMaxSelected,
    KeepChoices,  \* the values of keep_conference to consider
    Budgets       \* how often each event of the environment may happen

Events == {"confrn", "join", "select", "unselect", "rmlast", "conflist",
           "softkey", "pick", "hangup", "fault"}

ASSUME ConferenceConstants ==
    /\ NCalls \in Nat \ {0}
    /\ JoinMaxSelected \in Nat \ {0}
    /\ IsFiniteSet(Threads)
    /\ KeepChoices \subseteq BOOLEAN
    /\ Budgets \subseteq [Events -> Nat]

Calls == 1..NCalls
Phone(d) == <<"phone", d>>
Remote(d) == <<"remote", d>>
Channels == {"phone", "remote"} \X Calls

\* Bridges are numbered: a call's own bridge like the call, the module's
\* from NCalls + 1 on.  A channel that has hung up is in none.
Gone == 0

VARIABLES
    keep,         \* keep_conference of the endpoint
    \* --- the core's channels and bridges (external) ---
    where,        \* where[ch]: the bridge ch is in
    dissolved,    \* the bridges that are no more
    flagged,      \* channels with DISSOLVE_HANGUP set
    ending,       \* channels told to hang up or kicked, but still there
    muted,        \* muted channels
    joinTime,     \* the join-time datastore of a channel, 0 for none
    marked,       \* channels with CISCO_CONFERENCE set
    \* --- the module's lists for the endpoint ---
    selected,     \* cisco_selected_calls
    adding,       \* adding[t]: the Select thread t is in the middle of, or {}
    pending,      \* the entry in conflist_pending_actions, if any
    \* --- its serializer ---
    queue,
    phase,        \* where the running merge is
    task,         \* the running merge; a Join's index counts the selected
                  \* calls it has done
    moves,        \* channels still to move, each with its source bridge
    conf,         \* the bridge of the running, or of the last, merge
    \* --- history ---
    clock,        \* moves that succeeded
    entered,      \* entered[ch]: the last of them that moved ch
    failed,       \* channels that could not be moved
    owedRemoves,  \* presses of Remove that have not removed anyone
    budget

callVars == <<where, dissolved, flagged, ending, muted, joinTime, marked>>
mergeVars == <<phase, task, moves, conf>>
historyVars == <<clock, entered, failed, owedRemoves>>
vars == <<keep, where, dissolved, flagged, ending, muted, joinTime, marked,
          selected, adding, pending, queue, phase, task, moves, conf, clock,
          entered, failed, owedRemoves, budget>>

-----------------------------------------------------------------------------

Optional(S) == {{}} \cup {{s} : s \in S}

\* A queued task.  others is the consulted call of a Confrn, or a Join's
\* snapshot of the selected calls; token and index are the user_call_data of
\* a ConfList action: a softkey of the menu, the index of a participant, or
\* anything else.
Tokens == {"Mute", "Remove", "Update", "index", "other"}
Task == [op : {"confrn", "join", "rmlast", "conflist", "action"},
         dialog : Calls, others : Seq(Calls), token : Tokens, index : Nat]
NewTask(op, d) == [op |-> op, dialog |-> d, others |-> <<>>,
                   token |-> "Update", index |-> 0]

Pending == [dialog : Calls, action : {"", "Mute", "Remove"}]
Move == [chan : Channels, from : Nat]

TypeOK ==
    /\ keep \in BOOLEAN
    /\ where \in [Channels -> Nat]
    /\ dissolved \subseteq Nat
    /\ flagged \subseteq Channels
    /\ ending \subseteq Channels
    /\ muted \subseteq Channels
    /\ joinTime \in [Channels -> Nat]
    /\ marked \subseteq Channels
    /\ selected \in Seq(Calls)
    /\ adding \in [Threads -> Optional([dialog : Calls, counted : BOOLEAN])]
    /\ pending \in Optional(Pending)
    /\ queue \in Seq(Task)
    /\ phase \in {"idle", "move", "flag", "join", "finish"}
    /\ task \in Task
    /\ moves \in Seq(Move)
    /\ conf \in Nat
    /\ clock \in Nat
    /\ entered \in [Channels -> Nat]
    /\ failed \subseteq Channels
    /\ owedRemoves \in Int
    /\ budget \in [Events -> Nat]

Init ==
    /\ keep \in KeepChoices
    /\ where = [ch \in Channels |-> ch[2]]
    /\ dissolved = {}
    /\ flagged = {}
    /\ ending = {}
    /\ muted = {}
    /\ joinTime = [ch \in Channels |-> 0]
    /\ marked = {}
    /\ selected = <<>>
    /\ adding = [t \in Threads |-> {}]
    /\ pending = {}
    /\ queue = <<>>
    /\ phase = "idle"
    /\ task = NewTask("rmlast", 1)
    /\ moves = <<>>
    /\ conf = NCalls
    /\ clock = 0
    /\ entered = [ch \in Channels |-> 0]
    /\ failed = {}
    /\ owedRemoves = 0
    /\ budget \in Budgets

Spend(e) == budget[e] > 0 /\ budget' = [budget EXCEPT ![e] = @ - 1]

-----------------------------------------------------------------------------
(* Channels and bridges.                                                    *)

Members(b) == {ch \in Channels : where[ch] = b}
InBridge(ch) == where[ch] # Gone

\* ast_channel_bridge_peer(): only a bridge of two has a peer.
BridgePeer(ch) ==
    {peer \in Members(where[ch]) \ {ch} :
        InBridge(ch) /\ Cardinality(Members(where[ch])) = 2}

IsCallBridge(b) == b \in Calls

\* A channel hangs up, of its own or because it was told to.
Leave(ch) ==
    LET b == where[ch]
        dissolves == IsCallBridge(b) \/ ch \in flagged \/ Members(b) = {ch}
        out == IF dissolves THEN Members(b) ELSE {ch}
    IN  /\ where' = [x \in Channels |-> IF x \in out THEN Gone ELSE where[x]]
        /\ dissolved' = IF dissolves THEN dissolved \cup {b} ELSE dissolved
        /\ ending' = ending \ out

Hangup(ch) ==
    /\ InBridge(ch)
    /\ \/ Spend("hangup")
       \/ ch \in ending /\ UNCHANGED budget
    /\ Leave(ch)
    /\ UNCHANGED <<keep, flagged, muted, joinTime, marked, selected, adding,
                   pending, queue, mergeVars, historyVars>>

-----------------------------------------------------------------------------
(* Select and Unselect, on the servant threads.  cisco_selected_add() looks
   for the call, counts, and links, taking the container's lock each time. *)

Has(d) == \E i \in 1..Len(selected) : selected[i] = d

listVars == <<keep, callVars, pending, queue, mergeVars, historyVars>>

Select(t, d) ==
    /\ adding[t] = {}
    /\ Spend("select")
    /\ adding' = [adding EXCEPT ![t] =
                     IF Has(d) THEN {} ELSE {[dialog |-> d, counted |-> FALSE]}]
    /\ UNCHANGED <<listVars, selected>>

\* Mutant: no cap.
SelectUncapped(t) ==
    /\ \E a \in adding[t] :
          /\ ~a.counted
          /\ adding' = [adding EXCEPT ![t] = {[a EXCEPT !.counted = TRUE]}]
    /\ UNCHANGED <<listVars, selected, budget>>

SelectCount(t) ==
    /\ \E a \in adding[t] :
          /\ ~a.counted
          /\ adding' = [adding EXCEPT ![t] =
                           IF Len(selected) >= JoinMaxSelected THEN {}
                           ELSE {[a EXCEPT !.counted = TRUE]}]
    /\ UNCHANGED <<listVars, selected, budget>>

SelectLink(t) ==
    /\ \E a \in adding[t] : a.counted /\ selected' = Append(selected, a.dialog)
    /\ adding' = [adding EXCEPT ![t] = {}]
    /\ UNCHANGED <<listVars, budget>>

\* The list without its i-th entry.
Without(i) == SubSeq(selected, 1, i - 1) \o SubSeq(selected, i + 1, Len(selected))

\* cisco_selected_remove(): one entry at most.
Unselect(d) ==
    /\ Spend("unselect")
    /\ IF Has(d)
       THEN \E i \in 1..Len(selected) :
               /\ selected[i] = d
               /\ \A j \in 1..(i - 1) : selected[j] # d
               /\ selected' = Without(i)
       ELSE UNCHANGED selected
    /\ UNCHANGED <<listVars, adding>>

-----------------------------------------------------------------------------
(* The softkeys that queue a task.  A push that fails is logged.            *)

QueueOrFail(e, t) ==
    /\ budget[e] > 0
    /\ \/ /\ queue' = Append(queue, t)
          /\ budget' = [budget EXCEPT ![e] = @ - 1]
       \/ /\ budget["fault"] > 0
          /\ budget' = [budget EXCEPT ![e] = @ - 1, !["fault"] = @ - 1]
          /\ UNCHANGED queue
    /\ UNCHANGED <<keep, callVars, selected, adding, mergeVars, clock, entered,
                   failed>>

\* Conference, on call a while consulting on call b.
QueueConference(a, b) ==
    /\ a # b
    /\ QueueOrFail("confrn", [NewTask("confrn", a) EXCEPT !.others = <<b>>])
    /\ UNCHANGED <<pending, owedRemoves>>

\* queue_join() takes its snapshot on the servant thread.
Snapshot == IF Len(selected) <= JoinMaxSelected THEN selected
            ELSE SubSeq(selected, 1, JoinMaxSelected)

QueueJoin(a) ==
    /\ QueueOrFail("join", [NewTask("join", a) EXCEPT !.others = Snapshot])
    /\ UNCHANGED <<pending, owedRemoves>>

QueueRmLastConf(a) ==
    /\ QueueOrFail("rmlast", NewTask("rmlast", a))
    /\ UNCHANGED <<pending, owedRemoves>>

PendingActions == IF pending = {} THEN {""} ELSE {p.action : p \in pending}

\* ConfList remembers the call, and keeps a pending action.
ConfList(d) ==
    /\ QueueOrFail("conflist", NewTask("conflist", d))
    /\ pending' = {[dialog |-> d, action |-> a] : a \in PendingActions}
    /\ UNCHANGED owedRemoves

\* A key of the menu.  Without an earlier ConfList it is ignored.
ConfListAction(token, index) ==
    /\ token = "index" \/ index = 0
    /\ \E p \in pending :
          QueueOrFail(IF token \in {"index", "other"} THEN "pick" ELSE "softkey",
                      [NewTask("action", p.dialog) EXCEPT !.token = token,
                                                          !.index = index])
    /\ owedRemoves' = IF token = "Remove" THEN owedRemoves + 1 ELSE owedRemoves
    /\ UNCHANGED pending

-----------------------------------------------------------------------------
(* The tasks.  Each looks up the dialog, its session, the channel and the
   bridge, and gives up when one of them is no more.                       *)

otherVars == <<keep, selected, adding, budget>>

\* The task at the head of the queue is taken by an idle serializer.
Take(op) ==
    /\ phase = "idle"
    /\ queue # <<>>
    /\ Head(queue).op = op
    /\ queue' = Tail(queue)

\* conflist_send_task() sends the menu and changes nothing.
ConflistSendTask ==
    /\ Take("conflist")
    /\ UNCHANGED <<otherVars, callVars, pending, mergeVars, historyVars>>

\* bridge_peer_channel_ref(): the peers of self have a fixed order.
PeerAt(self, index) ==
    LET peers == Members(where[self]) \ {self}
    IN  {p \in peers : Cardinality({q \in peers : q[2] < p[2]}) = index}

\* A token that is not a number is taken for 0.
PickedIndex(t) == IF t.token = "index" THEN t.index ELSE 0

Picked(t) == PeerAt(Phone(t.dialog), PickedIndex(t))

\* ast_bridge_remove(): fails for a channel that is already leaving.
Kick(victims) == ending' = ending \cup victims

\* Mutant: the pending action is not consumed.
KeepAction(p) == pending' = {p}

ClearAction(p) == pending' = {[p EXCEPT !.action = ""]}

\* The keys that wait for a participant to be picked.
Sticky == {"Mute", "Remove"}

\* A participant was picked: the pending action is consumed, Mute if none.
PickParticipant(t) ==
    \E p \in pending :
        /\ ClearAction(p)
        /\ IF p.action = "Remove"
           THEN /\ Kick(Picked(t))
                /\ owedRemoves' = IF Picked(t) \subseteq ending
                                  THEN owedRemoves ELSE owedRemoves - 1
                /\ UNCHANGED muted
           ELSE /\ muted' = (muted \ Picked(t)) \cup (Picked(t) \ muted)
                /\ UNCHANGED <<ending, owedRemoves>>

ConflistActionSendTask ==
    /\ Take("action")
    /\ LET t == Head(queue) IN
       \/ /\ InBridge(Phone(t.dialog))
          /\ t.token \in Sticky
          /\ pending' = {[p EXCEPT !.action = t.token] : p \in pending}
          /\ UNCHANGED <<ending, muted, owedRemoves>>
       \/ /\ InBridge(Phone(t.dialog))
          /\ t.token \in {"index", "other"}
          /\ PickParticipant(t)
       \/ /\ ~InBridge(Phone(t.dialog)) \/ t.token = "Update"
          /\ UNCHANGED <<pending, ending, muted, owedRemoves>>
    /\ UNCHANGED <<otherVars, where, dissolved, flagged, joinTime, marked,
                   mergeVars, clock, entered, failed>>

\* cisco_conf_find_last_joined(): the tracked peer with the latest time.
LastJoined(self) ==
    LET tracked == {p \in Members(where[self]) \ {self} : joinTime[p] > 0}
    IN  {p \in tracked : \A q \in tracked : joinTime[q] <= joinTime[p]}

RmlastconfSendTask ==
    /\ Take("rmlast")
    /\ LET phone == Phone(Head(queue).dialog) IN
       IF InBridge(phone) THEN Kick(LastJoined(phone)) ELSE UNCHANGED ending
    /\ UNCHANGED <<otherVars, where, dissolved, flagged, muted, joinTime, marked,
                   pending, mergeVars, historyVars>>

-----------------------------------------------------------------------------
(* The merges, conference_send_task() and join_send_task().                 *)

From(ch) == [chan |-> ch, from |-> where[ch]]

\* The call's two channels, phone first; none if it cannot be merged.
Legs(d) == {<<From(Phone(d)), From(r)>> : r \in BridgePeer(Phone(d))}

\* What a merge moves first: a Confrn both channels of the active call and
\* the remote of the consulted one, a Join those of the active call.
MovesOf(t) ==
    IF t.op = "join" THEN Legs(t.dialog)
    ELSE {<<a[1], a[2], b[2]>> : a \in Legs(t.dialog), b \in Legs(t.others[1])}

GiveUp ==
    /\ phase' = "idle"
    /\ UNCHANGED <<task, moves, conf>>

\* ast_bridge_base_new() may fail.
StartMerge ==
    /\ Take("confrn") \/ Take("join")
    /\ LET t == Head(queue) IN
       \/ /\ MovesOf(t) = {} /\ GiveUp /\ UNCHANGED budget
       \/ /\ MovesOf(t) # {} /\ GiveUp /\ Spend("fault")
       \/ /\ \E m \in MovesOf(t) : moves' = m
          /\ phase' = "move"
          /\ task' = t
          /\ conf' = conf + 1
          /\ UNCHANGED budget
    /\ UNCHANGED <<keep, selected, adding, pending, callVars, historyVars>>

\* ast_bridge_move(): the channel must be where it was looked up and neither
\* bridge gone; a bridge that is left empty dissolves.
CanMove(m) ==
    /\ where[m.chan] = m.from
    /\ m.from \notin dissolved
    /\ conf \notin dissolved

BridgeMove(m) ==
    /\ where' = [where EXCEPT ![m.chan] = conf]
    /\ dissolved' = IF Members(m.from) = {m.chan} THEN dissolved \cup {m.from}
                                                  ELSE dissolved

\* Mutant: only the first conference of a channel is tracked.
MarkJoinedOnce(ch) ==
    joinTime' = IF joinTime[ch] = 0 THEN [joinTime EXCEPT ![ch] = clock + 1]
                ELSE joinTime

\* cisco_conf_mark_joined()
MarkJoined(ch) == joinTime' = [joinTime EXCEPT ![ch] = clock + 1]

Entered(ch) ==
    /\ clock' = clock + 1
    /\ entered' = [entered EXCEPT ![ch] = clock + 1]

MoveFails(m) ==
    /\ \/ ~CanMove(m) /\ UNCHANGED budget
       \/ CanMove(m) /\ Spend("fault")
       \/ CanMove(m) /\ m.chan \in ending /\ UNCHANGED budget
    /\ failed' = failed \cup {m.chan}
    /\ UNCHANGED <<where, dissolved, joinTime, clock, entered>>

IsAnchor(ch) == ch = Phone(task.dialog)

PhaseAfter(rest) == IF rest # <<>> THEN "move"
                    ELSE IF task.op = "join" THEN "join" ELSE "finish"

\* The anchor's move is followed by set_dissolve_on_initiator_hangup(); the
\* first failure ends the task.
MoveNext ==
    /\ phase = "move"
    /\ LET m == Head(moves) IN
       \/ /\ CanMove(m)
          /\ BridgeMove(m)
          /\ Entered(m.chan)
          /\ IF IsAnchor(m.chan) THEN UNCHANGED joinTime ELSE MarkJoined(m.chan)
          /\ phase' = IF IsAnchor(m.chan) THEN "flag" ELSE PhaseAfter(Tail(moves))
          /\ UNCHANGED <<failed, budget>>
       \/ /\ MoveFails(m)
          /\ phase' = "idle"
    /\ moves' = Tail(moves)
    /\ UNCHANGED <<keep, selected, adding, pending, queue, flagged, ending,
                   muted, marked, task, conf, owedRemoves>>

\* Mutant: keep_conference is taken for its opposite.
SetDissolveInverted ==
    /\ phase = "flag"
    /\ phase' = "move"
    /\ flagged' = IF keep /\ InBridge(Phone(task.dialog))
                  THEN flagged \cup {Phone(task.dialog)} ELSE flagged
    /\ UNCHANGED <<otherVars, where, dissolved, ending, muted, joinTime, marked,
                   pending, queue, task, moves, conf, historyVars>>

SetDissolveOnInitiatorHangup ==
    /\ phase = "flag"
    /\ phase' = "move"
    /\ flagged' = IF ~keep /\ InBridge(Phone(task.dialog))
                  THEN flagged \cup {Phone(task.dialog)} ELSE flagged
    /\ UNCHANGED <<otherVars, where, dissolved, ending, muted, joinTime, marked,
                   pending, queue, task, moves, conf, historyVars>>

\* ast_softhangup()
SoftHangup(ch) == ending' = IF InBridge(ch) THEN ending \cup {ch} ELSE ending

\* Join, for each selected call but the active one: move its remote, which
\* may fail, and hang up its phone leg.
JoinSelected ==
    /\ phase = "join"
    /\ task.index < Len(task.others)
    /\ LET d == task.others[task.index + 1] IN
       \/ /\ d = task.dialog \/ Legs(d) = {}
          /\ UNCHANGED <<callVars, clock, entered, failed, budget>>
       \/ /\ d # task.dialog
          /\ \E legs \in Legs(d) :
                \/ /\ CanMove(legs[2])
                   /\ BridgeMove(legs[2])
                   /\ Entered(legs[2].chan)
                   /\ MarkJoined(legs[2].chan)
                   /\ UNCHANGED <<failed, budget>>
                \/ MoveFails(legs[2])
          /\ SoftHangup(Phone(d))
          /\ UNCHANGED <<flagged, muted, marked>>
    /\ task' = [task EXCEPT !.index = @ + 1]
    /\ UNCHANGED <<keep, selected, adding, pending, queue, phase, moves, conf,
                   owedRemoves>>

Mark(ch) == marked' = IF InBridge(ch) THEN marked \cup {ch} ELSE marked

\* The end of a Join: the phone is told, its leg marked and, with
\* cisco_selected_clear_endpoint(), all of its selections dropped.
JoinFinish ==
    /\ phase = "join"
    /\ task.index = Len(task.others)
    /\ Mark(Phone(task.dialog))
    /\ selected' = <<>>
    /\ phase' = "idle"
    /\ UNCHANGED <<keep, adding, budget, where, dissolved, flagged, ending, muted,
                   joinTime, pending, queue, task, moves, conf, historyVars>>

\* Mutant: the wrong leg is hung up.
HangUpActive ==
    /\ phase = "finish"
    /\ SoftHangup(Phone(task.dialog))
    /\ Mark(Phone(task.dialog))
    /\ phase' = "idle"
    /\ UNCHANGED <<otherVars, where, dissolved, flagged, muted, joinTime, pending,
                   queue, task, moves, conf, historyVars>>

\* The end of a Confrn: hang up the consulted call's leg, tell the phone.
ConfrnFinish ==
    /\ phase = "finish"
    /\ SoftHangup(Phone(task.others[1]))
    /\ Mark(Phone(task.dialog))
    /\ phase' = "idle"
    /\ UNCHANGED <<otherVars, where, dissolved, flagged, muted, joinTime, pending,
                   queue, task, moves, conf, historyVars>>

-----------------------------------------------------------------------------

Softkeys ==
    \/ \E a, b \in Calls : QueueConference(a, b)
    \/ \E a \in Calls :
          QueueJoin(a) \/ QueueRmLastConf(a) \/ ConfList(a) \/ Unselect(a)
    \/ \E token \in Tokens, index \in 0..(NCalls - 1) : ConfListAction(token, index)

Serializer ==
    \/ ConflistSendTask \/ ConflistActionSendTask \/ RmlastconfSendTask
    \/ StartMerge \/ MoveNext \/ SetDissolveOnInitiatorHangup
    \/ JoinSelected \/ JoinFinish \/ ConfrnFinish

Next ==
    \/ Softkeys
    \/ \E t \in Threads : \/ \E d \in Calls : Select(t, d)
                         \/ SelectCount(t) \/ SelectLink(t)
    \/ \E ch \in Channels : Hangup(ch)
    \/ Serializer

Spec == Init /\ [][Next]_vars

-----------------------------------------------------------------------------
(* The inductive invariant behind the properties.                           *)

Chans(ms) == {ms[i].chan : i \in 1..Len(ms)}
Phones == {Phone(d) : d \in Calls}
Remotes == {Remote(d) : d \in Calls}
Anchor == Phone(task.dialog)

ConsultsAnother(t) ==
    t.op = "confrn" => Len(t.others) = 1 /\ t.others[1] # t.dialog

\* The anchor is moved first, and never alone; everything else is a remote.
MovesFit ==
    /\ moves # <<>>
    /\ Chans(Tail(moves)) \subseteq Remotes
    /\ \/ Head(moves).chan \in Remotes
       \/ phase = "move" /\ Head(moves).chan = Anchor /\ Tail(moves) # <<>>

PhasesFit ==
    /\ \A i \in 1..Len(queue) : ConsultsAnother(queue[i])
    /\ phase # "idle" => task.op \in {"confrn", "join"} /\ ConsultsAnother(task)
    /\ phase = "join" => task.op = "join"
    /\ phase = "finish" => task.op = "confrn"
    /\ phase \in {"join", "finish"} => moves = <<>>
    /\ phase \in {"move", "flag"} => MovesFit

\* No two legs of the phone are in one bridge.
OnePhone ==
    \A d, e \in Calls :
        InBridge(Phone(d)) /\ where[Phone(d)] = where[Phone(e)] => d = e

BeforeAnchor == phase = "move" /\ Head(moves).chan = Anchor

\* A merge's bridge is new, and its anchor the only leg of the phone in it.
BridgesAreNew ==
    /\ conf >= NCalls
    /\ \A ch \in Channels : where[ch] <= conf
    /\ phase # "idle" =>
           /\ conf > NCalls
           /\ \A d \in Calls : where[Phone(d)] = conf => d = task.dialog
           /\ ~BeforeAnchor => where[Anchor] \in {conf, Gone}

\* Whoever is with the anchor or the consulted leg is about to be moved.
TakenAlong ==
    /\ BeforeAnchor /\ InBridge(Anchor) =>
           Members(where[Anchor]) \subseteq {Anchor} \cup Chans(moves)
    /\ BeforeAnchor \/ phase = "flag" => Members(conf) \subseteq {Anchor}
    /\ \A d \in Calls :
           /\ phase \in {"move", "flag", "finish"}
           /\ task.op = "confrn" /\ d = task.others[1]
           /\ InBridge(Phone(d))
           => Members(where[Phone(d)]) \subseteq {Phone(d)} \cup Chans(moves)

EndingAlone ==
    /\ \A ch \in ending : InBridge(ch)
    /\ failed = {} =>
           /\ phase # "idle" => Anchor \notin ending
           /\ \A d \in Calls : Phone(d) \in ending =>
                  Members(where[Phone(d)]) \subseteq {Phone(d)}

\* A leg in a bridge of the module is flagged, or is just about to be ...
Flagged ==
    /\ keep => flagged = {}
    /\ \A d \in Calls :
           /\ ~keep /\ InBridge(Phone(d)) /\ ~IsCallBridge(where[Phone(d)])
           => Phone(d) \in flagged \/ (phase = "flag" /\ d = task.dialog)

\* ... so the bridge of a merge is gone when the anchor is not in it any
\* more, and nobody is without the phone but who is about to be moved.
WithPhone ==
    ~keep /\ failed = {} =>
        /\ phase # "idle" /\ ~BeforeAnchor =>
               where[Anchor] = conf \/ conf \in dissolved
        /\ \A d \in Calls : InBridge(Remote(d)) =>
               \/ \E e \in Calls : where[Phone(e)] = where[Remote(d)]
               \/ phase \in {"move", "flag"} /\ Remote(d) \in Chans(moves)

\* The module's datastore agrees with the order of the moves.
JoinTimes == \A d \in Calls : joinTime[Remote(d)] = entered[Remote(d)]

\* A Select that has counted is as good as stored.
Counted == {t \in Threads : \E a \in adding[t] : a.counted}

SelectsFit ==
    Len(selected) + Cardinality(Counted)
        <= JoinMaxSelected + Cardinality(Threads) - 1

\* A press of Remove that is queued or pending is still owed.
RemovesIn(q) == {i \in 1..Len(q) : q[i].token = "Remove"}
RemovePending == \E p \in pending : p.action = "Remove"

RemovesOwed ==
    owedRemoves >= Cardinality(RemovesIn(queue)) + (IF RemovePending THEN 1 ELSE 0)

\* At every point of every merge the bridges, the running merge, the lists
\* and the queue fit together (conference_send_task(), join_send_task()).
ConfInv ==
    /\ TypeOK
    /\ PhasesFit
    /\ OnePhone
    /\ BridgesAreNew
    /\ TakenAlong
    /\ EndingAlone
    /\ Flagged
    /\ WithPhone
    /\ JoinTimes
    /\ SelectsFit
    /\ RemovesOwed

-----------------------------------------------------------------------------
(* Properties.                                                              *)

\* Without keep_conference nobody is left in a call that the phone is not in,
\* however hangups, merges and removals overlap, as long as every channel
\* could be moved: the conference dissolves with its initiator.
NobodyStranded ==
    phase = "idle" /\ ~keep /\ failed = {} =>
        \A d \in Calls : InBridge(Remote(d)) =>
            \E e \in Calls : where[Phone(e)] = where[Remote(d)]

\* With keep_conference the mix survives its initiator ("leaves it unflagged
\* so the mix survives the initiator dropping"): whoever leaves a conference
\* leaves alone, also when several merges moved the phone's leg about.
Left == {ch \in Channels : ~IsCallBridge(where[ch]) /\ where'[ch] # where[ch]}

KeptConferenceStays ==
    [][keep => Cardinality(Left) <= 1]_where

\* A leg of the phone that a merge hangs up is alone in its bridge: nobody is
\* dropped with it ("attempt_recovery=1: if a move fails, put chan back into
\* its source bridge so it isn't orphaned").
HungUpAlone ==
    \A d \in Calls : Phone(d) \in ending =>
        Members(where[Phone(d)]) \subseteq {Phone(d)}

\* So it is as long as every channel could be moved, whatever was selected
\* or was in a conference before, and whoever hung up in between.
MergeDropsNobody == failed = {} => HungUpAlone

\* The cap on stored selections holds, but for the Selects that other threads
\* handle at the same time ("without this cap the container could grow
\* without limit").
SelectedBounded ==
    Len(selected) <= JoinMaxSelected + Cardinality(Threads) - 1

\* A press of Remove removes one participant at most, whatever was pressed,
\* picked and queued in between: the pick consumes the pending action.
RemovesOnRequest == owedRemoves >= 0

\* RmLastConf removes the participant of the conference that was moved in
\* last, also when it had been in an earlier conference.
Taken(op) == queue # <<>> /\ Head(queue).op = op /\ queue' = Tail(queue)

RmLastConfIsLast ==
    [][Taken("rmlast") =>
          \A victim \in ending' \ ending, d \in Calls :
              where[Remote(d)] = where[victim] =>
                  entered[Remote(d)] <= entered[victim]]_vars

=============================================================================
