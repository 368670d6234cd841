----------------------------- MODULE Bulkupdate -----------------------------
(***************************************************************************)
(* res_pjsip_cisco_bulkupdate.c for one endpoint, with everything else that
   writes the feature state it pushes: the CLI and the dialplan functions
   (cisco_bulkupdate/cli.c and func.c), the HLog softkey of
   res_pjsip_cisco_remotecc.c and the DND PUBLISH of
   cisco_feature_events/dnd.c.

   The state lives in astdb; a phone shows what it was last sent, or what
   its user pressed.  A bulkupdate REFER carries all features and is sent by
   the module's serializer, which reads astdb when the task runs; the HLog
   softkey's answer carries the value it wrote and is sent by the serializer
   of the remotecc module.  The two serializers run in parallel.

   MWI counts and the <contact> blocks of aliases are left out: they are read
   in the task like the features, and nothing is decided on them.          *)
(***************************************************************************)
EXTENDS Sequences, Registrar

CONSTANTS
    Procs,        \* threads running CLI commands, dialplan functions, softkeys
    InitDb,       \* what astdb may hold at the start
    MaxQueue,     \* a phone does not refresh while the queue is this long
    Budgets       \* how often each event of the environment may happen

\* astdb families DND, HuntGroup and CF, in the order the task reads them.
\* A call-forward target is abstracted to set or not set.
Features == {"dnd", "huntgroup", "cf"}
ReadOrder == <<"dnd", "huntgroup", "cf">>

Events == {"register", "deregister", "expire", "challenge", "heartbeat",
           "write", "push", "hlog", "publish", "fault"}

ASSUME BulkConstants ==
    /\ InitDb \subseteq [Features -> BOOLEAN]
    /\ MaxQueue \in Nat
    /\ \A b \in Budgets : b \in [Events -> Nat]

VARIABLES
    db,           \* the endpoint's feature state in astdb
    doing,        \* doing[p]: what thread p is in the middle of, or {}
    publish,      \* publish[c]: the DND state a PUBLISH of c carries, or {}
    \* --- the bulkupdate module ---
    cache,        \* bulkupdate_addr_cache, the endpoint's entry
    queue,        \* canonical of each task pushed to the serializer
    phase,        \* where the running task is
    canonical,    \* its canonical; {} is NULL, a forced push
    unread,       \* features it has not read yet
    snap,         \* what it has read
    todo,         \* contacts still to send to
    tried,        \* attempted > 0
    missed,       \* attempted # succeeded
    \* --- the remotecc module's HLog pushes ---
    hlogQueue,    \* huntgroup_in of each task pushed to its serializer
    hlogTodo,     \* contacts the running task has still to send to
    \* --- the phones, and history ---
    shown,        \* shown[c][f]: what c shows for f, {} before its first push
    owed,         \* contacts whose last bulkupdate REFER failed
    unpushed,     \* features whose last write some phone was not sent
    budget

taskVars == <<phase, canonical, unread, snap, todo, tried, missed>>
hlogVars == <<hlogQueue, hlogTodo>>
registrarVars == <<contacts, resp>>
vars == <<contacts, resp, db, doing, publish, cache, queue, phase, canonical,
          unread, snap, todo, tried, missed, hlogQueue, hlogTodo, shown, owed,
          unpushed, budget>>

-----------------------------------------------------------------------------

Blank == [f \in Features |-> {}]
Bits == Optional(BOOLEAN)

\* A thread has written a feature and will queue a REFER, has decided what
\* HLog will write, or has written it and will queue the answer.
Doing == [op : {"push"}, feature : Features]
         \cup [op : {"toggle", "hlog"}, value : BOOLEAN]

TypeOK ==
    /\ RegistrarTypeOK
    /\ db \in [Features -> BOOLEAN]
    /\ doing \in [Procs -> Optional(Doing)]
    /\ publish \in [Contacts -> Bits]
    /\ cache \subseteq Contacts
    /\ queue \in Seq(SUBSET Contacts)
    /\ phase \in {"idle", "read", "send", "link"}
    /\ canonical \subseteq Contacts
    /\ unread \in Seq(Features)
    /\ snap \in [Features -> Bits]
    /\ todo \subseteq Contacts
    /\ tried \in BOOLEAN
    /\ missed \in BOOLEAN
    /\ hlogQueue \in Seq(BOOLEAN)
    /\ hlogTodo \subseteq Contacts
    /\ hlogTodo # {} => hlogQueue # <<>>
    /\ shown \in [Contacts -> [Features -> Bits]]
    /\ owed \subseteq Contacts
    /\ unpushed \subseteq Features
    /\ budget \in [Events -> Nat]

Init ==
    /\ contacts = {}
    /\ resp = NoAnswers
    /\ db \in InitDb
    /\ doing = [p \in Procs |-> {}]
    /\ publish = [c \in Contacts |-> {}]
    /\ cache = NoEntry
    /\ queue = <<>>
    /\ phase = "idle"
    /\ canonical = {}
    /\ unread = <<>>
    /\ snap = Blank
    /\ todo = {}
    /\ tried = FALSE
    /\ missed = FALSE
    /\ hlogQueue = <<>>
    /\ hlogTodo = {}
    /\ shown = [c \in Contacts |-> Blank]
    /\ owed = {}
    /\ unpushed = {}
    /\ budget \in Budgets

Spend(e) == budget[e] > 0 /\ budget' = [budget EXCEPT ![e] = @ - 1]

-----------------------------------------------------------------------------
(* The registrar.  A phone that is not bound any more forgets what it showed,
   and its PUBLISH is refused.                                             *)

NewSessions ==
    /\ shown' = [c \in Contacts |-> IF c \in contacts' THEN shown[c] ELSE Blank]
    /\ publish' = [c \in Contacts |-> IF c \in contacts' THEN publish[c] ELSE {}]
    /\ owed' = owed \cap contacts'

Register(t, c) ==
    /\ AddContact(t, c)
    /\ Spend("register")
    /\ NewSessions
    /\ UNCHANGED <<db, doing, cache, queue, taskVars, hlogVars, unpushed>>

Refresh(t, c) ==
    /\ Len(queue) < MaxQueue
    /\ RefreshContact(t, c)
    /\ UNCHANGED <<db, doing, publish, cache, queue, taskVars, hlogVars, shown,
                   owed, unpushed, budget>>

Deregister(t, c) ==
    /\ RemoveContact(t, c)
    /\ Spend("deregister")
    /\ NewSessions
    /\ UNCHANGED <<db, doing, cache, queue, taskVars, hlogVars, unpushed>>

Expire(c) ==
    /\ ExpireContact(c)
    /\ Spend("expire")
    /\ NewSessions
    /\ UNCHANGED <<db, doing, cache, queue, taskVars, hlogVars, unpushed>>

\* A 401, and the 200 to a heartbeat.
OtherAnswer(t) ==
    /\ \/ ChallengeRegister(t) /\ Spend("challenge")
       \/ KeepaliveOnRxRequest(t) /\ Spend("heartbeat")
    /\ UNCHANGED <<db, doing, publish, cache, queue, taskVars, hlogVars, shown,
                   owed, unpushed>>

\* bulkupdate_outgoing_response(): a push that fails is logged.
BulkupdateOutgoingResponse(t) ==
    /\ \E r \in resp[t] :
          \/ /\ ShouldFire(r, cache) \in {"ignore", "skip"}
             /\ UNCHANGED <<cache, queue, budget>>
          \/ /\ ShouldFire(r, cache) = "forget"
             /\ cache' = NoEntry
             /\ UNCHANGED <<queue, budget>>
          \/ /\ ShouldFire(r, cache) = "fire"
             /\ \/ queue' = Append(queue, Canonical(r)) /\ UNCHANGED budget
                \/ Spend("fault") /\ UNCHANGED queue
             /\ UNCHANGED cache
    /\ Answered(t)
    /\ UNCHANGED <<contacts, db, doing, publish, taskVars, hlogVars, shown,
                   owed, unpushed>>

-----------------------------------------------------------------------------
(* The writers of astdb.                                                    *)

\* pjsip cisco donotdisturb|huntgroup|callforward, and the CISCO_* functions:
\* write the key ...
SetFeature(p, f, v) ==
    /\ doing[p] = {}
    /\ Spend("write")
    /\ db' = [db EXCEPT ![f] = v]
    /\ doing' = [doing EXCEPT ![p] = {[op |-> "push", feature |-> f]}]
    /\ UNCHANGED <<registrarVars, publish, cache, queue, taskVars, hlogVars,
                   shown, owed, unpushed>>

\* Mutant: a REFER that is being sent is taken to cover the write.
QueueReferOnce(p) ==
    /\ \E d \in doing[p] :
          /\ d.op = "push"
          /\ unpushed' = unpushed \ {d.feature}
          /\ queue' = IF phase = "idle" THEN Append(queue, {}) ELSE queue
    /\ doing' = [doing EXCEPT ![p] = {}]
    /\ UNCHANGED <<registrarVars, db, publish, cache, taskVars, hlogVars, shown,
                   owed, budget>>

\* ... then cisco_bulkupdate_queue_refer(), whose result they do not look at.
QueueRefer(p) ==
    /\ \E d \in doing[p] :
          /\ d.op = "push"
          /\ \/ /\ queue' = Append(queue, {})
                /\ unpushed' = unpushed \ {d.feature}
                /\ UNCHANGED budget
             \/ /\ Spend("fault")
                /\ unpushed' = unpushed \cup {d.feature}
                /\ UNCHANGED queue
    /\ doing' = [doing EXCEPT ![p] = {}]
    /\ UNCHANGED <<registrarVars, db, publish, cache, taskVars, hlogVars, shown,
                   owed>>

\* pjsip cisco bulkupdate
CliCiscoBulkupdate ==
    /\ Spend("push")
    /\ queue' = Append(queue, {})
    /\ UNCHANGED <<registrarVars, db, doing, publish, cache, taskVars, hlogVars,
                   shown, owed, unpushed>>

\* handle_softkey_event(), HLog: read the login state, write its negation,
\* and queue a task that carries the value written.
HLogRead(p) ==
    /\ contacts # {}
    /\ doing[p] = {}
    /\ Spend("hlog")
    /\ doing' = [doing EXCEPT ![p] =
                    {[op |-> "toggle", value |-> ~db["huntgroup"]]}]
    /\ UNCHANGED <<registrarVars, db, publish, cache, queue, taskVars, hlogVars,
                   shown, owed, unpushed>>

HLogSet(p) ==
    /\ \E d \in doing[p] :
          /\ d.op = "toggle"
          /\ db' = [db EXCEPT !["huntgroup"] = d.value]
          /\ doing' = [doing EXCEPT ![p] = {[d EXCEPT !.op = "hlog"]}]
    /\ UNCHANGED <<registrarVars, publish, cache, queue, taskVars, hlogVars,
                   shown, owed, unpushed, budget>>

QueueHLogUpdate(p) ==
    /\ \E d \in doing[p] :
          /\ d.op = "hlog"
          /\ \/ /\ hlogQueue' = Append(hlogQueue, d.value)
                /\ UNCHANGED <<unpushed, budget>>
             \/ /\ Spend("fault")
                /\ unpushed' = unpushed \cup {"huntgroup"}
                /\ UNCHANGED hlogQueue
    /\ doing' = [doing EXCEPT ![p] = {}]
    /\ UNCHANGED <<registrarVars, db, publish, cache, queue, taskVars, hlogTodo,
                   shown, owed>>

\* The user presses DND: the phone shows it at once and publishes it
\* (external).  It waits for the answer before it publishes again.
PressDnd(c) ==
    /\ c \in contacts
    /\ publish[c] = {}
    /\ Spend("publish")
    /\ \E v \in BOOLEAN :
          /\ shown[c]["dnd"] = {~v}
          /\ shown' = [shown EXCEPT ![c]["dnd"] = {v}]
          /\ publish' = [publish EXCEPT ![c] = {v}]
    /\ UNCHANGED <<registrarVars, db, doing, cache, queue, taskVars, hlogVars,
                   owed, unpushed>>

\* Mutant: the state is stored in another astdb family.
HandleDndPublishCf(c) ==
    /\ \E v \in publish[c] : db' = [db EXCEPT !["cf"] = v]
    /\ publish' = [publish EXCEPT ![c] = {}]
    /\ UNCHANGED <<registrarVars, doing, cache, queue, taskVars, hlogVars,
                   shown, owed, unpushed, budget>>

\* handle_dnd_publish_body(): nothing is pushed to the endpoint's contacts.
HandleDndPublishBody(c) ==
    /\ \E v \in publish[c] : db' = [db EXCEPT !["dnd"] = v]
    /\ publish' = [publish EXCEPT ![c] = {}]
    /\ UNCHANGED <<registrarVars, doing, cache, queue, taskVars, hlogVars,
                   shown, owed, unpushed, budget>>

-----------------------------------------------------------------------------
(* bulkupdate_send_task() on the module's serializer.                       *)

StartTask ==
    /\ phase = "idle"
    /\ queue # <<>>
    /\ queue' = Tail(queue)
    /\ canonical' = Head(queue)
    /\ phase' = "read"
    /\ unread' = ReadOrder
    /\ snap' = Blank
    /\ tried' = FALSE
    /\ missed' = FALSE
    /\ UNCHANGED <<registrarVars, db, doing, publish, cache, todo, hlogVars,
                   shown, owed, unpushed, budget>>

\* cisco_dnd_is_enabled(), cisco_huntgroup_is_in(), cisco_cfwd_get()
ReadFeature ==
    /\ phase = "read"
    /\ unread # <<>>
    /\ snap' = [snap EXCEPT ![Head(unread)] = {db[Head(unread)]}]
    /\ unread' = Tail(unread)
    /\ UNCHANGED <<registrarVars, db, doing, publish, cache, queue, phase,
                   canonical, todo, tried, missed, hlogVars, shown, owed,
                   unpushed, budget>>

\* cisco_endpoint_send_refer_to_all_contacts() retrieves the contacts ...
RetrieveContacts ==
    /\ phase = "read"
    /\ unread = <<>>
    /\ phase' = "send"
    /\ todo' = contacts
    /\ UNCHANGED <<registrarVars, db, doing, publish, cache, queue, canonical,
                   unread, snap, tried, missed, hlogVars, shown, owed,
                   unpushed, budget>>

\* What a REFER that carries the features F does to the phone: it shows what
\* it is sent.  One that has gone does not, and the send may fail.
Paint(c, F, value) ==
    shown' = [shown EXCEPT ![c] = [f \in Features |->
                                      IF f \in F THEN value[f] ELSE @[f]]]

\* ... and cisco_endpoint_send_refer_to_contact() sends to each.
SendRefer(c) ==
    /\ phase = "send"
    /\ c \in todo
    /\ todo' = todo \ {c}
    /\ tried' = TRUE
    /\ \/ /\ c \in contacts
          /\ Paint(c, Features, snap)
          /\ owed' = owed \ {c}
          /\ UNCHANGED <<missed, budget>>
       \/ /\ c \notin contacts
          /\ missed' \in {missed, TRUE}
          /\ UNCHANGED <<shown, owed, budget>>
       \/ /\ c \in contacts
          /\ Spend("fault")
          /\ missed' = TRUE
          /\ owed' = owed \cup {c}
          /\ UNCHANGED shown
    /\ UNCHANGED <<registrarVars, db, doing, publish, cache, queue, phase,
                   canonical, unread, snap, hlogVars, unpushed>>

\* Mutants: any success commits; the commit is unconditional.
AnySent == tried
AlwaysCommit == TRUE

\* attempted > 0 && attempted == succeeded
AllSent == tried /\ ~missed

\* The commit: a forced push has no canonical and leaves the cache alone;
\* cisco_register_address_remember_str() unlinks the old entry ...
TaskDone ==
    /\ phase = "send"
    /\ todo = {}
    /\ IF AllSent /\ canonical # {}
       THEN cache' = NoEntry /\ phase' = "link"
       ELSE phase' = "idle" /\ UNCHANGED cache
    /\ UNCHANGED <<registrarVars, db, doing, publish, queue, canonical, unread,
                   snap, todo, tried, missed, hlogVars, shown, owed, unpushed,
                   budget>>

\* ... and links the new one.
RememberLink ==
    /\ phase = "link"
    /\ cache' = canonical
    /\ phase' = "idle"
    /\ UNCHANGED <<registrarVars, db, doing, publish, queue, canonical, unread,
                   snap, todo, tried, missed, hlogVars, shown, owed, unpushed,
                   budget>>

-----------------------------------------------------------------------------
(* hlog_send_task() on the remotecc module's serializer.  The head of the
   queue is the running task until its contacts are done.                  *)

StartHLog ==
    /\ hlogQueue # <<>>
    /\ hlogTodo = {}
    /\ hlogTodo' = contacts
    /\ hlogQueue' = IF contacts = {} THEN Tail(hlogQueue) ELSE hlogQueue
    /\ UNCHANGED <<registrarVars, db, doing, publish, cache, queue, taskVars,
                   shown, owed, unpushed, budget>>

SendHLog(c) ==
    /\ c \in hlogTodo
    /\ hlogTodo' = hlogTodo \ {c}
    /\ hlogQueue' = IF hlogTodo = {c} THEN Tail(hlogQueue) ELSE hlogQueue
    /\ \/ /\ c \in contacts
          /\ Paint(c, {"huntgroup"}, [f \in Features |-> {Head(hlogQueue)}])
          /\ UNCHANGED <<unpushed, budget>>
       \/ /\ c \notin contacts
          /\ UNCHANGED <<shown, unpushed, budget>>
       \/ /\ c \in contacts
          /\ Spend("fault")
          /\ unpushed' = unpushed \cup {"huntgroup"}
          /\ UNCHANGED shown
    /\ UNCHANGED <<registrarVars, db, doing, publish, cache, queue, taskVars,
                   owed>>

-----------------------------------------------------------------------------

RegisterTraffic ==
    \/ \E t \in Threads, c \in Contacts :
          Register(t, c) \/ Refresh(t, c) \/ Deregister(t, c)
    \/ \E t \in Threads : OtherAnswer(t) \/ BulkupdateOutgoingResponse(t)
    \/ \E c \in Contacts : Expire(c)

Writer(p) ==
    \/ \E f \in Features, v \in BOOLEAN : SetFeature(p, f, v)
    \/ QueueRefer(p)
    \/ HLogRead(p) \/ HLogSet(p) \/ QueueHLogUpdate(p)

Serializer ==
    \/ StartTask \/ ReadFeature \/ RetrieveContacts
    \/ \E c \in Contacts : SendRefer(c)
    \/ TaskDone \/ RememberLink

HLogSerializer == StartHLog \/ \E c \in Contacts : SendHLog(c)

Next ==
    \/ RegisterTraffic
    \/ \E p \in Procs : Writer(p)
    \/ CliCiscoBulkupdate
    \/ \E c \in Contacts : PressDnd(c) \/ HandleDndPublishBody(c)
    \/ Serializer
    \/ HLogSerializer

Spec == Init /\ [][Next]_vars

\* The server's threads run, a command that has written goes on to queue, and
\* phones refresh for as long as they are registered.
Fairness ==
    /\ WF_vars(Serializer)
    /\ WF_vars(HLogSerializer)
    /\ \A t \in Threads : WF_vars(BulkupdateOutgoingResponse(t))
    /\ \A p \in Procs : WF_vars(QueueRefer(p) \/ HLogSet(p) \/ QueueHLogUpdate(p))
    /\ SF_vars(\E t \in Threads, c \in Contacts : Refresh(t, c))

FairSpec == Spec /\ Fairness

-----------------------------------------------------------------------------
(* The inductive invariant behind CfwdCurrent.                              *)

Writing(f) ==
    \E p \in Procs : \E d \in doing[p] : d.op = "push" /\ d.feature = f

\* A task will still read CF, or one is about to be queued.
CfwdPending ==
    \/ queue # <<>>
    \/ phase = "read" /\ unread # <<>>
    \/ Writing("cf")
    \/ "cf" \in unpushed

\* CF is read last, and what was read is current or will be read again.
SnapCurrent ==
    /\ phase = "read" /\ unread # <<>> => unread[Len(unread)] = "cf"
    /\ phase \in {"read", "send"} /\ ~CfwdPending => snap["cf"] \subseteq {db["cf"]}

\* A contact that is done shows what the task sends.
DoneShown ==
    phase = "send" =>
        \A c \in contacts \ (todo \cup owed) : shown[c]["cf"] \subseteq snap["cf"]

\* A phone shows the current target when no task is to change it.
ShownCurrent ==
    phase \notin {"read", "send"} /\ ~CfwdPending =>
        \A c \in contacts \ owed : shown[c]["cf"] \subseteq {db["cf"]}

\* A phone that is not bound shows nothing.
UnboundIsBlank == \A c \in Contacts \ contacts : shown[c] = Blank

CfwdInv ==
    /\ TypeOK
    /\ SnapCurrent
    /\ DoneShown
    /\ ShownCurrent
    /\ UnboundIsBlank

-----------------------------------------------------------------------------
(* Properties.                                                              *)

\* Every write of f has been followed by its REFER.
Settled(f) ==
    /\ queue = <<>> /\ phase = "idle"
    /\ hlogQueue = <<>>
    /\ \A p \in Procs : doing[p] = {}
    /\ f \notin unpushed

Shows(f) == \A c \in contacts \ owed : shown[c][f] \subseteq {db[f]}

\* However CLI commands, dialplan functions, REGISTERs and forced pushes
\* overlap, once all REFERs are sent every phone shows the call-forward state
\* of astdb, unless its own REFER failed or none could be queued: the task
\* reads astdb when it runs, not when it is queued.
CfwdCurrent == Settled("cf") => Shows("cf")

\* The same of the hunt-group login, which the HLog softkey writes too
\* ("hunt-group and call-forward state pushed to the phone via Cisco
\* bulkupdate after every REGISTER, so the line UI matches server state").
HuntGroupCurrent == Settled("huntgroup") => Shows("huntgroup")

\* A phone that was not sent the state will be, at the next REGISTER ("n/m
\* REFERs delivered - leaving address cache uncommitted so the next REGISTER
\* retries").
NextRegisterRetries ==
    phase = "idle" /\ owed # {} => ShouldFire(Ok(contacts), cache) = "fire"

\* A REGISTER is skipped as unchanged only when every phone it lists was sent
\* the state in its present session.
SkipsOnlyPushed ==
    contacts # {} /\ ShouldFire(Ok(contacts), cache) = "skip" =>
        \A c \in contacts : shown[c]["cf"] # {}

=============================================================================
