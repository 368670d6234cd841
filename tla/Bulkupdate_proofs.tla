------------------------- MODULE Bulkupdate_proofs -------------------------
(***************************************************************************)
(* Proofs about Bulkupdate for every number of contacts, threads, commands
   and every budget: type correctness; the inductive invariant CfwdInv, from
   which CfwdCurrent follows; that the gate skips only phones that were sent
   the state, as long as none comes back while the module lists it; and that
   BulkPush implements StatePush.                                          *)
(***************************************************************************)
EXTENDS BulkPush, Registrar_proofs

USE DEF RegistrarTypeOK, registrarVars, taskVars, hlogVars

(***************************************************************************)
(* Types.                                                                  *)
(***************************************************************************)

\* Spending from the budget keeps it a budget.
LEMMA SpendType ==
    ASSUME NEW e \in Events, budget \in [Events -> Nat], Spend(e)
    PROVE  budget' \in [Events -> Nat]
BY DEF Spend

\* Pushing a task, or taking one, keeps a queue well-formed.
LEMMA QueueTypes ==
    ASSUME NEW S, NEW q \in Seq(S)
    PROVE  /\ \A e \in S : Append(q, e) \in Seq(S)
           /\ q # <<>> => Head(q) \in S /\ Tail(q) \in Seq(S)
OBVIOUS

\* A queue that was pushed to is not empty.
LEMMA AppendNonEmpty ==
    ASSUME NEW S, NEW q \in Seq(S), NEW e \in S
    PROVE  Append(q, e) # <<>>
<1>1. Len(Append(q, e)) = Len(q) + 1 /\ Len(q) \in Nat
  OBVIOUS
<1>2. Len(<<>>) = 0
  OBVIOUS
<1> QED
  BY <1>1, <1>2

\* What a thread is in the middle of is well-formed.
LEMMA DoingType ==
    ASSUME TypeOK, NEW p \in Procs, NEW d \in doing[p]
    PROVE  d \in Doing
<1>1. doing[p] \in Optional(Doing)
  BY DEF TypeOK
<1> QED
  BY <1>1 DEF Optional

\* Nothing and one bit are optional bits.
LEMMA BitsTypes == {} \in Bits /\ \A v \in BOOLEAN : {v} \in Bits
BY DEF Bits, Optional

\* A phone that shows nothing shows a well-formed state.
LEMMA BlankType == Blank \in [Features -> Bits]
BY BitsTypes DEF Blank

\* New sessions keep what the phones show and publish well-formed.
LEMMA NewSessionsType ==
    ASSUME TypeOK, NewSessions
    PROVE  /\ shown' \in [Contacts -> [Features -> Bits]]
           /\ publish' \in [Contacts -> Bits]
           /\ owed' \subseteq Contacts
BY BitsTypes, BlankType DEF NewSessions, TypeOK

\* A REFER leaves what the phone shows well-formed.
LEMMA PaintType ==
    ASSUME TypeOK, NEW c \in Contacts, NEW F,
           NEW value \in [Features -> Bits], Paint(c, F, value)
    PROVE  shown' \in [Contacts -> [Features -> Bits]]
BY DEF Paint, TypeOK

LEMMA InitTypeOK == Init => TypeOK
<1>1. <<>> \in Seq(SUBSET Contacts) /\ <<>> \in Seq(Features) /\ <<>> \in Seq(BOOLEAN)
  OBVIOUS
<1>2. {} \in Optional(Response) /\ {} \in Optional(Doing)
  BY DEF Optional
<1>3. ASSUME Init
      PROVE  db \in [Features -> BOOLEAN] /\ budget \in [Events -> Nat]
  BY <1>3, BulkConstants DEF Init
<1> QED
  BY <1>1, <1>2, <1>3, BitsTypes, BlankType
     DEF Init, TypeOK, RegistrarTypeOK, NoEntry, NoAnswers

\* The registrar's steps and the hook keep the types.
LEMMA RegisterTrafficType ==
    ASSUME TypeOK, RegisterTraffic
    PROVE  TypeOK'
<1>e. /\ "register" \in Events /\ "deregister" \in Events /\ "expire" \in Events
      /\ "challenge" \in Events /\ "heartbeat" \in Events /\ "fault" \in Events
  BY DEF Events
<1>r. contacts \subseteq Contacts /\ resp \in [Threads -> Optional(Response)]
  BY DEF TypeOK
<1>1. ASSUME NEW t \in Threads, NEW c \in Contacts, Register(t, c) \/ Deregister(t, c)
      PROVE  TypeOK'
  <2>1. RegistrarTypeOK'
    BY <1>1, <1>r, RegistrarStepType DEF Register, Deregister, RegistrarStep
  <2>2. budget' \in [Events -> Nat]
    BY <1>1, <1>e, SpendType DEF Register, Deregister, TypeOK
  <2> QED
    BY <1>1, <2>1, <2>2, NewSessionsType DEF Register, Deregister, TypeOK
<1>2. ASSUME NEW t \in Threads, NEW c \in Contacts, Refresh(t, c)
      PROVE  TypeOK'
  <2>1. RegistrarTypeOK'
    BY <1>2, <1>r, RegistrarStepType DEF Refresh, RegistrarStep
  <2> QED
    BY <1>2, <2>1 DEF Refresh, TypeOK
<1>3. ASSUME NEW c \in Contacts, Expire(c)
      PROVE  TypeOK'
  <2>1. RegistrarTypeOK'
    BY <1>3, <1>r, RegistrarStepType DEF Expire, RegistrarStep
  <2>2. budget' \in [Events -> Nat]
    BY <1>3, <1>e, SpendType DEF Expire, TypeOK
  <2> QED
    BY <1>3, <2>1, <2>2, NewSessionsType DEF Expire, TypeOK
<1>4. ASSUME NEW t \in Threads, OtherAnswer(t)
      PROVE  TypeOK'
  <2>1. RegistrarTypeOK'
    BY <1>4, <1>r, RegistrarStepType DEF OtherAnswer, RegistrarStep
  <2>2. budget' \in [Events -> Nat]
    BY <1>4, <1>e, SpendType DEF OtherAnswer, TypeOK
  <2> QED
    BY <1>4, <2>1, <2>2 DEF OtherAnswer, TypeOK
<1>5. ASSUME NEW t \in Threads, BulkupdateOutgoingResponse(t)
      PROVE  TypeOK'
  <2>1. RegistrarTypeOK'
    BY <1>5, <1>r, RegistrarStepType DEF BulkupdateOutgoingResponse, RegistrarStep
  <2>2. PICK r \in resp[t] :
             /\ cache' = cache \/ cache' = NoEntry
             /\ queue' = queue \/ queue' = Append(queue, Canonical(r))
             /\ budget' = budget \/ Spend("fault")
    BY <1>5 DEF BulkupdateOutgoingResponse
  <2>3. Canonical(r) \in SUBSET Contacts
    BY <1>r, <2>2 DEF Canonical, Response, Optional
  <2>4. queue' \in Seq(SUBSET Contacts)
    <3>1. queue' = queue \/ queue' = Append(queue, Canonical(r))
      BY <2>2
    <3>2. queue \in Seq(SUBSET Contacts)
      BY DEF TypeOK
    <3> QED
      BY <2>3, <3>1, <3>2, QueueTypes, Zenon
  <2>5. cache' \subseteq Contacts /\ budget' \in [Events -> Nat]
    BY <2>2, <1>e, SpendType DEF TypeOK, NoEntry
  <2> QED
    BY <1>5, <2>1, <2>4, <2>5 DEF BulkupdateOutgoingResponse, TypeOK
<1> QED
  BY <1>1, <1>2, <1>3, <1>4, <1>5 DEF RegisterTraffic

\* The writers of astdb keep the types.
LEMMA WriterType ==
    ASSUME TypeOK,
           \/ \E p \in Procs : Writer(p)
           \/ CliCiscoBulkupdate
           \/ \E c \in Contacts : PressDnd(c) \/ HandleDndPublishBody(c)
    PROVE  TypeOK'
<1>e. /\ "write" \in Events /\ "push" \in Events /\ "hlog" \in Events
      /\ "publish" \in Events /\ "fault" \in Events
  BY DEF Events
<1>f. "dnd" \in Features /\ "huntgroup" \in Features /\ "cf" \in Features
  BY DEF Features
<1>q. /\ {} \in SUBSET Contacts
      /\ \A q \in Seq(SUBSET Contacts) : Append(q, {}) \in Seq(SUBSET Contacts)
  OBVIOUS
<1>1. ASSUME NEW p \in Procs, NEW f \in Features, NEW v \in BOOLEAN, SetFeature(p, f, v)
      PROVE  TypeOK'
  <2>1. [op |-> "push", feature |-> f] \in Doing
    BY DEF Doing
  <2>2. doing' \in [Procs -> Optional(Doing)]
    BY <1>1, <2>1 DEF SetFeature, TypeOK, Optional
  <2>3. db' \in [Features -> BOOLEAN] /\ budget' \in [Events -> Nat]
    BY <1>1, <1>e, SpendType DEF SetFeature, TypeOK
  <2> QED
    BY <1>1, <2>2, <2>3 DEF SetFeature, TypeOK
<1>2. ASSUME NEW p \in Procs, QueueRefer(p)
      PROVE  TypeOK'
  <2>1. PICK d \in doing[p] :
             /\ d.op = "push"
             /\ \/ /\ queue' = Append(queue, {})
                   /\ unpushed' = unpushed \ {d.feature}
                   /\ UNCHANGED budget
                \/ /\ Spend("fault")
                   /\ unpushed' = unpushed \cup {d.feature}
                   /\ UNCHANGED queue
    BY <1>2 DEF QueueRefer
  <2>2. d \in Doing
    BY <2>1, DoingType
  <2>3. d.feature \in Features
    BY <2>1, <2>2 DEF Doing
  <2>4. queue' \in Seq(SUBSET Contacts)
    BY <2>1, <1>q DEF TypeOK
  <2>5. unpushed' \subseteq Features /\ budget' \in [Events -> Nat]
    BY <2>1, <2>3, <1>e, SpendType DEF TypeOK
  <2>6. doing' \in [Procs -> Optional(Doing)]
    BY <1>2 DEF QueueRefer, TypeOK, Optional
  <2> QED
    BY <1>2, <2>4, <2>5, <2>6 DEF QueueRefer, TypeOK
<1>3. ASSUME NEW p \in Procs, HLogRead(p)
      PROVE  TypeOK'
  <2>1. [op |-> "toggle", value |-> ~db["huntgroup"]] \in Doing
    BY <1>f DEF Doing, TypeOK
  <2>2. doing' \in [Procs -> Optional(Doing)]
    BY <1>3, <2>1 DEF HLogRead, TypeOK, Optional
  <2>3. budget' \in [Events -> Nat]
    BY <1>3, <1>e, SpendType DEF HLogRead, TypeOK
  <2> QED
    BY <1>3, <2>2, <2>3 DEF HLogRead, TypeOK
<1>4. ASSUME NEW p \in Procs, HLogSet(p)
      PROVE  TypeOK'
  <2>1. PICK d \in doing[p] :
             /\ d.op = "toggle"
             /\ db' = [db EXCEPT !["huntgroup"] = d.value]
             /\ doing' = [doing EXCEPT ![p] = {[d EXCEPT !.op = "hlog"]}]
    BY <1>4 DEF HLogSet
  <2>2. d \in Doing
    BY <2>1, DoingType
  <2>3. PICK v \in BOOLEAN : d = [op |-> "toggle", value |-> v]
    BY <2>1, <2>2 DEF Doing
  <2>4. [d EXCEPT !.op = "hlog"] \in Doing /\ d.value \in BOOLEAN
    BY <2>3 DEF Doing
  <2>5. doing' \in [Procs -> Optional(Doing)]
    BY <2>1, <2>4 DEF TypeOK, Optional
  <2>6. db' \in [Features -> BOOLEAN]
    BY <2>1, <2>4 DEF TypeOK
  <2> QED
    BY <1>4, <2>5, <2>6 DEF HLogSet, TypeOK
<1>5. ASSUME NEW p \in Procs, QueueHLogUpdate(p)
      PROVE  TypeOK'
  <2>1. PICK d \in doing[p] :
             /\ d.op = "hlog"
             /\ \/ /\ hlogQueue' = Append(hlogQueue, d.value)
                   /\ UNCHANGED <<unpushed, budget>>
                \/ /\ Spend("fault")
                   /\ unpushed' = unpushed \cup {"huntgroup"}
                   /\ UNCHANGED hlogQueue
    BY <1>5 DEF QueueHLogUpdate
  <2>2. d \in Doing
    BY <2>1, DoingType
  <2>3. d.value \in BOOLEAN
    BY <2>1, <2>2 DEF Doing
  <2>4. hlogQueue' \in Seq(BOOLEAN)
    <3>1. hlogQueue' = hlogQueue \/ hlogQueue' = Append(hlogQueue, d.value)
      BY <2>1
    <3>2. hlogQueue \in Seq(BOOLEAN)
      BY DEF TypeOK
    <3> QED
      BY <2>3, <3>1, <3>2, QueueTypes, Zenon
  <2>5. unpushed' \subseteq Features /\ budget' \in [Events -> Nat]
    BY <2>1, <1>e, <1>f, SpendType DEF TypeOK
  <2>6. doing' \in [Procs -> Optional(Doing)]
    BY <1>5 DEF QueueHLogUpdate, TypeOK, Optional
  <2> QED
    BY <1>5, <2>4, <2>5, <2>6 DEF QueueHLogUpdate, TypeOK
<1>6. CASE CliCiscoBulkupdate
  BY <1>6, <1>e, <1>q, SpendType DEF CliCiscoBulkupdate, TypeOK
<1>7. ASSUME NEW c \in Contacts, PressDnd(c)
      PROVE  TypeOK'
  <2>1. PICK v \in BOOLEAN : /\ shown' = [shown EXCEPT ![c]["dnd"] = {v}]
                             /\ publish' = [publish EXCEPT ![c] = {v}]
    BY <1>7 DEF PressDnd
  <2>2. /\ shown' \in [Contacts -> [Features -> Bits]]
        /\ publish' \in [Contacts -> Bits]
    BY <2>1, <1>f, BitsTypes DEF TypeOK
  <2>3. budget' \in [Events -> Nat]
    BY <1>7, <1>e, SpendType DEF PressDnd, TypeOK
  <2> QED
    BY <1>7, <2>2, <2>3 DEF PressDnd, TypeOK
<1>8. ASSUME NEW c \in Contacts, HandleDndPublishBody(c)
      PROVE  TypeOK'
  <2>1. PICK v \in publish[c] : db' = [db EXCEPT !["dnd"] = v]
    BY <1>8 DEF HandleDndPublishBody
  <2>2. v \in BOOLEAN
    <3>1. publish[c] \in Bits
      BY DEF TypeOK
    <3> QED
      BY <2>1, <3>1, Zenon DEF Bits, Optional
  <2>3. db' \in [Features -> BOOLEAN]
    BY <2>1, <2>2 DEF TypeOK
  <2>4. publish' \in [Contacts -> Bits]
    BY <1>8, BitsTypes DEF HandleDndPublishBody, TypeOK
  <2> QED
    BY <1>8, <2>3, <2>4 DEF HandleDndPublishBody, TypeOK
<1> QED
  BY <1>1, <1>2, <1>3, <1>4, <1>5, <1>6, <1>7, <1>8 DEF Writer

\* The two serializers keep the types.
LEMMA SerializerType ==
    ASSUME TypeOK, Serializer \/ HLogSerializer
    PROVE  TypeOK'
<1>e. "fault" \in Events
  BY DEF Events
<1>f. "dnd" \in Features /\ "huntgroup" \in Features /\ "cf" \in Features
  BY DEF Features
<1>1. CASE StartTask
  <2>1. Head(queue) \in SUBSET Contacts /\ Tail(queue) \in Seq(SUBSET Contacts)
    BY <1>1, QueueTypes DEF StartTask, TypeOK
  <2>2. ReadOrder \in Seq(Features)
    BY <1>f DEF ReadOrder
  <2> QED
    BY <1>1, <2>1, <2>2, BlankType DEF StartTask, TypeOK
<1>2. CASE ReadFeature
  <2>1. Head(unread) \in Features /\ Tail(unread) \in Seq(Features)
    BY <1>2, QueueTypes DEF ReadFeature, TypeOK
  <2>2. {db[Head(unread)]} \in Bits
    BY <2>1, BitsTypes DEF TypeOK
  <2>3. snap' \in [Features -> Bits]
    BY <1>2, <2>2 DEF ReadFeature, TypeOK
  <2> QED
    BY <1>2, <2>1, <2>3 DEF ReadFeature, TypeOK
<1>3. CASE RetrieveContacts
  BY <1>3 DEF RetrieveContacts, TypeOK
<1>4. ASSUME NEW c \in Contacts, SendRefer(c)
      PROVE  TypeOK'
  <2>1. shown' \in [Contacts -> [Features -> Bits]]
    <3>1. snap \in [Features -> Bits] /\ shown \in [Contacts -> [Features -> Bits]]
      BY DEF TypeOK
    <3>2. shown' = shown \/ Paint(c, Features, snap)
      BY <1>4 DEF SendRefer
    <3> QED
      BY <3>1, <3>2, PaintType
  <2>2. /\ budget' \in [Events -> Nat] /\ owed' \subseteq Contacts
        /\ missed' \in BOOLEAN
    BY <1>4, <1>e, SpendType DEF SendRefer, TypeOK
  <2> QED
    BY <1>4, <2>1, <2>2 DEF SendRefer, TypeOK
<1>5. CASE TaskDone
  BY <1>5 DEF TaskDone, TypeOK, NoEntry
<1>6. CASE RememberLink
  BY <1>6 DEF RememberLink, TypeOK
<1>7. CASE StartHLog
  <2>1. hlogQueue' \in Seq(BOOLEAN)
    <3>1. hlogQueue \in Seq(BOOLEAN) /\ hlogQueue # <<>>
      BY <1>7 DEF StartHLog, TypeOK
    <3>2. hlogQueue' = hlogQueue \/ hlogQueue' = Tail(hlogQueue)
      BY <1>7 DEF StartHLog
    <3> QED
      BY <3>1, <3>2, QueueTypes, Zenon
  <2> QED
    BY <1>7, <2>1 DEF StartHLog, TypeOK
<1>8. ASSUME NEW c \in Contacts, SendHLog(c)
      PROVE  TypeOK'
  <2>q. hlogQueue # <<>>
    BY <1>8 DEF SendHLog, TypeOK
  <2>1. Head(hlogQueue) \in BOOLEAN /\ Tail(hlogQueue) \in Seq(BOOLEAN)
    <3>1. hlogQueue \in Seq(BOOLEAN)
      BY DEF TypeOK
    <3> QED
      BY <2>q, <3>1, QueueTypes, Zenon
  <2>2. hlogQueue' \in Seq(BOOLEAN)
    <3>1. hlogQueue \in Seq(BOOLEAN)
      BY DEF TypeOK
    <3>2. hlogQueue' = hlogQueue \/ hlogQueue' = Tail(hlogQueue)
      BY <1>8 DEF SendHLog
    <3> QED
      BY <2>1, <3>1, <3>2, Zenon
  <2>3. {Head(hlogQueue)} \in Bits
    BY <2>1, BitsTypes, Zenon
  <2>4. shown' \in [Contacts -> [Features -> Bits]]
    <3>1. [f \in Features |-> {Head(hlogQueue)}] \in [Features -> Bits]
      BY <2>3, Zenon
    <3>2. shown' = shown \/ Paint(c, {"huntgroup"}, [f \in Features |-> {Head(hlogQueue)}])
      BY <1>8 DEF SendHLog
    <3>3. shown \in [Contacts -> [Features -> Bits]]
      BY DEF TypeOK
    <3> QED
      BY <3>1, <3>2, <3>3, PaintType
  <2>5. hlogTodo' \subseteq Contacts /\ (hlogTodo' # {} => hlogQueue' # <<>>)
    BY <1>8, <2>q DEF SendHLog, TypeOK
  <2>6. budget' \in [Events -> Nat] /\ unpushed' \subseteq Features
    BY <1>8, <1>e, <1>f, SpendType DEF SendHLog, TypeOK
  <2> QED
    BY <1>8, <2>2, <2>4, <2>5, <2>6 DEF SendHLog, TypeOK
<1> QED
  BY <1>1, <1>2, <1>3, <1>4, <1>5, <1>6, <1>7, <1>8 DEF Serializer, HLogSerializer

LEMMA NextTypeOK == TypeOK /\ [Next]_vars => TypeOK'
<1>1. TypeOK /\ UNCHANGED vars => TypeOK'
  BY DEF TypeOK, vars
<1> QED
  BY <1>1, RegisterTrafficType, WriterType, SerializerType DEF Next

\* Every variable keeps its type in every behaviour.
THEOREM TypeCorrect == Spec => []TypeOK
<1> QED
  BY InitTypeOK, NextTypeOK, PTL DEF Spec

(***************************************************************************)
(* The inductive invariant CfwdInv.                                        *)
(***************************************************************************)

LEMMA InitCfwdInv == Init => CfwdInv
<1> SUFFICES ASSUME Init PROVE CfwdInv
  OBVIOUS
<1>1. TypeOK
  BY InitTypeOK
<1>2. SnapCurrent /\ DoneShown /\ ShownCurrent /\ UnboundIsBlank
  BY DEF Init, SnapCurrent, DoneShown, ShownCurrent, UnboundIsBlank
<1> QED
  BY <1>1, <1>2 DEF CfwdInv

\* A step outside the bulkupdate task that changes no phone's call-forward
\* display keeps the invariant, if what it writes will be read by a task.
LEMMA QuietStep ==
    ASSUME CfwdInv, TypeOK', UnboundIsBlank',
           UNCHANGED <<contacts, owed, phase, unread, snap, todo>>,
           \A c \in Contacts : shown'[c]["cf"] = shown[c]["cf"],
           db'["cf"] = db["cf"] \/ CfwdPending',
           CfwdPending => CfwdPending'
    PROVE  CfwdInv'
<1>1. contacts \subseteq Contacts
  BY DEF CfwdInv, TypeOK
<1>2. SnapCurrent' /\ DoneShown' /\ ShownCurrent'
  BY <1>1 DEF CfwdInv, SnapCurrent, DoneShown, ShownCurrent
<1> QED
  BY <1>2 DEF CfwdInv

\* A phone that comes shows nothing, one that goes does not matter.
LEMMA SessionStep ==
    ASSUME CfwdInv, TypeOK', NewSessions,
           UNCHANGED <<db, doing, queue, taskVars, unpushed>>
    PROVE  CfwdInv'
<1>1. CfwdPending' <=> CfwdPending
  BY DEF CfwdPending, Writing
<1>2. /\ contacts \subseteq Contacts /\ contacts' \subseteq Contacts
      /\ "cf" \in Features
  BY DEF CfwdInv, TypeOK, Features
<1>3. \A c \in contacts' \ contacts : shown'[c]["cf"] = {}
  BY <1>2 DEF NewSessions, CfwdInv, UnboundIsBlank, Blank
<1>4. \A c \in contacts' \cap contacts :
          shown'[c] = shown[c] /\ (c \in owed' <=> c \in owed)
  BY <1>2 DEF NewSessions
<1>5. UnboundIsBlank'
  BY DEF NewSessions, UnboundIsBlank
<1>6. SnapCurrent' /\ DoneShown' /\ ShownCurrent'
  BY <1>1, <1>3, <1>4 DEF CfwdInv, SnapCurrent, DoneShown, ShownCurrent
<1> QED
  BY <1>5, <1>6 DEF CfwdInv

\* The registrar and the hook.
LEMMA RegisterTrafficStep ==
    ASSUME CfwdInv, TypeOK', RegisterTraffic
    PROVE  CfwdInv'
<1>1. ASSUME NEW t \in Threads, NEW c \in Contacts, Register(t, c) \/ Deregister(t, c)
      PROVE  CfwdInv'
  BY <1>1, SessionStep DEF Register, Deregister
<1>2. ASSUME NEW c \in Contacts, Expire(c)
      PROVE  CfwdInv'
  BY <1>2, SessionStep DEF Expire
<1>q. ASSUME UNCHANGED <<contacts, db, doing, queue, taskVars, shown, owed, unpushed>>
      PROVE  CfwdInv'
  <2>1. UnboundIsBlank' /\ (CfwdPending => CfwdPending')
    BY <1>q DEF CfwdInv, UnboundIsBlank, CfwdPending, Writing
  <2> QED
    BY <1>q, <2>1, QuietStep
<1>3. ASSUME NEW t \in Threads, NEW c \in Contacts, Refresh(t, c)
      PROVE  CfwdInv'
  BY <1>3, <1>q DEF Refresh, RefreshContact
<1>5. ASSUME NEW t \in Threads, OtherAnswer(t)
      PROVE  CfwdInv'
  BY <1>5, <1>q DEF OtherAnswer, ChallengeRegister, KeepaliveOnRxRequest
<1>4. ASSUME NEW t \in Threads, BulkupdateOutgoingResponse(t)
      PROVE  CfwdInv'
  <2>1. PICK r \in resp[t] : queue' = queue \/ queue' = Append(queue, Canonical(r))
    BY <1>4 DEF BulkupdateOutgoingResponse
  <2>2. queue # <<>> => queue' # <<>>
    BY <2>1 DEF CfwdInv, TypeOK
  <2>3. UnboundIsBlank' /\ (CfwdPending => CfwdPending')
    BY <1>4, <2>2 DEF BulkupdateOutgoingResponse, CfwdInv, UnboundIsBlank,
       CfwdPending, Writing
  <2> QED
    BY <1>4, <2>3, QuietStep DEF BulkupdateOutgoingResponse
<1> QED
  BY <1>1, <1>2, <1>3, <1>4, <1>5 DEF RegisterTraffic

\* The writers: a command that writes CF has a REFER to queue, and a REFER
\* that is queued will read it.
LEMMA WriterStep ==
    ASSUME CfwdInv, TypeOK', NEW p \in Procs, Writer(p)
    PROVE  CfwdInv'
<1>t. TypeOK
  BY DEF CfwdInv
<1>1. ASSUME NEW f \in Features, NEW v \in BOOLEAN, SetFeature(p, f, v)
      PROVE  CfwdInv'
  <2>1. doing' = [doing EXCEPT ![p] = {[op |-> "push", feature |-> f]}]
        /\ doing[p] = {}
    BY <1>1 DEF SetFeature
  <2>2. \A q \in Procs : doing'[q] = IF q = p THEN {[op |-> "push", feature |-> f]} ELSE doing[q]
    BY <2>1, <1>t DEF TypeOK
  <2>3. Writing("cf") => Writing("cf")'
    BY <2>1, <2>2 DEF Writing
  <2>4. f = "cf" => Writing("cf")'
    <3>1. f = "cf" => [op |-> "push", feature |-> f] \in doing'[p]
      BY <2>2
    <3>2. [op |-> "push", feature |-> f].op = "push" /\ [op |-> "push", feature |-> f].feature = f
      OBVIOUS
    <3> QED
      BY <3>1, <3>2, Zenon DEF Writing
  <2>5. db'["cf"] = db["cf"] \/ f = "cf"
    BY <1>1, <1>t DEF SetFeature, TypeOK, Features
  <2>6. UnboundIsBlank' /\ (CfwdPending => CfwdPending') /\ (f = "cf" => CfwdPending')
    BY <1>1, <2>3, <2>4 DEF SetFeature, CfwdInv, UnboundIsBlank, CfwdPending
  <2> QED
    BY <1>1, <2>5, <2>6, QuietStep DEF SetFeature
<1>2. CASE QueueRefer(p)
  <2>1. PICK d \in doing[p] :
             /\ d.op = "push"
             /\ \/ /\ queue' = Append(queue, {})
                   /\ unpushed' = unpushed \ {d.feature}
                \/ /\ unpushed' = unpushed \cup {d.feature}
                   /\ UNCHANGED queue
    BY <1>2 DEF QueueRefer
  <2>2. doing[p] = {d} /\ \A q \in Procs \ {p} : doing'[q] = doing[q]
    BY <1>2, <2>1, <1>t DEF QueueRefer, TypeOK, Optional
  <2>3. Append(queue, {}) # <<>>
    <3>1. queue \in Seq(SUBSET Contacts) /\ {} \in SUBSET Contacts
      BY <1>t DEF TypeOK
    <3> QED
      BY <3>1, AppendNonEmpty
  <2>4. Writing("cf") => Writing("cf")' \/ d.feature = "cf"
    BY <2>2 DEF Writing
  <2>5. CfwdPending => CfwdPending'
    BY <1>2, <2>1, <2>3, <2>4 DEF QueueRefer, CfwdPending
  <2>6. UnboundIsBlank'
    BY <1>2 DEF QueueRefer, CfwdInv, UnboundIsBlank
  <2> QED
    BY <1>2, <2>5, <2>6, QuietStep DEF QueueRefer
<1>3. CASE HLogRead(p) \/ HLogSet(p) \/ QueueHLogUpdate(p)
  <2>1. /\ \A d \in doing[p] : d.op # "push"
        /\ \A q \in Procs \ {p} : doing'[q] = doing[q]
    <3>1. PICK d : doing[p] = {} \/ (doing[p] = {d} /\ d.op \in {"toggle", "hlog"})
      <4>0. doing[p] \in Optional(Doing)
        BY <1>t DEF TypeOK
      <4>1. doing[p] = {} \/ \E d \in Doing : doing[p] = {d}
        BY <4>0 DEF Optional
      <4> QED
        BY <1>3, <4>1 DEF HLogRead, HLogSet, QueueHLogUpdate
    <3>2. \A q \in Procs \ {p} : doing'[q] = doing[q]
      BY <1>3, <1>t DEF HLogRead, HLogSet, QueueHLogUpdate, TypeOK
    <3> QED
      BY <3>1, <3>2
  <2>2. Writing("cf") => Writing("cf")'
    BY <2>1 DEF Writing
  <2>3. /\ unpushed \subseteq unpushed'
        /\ UNCHANGED <<contacts, queue, taskVars, shown, owed>>
    BY <1>3 DEF HLogRead, HLogSet, QueueHLogUpdate
  <2>4. db'["cf"] = db["cf"]
    BY <1>3, <1>t DEF HLogRead, HLogSet, QueueHLogUpdate, TypeOK, Features
  <2>5. UnboundIsBlank' /\ (CfwdPending => CfwdPending')
    BY <2>2, <2>3 DEF CfwdInv, UnboundIsBlank, CfwdPending
  <2> QED
    BY <2>3, <2>4, <2>5, QuietStep
<1> QED
  BY <1>1, <1>2, <1>3 DEF Writer

\* A task that starts has CF still to read.
LEMMA StartTaskStep == CfwdInv /\ TypeOK' /\ StartTask => CfwdInv'
<1> SUFFICES ASSUME CfwdInv, TypeOK', StartTask PROVE CfwdInv'
  OBVIOUS
<1>1. unread' # <<>> /\ unread'[Len(unread')] = "cf" /\ phase' = "read"
  BY DEF StartTask, ReadOrder
<1>2. CfwdPending'
  BY <1>1 DEF CfwdPending
<1>3. SnapCurrent' /\ DoneShown' /\ ShownCurrent'
  BY <1>1, <1>2 DEF SnapCurrent, DoneShown, ShownCurrent
<1>4. UnboundIsBlank'
  BY DEF StartTask, CfwdInv, UnboundIsBlank
<1> QED
  BY <1>3, <1>4 DEF CfwdInv

\* The last feature a task reads is CF, and that is when it becomes current.
LEMMA CfwdIsReadLast ==
    ASSUME CfwdInv, ReadFeature
    PROVE  /\ unread' # <<>> => unread'[Len(unread')] = "cf"
           /\ unread' = <<>> => snap'["cf"] = {db["cf"]}
<1>t. TypeOK /\ unread # <<>> /\ unread' = Tail(unread) /\ phase = "read" /\ phase' = "read"
  BY DEF CfwdInv, ReadFeature
<1>s. unread \in Seq(Features) /\ Len(unread) \in Nat /\ Len(unread) # 0
  BY <1>t DEF TypeOK
<1>1. unread[Len(unread)] = "cf"
  BY <1>t DEF CfwdInv, SnapCurrent
<1>2. unread' # <<>> => unread'[Len(unread')] = "cf"
  <2> SUFFICES ASSUME unread' # <<>> PROVE unread'[Len(unread')] = "cf"
    OBVIOUS
  <2>1. Len(unread') = Len(unread) - 1 /\ Len(unread') # 0
    BY <1>t, <1>s
  <2>2. unread'[Len(unread')] = unread[Len(unread') + 1]
    BY <1>t, <1>s, <2>1
  <2> QED
    BY <1>1, <1>s, <2>1, <2>2
<1>3. unread' = <<>> => Head(unread) = "cf"
  <2> SUFFICES ASSUME unread' = <<>> PROVE Head(unread) = "cf"
    OBVIOUS
  <2>1. Len(Tail(unread)) = Len(unread) - 1
    BY <1>t, <1>s
  <2>e. Len(<<>>) = 0
    OBVIOUS
  <2>z. Len(Tail(unread)) = 0
    BY <1>t, <2>e, Zenon
  <2>2. \A n \in Nat : n - 1 = 0 => n = 1
    OBVIOUS
  <2>3. Len(unread) = 1
    BY <1>s, <2>1, <2>z, <2>2, Zenon
  <2>4. Head(unread) = unread[1]
    BY <1>t, <1>s
  <2> QED
    BY <1>1, <2>3, <2>4
<1>4. unread' = <<>> => snap'["cf"] = {db["cf"]}
  BY <1>t, <1>3 DEF ReadFeature, TypeOK, Features
<1> QED
  BY <1>2, <1>4

LEMMA ReadFeatureStep == CfwdInv /\ TypeOK' /\ ReadFeature => CfwdInv'
<1> SUFFICES ASSUME CfwdInv, TypeOK', ReadFeature PROVE CfwdInv'
  OBVIOUS
<1>1. SnapCurrent'
  BY CfwdIsReadLast DEF ReadFeature, SnapCurrent, CfwdPending
<1>2. DoneShown' /\ ShownCurrent'
  BY DEF ReadFeature, DoneShown, ShownCurrent
<1>3. UnboundIsBlank'
  BY DEF ReadFeature, CfwdInv, UnboundIsBlank
<1> QED
  BY <1>1, <1>2, <1>3 DEF CfwdInv

\* Every contact is still to be sent to.
LEMMA RetrieveContactsStep == CfwdInv /\ TypeOK' /\ RetrieveContacts => CfwdInv'
<1> SUFFICES ASSUME CfwdInv, TypeOK', RetrieveContacts PROVE CfwdInv'
  OBVIOUS
<1>1. CfwdPending => CfwdPending'
  BY DEF RetrieveContacts, CfwdPending, Writing
<1>2. SnapCurrent' /\ UnboundIsBlank'
  BY <1>1 DEF RetrieveContacts, CfwdInv, SnapCurrent, UnboundIsBlank
<1>3. DoneShown' /\ ShownCurrent'
  BY DEF RetrieveContacts, DoneShown, ShownCurrent
<1> QED
  BY <1>2, <1>3 DEF CfwdInv

\* The contact sent to shows what was read, or is owed its REFER.
LEMMA SendReferStep ==
    ASSUME CfwdInv, TypeOK', NEW c \in Contacts, SendRefer(c)
    PROVE  CfwdInv'
<1>t. /\ shown \in [Contacts -> [Features -> Bits]] /\ contacts \subseteq Contacts
      /\ snap \in [Features -> Bits] /\ "cf" \in Features
  BY DEF CfwdInv, TypeOK, Features
<1>1. CfwdPending' <=> CfwdPending
  BY DEF SendRefer, CfwdPending, Writing
<1>2. \A d \in Contacts \ {c} : shown'[d] = shown[d] /\ (d \in owed' <=> d \in owed)
  BY <1>t DEF SendRefer, Paint
<1>3. c \in contacts => c \in owed' \/ shown'[c]["cf"] = snap["cf"]
  BY <1>t DEF SendRefer, Paint
<1>4. c \notin contacts => shown'[c] = shown[c]
  BY DEF SendRefer
<1>5. SnapCurrent' /\ ShownCurrent'
  BY <1>1 DEF SendRefer, CfwdInv, SnapCurrent, ShownCurrent
<1>6. DoneShown'
  BY <1>t, <1>2, <1>3 DEF SendRefer, CfwdInv, DoneShown
<1>7. UnboundIsBlank'
  BY <1>t, <1>2, <1>4 DEF SendRefer, CfwdInv, UnboundIsBlank
<1> QED
  BY <1>5, <1>6, <1>7 DEF CfwdInv

\* When all contacts are done, what they show is what was read.
LEMMA TaskDoneStep == CfwdInv /\ TypeOK' /\ TaskDone => CfwdInv'
<1> SUFFICES ASSUME CfwdInv, TypeOK', TaskDone PROVE CfwdInv'
  OBVIOUS
<1>1. /\ phase = "send" /\ todo = {} /\ phase' \in {"idle", "link"}
      /\ UNCHANGED <<contacts, db, doing, queue, unread, snap, todo, shown, owed, unpushed>>
  BY DEF TaskDone
<1>2. CfwdPending => CfwdPending'
  BY <1>1 DEF CfwdPending, Writing
<1>3. ShownCurrent'
  BY <1>1, <1>2 DEF CfwdInv, SnapCurrent, DoneShown, ShownCurrent
<1>4. SnapCurrent' /\ DoneShown' /\ UnboundIsBlank'
  BY <1>1 DEF CfwdInv, SnapCurrent, DoneShown, UnboundIsBlank
<1> QED
  BY <1>3, <1>4 DEF CfwdInv

\* The commit's second half disturbs nothing that was said about CF.
LEMMA RememberLinkStep == CfwdInv /\ TypeOK' /\ RememberLink => CfwdInv'
<1> SUFFICES ASSUME CfwdInv, TypeOK', RememberLink PROVE CfwdInv'
  OBVIOUS
<1>1. /\ phase = "link" /\ phase' = "idle"
      /\ UNCHANGED <<contacts, db, doing, queue, unread, snap, todo, shown, owed, unpushed>>
  BY DEF RememberLink, CfwdInv
<1>2. CfwdPending => CfwdPending'
  BY <1>1 DEF CfwdPending, Writing
<1>3. ShownCurrent'
  BY <1>1, <1>2 DEF CfwdInv, ShownCurrent
<1>4. SnapCurrent' /\ DoneShown' /\ UnboundIsBlank'
  BY <1>1 DEF CfwdInv, SnapCurrent, DoneShown, UnboundIsBlank
<1> QED
  BY <1>3, <1>4 DEF CfwdInv

\* The HLog answer paints nothing but the hunt-group login.
LEMMA HLogSerializerStep ==
    ASSUME CfwdInv, TypeOK', HLogSerializer
    PROVE  CfwdInv'
<1>t. shown \in [Contacts -> [Features -> Bits]] /\ "cf" \in Features /\ "cf" # "huntgroup"
  BY DEF CfwdInv, TypeOK, Features
<1>1. CASE StartHLog
  <2>1. UnboundIsBlank' /\ (CfwdPending => CfwdPending')
    BY <1>1 DEF StartHLog, CfwdInv, UnboundIsBlank, CfwdPending, Writing
  <2> QED
    BY <1>1, <2>1, QuietStep DEF StartHLog
<1>2. ASSUME NEW c \in Contacts, SendHLog(c)
      PROVE  CfwdInv'
  <2>1. \A d \in Contacts : shown'[d]["cf"] = shown[d]["cf"]
    BY <1>2, <1>t DEF SendHLog, Paint
  <2>2. UnboundIsBlank'
    BY <1>2, <1>t DEF SendHLog, Paint, CfwdInv, UnboundIsBlank
  <2>3. unpushed \subseteq unpushed'
    BY <1>2 DEF SendHLog
  <2>4. CfwdPending => CfwdPending'
    BY <1>2, <2>3 DEF SendHLog, CfwdPending, Writing
  <2> QED
    BY <1>2, <2>1, <2>2, <2>4, QuietStep DEF SendHLog
<1> QED
  BY <1>1, <1>2 DEF HLogSerializer

\* A forced push queues a task; the DND softkey changes no CF.
LEMMA OtherStep ==
    ASSUME CfwdInv, TypeOK',
           \/ CliCiscoBulkupdate
           \/ \E c \in Contacts : PressDnd(c) \/ HandleDndPublishBody(c)
    PROVE  CfwdInv'
<1>t. /\ shown \in [Contacts -> [Features -> Bits]] /\ contacts \subseteq Contacts
      /\ queue \in Seq(SUBSET Contacts) /\ {} \in SUBSET Contacts
      /\ db \in [Features -> BOOLEAN]
      /\ "cf" \in Features /\ "cf" # "dnd"
  BY DEF CfwdInv, TypeOK, Features
<1>1. CASE CliCiscoBulkupdate
  <2>1. queue' # <<>>
    BY <1>1, <1>t, AppendNonEmpty DEF CliCiscoBulkupdate
  <2>2. UnboundIsBlank' /\ CfwdPending'
    BY <1>1, <2>1 DEF CliCiscoBulkupdate, CfwdInv, UnboundIsBlank, CfwdPending
  <2> QED
    BY <1>1, <2>2, QuietStep DEF CliCiscoBulkupdate
<1>2. ASSUME NEW c \in Contacts, PressDnd(c)
      PROVE  CfwdInv'
  <2>1. \A d \in Contacts : shown'[d]["cf"] = shown[d]["cf"]
    BY <1>2, <1>t DEF PressDnd
  <2>2. UnboundIsBlank'
    BY <1>2, <1>t DEF PressDnd, CfwdInv, UnboundIsBlank
  <2>3. CfwdPending => CfwdPending'
    BY <1>2 DEF PressDnd, CfwdPending, Writing
  <2> QED
    BY <1>2, <2>1, <2>2, <2>3, QuietStep DEF PressDnd
<1>3. ASSUME NEW c \in Contacts, HandleDndPublishBody(c)
      PROVE  CfwdInv'
  <2>1. db'["cf"] = db["cf"]
    BY <1>3, <1>t DEF HandleDndPublishBody
  <2>2. UnboundIsBlank' /\ (CfwdPending => CfwdPending')
    BY <1>3 DEF HandleDndPublishBody, CfwdInv, UnboundIsBlank, CfwdPending, Writing
  <2> QED
    BY <1>3, <2>1, <2>2, QuietStep DEF HandleDndPublishBody
<1> QED
  BY <1>1, <1>2, <1>3

LEMMA NextCfwdInv == CfwdInv /\ [Next]_vars => CfwdInv'
<1> SUFFICES ASSUME CfwdInv, [Next]_vars PROVE CfwdInv'
  OBVIOUS
<1>t. TypeOK'
  BY NextTypeOK DEF CfwdInv
<1>1. CASE UNCHANGED vars
  <2>1. UNCHANGED <<contacts, db, doing, queue, phase, unread, snap, todo, shown, owed, unpushed>>
    BY <1>1 DEF vars
  <2>2. CfwdPending' <=> CfwdPending
    BY <2>1 DEF CfwdPending, Writing
  <2> QED
    BY <1>t, <2>1, <2>2 DEF CfwdInv, SnapCurrent, DoneShown, ShownCurrent, UnboundIsBlank
<1>2. CASE Serializer
  BY <1>t, <1>2, StartTaskStep, ReadFeatureStep, RetrieveContactsStep,
     SendReferStep, TaskDoneStep, RememberLinkStep DEF Serializer
<1> QED
  BY <1>t, <1>1, <1>2, RegisterTrafficStep, WriterStep, OtherStep,
     HLogSerializerStep DEF Next

\* The inductive invariant: what a task has read of CF, and what the phones
\* it is done with show, is current or will be read again.
THEOREM CfwdInvariant == Spec => []CfwdInv
<1> QED
  BY InitCfwdInv, NextCfwdInv, PTL DEF Spec

\* With nothing on its way, every phone that was sent to shows the
\* call-forward state of astdb.
THEOREM CfwdCurrentHolds == Spec => []CfwdCurrent
<1>1. CfwdInv => CfwdCurrent
  <2> SUFFICES ASSUME CfwdInv, Settled("cf") PROVE Shows("cf")
    BY DEF CfwdCurrent
  <2>1. ~Writing("cf")
    BY DEF Settled, Writing
  <2>2. ~CfwdPending
    BY <2>1 DEF Settled, CfwdPending
  <2> QED
    BY <2>2 DEF CfwdInv, ShownCurrent, Settled, Shows
<1> QED
  BY <1>1, CfwdInvariant, PTL

(***************************************************************************)
(* Whom the gate may skip.  SkipsOnlyPushed is false of a phone that comes
   back at a Contact the module still lists; that this is the only way is
   proved here.                                                            *)
(***************************************************************************)

\* The module still lists c: in its cache entry, or in that of the task that
\* has retrieved the contacts already and will link it.
Remembers(c) ==
    \/ c \in cache
    \/ phase \in {"send", "link"} /\ c \in canonical

\* No phone registers at a Contact while the module still lists it.
ComesAfresh == \A c \in contacts' \ contacts : ~Remembers(c)

HasCfwd(c) == shown[c]["cf"] # {}

\* What is sent is what was read, never nothing.
SnapInHand ==
    (phase = "read" /\ unread = <<>>) \/ phase = "send" => snap["cf"] # {}

\* A task that has missed nobody has sent, or will send, the call-forward
\* state to every phone of its REGISTER.
TaskTells ==
    phase = "send" /\ ~missed =>
        \A c \in (canonical \cap contacts) \ todo : HasCfwd(c)

\* Who is to be linked, and who is in the entry, was sent it.
LinkedWerePushed ==
    /\ phase = "link" => \A c \in canonical \cap contacts : HasCfwd(c)
    /\ \A c \in cache \cap contacts : HasCfwd(c)

SkipInv == SnapInHand /\ TaskTells /\ LinkedWerePushed

LEMMA InitSkipInv == Init => SkipInv
BY DEF Init, SkipInv, SnapInHand, TaskTells, LinkedWerePushed, NoEntry

\* Steps outside the task's own: no entry is linked, and a phone that is bound
\* afterwards shows the call-forward state it showed.
LEMMA OthersKeepSkipInv ==
    ASSUME SkipInv, ComesAfresh, UNCHANGED taskVars, cache' \subseteq cache,
           \A c \in contacts' : HasCfwd(c) => HasCfwd(c)'
    PROVE  SkipInv'
<1>1. \A c \in contacts' : Remembers(c) => c \in contacts
  BY DEF ComesAfresh
<1>2. SnapInHand'
  BY DEF SkipInv, SnapInHand
<1>3. TaskTells'
  BY <1>1 DEF SkipInv, TaskTells, Remembers
<1>4. LinkedWerePushed'
  BY <1>1 DEF SkipInv, LinkedWerePushed, Remembers
<1> QED
  BY <1>2, <1>3, <1>4 DEF SkipInv

\* The registrar, the hook and the stutter are such steps.
LEMMA TrafficSkipStep ==
    ASSUME CfwdInv, TypeOK', SkipInv, ComesAfresh, RegisterTraffic \/ UNCHANGED vars
    PROVE  SkipInv'
<1>1. UNCHANGED taskVars /\ cache' \subseteq cache /\ (NewSessions \/ UNCHANGED shown)
  <2>1. ASSUME NEW t \in Threads, BulkupdateOutgoingResponse(t)
        PROVE  UNCHANGED <<taskVars, shown>> /\ cache' \subseteq cache
    BY <2>1 DEF BulkupdateOutgoingResponse, NoEntry
  <2>2. CASE UNCHANGED vars
    BY <2>2 DEF vars
  <2> QED
    BY <2>1, <2>2 DEF RegisterTraffic, Register, Refresh, Deregister, Expire,
       OtherAnswer
<1>2. \A c \in contacts' : shown'[c] = shown[c]
  BY <1>1 DEF NewSessions, TypeOK
<1> QED
  BY <1>1, <1>2, OthersKeepSkipInv DEF HasCfwd

\* Nor do the writers, a DND key, a PUBLISH or an HLog answer change the
\* call-forward state a phone shows.
LEMMA WriterSkipStep ==
    ASSUME CfwdInv, SkipInv, ComesAfresh,
           \/ \E p \in Procs : Writer(p)
           \/ CliCiscoBulkupdate
           \/ \E c \in Contacts : PressDnd(c) \/ HandleDndPublishBody(c)
           \/ HLogSerializer
    PROVE  SkipInv'
<1>t. /\ shown \in [Contacts -> [Features -> Bits]] /\ contacts \subseteq Contacts
      /\ "cf" \in Features /\ "cf" # "huntgroup" /\ "cf" # "dnd"
  BY DEF CfwdInv, TypeOK, Features
<1>1. UNCHANGED <<contacts, taskVars, cache>>
  BY DEF Writer, SetFeature, QueueRefer, HLogRead, HLogSet, QueueHLogUpdate,
     CliCiscoBulkupdate, PressDnd, HandleDndPublishBody, HLogSerializer,
     StartHLog, SendHLog
<1>2. \A c \in Contacts : shown'[c]["cf"] = shown[c]["cf"]
  <2>1. CASE \E p \in Procs : Writer(p)
    BY <2>1 DEF Writer, SetFeature, QueueRefer, HLogRead, HLogSet, QueueHLogUpdate
  <2>2. CASE CliCiscoBulkupdate \/ \E c \in Contacts : HandleDndPublishBody(c)
    BY <2>2 DEF CliCiscoBulkupdate, HandleDndPublishBody
  <2>3. ASSUME NEW c \in Contacts, PressDnd(c)
        PROVE  \A d \in Contacts : shown'[d]["cf"] = shown[d]["cf"]
    BY <1>t, <2>3 DEF PressDnd
  <2>4. CASE StartHLog
    BY <2>4 DEF StartHLog
  <2>5. ASSUME NEW c \in Contacts, SendHLog(c)
        PROVE  \A d \in Contacts : shown'[d]["cf"] = shown[d]["cf"]
    BY <1>t, <2>5 DEF SendHLog, Paint
  <2> QED
    BY <2>1, <2>2, <2>3, <2>4, <2>5 DEF HLogSerializer
<1> QED
  BY <1>t, <1>1, <1>2, OthersKeepSkipInv DEF HasCfwd

\* The bulkupdate task.
LEMMA TaskSkipStep ==
    ASSUME CfwdInv, SkipInv, Serializer
    PROVE  SkipInv'
<1>t. /\ shown \in [Contacts -> [Features -> Bits]] /\ contacts \subseteq Contacts
      /\ snap \in [Features -> Bits] /\ "cf" \in Features
  BY DEF CfwdInv, TypeOK, Features
<1>u. contacts' = contacts
  BY DEF Serializer, StartTask, ReadFeature, RetrieveContacts, SendRefer,
     TaskDone, RememberLink
<1>1. CASE StartTask
  <2>1. phase' = "read" /\ unread' # <<>> /\ UNCHANGED <<cache, shown>>
    BY <1>1 DEF StartTask, ReadOrder
  <2> QED
    BY <1>u, <2>1 DEF SkipInv, SnapInHand, TaskTells, LinkedWerePushed, HasCfwd
<1>2. CASE ReadFeature
  <2>1. unread' = <<>> => snap'["cf"] # {}
    BY <1>2, CfwdIsReadLast
  <2>2. phase' = "read" /\ UNCHANGED <<cache, shown>>
    BY <1>2 DEF ReadFeature
  <2> QED
    BY <1>u, <2>1, <2>2 DEF SkipInv, SnapInHand, TaskTells, LinkedWerePushed, HasCfwd
<1>3. CASE RetrieveContacts
  BY <1>3 DEF RetrieveContacts, SkipInv, SnapInHand, TaskTells, LinkedWerePushed,
     HasCfwd
<1>4. ASSUME NEW c \in Contacts, SendRefer(c)
      PROVE  SkipInv'
  <2>1. /\ UNCHANGED <<contacts, cache, phase, canonical, unread, snap>>
        /\ phase = "send" /\ snap["cf"] # {} /\ todo' = todo \ {c}
        /\ missed' = missed \/ missed' = TRUE
    BY <1>4 DEF SendRefer, SkipInv, SnapInHand
  <2>2. \A d \in Contacts \ {c} : shown'[d] = shown[d]
    BY <1>t, <1>4 DEF SendRefer, Paint
  <2>3. /\ shown'[c] = shown[c] \/ shown'[c]["cf"] = snap["cf"]
        /\ ~missed' /\ c \in contacts => shown'[c]["cf"] = snap["cf"]
    BY <1>t, <1>4 DEF SendRefer, Paint
  <2>4. \A d \in Contacts : HasCfwd(d) => HasCfwd(d)'
    BY <2>1, <2>2, <2>3 DEF HasCfwd
  <2>5. ~missed' /\ c \in contacts => HasCfwd(c)'
    BY <2>1, <2>3 DEF HasCfwd
  <2>6. SnapInHand'
    BY <2>1 DEF SnapInHand
  <2>7. TaskTells'
    BY <1>t, <2>1, <2>4, <2>5 DEF SkipInv, TaskTells
  <2>8. LinkedWerePushed'
    BY <1>t, <2>1, <2>4 DEF SkipInv, LinkedWerePushed
  <2> QED
    BY <2>6, <2>7, <2>8 DEF SkipInv
<1>5. CASE TaskDone
  <2>1. /\ phase = "send" /\ todo = {} /\ phase' \in {"idle", "link"}
        /\ phase' = "link" => ~missed
        /\ cache' \subseteq cache /\ UNCHANGED <<canonical, shown>>
    BY <1>5 DEF TaskDone, AllSent, NoEntry
  <2> QED
    BY <1>u, <2>1 DEF SkipInv, SnapInHand, TaskTells, LinkedWerePushed, HasCfwd
<1>6. CASE RememberLink
  BY <1>u, <1>6 DEF RememberLink, SkipInv, SnapInHand, TaskTells, LinkedWerePushed,
     HasCfwd
<1> QED
  BY <1>1, <1>2, <1>3, <1>4, <1>5, <1>6 DEF Serializer

LEMMA NextSkipInv == CfwdInv /\ SkipInv /\ ComesAfresh /\ [Next]_vars => SkipInv'
<1>1. CfwdInv /\ [Next]_vars => TypeOK'
  BY NextTypeOK DEF CfwdInv
<1> QED
  BY <1>1, TrafficSkipStep, WriterSkipStep, TaskSkipStep DEF Next

\* As long as no phone registers at a Contact that is still listed in the
\* cache entry, or by the task about to replace it, cisco_register_should_fire()
\* skips a REGISTER only when every phone of the AOR has been sent the
\* call-forward state in its present session.
THEOREM SkippedWerePushed == Spec /\ [][ComesAfresh]_vars => []SkipsOnlyPushed
<1>1. SkipInv => SkipsOnlyPushed
  <2> SUFFICES ASSUME SkipInv, contacts # {},
                      ShouldFire(Ok(contacts), cache) = "skip"
               PROVE  \A c \in contacts : shown[c]["cf"] # {}
    BY DEF SkipsOnlyPushed
  <2>1. cache = contacts
    BY DEF ShouldFire, AddressChanged, RegistersContact, Canonical, Ok
  <2> QED
    BY <2>1 DEF SkipInv, LinkedWerePushed, HasCfwd
<1>2. CfwdInv /\ SkipInv /\ [Next]_vars /\ [ComesAfresh]_vars => SkipInv'
  <2>1. UNCHANGED vars => ComesAfresh
    BY DEF vars, ComesAfresh
  <2> QED
    BY <2>1, NextSkipInv
<1> QED
  BY <1>1, <1>2, InitSkipInv, CfwdInvariant, PTL DEF Spec

(***************************************************************************)
(* The refinement of StatePush.                                            *)
(***************************************************************************)

\* Every step of BulkPush is one of Bulkupdate, whose invariant it keeps.
LEMMA PushNextIsNext == [PushNext]_pushVars => [Next]_vars
<1>1. "cf" \in Features
  BY DEF Features
<1> QED
  BY <1>1 DEF PushNext, pushVars, SetCfwd, SetOther, ReadCfwd, Delivered,
     Traffic, Otherwise, Next, Serializer, Writer

LEMMA PushCfwdInv == CfwdInv /\ [PushNext]_pushVars => CfwdInv'
BY PushNextIsNext, NextCfwdInv

\* Where one target is all that was ever set, it is the first and the last.
LEMMA SingletonLog ==
    ASSUME NEW v \in BOOLEAN
    PROVE  /\ <<v>> \in Seq(BOOLEAN) /\ Len(<<v>>) = 1
           /\ <<v>> # <<>> /\ <<v>>[1] = v
OBVIOUS

LEMMA InitPushInv == PushInit => PushInv
<1> SUFFICES ASSUME PushInit PROVE PushInv
  OBVIOUS
<1>1. CfwdInv /\ Init
  BY InitCfwdInv DEF PushInit
<1>2. db["cf"] \in BOOLEAN
  BY <1>1 DEF CfwdInv, TypeOK, Features
<1>3. PushTypeOK /\ LogEndsNow
  BY <1>2, SingletonLog DEF PushInit, PushTypeOK, LogEndsNow
<1>4. NobodyIsAhead
  BY <1>1 DEF Init, NobodyIsAhead, InHand
<1> QED
  BY <1>1, <1>3, <1>4 DEF PushInv

\* What a step that neither sends nor writes or reads CF leaves alone.
LEMMA IdleStep ==
    ASSUME PushInv, CfwdInv', UNCHANGED <<contacts, log, stamp, upto>>,
           db'["cf"] = db["cf"],
           \A c \in Contacts : shown'[c]["cf"] = shown[c]["cf"],
           InHand' => InHand /\ snap'["cf"] = snap["cf"]
    PROVE  PushInv' /\ UNCHANGED Push!vars
<1>1. UNCHANGED Push!vars
  BY DEF Push!vars
<1>2. PushTypeOK' /\ LogEndsNow'
  BY DEF PushInv, PushTypeOK, LogEndsNow
<1>3. NobodyIsAhead'
  BY DEF PushInv, NobodyIsAhead
<1> QED
  BY <1>1, <1>2, <1>3 DEF PushInv

\* A command that sets the target is a change of the item.
LEMMA ChangeStep ==
    ASSUME PushInv, CfwdInv', NEW p \in Procs, SetCfwd(p),
           UNCHANGED <<stamp, upto>>
    PROVE  PushInv' /\ [Push!Next]_(Push!vars)
<1>1. PICK v \in BOOLEAN : SetFeature(p, "cf", v)
  BY DEF SetCfwd
<1>2. "cf" \in Features /\ db \in [Features -> BOOLEAN] /\ log \in Seq(BOOLEAN)
  BY DEF PushInv, PushTypeOK, CfwdInv, TypeOK, Features
<1>3. /\ UNCHANGED <<contacts, shown, phase, unread, snap>>
      /\ db'["cf"] = v
  BY <1>1, <1>2 DEF SetFeature
<1>4. log' = Append(log, v)
  BY <1>3 DEF SetCfwd
<1>5. /\ log' \in Seq(BOOLEAN)
      /\ Len(log') = Len(log) + 1
      /\ log'[Len(log) + 1] = v
      /\ \A i \in 1..Len(log) : log'[i] = log[i]
      /\ Len(log) \in Nat
  BY <1>2, <1>4
<1>6. log' # <<>>
  BY <1>2, <1>4, AppendNonEmpty
<1>7. Push!Change("cf", v)
  BY <1>3, <1>4 DEF Push!Change
<1>8. PushTypeOK'
  BY <1>5 DEF PushInv, PushTypeOK
<1>9. LogEndsNow'
  BY <1>3, <1>5, <1>6 DEF PushInv, PushTypeOK, LogEndsNow
<1>10. NobodyIsAhead'
  BY <1>3, <1>5 DEF PushInv, NobodyIsAhead, InHand
<1>11. Push!Next
  BY <1>7 DEF Push!Next
<1> QED
  BY <1>8, <1>9, <1>10, <1>11 DEF PushInv

\* The task reads CF, the last feature it reads, at the end of the log.
LEMMA ReadStep ==
    ASSUME PushInv, CfwdInv', ReadCfwd, UNCHANGED <<log, upto>>
    PROVE  PushInv' /\ UNCHANGED Push!vars
<1>1. /\ phase = "read" /\ phase' = "read" /\ unread # <<>>
      /\ unread' = Tail(unread)
      /\ snap' = [snap EXCEPT ![Head(unread)] = {db[Head(unread)]}]
      /\ UNCHANGED <<contacts, db, shown>>
  BY DEF ReadCfwd, ReadFeature
<1>2. /\ unread \in Seq(Features) /\ snap \in [Features -> Bits]
      /\ log \in Seq(BOOLEAN) /\ stamp \in Nat /\ "cf" \in Features
      /\ unread[Len(unread)] = "cf"
  BY <1>1 DEF PushInv, PushTypeOK, CfwdInv, TypeOK, SnapCurrent, Features
<1>3. stamp' = IF Head(unread) = "cf" THEN Len(log) ELSE stamp
  BY DEF ReadCfwd
<1>4. Len(log) \in Nat /\ Len(log) \in 1..Len(log)
  <2>1. Len(log) \in Nat /\ (Len(log) = 0 => log = <<>>)
    BY <1>2
  <2> QED
    BY <2>1 DEF PushInv, LogEndsNow
<1>5. UNCHANGED Push!vars
  BY <1>1 DEF Push!vars
<1>6. PushTypeOK' /\ LogEndsNow'
  BY <1>1, <1>3, <1>4 DEF PushInv, PushTypeOK, LogEndsNow
<1>7. NobodyIsAhead'
  <2> SUFFICES ASSUME unread' = <<>>
               PROVE  /\ stamp' \in 1..Len(log)
                      /\ snap'["cf"] = {log[stamp']}
                      /\ \A c \in Contacts : upto[c] <= stamp'
    BY <1>1 DEF NobodyIsAhead, InHand
  <2>1. Head(unread) = "cf"
    <3>1. Len(unread) = 1
      <4>1. Len(Tail(unread)) = Len(unread) - 1 /\ Len(unread) \in Nat
        BY <1>1, <1>2
      <4>2. Len(<<>>) = 0
        OBVIOUS
      <4>3. Len(Tail(unread)) = 0
        BY <1>1, <4>2, Zenon
      <4> QED
        BY <4>1, <4>3
    <3> QED
      BY <1>2, <3>1
  <2>2. stamp' = Len(log) /\ snap'["cf"] = {db["cf"]}
    BY <1>1, <1>2, <1>3, <2>1
  <2> QED
    BY <1>4, <2>2 DEF PushInv, LogEndsNow
<1> QED
  BY <1>5, <1>6, <1>7 DEF PushInv

\* A REFER is delivered, and the phone is then at the place of the snapshot,
\* or it is not and the phone stays where it is.
LEMMA DeliverStep ==
    ASSUME PushInv, CfwdInv', NEW c \in Contacts, Delivered(c),
           UNCHANGED <<log, stamp>>
    PROVE  PushInv' /\ [Push!Next]_(Push!vars)
<1>1. /\ phase = "send" /\ phase' = "send" /\ SendRefer(c)
      /\ UNCHANGED <<contacts, db, unread, snap>>
  BY DEF Delivered, SendRefer
<1>2. /\ upto \in [Contacts -> Nat] /\ "cf" \in Features
      /\ shown \in [Contacts -> [Features -> Bits]]
      /\ budget \in [Events -> Nat] /\ "fault" \in Events
      /\ log \in Seq(BOOLEAN) /\ stamp \in Nat
  BY DEF PushInv, PushTypeOK, CfwdInv, TypeOK, Features, Events
<1>3. /\ stamp \in 1..Len(log) /\ snap["cf"] = {log[stamp]}
      /\ \A d \in Contacts : upto[d] <= stamp
  BY <1>1 DEF PushInv, NobodyIsAhead, InHand
<1>4. CASE c \in contacts /\ budget' = budget
  <2>1. upto' = [upto EXCEPT ![c] = stamp]
    BY <1>4 DEF Delivered
  <2>2. ~Spend("fault")
    BY <1>2, <1>4 DEF Spend
  <2>3. Paint(c, Features, snap)
    BY <1>1, <1>4, <2>2 DEF SendRefer
  <2>4. \A d \in Contacts :
           shown'[d]["cf"] = IF d = c THEN {log[stamp]} ELSE shown[d]["cf"]
    BY <1>2, <1>3, <2>3 DEF Paint
  <2>5. Push!Push(c, "cf")
    <3>1. stamp >= upto[c]
      BY <1>2, <1>3
    <3>2. [d \in Contacts |-> [f \in {"cf"} |-> upto'[d]]]
             = [[d \in Contacts |-> [f \in {"cf"} |-> upto[d]]]
                   EXCEPT ![c]["cf"] = stamp]
      BY <1>2, <2>1
    <3>3. [d \in Contacts |-> [f \in {"cf"} |-> shown'[d][f]]]
             = [[d \in Contacts |-> [f \in {"cf"} |-> shown[d][f]]]
                   EXCEPT ![c]["cf"] = {log[stamp]}]
      BY <2>4
    <3> QED
      BY <1>1, <1>3, <1>4, <3>1, <3>2, <3>3 DEF Push!Push
  <2>6. Push!Next
    BY <2>5 DEF Push!Next
  <2>7. PushTypeOK' /\ LogEndsNow' /\ NobodyIsAhead'
    <3>1. \A d \in Contacts : upto'[d] \in {upto[d], stamp}
      BY <1>2, <2>1
    <3>2. PushTypeOK'
      BY <1>2, <2>1 DEF PushTypeOK
    <3>3. Len(log) \in Nat
      BY <1>2
    <3>4. LogEndsNow'
      BY <1>1, <1>3, <3>1, <3>3 DEF PushInv, LogEndsNow
    <3>5. snap'["cf"] = snap["cf"] /\ \A d \in Contacts : upto'[d] <= stamp
      <4>1. stamp <= stamp
        BY <1>2
      <4>2. \A d \in Contacts : upto'[d] <= stamp
        BY <1>3, <3>1, <4>1
      <4> QED
        BY <1>1, <4>2
    <3>6. NobodyIsAhead'
      BY <1>3, <3>5 DEF NobodyIsAhead
    <3> QED
      BY <3>2, <3>4, <3>6
  <2> QED
    BY <2>6, <2>7 DEF PushInv
<1>5. CASE ~(c \in contacts /\ budget' = budget)
  <2>1. upto' = upto
    BY <1>5 DEF Delivered
  <2>2. shown' = shown
    BY <1>1, <1>5 DEF SendRefer
  <2>3. PushInv' /\ UNCHANGED Push!vars
    BY <1>1, <2>1, <2>2, IdleStep DEF InHand
  <2> QED
    BY <2>3
<1> QED
  BY <1>4, <1>5

\* Phones come and go, or nothing changes for any of them.
LEMMA TrafficStep ==
    ASSUME PushInv, CfwdInv', Traffic, UNCHANGED <<log, stamp>>
    PROVE  PushInv' /\ [Push!Next]_(Push!vars)
<1>1. /\ UNCHANGED <<db, phase, unread, snap>>
      /\ NewSessions \/ UNCHANGED <<contacts, shown>>
  BY DEF Traffic, RegisterTraffic, Register, Refresh, Deregister, Expire,
     OtherAnswer, BulkupdateOutgoingResponse, RefreshContact,
     ChallengeRegister, KeepaliveOnRxRequest
<1>2. /\ upto \in [Contacts -> Nat] /\ stamp \in Nat /\ log \in Seq(BOOLEAN)
      /\ contacts' \subseteq Contacts /\ "cf" \in Features
      /\ \A c \in Contacts \ contacts : shown[c] = Blank
  BY DEF PushInv, PushTypeOK, CfwdInv, TypeOK, UnboundIsBlank, Features
<1>3. upto' = [c \in Contacts |-> IF c \in contacts' THEN upto[c] ELSE 0]
  BY DEF Traffic
<1>4. \A c \in Contacts : upto'[c] \in Nat /\ upto'[c] <= upto[c]
  BY <1>2, <1>3
<1>5. PICK S \in SUBSET Contacts : S = contacts'
  BY <1>2
<1>6. \A c \in Contacts :
         shown'[c]["cf"] = IF c \in S THEN shown[c]["cf"] ELSE {}
  <2>1. Blank["cf"] = {}
    BY <1>2 DEF Blank
  <2>2. CASE NewSessions
    BY <1>5, <2>1, <2>2 DEF NewSessions
  <2>3. CASE UNCHANGED <<contacts, shown>>
    BY <1>2, <1>5, <2>1, <2>3
  <2> QED
    BY <1>1, <2>2, <2>3
<1>7. Push!Sessions(S)
  BY <1>3, <1>5, <1>6 DEF Push!Sessions, Push!Nothing, Push!Nowhere
<1>8. Push!Next
  BY <1>7 DEF Push!Next
<1>9. Len(log) \in Nat
  BY <1>2
<1>10. PushTypeOK'
  BY <1>2, <1>3, <1>4 DEF PushTypeOK
<1>11. LogEndsNow'
  BY <1>1, <1>2, <1>4, <1>9 DEF PushInv, LogEndsNow
<1>12. NobodyIsAhead'
  BY <1>1, <1>2, <1>4 DEF PushInv, NobodyIsAhead, InHand
<1> QED
  BY <1>8, <1>10, <1>11, <1>12 DEF PushInv

\* The rest of the module neither sends nor sets call forwarding, nor reads it.
LEMMA OtherwiseStep ==
    ASSUME PushInv, CfwdInv', Otherwise \/ UNCHANGED vars,
           UNCHANGED <<log, stamp, upto>>
    PROVE  PushInv' /\ UNCHANGED Push!vars
<1>1. /\ db \in [Features -> BOOLEAN] /\ "cf" \in Features
      /\ "dnd" \in Features /\ "huntgroup" \in Features
      /\ shown \in [Contacts -> [Features -> Bits]]
  BY DEF PushInv, CfwdInv, TypeOK, Features
<1>2. ASSUME NEW p \in Procs, SetOther(p)
      PROVE  db'["cf"] = db["cf"]
  BY <1>1, <1>2 DEF SetOther, SetFeature
<1>3. ASSUME NEW p \in Procs,
             SetOther(p) \/ QueueRefer(p) \/ HLogRead(p) \/ HLogSet(p)
             \/ QueueHLogUpdate(p)
      PROVE  /\ db'["cf"] = db["cf"]
             /\ UNCHANGED <<contacts, shown, phase, unread, snap>>
  BY <1>1, <1>2, <1>3
     DEF SetOther, SetFeature, QueueRefer, HLogRead, HLogSet, QueueHLogUpdate
<1>4. ASSUME NEW c \in Contacts, PressDnd(c) \/ HandleDndPublishBody(c)
      PROVE  /\ db'["cf"] = db["cf"]
             /\ \A d \in Contacts : shown'[d]["cf"] = shown[d]["cf"]
             /\ UNCHANGED <<contacts, phase, unread, snap>>
  <2>1. db'["cf"] = db["cf"]
    BY <1>1, <1>4 DEF PressDnd, HandleDndPublishBody
  <2>2. \A d \in Contacts : shown'[d]["cf"] = shown[d]["cf"]
    <3>1. CASE PressDnd(c)
      <4>1. PICK v \in BOOLEAN : shown' = [shown EXCEPT ![c]["dnd"] = {v}]
        BY <3>1 DEF PressDnd
      <4> QED
        BY <1>1, <4>1
    <3>2. CASE HandleDndPublishBody(c)
      BY <3>2 DEF HandleDndPublishBody
    <3> QED
      BY <1>4, <3>1, <3>2
  <2> QED
    BY <1>4, <2>1, <2>2 DEF PressDnd, HandleDndPublishBody
<1>5. ASSUME StartTask \/ RetrieveContacts \/ TaskDone \/ RememberLink
      PROVE  /\ UNCHANGED <<contacts, db, shown>>
             /\ InHand' => InHand /\ snap'["cf"] = snap["cf"]
  <2>1. ReadOrder # <<>>
    BY DEF ReadOrder
  <2> QED
    BY <1>5, <2>1
       DEF StartTask, RetrieveContacts, TaskDone, RememberLink, InHand
<1>6. ASSUME HLogSerializer
      PROVE  /\ UNCHANGED <<contacts, db, phase, unread, snap>>
             /\ \A d \in Contacts : shown'[d]["cf"] = shown[d]["cf"]
  <2>1. CASE StartHLog
    BY <2>1 DEF StartHLog
  <2>2. ASSUME NEW c \in Contacts, SendHLog(c)
        PROVE  \A d \in Contacts : shown'[d]["cf"] = shown[d]["cf"]
    <3>1. CASE shown' = shown
      BY <3>1
    <3>2. CASE Paint(c, {"huntgroup"}, [f \in Features |-> {Head(hlogQueue)}])
      BY <1>1, <3>2 DEF Paint
    <3> QED
      BY <2>2, <3>1, <3>2 DEF SendHLog
  <2> QED
    BY <1>6, <2>1, <2>2 DEF HLogSerializer, StartHLog, SendHLog
<1>7. CliCiscoBulkupdate \/ UNCHANGED vars
         => UNCHANGED <<contacts, db, shown, phase, unread, snap>>
  BY DEF CliCiscoBulkupdate, vars
<1>8. /\ contacts' = contacts /\ db'["cf"] = db["cf"]
      /\ \A c \in Contacts : shown'[c]["cf"] = shown[c]["cf"]
      /\ InHand' => InHand /\ snap'["cf"] = snap["cf"]
  BY <1>3, <1>4, <1>5, <1>6, <1>7 DEF Otherwise, InHand
<1> QED
  BY <1>8, IdleStep

\* Every step keeps the invariant and is a step of StatePush, or a stutter.
LEMMA PushSimulation ==
    PushInv /\ [PushNext]_pushVars => PushInv' /\ [Push!Next]_(Push!vars)
<1> SUFFICES ASSUME PushInv, [PushNext]_pushVars
             PROVE  PushInv' /\ [Push!Next]_(Push!vars)
  OBVIOUS
<1>1. CfwdInv'
  BY PushCfwdInv DEF PushInv
<1>2. ASSUME NEW p \in Procs, SetCfwd(p), UNCHANGED <<stamp, upto>>
      PROVE  PushInv' /\ [Push!Next]_(Push!vars)
  BY <1>1, <1>2, ChangeStep
<1>3. CASE ReadCfwd /\ UNCHANGED <<log, upto>>
  BY <1>1, <1>3, ReadStep
<1>4. ASSUME NEW c \in Contacts, Delivered(c), UNCHANGED <<log, stamp>>
      PROVE  PushInv' /\ [Push!Next]_(Push!vars)
  BY <1>1, <1>4, DeliverStep
<1>5. CASE Traffic /\ UNCHANGED <<log, stamp>>
  BY <1>1, <1>5, TrafficStep
<1>6. CASE (Otherwise \/ UNCHANGED vars) /\ UNCHANGED <<log, stamp, upto>>
  BY <1>1, <1>6, OtherwiseStep
<1> QED
  BY <1>2, <1>3, <1>4, <1>5, <1>6 DEF PushNext, pushVars

\* At the start nobody is registered and one target is set.
LEMMA PushInitSimulation == PushInit => Push!Init
<1> SUFFICES ASSUME PushInit PROVE Push!Init
  OBVIOUS
<1>1. db["cf"] \in BOOLEAN /\ "cf" \in Features /\ Init
  BY InitTypeOK DEF PushInit, TypeOK, Features
<1>2. [f \in {"cf"} |-> log] \in [{"cf"} -> {<<v>> : v \in BOOLEAN}]
  BY <1>1 DEF PushInit
<1>3. [c \in Contacts |-> [f \in {"cf"} |-> shown[c][f]]]
         = [c \in Contacts |-> [f \in {"cf"} |-> {}]]
  BY <1>1 DEF Init, Blank
<1> QED
  BY <1>1, <1>2, <1>3
     DEF PushInit, Init, Push!Init, Push!Nothing, Push!Nowhere

\* The invariant of the refinement holds in every behaviour.
THEOREM PushInvariant == PushSpec => []PushInv
<1> QED
  BY InitPushInv, PushSimulation, PTL DEF PushSpec

\* Bulkupdate implements what StatePush promises: whatever overlaps and fails,
\* the call-forward target a phone shows only moves forward.
THEOREM ImplementsStatePush == PushSpec => PhonesFollowCfwd
<1> QED
  BY PushInitSimulation, PushSimulation, PushInvariant, PTL
     DEF PushSpec, PhonesFollowCfwd, Push!SafeSpec

=============================================================================
