------------------------ MODULE UnsolicitedBlf_proofs ------------------------
(***************************************************************************)
(* Proofs about UnsolicitedBlf for every subscribe list, every number of
   contacts, threads and hint states, and every budget of environment events:
   type correctness; the inductive invariant LampInv, from which
   BaselineHonest and LampsCurrent follow; that only empty answers drop the
   cache entry; that the gate skips only phones that have their lamps, as
   long as none comes back while the module lists it; and that BlfPush
   implements StatePush.                                                   *)
(***************************************************************************)
EXTENDS BlfPush, Registrar_proofs

(***************************************************************************)
(* The queue.                                                              *)
(***************************************************************************)

\* Pushing a task (ast_sip_push_task) adds its extension to those queued for.
LEMMA QueuedAppend ==
    ASSUME NEW q \in Seq(Task), NEW t \in Task, NEW x
    PROVE  Queued(Append(q, t), x) <=> Queued(q, x) \/ t.extension = {x}
<1>1. Append(q, t) \in Seq(Task) /\ Len(Append(q, t)) = Len(q) + 1
  OBVIOUS
<1>2. \A i \in 1..Len(q) : Append(q, t)[i] = q[i]
  OBVIOUS
<1>3. Append(q, t)[Len(q) + 1] = t
  OBVIOUS
<1>4. Len(q) \in Nat
  OBVIOUS
<1> QED
  BY <1>1, <1>2, <1>3, <1>4 DEF Queued

\* Taking the head leaves what is behind it.
LEMMA QueuedTail ==
    ASSUME NEW q \in Seq(Task), q # <<>>, NEW x
    PROVE  Queued(q, x) <=> Head(q).extension = {x} \/ Queued(Tail(q), x)
<1>1. Len(q) \in Nat /\ Len(q) > 0 /\ Len(Tail(q)) = Len(q) - 1
  OBVIOUS
<1>2. Head(q) = q[1]
  OBVIOUS
<1>3. \A i \in 1..Len(Tail(q)) : Tail(q)[i] = q[i + 1]
  OBVIOUS
<1>4. ASSUME Queued(q, x) PROVE Head(q).extension = {x} \/ Queued(Tail(q), x)
  <2>1. PICK i \in 1..Len(q) : q[i].extension = {x}
    BY <1>4 DEF Queued
  <2>2. CASE i = 1
    BY <2>1, <2>2, <1>2
  <2>3. CASE i # 1
    <3>1. i - 1 \in 1..Len(Tail(q)) /\ Tail(q)[i - 1] = q[i]
      BY <2>3, <1>1, <1>3
    <3> QED
      BY <3>1, <2>1 DEF Queued
  <2> QED
    BY <2>2, <2>3
<1>5. ASSUME Queued(Tail(q), x) PROVE Queued(q, x)
  <2>1. PICK i \in 1..Len(Tail(q)) : Tail(q)[i].extension = {x}
    BY <1>5 DEF Queued
  <2>2. i + 1 \in 1..Len(q) /\ q[i + 1].extension = {x}
    BY <2>1, <1>1, <1>3
  <2> QED
    BY <2>2 DEF Queued
<1>6. Head(q).extension = {x} => Queued(q, x)
  BY <1>1, <1>2 DEF Queued
<1> QED
  BY <1>4, <1>5, <1>6

(***************************************************************************)
(* Types.                                                                  *)
(***************************************************************************)

\* The types of contacts and resp are part of TypeOK.
USE DEF RegistrarTypeOK

\* The tasks the hook and the callback push are well-formed.
LEMMA TaskTypes ==
    /\ \A S \in SUBSET Contacts : FanoutTask(S) \in Task
    /\ \A x \in Extens : ChangeTask(x) \in Task
BY DEF FanoutTask, ChangeTask, Task, Optional

\* A snapshot is the lamp of a hint state that occurs.
LEMMA SampleType ==
    ASSUME TypeOK, NEW x \in Extens
    PROVE  BlfQueryState(x) \in Lamps
<1>1. hint[x] \in Hints
  BY DEF TypeOK
<1> QED
  BY <1>1 DEF BlfQueryState, Lamps

\* Spending from the budget keeps it a budget.
LEMMA SpendType ==
    ASSUME NEW e \in Events, budget \in [Events -> Nat], Spend(e)
    PROVE  budget' \in [Events -> Nat]
BY DEF Spend

\* Darkening the phones that are not bound any more keeps sent well-formed.
LEMMA DarkenType ==
    ASSUME TypeOK, Darken
    PROVE  sent' \in [Pairs -> Optional(Lamps)]
BY DEF Darken, TypeOK, Optional

\* The same for one NOTIFY.
LEMMA SendType ==
    ASSUME TypeOK, NEW p \in Pairs, SendUnsolicitedNotify(p)
    PROVE  /\ sent' \in [Pairs -> Optional(Lamps)]
           /\ tried' \in BOOLEAN /\ missed' \in BOOLEAN
           /\ budget' \in [Events -> Nat]
<1>1. "fault" \in Events
  BY DEF Events
<1> QED
  BY <1>1, SpendType DEF SendUnsolicitedNotify, TypeOK

LEMMA InitTypeOK == Init => TypeOK
<1>1. {} \in Optional(Response) /\ {} \in Optional(Lamps) /\ {} \in Optional(Pairs)
  BY DEF Optional
<1>2. FanoutTask({}) \in Task
  BY TaskTypes
<1>3. <<>> \in Seq(Task)
  OBVIOUS
<1> QED
  BY <1>1, <1>2, <1>3, BlfConstants
     DEF Init, TypeOK, NoEntry, RegistrarTypeOK, NoAnswers

\* Every step of the registrar, the hook, the extension-state core and the
\* serializer keeps the types.
LEMMA NextTypeOK == TypeOK /\ [Next]_vars => TypeOK'
<1> SUFFICES ASSUME TypeOK, [Next]_vars PROVE TypeOK'
  OBVIOUS
<1> USE DEF registrarVars, coreVars, taskVars
<1>e. /\ "register" \in Events /\ "deregister" \in Events
      /\ "expire" \in Events /\ "challenge" \in Events
      /\ "heartbeat" \in Events /\ "hint" \in Events /\ "fault" \in Events
  BY DEF Events
<1>h. queue # <<>> => Head(queue) \in Task /\ Tail(queue) \in Seq(Task)
  BY DEF TypeOK
<1>x. \A t \in Task : \A x : x \in t.extension => x \in Extens
  BY DEF Task, Optional
<1>r. contacts \subseteq Contacts /\ resp \in [Threads -> Optional(Response)]
  BY DEF TypeOK
<1>1. ASSUME NEW t \in Threads, NEW c \in Contacts, Register(t, c)
      PROVE  TypeOK'
  <2>1. RegistrarTypeOK'
    BY <1>1, <1>r, RegistrarStepType DEF Register, RegistrarStep
  <2>2. sent' \in [Pairs -> Optional(Lamps)]
    BY <1>1, DarkenType DEF Register
  <2>3. budget' \in [Events -> Nat]
    BY <1>1, <1>e, SpendType DEF Register, TypeOK
  <2> QED
    BY <1>1, <2>1, <2>2, <2>3 DEF Register, TypeOK
<1>2. ASSUME NEW t \in Threads, NEW c \in Contacts, Refresh(t, c)
      PROVE  TypeOK'
  <2>1. RegistrarTypeOK'
    BY <1>2, <1>r, RegistrarStepType DEF Refresh, RegistrarStep
  <2> QED
    BY <1>2, <2>1 DEF Refresh, TypeOK
<1>3. ASSUME NEW t \in Threads, NEW c \in Contacts, Deregister(t, c)
      PROVE  TypeOK'
  <2>1. RegistrarTypeOK'
    BY <1>3, <1>r, RegistrarStepType DEF Deregister, RegistrarStep
  <2>2. sent' \in [Pairs -> Optional(Lamps)]
    BY <1>3, DarkenType DEF Deregister
  <2>3. budget' \in [Events -> Nat]
    BY <1>3, <1>e, SpendType DEF Deregister, TypeOK
  <2> QED
    BY <1>3, <2>1, <2>2, <2>3 DEF Deregister, TypeOK
<1>4. ASSUME NEW t \in Threads, Challenge(t) \/ Heartbeat(t)
      PROVE  TypeOK'
  <2>1. RegistrarTypeOK'
    BY <1>4, <1>r, RegistrarStepType DEF Challenge, Heartbeat, RegistrarStep
  <2>2. budget' \in [Events -> Nat]
    BY <1>4, <1>e, SpendType DEF Challenge, Heartbeat, TypeOK
  <2> QED
    BY <1>4, <2>1, <2>2 DEF Challenge, Heartbeat, TypeOK
<1>5. ASSUME NEW c \in Contacts, Expire(c)
      PROVE  TypeOK'
  <2>1. RegistrarTypeOK'
    BY <1>5, <1>r, RegistrarStepType DEF Expire, RegistrarStep
  <2>2. sent' \in [Pairs -> Optional(Lamps)]
    BY <1>5, DarkenType DEF Expire
  <2>3. budget' \in [Events -> Nat]
    BY <1>5, <1>e, SpendType DEF Expire, TypeOK
  <2> QED
    BY <1>5, <2>1, <2>2, <2>3 DEF Expire, TypeOK
<1>6. ASSUME NEW c \in Contacts, ContactDown(c) \/ ContactUp(c)
      PROVE  TypeOK'
  <2>1. budget' \in [Events -> Nat]
    BY <1>6, <1>e, SpendType DEF ContactDown, ContactUp, TypeOK
  <2> QED
    BY <1>6, <2>1 DEF ContactDown, ContactUp, TypeOK
<1>7. ASSUME NEW t \in Threads, UnsolicitedOutgoingResponse(t)
      PROVE  TypeOK'
  <2>1. PICK r \in resp[t] : Gate(r)
    BY <1>7 DEF UnsolicitedOutgoingResponse
  <2>2. r \in Response
    BY <2>1 DEF TypeOK, Optional
  <2>3. FanoutTask(Canonical(r)) \in Task
    BY <2>2, TaskTypes DEF Canonical, Response
  <2>4. queue' \in Seq(Task)
    <3>1. queue' = Append(queue, FanoutTask(Canonical(r))) \/ queue' = queue
      BY <2>1 DEF Gate
    <3>2. queue \in Seq(Task)
      BY DEF TypeOK
    <3> QED
      BY <2>3, <3>1, <3>2
  <2>5. cache' \subseteq Contacts
    BY <2>1 DEF Gate, TypeOK, NoEntry
  <2>6. RegistrarTypeOK'
    BY <1>7, <1>r, RegistrarStepType
       DEF UnsolicitedOutgoingResponse, RegistrarStep
  <2>7. budget' \in [Events -> Nat]
    BY <2>1, <1>e, SpendType DEF Gate, TypeOK
  <2> QED
    BY <1>7, <2>4, <2>5, <2>6, <2>7 DEF UnsolicitedOutgoingResponse, TypeOK
<1>8. ASSUME NEW x \in Extens, NEW h \in Hints, HintChange(x, h)
      PROVE  TypeOK'
  <2>1. budget' \in [Events -> Nat]
    BY <1>8, <1>e, SpendType DEF HintChange, TypeOK
  <2> QED
    BY <1>8, <2>1 DEF HintChange, TypeOK
<1>9. ASSUME NEW x \in Extens, ExtStateCb(x)
      PROVE  TypeOK'
  <2>1. queue' \in Seq(Task)
    <3>1. ChangeTask(x) \in Task /\ queue \in Seq(Task)
      BY TaskTypes DEF TypeOK
    <3>2. queue' = Append(queue, ChangeTask(x)) \/ queue' = queue
      BY <1>9 DEF ExtStateCb
    <3> QED
      BY <3>1, <3>2
  <2>2. budget' \in [Events -> Nat]
    BY <1>9, <1>e, SpendType DEF ExtStateCb, TypeOK
  <2>3. unheard' \subseteq Extens /\ notify' \subseteq Hinted
    BY <1>9 DEF ExtStateCb, TypeOK
  <2> QED
    BY <1>9, <2>1, <2>2, <2>3 DEF ExtStateCb, TypeOK
<1>10. CASE StartFanout
  BY <1>10, <1>h DEF StartFanout, StartTask, TypeOK
<1>11. CASE StartChange
  <2>1. PICK x \in Head(queue).extension : DedupChange(x)
    BY <1>11 DEF StartChange
  <2>2. x \in Extens
    BY <1>11, <2>1, <1>h, <1>x DEF StartChange
  <2>3. sample' \in Optional(Lamps)
    BY <2>1, <2>2, SampleType DEF DedupChange, TypeOK, Optional
  <2>4. /\ phase' \in {"idle", "read", "send", "link"} /\ task' \in Task
        /\ tried' \in BOOLEAN /\ missed' \in BOOLEAN
    BY <1>11, <2>1, <1>h DEF StartChange, DedupChange, StartTask, TypeOK
  <2> QED
    BY <1>11, <1>h, <2>3, <2>4 DEF StartChange, TypeOK
<1>12. CASE RetrieveContacts
  <2>1. task.extension \subseteq Extens
    BY <1>x DEF TypeOK
  <2>2. todo' \subseteq Pairs
    BY <1>12, <2>1 DEF RetrieveContacts, TypeOK, Pairs
  <2> QED
    BY <1>12, <2>2 DEF RetrieveContacts, TypeOK
<1>13. CASE FanoutQuery
  <2>1. PICK p \in todo : /\ at' = {p}
                          /\ todo' = todo \ {p}
                          /\ sample' = {BlfQueryState(p[2])}
    BY <1>13 DEF FanoutQuery
  <2>2. p \in Pairs /\ p[2] \in Extens
    BY <2>1 DEF TypeOK, Pairs
  <2>3. sample' \in Optional(Lamps) /\ at' \in Optional(Pairs)
    BY <2>1, <2>2, SampleType DEF Optional
  <2> QED
    BY <1>13, <2>1, <2>3 DEF FanoutQuery, TypeOK
<1>14. CASE FanoutSend
  <2>1. PICK p \in at : SendUnsolicitedNotify(p) /\ EnsureExtStateWatcher(p[2])
    BY <1>14 DEF FanoutSend
  <2>2. p \in Pairs
    BY <2>1 DEF TypeOK, Optional
  <2>3. /\ sent' \in [Pairs -> Optional(Lamps)] /\ tried' \in BOOLEAN
        /\ missed' \in BOOLEAN /\ budget' \in [Events -> Nat]
    BY <2>1, <2>2, SendType
  <2>4. watched' \subseteq Hinted /\ last' \in [Extens -> Optional(Lamps)]
    BY <2>1 DEF EnsureExtStateWatcher, TypeOK, Optional
  <2>5. at' \in Optional(Pairs)
    BY <1>14 DEF FanoutSend, Optional
  <2> QED
    BY <1>14, <2>3, <2>4, <2>5 DEF FanoutSend, TypeOK
<1>15. CASE ChangeSend
  <2>1. PICK p \in todo : SendUnsolicitedNotify(p) /\ todo' = todo \ {p}
    BY <1>15 DEF ChangeSend
  <2>2. /\ sent' \in [Pairs -> Optional(Lamps)] /\ tried' \in BOOLEAN
        /\ missed' \in BOOLEAN /\ budget' \in [Events -> Nat]
    BY <2>1, SendType DEF TypeOK
  <2> QED
    BY <1>15, <2>1, <2>2 DEF ChangeSend, TypeOK
<1>16. CASE FanoutDone
  BY <1>16 DEF FanoutDone, TypeOK, NoEntry
<1>17. CASE RememberLink
  BY <1>17 DEF RememberLink, TypeOK, Task
<1>18. CASE ChangeDone
  <2>1. PICK x \in task.extension : StateChangeCommit(x)
    BY <1>18 DEF ChangeDone
  <2>2. x \in Extens
    BY <2>1, <1>x DEF TypeOK
  <2>3. last' \in [Extens -> Optional(Lamps)] /\ partial' \subseteq Extens
    BY <2>1, <2>2 DEF StateChangeCommit, TypeOK
  <2> QED
    BY <1>18, <2>3 DEF ChangeDone, TypeOK
<1>19. CASE UNCHANGED vars
  BY <1>19 DEF vars, TypeOK
<1> QED
  BY <1>1, <1>2, <1>3, <1>4, <1>5, <1>6, <1>7, <1>8, <1>9, <1>10, <1>11, <1>12,
     <1>13, <1>14, <1>15, <1>16, <1>17, <1>18, <1>19
     DEF Next, Registrar, Serializer

\* Every variable keeps its type in every behaviour.
THEOREM TypeCorrect == Spec => []TypeOK
<1> QED
  BY InitTypeOK, NextTypeOK, PTL DEF Spec

(***************************************************************************)
(* The inductive invariant LampInv.                                        *)
(***************************************************************************)

\* The names of the changes of state the invariant is sensitive to.
USE DEF registrarVars, coreVars, taskVars

LEMMA InitLampInv == Init => LampInv
<1> SUFFICES ASSUME Init PROVE LampInv
  OBVIOUS
<1>1. TypeOK
  BY InitTypeOK
<1>2. \A x : ~Queued(queue, x)
  BY DEF Init, Queued
<1>3. PhasesFit /\ UnboundIsDark
  BY DEF Init, PhasesFit, UnboundIsDark, Pairs
<1>4. \A x \in Extens : last[x] = {} /\ ~TaskOn(x)
  BY DEF Init, TaskOn
<1>5. WatcherFirst /\ BaselineOrSample /\ DoneAreTold
  BY <1>2, <1>4 DEF WatcherFirst, BaselineOrSample, DoneAreTold
<1>6. SampleCurrent /\ ToldCurrent
  BY <1>4, BlfConstants DEF Init, SampleCurrent, ToldCurrent, Pairs
<1> QED
  BY <1>1, <1>3, <1>5, <1>6 DEF LampInv

\* A REGISTER answered, a contact's status changed, a cache entry dropped:
\* nothing the lamps depend on.
LEMMA QuietStep ==
    ASSUME LampInv, TypeOK',
           UNCHANGED <<contacts, hint, notify, watched, last, queue, taskVars,
                       sent, unheard, partial>>
    PROVE  LampInv'
BY DEF LampInv, PhasesFit, UnboundIsDark, WatcherFirst, BaselineOrSample,
       DoneAreTold, SampleCurrent, ToldCurrent, TaskOn, Pending, Queued,
       BlfQueryState

\* The registrar binds and unbinds Contacts: a new session is dark, so it
\* contradicts no baseline and no snapshot.
LEMMA BindStep ==
    ASSUME LampInv, TypeOK', NEW S \in SUBSET Contacts, contacts' = S, Darken,
           UNCHANGED <<hint, notify, watched, last, queue, taskVars,
                       unheard, partial>>
    PROVE  LampInv'
<1>1. \A c \in Contacts, x \in Extens : sent'[<<c, x>>] = {} \/ (sent'[<<c, x>>] = sent[<<c, x>>] /\ c \in contacts)
  BY DEF LampInv, TypeOK, UnboundIsDark, Darken, Pairs
<1>2. contacts' = S /\ \A c \in Contacts \ S, x \in Extens : sent'[<<c, x>>] = {}
  BY DEF LampInv, TypeOK, Darken, Pairs
<1>3. PhasesFit' /\ WatcherFirst'
  BY DEF LampInv, PhasesFit, WatcherFirst, TaskOn, Queued
<1>4. UnboundIsDark'
  BY <1>2 DEF UnboundIsDark
<1>5. BaselineOrSample'
  BY <1>1, <1>2 DEF LampInv, BaselineOrSample, TaskOn
<1>6. DoneAreTold'
  BY <1>1, <1>2 DEF LampInv, DoneAreTold, TaskOn
<1>7. SampleCurrent'
  BY DEF LampInv, SampleCurrent, TaskOn, Pending, Queued, BlfQueryState
<1>8. ToldCurrent'
  <2>1. \A x : /\ BlfQueryState(x)' = BlfQueryState(x)
               /\ Pending(x)' <=> Pending(x)
               /\ TaskOn(x)' <=> TaskOn(x)
    BY DEF BlfQueryState, Pending, Queued, TaskOn
  <2> SUFFICES ASSUME NEW x \in Hinted \ (partial \cup unheard),
                      ~Pending(x), ~TaskOn(x), NEW c \in S
               PROVE  sent'[<<c, x>>] \subseteq {BlfQueryState(x)}
    BY <1>2, <2>1 DEF ToldCurrent
  <2>2. c \in Contacts /\ x \in Extens
    BY BlfConstants
  <2>3. c \in contacts => sent[<<c, x>>] \subseteq {BlfQueryState(x)}
    BY DEF LampInv, ToldCurrent
  <2> QED
    BY <1>1, <2>2, <2>3
<1> QED
  BY <1>3, <1>4, <1>5, <1>6, <1>7, <1>8 DEF LampInv

\* The hook queues a fanout: no change of any extension is queued with it.
LEMMA HookStep ==
    ASSUME LampInv, TypeOK', NEW t \in Threads, UnsolicitedOutgoingResponse(t)
    PROVE  LampInv'
<1>1. PICK r \in resp[t] : Gate(r)
  BY DEF UnsolicitedOutgoingResponse
<1>2. CASE queue' = queue
  BY <1>2, QuietStep DEF UnsolicitedOutgoingResponse
<1>3. CASE queue' = Append(queue, FanoutTask(Canonical(r)))
  <2>1. r \in Response
    <3>1. resp[t] \in Optional(Response)
      BY DEF LampInv, TypeOK
    <3> QED
      BY <1>1, <3>1 DEF Optional
  <2>2. FanoutTask(Canonical(r)) \in Task
    BY <2>1, TaskTypes DEF Canonical, Response
  <2>3. \A x : Queued(queue', x) <=> Queued(queue, x)
    BY <1>3, <2>2, QueuedAppend DEF FanoutTask, LampInv, TypeOK
  <2> QED
    BY <2>3 DEF UnsolicitedOutgoingResponse, LampInv, PhasesFit, UnboundIsDark,
        WatcherFirst, BaselineOrSample, DoneAreTold, SampleCurrent,
        ToldCurrent, TaskOn, Pending, BlfQueryState
<1> QED
  BY <1>1, <1>2, <1>3 DEF Gate

\* A hint changes: its extension is to be looked at again.
LEMMA HintStep ==
    ASSUME LampInv, TypeOK', NEW x \in Extens, NEW h \in Hints, HintChange(x, h)
    PROVE  LampInv'
<1>1. \A y \in Extens : y # x => BlfQueryState(y)' = BlfQueryState(y)
  BY DEF HintChange, BlfQueryState, LampInv, TypeOK
<1>2. PhasesFit' /\ UnboundIsDark' /\ WatcherFirst' /\ BaselineOrSample' /\ DoneAreTold'
  BY DEF HintChange, LampInv, PhasesFit, UnboundIsDark, WatcherFirst,
         BaselineOrSample, DoneAreTold, TaskOn, Queued
<1>3. SampleCurrent' /\ ToldCurrent'
  BY <1>1, BlfConstants DEF HintChange, LampInv, SampleCurrent, ToldCurrent,
     TaskOn, Pending, Queued
<1> QED
  BY <1>2, <1>3 DEF LampInv

\* The callback queues a task, or the extension has lost a change, or nobody
\* has been told anything about it yet.
LEMMA CallbackStep ==
    ASSUME LampInv, TypeOK', NEW x \in Extens, ExtStateCb(x)
    PROVE  LampInv'
<1>1. ChangeTask(x) \in Task
  BY TaskTypes
<1>2. /\ x \in watched => Queued(queue', x) \/ x \in unheard'
      /\ \A y \in Extens : y # x => (Queued(queue', y) <=> Queued(queue, y))
                                    /\ (y \in unheard' <=> y \in unheard)
      /\ x \notin watched => queue' = queue
  <2>1. CASE queue' = Append(queue, ChangeTask(x))
    <3>1. \A y : Queued(queue', y) <=> Queued(queue, y) \/ {x} = {y}
      BY <1>1, <2>1, QueuedAppend DEF ChangeTask, LampInv, TypeOK
    <3>2. \A y : {x} = {y} => x = y
      OBVIOUS
    <3>3. queue' = queue => \A y : Queued(queue', y) <=> Queued(queue, y)
      OBVIOUS
    <3> QED
      BY <3>1, <3>2, <3>3 DEF ExtStateCb
  <2>2. CASE queue' = queue
    BY <2>2 DEF ExtStateCb
  <2> QED
    BY <2>1, <2>2 DEF ExtStateCb
<1>3. x \notin watched => Sampled(x) \/ \A c \in Contacts : sent[<<c, x>>] = {}
  BY DEF Sampled
<1>4. PhasesFit' /\ UnboundIsDark' /\ BaselineOrSample' /\ DoneAreTold'
  BY DEF ExtStateCb, LampInv, PhasesFit, UnboundIsDark, BaselineOrSample,
         DoneAreTold, TaskOn
<1>5. WatcherFirst'
  BY <1>2 DEF ExtStateCb, LampInv, WatcherFirst, TaskOn
<1>6. CASE x \in watched
  <2>1. x \notin Hinted \ unheard' \/ Pending(x)'
    BY <1>2, <1>6 DEF Pending
  <2>2. SampleCurrent' /\ ToldCurrent'
    BY <1>2, <2>1, BlfConstants DEF ExtStateCb, LampInv, SampleCurrent, ToldCurrent, TaskOn,
       Pending, BlfQueryState
  <2> QED
    BY <1>4, <1>5, <2>2 DEF LampInv
<1>7. CASE x \notin watched
  <2>1. ~TaskOn(x) /\ (Sampled(x) => x \in unheard') /\ (x \in unheard => x \in unheard')
    BY <1>7 DEF ExtStateCb, LampInv, WatcherFirst
  <2>2. SampleCurrent'
    BY <1>2, <1>7, <2>1, BlfConstants DEF ExtStateCb, LampInv, SampleCurrent, TaskOn,
       Pending, BlfQueryState, Sampled
  <2>3. ToldCurrent'
    BY <1>2, <1>3, <1>7, <2>1, BlfConstants DEF ExtStateCb, LampInv, TypeOK, ToldCurrent,
       TaskOn, Pending, BlfQueryState
  <2> QED
    BY <1>4, <1>5, <2>2, <2>3 DEF LampInv
<1> QED
  BY <1>6, <1>7

\* The serializer takes a REGISTER fanout: the changes queued stay queued.
LEMMA StartFanoutStep ==
    ASSUME LampInv, TypeOK', StartFanout
    PROVE  LampInv'
<1>1. queue \in Seq(Task) /\ queue # <<>>
  BY DEF StartFanout, LampInv, TypeOK
<1>2. \A x : Queued(queue', x) <=> Queued(queue, x)
  BY <1>1, QueuedTail DEF StartFanout, IsFanout
<1>3. phase = "idle" /\ at = {}
  BY DEF StartFanout, LampInv, PhasesFit
<1>4. \A x : ~TaskOn(x) /\ ~TaskOn(x)' /\ (Pending(x)' <=> Pending(x))
             /\ BlfQueryState(x)' = BlfQueryState(x)
  BY <1>2, <1>3 DEF StartFanout, StartTask, IsFanout, TaskOn, Pending,
     BlfQueryState
<1>5. at' = {} /\ phase' # "link" /\ phase' # "send"
  BY <1>3 DEF StartFanout, StartTask
<1>6. PhasesFit' /\ UnboundIsDark' /\ WatcherFirst'
  BY <1>2, <1>4, <1>5 DEF StartFanout, LampInv, PhasesFit, UnboundIsDark,
     WatcherFirst
<1>7. BaselineOrSample' /\ DoneAreTold'
  BY <1>4 DEF StartFanout, LampInv, BaselineOrSample, DoneAreTold
<1>8. SampleCurrent' /\ ToldCurrent'
  BY <1>4, <1>5 DEF StartFanout, LampInv, SampleCurrent, ToldCurrent
<1> QED
  BY <1>6, <1>7, <1>8 DEF LampInv

\* The serializer takes a change of x.  If the dedup drops it, the baseline
\* is the current state, and the baseline is what the phones were told.
LEMMA StartChangeStep ==
    ASSUME LampInv, TypeOK', StartChange
    PROVE  LampInv'
<1>1. queue \in Seq(Task) /\ queue # <<>> /\ Head(queue) \in Task
  BY DEF StartChange, LampInv, TypeOK
<1>2. PICK x \in Head(queue).extension : DedupChange(x)
  BY DEF StartChange
<1>3. Head(queue).extension = {x} /\ x \in Extens
  BY <1>1, <1>2 DEF Task, Optional
<1>4. phase = "idle" /\ at = {} /\ at' = {}
  BY DEF StartChange, LampInv, PhasesFit
<1>5. \A y : Queued(queue, y) <=> {x} = {y} \/ Queued(queue', y)
  BY <1>1, <1>3, QueuedTail DEF StartChange
<1>6. \A y : {x} = {y} <=> x = y
  OBVIOUS
<1>7. /\ \A y : ~TaskOn(y) /\ BlfQueryState(y)' = BlfQueryState(y)
      /\ \A y : y # x => (Pending(y)' <=> Pending(y)) /\ ~TaskOn(y)'
      /\ Pending(x)' => Pending(x)
  <2>1. phase' = "idle" \/ task' = Head(queue)
    BY <1>2, <1>4 DEF DedupChange, StartTask
  <2> QED
    BY <1>3, <1>4, <1>5, <1>6, <2>1 DEF StartChange, TaskOn, Pending, BlfQueryState
<1>8. x \in watched /\ phase' # "link" /\ phase' # "send"
  BY <1>2, <1>3, <1>4, <1>5 DEF LampInv, WatcherFirst, DedupChange, StartTask
<1>9. PhasesFit' /\ UnboundIsDark' /\ DoneAreTold'
  BY <1>4, <1>8 DEF StartChange, LampInv, PhasesFit, UnboundIsDark, DoneAreTold
<1>10. WatcherFirst'
  BY <1>5, <1>7, <1>8 DEF StartChange, LampInv, WatcherFirst
<1>11. BaselineOrSample'
  BY <1>7 DEF StartChange, LampInv, BaselineOrSample
<1>12. SampleCurrent' /\ ToldCurrent'
  <2>1. CASE StateChangeShouldSend(x, BlfQueryState(x))
    <3>1. TaskOn(x)' /\ sample' = {BlfQueryState(x)}
      BY <1>2, <1>3, <2>1 DEF DedupChange, StartTask, TaskOn
    <3>2. SampleCurrent'
      BY <1>4, <1>7, <3>1 DEF SampleCurrent
    <3>3. ToldCurrent'
      BY <1>7, <3>1 DEF StartChange, LampInv, ToldCurrent
    <3> QED
      BY <3>2, <3>3
  <2>2. CASE ~StateChangeShouldSend(x, BlfQueryState(x))
    <3>1. last[x] = {BlfQueryState(x)} /\ \A y : ~TaskOn(y)'
      BY <1>2, <1>4, <1>7, <2>2 DEF StateChangeShouldSend, DedupChange, TaskOn
    <3>2. x \notin partial => \A c \in contacts : sent[<<c, x>>] \subseteq {BlfQueryState(x)}
      BY <1>3, <1>4, <3>1 DEF LampInv, BaselineOrSample
    <3>3. SampleCurrent'
      BY <1>4, <3>1 DEF SampleCurrent
    <3>4. ToldCurrent'
      BY <1>7, <3>2 DEF StartChange, LampInv, ToldCurrent
    <3> QED
      BY <3>3, <3>4
  <2> QED
    BY <2>1, <2>2
<1> QED
  BY <1>9, <1>10, <1>11, <1>12 DEF LampInv

\* The contacts are read: those not on the list have not been told anything.
LEMMA RetrieveStep ==
    ASSUME LampInv, TypeOK', RetrieveContacts
    PROVE  LampInv'
<1>1. \A x : /\ TaskOn(x)' <=> TaskOn(x)
             /\ Pending(x)' <=> Pending(x)
             /\ BlfQueryState(x)' = BlfQueryState(x)
             /\ Queued(queue', x) <=> Queued(queue, x)
  BY DEF RetrieveContacts, TaskOn, Pending, BlfQueryState
<1>2. at = {} /\ at' = {} /\ phase' = "send"
  BY DEF RetrieveContacts, LampInv, PhasesFit
<1>3. PhasesFit' /\ UnboundIsDark' /\ WatcherFirst'
  <2>1. ~IsFanout(task) => \A p \in todo' : task.extension = {p[2]}
    <3>1. ~IsFanout(task) => todo' = contacts \X task.extension
      BY DEF RetrieveContacts
    <3>2. task.extension = {} \/ \E x \in Extens : task.extension = {x}
      BY DEF LampInv, TypeOK, Task, Optional
    <3> QED
      BY <3>1, <3>2 DEF IsFanout
  <2>2. PhasesFit'
    BY <1>2, <2>1 DEF RetrieveContacts, PhasesFit, IsFanout
  <2> QED
    BY <1>1, <1>2, <2>2 DEF RetrieveContacts, LampInv, UnboundIsDark, WatcherFirst
<1>4. BaselineOrSample'
  BY DEF RetrieveContacts, LampInv, BaselineOrSample
<1>5. DoneAreTold'
  <2>1. \A x \in Extens, c \in contacts : TaskOn(x) => <<c, x>> \in todo'
    BY DEF RetrieveContacts, TaskOn, IsFanout
  <2> QED
    BY <1>1, <2>1 DEF RetrieveContacts, DoneAreTold
<1>6. SampleCurrent' /\ ToldCurrent'
  BY <1>1, <1>2 DEF RetrieveContacts, LampInv, SampleCurrent, ToldCurrent
<1> QED
  BY <1>3, <1>4, <1>5, <1>6 DEF LampInv

\* The fanout reads the state of one extension for one contact.
LEMMA QueryStep ==
    ASSUME LampInv, TypeOK', FanoutQuery
    PROVE  LampInv'
<1>1. PICK p \in todo : at' = {p} /\ sample' = {BlfQueryState(p[2])}
  BY DEF FanoutQuery
<1>2. \A x : /\ ~TaskOn(x)' /\ ~TaskOn(x)
             /\ Pending(x)' <=> Pending(x)
             /\ BlfQueryState(x)' = BlfQueryState(x)
             /\ Queued(queue', x) <=> Queued(queue, x)
  BY DEF FanoutQuery, TaskOn, Pending, BlfQueryState, IsFanout
<1>3. PhasesFit' /\ UnboundIsDark' /\ WatcherFirst'
  BY <1>2 DEF FanoutQuery, LampInv, PhasesFit, UnboundIsDark, WatcherFirst, IsFanout
<1>4. BaselineOrSample' /\ DoneAreTold'
  BY <1>2 DEF FanoutQuery, LampInv, BaselineOrSample, DoneAreTold
<1>5. SampleCurrent' /\ ToldCurrent'
  BY <1>1, <1>2 DEF FanoutQuery, LampInv, SampleCurrent, ToldCurrent
<1> QED
  BY <1>3, <1>4, <1>5 DEF LampInv

\* What one NOTIFY does to what the phones were told.
LEMMA NotifySent ==
    ASSUME TypeOK, UnboundIsDark, NEW p \in Pairs, SendUnsolicitedNotify(p)
    PROVE  /\ tried'
           /\ missed => missed'
           /\ \A q \in Pairs : q # p => sent'[q] = sent[q]
           /\ sent'[p] = sent[p] \/ (sent'[p] = sample /\ p[1] \in contacts)
           /\ ~missed' => p[1] \notin contacts \/ sent'[p] = sample
BY DEF SendUnsolicitedNotify, Reachable, TypeOK

\* The fanout sends one snapshot and drops the extension's baseline.
LEMMA FanoutSendStep ==
    ASSUME LampInv, TypeOK', FanoutSend
    PROVE  LampInv'
<1>1. PICK p \in at : SendUnsolicitedNotify(p) /\ EnsureExtStateWatcher(p[2])
  BY DEF FanoutSend
<1>2. at \in Optional(Pairs)
  BY DEF LampInv, TypeOK
<1>3. at = {p} /\ p \in Pairs
  BY <1>1, <1>2 DEF Optional
<1>4. PICK c0 \in Contacts, x0 \in Extens : p = <<c0, x0>>
  BY <1>3 DEF Pairs
<1>5. /\ \A q \in Pairs : q # p => sent'[q] = sent[q]
      /\ sent'[p] = sent[p] \/ (sent'[p] = sample /\ c0 \in contacts)
  BY <1>1, <1>3, <1>4, NotifySent DEF LampInv
<1>6. /\ last' = [last EXCEPT ![x0] = {}]
      /\ watched' = watched \cup ({x0} \cap Hinted)
  BY <1>1, <1>4 DEF EnsureExtStateWatcher
<1>7. last'[x0] = {} /\ \A x \in Extens \ {x0} : last'[x] = last[x]
  BY <1>6 DEF LampInv, TypeOK
<1>8. at' = {} /\ phase' = "send" /\ phase = "send" /\ IsFanout(task) /\ task' = task
  BY <1>3 DEF FanoutSend, LampInv, PhasesFit
<1>9. \A x : /\ ~TaskOn(x)' /\ ~TaskOn(x)
             /\ Pending(x)' <=> Pending(x)
             /\ BlfQueryState(x)' = BlfQueryState(x)
             /\ Queued(queue', x) <=> Queued(queue, x)
  BY <1>8 DEF FanoutSend, TaskOn, Pending, BlfQueryState, IsFanout
<1>10. \A c \in Contacts, x \in Extens :
          /\ <<c, x>> \in Pairs
          /\ <<c, x>> = p <=> c = c0 /\ x = x0
  BY <1>4 DEF Pairs
<1>11. PhasesFit'
  BY <1>8 DEF PhasesFit
<1>12. UnboundIsDark'
  BY <1>5, <1>10 DEF FanoutSend, LampInv, UnboundIsDark
<1>13. WatcherFirst'
  BY <1>6, <1>7, <1>9 DEF LampInv, WatcherFirst
<1>14. BaselineOrSample'
  <2> SUFFICES ASSUME NEW x \in Extens \ partial, NEW c \in contacts, last'[x] # {}
               PROVE  sent'[<<c, x>>] \subseteq last'[x]
    BY DEF FanoutSend, BaselineOrSample
  <2>1. x # x0 /\ last'[x] = last[x] /\ c \in Contacts
    BY <1>7 DEF LampInv, TypeOK
  <2>2. sent'[<<c, x>>] = sent[<<c, x>>]
    BY <1>5, <1>10, <2>1
  <2> QED
    BY <1>9, <2>1, <2>2 DEF LampInv, BaselineOrSample
<1>15. DoneAreTold'
  BY <1>9 DEF DoneAreTold
<1>16. SampleCurrent'
  BY <1>8, <1>9 DEF SampleCurrent
<1>17. ToldCurrent'
  <2> SUFFICES ASSUME NEW x \in Hinted \ (partial \cup unheard), ~Pending(x),
                      NEW c \in contacts
               PROVE  sent'[<<c, x>>] \subseteq {BlfQueryState(x)}
    BY <1>9 DEF FanoutSend, ToldCurrent
  <2>1. x \in Extens /\ c \in Contacts
    BY BlfConstants DEF LampInv, TypeOK
  <2>2. sent[<<c, x>>] \subseteq {BlfQueryState(x)}
    BY <1>9 DEF LampInv, ToldCurrent
  <2>3. CASE <<c, x>> = p
    <3>1. p[2] = x
      BY <2>3
    <3>2. sample = {BlfQueryState(x)}
      BY <1>3, <3>1 DEF LampInv, SampleCurrent
    <3> QED
      BY <1>5, <2>2, <2>3, <3>2
  <2>4. CASE <<c, x>> # p
    BY <1>5, <1>10, <2>1, <2>2, <2>4
  <2> QED
    BY <2>3, <2>4
<1> QED
  BY <1>11, <1>12, <1>13, <1>14, <1>15, <1>16, <1>17 DEF LampInv

\* A change is sent to one contact: it shows the snapshot, or it was missed.
LEMMA ChangeSendStep ==
    ASSUME LampInv, TypeOK', ChangeSend
    PROVE  LampInv'
<1>1. PICK p \in todo : SendUnsolicitedNotify(p) /\ todo' = todo \ {p}
  BY DEF ChangeSend
<1>2. PICK x0 \in Extens : task.extension = {x0}
  BY DEF ChangeSend, IsFanout, LampInv, TypeOK, Task, Optional
<1>3. p \in Pairs
  BY <1>1 DEF LampInv, TypeOK
<1>4. PICK c1 \in Contacts, x1 \in Extens : p = <<c1, x1>>
  BY <1>3 DEF Pairs
<1>5. /\ tried'
      /\ missed => missed'
      /\ \A q \in Pairs : q # p => sent'[q] = sent[q]
      /\ sent'[p] = sent[p] \/ (sent'[p] = sample /\ c1 \in contacts)
      /\ ~missed' => c1 \notin contacts \/ sent'[p] = sample
  BY <1>1, <1>3, <1>4, NotifySent DEF LampInv
<1>6. \A x : /\ TaskOn(x)' <=> TaskOn(x)
             /\ Pending(x)' <=> Pending(x)
             /\ BlfQueryState(x)' = BlfQueryState(x)
             /\ Queued(queue', x) <=> Queued(queue, x)
  BY DEF ChangeSend, TaskOn, Pending, BlfQueryState
<1>7. \A c \in Contacts, x \in Extens :
          /\ <<c, x>> \in Pairs
          /\ <<c, x>> = p <=> c = c1 /\ x = x1
  BY <1>4 DEF Pairs
<1>8. x1 = x0 /\ phase = "send" /\ TaskOn(x0) /\ sample' = sample
  BY <1>1, <1>2, <1>4 DEF ChangeSend, LampInv, PhasesFit, TaskOn
<1>9. PhasesFit'
  BY <1>1 DEF ChangeSend, LampInv, PhasesFit, IsFanout
<1>10. UnboundIsDark'
  BY <1>5, <1>7 DEF ChangeSend, LampInv, UnboundIsDark
<1>11. WatcherFirst'
  BY <1>6 DEF ChangeSend, LampInv, WatcherFirst
<1>12. BaselineOrSample'
  <2> SUFFICES ASSUME NEW x \in Extens \ partial, NEW c \in contacts, last[x] # {}
               PROVE  \/ sent'[<<c, x>>] \subseteq last[x]
                      \/ TaskOn(x) /\ sent'[<<c, x>>] \subseteq sample
    BY <1>5, <1>6, <1>8 DEF ChangeSend, BaselineOrSample
  <2>1. c \in Contacts /\ x \in Extens
    BY DEF LampInv, TypeOK
  <2>2. \/ sent[<<c, x>>] \subseteq last[x]
        \/ TaskOn(x) /\ sent[<<c, x>>] \subseteq sample
    BY DEF LampInv, BaselineOrSample
  <2>3. CASE <<c, x>> = p
    BY <1>5, <1>7, <1>8, <2>1, <2>2, <2>3
  <2>4. CASE <<c, x>> # p
    BY <1>5, <1>7, <2>1, <2>2, <2>4
  <2> QED
    BY <2>3, <2>4
<1>13. DoneAreTold'
  <2> SUFFICES ASSUME NEW x \in Extens, NEW c \in contacts, TaskOn(x), ~missed',
                      <<c, x>> \notin todo'
               PROVE  sent'[<<c, x>>] \subseteq sample
    BY <1>6, <1>8 DEF ChangeSend, DoneAreTold
  <2>1. c \in Contacts /\ ~missed
    BY <1>5 DEF LampInv, TypeOK
  <2>2. CASE <<c, x>> = p
    BY <1>5, <1>7, <2>1, <2>2
  <2>3. CASE <<c, x>> # p
    <3>1. <<c, x>> \notin todo
      BY <1>1, <2>3
    <3>2. sent[<<c, x>>] \subseteq sample
      BY <1>8, <2>1, <3>1 DEF LampInv, DoneAreTold
    <3> QED
      BY <1>5, <1>7, <2>1, <2>3, <3>2
  <2> QED
    BY <2>2, <2>3
<1>14. SampleCurrent'
  BY <1>6, <1>8 DEF ChangeSend, LampInv, SampleCurrent
<1>15. ToldCurrent'
  <2> SUFFICES ASSUME NEW x \in Hinted \ (partial \cup unheard), ~Pending(x),
                      ~TaskOn(x), NEW c \in contacts
               PROVE  sent'[<<c, x>>] \subseteq {BlfQueryState(x)}
    BY <1>6 DEF ChangeSend, ToldCurrent
  <2>1. x \in Extens /\ c \in Contacts
    BY BlfConstants DEF LampInv, TypeOK
  <2>2. <<c, x>> # p /\ <<c, x>> \in Pairs
    BY <1>7, <1>8, <2>1
  <2> QED
    BY <1>5, <2>2 DEF LampInv, ToldCurrent
<1> QED
  BY <1>9, <1>10, <1>11, <1>12, <1>13, <1>14, <1>15 DEF LampInv

\* A fanout ends: the address cache is none of the lamps' business.
LEMMA FanoutDoneStep ==
    ASSUME LampInv, TypeOK', FanoutDone \/ RememberLink
    PROVE  LampInv'
<1>1. IsFanout(task) /\ task' = task /\ at = {} /\ at' = {} /\ phase' # "send"
  BY DEF FanoutDone, RememberLink, LampInv, PhasesFit
<1>2. \A x : /\ ~TaskOn(x)' /\ ~TaskOn(x)
             /\ Pending(x)' <=> Pending(x)
             /\ BlfQueryState(x)' = BlfQueryState(x)
             /\ Queued(queue', x) <=> Queued(queue, x)
  BY <1>1 DEF FanoutDone, RememberLink, TaskOn, Pending, BlfQueryState, IsFanout
<1>3. PhasesFit'
  BY <1>1 DEF PhasesFit, IsFanout
<1>4. UnboundIsDark' /\ WatcherFirst'
  BY <1>2 DEF FanoutDone, RememberLink, LampInv, UnboundIsDark, WatcherFirst
<1>5. BaselineOrSample' /\ DoneAreTold'
  BY <1>2 DEF FanoutDone, RememberLink, LampInv, BaselineOrSample, DoneAreTold
<1>6. SampleCurrent' /\ ToldCurrent'
  BY <1>1, <1>2 DEF FanoutDone, RememberLink, LampInv, SampleCurrent, ToldCurrent
<1> QED
  BY <1>3, <1>4, <1>5, <1>6 DEF LampInv

\* A change ends: either it missed someone, or every phone that was told
\* anything shows its snapshot, which is current or will be looked at again.
LEMMA ChangeDoneStep ==
    ASSUME LampInv, TypeOK', ChangeDone
    PROVE  LampInv'
<1>1. PICK x0 \in task.extension : StateChangeCommit(x0)
  BY DEF ChangeDone
<1>2. task.extension = {x0} /\ x0 \in Extens
  BY <1>1 DEF LampInv, TypeOK, Task, Optional
<1>3. phase = "send" /\ phase' = "idle" /\ todo = {} /\ at = {} /\ at' = {} /\ task' = task
  BY <1>2 DEF ChangeDone, LampInv, PhasesFit, IsFanout
<1>4. \A x : /\ TaskOn(x) <=> x = x0
             /\ ~TaskOn(x)'
             /\ Pending(x)' <=> Pending(x)
             /\ BlfQueryState(x)' = BlfQueryState(x)
             /\ Queued(queue', x) <=> Queued(queue, x)
  BY <1>2, <1>3 DEF ChangeDone, TaskOn, Pending, BlfQueryState
<1>5. /\ \A x \in Extens \ {x0} : last'[x] = last[x]
      /\ last'[x0] = IF AllSent /\ x0 \in watched THEN sample ELSE last[x0]
  BY <1>1, <1>2 DEF StateChangeCommit, LampInv, TypeOK
<1>6. /\ \A x : x # x0 => (x \in partial' <=> x \in partial)
      /\ missed => x0 \in partial'
      /\ ~tried /\ ~missed => partial' = partial
  BY <1>1 DEF StateChangeCommit
<1>7. x0 \in watched
  BY <1>2, <1>4 DEF LampInv, WatcherFirst
<1>8. ~missed => \A c \in contacts : sent[<<c, x0>>] \subseteq sample
  BY <1>2, <1>3, <1>4 DEF LampInv, DoneAreTold
<1>9. PhasesFit' /\ UnboundIsDark' /\ DoneAreTold'
  BY <1>3, <1>4 DEF ChangeDone, LampInv, PhasesFit, UnboundIsDark, DoneAreTold
<1>10. WatcherFirst'
  BY <1>4, <1>5, <1>7 DEF ChangeDone, LampInv, WatcherFirst
<1>11. BaselineOrSample'
  <2> SUFFICES ASSUME NEW x \in Extens \ partial', NEW c \in contacts, last'[x] # {}
               PROVE  sent[<<c, x>>] \subseteq last'[x]
    BY DEF ChangeDone, BaselineOrSample
  <2>1. CASE x # x0
    BY <1>4, <1>5, <1>6, <2>1 DEF LampInv, BaselineOrSample
  <2>2. CASE x = x0 /\ tried
    BY <1>5, <1>6, <1>7, <1>8, <2>2 DEF AllSent
  <2>3. CASE x = x0 /\ ~tried
    <3>1. ~missed /\ x0 \notin partial /\ last'[x0] = last[x0]
      BY <1>5, <1>6, <2>3 DEF AllSent
    <3> QED
      BY <2>3, <3>1 DEF LampInv, BaselineOrSample
  <2> QED
    BY <2>1, <2>2, <2>3 DEF LampInv, TypeOK
<1>12. SampleCurrent'
  BY <1>3, <1>4 DEF SampleCurrent
<1>13. ToldCurrent'
  <2> SUFFICES ASSUME NEW x \in Hinted \ (partial' \cup unheard), ~Pending(x),
                      NEW c \in contacts
               PROVE  sent[<<c, x>>] \subseteq {BlfQueryState(x)}
    BY <1>4 DEF ChangeDone, ToldCurrent
  <2>1. CASE x # x0
    BY <1>4, <1>6, <2>1 DEF LampInv, ToldCurrent
  <2>2. CASE x = x0
    <3>1. sample = {BlfQueryState(x0)}
      BY <1>4, <2>2 DEF LampInv, SampleCurrent
    <3>2. ~missed
      BY <1>6, <2>2
    <3> QED
      BY <1>8, <2>2, <3>1, <3>2
  <2> QED
    BY <2>1, <2>2
<1> QED
  BY <1>9, <1>10, <1>11, <1>12, <1>13 DEF LampInv

LEMMA NextLampInv == LampInv /\ [Next]_vars => LampInv'
<1> SUFFICES ASSUME LampInv, [Next]_vars PROVE LampInv'
  OBVIOUS
<1>t. TypeOK'
  BY NextTypeOK DEF LampInv
<1>1. ASSUME NEW t \in Threads, NEW c \in Contacts, Register(t, c)
      PROVE  LampInv'
  <2>1. BoundAfter(c) \in SUBSET Contacts
    BY DEF BoundAfter, LampInv, TypeOK, RegistrarTypeOK
  <2> QED
    BY <1>1, <1>t, <2>1, BindStep DEF Register, AddContact
<1>2. ASSUME NEW t \in Threads, NEW c \in Contacts, Deregister(t, c)
      PROVE  LampInv'
  BY <1>2, <1>t, BindStep
     DEF Deregister, RemoveContact, LampInv, TypeOK, RegistrarTypeOK
<1>3. ASSUME NEW c \in Contacts, Expire(c)
      PROVE  LampInv'
  BY <1>3, <1>t, BindStep
     DEF Expire, ExpireContact, LampInv, TypeOK, RegistrarTypeOK
<1>4. ASSUME NEW t \in Threads, NEW c \in Contacts, Refresh(t, c)
      PROVE  LampInv'
  BY <1>4, <1>t, QuietStep DEF Refresh, RefreshContact
<1>5. ASSUME NEW t \in Threads, Challenge(t) \/ Heartbeat(t)
      PROVE  LampInv'
  BY <1>5, <1>t, QuietStep
     DEF Challenge, Heartbeat, ChallengeRegister, KeepaliveOnRxRequest
<1>6. ASSUME NEW t \in Threads, UnsolicitedOutgoingResponse(t)
      PROVE  LampInv'
  BY <1>6, <1>t, HookStep
<1>7. ASSUME NEW x \in Extens, NEW h \in Hints, HintChange(x, h)
      PROVE  LampInv'
  BY <1>7, <1>t, HintStep
<1>8. ASSUME NEW x \in Extens, ExtStateCb(x)
      PROVE  LampInv'
  BY <1>8, <1>t, CallbackStep
<1>9. CASE Serializer
  BY <1>9, <1>t, StartFanoutStep, StartChangeStep, RetrieveStep, QueryStep,
     FanoutSendStep, ChangeSendStep, FanoutDoneStep, ChangeDoneStep
     DEF Serializer
<1>10. CASE UNCHANGED vars
  BY <1>10, <1>t, QuietStep DEF vars
<1>11. ASSUME NEW c \in Contacts, ContactDown(c) \/ ContactUp(c)
      PROVE  LampInv'
  BY <1>11, <1>t, QuietStep DEF ContactDown, ContactUp
<1> QED
  BY <1>1, <1>2, <1>3, <1>4, <1>5, <1>6, <1>7, <1>8, <1>9, <1>10, <1>11
     DEF Next, Registrar

\* The inductive invariant holds in every behaviour.
THEOREM LampInvariant == Spec => []LampInv
<1> QED
  BY InitLampInv, NextLampInv, PTL DEF Spec

\* Between two tasks, the dedup baseline of an extension is what every phone
\* was told, unless its last change missed a contact.
THEOREM BaselineHonestHolds == Spec => []BaselineHonest
<1>1. LampInv => BaselineHonest
  BY DEF LampInv, BaselineOrSample, BaselineHonest, Agrees
<1> QED
  BY <1>1, LampInvariant, PTL

\* Once nothing is under way about an extension, every phone that was told
\* anything about it shows its current state, unless a change of it missed a
\* contact or was never queued.
THEOREM LampsCurrentHolds == Spec => []LampsCurrent
<1>1. LampInv => LampsCurrent
  BY DEF LampInv, ToldCurrent, LampsCurrent, Settled, Pending, TaskOn
<1> QED
  BY <1>1, LampInvariant, PTL

(***************************************************************************)
(* The cache entry.                                                        *)
(***************************************************************************)

\* Between the two halves of cisco_register_address_remember_str() there is
\* no entry: the old one is unlinked, the new one not linked yet.
UnlinkedInBetween == phase = "link" => cache = NoEntry

LEMMA UnlinkedStep == UnlinkedInBetween /\ [Next]_vars => UnlinkedInBetween'
<1> SUFFICES ASSUME UnlinkedInBetween, [Next]_vars, phase' = "link"
             PROVE  cache' = NoEntry
  BY DEF UnlinkedInBetween
<1>1. CASE Registrar
  BY <1>1 DEF Registrar, Register, Refresh, Deregister, Challenge, Heartbeat,
     Expire, ContactDown, ContactUp, UnlinkedInBetween
<1>2. ASSUME NEW t \in Threads, UnsolicitedOutgoingResponse(t)
      PROVE  cache' = NoEntry
  BY <1>2 DEF UnsolicitedOutgoingResponse, Gate, UnlinkedInBetween
<1>3. CASE Serializer
  BY <1>3 DEF Serializer, StartFanout, StartChange, DedupChange, StartTask,
     RetrieveContacts, FanoutQuery, FanoutSend, FanoutDone, RememberLink,
     ChangeSend, ChangeDone, UnlinkedInBetween
<1>4. ASSUME NEW x \in Extens, (\E h \in Hints : HintChange(x, h)) \/ ExtStateCb(x)
      PROVE  cache' = NoEntry
  BY <1>4 DEF HintChange, ExtStateCb, UnlinkedInBetween
<1>5. CASE UNCHANGED vars
  BY <1>5 DEF vars, UnlinkedInBetween
<1> QED
  BY <1>1, <1>2, <1>3, <1>4, <1>5 DEF Next

\* The gate drops an entry only on the answer to a deregistration, or to a
\* heartbeat: a 200 that lists no Contact.
LEMMA OnlyEmptyAnswersForget ==
    ASSUME NEW r \in Response, ShouldFire(r, cache) = "forget"
    PROVE  r = Ok({})
<1>1. r.code = 200 /\ r.listed = {}
  BY DEF ShouldFire, RegistersContact
<1>2. r = [code |-> r.code, listed |-> r.listed]
  BY DEF Response
<1> QED
  BY <1>1, <1>2 DEF Ok

\* A refresh or a challenge never drops the cache entry.
THEOREM RefreshNeverForgets == Spec => RefreshIsNoOp
<1>1. Init => UnlinkedInBetween
  BY DEF Init, UnlinkedInBetween
<1>2. ASSUME TypeOK, UnlinkedInBetween, [Next]_vars, cache # NoEntry,
             phase' # "link", \A t \in Threads : Ok({}) \notin resp[t]
      PROVE  cache' # NoEntry
  <2>1. CASE Registrar
    BY <1>2, <2>1 DEF Registrar, Register, Refresh, Deregister, Challenge,
       Heartbeat, Expire, ContactDown, ContactUp
  <2>2. ASSUME NEW t \in Threads, UnsolicitedOutgoingResponse(t)
        PROVE  cache' # NoEntry
    <3>1. PICK r \in resp[t] : Gate(r)
      BY <2>2 DEF UnsolicitedOutgoingResponse
    <3>2. r \in Response /\ r # Ok({})
      BY <1>2, <3>1 DEF TypeOK, Optional
    <3>3. ShouldFire(r, cache) # "forget"
      BY <3>2, OnlyEmptyAnswersForget
    <3> QED
      BY <1>2, <3>1, <3>3 DEF Gate
  <2>3. CASE Serializer
    BY <1>2, <2>3 DEF Serializer, StartFanout, StartChange, RetrieveContacts,
       FanoutQuery, FanoutSend, FanoutDone, RememberLink, ChangeSend,
       ChangeDone, UnlinkedInBetween
  <2>4. ASSUME NEW x \in Extens, (\E h \in Hints : HintChange(x, h)) \/ ExtStateCb(x)
        PROVE  cache' # NoEntry
    BY <1>2, <2>4 DEF HintChange, ExtStateCb
  <2>5. CASE UNCHANGED vars
    BY <1>2, <2>5 DEF vars
  <2> QED
    BY <1>2, <2>1, <2>2, <2>3, <2>4, <2>5 DEF Next
<1>3. Spec => []UnlinkedInBetween
  BY <1>1, UnlinkedStep, PTL DEF Spec
<1> QED
  BY <1>2, <1>3, TypeCorrect, PTL DEF Spec, RefreshIsNoOp

(***************************************************************************)
(* Whom the gate may skip.  SkipsOnlyBootstrapped is false of a phone that
   comes back at a Contact the module still lists; that this is the only way
   is proved here.                                                         *)
(***************************************************************************)

\* The module still lists c: in its cache entry, or in that of the task that
\* has retrieved the AOR's contacts already and will link it.
Remembers(c) ==
    \/ c \in cache
    \/ phase \in {"send", "link"} /\ c \in task.canonical

\* No phone registers at a Contact while the module still lists it.
ComesAfresh == \A c \in contacts' \ contacts : ~Remembers(c)

\* What a task sends is never nothing.
SampleInHand ==
    \/ at # {}
    \/ phase \in {"read", "send"} /\ ~IsFanout(task)
    => sample # {}

\* A fanout that has missed nobody has told, or will tell, every phone of its
\* REGISTER the state of every extension.
FanoutTells ==
    phase = "send" /\ IsFanout(task) /\ ~missed =>
        \A c \in task.canonical \cap contacts, x \in Extens :
            <<c, x>> \in todo \cup at \/ sent[<<c, x>>] # {}

\* Who is to be linked, and who is in the entry, is bootstrapped.
LinkedAreBootstrapped ==
    /\ phase = "link" => \A c \in task.canonical \cap contacts : Bootstrapped(c)
    /\ \A c \in cache \cap contacts : Bootstrapped(c)

SkipInv == SampleInHand /\ FanoutTells /\ LinkedAreBootstrapped

LEMMA InitSkipInv == Init => SkipInv
BY DEF Init, SkipInv, SampleInHand, FanoutTells, LinkedAreBootstrapped, NoEntry

\* Steps of other threads: no task moves, no entry is linked, and a phone
\* that is bound afterwards has what it was told before.
LEMMA OthersKeepSkipInv ==
    ASSUME SkipInv, ComesAfresh, UNCHANGED taskVars, cache' \subseteq cache,
           \A c \in contacts', x \in Extens : sent'[<<c, x>>] = sent[<<c, x>>]
    PROVE  SkipInv'
<1>1. \A c \in contacts' : Remembers(c) => c \in contacts
  BY DEF ComesAfresh
<1>2. \A c \in contacts' : Bootstrapped(c) => Bootstrapped(c)'
  BY DEF Bootstrapped
<1>3. SampleInHand'
  BY DEF SkipInv, SampleInHand, IsFanout, taskVars
<1>4. FanoutTells'
  BY <1>1 DEF SkipInv, FanoutTells, Remembers, IsFanout, taskVars
<1>5. LinkedAreBootstrapped'
  BY <1>1, <1>2 DEF SkipInv, LinkedAreBootstrapped, Remembers, taskVars
<1> QED
  BY <1>3, <1>4, <1>5 DEF SkipInv

\* The registrar, the hook, the hints and their callbacks are such steps.
LEMMA OtherSkipStep ==
    ASSUME LampInv, SkipInv, ComesAfresh,
           \/ Registrar
           \/ \E t \in Threads : UnsolicitedOutgoingResponse(t)
           \/ \E x \in Extens, h \in Hints : HintChange(x, h)
           \/ \E x \in Extens : ExtStateCb(x)
           \/ UNCHANGED vars
    PROVE  SkipInv'
<1>1. /\ UNCHANGED taskVars /\ cache' \subseteq cache
      /\ Darken \/ UNCHANGED sent
  <2>1. CASE Registrar
    BY <2>1 DEF Registrar, Register, Refresh, Deregister, Challenge, Heartbeat,
       Expire, ContactDown, ContactUp
  <2>2. ASSUME NEW t \in Threads, UnsolicitedOutgoingResponse(t)
        PROVE  UNCHANGED <<taskVars, sent>> /\ cache' \subseteq cache
    BY <2>2 DEF UnsolicitedOutgoingResponse, Gate, NoEntry
  <2>3. ASSUME NEW x \in Extens, (\E h \in Hints : HintChange(x, h)) \/ ExtStateCb(x)
        PROVE  UNCHANGED <<taskVars, sent, cache>>
    BY <2>3 DEF HintChange, ExtStateCb
  <2>4. CASE UNCHANGED vars
    BY <2>4 DEF vars, taskVars
  <2> QED
    BY <2>1, <2>2, <2>3, <2>4
<1>2. contacts' \subseteq Contacts
  BY NextTypeOK DEF LampInv, TypeOK, RegistrarTypeOK, Next
<1>3. \A c \in contacts', x \in Extens : sent'[<<c, x>>] = sent[<<c, x>>]
  BY <1>1, <1>2 DEF Darken, Pairs
<1> QED
  BY <1>1, <1>3, OthersKeepSkipInv

\* A task starts, and retrieves the AOR's contacts.
LEMMA StartSkipStep ==
    ASSUME LampInv, SkipInv, StartFanout \/ StartChange \/ RetrieveContacts
    PROVE  SkipInv'
<1>1. UNCHANGED <<contacts, cache, at, sent>> /\ at = {} /\ phase' # "link"
  BY DEF StartFanout, StartChange, RetrieveContacts, DedupChange, StartTask,
     LampInv, PhasesFit, registrarVars
<1>2. LinkedAreBootstrapped'
  BY <1>1 DEF SkipInv, LinkedAreBootstrapped, Bootstrapped
<1>3. CASE StartFanout
  <2>1. SampleInHand'
    BY <1>1, <1>3 DEF StartFanout, StartTask, SampleInHand, IsFanout
  <2>2. FanoutTells'
    BY <1>3 DEF StartFanout, StartTask, FanoutTells
  <2> QED
    BY <1>2, <2>1, <2>2 DEF SkipInv
<1>4. CASE StartChange
  <2>1. phase' # "send" /\ (phase' = "idle" \/ sample' # {})
    BY <1>4 DEF StartChange, DedupChange, StartTask
  <2> QED
    BY <1>1, <1>2, <2>1 DEF SkipInv, SampleInHand, FanoutTells
<1>5. CASE RetrieveContacts
  <2>1. SampleInHand'
    BY <1>1, <1>5 DEF RetrieveContacts, SkipInv, SampleInHand, IsFanout
  <2>2. FanoutTells'
    BY <1>1, <1>5 DEF RetrieveContacts, FanoutTells, IsFanout
  <2> QED
    BY <1>2, <2>1, <2>2 DEF SkipInv
<1> QED
  BY <1>3, <1>4, <1>5

\* One NOTIFY: whoever was told something still was, and a NOTIFY that missed
\* nobody has told the phone, if it is still there.
LEMMA SendSkipStep ==
    ASSUME LampInv, SkipInv, FanoutSend \/ ChangeSend
    PROVE  SkipInv'
<1>1. PICK p \in Pairs :
          /\ SendUnsolicitedNotify(p)
          /\ FanoutSend => at = {p}
  BY DEF FanoutSend, ChangeSend, LampInv, TypeOK, Optional
<1>2. /\ UNCHANGED <<contacts, cache, phase, task, sample>> /\ phase = "send"
      /\ sample # {}
  BY DEF FanoutSend, ChangeSend, SkipInv, SampleInHand, registrarVars
<1>3. /\ missed => missed'
      /\ \A q \in Pairs : q # p => sent'[q] = sent[q]
      /\ sent'[p] = sent[p] \/ sent'[p] = sample
      /\ ~missed' => p[1] \notin contacts \/ sent'[p] = sample
  BY <1>1, NotifySent DEF LampInv
<1>4. \A q \in Pairs : sent[q] # {} => sent'[q] # {}
  BY <1>2, <1>3
<1>5. LinkedAreBootstrapped'
  <2>1. ASSUME NEW c \in cache \cap contacts, NEW x \in Extens
        PROVE  sent'[<<c, x>>] # {}
    <3>1. sent[<<c, x>>] # {}
      BY DEF SkipInv, LinkedAreBootstrapped, Bootstrapped
    <3>2. <<c, x>> \in Pairs
      BY DEF LampInv, TypeOK, RegistrarTypeOK, Pairs
    <3> QED
      BY <1>4, <3>1, <3>2
  <2> QED
    BY <1>2, <2>1 DEF LinkedAreBootstrapped, Bootstrapped
<1>6. SampleInHand'
  BY <1>2 DEF SampleInHand
<1>7. FanoutTells'
  <2>1. CASE IsFanout(task)
    <3>1. at = {p} /\ at' = {} /\ todo' = todo
      BY <1>1, <2>1 DEF FanoutSend, ChangeSend
    <3>2. ASSUME ~missed', NEW c \in task.canonical \cap contacts, NEW x \in Extens
          PROVE  <<c, x>> \in todo \/ sent'[<<c, x>>] # {}
      <4>1. <<c, x>> \in Pairs
        BY DEF LampInv, TypeOK, RegistrarTypeOK, Pairs
      <4>2. CASE <<c, x>> = p
        BY <1>2, <1>3, <3>2, <4>2
      <4>3. CASE <<c, x>> # p
        <5>1. <<c, x>> \in todo \cup at \/ sent[<<c, x>>] # {}
          BY <1>2, <1>3, <2>1, <3>2 DEF SkipInv, FanoutTells
        <5> QED
          BY <1>4, <3>1, <4>1, <4>3, <5>1
      <4> QED
        BY <4>2, <4>3
    <3> QED
      BY <1>2, <3>1, <3>2 DEF FanoutTells
  <2>2. CASE ~IsFanout(task)
    BY <1>2, <2>2 DEF FanoutTells, IsFanout
  <2> QED
    BY <2>1, <2>2
<1> QED
  BY <1>5, <1>6, <1>7 DEF SkipInv

\* The reads of a fanout, the ends of the tasks and the commit.
LEMMA EndSkipStep ==
    ASSUME LampInv, SkipInv,
           FanoutQuery \/ FanoutDone \/ RememberLink \/ ChangeDone
    PROVE  SkipInv'
<1>1. UNCHANGED <<contacts, task, missed, sent>>
  BY DEF FanoutQuery, FanoutDone, RememberLink, ChangeDone, registrarVars
<1>2. \A c : Bootstrapped(c)' <=> Bootstrapped(c)
  BY <1>1 DEF Bootstrapped
<1>3. CASE FanoutQuery
  <2>1. todo' \cup at' = todo \cup at /\ sample' # {}
    BY <1>3 DEF FanoutQuery
  <2>2. UNCHANGED <<phase, cache>>
    BY <1>3 DEF FanoutQuery
  <2>3. FanoutTells'
    BY <1>1, <2>1, <2>2 DEF SkipInv, FanoutTells, IsFanout
  <2>4. SampleInHand' /\ LinkedAreBootstrapped'
    BY <1>1, <1>2, <2>1, <2>2 DEF SkipInv, SampleInHand, LinkedAreBootstrapped
  <2> QED
    BY <2>3, <2>4 DEF SkipInv
<1>4. CASE FanoutDone
  <2>1. /\ phase = "send" /\ IsFanout(task) /\ todo = {} /\ at = {} /\ at' = {}
        /\ phase' \in {"idle", "link"} /\ cache' \subseteq cache
        /\ phase' = "link" => ~missed
    BY <1>4 DEF FanoutDone, AllSent, NoEntry
  <2>2. phase' = "link" => \A c \in task.canonical \cap contacts : Bootstrapped(c)
    BY <2>1 DEF SkipInv, FanoutTells, Bootstrapped
  <2> QED
    BY <1>1, <1>2, <2>1, <2>2
    DEF SkipInv, SampleInHand, FanoutTells, LinkedAreBootstrapped
<1>5. CASE RememberLink
  <2>1. phase = "link" /\ phase' = "idle" /\ cache' = task.canonical /\ at' = at
    BY <1>5 DEF RememberLink
  <2>2. at = {}
    BY <2>1 DEF LampInv, PhasesFit
  <2> QED
    BY <1>1, <1>2, <2>1, <2>2
    DEF SkipInv, SampleInHand, FanoutTells, LinkedAreBootstrapped
<1>6. CASE ChangeDone
  <2>1. /\ phase = "send" /\ phase' = "idle" /\ UNCHANGED <<cache, at, sample>>
        /\ ~IsFanout(task)
    BY <1>6 DEF ChangeDone, IsFanout, registrarVars
  <2>2. at = {}
    BY <2>1 DEF LampInv, PhasesFit
  <2> QED
    BY <1>1, <1>2, <2>1, <2>2
    DEF SkipInv, SampleInHand, FanoutTells, LinkedAreBootstrapped
<1> QED
  BY <1>3, <1>4, <1>5, <1>6

LEMMA NextSkipInv == LampInv /\ SkipInv /\ ComesAfresh /\ [Next]_vars => SkipInv'
BY OtherSkipStep, StartSkipStep, SendSkipStep, EndSkipStep DEF Next, Serializer

\* As long as no phone registers at a Contact that is still listed in the
\* cache entry, or by the fanout about to replace it, cisco_register_should_fire()
\* skips a REGISTER only when every phone of the AOR has been sent every lamp
\* in its present session - whatever else comes, goes, fails or changes.
THEOREM SkippedAreBootstrapped ==
    Spec /\ [][ComesAfresh]_vars => []SkipsOnlyBootstrapped
<1>1. SkipInv => SkipsOnlyBootstrapped
  BY DEF SkipInv, LinkedAreBootstrapped, SkipsOnlyBootstrapped
<1>2. LampInv /\ SkipInv /\ [Next]_vars /\ [ComesAfresh]_vars => SkipInv'
  <2>1. UNCHANGED vars => ComesAfresh
    BY DEF vars, ComesAfresh
  <2> QED
    BY <2>1, NextSkipInv
<1> QED
  BY <1>1, <1>2, InitSkipInv, LampInvariant, PTL DEF Spec

(***************************************************************************)
(* The refinement of StatePush.                                            *)
(***************************************************************************)

\* Every step of BlfPush is one of UnsolicitedBlf, whose invariant it keeps.
LEMMA PushNextIsNext == [PushNext]_pushVars => [Next]_vars
BY DEF PushNext, pushVars, ReadHint, SendNotify, ChangeHint, RegisterTraffic,
       Otherwise, Next, Serializer

LEMMA PushLampInv == LampInv /\ [PushNext]_pushVars => LampInv'
BY PushNextIsNext, NextLampInv

LEMMA InitPushInv == PushInit => PushInv
<1> SUFFICES ASSUME PushInit PROVE PushInv
  OBVIOUS
<1>1. LampInv /\ Init
  BY InitLampInv DEF PushInit
<1>2. TypeOK
  BY <1>1 DEF LampInv
<1>3. \A x \in Extens : BlfQueryState(x) \in Lamps
  BY <1>2, SampleType
<1>4. \A x \in Extens : log[x] = <<BlfQueryState(x)>>
  BY DEF PushInit
<1>5. \A x \in Extens : /\ log[x] \in Seq(Lamps)
                        /\ Len(log[x]) = 1
                        /\ log[x] # <<>>
                        /\ log[x][Len(log[x])] = BlfQueryState(x)
  <2>1. \A v \in Lamps : /\ <<v>> \in Seq(Lamps) /\ Len(<<v>>) = 1
                         /\ <<v>> # <<>> /\ <<v>>[1] = v
    OBVIOUS
  <2> QED
    BY <1>3, <1>4, <2>1
<1>6. PushTypeOK
  BY <1>5 DEF PushInit, PushTypeOK
<1>7. LogEndsNow
  BY <1>5 DEF PushInit, LogEndsNow
<1>8. NobodyIsAhead
  BY <1>1 DEF Init, NobodyIsAhead, InHand, TaskOn
<1> QED
  BY <1>1, <1>6, <1>7, <1>8 DEF PushInv

\* The step that reads a hint takes the last entry of its log.
LEMMA ReadStep ==
    ASSUME PushInv, LampInv', ReadHint, UNCHANGED <<log, upto>>
    PROVE  PushInv' /\ UNCHANGED Push!vars
<1>1. /\ contacts' = contacts /\ sent' = sent /\ hint' = hint
  BY DEF ReadHint, StartChange, FanoutQuery
<1>2. UNCHANGED Push!vars
  BY <1>1 DEF Push!vars
<1>3. \A x : BlfQueryState(x)' = BlfQueryState(x)
  BY <1>1 DEF BlfQueryState
<1>4. LogEndsNow'
  BY <1>3 DEF PushInv, LogEndsNow
<1>5. \A x \in Extens : /\ Len(log[x]) \in Nat /\ Len(log[x]) > 0
                        /\ Len(log[x]) \in 1..Len(log[x])
                        /\ log[x][Len(log[x])] = BlfQueryState(x)
                        /\ \A c \in Contacts : upto[c][x] <= Len(log[x])
  BY DEF PushInv, PushTypeOK, LogEndsNow
<1>6. TypeOK /\ at \in Optional(Pairs)
  BY DEF PushInv, LampInv, TypeOK
<1>7. CASE StartChange
  <2>1. PICK x \in Head(queue).extension : DedupChange(x)
    BY <1>7 DEF StartChange
  <2>2. Head(queue) \in Task
    BY <1>6, <1>7 DEF StartChange, TypeOK
  <2>3. Head(queue).extension = {x} /\ x \in Extens
    BY <2>1, <2>2 DEF Task, Optional
  <2>4. phase = "idle" /\ at' = at /\ at = {}
    BY <1>7 DEF StartChange, PushInv, LampInv, PhasesFit
  <2>5. CASE phase' = "read"
    <3>1. task' = Head(queue) /\ sample' = {BlfQueryState(x)}
      BY <2>1, <2>4, <2>5 DEF DedupChange, StartTask
    <3>2. {Len(log[y]) : y \in task'.extension} = {Len(log[x])}
      BY <2>3, <3>1
    <3>3. stamp' = Len(log[x])
      <4>1. stamp' = CHOOSE n \in {Len(log[y]) : y \in task'.extension} : TRUE
        BY <1>7, <2>4, <2>5 DEF ReadHint, FanoutQuery
      <4>2. (CHOOSE n \in {Len(log[x])} : TRUE) = Len(log[x])
        OBVIOUS
      <4> QED
        BY <3>2, <4>1, <4>2
    <3>4. PushTypeOK'
      BY <1>5, <2>3, <3>3 DEF PushInv, PushTypeOK
    <3>5. \A y : InHand(y)' => y = x
      BY <2>3, <2>4, <3>1 DEF InHand, TaskOn
    <3>6. NobodyIsAhead'
      BY <1>5, <2>3, <3>1, <3>3, <3>5 DEF NobodyIsAhead
    <3> QED
      BY <1>2, <1>4, <3>4, <3>6 DEF PushInv
  <2>6. CASE phase' # "read"
    <3>1. phase' = "idle" /\ stamp' = stamp
      BY <1>7, <2>1, <2>4, <2>6 DEF ReadHint, FanoutQuery, DedupChange, StartTask
    <3>2. PushTypeOK'
      BY <3>1 DEF PushInv, PushTypeOK
    <3>3. NobodyIsAhead'
      BY <2>4, <3>1 DEF NobodyIsAhead, InHand, TaskOn
    <3> QED
      BY <1>2, <1>4, <3>2, <3>3 DEF PushInv
  <2> QED
    BY <2>5, <2>6
<1>8. CASE FanoutQuery
  <2>1. PICK p \in todo : at' = {p} /\ sample' = {BlfQueryState(p[2])}
    BY <1>8 DEF FanoutQuery
  <2>2. p[2] \in Extens
    BY <1>6, <2>1 DEF TypeOK, Pairs
  <2>3. {Len(log[q[2]]) : q \in at'} = {Len(log[p[2]])}
    BY <2>1
  <2>4. stamp' = Len(log[p[2]])
    <3>1. stamp' = CHOOSE n \in {Len(log[q[2]]) : q \in at'} : TRUE
      BY <1>8 DEF ReadHint, StartChange, FanoutQuery
    <3>2. (CHOOSE n \in {Len(log[p[2]])} : TRUE) = Len(log[p[2]])
      OBVIOUS
    <3> QED
      BY <2>3, <3>1, <3>2
  <2>5. PushTypeOK'
    BY <1>5, <2>2, <2>4 DEF PushInv, PushTypeOK
  <2>6. \A y : InHand(y)' => y = p[2]
    BY <1>8, <2>1 DEF InHand, TaskOn, FanoutQuery, IsFanout
  <2>7. NobodyIsAhead'
    BY <1>5, <2>1, <2>2, <2>4, <2>6 DEF NobodyIsAhead
  <2> QED
    BY <1>2, <1>4, <2>5, <2>7 DEF PushInv
<1> QED
  BY <1>7, <1>8 DEF ReadHint

\* One NOTIFY, seen from the history: either it is delivered, and the phone is
\* then at the place of the snapshot in the log, or nothing has happened.
LEMMA DeliverStep ==
    ASSUME PushInv, NEW c \in Contacts, NEW x \in Extens, InHand(x),
           SendUnsolicitedNotify(<<c, x>>), Delivered(<<c, x>>),
           UNCHANGED <<contacts, log, stamp, sample>>
    PROVE  /\ [Push!Next]_(Push!vars)
           /\ upto' \in [Contacts -> [Extens -> Nat]]
           /\ \A d \in Contacts, y \in Extens :
                 upto'[d][y] = upto[d][y] \/ (y = x /\ upto'[d][y] = stamp)
<1> DEFINE S == [d \in Contacts |-> [y \in Extens |-> sent[<<d, y>>]]]
<1>1. /\ upto \in [Contacts -> [Extens -> Nat]] /\ stamp \in Nat
      /\ sent \in [Pairs -> Optional(Lamps)] /\ <<c, x>> \in Pairs
      /\ budget \in [Events -> Nat] /\ "fault" \in Events
  BY DEF PushInv, PushTypeOK, LampInv, TypeOK, Pairs, Events
<1>2. stamp \in 1..Len(log[x]) /\ sample = {log[x][stamp]} /\ upto[c][x] <= stamp
  BY DEF PushInv, NobodyIsAhead
<1>3. CASE Reachable(c) /\ budget' = budget
  <2>1. upto' = [upto EXCEPT ![c][x] = stamp]
    BY <1>3 DEF Delivered
  <2>2. ~Spend("fault")
    BY <1>1, <1>3 DEF Spend
  <2>3. sent' = [sent EXCEPT ![<<c, x>>] = sample] /\ c \in contacts
    BY <1>3, <2>2 DEF SendUnsolicitedNotify, Reachable
  <2>4. S' = [S EXCEPT ![c][x] = {log[x][stamp]}]
    <3>1. \A d \in Contacts, y \in Extens :
             sent'[<<d, y>>] = IF d = c /\ y = x THEN {log[x][stamp]}
                                                 ELSE sent[<<d, y>>]
      BY <1>1, <1>2, <2>3 DEF Pairs
    <3> QED
      BY ZenonT(40), <3>1
  <2>5. Push!Push(c, x)
    BY <1>2, <2>1, <2>3, <2>4 DEF Push!Push
  <2> QED
    BY <1>1, <2>1, <2>5 DEF Push!Next
<1>4. CASE ~(Reachable(c) /\ budget' = budget)
  <2>1. upto' = upto
    BY <1>4 DEF Delivered
  <2>2. sent' = sent
    BY <1>4 DEF SendUnsolicitedNotify, Reachable
  <2> QED
    BY <1>1, <2>1, <2>2 DEF Push!vars
<1> QED
  BY <1>3, <1>4

LEMMA SendStep ==
    ASSUME PushInv, LampInv', SendNotify, UNCHANGED <<log, stamp>>
    PROVE  PushInv' /\ [Push!Next]_(Push!vars)
<1>1. /\ contacts' = contacts /\ hint' = hint /\ sample' = sample
      /\ phase = "send" /\ phase' = "send" /\ task' = task
  BY DEF SendNotify, FanoutSend, ChangeSend
<1>2. PICK c \in Contacts, x \in Extens :
         /\ SendUnsolicitedNotify(<<c, x>>) /\ Delivered(<<c, x>>)
         /\ InHand(x) /\ at' \subseteq at
  <2>1. at \in Optional(Pairs) /\ todo \subseteq Pairs
    BY DEF PushInv, LampInv, TypeOK
  <2>2. CASE FanoutSend /\ \E p \in at : Delivered(p)
    <3>1. PICK p \in at : SendUnsolicitedNotify(p)
      BY <2>2 DEF FanoutSend
    <3>2. at = {p} /\ p \in Pairs
      BY <2>1, <3>1 DEF Optional
    <3>3. Delivered(p) /\ InHand(p[2]) /\ at' = {}
      BY <2>2, <3>2 DEF InHand, FanoutSend
    <3>4. PICK c \in Contacts, x \in Extens : p = <<c, x>>
      BY <3>2 DEF Pairs
    <3> QED
      BY <3>1, <3>3, <3>4
  <2>3. CASE ChangeSend /\ \E p \in todo \ todo' : Delivered(p)
    <3>1. PICK p \in todo : SendUnsolicitedNotify(p) /\ todo' = todo \ {p}
      BY <2>3 DEF ChangeSend
    <3>2. PICK q \in todo \ todo' : Delivered(q)
      BY <2>3
    <3>3. p = q
      BY <3>1, <3>2
    <3>4. PICK c \in Contacts, x \in Extens : p = <<c, x>>
      BY <2>1, <3>1 DEF Pairs
    <3>5. task.extension = {x}
      BY <2>3, <3>1, <3>4 DEF ChangeSend, PushInv, LampInv, PhasesFit
    <3>6. InHand(x) /\ at' = at
      BY <2>3, <3>5, <1>1 DEF InHand, TaskOn, ChangeSend
    <3> QED
      BY <3>1, <3>2, <3>3, <3>4, <3>6
  <2> QED
    BY <2>2, <2>3 DEF SendNotify
<1>3. /\ [Push!Next]_(Push!vars)
      /\ upto' \in [Contacts -> [Extens -> Nat]]
      /\ \A d \in Contacts, y \in Extens :
            upto'[d][y] = upto[d][y] \/ (y = x /\ upto'[d][y] = stamp)
  BY <1>1, <1>2, DeliverStep
<1>4. PushTypeOK'
  BY <1>3 DEF PushInv, PushTypeOK
<1>5. stamp \in 1..Len(log[x]) /\ \A y \in Extens : Len(log[y]) \in Nat
  BY <1>2 DEF PushInv, NobodyIsAhead, PushTypeOK
<1>6. \A y \in Extens : InHand(y)' => InHand(y)
  BY <1>1, <1>2 DEF InHand, TaskOn
<1>7. LogEndsNow'
  <2>1. \A y : BlfQueryState(y)' = BlfQueryState(y)
    BY <1>1 DEF BlfQueryState
  <2>2. \A d \in Contacts, y \in Extens : upto'[d][y] <= Len(log[y])
    BY <1>3, <1>5 DEF PushInv, LogEndsNow
  <2> QED
    BY <2>1, <2>2 DEF PushInv, LogEndsNow
<1>8. NobodyIsAhead'
  BY <1>1, <1>3, <1>5, <1>6 DEF PushInv, NobodyIsAhead
<1> QED
  BY <1>3, <1>4, <1>7, <1>8 DEF PushInv

\* A change of a hint is a change of the item.
LEMMA ChangeStep ==
    ASSUME PushInv, LampInv', NEW x \in Extens, ChangeHint(x),
           UNCHANGED <<stamp, upto>>
    PROVE  PushInv' /\ [Push!Next]_(Push!vars)
<1>1. PICK h \in Hints : HintChange(x, h)
  BY DEF ChangeHint
<1>2. /\ contacts' = contacts /\ sent' = sent /\ sample' = sample
      /\ phase' = phase /\ task' = task /\ at' = at
      /\ x \in Hinted /\ hint' = [hint EXCEPT ![x] = h]
  BY <1>1 DEF HintChange
<1>3. hint'[x] = h /\ \A y \in Extens : y # x => hint'[y] = hint[y]
  BY <1>2 DEF PushInv, LampInv, TypeOK
<1> DEFINE v == ActivityBits(h)
<1>4. v \in Lamps
  BY DEF Lamps
<1>5. log' = [log EXCEPT ![x] = Append(@, v)]
  BY <1>3 DEF ChangeHint
<1>6. Push!Change(x, v)
  BY <1>2, <1>5 DEF Push!Change
<1>7. log \in [Extens -> Seq(Lamps)]
  BY DEF PushInv, PushTypeOK
<1> HIDE DEF v
<1>8. /\ Append(log[x], v) \in Seq(Lamps)
      /\ Len(Append(log[x], v)) = Len(log[x]) + 1
      /\ Append(log[x], v)[Len(log[x]) + 1] = v
      /\ \A i \in 1..Len(log[x]) : Append(log[x], v)[i] = log[x][i]
  BY <1>4, <1>7
<1>9. /\ \A y \in Extens : Len(log[y]) \in Nat
      /\ log'[x] = Append(log[x], v)
      /\ \A y \in Extens : y # x => log'[y] = log[y]
  BY <1>5, <1>7
<1>10. PushTypeOK'
  BY <1>5, <1>7, <1>8 DEF PushInv, PushTypeOK
<1>11. LogEndsNow'
  <2>1. BlfQueryState(x)' = v
    BY <1>2, <1>3 DEF BlfQueryState, v
  <2>2. \A y \in Extens : y # x => BlfQueryState(y)' = BlfQueryState(y)
    BY <1>3 DEF BlfQueryState
  <2>3. log'[x] # <<>>
    <3>1. Len(log'[x]) # 0
      BY <1>8, <1>9
    <3>2. Len(<<>>) = 0
      OBVIOUS
    <3> QED
      BY <3>1, <3>2
  <2>4. \A c \in Contacts : upto[c][x] \in Nat /\ upto[c][x] <= Len(log[x])
    BY DEF PushInv, LogEndsNow, PushTypeOK
  <2>5. ASSUME NEW y \in Extens
        PROVE  /\ log'[y] # <<>>
               /\ log'[y][Len(log'[y])] = BlfQueryState(y)'
               /\ \A c \in Contacts : upto[c][y] <= Len(log'[y])
    <3>1. CASE y = x
      BY <1>8, <1>9, <2>1, <2>3, <2>4, <3>1
    <3>2. CASE y # x
      BY <1>9, <2>2, <3>2 DEF PushInv, LogEndsNow
    <3> QED
      BY <3>1, <3>2
  <2> QED
    BY <2>5 DEF LogEndsNow
<1>12. NobodyIsAhead'
  <2> SUFFICES ASSUME NEW y \in Extens, InHand(y)'
               PROVE  /\ stamp \in 1..Len(log'[y])
                      /\ sample = {log'[y][stamp]}
                      /\ \A c \in Contacts : upto[c][y] <= stamp
    BY <1>2 DEF NobodyIsAhead
  <2>1. InHand(y)
    BY <1>2 DEF InHand, TaskOn
  <2>2. /\ stamp \in 1..Len(log[y]) /\ sample = {log[y][stamp]}
        /\ \A c \in Contacts : upto[c][y] <= stamp
    BY <2>1 DEF PushInv, NobodyIsAhead
  <2>3. CASE y = x
    BY <1>8, <1>9, <2>2, <2>3
  <2>4. CASE y # x
    BY <1>9, <2>2, <2>4
  <2> QED
    BY <2>3, <2>4
<1> QED
  BY <1>4, <1>6, <1>10, <1>11, <1>12 DEF PushInv, Push!Next

\* Phones come and go, or nothing changes for any of them.
LEMMA TrafficStep ==
    ASSUME PushInv, LampInv', RegisterTraffic, UNCHANGED <<log, stamp>>
    PROVE  PushInv' /\ [Push!Next]_(Push!vars)
<1>1. /\ hint' = hint /\ sample' = sample
      /\ phase' = phase /\ task' = task /\ at' = at
      /\ Darken \/ (contacts' = contacts /\ sent' = sent)
  BY DEF RegisterTraffic, Registrar, Register, Refresh, Deregister, Challenge,
     Heartbeat, Expire, ContactDown, ContactUp, RefreshContact,
     ChallengeRegister, KeepaliveOnRxRequest
<1>2. /\ upto \in [Contacts -> [Extens -> Nat]]
      /\ contacts' \subseteq Contacts
      /\ \A c \in Contacts \ contacts, x \in Extens : sent[<<c, x>>] = {}
  BY DEF PushInv, PushTypeOK, LampInv, TypeOK, UnboundIsDark
<1>3. upto' = [c \in Contacts |->
                  IF c \in contacts' THEN upto[c] ELSE [x \in Extens |-> 0]]
  BY DEF RegisterTraffic
<1>4. /\ upto' \in [Contacts -> [Extens -> Nat]]
      /\ \A c \in Contacts, x \in Extens : upto'[c][x] <= upto[c][x]
  <2>1. \A c \in Contacts, x \in Extens :
           upto'[c][x] \in Nat /\ upto'[c][x] <= upto[c][x]
    BY <1>2, <1>3
  <2>2. \A c \in Contacts : upto'[c] \in [Extens -> Nat]
    BY <1>2, <1>3
  <2> QED
    BY <1>3, <2>1, <2>2
<1>5. PICK S \in SUBSET Contacts : Push!Sessions(S)
  <2>1. \A c \in Contacts, x \in Extens :
           sent'[<<c, x>>] = IF c \in contacts' THEN sent[<<c, x>>] ELSE {}
    <3>1. CASE Darken
      <4>1. \A c \in Contacts, x \in Extens :
               <<c, x>> \in Pairs /\ <<c, x>>[1] = c
        BY DEF Pairs
      <4> QED
        BY <3>1, <4>1 DEF Darken
    <3>2. CASE contacts' = contacts /\ sent' = sent
      BY <1>2, <3>2
    <3> QED
      BY <1>1, <3>1, <3>2
  <2>2. PICK S \in SUBSET Contacts : S = contacts'
    BY <1>2
  <2>3. Push!Sessions(S)
    BY <1>3, <2>1, <2>2 DEF Push!Sessions, Push!Nothing, Push!Nowhere
  <2> QED
    BY <2>3
<1>6. PushTypeOK'
  BY <1>4 DEF PushInv, PushTypeOK
<1>7. \A x \in Extens : Len(log[x]) \in Nat
  BY DEF PushInv, PushTypeOK
<1>8. LogEndsNow'
  <2>1. \A x : BlfQueryState(x)' = BlfQueryState(x)
    BY <1>1 DEF BlfQueryState
  <2>2. \A c \in Contacts, x \in Extens : upto'[c][x] <= Len(log[x])
    BY <1>2, <1>4, <1>7 DEF PushInv, LogEndsNow
  <2> QED
    BY <2>1, <2>2 DEF PushInv, LogEndsNow
<1>9. NobodyIsAhead'
  <2>1. \A x : InHand(x)' <=> InHand(x)
    BY <1>1 DEF InHand, TaskOn
  <2>2. stamp \in Nat
    BY DEF PushInv, PushTypeOK
  <2>3. \A x \in Extens : InHand(x) => \A c \in Contacts : upto'[c][x] <= stamp
    BY <1>2, <1>4, <2>2 DEF PushInv, NobodyIsAhead
  <2> QED
    BY <1>1, <2>1, <2>3 DEF PushInv, NobodyIsAhead
<1>10. Push!Next
  BY <1>5 DEF Push!Next
<1> QED
  BY <1>6, <1>8, <1>9, <1>10 DEF PushInv

\* The rest of the module reads no hint and sends nothing.
LEMMA OtherwiseStep ==
    ASSUME PushInv, LampInv', Otherwise \/ UNCHANGED vars,
           UNCHANGED <<log, stamp, upto>>
    PROVE  PushInv' /\ UNCHANGED Push!vars
<1>1. /\ contacts' = contacts /\ sent' = sent /\ hint' = hint
      /\ sample' = sample /\ at' = at
  BY DEF Otherwise, vars, UnsolicitedOutgoingResponse, ExtStateCb, StartFanout,
     RetrieveContacts, FanoutDone, RememberLink, ChangeDone, StartTask
<1>2. \A x : TaskOn(x)' => TaskOn(x)
  <2>1. CASE StartFanout
    BY <2>1 DEF StartFanout, StartTask, TaskOn, IsFanout
  <2>2. CASE ~StartFanout
    BY <2>2 DEF Otherwise, vars, UnsolicitedOutgoingResponse, ExtStateCb,
       RetrieveContacts, FanoutDone, RememberLink, ChangeDone, TaskOn
  <2> QED
    BY <2>1, <2>2
<1>3. UNCHANGED Push!vars
  BY <1>1 DEF Push!vars
<1>4. \A x : (InHand(x)' => InHand(x)) /\ BlfQueryState(x)' = BlfQueryState(x)
  BY <1>1, <1>2 DEF InHand, BlfQueryState
<1>5. PushTypeOK' /\ LogEndsNow'
  BY <1>4 DEF PushInv, PushTypeOK, LogEndsNow
<1>6. NobodyIsAhead'
  BY <1>1, <1>4 DEF PushInv, NobodyIsAhead
<1> QED
  BY <1>3, <1>5, <1>6 DEF PushInv

\* Every step keeps the invariant and is a step of StatePush, or a stutter.
LEMMA PushSimulation ==
    PushInv /\ [PushNext]_pushVars => PushInv' /\ [Push!Next]_(Push!vars)
<1> SUFFICES ASSUME PushInv, [PushNext]_pushVars
             PROVE  PushInv' /\ [Push!Next]_(Push!vars)
  OBVIOUS
<1>1. LampInv'
  BY PushLampInv DEF PushInv
<1>2. CASE ReadHint /\ UNCHANGED <<log, upto>>
  BY <1>1, <1>2, ReadStep
<1>3. CASE SendNotify /\ UNCHANGED <<log, stamp>>
  BY <1>1, <1>3, SendStep
<1>4. ASSUME NEW x \in Extens, ChangeHint(x), UNCHANGED <<stamp, upto>>
      PROVE  PushInv' /\ [Push!Next]_(Push!vars)
  BY <1>1, <1>4, ChangeStep
<1>5. CASE RegisterTraffic /\ UNCHANGED <<log, stamp>>
  BY <1>1, <1>5, TrafficStep
<1>6. CASE (Otherwise \/ UNCHANGED vars) /\ UNCHANGED <<log, stamp, upto>>
  BY <1>1, <1>6, OtherwiseStep
<1> QED
  BY <1>2, <1>3, <1>4, <1>5, <1>6 DEF PushNext, pushVars

\* At the start nobody is registered and every extension has one state.
LEMMA PushInitSimulation == PushInit => Push!Init
<1> SUFFICES ASSUME PushInit PROVE Push!Init
  OBVIOUS
<1>1. TypeOK /\ Init
  BY InitTypeOK DEF PushInit
<1>2. log \in [Extens -> {<<v>> : v \in Lamps}]
  BY <1>1, SampleType DEF PushInit
<1>3. [c \in Contacts |-> [x \in Extens |-> sent[<<c, x>>]]]
         = [c \in Contacts |-> [x \in Extens |-> {}]]
  BY <1>1 DEF Init, Pairs
<1> QED
  BY <1>1, <1>2, <1>3
     DEF PushInit, Init, Push!Init, Push!Nothing, Push!Nowhere

\* The invariant of the refinement holds in every behaviour.
THEOREM PushInvariant == PushSpec => []PushInv
<1> QED
  BY InitPushInv, PushSimulation, PTL DEF PushSpec

\* The supplement implements what StatePush promises: whatever overlaps and
\* fails, the lamp of a phone only moves forward through the states its
\* extension has had.
THEOREM ImplementsStatePush == PushSpec => LampsFollowHints
<1> QED
  BY PushInitSimulation, PushSimulation, PushInvariant, PTL
     DEF PushSpec, LampsFollowHints, Push!SafeSpec

=============================================================================
