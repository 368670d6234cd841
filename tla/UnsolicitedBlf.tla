--------------------------- MODULE UnsolicitedBlf ---------------------------
(***************************************************************************)
(* res_pjsip_cisco_unsolicited_blf.c for one endpoint: after a REGISTER the
   phone is sent the state of every extension on its subscribe list, and
   from then on every change of one of them.

   Three parties run concurrently: the servant threads that answer REGISTERs
   and run the supplement's hook, the core's extension-state thread that
   runs ext_state_cb(), and the module's serializer, which runs the queued
   unsolicited_send_task()s one after the other.  A task is split where it
   reads shared state: the snapshot of a hint, the AOR's contacts, each
   NOTIFY, and the two halves of remember_str().

   Endpoints share nothing but the order of the serializer's queue, so one
   endpoint is enough.  The empty optional value is NULL, BLF_BITS_NONE or
   "never sent".                                                           *)
(***************************************************************************)
EXTENDS Sequences, Registrar, BlfPidf

CONSTANTS
    Extens,       \* the extensions on the endpoint's subscribe list
    Hinted,       \* those of them that have a hint in the dialplan
    Hints,        \* the hint states that occur
    MaxQueue,     \* refreshes come much slower than the serializer works:
                  \* a phone does not refresh while the queue is this long
    Budgets       \* how often each event of the environment may happen

Events == {"register", "deregister", "expire", "challenge", "heartbeat",
           "hint", "fault"}

ASSUME BlfConstants ==
    /\ Hinted \subseteq Extens
    /\ Hints \subseteq HintState
    /\ Hints # {}
    /\ MaxQueue \in Nat
    /\ \A b \in Budgets : b \in [Events -> Nat]

VARIABLES
    \* --- the registrar's, beside contacts and resp (external) ---
    avail,        \* Contacts not known to be UNAVAILABLE
    \* --- the extension-state core (external) ---
    hint,         \* hint[x]: the state of x
    notify,       \* extensions whose callbacks are still to be called
    \* --- the module's state ---
    cache,        \* unsolicited_addr_cache, the endpoint's entry
    watched,      \* ext_state_watchers: extensions with a watcher
    last,         \* last[x]: last_bits of x's watcher
    queue,        \* tasks pushed to the serializer
    \* --- the task the serializer runs ---
    phase,        \* where it is
    task,         \* its struct unsolicited_task_data
    sample,       \* the bits of the snapshot in hand
    todo,         \* (contact, extension) pairs still to do
    at,           \* the pair whose hint a REGISTER fanout has just read
    tried,        \* attempted > 0
    missed,       \* attempted # succeeded
    \* --- history ---
    sent,         \* sent[<<c, x>>]: bits last queued to c for x since c was bound
    unheard,      \* extensions with a change for which no task was queued
    partial,      \* extensions whose last change missed some contact
    budget        \* what is left of it

registrarVars == <<contacts, avail, resp>>
coreVars == <<hint, notify>>
taskVars == <<phase, task, sample, todo, at, tried, missed>>
vars == <<contacts, avail, resp, hint, notify, cache, watched, last, queue,
          phase, task, sample, todo, at, tried, missed, sent, unheard,
          partial, budget>>

-----------------------------------------------------------------------------

Pairs == Contacts \X Extens
Lamps == {ActivityBits(h) : h \in Hints \cup {NoHint}}
\* struct unsolicited_task_data: extension is NULL on the REGISTER path,
\* canonical is NULL on the state-change path.
Task == [canonical : SUBSET Contacts, extension : Optional(Extens)]
FanoutTask(canonical) == [canonical |-> canonical, extension |-> {}]
ChangeTask(x) == [canonical |-> {}, extension |-> {x}]
IsFanout(t) == t.extension = {}

\* A state change of x waits in q.
Queued(q, x) == \E i \in 1..Len(q) : q[i].extension = {x}

TypeOK ==
    /\ RegistrarTypeOK
    /\ avail \subseteq Contacts
    /\ hint \in [Extens -> Hints]
    /\ notify \subseteq Hinted
    /\ cache \subseteq Contacts
    /\ watched \subseteq Hinted
    /\ last \in [Extens -> Optional(Lamps)]
    /\ queue \in Seq(Task)
    /\ phase \in {"idle", "read", "send", "link"}
    /\ task \in Task
    /\ sample \in Optional(Lamps)
    /\ todo \subseteq Pairs
    /\ at \in Optional(Pairs)
    /\ tried \in BOOLEAN
    /\ missed \in BOOLEAN
    /\ sent \in [Pairs -> Optional(Lamps)]
    /\ unheard \subseteq Extens
    /\ partial \subseteq Extens
    /\ budget \in [Events -> Nat]

Init ==
    /\ contacts = {}
    /\ avail = Contacts
    /\ resp = NoAnswers
    /\ hint \in [Extens -> Hints]
    /\ notify = {}
    /\ cache = NoEntry
    /\ watched = {}
    /\ last = [x \in Extens |-> {}]
    /\ queue = <<>>
    /\ phase = "idle"
    /\ task = FanoutTask({})
    /\ sample = {}
    /\ todo = {}
    /\ at = {}
    /\ tried = FALSE
    /\ missed = FALSE
    /\ sent = [p \in Pairs |-> {}]
    /\ unheard = {}
    /\ partial = {}
    /\ budget \in Budgets

Spend(e) == budget[e] > 0 /\ budget' = [budget EXCEPT ![e] = @ - 1]

-----------------------------------------------------------------------------
(* The registrar.  A phone whose Contact is no longer bound starts a new    *)
(* session, with all its lamps dark, when it registers again.               *)

Darken == sent' = [p \in Pairs |-> IF p[1] \in contacts' THEN sent[p] ELSE {}]

\* A new Contact's status is CREATED, which send_unsolicited_notify() takes
\* as reachable.
Register(t, c) ==
    /\ AddContact(t, c)
    /\ Spend("register")
    /\ Darken
    /\ avail' = avail \cup {c}
    /\ UNCHANGED <<coreVars, cache, watched, last, queue, taskVars,
                   unheard, partial>>

Refresh(t, c) ==
    /\ Len(queue) < MaxQueue
    /\ RefreshContact(t, c)
    /\ UNCHANGED <<avail, coreVars, cache, watched, last, queue, taskVars,
                   sent, unheard, partial, budget>>

Deregister(t, c) ==
    /\ RemoveContact(t, c)
    /\ Spend("deregister")
    /\ Darken
    /\ UNCHANGED <<avail, coreVars, cache, watched, last, queue, taskVars,
                   unheard, partial>>

Expire(c) ==
    /\ ExpireContact(c)
    /\ Spend("expire")
    /\ Darken
    /\ UNCHANGED <<avail, coreVars, cache, watched, last, queue, taskVars,
                   unheard, partial>>

Challenge(t) ==
    /\ ChallengeRegister(t)
    /\ Spend("challenge")
    /\ UNCHANGED <<avail, coreVars, cache, watched, last, queue, taskVars,
                   sent, unheard, partial>>

Heartbeat(t) ==
    /\ KeepaliveOnRxRequest(t)
    /\ Spend("heartbeat")
    /\ UNCHANGED <<avail, coreVars, cache, watched, last, queue, taskVars,
                   sent, unheard, partial>>

\* Qualify marks a dead Contact UNAVAILABLE, and a live one AVAILABLE again.
ContactDown(c) ==
    /\ c \in contacts \cap avail
    /\ Spend("fault")
    /\ avail' = avail \ {c}
    /\ UNCHANGED <<contacts, resp, coreVars, cache, watched, last, queue,
                   taskVars, sent, unheard, partial>>

ContactUp(c) ==
    /\ c \in contacts \ avail
    /\ avail' = avail \cup {c}
    /\ UNCHANGED <<contacts, resp, coreVars, cache, watched, last, queue,
                   taskVars, sent, unheard, partial, budget>>

-----------------------------------------------------------------------------
(* The REGISTER hook.  A push that fails is logged and nothing else.        *)

Gate(r) ==
    \/ /\ ShouldFire(r, cache) \in {"ignore", "skip"}
       /\ UNCHANGED <<cache, queue, budget>>
    \/ /\ ShouldFire(r, cache) = "forget"
       /\ cache' = NoEntry
       /\ UNCHANGED <<queue, budget>>
    \/ /\ ShouldFire(r, cache) = "fire"
       /\ \/ /\ queue' = Append(queue, FanoutTask(Canonical(r)))
             /\ UNCHANGED budget
          \/ Spend("fault") /\ UNCHANGED queue
       /\ UNCHANGED cache

UnsolicitedOutgoingResponse(t) ==
    /\ \E r \in resp[t] : Gate(r)
    /\ Answered(t)
    /\ UNCHANGED <<contacts, avail, coreVars, watched, last, taskVars, sent,
                   unheard, partial>>

-----------------------------------------------------------------------------
(* The extension-state core, and the watcher's callback.                    *)

HintChange(x, h) ==
    /\ x \in Hinted
    /\ h # hint[x]
    /\ Spend("hint")
    /\ hint' = [hint EXCEPT ![x] = h]
    /\ notify' = notify \cup {x}
    /\ UNCHANGED <<registrarVars, cache, watched, last, queue, taskVars, sent,
                   unheard, partial>>

\* Someone has been told, or is about to be told, an earlier state of x.
Sampled(x) ==
    \/ \E p \in at : p[2] = x
    \/ \E c \in Contacts : sent[<<c, x>>] # {}

\* ext_state_cb(): just queue the task.
ExtStateCb(x) ==
    /\ x \in notify
    /\ notify' = notify \ {x}
    /\ \/ /\ x \in watched
          /\ queue' = Append(queue, ChangeTask(x))
          /\ unheard' = unheard \ {x}
          /\ UNCHANGED budget
       \/ /\ x \in watched
          /\ Spend("fault")
          /\ unheard' = unheard \cup {x}
          /\ UNCHANGED queue
       \/ /\ x \notin watched
          /\ unheard' = IF Sampled(x) THEN unheard \cup {x} ELSE unheard
          /\ UNCHANGED <<queue, budget>>
    /\ UNCHANGED <<registrarVars, hint, cache, watched, last, taskVars, sent,
                   partial>>

-----------------------------------------------------------------------------
(* unsolicited_send_task() on the serializer.                               *)

\* blf_query_state() and cisco_blf_activity_bits() on it.
BlfQueryState(x) == ActivityBits(IF x \in Hinted THEN hint[x] ELSE NoHint)

StartTask ==
    /\ phase' = "read"
    /\ task' = Head(queue)
    /\ tried' = FALSE
    /\ missed' = FALSE

\* The REGISTER path; an empty subscribe list ends the task here.
StartFanout ==
    /\ phase = "idle"
    /\ queue # <<>>
    /\ IsFanout(Head(queue))
    /\ queue' = Tail(queue)
    /\ IF Extens = {}
       THEN UNCHANGED <<phase, task, sample, tried, missed>>
       ELSE StartTask /\ UNCHANGED sample
    /\ UNCHANGED <<registrarVars, coreVars, cache, watched, last, todo, at,
                   sent, unheard, partial, budget>>

\* Mutant: the sentinel is taken for "nothing to send".
StateChangeShouldSendNone(x, bits) == last[x] # {} /\ last[x] # {bits}

\* blf_state_change_should_send()
StateChangeShouldSend(x, bits) == x \notin watched \/ last[x] # {bits}

\* Mutant: the task sends the snapshot of the one before.
DedupChangeStale(x) ==
    IF StateChangeShouldSend(x, BlfQueryState(x))
    THEN StartTask /\ UNCHANGED sample
    ELSE UNCHANGED <<phase, task, sample, tried, missed>>

\* The state-change path: one snapshot for the dedup and every NOTIFY.
DedupChange(x) ==
    IF StateChangeShouldSend(x, BlfQueryState(x))
    THEN StartTask /\ sample' = {BlfQueryState(x)}
    ELSE UNCHANGED <<phase, task, sample, tried, missed>>

StartChange ==
    /\ phase = "idle"
    /\ queue # <<>>
    /\ queue' = Tail(queue)
    /\ \E x \in Head(queue).extension : DedupChange(x)
    /\ UNCHANGED <<registrarVars, coreVars, cache, watched, last, todo, at,
                   sent, unheard, partial, budget>>

\* Mutant: only the AOR's first contact is notified.
RetrieveFirstContact ==
    /\ phase = "read"
    /\ phase' = "send"
    /\ \E first \in SUBSET contacts :
          /\ Cardinality(first) = IF contacts = {} THEN 0 ELSE 1
          /\ todo' = first \X (IF IsFanout(task) THEN Extens
                                                  ELSE task.extension)
    /\ UNCHANGED <<registrarVars, coreVars, cache, watched, last, queue, task,
                   sample, at, tried, missed, sent, unheard, partial, budget>>

\* ast_sip_location_retrieve_contacts_from_aor_list().  The pairs are done
\* in any order; the code's order is that of the contacts container.
RetrieveContacts ==
    /\ phase = "read"
    /\ phase' = "send"
    /\ todo' = contacts \X (IF IsFanout(task) THEN Extens ELSE task.extension)
    /\ UNCHANGED <<registrarVars, coreVars, cache, watched, last, queue, task,
                   sample, at, tried, missed, sent, unheard, partial, budget>>

Reachable(c) == c \in contacts \cap avail

\* send_unsolicited_notify(): a removed Contact has status REMOVED or none,
\* so its NOTIFY may go out or not; a fault is any other failure to send.
SendUnsolicitedNotify(p) ==
    /\ tried' = TRUE
    /\ \/ /\ Reachable(p[1])
          /\ sent' = [sent EXCEPT ![p] = sample]
          /\ UNCHANGED <<missed, budget>>
       \/ p[1] \notin contacts /\ UNCHANGED <<missed, sent, budget>>
       \/ ~Reachable(p[1]) /\ missed' = TRUE /\ UNCHANGED <<sent, budget>>
       \/ Reachable(p[1]) /\ Spend("fault") /\ missed' = TRUE /\ UNCHANGED sent

\* The REGISTER path reads each extension's state for each contact ...
FanoutQuery ==
    /\ phase = "send"
    /\ IsFanout(task)
    /\ at = {}
    /\ \E p \in todo :
          /\ at' = {p}
          /\ todo' = todo \ {p}
          /\ sample' = {BlfQueryState(p[2])}
    /\ UNCHANGED <<registrarVars, coreVars, cache, watched, last, queue, phase,
                   task, tried, missed, sent, unheard, partial, budget>>

\* Mutants: the watcher keeps its baseline; the watcher is linked although
\* ast_extension_state_add() failed.
EnsureWatcherKeepBaseline(x) ==
    /\ watched' = watched \cup ({x} \cap Hinted)
    /\ UNCHANGED last
EnsureWatcherUnchecked(x) ==
    /\ watched' = watched \cup {x}
    /\ last' = [last EXCEPT ![x] = {}]

\* ensure_ext_state_watcher(): reset the dedup baseline of a watcher that
\* exists, else add one, which needs a hint.
EnsureExtStateWatcher(x) ==
    /\ watched' = watched \cup ({x} \cap Hinted)
    /\ last' = [last EXCEPT ![x] = {}]

\* ... sends it, and then makes sure that x is watched.
FanoutSend ==
    /\ phase = "send"
    /\ \E p \in at :
          /\ SendUnsolicitedNotify(p)
          /\ EnsureExtStateWatcher(p[2])
    /\ at' = {}
    /\ UNCHANGED <<registrarVars, coreVars, cache, queue, phase, task, sample,
                   todo, unheard, partial>>

ChangeSend ==
    /\ phase = "send"
    /\ ~IsFanout(task)
    /\ \E p \in todo :
          /\ SendUnsolicitedNotify(p)
          /\ todo' = todo \ {p}
    /\ UNCHANGED <<registrarVars, coreVars, cache, watched, last, queue, phase,
                   task, sample, at, unheard, partial>>

\* Mutants: any success commits; the commit is unconditional.
AnySent == tried
AlwaysCommit == TRUE

\* attempted > 0 && attempted == succeeded
AllSent == tried /\ ~missed

\* The commit of a fanout: cisco_register_address_remember_str() unlinks the
\* old entry ...
FanoutDone ==
    /\ phase = "send" /\ todo = {} /\ at = {}
    /\ IsFanout(task)
    /\ IF AllSent
       THEN cache' = NoEntry /\ phase' = "link"
       ELSE phase' = "idle" /\ UNCHANGED cache
    /\ UNCHANGED <<registrarVars, coreVars, watched, last, queue, task, sample,
                   todo, at, tried, missed, sent, unheard, partial, budget>>

\* ... and links the new one.
RememberLink ==
    /\ phase = "link"
    /\ cache' = task.canonical
    /\ phase' = "idle"
    /\ UNCHANGED <<registrarVars, coreVars, watched, last, queue, task, sample,
                   todo, at, tried, missed, sent, unheard, partial, budget>>

\* The commit of a state change: blf_state_change_commit()
StateChangeCommit(x) ==
    /\ last' = IF AllSent /\ x \in watched
               THEN [last EXCEPT ![x] = sample] ELSE last
    /\ partial' = IF missed THEN partial \cup {x}
                  ELSE IF tried THEN partial \ {x} ELSE partial

ChangeDone ==
    /\ phase = "send" /\ todo = {}
    /\ \E x \in task.extension : StateChangeCommit(x)
    /\ phase' = "idle"
    /\ UNCHANGED <<registrarVars, coreVars, cache, watched, queue, task,
                   sample, todo, at, tried, missed, sent, unheard, budget>>

-----------------------------------------------------------------------------

Registrar ==
    \/ \E t \in Threads, c \in Contacts :
          Register(t, c) \/ Refresh(t, c) \/ Deregister(t, c)
    \/ \E t \in Threads : Challenge(t) \/ Heartbeat(t)
    \/ \E c \in Contacts : Expire(c) \/ ContactDown(c) \/ ContactUp(c)

Serializer ==
    \/ StartFanout \/ StartChange \/ RetrieveContacts
    \/ FanoutQuery \/ FanoutSend \/ FanoutDone \/ RememberLink
    \/ ChangeSend \/ ChangeDone

Next ==
    \/ Registrar
    \/ \E t \in Threads : UnsolicitedOutgoingResponse(t)
    \/ \E x \in Extens, h \in Hints : HintChange(x, h)
    \/ \E x \in Extens : ExtStateCb(x)
    \/ Serializer

Spec == Init /\ [][Next]_vars

\* The server's threads run; phones refresh for as long as they are
\* registered, and a dead contact is qualified again.
Fairness ==
    /\ WF_vars(Serializer)
    /\ \A t \in Threads : WF_vars(UnsolicitedOutgoingResponse(t))
    /\ \A x \in Extens : WF_vars(ExtStateCb(x))
    /\ \A c \in Contacts : WF_vars(ContactUp(c))
    /\ SF_vars(\E t \in Threads, c \in Contacts : Refresh(t, c))

FairSpec == Spec /\ Fairness

-----------------------------------------------------------------------------
(* The inductive invariant behind BaselineHonest and LampsCurrent.          *)

TaskOn(x) == phase \in {"read", "send"} /\ task.extension = {x}

\* Whatever happens next to x, a task will look at it again.
Pending(x) == x \in notify \/ Queued(queue, x)

\* Only a REGISTER fanout has a pair in hand or a cache entry to link; the
\* pairs of a change are all of its extension.
PhasesFit ==
    /\ at # {} => phase = "send" /\ IsFanout(task)
    /\ phase = "link" => IsFanout(task)
    /\ phase = "send" /\ ~IsFanout(task) =>
           \A p \in todo : task.extension = {p[2]}

\* A phone that is not registered has not been told anything.
UnboundIsDark ==
    \A c \in Contacts \ contacts, x \in Extens : sent[<<c, x>>] = {}

\* Baselines and tasks exist only for watched extensions.
WatcherFirst ==
    \A x \in Extens :
        last[x] # {} \/ Queued(queue, x) \/ TaskOn(x) => x \in watched

\* Between two tasks a baseline is what every phone was told; during a change
\* of x some phones may already have been told the new bits.
BaselineOrSample ==
    \A x \in Extens \ partial, c \in contacts :
        last[x] # {} =>
            \/ sent[<<c, x>>] \subseteq last[x]
            \/ /\ TaskOn(x) /\ phase = "send" /\ tried
               /\ sent[<<c, x>>] \subseteq sample

\* A change that has missed nobody so far has been told to every phone that
\* was told anything and is not on its list any more.
DoneAreTold ==
    \A x \in Extens, c \in contacts :
        /\ TaskOn(x) /\ phase = "send" /\ ~missed
        /\ <<c, x>> \notin todo
        => sent[<<c, x>>] \subseteq sample

\* The snapshot in hand is current, or x will be looked at again.
SampleCurrent ==
    \A x \in Hinted \ unheard :
        /\ TaskOn(x) \/ \E p \in at : p[2] = x
        /\ ~Pending(x)
        => sample = {BlfQueryState(x)}

\* So are the lamps, when no change of x is being sent.
ToldCurrent ==
    \A x \in Hinted \ (partial \cup unheard) :
        ~Pending(x) /\ ~TaskOn(x) =>
            \A c \in contacts : sent[<<c, x>>] \subseteq {BlfQueryState(x)}

LampInv ==
    /\ TypeOK
    /\ PhasesFit
    /\ UnboundIsDark
    /\ WatcherFirst
    /\ BaselineOrSample
    /\ DoneAreTold
    /\ SampleCurrent
    /\ ToldCurrent

-----------------------------------------------------------------------------
(* Properties.                                                              *)

\* The dedup baseline of an extension is what went on the wire: a phone
\* that has been told anything about x in its session was told last_bits
\* (comment of blf_state_change_should_send: "last_bits can never disagree
\* with what went on the wire").
Agrees(x) == last[x] # {} =>
    \A c \in contacts : sent[<<c, x>>] \subseteq last[x]

BaselineIsOnTheWire == phase = "idle" => \A x \in Extens : Agrees(x)

\* ... unless the last change of x missed a contact: the all-or-nothing
\* commit then leaves a baseline that some phone has already left.
BaselineHonest == phase = "idle" => \A x \in Extens \ partial : Agrees(x)

\* Nothing is under way about x.
Settled(x) ==
    /\ x \notin notify
    /\ phase = "idle"
    /\ ~Queued(queue, x)

\* When nothing is under way about x, a phone that was told anything about
\* x shows its current state, unless a change of x missed a contact or was
\* never queued - because the push failed, or because it came between the
\* first fanout's read of x and the watcher's callback.  This is what the
\* dedup, the snapshots on the serializer and the reset at REGISTER are for.
LampsCurrent ==
    \A x \in Hinted \ (partial \cup unheard) : Settled(x) =>
        \A c \in contacts : sent[<<c, x>>] \subseteq {BlfQueryState(x)}

\* A REGISTER is skipped as unchanged only when every phone it lists has
\* been bootstrapped in its present session.
Bootstrapped(c) == \A x \in Extens : sent[<<c, x>>] # {}

SkipsOnlyBootstrapped ==
    (cache = contacts /\ cache # NoEntry) => \A c \in contacts : Bootstrapped(c)

\* Refreshes and challenges leave the cache entry alone ("Refresh REGISTERs
\* carry the same Contact set and should be no-ops"): only a commit replaces
\* it, and only the answer to a deregistration drops it - or that to a
\* heartbeat, a 200 without Contacts too: the refresh after it fans out again.
RefreshIsNoOp ==
    [][/\ cache # NoEntry
       /\ phase' # "link"
       /\ \A t \in Threads : Ok({}) \notin resp[t]
       => cache' # NoEntry]_vars

\* A change that was queued reaches the phone, or a later one does, or a
\* NOTIFY failed.
ChangeReachesPhone ==
    \A c \in Contacts, x \in Hinted :
        Queued(queue, x) ~>
            \/ c \notin contacts \/ x \in partial \cup unheard
            \/ sent[<<c, x>>] = {BlfQueryState(x)}

=============================================================================
