# Verification of asterisk-pjsip-cisco

TLA+ models of the modules that give Asterisk's PJSIP channel driver the
features of Cisco Enterprise phones: lamps without a SUBSCRIBE, bulkupdate,
softkeys (Conference, Join, Park, MCID, recording, HLog), the registry of phones
by MAC with the path of a REGISTER around it, and the video of a call.
TLC checks the models on small instances; TLAPS proves the safety properties
and the safety part of the refinements for every value of the constants.  Every definition is translated
from the source; `PROJECT.json` maps each one to its lines.

## 1. The system

The modules are loaded into one Asterisk process.  The threads that matter:

* **servant threads** of PJSIP handle a SIP request or send a response; several
  at once, also for one phone;
* a **serializer** (task processor) per module runs that module's queued tasks
  one after the other: `unsolicited_blf`, `bulkupdate`, `remotecc`, `park`,
  `conference`, `service_control`; different serializers run in parallel;
* the **extension-state core** calls a watcher's callback when a hint changes;
* a **stasis** subscription has a thread of its own for its messages;
* CLI commands and dialplan functions run on whatever thread calls them.

State is shared through ao2 containers and astdb, with locks held for one
operation each.  Nearly everything hard in this code lies between two such
operations.

| Component | State it keeps | Operations | Correct when |
|---|---|---|---|
| REGISTER gate (`cisco_endpoint/register.c`) | per supplement: endpoint -> canonical Contact set | `address_set_changed`, `forget`, `remember_str` (unlink + link) | a REGISTER is skipped only if what it would trigger has been done for all its Contacts |
| Unsolicited BLF (`res_pjsip_cisco_unsolicited_blf.c`) | address cache; watchers with `last_bits`; queue | REGISTER hook, `ext_state_cb`, fanout/state-change task | the lamp of a phone settles on the hint; no phone stays dark; no storm on refreshes |
| PIDF bits (`cisco_unsolicited_blf/pidf.c`) | none | hint -> lamp bits, body | two hints with equal bodies have equal bits |
| Bulkupdate (`res_pjsip_cisco_bulkupdate.c`, `cisco_bulkupdate/`) | address cache; queue; astdb DND/HuntGroup/CF | REGISTER hook, CLI, dialplan functions, task | a phone shows what astdb holds |
| HLog softkey (`res_pjsip_cisco_remotecc.c`) | astdb HuntGroup; `remotecc` queue | toggle, queue REFER with the value | the same |
| DND PUBLISH (`cisco_feature_events/dnd.c`) | astdb DND | PUBLISH handler | the same |
| Conference (`res_pjsip_cisco_conference.c`, `cisco_conference/`) | selected calls; pending list actions; channels' datastores | Confrn, Select, Unselect, Join, RmLastConf, ConfList and its keys; task queue | nobody is stranded or dropped who should not be; the cap holds |
| Park (`cisco_remotecc/park.c`) | per request: endpoint, dialog, the parkee, `monitor`, `version`, the subscription `sub` | Park, ParkMonitor; transfer task; stasis callback; feedback tasks | the call asked for is parked; feedback in order; nothing left behind |
| MAC registry (`cisco_endpoint/device.c`, `cisco_feature_events/mac.c`) | map of MAC -> line, address, Call-ID, facts, expiry | harvest of a REGISTER before the registrar sees it, identification of a request by its MAC, lookup by Call-ID | a phone is known as it registered last, with its facts |
| Keep-alive / optionsind (`res_pjsip_cisco_register_optionsind.c`) | address cache | answer a keep-alive REGISTER; add the optionsind body to an answer | no phone is left without the body; a keep-alive changes nothing |
| REMOTECC dispatch, MCID, Record (`res_pjsip_cisco_remotecc.c`, `cisco_remotecc/`) | none beyond the call; `remotecc` queue | answer each kind of REFER; trace; start and stop MixMonitor | what was accepted is done, in order, whatever a transfer does |
| Call extras (`res_pjsip_cisco_call_extras.c`, `cisco_call_extras/video.c`) | per channel: what its last SDP said of video | note each incoming SDP; refuse or decorate the video of an outgoing one | no black pane, and no phone without the video a peer has |
| Service control (`res_pjsip_cisco_service_control.c`) | none | status command; NOTIFY command | the status shows each Contact's device |
| Original host; PIDF body generator; endpoint configuration; rdata helpers; entry module; unit tests | little or none | per-message rewriting, configuration, loading | not modelled, see section 8 |

How they interact.  A REGISTER passes the
modules in front of the registrar first - the keep-alive responder, which claims
a heartbeat, and the harvest, which never claims anything - and the registrar's
answer reaches the outgoing hooks of unsolicited BLF, bulkupdate and optionsind.
All three decide through the gate, each with a cache of its own; the first two
queue a task, which commits the cache entry at its end, when all sends succeeded,
the third changes the answer itself and commits at once.  Bulkupdate, HLog and DND
PUBLISH share astdb and nothing else.  Park, Conference, MCID and recording take a
call by the dialog a softkey's REFER names (`session.c`), and act on channels that
belong to the core, whose other threads move and hang them up too.  Park, HLog,
MCID and recording share one serializer for what they send, and the transfers of
Park have one of their own.  The video supplement of one leg reads what the
supplement of the other legs has noted on their channels.

The hazards - 40 of them, each at its line with the properties that would
catch it - are in `PROJECT.json`.  They are, by family: a decision on
state that changes before it is acted on (hints, astdb, the phone's peer, what
another leg said); two halves of an update (unlink and link, find and link, write
and queue); answers and messages in an order nobody wanted (deregistration and
commit, two serializers, two modules of one priority, stasis events and the
subscription itself); one contact or one channel of several failing; and work that
must be repeated after a failure.

## 2. The modules

    Registrar        contacts, answers of REGISTERs, refresh     (external + the keep-alive responder)
    RegisterGate     the gate's decision, forget, remember       register.c
    BlfPidf          hint state -> lamp bits                     pidf.c
    UnsolicitedBlf   EXTENDS Registrar, BlfPidf                  the BLF supplement
    Bulkupdate       EXTENDS Registrar                           bulkupdate + HLog + DND PUBLISH
    StatePush        what both promise: the abstract specification
    BlfPush          UnsolicitedBlf with history, implements StatePush
    BulkPush         Bulkupdate with history, implements StatePush
    Conference       one phone in NCalls calls                   conference
    Park             softkeys pressed on one call                park
    Remotecc         EXTENDS Park: every REFER, MCID, Record     remotecc.c, mcid.c, record.c
    DeviceMap        the MAC map and the harvest                 device.c, mac.c
    RegisterPath     EXTENDS DeviceMap, uses RegisterGate        optionsind, keep-alive, status command
    CallVideo        the legs of one call                        video.c, call_extras.c
    MC*              constants of the runs
    UnsolicitedBlf_proofs, Bulkupdate_proofs     theorems, with the refinements of StatePush
    DeviceMap_proofs, RegisterPath_proofs        theorems of the map, and of the path around it
    Conference_proofs, Remotecc_proofs, CallVideo_proofs    theorems of the softkeys and of video
    Registrar_proofs                             the lemmas the first two share

`UnsolicitedBlf` and `Bulkupdate` are compositions: the same registrar and
gate, each with its own cache, with the supplement's hook, its serializer and
whatever else writes the state.  `RegisterPath` composes what a REGISTER meets on
its way in and out; `Remotecc` composes the features that share a serializer.

### The abstract specification

`StatePush` has no cache, task, queue or dedup: phones come and go, items change,
and a phone is sent a state an item has had, never an older one than it shows.
`SafeSpec` is that; `EveryoneIsTold` is its liveness, checked apart
(`EveryLampIsSent`, `EveryPhoneIsSent`).  `BlfPush` and `BulkPush` add history variables
beside every action - `log`, the states an item has had; `stamp`, the place of
the sample the serializer holds; `upto`, the place of what each phone was last
sent - and instantiate StatePush with them (`Push!SafeSpec` is the property
`LampsFollowHints`, `PhonesFollowCfwd`).  What makes the refinement hold is
that a task reads the hint or astdb on its serializer and not where it was queued:
with a captured value, as the HLog answer has, the phone may go back (finding 3), and
so only call forwarding is an item of `BulkPush`.

### State and actions against the code

**Registrar / RegisterGate.**  `contacts` is the AOR, `resp` the answers
on the servant threads between the registrar's change of the AOR and the end of the
outgoing hook.  A REGISTER binds, refreshes or unbinds a Contact, is challenged,
or is a keep-alive.  `ShouldFire(response, cache)` is
`cisco_register_should_fire` with its early returns, and yields ignore (no 200),
forget (no Contact left), skip or fire.  The registrar serialises the REGISTERs of
one AOR, so the runs have one answering thread; the models and the proofs allow more.

**UnsolicitedBlf.**  `UnsolicitedOutgoingResponse` is the hook; `ExtStateCb` the
watcher's callback; the task is split at every read of shared state:
take it from the queue, read the hint (state change: with the dedup against
`last`), read the AOR, one NOTIFY after the other (a REGISTER fanout reads the
hint for each pair), commit of `last`, and the unlink and link of
`remember_str`.  A send or a push to the serializer may fail ("fault").
`sent` is history: what was last queued to a phone in its present session.
`unheard` holds extensions whose change led to no task, `partial` those whose
last change missed a contact.

**Bulkupdate.**  `db` is astdb for the endpoint; a CLI command or dialplan
function writes and queues in two steps; the task reads one feature after the
other and sends one REFER per contact.  `HLogSet`/`QueueHLogUpdate` and
`HLogSerializer` are the softkey and its own serializer; `PressDnd` and
`HandleDndPublishBody` the phone's DND key and the server's handler.
`shown[c]` is what a phone was last told, or was switched to by its user.

**Conference.**  Each softkey is a step of a servant thread (Select is three:
find, count, link), each task runs on the serializer; a merge is one step per
move, with the hangups of any party between them.  `where`, `dissolved`,
`flagged`, `ending` are the core's: a basic bridge dissolves when one of its
parties leaves, a bridge of the module when it is empty or a
flagged channel hangs up.  `entered` and `failed` are history.

**Park.**  `HandlePark` runs on a servant thread in three steps (resolve the parkee
and allocate the request's data, subscribe, queue the transfer and answer 202);
`XferCheck`, `XferTransfer`, `XferReport` are the transfer task around its
re-check of the peer and the blocking transfer, which may also never return
(`XferStuck`); `StasisEvent` and `StasisReply` the
callback on the subscription's thread; `SendTask` the remotecc serializer.
Around them the call may change hands (`SwitchPeer`), be parked by somebody else,
arrive in the lot late or vanish on the way, leave it, or be swapped (`times` counts
a call's stays in the lot, `excused` and `raced` are the requests whose call got lost or
replaced, or changed hands between the look at the peer and the transfer).  The ways
of leaving the lot (retrieved, forwarded, abandoned) are one event, "gone".

**Remotecc.**  `Answered` is every REFER that has only an answer, by what the
dispatch tells apart (`AnswerTo`); `HandleMCID` and `HandleRecord` have their
checks and the push, which may fail.  `sendQueue` is Park's: feedback, MCID's and
HLog's REFERs and the recording applications run in the order they were
queued (`SendTask`, `ReferTask`, `RecordAppTask`).  `recorders` counts the MixMonitors on the
phone's channel; they go with the channel.  Call and peer are one: no bridge
without a channel that is up.

**DeviceMap.**  A harvest is three steps - look up and merge the facts, unlink
the old entry, link the new one - as the code takes the container's lock for
each.  `Deregister` is a REGISTER with expires=0, `DeregisterAll` one
with `Contact: *`, in which the code finds no MAC and so does nothing.
`last`, `told`, `mixed` and `disputed` are history: the entry the last harvest of a
phone linked, the facts it told, whether two threads were ever at it, and whether
its last REGISTER is one that deregisters it to the code and not to the comments, or
the other way round - a `Contact: *`, a heartbeat that the harvest saw.  Such a
phone may be known or not until it registers again, and `told`, a set, then has both
facts its next entry may have; the properties take no side in what section 5 says of
these two.  With a `Contact: *` that forgets and a heartbeat that does not, as the
comments have it, the run passes too.
`IdentifyRequest` unlinks an expired entry it finds.  Facts are merged field by
field, so one field in the runs stands for all; the map is keyed by the MAC, so
harvests of different MACs meet only in `allocated`.
`cisco_mac_lookup_by_endpoint()` has no caller in the repository and is left out.

**RegisterPath.**  `Arrive` and `Harvested` are the harvest's steps; then the
registrar binds the Contact or refuses it, and `AnswerRegister` is the
outgoing hook, `OptionsindOutgoingResponse`, with the gate's verdict: the body is
attached and the cache committed (`Remember`), or there is no room for the body
and it is not (`NoBody`).  The registrar holds the AOR's lock until its answer has
passed the hooks, so the hook is one step.  `KeepaliveOnRxRequest` answers a
heartbeat; whether the harvest sees it first depends on which of two modules of one
priority was loaded first, and `keepaliveFirst` is either.  `brief` is history: whether
a phone has the body ("has"), or the code believes so without cause ("passed").
`CliCiscoStatus` is the join of the status command.

**CallVideo.**  `stash` is the datastore of each channel; `Capture` notes an
SDP, in every action in which a phone sends one.  `StartPatch`, one
`PeerHadVideoCb` per channel under that channel's lock, and `PatchVideoMedia` are
`patch_video_media()` for a message in `owed`; a channel that comes during the
walk may be met or not.  An SDP is three booleans: a video line, a live one, an
imageattr.  A leg is one channel: it rings, is up and is gone (`gone`), and does
not come back.  What chan_pjsip, app_dial and the bridges do is external and as free
as the code's comments leave it: forks, early media, early answers, re-INVITEs
and UPDATEs from both sides, helper channels, joins and hangups.

## 3. The runs

| Run | Module, bounds | Checks | Shows |
|---|---|---|---|
| `blf_lamps` | UnsolicitedBlf; 2 phones, 1 extension, 3 hint states of which two share a lamp; 2 REGISTERs, 1 challenge, 2 hint changes, 1 failure; or 1 REGISTER with 1 deregistration, 1 expiry, 1 heartbeat, 1 hint change | LampInv, BaselineHonest, LampsCurrent, SkipsOnlyBootstrapped, RefreshIsNoOp | when nothing is under way a lamp is current; dedup baselines are honest; the gate skips only what is done |
| `blf_live` | BlfPush; 1 phone, 2 extensions (one without hint); a phone that stays with 2 changes, or may deregister, expire, heartbeat with 1; 1 failure | PushInv, ChangeReachesPhone, LampsFollowHints, EveryLampIsSent | StatePush is implemented: lamps never go back, a failed bootstrap is repeated, a queued change arrives |
| `bulk_cfwd` | BulkPush; 2 phones, 2 writers, four scenarios | PushInv, CfwdCurrent, SkipsOnlyPushed, PhonesFollowCfwd, EveryPhoneIsSent | StatePush is implemented for call forwarding; writes, pushes and REGISTERs in any order: the last REFER carries astdb's state |
| `conference` | 3 calls, 2 servant threads, four scenarios | ConfInv, NobodyStranded, MergeDropsNobody, SelectedBounded, RemovesOnRequest, RmLastConfIsLast, KeptConferenceStays | hangups between the moves of a merge strand nobody; the cap is exceeded by concurrent Selects only; one pick removes one |
| `remotecc` | Remotecc with Park; 2 Park softkeys, 2 remotes, seven scenarios | RemoteccInv, RecordsAsAsked, ParksTheCallAsked, NobodyListensInVain, FeedbackInOrder, ButtonSettles, AcceptedIsAnswered, OthersGoOn | the call parked or recorded is the call asked for; events before, during and after the subscription; no 202 without an answer; a stuck transfer stalls nothing else |
| `register_path` | RegisterPath with DeviceMap; 2 lines, 2 phones, 2 addresses, four scenarios | OrderInv, StatusInv, KnownAsRegistered, FactsKept, StatusOfLastLine, SkipsOnlyBriefed | identity, facts and the optionsind body through moves, shared lines, expiries, deregistrations, heartbeats and reboots |
| `call_video` | CallVideo; a caller, 2 callees, a helper, three scenarios | CallInv, VideoIsKept, NoPhantomPane, MirrorsAPeer, PanesAgree | no phone loses video a peer has, or waits for video a patch could have known nobody sends |
| `blf_partial` | 2 phones, 4 changes, 1 failure | BaselineIsOnTheWire **violated** | finding 1 |
| `blf_deregister` | 1 phone | SkipsOnlyBootstrapped **violated** | finding 2 |
| `bulk_hlog` | 1 phone, 1 HLog, 1 write | HuntGroupCurrent **violated** | finding 3 |
| `bulk_retry` | 1 phone, 1 write, 1 failure | NextRegisterRetries **violated** | finding 4 |
| `conf_dropped` | 2 calls, 1 Join, 1 hangup | HungUpAlone **violated** | finding 5 |

The first property of each passing run is the inductive invariant that is proved for
every value of the constants (section 6); `PushInv` contains `LampInv` and `CfwdInv`,
`StatusInv` contains `PathInv`.  Each property of a passing run has a mutant: a change a plausible bug would
make to one mapped definition, under which the same run violates it.

**Bounds and why they are enough.**  The environment's events (REGISTERs, hint
changes, writes, softkeys, hangups, failures) are counted down from a budget,
because each can recur for ever; nothing the code itself does is bounded by one,
but `MaxQueue`: a phone does not refresh while its serializer has that many
tasks, as refreshes come minutes apart.  Hazards here need two parties and one
event between two steps of a task; every budget allows that and one event more.
Two contacts are the least where "one of several fails"; three hint states of
which two share a lamp are what the dedup is for; two extensions with one
unhinted are what the skip of hintless extensions is for.  `Budgets` is a set: Init picks one of several scenarios, so one run
has them all without the product of their events.  Bulkupdate's four: two phones
with a write and a failure; two writes that overlap; a deregistration, a heartbeat, a
challenge and the HLog key; an expiry, a forced push and a DND key.  Conference's
four: a Confrn followed by a Join that somebody walks out of, with
RmLastConf; a Join with two hangups or a failed move; more Selects than are
stored (cap 1, two threads) with Unselect and Join; the menu in a conference,
with two picks.  Remotecc's seven: two Parks of one call; a
call that changes hands or is parked by another; a lot that loses or swaps
the call; a call that was asked for taking another's place in the lot; three other
softkeys on a call that rings, is up or ends; a recording while the call
is parked; a transfer that never returns with a trace behind it.  RegisterPath's four:
phones that come, move, share a line and refresh; all that ends a registration
or looks like it, and a line a reload drops; a reboot with an entry that expires and a deregistration; a Contact
that lapses, a refusal and a reboot.  CallVideo's three: one callee with a helper and early
media or an early answer; two callees of which one is taken and the other hangs up or
joins later; a call that is up with holds, resumes and refreshes that cross.
Terminal states are legal everywhere - budgets run out, phones stay away - so
deadlock is not checked; "something must happen" is a liveness property.

## 4. Fairness

Weak fairness of the server's threads: a serializer with a task, a servant thread
with an answer, a callback the core owes.  The code blocks nowhere for ever
in them, and the task processors of Asterisk run what is queued.  Park's
transfer is the exception the code's own comment makes: it may be stuck, once and
for ever, and the transfer task is then not enabled.  Weak fairness
of the core's qualify, which finds a contact that is up again, and of a channel on its way into a parking lot: it arrives or is gone.  Strong
fairness only of refreshes: a phone that is registered refreshes again and again
(keeping a registration alive is what its expiry forces it to), and a
refresh is disabled only while the queue is busy.  No softkey, hint change, hangup
or failure is fair, and failures are bounded: with a fault at
every attempt nothing could be promised.  The liveness runs register a phone once:
one that comes back at the same URI may meet the entry of finding 2, or one that
outlived its expiry, and would then truly stay dark.

## 5. Where code and comments disagree

1. **`blf_partial`** (`res_pjsip_cisco_unsolicited_blf.c:532`).  "last_bits can
   never disagree with what went on the wire": when one contact of two misses a
   change, the baseline stays behind what the other was told, and the change back
   is deduplicated.  `BaselineHonest` holds once such changes are exempted.
2. **`blf_deregister`** (`:517`).  A deregistration's `forget` between the
   fanout's sends and its commit is undone by the commit; a phone that comes back at
   the same Contact is skipped.  `SkipsOnlyBootstrapped` holds when nobody comes
   back after a deregistration or an expiry (run `blf_lamps`), and theorem
   `SkippedAreBootstrapped` says exactly when: as long as no phone registers at a
   Contact that is still in the entry, or in the fanout about to replace it.
3. **`bulk_hlog`** (`res_pjsip_cisco_remotecc.c:283`).  The HLog answer carries a
   value captured at press time on another serializer.  `CfwdCurrent` holds of
   call forwarding, which nobody but the bulkupdate serializer sends.
4. **`bulk_retry`** (`res_pjsip_cisco_bulkupdate.c:368`).  A failed forced push is
   not retried by the next REGISTER, as the log line says, when the cache entry
   is there already.
5. **`conf_dropped`** (`cisco_conference/confrn.c:935`).  A selected call that
   could not be moved is not skipped: its phone leg is hung up, and the caller
   with it.  `MergeDropsNobody` says this is the only way.

Others that the models have as behaviour, most of them listed under "hazards" with the
reason no run is spent on them: a REGISTER with `Contact: *` does not forget the MAC
(it leaves at `mac.c:301-304`; the comments at 248-250 and 273-275 and `CHANGELOG.md:124`
say it does); a hint that changes between
the first fanout's read and the addition of the watcher is told to nobody; the
facts of a MAC harvested by two threads at once may be the older ones; a cache
entry outlives an expired Contact and a reboot, and at the optionsind hook it
lists phones that another phone's answer left without the body; a menu's index names
somebody else after a participant left; a call selected during a Join is cleared by it; a
keep-alive's answer, which lists no Contacts, is taken for a deregistration by the
gate, so that the next refresh fans out again (`RefreshIsNoOp` exempts it), and by the harvest too if that is loaded before the keep-alive module, although a heartbeat is
"NOT a deregistration" (`res_pjsip_cisco_register_optionsind.c:132-135`); a plain Park is
"one-shot" (`park.c:372-375`, `ARCHITECTURE.md:366-368`), but an event that was queued before
the callback unsubscribed is still heard, so a call that leaves the lot at once brings two
toasts, the second of which says it is gone (`FeedbackInOrder` allows it, and no other); the status
command's two sides are not "in lockstep" (`service_control.c:636-638`) for a phone
with two lines - the map has one entry per MAC, with the Call-ID of the line
that registered last, so the other line's Contact shows no device, and
`StatusOfLastLine` says what does hold; a dialplan that answers before it
dials has the caller's video refused for the rest of the call; StartRecording pressed twice
needs two StopRecordings; the MCID feedback comes whether or not a call was traced.
Not listed there, because nothing in the code or its docs claims otherwise: a DND PUBLISH
that crosses a REFER with the old state; a NOTIFY that was queued and is lost; a
change whose task could not be pushed; the watchers of extensions that a reload
removed; duplicate cache entries of an endpoint with several AORs.

## 6. Proofs

Proved by TLAPS for every value of the constants that the modules' assumptions
allow: any number of contacts, extensions, hints, threads, lines, MACs, calls,
requests, remotes, legs, and any budget of events.  The assumptions are about types
and finiteness (`IsFiniteSet(Lines)`, of Conference's `Threads`), that names
are different (no leg is both phone and helper, `NoPeer` is nobody), and that
what Remotecc puts into the queue it shares with Park is not Park's feedback.  TLC evaluates them on every run.

Every proof has the same shape.  The property speaks of the states in which nothing
is under way, or of two facts that meet only later, and is not inductive; an invariant
of named parts says what holds in between.  The runs check it too, except where it
is stated beside its proof (`SkipInv`, `UnlinkedInBetween`).
`Init` implies it; each action keeps it, one step per action and below it one
per part the action disturbs; the property follows from it.

* **`UnsolicitedBlf_proofs`**: `LampInvariant`, from it `BaselineHonestHolds` and
  `LampsCurrentHolds`.  `LampInv` says
  in which phase what is set (`PhasesFit`); an unbound phone
  was told nothing (`UnboundIsDark`); what was told of a hinted extension has a
  watcher (`WatcherFirst`); every phone was told the baseline of `x`, or the
  sample of the task that is about to commit it (`BaselineOrSample`); pairs that
  are done were told the sample (`DoneAreTold`); and the sample, or what was
  told, is the hint of now unless a task or a callback for `x` is still to come
  (`SampleCurrent`, `ToldCurrent`).
  `RefreshNeverForgets` (an action property) needs one fact more: between the unlink
  and the link of `remember_str` there is no entry, so no other step can drop one.
* **`Bulkupdate_proofs`**: `CfwdInvariant`, from it `CfwdCurrentHolds`.
  CF is read last in a task, what was read is current or
  another task will read again (`SnapCurrent`), done contacts show what was
  read (`DoneShown`), and between tasks phones show astdb (`ShownCurrent`).  Two
  writers are harmless because a write's `doing` entry lasts until its push is queued.
* **The refinements of StatePush** (`PushInvariant`, `ImplementsStatePush`, in both
  modules): initial states map to initial states, and every step to a step of
  `SafeSpec` or a stutter.  `PushInv` adds to the invariant above that an item's log ends
  with its state of now and that the snapshot in hand is an entry of the log no phone has
  got past: what a phone was last sent was sampled by the same serializer before, and
  each sample is the end of the log at its time.
  The liveness part of StatePush stays with TLC.
* **The gate** (`SkippedAreBootstrapped`, `SkippedWerePushed`, in the same modules).  That a
  REGISTER is skipped only if its phones are up to date is false of a phone that comes
  back at a Contact the module still lists (finding 2, and the hazard at
  `register.c:180`).  The theorems therefore carry a hypothesis, `[][ComesAfresh]_vars`:
  no phone registers at a Contact that is in the cache entry, or in the canonical set
  of a task that has already retrieved the contacts it will send to.  Everything else may
  happen: phones leave, come back later, refresh and fail in any order.  The
  invariant (`SkipInv`): who is in the entry, or is to be linked, has been
  told; and of a task that has missed nobody, every phone of its REGISTER has been told or is
  still on its list.
* **`DeviceMap_proofs`**: `DuplicatesStayBounded`: the entries of a MAC together
  with the links still to come are never more than the lines that harvest.  The sum
  is what does not grow: an unlink trades an entry for a pending link, a
  link trades it back.  `OrderInvariant`, from it `KnownAsItRegistered` and `FactsAreKept`:
  an id stands for one entry (`EntriesFit`); of a MAC that was never in two threads at once
  (`mixed` holds the others) the map has what the last harvest linked, and nothing
  between its unlink and its link (`Orderly`), and what the phone told is what its
  entry knows with what the harvest on its way adds (`Informed`).  A `disputed` MAC may
  have no entry, but never another one.
* **`RegisterPath_proofs`**, on top of it: each step of the path is a step of the
  map, unlinks the entry of a phone whose heartbeat the harvest saw, or leaves the map alone, so the map's invariants carry
  over (`PathKnownAsRegistered`, `PathKeepsFacts`).  `SkippedAreBriefed`: who
  is in an entry has the body or was passed over (`CachedAreBriefed`), and the gate skips only
  when the Contacts of the answer are those of the entry.  `StatusIsOfLastLine`: a
  Contact has the Call-ID of the entry its REGISTER left (`ContactsFit`).
* **`Conference_proofs`**: `ConfInvariant`, from it `NobodyIsStranded`, `NobodyIsDropped`,
  `SelectionsAreBounded`, `RemovesAreRequested`, and the action properties
  `KeptConferencesStay` and `RmLastConfTakesLast`.  What holds in the middle of a merge: the
  anchor is moved first and never alone (`PhasesFit`); no two legs of
  the phone are in one bridge (`OnePhone`), the merge's bridge is newer than all
  others (`BridgesAreNew`); whoever is left behind in a bridge by a move is in the
  moves still to come (`TakenAlong`, `WithPhone`); a leg whose hangup is under way is alone
  (`EndingAlone`); the module's bridges dissolve because a leg in one is flagged or
  about to be (`Flagged`).  Around merges: the datastore and the order of moves agree
  (`JoinTimes`); each Select that has counted takes a place that is counted with
  it, so that concurrent Selects exceed the cap by one less than their
  number (`SelectsFit`); each Remove that waits is owed a press (`RemovesOwed`).
* **`Remotecc_proofs`**: `ParkInvariant` for Park, `RemoteccInvariant` for the whole,
  whose every step is one of Park or leaves Park's part of the state as it is; from them
  `ParksWhatWasAsked`, `NoSubscriptionIsLeft`, `FeedbackKeepsItsOrder`,
  `TheButtonSettles` and `RecordingIsAsAsked`.  `ParkInv`: where a
  call is (`PlacesFit`); one transfer at a time, each request once
  (`TransfersFit`); the peer a running transfer looked at is still there, or raced
  (`PeerFits`); what a request has by how far its handler is (`StepFits`); a subscription
  that is held waits for something that will still come (`WatchFits`); and the
  story of one stay in the lot (`StoryFits`): its events lie on three
  stretches - what was sent or is queued (`Line`), what the callback has in hand
  (`heard`), what is in the inbox (`News`) - and through all three "parked" comes before anything
  else, versions are counted without a gap, and as long as nothing but "parked" is
  to be seen the call is in the lot and the subscription there to hear the rest.
* **`CallVideo_proofs`**: `CallInvariant`, from it `VideoStaysKept`,
  `OpenPanesHaveASource`, `PeersAreMirrored`, `PlainPanesAgree`.  `CallInv`: a
  channel's datastore is what its leg said last (`StashFits`); a patch under way has
  seen each leg it has to consider as that leg still is - who talks meanwhile is taken off
  (`WalkFits`); so what the last patch decided still is right of who has not talked
  (`PaneFits`); and in a plain call (`PlainFits`) the callee is asked once and answers
  once, after the server has looked at the caller's SDP, and the caller is answered after the
  callee (`CalleeFits`, `CallerFits`), so both agree.
* **`Registrar_proofs`**: types of the registrar's state.

Only model-checked: the liveness properties `ChangeReachesPhone`, `EveryLampIsSent`,
`EveryPhoneIsSent`, `AcceptedIsAnswered` and `OthersGoOn` - liveness under fairness and
ENABLED are out of the prover's reach - and, without the hypothesis above, `SkipsOnlyBootstrapped` and
`SkipsOnlyPushed`, which the runs check where nobody comes back.  Induction over
data and RECURSIVE operators are out of reach too; the modules with theorems use none.

## 7. Plan

Order of work, most important behaviour first.  Done: (1) registrar and gate with
unsolicited BLF, (2) bulkupdate and all writers of its state, (3) conference, (4)
park, (5) the MAC registry, (6) StatePush and its two implementations, (7) the
REMOTECC dispatch with MCID and recording, (8) the path of a REGISTER with optionsind,
keep-alive and the status command, (9) the video of a call; with proofs of the safety
properties of all of them.  Next:

* an abstract map (a function from MACs to entries) that DeviceMap implements for MACs
  harvested by one thread, and the proof of it from `OrderInv`;
* an abstract conference (a set of parties that only leave by their own hangup or a
  Remove) and Conference's implementation of it from `ConfInv`;
* the safety half of `AcceptedIsAnswered`: at a quiet point every accepted request was
  told something, from `ParkInv`;
* reload of the BLF subscribe list.

## 8. Not modelled

* **Formatting**: XML of PIDF, REMOTECC and bulkupdate bodies, Contact parameter and
  Reason token parsing, original host rewriting, the PIDF body generator.  No
  decision of the modelled components depends on it but the lamp bits, which are
  modelled (`BlfPidf`).
* **Responses to NOTIFYs and REFERs**: the callbacks only log.  A message is told
  when it is queued, as the code counts it.
* **Load, unload, reload, configuration**: sorcery objects are read-only.  A reload
  that drops a cisco section is an event of DeviceMap; a changed subscribe list is not
  modelled (its stale watchers are named in section 5).
* **Identity headers of call extras** (Supported, Remote-Party-ID, Call-Info): written
  into one message from what the core knows of it.  **The NOTIFY command of
  service control**: a body to each contact, no state.  **The SUBSCRIBE clamp**:
  one header.
* **MWI counts, aliases' contact blocks** in a bulkupdate: read like the
  features, nothing depends on them.
* **Conference**: text and index layout of the menu, the REFERs that end a merge, video mode.
* **Park**: refusals that differ only in code; the reference count of a request's
  data, which the model never frees.
* **Recording**: MixMonitor's own failure (`record.c:70`, `:75`); the code does not look
  at what the application returns.
* **Unit tests, third-party headers**: no state.
