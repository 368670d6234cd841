----------------------------- MODULE DeviceMap -----------------------------
(***************************************************************************)
(* The map from device MACs to endpoints (res/cisco_endpoint/device.c) and
   what fills and reads it (res/cisco_feature_events/mac.c).

   Every REGISTER of a line is harvested before the registrar sees it: the
   MAC of the phone, the line, the address it came from and, from a Reason
   header that need not be there, device facts.  A phone with several lines
   registers each of them under the one MAC, and the server handles the
   REGISTERs of different lines on different threads.  The harvest is a
   lookup, to keep the facts the new REGISTER does not repeat, an unlink and
   a link, each under the lock of the container and the three of them not.

   A request from the device itself names the MAC where the line should be,
   and is matched to the line that registered it last, if it comes from the
   same address.                                                           *)
(***************************************************************************)
EXTENDS Integers, FiniteSets

CONSTANTS
    Lines,      \* endpoints with a cisco section
    Macs,
    Hosts,
    Fields,     \* device name and firmware loads
    Budgets

\* refresh: a REGISTER; gone: one with expires=0; star: one with Contact: *;
\* heartbeat: one with cisco-keep-alive; expire: an entry's time is up;
\* lapse: a Contact's is; refuse: the registrar says no; reboot: of a phone;
\* unconfigure: a reload drops a cisco section.
Events == {"refresh", "gone", "star", "heartbeat", "expire", "lapse", "refuse",
           "reboot", "unconfigure"}

ASSUME DeviceMapConstants ==
    /\ IsFiniteSet(Lines)
    /\ \A b \in Budgets : b \in [Events -> Nat]

VARIABLES
    map,        \* cisco_mac_map
    expired,    \* the entries whose time is up
    allocated,  \* entries allocated so far; an entry's id is its address
    harvest,    \* the harvest a line's thread is in, if any
    cisco,      \* the lines that have a cisco section
    boots,      \* how often a phone has booted
    last,       \* the entry the last finished harvest of a MAC linked, if any
    told,       \* the device facts its REGISTERs have told, as its entry may have them
    mixed,      \* MACs that two threads have harvested at once
    disputed,   \* MACs forgotten by the code or by its comments, not by both
    budget

histVars == <<last, told, mixed, disputed>>
vars == <<map, expired, allocated, harvest, cisco, boots, histVars, budget>>

\* A field's value is the number of the REGISTER that told it, 0 if none did.
Facts == [Fields -> Nat]
Unknown == [f \in Fields |-> 0]
\* Each line of a phone has a REGISTER Call-ID, until the phone reboots.
CallIds == Lines \X Macs \X Nat
CallId(l, m) == <<l, m, boots[m]>>
Entry == [id : Nat, mac : Macs, line : Lines, host : Hosts, callId : CallIds,
          facts : Facts]
Harvest == [mac : Macs, host : Hosts, callId : CallIds, reason : Facts,
            facts : Facts, stage : {"arrived", "prefilled", "unlinked"}]

TypeOK ==
    /\ map \subseteq Entry
    /\ expired \subseteq Nat
    /\ allocated \in Nat
    /\ harvest \in [Lines -> SUBSET Harvest]
    /\ \A l \in Lines : \A h, k \in harvest[l] : h = k
    /\ cisco \subseteq Lines
    /\ boots \in [Macs -> Nat]
    /\ last \in [Macs -> SUBSET Entry]
    /\ told \in [Macs -> SUBSET Facts]
    /\ mixed \subseteq Macs
    /\ disputed \subseteq Macs

Init ==
    /\ map = {}
    /\ expired = {}
    /\ allocated = 0
    /\ harvest = [l \in Lines |-> {}]
    /\ cisco = Lines
    /\ boots = [m \in Macs |-> 0]
    /\ last = [m \in Macs |-> {}]
    /\ told = [m \in Macs |-> {Unknown}]
    /\ mixed = {}
    /\ disputed = {}
    /\ budget \in Budgets

Spend(e) == budget[e] > 0 /\ budget' = [budget EXCEPT ![e] = @ - 1]

Of(m) == {e \in map : e.mac = m}
IsExpired(e) == e.id \in expired

\* Lines whose thread is in a harvest of m.
Busy(m) == {l \in Lines : \E h \in harvest[l] : h.mac = m}

\* History: a REGISTER of m that deregisters it to the code and not to the
\* comments, or the other way round.  From then on until it registers again m
\* may be known or not, and its next entry may have the facts told so far, or
\* those told since.
Dispute(m) ==
    /\ told' = [told EXCEPT ![m] = @ \cup {Unknown}]
    /\ mixed' = IF Busy(m) = {} THEN mixed ELSE mixed \cup {m}
    /\ disputed' = disputed \cup {m}
    /\ UNCHANGED last

\* cisco_pjsip_module_match(): only a Cisco endpoint's REGISTER is harvested.
CiscoEndpoint(l) == l \in cisco

-----------------------------------------------------------------------------
(* The harvest, cisco_feature_events_mac_harvest_on_rx_request().           *)

\* parse_reason_header(): the tokens that are there win.
Merge(old, new) == [f \in Fields |-> IF new[f] # 0 THEN new[f] ELSE old[f]]

\* A REGISTER that lasts, with a Reason that tells the given fields.  A phone
\* waits for the answer before it registers the same line again.
Register(l, m, h, fields) ==
    LET reason == [f \in Fields |-> IF f \in fields THEN budget["refresh"] ELSE 0]
    IN  /\ harvest[l] = {}
        /\ CiscoEndpoint(l)
        /\ Spend("refresh")
        /\ harvest' = [harvest EXCEPT ![l] =
                          {[mac |-> m, host |-> h, callId |-> CallId(l, m),
                            reason |-> reason, facts |-> Unknown,
                            stage |-> "arrived"]}]
        /\ told' = [told EXCEPT ![m] = {Merge(t, reason) : t \in @}]
        /\ mixed' = IF Busy(m) = {} THEN mixed ELSE mixed \cup {m}
        /\ UNCHANGED <<map, expired, allocated, cisco, boots, last, disputed>>

\* Mutant: the facts of the entry are dropped.
PrefillNothing(found) == Unknown

Prefill(found) == IF IsExpired(found) THEN Unknown ELSE found.facts

\* cisco_mac_lookup_by_mac(): an expired entry is unlinked on the way.
LookupFacts(l) ==
    \E h \in harvest[l] :
        /\ h.stage = "arrived"
        /\ \/ /\ Of(h.mac) = {}
              /\ harvest' = [harvest EXCEPT ![l] =
                                {[h EXCEPT !.facts = h.reason, !.stage = "prefilled"]}]
              /\ UNCHANGED map
           \/ \E found \in Of(h.mac) :
                 /\ harvest' = [harvest EXCEPT ![l] =
                                   {[h EXCEPT !.facts = Merge(Prefill(found), h.reason),
                                              !.stage = "prefilled"]}]
                 /\ map' = IF IsExpired(found) THEN map \ {found} ELSE map
        /\ UNCHANGED <<expired, allocated, cisco, boots, histVars, budget>>

\* Mutant: OBJ_UNLINK is left out.
UnlinkNone(m) == {map}

\* ao2_find() with OBJ_UNLINK and CMP_STOP: one entry, whichever comes first.
UnlinkOne(m) == IF Of(m) = {} THEN {map} ELSE {map \ {e} : e \in Of(m)}

\* cisco_mac_register(), in two halves.
RegisterUnlink(l) ==
    \E h \in harvest[l] :
        /\ h.stage = "prefilled"
        /\ map' \in UnlinkOne(h.mac)
        /\ harvest' = [harvest EXCEPT ![l] = {[h EXCEPT !.stage = "unlinked"]}]
        /\ UNCHANGED <<expired, allocated, cisco, boots, histVars, budget>>

\* Mutant: the Call-ID is that of the entry it replaces, as the facts are.
NewEntryOldCallId(l, h) ==
    [id |-> allocated, mac |-> h.mac, line |-> l, host |-> h.host, facts |-> h.facts,
     callId |-> IF last[h.mac] = {} THEN h.callId
                ELSE (CHOOSE e \in last[h.mac] : TRUE).callId]

NewEntry(l, h) == [id |-> allocated, mac |-> h.mac, line |-> l, host |-> h.host,
                   callId |-> h.callId, facts |-> h.facts]

RegisterLink(l) ==
    \E h \in harvest[l] :
        /\ h.stage = "unlinked"
        /\ map' = map \cup {NewEntry(l, h)}
        /\ allocated' = allocated + 1
        /\ harvest' = [harvest EXCEPT ![l] = {}]
        /\ last' = [last EXCEPT ![h.mac] = {NewEntry(l, h)}]
        /\ disputed' = disputed \ {h.mac}
        /\ UNCHANGED <<expired, cisco, boots, told, mixed, budget>>

\* Mutant: the deregistration is overlooked.
ForgetNothing(m) == {map}

\* cisco_mac_forget()
Forget(m) == UnlinkOne(m)

\* A REGISTER with expires=0.
Deregister(l, m) ==
    /\ harvest[l] = {}
    /\ CiscoEndpoint(l)
    /\ Spend("gone")
    /\ map' \in Forget(m)
    /\ last' = [last EXCEPT ![m] = {}]
    /\ told' = [told EXCEPT ![m] = {Unknown}]
    /\ mixed' = IF Busy(m) = {} THEN mixed ELSE mixed \cup {m}
    /\ UNCHANGED <<expired, allocated, harvest, cisco, boots, disputed>>

\* A REGISTER of phone m with Contact: * has no parameters to find a MAC in, and
\* the harvest leaves before it gets to the forget that its comment promises.
DeregisterAll(l, m) ==
    /\ harvest[l] = {}
    /\ CiscoEndpoint(l)
    /\ Spend("star")
    /\ Dispute(m)
    /\ UNCHANGED <<map, expired, allocated, harvest, cisco, boots>>

-----------------------------------------------------------------------------
(* The readers.                                                             *)

FromHost(e, h) == e.host = h

\* cisco_mac_identify(): the lines a request of device m from h may resolve to.
Identify(m, h) ==
    {e.line : e \in {x \in Of(m) : /\ ~IsExpired(x) /\ FromHost(x, h)
                                   /\ x.line \in cisco}}

\* Its lookup unlinks an expired entry.
IdentifyRequest(m) ==
    \E e \in Of(m) :
        /\ IsExpired(e)
        /\ map' = map \ {e}
        /\ UNCHANGED <<expired, allocated, harvest, cisco, boots, histVars, budget>>

\* cisco_mac_lookup_by_call_id(): any entry that matches and has not expired.
LookupByCallId(id) == {e \in map : e.callId = id /\ ~IsExpired(e)}

-----------------------------------------------------------------------------
(* Time, and the operator.                                                  *)

Expire(e) ==
    /\ ~IsExpired(e)
    /\ Spend("expire")
    /\ expired' = expired \cup {e.id}
    /\ told' = [told EXCEPT ![e.mac] = {Unknown}]
    /\ mixed' = IF Busy(e.mac) = {} THEN mixed ELSE mixed \cup {e.mac}
    /\ UNCHANGED <<map, allocated, harvest, cisco, boots, last, disputed>>

Unconfigure(l) ==
    /\ l \in cisco
    /\ Spend("unconfigure")
    /\ cisco' = cisco \ {l}
    /\ UNCHANGED <<map, expired, allocated, harvest, boots, histVars>>

\* A phone starts again, with a new Call-ID for each of its lines (external).
Reboot(m) ==
    /\ Spend("reboot")
    /\ boots' = [boots EXCEPT ![m] = @ + 1]
    /\ UNCHANGED <<map, expired, allocated, harvest, cisco, histVars>>

HarvestStep(l) == LookupFacts(l) \/ RegisterUnlink(l) \/ RegisterLink(l)

Next ==
    \/ \E l \in Lines :
          \/ HarvestStep(l) \/ Unconfigure(l)
          \/ \E m \in Macs : Deregister(l, m) \/ DeregisterAll(l, m)
          \/ \E m \in Macs, h \in Hosts, fields \in SUBSET Fields :
                Register(l, m, h, fields)
    \/ \E m \in Macs : IdentifyRequest(m) \/ Reboot(m)
    \/ \E e \in map : Expire(e)

Spec == Init /\ [][Next]_vars

-----------------------------------------------------------------------------
\* One MAC has no more entries than there are threads that harvest it.  A
\* register unlinks one entry and links one, in two steps: two threads may
\* both find nothing to unlink, but what they leave behind does not grow.
Linking(m) == {l \in Lines : \E h \in harvest[l] : h.mac = m /\ h.stage = "unlinked"}

DuplicatesBounded ==
    \A m \in Macs : Cardinality(Of(m)) + Cardinality(Linking(m)) <= Cardinality(Lines)

\* The inductive invariant behind it.
MapInv == TypeOK /\ IsFiniteSet(map) /\ DuplicatesBounded

-----------------------------------------------------------------------------
(* The inductive invariant behind KnownAsRegistered and FactsKept.          *)

\* An id stands for one entry, and a Call-ID names the phone that sent it.
Seen == map \cup UNION {last[m] : m \in Macs}

EntriesFit ==
    /\ \A n \in expired : n < allocated
    /\ \A e \in Seen : e.id < allocated /\ e.callId[2] = e.mac
    /\ \A e, f \in Seen : e.id = f.id => e = f
    /\ \A m \in Macs : \A e, f \in last[m] : e.mac = m /\ e = f
    /\ \A l \in Lines : \A h \in harvest[l] : h.callId[2] = h.mac

\* One harvest of m at a time: but for entries whose time is up, or are in
\* dispute, the map holds what the last one linked, and nothing between an
\* unlink and its link.
Orderly(m) ==
    /\ \A k, l \in Busy(m) : k = l
    /\ Linking(m) # {} => Of(m) = {}
    /\ Linking(m) = {} => /\ Of(m) \subseteq last[m]
                         /\ \A e \in last[m] :
                               IsExpired(e) \/ e \in Of(m) \/ m \in disputed

\* What its entry knows and a Reason adds to it is what m has told.
Live(m) == {e \in Of(m) : ~IsExpired(e)}
Adds(m, reason) ==
    /\ \A e \in Live(m) : Merge(e.facts, reason) \in told[m]
    /\ Live(m) = {} => reason \in told[m]

\* A harvest has merged the facts once it has looked them up.
Informed(m) ==
    /\ Busy(m) = {} => Adds(m, Unknown)
    /\ \A l \in Lines : \A h \in harvest[l] :
          h.mac = m => IF h.stage = "arrived" THEN Adds(m, h.reason)
                                              ELSE h.facts \in told[m]

OrderInv ==
    /\ MapInv
    /\ EntriesFit
    /\ \A m \in Macs \ mixed : Orderly(m) /\ Informed(m)

-----------------------------------------------------------------------------

\* With no harvest of it on the way, a device is known as the line that it
\* registered last, from where it registered it and from nowhere else, and it
\* is not known any more once it has deregistered a line of its with expires=0:
\* unless two threads were ever at it at once, when a duplicate may speak for
\* it.  After a Contact: *, or a heartbeat that the harvest took for a
\* deregistration, it may be unknown as well, until it registers again: but
\* never known as anything else.
KnownAsRegistered ==
    \A m \in Macs, h \in Hosts :
        m \notin mixed /\ Busy(m) = {} =>
            \/ Identify(m, h) = {e.line : e \in {x \in last[m] :
                                    ~IsExpired(x) /\ x.host = h /\ x.line \in cisco}}
            \/ m \in disputed /\ Identify(m, h) = {}

\* Device facts survive the REGISTERs that do not repeat them, and are those
\* that were told last, whichever line told them: the comment of
\* parse_reason_header() says so.  They go with a deregistration or an expiry,
\* all of them or none, and may go so with a Contact: * or a harvested heartbeat.
FactsKept ==
    \A m \in Macs :
        m \notin mixed /\ Busy(m) = {} =>
            \A e \in Of(m) : ~IsExpired(e) => e.facts \in told[m]
=============================================================================
