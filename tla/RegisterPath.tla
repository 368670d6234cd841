---------------------------- MODULE RegisterPath ----------------------------
(***************************************************************************)
(* The way of a REGISTER through the server: the keep-alive module and the
   harvest of DeviceMap before the registrar, the registrar, which is not
   part of this repository, and on the way out the supplement that attaches
   the optionsind body to the answer, behind the gate of RegisterGate
   (res_pjsip_cisco_register_optionsind.c).  The status command joins the
   Contacts with the map (res_pjsip_cisco_service_control.c).

   The body goes to the phone whose REGISTER is answered; the cache entry it
   leaves is for the line and lists every phone on it.                     *)
(***************************************************************************)
EXTENDS DeviceMap

CONSTANT MaxContacts    \* max_contacts of an AOR (remove_existing = yes)

VARIABLES
    bound,          \* the Contacts of a line's AOR
    answering,      \* REGISTERs of a line between their harvest and the answer
    cache,          \* optionsind_addr_cache
    keepaliveFirst, \* of two modules of one priority, which was loaded first
    brief           \* how a phone stands with the optionsind body of a line

pathVars == <<bound, answering, cache, keepaliveFirst, brief>>
allVars == <<vars, pathVars>>

Uris == Macs \X Hosts
Gate == INSTANCE RegisterGate WITH Contacts <- Uris

Uri(c) == <<c.mac, c.host>>
UrisOf(C) == {Uri(c) : c \in C}

\* harvest is history: the map entry that the REGISTER of the Contact left.
Contact == [mac : Macs, host : Hosts, callId : CallIds, harvest : Nat]
Answering == [contact : Contact, stage : {"registrar", "answer"}, listed : SUBSET Uris]

\* passed: an entry that another phone's answer left, or one older than the
\* phone's last boot, says of a phone without the body that it has it.
Brief == {"none", "owed", "has", "passed"}

PathTypeOK ==
    /\ bound \in [Lines -> SUBSET Contact]
    /\ answering \in [Lines -> SUBSET Answering]
    /\ cache \in [Lines -> SUBSET Uris]
    /\ keepaliveFirst \in BOOLEAN
    /\ brief \in [Macs \X Lines -> Brief]
    /\ \A l \in Lines : \A c, d \in bound[l] : Uri(c) = Uri(d) => c = d

PathInit ==
    /\ Init
    /\ bound = [l \in Lines |-> {}]
    /\ answering = [l \in Lines |-> {}]
    /\ cache = [l \in Lines |-> {}]
    /\ keepaliveFirst \in BOOLEAN
    /\ brief = [p \in Macs \X Lines |-> "none"]

\* A phone waits for an answer before it registers the line again.
Waits(l, m) == \E a \in answering[l] : a.contact.mac = m

-----------------------------------------------------------------------------
(* The answer: cisco_optionsind_outgoing_response().                        *)

\* The entry for a line is for every phone it lists.
Remember(l, m, listed) ==
    /\ cache' = [cache EXCEPT ![l] = listed]
    /\ brief' = [p \in Macs \X Lines |->
                    IF p = <<m, l>> THEN "has"
                    ELSE IF /\ p[2] = l /\ brief[p] \in {"none", "owed"}
                            /\ \E h \in Hosts : <<p[1], h>> \in listed
                         THEN "passed" ELSE brief[p]]

\* There is a body already, or none could be made.
Owe(l, m) ==
    brief' = [brief EXCEPT ![<<m, l>>] = IF @ = "none" THEN "owed" ELSE @]

\* Mutant: the entry is left although there was no body to send.
RememberAll(l, m, listed) ==
    /\ cache' = [cache EXCEPT ![l] = listed]
    /\ Owe(l, m)

NoBody(l, m, listed) == Owe(l, m) /\ UNCHANGED cache

\* cisco_register_address_forget()
ForgetAddress(l) ==
    /\ cache' = [cache EXCEPT ![l] = {}]
    /\ brief' = [p \in Macs \X Lines |->
                    IF p[2] = l /\ brief[p] = "passed" THEN "owed" ELSE brief[p]]

OptionsindOutgoingResponse(l, m, listed) ==
    LET verdict == IF CiscoEndpoint(l)
                   THEN Gate!ShouldFire(Gate!Ok(listed), cache[l]) ELSE "ignore"
    IN  \/ verdict = "fire" /\ (Remember(l, m, listed) \/ NoBody(l, m, listed))
        \/ verdict = "forget" /\ ForgetAddress(l)
        \/ verdict \in {"skip", "ignore"} /\ UNCHANGED <<cache, brief>>

-----------------------------------------------------------------------------
(* A REGISTER that lasts.                                                   *)

Arrive(l, m, h, fields) ==
    /\ ~Waits(l, m)
    /\ Register(l, m, h, fields)
    /\ UNCHANGED pathVars

\* The harvest never claims the request: the registrar is next.
Harvested(l) ==
    \/ (LookupFacts(l) \/ RegisterUnlink(l)) /\ UNCHANGED pathVars
    \/ /\ RegisterLink(l)
       /\ answering' = [answering EXCEPT ![l] = @ \cup
             {[contact |-> [mac |-> h.mac, host |-> h.host, callId |-> h.callId,
                            harvest |-> allocated],
               stage |-> "registrar", listed |-> {}] : h \in harvest[l]}]
       /\ UNCHANGED <<bound, cache, keepaliveFirst, brief>>

\* The registrar replaces the Contact of the same URI, and all of them when
\* there are too many (external).
BoundWith(l, c) ==
    LET others == {b \in bound[l] : Uri(b) # Uri(c)}
    IN  IF Cardinality(others) < MaxContacts THEN others \cup {c} ELSE {c}

Bind(l) ==
    \E a \in answering[l] :
        /\ a.stage = "registrar"
        /\ bound' = [bound EXCEPT ![l] = BoundWith(l, a.contact)]
        /\ answering' = [answering EXCEPT ![l] = (@ \ {a}) \cup
              {[a EXCEPT !.stage = "answer",
                         !.listed = UrisOf(BoundWith(l, a.contact))]}]
        /\ UNCHANGED <<vars, cache, keepaliveFirst, brief>>

\* The registrar answers anything but 200, which no supplement looks at.
Refuse(l) ==
    \E a \in answering[l] :
        /\ a.stage = "registrar"
        /\ Spend("refuse")
        /\ answering' = [answering EXCEPT ![l] = @ \ {a}]
        /\ UNCHANGED <<map, expired, allocated, harvest, cisco, boots, histVars,
                       bound, cache, keepaliveFirst, brief>>

AnswerRegister(l) ==
    \E a \in answering[l] :
        /\ a.stage = "answer"
        /\ OptionsindOutgoingResponse(l, a.contact.mac, a.listed)
        /\ answering' = [answering EXCEPT ![l] = @ \ {a}]
        /\ UNCHANGED <<vars, bound, keepaliveFirst>>

-----------------------------------------------------------------------------
(* The other REGISTERs.                                                     *)

Leave(l, m) ==
    \E c \in bound[l] :
        /\ c.mac = m /\ ~Waits(l, m)
        /\ Deregister(l, m)
        /\ bound' = [bound EXCEPT ![l] = @ \ {c}]
        /\ OptionsindOutgoingResponse(l, m, UrisOf(bound[l] \ {c}))
        /\ UNCHANGED <<answering, keepaliveFirst>>

LeaveAll(l) ==
    \E c \in bound[l] :
        /\ ~Waits(l, c.mac)
        /\ DeregisterAll(l, c.mac)
        /\ bound' = [bound EXCEPT ![l] = {}]
        /\ OptionsindOutgoingResponse(l, c.mac, {})
        /\ UNCHANGED <<answering, keepaliveFirst>>

\* cisco_keepalive_on_rx_request(): a bare 200, and the registrar never sees
\* the request.  The harvest takes its expires=0 for a deregistration, if it
\* sees the request first.
KeepaliveOnRxRequest(l) ==
    \E c \in bound[l] :
        /\ ~Waits(l, c.mac)
        /\ CiscoEndpoint(l)
        /\ Spend("heartbeat")
        /\ IF keepaliveFirst THEN UNCHANGED <<map, histVars>>
                            ELSE map' \in Forget(c.mac) /\ Dispute(c.mac)
        /\ OptionsindOutgoingResponse(l, c.mac, {})
        /\ UNCHANGED <<expired, allocated, harvest, cisco, boots, bound,
                       answering, keepaliveFirst>>

\* The registrar removes a Contact whose time is up (external).
Lapse(l) ==
    \E c \in bound[l] :
        /\ Spend("lapse")
        /\ bound' = [bound EXCEPT ![l] = @ \ {c}]
        /\ UNCHANGED <<map, expired, allocated, harvest, cisco, boots, histVars,
                       answering, cache, keepaliveFirst, brief>>

\* A phone that boots has no body any more, whatever the cache says.
PowerCycle(m) ==
    /\ Reboot(m)
    /\ brief' = [p \in Macs \X Lines |->
                    IF p[1] # m THEN brief[p]
                    ELSE IF \E h \in Hosts : <<m, h>> \in cache[p[2]]
                         THEN "passed" ELSE "none"]
    /\ UNCHANGED <<bound, answering, cache, keepaliveFirst>>

PathNext ==
    \/ \E l \in Lines :
          \/ Harvested(l) \/ Bind(l) \/ Refuse(l) \/ AnswerRegister(l)
          \/ LeaveAll(l) \/ KeepaliveOnRxRequest(l) \/ Lapse(l)
          \/ Unconfigure(l) /\ UNCHANGED pathVars
          \/ \E m \in Macs : Leave(l, m)
          \/ \E m \in Macs, h \in Hosts, fields \in SUBSET Fields :
                Arrive(l, m, h, fields)
    \/ \E m \in Macs : PowerCycle(m) \/ (IdentifyRequest(m) /\ UNCHANGED pathVars)
    \/ \E e \in map : Expire(e) /\ UNCHANGED pathVars

PathSpec == PathInit /\ [][PathNext]_allVars

-----------------------------------------------------------------------------
\* pjsip cisco status: the device facts under a Contact.
CliCiscoStatus(c) == LookupByCallId(c.callId)

-----------------------------------------------------------------------------
(* Properties.                                                              *)

\* Under the Contact of the line that a phone registered last the status shows
\* that phone as it is: from where it registered, with the facts it has told,
\* also those an earlier REGISTER of another of its lines told.  After a
\* Contact: * or a harvested heartbeat it may show nothing instead.
StatusOfLastLine ==
    \A m \in Macs :
        m \notin mixed /\ Busy(m) = {} =>
            \A e \in last[m] : \A c \in bound[e.line] :
                ~IsExpired(e) /\ c.harvest = e.id =>
                    \/ \E f \in told[m] :
                          {<<d.mac, d.host, d.facts>> : d \in CliCiscoStatus(c)}
                              = {<<m, e.host, f>>}
                    \/ m \in disputed /\ CliCiscoStatus(c) = {}

\* The inductive invariant behind SkipsOnlyBriefed: who is in the cache.
CachedAreBriefed ==
    \A l \in Lines, m \in Macs, h \in Hosts :
        <<m, h>> \in cache[l] => brief[<<m, l>>] \in {"has", "passed"}

PathInv == MapInv /\ PathTypeOK /\ CachedAreBriefed

\* The inductive invariant behind StatusOfLastLine: a Contact has the Call-ID
\* of the entry that its REGISTER left.
ContactsFit ==
    \A l \in Lines : \A c \in bound[l] \cup {a.contact : a \in answering[l]} :
        /\ c.harvest < allocated
        /\ \A e \in Seen : e.id = c.harvest => e.callId = c.callId

StatusInv == PathInv /\ OrderInv /\ ContactsFit

\* A line's REGISTERs are skipped only when each phone on it was sent the body
\* since it booted, or was passed over: "if the body wasn't actually attached
\* we want the next refresh REGISTER to retry, not to silently skip".
SkipsOnlyBriefed ==
    \A l \in cisco :
        Gate!ShouldFire(Gate!Ok(UrisOf(bound[l])), cache[l]) = "skip" =>
            \A c \in bound[l] : brief[<<c.mac, l>>] \in {"has", "passed"}
=============================================================================
