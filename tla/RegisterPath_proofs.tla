------------------------- MODULE RegisterPath_proofs -------------------------
(***************************************************************************)
(* PathInv and StatusInv are invariants of RegisterPath for any number of
   lines, phones, hosts and Contacts.  The map's part is that of
   DeviceMap_proofs: a step here is one of DeviceMap, or unlinks the
   entry of a phone whose heartbeat the harvest saw, or leaves the map alone.  Two parts
   are new: who is in a cache entry - a phone with the body, or one that was
   passed over - and which entry of the map a Contact belongs to, from which
   StatusOfLastLine follows.                                                *)
(***************************************************************************)
EXTENDS RegisterPath, DeviceMap_proofs

\* The caches, and what they say of the phones.
BriefOK ==
    /\ cache \in [Lines -> SUBSET Uris]
    /\ brief \in [Macs \X Lines -> Brief]
    /\ CachedAreBriefed

\* The Contacts, and the REGISTERs on their way to them.
ContactsOK ==
    /\ bound \in [Lines -> SUBSET Contact]
    /\ answering \in [Lines -> SUBSET Answering]
    /\ \A l \in Lines : \A c, d \in bound[l] : Uri(c) = Uri(d) => c = d

LEMMA Parts ==
    PathInv <=> MapInv /\ BriefOK /\ ContactsOK /\ keepaliveFirst \in BOOLEAN
  BY DEF PathInv, PathTypeOK, BriefOK, ContactsOK

LEMMA UriType ==
    ASSUME NEW C \in SUBSET Contact
    PROVE  UrisOf(C) \subseteq Uris
  BY DEF UrisOf, Uri, Uris, Contact

-----------------------------------------------------------------------------

\* The entry that an answer leaves lists phones that have the body or are
\* passed over by it.
LEMMA RememberBrief ==
    ASSUME BriefOK, NEW l \in Lines, NEW m \in Macs, NEW listed \in SUBSET Uris,
           Remember(l, m, listed)
    PROVE  BriefOK'
  <1>1. cache' \in [Lines -> SUBSET Uris]
    BY DEF Remember, BriefOK
  <1>2. brief' \in [Macs \X Lines -> Brief]
    BY DEF Remember, BriefOK, Brief
  <1>3. ASSUME NEW k \in Lines, NEW n \in Macs, NEW h \in Hosts, <<n, h>> \in cache'[k]
        PROVE  brief'[<<n, k>>] \in {"has", "passed"}
    <2>1. <<n, k>> \in Macs \X Lines /\ brief[<<n, k>>] \in Brief
      BY DEF BriefOK
    <2>2. CASE k = l
      <3>1. <<n, h>> \in listed
        BY <1>3, <2>2 DEF Remember, BriefOK
      <3>2. QED
        BY <2>1, <2>2, <3>1 DEF Remember, Brief
    <2>3. CASE k # l
      <3>1. <<n, h>> \in cache[k]
        BY <1>3, <2>3 DEF Remember, BriefOK
      <3>2. brief[<<n, k>>] \in {"has", "passed"}
        BY <3>1 DEF BriefOK, CachedAreBriefed
      <3>3. brief'[<<n, k>>] = brief[<<n, k>>]
        BY <2>1, <2>3 DEF Remember
      <3>4. QED
        BY <3>2, <3>3
    <2>4. QED
      BY <2>2, <2>3
  <1>4. QED
    BY <1>1, <1>2, <1>3 DEF BriefOK, CachedAreBriefed

\* An answer without the body leaves the entry as it was.
LEMMA NoBodyBrief ==
    ASSUME BriefOK, NEW l \in Lines, NEW m \in Macs, NEW listed \in SUBSET Uris,
           NoBody(l, m, listed)
    PROVE  BriefOK'
  <1>1. cache' = cache /\ <<m, l>> \in Macs \X Lines
    BY DEF NoBody
  <1>2. brief' \in [Macs \X Lines -> Brief]
    BY DEF NoBody, Owe, BriefOK, Brief
  <1>3. ASSUME NEW p \in Macs \X Lines
        PROVE  brief[p] \in {"has", "passed"} => brief'[p] = brief[p]
    BY DEF NoBody, Owe, BriefOK
  <1>4. ASSUME NEW k \in Lines, NEW n \in Macs, NEW h \in Hosts, <<n, h>> \in cache'[k]
        PROVE  brief'[<<n, k>>] \in {"has", "passed"}
    <2>1. brief[<<n, k>>] \in {"has", "passed"}
      BY <1>1, <1>4 DEF BriefOK, CachedAreBriefed
    <2>2. <<n, k>> \in Macs \X Lines
      OBVIOUS
    <2>3. QED
      BY <1>3, <2>1, <2>2
  <1>5. QED
    BY <1>1, <1>2, <1>4 DEF BriefOK, CachedAreBriefed

\* Without an entry nobody on the line is passed over.
LEMMA ForgetBrief ==
    ASSUME BriefOK, NEW l \in Lines, ForgetAddress(l)
    PROVE  BriefOK'
  <1>1. cache' \in [Lines -> SUBSET Uris]
    BY DEF ForgetAddress, BriefOK
  <1>2. brief' \in [Macs \X Lines -> Brief]
    BY DEF ForgetAddress, BriefOK, Brief
  <1>3. ASSUME NEW k \in Lines, NEW n \in Macs, NEW h \in Hosts, <<n, h>> \in cache'[k]
        PROVE  brief'[<<n, k>>] \in {"has", "passed"}
    <2>1. k # l /\ <<n, h>> \in cache[k]
      BY <1>3 DEF ForgetAddress, BriefOK
    <2>2. brief[<<n, k>>] \in {"has", "passed"}
      BY <2>1 DEF BriefOK, CachedAreBriefed
    <2>3. <<n, k>> \in Macs \X Lines /\ brief'[<<n, k>>] = brief[<<n, k>>]
      BY <2>1 DEF ForgetAddress
    <2>4. QED
      BY <2>2, <2>3
  <1>4. QED
    BY <1>1, <1>2, <1>3 DEF BriefOK, CachedAreBriefed

LEMMA UnchangedBrief ==
    ASSUME BriefOK, UNCHANGED <<cache, brief>>
    PROVE  BriefOK'
  BY DEF BriefOK, CachedAreBriefed

\* Whatever an answer comes to at the gate.
LEMMA ResponseBrief ==
    ASSUME BriefOK, NEW l \in Lines, NEW m \in Macs, NEW listed \in SUBSET Uris,
           OptionsindOutgoingResponse(l, m, listed)
    PROVE  BriefOK'
  <1>1. \/ Remember(l, m, listed)
        \/ NoBody(l, m, listed)
        \/ ForgetAddress(l)
        \/ UNCHANGED <<cache, brief>>
    BY DEF OptionsindOutgoingResponse
  <1>2. QED
    BY <1>1, RememberBrief, NoBodyBrief, ForgetBrief, UnchangedBrief

\* A phone that boots while it is in an entry is passed over by it.
LEMMA PowerCycleBrief ==
    ASSUME BriefOK, NEW m \in Macs, PowerCycle(m)
    PROVE  BriefOK'
  <1>1. cache' = cache
    BY DEF PowerCycle
  <1>2. brief' \in [Macs \X Lines -> Brief]
    BY DEF PowerCycle, BriefOK, Brief
  <1>3. ASSUME NEW k \in Lines, NEW n \in Macs, NEW h \in Hosts, <<n, h>> \in cache'[k]
        PROVE  brief'[<<n, k>>] \in {"has", "passed"}
    <2>1. <<n, k>> \in Macs \X Lines /\ <<n, h>> \in cache[k]
      BY <1>1, <1>3
    <2>2. CASE n = m
      BY <2>1, <2>2 DEF PowerCycle
    <2>3. CASE n # m
      <3>1. brief'[<<n, k>>] = brief[<<n, k>>]
        BY <2>1, <2>3 DEF PowerCycle
      <3>2. QED
        BY <2>1, <3>1 DEF BriefOK, CachedAreBriefed
    <2>4. QED
      BY <2>2, <2>3
  <1>4. QED
    BY <1>1, <1>2, <1>3 DEF BriefOK, CachedAreBriefed

-----------------------------------------------------------------------------

\* The registrar keeps one Contact of a URI.
LEMMA BoundWithType ==
    ASSUME ContactsOK, NEW l \in Lines, NEW c \in Contact
    PROVE  /\ BoundWith(l, c) \in SUBSET Contact
           /\ \A d, e \in BoundWith(l, c) : Uri(d) = Uri(e) => d = e
  BY DEF ContactsOK, BoundWith

\* Contacts that go leave the others.
LEMMA FewerContacts ==
    ASSUME ContactsOK, NEW l \in Lines, NEW C \in SUBSET bound[l],
           bound' = [bound EXCEPT ![l] = C], UNCHANGED answering
    PROVE  ContactsOK'
  <1>1. bound' \in [Lines -> SUBSET Contact]
    BY DEF ContactsOK
  <1>2. \A k \in Lines : bound'[k] \subseteq bound[k]
    BY DEF ContactsOK
  <1>3. \A k \in Lines : \A c, d \in bound'[k] : Uri(c) = Uri(d) => c = d
    BY <1>2 DEF ContactsOK, Uri
  <1>4. QED
    BY <1>1, <1>3 DEF ContactsOK

\* A REGISTER that is answered, or refused, is gone.
LEMMA FewerAnswers ==
    ASSUME ContactsOK, NEW l \in Lines, NEW a \in answering[l],
           answering' = [answering EXCEPT ![l] = @ \ {a}], UNCHANGED bound
    PROVE  ContactsOK'
  BY DEF ContactsOK, Uri

\* The harvest hands its REGISTER on to the registrar.
LEMMA LinkContacts ==
    ASSUME MapInv, ContactsOK, NEW l \in Lines, UNCHANGED bound,
           answering' = [answering EXCEPT ![l] = @ \cup
             {[contact |-> [mac |-> h.mac, host |-> h.host, callId |-> h.callId,
                            harvest |-> allocated],
               stage |-> "registrar", listed |-> {}] : h \in harvest[l]}]
    PROVE  ContactsOK'
  <1> DEFINE A(h) == [contact |-> [mac |-> h.mac, host |-> h.host, callId |-> h.callId,
                                   harvest |-> allocated],
                      stage |-> "registrar", listed |-> {}]
  <1>1. ASSUME NEW h \in harvest[l]
        PROVE  A(h) \in Answering
    <2>1. h.mac \in Macs /\ h.host \in Hosts /\ h.callId \in CallIds /\ allocated \in Nat
      BY HarvestType DEF MapInv, TypeOK
    <2>2. QED
      BY <2>1 DEF Answering, Contact
  <1>2. {A(h) : h \in harvest[l]} \subseteq Answering
    BY <1>1
  <1>3. answering' = [answering EXCEPT ![l] = @ \cup {A(h) : h \in harvest[l]}]
    OBVIOUS
  <1> HIDE DEF A
  <1>4. answering' \in [Lines -> SUBSET Answering]
    BY <1>2, <1>3 DEF ContactsOK
  <1>5. QED
    BY <1>4 DEF ContactsOK, Uri

\* The registrar binds the Contact and lists what is bound.
LEMMA BindContacts ==
    ASSUME ContactsOK, NEW l \in Lines, Bind(l)
    PROVE  ContactsOK'
  <1>1. PICK a \in answering[l] :
            /\ bound' = [bound EXCEPT ![l] = BoundWith(l, a.contact)]
            /\ answering' = [answering EXCEPT ![l] = (@ \ {a}) \cup
                  {[a EXCEPT !.stage = "answer",
                             !.listed = UrisOf(BoundWith(l, a.contact))]}]
    BY DEF Bind
  <1> DEFINE B == BoundWith(l, a.contact)
             b == [a EXCEPT !.stage = "answer", !.listed = UrisOf(B)]
  <1>2. a \in Answering /\ a.contact \in Contact
    BY <1>1 DEF ContactsOK, Answering
  <1>3. /\ B \in SUBSET Contact
        /\ \A d, e \in B : Uri(d) = Uri(e) => d = e
    BY <1>2, BoundWithType
  <1>4. b \in Answering
    <2>1. UrisOf(B) \subseteq Uris
      BY <1>3, UriType
    <2>2. QED
      BY <1>2, <2>1 DEF Answering
  <1>5. /\ bound' = [bound EXCEPT ![l] = B]
        /\ answering' = [answering EXCEPT ![l] = (@ \ {a}) \cup {b}]
    BY <1>1
  <1> HIDE DEF B, b
  <1>6. /\ bound' \in [Lines -> SUBSET Contact]
        /\ answering' \in [Lines -> SUBSET Answering]
    BY <1>3, <1>4, <1>5 DEF ContactsOK
  <1>7. \A k \in Lines : \A c, d \in bound'[k] : Uri(c) = Uri(d) => c = d
    BY <1>3, <1>5 DEF ContactsOK, Uri
  <1>8. QED
    BY <1>6, <1>7 DEF ContactsOK

-----------------------------------------------------------------------------

\* A step that takes at most an entry of m from the map.
LEMMA ForgottenMap ==
    ASSUME MapInv, BudgetOK, NEW m \in Macs, NEW e \in Events, Spend(e),
           map' = map \/ map' \in Forget(m),
           Dispute(m) \/ UNCHANGED histVars,
           UNCHANGED <<expired, allocated, harvest, cisco, boots>>
    PROVE  MapInv' /\ BudgetOK'
  <1>1. map' \subseteq map
    BY UnlinkCases DEF Forget
  <1>2. TypeOK
    BY DEF MapInv
  <1>3. TypeOK'
    <2>1. /\ last' \in [Macs -> SUBSET Entry]
          /\ told' \in [Macs -> SUBSET Facts]
          /\ mixed' \subseteq Macs /\ disputed' \subseteq Macs
      BY <1>2, DisputeType DEF TypeOK, histVars
    <2>2. map' \subseteq Entry
      BY <1>1, <1>2 DEF TypeOK
    <2>3. QED
      BY <1>2, <2>1, <2>2 DEF TypeOK
  <1>4. \A k \in Macs : Linking(k)' \subseteq Linking(k)
    BY DEF Linking
  <1>5. QED
    BY <1>1, <1>3, <1>4, Shrinks, SpendType DEF MapInv

\* A step of DeviceMap.
LEMMA MapStep ==
    ASSUME MapInv, BudgetOK, Next \/ UNCHANGED vars
    PROVE  MapInv' /\ BudgetOK'
  BY NextInv

LEMMA PathInitInv == PathInit => PathInv /\ BudgetOK
  <1> SUFFICES ASSUME PathInit PROVE PathInv /\ BudgetOK
    OBVIOUS
  <1>1. MapInv /\ BudgetOK
    BY InitInv DEF PathInit
  <1>2. BriefOK
    BY DEF PathInit, BriefOK, Brief, CachedAreBriefed
  <1>3. ContactsOK
    BY DEF PathInit, ContactsOK
  <1>4. QED
    BY <1>1, <1>2, <1>3, Parts DEF PathInit

LEMMA PathNextInv ==
    PathInv /\ BudgetOK /\ [PathNext]_allVars => PathInv' /\ BudgetOK'
  <1> SUFFICES ASSUME PathInv, BudgetOK, [PathNext]_allVars
               PROVE  PathInv' /\ BudgetOK'
    OBVIOUS
  <1>a. MapInv /\ BriefOK /\ ContactsOK /\ keepaliveFirst \in BOOLEAN
    BY Parts
  <1>b. (MapInv /\ BriefOK /\ ContactsOK /\ keepaliveFirst \in BOOLEAN)' => PathInv'
    BY DEF PathInv, PathTypeOK, BriefOK, ContactsOK
  <1>c. ASSUME Next \/ UNCHANGED vars, UNCHANGED pathVars
        PROVE  PathInv' /\ BudgetOK'
    <2>1. MapInv' /\ BudgetOK'
      BY <1>a, <1>c, MapStep
    <2>2. UNCHANGED <<bound, answering, cache, keepaliveFirst, brief>>
      BY <1>c DEF pathVars
    <2>3. BriefOK' /\ ContactsOK' /\ (keepaliveFirst \in BOOLEAN)'
      BY <1>a, <2>2, UnchangedBrief DEF ContactsOK
    <2>4. QED
      BY <1>b, <2>1, <2>3
  <1>1. ASSUME NEW l \in Lines, NEW m \in Macs, NEW h \in Hosts,
               NEW fields \in SUBSET Fields, Arrive(l, m, h, fields)
        PROVE  PathInv' /\ BudgetOK'
    BY <1>1, <1>c DEF Arrive, Next
  <1>2. ASSUME NEW l \in Lines, Harvested(l)
        PROVE  PathInv' /\ BudgetOK'
    <2>1. CASE (LookupFacts(l) \/ RegisterUnlink(l)) /\ UNCHANGED pathVars
      BY <2>1, <1>c DEF Next, HarvestStep
    <2>2. CASE RegisterLink(l) /\ ~UNCHANGED pathVars
      <3>1. MapInv' /\ BudgetOK'
        BY <1>a, <2>2, MapStep DEF Next, HarvestStep
      <3>2. UNCHANGED <<bound, cache, keepaliveFirst, brief>>
        BY <1>2, <2>2 DEF Harvested
      <3>3. ContactsOK'
        <4>1. answering' = [answering EXCEPT ![l] = @ \cup
                {[contact |-> [mac |-> h.mac, host |-> h.host, callId |-> h.callId,
                               harvest |-> allocated],
                  stage |-> "registrar", listed |-> {}] : h \in harvest[l]}]
          BY <1>2, <2>2 DEF Harvested
        <4>2. QED
          BY <1>a, <3>2, <4>1, LinkContacts
      <3>4. BriefOK' /\ (keepaliveFirst \in BOOLEAN)'
        BY <1>a, <3>2, UnchangedBrief
      <3>5. QED
        BY <1>b, <3>1, <3>3, <3>4
    <2>3. CASE RegisterLink(l) /\ UNCHANGED pathVars
      BY <2>3, <1>c DEF Next, HarvestStep
    <2>4. QED
      BY <1>2, <2>1, <2>2, <2>3 DEF Harvested
  <1>3. ASSUME NEW l \in Lines, Bind(l)
        PROVE  PathInv' /\ BudgetOK'
    <2>1. UNCHANGED vars /\ UNCHANGED <<cache, keepaliveFirst, brief>>
      BY <1>3 DEF Bind
    <2>2. MapInv' /\ BudgetOK' /\ BriefOK' /\ (keepaliveFirst \in BOOLEAN)'
      BY <1>a, <2>1, MapStep, UnchangedBrief
    <2>3. ContactsOK'
      BY <1>3, <1>a, BindContacts
    <2>4. QED
      BY <1>b, <2>2, <2>3
  <1>4. ASSUME NEW l \in Lines, Refuse(l)
        PROVE  PathInv' /\ BudgetOK'
    <2>1. PICK a \in answering[l] :
              /\ Spend("refuse")
              /\ answering' = [answering EXCEPT ![l] = @ \ {a}]
              /\ UNCHANGED <<map, expired, allocated, harvest, cisco, boots, histVars,
                             bound, cache, keepaliveFirst, brief>>
      BY <1>4 DEF Refuse
    <2>2. PICK m \in Macs : TRUE
      <3>1. a \in Answering
        BY <2>1, <1>a DEF ContactsOK
      <3>2. QED
        BY <3>1 DEF Answering, Contact
    <2>3. MapInv' /\ BudgetOK'
      BY <1>a, <2>1, <2>2, ForgottenMap DEF Events
    <2>4. ContactsOK'
      BY <1>a, <2>1, FewerAnswers
    <2>5. BriefOK' /\ (keepaliveFirst \in BOOLEAN)'
      BY <1>a, <2>1, UnchangedBrief
    <2>6. QED
      BY <1>b, <2>3, <2>4, <2>5
  <1>5. ASSUME NEW l \in Lines, AnswerRegister(l)
        PROVE  PathInv' /\ BudgetOK'
    <2>1. PICK a \in answering[l] :
              /\ OptionsindOutgoingResponse(l, a.contact.mac, a.listed)
              /\ answering' = [answering EXCEPT ![l] = @ \ {a}]
              /\ UNCHANGED <<vars, bound, keepaliveFirst>>
      BY <1>5 DEF AnswerRegister
    <2>2. a.contact.mac \in Macs /\ a.listed \in SUBSET Uris
      BY <2>1, <1>a DEF ContactsOK, Answering, Contact
    <2>3. MapInv' /\ BudgetOK'
      BY <1>a, <2>1, MapStep
    <2>4. ContactsOK'
      BY <1>a, <2>1, FewerAnswers
    <2>5. BriefOK' /\ (keepaliveFirst \in BOOLEAN)'
      BY <1>a, <2>1, <2>2, ResponseBrief
    <2>6. QED
      BY <1>b, <2>3, <2>4, <2>5
  <1>6. ASSUME NEW l \in Lines, NEW m \in Macs, Leave(l, m)
        PROVE  PathInv' /\ BudgetOK'
    <2>1. PICK c \in bound[l] :
              /\ Deregister(l, m)
              /\ bound' = [bound EXCEPT ![l] = @ \ {c}]
              /\ OptionsindOutgoingResponse(l, m, UrisOf(bound[l] \ {c}))
              /\ UNCHANGED <<answering, keepaliveFirst>>
      BY <1>6 DEF Leave
    <2>2. UrisOf(bound[l] \ {c}) \in SUBSET Uris
      <3>1. bound[l] \ {c} \in SUBSET Contact
        BY <1>a DEF ContactsOK
      <3>2. QED
        BY <3>1, UriType
    <2>3. MapInv' /\ BudgetOK'
      BY <1>a, <2>1, MapStep DEF Next
    <2>4. ContactsOK'
      BY <1>a, <2>1, FewerContacts
    <2>5. BriefOK' /\ (keepaliveFirst \in BOOLEAN)'
      BY <1>a, <2>1, <2>2, ResponseBrief
    <2>6. QED
      BY <1>b, <2>3, <2>4, <2>5
  <1>7. ASSUME NEW l \in Lines, LeaveAll(l)
        PROVE  PathInv' /\ BudgetOK'
    <2>1. PICK c \in bound[l] :
              /\ DeregisterAll(l, c.mac)
              /\ bound' = [bound EXCEPT ![l] = {}]
              /\ OptionsindOutgoingResponse(l, c.mac, {})
              /\ UNCHANGED <<answering, keepaliveFirst>>
      BY <1>7 DEF LeaveAll
    <2>2. c.mac \in Macs /\ {} \in SUBSET Uris
      BY <2>1, <1>a DEF ContactsOK, Contact
    <2>3. MapInv' /\ BudgetOK'
      BY <1>a, <2>1, <2>2, MapStep DEF Next
    <2>4. ContactsOK'
      BY <1>a, <2>1, FewerContacts
    <2>5. BriefOK' /\ (keepaliveFirst \in BOOLEAN)'
      BY <1>a, <2>1, <2>2, ResponseBrief
    <2>6. QED
      BY <1>b, <2>3, <2>4, <2>5
  <1>8. ASSUME NEW l \in Lines, KeepaliveOnRxRequest(l)
        PROVE  PathInv' /\ BudgetOK'
    <2>1. PICK c \in bound[l] :
              /\ Spend("heartbeat")
              /\ IF keepaliveFirst THEN UNCHANGED <<map, histVars>>
                                  ELSE map' \in Forget(c.mac) /\ Dispute(c.mac)
              /\ OptionsindOutgoingResponse(l, c.mac, {})
              /\ UNCHANGED <<expired, allocated, harvest, cisco, boots, bound,
                             answering, keepaliveFirst>>
      BY <1>8 DEF KeepaliveOnRxRequest
    <2>2. c.mac \in Macs /\ {} \in SUBSET Uris
      BY <2>1, <1>a DEF ContactsOK, Contact
    <2>3. /\ map' = map \/ map' \in Forget(c.mac)
          /\ Dispute(c.mac) \/ UNCHANGED histVars
      BY <2>1
    <2>4. MapInv' /\ BudgetOK'
      BY <1>a, <2>1, <2>2, <2>3, ForgottenMap DEF Events
    <2>5. ContactsOK'
      BY <1>a, <2>1 DEF ContactsOK, Uri
    <2>6. BriefOK' /\ (keepaliveFirst \in BOOLEAN)'
      BY <1>a, <2>1, <2>2, ResponseBrief
    <2>7. QED
      BY <1>b, <2>4, <2>5, <2>6
  <1>9. ASSUME NEW l \in Lines, Lapse(l)
        PROVE  PathInv' /\ BudgetOK'
    <2>1. PICK c \in bound[l] :
              /\ Spend("lapse")
              /\ bound' = [bound EXCEPT ![l] = @ \ {c}]
              /\ UNCHANGED <<map, expired, allocated, harvest, cisco, boots, histVars,
                             answering, cache, keepaliveFirst, brief>>
      BY <1>9 DEF Lapse
    <2>2. c.mac \in Macs
      BY <2>1, <1>a DEF ContactsOK, Contact
    <2>3. MapInv' /\ BudgetOK'
      BY <1>a, <2>1, <2>2, ForgottenMap DEF Events
    <2>4. ContactsOK'
      BY <1>a, <2>1, FewerContacts
    <2>5. BriefOK' /\ (keepaliveFirst \in BOOLEAN)'
      BY <1>a, <2>1, UnchangedBrief
    <2>6. QED
      BY <1>b, <2>3, <2>4, <2>5
  <1>10. ASSUME NEW m \in Macs, PowerCycle(m)
         PROVE  PathInv' /\ BudgetOK'
    <2>1. MapInv' /\ BudgetOK'
      BY <1>10, <1>a, MapStep DEF PowerCycle, Next
    <2>2. ContactsOK' /\ (keepaliveFirst \in BOOLEAN)'
      BY <1>10, <1>a DEF PowerCycle, ContactsOK, Uri
    <2>3. BriefOK'
      BY <1>10, <1>a, PowerCycleBrief
    <2>4. QED
      BY <1>b, <2>1, <2>2, <2>3
  <1>11. ASSUME NEW l \in Lines, Unconfigure(l), UNCHANGED pathVars
         PROVE  PathInv' /\ BudgetOK'
    BY <1>11, <1>c DEF Next
  <1>12. ASSUME NEW m \in Macs, IdentifyRequest(m), UNCHANGED pathVars
         PROVE  PathInv' /\ BudgetOK'
    BY <1>12, <1>c DEF Next
  <1>13. ASSUME NEW e \in map, Expire(e), UNCHANGED pathVars
         PROVE  PathInv' /\ BudgetOK'
    BY <1>13, <1>c DEF Next
  <1>14. CASE UNCHANGED allVars
    BY <1>14, <1>c DEF allVars
  <1>15. QED
    BY <1>1, <1>2, <1>3, <1>4, <1>5, <1>6, <1>7, <1>8, <1>9, <1>10, <1>11, <1>12,
       <1>13, <1>14 DEF PathNext

\* The Contacts of a line have distinct URIs, the map is bounded also under
\* heartbeats and refusals, and who is in a cache entry has the body of the
\* line or was passed over by that entry.
THEOREM PathInvariant == PathSpec => []PathInv
  <1>1. PathInv /\ BudgetOK /\ [PathNext]_allVars => (PathInv /\ BudgetOK)'
    BY PathNextInv
  <1>2. QED
    BY PathInitInv, <1>1, PTL DEF PathSpec

\* A skip at the gate means that the cache entry is what the line has bound.
LEMMA SkipMeansCached ==
    ASSUME NEW l \in Lines,
           Gate!ShouldFire(Gate!Ok(UrisOf(bound[l])), cache[l]) = "skip"
    PROVE  UrisOf(bound[l]) = cache[l]
  BY DEF Gate!ShouldFire, Gate!Ok, Gate!RegistersContact, Gate!AddressChanged,
         Gate!Canonical, Gate!NoEntry

LEMMA BriefedFollows == PathInv => SkipsOnlyBriefed
  <1> SUFFICES ASSUME PathInv, NEW l \in cisco,
                      Gate!ShouldFire(Gate!Ok(UrisOf(bound[l])), cache[l]) = "skip",
                      NEW c \in bound[l]
               PROVE  brief[<<c.mac, l>>] \in {"has", "passed"}
    BY DEF SkipsOnlyBriefed
  <1>1. l \in Lines
    BY DEF PathInv, MapInv, TypeOK
  <1>2. c.mac \in Macs /\ c.host \in Hosts
    BY <1>1 DEF PathInv, PathTypeOK, Contact
  <1>3. <<c.mac, c.host>> \in cache[l]
    BY <1>1, SkipMeansCached DEF UrisOf, Uri
  <1>4. QED
    BY <1>1, <1>2, <1>3 DEF PathInv, CachedAreBriefed

\* A REGISTER is skipped only when the phones it lists have the body or were
\* passed over, for any lines and phones.
THEOREM SkippedAreBriefed == PathSpec => []SkipsOnlyBriefed
  BY PathInvariant, BriefedFollows, PTL

\* The map stays bounded on the whole way of a REGISTER.
THEOREM PathDuplicatesBounded == PathSpec => []DuplicatesBounded
  <1>1. PathInv => DuplicatesBounded
    BY DEF PathInv, MapInv
  <1>2. QED
    BY PathInvariant, <1>1, PTL

-----------------------------------------------------------------------------
(* StatusInv: the Contacts and the entries of the map.                      *)

\* The Contacts of a line, those on their way to the registrar included.
ContactsOf(l) == bound[l] \cup {a.contact : a \in answering[l]}

\* Nothing is linked, and no Contact comes.
LEMMA FitsStill ==
    ASSUME ContactsFit, Seen' \subseteq Seen, allocated' = allocated,
           \A l \in Lines : ContactsOf(l)' \subseteq ContactsOf(l)
    PROVE  ContactsFit'
  BY DEF ContactsFit, ContactsOf

\* Entries go, and last harvests are forgotten.
LEMMA SeenLess ==
    ASSUME map' \subseteq map, \A m \in Macs : last'[m] \subseteq last[m]
    PROVE  Seen' \subseteq Seen
  BY DEF Seen

\* What a deregistration leaves to see of the map.
LEMMA ForgetSees ==
    ASSUME TypeOK, NEW m \in Macs, map' \in Forget(m),
           last' = last \/ last' = [last EXCEPT ![m] = {}]
    PROVE  Seen' \subseteq Seen
  <1>1. map' \subseteq map
    BY UnlinkCases DEF Forget
  <1>2. \A k \in Macs : last'[k] \subseteq last[k]
    BY DEF TypeOK
  <1>3. QED
    BY <1>1, <1>2, SeenLess

\* No step of the map shows an entry that was not seen, but for a link.
LEMMA MapSees ==
    ASSUME TypeOK, Next \/ UNCHANGED vars, UNCHANGED allocated
    PROVE  Seen' \subseteq Seen
  <1>1. ASSUME NEW l \in Lines, LookupFacts(l)
        PROVE  Seen' \subseteq Seen
    BY <1>1, SeenLess DEF LookupFacts, histVars
  <1>2. ASSUME NEW l \in Lines, RegisterUnlink(l)
        PROVE  Seen' \subseteq Seen
    <2>1. PICK h \in harvest[l] : map' \in UnlinkOne(h.mac)
      BY <1>2 DEF RegisterUnlink
    <2>2. map' \subseteq map
      BY <2>1, HarvestType, UnlinkCases
    <2>3. QED
      BY <1>2, <2>2, SeenLess DEF RegisterUnlink, histVars
  <1>3. ASSUME NEW l \in Lines, NEW m \in Macs, Deregister(l, m)
        PROVE  Seen' \subseteq Seen
    BY <1>3, ForgetSees DEF Deregister
  <1>4. ASSUME NEW l \in Lines, NEW m \in Macs, NEW h \in Hosts,
               NEW fields \in SUBSET Fields, Register(l, m, h, fields)
        PROVE  Seen' \subseteq Seen
    BY <1>4, SeenLess DEF Register
  <1>5. ASSUME NEW l \in Lines,
               Unconfigure(l) \/ \E m \in Macs : DeregisterAll(l, m)
        PROVE  Seen' \subseteq Seen
    BY <1>5, SeenLess DEF DeregisterAll, Dispute, Unconfigure, histVars
  <1>6. ASSUME NEW m \in Macs, IdentifyRequest(m) \/ Reboot(m)
        PROVE  Seen' \subseteq Seen
    BY <1>6, SeenLess DEF IdentifyRequest, Reboot, histVars
  <1>7. ASSUME NEW e \in map, Expire(e)
        PROVE  Seen' \subseteq Seen
    BY <1>7, SeenLess DEF Expire
  <1>8. CASE UNCHANGED vars
    BY <1>8, SeenLess DEF vars, histVars
  <1>9. ASSUME NEW l \in Lines, RegisterLink(l)
        PROVE  FALSE
    BY <1>9 DEF RegisterLink, TypeOK
  <1>10. QED
    BY <1>1, <1>2, <1>3, <1>4, <1>5, <1>6, <1>7, <1>8, <1>9 DEF Next, HarvestStep

\* The link leaves an entry and sends a Contact on, under one id.
LEMMA LinkFits ==
    ASSUME PathInv, EntriesFit, ContactsFit, NEW l \in Lines, RegisterLink(l),
           UNCHANGED bound,
           answering' = [answering EXCEPT ![l] = @ \cup
             {[contact |-> [mac |-> h.mac, host |-> h.host, callId |-> h.callId,
                            harvest |-> allocated],
               stage |-> "registrar", listed |-> {}] : h \in harvest[l]}]
    PROVE  ContactsFit'
  <1>1. PICK h \in harvest[l] :
            /\ map' = map \cup {NewEntry(l, h)}
            /\ allocated' = allocated + 1
            /\ last' = [last EXCEPT ![h.mac] = {NewEntry(l, h)}]
    BY DEF RegisterLink
  <1>2. TypeOK /\ harvest[l] = {h} /\ h.mac \in Macs
    BY HarvestType DEF PathInv, MapInv
  <1>3. PICK e : e = NewEntry(l, h)
    OBVIOUS
  <1>4. e.id = allocated /\ e.callId = h.callId
    BY <1>3 DEF NewEntry
  <1>5. PICK c : c = [mac |-> h.mac, host |-> h.host, callId |-> h.callId,
                      harvest |-> allocated]
    OBVIOUS
  <1>6. c.harvest = allocated /\ c.callId = h.callId
    BY <1>5
  <1>7. answering' = [answering EXCEPT ![l] = answering[l] \cup
             {[contact |-> c, stage |-> "registrar", listed |-> {}]}]
    BY <1>2, <1>5
  <1>8. \A k \in Lines : ContactsOf(k)' \subseteq ContactsOf(k) \cup {c}
    <2>1. \A k \in Lines : answering'[k] \subseteq answering[k] \cup
             {[contact |-> c, stage |-> "registrar", listed |-> {}]}
      BY <1>7 DEF PathInv, PathTypeOK
    <2>2. QED
      BY <2>1 DEF ContactsOf
  <1>9. Seen' \subseteq Seen \cup {e}
    BY <1>1, <1>2, <1>3 DEF Seen, TypeOK
  <1>10. allocated \in Nat /\ \A f \in Seen : f.id \in Nat /\ f.id < allocated
    <2>1. Seen \subseteq Entry
      BY <1>2 DEF Seen, TypeOK
    <2>2. QED
      BY <1>2, <2>1 DEF Entry, EntriesFit, TypeOK
  <1>11. ASSUME NEW k \in Lines, NEW d \in ContactsOf(k)'
         PROVE  d.harvest < allocated' /\ \A f \in Seen' : f.id = d.harvest => f.callId = d.callId
    <2>1. CASE d = c
      BY <1>1, <1>4, <1>6, <1>9, <1>10, <2>1
    <2>2. CASE d # c
      <3>1. d \in ContactsOf(k)
        BY <1>8, <2>2
      <3>2. d.harvest \in Nat
        BY <3>1 DEF ContactsOf, PathInv, PathTypeOK, Contact, Answering
      <3>3. /\ d.harvest < allocated
            /\ \A f \in Seen : f.id = d.harvest => f.callId = d.callId
        BY <3>1 DEF ContactsFit, ContactsOf
      <3>4. QED
        BY <1>1, <1>4, <1>9, <1>10, <3>2, <3>3
    <2>3. QED
      BY <2>1, <2>2
  <1>12. QED
    BY <1>11 DEF ContactsFit, ContactsOf

\* The map in order, through a step of DeviceMap.
LEMMA OrderStep ==
    ASSUME OrderInv, BudgetOK, Next \/ UNCHANGED vars
    PROVE  EntriesFit' /\ AllOrderly'
  <1>1. OrderInv'
    BY NextOrder
  <1>2. QED
    BY <1>1 DEF OrderInv, AllOrderly

\* The registrar binds what was on its way, and nothing else.
LEMMA BindFits ==
    ASSUME PathInv, ContactsFit, NEW l \in Lines, Bind(l)
    PROVE  ContactsFit'
  <1>1. PICK a \in answering[l] :
            /\ bound' = [bound EXCEPT ![l] = BoundWith(l, a.contact)]
            /\ answering' = [answering EXCEPT ![l] = (@ \ {a}) \cup
                  {[a EXCEPT !.stage = "answer",
                             !.listed = UrisOf(BoundWith(l, a.contact))]}]
            /\ UNCHANGED vars
    BY DEF Bind
  <1>2. PICK b : b = [a EXCEPT !.stage = "answer",
                               !.listed = UrisOf(BoundWith(l, a.contact))]
    OBVIOUS
  <1>3. b.contact = a.contact
    <2>1. a \in Answering
      BY <1>1 DEF PathInv, PathTypeOK
    <2>2. QED
      BY <1>2, <2>1 DEF Answering
  <1>4. BoundWith(l, a.contact) \subseteq bound[l] \cup {a.contact}
    BY DEF BoundWith
  <1>5. \A k \in Lines : ContactsOf(k)' \subseteq ContactsOf(k)
    <2>1. /\ bound'[l] \subseteq bound[l] \cup {a.contact}
          /\ answering'[l] \subseteq answering[l] \cup {b}
      BY <1>1, <1>2, <1>4 DEF PathInv, PathTypeOK
    <2>2. ContactsOf(l)' \subseteq ContactsOf(l)
      BY <1>1, <1>3, <2>1 DEF ContactsOf
    <2>3. \A k \in Lines \ {l} : bound'[k] = bound[k] /\ answering'[k] = answering[k]
      BY <1>1 DEF PathInv, PathTypeOK
    <2>4. \A k \in Lines \ {l} : ContactsOf(k)' = ContactsOf(k)
      BY <2>3 DEF ContactsOf
    <2>5. QED
      BY <2>2, <2>4
  <1>6. Seen' = Seen /\ allocated' = allocated
    BY <1>1 DEF vars, histVars, Seen
  <1>7. QED
    BY <1>5, <1>6, FitsStill

\* Contacts and answers only go.
LEMMA FewerFits ==
    ASSUME PathInv, \A l \in Lines : bound'[l] \subseteq bound[l],
           \A l \in Lines : answering'[l] \subseteq answering[l]
    PROVE  \A l \in Lines : ContactsOf(l)' \subseteq ContactsOf(l)
  BY DEF ContactsOf

LEMMA PathInitStatus == PathInit => StatusInv
  <1> SUFFICES ASSUME PathInit PROVE StatusInv
    OBVIOUS
  <1>1. PathInv /\ OrderInv
    BY PathInitInv, InitOrder DEF PathInit
  <1>2. ContactsFit
    BY DEF PathInit, ContactsFit
  <1>3. QED
    BY <1>1, <1>2 DEF StatusInv

LEMMA PathNextStatus ==
    StatusInv /\ BudgetOK /\ [PathNext]_allVars => StatusInv' /\ BudgetOK'
  <1> SUFFICES ASSUME StatusInv, BudgetOK, [PathNext]_allVars
               PROVE  StatusInv' /\ BudgetOK'
    OBVIOUS
  <1>a. /\ PathInv /\ OrderInv /\ EntriesFit /\ AllOrderly /\ ContactsFit
        /\ MapInv /\ TypeOK
    BY OrderParts DEF StatusInv, PathInv, MapInv
  <1>b. PathInv' /\ BudgetOK'
    BY <1>a, PathNextInv
  <1>c. ASSUME EntriesFit', AllOrderly', ContactsFit'
        PROVE  StatusInv' /\ BudgetOK'
    <2>1. OrderInv'
      BY <1>b, <1>c DEF OrderInv, AllOrderly, PathInv
    <2>2. QED
      BY <1>b, <1>c, <2>1 DEF StatusInv
  \* A step of the map that links nothing and brings no Contact.
  <1>d. ASSUME Next \/ UNCHANGED vars, UNCHANGED allocated,
               \A l \in Lines : bound'[l] \subseteq bound[l],
               \A l \in Lines : answering'[l] \subseteq answering[l]
        PROVE  StatusInv' /\ BudgetOK'
    <2>1. EntriesFit' /\ AllOrderly'
      BY <1>a, <1>d, OrderStep
    <2>2. Seen' \subseteq Seen /\ allocated' = allocated
      BY <1>a, <1>d, MapSees
    <2>3. ContactsFit'
      BY <1>a, <1>d, <2>2, FewerFits, FitsStill
    <2>4. QED
      BY <1>c, <2>1, <2>3
  <1>e. ASSUME Next \/ UNCHANGED vars, UNCHANGED allocated, UNCHANGED pathVars
        PROVE  StatusInv' /\ BudgetOK'
    BY <1>d, <1>e DEF pathVars
  \* A step that the map does not see.
  <1>f. ASSUME UNCHANGED <<map, expired, allocated, harvest, histVars>>,
               \A l \in Lines : bound'[l] \subseteq bound[l],
               \A l \in Lines : answering'[l] \subseteq answering[l]
        PROVE  StatusInv' /\ BudgetOK'
    <2>1. EntriesFit' /\ AllOrderly'
      BY <1>a, <1>f, QuietOrder
    <2>2. Seen' \subseteq Seen /\ allocated' = allocated
      BY <1>f DEF Seen, histVars
    <2>3. ContactsFit'
      BY <1>a, <1>f, <2>2, FewerFits, FitsStill
    <2>4. QED
      BY <1>c, <2>1, <2>3
  <1>1. ASSUME NEW l \in Lines, NEW m \in Macs, NEW h \in Hosts,
               NEW fields \in SUBSET Fields, Arrive(l, m, h, fields)
        PROVE  StatusInv' /\ BudgetOK'
    <2>1. Next /\ UNCHANGED allocated /\ UNCHANGED pathVars
      BY <1>1 DEF Arrive, Register, Next
    <2>2. QED
      BY <1>e, <2>1
  <1>2. ASSUME NEW l \in Lines, Harvested(l)
        PROVE  StatusInv' /\ BudgetOK'
    <2>1. CASE (LookupFacts(l) \/ RegisterUnlink(l)) /\ UNCHANGED pathVars
      <3>1. Next /\ UNCHANGED allocated
        BY <2>1 DEF LookupFacts, RegisterUnlink, Next, HarvestStep
      <3>2. QED
        BY <1>e, <2>1, <3>1
    <2>2. CASE RegisterLink(l) /\ ~((LookupFacts(l) \/ RegisterUnlink(l)) /\ UNCHANGED pathVars)
      <3>1. EntriesFit' /\ AllOrderly'
        BY <1>a, <2>2, LinkOrder
      <3>2. /\ UNCHANGED bound
            /\ answering' = [answering EXCEPT ![l] = @ \cup
                 {[contact |-> [mac |-> h.mac, host |-> h.host, callId |-> h.callId,
                                harvest |-> allocated],
                   stage |-> "registrar", listed |-> {}] : h \in harvest[l]}]
        BY <1>2, <2>2 DEF Harvested
      <3>3. ContactsFit'
        BY <1>a, <2>2, <3>2, LinkFits
      <3>4. QED
        BY <1>c, <3>1, <3>3
    <2>3. QED
      BY <1>2, <2>1, <2>2 DEF Harvested
  <1>3. ASSUME NEW l \in Lines, Bind(l)
        PROVE  StatusInv' /\ BudgetOK'
    <2>1. UNCHANGED vars
      BY <1>3 DEF Bind
    <2>2. EntriesFit' /\ AllOrderly'
      BY <1>a, <2>1, OrderStep
    <2>3. ContactsFit'
      BY <1>3, <1>a, BindFits
    <2>4. QED
      BY <1>c, <2>2, <2>3
  <1>4. ASSUME NEW l \in Lines, Refuse(l)
        PROVE  StatusInv' /\ BudgetOK'
    <2>1. PICK a \in answering[l] :
              /\ answering' = [answering EXCEPT ![l] = @ \ {a}]
              /\ UNCHANGED <<map, expired, allocated, harvest, histVars, bound>>
      BY <1>4 DEF Refuse
    <2>2. \A k \in Lines : answering'[k] \subseteq answering[k]
      BY <1>a, <2>1 DEF PathInv, PathTypeOK
    <2>3. \A k \in Lines : bound'[k] \subseteq bound[k]
      BY <2>1
    <2>4. QED
      BY <1>f, <2>1, <2>2, <2>3
  <1>5. ASSUME NEW l \in Lines, AnswerRegister(l)
        PROVE  StatusInv' /\ BudgetOK'
    <2>1. PICK a \in answering[l] :
              /\ answering' = [answering EXCEPT ![l] = @ \ {a}]
              /\ UNCHANGED <<vars, bound, keepaliveFirst>>
      BY <1>5 DEF AnswerRegister
    <2>2. \A k \in Lines : answering'[k] \subseteq answering[k]
      BY <1>a, <2>1 DEF PathInv, PathTypeOK
    <2>3. UNCHANGED allocated /\ \A k \in Lines : bound'[k] \subseteq bound[k]
      BY <2>1 DEF vars
    <2>4. QED
      BY <1>d, <2>1, <2>2, <2>3
  <1>6. ASSUME NEW l \in Lines, NEW m \in Macs, Leave(l, m)
        PROVE  StatusInv' /\ BudgetOK'
    <2>1. PICK c \in bound[l] :
              /\ Deregister(l, m)
              /\ bound' = [bound EXCEPT ![l] = @ \ {c}]
              /\ UNCHANGED <<answering, keepaliveFirst>>
      BY <1>6 DEF Leave
    <2>2. \A k \in Lines : bound'[k] \subseteq bound[k]
      BY <1>a, <2>1 DEF PathInv, PathTypeOK
    <2>3. Next /\ UNCHANGED allocated
      BY <2>1 DEF Deregister, Next
    <2>4. \A k \in Lines : answering'[k] \subseteq answering[k]
      BY <2>1
    <2>5. QED
      BY <1>d, <2>2, <2>3, <2>4
  <1>7. ASSUME NEW l \in Lines, LeaveAll(l)
        PROVE  StatusInv' /\ BudgetOK'
    <2>1. PICK c \in bound[l] :
              /\ DeregisterAll(l, c.mac)
              /\ bound' = [bound EXCEPT ![l] = {}]
              /\ UNCHANGED <<answering, keepaliveFirst>>
      BY <1>7 DEF LeaveAll
    <2>2. \A k \in Lines : bound'[k] \subseteq bound[k]
      BY <1>a, <2>1 DEF PathInv, PathTypeOK
    <2>3. Next /\ UNCHANGED allocated
      <3>1. c.mac \in Macs
        BY <2>1, <1>a DEF PathInv, PathTypeOK, Contact
      <3>2. QED
        BY <2>1, <3>1 DEF DeregisterAll, Next
    <2>4. \A k \in Lines : answering'[k] \subseteq answering[k]
      BY <2>1
    <2>5. QED
      BY <1>d, <2>2, <2>3, <2>4
  <1>8. ASSUME NEW l \in Lines, KeepaliveOnRxRequest(l)
        PROVE  StatusInv' /\ BudgetOK'
    <2>1. PICK c \in bound[l] :
              /\ IF keepaliveFirst THEN UNCHANGED <<map, histVars>>
                                  ELSE map' \in Forget(c.mac) /\ Dispute(c.mac)
              /\ UNCHANGED <<expired, allocated, harvest, bound, answering>>
      BY <1>8 DEF KeepaliveOnRxRequest
    <2>2. /\ \A k \in Lines : bound'[k] \subseteq bound[k]
          /\ \A k \in Lines : answering'[k] \subseteq answering[k]
      BY <2>1
    <2>3. c.mac \in Macs
      BY <2>1, <1>a DEF PathInv, PathTypeOK, Contact
    <2>4. CASE keepaliveFirst
      BY <1>f, <2>1, <2>2, <2>4
    <2>5. CASE ~keepaliveFirst
      <3>1. EntriesFit' /\ AllOrderly'
        BY <1>a, <2>1, <2>3, <2>5, DisputeOrder
      <3>2. Seen' \subseteq Seen
        BY <1>a, <2>1, <2>3, <2>5, ForgetSees DEF Dispute
      <3>3. ContactsFit'
        BY <1>a, <2>1, <2>2, <3>2, FewerFits, FitsStill
      <3>4. QED
        BY <1>c, <3>1, <3>3
    <2>6. QED
      BY <2>4, <2>5
  <1>9. ASSUME NEW l \in Lines, Lapse(l)
        PROVE  StatusInv' /\ BudgetOK'
    <2>1. PICK c \in bound[l] :
              /\ bound' = [bound EXCEPT ![l] = @ \ {c}]
              /\ UNCHANGED <<map, expired, allocated, harvest, histVars, answering>>
      BY <1>9 DEF Lapse
    <2>2. \A k \in Lines : bound'[k] \subseteq bound[k]
      BY <1>a, <2>1 DEF PathInv, PathTypeOK
    <2>3. \A k \in Lines : answering'[k] \subseteq answering[k]
      BY <2>1
    <2>4. QED
      BY <1>f, <2>1, <2>2, <2>3
  <1>10. ASSUME NEW m \in Macs, PowerCycle(m)
         PROVE  StatusInv' /\ BudgetOK'
    <2>1. Next /\ UNCHANGED <<allocated, bound, answering>>
      BY <1>10 DEF PowerCycle, Reboot, Next
    <2>2. /\ \A k \in Lines : bound'[k] \subseteq bound[k]
          /\ \A k \in Lines : answering'[k] \subseteq answering[k]
      BY <2>1
    <2>3. QED
      BY <1>d, <2>1, <2>2
  <1>11. ASSUME NEW l \in Lines, Unconfigure(l), UNCHANGED pathVars
         PROVE  StatusInv' /\ BudgetOK'
    <2>1. Next /\ UNCHANGED allocated
      BY <1>11 DEF Unconfigure, Next
    <2>2. QED
      BY <1>11, <1>e, <2>1
  <1>12. ASSUME NEW m \in Macs, IdentifyRequest(m), UNCHANGED pathVars
         PROVE  StatusInv' /\ BudgetOK'
    <2>1. Next /\ UNCHANGED allocated
      BY <1>12 DEF IdentifyRequest, Next
    <2>2. QED
      BY <1>12, <1>e, <2>1
  <1>13. ASSUME NEW e \in map, Expire(e), UNCHANGED pathVars
         PROVE  StatusInv' /\ BudgetOK'
    <2>1. Next /\ UNCHANGED allocated
      BY <1>13 DEF Expire, Next
    <2>2. QED
      BY <1>13, <1>e, <2>1
  <1>14. CASE UNCHANGED allVars
    <2>1. UNCHANGED vars /\ UNCHANGED allocated /\ UNCHANGED pathVars
      BY <1>14 DEF allVars, vars
    <2>2. QED
      BY <1>e, <2>1
  <1>15. QED
    BY <1>1, <1>2, <1>3, <1>4, <1>5, <1>6, <1>7, <1>8, <1>9, <1>10, <1>11, <1>12,
       <1>13, <1>14 DEF PathNext

\* The map is in order also under refusals, lapses and heartbeats, and a
\* Contact has the Call-ID of the entry that its REGISTER left.
THEOREM StatusInvariant == PathSpec => []StatusInv
  <1>1. StatusInv /\ BudgetOK /\ [PathNext]_allVars => (StatusInv /\ BudgetOK)'
    BY PathNextStatus
  <1>2. PathInit => StatusInv /\ BudgetOK
    BY PathInitInv, PathInitStatus
  <1>3. QED
    BY <1>1, <1>2, PTL DEF PathSpec

LEMMA StatusShows == StatusInv => StatusOfLastLine
  <1> SUFFICES ASSUME StatusInv, NEW m \in Macs, m \notin mixed, Busy(m) = {},
                      NEW e \in last[m], NEW c \in bound[e.line],
                      ~IsExpired(e), c.harvest = e.id
               PROVE  \/ \E f \in told[m] :
                            {<<d.mac, d.host, d.facts>> : d \in CliCiscoStatus(c)}
                                = {<<m, e.host, f>>}
                      \/ m \in disputed /\ CliCiscoStatus(c) = {}
    BY DEF StatusOfLastLine
  <1>1. TypeOK /\ EntriesFit /\ Orderly(m)
    BY DEF StatusInv, OrderInv, MapInv
  <1>2. e \in Seen /\ e.mac = m /\ e.line \in Lines
    BY <1>1 DEF Seen, EntriesFit, TypeOK, Entry
  <1>3. e.callId = c.callId
    BY <1>2 DEF StatusInv, ContactsFit
  <1>4. Of(m) \subseteq last[m] /\ (e \in Of(m) \/ m \in disputed)
    BY <1>1 DEF Orderly, Busy, Linking
  <1>5. ASSUME NEW d \in CliCiscoStatus(c)
        PROVE  d = e /\ d \in Of(m)
    <2>1. d \in map /\ d.callId = e.callId
      BY <1>3 DEF CliCiscoStatus, LookupByCallId
    <2>2. d.mac = m
      BY <1>1, <1>2, <2>1 DEF EntriesFit, Seen
    <2>3. d \in Of(m) /\ d \in last[m]
      BY <1>4, <2>1, <2>2 DEF Of
    <2>4. QED
      BY <1>1, <2>3 DEF EntriesFit
  <1>6. CASE e \in Of(m)
    <2>1. CliCiscoStatus(c) = {e}
      BY <1>3, <1>5, <1>6 DEF CliCiscoStatus, LookupByCallId, Of
    <2>2. e.facts \in told[m]
      <3>1. FactsKept
        BY OrderKeepsFacts DEF StatusInv
      <3>2. QED
        BY <1>6, <3>1 DEF FactsKept
    <2>3. {<<d.mac, d.host, d.facts>> : d \in CliCiscoStatus(c)} = {<<m, e.host, e.facts>>}
      BY <1>2, <2>1
    <2>4. QED
      BY <2>2, <2>3
  <1>7. CASE e \notin Of(m)
    <2>1. CliCiscoStatus(c) = {}
      BY <1>5, <1>7
    <2>2. QED
      BY <1>4, <1>7, <2>1
  <1>8. QED
    BY <1>6, <1>7

\* Under the Contact of the line a phone registered last, the status command
\* shows that phone, with the facts it told, or, in dispute, nothing.
THEOREM StatusIsOfLastLine == PathSpec => []StatusOfLastLine
  BY StatusInvariant, StatusShows, PTL

\* On the whole way of a REGISTER a device is known as it registered last.
THEOREM PathKnownAsRegistered == PathSpec => []KnownAsRegistered
  <1>1. StatusInv => KnownAsRegistered
    BY OrderIsKnown DEF StatusInv
  <1>2. QED
    BY StatusInvariant, <1>1, PTL

\* On the whole way of a REGISTER the facts a device told are kept.
THEOREM PathKeepsFacts == PathSpec => []FactsKept
  <1>1. StatusInv => FactsKept
    BY OrderKeepsFacts DEF StatusInv
  <1>2. QED
    BY StatusInvariant, <1>1, PTL

=============================================================================
