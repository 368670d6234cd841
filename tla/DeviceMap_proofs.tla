-------------------------- MODULE DeviceMap_proofs --------------------------
(***************************************************************************)
(* Two invariants of DeviceMap for any number of lines, MACs and hosts.

   MapInv: whatever the interleaving of the harvests, a MAC has at most as
   many entries as there are lines.  The entries alone are no invariant: an
   unlink that finds nothing makes room for a link later.  What never grows
   is the entries of a MAC together with the harvests between their unlink
   and their link.

   OrderInv: of a MAC that was never in two threads at once, the entry, the
   harvest on its way and what the phone told agree; from it follow
   KnownAsRegistered and FactsKept.                                         *)
(***************************************************************************)
EXTENDS DeviceMap, FiniteSetTheorems, TLAPS

\* What one register may do to the map: nothing, or one entry less.
LEMMA UnlinkCases ==
    ASSUME NEW m \in Macs, NEW n, n \in UnlinkOne(m)
    PROVE  \/ Of(m) = {} /\ n = map
           \/ \E e \in Of(m) : n = map \ {e}
  BY DEF UnlinkOne

\* The entries of m and the harvests of m are finite sets.
LEMMA Finite ==
    ASSUME MapInv, NEW m \in Macs
    PROVE  /\ IsFiniteSet(Of(m)) /\ Cardinality(Of(m)) \in Nat
           /\ IsFiniteSet(Linking(m)) /\ Cardinality(Linking(m)) \in Nat
           /\ Cardinality(Lines) \in Nat
  <1>1. IsFiniteSet(Of(m))
    <2>1. Of(m) \subseteq map
      BY DEF Of
    <2>2. QED
      BY <2>1, FS_Subset DEF MapInv
  <1>2. IsFiniteSet(Linking(m))
    <2>1. Linking(m) \subseteq Lines
      BY DEF Linking
    <2>2. QED
      BY <2>1, FS_Subset, DeviceMapConstants
  <1>3. QED
    BY <1>1, <1>2, FS_CardinalityType, DeviceMapConstants

\* Facts stay facts.
LEMMA MergeType ==
    ASSUME NEW f \in Facts, NEW g \in Facts
    PROVE  Merge(f, g) \in Facts
  BY DEF Merge, Facts

LEMMA UnknownType == Unknown \in Facts
  BY DEF Unknown, Facts

\* The history of a dispute.
LEMMA DisputeType ==
    ASSUME TypeOK, NEW m \in Macs, Dispute(m)
    PROVE  /\ last' \in [Macs -> SUBSET Entry]
           /\ told' \in [Macs -> SUBSET Facts]
           /\ mixed' \subseteq Macs /\ disputed' \subseteq Macs
  BY UnknownType DEF TypeOK, Dispute

\* A harvest that is on its way, and what it keeps through a step.
LEMMA HarvestType ==
    ASSUME TypeOK, NEW l \in Lines, NEW h \in harvest[l]
    PROVE  /\ h \in Harvest
           /\ h.mac \in Macs /\ h.host \in Hosts /\ h.callId \in CallIds
           /\ h.reason \in Facts /\ h.facts \in Facts
           /\ harvest[l] = {h}
  <1>1. h \in Harvest
    BY DEF TypeOK
  <1>2. /\ h.mac \in Macs /\ h.host \in Hosts /\ h.callId \in CallIds
        /\ h.reason \in Facts /\ h.facts \in Facts
    BY <1>1 DEF Harvest
  <1>3. harvest[l] = {h}
    BY DEF TypeOK
  <1>4. QED
    BY <1>1, <1>2, <1>3

\* A harvest's next stage, and whom it counts among the linking.
LEMMA StageChange ==
    ASSUME TypeOK, NEW l \in Lines, NEW h \in harvest[l], NEW k \in Harvest,
           harvest' = [harvest EXCEPT ![l] = {k}]
    PROVE  \A m \in Macs :
              Linking(m)' = IF k.mac = m /\ k.stage = "unlinked"
                            THEN Linking(m) \cup {l} ELSE Linking(m) \ {l}
  <1>1. harvest'[l] = {k} /\ \A x \in Lines \ {l} : harvest'[x] = harvest[x]
    BY DEF TypeOK
  <1>2. QED
    BY <1>1 DEF Linking

\* A budget is a natural number for each kind of event.
BudgetOK == budget \in [Events -> Nat]

LEMMA SpendType ==
    ASSUME BudgetOK, NEW e \in Events, Spend(e)
    PROVE  BudgetOK'
  BY DEF BudgetOK, Spend

LEMMA InitInv == Init => MapInv /\ BudgetOK
  <1> SUFFICES ASSUME Init PROVE MapInv /\ BudgetOK
    OBVIOUS
  <1>1. TypeOK
    BY UnknownType DEF Init, TypeOK
  <1>2. IsFiniteSet(map)
    BY FS_EmptySet DEF Init
  <1>3. DuplicatesBounded
    <2> SUFFICES ASSUME NEW m \in Macs
                 PROVE  Cardinality(Of(m)) + Cardinality(Linking(m)) <= Cardinality(Lines)
      BY DEF DuplicatesBounded
    <2>1. Of(m) = {} /\ Linking(m) = {}
      BY DEF Init, Of, Linking
    <2>2. QED
      BY <2>1, FS_EmptySet, FS_CardinalityType, DeviceMapConstants
  <1>4. BudgetOK
    BY DeviceMapConstants DEF Init, BudgetOK
  <1>5. QED
    BY <1>1, <1>2, <1>3, <1>4 DEF MapInv

\* The sum does not grow when entries go and no harvest comes to its link.
LEMMA Shrinks ==
    ASSUME MapInv, map' \subseteq map,
           \A m \in Macs : Linking(m)' \subseteq Linking(m)
    PROVE  IsFiniteSet(map)' /\ DuplicatesBounded'
  <1>1. IsFiniteSet(map')
    BY FS_Subset DEF MapInv
  <1>2. ASSUME NEW m \in Macs
        PROVE  Cardinality(Of(m)') + Cardinality(Linking(m)') <= Cardinality(Lines)
    <2>1. /\ Cardinality(Of(m)') \in Nat
          /\ Cardinality(Of(m)') <= Cardinality(Of(m))
      <3>1. Of(m)' \subseteq Of(m)
        BY DEF Of
      <3>2. QED
        BY <3>1, Finite, FS_Subset, FS_CardinalityType
    <2>2. /\ Cardinality(Linking(m)') \in Nat
          /\ Cardinality(Linking(m)') <= Cardinality(Linking(m))
      BY Finite, FS_Subset, FS_CardinalityType
    <2>3. QED
      BY <2>1, <2>2, Finite DEF MapInv, DuplicatesBounded
  <1>3. QED
    BY <1>1, <1>2 DEF DuplicatesBounded

\* The unlink of a register: an entry less or none, a harvest more to link.
LEMMA UnlinkStep ==
    ASSUME MapInv, NEW l \in Lines, RegisterUnlink(l)
    PROVE  IsFiniteSet(map)' /\ DuplicatesBounded'
  <1>1. PICK h \in harvest[l] :
            /\ h.stage = "prefilled"
            /\ map' \in UnlinkOne(h.mac)
            /\ harvest' = [harvest EXCEPT ![l] = {[h EXCEPT !.stage = "unlinked"]}]
    BY DEF RegisterUnlink
  <1>2. h \in Harvest /\ h.mac \in Macs
    BY <1>1, HarvestType DEF MapInv
  <1>3. map' \subseteq map
    BY <1>1, <1>2, UnlinkCases
  <1>4. IsFiniteSet(map')
    BY <1>3, FS_Subset DEF MapInv
  <1>5. ASSUME NEW m \in Macs
        PROVE  Cardinality(Of(m)') + Cardinality(Linking(m)') <= Cardinality(Lines)
    <2>1. CASE m # h.mac
      <3>1. Of(m)' \subseteq Of(m)
        BY <1>3 DEF Of
      <3>2. Linking(m)' \subseteq Linking(m)
        <4> DEFINE k == [h EXCEPT !.stage = "unlinked"]
        <4>1. k \in Harvest /\ k.mac # m
          BY <1>2, <2>1 DEF Harvest
        <4>2. harvest' = [harvest EXCEPT ![l] = {k}]
          BY <1>1
        <4> HIDE DEF k
        <4>3. QED
          BY ZenonT(40), <4>1, <4>2, StageChange DEF MapInv
      <3>3. /\ Cardinality(Of(m)') \in Nat
            /\ Cardinality(Of(m)') <= Cardinality(Of(m))
        BY <3>1, Finite, FS_Subset, FS_CardinalityType
      <3>4. /\ Cardinality(Linking(m)') \in Nat
            /\ Cardinality(Linking(m)') <= Cardinality(Linking(m))
        BY <3>2, Finite, FS_Subset, FS_CardinalityType
      <3>5. QED
        BY <3>3, <3>4, Finite DEF MapInv, DuplicatesBounded
    <2>2. CASE m = h.mac
      <3>1. l \notin Linking(m)
        BY <1>1 DEF Linking, MapInv, TypeOK
      <3>2. Linking(m)' = Linking(m) \cup {l}
        <4> DEFINE k == [h EXCEPT !.stage = "unlinked"]
        <4>1. k \in Harvest /\ k.mac = m /\ k.stage = "unlinked"
          BY <1>2, <2>2 DEF Harvest
        <4>2. harvest' = [harvest EXCEPT ![l] = {k}]
          BY <1>1
        <4> HIDE DEF k
        <4>3. QED
          BY <4>1, <4>2, StageChange DEF MapInv
      <3>3. Cardinality(Linking(m)') = Cardinality(Linking(m)) + 1
        BY <3>1, <3>2, Finite, FS_AddElement
      <3>4. CASE Of(m) = {} /\ map' = map
        <4>1. Of(m)' = {}
          BY <3>4 DEF Of
        <4>2. Cardinality(Of(m)') = 0
          BY <4>1, FS_EmptySet
        <4>3. /\ Cardinality(Linking(m)') \in Nat
              /\ Cardinality(Linking(m)') <= Cardinality(Lines)
          <5>1. Linking(m)' \subseteq Lines
            BY DEF Linking
          <5>2. QED
            BY <5>1, FS_Subset, FS_CardinalityType, DeviceMapConstants
        <4>4. QED
          BY <4>2, <4>3, Finite
      <3>5. CASE \E e \in Of(m) : map' = map \ {e}
        <4>1. PICK e \in Of(m) : map' = map \ {e}
          BY <3>5
        <4>2. Of(m)' = Of(m) \ {e}
          BY <4>1 DEF Of
        <4>3. Cardinality(Of(m)') = Cardinality(Of(m)) - 1
          BY <4>2, Finite, FS_RemoveElement
        <4>4. QED
          BY <3>3, <4>3, Finite DEF MapInv, DuplicatesBounded
      <3>6. QED
        BY <1>1, <1>2, <2>2, <3>4, <3>5, UnlinkCases
    <2>3. QED
      BY <2>1, <2>2
  <1>6. QED
    BY <1>4, <1>5 DEF DuplicatesBounded

\* The link: a harvest less to link, an entry more.
LEMMA LinkStep ==
    ASSUME MapInv, NEW l \in Lines, RegisterLink(l)
    PROVE  IsFiniteSet(map)' /\ DuplicatesBounded'
  <1>1. PICK h \in harvest[l] :
            /\ h.stage = "unlinked"
            /\ map' = map \cup {NewEntry(l, h)}
            /\ harvest' = [harvest EXCEPT ![l] = {}]
    BY DEF RegisterLink
  <1>2. h.mac \in Macs /\ NewEntry(l, h).mac = h.mac
    BY <1>1, HarvestType DEF MapInv, NewEntry
  <1>3. IsFiniteSet(map')
    BY <1>1, FS_AddElement DEF MapInv
  <1>4. ASSUME NEW m \in Macs
        PROVE  Cardinality(Of(m)') + Cardinality(Linking(m)') <= Cardinality(Lines)
    <2>1. CASE m # h.mac
      <3>1. Of(m)' = Of(m)
        BY <1>1, <1>2, <2>1 DEF Of
      <3>2. Linking(m)' \subseteq Linking(m)
        BY <1>1 DEF Linking, MapInv, TypeOK
      <3>3. /\ Cardinality(Linking(m)') \in Nat
            /\ Cardinality(Linking(m)') <= Cardinality(Linking(m))
        BY <3>2, Finite, FS_Subset, FS_CardinalityType
      <3>4. QED
        BY <3>1, <3>3, Finite DEF MapInv, DuplicatesBounded
    <2>2. CASE m = h.mac
      <3>1. Of(m)' = Of(m) \cup {NewEntry(l, h)}
        BY <1>1, <1>2, <2>2 DEF Of
      <3>2. /\ Cardinality(Of(m)') \in Nat
            /\ Cardinality(Of(m)') <= Cardinality(Of(m)) + 1
        <4>1. IsFiniteSet(Of(m)) /\ Cardinality(Of(m)) \in Nat
          BY Finite
        <4>2. Cardinality(Of(m) \cup {NewEntry(l, h)}) \in
                  {Cardinality(Of(m)), Cardinality(Of(m)) + 1}
          BY <4>1, FS_AddElement
        <4>3. QED
          BY <3>1, <4>1, <4>2
      <3>3. l \in Linking(m) /\ Linking(m)' = Linking(m) \ {l}
        BY <1>1, <2>2 DEF Linking, MapInv, TypeOK
      <3>4. Cardinality(Linking(m)') = Cardinality(Linking(m)) - 1
        BY <3>3, Finite, FS_RemoveElement
      <3>5. QED
        BY <3>2, <3>4, Finite DEF MapInv, DuplicatesBounded
    <2>3. QED
      BY <2>1, <2>2
  <1>5. QED
    BY <1>3, <1>4 DEF DuplicatesBounded

LEMMA NextInv == MapInv /\ BudgetOK /\ [Next]_vars => MapInv' /\ BudgetOK'
  <1> SUFFICES ASSUME MapInv, BudgetOK, [Next]_vars
               PROVE  MapInv' /\ BudgetOK'
    OBVIOUS
  <1> USE DEF MapInv
  <1>1. ASSUME NEW l \in Lines, LookupFacts(l)
        PROVE  MapInv' /\ BudgetOK'
    <2>1. PICK h \in harvest[l] :
              /\ h.stage = "arrived"
              /\ \/ /\ harvest' = [harvest EXCEPT ![l] =
                                      {[h EXCEPT !.facts = h.reason, !.stage = "prefilled"]}]
                    /\ UNCHANGED map
                 \/ \E found \in Of(h.mac) :
                       /\ harvest' = [harvest EXCEPT ![l] =
                             {[h EXCEPT !.facts = Merge(Prefill(found), h.reason),
                                        !.stage = "prefilled"]}]
                       /\ map' = IF IsExpired(found) THEN map \ {found} ELSE map
      BY <1>1 DEF LookupFacts
    <2>2. h \in Harvest /\ h.reason \in Facts
      BY <2>1, HarvestType
    <2>3. PICK f \in Facts :
              harvest' = [harvest EXCEPT ![l] =
                             {[h EXCEPT !.facts = f, !.stage = "prefilled"]}]
      <3>1. CASE harvest' = [harvest EXCEPT ![l] =
                                {[h EXCEPT !.facts = h.reason, !.stage = "prefilled"]}]
        BY <2>2, <3>1
      <3>2. CASE \E found \in Of(h.mac) :
                    harvest' = [harvest EXCEPT ![l] =
                       {[h EXCEPT !.facts = Merge(Prefill(found), h.reason),
                                  !.stage = "prefilled"]}]
        <4>1. PICK found \in Of(h.mac) :
                    harvest' = [harvest EXCEPT ![l] =
                       {[h EXCEPT !.facts = Merge(Prefill(found), h.reason),
                                  !.stage = "prefilled"]}]
          BY <3>2
        <4>2. found.facts \in Facts
          BY DEF Of, TypeOK, Entry
        <4>3. Prefill(found) \in Facts
          BY <4>2, UnknownType DEF Prefill
        <4>4. Merge(Prefill(found), h.reason) \in Facts
          BY <4>3, <2>2, MergeType
        <4>5. QED
          BY <4>1, <4>4
      <3>3. QED
        BY <2>1, <3>1, <3>2
    <2>4. map' \subseteq map
      BY <2>1
    <2>5. [h EXCEPT !.facts = f, !.stage = "prefilled"] \in Harvest
      BY <2>2 DEF Harvest
    <2>6. TypeOK'
      <3> DEFINE k == [h EXCEPT !.facts = f, !.stage = "prefilled"]
      <3>1. k \in Harvest
        BY <2>5
      <3>2. harvest' = [harvest EXCEPT ![l] = {k}]
        BY <2>3
      <3>3. UNCHANGED <<expired, allocated, cisco, boots, histVars>>
        BY <1>1 DEF LookupFacts
      <3> HIDE DEF k
      <3>4. /\ harvest' \in [Lines -> SUBSET Harvest]
            /\ \A n \in Lines : \A x, y \in harvest'[n] : x = y
        BY <3>1, <3>2 DEF TypeOK
      <3>5. QED
        BY <2>4, <3>3, <3>4 DEF TypeOK, histVars
    <2>7. \A m \in Macs : Linking(m)' \subseteq Linking(m)
      <3> DEFINE k == [h EXCEPT !.facts = f, !.stage = "prefilled"]
      <3>1. k \in Harvest /\ k.stage # "unlinked"
        BY <2>2, <2>5 DEF Harvest
      <3>2. harvest' = [harvest EXCEPT ![l] = {k}]
        BY <2>3
      <3> HIDE DEF k
      <3>3. QED
        BY <3>1, <3>2, StageChange
    <2>8. BudgetOK'
      BY <1>1 DEF LookupFacts, BudgetOK
    <2>9. QED
      BY <2>4, <2>6, <2>7, <2>8, Shrinks
  <1>2. ASSUME NEW l \in Lines, RegisterUnlink(l)
        PROVE  MapInv' /\ BudgetOK'
    <2>1. PICK h \in harvest[l] :
              /\ map' \in UnlinkOne(h.mac)
              /\ harvest' = [harvest EXCEPT ![l] = {[h EXCEPT !.stage = "unlinked"]}]
      BY <1>2 DEF RegisterUnlink
    <2>2. h \in Harvest /\ h.mac \in Macs
      BY <2>1, HarvestType
    <2>3. map' \subseteq map
      BY <2>1, <2>2, UnlinkCases
    <2>4. [h EXCEPT !.stage = "unlinked"] \in Harvest
      BY <2>2 DEF Harvest
    <2>5. TypeOK'
      BY <1>2, <2>1, <2>3, <2>4 DEF TypeOK, RegisterUnlink, histVars
    <2>6. BudgetOK'
      BY <1>2 DEF RegisterUnlink, BudgetOK
    <2>7. QED
      BY <1>2, <2>5, <2>6, UnlinkStep
  <1>3. ASSUME NEW l \in Lines, RegisterLink(l)
        PROVE  MapInv' /\ BudgetOK'
    <2>1. PICK h \in harvest[l] :
              /\ map' = map \cup {NewEntry(l, h)}
              /\ allocated' = allocated + 1
              /\ harvest' = [harvest EXCEPT ![l] = {}]
              /\ last' = [last EXCEPT ![h.mac] = {NewEntry(l, h)}]
      BY <1>3 DEF RegisterLink
    <2>2. NewEntry(l, h) \in Entry
      <3>1. h.mac \in Macs /\ h.host \in Hosts /\ h.callId \in CallIds /\ h.facts \in Facts
        BY <2>1, HarvestType
      <3>2. QED
        BY <3>1 DEF NewEntry, Entry, TypeOK
    <2>3. TypeOK'
      <3>1. /\ UNCHANGED <<expired, cisco, boots, told, mixed>>
            /\ disputed' \subseteq disputed
        BY <1>3 DEF RegisterLink
      <3>2. h.mac \in Macs
        BY <2>1, HarvestType
      <3>3. map' \subseteq Entry /\ last' \in [Macs -> SUBSET Entry]
        BY <2>1, <2>2, <3>2 DEF TypeOK
      <3>4. /\ harvest' \in [Lines -> SUBSET Harvest]
            /\ \A x \in Lines : \A i, j \in harvest'[x] : i = j
        BY <2>1 DEF TypeOK
      <3>5. allocated' \in Nat
        BY <2>1 DEF TypeOK
      <3>6. QED
        BY <3>1, <3>3, <3>4, <3>5 DEF TypeOK
    <2>4. BudgetOK'
      BY <1>3 DEF RegisterLink, BudgetOK
    <2>5. QED
      BY <1>3, <2>3, <2>4, LinkStep
  <1>4. ASSUME NEW l \in Lines, NEW m \in Macs, NEW h \in Hosts,
               NEW fields \in SUBSET Fields, Register(l, m, h, fields)
        PROVE  MapInv' /\ BudgetOK'
    <2> DEFINE reason == [f \in Fields |-> IF f \in fields THEN budget["refresh"] ELSE 0]
               new == [mac |-> m, host |-> h, callId |-> CallId(l, m),
                       reason |-> reason, facts |-> Unknown, stage |-> "arrived"]
    <2>1. reason \in Facts
      BY DEF BudgetOK, Events, Facts
    <2>2. new \in Harvest
      BY <2>1, UnknownType DEF Harvest, CallIds, CallId, TypeOK
    <2>3. /\ harvest' = [harvest EXCEPT ![l] = {new}]
          /\ told' = [told EXCEPT ![m] = {Merge(t, reason) : t \in told[m]}]
          /\ UNCHANGED <<map, expired, allocated, cisco, boots, last, disputed>>
          /\ mixed' \subseteq mixed \cup {m}
      BY <1>4 DEF Register
    <2>4. {Merge(t, reason) : t \in told[m]} \subseteq Facts
      BY <2>1, MergeType DEF TypeOK
    <2> HIDE DEF reason, new
    <2>5. TypeOK'
      BY <2>2, <2>3, <2>4 DEF TypeOK
    <2>6. new.stage = "arrived"
      BY DEF new
    <2>7. \A k \in Macs : Linking(k)' \subseteq Linking(k)
      BY <2>3, <2>6 DEF Linking, TypeOK
    <2>8. BudgetOK'
      BY <1>4, SpendType DEF Register, Events
    <2>9. QED
      BY <2>3, <2>5, <2>7, <2>8, Shrinks
  <1>5. ASSUME NEW l \in Lines, NEW m \in Macs, Deregister(l, m)
        PROVE  MapInv' /\ BudgetOK'
    <2>1. map' \subseteq map
      BY <1>5, UnlinkCases DEF Deregister, Forget
    <2>2. mixed' \subseteq mixed \cup {m}
      BY <1>5 DEF Deregister
    <2>3. TypeOK'
      BY <1>5, <2>1, <2>2, UnknownType DEF Deregister, TypeOK
    <2>4. \A k \in Macs : Linking(k)' \subseteq Linking(k)
      BY <1>5 DEF Deregister, Linking
    <2>5. BudgetOK'
      BY <1>5, SpendType DEF Deregister, Events
    <2>6. QED
      BY <2>1, <2>3, <2>4, <2>5, Shrinks
  <1>6. ASSUME NEW l \in Lines, NEW m \in Macs, DeregisterAll(l, m)
        PROVE  MapInv' /\ BudgetOK'
    <2>1. UNCHANGED <<map, expired, allocated, harvest, cisco, boots>>
      BY <1>6 DEF DeregisterAll
    <2>2. /\ last' \in [Macs -> SUBSET Entry]
          /\ told' \in [Macs -> SUBSET Facts]
          /\ mixed' \subseteq Macs /\ disputed' \subseteq Macs
      BY <1>6, DisputeType DEF DeregisterAll
    <2>3. TypeOK'
      BY <2>1, <2>2 DEF TypeOK
    <2>4. map' \subseteq map /\ \A k \in Macs : Linking(k)' \subseteq Linking(k)
      BY <2>1 DEF Linking
    <2>5. BudgetOK'
      BY <1>6, SpendType DEF DeregisterAll, Events
    <2>6. QED
      BY <2>3, <2>4, <2>5, Shrinks
  <1>7. ASSUME NEW l \in Lines, Unconfigure(l)
        PROVE  MapInv' /\ BudgetOK'
    <2>1. TypeOK'
      BY <1>7 DEF Unconfigure, TypeOK, histVars
    <2>2. map' \subseteq map /\ \A k \in Macs : Linking(k)' \subseteq Linking(k)
      BY <1>7 DEF Unconfigure, Linking
    <2>3. BudgetOK'
      BY <1>7, SpendType DEF Unconfigure, Events
    <2>4. QED
      BY <2>1, <2>2, <2>3, Shrinks
  <1>8. ASSUME NEW m \in Macs, IdentifyRequest(m)
        PROVE  MapInv' /\ BudgetOK'
    <2>1. map' \subseteq map /\ \A k \in Macs : Linking(k)' \subseteq Linking(k)
      BY <1>8 DEF IdentifyRequest, Linking
    <2>2. TypeOK'
      BY <1>8, <2>1 DEF IdentifyRequest, TypeOK, histVars
    <2>3. BudgetOK'
      BY <1>8 DEF IdentifyRequest, BudgetOK
    <2>4. QED
      BY <2>1, <2>2, <2>3, Shrinks
  <1>9. ASSUME NEW e \in map, Expire(e)
        PROVE  MapInv' /\ BudgetOK'
    <2>1. map' \subseteq map /\ \A k \in Macs : Linking(k)' \subseteq Linking(k)
      BY <1>9 DEF Expire, Linking
    <2>2. e.id \in Nat /\ e.mac \in Macs
      BY DEF TypeOK, Entry
    <2>3. mixed' \subseteq mixed \cup {e.mac}
      BY <1>9 DEF Expire
    <2>4. TypeOK'
      <3>1. told' \in [Macs -> SUBSET Facts]
        BY <1>9, <2>2, UnknownType DEF Expire, TypeOK
      <3>2. expired' \subseteq Nat /\ mixed' \subseteq Macs /\ map' = map
        BY <1>9, <2>2, <2>3 DEF Expire, TypeOK
      <3>3. UNCHANGED <<allocated, harvest, cisco, boots, last, disputed>>
        BY <1>9 DEF Expire
      <3>4. QED
        BY <3>1, <3>2, <3>3 DEF TypeOK
    <2>5. BudgetOK'
      BY <1>9, SpendType DEF Expire, Events
    <2>6. QED
      BY <2>1, <2>4, <2>5, Shrinks
  <1>10. ASSUME NEW m \in Macs, Reboot(m)
         PROVE  MapInv' /\ BudgetOK'
    <2>1. boots' \in [Macs -> Nat]
      BY <1>10 DEF Reboot, TypeOK
    <2>2. TypeOK'
      BY <1>10, <2>1 DEF Reboot, TypeOK, histVars
    <2>3. map' \subseteq map /\ \A k \in Macs : Linking(k)' \subseteq Linking(k)
      BY <1>10 DEF Reboot, Linking
    <2>4. BudgetOK'
      BY <1>10, SpendType DEF Reboot, Events
    <2>5. QED
      BY <2>2, <2>3, <2>4, Shrinks
  <1>11. CASE UNCHANGED vars
    <2>1. TypeOK'
      BY <1>11 DEF vars, histVars, TypeOK
    <2>2. map' \subseteq map /\ \A k \in Macs : Linking(k)' \subseteq Linking(k)
      BY <1>11 DEF vars, Linking
    <2>3. BudgetOK'
      BY <1>11 DEF vars, BudgetOK
    <2>4. QED
      BY <2>1, <2>2, <2>3, Shrinks
  <1>12. QED
    BY <1>1, <1>2, <1>3, <1>4, <1>5, <1>6, <1>7, <1>8, <1>9, <1>10, <1>11
       DEF Next, HarvestStep

\* The map never holds more entries of one MAC than lines can leave behind.
THEOREM MapInvariant == Spec => []MapInv
  <1>1. MapInv /\ BudgetOK /\ [Next]_vars => (MapInv /\ BudgetOK)'
    BY NextInv
  <1>2. QED
    BY InitInv, <1>1, PTL DEF Spec

\* In particular the duplicates that two threads leave do not add up.
THEOREM DuplicatesStayBounded == Spec => []DuplicatesBounded
  BY MapInvariant, PTL DEF MapInv

-----------------------------------------------------------------------------
(* The entries and harvests of one MAC that no two threads were ever at.    *)

\* A header without facts adds nothing, and to nothing it adds what it has.
LEMMA MergeUnit ==
    ASSUME NEW f \in Facts
    PROVE  Merge(f, Unknown) = f /\ Merge(Unknown, f) = f
  BY DEF Merge, Unknown, Facts

\* Of one thing, one is taken and nothing is left.
LEMMA UnlinkAll ==
    ASSUME NEW m \in Macs, \A e, f \in Of(m) : e = f, map' \in UnlinkOne(m)
    PROVE  Of(m)' = {} /\ \A k \in Macs \ {m} : Of(k)' = Of(k)
  <1>1. CASE Of(m) = {} /\ map' = map
    BY <1>1 DEF Of
  <1>2. CASE \E e \in Of(m) : map' = map \ {e}
    <2>1. PICK e \in Of(m) : map' = map \ {e}
      BY <1>2
    <2>2. Of(m) = {e} /\ e.mac = m
      BY <2>1 DEF Of
    <2>3. QED
      BY <2>1, <2>2 DEF Of
  <1>3. QED
    BY <1>1, <1>2, UnlinkCases

\* Whatever is unlinked for m, the entries of the other MACs stay.
LEMMA UnlinkOthers ==
    ASSUME NEW m \in Macs, map' \in UnlinkOne(m)
    PROVE  map' \subseteq map /\ \A k \in Macs \ {m} : Of(k)' = Of(k)
  BY UnlinkCases DEF Of

\* A MAC that a step leaves alone stays in order.
LEMMA Untouched ==
    ASSUME NEW m \in Macs, Orderly(m), Informed(m),
           Of(m)' = Of(m), last'[m] = last[m], told'[m] = told[m],
           m \in disputed' <=> m \in disputed,
           \A e \in Of(m) \cup last[m] : IsExpired(e)' <=> IsExpired(e),
           \A l \in Lines : \A h :
              h.mac = m => (h \in harvest'[l] <=> h \in harvest[l])
    PROVE  Orderly(m)' /\ Informed(m)'
  <1>1. Busy(m)' = Busy(m) /\ Linking(m)' = Linking(m)
    BY DEF Busy, Linking
  <1>2. Live(m)' = Live(m)
    BY DEF Live
  <1>3. \A r : Adds(m, r)' <=> Adds(m, r)
    BY <1>2 DEF Adds
  <1>4. Orderly(m)'
    BY <1>1 DEF Orderly
  <1>5. Informed(m)'
    BY <1>1, <1>3 DEF Informed
  <1>6. QED
    BY <1>4, <1>5

\* The harvest l is in, when its MAC is in order: it is the only one.
LEMMA OneHarvest ==
    ASSUME TypeOK, NEW l \in Lines, NEW h \in harvest[l], Orderly(h.mac)
    PROVE  /\ \A k \in Lines : \A i \in harvest[k] : i.mac = h.mac => k = l /\ i = h
           /\ Linking(h.mac) = IF h.stage = "unlinked" THEN {l} ELSE {}
           /\ Busy(h.mac) = {l}
  <1>1. \A k \in Busy(h.mac) : k = l
    BY DEF Orderly, Busy
  <1>2. \A k \in Lines : \A i \in harvest[k] : i.mac = h.mac => k = l /\ i = h
    <2>1. ASSUME NEW k \in Lines, NEW i \in harvest[k], i.mac = h.mac
          PROVE  k = l /\ i = h
      <3>1. k = l
        BY <1>1, <2>1 DEF Busy
      <3>2. QED
        BY <2>1, <3>1 DEF TypeOK
    <2>2. QED
      BY <2>1
  <1>3. Linking(h.mac) = IF h.stage = "unlinked" THEN {l} ELSE {}
    BY <1>2 DEF Linking
  <1>4. Busy(h.mac) = {l}
    BY <1>2 DEF Busy
  <1>5. QED
    BY <1>2, <1>3, <1>4

\* The entries of a MAC in order, outside of its link: one, if any.
LEMMA OneEntry ==
    ASSUME EntriesFit, NEW m \in Macs, Orderly(m)
    PROVE  \A e, f \in Of(m) : e = f
  BY DEF Orderly, EntriesFit

\* Entries go, expire, and others come to the harvest.
LEMMA FitShrinks ==
    ASSUME EntriesFit, map' \subseteq map, allocated' = allocated,
           \A m \in Macs : last'[m] \subseteq last[m],
           \A n \in expired' : n \in expired \/ \E e \in map : n = e.id,
           \A l \in Lines : \A h \in harvest'[l] : h.callId[2] = h.mac
    PROVE  EntriesFit'
  <1>1. Seen' \subseteq Seen /\ map \subseteq Seen
    BY DEF Seen
  <1>2. \A n \in expired' : n < allocated
    BY <1>1 DEF EntriesFit
  <1>3. QED
    BY <1>1, <1>2 DEF EntriesFit

\* In order, for every MAC that no two threads were ever at.
AllOrderly == \A m \in Macs \ mixed : Orderly(m) /\ Informed(m)

LEMMA OrderParts == OrderInv <=> MapInv /\ EntriesFit /\ AllOrderly
  BY DEF OrderInv, AllOrderly

\* A deregistration's effect.
LEMMA ForgetOrder ==
    ASSUME TypeOK, EntriesFit, AllOrderly, NEW m \in Macs,
           map' \in Forget(m),
           last' = [last EXCEPT ![m] = {}],
           told' = [told EXCEPT ![m] = {Unknown}],
           mixed' = IF Busy(m) = {} THEN mixed ELSE mixed \cup {m},
           UNCHANGED <<expired, allocated, harvest, disputed>>
    PROVE  EntriesFit' /\ AllOrderly'
  <1>1. /\ last'[m] = {} /\ \A k \in Macs \ {m} : last'[k] = last[k]
        /\ told'[m] = {Unknown} /\ \A k \in Macs \ {m} : told'[k] = told[k]
    BY DEF TypeOK
  <1>2. map' \subseteq map /\ \A k \in Macs \ {m} : Of(k)' = Of(k)
    BY UnlinkOthers DEF Forget
  <1>3. EntriesFit'
    BY <1>1, <1>2, FitShrinks DEF EntriesFit
  <1>4. ASSUME NEW k \in Macs \ mixed', k # m
        PROVE  Orderly(k)' /\ Informed(k)'
    BY <1>1, <1>2, <1>4, Untouched DEF AllOrderly, IsExpired
  <1>5. ASSUME m \notin mixed'
        PROVE  Orderly(m)' /\ Informed(m)'
    <2>1. Busy(m) = {} /\ m \notin mixed
      BY <1>5
    <2>2. Of(m)' = {}
      BY <2>1, OneEntry, UnlinkAll DEF AllOrderly, Forget
    <2>3. Busy(m)' = {} /\ Linking(m)' = {}
      BY <2>1 DEF Busy, Linking
    <2>4. Orderly(m)'
      BY <1>1, <2>2, <2>3 DEF Orderly
    <2>5. Informed(m)'
      BY <1>1, <2>2, <2>3 DEF Informed, Adds, Live, Busy
    <2>6. QED
      BY <2>4, <2>5
  <1>6. QED
    BY <1>3, <1>4, <1>5 DEF AllOrderly

\* What leaves it in dispute whether m is known: its entry goes, or stays.
LEMMA DisputeOrder ==
    ASSUME TypeOK, EntriesFit, AllOrderly, NEW m \in Macs, Dispute(m),
           map' = map \/ map' \in Forget(m),
           UNCHANGED <<expired, allocated, harvest>>
    PROVE  EntriesFit' /\ AllOrderly'
  <1>1. /\ told' = [told EXCEPT ![m] = told[m] \cup {Unknown}]
        /\ mixed' = IF Busy(m) = {} THEN mixed ELSE mixed \cup {m}
        /\ disputed' = disputed \cup {m}
        /\ last' = last
    BY DEF Dispute
  <1>2. /\ told'[m] = told[m] \cup {Unknown}
        /\ \A k \in Macs \ {m} : told'[k] = told[k]
    BY <1>1 DEF TypeOK
  <1>3. map' \subseteq map /\ \A k \in Macs \ {m} : Of(k)' = Of(k)
    BY UnlinkOthers DEF Forget, Of
  <1>4. EntriesFit'
    BY <1>1, <1>3, FitShrinks DEF EntriesFit
  <1>5. ASSUME NEW k \in Macs \ mixed', k # m
        PROVE  Orderly(k)' /\ Informed(k)'
    BY <1>1, <1>2, <1>3, <1>5, Untouched DEF AllOrderly, IsExpired
  <1>6. ASSUME m \notin mixed'
        PROVE  Orderly(m)' /\ Informed(m)'
    <2>1. Busy(m) = {} /\ Orderly(m) /\ Adds(m, Unknown)
      BY <1>1, <1>6 DEF AllOrderly, Informed
    <2>2. Busy(m)' = {} /\ Linking(m) = {} /\ Linking(m)' = {}
      BY <2>1 DEF Busy, Linking
    <2>3. Of(m)' \subseteq Of(m) /\ Live(m)' \subseteq Live(m)
      BY <1>3 DEF Of, Live, IsExpired
    <2>4. Orderly(m)'
      BY <1>1, <2>1, <2>2, <2>3 DEF Orderly
    <2>5. Adds(m, Unknown)'
      BY <1>2, <2>1, <2>3 DEF Adds, Merge, Unknown
    <2>6. Informed(m)'
      BY <2>2, <2>5 DEF Informed, Busy, Unknown
    <2>7. QED
      BY <2>4, <2>6
  <1>7. QED
    BY <1>4, <1>5, <1>6 DEF AllOrderly

\* What leaves the map, the harvests and the history alone.
LEMMA QuietOrder ==
    ASSUME EntriesFit, AllOrderly,
           UNCHANGED <<map, expired, allocated, harvest, histVars>>
    PROVE  EntriesFit' /\ AllOrderly'
  <1>1. EntriesFit'
    BY DEF EntriesFit, Seen, histVars
  <1>2. ASSUME NEW m \in Macs \ mixed
        PROVE  Orderly(m)' /\ Informed(m)'
    BY Untouched DEF AllOrderly, Of, IsExpired, histVars
  <1>3. QED
    BY <1>1, <1>2 DEF AllOrderly, histVars

\* The lookup of a harvest: expired entries may go, and the facts are merged.
LEMMA PrefillOrder ==
    ASSUME TypeOK, EntriesFit, AllOrderly, NEW l \in Lines, NEW h \in harvest[l],
           h.stage = "arrived", NEW f \in Facts,
           harvest' = [harvest EXCEPT ![l] =
                          {[h EXCEPT !.facts = f, !.stage = "prefilled"]}],
           map' \subseteq map,
           \A e \in map \ map' : e.mac = h.mac /\ IsExpired(e),
           h.mac \notin mixed => f \in told[h.mac],
           UNCHANGED <<expired, allocated, last, told, mixed, disputed>>
    PROVE  EntriesFit' /\ AllOrderly'
  <1> DEFINE k == [h EXCEPT !.facts = f, !.stage = "prefilled"]
             m == h.mac
  <1>1. h \in Harvest /\ m \in Macs
    BY HarvestType
  <1>2. /\ k.mac = m /\ k.callId = h.callId
        /\ k.stage = "prefilled" /\ k.facts = f
    BY <1>1 DEF Harvest
  <1>3. harvest' = [harvest EXCEPT ![l] = {k}]
    OBVIOUS
  <1> HIDE DEF k
  <1>4. /\ harvest'[l] = {k} /\ \A x \in Lines \ {l} : harvest'[x] = harvest[x]
        /\ \A n \in Macs : n # m =>
              \A x \in Lines : \A i : i.mac = n => (i \in harvest'[x] <=> i \in harvest[x])
    <2>1. harvest'[l] = {k} /\ \A x \in Lines \ {l} : harvest'[x] = harvest[x]
      BY <1>3 DEF TypeOK
    <2>2. harvest[l] = {h}
      BY HarvestType
    <2>3. QED
      BY <1>2, <2>1, <2>2
  <1>5. \A x \in Lines : \A i \in harvest'[x] : i.callId[2] = i.mac
    <2>1. \A i \in harvest'[l] : i.callId[2] = i.mac
      BY <1>2, <1>4 DEF EntriesFit
    <2>2. \A x \in Lines \ {l} : \A i \in harvest'[x] : i.callId[2] = i.mac
      BY <1>4 DEF EntriesFit
    <2>3. QED
      BY <2>1, <2>2
  <1>6. EntriesFit'
    BY <1>5, FitShrinks
  <1>7. ASSUME NEW n \in Macs \ mixed', n # m
        PROVE  Orderly(n)' /\ Informed(n)'
    <2>1. Of(n)' = Of(n)
      BY <1>7 DEF Of
    <2>2. QED
      BY <1>4, <1>7, <2>1, Untouched DEF AllOrderly, IsExpired
  <1>8. ASSUME m \notin mixed'
        PROVE  Orderly(m)' /\ Informed(m)'
    <2>1. m \notin mixed /\ Orderly(m)
      BY <1>1, <1>8 DEF AllOrderly
    <2>2. /\ \A x \in Lines : \A i \in harvest[x] : i.mac = m => x = l /\ i = h
          /\ Linking(m) = {}
      BY <2>1, OneHarvest
    <2>3. \A x \in Lines : \A i \in harvest'[x] : i.mac = m => x = l /\ i = k
      BY <1>4, <2>2
    <2>4. Busy(m)' = {l} /\ Linking(m)' = {}
      BY <1>2, <1>4, <2>3 DEF Busy, Linking
    <2>5. Of(m)' \subseteq Of(m) /\ \A e \in Of(m) : IsExpired(e) \/ e \in Of(m)'
      BY DEF Of
    <2>6. Orderly(m)'
      BY <2>1, <2>2, <2>4, <2>5 DEF Orderly, IsExpired
    <2>7. Informed(m)'
      BY <1>2, <2>1, <2>3, <2>4 DEF Informed
    <2>8. QED
      BY <2>6, <2>7
  <1>9. QED
    BY <1>6, <1>7, <1>8 DEF AllOrderly

\* A harvest that looks for the facts finds what was told before it came.
LEMMA LookupOrder ==
    ASSUME TypeOK, EntriesFit, AllOrderly, NEW l \in Lines, LookupFacts(l)
    PROVE  EntriesFit' /\ AllOrderly'
  <1>1. PICK h \in harvest[l] :
            /\ h.stage = "arrived"
            /\ \/ /\ Of(h.mac) = {}
                  /\ harvest' = [harvest EXCEPT ![l] =
                                    {[h EXCEPT !.facts = h.reason, !.stage = "prefilled"]}]
                  /\ UNCHANGED map
               \/ \E found \in Of(h.mac) :
                     /\ harvest' = [harvest EXCEPT ![l] =
                           {[h EXCEPT !.facts = Merge(Prefill(found), h.reason),
                                      !.stage = "prefilled"]}]
                     /\ map' = IF IsExpired(found) THEN map \ {found} ELSE map
            /\ UNCHANGED <<expired, allocated, last, told, mixed, disputed>>
    BY DEF LookupFacts, histVars
  <1>2. h.mac \in Macs /\ h.reason \in Facts
    BY HarvestType
  <1>3. ASSUME h.mac \notin mixed
        PROVE  Orderly(h.mac) /\ Adds(h.mac, h.reason)
    BY <1>1, <1>2, <1>3 DEF AllOrderly, Informed
  <1>4. CASE /\ Of(h.mac) = {}
             /\ harvest' = [harvest EXCEPT ![l] =
                               {[h EXCEPT !.facts = h.reason, !.stage = "prefilled"]}]
             /\ UNCHANGED map
    <2>1. h.mac \notin mixed => h.reason \in told[h.mac]
      BY <1>3, <1>4 DEF Adds, Live
    <2>2. map' \subseteq map /\ map \ map' = {}
      BY <1>4
    <2>3. QED
      BY <1>1, <1>2, <1>4, <2>1, <2>2, PrefillOrder
  <1>5. ASSUME NEW found \in Of(h.mac),
               harvest' = [harvest EXCEPT ![l] =
                     {[h EXCEPT !.facts = Merge(Prefill(found), h.reason),
                                !.stage = "prefilled"]}],
               map' = IF IsExpired(found) THEN map \ {found} ELSE map
        PROVE  EntriesFit' /\ AllOrderly'
    <2> DEFINE f == Merge(Prefill(found), h.reason)
    <2>1. found \in map /\ found.mac = h.mac /\ found.facts \in Facts
      BY DEF Of, TypeOK, Entry
    <2>2. f \in Facts
      BY <1>2, <2>1, UnknownType, MergeType DEF Prefill
    <2>3. h.mac \notin mixed => f \in told[h.mac]
      <3>1. SUFFICES ASSUME h.mac \notin mixed PROVE f \in told[h.mac]
        OBVIOUS
      <3>2. \A e \in Of(h.mac) : e = found
        BY <1>2, <1>3, <3>1, OneEntry
      <3>3. CASE IsExpired(found)
        <4>1. Live(h.mac) = {}
          BY <3>2, <3>3 DEF Live
        <4>2. f = h.reason
          BY <1>2, <3>3, MergeUnit DEF Prefill
        <4>3. QED
          BY <1>3, <3>1, <4>1, <4>2 DEF Adds
      <3>4. CASE ~IsExpired(found)
        BY <1>3, <3>1, <3>4 DEF Adds, Live, Prefill
      <3>5. QED
        BY <3>3, <3>4
    <2>4. map' \subseteq map /\ \A e \in map \ map' : e.mac = h.mac /\ IsExpired(e)
      BY <1>5, <2>1
    <2>5. harvest' = [harvest EXCEPT ![l] =
                         {[h EXCEPT !.facts = f, !.stage = "prefilled"]}]
      BY <1>5
    <2> HIDE DEF f
    <2>6. QED
      BY <1>1, <2>2, <2>3, <2>4, <2>5, PrefillOrder
  <1>6. QED
    BY <1>1, <1>4, <1>5

\* The unlink of a register leaves nothing, and one harvest that has to link.
LEMMA UnlinkOrder ==
    ASSUME TypeOK, EntriesFit, AllOrderly, NEW l \in Lines, RegisterUnlink(l)
    PROVE  EntriesFit' /\ AllOrderly'
  <1>1. PICK h \in harvest[l] :
            /\ h.stage = "prefilled"
            /\ map' \in UnlinkOne(h.mac)
            /\ harvest' = [harvest EXCEPT ![l] = {[h EXCEPT !.stage = "unlinked"]}]
            /\ UNCHANGED <<expired, allocated, last, told, mixed, disputed>>
    BY DEF RegisterUnlink, histVars
  <1> DEFINE k == [h EXCEPT !.stage = "unlinked"]
             m == h.mac
  <1>2. h \in Harvest /\ m \in Macs
    BY HarvestType
  <1>3. /\ k.mac = m /\ k.callId = h.callId
        /\ k.stage = "unlinked" /\ k.facts = h.facts
    BY <1>2 DEF Harvest
  <1>4. harvest' = [harvest EXCEPT ![l] = {k}]
    BY <1>1
  <1> HIDE DEF k
  <1>5. /\ harvest'[l] = {k} /\ \A x \in Lines \ {l} : harvest'[x] = harvest[x]
        /\ harvest[l] = {h}
    BY <1>4, HarvestType DEF TypeOK
  <1>6. map' \subseteq map /\ \A n \in Macs \ {m} : Of(n)' = Of(n)
    BY <1>1, <1>2, UnlinkOthers
  <1>7. EntriesFit'
    <2>1. \A i \in harvest'[l] : i.callId[2] = i.mac
      BY <1>3, <1>5 DEF EntriesFit
    <2>2. \A x \in Lines \ {l} : \A i \in harvest'[x] : i.callId[2] = i.mac
      BY <1>5 DEF EntriesFit
    <2>3. \A x \in Lines : \A i \in harvest'[x] : i.callId[2] = i.mac
      BY <2>1, <2>2
    <2>4. QED
      BY <1>1, <1>6, <2>3, FitShrinks
  <1>8. ASSUME NEW n \in Macs \ mixed', n # m
        PROVE  Orderly(n)' /\ Informed(n)'
    <2>1. \A x \in Lines : \A i : i.mac = n => (i \in harvest'[x] <=> i \in harvest[x])
      BY <1>3, <1>5, <1>8
    <2>2. QED
      BY <1>1, <1>6, <1>8, <2>1, Untouched DEF AllOrderly, IsExpired
  <1>9. ASSUME m \notin mixed'
        PROVE  Orderly(m)' /\ Informed(m)'
    <2>1. Orderly(m) /\ Informed(m)
      BY <1>1, <1>2, <1>9 DEF AllOrderly
    <2>2. /\ \A x \in Lines : \A i \in harvest[x] : i.mac = m => x = l /\ i = h
          /\ h.facts \in told[m]
      BY <1>1, <2>1, OneHarvest DEF Informed
    <2>3. \A x \in Lines : \A i \in harvest'[x] : i.mac = m => x = l /\ i = k
      BY <1>5, <2>2
    <2>4. Busy(m)' = {l} /\ Linking(m)' = {l}
      BY <1>3, <1>5, <2>3 DEF Busy, Linking
    <2>5. Of(m)' = {}
      BY <1>1, <1>2, <2>1, OneEntry, UnlinkAll
    <2>6. Orderly(m)'
      BY <2>4, <2>5 DEF Orderly
    <2>7. Informed(m)'
      BY <1>1, <1>3, <2>2, <2>3, <2>4 DEF Informed
    <2>8. QED
      BY <2>6, <2>7
  <1>10. QED
    BY <1>7, <1>8, <1>9 DEF AllOrderly

\* The link makes its entry the only one, with the facts that were told.
LEMMA LinkOrder ==
    ASSUME TypeOK, EntriesFit, AllOrderly, NEW l \in Lines, RegisterLink(l)
    PROVE  EntriesFit' /\ AllOrderly'
  <1>1. PICK h \in harvest[l] :
            /\ h.stage = "unlinked"
            /\ map' = map \cup {NewEntry(l, h)}
            /\ allocated' = allocated + 1
            /\ harvest' = [harvest EXCEPT ![l] = {}]
            /\ last' = [last EXCEPT ![h.mac] = {NewEntry(l, h)}]
            /\ disputed' = disputed \ {h.mac}
            /\ UNCHANGED <<expired, told, mixed>>
    BY DEF RegisterLink
  <1> DEFINE m == h.mac
  <1>0. PICK e : e = NewEntry(l, h)
    OBVIOUS
  <1>2. h \in Harvest /\ m \in Macs /\ h.facts \in Facts
    BY HarvestType
  <1>3. /\ e.id = allocated /\ e.mac = m
        /\ e.callId = h.callId /\ e.facts = h.facts
    BY <1>0 DEF NewEntry
  <1>4. map' = map \cup {e} /\ last' = [last EXCEPT ![m] = {e}]
    BY <1>0, <1>1
  <1>5. /\ harvest'[l] = {} /\ \A x \in Lines \ {l} : harvest'[x] = harvest[x]
        /\ last'[m] = {e} /\ \A n \in Macs \ {m} : last'[n] = last[n]
        /\ harvest[l] = {h}
    BY SMTT(30), <1>1, <1>2, <1>4, HarvestType DEF TypeOK
  <1>6. EntriesFit'
    <2>1. Seen' \subseteq Seen \cup {e}
      BY <1>4, <1>5 DEF Seen
    <2>2. allocated \in Nat /\ \A n \in expired : n \in Nat /\ n < allocated
      BY DEF TypeOK, EntriesFit
    <2>3. \A f \in Seen : f.id \in Nat
      <3>1. Seen \subseteq Entry
        BY DEF Seen, TypeOK
      <3>2. QED
        BY <3>1 DEF Entry
    <2>4. \A n \in expired' : n < allocated'
      BY <1>1, <2>2
    <2>5. \A f \in Seen' : f.id < allocated' /\ f.callId[2] = f.mac
      <3>1. \A f \in Seen : f.id < allocated + 1 /\ f.callId[2] = f.mac
        BY <2>2, <2>3 DEF EntriesFit
      <3>2. e.id < allocated + 1 /\ e.callId[2] = e.mac
        BY <1>3, <2>2 DEF EntriesFit
      <3>3. QED
        BY <1>1, <2>1, <3>1, <3>2
    <2>6. \A f, g \in Seen' : f.id = g.id => f = g
      <3>1. \A f \in Seen : f.id # e.id
        BY <1>3, <2>2, <2>3 DEF EntriesFit
      <3>2. QED
        BY <2>1, <3>1 DEF EntriesFit
    <2>7. \A n \in Macs : \A f, g \in last'[n] : f.mac = n /\ f = g
      BY <1>3, <1>5 DEF EntriesFit
    <2>8. \A x \in Lines : \A i \in harvest'[x] : i.callId[2] = i.mac
      BY <1>5 DEF EntriesFit
    <2>9. QED
      BY <2>4, <2>5, <2>6, <2>7, <2>8 DEF EntriesFit
  <1>7. ASSUME NEW n \in Macs \ mixed', n # m
        PROVE  Orderly(n)' /\ Informed(n)'
    <2>1. \A x \in Lines : \A i : i.mac = n => (i \in harvest'[x] <=> i \in harvest[x])
      BY <1>5, <1>7
    <2>2. Of(n)' = Of(n)
      BY <1>3, <1>4, <1>7 DEF Of
    <2>3. QED
      BY <1>1, <1>5, <1>7, <2>1, <2>2, Untouched DEF AllOrderly, IsExpired
  <1>8. ASSUME m \notin mixed'
        PROVE  Orderly(m)' /\ Informed(m)'
    <2>1. Orderly(m) /\ Informed(m)
      BY <1>1, <1>2, <1>8 DEF AllOrderly
    <2>2. /\ \A x \in Lines : \A i \in harvest[x] : i.mac = m => x = l /\ i = h
          /\ Linking(m) = {l} /\ h.facts \in told[m]
      BY <1>1, <2>1, OneHarvest DEF Informed
    <2>3. \A x \in Lines : \A i \in harvest'[x] : i.mac # m
      BY <1>5, <2>2
    <2>4. Busy(m)' = {} /\ Linking(m)' = {}
      BY <2>3 DEF Busy, Linking
    <2>5. Of(m)' = {e}
      BY <1>3, <1>4, <2>1, <2>2 DEF Of, Orderly
    <2>6. ~IsExpired(e)'
      BY <1>1, <1>3 DEF IsExpired, EntriesFit, TypeOK
    <2>7. Orderly(m)'
      BY <1>5, <2>4, <2>5 DEF Orderly
    <2>8. Live(m)' = {e}
      BY <2>5, <2>6 DEF Live
    <2>9. Merge(e.facts, Unknown) \in told'[m]
      BY <1>1, <1>2, <1>3, <2>2, MergeUnit
    <2>10. Adds(m, Unknown)'
      BY <2>8, <2>9 DEF Adds, Merge, Unknown
    <2>11. Informed(m)'
      BY <2>3, <2>10 DEF Informed, Unknown
    <2>12. QED
      BY <2>7, <2>11
  <1>9. QED
    BY <1>6, <1>7, <1>8 DEF AllOrderly

\* A REGISTER tells its facts before its harvest merges them.
LEMMA RegisterOrder ==
    ASSUME TypeOK, EntriesFit, AllOrderly, BudgetOK,
           NEW l \in Lines, NEW m \in Macs, NEW h \in Hosts,
           NEW fields \in SUBSET Fields, Register(l, m, h, fields)
    PROVE  EntriesFit' /\ AllOrderly'
  <1>1. PICK reason : reason = [f \in Fields |-> IF f \in fields THEN budget["refresh"] ELSE 0]
    OBVIOUS
  <1>2. PICK k : k = [mac |-> m, host |-> h, callId |-> CallId(l, m),
                      reason |-> reason, facts |-> Unknown, stage |-> "arrived"]
    OBVIOUS
  <1>3. reason \in Facts
    BY <1>1 DEF BudgetOK, Events, Facts
  <1>4. /\ harvest' = [harvest EXCEPT ![l] = {k}]
        /\ told' = [told EXCEPT ![m] = {Merge(t, reason) : t \in told[m]}]
        /\ mixed' = IF Busy(m) = {} THEN mixed ELSE mixed \cup {m}
        /\ UNCHANGED <<map, expired, allocated, last, disputed>>
        /\ harvest[l] = {}
    BY <1>1, <1>2 DEF Register
  <1>5. /\ k.mac = m /\ k.stage = "arrived" /\ k.reason = reason
        /\ k.callId[2] = m
    BY <1>2 DEF CallId
  <1>6. /\ harvest'[l] = {k} /\ \A x \in Lines \ {l} : harvest'[x] = harvest[x]
        /\ told'[m] = {Merge(t, reason) : t \in told[m]}
        /\ \A n \in Macs \ {m} : told'[n] = told[n]
    BY <1>4 DEF TypeOK
  <1>7. EntriesFit'
    <2>1. \A x \in Lines : \A i \in harvest'[x] : i.callId[2] = i.mac
      BY <1>5, <1>6 DEF EntriesFit
    <2>2. QED
      BY <1>4, <2>1, FitShrinks
  <1>8. ASSUME NEW n \in Macs \ mixed', n # m
        PROVE  Orderly(n)' /\ Informed(n)'
    <2>1. \A x \in Lines : \A i : i.mac = n => (i \in harvest'[x] <=> i \in harvest[x])
      BY <1>4, <1>5, <1>6, <1>8
    <2>2. Of(n)' = Of(n) /\ n \in Macs \ mixed
      BY <1>4, <1>8 DEF Of
    <2>3. QED
      BY <1>4, <1>6, <1>8, <2>1, <2>2, Untouched DEF AllOrderly, IsExpired
  <1>9. ASSUME m \notin mixed'
        PROVE  Orderly(m)' /\ Informed(m)'
    <2>1. Busy(m) = {} /\ m \notin mixed /\ Orderly(m) /\ Informed(m)
      BY <1>4, <1>9 DEF AllOrderly
    <2>2. \A x \in Lines : \A i \in harvest'[x] : i.mac = m => x = l /\ i = k
      BY <1>6, <2>1 DEF Busy
    <2>3. Linking(m) = {} /\ Linking(m)' = {} /\ Busy(m)' = {l}
      BY <1>5, <1>6, <2>1, <2>2 DEF Busy, Linking
    <2>4. Of(m)' = Of(m) /\ Live(m)' = Live(m)
      BY <1>4 DEF Of, Live, IsExpired
    <2>5. Orderly(m)'
      BY <1>4, <2>1, <2>3, <2>4 DEF Orderly, IsExpired
    <2>6. Adds(m, Unknown)
      BY <2>1 DEF Informed
    <2>7. \A e \in Live(m) : Merge(e.facts, reason) \in told'[m]
      <3>1. ASSUME NEW e \in Live(m)
            PROVE  Merge(e.facts, reason) \in told'[m]
        <4>1. e.facts \in Facts
          BY DEF Live, Of, TypeOK, Entry
        <4>2. e.facts \in told[m]
          BY <2>6, <4>1, MergeUnit DEF Adds
        <4>3. QED
          BY <1>6, <4>2
      <3>2. QED
        BY <3>1
    <2>8. Live(m) = {} => reason \in told'[m]
      <3>1. SUFFICES ASSUME Live(m) = {} PROVE reason \in told'[m]
        OBVIOUS
      <3>2. Unknown \in told[m] /\ Merge(Unknown, reason) = reason
        BY <1>3, <2>6, <3>1, MergeUnit DEF Adds
      <3>3. QED
        BY <1>6, <3>2
    <2>9. Adds(m, reason)'
      BY <2>4, <2>7, <2>8 DEF Adds, Merge
    <2>10. Informed(m)'
      BY <1>5, <2>2, <2>3, <2>9 DEF Informed
    <2>11. QED
      BY <2>5, <2>10
  <1>10. QED
    BY <1>7, <1>8, <1>9 DEF AllOrderly

\* An entry's time is up: what it told is forgotten, and no other entry is.
LEMMA ExpireOrder ==
    ASSUME TypeOK, EntriesFit, AllOrderly, NEW e \in map, Expire(e)
    PROVE  EntriesFit' /\ AllOrderly'
  <1> DEFINE m == e.mac
  <1>1. /\ expired' = expired \cup {e.id}
        /\ told' = [told EXCEPT ![m] = {Unknown}]
        /\ mixed' = IF Busy(m) = {} THEN mixed ELSE mixed \cup {m}
        /\ UNCHANGED <<map, allocated, harvest, last, disputed>>
    BY DEF Expire
  <1>2. m \in Macs /\ e \in Of(m)
    BY DEF TypeOK, Entry, Of
  <1>3. told'[m] = {Unknown} /\ \A n \in Macs \ {m} : told'[n] = told[n]
    BY <1>1, <1>2 DEF TypeOK
  <1>4. EntriesFit'
    <2>1. \A n \in expired' : n \in expired \/ \E x \in map : n = x.id
      BY <1>1
    <2>2. \A x \in Lines : \A i \in harvest'[x] : i.callId[2] = i.mac
      BY <1>1 DEF EntriesFit
    <2>3. QED
      BY <1>1, <2>1, <2>2, FitShrinks
  <1>5. ASSUME NEW n \in Macs \ mixed', n # m
        PROVE  Orderly(n)' /\ Informed(n)'
    <2>1. \A x \in Of(n) \cup last[n] : x \in Seen /\ x.mac = n
      BY DEF Seen, Of, EntriesFit
    <2>2. \A x \in Of(n) \cup last[n] : x.id # e.id
      BY <1>5, <2>1 DEF EntriesFit, Seen
    <2>3. \A x \in Of(n) \cup last[n] : IsExpired(x)' <=> IsExpired(x)
      BY <1>1, <2>2 DEF IsExpired
    <2>4. Of(n)' = Of(n) /\ n \in Macs \ mixed
      BY <1>1, <1>5 DEF Of
    <2>5. QED
      BY <1>1, <1>3, <1>5, <2>3, <2>4, Untouched DEF AllOrderly
  <1>6. ASSUME m \notin mixed'
        PROVE  Orderly(m)' /\ Informed(m)'
    <2>1. Busy(m) = {} /\ Orderly(m)
      BY <1>1, <1>2, <1>6 DEF AllOrderly
    <2>2. Busy(m)' = {} /\ Linking(m) = {} /\ Linking(m)' = {} /\ Of(m)' = Of(m)
      BY <1>1, <2>1 DEF Busy, Linking, Of
    <2>3. Orderly(m)'
      BY <1>1, <2>1, <2>2 DEF Orderly, IsExpired
    <2>4. Live(m)' = {}
      BY <1>1, <1>2, <2>1, <2>2, OneEntry DEF Live, IsExpired
    <2>5. Informed(m)'
      BY <1>3, <2>2, <2>4 DEF Informed, Adds, Busy
    <2>6. QED
      BY <2>3, <2>5
  <1>7. QED
    BY <1>4, <1>5, <1>6 DEF AllOrderly

\* A request of the device unlinks what nobody counts any more.
LEMMA IdentifyOrder ==
    ASSUME TypeOK, EntriesFit, AllOrderly, NEW m \in Macs, IdentifyRequest(m)
    PROVE  EntriesFit' /\ AllOrderly'
  <1>1. PICK e \in Of(m) :
            /\ IsExpired(e)
            /\ map' = map \ {e}
            /\ UNCHANGED <<expired, allocated, harvest, last, told, mixed, disputed>>
    BY DEF IdentifyRequest, histVars
  <1>2. EntriesFit'
    <2>1. \A x \in Lines : \A i \in harvest'[x] : i.callId[2] = i.mac
      BY <1>1 DEF EntriesFit
    <2>2. QED
      BY <1>1, <2>1, FitShrinks
  <1>3. ASSUME NEW n \in Macs \ mixed'
        PROVE  Orderly(n)' /\ Informed(n)'
    <2>1. Orderly(n) /\ Informed(n)
      BY <1>1, <1>3 DEF AllOrderly
    <2>2. Of(n)' \subseteq Of(n) /\ \A x \in Of(n) : IsExpired(x) \/ x \in Of(n)'
      BY <1>1 DEF Of
    <2>3. Busy(n)' = Busy(n) /\ Linking(n)' = Linking(n)
      BY <1>1 DEF Busy, Linking
    <2>4. Live(n)' = Live(n)
      BY <1>1, <2>2 DEF Live, IsExpired
    <2>5. Orderly(n)'
      BY <1>1, <2>1, <2>2, <2>3 DEF Orderly, IsExpired
    <2>6. \A r : Adds(n, r)' <=> Adds(n, r)
      BY <1>1, <2>4 DEF Adds
    <2>7. Informed(n)'
      BY <1>1, <2>1, <2>3, <2>6 DEF Informed
    <2>8. QED
      BY <2>5, <2>7
  <1>4. QED
    BY <1>2, <1>3 DEF AllOrderly

LEMMA InitOrder == Init => OrderInv
  <1> SUFFICES ASSUME Init PROVE OrderInv
    OBVIOUS
  <1>1. MapInv
    BY InitInv
  <1>2. Seen = {}
    BY DEF Init, Seen
  <1>3. EntriesFit
    BY <1>2 DEF Init, EntriesFit
  <1>4. ASSUME NEW m \in Macs
        PROVE  Orderly(m) /\ Informed(m)
    <2>1. /\ Busy(m) = {} /\ Linking(m) = {} /\ Of(m) = {} /\ Live(m) = {}
          /\ last[m] = {} /\ told[m] = {Unknown}
      BY DEF Init, Busy, Linking, Of, Live
    <2>2. QED
      BY <2>1 DEF Orderly, Informed, Adds, Busy
  <1>5. QED
    BY <1>1, <1>3, <1>4 DEF OrderInv

LEMMA NextOrder == OrderInv /\ BudgetOK /\ [Next]_vars => OrderInv' /\ BudgetOK'
  <1> SUFFICES ASSUME OrderInv, BudgetOK, [Next]_vars
               PROVE  OrderInv' /\ BudgetOK'
    OBVIOUS
  <1>0. MapInv /\ TypeOK /\ EntriesFit /\ AllOrderly
    BY OrderParts DEF MapInv
  <1>1. MapInv' /\ BudgetOK'
    BY <1>0, NextInv
  <1>2. EntriesFit' /\ AllOrderly'
    <2>1. ASSUME NEW l \in Lines, HarvestStep(l)
          PROVE  EntriesFit' /\ AllOrderly'
      BY <1>0, <2>1, LookupOrder, UnlinkOrder, LinkOrder DEF HarvestStep
    <2>2. ASSUME NEW l \in Lines, NEW m \in Macs, NEW h \in Hosts,
                 NEW fields \in SUBSET Fields, Register(l, m, h, fields)
          PROVE  EntriesFit' /\ AllOrderly'
      BY <1>0, <2>2, RegisterOrder
    <2>3. ASSUME NEW l \in Lines, NEW m \in Macs, Deregister(l, m)
          PROVE  EntriesFit' /\ AllOrderly'
      <3>1. /\ map' \in Forget(m)
            /\ last' = [last EXCEPT ![m] = {}]
            /\ told' = [told EXCEPT ![m] = {Unknown}]
            /\ mixed' = IF Busy(m) = {} THEN mixed ELSE mixed \cup {m}
            /\ UNCHANGED <<expired, allocated, harvest, disputed>>
        BY <2>3 DEF Deregister
      <3>2. QED
        BY <1>0, <3>1, ForgetOrder
    <2>4. ASSUME NEW m \in Macs, IdentifyRequest(m)
          PROVE  EntriesFit' /\ AllOrderly'
      BY <1>0, <2>4, IdentifyOrder
    <2>5. ASSUME NEW e \in map, Expire(e)
          PROVE  EntriesFit' /\ AllOrderly'
      BY <1>0, <2>5, ExpireOrder
    <2>6. ASSUME NEW l \in Lines, NEW m \in Macs, DeregisterAll(l, m)
          PROVE  EntriesFit' /\ AllOrderly'
      BY <1>0, <2>6, DisputeOrder DEF DeregisterAll
    <2>7. CASE \/ \E l \in Lines : Unconfigure(l)
               \/ \E m \in Macs : Reboot(m)
               \/ UNCHANGED vars
      <3>1. UNCHANGED <<map, expired, allocated, harvest, histVars>>
        BY <2>7 DEF Unconfigure, Reboot, vars
      <3>2. QED
        BY <1>0, <3>1, QuietOrder
    <2>8. QED
      BY <2>1, <2>2, <2>3, <2>4, <2>5, <2>6, <2>7 DEF Next
  <1>3. QED
    <2>1. OrderInv'
      BY <1>1, <1>2 DEF OrderInv, AllOrderly
    <2>2. QED
      BY <1>1, <2>1

\* A harvest of a MAC that was never in two threads at once keeps the map in
\* order: the entries, the harvest on its way and what was told agree.
THEOREM OrderInvariant == Spec => []OrderInv
  <1>1. OrderInv /\ BudgetOK /\ [Next]_vars => (OrderInv /\ BudgetOK)'
    BY NextOrder
  <1>2. Init => OrderInv /\ BudgetOK
    BY InitInv, InitOrder
  <1>3. QED
    BY <1>1, <1>2, PTL DEF Spec

LEMMA OrderIsKnown == OrderInv => KnownAsRegistered
  <1> SUFFICES ASSUME OrderInv, NEW m \in Macs, NEW h \in Hosts, m \notin mixed, Busy(m) = {}
               PROVE  \/ Identify(m, h) = {e.line : e \in {x \in last[m] :
                                    ~IsExpired(x) /\ x.host = h /\ x.line \in cisco}}
                      \/ m \in disputed /\ Identify(m, h) = {}
    BY DEF KnownAsRegistered
  <1>1. Linking(m) = {} /\ Orderly(m) /\ EntriesFit
    BY DEF Busy, Linking, OrderInv
  <1>2. CASE \A e \in last[m] : IsExpired(e) \/ e \in Of(m)
    <2>1. {x \in Of(m) : ~IsExpired(x) /\ FromHost(x, h) /\ x.line \in cisco}
            = {x \in last[m] : ~IsExpired(x) /\ x.host = h /\ x.line \in cisco}
      BY <1>1, <1>2 DEF Orderly, FromHost
    <2>2. QED
      BY <2>1 DEF Identify
  <1>3. CASE \E e \in last[m] : ~IsExpired(e) /\ e \notin Of(m)
    <2>1. m \in disputed
      BY <1>1, <1>3 DEF Orderly
    <2>2. Of(m) = {}
      BY <1>1, <1>3 DEF Orderly, EntriesFit
    <2>3. QED
      BY <2>1, <2>2 DEF Identify
  <1>4. QED
    BY <1>2, <1>3

LEMMA OrderKeepsFacts == OrderInv => FactsKept
  <1> SUFFICES ASSUME OrderInv, NEW m \in Macs, m \notin mixed, Busy(m) = {},
                      NEW e \in Of(m), ~IsExpired(e)
               PROVE  e.facts \in told[m]
    BY DEF FactsKept
  <1>1. Adds(m, Unknown)
    BY DEF OrderInv, Informed
  <1>2. Merge(e.facts, Unknown) \in told[m]
    BY <1>1 DEF Adds, Live
  <1>3. e.facts \in Facts
    BY DEF OrderInv, MapInv, TypeOK, Of, Entry
  <1>4. QED
    BY <1>2, <1>3, MergeUnit

\* A device is known as the line it registered last, from where it did, or,
\* where the code and its comments differ, not at all.
THEOREM KnownAsItRegistered == Spec => []KnownAsRegistered
  BY OrderInvariant, OrderIsKnown, PTL

\* The facts a device told outlive the REGISTERs that do not repeat them.
THEOREM FactsAreKept == Spec => []FactsKept
  BY OrderInvariant, OrderKeepsFacts, PTL

=============================================================================
