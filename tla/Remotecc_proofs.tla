--------------------------- MODULE Remotecc_proofs ---------------------------
(***************************************************************************)
(* ParkInv is an invariant of Park, and RemoteccInv one of Remotecc, for any
   number of softkeys, any remotes and budgets; their safety properties follow.

   The heart of it is StoryFits: the events of one stay in the lot are in order
   wherever the news of them have got to, in the line of what was and will be
   sent, in the callback, or in the subscription's inbox.                     *)
(***************************************************************************)
EXTENDS Remotecc, TLAPS

-----------------------------------------------------------------------------
(* Feedback, and the line of what the phone was told and will be told.      *)

LEMMA FeedbackIs ==
    \A f \in Feedback : /\ IsFeedback(f) /\ f.req \in Requests
                        /\ f.event \in LotEvents /\ f.version \in Nat
  BY DEF Feedback, IsFeedback

LEMMA OtherIsNot == \A t \in OtherTasks : ~IsFeedback(t)
  BY OtherTasksAreOther

LEMMA InboxType ==
    ASSUME TypeOK
    PROVE  \A q \in Requests : \A i \in 1..Len(inbox[q]) : inbox[q][i].parkee \in Remotes
  <1>1. ASSUME NEW q \in Requests, NEW i \in 1..Len(inbox[q])
        PROVE  inbox[q][i].parkee \in Remotes
    <2>1. inbox[q] \in Seq([parkee : Remotes, event : LotEvents \cup {"swap"}])
      BY DEF TypeOK
    <2>2. PICK S : S = [parkee : Remotes, event : LotEvents \cup {"swap"}]
      OBVIOUS
    <2>3. PICK s : s = inbox[q]
      OBVIOUS
    <2>4. s \in Seq(S) /\ i \in 1..Len(s)
      BY <2>1, <2>2, <2>3
    <2>5. s[i] \in S
      BY <2>4
    <2>6. QED
      BY <2>2, <2>3, <2>5
  <1>2. QED
    BY <1>1

LEMMA VersionType ==
    ASSUME TypeOK, NEW q \in Requests
    PROVE  NextVersion(q) \in Nat /\ version[q] \in Nat
  BY DEF TypeOK, NextVersion

LEMMA FeedbackOfIs ==
    ASSUME TypeOK, NEW q \in Requests, NEW e \in LotEvents, NEW v \in Nat
    PROVE  [req |-> q, event |-> e, version |-> v] \in Feedback
  BY DEF Feedback

LEMMA LineIs ==
    ASSUME TypeOK
    PROVE  /\ Line \in Seq(Feedback \cup OtherTasks)
           /\ Len(Line) = Len(sent) + Len(sendQueue)
           /\ Len(sent) \in Nat /\ Len(sendQueue) \in Nat
           /\ \A i \in 1..Len(sent) : Line[i] = sent[i]
           /\ \A i \in 1..Len(sendQueue) : Line[Len(sent) + i] = sendQueue[i]
  <1>1. sent \in Seq(Feedback \cup OtherTasks) /\ sendQueue \in Seq(Feedback \cup OtherTasks)
    BY DEF TypeOK
  <1>2. QED
    BY <1>1 DEF Line

LEMMA LineEntries ==
    ASSUME TypeOK, NEW q \in Requests, NEW i \in Lines(q)
    PROVE  Line[i] \in Feedback /\ i \in 1..Len(Line) /\ Line[i].req = q
  <1>1. i \in 1..Len(Line) /\ IsFeedback(Line[i]) /\ Line[i].req = q
    BY DEF Lines
  <1>2. Line[i] \in Feedback \cup OtherTasks
    BY <1>1, LineIs
  <1>3. QED
    BY <1>1, <1>2, OtherIsNot

\* Something is queued.
LEMMA LineGrows ==
    ASSUME TypeOK, NEW t \in Feedback \cup OtherTasks,
           sendQueue' = Append(sendQueue, t), sent' = sent
    PROVE  /\ Len(Line) \in Nat /\ Len(Line') = Len(Line) + 1
           /\ Line'[Len(Line) + 1] = t
           /\ \A i \in 1..Len(Line) : Line'[i] = Line[i]
           /\ sendQueue' \in Seq(Feedback \cup OtherTasks)
           /\ \A q \in Requests :
                 Lines(q)' = IF IsFeedback(t) /\ t.req = q THEN Lines(q) \cup {Len(Line) + 1}
                             ELSE Lines(q)
  <1>1. sent \in Seq(Feedback \cup OtherTasks) /\ sendQueue \in Seq(Feedback \cup OtherTasks)
    BY DEF TypeOK
  <1>2. Line' = Append(Line, t) /\ Line \in Seq(Feedback \cup OtherTasks)
    BY <1>1 DEF Line
  <1>3. /\ Len(Line) \in Nat /\ Len(Line') = Len(Line) + 1
        /\ Line'[Len(Line) + 1] = t
        /\ \A i \in 1..Len(Line) : Line'[i] = Line[i]
    BY <1>2
  <1>4. ASSUME NEW q \in Requests
        PROVE  Lines(q)' = IF IsFeedback(t) /\ t.req = q THEN Lines(q) \cup {Len(Line) + 1}
                           ELSE Lines(q)
    <2>1. Lines(q)' = {i \in 1..Len(Line') : IsFeedback(Line'[i]) /\ Line'[i].req = q}
      BY DEF Lines, IsFeedback
    <2>2. 1..Len(Line') = 1..Len(Line) \cup {Len(Line) + 1}
      BY <1>3
    <2>3. QED
      BY <1>3, <2>1, <2>2 DEF Lines
  <1>5. QED
    BY <1>1, <1>3, <1>4

\* Feedback is sent: the line does not move.
LEMMA LineStays ==
    ASSUME TypeOK, sendQueue # <<>>, Head(sendQueue) \in Feedback,
           sent' = Append(sent, Head(sendQueue)), sendQueue' = Tail(sendQueue)
    PROVE  /\ Line' = Line /\ sent' \in Seq(Feedback)
           /\ sendQueue' \in Seq(Feedback \cup OtherTasks)
  <1>1. sent \in Seq(Feedback \cup OtherTasks) /\ sendQueue \in Seq(Feedback \cup OtherTasks)
    BY DEF TypeOK
  <1>2. sent' \in Seq(Feedback) /\ sendQueue' \in Seq(Feedback \cup OtherTasks)
    BY <1>1 DEF TypeOK
  <1>3. Append(sent, Head(sendQueue)) \o Tail(sendQueue) = sent \o sendQueue
    BY <1>1
  <1>4. QED
    BY <1>2, <1>3 DEF Line

\* Something else than feedback has run: what is behind it moves up.
LEMMA LineShrinks ==
    ASSUME TypeOK, sendQueue # <<>>, ~IsFeedback(Head(sendQueue)),
           sent' = sent, sendQueue' = Tail(sendQueue), NEW q \in Requests
    PROVE  /\ sendQueue' \in Seq(Feedback \cup OtherTasks)
           /\ \A i \in Lines(q)' : LET j == IF i <= Len(sent) THEN i ELSE i + 1
                                   IN  j \in Lines(q) /\ Line'[i] = Line[j]
           /\ \A j \in Lines(q) : LET i == IF j <= Len(sent) THEN j ELSE j - 1
                                  IN  i \in Lines(q)' /\ Line'[i] = Line[j] /\ j # Len(sent) + 1
  <1>1. sent \in Seq(Feedback \cup OtherTasks) /\ sendQueue \in Seq(Feedback \cup OtherTasks)
    BY DEF TypeOK
  <1>2. /\ Tail(sendQueue) \in Seq(Feedback \cup OtherTasks)
        /\ Len(Tail(sendQueue)) = Len(sendQueue) - 1 /\ Len(sendQueue) > 0
        /\ \A i \in 1..Len(Tail(sendQueue)) : Tail(sendQueue)[i] = sendQueue[i + 1]
        /\ Head(sendQueue) = sendQueue[1]
    BY <1>1
  <1>3. /\ Len(Line) = Len(sent) + Len(sendQueue)
        /\ Len(sent) \in Nat /\ Len(sendQueue) \in Nat
        /\ \A i \in 1..Len(sent) : Line[i] = sent[i]
        /\ \A i \in 1..Len(sendQueue) : Line[Len(sent) + i] = sendQueue[i]
    BY LineIs
  <1>4. /\ Len(Line') = Len(sent) + Len(sendQueue) - 1
        /\ \A i \in 1..Len(sent) : Line'[i] = sent[i]
        /\ \A i \in 1..Len(Tail(sendQueue)) : Line'[Len(sent) + i] = Tail(sendQueue)[i]
    BY <1>1, <1>2 DEF Line
  <1>5. \A i \in 1..Len(Line') : i > Len(sent) => Line'[i] = Line[i + 1]
    <2> SUFFICES ASSUME NEW i \in 1..Len(Line'), i > Len(sent) PROVE Line'[i] = Line[i + 1]
      OBVIOUS
    <2>1. PICK k \in 1..Len(Tail(sendQueue)) : i = Len(sent) + k
      <3>1. i - Len(sent) \in 1..Len(Tail(sendQueue))
        BY <1>2, <1>3, <1>4
      <3>2. i = Len(sent) + (i - Len(sent))
        BY <1>3
      <3>3. QED
        BY <3>1, <3>2
    <2>2. Line'[i] = sendQueue[k + 1]
      BY <1>2, <1>4, <2>1
    <2>3. k + 1 \in 1..Len(sendQueue) /\ i + 1 = Len(sent) + (k + 1)
      BY <1>2, <1>3, <2>1
    <2>4. QED
      BY <1>3, <2>2, <2>3
  <1>6. \A i \in 1..Len(Line') : i <= Len(sent) => Line'[i] = Line[i]
    BY <1>3, <1>4
  <1>7. ~IsFeedback(Line[Len(sent) + 1])
    <2>1. 1 \in 1..Len(sendQueue)
      BY <1>2, <1>3
    <2>2. Line[Len(sent) + 1] = sendQueue[1]
      BY <1>3, <2>1
    <2>3. QED
      BY <1>2, <2>2
  <1>8. Lines(q)' = {i \in 1..Len(Line') : IsFeedback(Line'[i]) /\ Line'[i].req = q}
    BY DEF Lines, IsFeedback
  <1>9. ASSUME NEW i \in Lines(q)'
        PROVE  LET j == IF i <= Len(sent) THEN i ELSE i + 1
               IN  j \in Lines(q) /\ Line'[i] = Line[j]
    <2>1. i \in 1..Len(Line') /\ IsFeedback(Line'[i]) /\ Line'[i].req = q
      BY <1>8, <1>9
    <2>2. CASE i <= Len(sent)
      <3>1. i \in 1..Len(Line) /\ Line'[i] = Line[i]
        BY <1>2, <1>3, <1>4, <1>6, <2>1, <2>2
      <3>2. QED
        BY <2>1, <2>2, <3>1 DEF Lines
    <2>3. CASE ~(i <= Len(sent))
      <3>1. i + 1 \in 1..Len(Line) /\ Line'[i] = Line[i + 1]
        BY <1>2, <1>3, <1>4, <1>5, <2>1, <2>3
      <3>2. QED
        BY <2>1, <2>3, <3>1 DEF Lines
    <2>4. QED
      BY <2>2, <2>3
  <1>10. ASSUME NEW j \in Lines(q)
         PROVE  LET i == IF j <= Len(sent) THEN j ELSE j - 1
                IN  i \in Lines(q)' /\ Line'[i] = Line[j] /\ j # Len(sent) + 1
    <2>1. j # Len(sent) + 1 /\ j \in 1..Len(Line)
      BY <1>7 DEF Lines
    <2>2. CASE j <= Len(sent)
      <3>1. j \in 1..Len(Line')
        BY <1>2, <1>3, <1>4, <2>1, <2>2
      <3>2. QED
        BY <1>6, <1>8, <2>1, <2>2, <3>1 DEF Lines
    <2>3. CASE ~(j <= Len(sent))
      <3>1. j - 1 \in 1..Len(Line') /\ j - 1 > Len(sent) /\ (j - 1) + 1 = j
        BY <1>2, <1>3, <1>4, <2>1, <2>3
      <3>2. Line'[j - 1] = Line[j]
        BY <1>5, <3>1
      <3>3. QED
        BY <1>8, <2>1, <2>3, <3>1, <3>2 DEF Lines
    <2>4. QED
      BY <2>2, <2>3
  <1>11. QED
    BY <1>1, <1>2, <1>9, <1>10

-----------------------------------------------------------------------------
(* What a step leaves alone.                                                *)

Fits(q) == StepFits(q) /\ WatchFits(q) /\ LinesFit(q) /\ StoryFits(q)

LEMMA ParkParts ==
    ParkInv <=> /\ TypeOK /\ PlacesFit /\ TransfersFit /\ PeerFits
                /\ \A q \in Requests : Fits(q)
  BY DEF ParkInv, Fits

\* The transfers of a request, seen from elsewhere.
LEMMA SameTransfer ==
    ASSUME NEW q \in Requests, step'[q] = step[q], parkedBy'[q] = parkedBy[q],
           Queued(q)' <=> Queued(q),
           \A x : x \in xfer' /\ x.req = q <=> x \in xfer /\ x.req = q
    PROVE  (Running(q)' <=> Running(q)) /\ (Failed(q)' <=> Failed(q))
  <1>1. Running(q)' <=> Running(q)
    BY DEF Running
  <1>2. Failed(q)' <=> Failed(q)
    BY DEF Failed
  <1>3. QED
    BY <1>1, <1>2

\* The news of a request and what it was told are the same as before.
LEMMA SameNews ==
    ASSUME NEW q \in Requests, parkee'[q] = parkee[q], inbox'[q] = inbox[q]
    PROVE  News(q)' = News(q)
  BY DEF News, Relevant

\* A story goes on as it was, for a call that is where it was or has left.
LEMMA StoryKept ==
    ASSUME NEW q \in Requests, StoryFits(q),
           parkee'[q] = parkee[q], monitor'[q] = monitor[q], version'[q] = version[q],
           heard'[q] = heard[q],
           Lines(q)' = Lines(q), \A i \in Lines(q) : Line'[i] = Line[i],
           News(q)' = News(q), \A i \in News(q) : inbox'[q][i] = inbox[q][i],
           OneStay(q)' => /\ OneStay(q) /\ times'[parkee[q]] = times[parkee[q]]
                          /\ Failed(q)' <=> Failed(q)
                          /\ Running(q)' /\ Failed(q) <=> Running(q) /\ Failed(q)
                          /\ parkee[q] \in entering' => parkee[q] \in entering
                          /\ parkee[q] \in lot' => parkee[q] \in lot,
           step'[q] # "refused" /\ OneStay(q)' => step[q] # "refused",
           OneStay(q)' /\ parkee[q] \in lot /\ open[q] /\ monitor[q] /\ step'[q] # "refused" =>
               parkee[q] \in lot' /\ open'[q]
    PROVE  StoryFits(q)'
  <1> SUFFICES ASSUME OneStay(q)'
               PROVE  /\ OrderFits(q)' /\ FailureFits(q)' /\ ButtonFits(q)'
                      /\ monitor[q] => VersionFits(q)'
    BY DEF StoryFits
  <1>1. /\ OneStay(q)
        /\ OrderFits(q) /\ FailureFits(q) /\ ButtonFits(q)
        /\ monitor[q] => VersionFits(q)
    BY DEF StoryFits
  <1>2. /\ NoNews(q)' <=> NoNews(q)
        /\ AllParked(q)' <=> AllParked(q)
    BY DEF NoNews, AllParked, Parked
  <1>3. OrderFits(q)'
    BY <1>1, <1>2 DEF OrderFits, Parked
  <1>4. FailureFits(q)'
    BY <1>1 DEF FailureFits
  <1>5. ButtonFits(q)'
    BY <1>1, <1>2 DEF ButtonFits
  <1>6. ASSUME monitor[q] PROVE VersionFits(q)'
    BY <1>1, <1>6 DEF VersionFits
  <1>7. QED
    BY <1>3, <1>4, <1>5, <1>6

\* A request whose call is where it was, and which hears no news.
LEMMA Unconcerned ==
    ASSUME NEW q \in Requests, Fits(q),
           step'[q] = step[q], monitor'[q] = monitor[q], parkee'[q] = parkee[q],
           version'[q] = version[q], held'[q] = held[q], open'[q] = open[q],
           heard'[q] = heard[q], parkedBy'[q] = parkedBy[q],
           step[q] \in {"ready", "resolved"} => inbox'[q] = inbox[q],
           News(q)' = News(q), \A i \in News(q) : inbox'[q][i] = inbox[q][i],
           UNCHANGED target,
           parkee[q] \in entering' <=> parkee[q] \in entering,
           parkee[q] \in lot' <=> parkee[q] \in lot,
           parkee[q] # NoPeer => times'[parkee[q]] = times[parkee[q]],
           Queued(q)' <=> Queued(q),
           \A x : x \in xfer' /\ x.req = q <=> x \in xfer /\ x.req = q,
           Lines(q)' = Lines(q), \A i \in Lines(q) : Line'[i] = Line[i],
           excused \subseteq excused', raced \subseteq raced'
    PROVE  Fits(q)'
  <1>1. (Running(q)' <=> Running(q)) /\ (Failed(q)' <=> Failed(q))
    BY SameTransfer
  <1>2. StepFits(q)'
    BY DEF Fits, StepFits
  <1>3. WatchFits(q)'
    BY <1>1 DEF Fits, WatchFits, Done
  <1>4. LinesFit(q)'
    BY DEF Fits, LinesFit
  <1>5. OneStay(q)' => OneStay(q) /\ times'[parkee[q]] = times[parkee[q]]
    BY <1>1 DEF OneStay
  <1>6. StoryFits(q)'
    BY <1>1, <1>5, StoryKept DEF Fits
  <1>7. QED
    BY <1>2, <1>3, <1>4, <1>6 DEF Fits

LEMMA Untouched ==
    ASSUME NEW q \in Requests, Fits(q),
           step'[q] = step[q], monitor'[q] = monitor[q], parkee'[q] = parkee[q],
           version'[q] = version[q], held'[q] = held[q], open'[q] = open[q],
           inbox'[q] = inbox[q], heard'[q] = heard[q], parkedBy'[q] = parkedBy[q],
           UNCHANGED target, entering \subseteq entering', lot \subseteq lot',
           parkee[q] \in entering' \cup lot' => parkee[q] \in entering \cup lot,
           parkee[q] # NoPeer => times'[parkee[q]] = times[parkee[q]],
           Queued(q)' <=> Queued(q),
           \A x : x \in xfer' /\ x.req = q <=> x \in xfer /\ x.req = q,
           Lines(q)' = Lines(q), \A i \in Lines(q) : Line'[i] = Line[i],
           excused \subseteq excused', raced \subseteq raced',
           entering' \cap lot' = {}
    PROVE  Fits(q)'
  <1>1. News(q)' = News(q)
    BY SameNews
  <1>2. /\ parkee[q] \in entering' <=> parkee[q] \in entering
        /\ parkee[q] \in lot' <=> parkee[q] \in lot
    OBVIOUS
  <1>3. QED
    BY <1>1, <1>2, Unconcerned

LEMMA InitPark == Init => ParkInv
  <1> SUFFICES ASSUME Init PROVE ParkInv
    OBVIOUS
  <1>1. TypeOK
    BY ParkConstants DEF Init, TypeOK
  <1>2. Line = <<>>
    BY DEF Init, Line
  <1>3. \A q \in Requests : Lines(q) = {}
    BY <1>2 DEF Lines
  <1>4. PlacesFit /\ TransfersFit /\ PeerFits
    BY DEF Init, PlacesFit, TransfersFit, PeerFits, Queued, Running
  <1>5. ASSUME NEW q \in Requests PROVE Fits(q)
    <2>1. parkee[q] = NoPeer /\ heard[q] = {} /\ step[q] = "ready"
      BY DEF Init
    <2>2. StepFits(q) /\ WatchFits(q)
      BY DEF Init, StepFits, WatchFits
    <2>3. LinesFit(q)
      BY <1>3, <2>1 DEF LinesFit
    <2>4. StoryFits(q)
      BY <2>1 DEF StoryFits, OneStay
    <2>5. QED
      BY <2>2, <2>3, <2>4 DEF Fits
  <1>6. QED
    BY <1>1, <1>4, <1>5, ParkParts

-----------------------------------------------------------------------------
(* handle_park().                                                           *)

\* The handler of one request: nobody else's affair.
LEMMA HandlerFits ==
    ASSUME ParkInv, NEW r \in Requests, Fits(r)',
           TypeOK', TransfersFit',
           \A q \in Requests \ {r} :
              /\ step'[q] = step[q] /\ monitor'[q] = monitor[q] /\ parkee'[q] = parkee[q]
              /\ held'[q] = held[q] /\ open'[q] = open[q]
              /\ Queued(q)' <=> Queued(q),
           parkedBy[r] = NoPeer, ~Running(r),
           UNCHANGED <<callVars, version, inbox, heard, sendVars, xfer, histVars>>
    PROVE  ParkInv'
  <1>0. /\ TypeOK /\ PlacesFit /\ TransfersFit /\ PeerFits
        /\ \A q \in Requests : Fits(q)
    BY ParkParts
  <1>1. UNCHANGED <<target, peer, entering, lot, version, inbox, heard, sendQueue, sent,
                    xfer, times, parkedBy, excused, raced>>
    BY DEF callVars, sendVars, histVars
  <1>2. ASSUME NEW q \in Requests \ {r} PROVE Fits(q)'
    <2>1. Lines(q)' = Lines(q) /\ Line' = Line
      BY <1>1 DEF Lines, Line
    <2>2. entering' \cap lot' = {}
      BY <1>0, <1>1 DEF PlacesFit
    <2>3. Fits(q)
      BY <1>0
    <2>4. QED
      BY <1>1, <2>1, <2>2, <2>3, Untouched
  <1>3. PlacesFit'
    BY <1>0, <1>1 DEF PlacesFit
  <1>4. PeerFits'
    <2>1. ASSUME NEW x \in xfer PROVE x.req \in Requests \ {r}
      BY <1>0 DEF TypeOK, Running
    <2>2. \A x \in xfer' : x.stage = "checked" => peer' = parkee'[x.req] \/ x.req \in raced'
      BY <1>0, <1>1, <2>1 DEF PeerFits
    <2>3. \A q \in Requests : parkedBy'[q] \in {NoPeer, parkee'[q]} \/ q \in raced'
      BY <1>0, <1>1 DEF PeerFits
    <2>4. QED
      BY <2>2, <2>3 DEF PeerFits
  <1>5. \A q \in Requests : Fits(q)'
    BY <1>2
  <1>6. QED
    BY <1>3, <1>4, <1>5, ParkParts DEF ParkInv, Fits

\* A request of which nobody was told anything.
LEMMA NothingYet ==
    ASSUME NEW r \in Requests, StepFits(r)', Lines(r)' = {}, heard'[r] = {},
           inbox'[r] = <<>>, version'[r] = 0, step'[r] # "accepted", ~held'[r]
    PROVE  Fits(r)'
  <1>1. News(r)' = {} /\ NoNews(r)' /\ ~Failed(r)'
    BY DEF News, NoNews, Failed
  <1>2. WatchFits(r)' /\ LinesFit(r)'
    BY DEF WatchFits, LinesFit
  <1>3. OrderFits(r)'
    BY <1>1 DEF OrderFits, AllParked
  <1>4. FailureFits(r)' /\ ButtonFits(r)'
    BY <1>1 DEF FailureFits, ButtonFits
  <1>5. VersionFits(r)'
    BY <1>1 DEF VersionFits
  <1>6. QED
    BY <1>2, <1>3, <1>4, <1>5 DEF Fits, StoryFits

LEMMA HandleParkStep ==
    ASSUME ParkInv, NEW r \in Requests, NEW mon \in BOOLEAN, HandlePark(r, mon)
    PROVE  ParkInv'
  <1>0. /\ TypeOK /\ PlacesFit /\ TransfersFit /\ PeerFits
        /\ \A q \in Requests : Fits(q)
    BY ParkParts
  <1>1. /\ step[r] = "ready"
        /\ monitor' = [monitor EXCEPT ![r] = mon]
        /\ UNCHANGED <<callVars, version, held, open, inbox, heard, sendVars, parkQueue,
                       xfer, histVars>>
    BY DEF HandlePark, subVars, taskVars
  <1>2. PICK s \in {"resolved", "refused"}, p \in Remotes \cup {NoPeer} :
           /\ step' = [step EXCEPT ![r] = s]
           /\ parkee' = [parkee EXCEPT ![r] = p]
           /\ s = "resolved" => p # NoPeer /\ target \in {"other", "park"}
    <2>1. CASE peer = NoPeer \/ target \in {"unloaded", "none"}
      <3>1. step' = [step EXCEPT ![r] = "refused"] /\ parkee' = parkee
        BY <2>1 DEF HandlePark, Refuse
      <3>2. parkee[r] \in Remotes \cup {NoPeer} /\ parkee' = [parkee EXCEPT ![r] = parkee[r]]
        BY <1>0, <3>1 DEF TypeOK
      <3>3. QED
        BY <3>1, <3>2
    <2>2. CASE ~(peer = NoPeer \/ target \in {"unloaded", "none"})
      <3>1. /\ step' = [step EXCEPT ![r] = "resolved"]
            /\ parkee' = [parkee EXCEPT ![r] = peer]
        BY <2>2 DEF HandlePark
      <3>2. peer \in Remotes \cup {NoPeer} /\ target \in {"other", "park"}
        BY <1>0, <2>2 DEF TypeOK
      <3>3. QED
        BY <2>2, <3>1, <3>2
    <2>3. QED
      BY <2>1, <2>2
  <1>3. /\ UNCHANGED <<target, peer, entering, lot, version, held, open, inbox, heard,
                       sendQueue, sent, parkQueue, xfer, times, parkedBy, excused, raced>>
        /\ step'[r] = s /\ parkee'[r] = p /\ monitor'[r] = mon
        /\ \A q \in Requests \ {r} : /\ step'[q] = step[q] /\ parkee'[q] = parkee[q]
                                     /\ monitor'[q] = monitor[q]
    BY <1>0, <1>1, <1>2 DEF TypeOK, callVars, sendVars, histVars
  <1>4. TypeOK'
    BY <1>0, <1>1, <1>2, <1>3 DEF TypeOK
  <1>5. /\ parkedBy[r] = NoPeer /\ ~Running(r) /\ ~Queued(r) /\ ~open[r] /\ ~held[r]
        /\ inbox[r] = <<>> /\ heard[r] = {} /\ version[r] = 0 /\ Lines(r) = {}
    BY <1>0, <1>1 DEF TransfersFit, Fits, StepFits, LinesFit
  <1>6. \A q \in Requests : Queued(q)' <=> Queued(q)
    BY <1>3 DEF Queued
  <1>7. TransfersFit'
    <2>1. \A q \in Requests : Running(q)' <=> Running(q)
      BY <1>3 DEF Running
    <2>2. \A q \in Requests : Queued(q) \/ Running(q) \/ parkedBy[q] # NoPeer => q # r
      BY <1>5
    <2>3. QED
      BY <1>0, <1>3, <1>6, <2>1, <2>2 DEF TransfersFit
  <1>8. Fits(r)'
    <2>1. Lines(r)' = {} /\ heard'[r] = {} /\ inbox'[r] = <<>> /\ version'[r] = 0
      BY <1>3, <1>5 DEF Lines, Line
    <2>2. StepFits(r)'
      BY <1>2, <1>3, <1>5 DEF StepFits
    <2>3. step'[r] # "accepted" /\ ~held'[r]
      BY <1>2, <1>3, <1>5
    <2>4. QED
      BY <2>1, <2>2, <2>3, NothingYet
  <1>9. QED
    BY <1>1, <1>3, <1>4, <1>5, <1>6, <1>7, <1>8, HandlerFits

LEMMA SubscribeStep ==
    ASSUME ParkInv, NEW r \in Requests, Subscribe(r)
    PROVE  ParkInv'
  <1>0. /\ TypeOK /\ PlacesFit /\ TransfersFit /\ PeerFits
        /\ \A q \in Requests : Fits(q)
    BY ParkParts
  <1>1. /\ step[r] = "resolved"
        /\ UNCHANGED <<callVars, prdVars, inbox, heard, sendVars, parkQueue, xfer, histVars>>
    BY DEF Subscribe, taskVars
  <1>2. PICK s \in {"subscribed", "refused"}, o \in BOOLEAN :
           /\ step' = [step EXCEPT ![r] = s]
           /\ open' = [open EXCEPT ![r] = o]
           /\ o <=> s = "subscribed"
    <2>1. /\ ~open[r] /\ open \in [Requests -> BOOLEAN]
      BY <1>0, <1>1 DEF Fits, StepFits, TypeOK
    <2>2. open = [open EXCEPT ![r] = FALSE]
      BY <2>1
    <2>3. QED
      BY <2>2 DEF Subscribe, Refuse
  <1>3. /\ UNCHANGED <<target, peer, entering, lot, monitor, parkee, version, held, inbox,
                       heard, sendQueue, sent, parkQueue, xfer, times, parkedBy, excused,
                       raced>>
        /\ step'[r] = s /\ open'[r] = o
        /\ \A q \in Requests \ {r} : step'[q] = step[q] /\ open'[q] = open[q]
    BY <1>0, <1>1, <1>2 DEF TypeOK, callVars, prdVars, sendVars, histVars
  <1>4. TypeOK'
    BY <1>0, <1>2, <1>3 DEF TypeOK
  <1>5. /\ parkedBy[r] = NoPeer /\ ~Running(r) /\ ~Queued(r) /\ ~open[r] /\ ~held[r]
        /\ inbox[r] = <<>> /\ heard[r] = {} /\ version[r] = 0 /\ Lines(r) = {}
        /\ parkee[r] # NoPeer /\ target \in {"other", "park"}
    BY <1>0, <1>1 DEF TransfersFit, Fits, StepFits, LinesFit
  <1>6. \A q \in Requests : Queued(q)' <=> Queued(q)
    BY <1>3 DEF Queued
  <1>7. TransfersFit'
    <2>1. \A q \in Requests : Running(q)' <=> Running(q)
      BY <1>3 DEF Running
    <2>2. \A q \in Requests : Queued(q) \/ Running(q) \/ parkedBy[q] # NoPeer => q # r
      BY <1>5
    <2>3. QED
      BY <1>0, <1>3, <1>6, <2>1, <2>2 DEF TransfersFit
  <1>8. Fits(r)'
    <2>1. Lines(r)' = {} /\ heard'[r] = {} /\ inbox'[r] = <<>> /\ version'[r] = 0
      BY <1>3, <1>5 DEF Lines, Line
    <2>2. StepFits(r)'
      BY <1>2, <1>3, <1>5 DEF StepFits
    <2>3. step'[r] # "accepted" /\ ~held'[r]
      BY <1>2, <1>3, <1>5
    <2>4. QED
      BY <2>1, <2>2, <2>3, NothingYet
  <1>9. QED
    BY <1>1, <1>3, <1>4, <1>5, <1>6, <1>7, <1>8, HandlerFits DEF prdVars

LEMMA QueueTransferStep ==
    ASSUME ParkInv, NEW r \in Requests, QueueTransfer(r)
    PROVE  ParkInv'
  <1>0. /\ TypeOK /\ PlacesFit /\ TransfersFit /\ PeerFits
        /\ \A q \in Requests : Fits(q)
    BY ParkParts
  <1>1. /\ step[r] = "subscribed"
        /\ UNCHANGED <<callVars, monitor, parkee, version, inbox, heard, sendVars, xfer,
                       histVars>>
    BY DEF QueueTransfer
  <1>2. /\ parkedBy[r] = NoPeer /\ ~Running(r) /\ ~Queued(r) /\ open[r] /\ ~held[r]
        /\ parkee[r] # NoPeer /\ target \in {"other", "park"} /\ ~Failed(r)
    BY <1>0, <1>1 DEF TransfersFit, Fits, StepFits, Failed
  <1>3. UNCHANGED <<target, peer, entering, lot, monitor, parkee, version, inbox, heard,
                    sendQueue, sent, xfer, times, parkedBy, excused, raced>>
    BY <1>1 DEF callVars, sendVars, histVars
  <1>4. Line' = Line /\ News(r)' = News(r) /\ Lines(r)' = Lines(r) /\ StoryFits(r) /\ LinesFit(r)
    BY <1>0, <1>3 DEF Line, Lines, News, Relevant, Fits
  <1>5. CASE /\ parkQueue' = Append(parkQueue, r)
             /\ held' = [held EXCEPT ![r] = TRUE]
             /\ step' = [step EXCEPT ![r] = "accepted"]
             /\ UNCHANGED open
    <2>1. /\ held'[r] /\ step'[r] = "accepted"
          /\ \A q \in Requests \ {r} : step'[q] = step[q] /\ held'[q] = held[q]
      BY <1>0, <1>5 DEF TypeOK
    <2>2. /\ parkQueue \in Seq(Requests) /\ Len(parkQueue') = Len(parkQueue) + 1
          /\ parkQueue'[Len(parkQueue) + 1] = r
          /\ \A i \in 1..Len(parkQueue) : parkQueue'[i] = parkQueue[i]
          /\ Len(parkQueue) \in Nat /\ parkQueue' \in Seq(Requests)
      BY <1>0, <1>5 DEF TypeOK
    <2>3. TypeOK'
      BY <1>0, <1>3, <1>5, <2>2 DEF TypeOK
    <2>4. Queued(r)' /\ \A q \in Requests \ {r} : Queued(q)' <=> Queued(q)
      BY <2>2 DEF Queued
    <2>5. TransfersFit'
      <3>1. \A i, j \in 1..Len(parkQueue') : parkQueue'[i] = parkQueue'[j] => i = j
        BY <1>0, <1>2, <2>2 DEF TransfersFit, Queued
      <3>2. \A q \in Requests : Running(q)' <=> Running(q)
        BY <1>3 DEF Running
      <3>3. QED
        BY <1>0, <1>2, <1>3, <2>1, <2>4, <3>1, <3>2 DEF TransfersFit
    <2>6. Fits(r)'
      <3>1. StepFits(r)' /\ WatchFits(r)' /\ LinesFit(r)'
        BY <1>2, <1>3, <1>4, <1>5, <2>1, <2>4 DEF StepFits, WatchFits, LinesFit
      <3>2. ~Failed(r)' /\ (OneStay(r)' => OneStay(r))
        BY <1>2, <1>3, <2>4 DEF Failed, OneStay
      <3>3. StoryFits(r)'
        BY <1>1, <1>2, <1>3, <1>4, <1>5, <3>2, StoryKept
      <3>4. QED
        BY <3>1, <3>3 DEF Fits
    <2>7. QED
      BY <1>1, <1>2, <1>3, <1>5, <2>1, <2>3, <2>4, <2>5, <2>6, HandlerFits
  <1>6. CASE /\ step' = [step EXCEPT ![r] = "refused"]
             /\ open' = [open EXCEPT ![r] = FALSE]
             /\ UNCHANGED <<held, parkQueue>>
    <2>1. /\ ~open'[r] /\ step'[r] = "refused" /\ ~held'[r]
          /\ \A q \in Requests \ {r} : step'[q] = step[q] /\ open'[q] = open[q]
      BY <1>0, <1>2, <1>6 DEF TypeOK
    <2>2. TypeOK'
      BY <1>0, <1>3, <1>6 DEF TypeOK
    <2>3. \A q \in Requests : (Queued(q)' <=> Queued(q)) /\ (Running(q)' <=> Running(q))
      BY <1>3, <1>6 DEF Queued, Running
    <2>4. TransfersFit'
      BY <1>0, <1>2, <1>3, <1>6, <2>1, <2>3 DEF TransfersFit
    <2>5. Fits(r)'
      <3>1. StepFits(r)' /\ WatchFits(r)' /\ LinesFit(r)'
        BY <1>2, <1>3, <1>4, <2>1 DEF StepFits, WatchFits, LinesFit
      <3>2. ~Failed(r)' /\ (OneStay(r)' => OneStay(r))
        BY <1>2, <1>3, <2>1 DEF Failed, OneStay
      <3>3. StoryFits(r)'
        BY <1>1, <1>2, <1>3, <1>4, <2>1, <3>2, StoryKept
      <3>4. QED
        BY <3>1, <3>3 DEF Fits
    <2>6. QED
      BY <1>1, <1>2, <1>3, <1>6, <2>1, <2>2, <2>3, <2>4, <2>5, HandlerFits
  <1>7. QED
    BY <1>5, <1>6 DEF QueueTransfer, Refuse

-----------------------------------------------------------------------------
(* park_xfer_task().                                                        *)

\* A transfer that is over, or about to be, by request.
LEMMA OneTransfer ==
    ASSUME TypeOK, TransfersFit, NEW x \in xfer
    PROVE  /\ xfer = {x} /\ x.req \in Requests /\ Running(x.req)
           /\ step[x.req] = "accepted" /\ parkedBy[x.req] = NoPeer /\ ~Queued(x.req)
           /\ \A q \in Requests \ {x.req} : ~Running(q)
           /\ x.stage \in {"checked", "stuck", "failed"}
  <1>1. x.req \in Requests /\ x.stage \in {"checked", "stuck", "failed"}
    BY DEF TypeOK
  <1>2. xfer = {x}
    BY DEF TransfersFit
  <1>3. Running(x.req) /\ \A q \in Requests \ {x.req} : ~Running(q)
    BY <1>2 DEF Running
  <1>4. QED
    BY <1>1, <1>2, <1>3 DEF TransfersFit

\* A request without news or feedback whose call was never parked.
LEMMA NoStay ==
    ASSUME TypeOK, PlacesFit, NEW r \in Requests, LinesFit(r), StoryFits(r), OneStay(r),
           times[parkee[r]] = 0
    PROVE  /\ NoNews(r) /\ parkee[r] \notin entering /\ parkee[r] \notin lot
           /\ ~Failed(r) \/ Running(r) => Lines(r) = {}
           /\ monitor[r] /\ ~Failed(r) => version[r] = 0
           /\ monitor[r] /\ Failed(r) /\ Running(r) => version[r] = 1
  <1>1. parkee[r] \notin entering /\ parkee[r] \notin lot
    BY DEF PlacesFit
  <1>2. NoNews(r)
    BY DEF PlacesFit, LinesFit, News, Relevant, NoNews
  <1>3. ~Failed(r) \/ Running(r) => Lines(r) = {}
    BY DEF StoryFits, FailureFits
  <1>4. version[r] \in Nat
    BY DEF TypeOK
  <1>5. monitor[r] => VersionFits(r)
    BY DEF StoryFits
  <1>6. monitor[r] /\ ~Failed(r) => version[r] = 0
    <2> SUFFICES ASSUME monitor[r], ~Failed(r), version[r] # 0 PROVE FALSE
      OBVIOUS
    <2>1. version[r] \in 1..version[r]
      BY <1>4
    <2>2. QED
      BY <1>2, <1>3, <1>5, <2>1 DEF VersionFits, NoNews
  <1>7. monitor[r] /\ Failed(r) /\ Running(r) => version[r] = 1
    <2> SUFFICES ASSUME monitor[r], Failed(r), Running(r), version[r] # 1 PROVE FALSE
      OBVIOUS
    <2>1. version[r] - 1 \in Nat
      BY <1>5 DEF VersionFits
    <2>2. 1 \in 1..(version[r] - 1)
      BY <1>4, <2>1
    <2>3. QED
      BY <1>3, <1>5, <2>2 DEF VersionFits
  <1>8. QED
    BY <1>1, <1>2, <1>3, <1>6, <1>7

\* A transfer fails: there is going to be one thing to tell.
LEMMA FailStory ==
    ASSUME TypeOK, PlacesFit, NEW r \in Requests, Fits(r),
           ~Failed(r), Failed(r)', Running(r)',
           version' = [version EXCEPT ![r] = NextVersion(r)],
           Lines(r)' = Lines(r),
           UNCHANGED <<step, monitor, parkee, held, open, inbox, heard, entering, lot, times,
                       target, excused, raced>>
    PROVE  Fits(r)'
  <1>1. News(r)' = News(r)
    BY SameNews
  <1>2. StepFits(r)'
    <2>1. step[r] = "accepted"
      BY DEF Failed
    <2>2. QED
      BY <2>1 DEF Fits, StepFits
  <1>3. WatchFits(r)' /\ LinesFit(r)'
    BY DEF Fits, WatchFits, LinesFit
  <1>4. ASSUME OneStay(r)'
        PROVE  /\ OrderFits(r)' /\ FailureFits(r)' /\ ButtonFits(r)'
               /\ monitor[r] => VersionFits(r)'
    <2>1. OneStay(r) /\ times[parkee[r]] = 0
      BY <1>4 DEF OneStay
    <2>2. /\ NoNews(r) /\ Lines(r) = {} /\ parkee[r] \notin entering /\ parkee[r] \notin lot
          /\ monitor[r] => version[r] = 0
      BY <2>1, NoStay DEF Fits
    <2>3. OrderFits(r)' /\ FailureFits(r)' /\ ButtonFits(r)'
      BY <1>1, <2>1, <2>2 DEF OrderFits, FailureFits, ButtonFits, NoNews
    <2>4. ASSUME monitor[r] PROVE VersionFits(r)'
      <3>1. version'[r] = 1
        BY <2>2, <2>4 DEF TypeOK, NextVersion
      <3>2. heard'[r] = {} /\ Lines(r)' = {}
        BY <2>2 DEF NoNews
      <3>3. QED
        BY <3>1, <3>2 DEF VersionFits
    <2>5. QED
      BY <2>3, <2>4
  <1>5. QED
    BY <1>2, <1>3, <1>4 DEF Fits, StoryFits

\* A queue gives its first request away.
LEMMA Dequeued ==
    ASSUME TypeOK, TransfersFit, parkQueue # <<>>, parkQueue' = Tail(parkQueue),
           NEW r, r = Head(parkQueue)
    PROVE  /\ parkQueue' \in Seq(Requests) /\ r \in Requests /\ Queued(r) /\ ~Queued(r)'
           /\ \A q \in Requests \ {r} : Queued(q)' <=> Queued(q)
           /\ \A i, j \in 1..Len(parkQueue') : parkQueue'[i] = parkQueue'[j] => i = j
  <1>1. /\ parkQueue \in Seq(Requests) /\ Len(parkQueue) \in Nat /\ Len(parkQueue) > 0
        /\ r = parkQueue[1] /\ r \in Requests
        /\ parkQueue' \in Seq(Requests) /\ Len(parkQueue') = Len(parkQueue) - 1
        /\ \A i \in 1..Len(parkQueue') : parkQueue'[i] = parkQueue[i + 1]
    BY DEF TypeOK
  <1>2. \A i, j \in 1..Len(parkQueue) : parkQueue[i] = parkQueue[j] => i = j
    BY DEF TransfersFit
  <1>3. \A i \in 1..Len(parkQueue') : i + 1 \in 1..Len(parkQueue) /\ i + 1 # 1
    BY <1>1
  <1>4. Queued(r) /\ ~Queued(r)'
    <2>1. 1 \in 1..Len(parkQueue)
      BY <1>1
    <2>2. QED
      BY <1>1, <1>2, <1>3, <2>1 DEF Queued
  <1>5. ASSUME NEW q \in Requests \ {r} PROVE Queued(q)' <=> Queued(q)
    <2>1. Queued(q)' => Queued(q)
      BY <1>1, <1>3 DEF Queued
    <2>2. ASSUME NEW i \in 1..Len(parkQueue), parkQueue[i] = q PROVE Queued(q)'
      <3>1. i - 1 \in 1..Len(parkQueue') /\ (i - 1) + 1 = i
        BY <1>1, <2>2
      <3>2. parkQueue'[i - 1] = q
        BY <1>1, <2>2, <3>1
      <3>3. QED
        BY <3>1, <3>2 DEF Queued
    <2>3. QED
      BY <2>1, <2>2 DEF Queued
  <1>6. \A i, j \in 1..Len(parkQueue') : parkQueue'[i] = parkQueue'[j] => i = j
    BY <1>1, <1>2, <1>3
  <1>7. QED
    BY <1>1, <1>4, <1>5, <1>6

LEMMA XferCheckStep ==
    ASSUME ParkInv, XferCheck
    PROVE  ParkInv'
  <1>0. /\ TypeOK /\ PlacesFit /\ TransfersFit /\ PeerFits
        /\ \A q \in Requests : Fits(q)
    BY ParkParts
  <1>1. PICK r : r = Head(parkQueue)
    OBVIOUS
  <1>2. /\ xfer = {} /\ parkQueue # <<>> /\ parkQueue' = Tail(parkQueue)
        /\ UNCHANGED <<target, peer, entering, lot, step, monitor, parkee, held, open, inbox,
                       heard, sendQueue, sent, times, parkedBy, excused, raced>>
    BY DEF XferCheck, callVars, subVars, sendVars, histVars
  <1>3. /\ parkQueue' \in Seq(Requests) /\ r \in Requests /\ Queued(r) /\ ~Queued(r)'
        /\ \A q \in Requests \ {r} : Queued(q)' <=> Queued(q)
        /\ \A i, j \in 1..Len(parkQueue') : parkQueue'[i] = parkQueue'[j] => i = j
    BY <1>0, <1>1, <1>2, Dequeued
  <1>4. PICK s \in {"checked", "failed"}, x \in xfer' :
           /\ x = [req |-> r, stage |-> s] /\ xfer' = {x}
           /\ s = "checked" => peer = parkee[r] /\ UNCHANGED version
           /\ s = "failed" => version' = [version EXCEPT ![r] = NextVersion(r)]
    BY <1>1 DEF XferCheck, FailTransfer, StillTheParkee
  <1>5. x.req = r /\ x.stage = s
    BY <1>4
  <1>6. version' \in [Requests -> Nat] /\ \A q \in Requests \ {r} : version'[q] = version[q]
    <2>1. CASE s = "checked"
      BY <1>0, <1>4, <2>1 DEF TypeOK
    <2>2. CASE s = "failed"
      BY ZenonT(40), <1>0, <1>3, <1>4, <2>2, VersionType DEF TypeOK
    <2>3. QED
      BY <2>1, <2>2
  <1>7. TypeOK'
    <2>1. xfer' \subseteq [req : Requests, stage : {"checked", "stuck", "failed"}]
      BY <1>3, <1>4
    <2>2. QED
      BY <1>0, <1>2, <1>3, <1>6, <2>1 DEF TypeOK
  <1>8. /\ step[r] = "accepted" /\ parkedBy[r] = NoPeer /\ ~Failed(r)
    BY <1>0, <1>3 DEF TransfersFit, Failed
  <1>9. Running(r)' /\ \A q \in Requests \ {r} : ~Running(q) /\ ~Running(q)'
    BY <1>2, <1>4, <1>5 DEF Running
  <1>10. TransfersFit'
    BY <1>0, <1>2, <1>3, <1>4, <1>8, <1>9 DEF TransfersFit
  <1>11. PlacesFit'
    BY <1>0, <1>2 DEF PlacesFit
  <1>12. PeerFits'
    BY <1>0, <1>2, <1>4, <1>5 DEF PeerFits
  <1>13. Line' = Line /\ \A q \in Requests : Lines(q)' = Lines(q)
    BY <1>2 DEF Line, Lines
  <1>14. ASSUME NEW q \in Requests \ {r} PROVE Fits(q)'
    <2>1. \A y : y \in xfer' /\ y.req = q <=> y \in xfer /\ y.req = q
      BY <1>2, <1>4, <1>5, <1>14
    <2>2. entering' \cap lot' = {}
      BY <1>0, <1>2 DEF PlacesFit
    <2>3. QED
      BY <1>0, <1>2, <1>3, <1>6, <1>13, <1>14, <2>1, <2>2, Untouched
  <1>15. Fits(r)'
    <2>1. CASE s = "failed"
      <3>1. Failed(r)'
        BY <1>2, <1>3, <1>4, <1>5, <1>8, <2>1 DEF Failed
      <3>2. QED
        BY <1>0, <1>2, <1>3, <1>4, <1>8, <1>9, <1>13, <2>1, <3>1, FailStory
    <2>2. CASE s = "checked"
      <3>1. ~Failed(r)'
        BY <1>4, <1>5, <2>2 DEF Failed
      <3>2. News(r)' = News(r)
        BY <1>2, <1>3, SameNews
      <3>3. StepFits(r)' /\ WatchFits(r)' /\ LinesFit(r)'
        BY <1>0, <1>2, <1>3, <1>4, <1>9, <1>13, <2>2 DEF Fits, StepFits, WatchFits, LinesFit
      <3>4. OneStay(r)' => OneStay(r)
        BY <1>2, <1>8 DEF OneStay
      <3>5. StoryFits(r)'
        BY <1>0, <1>2, <1>3, <1>4, <1>8, <1>13, <2>2, <3>1, <3>2, <3>4, StoryKept DEF Fits
      <3>6. QED
        BY <3>3, <3>5 DEF Fits
    <2>3. QED
      BY <2>1, <2>2
  <1>16. QED
    BY <1>7, <1>10, <1>11, <1>12, <1>14, <1>15 DEF ParkInv, Fits

\* A call goes to the lot: if it never was there, there is nothing to tell yet.
LEMMA StayBegins ==
    ASSUME TypeOK, PlacesFit, NEW q \in Requests, LinesFit(q), StoryFits(q),
           NEW p \in Remotes, parkee[q] = p, times'[p] = times[p] + 1,
           parkee'[q] = p, version'[q] = version[q], heard'[q] = heard[q],
           monitor'[q] = monitor[q], Lines(q)' = Lines(q), News(q)' = News(q),
           Failed(q)' <=> Failed(q), excused \subseteq excused'
    PROVE  StoryFits(q)'
  <1> SUFFICES ASSUME OneStay(q)'
               PROVE  /\ OrderFits(q)' /\ FailureFits(q)' /\ ButtonFits(q)'
                      /\ monitor[q] => VersionFits(q)'
    BY DEF StoryFits
  <1>1. times[p] \in Nat
    BY DEF TypeOK
  <1>2. times'[p] = 1 /\ times[p] = 0 /\ ~Failed(q) /\ OneStay(q)
    BY <1>1 DEF OneStay
  <1>3. /\ NoNews(q) /\ Lines(q) = {}
        /\ monitor[q] => version[q] = 0
    BY <1>2, NoStay
  <1>4. NoNews(q)' /\ Lines(q)' = {} /\ heard'[q] = {} /\ News(q)' = {}
    BY <1>3 DEF NoNews
  <1>5. OrderFits(q)'
    BY <1>4 DEF OrderFits, AllParked
  <1>6. FailureFits(q)' /\ ButtonFits(q)'
    BY <1>2, <1>4 DEF FailureFits, ButtonFits
  <1>7. monitor[q] => VersionFits(q)'
    BY <1>2, <1>3, <1>4 DEF VersionFits
  <1>8. QED
    BY <1>5, <1>6, <1>7

\* The same, when it is on its way now and nothing else has happened.
LEMMA SetsOut ==
    ASSUME TypeOK, PlacesFit, NEW q \in Requests, Fits(q),
           NEW p \in Remotes, parkee[q] = p, times'[p] = times[p] + 1,
           entering' = entering \cup {p},
           UNCHANGED <<target, lot, step, monitor, parkee, version, held, open, inbox, heard,
                       sendQueue, sent>>,
           Failed(q)' <=> Failed(q), excused \subseteq excused', raced \subseteq raced'
    PROVE  Fits(q)'
  <1>1. News(q)' = News(q)
    BY SameNews
  <1>2. Lines(q)' = Lines(q)
    BY DEF Lines, Line
  <1>3. StepFits(q)' /\ WatchFits(q)'
    BY DEF Fits, StepFits, WatchFits
  <1>4. times[p] \in Nat
    BY DEF TypeOK
  <1>5. LinesFit(q)'
    BY <1>2, <1>4 DEF Fits, LinesFit
  <1>6. StoryFits(q)'
    BY <1>1, <1>2, StayBegins DEF Fits
  <1>7. QED
    BY <1>3, <1>5, <1>6 DEF Fits

LEMMA XferTransferStep ==
    ASSUME ParkInv, XferTransfer
    PROVE  ParkInv'
  <1>0. /\ TypeOK /\ PlacesFit /\ TransfersFit /\ PeerFits
        /\ \A q \in Requests : Fits(q)
    BY ParkParts
  <1>1. PICK x \in xfer :
           /\ x.stage = "checked"
           /\ \/ /\ peer # NoPeer
                 /\ peer' = NoPeer
                 /\ IF target = "park"
                    THEN /\ entering' = entering \cup {peer}
                         /\ times' = [times EXCEPT ![peer] = @ + 1]
                    ELSE UNCHANGED <<entering, times>>
                 /\ parkedBy' = [parkedBy EXCEPT ![x.req] = peer]
                 /\ xfer' = {}
                 /\ UNCHANGED version
              \/ /\ FailTransfer(x.req)
                 /\ UNCHANGED <<peer, entering, times, parkedBy>>
           /\ UNCHANGED <<target, lot, step, monitor, parkee, held, subVars, sendVars,
                          parkQueue, excused, raced>>
    BY DEF XferTransfer
  <1>2. PICK r : r = x.req
    OBVIOUS
  <1>3. /\ xfer = {x} /\ r \in Requests /\ Running(r)
        /\ step[r] = "accepted" /\ parkedBy[r] = NoPeer /\ ~Queued(r)
        /\ \A q \in Requests \ {r} : ~Running(q)
    BY <1>0, <1>2, OneTransfer
  <1>4. UNCHANGED <<target, lot, step, monitor, parkee, held, open, inbox, heard, sendQueue,
                    sent, parkQueue, excused, raced>>
    BY <1>1 DEF subVars, sendVars
  <1>5. Line' = Line /\ \A q \in Requests : /\ Lines(q)' = Lines(q) /\ (Queued(q)' <=> Queued(q))
                                            /\ News(q)' = News(q)
    BY <1>4 DEF Line, Lines, Queued, News, Relevant
  <1>6. ~Failed(r)
    BY <1>1, <1>2 DEF Failed
  <1>7. CASE /\ peer # NoPeer /\ peer' = NoPeer
             /\ IF target = "park"
                THEN /\ entering' = entering \cup {peer}
                     /\ times' = [times EXCEPT ![peer] = @ + 1]
                ELSE UNCHANGED <<entering, times>>
             /\ parkedBy' = [parkedBy EXCEPT ![x.req] = peer]
             /\ xfer' = {}
             /\ UNCHANGED version
    <2>1. PICK p : p = peer
      OBVIOUS
    <2>2. p \in Remotes
      BY <1>0, <1>7, <2>1 DEF TypeOK
    <2>3. /\ parkedBy'[r] = p /\ p # NoPeer
          /\ \A q \in Requests \ {r} : parkedBy'[q] = parkedBy[q]
          /\ parkedBy' \in [Requests -> Remotes \cup {NoPeer}]
      BY <1>0, <1>2, <1>3, <1>7, <2>1, <2>2 DEF TypeOK
    <2>4. /\ \A o \in Remotes : times[o] \in Nat /\ times'[o] \in Nat /\ times'[o] >= times[o]
          /\ \A o \in Remotes \ {p} : times'[o] = times[o]
          /\ times' \in [Remotes -> Nat]
      <3>1. times \in [Remotes -> Nat]
        BY <1>0 DEF TypeOK
      <3>2. times' = times \/ times' = [times EXCEPT ![p] = times[p] + 1]
        BY <1>7, <2>1
      <3>3. QED
        BY <2>2, <3>1, <3>2
    <2>5. /\ target = "park" => entering' = entering \cup {p} /\ times'[p] = times[p] + 1
          /\ target # "park" => UNCHANGED <<entering, times>>
      BY <1>0, <1>7, <2>1, <2>2 DEF TypeOK
    <2>6. TypeOK'
      BY <1>0, <1>4, <1>7, <2>2, <2>3, <2>4, <2>5 DEF TypeOK
    <2>7. PlacesFit'
      <3>1. \A o \in entering \cup lot : o \in Remotes
        BY <1>0 DEF TypeOK
      <3>2. \A q \in Requests : \A i \in 1..Len(inbox[q]) : inbox[q][i].parkee \in Remotes
        BY <1>0, InboxType
      <3>3. \A o \in entering' \cup lot : times'[o] > 0
        BY <1>0, <2>2, <2>4, <2>5, <3>1 DEF PlacesFit
      <3>4. \A q \in Requests : \A i \in 1..Len(inbox[q]) : times'[inbox[q][i].parkee] > 0
        BY <1>0, <2>4, <3>2 DEF PlacesFit
      <3>5. NoPeer \notin entering' \cup lot
        BY <2>2, <2>5, <3>1, ParkConstants
      <3>6. entering' \cap lot = {}
        BY <1>0, <2>1, <2>5 DEF PlacesFit
      <3>7. QED
        BY <1>4, <1>7, <3>3, <3>4, <3>5, <3>6 DEF PlacesFit
    <2>8. \A q \in Requests : ~Running(q)'
      BY <1>7 DEF Running
    <2>9. TransfersFit'
      BY <1>0, <1>3, <1>4, <1>5, <1>7, <2>3, <2>8 DEF TransfersFit
    <2>10. PeerFits'
      <3>1. p = parkee[r] \/ r \in raced
        BY <1>0, <1>1, <1>2, <2>1 DEF PeerFits
      <3>2. QED
        BY <1>0, <1>4, <1>7, <2>3, <3>1 DEF PeerFits
    <2>11. \A q \in Requests : Failed(q)' <=> Failed(q)
      <3>1. ~Failed(r)'
        BY <2>3 DEF Failed
      <3>2. ASSUME NEW q \in Requests \ {r} PROVE Failed(q)' <=> Failed(q)
        BY <1>2, <1>3, <1>4, <1>5, <1>7, <2>3, <3>2 DEF Failed
      <3>3. QED
        BY <1>6, <3>1, <3>2
    <2>12. ASSUME NEW q \in Requests, parkee[q] = p, target = "park" PROVE Fits(q)'
      BY <1>0, <1>4, <1>7, <2>2, <2>5, <2>11, <2>12, SetsOut
    <2>13. ASSUME NEW q \in Requests, parkee[q] # p \/ target # "park" PROVE Fits(q)'
      <3>1. /\ times'[parkee[q]] = times[parkee[q]] \/ parkee[q] = NoPeer
            /\ parkee[q] \in entering' => parkee[q] \in entering
        BY <1>0, <2>4, <2>5, <2>13 DEF TypeOK
      <3>2. StepFits(q) /\ WatchFits(q) /\ LinesFit(q) /\ StoryFits(q)
        BY <1>0 DEF Fits
      <3>3. StepFits(q)'
        BY <1>4, <1>7, <3>2 DEF StepFits
      <3>4. WatchFits(q)'
        <4> SUFFICES ASSUME held[q], target = "park", q \notin excused, q \notin raced
                     PROVE  \/ Queued(q) \/ parkee[q] \in entering'
                            \/ monitor[q] /\ parkee[q] \in lot
                            \/ \E i \in News(q) : Done(q, inbox[q][i].event)
                            \/ \E f \in heard[q] : Done(q, f.event)
          BY <1>4, <1>5 DEF WatchFits, Done
        <4>1. q # r
          <5>1. p = parkee[r] \/ r \in raced
            BY <1>0, <1>1, <1>2, <2>1 DEF PeerFits
          <5>2. QED
            BY <2>13, <5>1
        <4>2. ~Running(q)
          BY <1>3, <4>1
        <4>3. QED
          BY <2>5, <3>2, <4>2 DEF WatchFits
      <3>5. LinesFit(q)'
        <4>1. heard[q] # {} => times[parkee[q]] > 0
          BY <3>2 DEF LinesFit
        <4>2. heard[q] # {} => times'[parkee[q]] > 0
          <5>1. CASE parkee[q] \in Remotes
            BY <2>4, <4>1, <5>1
          <5>2. CASE parkee[q] = NoPeer
            BY <3>2, <5>2 DEF LinesFit
          <5>3. QED
            BY <1>0, <5>1, <5>2 DEF TypeOK
        <4>3. QED
          BY <1>4, <1>5, <3>2, <4>2 DEF LinesFit
      <3>6. OneStay(q)' => OneStay(q) /\ times'[parkee[q]] = times[parkee[q]]
        BY <1>4, <2>11, <3>1 DEF OneStay
      <3>7. Running(q)' /\ Failed(q) <=> Running(q) /\ Failed(q)
        BY <1>3, <1>6, <2>8
      <3>8. StoryFits(q)'
        BY <1>4, <1>5, <1>7, <2>11, <3>1, <3>2, <3>6, <3>7, StoryKept
      <3>9. QED
        BY <3>3, <3>4, <3>5, <3>8 DEF Fits
    <2>14. QED
      BY <2>6, <2>7, <2>9, <2>10, <2>12, <2>13 DEF ParkInv, Fits
  <1>8. CASE /\ FailTransfer(x.req)
             /\ UNCHANGED <<peer, entering, times, parkedBy>>
    <2>1. PICK y : y = [req |-> r, stage |-> "failed"]
      OBVIOUS
    <2>2. /\ xfer' = {y} /\ y.req = r /\ y.stage = "failed"
          /\ version' = [version EXCEPT ![r] = NextVersion(r)]
      BY <1>2, <1>8, <2>1 DEF FailTransfer
    <2>3. version' \in [Requests -> Nat] /\ \A q \in Requests \ {r} : version'[q] = version[q]
      BY <1>0, <1>3, <2>2, VersionType DEF TypeOK
    <2>4. TypeOK'
      <3>1. xfer' \subseteq [req : Requests, stage : {"checked", "stuck", "failed"}]
        BY <1>3, <2>1, <2>2
      <3>2. QED
        BY <1>0, <1>4, <1>8, <2>3, <3>1 DEF TypeOK
    <2>5. Running(r)' /\ \A q \in Requests \ {r} : ~Running(q)'
      BY <2>2 DEF Running
    <2>6. PlacesFit'
      BY <1>0, <1>4, <1>8 DEF PlacesFit
    <2>7. TransfersFit'
      BY <1>0, <1>3, <1>4, <1>5, <1>8, <2>2, <2>5 DEF TransfersFit
    <2>8. PeerFits'
      BY <1>0, <1>4, <1>8, <2>2 DEF PeerFits
    <2>9. Failed(r)'
      BY <1>3, <1>4, <1>5, <1>8, <2>2 DEF Failed
    <2>10. Fits(r)'
      BY <1>0, <1>3, <1>4, <1>5, <1>6, <1>8, <2>2, <2>5, <2>9, FailStory
    <2>11. ASSUME NEW q \in Requests \ {r} PROVE Fits(q)'
      <3>1. \A z : z \in xfer' /\ z.req = q <=> z \in xfer /\ z.req = q
        BY <1>2, <1>3, <2>2, <2>11
      <3>2. entering' \cap lot' = {}
        BY <2>6 DEF PlacesFit
      <3>3. QED
        BY <1>0, <1>4, <1>5, <1>8, <2>3, <2>11, <3>1, <3>2, Untouched
    <2>12. QED
      BY <2>4, <2>6, <2>7, <2>8, <2>10, <2>11 DEF ParkInv, Fits
  <1>9. QED
    BY <1>1, <1>7, <1>8

LEMMA XferStuckStep ==
    ASSUME ParkInv, XferStuck
    PROVE  ParkInv'
  <1>0. /\ TypeOK /\ PlacesFit /\ TransfersFit /\ PeerFits
        /\ \A q \in Requests : Fits(q)
    BY ParkParts
  <1>1. PICK x \in xfer :
           /\ x.stage = "checked"
           /\ xfer' = {[x EXCEPT !.stage = "stuck"]}
           /\ UNCHANGED <<callVars, step, prdVars, subVars, sendVars, parkQueue, histVars>>
    BY DEF XferStuck
  <1>2. PICK r : r = x.req
    OBVIOUS
  <1>3. /\ xfer = {x} /\ r \in Requests /\ Running(r)
        /\ step[r] = "accepted" /\ parkedBy[r] = NoPeer /\ ~Queued(r)
        /\ \A q \in Requests \ {r} : ~Running(q)
    BY <1>0, <1>2, OneTransfer
  <1>4. UNCHANGED <<target, peer, entering, lot, step, monitor, parkee, version, held, open,
                    inbox, heard, sendQueue, sent, parkQueue, times, parkedBy, excused, raced>>
    BY <1>1 DEF callVars, prdVars, subVars, sendVars, histVars
  <1>5. Line' = Line /\ \A q \in Requests : /\ Lines(q)' = Lines(q) /\ (Queued(q)' <=> Queued(q))
                                            /\ News(q)' = News(q)
    BY <1>4 DEF Line, Lines, Queued, News, Relevant
  <1>6. PICK y : y = [x EXCEPT !.stage = "stuck"]
    OBVIOUS
  <1>7. /\ xfer' = {y} /\ y.req = r /\ y.stage = "stuck"
        /\ y \in [req : Requests, stage : {"checked", "stuck", "failed"}]
    BY <1>0, <1>1, <1>2, <1>6 DEF TypeOK
  <1>8. TypeOK'
    BY <1>0, <1>4, <1>7 DEF TypeOK
  <1>9. PlacesFit'
    BY <1>0, <1>4 DEF PlacesFit
  <1>10. \A q \in Requests : Running(q)' <=> Running(q)
    BY <1>3, <1>7 DEF Running
  <1>11. TransfersFit'
    BY <1>0, <1>4, <1>5, <1>7, <1>10 DEF TransfersFit
  <1>12. PeerFits'
    BY <1>0, <1>4, <1>7 DEF PeerFits
  <1>13. \A q \in Requests : Failed(q)' <=> Failed(q)
    BY <1>1, <1>2, <1>3, <1>4, <1>5, <1>7 DEF Failed
  <1>14. ASSUME NEW q \in Requests PROVE Fits(q)'
    <2>1. StepFits(q) /\ WatchFits(q) /\ LinesFit(q) /\ StoryFits(q)
      BY <1>0 DEF Fits
    <2>2. StepFits(q)' /\ WatchFits(q)' /\ LinesFit(q)'
      BY <1>4, <1>5, <1>10, <2>1 DEF StepFits, WatchFits, LinesFit, Done
    <2>3. OneStay(q)' => OneStay(q)
      BY <1>4, <1>13 DEF OneStay
    <2>4. StoryFits(q)'
      BY <1>4, <1>5, <1>10, <1>13, <2>1, <2>3, StoryKept
    <2>5. QED
      BY <2>2, <2>4 DEF Fits
  <1>15. QED
    BY <1>8, <1>9, <1>11, <1>12, <1>14 DEF ParkInv, Fits

\* Feedback is queued, or the request is excused.
LEMMA FeedbackQueued ==
    ASSUME TypeOK, NEW f \in Feedback, QueueFeedback(f), sent' = sent
    PROVE  /\ sendQueue' \in Seq(Feedback \cup OtherTasks)
           /\ excused' \subseteq Requests /\ excused \subseteq excused'
           /\ Len(Line) \in Nat
           /\ \A q \in Requests : /\ \A i \in Lines(q) : Line'[i] = Line[i] /\ i \in 1..Len(Line)
                                  /\ q # f.req => Lines(q)' = Lines(q)
           /\ f.req \notin excused' => /\ Lines(f.req)' = Lines(f.req) \cup {Len(Line) + 1}
                                       /\ Line'[Len(Line) + 1] = f
           /\ \A q \in Requests : Lines(q)' \in {Lines(q), Lines(q) \cup {Len(Line) + 1}}
  <1>0. /\ IsFeedback(f) /\ f.req \in Requests
        /\ \A q \in Requests : \A i \in Lines(q) : i \in 1..Len(Line)
    BY FeedbackIs DEF Lines
  <1>1. CASE sendQueue' = Append(sendQueue, f) /\ excused' = excused
    BY <1>0, <1>1, LineGrows DEF TypeOK
  <1>2. CASE sendQueue' = sendQueue /\ excused' = excused \cup {f.req}
    <2>1. Line' = Line /\ \A q \in Requests : Lines(q)' = Lines(q)
      BY <1>2 DEF Line, Lines
    <2>2. QED
      BY <1>0, <1>2, <2>1, LineIs DEF TypeOK
  <1>3. QED
    BY <1>1, <1>2 DEF QueueFeedback

LEMMA Unsubscribed ==
    ASSUME TypeOK, NEW r \in Requests, Unsubscribe(r)
    PROVE  /\ open' \in [Requests -> BOOLEAN] /\ held' \in [Requests -> BOOLEAN]
           /\ \A q \in Requests \ {r} : open'[q] = open[q] /\ held'[q] = held[q]
           /\ open'[r] <=> open[r] /\ ~held[r]
           /\ ~held'[r]
  BY DEF TypeOK, Unsubscribe

LEMMA XferReportStep ==
    ASSUME ParkInv, XferReport
    PROVE  ParkInv'
  <1>0. /\ TypeOK /\ PlacesFit /\ TransfersFit /\ PeerFits
        /\ \A q \in Requests : Fits(q)
    BY ParkParts
  <1>1. PICK x \in xfer :
           /\ x.stage = "failed"
           /\ ReportFailure(x)
           /\ Unsubscribe(x.req)
           /\ xfer' = {}
           /\ UNCHANGED <<callVars, step, monitor, parkee, version, inbox, heard,
                          sent, parkQueue, times, parkedBy, raced>>
    BY DEF XferReport
  <1>2. PICK r : r = x.req
    OBVIOUS
  <1>3. /\ xfer = {x} /\ r \in Requests /\ Running(r)
        /\ step[r] = "accepted" /\ parkedBy[r] = NoPeer /\ ~Queued(r)
        /\ \A q \in Requests \ {r} : ~Running(q)
    BY <1>0, <1>2, OneTransfer
  <1>4. UNCHANGED <<target, peer, entering, lot, step, monitor, parkee, version, inbox, heard,
                    sent, parkQueue, times, parkedBy, raced>>
    BY <1>1 DEF callVars
  <1>5. PICK f : f = [req |-> r, event |-> "error", version |-> version[r]]
    OBVIOUS
  <1>6. f \in Feedback /\ f.req = r /\ f.event = "error" /\ f.version = version[r]
    BY <1>0, <1>3, <1>5, VersionType, FeedbackOfIs DEF LotEvents
  <1>7. QueueFeedback(f)
    BY <1>1, <1>2, <1>5 DEF ReportFailure, FeedbackOf
  <1>8. /\ sendQueue' \in Seq(Feedback \cup OtherTasks)
        /\ excused' \subseteq Requests /\ excused \subseteq excused'
        /\ \A q \in Requests : /\ \A i \in Lines(q) : Line'[i] = Line[i]
                               /\ q # r => Lines(q)' = Lines(q)
        /\ r \notin excused' => /\ Lines(r)' = Lines(r) \cup {Len(Line) + 1}
                                /\ Line'[Len(Line) + 1] = f
    BY <1>0, <1>4, <1>6, <1>7, FeedbackQueued
  <1>9. /\ open' \in [Requests -> BOOLEAN] /\ held' \in [Requests -> BOOLEAN]
        /\ \A q \in Requests \ {r} : open'[q] = open[q] /\ held'[q] = held[q]
        /\ open'[r] <=> open[r] /\ ~held[r]
        /\ ~held'[r]
    BY <1>0, <1>1, <1>2, <1>3, Unsubscribed
  <1>10. TypeOK'
    BY <1>0, <1>1, <1>4, <1>8, <1>9 DEF TypeOK
  <1>11. PlacesFit' /\ PeerFits'
    BY <1>0, <1>1, <1>4 DEF PlacesFit, PeerFits
  <1>12. \A q \in Requests : ~Running(q)' /\ (Queued(q)' <=> Queued(q)) /\ News(q)' = News(q)
    BY <1>1, <1>4 DEF Running, Queued, News, Relevant
  <1>13. TransfersFit'
    BY <1>0, <1>1, <1>4, <1>12 DEF TransfersFit
  <1>14. ASSUME NEW q \in Requests \ {r} PROVE Fits(q)'
    <2>1. \A z : z \in xfer' /\ z.req = q <=> z \in xfer /\ z.req = q
      BY <1>1, <1>2, <1>3, <1>14
    <2>2. entering' \cap lot' = {}
      BY <1>0, <1>4 DEF PlacesFit
    <2>3. QED
      BY <1>0, <1>4, <1>8, <1>9, <1>12, <1>14, <2>1, <2>2, Untouched
  <1>15. Fits(r)'
    <2>1. StepFits(r) /\ LinesFit(r) /\ StoryFits(r)
      BY <1>0, <1>3 DEF Fits
    <2>2. StepFits(r)'
      BY <1>3, <1>4, <1>9, <2>1 DEF StepFits
    <2>3. WatchFits(r)'
      BY <1>9 DEF WatchFits
    <2>4. LinesFit(r)'
      BY <1>3, <1>4, <2>1 DEF LinesFit
    <2>5. ASSUME OneStay(r)'
          PROVE  /\ OrderFits(r)' /\ FailureFits(r)' /\ ButtonFits(r)'
                 /\ monitor[r] => VersionFits(r)'
      <3>1. Failed(r) /\ Failed(r)'
        BY <1>1, <1>2, <1>3, <1>4, <1>12 DEF Failed
      <3>2. OneStay(r) /\ times[parkee[r]] = 0 /\ r \notin excused'
        BY <1>4, <1>8, <2>5, <3>1 DEF OneStay
      <3>3. /\ NoNews(r) /\ Lines(r) = {} /\ parkee[r] \notin entering /\ parkee[r] \notin lot
            /\ monitor[r] => version[r] = 1
        BY <1>0, <1>3, <2>1, <3>1, <3>2, NoStay
      <3>4. PICK k : k = Len(Line) + 1
        OBVIOUS
      <3>5. Lines(r)' = {k} /\ Line'[k] = f
        BY <1>8, <3>2, <3>3, <3>4
      <3>6. k \in Int
        BY <1>0, <3>4, LineIs
      <3>7. OrderFits(r)'
        <4>1. NoNews(r)' /\ News(r)' = {}
          BY <1>3, <1>4, <1>12, <3>3 DEF NoNews
        <4>2. parkee'[r] \notin entering' /\ parkee'[r] \notin lot'
          BY <1>4, <3>3
        <4>3. \A i, j \in Lines(r)' : ~(i < j)
          BY <3>5, <3>6
        <4>4. QED
          BY <4>1, <4>2, <4>3 DEF OrderFits
      <3>8. FailureFits(r)'
        BY <1>3, <1>6, <1>12, <3>1, <3>5 DEF FailureFits
      <3>9. ButtonFits(r)'
        BY <1>4, <3>2 DEF ButtonFits
      <3>10. monitor[r] => VersionFits(r)'
        <4> SUFFICES ASSUME monitor[r] PROVE VersionFits(r)'
          OBVIOUS
        <4>1. version'[r] = 1 /\ heard'[r] = {} /\ ~Running(r)'
          BY <1>3, <1>4, <1>12, <3>3 DEF NoNews
        <4>2. \A i \in Lines(r)' : i = k /\ Line'[i].version = 1
          BY <1>4, <1>6, <3>5, <4>1
        <4>3. \A v \in 1..1 : \E i \in Lines(r)' : Line'[i].version = v
          BY <3>5, <4>2
        <4>4. QED
          BY <3>6, <4>1, <4>2, <4>3 DEF VersionFits
      <3>11. QED
        BY <3>7, <3>8, <3>9, <3>10
    <2>6. QED
      BY <1>4, <2>2, <2>3, <2>4, <2>5 DEF Fits, StoryFits
  <1>16. QED
    BY <1>10, <1>11, <1>13, <1>14, <1>15 DEF ParkInv, Fits

-----------------------------------------------------------------------------
(* remotecc_serializer and park_stasis_cb().                                *)

LEMMA SendTaskStep ==
    ASSUME ParkInv, SendTask
    PROVE  ParkInv'
  <1>0. /\ TypeOK /\ PlacesFit /\ TransfersFit /\ PeerFits
        /\ \A q \in Requests : Fits(q)
    BY ParkParts
  <1>1. /\ sendQueue # <<>> /\ IsFeedback(Head(sendQueue))
        /\ sent' = Append(sent, Head(sendQueue)) /\ sendQueue' = Tail(sendQueue)
        /\ UNCHANGED <<target, peer, entering, lot, step, monitor, parkee, version, held, open,
                       inbox, heard, parkQueue, xfer, times, parkedBy, excused, raced>>
    BY DEF SendTask, SendReady, callVars, prdVars, subVars, taskVars, histVars
  <1>2. Head(sendQueue) \in Feedback
    <2>1. Head(sendQueue) \in Feedback \cup OtherTasks
      BY <1>0, <1>1 DEF TypeOK
    <2>2. QED
      BY <1>1, <2>1, OtherIsNot
  <1>3. /\ Line' = Line /\ sent' \in Seq(Feedback)
        /\ sendQueue' \in Seq(Feedback \cup OtherTasks)
    BY <1>0, <1>1, <1>2, LineStays
  <1>4. TypeOK'
    BY <1>0, <1>1, <1>3 DEF TypeOK
  <1>5. PlacesFit' /\ PeerFits' /\ TransfersFit'
    BY <1>0, <1>1 DEF PlacesFit, PeerFits, TransfersFit, Queued, Running
  <1>6. ASSUME NEW q \in Requests PROVE Fits(q)'
    <2>1. Lines(q)' = Lines(q) /\ (Queued(q)' <=> Queued(q))
      BY <1>1, <1>3 DEF Lines, Queued
    <2>2. entering' \cap lot' = {}
      BY <1>5 DEF PlacesFit
    <2>3. QED
      BY <1>0, <1>1, <1>3, <2>1, <2>2, Untouched
  <1>7. QED
    BY <1>4, <1>5, <1>6 DEF ParkInv, Fits

\* The callback takes a message out of its inbox.
LEMMA InboxTail ==
    ASSUME TypeOK, NEW r \in Requests, inbox[r] # <<>>,
           inbox' = [inbox EXCEPT ![r] = Tail(@)], parkee' = parkee
    PROVE  /\ inbox' \in [Requests -> Seq([parkee : Remotes, event : LotEvents \cup {"swap"}])]
           /\ \A q \in Requests \ {r} : inbox'[q] = inbox[q]
           /\ \A i \in 1..Len(inbox'[r]) : /\ i + 1 \in 1..Len(inbox[r])
                                           /\ inbox'[r][i] = inbox[r][i + 1]
           /\ \A i \in News(r)' : /\ i \in Nat /\ i + 1 \in News(r) /\ i + 1 > 1
                                  /\ inbox'[r][i] = inbox[r][i + 1]
           /\ \A i \in News(r) : i # 1 => i - 1 \in News(r)' /\ inbox'[r][i - 1] = inbox[r][i]
           /\ 1 \in News(r) <=> Relevant(r, Head(inbox[r]))
           /\ inbox[r][1] = Head(inbox[r])
           /\ Head(inbox[r]).parkee \in Remotes
  <1>1. PICK S : S = [parkee : Remotes, event : LotEvents \cup {"swap"}]
    OBVIOUS
  <1>2. PICK s : s = inbox[r]
    OBVIOUS
  <1>3. s \in Seq(S) /\ s # <<>> /\ inbox \in [Requests -> Seq(S)]
    BY <1>1, <1>2 DEF TypeOK
  <1>4. inbox'[r] = Tail(s) /\ \A q \in Requests \ {r} : inbox'[q] = inbox[q]
    BY <1>2, <1>3
  <1>5. /\ Len(s) \in Nat /\ Len(s) > 0 /\ Tail(s) \in Seq(S) /\ Len(Tail(s)) = Len(s) - 1
        /\ Head(s) = s[1] /\ s[1] \in S
        /\ \A i \in 1..Len(Tail(s)) : i + 1 \in 1..Len(s) /\ Tail(s)[i] = s[i + 1]
    BY <1>3
  <1>6. inbox' \in [Requests -> Seq(S)]
    BY <1>2, <1>3, <1>5
  <1>7. /\ News(r) = {i \in 1..Len(s) : Relevant(r, s[i])}
        /\ News(r)' = {i \in 1..Len(Tail(s)) : Relevant(r, Tail(s)[i])}
    BY <1>2, <1>4 DEF News, Relevant
  <1>8. \A i \in News(r) : i # 1 => i - 1 \in News(r)' /\ inbox'[r][i - 1] = inbox[r][i]
    <2> SUFFICES ASSUME NEW i \in 1..Len(s), Relevant(r, s[i]), i # 1
                 PROVE  i - 1 \in News(r)' /\ Tail(s)[i - 1] = s[i]
      BY <1>2, <1>4, <1>7
    <2>1. i - 1 \in 1..Len(Tail(s)) /\ (i - 1) + 1 = i
      BY <1>5
    <2>2. Tail(s)[i - 1] = s[i]
      BY <1>5, <2>1
    <2>3. QED
      BY <1>7, <2>1, <2>2
  <1>9. \A i \in News(r)' : /\ i \in Nat /\ i + 1 \in News(r) /\ i + 1 > 1
                            /\ inbox'[r][i] = inbox[r][i + 1]
    <2> SUFFICES ASSUME NEW i \in 1..Len(Tail(s)), Relevant(r, Tail(s)[i])
                 PROVE  /\ i \in Nat /\ i + 1 \in News(r) /\ i + 1 > 1
                        /\ Tail(s)[i] = s[i + 1]
      BY <1>2, <1>4, <1>7
    <2>1. i + 1 \in 1..Len(s) /\ Tail(s)[i] = s[i + 1] /\ i \in Nat /\ i + 1 > 1
      BY <1>5
    <2>2. Relevant(r, s[i + 1])
      BY <2>1
    <2>3. QED
      BY <1>7, <2>1, <2>2
  <1>10. 1 \in News(r) <=> Relevant(r, Head(inbox[r]))
    BY <1>2, <1>5, <1>7
  <1>11. QED
    BY <1>1, <1>2, <1>4, <1>5, <1>6, <1>8, <1>9, <1>10

LEMMA StasisEventStep ==
    ASSUME ParkInv, NEW r \in Requests, StasisEvent(r)
    PROVE  ParkInv'
  <1>0. /\ TypeOK /\ PlacesFit /\ TransfersFit /\ PeerFits
        /\ \A q \in Requests : Fits(q)
    BY ParkParts
  <1>1. /\ heard[r] = {} /\ inbox[r] # <<>> /\ inbox' = [inbox EXCEPT ![r] = Tail(@)]
        /\ UNCHANGED <<target, peer, entering, lot, step, monitor, parkee, held, open,
                       sendQueue, sent, parkQueue, xfer, times, parkedBy, excused, raced>>
    BY DEF StasisEvent, callVars, sendVars, taskVars, histVars
  <1>2. PICK m : m = Head(inbox[r])
    OBVIOUS
  <1>3. /\ inbox' \in [Requests -> Seq([parkee : Remotes, event : LotEvents \cup {"swap"}])]
        /\ \A q \in Requests \ {r} : inbox'[q] = inbox[q]
        /\ \A i \in 1..Len(inbox'[r]) : /\ i + 1 \in 1..Len(inbox[r])
                                        /\ inbox'[r][i] = inbox[r][i + 1]
        /\ \A i \in News(r)' : /\ i \in Nat /\ i + 1 \in News(r) /\ i + 1 > 1
                               /\ inbox'[r][i] = inbox[r][i + 1]
        /\ \A i \in News(r) : i # 1 => i - 1 \in News(r)' /\ inbox'[r][i - 1] = inbox[r][i]
        /\ 1 \in News(r) <=> Relevant(r, m)
        /\ inbox[r][1] = m /\ m.parkee \in Remotes
    BY <1>0, <1>1, <1>2, InboxTail
  <1>4. \A i \in News(r) : i \in Nat /\ i >= 1
    BY DEF News
  <1>5. /\ Relevant(r, m) => /\ heard' = [heard EXCEPT ![r] = {FeedbackOf(r, m.event)}]
                             /\ version' = [version EXCEPT ![r] = NextVersion(r)]
        /\ ~Relevant(r, m) => UNCHANGED <<heard, version>>
    BY <1>2 DEF StasisEvent
  <1>6. PICK f : f = [req |-> r, event |-> m.event, version |-> NextVersion(r)]
    OBVIOUS
  <1>7. /\ Relevant(r, m) => f \in Feedback /\ m.event \in LotEvents
        /\ f.req = r /\ f.event = m.event /\ f.version = NextVersion(r)
    BY <1>0, <1>6, VersionType, FeedbackOfIs DEF Relevant, Named
  <1>8. /\ heard' \in [Requests -> SUBSET Feedback] /\ version' \in [Requests -> Nat]
        /\ \A q \in Requests \ {r} : heard'[q] = heard[q] /\ version'[q] = version[q]
        /\ Relevant(r, m) => heard'[r] = {f} /\ version'[r] = NextVersion(r)
    <2>1. CASE Relevant(r, m)
      <3>1. /\ heard' = [heard EXCEPT ![r] = {f}]
            /\ version' = [version EXCEPT ![r] = NextVersion(r)]
        BY <1>5, <1>6, <2>1 DEF FeedbackOf
      <3>2. QED
        BY <1>0, <1>7, <2>1, <3>1, VersionType DEF TypeOK
    <2>2. CASE ~Relevant(r, m)
      BY <1>0, <1>5, <2>2 DEF TypeOK
    <2>3. QED
      BY <2>1, <2>2
  <1>9. TypeOK'
    BY <1>0, <1>1, <1>3, <1>8 DEF TypeOK
  <1>10. PlacesFit'
    <2>1. \A q \in Requests : \A i \in 1..Len(inbox'[q]) : times[inbox'[q][i].parkee] > 0
      BY SMTT(30), <1>0, <1>3 DEF PlacesFit
    <2>2. QED
      BY <1>0, <1>1, <2>1 DEF PlacesFit
  <1>11. PeerFits' /\ TransfersFit'
    BY <1>0, <1>1 DEF PeerFits, TransfersFit, Queued, Running
  <1>12. /\ Line' = Line
         /\ \A q \in Requests : /\ Lines(q)' = Lines(q) /\ (Queued(q)' <=> Queued(q))
                                /\ (Running(q)' <=> Running(q)) /\ (Failed(q)' <=> Failed(q))
    BY <1>1 DEF Line, Lines, Queued, Running, Failed
  <1>13. ASSUME NEW q \in Requests \ {r} PROVE Fits(q)'
    <2>1. entering' \cap lot' = {}
      BY <1>10 DEF PlacesFit
    <2>2. QED
      BY <1>0, <1>1, <1>3, <1>8, <1>12, <1>13, <2>1, Untouched
  <1>14. StepFits(r) /\ WatchFits(r) /\ LinesFit(r) /\ StoryFits(r)
    BY <1>0 DEF Fits
  <1>15. StepFits(r)'
    <2>1. step[r] \notin {"ready", "resolved"}
      BY <1>1, <1>14 DEF StepFits
    <2>2. QED
      BY <1>1, <1>14, <2>1 DEF StepFits
  <1>16. CASE ~Relevant(r, m)
    <2>1. heard' = heard /\ version' = version /\ heard'[r] = {}
      BY <1>1, <1>5, <1>16
    <2>2. \A i \in News(r) : i # 1
      BY <1>3, <1>16
    <2>3. NoNews(r)' <=> NoNews(r)
      BY <1>3, <2>1, <2>2 DEF NoNews
    <2>4. AllParked(r)' <=> AllParked(r)
      <3>1. (\A i \in News(r)' : Parked(inbox'[r][i])) <=> (\A i \in News(r) : Parked(inbox[r][i]))
        BY <1>3, <2>2 DEF Parked
      <3>2. QED
        BY <1>12, <2>1, <3>1 DEF AllParked, Parked
    <2>5. LinesFit(r)'
      BY <1>1, <1>12, <1>14, <2>1 DEF LinesFit
    <2>6. WatchFits(r)'
      <3>1. ASSUME NEW i \in News(r), Done(r, inbox[r][i].event)
            PROVE  \E j \in News(r)' : ~monitor'[r] \/ inbox'[r][j].event # "parked"
        <4>1. PICK j : j = i - 1
          OBVIOUS
        <4>2. j \in News(r)' /\ inbox'[r][j] = inbox[r][i]
          BY <1>3, <2>2, <4>1
        <4>3. ~monitor'[r] \/ inbox'[r][j].event # "parked"
          BY <1>1, <3>1, <4>2 DEF Done
        <4>4. QED
          BY <4>2, <4>3
      <3>2. QED
        BY <1>1, <1>12, <1>14, <2>1, <3>1 DEF WatchFits, Done
    <2>7. ASSUME OneStay(r)'
          PROVE  /\ OrderFits(r)' /\ FailureFits(r)' /\ ButtonFits(r)'
                 /\ monitor[r] => VersionFits(r)'
      <3>1. OneStay(r)
        BY <1>1, <1>12, <2>7 DEF OneStay
      <3>2. /\ OrderFits(r) /\ FailureFits(r) /\ ButtonFits(r)
            /\ monitor[r] => VersionFits(r)
        BY <1>14, <3>1 DEF StoryFits
      <3>3. OrderFits(r)'
        <4>1. \A i, j \in News(r)' : i < j => Parked(inbox'[r][i])
          <5> SUFFICES ASSUME NEW i \in News(r)', NEW j \in News(r)', i < j
                       PROVE  Parked(inbox'[r][i])
            OBVIOUS
          <5>1. i + 1 \in News(r) /\ j + 1 \in News(r) /\ i + 1 < j + 1
            BY <1>3
          <5>2. Parked(inbox[r][i + 1])
            BY <3>2, <5>1 DEF OrderFits
          <5>3. QED
            BY <1>3, <5>2 DEF Parked
        <4>2. QED
          BY <1>1, <1>12, <2>1, <2>3, <2>4, <3>2, <4>1 DEF OrderFits, Parked
      <3>4. FailureFits(r)'
        BY <1>1, <1>12, <3>2 DEF FailureFits
      <3>5. ButtonFits(r)'
        BY <1>1, <1>12, <2>3, <2>4, <3>2 DEF ButtonFits
      <3>6. monitor[r] => VersionFits(r)'
        BY <1>12, <2>1, <3>2 DEF VersionFits
      <3>7. QED
        BY <3>3, <3>4, <3>5, <3>6
    <2>8. Fits(r)'
      BY <1>1, <1>15, <2>5, <2>6, <2>7 DEF Fits, StoryFits
    <2>9. QED
      BY <1>9, <1>10, <1>11, <1>13, <2>8 DEF ParkInv, Fits
  <1>17. CASE Relevant(r, m)
    <2>1. /\ heard'[r] = {f} /\ version'[r] = NextVersion(r)
          /\ f.req = r /\ f.event = m.event /\ f.version = NextVersion(r)
      BY <1>7, <1>8, <1>17
    <2>2. 1 \in News(r) /\ inbox[r][1] = m
      BY <1>3, <1>17
    <2>3. parkee[r] \in Remotes /\ parkee[r] # NoPeer /\ times[parkee[r]] > 0
      <3>1. m.parkee = parkee[r]
        BY <1>17 DEF Relevant
      <3>2. 1 \in 1..Len(inbox[r])
        BY <2>2 DEF News
      <3>3. QED
        BY <1>0, <1>3, <3>1, <3>2, ParkConstants DEF PlacesFit
    <2>4. LinesFit(r)'
      BY <1>1, <1>12, <1>14, <2>1, <2>3 DEF LinesFit
    <2>5. WatchFits(r)'
      <3>1. ASSUME NEW i \in News(r), Done(r, inbox[r][i].event)
            PROVE  \/ \E j \in News(r)' : ~monitor'[r] \/ inbox'[r][j].event # "parked"
                   \/ \E g \in heard'[r] : ~monitor'[r] \/ g.event # "parked"
        <4>1. CASE i = 1
          BY <1>1, <2>1, <2>2, <3>1, <4>1 DEF Done
        <4>2. CASE i # 1
          <5>1. PICK j : j = i - 1
            OBVIOUS
          <5>2. j \in News(r)' /\ inbox'[r][j] = inbox[r][i]
            BY <1>3, <4>2, <5>1
          <5>3. ~monitor'[r] \/ inbox'[r][j].event # "parked"
            BY <1>1, <3>1, <5>2 DEF Done
          <5>4. QED
            BY <5>2, <5>3
        <4>3. QED
          BY <4>1, <4>2
      <3>2. QED
        BY <1>1, <1>12, <1>14, <3>1 DEF WatchFits, Done
    <2>6. ASSUME OneStay(r)'
          PROVE  /\ OrderFits(r)' /\ FailureFits(r)' /\ ButtonFits(r)'
                 /\ monitor[r] => VersionFits(r)'
      <3>1. OneStay(r) /\ times[parkee[r]] # 0 /\ ~Failed(r) /\ ~Failed(r)'
        <4>1. OneStay(r)
          BY <1>1, <1>12, <2>6 DEF OneStay
        <4>2. times[parkee[r]] # 0
          BY <2>3
        <4>3. QED
          BY <1>12, <4>1, <4>2 DEF OneStay
      <3>2. /\ OrderFits(r) /\ FailureFits(r) /\ ButtonFits(r)
            /\ monitor[r] => VersionFits(r)
        BY <1>14, <3>1 DEF StoryFits
      <3>3. ~NoNews(r) /\ News(r) # {} /\ \A i \in Lines(r) : Parked(Line[i])
        BY <2>2, <3>2 DEF NoNews, OrderFits
      <3>4. News(r)' # {} => Parked(f)
        <4> SUFFICES ASSUME NEW i \in News(r)' PROVE Parked(f)
          OBVIOUS
        <4>1. i + 1 \in News(r) /\ 1 < i + 1
          BY <1>3
        <4>2. Parked(inbox[r][1])
          BY <2>2, <3>2, <4>1 DEF OrderFits
        <4>3. QED
          BY <2>1, <2>2, <4>2 DEF Parked
      <3>5. \A i, j \in News(r)' : i < j => Parked(inbox'[r][i])
        <4> SUFFICES ASSUME NEW i \in News(r)', NEW j \in News(r)', i < j
                     PROVE  Parked(inbox'[r][i])
          OBVIOUS
        <4>1. i + 1 \in News(r) /\ j + 1 \in News(r) /\ i + 1 < j + 1
          BY <1>3
        <4>2. Parked(inbox[r][i + 1])
          BY <3>2, <4>1 DEF OrderFits
        <4>3. QED
          BY <1>3, <4>2 DEF Parked
      <3>6. AllParked(r)' <=> AllParked(r)
        <4>1. /\ (\A i \in News(r)' : Parked(inbox'[r][i])) /\ Parked(f)
              <=> \A i \in News(r) : Parked(inbox[r][i])
          <5>1. ASSUME Parked(f), NEW i \in News(r), \A j \in News(r)' : Parked(inbox'[r][j])
                PROVE  Parked(inbox[r][i])
            <6>1. CASE i = 1
              BY <2>1, <2>2, <5>1, <6>1 DEF Parked
            <6>2. CASE i # 1
              BY <1>3, <5>1, <6>2 DEF Parked
            <6>3. QED
              BY <6>1, <6>2
          <5>2. ASSUME \A i \in News(r) : Parked(inbox[r][i]), NEW j \in News(r)'
                PROVE  Parked(inbox'[r][j])
            BY <1>3, <5>2 DEF Parked
          <5>3. ASSUME \A i \in News(r) : Parked(inbox[r][i])
                PROVE  Parked(f)
            BY <2>1, <2>2, <5>3 DEF Parked
          <5>4. QED
            BY <5>1, <5>2, <5>3
        <4>2. (\A g \in heard'[r] : Parked(g)) <=> Parked(f)
          BY <2>1
        <4>3. heard[r] = {}
          BY <1>1
        <4>4. QED
          BY <1>12, <4>1, <4>2, <4>3 DEF AllParked, Parked
      <3>7. OrderFits(r)'
        BY <1>1, <1>12, <2>1, <3>2, <3>3, <3>4, <3>5, <3>6 DEF OrderFits, Parked
      <3>8. FailureFits(r)'
        BY <1>1, <3>1 DEF FailureFits
      <3>9. ButtonFits(r)'
        BY <1>1, <1>12, <3>2, <3>3, <3>6 DEF ButtonFits
      <3>10. monitor[r] => VersionFits(r)'
        <4> SUFFICES ASSUME monitor[r] PROVE VersionFits(r)'
          OBVIOUS
        <4>1. version[r] \in Nat /\ version'[r] = version[r] + 1
          BY <1>0, <2>1 DEF TypeOK, NextVersion
        <4>2. version'[r] - 1 = version[r] /\ f.version = version'[r]
          BY <2>1, <4>1
        <4>3. /\ \A i, j \in Lines(r) : i < j => Line[i].version < Line[j].version
              /\ \A i \in Lines(r) : Line[i].version \in 1..version[r]
              /\ \A v \in 1..version[r] : \E i \in Lines(r) : Line[i].version = v
          BY <1>1, <3>1, <3>2 DEF VersionFits
        <4>4. QED
          BY <1>12, <2>1, <4>1, <4>2, <4>3 DEF VersionFits
      <3>11. QED
        BY <3>7, <3>8, <3>9, <3>10
    <2>7. Fits(r)'
      BY <1>1, <1>15, <2>4, <2>5, <2>6 DEF Fits, StoryFits
    <2>8. QED
      BY <1>9, <1>10, <1>11, <1>13, <2>7 DEF ParkInv, Fits
  <1>18. QED
    BY <1>16, <1>17

LEMMA StasisReplyStep ==
    ASSUME ParkInv, NEW r \in Requests, StasisReply(r)
    PROVE  ParkInv'
  <1>0. /\ TypeOK /\ PlacesFit /\ TransfersFit /\ PeerFits
        /\ \A q \in Requests : Fits(q)
    BY ParkParts
  <1>1. PICK f \in heard[r] :
           /\ QueueFeedback(f)
           /\ IF Done(r, f.event) THEN Unsubscribe(r) ELSE UNCHANGED <<open, held>>
           /\ heard' = [heard EXCEPT ![r] = {}]
           /\ UNCHANGED <<callVars, step, monitor, parkee, version, inbox, sent,
                          taskVars, times, parkedBy, raced>>
    BY DEF StasisReply
  <1>2. UNCHANGED <<target, peer, entering, lot, step, monitor, parkee, version, inbox,
                    sent, parkQueue, xfer, times, parkedBy, raced>>
    BY <1>1 DEF callVars, taskVars
  <1>3. StepFits(r) /\ WatchFits(r) /\ LinesFit(r) /\ StoryFits(r)
    BY <1>0 DEF Fits
  <1>4. /\ f \in Feedback /\ f.req = r /\ heard[r] = {f}
        /\ parkee[r] # NoPeer /\ times[parkee[r]] > 0
    BY <1>0, <1>1, <1>3 DEF TypeOK, LinesFit
  <1>5. /\ heard' \in [Requests -> SUBSET Feedback] /\ heard'[r] = {}
        /\ \A q \in Requests \ {r} : heard'[q] = heard[q]
    BY <1>0, <1>1 DEF TypeOK
  <1>6. PICK k : k = Len(Line) + 1
    OBVIOUS
  <1>7. /\ sendQueue' \in Seq(Feedback \cup OtherTasks)
        /\ excused' \subseteq Requests /\ excused \subseteq excused'
        /\ k \in Nat
        /\ \A q \in Requests : /\ \A i \in Lines(q) : Line'[i] = Line[i] /\ i < k /\ i \in Nat
                               /\ q # r => Lines(q)' = Lines(q)
        /\ r \notin excused' => Lines(r)' = Lines(r) \cup {k} /\ Line'[k] = f
    BY <1>0, <1>1, <1>2, <1>4, <1>6, FeedbackQueued
  <1>8. /\ open' \in [Requests -> BOOLEAN] /\ held' \in [Requests -> BOOLEAN]
        /\ \A q \in Requests \ {r} : open'[q] = open[q] /\ held'[q] = held[q]
        /\ Done(r, f.event) => (open'[r] <=> open[r] /\ ~held[r]) /\ ~held'[r]
        /\ ~Done(r, f.event) => open'[r] = open[r] /\ held'[r] = held[r]
    <2>1. CASE Done(r, f.event)
      BY <1>0, <1>1, <2>1, Unsubscribed
    <2>2. CASE ~Done(r, f.event)
      BY <1>0, <1>1, <2>2 DEF TypeOK
    <2>3. QED
      BY <2>1, <2>2
  <1>9. TypeOK'
    BY <1>0, <1>2, <1>5, <1>7, <1>8 DEF TypeOK
  <1>10. PlacesFit' /\ PeerFits' /\ TransfersFit'
    BY <1>0, <1>2 DEF PlacesFit, PeerFits, TransfersFit, Queued, Running
  <1>11. \A q \in Requests : /\ (Running(q)' <=> Running(q)) /\ (Queued(q)' <=> Queued(q))
                             /\ (Failed(q)' <=> Failed(q)) /\ News(q)' = News(q)
    BY <1>2 DEF Running, Queued, News, Relevant, Failed
  <1>12. ASSUME NEW q \in Requests \ {r} PROVE Fits(q)'
    <2>1. entering' \cap lot' = {}
      BY <1>10 DEF PlacesFit
    <2>2. QED
      BY <1>0, <1>2, <1>5, <1>7, <1>8, <1>11, <1>12, <2>1, Untouched
  <1>13. StepFits(r)'
    <2>1. step[r] \notin {"ready", "resolved"}
      BY <1>3, <1>4 DEF StepFits
    <2>2. /\ step'[r] = "subscribed" => open'[r]
          /\ open'[r] => step'[r] \in {"subscribed", "accepted"}
          /\ held'[r] <=> open'[r] /\ step'[r] = "accepted"
      BY <1>2, <1>3, <1>8 DEF StepFits
    <2>3. QED
      BY <1>2, <1>3, <2>1, <2>2 DEF StepFits
  <1>14. WatchFits(r)'
    <2>1. CASE Done(r, f.event)
      BY <1>8, <2>1 DEF WatchFits
    <2>2. CASE ~Done(r, f.event)
      BY ZenonT(40), <1>2, <1>3, <1>4, <1>7, <1>8, <1>11, <2>2 DEF WatchFits, Done
    <2>3. QED
      BY <2>1, <2>2
  <1>15. LinesFit(r)'
    <2>1. step[r] \notin {"ready", "resolved"}
      BY <1>3, <1>4 DEF StepFits
    <2>2. QED
      BY <1>2, <1>5, <2>1 DEF LinesFit
  <1>16. ASSUME OneStay(r)'
         PROVE  /\ OrderFits(r)' /\ FailureFits(r)' /\ ButtonFits(r)'
                /\ monitor[r] => VersionFits(r)'
    <2>1. OneStay(r) /\ ~Failed(r) /\ times[parkee[r]] = 1 /\ r \notin excused'
      BY <1>2, <1>4, <1>7, <1>11, <1>16 DEF OneStay
    <2>2. /\ OrderFits(r) /\ FailureFits(r) /\ ButtonFits(r)
          /\ monitor[r] => VersionFits(r)
      BY <1>3, <2>1 DEF StoryFits
    <2>3. Lines(r)' = Lines(r) \cup {k} /\ Line'[k] = f
      BY <1>7, <2>1
    <2>4. ~NoNews(r) /\ \A i \in Lines(r) : Parked(Line[i]) /\ Parked(Line'[i])
      BY <1>4, <1>7, <2>2 DEF NoNews, OrderFits
    <2>5. NoNews(r)' <=> News(r) = {}
      BY <1>5, <1>11 DEF NoNews
    <2>6. AllParked(r)' <=> AllParked(r)
      <3>1. (\A i \in Lines(r)' : Parked(Line'[i])) <=> Parked(f)
        BY <2>3, <2>4
      <3>2. (\A i \in Lines(r) : Parked(Line[i])) /\ ((\A g \in heard[r] : Parked(g)) <=> Parked(f))
        BY <1>4, <2>4
      <3>3. \A g \in heard'[r] : Parked(g)
        BY <1>5
      <3>4. (\A i \in News(r)' : Parked(inbox'[r][i])) <=> (\A i \in News(r) : Parked(inbox[r][i]))
        BY <1>2, <1>11
      <3>5. AllParked(r)' <=> /\ \A i \in Lines(r)' : Parked(Line'[i])
                              /\ \A g \in heard'[r] : Parked(g)
                              /\ \A i \in News(r)' : Parked(inbox'[r][i])
        BY DEF AllParked, Parked
      <3>6. QED
        BY <3>1, <3>2, <3>3, <3>4, <3>5 DEF AllParked
    <2>7. OrderFits(r)'
      <3>1. \A i, j \in Lines(r)' : i < j => Parked(Line'[i])
        BY <1>7, <2>3, <2>4
      <3>2. News(r) # {} => \A i \in Lines(r)' : Parked(Line'[i])
        <4>1. News(r) # {} => Parked(f)
          BY <1>4, <2>2 DEF OrderFits
        <4>2. QED
          BY <2>3, <2>4, <4>1
      <3>3. parkee[r] \notin entering
        BY <2>2, <2>4 DEF OrderFits
      <3>4. \A i, j \in News(r) : i < j => Parked(inbox[r][i])
        BY <2>2 DEF OrderFits
      <3>5. parkee[r] \in lot => AllParked(r)
        BY <2>2 DEF OrderFits
      <3>6. QED
        BY <1>2, <1>5, <1>11, <2>5, <2>6, <3>1, <3>2, <3>3, <3>4, <3>5 DEF OrderFits, Parked
    <2>8. FailureFits(r)'
      BY <1>2, <2>1 DEF FailureFits
    <2>9. ButtonFits(r)'
      <3> SUFFICES ASSUME monitor[r], step[r] # "refused", AllParked(r)
                   PROVE  open'[r] /\ parkee[r] \in lot
        BY <1>2, <2>6 DEF ButtonFits
      <3>1. open[r] /\ parkee[r] \in lot
        BY <2>1, <2>2, <2>4 DEF ButtonFits
      <3>2. ~Done(r, f.event)
        BY <1>4 DEF AllParked, Parked, Done
      <3>3. QED
        BY <1>8, <3>1, <3>2
    <2>10. monitor[r] => VersionFits(r)'
      <3> SUFFICES ASSUME monitor[r] PROVE VersionFits(r)'
        OBVIOUS
      <3>1. PICK v : v = version[r]
        OBVIOUS
      <3>2. /\ v - 1 \in Nat /\ f.version = v
            /\ \A i, j \in Lines(r) : i < j => Line[i].version < Line[j].version
            /\ \A i \in Lines(r) : Line[i].version \in 1..(v - 1)
            /\ \A w \in 1..(v - 1) : \E i \in Lines(r) : Line[i].version = w
        BY <1>4, <2>2, <3>1 DEF VersionFits
      <3>3. v \in Nat
        BY <1>0, <3>1, VersionType
      <3>4. \A i, j \in Lines(r)' : i < j => Line'[i].version < Line'[j].version
        <4> SUFFICES ASSUME NEW i \in Lines(r)', NEW j \in Lines(r)', i < j
                     PROVE  Line'[i].version < Line'[j].version
          OBVIOUS
        <4>1. i \in Lines(r) /\ Line'[i] = Line[i]
          BY <1>7, <2>3
        <4>2. CASE j \in Lines(r)
          BY <1>7, <3>2, <4>1, <4>2
        <4>3. CASE j = k
          BY <2>3, <3>2, <3>3, <4>1, <4>3
        <4>4. QED
          BY <2>3, <4>2, <4>3
      <3>5. \A i \in Lines(r)' : Line'[i].version \in 1..v
        <4> SUFFICES ASSUME NEW i \in Lines(r)' PROVE Line'[i].version \in 1..v
          OBVIOUS
        <4>1. CASE i \in Lines(r)
          BY <1>7, <3>2, <3>3, <4>1
        <4>2. CASE i = k
          BY <2>3, <3>2, <3>3, <4>2
        <4>3. QED
          BY <2>3, <4>1, <4>2
      <3>6. \A w \in 1..v : \E i \in Lines(r)' : Line'[i].version = w
        <4> SUFFICES ASSUME NEW w \in 1..v PROVE \E i \in Lines(r)' : Line'[i].version = w
          OBVIOUS
        <4>1. CASE w = v
          BY <2>3, <3>2, <4>1
        <4>2. CASE w # v
          <5>1. w \in 1..(v - 1)
            BY <3>3, <4>2
          <5>2. PICK i \in Lines(r) : Line[i].version = w
            BY <3>2, <5>1
          <5>3. QED
            BY <1>7, <2>3, <5>2
        <4>3. QED
          BY <4>1, <4>2
      <3>7. heard'[r] = {} /\ ~Failed(r)' /\ version'[r] = v
        BY <1>2, <1>5, <1>11, <2>1, <3>1
      <3>8. QED
        BY <3>3, <3>4, <3>5, <3>6, <3>7 DEF VersionFits
    <2>11. QED
      BY <2>7, <2>8, <2>9, <2>10
  <1>17. Fits(r)'
    BY <1>2, <1>13, <1>14, <1>15, <1>16 DEF Fits, StoryFits
  <1>18. QED
    BY <1>9, <1>10, <1>12, <1>17 DEF ParkInv, Fits

-----------------------------------------------------------------------------
(* The server's channels.                                                   *)

\* The peer changes: a transfer that looked at the old one is raced.
LEMMA PeerChanges ==
    ASSUME TypeOK, PeerFits, NEW p, PeerBecomes(p), UNCHANGED <<parkee, xfer, parkedBy>>
    PROVE  /\ peer' = p /\ PeerFits'
           /\ raced \subseteq raced' /\ raced' \subseteq Requests
  <1>1. \A x \in xfer : x.req \in Requests
    BY DEF TypeOK
  <1>2. \A x \in xfer : x.stage = "checked" => x.req \in raced'
    BY DEF PeerBecomes
  <1>3. QED
    BY <1>1, <1>2 DEF PeerBecomes, PeerFits, TypeOK

LEMMA ServerKeeps ==
    ASSUME UNCHANGED serverVars, UNCHANGED parkedBy
    PROVE  /\ UNCHANGED <<step, monitor, parkee, version, held, open, heard, sendQueue, sent,
                          parkQueue, xfer>>
           /\ Line' = Line
           /\ TransfersFit => TransfersFit'
           /\ \A q \in Requests : /\ Lines(q)' = Lines(q)
                                  /\ Queued(q)' <=> Queued(q)
                                  /\ Running(q)' <=> Running(q)
                                  /\ Failed(q)' <=> Failed(q)
  <1>1. UNCHANGED <<step, monitor, parkee, version, held, open, heard, sendQueue, sent,
                    parkQueue, xfer>>
    BY DEF serverVars, prdVars, sendVars, taskVars
  <1>2. QED
    BY <1>1 DEF Line, Lines, Queued, Running, Failed, TransfersFit

LEMMA PeerSwitched ==
    ASSUME ParkInv, NEW p \in Remotes \cup {NoPeer}, p \notin entering \cup lot,
           PeerBecomes(p),
           UNCHANGED <<target, entering, lot, inbox, times, parkedBy, excused, serverVars>>
    PROVE  ParkInv'
  <1>0. /\ TypeOK /\ PlacesFit /\ TransfersFit /\ PeerFits
        /\ \A q \in Requests : Fits(q)
    BY ParkParts
  <1>1. /\ UNCHANGED <<step, monitor, parkee, version, held, open, heard, sendQueue, sent,
                       parkQueue, xfer, target, entering, lot, inbox, times, parkedBy, excused>>
        /\ Line' = Line /\ TransfersFit'
        /\ \A q \in Requests : Lines(q)' = Lines(q) /\ (Queued(q)' <=> Queued(q))
    BY <1>0, ServerKeeps
  <1>2. peer' = p /\ PeerFits' /\ raced \subseteq raced' /\ raced' \subseteq Requests
    BY <1>0, <1>1, PeerChanges
  <1>3. TypeOK' /\ PlacesFit'
    BY <1>0, <1>1, <1>2 DEF TypeOK, PlacesFit
  <1>4. ASSUME NEW q \in Requests PROVE Fits(q)'
    <2>1. entering' \cap lot' = {}
      BY <1>3 DEF PlacesFit
    <2>2. QED
      BY <1>0, <1>1, <1>2, <2>1, Untouched
  <1>5. QED
    BY <1>1, <1>2, <1>3, <1>4 DEF ParkInv, Fits

LEMMA SwitchPeerStep ==
    ASSUME ParkInv, NEW p \in Remotes \cup {NoPeer}, SwitchPeer(p)
    PROVE  ParkInv'
  <1>1. p \notin entering \cup lot
    BY DEF SwitchPeer, Connected
  <1>2. QED
    BY <1>1, PeerSwitched DEF SwitchPeer

LEMMA ParkElsewhereStep ==
    ASSUME ParkInv, ParkElsewhere
    PROVE  ParkInv'
  <1>0. /\ TypeOK /\ PlacesFit /\ TransfersFit /\ PeerFits
        /\ \A q \in Requests : Fits(q)
    BY ParkParts
  <1>1. PICK p : p = peer
    OBVIOUS
  <1>2. /\ p \in Remotes /\ p # NoPeer /\ PeerBecomes(NoPeer)
        /\ entering' = entering \cup {p} /\ times' = [times EXCEPT ![p] = @ + 1]
        /\ UNCHANGED <<target, lot, inbox, parkedBy, excused, serverVars>>
    BY <1>0, <1>1 DEF ParkElsewhere, TypeOK
  <1>3. /\ UNCHANGED <<step, monitor, parkee, version, held, open, heard, sendQueue, sent,
                       parkQueue, xfer, target, lot, inbox, parkedBy, excused>>
        /\ Line' = Line /\ TransfersFit'
        /\ \A q \in Requests : /\ Lines(q)' = Lines(q) /\ (Queued(q)' <=> Queued(q))
                               /\ (Failed(q)' <=> Failed(q))
    BY <1>0, <1>2, ServerKeeps
  <1>4. peer' = NoPeer /\ PeerFits' /\ raced \subseteq raced' /\ raced' \subseteq Requests
    BY <1>0, <1>2, <1>3, PeerChanges
  <1>5. /\ times' \in [Remotes -> Nat] /\ times'[p] = times[p] + 1 /\ times'[p] > 0
        /\ \A o \in Remotes : o # p => times'[o] = times[o]
    BY <1>0, <1>2 DEF TypeOK
  <1>6. TypeOK'
    BY <1>0, <1>2, <1>3, <1>4, <1>5 DEF TypeOK
  <1>7. PlacesFit'
    <2>1. \A o \in entering \cup lot : o \in Remotes
      BY <1>0 DEF TypeOK
    <2>2. \A q \in Requests : \A i \in 1..Len(inbox[q]) : inbox[q][i].parkee \in Remotes
      BY <1>0, InboxType
    <2>3. \A o \in entering' \cup lot : times'[o] > 0
      BY <1>0, <1>2, <1>5, <2>1 DEF PlacesFit
    <2>4. \A q \in Requests : \A i \in 1..Len(inbox[q]) : times'[inbox[q][i].parkee] > 0
      BY <1>0, <1>5, <2>2 DEF PlacesFit
    <2>5. NoPeer \notin entering' \cup lot
      BY <1>2, <2>1, ParkConstants
    <2>6. entering' \cap lot = {}
      BY <1>0, <1>1, <1>2 DEF PlacesFit
    <2>7. QED
      BY <1>3, <1>4, <2>3, <2>4, <2>5, <2>6 DEF PlacesFit
  <1>8. ASSUME NEW q \in Requests, parkee[q] = p PROVE Fits(q)'
    BY <1>0, <1>2, <1>3, <1>4, <1>5, <1>8, SetsOut
  <1>9. ASSUME NEW q \in Requests, parkee[q] # p PROVE Fits(q)'
    <2>1. entering' \cap lot' = {}
      BY <1>7 DEF PlacesFit
    <2>2. parkee[q] # NoPeer => times'[parkee[q]] = times[parkee[q]]
      BY <1>0, <1>5, <1>9 DEF TypeOK
    <2>3. QED
      BY <1>0, <1>2, <1>3, <1>4, <1>9, <2>1, <2>2, Untouched
  <1>10. QED
    BY <1>3, <1>4, <1>6, <1>7, <1>8, <1>9 DEF ParkInv, Fits

\* Who asked for the call is excused: only what does not depend on it is left.
LEMMA ExcusedFits ==
    ASSUME NEW q \in Requests, Fits(q), q \in excused',
           UNCHANGED <<target, step, monitor, parkee, version, held, open, heard>>,
           step[q] \in {"ready", "resolved"} => inbox'[q] = inbox[q],
           times'[parkee[q]] = times[parkee[q]], Lines(q)' = Lines(q)
    PROVE  Fits(q)'
  <1>1. StepFits(q)' /\ WatchFits(q)' /\ LinesFit(q)' /\ StoryFits(q)'
    BY DEF Fits, StepFits, WatchFits, LinesFit, StoryFits, OneStay
  <1>2. QED
    BY <1>1 DEF Fits

LEMMA VanishStep ==
    ASSUME ParkInv, NEW p \in Remotes, Vanish(p)
    PROVE  ParkInv'
  <1>0. /\ TypeOK /\ PlacesFit /\ TransfersFit /\ PeerFits
        /\ \A q \in Requests : Fits(q)
    BY ParkParts
  <1>1. /\ entering' = entering \ {p} /\ excused' = excused \cup Askers(p)
        /\ UNCHANGED <<target, peer, lot, inbox, times, parkedBy, raced, serverVars>>
    BY DEF Vanish
  <1>2. /\ UNCHANGED <<step, monitor, parkee, version, held, open, heard, sendQueue, sent,
                       parkQueue, xfer>>
        /\ Line' = Line /\ TransfersFit'
        /\ \A q \in Requests : Lines(q)' = Lines(q) /\ (Queued(q)' <=> Queued(q))
    BY <1>0, <1>1, ServerKeeps
  <1>3. TypeOK'
    BY <1>0, <1>1, <1>2 DEF TypeOK, Askers
  <1>4. PlacesFit' /\ PeerFits'
    BY <1>0, <1>1, <1>2 DEF PlacesFit, PeerFits
  <1>5. ASSUME NEW q \in Requests PROVE Fits(q)'
    <2>1. CASE parkee[q] = p
      BY <1>0, <1>1, <1>2, <2>1, ExcusedFits DEF Askers
    <2>2. CASE parkee[q] # p
      <3>1. News(q)' = News(q)
        BY <1>1, <1>2, SameNews
      <3>2. QED
        BY <1>0, <1>1, <1>2, <2>2, <3>1, Unconcerned
    <2>3. QED
      BY <2>1, <2>2
  <1>6. QED
    BY <1>2, <1>3, <1>4, <1>5 DEF ParkInv, Fits

\* Every open subscription gets the message, as its last.
LEMMA Published ==
    ASSUME TypeOK, NEW p \in Remotes, NEW e \in LotEvents \cup {"swap"}, Publish(p, e),
           UNCHANGED parkee
    PROVE  /\ inbox' \in [Requests -> Seq([parkee : Remotes, event : LotEvents \cup {"swap"}])]
           /\ \A q \in Requests : \A i \in 1..Len(inbox'[q]) :
                 \/ inbox'[q][i].parkee = p
                 \/ i \in 1..Len(inbox[q]) /\ inbox'[q][i] = inbox[q][i]
           /\ \A q \in Requests : ~open[q] => inbox'[q] = inbox[q] /\ News(q)' = News(q)
           /\ \A q \in Requests : \A i \in News(q) : inbox'[q][i] = inbox[q][i]
           /\ \A q \in Requests :
                 parkee[q] # p \/ e \notin Named => News(q)' = News(q)
           /\ \A q \in Requests :
                 open[q] /\ parkee[q] = p /\ e \in Named =>
                     LET k == Len(inbox[q]) + 1
                     IN  /\ k \in Nat /\ inbox'[q][k].event = e
                         /\ \A i \in News(q) : i \in Nat /\ i < k
                         /\ News(q)' = News(q) \cup {k}
  <1>1. PICK S : S = [parkee : Remotes, event : LotEvents \cup {"swap"}]
    OBVIOUS
  <1>2. PICK m : m = [parkee |-> p, event |-> e]
    OBVIOUS
  <1>3. m \in S /\ m.parkee = p /\ m.event = e
    BY <1>1, <1>2
  <1>4. inbox \in [Requests -> Seq(S)]
    BY <1>1 DEF TypeOK
  <1>5. inbox' = [q \in Requests |-> IF open[q] THEN Append(inbox[q], m) ELSE inbox[q]]
    BY <1>2 DEF Publish
  <1>6. ASSUME NEW q \in Requests, ~open[q]
        PROVE  inbox'[q] = inbox[q] /\ inbox'[q] \in Seq(S) /\ News(q)' = News(q)
    BY <1>4, <1>5, <1>6 DEF News, Relevant
  <1>7. ASSUME NEW q \in Requests, open[q]
        PROVE  /\ Len(inbox[q]) \in Nat /\ Len(inbox'[q]) = Len(inbox[q]) + 1
               /\ inbox'[q][Len(inbox[q]) + 1] = m
               /\ \A i \in 1..Len(inbox[q]) : inbox'[q][i] = inbox[q][i]
               /\ inbox'[q] \in Seq(S)
    <2>1. PICK s : s = inbox[q]
      OBVIOUS
    <2>2. s \in Seq(S) /\ inbox'[q] = Append(s, m)
      BY <1>4, <1>5, <1>7, <2>1
    <2>3. QED
      BY <1>3, <2>1, <2>2
  <1>8. inbox' \in [Requests -> Seq(S)]
    <2>1. \A q \in Requests : inbox'[q] \in Seq(S)
      BY <1>6, <1>7
    <2>2. QED
      BY <1>5, <2>1
  <1>9. ASSUME NEW q \in Requests, open[q]
        PROVE  LET k == Len(inbox[q]) + 1
               IN  /\ k \in Nat /\ \A i \in News(q) : i \in Nat /\ i < k
                   /\ News(q)' = IF parkee[q] = p /\ e \in Named THEN News(q) \cup {k} ELSE News(q)
    <2>1. PICK n : n = Len(inbox[q])
      OBVIOUS
    <2>2. n \in Nat /\ 1..(n + 1) = 1..n \cup {n + 1} /\ Len(inbox'[q]) = n + 1
      BY <1>7, <1>9, <2>1
    <2>3. /\ News(q) = {i \in 1..n : Relevant(q, inbox[q][i])}
          /\ News(q)' = {i \in 1..(n + 1) : Relevant(q, inbox'[q][i])}
      BY <2>1, <2>2 DEF News, Relevant
    <2>4. /\ \A i \in 1..n : inbox'[q][i] = inbox[q][i]
          /\ inbox'[q][n + 1] = m
      BY <1>7, <1>9, <2>1
    <2>5. Relevant(q, m) <=> parkee[q] = p /\ e \in Named
      BY <1>3 DEF Relevant
    <2>6. News(q)' = IF parkee[q] = p /\ e \in Named THEN News(q) \cup {n + 1} ELSE News(q)
      BY <2>2, <2>3, <2>4, <2>5
    <2>7. QED
      BY <2>1, <2>2, <2>3, <2>6
  <1>10. ASSUME NEW q \in Requests, NEW i \in News(q)
         PROVE  inbox'[q][i] = inbox[q][i]
    <2>1. i \in 1..Len(inbox[q])
      BY DEF News
    <2>2. QED
      BY <1>6, <1>7, <2>1
  <1>11. ASSUME NEW q \in Requests, NEW i \in 1..Len(inbox'[q])
         PROVE  \/ inbox'[q][i].parkee = p
                \/ i \in 1..Len(inbox[q]) /\ inbox'[q][i] = inbox[q][i]
    <2>1. CASE open[q]
      BY <1>3, <1>7, <2>1
    <2>2. CASE ~open[q]
      BY <1>6, <2>2
    <2>3. QED
      BY <2>1, <2>2
  <1>12. \A q \in Requests : parkee[q] # p \/ e \notin Named => News(q)' = News(q)
    BY <1>6, <1>9
  <1>13. \A q \in Requests :
            open[q] /\ parkee[q] = p /\ e \in Named =>
                LET k == Len(inbox[q]) + 1
                IN  /\ k \in Nat /\ inbox'[q][k].event = e
                    /\ \A i \in News(q) : i \in Nat /\ i < k
                    /\ News(q)' = News(q) \cup {k}
    BY <1>3, <1>7, <1>9
  <1>14. QED
    BY <1>1, <1>6, <1>8, <1>10, <1>11, <1>12, <1>13

LEMMA ArriveStep ==
    ASSUME ParkInv, NEW p \in Remotes, Arrive(p)
    PROVE  ParkInv'
  <1>0. /\ TypeOK /\ PlacesFit /\ TransfersFit /\ PeerFits
        /\ \A q \in Requests : Fits(q)
    BY ParkParts
  <1>1. PICK e \in {"parked", "error"} :
           /\ Publish(p, e)
           /\ lot' = IF e = "parked" THEN lot \cup {p} ELSE lot
    BY DEF Arrive
  <1>2. /\ p \in entering /\ entering' = entering \ {p}
        /\ UNCHANGED <<target, peer, times, parkedBy, excused, raced, serverVars>>
    BY DEF Arrive, histVars
  <1>3. /\ UNCHANGED <<step, monitor, parkee, version, held, open, heard, sendQueue, sent,
                       parkQueue, xfer>>
        /\ Line' = Line /\ TransfersFit'
        /\ \A q \in Requests : /\ Lines(q)' = Lines(q) /\ (Queued(q)' <=> Queued(q))
                               /\ (Running(q)' <=> Running(q)) /\ (Failed(q)' <=> Failed(q))
    BY <1>0, <1>2, ServerKeeps
  <1>4. e \in Named /\ e \in LotEvents \cup {"swap"}
    BY DEF Named, LotEvents
  <1>5. /\ inbox' \in [Requests -> Seq([parkee : Remotes, event : LotEvents \cup {"swap"}])]
        /\ \A q \in Requests : \A i \in 1..Len(inbox'[q]) :
              \/ inbox'[q][i].parkee = p
              \/ i \in 1..Len(inbox[q]) /\ inbox'[q][i] = inbox[q][i]
        /\ \A q \in Requests : ~open[q] => inbox'[q] = inbox[q] /\ News(q)' = News(q)
        /\ \A q \in Requests : \A i \in News(q) : inbox'[q][i] = inbox[q][i]
        /\ \A q \in Requests : parkee[q] # p => News(q)' = News(q)
    BY <1>0, <1>1, <1>3, <1>4, Published
  <1>6. ASSUME NEW q \in Requests, open[q], parkee[q] = p
        PROVE  \E k \in Nat : inbox'[q][k].event = e /\ News(q)' = News(q) \cup {k}
    BY <1>0, <1>1, <1>3, <1>4, <1>6, Published
  <1>7. TypeOK'
    BY <1>0, <1>1, <1>2, <1>3, <1>5 DEF TypeOK
  <1>8. times[p] > 0 /\ p \notin lot /\ p # peer
    BY <1>0, <1>2 DEF PlacesFit
  <1>9. PlacesFit'
    BY <1>0, <1>1, <1>2, <1>5, <1>8 DEF PlacesFit
  <1>10. PeerFits'
    BY <1>0, <1>2, <1>3 DEF PeerFits
  <1>11. \A q \in Requests : step[q] \in {"ready", "resolved"} => inbox'[q] = inbox[q]
    BY <1>0, <1>5 DEF Fits, StepFits
  <1>12. ASSUME NEW q \in Requests, parkee[q] # p PROVE Fits(q)'
    BY <1>0, <1>1, <1>2, <1>3, <1>5, <1>11, <1>12, Unconcerned
  <1>13. ASSUME NEW q \in Requests, parkee[q] = p PROVE Fits(q)'
    <2>1. StepFits(q) /\ LinesFit(q) /\ StoryFits(q)
      BY <1>0 DEF Fits
    <2>2. StepFits(q)' /\ LinesFit(q)'
      BY <1>2, <1>3, <1>11, <2>1 DEF StepFits, LinesFit
    <2>3. WatchFits(q)'
      <3>1. held[q] => open[q]
        BY <2>1 DEF StepFits
      <3>2. ASSUME open[q]
            PROVE  \/ monitor'[q] /\ parkee'[q] \in lot'
                   \/ \E i \in News(q)' : ~monitor'[q] \/ inbox'[q][i].event # "parked"
        BY <1>1, <1>3, <1>6, <1>13, <3>2 DEF TypeOK
      <3>3. QED
        BY <1>3, <3>1, <3>2 DEF WatchFits, Done
    <2>4. ASSUME OneStay(q)'
          PROVE  /\ OrderFits(q)' /\ FailureFits(q)' /\ ButtonFits(q)'
                 /\ monitor[q] => VersionFits(q)'
      <3>1. OneStay(q)
        BY <1>2, <1>3, <2>4 DEF OneStay
      <3>2. Lines(q) = {} /\ News(q) = {} /\ heard[q] = {} /\ (monitor[q] => VersionFits(q))
        BY <1>2, <1>13, <2>1, <3>1 DEF StoryFits, OrderFits, NoNews
      <3>3. Lines(q)' = {} /\ heard'[q] = {}
        BY <1>3, <3>2
      <3>4. \A i, j \in News(q)' : i = j /\ inbox'[q][i].event = e /\ i \in Nat
        <4>1. CASE open[q]
          <5>1. PICK k \in Nat : inbox'[q][k].event = e /\ News(q)' = News(q) \cup {k}
            BY <1>6, <1>13, <4>1
          <5>2. QED
            BY <3>2, <5>1
        <4>2. CASE ~open[q]
          BY <1>5, <3>2, <4>2
        <4>3. QED
          BY <4>1, <4>2
      <3>5. p \notin entering' /\ (p \in lot' <=> e = "parked")
        BY <1>1, <1>2, <1>8
      <3>6. parkee'[q] \in lot' => AllParked(q)'
        BY <1>3, <1>13, <3>3, <3>4, <3>5 DEF AllParked, Parked
      <3>7. OrderFits(q)'
        BY <1>3, <1>13, <3>3, <3>4, <3>5, <3>6 DEF OrderFits
      <3>8. FailureFits(q)'
        BY <1>2, <1>3, <1>8, <1>13 DEF FailureFits
      <3>9. ButtonFits(q)'
        <4> SUFFICES ASSUME AllParked(q)', ~NoNews(q)'
                     PROVE  open'[q] /\ parkee'[q] \in lot'
          BY <3>3 DEF ButtonFits
        <4>1. PICK i \in News(q)' : Parked(inbox'[q][i])
          BY <3>3 DEF NoNews, AllParked, Parked
        <4>2. e = "parked"
          BY <3>4, <4>1 DEF Parked
        <4>3. open[q]
          BY <1>5, <3>2, <4>1
        <4>4. QED
          BY <1>3, <1>13, <3>5, <4>2, <4>3
      <3>10. monitor[q] => VersionFits(q)'
        BY <1>3, <3>2 DEF VersionFits
      <3>11. QED
        BY <3>7, <3>8, <3>9, <3>10
    <2>5. QED
      BY <1>3, <2>2, <2>3, <2>4 DEF Fits, StoryFits
  <1>14. QED
    BY <1>3, <1>7, <1>9, <1>10, <1>12, <1>13 DEF ParkInv, Fits

LEMMA LeaveLotStep ==
    ASSUME ParkInv, NEW p \in Remotes, LeaveLot(p)
    PROVE  ParkInv'
  <1>0. /\ TypeOK /\ PlacesFit /\ TransfersFit /\ PeerFits
        /\ \A q \in Requests : Fits(q)
    BY ParkParts
  <1>1. /\ p \in lot /\ lot' = lot \ {p} /\ Publish(p, "gone")
        /\ UNCHANGED <<target, entering, times, parkedBy, excused, serverVars>>
    BY DEF LeaveLot
  <1>2. /\ UNCHANGED <<step, monitor, parkee, version, held, open, heard, sendQueue, sent,
                       parkQueue, xfer>>
        /\ Line' = Line /\ TransfersFit'
        /\ \A q \in Requests : /\ Lines(q)' = Lines(q) /\ (Queued(q)' <=> Queued(q))
                               /\ (Running(q)' <=> Running(q)) /\ (Failed(q)' <=> Failed(q))
    BY <1>0, <1>1, ServerKeeps
  <1>3. /\ peer' = peer \/ peer' = p
        /\ PeerFits' /\ raced \subseteq raced' /\ raced' \subseteq Requests
    <2>1. CASE UNCHANGED <<peer, raced>>
      BY <1>0, <1>1, <1>2, <2>1 DEF PeerFits, TypeOK
    <2>2. CASE PeerBecomes(p)
      BY <1>0, <1>1, <1>2, <2>2, PeerChanges
    <2>3. QED
      BY <2>1, <2>2 DEF LeaveLot
  <1>4. "gone" \in Named /\ "gone" \in LotEvents \cup {"swap"}
    BY DEF Named, LotEvents
  <1>5. /\ inbox' \in [Requests -> Seq([parkee : Remotes, event : LotEvents \cup {"swap"}])]
        /\ \A q \in Requests : \A i \in 1..Len(inbox'[q]) :
              \/ inbox'[q][i].parkee = p
              \/ i \in 1..Len(inbox[q]) /\ inbox'[q][i] = inbox[q][i]
        /\ \A q \in Requests : ~open[q] => inbox'[q] = inbox[q] /\ News(q)' = News(q)
        /\ \A q \in Requests : \A i \in News(q) : inbox'[q][i] = inbox[q][i]
        /\ \A q \in Requests : parkee[q] # p => News(q)' = News(q)
    BY <1>0, <1>1, <1>2, <1>4, Published
  <1>6. ASSUME NEW q \in Requests, open[q], parkee[q] = p
        PROVE  \E k \in Nat : /\ inbox'[q][k].event = "gone" /\ News(q)' = News(q) \cup {k}
                              /\ \A i \in News(q) : i \in Nat /\ i < k
    <2>1. PICK k : k = Len(inbox[q]) + 1
      OBVIOUS
    <2>2. /\ k \in Nat /\ inbox'[q][k].event = "gone" /\ News(q)' = News(q) \cup {k}
          /\ \A i \in News(q) : i \in Nat /\ i < k
      BY <1>0, <1>1, <1>2, <1>4, <1>6, <2>1, Published
    <2>3. QED
      BY <2>2
  <1>7. TypeOK'
    BY <1>0, <1>1, <1>2, <1>3, <1>5 DEF TypeOK
  <1>8. times[p] > 0 /\ p \notin entering
    BY <1>0, <1>1 DEF PlacesFit
  <1>9. PlacesFit'
    BY SMTT(30), <1>0, <1>1, <1>3, <1>5, <1>8 DEF PlacesFit
  <1>10. \A q \in Requests : step[q] \in {"ready", "resolved"} => inbox'[q] = inbox[q]
    BY <1>0, <1>5 DEF Fits, StepFits
  <1>11. ASSUME NEW q \in Requests, parkee[q] # p PROVE Fits(q)'
    BY <1>0, <1>1, <1>2, <1>3, <1>5, <1>10, <1>11, Unconcerned
  <1>12. ASSUME NEW q \in Requests, parkee[q] = p PROVE Fits(q)'
    <2>1. StepFits(q) /\ LinesFit(q) /\ StoryFits(q)
      BY <1>0 DEF Fits
    <2>2. StepFits(q)' /\ LinesFit(q)'
      BY <1>1, <1>2, <1>10, <2>1 DEF StepFits, LinesFit
    <2>3. WatchFits(q)'
      <3>1. held[q] => open[q]
        BY <2>1 DEF StepFits
      <3>2. open[q] => \E i \in News(q)' : inbox'[q][i].event # "parked"
        BY <1>6, <1>12
      <3>3. QED
        BY <1>2, <3>1, <3>2 DEF WatchFits, Done
    <2>4. ASSUME OneStay(q)'
          PROVE  /\ OrderFits(q)' /\ FailureFits(q)' /\ ButtonFits(q)'
                 /\ monitor[q] => VersionFits(q)'
      <3>1. OneStay(q)
        BY <1>1, <1>2, <2>4 DEF OneStay
      <3>2. /\ OrderFits(q) /\ ButtonFits(q)
            /\ monitor[q] => VersionFits(q)
        BY <2>1, <3>1 DEF StoryFits
      <3>3. AllParked(q)
        BY <1>1, <1>12, <3>2 DEF OrderFits
      <3>4. p \notin entering' /\ p \notin lot'
        BY <1>1, <1>8
      <3>5. \A i \in Lines(q) : Parked(Line[i])
        BY <3>3 DEF AllParked
      <3>6. \A f \in heard[q] : Parked(f)
        BY <3>3 DEF AllParked
      <3>7. \A i, j \in News(q)' : i < j => Parked(inbox'[q][i])
        <4>1. CASE open[q]
          <5>1. PICK k \in Nat : /\ News(q)' = News(q) \cup {k}
                                 /\ \A i \in News(q) : i \in Nat /\ i < k
            BY <1>6, <1>12, <4>1
          <5>2. \A i \in News(q) : Parked(inbox'[q][i])
            BY <1>5, <3>3 DEF AllParked
          <5>3. \A j \in News(q)' : ~(k < j)
            BY <5>1
          <5>4. QED
            BY <5>1, <5>2, <5>3
        <4>2. CASE ~open[q]
          BY <1>5, <3>3, <4>2 DEF AllParked
        <4>3. QED
          BY <4>1, <4>2
      <3>8. OrderFits(q)'
        BY <1>2, <1>12, <3>4, <3>5, <3>6, <3>7 DEF OrderFits, Parked
      <3>9. FailureFits(q)'
        BY <1>1, <1>2, <1>8, <1>12 DEF FailureFits
      <3>10. ButtonFits(q)'
        <4>1. CASE open[q]
          <5>1. \E i \in News(q)' : inbox'[q][i].event # "parked"
            BY <1>6, <1>12, <4>1
          <5>2. QED
            BY <5>1 DEF ButtonFits, AllParked, Parked
        <4>2. CASE ~open[q]
          <5>1. NoNews(q)' <=> NoNews(q)
            BY <1>2, <1>5, <4>2 DEF NoNews
          <5>2. QED
            BY <1>1, <1>2, <3>2, <3>3, <4>2, <5>1 DEF ButtonFits
        <4>3. QED
          BY <4>1, <4>2
      <3>11. monitor[q] => VersionFits(q)'
        BY <1>2, <3>2 DEF VersionFits
      <3>12. QED
        BY <3>8, <3>9, <3>10, <3>11
    <2>5. QED
      BY <1>2, <2>2, <2>3, <2>4 DEF Fits, StoryFits
  <1>13. QED
    BY <1>2, <1>3, <1>7, <1>9, <1>11, <1>12 DEF ParkInv, Fits

LEMMA SwapStep ==
    ASSUME ParkInv, NEW p \in Remotes, NEW r \in Remotes, Swap(p, r)
    PROVE  ParkInv'
  <1>0. /\ TypeOK /\ PlacesFit /\ TransfersFit /\ PeerFits
        /\ \A q \in Requests : Fits(q)
    BY ParkParts
  <1>1. /\ p \in lot /\ r \notin entering /\ r \notin lot /\ r # peer /\ p # r
        /\ lot' = (lot \ {p}) \cup {r} /\ Publish(r, "swap")
        /\ times' = [times EXCEPT ![r] = @ + 1]
        /\ excused' = excused \cup Askers(p)
        /\ UNCHANGED <<target, peer, entering, parkedBy, raced, serverVars>>
    BY DEF Swap, Connected
  <1>2. /\ UNCHANGED <<step, monitor, parkee, version, held, open, heard, sendQueue, sent,
                       parkQueue, xfer>>
        /\ Line' = Line /\ TransfersFit'
        /\ \A q \in Requests : /\ Lines(q)' = Lines(q) /\ (Queued(q)' <=> Queued(q))
                               /\ (Running(q)' <=> Running(q)) /\ (Failed(q)' <=> Failed(q))
    BY <1>0, <1>1, ServerKeeps
  <1>3. "swap" \notin Named /\ "swap" \in LotEvents \cup {"swap"}
    BY DEF Named, LotEvents
  <1>4. /\ inbox' \in [Requests -> Seq([parkee : Remotes, event : LotEvents \cup {"swap"}])]
        /\ \A q \in Requests : \A i \in 1..Len(inbox'[q]) :
              \/ inbox'[q][i].parkee = r
              \/ i \in 1..Len(inbox[q]) /\ inbox'[q][i] = inbox[q][i]
        /\ \A q \in Requests : ~open[q] => inbox'[q] = inbox[q]
        /\ \A q \in Requests : \A i \in News(q) : inbox'[q][i] = inbox[q][i]
        /\ \A q \in Requests : News(q)' = News(q)
    BY <1>0, <1>1, <1>2, <1>3, Published
  <1>5. /\ times' \in [Remotes -> Nat] /\ times'[r] = times[r] + 1 /\ times'[r] > 0
        /\ \A o \in Remotes : o # r => times'[o] = times[o]
    BY <1>0, <1>1 DEF TypeOK
  <1>6. TypeOK'
    BY <1>0, <1>1, <1>2, <1>4, <1>5 DEF TypeOK, Askers
  <1>7. PlacesFit'
    <2>1. \A o \in entering' \cup lot' : times'[o] > 0
      <3>1. \A o \in entering \cup lot : o \in Remotes /\ times[o] > 0
        BY <1>0 DEF TypeOK, PlacesFit
      <3>2. QED
        BY <1>1, <1>5, <3>1
    <2>2. \A q \in Requests : \A i \in 1..Len(inbox'[q]) : times'[inbox'[q][i].parkee] > 0
      <3>1. \A q \in Requests : \A i \in 1..Len(inbox[q]) :
               inbox[q][i].parkee \in Remotes /\ times[inbox[q][i].parkee] > 0
        BY <1>0, InboxType DEF PlacesFit
      <3>2. \A q \in Requests : \A i \in 1..Len(inbox[q]) : times'[inbox[q][i].parkee] > 0
        BY <1>5, <3>1
      <3>3. QED
        BY <1>4, <1>5, <3>2
    <2>3. peer' \notin entering' \cup lot' /\ entering' \cap lot' = {}
      BY <1>0, <1>1 DEF PlacesFit
    <2>4. QED
      BY <2>1, <2>2, <2>3 DEF PlacesFit
  <1>8. PeerFits'
    BY <1>0, <1>1, <1>2 DEF PeerFits
  <1>9. \A q \in Requests : step[q] \in {"ready", "resolved"} => inbox'[q] = inbox[q]
    BY <1>0, <1>4 DEF Fits, StepFits
  <1>10. ASSUME NEW q \in Requests, parkee[q] = p PROVE Fits(q)'
    <2>1. q \in excused'
      BY <1>1, <1>10 DEF Askers
    <2>2. times'[parkee[q]] = times[parkee[q]]
      BY <1>1, <1>5, <1>10
    <2>3. QED
      BY <1>0, <1>1, <1>2, <1>9, <2>1, <2>2, ExcusedFits
  <1>11. ASSUME NEW q \in Requests, parkee[q] = r PROVE Fits(q)'
    <2>1. StepFits(q) /\ WatchFits(q) /\ LinesFit(q) /\ StoryFits(q)
      BY <1>0 DEF Fits
    <2>2. StepFits(q)' /\ LinesFit(q)'
      BY <1>1, <1>2, <1>5, <1>9, <1>11, <2>1 DEF StepFits, LinesFit
    <2>3. WatchFits(q)'
      BY <1>1, <1>2, <1>4, <1>11, <2>1 DEF WatchFits, Done
    <2>4. excused \subseteq excused'
      BY <1>1
    <2>5. StoryFits(q)'
      BY <1>0, <1>2, <1>4, <1>5, <1>11, <2>1, <2>4, StayBegins
    <2>6. QED
      BY <2>2, <2>3, <2>5 DEF Fits
  <1>12. ASSUME NEW q \in Requests, parkee[q] # p, parkee[q] # r PROVE Fits(q)'
    <2>1. parkee[q] # NoPeer => times'[parkee[q]] = times[parkee[q]]
      BY <1>0, <1>5, <1>12 DEF TypeOK
    <2>2. QED
      BY <1>0, <1>1, <1>2, <1>4, <1>9, <1>12, <2>1, Unconcerned
  <1>13. QED
    BY <1>2, <1>6, <1>7, <1>8, <1>10, <1>11, <1>12 DEF ParkInv, Fits

-----------------------------------------------------------------------------
LEMMA SameParkInv ==
    ASSUME ParkInv,
           UNCHANGED <<target, peer, entering, lot, step, monitor, parkee, version, held, open,
                       inbox, heard, sendQueue, sent, parkQueue, xfer, times, parkedBy, excused,
                       raced>>
    PROVE  ParkInv'
  <1>0. /\ TypeOK /\ PlacesFit /\ TransfersFit /\ PeerFits
        /\ \A q \in Requests : Fits(q)
    BY ParkParts
  <1>1. TypeOK' /\ PlacesFit' /\ PeerFits'
    BY <1>0 DEF TypeOK, PlacesFit, PeerFits
  <1>2. Line' = Line /\ TransfersFit'
    BY <1>0 DEF Line, TransfersFit, Queued, Running
  <1>3. ASSUME NEW q \in Requests PROVE Fits(q)'
    <2>1. Lines(q)' = Lines(q) /\ (Queued(q)' <=> Queued(q))
      BY <1>2 DEF Lines, Queued
    <2>2. entering' \cap lot' = {}
      BY <1>1 DEF PlacesFit
    <2>3. QED
      BY <1>0, <1>2, <2>1, <2>2, Untouched
  <1>4. QED
    BY <1>1, <1>2, <1>3 DEF ParkInv, Fits

\* ParkInv is kept by every step of Park.
LEMMA NextPark == ParkInv /\ [Next]_vars => ParkInv'
  <1> SUFFICES ASSUME ParkInv, [Next]_vars PROVE ParkInv'
    OBVIOUS
  <1>1. ASSUME NEW q \in Requests, HandleParkSteps(q) PROVE ParkInv'
    BY <1>1, HandleParkStep, SubscribeStep, QueueTransferStep DEF HandleParkSteps
  <1>2. ASSUME NEW q \in Requests, StasisCb(q) PROVE ParkInv'
    BY <1>2, StasisEventStep, StasisReplyStep DEF StasisCb
  <1>3. CASE XferTask
    BY <1>3, XferCheckStep, XferTransferStep, XferReportStep DEF XferTask
  <1>4. CASE XferStuck
    BY <1>4, XferStuckStep
  <1>5. CASE SendTask
    BY <1>5, SendTaskStep
  <1>6. CASE ParkElsewhere
    BY <1>6, ParkElsewhereStep
  <1>7. ASSUME NEW p \in Remotes \cup {NoPeer}, SwitchPeer(p) PROVE ParkInv'
    BY <1>7, SwitchPeerStep
  <1>8. ASSUME NEW p \in Remotes, Arrive(p) \/ Vanish(p) \/ LeaveLot(p) PROVE ParkInv'
    BY <1>8, ArriveStep, VanishStep, LeaveLotStep
  <1>9. ASSUME NEW p \in Remotes, NEW r \in Remotes, Swap(p, r) PROVE ParkInv'
    BY <1>9, SwapStep
  <1>10. CASE UNCHANGED vars
    <2>1. UNCHANGED <<target, peer, entering, lot, step, monitor, parkee, version, held, open,
                      inbox, heard, sendQueue, sent, parkQueue, xfer, times, parkedBy, excused,
                      raced>>
      BY <1>10 DEF vars, callVars, prdVars, subVars, sendVars, taskVars, histVars
    <2>2. QED
      BY <2>1, SameParkInv
  <1>11. QED
    BY <1>1, <1>2, <1>3, <1>4, <1>5, <1>6, <1>7, <1>8, <1>9, <1>10 DEF Next

-----------------------------------------------------------------------------
(* What the other REFERs and the call do to Park.                           *)

\* Something else than feedback is queued, or nothing is.
LEMMA ReferKeepsPark ==
    ASSUME ParkInv, UNCHANGED parkVars, UNCHANGED sent,
           \/ UNCHANGED sendQueue
           \/ \E t \in OtherTasks : sendQueue' = Append(sendQueue, t)
    PROVE  ParkInv'
  <1>0. /\ TypeOK /\ PlacesFit /\ TransfersFit /\ PeerFits
        /\ \A q \in Requests : Fits(q)
    BY ParkParts
  <1>1. UNCHANGED <<target, peer, entering, lot, step, monitor, parkee, version, held, open,
                    inbox, heard, sent, parkQueue, xfer, times, parkedBy, excused, raced>>
    BY DEF parkVars, callVars, prdVars, subVars, taskVars, histVars
  <1>2. CASE UNCHANGED sendQueue
    BY <1>1, <1>2, SameParkInv
  <1>3. ASSUME NEW t \in OtherTasks, sendQueue' = Append(sendQueue, t) PROVE ParkInv'
    <2>1. ~IsFeedback(t) /\ t \in Feedback \cup OtherTasks
      BY OtherIsNot
    <2>2. /\ sendQueue' \in Seq(Feedback \cup OtherTasks)
          /\ \A i \in 1..Len(Line) : Line'[i] = Line[i]
          /\ \A q \in Requests : Lines(q)' = Lines(q)
      BY <1>0, <1>1, <1>3, <2>1, LineGrows
    <2>3. TypeOK' /\ PlacesFit' /\ PeerFits' /\ TransfersFit'
      <3>1. TypeOK'
        BY <1>0, <1>1, <2>2 DEF TypeOK
      <3>2. PlacesFit' /\ PeerFits'
        BY <1>0, <1>1 DEF PlacesFit, PeerFits
      <3>3. TransfersFit'
        BY <1>0, <1>1 DEF TransfersFit, Queued, Running
      <3>4. QED
        BY <3>1, <3>2, <3>3
    <2>4. ASSUME NEW q \in Requests PROVE Fits(q)'
      <3>1. (Queued(q)' <=> Queued(q)) /\ \A i \in Lines(q) : Line'[i] = Line[i]
        BY <1>1, <2>2 DEF Queued, Lines
      <3>2. entering' \cap lot' = {}
        BY <2>3 DEF PlacesFit
      <3>3. QED
        BY <1>0, <1>1, <2>2, <3>1, <3>2, Untouched
    <2>5. QED
      BY <2>3, <2>4 DEF ParkInv, Fits
  <1>4. QED
    BY <1>2, <1>3

\* A task of the others has run.
LEMMA TaskKeepsPark ==
    ASSUME ParkInv, UNCHANGED parkVars, UNCHANGED sent,
           sendQueue # <<>>, ~IsFeedback(Head(sendQueue)), sendQueue' = Tail(sendQueue)
    PROVE  ParkInv'
  <1>0. /\ TypeOK /\ PlacesFit /\ TransfersFit /\ PeerFits
        /\ \A q \in Requests : Fits(q)
    BY ParkParts
  <1>1. UNCHANGED <<target, peer, entering, lot, step, monitor, parkee, version, held, open,
                    inbox, heard, sent, parkQueue, xfer, times, parkedBy, excused, raced>>
    BY DEF parkVars, callVars, prdVars, subVars, taskVars, histVars
  <1>2. sendQueue' \in Seq(Feedback \cup OtherTasks)
    BY <1>0 DEF TypeOK
  <1>3. TypeOK' /\ PlacesFit' /\ PeerFits' /\ TransfersFit'
    <2>1. TypeOK'
      BY <1>0, <1>1, <1>2 DEF TypeOK
    <2>2. PlacesFit' /\ PeerFits'
      BY <1>0, <1>1 DEF PlacesFit, PeerFits
    <2>3. TransfersFit'
      BY <1>0, <1>1 DEF TransfersFit, Queued, Running
    <2>4. QED
      BY <2>1, <2>2, <2>3
  <1>4. ASSUME NEW q \in Requests PROVE Fits(q)'
    <2> DEFINE n == Len(sent)
               Up(i) == IF i <= n THEN i ELSE i + 1
    <2>1. /\ StepFits(q) /\ WatchFits(q) /\ LinesFit(q) /\ StoryFits(q)
          /\ n \in Nat /\ \A i \in Lines(q) : i \in Nat
      BY <1>0, LineIs DEF Fits, Lines
    <2>2. \A i \in Lines(q)' : i \in Nat
      BY DEF Lines
    <2>3. \A i \in Lines(q)' : Up(i) \in Lines(q) /\ Line'[i] = Line[Up(i)]
      BY <1>0, <1>1, LineShrinks
    <2>4. \A i, j \in Lines(q)' : i < j => Up(i) < Up(j)
      BY <2>1, <2>2
    <2>5. \A i, j \in Lines(q)' : i = j \/ i < j \/ j < i
      BY <2>2
    <2>6. \A j \in Lines(q) : \E i \in Lines(q)' : Line'[i] = Line[j]
      BY <1>0, <1>1, LineShrinks
    <2> HIDE DEF n, Up
    <2>7. \A i, j \in Lines(q)' : Up(i) = Up(j) => i = j
      <3>1. \A i \in Lines(q)' : Up(i) \in Nat
        BY <2>1, <2>3
      <3>2. QED
        BY <2>4, <2>5, <3>1
    <2>8. /\ (Queued(q)' <=> Queued(q)) /\ (Running(q)' <=> Running(q))
          /\ (Failed(q)' <=> Failed(q)) /\ News(q)' = News(q)
          /\ (NoNews(q)' <=> NoNews(q))
      BY <1>1 DEF Queued, Running, Failed, News, Relevant, NoNews
    <2>9. (Lines(q)' = {}) <=> (Lines(q) = {})
      BY <2>3, <2>6
    <2>10. (\A i \in Lines(q)' : Parked(Line'[i])) <=> \A i \in Lines(q) : Parked(Line[i])
      BY <2>3, <2>6
    <2>11. AllParked(q)' <=> AllParked(q)
      BY <1>1, <2>8, <2>10 DEF AllParked, Parked
    <2>12. StepFits(q)' /\ WatchFits(q)' /\ LinesFit(q)'
      BY <1>1, <2>1, <2>8, <2>9 DEF StepFits, WatchFits, LinesFit, Done
    <2>13. ASSUME OneStay(q)'
           PROVE  /\ OrderFits(q)' /\ FailureFits(q)' /\ ButtonFits(q)'
                  /\ monitor[q] => VersionFits(q)'
      <3>1. /\ OrderFits(q) /\ FailureFits(q) /\ ButtonFits(q)
            /\ monitor[q] => VersionFits(q)
        BY <1>1, <2>1, <2>8, <2>13 DEF OneStay, StoryFits
      <3>2. \A i, j \in Lines(q)' : i < j => Parked(Line'[i])
        BY <2>3, <2>4, <3>1 DEF OrderFits
      <3>3. OrderFits(q)'
        BY <1>1, <2>8, <2>9, <2>10, <2>11, <3>1, <3>2 DEF OrderFits, Parked
      <3>4. FailureFits(q)'
        <4>1. \A i \in Lines(q)' : Line[Up(i)].event = "error" => Line'[i].event = "error"
          BY <2>3
        <4>2. QED
          BY <1>1, <2>3, <2>7, <2>8, <2>9, <3>1, <4>1 DEF FailureFits
      <3>5. ButtonFits(q)'
        BY <1>1, <2>8, <2>9, <2>11, <3>1 DEF ButtonFits
      <3>6. monitor[q] => VersionFits(q)'
        <4> SUFFICES ASSUME VersionFits(q) PROVE VersionFits(q)'
          BY <3>1
        <4>1. PICK said : said = IF heard[q] # {} \/ (Running(q) /\ Failed(q))
                                 THEN version[q] - 1 ELSE version[q]
          OBVIOUS
        <4>2. /\ said \in Nat
              /\ \A i, j \in Lines(q) : i < j => Line[i].version < Line[j].version
              /\ \A i \in Lines(q) : Line[i].version \in 1..said
              /\ \A v \in 1..said : \E i \in Lines(q) : Line[i].version = v
              /\ \A f \in heard[q] : f.version = version[q]
          BY <4>1 DEF VersionFits
        <4>3. \A i, j \in Lines(q)' : i < j => Line'[i].version < Line'[j].version
          BY <2>3, <2>4, <4>2
        <4>4. \A i \in Lines(q)' : Line'[i].version \in 1..said
          BY <2>3, <4>2
        <4>5. \A v \in 1..said : \E i \in Lines(q)' : Line'[i].version = v
          <5> SUFFICES ASSUME NEW v \in 1..said PROVE \E i \in Lines(q)' : Line'[i].version = v
            OBVIOUS
          <5>1. PICK j \in Lines(q) : Line[j].version = v
            BY <4>2
          <5>2. QED
            BY <2>6, <5>1
        <4>6. said = IF heard'[q] # {} \/ (Running(q)' /\ Failed(q)')
                     THEN version'[q] - 1 ELSE version'[q]
          BY <1>1, <2>8, <4>1
        <4>7. QED
          BY <1>1, <4>2, <4>3, <4>4, <4>5, <4>6 DEF VersionFits
      <3>7. QED
        BY <3>3, <3>4, <3>5, <3>6
    <2>14. QED
      BY <1>1, <2>12, <2>13 DEF Fits, StoryFits
  <1>5. QED
    BY <1>3, <1>4 DEF ParkInv, Fits

\* What a step of Park does to remotecc_serializer.
LEMMA ParkQueues ==
    ASSUME ParkInv, Next
    PROVE  \/ UNCHANGED sendQueue
           \/ \E f \in Feedback : sendQueue' = Append(sendQueue, f)
           \/ /\ sendQueue # <<>> /\ IsFeedback(Head(sendQueue))
              /\ sendQueue' = Tail(sendQueue)
  <1>0. TypeOK
    BY DEF ParkInv
  <1>1. ASSUME NEW f \in Feedback, QueueFeedback(f)
        PROVE  UNCHANGED sendQueue \/ \E g \in Feedback : sendQueue' = Append(sendQueue, g)
    BY <1>1 DEF QueueFeedback
  <1>2. ASSUME NEW q \in Requests, HandleParkSteps(q) PROVE UNCHANGED sendQueue
    BY <1>2 DEF HandleParkSteps, HandlePark, Subscribe, QueueTransfer, sendVars
  <1>3. ASSUME NEW q \in Requests, StasisCb(q)
        PROVE  UNCHANGED sendQueue \/ \E g \in Feedback : sendQueue' = Append(sendQueue, g)
    <2>1. CASE StasisEvent(q)
      BY <2>1 DEF StasisEvent, sendVars
    <2>2. CASE StasisReply(q)
      <3>1. PICK f \in heard[q] : QueueFeedback(f)
        BY <2>2 DEF StasisReply
      <3>2. f \in Feedback
        BY <1>0, <3>1 DEF TypeOK
      <3>3. QED
        BY <1>1, <3>1, <3>2
    <2>3. QED
      BY <1>3, <2>1, <2>2 DEF StasisCb
  <1>4. CASE XferTask
    <2>1. CASE XferCheck \/ XferTransfer
      BY <2>1 DEF XferCheck, XferTransfer, sendVars
    <2>2. CASE XferReport
      <3>1. PICK x \in xfer : ReportFailure(x)
        BY <2>2 DEF XferReport
      <3>2. x.req \in Requests
        BY <1>0, <3>1 DEF TypeOK
      <3>3. PICK f : f = [req |-> x.req, event |-> "error", version |-> version[x.req]]
        OBVIOUS
      <3>4. f \in Feedback
        BY <1>0, <3>2, <3>3, VersionType, FeedbackOfIs DEF LotEvents
      <3>5. QueueFeedback(f)
        BY <3>1, <3>3 DEF ReportFailure, FeedbackOf
      <3>6. QED
        BY <1>1, <3>4, <3>5
    <2>3. QED
      BY <1>4, <2>1, <2>2 DEF XferTask
  <1>5. CASE XferStuck \/ ParkElsewhere
    BY <1>5 DEF XferStuck, ParkElsewhere, serverVars, sendVars
  <1>6. CASE SendTask
    BY <1>6 DEF SendTask, SendReady
  <1>7. ASSUME NEW p, SwitchPeer(p) \/ Arrive(p) \/ Vanish(p) \/ LeaveLot(p)
        PROVE  UNCHANGED sendQueue
    BY <1>7 DEF SwitchPeer, Arrive, Vanish, LeaveLot, serverVars, sendVars
  <1>8. ASSUME NEW p, NEW r, Swap(p, r) PROVE UNCHANGED sendQueue
    BY <1>8 DEF Swap, serverVars, sendVars
  <1>9. QED
    BY <1>2, <1>3, <1>4, <1>5, <1>6, <1>7, <1>8 DEF Next

-----------------------------------------------------------------------------
(* The recording tasks that wait, and the softkeys they come from.          *)

IsRecordTask(t) == ~IsFeedback(t) /\ t.task \in {"start", "stop"}

\* KeysFit, with n softkeys done and pos the softkeys of those that wait.
Waiting(n, pos) ==
    /\ n \in 0..Len(keys)
    /\ pos \in [RecordTasks -> (n + 1)..Len(keys)]
    /\ \A i, j \in RecordTasks : i < j => pos[i] < pos[j]
    /\ \A k \in (n + 1)..Len(keys) : \E i \in RecordTasks : pos[i] = k
    /\ \A i \in RecordTasks : sendQueue[i].task = keys[pos[i]]
Recorded(n) ==
    /\ call = "up" /\ InTurn => recorders = n % 2
    /\ call = "ringing" => keys = <<>> /\ recorders = 0

LEMMA KeysFitIs == KeysFit <=> \E n, pos : Waiting(n, pos) /\ Recorded(n)
  BY SMTT(30) DEF KeysFit, Waiting, Recorded

LEMMA KeysFitIsPrimed == KeysFit' <=> \E n, pos : Waiting(n, pos)' /\ Recorded(n)'
  BY ZenonT(40) DEF KeysFit, Waiting, Recorded

LEMMA Parity == \A n \in Nat : n % 2 \in {0, 1} /\ (n + 1) % 2 = 1 - (n % 2)
  OBVIOUS

\* The task at the head of the queue has run.
LEMMA TasksShift ==
    ASSUME TypeOK, sendQueue # <<>>, sendQueue' = Tail(sendQueue)
    PROVE  /\ \A i \in RecordTasks : i \in Nat /\ i >= 1
           /\ \A i \in RecordTasks' : /\ i \in Nat /\ i + 1 \in RecordTasks /\ i + 1 > 1
                                      /\ sendQueue'[i] = sendQueue[i + 1]
           /\ \A i \in RecordTasks : i # 1 => i - 1 \in RecordTasks' /\ (i - 1) + 1 = i
           /\ sendQueue[1] = Head(sendQueue)
           /\ 1 \in RecordTasks <=> IsRecordTask(Head(sendQueue))
  <1>1. PICK S : S = Feedback \cup OtherTasks
    OBVIOUS
  <1>2. PICK s : s = sendQueue
    OBVIOUS
  <1>3. s \in Seq(S) /\ s # <<>> /\ sendQueue' = Tail(s)
    BY <1>1, <1>2 DEF TypeOK
  <1>4. /\ Len(s) \in Nat /\ Len(s) > 0 /\ Len(Tail(s)) = Len(s) - 1 /\ Head(s) = s[1]
        /\ \A i \in 1..Len(Tail(s)) : i \in Nat /\ i + 1 \in 1..Len(s) /\ Tail(s)[i] = s[i + 1]
    BY <1>3
  <1>5. /\ RecordTasks = {i \in 1..Len(s) : IsRecordTask(s[i])}
        /\ RecordTasks' = {i \in 1..Len(Tail(s)) : IsRecordTask(Tail(s)[i])}
    BY <1>2, <1>3 DEF RecordTasks, IsRecordTask, IsFeedback
  <1>6. \A i \in RecordTasks : i \in Nat /\ i >= 1
    BY <1>4, <1>5
  <1>7. ASSUME NEW i \in RecordTasks'
        PROVE  /\ i \in Nat /\ i + 1 \in RecordTasks /\ i + 1 > 1
               /\ sendQueue'[i] = sendQueue[i + 1]
    <2>1. i \in 1..Len(Tail(s)) /\ IsRecordTask(Tail(s)[i])
      BY <1>5
    <2>2. i \in Nat /\ i + 1 \in 1..Len(s) /\ Tail(s)[i] = s[i + 1] /\ i + 1 > 1
      BY <1>4, <2>1
    <2>3. QED
      BY <1>2, <1>3, <1>5, <2>1, <2>2
  <1>8. ASSUME NEW i \in RecordTasks, i # 1
        PROVE  i - 1 \in RecordTasks' /\ (i - 1) + 1 = i
    <2>1. i \in 1..Len(s) /\ IsRecordTask(s[i])
      BY <1>5
    <2>2. i - 1 \in 1..Len(Tail(s)) /\ (i - 1) + 1 = i
      BY <1>4, <1>8, <2>1
    <2>3. Tail(s)[i - 1] = s[i]
      BY <1>4, <2>2
    <2>4. QED
      BY <1>5, <2>1, <2>2, <2>3
  <1>9. 1 \in RecordTasks <=> IsRecordTask(Head(sendQueue))
    BY <1>2, <1>4, <1>5
  <1>10. QED
    BY <1>2, <1>4, <1>6, <1>7, <1>8, <1>9

\* A task is queued.
LEMMA TasksGrow ==
    ASSUME TypeOK, NEW t, sendQueue' = Append(sendQueue, t)
    PROVE  LET k == Len(sendQueue) + 1
           IN  /\ k \in Nat
               /\ \A i \in RecordTasks : i \in Nat /\ i < k /\ sendQueue'[i] = sendQueue[i]
               /\ sendQueue'[k] = t
               /\ RecordTasks' = IF IsRecordTask(t) THEN RecordTasks \cup {k} ELSE RecordTasks
  <1>1. PICK S : S = Feedback \cup OtherTasks
    OBVIOUS
  <1>2. PICK s : s = sendQueue
    OBVIOUS
  <1>3. s \in Seq(S) /\ sendQueue' = Append(s, t)
    BY <1>1, <1>2 DEF TypeOK
  <1>4. PICK n : n = Len(s)
    OBVIOUS
  <1>5. /\ n \in Nat /\ Len(Append(s, t)) = n + 1 /\ Append(s, t)[n + 1] = t
        /\ \A i \in 1..n : Append(s, t)[i] = s[i]
        /\ 1..(n + 1) = 1..n \cup {n + 1}
    BY <1>3, <1>4
  <1>6. /\ RecordTasks = {i \in 1..n : IsRecordTask(s[i])}
        /\ RecordTasks' = {i \in 1..(n + 1) : IsRecordTask(Append(s, t)[i])}
    BY <1>2, <1>3, <1>4, <1>5 DEF RecordTasks, IsRecordTask, IsFeedback
  <1>7. RecordTasks' = IF IsRecordTask(t) THEN RecordTasks \cup {n + 1} ELSE RecordTasks
    BY <1>5, <1>6
  <1>8. \A i \in RecordTasks : i \in Nat /\ i < n + 1 /\ sendQueue'[i] = sendQueue[i]
    BY <1>2, <1>3, <1>5, <1>6
  <1>9. n = Len(sendQueue) /\ n + 1 \in Nat /\ sendQueue'[n + 1] = t
    BY <1>2, <1>3, <1>4, <1>5
  <1>10. QED
    BY <1>7, <1>8, <1>9

LEMMA KeysKept ==
    ASSUME KeysFit, UNCHANGED <<keys, recorders, call>>, RecordTasks' = RecordTasks,
           \A i \in RecordTasks : sendQueue'[i] = sendQueue[i]
    PROVE  KeysFit'
  <1>1. PICK n, pos : Waiting(n, pos) /\ Recorded(n)
    BY KeysFitIs
  <1>2. Waiting(n, pos)' /\ Recorded(n)'
    BY <1>1 DEF Waiting, Recorded, InTurn
  <1>3. QED
    BY <1>2, KeysFitIsPrimed

\* Those that wait move up; the first of them may have run.
LEMMA WaitingMovesUp ==
    ASSUME TypeOK, keys \in Seq({"start", "stop"}), sendQueue # <<>>,
           sendQueue' = Tail(sendQueue), keys' = keys, NEW n, NEW pos, Waiting(n, pos)
    PROVE  /\ 1 \notin RecordTasks => \E p : Waiting(n, p)'
           /\ 1 \in RecordTasks => /\ n + 1 \in 1..Len(keys)
                                   /\ keys[n + 1] = Head(sendQueue).task
                                   /\ \E p : Waiting(n + 1, p)'
  <1> DEFINE L == Len(keys)
  <1>0. PICK pos2 : pos2 = [i \in RecordTasks' |-> pos[i + 1]]
    OBVIOUS
  <1>1. /\ \A i \in RecordTasks : i \in Nat /\ i >= 1
        /\ \A i \in RecordTasks' : /\ i \in Nat /\ i + 1 \in RecordTasks /\ i + 1 > 1
                                   /\ sendQueue'[i] = sendQueue[i + 1]
        /\ \A i \in RecordTasks : i # 1 => i - 1 \in RecordTasks' /\ (i - 1) + 1 = i
        /\ sendQueue[1] = Head(sendQueue)
    BY TasksShift
  <1>2. /\ n \in 0..L /\ L \in Nat /\ Len(keys') = L
        /\ \A i \in RecordTasks : pos[i] \in (n + 1)..L
        /\ \A i, j \in RecordTasks : i < j => pos[i] < pos[j]
        /\ \A k \in (n + 1)..L : \E i \in RecordTasks : pos[i] = k
        /\ \A i \in RecordTasks : sendQueue[i].task = keys[pos[i]]
    BY DEF Waiting
  <1>3. \A i \in RecordTasks' : pos2[i] = pos[i + 1]
    BY <1>0
  <1> HIDE DEF L
  <1>4. \A i, j \in RecordTasks' : i < j => pos2[i] < pos2[j]
    <2> SUFFICES ASSUME NEW i \in RecordTasks', NEW j \in RecordTasks', i < j
                 PROVE  pos2[i] < pos2[j]
      OBVIOUS
    <2>1. i + 1 \in RecordTasks /\ j + 1 \in RecordTasks /\ i + 1 < j + 1
      BY <1>1
    <2>2. QED
      BY <1>2, <1>3, <2>1
  <1>5. \A i \in RecordTasks' : sendQueue'[i].task = keys'[pos2[i]]
    BY ZenonT(40), <1>1, <1>2, <1>3
  <1>6. ASSUME NEW k \in (n + 1)..L, pos[1] # k \/ 1 \notin RecordTasks
        PROVE  \E i \in RecordTasks' : pos2[i] = k
    <2>1. PICK i \in RecordTasks : pos[i] = k
      BY <1>2
    <2>2. PICK j : j = i - 1
      OBVIOUS
    <2>3. j \in RecordTasks' /\ j + 1 = i
      BY <1>1, <1>6, <2>1, <2>2
    <2>4. pos2[j] = k
      BY <1>3, <2>1, <2>3
    <2>5. QED
      BY <2>3, <2>4
  <1>7. CASE 1 \notin RecordTasks
    <2>1. pos2 \in [RecordTasks' -> (n + 1)..L]
      BY <1>0, <1>1, <1>2
    <2>2. \A k \in (n + 1)..L : \E i \in RecordTasks' : pos2[i] = k
      BY <1>6, <1>7
    <2>3. Waiting(n, pos2)'
      BY <1>2, <1>4, <1>5, <2>1, <2>2 DEF Waiting, L
    <2>4. QED
      BY <1>7, <2>3
  <1>8. CASE 1 \in RecordTasks
    <2>1. pos[1] = n + 1 /\ n + 1 \in 1..L
      <3>1. pos[1] \in (n + 1)..L
        BY <1>2, <1>8
      <3>2. n + 1 \in (n + 1)..L
        BY <1>2, <3>1
      <3>3. PICK i \in RecordTasks : pos[i] = n + 1
        BY <1>2, <3>2
      <3>4. i = 1 \/ 1 < i
        BY <1>1
      <3>5. 1 < i => pos[1] < n + 1
        BY <1>2, <1>8, <3>3
      <3>6. QED
        BY <1>2, <3>1, <3>3, <3>4, <3>5
    <2>2. keys[n + 1] = Head(sendQueue).task
      BY <1>1, <1>2, <1>8, <2>1
    <2>3. pos2 \in [RecordTasks' -> ((n + 1) + 1)..L]
      <3> SUFFICES ASSUME NEW i \in RecordTasks' PROVE pos[i + 1] \in ((n + 1) + 1)..L
        BY <1>0
      <3>1. i + 1 \in RecordTasks /\ 1 < i + 1
        BY <1>1
      <3>2. pos[1] < pos[i + 1] /\ pos[i + 1] \in (n + 1)..L
        BY <1>2, <1>8, <3>1
      <3>3. QED
        BY <1>2, <2>1, <3>2
    <2>4. \A k \in ((n + 1) + 1)..L : \E i \in RecordTasks' : pos2[i] = k
      <3> SUFFICES ASSUME NEW k \in ((n + 1) + 1)..L PROVE \E i \in RecordTasks' : pos2[i] = k
        OBVIOUS
      <3>1. k \in (n + 1)..L /\ pos[1] # k
        BY <1>2, <2>1
      <3>2. QED
        BY <1>6, <3>1
    <2>5. n + 1 \in 0..Len(keys')
      BY <1>2, <2>1
    <2>6. Waiting(n + 1, pos2)'
      BY <1>2, <1>4, <1>5, <2>3, <2>4, <2>5 DEF Waiting, L
    <2>7. QED
      BY <1>8, <2>1, <2>2, <2>6 DEF L
  <1>9. QED
    BY <1>7, <1>8

\* What ran was no recording task.
LEMMA KeysMoveUp ==
    ASSUME RemoteccTypeOK, KeysFit, sendQueue # <<>>, sendQueue' = Tail(sendQueue),
           ~IsRecordTask(Head(sendQueue)), UNCHANGED <<keys, recorders, call>>
    PROVE  KeysFit'
  <1>0. TypeOK /\ keys \in Seq({"start", "stop"})
    BY DEF RemoteccTypeOK
  <1>1. PICK n, pos : Waiting(n, pos) /\ Recorded(n)
    BY KeysFitIs
  <1>2. 1 \notin RecordTasks
    BY <1>0, TasksShift
  <1>3. PICK p : Waiting(n, p)'
    BY <1>0, <1>1, <1>2, WaitingMovesUp
  <1>4. Recorded(n)'
    BY <1>1 DEF Recorded, InTurn
  <1>5. QED
    BY <1>3, <1>4, KeysFitIsPrimed

LEMMA KeysGrowNot ==
    ASSUME TypeOK, KeysFit, NEW t, sendQueue' = Append(sendQueue, t),
           ~IsRecordTask(t), UNCHANGED <<keys, recorders, call>>
    PROVE  KeysFit'
  <1>1. RecordTasks' = RecordTasks /\ \A i \in RecordTasks : sendQueue'[i] = sendQueue[i]
    BY TasksGrow
  <1>2. QED
    BY <1>1, KeysKept

LEMMA InitRemotecc == RemoteccInit => RemoteccInv
  <1> SUFFICES ASSUME RemoteccInit PROVE RemoteccInv
    OBVIOUS
  <1>1. ParkInv
    BY InitPark DEF RemoteccInit
  <1>2. RemoteccTypeOK
    BY <1>1 DEF RemoteccInit, RemoteccTypeOK, ParkInv
  <1>3. RecordTasks = {}
    BY DEF RemoteccInit, Init, RecordTasks
  <1>4. PICK pos : pos = [i \in RecordTasks |-> 1]
    OBVIOUS
  <1>5. Len(keys) = 0 /\ recorders = 0 /\ keys = <<>>
    BY DEF RemoteccInit
  <1>6. Waiting(0, pos)
    BY <1>3, <1>4, <1>5 DEF Waiting
  <1>7. Recorded(0)
    BY <1>5 DEF Recorded
  <1>8. QED
    BY <1>1, <1>2, <1>6, <1>7, KeysFitIs DEF RemoteccInv

LEMMA ParkStepKeeps ==
    ASSUME RemoteccInv, ParkStep
    PROVE  RemoteccInv'
  <1>0. RemoteccTypeOK /\ TypeOK /\ ParkInv /\ KeysFit
    BY DEF RemoteccInv, RemoteccTypeOK
  <1>1. /\ Next /\ (peer' # NoPeer => call = "up")
        /\ UNCHANGED <<call, recorders, traces, answer, shown, keys>>
    BY DEF ParkStep, rcVars
  <1>2. ParkInv'
    BY <1>0, <1>1, NextPark
  <1>3. RemoteccTypeOK'
    BY <1>0, <1>1, <1>2 DEF RemoteccTypeOK, ParkInv
  <1>4. KeysFit'
    <2>1. CASE UNCHANGED sendQueue
      <3>1. RecordTasks' = RecordTasks
        BY <2>1 DEF RecordTasks
      <3>2. QED
        BY <1>0, <1>1, <2>1, <3>1, KeysKept
    <2>2. ASSUME NEW f \in Feedback, sendQueue' = Append(sendQueue, f) PROVE KeysFit'
      <3>1. ~IsRecordTask(f)
        BY FeedbackIs DEF IsRecordTask
      <3>2. QED
        BY <1>0, <1>1, <2>2, <3>1, KeysGrowNot
    <2>3. CASE sendQueue # <<>> /\ IsFeedback(Head(sendQueue)) /\ sendQueue' = Tail(sendQueue)
      <3>1. ~IsRecordTask(Head(sendQueue))
        BY <2>3 DEF IsRecordTask
      <3>2. QED
        BY <1>0, <1>1, <2>3, <3>1, KeysMoveUp
    <2>4. QED
      BY <1>0, <1>1, <2>1, <2>2, <2>3, ParkQueues
  <1>5. QED
    BY <1>2, <1>3, <1>4 DEF RemoteccInv

\* A REFER that has nothing to do with recording.
LEMMA OtherReferKeeps ==
    ASSUME RemoteccInv, UNCHANGED parkVars, UNCHANGED <<sent, call, recorders, shown, keys>>,
           \/ UNCHANGED sendQueue
           \/ \E t \in {"mcid", "hlog"} : sendQueue' = Append(sendQueue, [task |-> t]),
           traces' \in Nat, answer' \in Codes
    PROVE  RemoteccInv'
  <1>0. RemoteccTypeOK /\ TypeOK /\ ParkInv /\ KeysFit
    BY DEF RemoteccInv, RemoteccTypeOK
  <1>1. ASSUME NEW t \in {"mcid", "hlog"}
        PROVE  [task |-> t] \in OtherTasks /\ ~IsRecordTask([task |-> t])
    BY RemoteccConstants DEF Tasks, IsRecordTask
  <1>2. ParkInv'
    BY <1>0, <1>1, ReferKeepsPark
  <1>3. RemoteccTypeOK'
    <2>1. peer' = peer
      BY DEF parkVars, callVars
    <2>2. QED
      BY <1>0, <1>2, <2>1 DEF RemoteccTypeOK, ParkInv
  <1>4. KeysFit'
    <2>1. CASE UNCHANGED sendQueue
      <3>1. RecordTasks' = RecordTasks
        BY <2>1 DEF RecordTasks
      <3>2. QED
        BY <1>0, <2>1, <3>1, KeysKept
    <2>2. ASSUME NEW t \in {"mcid", "hlog"}, sendQueue' = Append(sendQueue, [task |-> t])
          PROVE  KeysFit'
      BY <1>0, <1>1, <2>2, KeysGrowNot
    <2>3. QED
      BY <2>1, <2>2
  <1>5. QED
    BY <1>2, <1>3, <1>4 DEF RemoteccInv

LEMMA HandleRecordKeeps ==
    ASSUME RemoteccInv, NEW complete \in BOOLEAN, NEW start \in BOOLEAN,
           HandleRecord(complete, start)
    PROVE  RemoteccInv'
  <1>0. RemoteccTypeOK /\ TypeOK /\ ParkInv /\ KeysFit
    BY DEF RemoteccInv, RemoteccTypeOK
  <1>1. /\ UNCHANGED parkVars /\ UNCHANGED <<sent, call, recorders, traces, shown>>
        /\ answer' \in Codes
    BY DEF HandleRecord, Codes
  <1>2. PICK key \in {"start", "stop"} : key = IF start THEN "start" ELSE "stop"
    OBVIOUS
  <1>3. PICK t : t = [task |-> key]
    OBVIOUS
  <1>4. t \in OtherTasks /\ t.task = key /\ IsRecordTask(t)
    <2>1. t \in OtherTasks
      BY <1>3, RemoteccConstants DEF Tasks
    <2>2. QED
      BY <1>2, <1>3, <2>1, OtherIsNot DEF IsRecordTask
  <1>5. sendQueue \in Seq(Feedback \cup OtherTasks)
    BY <1>0 DEF TypeOK
  <1>6. \/ UNCHANGED <<sendQueue, keys>>
        \/ call = "up" /\ sendQueue' = Append(sendQueue, t) /\ keys' = Append(keys, key)
    <2>1. CASE complete /\ call = "up"
      <3>1. UNCHANGED sendQueue \/ sendQueue' = Append(sendQueue, t)
        BY <1>2, <1>3, <2>1 DEF HandleRecord, Push
      <3>2. keys' = IF sendQueue' # sendQueue THEN Append(keys, key) ELSE keys
        BY <1>2, <2>1 DEF HandleRecord, Accepted, Pushed
      <3>3. Append(sendQueue, t) # sendQueue
        BY <1>4, <1>5
      <3>4. QED
        BY <2>1, <3>1, <3>2, <3>3
    <2>2. CASE ~(complete /\ call = "up")
      BY <2>2 DEF HandleRecord
    <2>3. QED
      BY <2>1, <2>2
  <1>7. ParkInv'
    BY <1>0, <1>1, <1>4, <1>6, ReferKeepsPark
  <1>8. keys \in Seq({"start", "stop"})
    BY <1>0 DEF RemoteccTypeOK
  <1>9. RemoteccTypeOK'
    <2>1. peer' = peer
      BY <1>1 DEF parkVars, callVars
    <2>2. keys' \in Seq({"start", "stop"})
      BY <1>6, <1>8
    <2>3. QED
      BY <1>0, <1>1, <1>7, <2>1, <2>2 DEF RemoteccTypeOK, ParkInv
  <1>10. CASE UNCHANGED <<sendQueue, keys>>
    <2>1. RecordTasks' = RecordTasks
      BY <1>10 DEF RecordTasks
    <2>2. KeysFit'
      BY <1>0, <1>1, <1>10, <2>1, KeysKept
    <2>3. QED
      BY <1>7, <1>9, <2>2 DEF RemoteccInv
  <1>11. CASE call = "up" /\ sendQueue' = Append(sendQueue, t) /\ keys' = Append(keys, key)
    <2>1. PICK n, pos : Waiting(n, pos) /\ Recorded(n)
      BY <1>0, KeysFitIs
    <2>2. PICK k : k = Len(sendQueue) + 1
      OBVIOUS
    <2>3. /\ \A i \in RecordTasks : i \in Nat /\ i < k /\ sendQueue'[i] = sendQueue[i]
          /\ k \in Nat /\ sendQueue'[k] = t
          /\ RecordTasks' = RecordTasks \cup {k}
      BY <1>0, <1>4, <1>11, <2>2, TasksGrow
    <2>4. PICK L : L = Len(keys)
      OBVIOUS
    <2>5. /\ L \in Nat /\ Len(keys') = L + 1 /\ keys'[L + 1] = key
          /\ \A i \in 1..L : keys'[i] = keys[i]
      BY <1>8, <1>11, <2>4
    <2>6. /\ n \in 0..L
          /\ \A i \in RecordTasks : pos[i] \in (n + 1)..L
          /\ \A i, j \in RecordTasks : i < j => pos[i] < pos[j]
          /\ \A j \in (n + 1)..L : \E i \in RecordTasks : pos[i] = j
          /\ \A i \in RecordTasks : sendQueue[i].task = keys[pos[i]]
      BY <2>1, <2>4 DEF Waiting
    <2>7. PICK p : p = [i \in RecordTasks' |-> IF i = k THEN L + 1 ELSE pos[i]]
      OBVIOUS
    <2>8. p[k] = L + 1 /\ \A i \in RecordTasks : p[i] = pos[i] /\ i # k
      BY <2>3, <2>7
    <2>9. p \in [RecordTasks' -> (n + 1)..(L + 1)]
      <3>1. \A i \in RecordTasks' : p[i] \in (n + 1)..(L + 1)
        BY <2>3, <2>5, <2>6, <2>8
      <3>2. QED
        BY <2>7, <3>1
    <2>10. \A i, j \in RecordTasks' : i < j => p[i] < p[j]
      <3> SUFFICES ASSUME NEW i \in RecordTasks', NEW j \in RecordTasks', i < j
                   PROVE  p[i] < p[j]
        OBVIOUS
      <3>1. i \in RecordTasks
        BY <2>3
      <3>2. QED
        BY <2>3, <2>5, <2>6, <2>8, <3>1
    <2>11. \A j \in (n + 1)..(L + 1) : \E i \in RecordTasks' : p[i] = j
      <3> SUFFICES ASSUME NEW j \in (n + 1)..(L + 1) PROVE \E i \in RecordTasks' : p[i] = j
        OBVIOUS
      <3>1. CASE j = L + 1
        BY <2>3, <2>8, <3>1
      <3>2. CASE j # L + 1
        <4>1. j \in (n + 1)..L
          BY <2>5, <2>6, <3>2
        <4>2. PICK i \in RecordTasks : pos[i] = j
          BY <2>6, <4>1
        <4>3. QED
          BY <2>3, <2>8, <4>2
      <3>3. QED
        BY <3>1, <3>2
    <2>12. \A i \in RecordTasks' : sendQueue'[i].task = keys'[p[i]]
      <3> SUFFICES ASSUME NEW i \in RecordTasks' PROVE sendQueue'[i].task = keys'[p[i]]
        OBVIOUS
      <3>1. CASE i = k
        BY <1>4, <2>3, <2>5, <2>8, <3>1
      <3>2. CASE i \in RecordTasks
        <4>1. pos[i] \in 1..L
          BY <2>5, <2>6, <3>2
        <4>2. QED
          BY <2>3, <2>5, <2>6, <2>8, <3>2, <4>1
      <3>3. QED
        BY <2>3, <3>1, <3>2
    <2>13. Waiting(n, p)'
      <3>1. n \in 0..Len(keys')
        BY <2>5, <2>6
      <3>2. QED
        BY <2>5, <2>9, <2>10, <2>11, <2>12, <3>1 DEF Waiting
    <2>14. Recorded(n)'
      <3>1. InTurn' => InTurn
        <4> SUFFICES ASSUME InTurn', NEW i \in 1..L PROVE (keys[i] = "start") = (i % 2 = 1)
          BY <2>4 DEF InTurn
        <4>1. i \in 1..(L + 1) /\ keys'[i] = keys[i]
          BY <2>5
        <4>2. QED
          BY <2>5, <4>1 DEF InTurn
      <3>2. QED
        BY <1>1, <1>11, <2>1, <3>1 DEF Recorded
    <2>15. KeysFit'
      BY <2>13, <2>14, KeysFitIsPrimed
    <2>16. QED
      BY <1>7, <1>9, <2>15 DEF RemoteccInv
  <1>12. QED
    BY <1>6, <1>10, <1>11

LEMMA ReferTaskKeeps ==
    ASSUME RemoteccInv, ReferTask
    PROVE  RemoteccInv'
  <1>0. RemoteccTypeOK /\ TypeOK /\ ParkInv /\ KeysFit
    BY DEF RemoteccInv, RemoteccTypeOK
  <1>1. /\ sendQueue # <<>> /\ ~IsFeedback(Head(sendQueue))
        /\ Head(sendQueue).task \in {"mcid", "hlog"} /\ sendQueue' = Tail(sendQueue)
        /\ shown' = Append(shown, Head(sendQueue).task)
        /\ UNCHANGED parkVars /\ UNCHANGED <<sent, call, traces, answer, keys, recorders>>
    BY DEF ReferTask, NextTask, SendReady
  <1>2. ParkInv'
    BY <1>0, <1>1, TaskKeepsPark
  <1>3. RemoteccTypeOK'
    <2>1. peer' = peer
      BY <1>1 DEF parkVars, callVars
    <2>2. shown' \in Seq({"mcid", "hlog"})
      BY <1>0, <1>1 DEF RemoteccTypeOK
    <2>3. QED
      BY <1>0, <1>1, <1>2, <2>1, <2>2 DEF RemoteccTypeOK, ParkInv
  <1>4. ~IsRecordTask(Head(sendQueue))
    BY <1>1 DEF IsRecordTask
  <1>5. KeysFit'
    BY <1>0, <1>1, <1>4, KeysMoveUp
  <1>6. QED
    BY <1>2, <1>3, <1>5 DEF RemoteccInv

LEMMA RecordAppTaskKeeps ==
    ASSUME RemoteccInv, RecordAppTask
    PROVE  RemoteccInv'
  <1>0. /\ RemoteccTypeOK /\ TypeOK /\ ParkInv /\ KeysFit
        /\ keys \in Seq({"start", "stop"}) /\ recorders \in Nat
    BY DEF RemoteccInv, RemoteccTypeOK
  <1>1. /\ sendQueue # <<>> /\ ~IsFeedback(Head(sendQueue))
        /\ Head(sendQueue).task \in {"start", "stop"} /\ sendQueue' = Tail(sendQueue)
        /\ recorders' = IF call = "gone" THEN 0
                        ELSE IF Head(sendQueue).task = "start" THEN recorders + 1
                        ELSE IF recorders > 0 THEN recorders - 1 ELSE 0
        /\ UNCHANGED parkVars /\ UNCHANGED <<sent, call, traces, answer, keys, shown>>
    BY DEF RecordAppTask, NextTask, SendReady
  <1>2. ParkInv'
    BY <1>0, <1>1, TaskKeepsPark
  <1>3. RemoteccTypeOK'
    <2>1. peer' = peer
      BY <1>1 DEF parkVars, callVars
    <2>2. recorders' \in Nat
      BY <1>0, <1>1
    <2>3. QED
      BY <1>0, <1>1, <1>2, <2>1, <2>2 DEF RemoteccTypeOK, ParkInv
  <1>4. 1 \in RecordTasks
    BY <1>0, <1>1, TasksShift DEF IsRecordTask
  <1>5. PICK n, pos : Waiting(n, pos) /\ Recorded(n)
    BY <1>0, KeysFitIs
  <1>6. /\ n + 1 \in 1..Len(keys) /\ keys[n + 1] = Head(sendQueue).task
        /\ \E p : Waiting(n + 1, p)'
    BY <1>0, <1>1, <1>4, <1>5, WaitingMovesUp
  <1>7. n \in Nat
    BY <1>5 DEF Waiting
  <1>8. Recorded(n + 1)'
    <2>1. call # "ringing"
      BY <1>5, <1>6 DEF Recorded
    <2>2. ASSUME call = "up", InTurn PROVE recorders' = (n + 1) % 2
      <3>1. recorders = n % 2
        BY <1>5, <2>2 DEF Recorded
      <3>2. (keys[n + 1] = "start") = ((n + 1) % 2 = 1)
        BY <1>6, <2>2 DEF InTurn
      <3>3. n % 2 \in {0, 1} /\ (n + 1) % 2 = 1 - (n % 2)
        BY <1>7, Parity
      <3>4. CASE keys[n + 1] = "start"
        BY <1>1, <1>6, <2>2, <3>1, <3>2, <3>3, <3>4
      <3>5. CASE keys[n + 1] # "start"
        BY <1>1, <1>6, <2>2, <3>1, <3>2, <3>3, <3>5
      <3>6. QED
        BY <3>4, <3>5
    <2>3. InTurn' <=> InTurn
      BY <1>1 DEF InTurn
    <2>4. QED
      BY <1>1, <2>1, <2>2, <2>3 DEF Recorded
  <1>9. KeysFit'
    BY <1>6, <1>8, KeysFitIsPrimed
  <1>10. QED
    BY <1>2, <1>3, <1>9 DEF RemoteccInv

LEMMA PickupKeeps ==
    ASSUME RemoteccInv, Pickup
    PROVE  RemoteccInv'
  <1>0. RemoteccTypeOK /\ TypeOK /\ ParkInv /\ KeysFit
    BY DEF RemoteccInv, RemoteccTypeOK
  <1>1. /\ call = "ringing" /\ call' = "up"
        /\ UNCHANGED <<recorders, traces, answer, shown, keys>>
        /\ UNCHANGED <<target, peer, entering, lot, step, monitor, parkee, version, held, open,
                       inbox, heard, sendQueue, sent, parkQueue, xfer, times, parkedBy, excused,
                       raced>>
    BY DEF Pickup, vars, callVars, prdVars, subVars, sendVars, taskVars, histVars
  <1>2. ParkInv'
    BY <1>0, <1>1, SameParkInv
  <1>3. RemoteccTypeOK'
    BY <1>0, <1>1, <1>2 DEF RemoteccTypeOK, ParkInv
  <1>4. PICK n, pos : Waiting(n, pos) /\ Recorded(n)
    BY <1>0, KeysFitIs
  <1>5. Waiting(n, pos)'
    <2>1. RecordTasks' = RecordTasks
      BY <1>1 DEF RecordTasks
    <2>2. QED
      BY <1>1, <1>4, <2>1 DEF Waiting
  <1>6. keys = <<>> /\ recorders = 0
    BY <1>1, <1>4 DEF Recorded
  <1>7. n = 0
    BY <1>4, <1>6 DEF Waiting
  <1>8. Recorded(n)'
    <2>1. 0 % 2 = 0
      OBVIOUS
    <2>2. QED
      BY <1>1, <1>6, <1>7, <2>1 DEF Recorded
  <1>9. KeysFit'
    BY <1>5, <1>8, KeysFitIsPrimed
  <1>10. QED
    BY <1>2, <1>3, <1>9 DEF RemoteccInv

LEMMA HangupKeeps ==
    ASSUME RemoteccInv, Hangup
    PROVE  RemoteccInv'
  <1>0. RemoteccTypeOK /\ TypeOK /\ ParkInv /\ KeysFit
    BY DEF RemoteccInv, RemoteccTypeOK
  <1>1. /\ call' = "gone" /\ recorders' = 0 /\ PeerBecomes(NoPeer)
        /\ UNCHANGED <<target, entering, lot, step, prdVars, subVars, sendVars, taskVars,
                       times, parkedBy, excused, traces, answer, shown, keys>>
    BY DEF Hangup
  <1>2. UNCHANGED <<target, entering, lot, inbox, times, parkedBy, excused, serverVars>>
    BY <1>1 DEF subVars, serverVars
  <1>3. NoPeer \notin entering \cup lot
    BY <1>0, ParkConstants DEF TypeOK
  <1>4. ParkInv'
    BY <1>0, <1>1, <1>2, <1>3, PeerSwitched
  <1>5. RemoteccTypeOK'
    <2>1. peer' = NoPeer
      BY <1>1 DEF PeerBecomes
    <2>2. QED
      BY <1>0, <1>1, <1>4, <2>1 DEF RemoteccTypeOK, ParkInv
  <1>6. PICK n, pos : Waiting(n, pos) /\ Recorded(n)
    BY <1>0, KeysFitIs
  <1>7. Waiting(n, pos)' /\ Recorded(n)'
    <2>1. sendQueue' = sendQueue
      BY <1>1 DEF sendVars
    <2>2. RecordTasks' = RecordTasks
      BY <2>1 DEF RecordTasks
    <2>3. Waiting(n, pos)'
      BY <1>1, <1>6, <2>1, <2>2 DEF Waiting
    <2>4. Recorded(n)'
      BY <1>1 DEF Recorded
    <2>5. QED
      BY <2>3, <2>4
  <1>8. KeysFit'
    BY <1>7, KeysFitIsPrimed
  <1>9. QED
    BY <1>4, <1>5, <1>8 DEF RemoteccInv

LEMMA NextRemotecc == RemoteccInv /\ [RemoteccNext]_allVars => RemoteccInv'
  <1> SUFFICES ASSUME RemoteccInv, [RemoteccNext]_allVars PROVE RemoteccInv'
    OBVIOUS
  <1>0. traces \in Nat
    BY DEF RemoteccInv, RemoteccTypeOK
  <1>1. ASSUME NEW t \in {"mcid", "hlog"}, Push(t)
        PROVE  UNCHANGED sendQueue \/ sendQueue' = Append(sendQueue, [task |-> t])
    BY <1>1 DEF Push
  <1>2. ASSUME NEW request, Answered(request) PROVE RemoteccInv'
    <2>1. AnswerTo(request) \in Codes
      BY DEF AnswerTo, Codes
    <2>2. QED
      BY <1>0, <1>2, <2>1, OtherReferKeeps DEF Answered, sendVars
  <1>3. ASSUME NEW complete \in BOOLEAN, HandleMCID(complete) PROVE RemoteccInv'
    <2>1. /\ UNCHANGED parkVars /\ UNCHANGED <<sent, call, recorders, shown, keys>>
          /\ traces' \in Nat /\ answer' \in Codes
      BY <1>0, <1>3 DEF HandleMCID, Codes
    <2>2. UNCHANGED sendQueue \/ sendQueue' = Append(sendQueue, [task |-> "mcid"])
      BY <1>1, <1>3 DEF HandleMCID
    <2>3. QED
      BY <2>1, <2>2, OtherReferKeeps
  <1>4. CASE HandleHLog
    <2>1. /\ UNCHANGED parkVars /\ UNCHANGED <<sent, call, recorders, shown, keys>>
          /\ traces' \in Nat /\ answer' \in Codes
      BY <1>0, <1>4 DEF HandleHLog, Codes
    <2>2. UNCHANGED sendQueue \/ sendQueue' = Append(sendQueue, [task |-> "hlog"])
      BY <1>1, <1>4 DEF HandleHLog
    <2>3. QED
      BY <2>1, <2>2, OtherReferKeeps
  <1>5. CASE Refer
    BY <1>2, <1>3, <1>4, <1>5, HandleRecordKeeps DEF Refer
  <1>6. CASE UNCHANGED allVars
    <2>1. /\ UNCHANGED parkVars /\ UNCHANGED <<sent, sendQueue, call, recorders, shown, keys,
                                              traces, answer>>
      BY <1>6 DEF allVars, vars, rcVars, parkVars, sendVars
    <2>2. ParkInv' /\ RemoteccTypeOK /\ KeysFit
      BY <2>1, ReferKeepsPark DEF RemoteccInv
    <2>3. peer' = peer
      BY <2>1 DEF parkVars, callVars
    <2>4. RemoteccTypeOK'
      BY <2>1, <2>2, <2>3 DEF RemoteccTypeOK, ParkInv
    <2>5. KeysFit'
      <3>1. RecordTasks' = RecordTasks
        BY <2>1 DEF RecordTasks
      <3>2. QED
        BY <2>1, <2>2, <3>1, KeysKept
    <2>6. QED
      BY <2>2, <2>4, <2>5 DEF RemoteccInv
  <1>7. QED
    BY <1>5, <1>6, ParkStepKeeps, ReferTaskKeeps, RecordAppTaskKeeps, PickupKeeps, HangupKeeps
    DEF RemoteccNext

-----------------------------------------------------------------------------
(* The theorems.                                                            *)

\* However many softkeys are pressed and whatever the calls do, Park alone
\* keeps its inductive invariant: the threads of park.c and the server's.
THEOREM ParkInvariant == Spec => []ParkInv
  <1>1. QED
    BY InitPark, NextPark, PTL DEF Spec

\* The same next to the other REFERs of the phone (res_pjsip_cisco_remotecc.c),
\* and the recording tasks that wait are the last softkeys, in order.
THEOREM RemoteccInvariant == RemoteccSpec => []RemoteccInv
  <1>1. QED
    BY InitRemotecc, NextRemotecc, PTL DEF RemoteccSpec

\* record.c: a call is recorded if and only if the last softkey said so.
THEOREM RecordingIsAsAsked == RemoteccSpec => []RecordsAsAsked
  <1>1. RemoteccInv => RecordsAsAsked
    <2> SUFFICES ASSUME RemoteccInv, RecordTasks = {}, call = "up", InTurn
                 PROVE  recorders = IF keys # <<>> /\ keys[Len(keys)] = "start" THEN 1 ELSE 0
      BY DEF RecordsAsAsked
    <2>1. PICK n, pos : Waiting(n, pos) /\ Recorded(n)
      BY KeysFitIs DEF RemoteccInv
    <2>2. PICK L : L = Len(keys)
      OBVIOUS
    <2>3. L \in Nat /\ (keys # <<>> <=> L > 0)
      BY <2>2 DEF RemoteccInv, RemoteccTypeOK
    <2>4. n = L
      <3>1. n \in 0..L /\ \A k \in (n + 1)..L : FALSE
        BY <2>1, <2>2 DEF Waiting
      <3>2. n < L => n + 1 \in (n + 1)..L
        BY <2>3, <3>1
      <3>3. QED
        BY <2>3, <3>1, <3>2
    <2>5. recorders = L % 2 /\ L % 2 \in {0, 1}
      BY <2>1, <2>3, <2>4, Parity DEF Recorded
    <2>6. CASE keys = <<>>
      <3>1. 0 % 2 = 0
        OBVIOUS
      <3>2. L = 0
        BY <2>3, <2>6
      <3>3. QED
        BY <2>5, <2>6, <3>1, <3>2
    <2>7. CASE keys # <<>>
      <3>1. L \in 1..L
        BY <2>3, <2>7
      <3>2. (keys[L] = "start") = (L % 2 = 1)
        BY <2>2, <3>1 DEF InTurn
      <3>3. QED
        BY <2>2, <2>5, <2>7, <3>2
    <2>8. QED
      BY <2>6, <2>7
  <1>2. QED
    BY <1>1, RemoteccInvariant, PTL

\* park_xfer_task(): the call that is parked is the one that was asked for.
THEOREM ParksWhatWasAsked == RemoteccSpec => []ParksTheCallAsked
  <1>1. RemoteccInv => ParksTheCallAsked
    BY DEF RemoteccInv, ParkInv, PeerFits, ParksTheCallAsked
  <1>2. QED
    BY <1>1, RemoteccInvariant, PTL

\* park_stasis_cb() and the error paths: a subscription outlives its request
\* only for a call that is in the lot.
THEOREM NoSubscriptionIsLeft == RemoteccSpec => []NobodyListensInVain
  <1>1. RemoteccInv => NobodyListensInVain
    <2> SUFFICES ASSUME ParkInv, Quiet, NEW q \in Requests, open[q]
                 PROVE  \/ monitor[q] /\ parkee[q] \in lot
                        \/ target = "other" \/ q \in excused \cup raced
      BY DEF RemoteccInv, NobodyListensInVain
    <2>1. StepFits(q) /\ WatchFits(q) /\ TypeOK
      BY DEF ParkInv
    <2>2. held[q] /\ target \in {"other", "park"}
      BY <2>1 DEF StepFits, Quiet
    <2>3. ~Queued(q) /\ ~Running(q) /\ News(q) = {} /\ heard[q] = {} /\ entering = {}
      BY DEF Quiet, Queued, Running, News
    <2>4. QED
      BY <2>1, <2>2, <2>3 DEF WatchFits
  <1>2. QED
    BY <1>1, RemoteccInvariant, PTL

\* What was sent is the head of the line.
LEMMA ToldIs ==
    ASSUME ParkInv, NEW q \in Requests
    PROVE  /\ \A i \in Told(q) : /\ i \in Lines(q) /\ i \in Nat /\ Line[i] = sent[i]
                                 /\ sent[i] \in Feedback
           /\ \A j \in Lines(q) : j \in Nat
           /\ \A i \in Told(q) : \A j \in Lines(q) : j <= i => j \in Told(q)
           /\ sendQueue = <<>> => Lines(q) = Told(q)
  <1>0. TypeOK
    BY DEF ParkInv
  <1>1. PICK n : n = Len(sent)
    OBVIOUS
  <1>2. /\ n \in Nat /\ Len(Line) = n + Len(sendQueue) /\ Len(sendQueue) \in Nat
        /\ \A i \in 1..n : Line[i] = sent[i] /\ sent[i] \in Feedback
    <2>1. PICK F : F = Feedback
      OBVIOUS
    <2>2. sent \in Seq(F)
      BY <1>0, <2>1 DEF TypeOK
    <2>3. \A i \in 1..Len(sent) : sent[i] \in F
      BY <2>2
    <2>4. QED
      BY <1>0, <1>1, <2>1, <2>3, LineIs
  <1>3. \A i \in 1..n : i \in 1..Len(Line) /\ i \in Nat
    BY <1>2
  <1>4. Told(q) = {i \in 1..n : sent[i].req = q}
    BY <1>1 DEF Told
  <1>5. \A i \in Told(q) : /\ i \in Lines(q) /\ i \in Nat /\ Line[i] = sent[i]
                           /\ sent[i] \in Feedback
    BY <1>2, <1>3, <1>4, FeedbackIs DEF Lines
  <1>6. \A j \in Lines(q) : j \in Nat /\ j >= 1 /\ Line[j].req = q
    BY DEF Lines
  <1>7. ASSUME NEW j \in Lines(q), j <= n PROVE j \in Told(q)
    BY <1>2, <1>4, <1>6, <1>7
  <1>8. \A i \in Told(q) : i <= n
    BY <1>2, <1>4
  <1>9. \A i \in Told(q) : \A j \in Lines(q) : j <= i => j \in Told(q)
    BY <1>2, <1>5, <1>6, <1>7, <1>8
  <1>10. sendQueue = <<>> => Lines(q) = Told(q)
    <2> SUFFICES ASSUME sendQueue = <<>> PROVE Lines(q) = Told(q)
      OBVIOUS
    <2>1. Len(Line) = n
      BY <1>2
    <2>2. \A j \in Lines(q) : j <= n
      BY <1>2, <2>1 DEF Lines
    <2>3. QED
      BY <1>5, <1>7, <2>2
  <1>11. QED
    BY <1>5, <1>6, <1>9, <1>10

LEMMA SoleIsOneStay ==
    ASSUME ParkInv, NEW q \in Requests, Sole(q), q \notin excused
    PROVE  /\ OneStay(q) /\ OrderFits(q) /\ FailureFits(q) /\ ButtonFits(q)
           /\ monitor[q] => VersionFits(q)
           /\ times[parkee[q]] # 0 => times[parkee[q]] = 1 /\ step[q] # "refused"
  <1>1. times[parkee[q]] = 1 /\ parkedBy[q] = parkee[q] => ~Failed(q) /\ step[q] = "accepted"
    BY DEF Sole, Failed, ParkInv, TransfersFit
  <1>2. OneStay(q)
    BY <1>1 DEF Sole, OneStay
  <1>3. StoryFits(q)
    BY DEF ParkInv
  <1>4. QED
    BY <1>1, <1>2, <1>3 DEF Sole, StoryFits

\* prd->version and the two serializers: what the phone is told of one parking
\* is in order, and its versions have no gap.
THEOREM FeedbackKeepsItsOrder == RemoteccSpec => []FeedbackInOrder
  <1>1. RemoteccInv => FeedbackInOrder
    <2> SUFFICES ASSUME ParkInv, NEW q \in Requests, Sole(q), q \notin excused,
                        NEW i \in Told(q)
                 PROVE  LET before == {j \in Told(q) : j < i}
                        IN  /\ \A j \in before : sent[j].event = "parked"
                            /\ monitor[q] =>
                                  {sent[j].version : j \in before} = 1..(sent[i].version - 1)
      BY DEF RemoteccInv, FeedbackInOrder
    <2>1. OrderFits(q) /\ (monitor[q] => VersionFits(q))
      BY SoleIsOneStay
    <2>2. /\ \A j \in Told(q) : /\ j \in Lines(q) /\ j \in Nat /\ Line[j] = sent[j]
                                /\ sent[j] \in Feedback
          /\ \A j \in Lines(q) : j \in Nat
          /\ \A j \in Lines(q) : j <= i => j \in Told(q)
      BY ToldIs
    <2>3. \A j \in Told(q) : j < i => sent[j].event = "parked"
      BY <2>1, <2>2 DEF OrderFits, Parked
    <2>4. ASSUME monitor[q]
          PROVE  {sent[j].version : j \in {k \in Told(q) : k < i}} = 1..(sent[i].version - 1)
      <3>1. PICK said \in Nat :
               /\ \A k, j \in Lines(q) : k < j => Line[k].version < Line[j].version
               /\ \A k \in Lines(q) : Line[k].version \in 1..said
               /\ \A v \in 1..said : \E k \in Lines(q) : Line[k].version = v
        BY <2>1, <2>4 DEF VersionFits
      <3>2. PICK w : w = sent[i].version
        OBVIOUS
      <3>3. w \in 1..said
        BY <2>2, <3>1, <3>2
      <3>4. ASSUME NEW j \in Told(q), j < i PROVE sent[j].version \in 1..(w - 1)
        <4>1. sent[j].version < w /\ sent[j].version \in 1..said
          BY <2>2, <3>1, <3>2, <3>4
        <4>2. QED
          BY <3>3, <4>1
      <3>5. ASSUME NEW v \in 1..(w - 1)
            PROVE  \E j \in Told(q) : j < i /\ sent[j].version = v
        <4>1. v \in 1..said /\ v < w
          BY <3>3
        <4>2. PICK k \in Lines(q) : Line[k].version = v
          BY <3>1, <4>1
        <4>3. i \in Lines(q) /\ Line[i].version = w /\ i \in Nat /\ k \in Nat
          BY <2>2, <3>2
        <4>4. k # i /\ ~(i < k)
          BY <3>1, <3>3, <4>1, <4>2, <4>3
        <4>5. k < i
          BY <4>3, <4>4
        <4>6. k \in Told(q)
          BY <2>2, <4>3, <4>5
        <4>7. QED
          BY <2>2, <4>2, <4>5, <4>6
      <3>6. QED
        BY <3>2, <3>4, <3>5
    <2>5. QED
      BY <2>3, <2>4
  <1>2. QED
    BY <1>1, RemoteccInvariant, PTL

\* ParkMonitor's button ends up showing where the call is.
THEOREM TheButtonSettles == RemoteccSpec => []ButtonSettles
  <1>1. RemoteccInv => ButtonSettles
    <2> SUFFICES ASSUME ParkInv, Quiet, NEW q \in Requests, monitor[q], Sole(q),
                        q \notin excused, NEW i \in Told(q), \A j \in Told(q) : j <= i
                 PROVE  sent[i].event = "parked" <=> parkee[q] \in lot
      BY DEF RemoteccInv, ButtonSettles
    <2>1. /\ OrderFits(q) /\ FailureFits(q) /\ ButtonFits(q)
          /\ times[parkee[q]] # 0 => times[parkee[q]] = 1 /\ step[q] # "refused"
      BY SoleIsOneStay
    <2>2. Lines(q) = Told(q) /\ \A j \in Told(q) : Line[j] = sent[j] /\ j \in Nat
      BY ToldIs DEF Quiet
    <2>3. NoNews(q) /\ heard[q] = {} /\ News(q) = {}
      BY DEF Quiet, NoNews, News
    <2>4. parkee[q] \in lot => sent[i].event = "parked"
      BY <2>1, <2>2 DEF OrderFits, AllParked, Parked
    <2>5. ASSUME sent[i].event = "parked" PROVE parkee[q] \in lot
      <3>1. \A j \in Lines(q) : j = i \/ j < i
        BY <2>2
      <3>2. \A j \in Lines(q) : Parked(Line[j])
        BY <2>1, <2>2, <2>5, <3>1 DEF OrderFits, Parked
      <3>3. AllParked(q)
        BY <2>3, <3>2 DEF AllParked
      <3>4. times[parkee[q]] # 0
        BY <2>1, <2>2, <2>5 DEF FailureFits
      <3>5. Lines(q) # {}
        BY <2>2
      <3>6. QED
        BY <2>1, <3>3, <3>4, <3>5 DEF ButtonFits
    <2>6. QED
      BY <2>4, <2>5
  <1>2. QED
    BY <1>1, RemoteccInvariant, PTL

=============================================================================
