-------------------------- MODULE Conference_proofs --------------------------
(***************************************************************************)
(* ConfInv is an invariant of Conference for any number of calls and servant
   threads and any budget of softkeys, hangups and failures; the properties
   of the module follow from it.                                           *)
(***************************************************************************)
EXTENDS Conference, FiniteSetTheorems, SequenceTheorems, TLAPS

(***************************************************************************)
(* Channels, and sets of them.                                             *)
(***************************************************************************)

\* A channel is the phone's leg or the remote leg of one call.
LEMMA ChannelCases ==
    /\ Channels = Phones \cup Remotes
    /\ Phones \cap Remotes = {}
    /\ \A d \in Calls : Phone(d) \in Phones /\ Remote(d) \in Remotes
    /\ \A d, e \in Calls : Phone(d) = Phone(e) => d = e
    /\ \A d, e \in Calls : Remote(d) = Remote(e) => d = e
  BY DEF Channels, Phones, Remotes, Phone, Remote

LEMMA ChannelsFinite == IsFiniteSet(Channels)
  <1>1. IsFiniteSet({"phone", "remote"})
    <2>1. {"phone", "remote"} = {"phone"} \cup {"remote"}
      OBVIOUS
    <2>2. IsFiniteSet({"phone"})
      BY FS_Singleton
    <2>3. QED
      BY <2>1, <2>2, FS_AddElement
  <1>2. IsFiniteSet(Calls)
    BY FS_Interval, ConferenceConstants DEF Calls
  <1>3. QED
    BY <1>1, <1>2, FS_Product DEF Channels

\* The peer of a channel is all the company it has.
LEMMA PeerIsCompany ==
    ASSUME NEW ch \in Channels, NEW p \in BridgePeer(ch)
    PROVE  /\ p \in Channels /\ p # ch
           /\ InBridge(ch) /\ where[p] = where[ch]
           /\ Members(where[ch]) = {ch, p}
  <1> DEFINE M == Members(where[ch])
  <1>1. p \in M /\ p # ch /\ InBridge(ch) /\ Cardinality(M) = 2 /\ ch \in M
    BY DEF BridgePeer, Members
  <1>2. IsFiniteSet(M)
    BY ChannelsFinite, FS_Subset DEF Members
  <1>3. IsFiniteSet({ch, p}) /\ Cardinality({ch, p}) = 2
    <2>1. IsFiniteSet({ch}) /\ Cardinality({ch}) = 1
      BY FS_Singleton
    <2>2. {ch, p} = {ch} \cup {p} /\ p \notin {ch}
      BY <1>1
    <2>3. /\ IsFiniteSet({ch} \cup {p})
          /\ Cardinality({ch} \cup {p}) = Cardinality({ch}) + 1
      BY <2>1, <2>2, FS_AddElement
    <2>4. QED
      BY <2>1, <2>2, <2>3
  <1>4. {ch, p} = M
    BY <1>1, <1>2, <1>3, FS_Subset
  <1>5. QED
    BY <1>1, <1>4 DEF Members

(***************************************************************************)
(* Sequences of moves and tasks.                                           *)
(***************************************************************************)

\* Moving the first channel leaves those behind it.
LEMMA ChansTail ==
    ASSUME NEW ms \in Seq(Move), ms # <<>>
    PROVE  /\ Head(ms) \in Move /\ Tail(ms) \in Seq(Move)
           /\ Chans(ms) = {Head(ms).chan} \cup Chans(Tail(ms))
           /\ Head(ms).chan \in Channels
  <1>1. /\ Head(ms) \in Move /\ Tail(ms) \in Seq(Move)
        /\ Len(Tail(ms)) = Len(ms) - 1
        /\ \A i \in 1..Len(Tail(ms)) : Tail(ms)[i] = ms[i + 1]
    BY HeadTailProperties
  <1>2. Len(ms) \in Nat /\ Len(ms) > 0 /\ Head(ms) = ms[1]
    OBVIOUS
  <1>3. Head(ms).chan \in Channels
    BY <1>1 DEF Move
  <1>4. ASSUME NEW i \in 1..Len(ms)
        PROVE  ms[i].chan \in {Head(ms).chan} \cup Chans(Tail(ms))
    <2>1. CASE i = 1
      BY <2>1, <1>2
    <2>2. CASE i # 1
      <3>1. i - 1 \in 1..Len(Tail(ms)) /\ Tail(ms)[i - 1] = ms[i]
        BY <2>2, <1>1, <1>2
      <3>2. QED
        BY <3>1 DEF Chans
    <2>3. QED
      BY <2>1, <2>2
  <1>5. ASSUME NEW i \in 1..Len(Tail(ms))
        PROVE  Tail(ms)[i].chan \in Chans(ms)
    <2>1. i + 1 \in 1..Len(ms) /\ Tail(ms)[i] = ms[i + 1]
      BY <1>1, <1>2
    <2>2. QED
      BY <2>1 DEF Chans
  <1>6. Head(ms).chan \in Chans(ms)
    BY <1>2 DEF Chans
  <1>7. QED
    BY <1>1, <1>3, <1>4, <1>5, <1>6 DEF Chans

LEMMA ChansEmpty == Chans(<<>>) = {}
  BY DEF Chans

LEMMA ChansShort ==
    ASSUME NEW m \in Move, NEW n \in Move
    PROVE  Chans(<<m>>) = {m.chan} /\ Chans(<<m, n>>) = {m.chan, n.chan}
  <1>1. <<m>> \in Seq(Move) /\ <<m>> # <<>> /\ Head(<<m>>) = m /\ Tail(<<m>>) = <<>>
    OBVIOUS
  <1>2. /\ <<m, n>> \in Seq(Move) /\ <<m, n>> # <<>>
        /\ Head(<<m, n>>) = m /\ Tail(<<m, n>>) = <<n>>
    OBVIOUS
  <1>3. <<n>> \in Seq(Move) /\ <<n>> # <<>> /\ Head(<<n>>) = n /\ Tail(<<n>>) = <<>>
    OBVIOUS
  <1>4. Chans(<<m>>) = {m.chan} /\ Chans(<<n>>) = {n.chan}
    BY <1>1, <1>3, ChansTail, ChansEmpty
  <1>5. Chans(<<m, n>>) = {m.chan} \cup Chans(<<n>>)
    BY <1>2, ChansTail
  <1>6. QED
    BY <1>4, <1>5

\* What holds of every task in the queue holds of those left in it, and of a
\* task that is added if it holds of that one.
LEMMA QueueTail ==
    ASSUME NEW q \in Seq(Task), q # <<>>,
           \A i \in 1..Len(q) : ConsultsAnother(q[i])
    PROVE  /\ Head(q) \in Task /\ Tail(q) \in Seq(Task)
           /\ ConsultsAnother(Head(q))
           /\ \A i \in 1..Len(Tail(q)) : ConsultsAnother(Tail(q)[i])
  <1>1. /\ Head(q) \in Task /\ Tail(q) \in Seq(Task)
        /\ Len(Tail(q)) = Len(q) - 1
        /\ \A i \in 1..Len(Tail(q)) : Tail(q)[i] = q[i + 1]
    BY HeadTailProperties
  <1>2. Len(q) \in Nat /\ Len(q) > 0 /\ Head(q) = q[1]
    OBVIOUS
  <1>3. \A i \in 1..Len(Tail(q)) : i + 1 \in 1..Len(q)
    BY <1>1, <1>2
  <1>4. QED
    BY <1>1, <1>2, <1>3

LEMMA QueueAppend ==
    ASSUME NEW q \in Seq(Task), NEW t \in Task, ConsultsAnother(t),
           \A i \in 1..Len(q) : ConsultsAnother(q[i])
    PROVE  /\ Append(q, t) \in Seq(Task)
           /\ \A i \in 1..Len(Append(q, t)) : ConsultsAnother(Append(q, t)[i])
  <1>1. /\ Append(q, t) \in Seq(Task) /\ Len(Append(q, t)) = Len(q) + 1
        /\ \A i \in 1..Len(q) : Append(q, t)[i] = q[i]
        /\ Append(q, t)[Len(q) + 1] = t
    BY AppendProperties
  <1>2. Len(q) \in Nat
    OBVIOUS
  <1>3. \A i \in 1..Len(Append(q, t)) : i \in 1..Len(q) \/ i = Len(q) + 1
    BY <1>1, <1>2
  <1>4. QED
    BY <1>1, <1>3

\* The presses of Remove in a queue are finitely many ...
LEMMA RemovesFinite ==
    ASSUME NEW q \in Seq(Task)
    PROVE  IsFiniteSet(RemovesIn(q)) /\ Cardinality(RemovesIn(q)) \in Nat
  <1>1. RemovesIn(q) \subseteq 1..Len(q) /\ Len(q) \in Nat
    BY DEF RemovesIn
  <1>2. IsFiniteSet(1..Len(q))
    BY <1>1, FS_Interval
  <1>3. QED
    BY <1>1, <1>2, FS_Subset, FS_CardinalityType

\* ... one more when one is queued ...
LEMMA RemovesAppend ==
    ASSUME NEW q \in Seq(Task), NEW t \in Task
    PROVE  Cardinality(RemovesIn(Append(q, t))) =
               Cardinality(RemovesIn(q)) + (IF t.token = "Remove" THEN 1 ELSE 0)
  <1>1. /\ Append(q, t) \in Seq(Task) /\ Len(Append(q, t)) = Len(q) + 1
        /\ \A i \in 1..Len(q) : Append(q, t)[i] = q[i]
        /\ Append(q, t)[Len(q) + 1] = t
    BY AppendProperties
  <1>2. Len(q) \in Nat /\ Len(q) + 1 \notin 1..Len(q)
    OBVIOUS
  <1>3. 1..Len(Append(q, t)) = (1..Len(q)) \cup {Len(q) + 1}
    BY <1>1, <1>2
  <1>4. RemovesIn(Append(q, t)) =
            IF t.token = "Remove" THEN RemovesIn(q) \cup {Len(q) + 1}
                                  ELSE RemovesIn(q)
    BY <1>1, <1>2, <1>3 DEF RemovesIn
  <1>5. Len(q) + 1 \notin RemovesIn(q)
    BY <1>2 DEF RemovesIn
  <1>6. Cardinality(RemovesIn(q) \cup {Len(q) + 1}) = Cardinality(RemovesIn(q)) + 1
    BY <1>5, RemovesFinite, FS_AddElement
  <1>7. Cardinality(RemovesIn(q)) \in Nat
    BY RemovesFinite
  <1>8. QED
    BY <1>4, <1>6, <1>7

\* ... and one less when one is taken.
LEMMA RemovesTail ==
    ASSUME NEW q \in Seq(Task), q # <<>>
    PROVE  Cardinality(RemovesIn(q)) =
               Cardinality(RemovesIn(Tail(q)))
               + (IF Head(q).token = "Remove" THEN 1 ELSE 0)
  <1>1. /\ Head(q) \in Task /\ Tail(q) \in Seq(Task)
        /\ Len(Tail(q)) = Len(q) - 1
        /\ \A i \in 1..Len(Tail(q)) : Tail(q)[i] = q[i + 1]
    BY HeadTailProperties
  <1>2. Len(q) \in Nat /\ Len(q) > 0 /\ Head(q) = q[1]
    OBVIOUS
  <1> DEFINE Later == RemovesIn(q) \ {1}
             shift == [i \in RemovesIn(Tail(q)) |-> i + 1]
  <1>3. shift \in Bijection(RemovesIn(Tail(q)), Later)
    <2>1. \A i \in RemovesIn(Tail(q)) : i \in Nat /\ i + 1 \in Later
      BY <1>1, <1>2 DEF RemovesIn
    <2>2. \A j \in Later : j - 1 \in RemovesIn(Tail(q)) /\ (j - 1) + 1 = j
      BY <1>1, <1>2 DEF RemovesIn
    <2>3. shift \in [RemovesIn(Tail(q)) -> Later]
      BY <2>1
    <2>4. \A a, b \in RemovesIn(Tail(q)) : shift[a] = shift[b] => a = b
      BY <2>1
    <2>5. \A j \in Later : \E i \in RemovesIn(Tail(q)) : shift[i] = j
      BY <2>2
    <2>6. QED
      BY <2>3, <2>4, <2>5 DEF Bijection, Injection, Surjection, IsInjective
  <1>4. Cardinality(Later) = Cardinality(RemovesIn(Tail(q)))
    BY <1>1, <1>3, RemovesFinite, FS_Bijection DEF ExistsBijection
  <1>5. 1 \in RemovesIn(q) <=> Head(q).token = "Remove"
    BY <1>2 DEF RemovesIn
  <1>6. Cardinality(Later) = IF 1 \in RemovesIn(q) THEN Cardinality(RemovesIn(q)) - 1
                                                 ELSE Cardinality(RemovesIn(q))
    BY RemovesFinite, FS_RemoveElement
  <1>7. QED
    BY <1>1, <1>4, <1>5, <1>6, RemovesFinite

(***************************************************************************)
(* Types.                                                                  *)
(***************************************************************************)

\* What may happen is counted.
LEMMA EventNames ==
    {"confrn", "join", "select", "unselect", "rmlast", "conflist",
     "softkey", "pick", "hangup", "fault"} = Events
  BY DEF Events

LEMMA SpendType ==
    ASSUME TypeOK, NEW e \in Events, Spend(e)
    PROVE  budget' \in [Events -> Nat]
  BY DEF TypeOK, Spend

\* New tasks are tasks.
LEMMA NewTaskType ==
    ASSUME NEW op \in {"confrn", "join", "rmlast", "conflist", "action"},
           NEW d \in Calls
    PROVE  /\ NewTask(op, d) \in Task
           /\ \A s \in Seq(Calls) : [NewTask(op, d) EXCEPT !.others = s] \in Task
           /\ \A tk \in Tokens, n \in Nat :
                 [NewTask(op, d) EXCEPT !.token = tk, !.index = n] \in Task
  <1>1. "Update" \in Tokens /\ <<>> \in Seq(Calls)
    BY DEF Tokens
  <1>2. NewTask(op, d) \in Task
    BY <1>1 DEF NewTask, Task
  <1>3. ASSUME NEW s \in Seq(Calls)
        PROVE  [NewTask(op, d) EXCEPT !.others = s] \in Task
    BY <1>1, <1>2, <1>3 DEF Task
  <1>4. ASSUME NEW tk \in Tokens, NEW n \in Nat
        PROVE  [NewTask(op, d) EXCEPT !.token = tk, !.index = n] \in Task
    BY <1>1, <1>2, <1>4 DEF Task
  <1>5. QED
    BY <1>2, <1>3, <1>4

\* A channel with the bridge it is in is a move.
LEMMA FromType ==
    ASSUME TypeOK, NEW ch \in Channels
    PROVE  From(ch) \in Move
  BY DEF TypeOK, From, Move

\* What is in the bridge of a two-party call is moved out of it.
LEMMA LegsFacts ==
    ASSUME TypeOK, NEW d \in Calls, NEW legs \in Legs(d)
    PROVE  \E r \in BridgePeer(Phone(d)) :
              /\ legs = <<From(Phone(d)), From(r)>>
              /\ legs \in Seq(Move) /\ legs # <<>>
              /\ Head(legs) = From(Phone(d)) /\ Tail(legs) = <<From(r)>>
              /\ legs[1] = From(Phone(d)) /\ legs[2] = From(r)
  <1>1. PICK r \in BridgePeer(Phone(d)) : legs = <<From(Phone(d)), From(r)>>
    BY DEF Legs
  <1>2. Phone(d) \in Channels /\ r \in Channels
    BY ChannelCases, PeerIsCompany
  <1>3. From(Phone(d)) \in Move /\ From(r) \in Move
    BY <1>2, FromType
  <1>4. QED
    BY <1>1, <1>3

\* The moves of a merge.
LEMMA MovesFacts ==
    ASSUME TypeOK, NEW t \in Task, t.op \in {"confrn", "join"},
           ConsultsAnother(t), NEW ms \in MovesOf(t)
    PROVE  /\ ms \in Seq(Move) /\ ms # <<>>
           /\ Head(ms) = From(Phone(t.dialog))
           /\ \E r \in BridgePeer(Phone(t.dialog)) :
                 \/ t.op = "join" /\ Tail(ms) = <<From(r)>>
                 \/ /\ t.op = "confrn"
                    /\ \E q \in BridgePeer(Phone(t.others[1])) :
                          Tail(ms) = <<From(r), From(q)>>
  <1>0. t.dialog \in Calls
    BY DEF Task
  <1>1. CASE t.op = "join"
    <2>1. ms \in Legs(t.dialog)
      BY <1>1 DEF MovesOf
    <2>2. QED
      BY <1>0, <1>1, <2>1, LegsFacts
  <1>2. CASE t.op = "confrn"
    <2>0. t.others[1] \in Calls
      BY <1>2 DEF Task, ConsultsAnother
    <2>1. PICK a \in Legs(t.dialog), b \in Legs(t.others[1]) :
              ms = <<a[1], a[2], b[2]>>
      BY <1>2 DEF MovesOf
    <2>2. PICK r \in BridgePeer(Phone(t.dialog)) :
              a = <<From(Phone(t.dialog)), From(r)>>
      BY <1>0, <2>1, LegsFacts
    <2>3. PICK q \in BridgePeer(Phone(t.others[1])) : b[2] = From(q)
      BY <2>0, <2>1, LegsFacts
    <2>4. /\ From(Phone(t.dialog)) \in Move /\ From(r) \in Move /\ From(q) \in Move
      BY <1>0, <2>0, FromType, ChannelCases, PeerIsCompany
    <2>5. ms = <<From(Phone(t.dialog)), From(r), From(q)>>
      BY <2>1, <2>2, <2>3
    <2>6. QED
      BY <1>2, <2>4, <2>5
  <1>3. QED
    BY <1>1, <1>2

\* What a channel that leaves does to its bridge and to the others in it.
LEMMA LeaveFacts ==
    ASSUME TypeOK, NEW ch \in Channels, InBridge(ch), Leave(ch)
    PROVE  /\ where' \in [Channels -> Nat] /\ where'[ch] = Gone
           /\ dissolved' \subseteq Nat /\ dissolved \subseteq dissolved'
           /\ \A x \in Channels : where'[x] \in {where[x], Gone}
           /\ \A x \in Channels : where[x] # where[ch] => where'[x] = where[x]
           /\ IsCallBridge(where[ch]) \/ ch \in flagged \/ Members(where[ch]) = {ch} =>
                 /\ where[ch] \in dissolved'
                 /\ \A x \in Channels : where[x] = where[ch] => where'[x] = Gone
           /\ ~IsCallBridge(where[ch]) /\ ch \notin flagged =>
                 \A x \in Channels \ {ch} : where'[x] = where[x]
           /\ ending' \subseteq ending
           /\ \A x \in ending' : where'[x] = where[x]
  <1> DEFINE b == where[ch]
             dissolves == IsCallBridge(b) \/ ch \in flagged \/ Members(b) = {ch}
             out == IF dissolves THEN Members(b) ELSE {ch}
  <1>1. /\ where' = [x \in Channels |-> IF x \in out THEN Gone ELSE where[x]]
        /\ dissolved' = IF dissolves THEN dissolved \cup {b} ELSE dissolved
        /\ ending' = ending \ out
    BY DEF Leave
  <1>2. ch \in Members(b) /\ b \in Nat /\ Gone \in Nat
    BY DEF TypeOK, Members, Gone
  <1>3. ch \in out /\ \A x \in Channels : x \in out => where[x] = b
    BY <1>2 DEF Members
  <1>4. dissolves => \A x \in Channels : x \in out <=> where[x] = b
    BY DEF Members
  <1>5. ~IsCallBridge(b) /\ ch \notin flagged => out = {ch}
    OBVIOUS
  <1>6. ending' \subseteq Channels
    BY <1>1 DEF TypeOK
  <1> HIDE DEF b, dissolves, out
  <1>7. /\ where' \in [Channels -> Nat] /\ where'[ch] = Gone
        /\ \A x \in Channels : where'[x] \in {where[x], Gone}
        /\ \A x \in Channels : where[x] # b => where'[x] = where[x]
        /\ dissolves => \A x \in Channels : where[x] = b => where'[x] = Gone
    BY <1>1, <1>2, <1>3, <1>4 DEF TypeOK
  <1>8. dissolved' \subseteq Nat /\ dissolved \subseteq dissolved'
        /\ (dissolves => b \in dissolved')
    BY <1>1, <1>2 DEF TypeOK
  <1>9. ~IsCallBridge(b) /\ ch \notin flagged =>
            \A x \in Channels \ {ch} : where'[x] = where[x]
    BY <1>1, <1>5
  <1>10. ending' \subseteq ending /\ \A x \in ending' : where'[x] = where[x]
    BY <1>1, <1>6
  <1>11. QED
    BY <1>7, <1>8, <1>9, <1>10 DEF b, dissolves

\* A Select in the middle of its three steps.
LEMMA AddingFacts ==
    ASSUME TypeOK, NEW t \in Threads, NEW a \in adding[t]
    PROVE  a \in [dialog : Calls, counted : BOOLEAN] /\ adding[t] = {a}
  <1>1. adding[t] \in Optional([dialog : Calls, counted : BOOLEAN])
    BY DEF TypeOK
  <1>2. QED
    BY <1>1 DEF Optional

LEMMA InitTypeOK == Init => TypeOK
  <1> SUFFICES ASSUME Init PROVE TypeOK
    OBVIOUS
  <1>1. \A ch \in Channels : ch[2] \in Nat
    BY DEF Channels, Calls
  <1>2. NewTask("rmlast", 1) \in Task
    <2>1. 1 \in Calls
      BY ConferenceConstants DEF Calls
    <2>2. QED
      BY <2>1, NewTaskType
  <1>3. /\ {} \in Optional(Pending)
        /\ {} \in Optional([dialog : Calls, counted : BOOLEAN])
    BY DEF Optional
  <1>4. QED
    BY <1>1, <1>2, <1>3, ConferenceConstants DEF Init, TypeOK

\* The tasks that softkeys queue are tasks.
LEMMA QueueOrFailType ==
    ASSUME TypeOK, NEW e \in Events, NEW t \in Task, QueueOrFail(e, t)
    PROVE  queue' \in Seq(Task) /\ budget' \in [Events -> Nat]
  <1>1. "fault" \in Events
    BY EventNames
  <1>2. Append(queue, t) \in Seq(Task) /\ queue \in Seq(Task)
    BY DEF TypeOK
  <1>3. budget \in [Events -> Nat] /\ budget[e] > 0
    BY DEF TypeOK, QueueOrFail
  <1>4. queue' \in Seq(Task)
    BY <1>2 DEF QueueOrFail
  <1>5. CASE budget' = [budget EXCEPT ![e] = @ - 1]
    BY <1>3, <1>4, <1>5
  <1>6. CASE /\ budget["fault"] > 0
             /\ budget' = [budget EXCEPT ![e] = @ - 1, !["fault"] = @ - 1]
    <2>1. budget[e] - 1 \in Nat /\ budget["fault"] - 1 \in Nat
      BY <1>1, <1>3, <1>6
    <2>2. QED
      BY <1>1, <1>3, <1>4, <1>6, <2>1
  <1>7. QED
    BY <1>5, <1>6 DEF QueueOrFail

\* The list of selected calls without one of them.
LEMMA WithoutFacts ==
    ASSUME selected \in Seq(Calls), NEW i \in 1..Len(selected)
    PROVE  Without(i) \in Seq(Calls) /\ Len(Without(i)) = Len(selected) - 1
  <1> DEFINE left == SubSeq(selected, 1, i - 1)
             right == SubSeq(selected, i + 1, Len(selected))
  <1>1. Len(selected) \in Nat /\ \A j \in 1..Len(selected) : selected[j] \in Calls
    OBVIOUS
  <1>2. left \in Seq(Calls) /\ Len(left) = i - 1
    <2>1. \A j \in 1..(i - 1) : selected[j] \in Calls
      BY <1>1
    <2>2. QED
      BY <1>1, <2>1, SubSeqProperties
  <1>3. right \in Seq(Calls) /\ Len(right) = Len(selected) - i
    <2>1. \A j \in (i + 1)..Len(selected) : selected[j] \in Calls
      BY <1>1
    <2>2. QED
      BY <1>1, <2>1, SubSeqProperties
  <1>w. Without(i) = left \o right
    BY DEF Without
  <1> HIDE DEF left, right
  <1>4. left \o right \in Seq(Calls) /\ Len(left \o right) = Len(left) + Len(right)
    BY <1>2, <1>3, ConcatProperties
  <1>5. Len(left) + Len(right) = Len(selected) - 1
    BY <1>1, <1>2, <1>3
  <1>6. QED
    BY <1>4, <1>5, <1>w

\* The snapshot a Join takes of it.
LEMMA SnapshotType ==
    ASSUME TypeOK
    PROVE  Snapshot \in Seq(Calls)
  <1>1. /\ selected \in Seq(Calls) /\ Len(selected) \in Nat
        /\ \A j \in 1..Len(selected) : selected[j] \in Calls
    BY DEF TypeOK
  <1>2. CASE Len(selected) <= JoinMaxSelected
    BY <1>1, <1>2 DEF Snapshot
  <1>3. CASE ~(Len(selected) <= JoinMaxSelected)
    <2>1. \A j \in 1..JoinMaxSelected : selected[j] \in Calls
      BY <1>1, <1>3, ConferenceConstants
    <2>2. SubSeq(selected, 1, JoinMaxSelected) \in Seq(Calls)
      BY <2>1, SubSeqProperties, ConferenceConstants
    <2>3. QED
      BY <1>3, <2>2 DEF Snapshot
  <1>4. QED
    BY <1>2, <1>3

\* There is one pending action at most, and a key of the menu stays one.
LEMMA PendingFacts ==
    ASSUME TypeOK
    PROVE  /\ \A p \in pending : pending = {p} /\ p \in Pending
           /\ \A p \in pending : {[p EXCEPT !.action = ""]} \in Optional(Pending)
           /\ \A a \in {"", "Mute", "Remove"} :
                 {[p EXCEPT !.action = a] : p \in pending} \in Optional(Pending)
           /\ \A d \in Calls :
                 {[dialog |-> d, action |-> a] : a \in PendingActions}
                     \in Optional(Pending)
  <1>1. ASSUME NEW p \in pending
        PROVE  pending = {p} /\ p \in Pending
    BY DEF TypeOK, Optional
  <1>2. ASSUME NEW p \in Pending, NEW a \in {"", "Mute", "Remove"}
        PROVE  [p EXCEPT !.action = a] \in Pending
    BY DEF Pending
  <1>3. ASSUME NEW a \in {"", "Mute", "Remove"}
        PROVE  {[p EXCEPT !.action = a] : p \in pending} \in Optional(Pending)
    <2>1. CASE pending = {}
      BY <2>1 DEF Optional
    <2>2. CASE pending # {}
      <3>1. PICK p \in pending : pending = {p} /\ p \in Pending
        BY <2>2, <1>1
      <3>2. {[r EXCEPT !.action = a] : r \in pending} = {[p EXCEPT !.action = a]}
        BY <3>1
      <3>3. QED
        BY <3>1, <3>2, <1>2 DEF Optional
    <2>3. QED
      BY <2>1, <2>2
  <1>4. ASSUME NEW d \in Calls
        PROVE  {[dialog |-> d, action |-> a] : a \in PendingActions} \in Optional(Pending)
    <2>1. \E a \in {"", "Mute", "Remove"} : PendingActions = {a}
      <3>1. CASE pending = {}
        BY <3>1 DEF PendingActions
      <3>2. CASE pending # {}
        <4>1. PICK p \in pending : pending = {p} /\ p \in Pending
          BY <3>2, <1>1
        <4>2. PendingActions = {p.action} /\ p.action \in {"", "Mute", "Remove"}
          BY <4>1 DEF PendingActions, Pending
        <4>3. QED
          BY <4>2
      <3>3. QED
        BY <3>1, <3>2
    <2>2. PICK a \in {"", "Mute", "Remove"} : PendingActions = {a}
      BY <2>1
    <2>3. /\ {[dialog |-> d, action |-> x] : x \in PendingActions}
                 = {[dialog |-> d, action |-> a]}
          /\ [dialog |-> d, action |-> a] \in Pending
      BY <2>2 DEF Pending
    <2>4. QED
      BY <2>3 DEF Optional
  <1>5. \A p \in pending : {[p EXCEPT !.action = ""]} \in Optional(Pending)
    BY <1>1, <1>2 DEF Optional
  <1>6. QED
    BY <1>1, <1>3, <1>4, <1>5

\* What a Join does with a selected call d whose other channel is r ...
JoinsRemote(d, r) ==
    /\ d # task.dialog
    /\ \/ /\ CanMove(From(r)) /\ BridgeMove(From(r)) /\ Entered(r)
          /\ MarkJoined(r) /\ UNCHANGED <<failed, budget>>
       \/ MoveFails(From(r))
    /\ SoftHangup(Phone(d))
    /\ UNCHANGED <<flagged, muted, marked>>

\* ... or it is passed over.
LEMMA JoinSelectedCases ==
    ASSUME TypeOK, JoinSelected
    PROVE  \/ UNCHANGED <<callVars, clock, entered, failed, budget>>
           \/ \E d \in Calls : \E r \in BridgePeer(Phone(d)) : JoinsRemote(d, r)
  <1> DEFINE d == task.others[task.index + 1]
  <1>1. d \in Calls
    <2>1. task.index + 1 \in 1..Len(task.others) /\ task.others \in Seq(Calls)
      BY DEF JoinSelected, TypeOK, Task
    <2>2. QED
      BY <2>1
  <1>2. \/ UNCHANGED <<callVars, clock, entered, failed, budget>>
        \/ /\ d # task.dialog
           /\ \E legs \in Legs(d) :
                 \/ /\ CanMove(legs[2]) /\ BridgeMove(legs[2])
                    /\ Entered(legs[2].chan) /\ MarkJoined(legs[2].chan)
                    /\ UNCHANGED <<failed, budget>>
                 \/ MoveFails(legs[2])
           /\ SoftHangup(Phone(d)) /\ UNCHANGED <<flagged, muted, marked>>
    BY DEF JoinSelected
  <1> HIDE DEF d
  <1>3. ASSUME NEW legs \in Legs(d)
        PROVE  \E r \in BridgePeer(Phone(d)) : legs[2] = From(r) /\ From(r).chan = r
    BY <1>1, LegsFacts DEF From
  <1>4. QED
    BY <1>1, <1>2, <1>3 DEF JoinsRemote

\* Every step keeps the types; that a running merge has moves to do is part
\* of PhasesFit.
LEMMA NextTypeOK == TypeOK /\ PhasesFit /\ [Next]_vars => TypeOK'
  <1> SUFFICES ASSUME TypeOK, PhasesFit, [Next]_vars PROVE TypeOK'
    OBVIOUS
  <1> USE DEF callVars, mergeVars, historyVars
  <1>q. queue # <<>> => /\ Head(queue) \in Task /\ Tail(queue) \in Seq(Task)
                        /\ ConsultsAnother(Head(queue))
    BY QueueTail DEF TypeOK, PhasesFit
  <1>m. /\ moves \in Seq(Move)
        /\ moves # <<>> => /\ Head(moves) \in Move /\ Tail(moves) \in Seq(Move)
                           /\ Head(moves).chan \in Channels
    BY ChansTail DEF TypeOK
  <1>e. "fault" \in Events /\ "hangup" \in Events /\ "select" \in Events
        /\ "unselect" \in Events
    BY EventNames
  <1>1. ASSUME NEW a \in Calls, NEW b \in Calls, QueueConference(a, b)
        PROVE  TypeOK'
    <2>1. <<b>> \in Seq(Calls) /\ "confrn" \in Events
      BY EventNames
    <2>2. queue' \in Seq(Task) /\ budget' \in [Events -> Nat]
      BY <1>1, <2>1, NewTaskType, QueueOrFailType DEF QueueConference
    <2>3. QED
      BY <1>1, <2>2 DEF QueueConference, QueueOrFail, TypeOK
  <1>2. ASSUME NEW a \in Calls, QueueJoin(a)
        PROVE  TypeOK'
    <2>1. Snapshot \in Seq(Calls)
      BY SnapshotType
    <2>2. queue' \in Seq(Task) /\ budget' \in [Events -> Nat]
      BY <1>2, <2>1, EventNames, NewTaskType, QueueOrFailType DEF QueueJoin
    <2>3. QED
      BY <1>2, <2>2 DEF QueueJoin, QueueOrFail, TypeOK
  <1>3. ASSUME NEW a \in Calls, QueueRmLastConf(a)
        PROVE  TypeOK'
    <2>1. queue' \in Seq(Task) /\ budget' \in [Events -> Nat]
      BY <1>3, EventNames, NewTaskType, QueueOrFailType DEF QueueRmLastConf
    <2>2. QED
      BY <1>3, <2>1 DEF QueueRmLastConf, QueueOrFail, TypeOK
  <1>4. ASSUME NEW d \in Calls, ConfList(d)
        PROVE  TypeOK'
    <2>1. queue' \in Seq(Task) /\ budget' \in [Events -> Nat]
      BY <1>4, EventNames, NewTaskType, QueueOrFailType DEF ConfList
    <2>2. pending' \in Optional(Pending)
      BY <1>4, PendingFacts DEF ConfList
    <2>3. QED
      BY <1>4, <2>1, <2>2 DEF ConfList, QueueOrFail, TypeOK
  <1>5. ASSUME NEW token \in Tokens, NEW index \in 0..(NCalls - 1),
               ConfListAction(token, index)
        PROVE  TypeOK'
    <2>1. PICK p \in pending :
              QueueOrFail(IF token \in {"index", "other"} THEN "pick" ELSE "softkey",
                          [NewTask("action", p.dialog) EXCEPT !.token = token,
                                                              !.index = index])
      BY <1>5 DEF ConfListAction
    <2>a. p \in Pending
      BY <2>1, PendingFacts
    <2>b. index \in Nat
      BY ConferenceConstants
    <2>2. p.dialog \in Calls /\ index \in Nat
      BY <2>a, <2>b DEF Pending
    <2>3. [NewTask("action", p.dialog) EXCEPT !.token = token, !.index = index] \in Task
      BY <2>2, NewTaskType
    <2>4. queue' \in Seq(Task) /\ budget' \in [Events -> Nat]
      BY <2>1, <2>3, EventNames, QueueOrFailType
    <2>5. owedRemoves' \in Int
      BY <1>5 DEF ConfListAction, TypeOK
    <2>6. QED
      BY <1>5, <2>1, <2>4, <2>5 DEF ConfListAction, QueueOrFail, TypeOK
  <1>6. ASSUME NEW d \in Calls, Unselect(d)
        PROVE  TypeOK'
    <2>1. selected' \in Seq(Calls)
      BY <1>6, WithoutFacts DEF Unselect, TypeOK
    <2>2. QED
      BY <1>6, <2>1, <1>e, SpendType DEF Unselect, listVars, TypeOK
  <1>7. ASSUME NEW t \in Threads, NEW d \in Calls, Select(t, d)
        PROVE  TypeOK'
    <2>1. [dialog |-> d, counted |-> FALSE] \in [dialog : Calls, counted : BOOLEAN]
      OBVIOUS
    <2>2. adding' \in [Threads -> Optional([dialog : Calls, counted : BOOLEAN])]
      BY <1>7, <2>1 DEF Select, TypeOK, Optional
    <2>3. QED
      BY <1>7, <2>2, <1>e, SpendType DEF Select, listVars, TypeOK
  <1>8. ASSUME NEW t \in Threads, SelectCount(t)
        PROVE  TypeOK'
    <2>a. \A a \in adding[t] : a \in [dialog : Calls, counted : BOOLEAN]
      BY AddingFacts
    <2>1. \A a \in adding[t] : [a EXCEPT !.counted = TRUE]
                                   \in [dialog : Calls, counted : BOOLEAN]
      BY <2>a
    <2>2. adding' \in [Threads -> Optional([dialog : Calls, counted : BOOLEAN])]
      BY ZenonT(40), <1>8, <2>1 DEF SelectCount, TypeOK, Optional
    <2>3. QED
      BY <1>8, <2>2 DEF SelectCount, listVars, TypeOK
  <1>9. ASSUME NEW t \in Threads, SelectLink(t)
        PROVE  TypeOK'
    <2>1. \A a \in adding[t] : a \in [dialog : Calls, counted : BOOLEAN]
      BY AddingFacts
    <2>2. selected' \in Seq(Calls)
      BY <1>9, <2>1 DEF SelectLink, TypeOK
    <2>3. adding' \in [Threads -> Optional([dialog : Calls, counted : BOOLEAN])]
      BY <1>9 DEF SelectLink, TypeOK, Optional
    <2>4. QED
      BY <1>9, <2>2, <2>3 DEF SelectLink, listVars, TypeOK
  <1>10. ASSUME NEW ch \in Channels, Hangup(ch)
         PROVE  TypeOK'
    <2>1. /\ where' \in [Channels -> Nat] /\ dissolved' \subseteq Nat
          /\ ending' \subseteq ending
      BY <1>10, LeaveFacts DEF Hangup
    <2>2. budget' \in [Events -> Nat]
      BY <1>10, <1>e, SpendType DEF Hangup, TypeOK
    <2>3. QED
      BY <1>10, <2>1, <2>2 DEF Hangup, TypeOK
  <1>11. ASSUME ConflistSendTask
         PROVE  TypeOK'
    BY <1>11, <1>q DEF ConflistSendTask, Take, otherVars, TypeOK
  <1>12. ASSUME ConflistActionSendTask
         PROVE  TypeOK'
    <2>1. queue # <<>> /\ queue' = Tail(queue)
      BY <1>12 DEF ConflistActionSendTask, Take
    <2>2. Head(queue).token \in Tokens /\ Head(queue).dialog \in Calls
      BY <1>q, <2>1 DEF Task
    <2>3. Picked(Head(queue)) \subseteq Channels
      BY DEF Picked, PeerAt, Members
    <2>4. /\ pending' \in Optional(Pending) /\ ending' \subseteq Channels
          /\ muted' \subseteq Channels /\ owedRemoves' \in Int
      <3>1. CASE /\ Head(queue).token \in Sticky
                 /\ pending' = {[p EXCEPT !.action = Head(queue).token] : p \in pending}
                 /\ UNCHANGED <<ending, muted, owedRemoves>>
        <4>1. Head(queue).token \in {"", "Mute", "Remove"}
          BY <3>1 DEF Sticky
        <4>2. {[p EXCEPT !.action = Head(queue).token] : p \in pending}
                  \in Optional(Pending)
          BY <4>1, PendingFacts
        <4>3. QED
          BY <3>1, <4>2 DEF TypeOK
      <3>2. CASE PickParticipant(Head(queue))
        <4>1. PICK p \in pending :
                 /\ ClearAction(p)
                 /\ \/ /\ Kick(Picked(Head(queue))) /\ UNCHANGED muted
                       /\ owedRemoves' \in {owedRemoves, owedRemoves - 1}
                    \/ /\ muted' = (muted \ Picked(Head(queue)))
                                      \cup (Picked(Head(queue)) \ muted)
                       /\ UNCHANGED <<ending, owedRemoves>>
          BY <3>2 DEF PickParticipant
        <4>2. pending' \in Optional(Pending)
          BY <4>1, PendingFacts DEF ClearAction
        <4>3. QED
          BY <4>1, <4>2, <2>3 DEF Kick, TypeOK
      <3>3. CASE UNCHANGED <<pending, ending, muted, owedRemoves>>
        BY <3>3 DEF TypeOK
      <3>4. QED
        BY <1>12, <3>1, <3>2, <3>3 DEF ConflistActionSendTask
    <2>5. QED
      BY <1>12, <1>q, <2>1, <2>4 DEF ConflistActionSendTask, otherVars, TypeOK
  <1>13. ASSUME RmlastconfSendTask
         PROVE  TypeOK'
    <2>1. ending' \subseteq Channels
      BY <1>13 DEF RmlastconfSendTask, Kick, LastJoined, Members, TypeOK
    <2>2. QED
      BY <1>13, <1>q, <2>1 DEF RmlastconfSendTask, Take, otherVars, TypeOK
  <1>14. ASSUME StartMerge
         PROVE  TypeOK'
    <2>1. /\ queue # <<>> /\ queue' = Tail(queue)
          /\ Head(queue).op \in {"confrn", "join"}
      BY <1>14 DEF StartMerge, Take
    <2>2. \A m \in MovesOf(Head(queue)) : m \in Seq(Move)
      BY <1>q, <2>1, MovesFacts
    <2>3. budget' \in [Events -> Nat]
      BY <1>14, <1>e, SpendType DEF StartMerge, TypeOK
    <2>4. /\ moves' \in Seq(Move) /\ task' \in Task /\ conf' \in Nat
          /\ phase' \in {"idle", "move", "flag", "join", "finish"}
      BY <1>14, <1>q, <2>1, <2>2 DEF StartMerge, GiveUp, TypeOK
    <2>5. QED
      BY <1>14, <1>q, <2>1, <2>3, <2>4 DEF StartMerge, TypeOK
  <1>15. ASSUME MoveNext
         PROVE  TypeOK'
    <2>1. phase = "move" /\ moves # <<>> /\ moves' = Tail(moves)
      BY <1>15 DEF MoveNext, PhasesFit, MovesFit
    <2>2. phase' \in {"idle", "move", "flag", "join", "finish"}
      BY <1>15 DEF MoveNext, PhaseAfter
    <2>3. /\ where' \in [Channels -> Nat] /\ dissolved' \subseteq Nat
          /\ clock' \in Nat /\ entered' \in [Channels -> Nat]
          /\ joinTime' \in [Channels -> Nat] /\ failed' \subseteq Channels
          /\ budget' \in [Events -> Nat]
      <3>1. CASE /\ BridgeMove(Head(moves)) /\ Entered(Head(moves).chan)
                 /\ \/ UNCHANGED joinTime \/ MarkJoined(Head(moves).chan)
                 /\ UNCHANGED <<failed, budget>>
        <4>1. Head(moves).from \in Nat /\ clock + 1 \in Nat
          BY SMTT(30), <1>m, <2>1 DEF Move, TypeOK
        <4>2. QED
          BY <3>1, <4>1, <1>m, <2>1 DEF BridgeMove, Entered, MarkJoined, TypeOK
      <3>2. CASE MoveFails(Head(moves))
        BY <3>2, <1>m, <1>e, <2>1, SpendType DEF MoveFails, TypeOK
      <3>3. QED
        BY <1>15, <3>1, <3>2 DEF MoveNext
    <2>4. QED
      BY <1>15, <1>m, <2>1, <2>2, <2>3 DEF MoveNext, TypeOK
  <1>16. ASSUME SetDissolveOnInitiatorHangup
         PROVE  TypeOK'
    <2>1. Phone(task.dialog) \in Channels
      BY ChannelCases DEF TypeOK, Task
    <2>2. QED
      BY <1>16, <2>1 DEF SetDissolveOnInitiatorHangup, otherVars, TypeOK
  <1>17. ASSUME JoinSelected
         PROVE  TypeOK'
    <2>a. task \in Task /\ task.index + 1 \in Nat
      BY DEF TypeOK, Task
    <2>1. [task EXCEPT !.index = @ + 1] \in Task
      BY <2>a DEF Task
    <2> DEFINE Typed ==
            /\ where' \in [Channels -> Nat] /\ dissolved' \subseteq Nat
            /\ clock' \in Nat /\ entered' \in [Channels -> Nat]
            /\ joinTime' \in [Channels -> Nat] /\ failed' \subseteq Channels
            /\ budget' \in [Events -> Nat] /\ ending' \subseteq Channels
            /\ UNCHANGED <<flagged, muted, marked>>
    <2>2. Typed
      <3>1. CASE UNCHANGED <<callVars, clock, entered, failed, budget>>
        BY <3>1 DEF TypeOK
      <3>2. ASSUME NEW d \in Calls, NEW r \in BridgePeer(Phone(d)), JoinsRemote(d, r)
            PROVE  Typed
        <4>1. r \in Channels /\ Phone(d) \in Channels
          BY <3>2, PeerIsCompany, ChannelCases
        <4>2. From(r).chan = r /\ From(r).from \in Nat
          BY <4>1 DEF From, TypeOK
        <4>3. ending' \subseteq Channels
          BY <3>2, <4>1 DEF JoinsRemote, SoftHangup, TypeOK
        <4>4. CASE /\ BridgeMove(From(r)) /\ Entered(r)
                   /\ MarkJoined(r) /\ UNCHANGED <<failed, budget>>
          <5>1. clock + 1 \in Nat
            BY DEF TypeOK
          <5>2. QED
            BY <3>2, <4>1, <4>2, <4>3, <4>4, <5>1
               DEF JoinsRemote, BridgeMove, Entered, MarkJoined, TypeOK
        <4>5. CASE MoveFails(From(r))
          BY <3>2, <4>1, <4>2, <4>3, <4>5, <1>e, SpendType
             DEF JoinsRemote, MoveFails, TypeOK
        <4>6. QED
          BY <3>2, <4>4, <4>5 DEF JoinsRemote
      <3>3. \/ UNCHANGED <<callVars, clock, entered, failed, budget>>
            \/ \E d \in Calls : \E r \in BridgePeer(Phone(d)) : JoinsRemote(d, r)
        BY <1>17, JoinSelectedCases
      <3>4. QED
        BY <3>1, <3>2, <3>3
    <2>3. QED
      BY <1>17, <2>1, <2>2 DEF JoinSelected, TypeOK
  <1>18. ASSUME JoinFinish
         PROVE  TypeOK'
    <2>1. Phone(task.dialog) \in Channels
      BY ChannelCases DEF TypeOK, Task
    <2>2. marked' \subseteq Channels
      BY <1>18, <2>1 DEF JoinFinish, Mark, TypeOK
    <2>3. selected' \in Seq(Calls)
      BY <1>18 DEF JoinFinish
    <2>4. QED
      BY <1>18, <2>2, <2>3 DEF JoinFinish, TypeOK
  <1>19. ASSUME ConfrnFinish
         PROVE  TypeOK'
    <2>1. task.dialog \in Calls /\ task.others[1] \in Calls
      BY <1>19 DEF ConfrnFinish, PhasesFit, ConsultsAnother, TypeOK, Task
    <2>2. Phone(task.dialog) \in Channels /\ Phone(task.others[1]) \in Channels
      BY <2>1, ChannelCases
    <2>3. marked' \subseteq Channels /\ ending' \subseteq Channels
      BY <1>19, <2>2 DEF ConfrnFinish, Mark, SoftHangup, TypeOK
    <2>4. QED
      BY <1>19, <2>3 DEF ConfrnFinish, otherVars, TypeOK
  <1>20. CASE UNCHANGED vars
    BY <1>20 DEF vars, TypeOK
  <1>21. QED
    BY <1>1, <1>2, <1>3, <1>4, <1>5, <1>6, <1>7, <1>8, <1>9, <1>10, <1>11, <1>12,
       <1>13, <1>14, <1>15, <1>16, <1>17, <1>18, <1>19, <1>20
       DEF Next, Softkeys, Serializer

(***************************************************************************)
(* The phases of a merge.                                                  *)
(***************************************************************************)

\* Whoever is in a bridge with a leg of the phone is a remote.
LEMMA OthersAreRemotes ==
    ASSUME OnePhone, NEW d \in Calls, InBridge(Phone(d)),
           NEW x \in Channels, where[x] = where[Phone(d)], x # Phone(d)
    PROVE  x \in Remotes
  <1> SUFFICES ASSUME x \in Phones PROVE FALSE
    BY ChannelCases
  <1>1. PICK e \in Calls : x = Phone(e)
    BY DEF Phones
  <1>2. QED
    BY <1>1 DEF OnePhone

LEMMA PeersAreRemotes ==
    ASSUME OnePhone, NEW d \in Calls, NEW r \in BridgePeer(Phone(d))
    PROVE  r \in Remotes
  <1>1. Phone(d) \in Channels
    BY ChannelCases
  <1>2. QED
    BY <1>1, PeerIsCompany, OthersAreRemotes

\* The moves of a merge that starts.
LEMMA FirstMoves ==
    ASSUME TypeOK, OnePhone, NEW t \in Task, t.op \in {"confrn", "join"},
           ConsultsAnother(t), NEW ms \in MovesOf(t)
    PROVE  /\ ms \in Seq(Move) /\ ms # <<>> /\ Tail(ms) # <<>>
           /\ Head(ms).chan = Phone(t.dialog)
           /\ Chans(Tail(ms)) \subseteq Remotes
           /\ InBridge(Phone(t.dialog))
           /\ Members(where[Phone(t.dialog)]) \subseteq Chans(ms)
           /\ \E r \in BridgePeer(Phone(t.dialog)) : TRUE
           /\ t.op = "confrn" =>
                 Members(where[Phone(t.others[1])])
                     \subseteq {Phone(t.others[1])} \cup Chans(ms)
  <1>0. t.dialog \in Calls /\ Phone(t.dialog) \in Channels
    BY ChannelCases DEF Task
  <1>1. /\ ms \in Seq(Move) /\ ms # <<>>
        /\ Head(ms) = From(Phone(t.dialog))
    BY MovesFacts
  <1>2. PICK r \in BridgePeer(Phone(t.dialog)) :
            \/ t.op = "join" /\ Tail(ms) = <<From(r)>>
            \/ /\ t.op = "confrn"
               /\ \E q \in BridgePeer(Phone(t.others[1])) :
                     Tail(ms) = <<From(r), From(q)>>
    BY MovesFacts
  <1>3. /\ r \in Remotes /\ r \in Channels /\ InBridge(Phone(t.dialog))
        /\ Members(where[Phone(t.dialog)]) = {Phone(t.dialog), r}
    BY <1>0, <1>2, PeersAreRemotes, PeerIsCompany
  <1>4. \A x \in Channels : From(x).chan = x
    BY DEF From
  <1>5. Chans(ms) = {Phone(t.dialog)} \cup Chans(Tail(ms))
    BY <1>0, <1>1, <1>4, ChansTail
  <1>6. CASE t.op = "join"
    <2>1. Tail(ms) = <<From(r)>> /\ From(r).chan = r
      BY <1>2, <1>3, <1>4, <1>6
    <2>2. Chans(Tail(ms)) = {r}
      BY <1>3, <2>1, FromType, ChansShort
    <2>3. QED
      BY <1>0, <1>1, <1>2, <1>3, <1>4, <1>5, <1>6, <2>1, <2>2
  <1>7. CASE t.op = "confrn"
    <2>0. t.others[1] \in Calls /\ Phone(t.others[1]) \in Channels
      BY <1>7, ChannelCases DEF Task, ConsultsAnother
    <2>1. PICK q \in BridgePeer(Phone(t.others[1])) :
              Tail(ms) = <<From(r), From(q)>>
      BY <1>2, <1>7
    <2>2. /\ q \in Remotes /\ q \in Channels
          /\ Members(where[Phone(t.others[1])]) = {Phone(t.others[1]), q}
      BY <2>0, <2>1, PeersAreRemotes, PeerIsCompany
    <2>3. From(r).chan = r /\ From(q).chan = q
      BY <1>3, <1>4, <2>2
    <2>4. Chans(Tail(ms)) = {r, q}
      <3>1. From(r) \in Move /\ From(q) \in Move
        BY <1>3, <2>2, FromType
      <3>2. Chans(<<From(r), From(q)>>) = {From(r).chan, From(q).chan}
        BY <3>1, ChansShort
      <3>3. QED
        BY <2>1, <2>3, <3>2
    <2>5. QED
      BY <1>0, <1>1, <1>2, <1>3, <1>4, <1>5, <2>1, <2>2, <2>4
  <1>8. QED
    BY <1>6, <1>7

LEMMA InitPhasesFit == Init => PhasesFit
  BY DEF Init, PhasesFit

\* Softkeys queue tasks, and leave the running merge alone.
LEMMA QueuePhasesFit ==
    ASSUME TypeOK, PhasesFit, NEW e, NEW t \in Task, ConsultsAnother(t),
           QueueOrFail(e, t)
    PROVE  PhasesFit'
  <1>1. \A i \in 1..Len(queue') : ConsultsAnother(queue'[i])
    BY QueueAppend DEF QueueOrFail, PhasesFit, TypeOK
  <1>2. UNCHANGED <<phase, task, moves>>
    BY DEF QueueOrFail, mergeVars
  <1>3. QED
    BY <1>1, <1>2 DEF PhasesFit, MovesFit, Anchor, ConsultsAnother

LEMMA NextPhasesFit ==
    ASSUME TypeOK, PhasesFit, OnePhone, [Next]_vars
    PROVE  PhasesFit'
  <1> USE DEF mergeVars
  <1>q. queue # <<>> =>
            /\ Head(queue) \in Task /\ ConsultsAnother(Head(queue))
            /\ \A i \in 1..Len(Tail(queue)) : ConsultsAnother(Tail(queue)[i])
    BY QueueTail DEF TypeOK, PhasesFit
  <1>c. ASSUME NEW op, NEW d, op # "confrn"
        PROVE  /\ ConsultsAnother(NewTask(op, d))
               /\ \A tk, n :
                     ConsultsAnother([NewTask(op, d) EXCEPT !.token = tk, !.index = n])
               /\ \A s : ConsultsAnother([NewTask(op, d) EXCEPT !.others = s])
    BY <1>c DEF NewTask, ConsultsAnother
  <1>1. ASSUME NEW a \in Calls, NEW b \in Calls, QueueConference(a, b)
        PROVE  PhasesFit'
    <2>1. <<b>> \in Seq(Calls) /\ Len(<<b>>) = 1 /\ <<b>>[1] = b /\ a # b
      BY <1>1 DEF QueueConference
    <2>2. ConsultsAnother([NewTask("confrn", a) EXCEPT !.others = <<b>>])
      BY <2>1 DEF ConsultsAnother, NewTask
    <2>3. QED
      BY <1>1, <2>1, <2>2, NewTaskType, QueuePhasesFit DEF QueueConference
  <1>2. ASSUME NEW a \in Calls, QueueJoin(a)
        PROVE  PhasesFit'
    <2>1. Snapshot \in Seq(Calls)
      BY SnapshotType
    <2>2. [NewTask("join", a) EXCEPT !.others = Snapshot] \in Task
      BY <2>1, NewTaskType
    <2>3. QED
      BY <1>2, <1>c, <2>2, QueuePhasesFit DEF QueueJoin
  <1>3. ASSUME NEW a \in Calls, QueueRmLastConf(a)
        PROVE  PhasesFit'
    BY <1>3, <1>c, NewTaskType, QueuePhasesFit DEF QueueRmLastConf
  <1>4. ASSUME NEW d \in Calls, ConfList(d)
        PROVE  PhasesFit'
    BY <1>4, <1>c, NewTaskType, QueuePhasesFit DEF ConfList
  <1>5. ASSUME NEW token \in Tokens, NEW index \in 0..(NCalls - 1),
               ConfListAction(token, index)
        PROVE  PhasesFit'
    <2>1. PICK p \in pending :
              QueueOrFail(IF token \in {"index", "other"} THEN "pick" ELSE "softkey",
                          [NewTask("action", p.dialog) EXCEPT !.token = token,
                                                              !.index = index])
      BY <1>5 DEF ConfListAction
    <2>2. p \in Pending /\ index \in Nat
      <3>1. p \in Pending
        BY PendingFacts
      <3>2. index \in Nat
        BY ConferenceConstants
      <3>3. QED
        BY <3>1, <3>2
    <2>3. p.dialog \in Calls
      BY <2>2 DEF Pending
    <2>4. [NewTask("action", p.dialog) EXCEPT !.token = token, !.index = index] \in Task
      BY <2>2, <2>3, NewTaskType
    <2>5. QED
      BY <2>1, <2>4, <1>c, QueuePhasesFit
  <1>6. CASE UNCHANGED <<queue, mergeVars>>
    BY <1>6 DEF PhasesFit, MovesFit, Anchor, ConsultsAnother
  <1>7. CASE phase = "idle" /\ queue # <<>> /\ queue' = Tail(queue)
                 /\ UNCHANGED mergeVars
    BY <1>7, <1>q DEF PhasesFit, ConsultsAnother
  <1>8. ASSUME StartMerge
        PROVE  PhasesFit'
    <2>1. /\ phase = "idle" /\ queue # <<>> /\ queue' = Tail(queue)
          /\ Head(queue).op \in {"confrn", "join"}
      BY <1>8 DEF StartMerge, Take
    <2>2. CASE GiveUp
      BY <2>1, <2>2, <1>q DEF GiveUp, PhasesFit, ConsultsAnother
    <2>3. CASE /\ \E m \in MovesOf(Head(queue)) : moves' = m
               /\ phase' = "move" /\ task' = Head(queue)
      <3>1. /\ moves' # <<>> /\ Tail(moves') # <<>>
            /\ Head(moves').chan = Phone(task'.dialog)
            /\ Chans(Tail(moves')) \subseteq Remotes
        BY <1>q, <2>1, <2>3, FirstMoves
      <3>2. ConsultsAnother(task')
        BY <1>q, <2>1, <2>3
      <3>3. QED
        BY <1>q, <2>1, <2>3, <3>1, <3>2
           DEF PhasesFit, MovesFit, Anchor, ConsultsAnother, Remotes
    <2>4. QED
      BY <1>8, <2>2, <2>3 DEF StartMerge
  <1>9. ASSUME MoveNext
        PROVE  PhasesFit'
    <2>1. /\ phase = "move" /\ MovesFit /\ moves' = Tail(moves)
          /\ task.op \in {"confrn", "join"} /\ UNCHANGED <<queue, task>>
      BY <1>9 DEF MoveNext, PhasesFit
    <2>2. /\ moves # <<>> /\ Tail(moves) \in Seq(Move)
          /\ Chans(Tail(moves)) \subseteq Remotes
      BY <2>1, ChansTail DEF MovesFit, TypeOK
    <2>3. Tail(moves) # <<>> => /\ Head(Tail(moves)).chan \in Remotes
                                /\ Chans(Tail(Tail(moves))) \subseteq Remotes
      BY <2>2, ChansTail
    <2>4. CASE phase' = "idle"
      BY <2>1, <2>4 DEF PhasesFit, ConsultsAnother
    <2>5. CASE IsAnchor(Head(moves).chan) /\ phase' = "flag"
      <3>1. Head(moves).chan \notin Remotes
        BY <2>5, ChannelCases DEF IsAnchor, TypeOK, Task
      <3>2. Tail(moves) # <<>>
        BY <2>1, <3>1 DEF MovesFit
      <3>3. QED
        BY <2>1, <2>3, <2>5, <3>2
           DEF PhasesFit, MovesFit, Anchor, ConsultsAnother, Remotes
    <2>6. CASE phase' = PhaseAfter(Tail(moves))
      BY <2>1, <2>3, <2>6
         DEF PhasesFit, MovesFit, Anchor, ConsultsAnother, PhaseAfter, Remotes
    <2>7. QED
      BY <1>9, <2>4, <2>5, <2>6 DEF MoveNext
  <1>10. ASSUME SetDissolveOnInitiatorHangup
         PROVE  PhasesFit'
    BY <1>10 DEF SetDissolveOnInitiatorHangup, PhasesFit, MovesFit, Anchor,
                 ConsultsAnother, Remotes
  <1>11. ASSUME JoinSelected
         PROVE  PhasesFit'
    <2>1. /\ phase = "join" /\ UNCHANGED <<queue, phase, moves>>
          /\ task' = [task EXCEPT !.index = @ + 1]
      BY <1>11 DEF JoinSelected
    <2>2. task'.op = task.op /\ task'.dialog = task.dialog /\ task'.others = task.others
      BY <2>1 DEF TypeOK, Task
    <2>3. QED
      BY <2>1, <2>2 DEF PhasesFit, ConsultsAnother
  <1>12. ASSUME JoinFinish \/ ConfrnFinish
         PROVE  PhasesFit'
    BY <1>12 DEF JoinFinish, ConfrnFinish, PhasesFit, ConsultsAnother
  <1>13. ASSUME \/ \E a \in Calls : Unselect(a)
                \/ \E t \in Threads : \/ \E d \in Calls : Select(t, d)
                                      \/ SelectCount(t) \/ SelectLink(t)
                \/ \E ch \in Channels : Hangup(ch)
                \/ UNCHANGED vars
         PROVE  UNCHANGED <<queue, mergeVars>>
    BY <1>13 DEF Unselect, Select, SelectCount, SelectLink, Hangup, listVars, vars
  <1>14. ASSUME ConflistSendTask \/ ConflistActionSendTask \/ RmlastconfSendTask
         PROVE  phase = "idle" /\ queue # <<>> /\ queue' = Tail(queue)
                    /\ UNCHANGED mergeVars
    BY <1>14 DEF ConflistSendTask, ConflistActionSendTask, RmlastconfSendTask, Take
  <1>15. QED
    BY <1>1, <1>2, <1>3, <1>4, <1>5, <1>6, <1>7, <1>8, <1>9, <1>10, <1>11, <1>12,
       <1>13, <1>14 DEF Next, Softkeys, Serializer

(***************************************************************************)
(* Who is in which bridge.                                                 *)
(***************************************************************************)

Bridges ==
    /\ OnePhone
    /\ BridgesAreNew
    /\ TakenAlong
    /\ EndingAlone
    /\ Flagged
    /\ WithPhone

bridgeVars == <<keep, where, dissolved, flagged, phase, task, moves, conf, failed>>

LEMMA BridgeTypes ==
    ASSUME TypeOK
    PROVE  /\ where \in [Channels -> Nat]
           /\ \A ch \in Channels : where[ch] \in Nat
           /\ conf \in Nat /\ NCalls \in Nat \ {0}
           /\ Calls = 1..NCalls /\ Gone = 0
           /\ task.dialog \in Calls /\ Anchor \in Channels /\ Anchor \in Phones
           /\ Anchor = Phone(task.dialog) /\ Anchor \notin Remotes
           /\ \A d \in Calls : Phone(d) \in Channels /\ Remote(d) \in Channels
           /\ \A d \in Calls : Phone(d) = Anchor => d = task.dialog
           /\ \A d, e \in Calls : Phone(d) # Remote(e)
  <1>1. task.dialog \in Calls
    BY DEF TypeOK, Task
  <1>2. /\ Anchor \in Phones /\ Anchor \in Channels /\ Anchor \notin Remotes
        /\ \A d \in Calls : Phone(d) \in Channels /\ Remote(d) \in Channels
        /\ \A d \in Calls : Phone(d) = Anchor => d = task.dialog
        /\ \A d, e \in Calls : Phone(d) # Remote(e)
    BY <1>1, ChannelCases DEF Anchor
  <1>3. /\ where \in [Channels -> Nat] /\ \A ch \in Channels : where[ch] \in Nat
        /\ conf \in Nat /\ NCalls \in Nat \ {0} /\ Calls = 1..NCalls /\ Gone = 0
    BY ConferenceConstants DEF TypeOK, Gone, Calls
  <1>4. QED
    BY <1>1, <1>2, <1>3 DEF Anchor

\* Nothing but who is ending is said of the bridges by EndingAlone alone.
LEMMA BridgesFrame ==
    ASSUME OnePhone, BridgesAreNew, TakenAlong, Flagged, WithPhone,
           UNCHANGED bridgeVars
    PROVE  OnePhone' /\ BridgesAreNew' /\ TakenAlong' /\ Flagged' /\ WithPhone'
  <1>1. OnePhone'
    BY DEF bridgeVars, OnePhone, InBridge
  <1>2. BridgesAreNew'
    BY DEF bridgeVars, BridgesAreNew, BeforeAnchor, Anchor
  <1>3. TakenAlong'
    BY DEF bridgeVars, TakenAlong, BeforeAnchor, Anchor, Members, Chans, InBridge
  <1>4. Flagged'
    BY DEF bridgeVars, Flagged, InBridge, IsCallBridge
  <1>5. WithPhone'
    BY DEF bridgeVars, WithPhone, BeforeAnchor, Anchor, Chans, InBridge
  <1>6. QED
    BY <1>1, <1>2, <1>3, <1>4, <1>5

LEMMA EndingFrame ==
    ASSUME EndingAlone, UNCHANGED <<bridgeVars, ending>>
    PROVE  EndingAlone'
  BY DEF bridgeVars, EndingAlone, Anchor, Members, InBridge

LEMMA InitBridges == Init => Bridges
  <1> SUFFICES ASSUME Init PROVE Bridges
    OBVIOUS
  <1>1. \A d \in Calls : /\ Phone(d) \in Channels /\ Remote(d) \in Channels
                         /\ Phone(d)[2] = d /\ Remote(d)[2] = d
    BY ChannelCases DEF Phone, Remote
  <1>2. \A d \in Calls : where[Phone(d)] = d /\ where[Remote(d)] = d
    BY <1>1 DEF Init
  <1>3. \A ch \in Channels : where[ch] \in Calls /\ where[ch] <= NCalls
    BY ConferenceConstants DEF Init, Channels, Calls
  <1>4. OnePhone
    BY <1>2 DEF OnePhone
  <1>5. BridgesAreNew
    BY <1>3, ConferenceConstants DEF Init, BridgesAreNew
  <1>6. TakenAlong
    BY DEF Init, TakenAlong, BeforeAnchor
  <1>7. EndingAlone
    BY DEF Init, EndingAlone
  <1>8. Flagged
    BY <1>1, <1>3 DEF Init, Flagged, IsCallBridge
  <1>9. WithPhone
    BY <1>2 DEF Init, WithPhone
  <1>10. QED
    BY <1>4, <1>5, <1>6, <1>7, <1>8, <1>9 DEF Bridges

\* A hangup.  A leg that is not flagged yet is alone in its new bridge.
LEMMA HangupBridges ==
    ASSUME TypeOK, Bridges, NEW ch \in Channels, Hangup(ch)
    PROVE  Bridges'
  <1>0. /\ InBridge(ch) /\ Leave(ch)
        /\ UNCHANGED <<keep, flagged, phase, task, moves, conf, failed>>
    BY DEF Hangup, mergeVars, historyVars
  <1> USE DEF InBridge
  <1> DEFINE dissolves == \/ IsCallBridge(where[ch]) \/ ch \in flagged
                          \/ Members(where[ch]) = {ch}
  <1>1. /\ where' \in [Channels -> Nat]
        /\ \A x \in Channels : where'[x] \in {where[x], Gone}
        /\ \A x \in Channels : where'[x] # where[x] => where[x] = where[ch]
        /\ dissolved \subseteq dissolved'
        /\ ending' \subseteq ending
        /\ \A x \in ending' : where'[x] = where[x]
    BY <1>0, LeaveFacts
  <1>2. dissolves => /\ where[ch] \in dissolved'
                     /\ \A x \in Channels : where[x] = where[ch] => where'[x] = Gone
    BY <1>0, LeaveFacts
  <1>3. ~dissolves => \A x \in Channels \ {ch} : where'[x] = where[x]
    BY <1>0, LeaveFacts
  <1>4. phase # "idle" => conf # Gone /\ ~IsCallBridge(conf)
    BY BridgeTypes DEF Bridges, BridgesAreNew, IsCallBridge
  <1>5. \A x, y \in Channels :
            where'[x] # Gone /\ where'[y] = where'[x] =>
                where'[x] = where[x] /\ where[y] = where[x]
    BY <1>1
  <1>6. OnePhone'
    BY <1>5, BridgeTypes DEF Bridges, OnePhone
  <1>7. BridgesAreNew'
    <2>1. \A x \in Channels : where'[x] <= conf
      BY <1>1, BridgeTypes DEF Bridges, BridgesAreNew
    <2>2. phase # "idle" => \A d \in Calls : where'[Phone(d)] = conf => d = task.dialog
      BY <1>1, <1>4, BridgeTypes DEF Bridges, BridgesAreNew
    <2>3. phase # "idle" /\ ~BeforeAnchor => where'[Anchor] \in {conf, Gone}
      BY <1>1, BridgeTypes DEF Bridges, BridgesAreNew
    <2>4. QED
      BY <1>0, <2>1, <2>2, <2>3 DEF Bridges, BridgesAreNew, BeforeAnchor, Anchor
  <1>8. TakenAlong'
    <2>1. BeforeAnchor /\ where'[Anchor] # Gone =>
              Members(where[Anchor])' \subseteq {Anchor} \cup Chans(moves)
      <3>1. Anchor' = Anchor /\ Anchor \in Channels
        BY <1>0, BridgeTypes DEF Anchor
      <3>2. QED
        BY <1>1, <1>5, <3>1 DEF Bridges, TakenAlong, Members
    <2>2. BeforeAnchor \/ phase = "flag" => Members(conf)' \subseteq {Anchor}
      BY <1>0, <1>1, <1>4, BridgeTypes DEF Bridges, TakenAlong, Members, BeforeAnchor
    <2>3. ASSUME NEW d \in Calls, phase \in {"move", "flag", "finish"},
                 task.op = "confrn", d = task.others[1], where'[Phone(d)] # Gone
          PROVE  Members(where[Phone(d)])' \subseteq {Phone(d)} \cup Chans(moves)
      BY <1>1, <1>5, <2>3, BridgeTypes DEF Bridges, TakenAlong, Members
    <2>4. QED
      BY <1>0, <2>1, <2>2, <2>3
         DEF TakenAlong, BeforeAnchor, Anchor, Chans, Members
  <1>9. EndingAlone'
    <2>1. \A x \in ending' : x \in Channels /\ where'[x] # Gone
      BY <1>1 DEF Bridges, EndingAlone, TypeOK
    <2>2. failed = {} /\ phase # "idle" => Anchor \notin ending'
      BY <1>1 DEF Bridges, EndingAlone
    <2>3. ASSUME NEW d \in Calls, failed = {}, Phone(d) \in ending'
          PROVE  Members(where[Phone(d)])' \subseteq {Phone(d)}
      <3>1. Phone(d) \in ending /\ where'[Phone(d)] # Gone
        BY <1>1, <2>1, <2>3
      <3>2. Members(where[Phone(d)]) \subseteq {Phone(d)}
        BY <2>3, <3>1 DEF Bridges, EndingAlone
      <3>3. QED
        BY <1>5, <3>1, <3>2, BridgeTypes DEF Members
    <2>4. QED
      BY <1>0, <2>1, <2>2, <2>3 DEF EndingAlone, Anchor, Members
  <1>10. Flagged'
    BY <1>0, <1>1, BridgeTypes DEF Bridges, Flagged, IsCallBridge
  <1>11. WithPhone'
    <2> SUFFICES ASSUME ~keep, failed = {} PROVE WithPhone'
      BY <1>0 DEF WithPhone
    <2>u. ASSUME NEW e \in Calls, Phone(e) = ch, ~dissolves
          PROVE  FALSE
      <3>1. phase = "flag" /\ e = task.dialog
        BY <1>0, <2>u, BridgeTypes DEF Bridges, Flagged
      <3>2. where[ch] = conf
        BY <1>0, <2>u, <3>1, BridgeTypes DEF Bridges, BridgesAreNew, BeforeAnchor
      <3>3. Members(conf) \subseteq {ch}
        BY <2>u, <3>1 DEF Bridges, TakenAlong, Anchor
      <3>4. QED
        BY <2>u, <3>2, <3>3 DEF Members
    <2>1. ASSUME phase # "idle", ~BeforeAnchor
          PROVE  where'[Anchor] = conf \/ conf \in dissolved'
      <3>1. where[Anchor] = conf \/ conf \in dissolved
        BY <2>1 DEF Bridges, WithPhone
      <3>2. CASE where[Anchor] = conf /\ where'[Anchor] # conf
        <4>1. where[ch] = conf
          BY <1>1, <3>2, BridgeTypes
        <4>2. dissolves
          BY <1>3, <2>u, <3>2, BridgeTypes
        <4>3. QED
          BY <1>2, <4>1, <4>2
      <3>3. QED
        BY <1>1, <3>1, <3>2
    <2>2. ASSUME NEW d \in Calls, where'[Remote(d)] # Gone
          PROVE  \/ \E e \in Calls : where'[Phone(e)] = where'[Remote(d)]
                 \/ phase \in {"move", "flag"} /\ Remote(d) \in Chans(moves)
      <3>1. where'[Remote(d)] = where[Remote(d)] /\ where[Remote(d)] # Gone
        BY <1>1, <2>2, BridgeTypes
      <3>2. ASSUME NEW e \in Calls, where[Phone(e)] = where[Remote(d)],
                   where'[Phone(e)] # where[Phone(e)]
            PROVE  FALSE
        <4>1. where[ch] = where[Remote(d)]
          BY <1>1, <3>2, BridgeTypes
        <4>2. ~dissolves
          BY <1>2, <2>2, <4>1, BridgeTypes
        <4>3. QED
          BY <1>3, <2>u, <3>2, <4>2, BridgeTypes
      <3>3. QED
        BY <3>1, <3>2 DEF Bridges, WithPhone
    <2>3. QED
      BY <1>0, <2>1, <2>2 DEF WithPhone, BeforeAnchor, Anchor, Chans
  <1>12. QED
    BY <1>6, <1>7, <1>8, <1>9, <1>10, <1>11 DEF Bridges

\* Remove and RmLastConf kick remotes.
LEMMA KickBridges ==
    ASSUME TypeOK, Bridges, phase = "idle", UNCHANGED bridgeVars,
           NEW c \in Calls, InBridge(Phone(c)),
           NEW V, V \subseteq Members(where[Phone(c)]) \ {Phone(c)}, Kick(V)
    PROVE  Bridges'
  <1>1. V \subseteq Channels /\ V \subseteq Remotes /\ \A x \in V : where[x] # Gone
    BY OthersAreRemotes DEF Bridges, Members, InBridge
  <1>2. ending' = ending \cup V
    BY DEF Kick
  <1>3. \A d \in Calls : Phone(d) \in ending' => Phone(d) \in ending
    BY <1>1, <1>2, ChannelCases
  <1>4. EndingAlone'
    BY <1>1, <1>2, <1>3 DEF Bridges, EndingAlone, bridgeVars, InBridge, Members
  <1>5. QED
    BY <1>4, BridgesFrame DEF Bridges

\* Nobody has been in the bridge of a merge that starts, and the call whose
\* leg anchors it has a peer.
LEMMA StartMergeBridges ==
    ASSUME TypeOK, PhasesFit, Bridges, StartMerge
    PROVE  Bridges'
  <1>0. /\ phase = "idle" /\ queue # <<>>
        /\ Head(queue).op \in {"confrn", "join"}
        /\ UNCHANGED <<keep, where, dissolved, flagged, ending, failed>>
    BY DEF StartMerge, Take, callVars, historyVars
  <1>q. Head(queue) \in Task /\ ConsultsAnother(Head(queue))
    BY <1>0, QueueTail DEF TypeOK, PhasesFit
  <1>1. CASE GiveUp
    <2>1. UNCHANGED <<bridgeVars, ending>>
      BY <1>0, <1>1 DEF GiveUp, bridgeVars
    <2>2. QED
      BY <2>1, BridgesFrame, EndingFrame DEF Bridges
  <1>2. CASE /\ \E m \in MovesOf(Head(queue)) : moves' = m
             /\ phase' = "move" /\ task' = Head(queue) /\ conf' = conf + 1
    <2> DEFINE d == Head(queue).dialog
    <2>1. /\ Head(moves').chan = Phone(d) /\ InBridge(Phone(d))
          /\ Members(where[Phone(d)]) \subseteq Chans(moves')
          /\ \E r \in BridgePeer(Phone(d)) : TRUE
          /\ Head(queue).op = "confrn" =>
                Members(where[Phone(Head(queue).others[1])])
                    \subseteq {Phone(Head(queue).others[1])} \cup Chans(moves')
      BY <1>0, <1>q, <1>2, FirstMoves DEF Bridges
    <2>2. d \in Calls /\ Phone(d) \in Channels
      BY <1>q, ChannelCases DEF Task
    <2>3. Anchor' = Phone(d) /\ BeforeAnchor'
      BY <1>2, <2>1 DEF Anchor, BeforeAnchor
    <2>4. \A x \in Channels : where[x] < conf + 1 /\ where[x] # conf + 1
      BY BridgeTypes DEF Bridges, BridgesAreNew
    <2>5. OnePhone'
      BY <1>0 DEF Bridges, OnePhone, InBridge
    <2>6. BridgesAreNew'
      <3>1. conf + 1 > NCalls /\ conf + 1 >= NCalls
        BY BridgeTypes DEF Bridges, BridgesAreNew
      <3>2. \A x \in Channels : where[x] <= conf + 1
        BY <2>4, BridgeTypes
      <3>3. QED
        BY <1>0, <1>2, <2>3, <2>4, <3>1, <3>2, BridgeTypes DEF BridgesAreNew
    <2>7. TakenAlong'
      BY <1>0, <1>2, <2>1, <2>3, <2>4 DEF TakenAlong, Members, Chans
    <2>8. EndingAlone'
      <3>1. failed = {} => Phone(d) \notin ending
        <4>1. PICK r \in BridgePeer(Phone(d)) : TRUE
          BY <2>1
        <4>2. r # Phone(d) /\ r \in Members(where[Phone(d)])
          BY <2>2, <4>1, PeerIsCompany
        <4>3. QED
          BY <2>2, <4>2 DEF Bridges, EndingAlone
      <3>2. QED
        BY <1>0, <2>3, <3>1 DEF Bridges, EndingAlone, InBridge, Members
    <2>9. Flagged'
      BY <1>0 DEF Bridges, Flagged, InBridge, IsCallBridge
    <2>10. WithPhone'
      BY <1>0, <2>3 DEF Bridges, WithPhone, InBridge
    <2>11. QED
      BY <2>5, <2>6, <2>7, <2>8, <2>9, <2>10 DEF Bridges
  <1>3. QED
    BY <1>1, <1>2 DEF StartMerge

\* A move that fails ends the merge, and one that succeeds takes the channel
\* into the bridge of the merge.
LEMMA MoveNextCases ==
    ASSUME TypeOK, PhasesFit, MoveNext
    PROVE  /\ phase = "move" /\ moves # <<>> /\ moves' = Tail(moves)
           /\ Head(moves) \in Move /\ Head(moves).chan \in Channels
           /\ Chans(moves) = {Head(moves).chan} \cup Chans(moves')
           /\ Chans(moves') \subseteq Remotes
           /\ UNCHANGED <<keep, flagged, ending, task, conf>>
           /\ moves' # <<>> => Head(moves').chan \in Remotes
           /\ moves' = <<>> => Chans(moves') = {}
           /\ \/ /\ phase' = "idle" /\ failed' # {}
                 /\ UNCHANGED <<where, dissolved>>
              \/ /\ conf \notin dissolved /\ dissolved \subseteq dissolved'
                 /\ where' = [where EXCEPT ![Head(moves).chan] = conf]
                 /\ failed' = failed
                 /\ \/ /\ Head(moves).chan = Anchor /\ phase' = "flag"
                       /\ BeforeAnchor
                    \/ /\ Head(moves).chan \in Remotes /\ ~BeforeAnchor
                       /\ phase' \in {"move", "join", "finish"}
                       /\ phase' = "move" <=> moves' # <<>>
  <1>1. phase = "move" /\ moves # <<>> /\ moves' = Tail(moves) /\ MovesFit
    BY DEF MoveNext, PhasesFit, MovesFit
  <1>2. /\ Head(moves) \in Move /\ Head(moves).chan \in Channels
        /\ Tail(moves) \in Seq(Move)
        /\ Chans(moves) = {Head(moves).chan} \cup Chans(Tail(moves))
    BY <1>1, ChansTail DEF TypeOK
  <1>3. Tail(moves) # <<>> => Head(Tail(moves)).chan \in Chans(Tail(moves))
    BY <1>2, ChansTail
  <1>4. Anchor \notin Remotes /\ (IsAnchor(Head(moves).chan) <=> Head(moves).chan = Anchor)
    BY BridgeTypes DEF IsAnchor, Anchor
  <1>5. CASE /\ CanMove(Head(moves)) /\ BridgeMove(Head(moves))
             /\ phase' = IF IsAnchor(Head(moves).chan) THEN "flag"
                         ELSE PhaseAfter(Tail(moves))
             /\ UNCHANGED failed
    <2>1. /\ conf \notin dissolved /\ dissolved \subseteq dissolved'
          /\ where' = [where EXCEPT ![Head(moves).chan] = conf]
      BY <1>5 DEF CanMove, BridgeMove
    <2>2. Head(moves).chan = Anchor \/ Head(moves).chan \in Remotes
      BY <1>1 DEF MovesFit
    <2>3. \/ Head(moves).chan = Anchor /\ phase' = "flag" /\ BeforeAnchor
          \/ /\ Head(moves).chan \in Remotes /\ ~BeforeAnchor
             /\ phase' \in {"move", "join", "finish"}
             /\ phase' = "move" <=> Tail(moves) # <<>>
      BY <1>1, <1>4, <1>5, <2>2 DEF BeforeAnchor, PhaseAfter
    <2>4. QED
      BY <1>1, <1>2, <1>3, <1>5, <2>1, <2>3, ChansEmpty DEF MoveNext, MovesFit
  <1>6. CASE MoveFails(Head(moves)) /\ phase' = "idle"
    <2>1. failed' # {} /\ UNCHANGED <<where, dissolved>>
      BY <1>6 DEF MoveFails
    <2>2. QED
      BY <1>1, <1>2, <1>3, <1>6, <2>1, ChansEmpty DEF MoveNext, MovesFit
  <1>7. QED
    BY <1>5, <1>6 DEF MoveNext

LEMMA MoveNextBridges ==
    ASSUME TypeOK, PhasesFit, Bridges, MoveNext
    PROVE  Bridges'
  <1> DEFINE ch == Head(moves).chan
  <1>0. /\ phase = "move" /\ moves # <<>> /\ ch \in Channels
        /\ Chans(moves) = {ch} \cup Chans(moves') /\ Chans(moves') \subseteq Remotes
        /\ UNCHANGED <<keep, flagged, ending, task, conf>>
        /\ moves' # <<>> => Head(moves').chan \in Remotes
        /\ moves' = <<>> => Chans(moves') = {}
    BY MoveNextCases
  <1>a. Anchor' = Anchor /\ Anchor = Phone(task.dialog)
    BY <1>0 DEF Anchor
  <1>b. ~BeforeAnchor'
    BY <1>0, <1>a, MoveNextCases, BridgeTypes DEF BeforeAnchor
  <1>c. conf # Gone /\ ~IsCallBridge(conf)
    BY <1>0, BridgeTypes DEF Bridges, BridgesAreNew, IsCallBridge
  <1> HIDE DEF ch
  <1> USE DEF InBridge
  <1>1. CASE phase' = "idle" /\ failed' # {} /\ UNCHANGED <<where, dissolved>>
    <2>1. OnePhone'
      BY <1>1 DEF Bridges, OnePhone
    <2>2. BridgesAreNew'
      BY <1>0, <1>1 DEF Bridges, BridgesAreNew
    <2>3. TakenAlong'
      BY <1>1, <1>b DEF TakenAlong
    <2>4. EndingAlone'
      BY <1>0, <1>1 DEF Bridges, EndingAlone
    <2>5. Flagged'
      BY <1>0, <1>1 DEF Bridges, Flagged, IsCallBridge
    <2>6. WithPhone'
      BY <1>1 DEF WithPhone
    <2>7. QED
      BY <2>1, <2>2, <2>3, <2>4, <2>5, <2>6 DEF Bridges
  <1>2. CASE /\ ch = Anchor /\ phase' = "flag" /\ BeforeAnchor /\ UNCHANGED failed
             /\ where' = [where EXCEPT ![ch] = conf]
    <2>1. /\ where'[Anchor] = conf
          /\ \A x \in Channels : x # Anchor => where'[x] = where[x]
      BY <1>2, BridgeTypes
    <2>2. \A d \in Calls : d # task.dialog =>
              where'[Phone(d)] = where[Phone(d)] /\ where[Phone(d)] # conf
      BY <1>0, <2>1, BridgeTypes DEF Bridges, BridgesAreNew
    <2>3. OnePhone'
      BY <2>1, <2>2, BridgeTypes DEF Bridges, OnePhone
    <2>4. BridgesAreNew'
      <3>1. \A x \in Channels : where'[x] <= conf
        BY <2>1, BridgeTypes DEF Bridges, BridgesAreNew
      <3>2. QED
        BY <1>0, <1>a, <2>1, <2>2, <3>1 DEF Bridges, BridgesAreNew
    <2>5. TakenAlong'
      <3>1. Members(conf)' \subseteq {Anchor}
        BY <1>0, <1>2, <2>1 DEF Bridges, TakenAlong, Members
      <3>2. ASSUME NEW d \in Calls, task.op = "confrn", d = task.others[1],
                   where'[Phone(d)] # Gone
            PROVE  Members(where[Phone(d)])' \subseteq {Phone(d)} \cup Chans(moves')
        <4>1. d # task.dialog
          BY <1>0, <3>2 DEF PhasesFit, ConsultsAnother
        <4>2. Members(where[Phone(d)]) \subseteq {Phone(d)} \cup Chans(moves)
          BY <1>0, <2>2, <3>2, <4>1 DEF Bridges, TakenAlong
        <4>3. QED
          BY <1>0, <1>2, <2>1, <2>2, <4>1, <4>2 DEF Members
      <3>3. QED
        BY <1>0, <1>a, <1>b, <3>1, <3>2 DEF TakenAlong, Members
    <2>6. EndingAlone'
      <3>1. \A x \in ending : where'[x] # Gone
        BY <1>c, <2>1 DEF Bridges, EndingAlone, TypeOK
      <3>2. failed = {} => Anchor \notin ending
        BY <1>0 DEF Bridges, EndingAlone
      <3>3. ASSUME NEW d \in Calls, failed = {}, Phone(d) \in ending
            PROVE  Members(where[Phone(d)])' \subseteq {Phone(d)}
        <4>1. d # task.dialog
          BY <1>a, <3>2, <3>3
        <4>2. Members(where[Phone(d)]) \subseteq {Phone(d)}
          BY <3>3 DEF Bridges, EndingAlone
        <4>3. QED
          BY <2>1, <2>2, <4>1, <4>2 DEF Members
      <3>4. QED
        BY <1>0, <1>2, <1>a, <3>1, <3>2, <3>3 DEF EndingAlone, Members
    <2>7. Flagged'
      BY <1>0, <1>2, <2>2 DEF Bridges, Flagged, IsCallBridge
    <2>8. WithPhone'
      <3> SUFFICES ASSUME ~keep, failed = {} PROVE WithPhone'
        BY <1>0, <1>2 DEF WithPhone
      <3>1. ASSUME NEW d \in Calls, where'[Remote(d)] # Gone
            PROVE  \/ \E e \in Calls : where'[Phone(e)] = where'[Remote(d)]
                   \/ Remote(d) \in Chans(moves')
        <4>1. where'[Remote(d)] = where[Remote(d)] /\ Remote(d) # Anchor
          BY <2>1, BridgeTypes
        <4>2. CASE \E e \in Calls : where[Phone(e)] = where[Remote(d)]
          <5>1. PICK e \in Calls : where[Phone(e)] = where[Remote(d)]
            BY <4>2
          <5>2. CASE e = task.dialog
            <6>1. Remote(d) \in Members(where[Anchor]) /\ where[Anchor] # Gone
              BY <1>a, <3>1, <4>1, <5>1, <5>2, BridgeTypes DEF Members
            <6>2. Remote(d) \in Chans(moves)
              BY <1>2, <4>1, <6>1 DEF Bridges, TakenAlong
            <6>3. QED
              BY <1>0, <1>2, <4>1, <6>2
          <5>3. QED
            BY <2>2, <4>1, <5>1, <5>2
        <4>3. CASE Remote(d) \in Chans(moves)
          BY <1>0, <1>2, <4>1, <4>3
        <4>4. QED
          BY <3>1, <4>1, <4>2, <4>3 DEF Bridges, WithPhone
      <3>2. QED
        BY <1>0, <1>2, <1>a, <2>1, <3>1 DEF WithPhone
    <2>9. QED
      BY <2>3, <2>4, <2>5, <2>6, <2>7, <2>8 DEF Bridges
  <1>3. CASE /\ ch \in Remotes /\ ~BeforeAnchor /\ phase' \in {"move", "join", "finish"}
             /\ phase' = "move" <=> moves' # <<>>
             /\ conf \notin dissolved /\ dissolved \subseteq dissolved'
             /\ UNCHANGED failed
             /\ where' = [where EXCEPT ![ch] = conf]
    <2>1. /\ where'[ch] = conf
          /\ \A x \in Channels : x # ch => where'[x] = where[x]
          /\ \A d \in Calls : where'[Phone(d)] = where[Phone(d)]
      BY <1>0, <1>3, BridgeTypes, ChannelCases
    <2>2. \A d \in Calls : d # task.dialog => where[Phone(d)] # conf
      BY <1>0 DEF Bridges, BridgesAreNew
    <2>3. OnePhone'
      BY <2>1 DEF Bridges, OnePhone
    <2>4. BridgesAreNew'
      <3>1. \A x \in Channels : where'[x] <= conf
        BY <2>1, BridgeTypes DEF Bridges, BridgesAreNew
      <3>2. where'[Anchor] \in {conf, Gone}
        BY <1>0, <1>3, <2>1, BridgeTypes DEF Bridges, BridgesAreNew
      <3>3. QED
        BY <1>0, <1>a, <2>1, <3>1, <3>2 DEF Bridges, BridgesAreNew
    <2>5. TakenAlong'
      <3>1. ASSUME NEW d \in Calls, task.op = "confrn", d = task.others[1],
                   where'[Phone(d)] # Gone
            PROVE  Members(where[Phone(d)])' \subseteq {Phone(d)} \cup Chans(moves')
        <4>1. d # task.dialog
          BY <1>0, <3>1 DEF PhasesFit, ConsultsAnother
        <4>2. Members(where[Phone(d)]) \subseteq {Phone(d)} \cup Chans(moves)
          BY <1>0, <2>1, <3>1 DEF Bridges, TakenAlong
        <4>3. QED
          BY <1>0, <2>1, <2>2, <4>1, <4>2 DEF Members
      <3>2. QED
        BY <1>0, <1>3, <1>b, <3>1 DEF TakenAlong, Members
    <2>6. EndingAlone'
      <3>1. \A x \in ending : where'[x] # Gone
        BY <1>c, <2>1 DEF Bridges, EndingAlone, TypeOK
      <3>2. failed = {} => Anchor \notin ending
        BY <1>0 DEF Bridges, EndingAlone
      <3>3. ASSUME NEW d \in Calls, failed = {}, Phone(d) \in ending
            PROVE  Members(where[Phone(d)])' \subseteq {Phone(d)}
        <4>1. d # task.dialog
          BY <1>a, <3>2, <3>3
        <4>2. Members(where[Phone(d)]) \subseteq {Phone(d)}
          BY <3>3 DEF Bridges, EndingAlone
        <4>3. QED
          BY <2>1, <2>2, <4>1, <4>2 DEF Members
      <3>4. QED
        BY <1>0, <1>3, <1>a, <3>1, <3>2, <3>3 DEF EndingAlone, Members
    <2>7. Flagged'
      BY <1>0, <1>3, <2>1 DEF Bridges, Flagged, IsCallBridge
    <2>8. WithPhone'
      <3> SUFFICES ASSUME ~keep, failed = {} PROVE WithPhone'
        BY <1>0, <1>3 DEF WithPhone
      <3>1. where[Anchor] = conf /\ where'[Anchor] = conf
        BY <1>0, <1>3, <1>a, <2>1, BridgeTypes DEF Bridges, WithPhone
      <3>2. ASSUME NEW d \in Calls, where'[Remote(d)] # Gone
            PROVE  \/ \E e \in Calls : where'[Phone(e)] = where'[Remote(d)]
                   \/ phase' = "move" /\ Remote(d) \in Chans(moves')
        <4>1. CASE Remote(d) = ch
          BY <1>a, <2>1, <3>1, <4>1, BridgeTypes
        <4>2. CASE Remote(d) # ch
          <5>1. where'[Remote(d)] = where[Remote(d)]
            BY <2>1, <4>2, BridgeTypes
          <5>2. \/ \E e \in Calls : where[Phone(e)] = where[Remote(d)]
                \/ Remote(d) \in Chans(moves)
            BY <3>2, <5>1 DEF Bridges, WithPhone
          <5>3. QED
            BY <1>0, <1>3, <2>1, <4>2, <5>1, <5>2
        <4>3. QED
          BY <4>1, <4>2
      <3>3. QED
        BY <1>0, <1>a, <3>1, <3>2 DEF WithPhone
    <2>9. QED
      BY <2>3, <2>4, <2>5, <2>6, <2>7, <2>8 DEF Bridges
  <1>4. QED
    BY <1>1, <1>2, <1>3, MoveNextCases DEF ch

LEMMA SetDissolveBridges ==
    ASSUME TypeOK, PhasesFit, Bridges, SetDissolveOnInitiatorHangup
    PROVE  Bridges'
  <1>0. /\ phase = "flag" /\ phase' = "move"
        /\ UNCHANGED <<keep, where, dissolved, ending, task, moves, conf, failed>>
        /\ flagged' = IF ~keep /\ InBridge(Anchor) THEN flagged \cup {Anchor} ELSE flagged
    BY DEF SetDissolveOnInitiatorHangup, otherVars, historyVars, Anchor
  <1>a. Anchor' = Anchor /\ Anchor = Phone(task.dialog)
    BY <1>0 DEF Anchor
  <1>b. ~BeforeAnchor /\ ~BeforeAnchor'
    <2>1. moves # <<>> /\ Head(moves).chan \in Remotes
      BY <1>0 DEF PhasesFit, MovesFit
    <2>2. QED
      BY <1>0, <1>a, <2>1, BridgeTypes DEF BeforeAnchor
  <1> USE DEF InBridge
  <1>1. OnePhone'
    BY <1>0 DEF Bridges, OnePhone
  <1>2. BridgesAreNew'
    BY <1>0, <1>a, <1>b DEF Bridges, BridgesAreNew
  <1>3. TakenAlong'
    BY <1>0, <1>b DEF Bridges, TakenAlong, Members, Chans
  <1>4. EndingAlone'
    BY <1>0, <1>a DEF Bridges, EndingAlone, Members
  <1>5. Flagged'
    <2>1. keep => flagged' = {}
      BY <1>0 DEF Bridges, Flagged
    <2>2. ASSUME NEW d \in Calls, ~keep, where[Phone(d)] # Gone,
                 ~IsCallBridge(where[Phone(d)])
          PROVE  Phone(d) \in flagged'
      BY <1>0, <1>a, <2>2 DEF Bridges, Flagged
    <2>3. QED
      BY <1>0, <2>1, <2>2 DEF Flagged, IsCallBridge
  <1>6. WithPhone'
    BY <1>0, <1>a, <1>b DEF Bridges, WithPhone, Chans
  <1>7. QED
    BY <1>1, <1>2, <1>3, <1>4, <1>5, <1>6 DEF Bridges

\* A Join takes the remote of a selected call, and its leg is left alone.
LEMMA JoinSelectedBridges ==
    ASSUME TypeOK, PhasesFit, Bridges, JoinSelected
    PROVE  Bridges'
  <1>0. /\ phase = "join" /\ UNCHANGED <<keep, phase, moves, conf>>
        /\ task' = [task EXCEPT !.index = @ + 1]
    BY DEF JoinSelected
  <1>a. /\ Anchor' = Anchor /\ Anchor = Phone(task.dialog)
        /\ task'.op = task.op /\ task'.others = task.others
        /\ task'.dialog = task.dialog
    BY <1>0 DEF Anchor, TypeOK, Task
  <1>b. ~BeforeAnchor /\ ~BeforeAnchor'
    BY <1>0 DEF BeforeAnchor
  <1>c. conf # Gone /\ ~IsCallBridge(conf)
    BY <1>0, BridgeTypes DEF Bridges, BridgesAreNew, IsCallBridge
  <1>d. TakenAlong'
    BY <1>0, <1>b DEF TakenAlong
  <1> USE DEF InBridge
  <1>1. CASE UNCHANGED <<callVars, clock, entered, failed, budget>>
    <2>0. UNCHANGED <<where, dissolved, flagged, ending, failed>>
      BY <1>1 DEF callVars
    <2>1. OnePhone'
      BY <2>0 DEF Bridges, OnePhone
    <2>2. BridgesAreNew'
      BY <1>0, <1>a, <1>b, <2>0 DEF Bridges, BridgesAreNew
    <2>3. EndingAlone'
      BY <1>0, <1>a, <2>0 DEF Bridges, EndingAlone, Members
    <2>4. Flagged'
      BY <1>0, <1>a, <2>0 DEF Bridges, Flagged, IsCallBridge
    <2>5. WithPhone'
      BY <1>0, <1>a, <1>b, <2>0 DEF Bridges, WithPhone, Chans
    <2>6. QED
      BY <1>d, <2>1, <2>2, <2>3, <2>4, <2>5 DEF Bridges
  <1>2. ASSUME NEW d \in Calls, NEW r \in BridgePeer(Phone(d)), JoinsRemote(d, r)
        PROVE  Bridges'
    <2>1. /\ d # task.dialog /\ Phone(d) \in Channels
          /\ r \in Channels /\ r \in Remotes /\ r # Phone(d)
          /\ where[Phone(d)] # Gone /\ where[r] = where[Phone(d)]
          /\ Members(where[Phone(d)]) = {Phone(d), r}
      BY <1>2, PeerIsCompany, PeersAreRemotes, ChannelCases DEF Bridges, JoinsRemote
    <2>2. ending' = ending \cup {Phone(d)} /\ UNCHANGED flagged
      BY <1>2, <2>1 DEF JoinsRemote, SoftHangup
    <2>3. where[Phone(d)] # conf
      BY <1>0, <2>1 DEF Bridges, BridgesAreNew
    <2>4. CASE CanMove(From(r)) /\ BridgeMove(From(r)) /\ UNCHANGED failed
      <3>1. /\ conf \notin dissolved /\ dissolved \subseteq dissolved'
            /\ where' = [where EXCEPT ![r] = conf]
        BY <2>4 DEF CanMove, BridgeMove, From
      <3>2. /\ where'[r] = conf
            /\ \A x \in Channels : x # r => where'[x] = where[x]
            /\ \A e \in Calls : where'[Phone(e)] = where[Phone(e)]
        BY <2>1, <3>1, BridgeTypes, ChannelCases
      <3>3. \A e \in Calls : e # task.dialog => where[Phone(e)] # conf
        BY <1>0 DEF Bridges, BridgesAreNew
      <3>4. OnePhone'
        BY <3>2 DEF Bridges, OnePhone
      <3>5. BridgesAreNew'
        <4>1. \A x \in Channels : where'[x] <= conf
          BY SMTT(30), <3>2, BridgeTypes DEF Bridges, BridgesAreNew
        <4>2. where'[Anchor] \in {conf, Gone}
          BY <1>0, <1>b, <3>2, BridgeTypes DEF Bridges, BridgesAreNew
        <4>3. QED
          BY <1>0, <1>a, <3>2, <4>1, <4>2 DEF Bridges, BridgesAreNew
      <3>6. EndingAlone'
        <4>1. \A x \in ending' : where'[x] # Gone
          BY <1>c, <2>1, <2>2, <3>2 DEF Bridges, EndingAlone, TypeOK
        <4>2. failed = {} => Anchor \notin ending'
          BY <1>0, <2>1, <2>2, BridgeTypes DEF Bridges, EndingAlone
        <4>3. ASSUME NEW e \in Calls, failed = {}, Phone(e) \in ending'
              PROVE  Members(where[Phone(e)])' \subseteq {Phone(e)}
          <5>1. e # task.dialog
            BY <1>a, <4>2, <4>3
          <5>2. Members(where[Phone(e)]) \subseteq {Phone(e), r}
            <6>1. CASE e = d
              BY <2>1, <6>1
            <6>2. CASE e # d
              <7>1. Phone(e) \in ending
                BY <2>2, <4>3, <6>2, ChannelCases
              <7>2. QED
                BY <4>3, <7>1 DEF Bridges, EndingAlone
            <6>3. QED
              BY <6>1, <6>2
          <5>3. QED
            BY <3>2, <3>3, <5>1, <5>2 DEF Members
        <4>4. QED
          BY <1>0, <1>a, <2>4, <4>1, <4>2, <4>3 DEF EndingAlone, Members
      <3>7. Flagged'
        BY <1>0, <1>a, <2>2, <3>2 DEF Bridges, Flagged, IsCallBridge
      <3>8. WithPhone'
        <4> SUFFICES ASSUME ~keep, failed = {} PROVE WithPhone'
          BY <1>0, <2>4 DEF WithPhone
        <4>1. where[Anchor] = conf /\ where'[Anchor] = conf
          BY <1>0, <1>a, <1>b, <3>1, <3>2, BridgeTypes DEF Bridges, WithPhone
        <4>2. ASSUME NEW e \in Calls, where'[Remote(e)] # Gone
              PROVE  \E f \in Calls : where'[Phone(f)] = where'[Remote(e)]
          <5>1. CASE Remote(e) = r
            BY <1>a, <3>2, <4>1, <5>1, BridgeTypes
          <5>2. CASE Remote(e) # r
            <6>1. where'[Remote(e)] = where[Remote(e)]
              BY <3>2, <5>2, BridgeTypes
            <6>2. \E f \in Calls : where[Phone(f)] = where[Remote(e)]
              BY <1>0, <4>2, <6>1 DEF Bridges, WithPhone
            <6>3. QED
              BY <3>2, <6>1, <6>2
          <5>3. QED
            BY <5>1, <5>2
        <4>3. QED
          BY <1>0, <1>a, <4>1, <4>2 DEF WithPhone
      <3>9. QED
        BY <1>d, <3>4, <3>5, <3>6, <3>7, <3>8 DEF Bridges
    <2>5. CASE MoveFails(From(r))
      <3>1. failed' # {} /\ UNCHANGED <<where, dissolved>>
        BY <2>5 DEF MoveFails
      <3>2. OnePhone'
        BY <3>1 DEF Bridges, OnePhone
      <3>3. BridgesAreNew'
        BY <1>0, <1>a, <1>b, <3>1 DEF Bridges, BridgesAreNew
      <3>4. EndingAlone'
        BY <2>1, <2>2, <3>1 DEF Bridges, EndingAlone
      <3>5. Flagged'
        BY <1>0, <1>a, <2>2, <3>1 DEF Bridges, Flagged, IsCallBridge
      <3>6. WithPhone'
        BY <3>1 DEF WithPhone
      <3>7. QED
        BY <1>d, <3>2, <3>3, <3>4, <3>5, <3>6 DEF Bridges
    <2>6. QED
      BY <1>2, <2>4, <2>5 DEF JoinsRemote
  <1>3. QED
    BY <1>1, <1>2, JoinSelectedCases

LEMMA JoinFinishBridges ==
    ASSUME Bridges, JoinFinish
    PROVE  Bridges'
  <1>0. /\ phase = "join" /\ phase' = "idle"
        /\ UNCHANGED <<keep, where, dissolved, flagged, ending, task, moves, conf, failed>>
    BY DEF JoinFinish, historyVars
  <1> USE DEF InBridge
  <1>1. OnePhone'
    BY <1>0 DEF Bridges, OnePhone
  <1>2. BridgesAreNew'
    BY <1>0 DEF Bridges, BridgesAreNew
  <1>3. TakenAlong'
    BY <1>0 DEF TakenAlong, BeforeAnchor
  <1>4. EndingAlone'
    BY <1>0 DEF Bridges, EndingAlone, Members
  <1>5. Flagged'
    BY <1>0 DEF Bridges, Flagged, IsCallBridge
  <1>6. WithPhone'
    BY <1>0 DEF Bridges, WithPhone
  <1>7. QED
    BY <1>1, <1>2, <1>3, <1>4, <1>5, <1>6 DEF Bridges

\* The consulted leg is alone when a Confrn hangs it up.
LEMMA ConfrnFinishBridges ==
    ASSUME TypeOK, PhasesFit, Bridges, ConfrnFinish
    PROVE  Bridges'
  <1> DEFINE d == task.others[1]
  <1>0. /\ phase = "finish" /\ phase' = "idle" /\ moves = <<>>
        /\ task.op = "confrn" /\ d # task.dialog /\ d \in Calls
        /\ SoftHangup(Phone(d))
        /\ UNCHANGED <<keep, where, dissolved, flagged, task, moves, conf, failed>>
    BY DEF ConfrnFinish, otherVars, historyVars, PhasesFit, ConsultsAnother, TypeOK, Task
  <1>1. Phone(d) \in Channels
    BY <1>0, ChannelCases
  <1>2. InBridge(Phone(d)) => Members(where[Phone(d)]) \subseteq {Phone(d)}
    BY <1>0, ChansEmpty DEF Bridges, TakenAlong
  <1>3. ending' \subseteq ending \cup (IF InBridge(Phone(d)) THEN {Phone(d)} ELSE {})
    BY <1>0 DEF SoftHangup
  <1> HIDE DEF d
  <1> USE DEF InBridge
  <1>4. OnePhone'
    BY <1>0 DEF Bridges, OnePhone
  <1>5. BridgesAreNew'
    BY <1>0 DEF Bridges, BridgesAreNew
  <1>6. TakenAlong'
    BY <1>0 DEF TakenAlong, BeforeAnchor
  <1>7. EndingAlone'
    <2>1. \A x \in ending' : where[x] # Gone
      BY <1>3 DEF Bridges, EndingAlone
    <2>2. ASSUME NEW e \in Calls, failed = {}, Phone(e) \in ending'
          PROVE  Members(where[Phone(e)]) \subseteq {Phone(e)}
      <3>1. CASE Phone(e) \in ending
        BY <2>2, <3>1 DEF Bridges, EndingAlone
      <3>2. CASE Phone(e) = Phone(d) /\ InBridge(Phone(d))
        BY <1>2, <3>2
      <3>3. QED
        BY <1>3, <2>2, <3>1, <3>2
    <2>3. QED
      BY <1>0, <2>1, <2>2 DEF EndingAlone, Members
  <1>8. Flagged'
    BY <1>0 DEF Bridges, Flagged, IsCallBridge
  <1>9. WithPhone'
    BY <1>0 DEF Bridges, WithPhone
  <1>10. QED
    BY <1>4, <1>5, <1>6, <1>7, <1>8, <1>9 DEF Bridges

LEMMA NextBridges ==
    ASSUME TypeOK, PhasesFit, Bridges, [Next]_vars
    PROVE  Bridges'
  <1>1. CASE UNCHANGED <<bridgeVars, ending>>
    BY <1>1, BridgesFrame, EndingFrame DEF Bridges
  <1>2. ASSUME \/ \E a, b \in Calls : QueueConference(a, b)
               \/ \E a \in Calls : \/ QueueJoin(a) \/ QueueRmLastConf(a)
                                   \/ ConfList(a) \/ Unselect(a)
               \/ \E token \in Tokens, index \in 0..(NCalls - 1) :
                     ConfListAction(token, index)
               \/ \E t \in Threads : \/ \E d \in Calls : Select(t, d)
                                     \/ SelectCount(t) \/ SelectLink(t)
               \/ ConflistSendTask
               \/ UNCHANGED vars
        PROVE  UNCHANGED <<bridgeVars, ending>>
    BY <1>2 DEF QueueConference, QueueJoin, QueueRmLastConf, ConfList, ConfListAction,
                QueueOrFail, Unselect, Select, SelectCount, SelectLink, listVars,
                ConflistSendTask, otherVars, callVars, mergeVars, historyVars,
                bridgeVars, vars
  <1>3. ASSUME ConflistActionSendTask
        PROVE  Bridges'
    <2> DEFINE t == Head(queue)
    <2>1. /\ phase = "idle" /\ queue # <<>> /\ UNCHANGED bridgeVars
          /\ \/ UNCHANGED ending
             \/ InBridge(Phone(t.dialog)) /\ Kick(Picked(t))
      BY <1>3 DEF ConflistActionSendTask, Take, PickParticipant, otherVars, mergeVars,
                  bridgeVars
    <2>2. t.dialog \in Calls
      BY <2>1, QueueTail DEF TypeOK, PhasesFit, Task
    <2>3. Picked(t) \subseteq Members(where[Phone(t.dialog)]) \ {Phone(t.dialog)}
      BY DEF Picked, PeerAt
    <2> HIDE DEF t
    <2>4. QED
      BY <1>1, <2>1, <2>2, <2>3, KickBridges
  <1>4. ASSUME RmlastconfSendTask
        PROVE  Bridges'
    <2> DEFINE d == Head(queue).dialog
    <2>1. /\ phase = "idle" /\ queue # <<>> /\ UNCHANGED bridgeVars
          /\ \/ UNCHANGED ending
             \/ InBridge(Phone(d)) /\ Kick(LastJoined(Phone(d)))
      BY <1>4 DEF RmlastconfSendTask, Take, otherVars, mergeVars, historyVars, bridgeVars
    <2>2. d \in Calls
      BY <2>1, QueueTail DEF TypeOK, PhasesFit, Task
    <2>3. LastJoined(Phone(d)) \subseteq Members(where[Phone(d)]) \ {Phone(d)}
      BY DEF LastJoined
    <2> HIDE DEF d
    <2>4. QED
      BY <1>1, <2>1, <2>2, <2>3, KickBridges
  <1>5. QED
    BY <1>1, <1>2, <1>3, <1>4, HangupBridges, StartMergeBridges, MoveNextBridges,
       SetDissolveBridges, JoinSelectedBridges, JoinFinishBridges, ConfrnFinishBridges
       DEF Next, Softkeys, Serializer

(***************************************************************************)
(* Join times, selections and presses of Remove.                           *)
(***************************************************************************)

LEMMA InitCounts == Init => JoinTimes /\ SelectsFit /\ RemovesOwed
  <1> SUFFICES ASSUME Init PROVE JoinTimes /\ SelectsFit /\ RemovesOwed
    OBVIOUS
  <1>1. JoinTimes
    BY ChannelCases DEF Init, JoinTimes
  <1>2. SelectsFit
    <2>1. Counted = {} /\ Len(selected) = 0
      BY DEF Init, Counted
    <2>2. Cardinality({}) = 0 /\ Cardinality(Threads) \in Nat
      BY FS_EmptySet, FS_CardinalityType, ConferenceConstants
    <2>3. QED
      BY <2>1, <2>2, ConferenceConstants DEF SelectsFit
  <1>3. RemovesOwed
    <2>1. RemovesIn(queue) = {} /\ ~RemovePending
      BY DEF Init, RemovesIn, RemovePending
    <2>2. Cardinality(RemovesIn(queue)) = 0
      BY <2>1, FS_EmptySet
    <2>3. owedRemoves = 0
      BY DEF Init
    <2>4. QED
      BY <2>1, <2>2, <2>3 DEF RemovesOwed
  <1>4. QED
    BY <1>1, <1>2, <1>3

LEMMA NextJoinTimes ==
    ASSUME TypeOK, PhasesFit, JoinTimes, [Next]_vars
    PROVE  JoinTimes'
  <1>1. CASE UNCHANGED <<joinTime, entered>>
    BY <1>1 DEF JoinTimes
  <1>2. ASSUME NEW ch \in Channels, Entered(ch),
               MarkJoined(ch) \/ (ch \notin Remotes /\ UNCHANGED joinTime)
        PROVE  JoinTimes'
    <2>1. \A d \in Calls : Remote(d) \in Channels /\ Remote(d) \in Remotes
      BY ChannelCases
    <2>2. QED
      BY <1>2, <2>1 DEF JoinTimes, Entered, MarkJoined, TypeOK
  <1>3. ASSUME MoveNext
        PROVE  JoinTimes'
    <2>1. Head(moves).chan \in Channels
      BY <1>3, MoveNextCases
    <2>2. \/ UNCHANGED <<joinTime, entered>>
          \/ /\ Entered(Head(moves).chan)
             /\ \/ MarkJoined(Head(moves).chan)
                \/ Head(moves).chan = Anchor /\ UNCHANGED joinTime
      BY <1>3 DEF MoveNext, MoveFails, IsAnchor, Anchor
    <2>3. QED
      BY <1>1, <1>2, <2>1, <2>2, BridgeTypes
  <1>4. ASSUME JoinSelected
        PROVE  JoinTimes'
    <2>1. ASSUME NEW d \in Calls, NEW r \in BridgePeer(Phone(d)), JoinsRemote(d, r)
          PROVE  JoinTimes'
      <3>1. r \in Channels
        BY PeerIsCompany, ChannelCases
      <3>2. QED
        BY <1>1, <1>2, <2>1, <3>1 DEF JoinsRemote, MoveFails
    <2>2. QED
      BY <1>1, <1>4, <2>1, JoinSelectedCases DEF callVars
  <1>5. ASSUME \/ \E a, b \in Calls : QueueConference(a, b)
               \/ \E a \in Calls : \/ QueueJoin(a) \/ QueueRmLastConf(a)
                                   \/ ConfList(a) \/ Unselect(a)
               \/ \E token \in Tokens, index \in 0..(NCalls - 1) :
                     ConfListAction(token, index)
               \/ \E t \in Threads : \/ \E d \in Calls : Select(t, d)
                                     \/ SelectCount(t) \/ SelectLink(t)
               \/ \E ch \in Channels : Hangup(ch)
               \/ ConflistSendTask \/ ConflistActionSendTask \/ RmlastconfSendTask
               \/ StartMerge \/ SetDissolveOnInitiatorHangup
               \/ JoinFinish \/ ConfrnFinish
               \/ UNCHANGED vars
        PROVE  UNCHANGED <<joinTime, entered>>
    BY <1>5 DEF QueueConference, QueueJoin, QueueRmLastConf, ConfList, ConfListAction,
                QueueOrFail, Unselect, Select, SelectCount, SelectLink, listVars,
                Hangup, ConflistSendTask, ConflistActionSendTask, RmlastconfSendTask,
                StartMerge, SetDissolveOnInitiatorHangup, JoinFinish, ConfrnFinish,
                callVars, historyVars, vars
  <1>6. QED
    BY <1>1, <1>3, <1>4, <1>5 DEF Next, Softkeys, Serializer

\* A thread that has counted is one of the threads.
LEMMA CountedFacts ==
    /\ Counted \subseteq Threads
    /\ IsFiniteSet(Counted)
    /\ Cardinality(Counted) \in Nat /\ Cardinality(Threads) \in Nat
    /\ Cardinality(Counted) <= Cardinality(Threads)
  <1>1. Counted \subseteq Threads
    BY DEF Counted
  <1>2. QED
    BY <1>1, FS_Subset, FS_CardinalityType, ConferenceConstants

\* A Select counts before it links, so as many may be on their way as there
\* are threads: each links one entry after all of them counted.
LEMMA NextSelectsFit ==
    ASSUME TypeOK, SelectsFit, [Next]_vars
    PROVE  SelectsFit'
  <1>0. Len(selected) \in Nat /\ JoinMaxSelected \in Nat \ {0}
    BY ConferenceConstants DEF TypeOK
  <1>1. ASSUME Len(selected') \in Nat, Len(selected') <= Len(selected),
               Counted' \subseteq Counted
        PROVE  SelectsFit'
    <2>1. Cardinality(Counted') <= Cardinality(Counted) /\ Cardinality(Counted') \in Nat
      BY <1>1, CountedFacts, FS_Subset, FS_CardinalityType
    <2>2. QED
      BY <1>0, <1>1, <2>1, CountedFacts DEF SelectsFit
  <1>2. ASSUME NEW t \in Threads, NEW d \in Calls, Select(t, d)
        PROVE  SelectsFit'
    <2>1. \A u \in Threads : \A a \in adding'[u] : a.counted => a \in adding[u]
      BY <1>2 DEF Select, TypeOK
    <2>2. Counted' \subseteq Counted /\ selected' = selected
      BY <1>2, <2>1 DEF Counted, Select
    <2>3. QED
      BY <1>0, <1>1, <2>2
  <1>3. ASSUME NEW t \in Threads, SelectCount(t)
        PROVE  SelectsFit'
    <2>0. selected' = selected
      BY <1>3 DEF SelectCount
    <2>1. CASE Len(selected) >= JoinMaxSelected
      <3>1. adding' = [adding EXCEPT ![t] = {}]
        BY <1>3, <2>1 DEF SelectCount
      <3>2. Counted' \subseteq Counted
        BY <3>1 DEF Counted, TypeOK
      <3>3. QED
        BY <1>0, <1>1, <2>0, <3>2
    <2>2. CASE ~(Len(selected) >= JoinMaxSelected)
      <3>1. Counted' \subseteq Threads
        BY DEF Counted
      <3>2. Cardinality(Counted') <= Cardinality(Threads) /\ Cardinality(Counted') \in Nat
        BY <3>1, FS_Subset, FS_CardinalityType, ConferenceConstants
      <3>3. QED
        BY <1>0, <2>0, <2>2, <3>2, CountedFacts DEF SelectsFit
    <2>3. QED
      BY <2>1, <2>2
  <1>4. ASSUME NEW t \in Threads, SelectLink(t)
        PROVE  SelectsFit'
    <2>1. PICK a \in adding[t] : a.counted /\ selected' = Append(selected, a.dialog)
      BY <1>4 DEF SelectLink
    <2>2. Len(selected') = Len(selected) + 1
      BY <2>1, AddingFacts, AppendProperties DEF TypeOK
    <2>3. t \in Counted
      BY <2>1 DEF Counted
    <2>4. adding' = [adding EXCEPT ![t] = {}]
      BY <1>4 DEF SelectLink
    <2>5. Counted' = Counted \ {t}
      BY <2>4 DEF Counted, TypeOK
    <2>6. Cardinality(Counted \ {t}) = Cardinality(Counted) - 1
      BY <2>3, CountedFacts, FS_RemoveElement
    <2>7. QED
      BY <1>0, <2>2, <2>5, <2>6, CountedFacts DEF SelectsFit
  <1>5. ASSUME NEW d \in Calls, Unselect(d)
        PROVE  SelectsFit'
    <2>1. Counted' = Counted
      BY <1>5 DEF Unselect, Counted
    <2>2. Len(selected') \in Nat /\ Len(selected') <= Len(selected)
      BY <1>0, <1>5, WithoutFacts DEF Unselect, TypeOK
    <2>3. QED
      BY <1>1, <2>1, <2>2
  <1>6. ASSUME JoinFinish
        PROVE  SelectsFit'
    <2>1. Counted' = Counted /\ selected' = <<>>
      BY <1>6 DEF JoinFinish, Counted
    <2>2. QED
      BY <1>0, <1>1, <2>1
  <1>7. ASSUME UNCHANGED <<selected, adding>>
        PROVE  SelectsFit'
    BY <1>7 DEF SelectsFit, Counted
  <1>8. ASSUME \/ \E a, b \in Calls : QueueConference(a, b)
               \/ \E a \in Calls : QueueJoin(a) \/ QueueRmLastConf(a) \/ ConfList(a)
               \/ \E token \in Tokens, index \in 0..(NCalls - 1) :
                     ConfListAction(token, index)
               \/ \E ch \in Channels : Hangup(ch)
               \/ ConflistSendTask \/ ConflistActionSendTask \/ RmlastconfSendTask
               \/ StartMerge \/ MoveNext \/ SetDissolveOnInitiatorHangup
               \/ JoinSelected \/ ConfrnFinish
               \/ UNCHANGED vars
        PROVE  UNCHANGED <<selected, adding>>
    BY <1>8 DEF QueueConference, QueueJoin, QueueRmLastConf, ConfList, ConfListAction,
                QueueOrFail, Hangup, ConflistSendTask, ConflistActionSendTask,
                RmlastconfSendTask, StartMerge, MoveNext, SetDissolveOnInitiatorHangup,
                JoinSelected, ConfrnFinish, otherVars, vars
  <1>9. QED
    BY <1>2, <1>3, <1>4, <1>5, <1>6, <1>7, <1>8 DEF Next, Softkeys, Serializer

\* How many presses of Remove are on their way: those in q, and one if the
\* next pick is to remove.
LEMMA OwedFrame ==
    ASSUME TypeOK, RemovesOwed, NEW k \in Int,
           Cardinality(RemovesIn(queue')) \in Nat,
           Cardinality(RemovesIn(queue')) <= Cardinality(RemovesIn(queue)) + k,
           owedRemoves' >= owedRemoves + k,
           owedRemoves' \in Int,
           RemovePending' => RemovePending
    PROVE  RemovesOwed'
  <1>1. Cardinality(RemovesIn(queue)) \in Nat /\ owedRemoves \in Int
    BY RemovesFinite DEF TypeOK
  <1>2. QED
    BY <1>1 DEF RemovesOwed

\* A task that is queued, or could not be.
LEMMA QueueRemoves ==
    ASSUME TypeOK, NEW e, NEW t \in Task, QueueOrFail(e, t)
    PROVE  /\ Cardinality(RemovesIn(queue')) \in Nat
           /\ Cardinality(RemovesIn(queue'))
                  <= Cardinality(RemovesIn(queue)) + (IF t.token = "Remove" THEN 1 ELSE 0)
  <1>1. queue \in Seq(Task) /\ Append(queue, t) \in Seq(Task)
    BY DEF TypeOK
  <1>2. /\ Cardinality(RemovesIn(queue)) \in Nat
        /\ Cardinality(RemovesIn(Append(queue, t))) \in Nat
    BY <1>1, RemovesFinite
  <1>3. queue' = Append(queue, t) \/ queue' = queue
    BY DEF QueueOrFail
  <1>4. Cardinality(RemovesIn(Append(queue, t))) =
            Cardinality(RemovesIn(queue)) + (IF t.token = "Remove" THEN 1 ELSE 0)
    BY <1>1, RemovesAppend
  <1> DEFINE C == Cardinality(RemovesIn(queue))
             A == Cardinality(RemovesIn(Append(queue, t)))
             D == Cardinality(RemovesIn(queue'))
  <1>5. D = A \/ D = C
    BY <1>3
  <1>6. C \in Nat /\ A \in Nat /\ A = C + (IF t.token = "Remove" THEN 1 ELSE 0)
    BY <1>2, <1>4
  <1> HIDE DEF A, C, D
  <1>7. D \in Nat /\ D <= C + (IF t.token = "Remove" THEN 1 ELSE 0)
    BY <1>5, <1>6
  <1>8. QED
    BY <1>7 DEF C, D

LEMMA NextRemovesOwed ==
    ASSUME TypeOK, PhasesFit, RemovesOwed, [Next]_vars
    PROVE  RemovesOwed'
  <1> DEFINE C == Cardinality(RemovesIn(queue))
             D == Cardinality(RemovesIn(queue'))
  <1>0. C \in Nat /\ owedRemoves \in Int
    BY RemovesFinite DEF TypeOK
  <1>n. ASSUME NEW op \in {"confrn", "join", "rmlast", "conflist"}, NEW d \in Calls
        PROVE  /\ NewTask(op, d) \in Task /\ NewTask(op, d).token # "Remove"
               /\ \A s \in Seq(Calls) :
                     /\ [NewTask(op, d) EXCEPT !.others = s] \in Task
                     /\ [NewTask(op, d) EXCEPT !.others = s].token # "Remove"
    <2>1. NewTask(op, d).token = "Update"
      BY DEF NewTask
    <2>2. \A s : [NewTask(op, d) EXCEPT !.others = s].token = "Update"
      BY DEF NewTask
    <2>3. QED
      BY <2>1, <2>2, NewTaskType
  <1>k. ASSUME NEW e, NEW t \in Task, t.token # "Remove", QueueOrFail(e, t),
               UNCHANGED owedRemoves, RemovePending' => RemovePending
        PROVE  RemovesOwed'
    <2>1. D \in Nat /\ D <= C
      BY <1>0, <1>k, QueueRemoves
    <2>2. D <= C + 0 /\ owedRemoves' >= owedRemoves + 0 /\ owedRemoves' \in Int
      BY <1>0, <1>k, <2>1
    <2>3. QED
      BY <1>k, <2>1, <2>2, OwedFrame
  <1>1. ASSUME NEW a \in Calls, NEW b \in Calls, QueueConference(a, b)
        PROVE  RemovesOwed'
    <2>1. <<b>> \in Seq(Calls)
      OBVIOUS
    <2>2. QED
      BY <1>1, <1>k, <1>n, <2>1 DEF QueueConference, RemovePending
  <1>2. ASSUME NEW a \in Calls, QueueJoin(a)
        PROVE  RemovesOwed'
    BY <1>2, <1>k, <1>n, SnapshotType DEF QueueJoin, RemovePending
  <1>3. ASSUME NEW a \in Calls, QueueRmLastConf(a)
        PROVE  RemovesOwed'
    BY <1>3, <1>k, <1>n DEF QueueRmLastConf, RemovePending
  <1>4. ASSUME NEW d \in Calls, ConfList(d)
        PROVE  RemovesOwed'
    <2>1. RemovePending' => RemovePending
      <3>1. \A a : [dialog |-> d, action |-> a].action = a
        OBVIOUS
      <3>2. RemovePending' => "Remove" \in PendingActions
        BY <1>4, <3>1 DEF ConfList, RemovePending
      <3>3. QED
        BY <3>2 DEF RemovePending, PendingActions
    <2>2. QED
      BY <1>4, <1>k, <1>n, <2>1 DEF ConfList
  <1>5. ASSUME NEW token \in Tokens, NEW index \in 0..(NCalls - 1),
               ConfListAction(token, index)
        PROVE  RemovesOwed'
    <2> DEFINE k == IF token = "Remove" THEN 1 ELSE 0
    <2>1. PICK p \in pending :
              QueueOrFail(IF token \in {"index", "other"} THEN "pick" ELSE "softkey",
                          [NewTask("action", p.dialog) EXCEPT !.token = token,
                                                              !.index = index])
      BY <1>5 DEF ConfListAction
    <2> DEFINE t == [NewTask("action", p.dialog) EXCEPT !.token = token,
                                                        !.index = index]
    <2>2. p.dialog \in Calls
      BY PendingFacts DEF Pending
    <2>3. index \in Nat
      BY ConferenceConstants
    <2>4. t \in Task
      BY <2>2, <2>3, NewTaskType
    <2>5. t.token = token
      BY DEF NewTask
    <2> HIDE DEF t
    <2>6. D \in Nat /\ D <= C + k
      BY <2>1, <2>4, <2>5, QueueRemoves DEF t
    <2>7. UNCHANGED pending /\ owedRemoves' = owedRemoves + k
      BY <1>0, <1>5 DEF ConfListAction
    <2>8. k \in Int /\ owedRemoves' >= owedRemoves + k /\ owedRemoves' \in Int
      BY <1>0, <2>7
    <2>9. RemovePending' => RemovePending
      BY <2>7 DEF RemovePending
    <2> HIDE DEF k
    <2>10. QED
      BY <2>6, <2>8, <2>9, OwedFrame
  <1>6. CASE UNCHANGED <<queue, pending, owedRemoves>>
    BY <1>6 DEF RemovesOwed, RemovePending
  <1>7. CASE queue # <<>> /\ queue' = Tail(queue) /\ UNCHANGED <<pending, owedRemoves>>
    <2>1. D \in Nat /\ D <= C
      <3>1. Tail(queue) \in Seq(Task)
        BY <1>7 DEF TypeOK
      <3>2. Cardinality(RemovesIn(Tail(queue))) \in Nat
        BY <3>1, RemovesFinite
      <3>3. C = Cardinality(RemovesIn(Tail(queue)))
                + (IF Head(queue).token = "Remove" THEN 1 ELSE 0)
        BY <1>7, RemovesTail DEF TypeOK
      <3>4. D = Cardinality(RemovesIn(Tail(queue)))
        BY <1>7
      <3> HIDE DEF C, D
      <3>5. QED
        BY <3>2, <3>3, <3>4
    <2>2. RemovePending' => RemovePending
      BY <1>7 DEF RemovePending
    <2>3. D <= C + 0 /\ owedRemoves' >= owedRemoves + 0 /\ owedRemoves' \in Int
      BY <1>0, <1>7, <2>1
    <2>4. QED
      BY <2>1, <2>2, <2>3, OwedFrame
  <1>8. ASSUME ConflistActionSendTask
        PROVE  RemovesOwed'
    <2>1. queue # <<>> /\ queue' = Tail(queue)
      BY <1>8 DEF ConflistActionSendTask, Take
    <2>2. D \in Nat
      <3>1. Tail(queue) \in Seq(Task)
        BY <2>1 DEF TypeOK
      <3>2. QED
        BY <2>1, <3>1, RemovesFinite
    <2>3. C = D + (IF Head(queue).token = "Remove" THEN 1 ELSE 0)
      BY <2>1, RemovesTail DEF TypeOK
    <2>4. CASE /\ Head(queue).token \in Sticky
               /\ pending' = {[p EXCEPT !.action = Head(queue).token] : p \in pending}
               /\ UNCHANGED owedRemoves
      <3>1. RemovePending' => Head(queue).token = "Remove"
        <4>1. \A p \in pending : [p EXCEPT !.action = Head(queue).token].action
                                     = Head(queue).token
          BY PendingFacts DEF Pending
        <4>2. QED
          BY <2>4, <4>1 DEF RemovePending
      <3>2. owedRemoves >= C
        BY <1>0 DEF RemovesOwed
      <3>3. QED
        BY <1>0, <2>2, <2>3, <2>4, <3>1, <3>2 DEF RemovesOwed
    <2>5. CASE Head(queue).token \in {"index", "other"} /\ PickParticipant(Head(queue))
      <3>1. PICK p \in pending :
               /\ ClearAction(p)
               /\ \/ owedRemoves' = owedRemoves
                  \/ p.action = "Remove" /\ owedRemoves' = owedRemoves - 1
        BY <2>5 DEF PickParticipant
      <3>2. ~RemovePending'
        <4>1. [p EXCEPT !.action = ""].action = ""
          BY PendingFacts DEF Pending
        <4>2. QED
          BY <3>1, <4>1 DEF ClearAction, RemovePending
      <3>3. p.action = "Remove" => RemovePending
        BY DEF RemovePending
      <3>4. C = D
        BY <2>2, <2>3, <2>5
      <3>5. QED
        BY <1>0, <2>2, <3>1, <3>2, <3>3, <3>4 DEF RemovesOwed
    <2>6. CASE UNCHANGED <<pending, owedRemoves>>
      BY <1>7, <2>1, <2>6
    <2>7. QED
      BY <1>8, <2>4, <2>5, <2>6 DEF ConflistActionSendTask
  <1>9. ASSUME ConflistSendTask \/ RmlastconfSendTask \/ StartMerge
        PROVE  queue # <<>> /\ queue' = Tail(queue) /\ UNCHANGED <<pending, owedRemoves>>
    BY <1>9 DEF ConflistSendTask, RmlastconfSendTask, StartMerge, Take, historyVars
  <1>10. ASSUME \/ \E a \in Calls : Unselect(a)
                \/ \E t \in Threads : \/ \E d \in Calls : Select(t, d)
                                      \/ SelectCount(t) \/ SelectLink(t)
                \/ \E ch \in Channels : Hangup(ch)
                \/ MoveNext \/ SetDissolveOnInitiatorHangup
                \/ JoinSelected \/ JoinFinish \/ ConfrnFinish
                \/ UNCHANGED vars
         PROVE  UNCHANGED <<queue, pending, owedRemoves>>
    BY <1>10 DEF Unselect, Select, SelectCount, SelectLink, listVars, Hangup, MoveNext,
                 SetDissolveOnInitiatorHangup, JoinSelected, JoinFinish, ConfrnFinish,
                 historyVars, vars
  <1>11. QED
    BY <1>1, <1>2, <1>3, <1>4, <1>5, <1>6, <1>7, <1>8, <1>9, <1>10
       DEF Next, Softkeys, Serializer

(***************************************************************************)
(* The theorems.                                                           *)
(***************************************************************************)

LEMMA InitConfInv == Init => ConfInv
  BY InitTypeOK, InitPhasesFit, InitBridges, InitCounts DEF ConfInv, Bridges

LEMMA NextConfInv == ConfInv /\ [Next]_vars => ConfInv'
  <1> SUFFICES ASSUME ConfInv, [Next]_vars PROVE ConfInv'
    OBVIOUS
  <1>1. TypeOK /\ PhasesFit /\ Bridges /\ OnePhone
    BY DEF ConfInv, Bridges
  <1>2. TypeOK' /\ PhasesFit' /\ Bridges'
    BY <1>1, NextTypeOK, NextPhasesFit, NextBridges
  <1>3. JoinTimes' /\ SelectsFit' /\ RemovesOwed'
    BY <1>1, NextJoinTimes, NextSelectsFit, NextRemovesOwed DEF ConfInv
  <1>4. QED
    BY <1>2, <1>3 DEF ConfInv, Bridges

\* The bridges, the running merge, the lists and the queue fit together at
\* every point of every merge, however many calls, softkeys, hangups and
\* failures there are.
THEOREM ConfInvariant == Spec => []ConfInv
  <1>1. Init => ConfInv
    BY InitConfInv
  <1>2. ConfInv /\ [Next]_vars => ConfInv'
    BY NextConfInv
  <1>3. QED
    BY <1>1, <1>2, PTL DEF Spec

\* Without keep_conference, and while every channel can be moved, no remote
\* party is left in a bridge that no leg of the phone is in.
THEOREM NobodyIsStranded == Spec => []NobodyStranded
  <1>1. ConfInv => NobodyStranded
    BY DEF ConfInv, WithPhone, NobodyStranded
  <1>2. QED
    BY <1>1, ConfInvariant, PTL

\* While every channel can be moved, a leg of the phone that a merge hangs up
\* has nobody in its bridge who would be dropped with it.
THEOREM NobodyIsDropped == Spec => []MergeDropsNobody
  <1>1. ConfInv => MergeDropsNobody
    BY DEF ConfInv, EndingAlone, MergeDropsNobody, HungUpAlone
  <1>2. QED
    BY <1>1, ConfInvariant, PTL

\* However many threads handle a Select at the same time, all of them but one
\* are the most by which the stored selections can exceed the cap.
THEOREM SelectionsAreBounded == Spec => []SelectedBounded
  <1>1. ConfInv => SelectedBounded
    <2> SUFFICES ASSUME ConfInv PROVE SelectedBounded
      OBVIOUS
    <2>1. Len(selected) \in Nat /\ JoinMaxSelected \in Nat
      BY ConferenceConstants DEF ConfInv, TypeOK
    <2>2. QED
      BY <2>1, CountedFacts DEF ConfInv, SelectsFit, SelectedBounded
  <1>2. QED
    BY <1>1, ConfInvariant, PTL

\* No press of Remove removes two participants.
THEOREM RemovesAreRequested == Spec => []RemovesOnRequest
  <1>1. ConfInv => RemovesOnRequest
    <2> SUFFICES ASSUME ConfInv PROVE RemovesOnRequest
      OBVIOUS
    <2>1. Cardinality(RemovesIn(queue)) \in Nat /\ owedRemoves \in Int
      BY RemovesFinite DEF ConfInv, TypeOK
    <2>2. QED
      BY <2>1 DEF ConfInv, RemovesOwed, RemovesOnRequest
  <1>2. QED
    BY <1>1, ConfInvariant, PTL

\* With keep_conference nobody is flagged, so a conference loses one channel
\* at a time.
THEOREM KeptConferencesStay == Spec => KeptConferenceStays
  <1> DEFINE LeavesAlone == keep => Cardinality(Left) <= 1
  <1>1. ConfInv /\ [Next]_vars => [LeavesAlone]_where
    <2> SUFFICES ASSUME ConfInv, [Next]_vars, where' # where, keep
                 PROVE  Cardinality(Left) <= 1
      OBVIOUS
    <2>0. TypeOK /\ PhasesFit /\ Bridges /\ flagged = {}
      BY DEF ConfInv, Bridges, Flagged
    <2>1. ASSUME NEW ch \in Channels,
                 \A x \in Channels \ {ch} : ~IsCallBridge(where[x]) => where'[x] = where[x]
          PROVE  Cardinality(Left) <= 1
      <3>1. Left \subseteq {ch}
        BY <2>1 DEF Left
      <3>2. IsFiniteSet({ch}) /\ Cardinality({ch}) = 1
        BY FS_Singleton
      <3>3. Cardinality(Left) <= Cardinality({ch})
        BY <3>1, <3>2, FS_Subset
      <3>4. QED
        BY <3>2, <3>3
    <2>2. ASSUME NEW ch \in Channels, Hangup(ch)
          PROVE  Cardinality(Left) <= 1
      <3>1. /\ \A x \in Channels : where[x] # where[ch] => where'[x] = where[x]
            /\ ~IsCallBridge(where[ch]) /\ ch \notin flagged =>
                  \A x \in Channels \ {ch} : where'[x] = where[x]
        BY <2>0, <2>2, LeaveFacts DEF Hangup
      <3>2. QED
        BY <2>0, <2>1, <3>1
    <2>3. ASSUME MoveNext
          PROVE  Cardinality(Left) <= 1
      <3>1. /\ Head(moves).chan \in Channels
            /\ where' = [where EXCEPT ![Head(moves).chan] = conf]
        BY <2>0, <2>3, MoveNextCases
      <3>2. QED
        BY <2>0, <2>1, <3>1, BridgeTypes
    <2>4. ASSUME JoinSelected
          PROVE  Cardinality(Left) <= 1
      <3>1. PICK d \in Calls : \E r \in BridgePeer(Phone(d)) : JoinsRemote(d, r)
        BY <2>0, <2>4, JoinSelectedCases DEF callVars
      <3>2. PICK r \in BridgePeer(Phone(d)) : JoinsRemote(d, r)
        BY <3>1
      <3>3. r \in Channels /\ where' = [where EXCEPT ![r] = conf]
        BY <3>2, PeerIsCompany, ChannelCases DEF JoinsRemote, BridgeMove, MoveFails, From
      <3>4. QED
        BY <2>0, <2>1, <3>3, BridgeTypes
    <2>5. ASSUME \/ \E a, b \in Calls : QueueConference(a, b)
                 \/ \E a \in Calls : \/ QueueJoin(a) \/ QueueRmLastConf(a)
                                     \/ ConfList(a) \/ Unselect(a)
                 \/ \E token \in Tokens, index \in 0..(NCalls - 1) :
                       ConfListAction(token, index)
                 \/ \E t \in Threads : \/ \E d \in Calls : Select(t, d)
                                       \/ SelectCount(t) \/ SelectLink(t)
                 \/ ConflistSendTask \/ ConflistActionSendTask \/ RmlastconfSendTask
                 \/ StartMerge \/ SetDissolveOnInitiatorHangup
                 \/ JoinFinish \/ ConfrnFinish
                 \/ UNCHANGED vars
          PROVE  FALSE
      BY <2>5 DEF QueueConference, QueueJoin, QueueRmLastConf, ConfList, ConfListAction,
                  QueueOrFail, Unselect, Select, SelectCount, SelectLink, listVars,
                  ConflistSendTask, ConflistActionSendTask, RmlastconfSendTask,
                  StartMerge, SetDissolveOnInitiatorHangup, JoinFinish, ConfrnFinish,
                  callVars, vars
    <2>6. QED
      BY <2>2, <2>3, <2>4, <2>5 DEF Next, Softkeys, Serializer
  <1>2. QED
    BY <1>1, ConfInvariant, PTL DEF Spec, KeptConferenceStays

\* RmLastConf kicks the tracked channel with the latest time, and the times
\* tell the order of the moves, of repeated ones too.
THEOREM RmLastConfTakesLast == Spec => RmLastConfIsLast
  <1> DEFINE KicksLast ==
          Taken("rmlast") =>
              \A victim \in ending' \ ending, d \in Calls :
                  where[Remote(d)] = where[victim] =>
                      entered[Remote(d)] <= entered[victim]
  <1>1. ConfInv /\ [Next]_vars => [KicksLast]_vars
    <2> SUFFICES ASSUME ConfInv, [Next]_vars, Taken("rmlast"),
                        NEW victim \in ending' \ ending, NEW d \in Calls,
                        where[Remote(d)] = where[victim]
                 PROVE  entered[Remote(d)] <= entered[victim]
      OBVIOUS
    <2>0. TypeOK /\ PhasesFit /\ Bridges /\ JoinTimes
      BY DEF ConfInv, Bridges
    <2>1. queue' # queue
      <3>1. queue \in Seq(Task) /\ queue # <<>> /\ queue' = Tail(queue)
        BY <2>0 DEF Taken, TypeOK
      <3>2. Len(Tail(queue)) = Len(queue) - 1 /\ Len(queue) \in Nat
        BY <3>1, HeadTailProperties
      <3>3. Tail(queue) # queue
        <4>1. ASSUME Tail(queue) = queue PROVE FALSE
          <5>1. Len(queue) = Len(queue) - 1
            BY <3>2, <4>1
          <5>2. QED
            BY <3>2, <5>1
        <4>2. QED
          BY <4>1
      <3>4. QED
        BY <3>1, <3>3
    <2>2. CASE RmlastconfSendTask
      <3> DEFINE c == Head(queue).dialog
      <3>1. InBridge(Phone(c)) /\ victim \in LastJoined(Phone(c))
        BY <2>2 DEF RmlastconfSendTask, Kick
      <3>2. c \in Calls
        <4>1. queue # <<>>
          BY <2>2 DEF RmlastconfSendTask, Take
        <4>2. QED
          BY <2>0, <4>1, QueueTail DEF TypeOK, PhasesFit, Task
      <3> HIDE DEF c
      <3>3. /\ victim \in Members(where[Phone(c)]) \ {Phone(c)}
            /\ \A q \in Members(where[Phone(c)]) \ {Phone(c)} :
                  joinTime[q] > 0 => joinTime[q] <= joinTime[victim]
        BY <3>1 DEF LastJoined
      <3>4. victim \in Remotes /\ victim \in Channels
        BY <2>0, <3>1, <3>2, <3>3, OthersAreRemotes DEF Bridges, Members
      <3>5. entered[victim] = joinTime[victim] /\ entered[Remote(d)] = joinTime[Remote(d)]
        BY <2>0, <3>4 DEF JoinTimes, Remotes
      <3>6. /\ Remote(d) \in Members(where[Phone(c)]) \ {Phone(c)}
            /\ joinTime[Remote(d)] \in Nat /\ joinTime[victim] \in Nat
        BY <2>0, <3>2, <3>3, <3>4, BridgeTypes DEF Members, TypeOK
      <3>7. QED
        BY <3>3, <3>5, <3>6
    <2>3. ASSUME NEW ch \in Channels, Hangup(ch)
          PROVE  FALSE
      BY <2>0, <2>3, LeaveFacts DEF Hangup
    <2>4. ASSUME ConflistActionSendTask
          PROVE  FALSE
      BY <2>4 DEF ConflistActionSendTask, Take, Taken
    <2>5. ASSUME JoinSelected \/ ConfrnFinish
          PROVE  FALSE
      BY <2>1, <2>5 DEF JoinSelected, ConfrnFinish
    <2>6. ASSUME \/ \E a, b \in Calls : QueueConference(a, b)
                 \/ \E a \in Calls : \/ QueueJoin(a) \/ QueueRmLastConf(a)
                                     \/ ConfList(a) \/ Unselect(a)
                 \/ \E token \in Tokens, index \in 0..(NCalls - 1) :
                       ConfListAction(token, index)
                 \/ \E t \in Threads : \/ \E e \in Calls : Select(t, e)
                                       \/ SelectCount(t) \/ SelectLink(t)
                 \/ ConflistSendTask \/ StartMerge \/ MoveNext
                 \/ SetDissolveOnInitiatorHangup \/ JoinFinish
                 \/ UNCHANGED vars
          PROVE  FALSE
      BY <2>6 DEF QueueConference, QueueJoin, QueueRmLastConf, ConfList, ConfListAction,
                  QueueOrFail, Unselect, Select, SelectCount, SelectLink, listVars,
                  ConflistSendTask, StartMerge, MoveNext, SetDissolveOnInitiatorHangup,
                  JoinFinish, callVars, vars
    <2>7. QED
      BY <2>2, <2>3, <2>4, <2>5, <2>6 DEF Next, Softkeys, Serializer
  <1>2. QED
    BY <1>1, ConfInvariant, PTL DEF Spec, RmLastConfIsLast

=============================================================================
