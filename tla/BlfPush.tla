------------------------------ MODULE BlfPush ------------------------------
(***************************************************************************)
(* UnsolicitedBlf implements StatePush: its lamps are what a phone shows,
   its extensions the items.  History variables record the states an
   extension has had and how far each phone, and the sample that the
   serializer has in hand, have come in them.                              *)
(***************************************************************************)
EXTENDS UnsolicitedBlf

VARIABLES
    log,        \* log[x]: the lamps x has had
    stamp,      \* the place of the sample in hand in the log of its extension
    upto        \* upto[c][x]: the place of what c was last sent for x

pushVars == <<vars, log, stamp, upto>>

Push == INSTANCE StatePush WITH
    Phones <- Contacts,
    Items <- Extens,
    Values <- Lamps,
    present <- contacts,
    shown <- [c \in Contacts |-> [x \in Extens |-> sent[<<c, x>>]]]

PushInit ==
    /\ Init
    /\ log = [x \in Extens |-> <<BlfQueryState(x)>>]
    /\ stamp = 0
    /\ upto = [c \in Contacts |-> [x \in Extens |-> 0]]

\* The two places where a hint is read.
ReadHint ==
    \/ /\ StartChange
       /\ stamp' = IF phase' = "read"
                   THEN CHOOSE n \in {Len(log[x]) : x \in task'.extension} : TRUE
                   ELSE stamp
    \/ /\ FanoutQuery
       /\ stamp' = CHOOSE n \in {Len(log[p[2]]) : p \in at'} : TRUE

\* The two places where a NOTIFY is sent.
Delivered(p) ==
    IF Reachable(p[1]) /\ budget' = budget
    THEN upto' = [upto EXCEPT ![p[1]][p[2]] = stamp]
    ELSE UNCHANGED upto

SendNotify ==
    \/ FanoutSend /\ \E p \in at : Delivered(p)
    \/ ChangeSend /\ \E p \in todo \ todo' : Delivered(p)

ChangeHint(x) ==
    /\ \E h \in Hints : HintChange(x, h)
    /\ log' = [log EXCEPT ![x] = Append(@, ActivityBits(hint'[x]))]

RegisterTraffic ==
    /\ Registrar
    /\ upto' = [c \in Contacts |->
                   IF c \in contacts' THEN upto[c] ELSE [x \in Extens |-> 0]]

Otherwise ==
    \/ \E t \in Threads : UnsolicitedOutgoingResponse(t)
    \/ \E x \in Extens : ExtStateCb(x)
    \/ StartFanout \/ RetrieveContacts
    \/ FanoutDone \/ RememberLink \/ ChangeDone

PushNext ==
    \/ ReadHint /\ UNCHANGED <<log, upto>>
    \/ SendNotify /\ UNCHANGED <<log, stamp>>
    \/ (\E x \in Extens : ChangeHint(x)) /\ UNCHANGED <<stamp, upto>>
    \/ RegisterTraffic /\ UNCHANGED <<log, stamp>>
    \/ Otherwise /\ UNCHANGED <<log, stamp, upto>>

PushSpec == PushInit /\ [][PushNext]_pushVars /\ Fairness

-----------------------------------------------------------------------------
(* The inductive invariant behind the refinement.                           *)

PushTypeOK ==
    /\ log \in [Extens -> Seq(Lamps)]
    /\ stamp \in Nat
    /\ upto \in [Contacts -> [Extens -> Nat]]

\* A log ends in the present state, and no phone is ahead of it.
LogEndsNow ==
    \A x \in Extens :
        /\ log[x] # <<>>
        /\ log[x][Len(log[x])] = BlfQueryState(x)
        /\ \A c \in Contacts : upto[c][x] <= Len(log[x])

\* The serializer has a snapshot of x in hand.
InHand(x) == TaskOn(x) \/ \E p \in at : p[2] = x

\* That snapshot is an entry of the log that no phone has got past: nobody
\* but the serializer sends, and it has sent nothing for x since it read it.
NobodyIsAhead ==
    \A x \in Extens : InHand(x) =>
        /\ stamp \in 1..Len(log[x])
        /\ sample = {log[x][stamp]}
        /\ \A c \in Contacts : upto[c][x] <= stamp

PushInv == LampInv /\ PushTypeOK /\ LogEndsNow /\ NobodyIsAhead

-----------------------------------------------------------------------------
(* Properties.                                                              *)

\* The lamp of a phone goes through the states of its extension and never
\* back to an older one, whatever fanouts, changes, failures and sessions
\* overlap, and it starts dark in a session.  Reading the hint on the
\* serializer, and never in the callback, is what this rests on.
LampsFollowHints == Push!SafeSpec

\* It does not stay dark: a phone that stays registered is eventually sent
\* the state of every extension, whatever pushes and sends fail.
EveryLampIsSent == Push!EveryoneIsTold

=============================================================================
