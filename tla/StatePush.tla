------------------------------ MODULE StatePush ------------------------------
(***************************************************************************)
(* What a REGISTER supplement promises, with no cache, queue, task or dedup:
   a phone that registers is sent the state of every item, from then on it
   is sent changes, and what it shows only ever moves forward through the
   states the item has had.  UnsolicitedBlf (items are extensions) and
   Bulkupdate (the item is call forwarding) implement it: see BlfPush and
   BulkPush.                                                               *)
(***************************************************************************)
EXTENDS Integers, Sequences

CONSTANTS Phones, Items, Values

VARIABLES
    present,    \* the phones that are registered
    log,        \* log[i]: the states i has had, the last one its state now
    shown,      \* shown[p][i]: the state p shows for i, {} before the first
    upto        \* upto[p][i]: where in log[i] that is, 0 before the first

vars == <<present, log, shown, upto>>

Nothing == [i \in Items |-> {}]
Nowhere == [i \in Items |-> 0]

Init ==
    /\ present = {}
    /\ log \in [Items -> {<<v>> : v \in Values}]
    /\ shown = [p \in Phones |-> Nothing]
    /\ upto = [p \in Phones |-> Nowhere]

\* Phones come and go; a session starts with nothing shown.
Sessions(S) ==
    /\ present' = S
    /\ shown' = [p \in Phones |-> IF p \in S THEN shown[p] ELSE Nothing]
    /\ upto' = [p \in Phones |-> IF p \in S THEN upto[p] ELSE Nowhere]
    /\ UNCHANGED log

Change(i, v) ==
    /\ log' = [log EXCEPT ![i] = Append(@, v)]
    /\ UNCHANGED <<present, shown, upto>>

\* A phone is told a state that is not older than the one it shows.
Push(p, i) ==
    /\ p \in present
    /\ \E n \in 1..Len(log[i]) :
          /\ n >= upto[p][i]
          /\ upto' = [upto EXCEPT ![p][i] = n]
          /\ shown' = [shown EXCEPT ![p][i] = {log[i][n]}]
    /\ UNCHANGED <<present, log>>

Next ==
    \/ \E S \in SUBSET Phones : Sessions(S)
    \/ \E i \in Items, v \in Values : Change(i, v)
    \/ \E p \in Phones, i \in Items : Push(p, i)

\* A phone that stays is eventually told about every item.
EveryoneIsTold ==
    \A p \in Phones :
        p \in present ~> (p \notin present \/ \A i \in Items : upto[p][i] > 0)

\* What a phone shows only moves forward.
SafeSpec == Init /\ [][Next]_vars

Spec == SafeSpec /\ EveryoneIsTold

=============================================================================
