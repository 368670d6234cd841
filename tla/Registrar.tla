----------------------------- MODULE Registrar -----------------------------
(***************************************************************************)
(* What the REGISTER supplements of the other modules see of res_pjsip: the
   Contacts bound to the endpoint's AOR, and the answers to REGISTERs that
   are on their way through the supplements' hooks, one for each servant
   thread.  The registrar is not part of this repository: the actions below
   are conjoined with what each module does besides.                       *)
(***************************************************************************)
EXTENDS Integers, FiniteSets, RegisterGate

CONSTANTS
    Threads,      \* servant threads answering REGISTERs
    MaxContacts   \* max_contacts of the AOR (remove_existing = yes)

ASSUME RegistrarConstants == MaxContacts \in Nat \ {0}

VARIABLES
    contacts,     \* the Contacts bound to the AOR
    resp          \* resp[t]: the answer thread t is about to send, or {}

\* An optional value is a set of at most one element.
Optional(S) == {{}} \cup {{s} : s \in S}

RegistrarTypeOK ==
    /\ contacts \subseteq Contacts
    /\ resp \in [Threads -> Optional(Response)]

NoAnswers == [t \in Threads |-> {}]

Answer(t, r) ==
    /\ resp[t] = {}
    /\ resp' = [resp EXCEPT ![t] = {r}]

Answered(t) == resp' = [resp EXCEPT ![t] = {}]

\* A new Contact replaces the others when the AOR is full.
BoundAfter(c) ==
    IF Cardinality(contacts \cup {c}) <= MaxContacts THEN contacts \cup {c}
                                                     ELSE {c}

AddContact(t, c) ==
    /\ c \notin contacts
    /\ contacts' = BoundAfter(c)
    /\ Answer(t, Ok(BoundAfter(c)))

\* The ~60s refresh of a Contact that is bound.
RefreshContact(t, c) ==
    /\ c \in contacts
    /\ Answer(t, Ok(contacts))
    /\ UNCHANGED contacts

RemoveContact(t, c) ==
    /\ c \in contacts
    /\ contacts' = contacts \ {c}
    /\ Answer(t, Ok(contacts \ {c}))

\* A Contact whose lifetime ran out is removed without any REGISTER.
ExpireContact(c) ==
    /\ c \in contacts
    /\ contacts' = contacts \ {c}
    /\ UNCHANGED resp

\* A REGISTER without credentials is answered 401.
ChallengeRegister(t) ==
    /\ Answer(t, Unauthorized)
    /\ UNCHANGED contacts

\* cisco_keepalive_on_rx_request(): a heartbeat REGISTER is answered before
\* the registrar sees it, by a bare 200 without Contacts; like every answer
\* it goes through the REGISTER supplements.
KeepaliveOnRxRequest(t) ==
    /\ contacts # {}
    /\ Answer(t, Ok({}))
    /\ UNCHANGED contacts

RegistrarStep ==
    \/ \E t \in Threads, c \in Contacts :
          AddContact(t, c) \/ RefreshContact(t, c) \/ RemoveContact(t, c)
    \/ \E t \in Threads :
          ChallengeRegister(t) \/ KeepaliveOnRxRequest(t)
          \/ (Answered(t) /\ UNCHANGED contacts)
    \/ \E c \in Contacts : ExpireContact(c)

=============================================================================
