-------------------------- MODULE Registrar_proofs --------------------------
(***************************************************************************)
(* Type correctness of the registrar's half of the state, for the modules
   that compose with it.                                                   *)
(***************************************************************************)
EXTENDS Registrar, TLAPS

\* Every 200 that lists a set of Contacts, and the 401, is a Response.
LEMMA ResponseTypes ==
    /\ \A S \in SUBSET Contacts : Ok(S) \in Response
    /\ Unauthorized \in Response
BY DEF Ok, Response, Unauthorized

\* Answering keeps each thread's answer well-formed.
LEMMA AnswerType ==
    ASSUME RegistrarTypeOK, NEW t \in Threads, NEW r \in Response, Answer(t, r)
    PROVE  resp' \in [Threads -> Optional(Response)]
BY DEF Answer, RegistrarTypeOK, Optional

\* The registrar and the hooks keep contacts and answers well-formed.
LEMMA RegistrarStepType ==
    ASSUME RegistrarTypeOK, RegistrarStep
    PROVE  RegistrarTypeOK'
<1>1. ASSUME NEW t \in Threads, NEW c \in Contacts, AddContact(t, c)
      PROVE  RegistrarTypeOK'
  <2>1. BoundAfter(c) \in SUBSET Contacts
    BY DEF BoundAfter, RegistrarTypeOK
  <2>2. resp' \in [Threads -> Optional(Response)]
    BY <1>1, <2>1, AnswerType, ResponseTypes DEF AddContact
  <2> QED
    BY <1>1, <2>1, <2>2 DEF AddContact, RegistrarTypeOK
<1>2. ASSUME NEW t \in Threads, NEW c \in Contacts,
             RefreshContact(t, c) \/ RemoveContact(t, c)
      PROVE  RegistrarTypeOK'
  <2>1. contacts \in SUBSET Contacts /\ contacts \ {c} \in SUBSET Contacts
    BY DEF RegistrarTypeOK
  <2>2. resp' \in [Threads -> Optional(Response)]
    BY <1>2, <2>1, AnswerType, ResponseTypes DEF RefreshContact, RemoveContact
  <2> QED
    BY <1>2, <2>1, <2>2 DEF RefreshContact, RemoveContact, RegistrarTypeOK
<1>3. ASSUME NEW t \in Threads, ChallengeRegister(t) \/ KeepaliveOnRxRequest(t)
      PROVE  RegistrarTypeOK'
  <2>1. {} \in SUBSET Contacts
    OBVIOUS
  <2>2. resp' \in [Threads -> Optional(Response)]
    BY <1>3, <2>1, AnswerType, ResponseTypes
       DEF ChallengeRegister, KeepaliveOnRxRequest
  <2> QED
    BY <1>3, <2>2 DEF ChallengeRegister, KeepaliveOnRxRequest, RegistrarTypeOK
<1>4. ASSUME NEW t \in Threads, Answered(t), UNCHANGED contacts
      PROVE  RegistrarTypeOK'
  BY <1>4 DEF Answered, RegistrarTypeOK, Optional
<1>5. ASSUME NEW c \in Contacts, ExpireContact(c)
      PROVE  RegistrarTypeOK'
  BY <1>5 DEF ExpireContact, RegistrarTypeOK
<1> QED
  BY <1>1, <1>2, <1>3, <1>4, <1>5 DEF RegistrarStep

=============================================================================
