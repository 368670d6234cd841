---------------------------- MODULE RegisterGate ----------------------------
(***************************************************************************)
(* The gate the three REGISTER supplements share (cisco_endpoint/register.c):
   an in-memory cache holds, per endpoint, the canonical Contact set of the
   last REGISTER the supplement acted on.  The modules that use the gate
   keep one cache each; here are only the decisions taken on it.

   A response is abstracted to its status code and the Contacts it lists
   with expires > 0.  The canonical string is the concatenation of those
   URIs, so it is a value of the listed set (the registrar lists the bindings
   of one AOR in one container order).  remember_str() refuses an empty
   string, so the empty set stands for "no entry in the cache".            *)
(***************************************************************************)

\* The Contact URIs a phone may register.
CONSTANT Contacts

NoEntry == {}

\* A REGISTER answer on its way out.  401 stands for every non-200 answer.
Response == [code : {200, 401}, listed : SUBSET Contacts]

Ok(listed) == [code |-> 200, listed |-> listed]
Unauthorized == [code |-> 401, listed |-> {}]

\* cisco_response_registers_contact(): 0 for a deregistration.
RegistersContact(r) == r.listed # {}

\* cisco_response_contacts_canonical()
Canonical(r) == r.listed

\* cisco_register_address_changed(): compare with what was last remembered.
AddressChanged(r, cached) == Canonical(r) = NoEntry \/ Canonical(r) # cached

\* Mutant: the status code is not looked at.
ShouldFireAnyCode(r, cached) ==
    IF ~RegistersContact(r) THEN "forget"
    ELSE IF ~AddressChanged(r, cached) THEN "skip"
    ELSE "fire"

\* cisco_register_should_fire() for an endpoint with a cisco section: what
\* the supplement does with the answer, given its cache entry.
ShouldFire(r, cached) ==
    IF r.code # 200 THEN "ignore"
    ELSE IF ~RegistersContact(r) THEN "forget"
    ELSE IF ~AddressChanged(r, cached) THEN "skip"
    ELSE "fire"

=============================================================================
