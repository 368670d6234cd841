------------------------------ MODULE BlfPidf -------------------------------
(***************************************************************************)
(* What a BLF lamp shows for a hint (cisco_unsolicited_blf/pidf.c).        *)
(***************************************************************************)

\* AST_EXTENSION_* flags: NOT_INUSE is no flag at all.
ExtenFlags == {"INUSE", "BUSY", "UNAVAILABLE", "RINGING", "ONHOLD"}

\* A hint: device state flags, and the presence channel DND lives in.
HintState == [exten : SUBSET ExtenFlags, presence : {"dnd", "other"}]

\* What blf_query_state() makes of an extension without a hint.
NoHint == [exten |-> {"UNAVAILABLE"}, presence |-> "other"]

Engaged(h) == h.exten \cap {"INUSE", "ONHOLD", "BUSY"} # {}

\* cisco_blf_activity_bits(): the wire-relevant part of a hint state.
ActivityBits(h) ==
    {bit \in {"on_the_phone", "alerting", "busy", "dnd", "open"} :
        \/ bit = "on_the_phone" /\ Engaged(h)
        \/ /\ bit = "alerting"
           /\ ~Engaged(h) /\ h.presence # "dnd" /\ "RINGING" \in h.exten
        \/ bit = "busy" /\ "BUSY" \in h.exten
        \/ bit = "dnd" /\ h.presence = "dnd"
        \/ bit = "open" /\ h.exten # {"UNAVAILABLE"}}

=============================================================================
