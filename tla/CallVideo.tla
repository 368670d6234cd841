------------------------------ MODULE CallVideo ------------------------------
(***************************************************************************)
(* Video of one call: the hints and the suppression of res_pjsip_cisco_call_
   extras (cisco_call_extras/video.c and its session supplements).

   Every SDP a leg sends in an INVITE or UPDATE is noted on its channel.  When
   the server sends a Cisco leg SDP with H.264 video, in an INVITE or in an
   answer to one, the supplement looks at what the other legs said last and
   either refuses the video, with port 0, or mirrors a peer's imageattr.  It
   looks at one channel after the other, each under its own lock, on the
   serializer of the leg that is sent to; the other legs go on talking
   meanwhile, ring, hang up, and are bridged.

   chan_pjsip, app_dial and the bridges are not in this repository: what they
   do with the call is kept as free as the comments here leave it.           *)
(***************************************************************************)
EXTENDS Integers, FiniteSets

CONSTANTS
    Caller,      \* the leg that calls
    Callees,     \* the legs it may dial, also into a bridge that is up
    Helpers,     \* channels without SDP: halves of Local channels and the like
    Cisco,       \* the legs with an endpoint of type=cisco
    Budgets      \* how often each thing may happen, by scenario

Sip == {Caller} \cup Callees
Legs == Sip \cup Helpers
NoLeg == "none"

\* dial: a leg is dialled; helper: a helper shows up; early: the caller is
\* answered, or sent early media, before a callee answered; ring: a callee
\* rings with SDP; reinvite: a phone offers anew; refresh: the server does;
\* hangup: a callee leaves.
Events == {"dial", "helper", "early", "ring", "reinvite", "refresh", "hangup"}

ASSUME CallVideoConstants ==
    /\ Caller \notin Callees
    /\ Sip \cap Helpers = {}
    /\ {NoLeg, "default"} \cap Legs = {}
    /\ Cisco \subseteq Sip
    /\ \A b \in Budgets : b \in [Events -> Nat]

VARIABLES
    legs,       \* the call's channels: they share its linkedid
    gone,       \* those that hung up: a leg is one channel, and comes once
    bridge,     \* the legs that are bridged
    line,       \* the leg's dialog has video the phone did not reject
    up,         \* legs that are answered
    winner,     \* the callee app_dial took
    stash,      \* cisco_h264_imageattr_state, by leg
    owed,       \* the message with video the server is about to send, by leg
    walk,       \* the message that is being patched, by leg
    awaited,    \* an offer to this leg is not answered yet
    pane,       \* what the phone was told of its video
    hint,       \* whose imageattr it was told
    \* --- history ---
    shows,      \* what the phone's last SDP said of video
    asked,      \* legs the last patch had to consider, which have not talked since
    moved,      \* a leg talked or came since that patch began
    plain,      \* one callee, one answer: nothing else happened
    budget

callVars == <<legs, gone, bridge, up, winner>>
sendVars == <<owed, walk, awaited, pane, hint, asked>>
vars == <<callVars, line, stash, shows, sendVars, moved, plain, budget>>

\* m=video of a phone's SDP.  line: its port is not 0; live: nor is it
\* inactive; attr: an imageattr on one of its H.264 formats.
Sdp == {s \in [line : BOOLEAN, live : BOOLEAN, attr : BOOLEAN] :
           s.live \/ s.attr => s.line}

State == [observed : BOOLEAN, had_video : BOOLEAN, value : BOOLEAN]
NoState == [observed |-> FALSE, had_video |-> FALSE, value |-> FALSE]

Message == [method : {"INVITE", "UPDATE"}, offer : BOOLEAN]

Walk == [msg : Message, fast : BOOLEAN, due : SUBSET Legs,
         seen : SUBSET [leg : Legs, state : State]]

TypeOK ==
    /\ legs \subseteq Legs /\ gone \subseteq Legs
    /\ bridge \subseteq legs \cap Sip
    /\ line \in [Sip -> BOOLEAN]
    /\ up \subseteq Sip
    /\ winner \in Callees \cup {NoLeg}
    /\ stash \in [Legs -> State]
    /\ owed \in [Sip -> SUBSET Message]
    /\ walk \in [Sip -> SUBSET Walk]
    /\ \A l \in Sip : /\ \A m, n \in owed[l] : m = n
                      /\ \A w, x \in walk[l] : w = x
    /\ awaited \in [Sip -> BOOLEAN]
    /\ pane \in [Sip -> {"dark", "open", "refused"}]
    /\ hint \in [Sip -> Sip \cup {"default", NoLeg}]
    /\ shows \in [Sip -> {"nothing", "video", "voice"}]
    /\ asked \in [Sip -> SUBSET Legs]
    /\ moved \in [Sip -> BOOLEAN]
    /\ plain \in BOOLEAN

Init ==
    /\ legs = {} /\ gone = {}
    /\ bridge = {}
    /\ line = [l \in Sip |-> FALSE]
    /\ up = {}
    /\ winner = NoLeg
    /\ stash = [l \in Legs |-> NoState]
    /\ owed = [l \in Sip |-> {}]
    /\ walk = [l \in Sip |-> {}]
    /\ awaited = [l \in Sip |-> FALSE]
    /\ pane = [l \in Sip |-> "dark"]
    /\ hint = [l \in Sip |-> NoLeg]
    /\ shows = [l \in Sip |-> "nothing"]
    /\ asked = [l \in Sip |-> {}]
    /\ moved = [l \in Sip |-> TRUE]
    /\ plain = TRUE
    /\ budget \in Budgets

Spend(e) == budget[e] > 0 /\ budget' = [budget EXCEPT ![e] = @ - 1]
Odd(e) == Spend(e) /\ plain' = FALSE

\* A leg's serializer does one thing at a time.
Idle(l) == owed[l] = {} /\ walk[l] = {}

Owe(l, method, offer) ==
    owed' = [owed EXCEPT ![l] = {[method |-> method, offer |-> offer]}]

Others(l) == Sip \ {l}

-----------------------------------------------------------------------------
(* What a leg says: cisco_call_video_capture_incoming().                    *)

\* had_video is the last SDP's, an imageattr is kept until there is another.
StateAfter(old, s) ==
    [observed |-> TRUE, had_video |-> s.live, value |-> old.value \/ s.attr]

\* History: the phone has talked.
Talks(l, s) ==
    /\ shows' = [shows EXCEPT ![l] = IF s.live THEN "video" ELSE "voice"]
    /\ asked' = [m \in Sip |-> asked[m] \ {l}]
    /\ moved' = [m \in Sip |-> moved[m] \/ m # l]

\* Mutant: the supplement runs before the channel is there.
CaptureTooEarly(l, sdp) ==
    IF sdp = {} THEN UNCHANGED <<stash, shows, asked, moved>>
    ELSE \E s \in sdp :
             /\ IF l = Caller THEN UNCHANGED stash
                ELSE stash' = [stash EXCEPT ![l] = StateAfter(@, s)]
             /\ Talks(l, s)

\* A message without SDP, where sdp is empty, changes nothing.
Capture(l, sdp) ==
    IF sdp = {} THEN UNCHANGED <<stash, shows, asked, moved>>
    ELSE \E s \in sdp :
             /\ stash' = [stash EXCEPT ![l] = StateAfter(@, s)]
             /\ Talks(l, s)

MaybeSdp == {{}} \cup {{s} : s \in Sdp}

\* The call comes in, maybe with its offer still to come.
IncomingInvite(sdp) ==
    /\ legs = {}
    /\ legs' = {Caller}
    /\ line' = [line EXCEPT ![Caller] = \A s \in sdp : s.line]
    /\ Capture(Caller, sdp)
    /\ UNCHANGED <<gone, bridge, up, winner, owed, walk, awaited, pane, hint, plain, budget>>

\* A phone that is up offers anew: hold, resume, add or drop video.
Reinvite(l, s, method) ==
    /\ l \in up \cap legs
    /\ Idle(l) /\ ~awaited[l]
    /\ Odd("reinvite")
    /\ Capture(l, {s})
    /\ line' = [line EXCEPT ![l] = s.line]
    /\ IF s.line THEN Owe(l, method, FALSE) /\ UNCHANGED <<pane, hint>>
       ELSE /\ pane' = [pane EXCEPT ![l] = "dark"]
            /\ hint' = [hint EXCEPT ![l] = NoLeg]
            /\ UNCHANGED owed
    /\ UNCHANGED <<callVars, walk, awaited>>

\* A phone answers the server's offer: it rings, or picks up, or agrees.  No
\* video can come back that was refused.
Respond(l, sdp, final) ==
    /\ l \in legs
    /\ awaited[l] /\ Idle(l)
    /\ final \/ l \notin up
    /\ sdp # {} \/ (final /\ l \notin up /\ stash[l].observed)
    /\ pane[l] = "refused" => \A s \in sdp : ~s.line
    /\ IF final THEN UNCHANGED <<plain, budget>> ELSE Odd("ring")
    /\ Capture(l, sdp)
    /\ awaited' = [awaited EXCEPT ![l] = ~final]
    /\ up' = IF final THEN up \cup {l} ELSE up
    /\ line' = [line EXCEPT ![l] = @ /\ \A s \in sdp : s.line]
    /\ UNCHANGED <<legs, gone, bridge, winner, owed, walk, pane, hint>>

-----------------------------------------------------------------------------
(* What a leg is told: handle_session_outgoing() and cisco_call_video_patch_
   sdp(), for messages with H.264 video in them.                            *)

\* ast_channel_bridge_peer(): of a bridge of two.
BridgePeer(l) == IF l \in bridge /\ Cardinality(bridge) = 2 THEN bridge \ {l} ELSE {}

\* Mutant: the leg itself is asked too.
CandidatesAndSelf(l) == IF BridgePeer(l) # {} THEN BridgePeer(l) ELSE legs

\* with_peer_state(): the bridge peer, or else every channel of the call.
Candidates(l) == IF BridgePeer(l) # {} THEN BridgePeer(l) ELSE legs \ {l}

Sent(l, msg, p, h) ==
    /\ awaited' = [awaited EXCEPT ![l] = msg.offer]
    /\ pane' = [pane EXCEPT ![l] = p]
    /\ hint' = [hint EXCEPT ![l] = h]

\* Only Cisco legs are patched, and of them only what has an INVITE's CSeq.
Patched(l, msg) == l \in Cisco /\ msg.method = "INVITE"

SendUnpatched(l) ==
    \E msg \in owed[l] :
        /\ ~Patched(l, msg)
        /\ owed' = [owed EXCEPT ![l] = {}]
        /\ Sent(l, msg, "open", NoLeg)
        /\ asked' = [asked EXCEPT ![l] = {}]
        /\ moved' = [moved EXCEPT ![l] = TRUE]
        /\ UNCHANGED <<callVars, line, stash, shows, walk, plain, budget>>

StartPatch(l) ==
    \E msg \in owed[l] :
        /\ Patched(l, msg)
        /\ owed' = [owed EXCEPT ![l] = {}]
        /\ walk' = [walk EXCEPT ![l] =
               {[msg |-> msg, fast |-> BridgePeer(l) # {}, due |-> Candidates(l),
                 seen |-> {}]}]
        /\ asked' = [asked EXCEPT ![l] = Candidates(l)]
        /\ moved' = [moved EXCEPT ![l] = FALSE]
        /\ UNCHANGED <<callVars, line, stash, shows, awaited, pane, hint, plain, budget>>

Seen(w) == {v.leg : v \in w.seen}

\* One candidate, under its lock.  A channel that came meanwhile may be met
\* or not; the bridge peer is looked at whatever becomes of it.
PeerHadVideoCb(l, c) ==
    \E w \in walk[l] :
        /\ c \in (IF w.fast THEN w.due ELSE legs) \ (Seen(w) \cup {l})
        /\ walk' = [walk EXCEPT ![l] =
               {[w EXCEPT !.seen = @ \cup {[leg |-> c, state |-> stash[c]]}]}]
        /\ UNCHANGED <<callVars, line, stash, shows, owed, awaited, pane, hint, asked,
                       moved, plain, budget>>

\* Mutant: one voice-only leg is enough.
RefusedByOne(w) ==
    LET sip == {v \in w.seen : v.leg \in Sip}
    IN  sip = {} \/ \E v \in sip : v.state.observed /\ ~v.state.had_video
\* Mutant: no sibling means that nothing is known, as it once did.
NotRefusedAlone(w) ==
    LET sip == {v \in w.seen : v.leg \in Sip}
    IN  /\ \E v \in sip : v.state.observed
        /\ \A v \in sip : ~v.state.had_video

\* cisco_h264_peer_had_video() is 0: no SIP leg at all, or some have been
\* heard and none of them had video.
PeerHadNoVideo(w) ==
    LET sip == {v \in w.seen : v.leg \in Sip}
    IN  /\ sip = {} \/ \E v \in sip : v.state.observed
        /\ \A v \in sip : ~v.state.had_video

\* Mutant: the first channel is asked, a helper or not.
HintOfTheFirst(l) ==
    {IF stash[c].value THEN c ELSE "default" : c \in Candidates(l)}

\* cisco_h264_peer_imageattr(): anybody's who has one.  A channel keeps what it
\* has, so the second walk may be taken in one step.
PeerImageattr(l) ==
    LET having == {c \in Candidates(l) : stash[c].value}
    IN  IF having = {} THEN {"default"} ELSE having

PatchVideoMedia(l) ==
    \E w \in walk[l] :
        /\ (IF w.fast THEN w.due ELSE w.due \cap legs) \subseteq Seen(w)
        /\ walk' = [walk EXCEPT ![l] = {}]
        /\ IF PeerHadNoVideo(w) THEN Sent(l, w.msg, "refused", NoLeg)
           ELSE \E h \in PeerImageattr(l) : Sent(l, w.msg, "open", h)
        /\ asked' = [asked EXCEPT ![l] = @ \ (legs \ Candidates(l))]
        /\ UNCHANGED <<callVars, line, stash, shows, owed, moved, plain, budget>>

-----------------------------------------------------------------------------
(* What the server does with the call.                                      *)

\* History: who is to be asked has changed under every patch.
Everywhere == moved' = [m \in Sip |-> TRUE]

Dial(c) ==
    /\ legs # {} /\ Caller \in legs
    /\ c \in Callees \ (legs \cup gone)
    /\ Spend("dial")
    /\ plain' = (plain /\ legs \cap Callees = {} /\ winner = NoLeg)
    /\ legs' = legs \cup {c}
    /\ Everywhere
    /\ line' = [line EXCEPT ![c] = TRUE]
    /\ Owe(c, "INVITE", TRUE)
    /\ UNCHANGED <<gone, bridge, up, winner, stash, shows, walk, awaited, pane, hint,
                   asked>>

AddHelper(h) ==
    /\ legs # {}
    /\ h \in Helpers \ (legs \cup gone)
    /\ Spend("helper")
    /\ legs' = legs \cup {h}
    /\ UNCHANGED <<gone, bridge, line, up, winner, stash, shows, sendVars, moved,
                   plain>>

\* Video in the answer if the caller had it, or has yet to offer.
AnswerCaller(final) ==
    /\ IF line[Caller] THEN Owe(Caller, "INVITE", FALSE) ELSE UNCHANGED owed
    /\ up' = IF final THEN up \cup {Caller} ELSE up

\* Progress, or the dialplan's Answer().
AnswerEarly(final) ==
    /\ Caller \in legs \ up /\ winner = NoLeg /\ Idle(Caller)
    /\ Odd("early")
    /\ AnswerCaller(final)
    /\ UNCHANGED <<legs, gone, bridge, winner, line, stash, shows, walk, awaited, pane,
                   hint, asked, moved>>

\* app_dial takes a callee and answers the caller, before they are bridged.
Pickup(c) ==
    /\ winner = NoLeg
    /\ c \in up \cap legs \cap Callees
    /\ Caller \in legs /\ Idle(Caller)
    /\ winner' = c
    /\ IF Caller \in up THEN UNCHANGED <<up, owed>> ELSE AnswerCaller(TRUE)
    /\ UNCHANGED <<legs, gone, bridge, line, stash, shows, walk, awaited, pane, hint,
                   asked, moved, plain, budget>>

BridgeCall ==
    /\ bridge = {} /\ winner # NoLeg
    /\ {Caller, winner} \subseteq legs
    /\ Idle(Caller)
    /\ bridge' = {Caller, winner}
    /\ Everywhere
    /\ UNCHANGED <<legs, gone, up, winner, line, stash, shows, sendVars, plain, budget>>

\* A callee that was dialled later joins in.
Join(c) ==
    /\ bridge # {}
    /\ c \in (up \cap legs) \ bridge
    /\ bridge' = bridge \cup {c}
    /\ Everywhere
    /\ UNCHANGED <<legs, gone, up, winner, line, stash, shows, sendVars, plain, budget>>

\* The server offers a leg its video anew.
Refresh(l, method) ==
    /\ l \in up \cap legs
    /\ line[l] /\ Idle(l) /\ ~awaited[l]
    /\ Odd("refresh")
    /\ Owe(l, method, TRUE)
    /\ UNCHANGED <<callVars, line, stash, shows, walk, awaited, pane, hint, asked, moved>>

\* A callee is gone, a caller's call is over.
Hangup(c) ==
    /\ c \in legs \ {Caller, winner} \/ (c \in legs \cap Callees /\ bridge # {})
    /\ Spend("hangup")
    /\ legs' = legs \ {c} /\ gone' = gone \cup {c}
    /\ bridge' = IF bridge \subseteq {Caller, c} THEN {} ELSE bridge \ {c}
    /\ IF c \in Sip
       THEN /\ owed' = [owed EXCEPT ![c] = {}]
            /\ walk' = [walk EXCEPT ![c] = {}]
       ELSE UNCHANGED <<owed, walk>>
    /\ IF c \in bridge THEN Everywhere ELSE UNCHANGED moved
    /\ UNCHANGED <<up, winner, line, stash, shows, awaited, pane, hint, asked, plain>>

Phone(l) ==
    \/ \E s \in Sdp, m \in {"INVITE", "UPDATE"} : Reinvite(l, s, m)
    \/ \E sdp \in MaybeSdp, final \in BOOLEAN : Respond(l, sdp, final)
Supplement(l) ==
    \/ SendUnpatched(l)
    \/ StartPatch(l)
    \/ \E c \in Legs : PeerHadVideoCb(l, c)
    \/ PatchVideoMedia(l)
Server ==
    \/ \E c \in Callees : Dial(c) \/ Pickup(c) \/ Join(c)
    \/ \E h \in Helpers : AddHelper(h)
    \/ \E final \in BOOLEAN : AnswerEarly(final)
    \/ BridgeCall
    \/ \E l \in Sip, m \in {"INVITE", "UPDATE"} : Refresh(l, m)
    \/ \E c \in Legs : Hangup(c)

Next ==
    \/ \E sdp \in MaybeSdp : IncomingInvite(sdp)
    \/ \E l \in Sip : Phone(l) \/ Supplement(l)
    \/ Server

Spec == Init /\ [][Next]_vars

-----------------------------------------------------------------------------
(* The inductive invariant behind the properties below.                     *)

\* A leg comes once, the caller first and to stay.  One that is not there has
\* nothing on its way, one that was never there has said nothing.
LegsFit ==
    /\ legs \cap gone = {} /\ up \subseteq legs \cup gone
    /\ IF legs = {} THEN gone = {} ELSE Caller \in legs
    /\ \A l \in Sip :
          /\ l \notin legs => Idle(l)
          /\ l \notin legs \cup gone => shows[l] = "nothing" /\ ~awaited[l]
          /\ asked[l] \subseteq (legs \cup gone) \ {l}

\* A channel holds what its leg said last.
StashFits ==
    /\ \A l \in Sip : /\ stash[l].observed <=> shows[l] # "nothing"
                      /\ stash[l].had_video <=> shows[l] = "video"
    /\ \A h \in Helpers : stash[h] = NoState

\* A patch has seen each leg it has to consider as that leg still is: who talks
\* is taken off.  If nobody did or came, it has seen these and helpers only.
WalkFits(l) ==
    \A w \in walk[l] :
        /\ l \notin w.due \cup Seen(w)
        /\ asked[l] \subseteq w.due
        /\ \A v \in w.seen : v.leg \in asked[l] => v.state = stash[v.leg]
        /\ ~moved[l] =>
              /\ asked[l] = w.due
              /\ Seen(w) \cap Sip \subseteq w.due
              /\ IF w.fast THEN BridgePeer(l) = w.due
                 ELSE BridgePeer(l) = {} /\ legs \cap Sip \subseteq w.due \cup {l}

\* What the last patch decided was right, and still is of who has not talked.
PaneFits(l) ==
    l \notin gone /\ walk[l] = {} =>
        /\ pane[l] = "refused" => \A c \in asked[l] \cap legs \cap Sip : shows[c] # "video"
        /\ pane[l] = "open" /\ ~moved[l] => \E c \in asked[l] \cap Sip : shows[c] # "voice"
        /\ hint[l] = "default" => \A c \in asked[l] \cap legs : ~stash[c].value

\* A patch for l in which m is the only phone to be asked, as it is now.
AsksOnly(l, m) ==
    \A w \in walk[l] :
        /\ ~w.fast
        /\ m \in legs => m \in w.due
        /\ \A v \in w.seen : v.leg \in Sip => v.leg = m /\ v.state = stash[m]

Agrees(l, m) == shows[m] # "nothing" => (pane[l] = "open" <=> shows[m] = "video")

\* The callee of a plain call is asked once and answers once, after the server
\* has looked at what the caller said.
CalleeFits(c) ==
    /\ IF c \in up THEN shows[c] # "nothing" /\ ~awaited[c] /\ Idle(c)
                   ELSE shows[c] = "nothing"
    /\ \A msg \in owed[c] : msg.method = "INVITE"
    /\ AsksOnly(c, Caller)
    /\ c \in Cisco /\ Idle(c) => Agrees(c, Caller)

\* The caller is asked nothing, and answered after the callee has answered and
\* before the two are bridged.
CallerFits ==
    /\ ~awaited[Caller]
    /\ \A msg \in owed[Caller] : msg.method = "INVITE" /\ ~msg.offer
    /\ \A w \in walk[Caller] : ~w.msg.offer
    /\ ~Idle(Caller) => bridge = {}
    /\ AsksOnly(Caller, winner)
    /\ winner = NoLeg => bridge = {} /\ Caller \notin up /\ Idle(Caller)
    /\ winner # NoLeg => winner \in up /\ legs \cap Callees \subseteq {winner}
    /\ winner \in legs /\ Caller \in Cisco /\ Idle(Caller) /\ line[Caller] =>
          Agrees(Caller, winner)

PlainFits ==
    plain => /\ CallerFits
             /\ \A c \in legs \cap Callees : CalleeFits(c)
             /\ \A c, d \in legs \cap Callees : c = d

CallInv ==
    /\ TypeOK
    /\ LegsFit
    /\ StashFits
    /\ \A l \in Sip : WalkFits(l) /\ PaneFits(l)
    /\ PlainFits

-----------------------------------------------------------------------------
\* The phone was told, and nothing is on its way to it.
Told(l) == l \in legs \cap Cisco /\ Idle(l)

\* No phone loses its video to another leg's silence: while a patch looks
\* around, legs ring, come and go, but one that had video all along and has not
\* talked since is never missed.
VideoIsKept ==
    \A l \in Sip :
        Told(l) /\ pane[l] = "refused" =>
            \A c \in asked[l] \cap legs \cap Sip : shows[c] # "video"

\* No black pane: a patch that left video open knew a leg that has video, or
\* one that had not talked yet, unless somebody talked or came meanwhile.
NoPhantomPane ==
    \A l \in Sip :
        Told(l) /\ pane[l] = "open" /\ ~moved[l] =>
            \E c \in asked[l] \cap Sip : shows[c] # "voice"

\* The default imageattr is for those whose peers have none: a channel that
\* sent none does not stand in the way of a phone that did.
MirrorsAPeer ==
    \A l \in Sip :
        Told(l) /\ hint[l] = "default" =>
            \A c \in asked[l] \cap legs : ~stash[c].value

\* In a plain call each phone's pane agrees with what the other leg sent: what
\* a leg says is noted before the server tells the other.  Only the callee of a
\* caller who has yet to offer is left alone.
PanesAgree ==
    \A l, m \in bridge :
        /\ plain /\ l # m /\ Told(l) /\ line[l] /\ shows[m] # "nothing"
        => (pane[l] = "open" <=> shows[m] = "video")
=============================================================================
