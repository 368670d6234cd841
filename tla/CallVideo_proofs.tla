-------------------------- MODULE CallVideo_proofs --------------------------
(***************************************************************************)
(* CallInv is an invariant of CallVideo for any callees, helpers and budgets,
   and VideoIsKept, NoPhantomPane, MirrorsAPeer and PanesAgree follow from it.

   The heart of it is WalkFits: what a patch has seen of a leg is what that
   leg still holds, or the leg has talked since and does not count any more.  *)
(***************************************************************************)
EXTENDS CallVideo, FiniteSetTheorems, TLAPS

\* Who is who.
LEMMA Cast ==
    /\ Caller \in Sip /\ Callees \subseteq Sip /\ Sip \subseteq Legs
    /\ Helpers \subseteq Legs /\ Sip \cap Helpers = {} /\ Legs = Sip \cup Helpers
    /\ Caller \notin Callees /\ Sip = {Caller} \cup Callees /\ Cisco \subseteq Sip
    /\ NoLeg \notin Legs /\ "default" \notin Legs /\ NoLeg # "default"
  BY CallVideoConstants DEF Sip, Legs, NoLeg

\* What a step may change without a patch, or a pane, becoming wrong: legs that
\* talk are taken off, and whoever counts on nothing having moved is told.
LEMMA StillFits ==
    ASSUME NEW k \in Sip, WalkFits(k), PaneFits(k),
           walk'[k] = walk[k], pane'[k] = pane[k], hint'[k] = hint[k],
           asked'[k] \subseteq asked[k],
           \A c \in asked'[k] : stash'[c] = stash[c] /\ (c \in Sip => shows'[c] = shows[c]),
           asked'[k] \cap legs' \subseteq legs,
           k \notin gone' => k \notin gone,
           ~moved'[k] => ~moved[k] /\ asked'[k] = asked[k],
           ~moved'[k] /\ walk[k] # {} => /\ BridgePeer(k)' = BridgePeer(k)
                                         /\ legs' \cap Sip \subseteq legs \cap Sip
    PROVE  WalkFits(k)' /\ PaneFits(k)'
  <1>1. WalkFits(k)'
    <2> SUFFICES ASSUME NEW w \in walk[k]
                 PROVE  /\ k \notin w.due \cup Seen(w)
                        /\ asked'[k] \subseteq w.due
                        /\ \A v \in w.seen : v.leg \in asked'[k] => v.state = stash'[v.leg]
                        /\ ~moved'[k] =>
                              /\ asked'[k] = w.due
                              /\ Seen(w) \cap Sip \subseteq w.due
                              /\ IF w.fast THEN BridgePeer(k)' = w.due
                                 ELSE /\ BridgePeer(k)' = {}
                                      /\ legs' \cap Sip \subseteq w.due \cup {k}
      BY DEF WalkFits, Seen
    <2>1. /\ k \notin w.due \cup Seen(w)
          /\ asked[k] \subseteq w.due
          /\ \A v \in w.seen : v.leg \in asked[k] => v.state = stash[v.leg]
          /\ ~moved[k] =>
                /\ asked[k] = w.due
                /\ Seen(w) \cap Sip \subseteq w.due
                /\ IF w.fast THEN BridgePeer(k) = w.due
                   ELSE BridgePeer(k) = {} /\ legs \cap Sip \subseteq w.due \cup {k}
      BY DEF WalkFits
    <2>2. \A v \in w.seen : v.leg \in asked'[k] => v.state = stash'[v.leg]
      BY <2>1
    <2>3. QED
      BY <2>1, <2>2
  <1>2. PaneFits(k)'
    <2> SUFFICES ASSUME k \notin gone', walk[k] = {}
                 PROVE  /\ pane[k] = "refused" =>
                              \A c \in asked'[k] \cap legs' \cap Sip : shows'[c] # "video"
                        /\ pane[k] = "open" /\ ~moved'[k] =>
                              \E c \in asked'[k] \cap Sip : shows'[c] # "voice"
                        /\ hint[k] = "default" =>
                              \A c \in asked'[k] \cap legs' : ~stash'[c].value
      BY DEF PaneFits
    <2>1. /\ pane[k] = "refused" => \A c \in asked[k] \cap legs \cap Sip : shows[c] # "video"
          /\ pane[k] = "open" /\ ~moved[k] => \E c \in asked[k] \cap Sip : shows[c] # "voice"
          /\ hint[k] = "default" => \A c \in asked[k] \cap legs : ~stash[c].value
      BY DEF PaneFits
    <2>2. QED
      BY <2>1
  <1>3. QED
    BY <1>1, <1>2

\* What a leg's SDP changes, if there is one.
LEMMA CaptureEffect ==
    ASSUME TypeOK, LegsFit, StashFits, NEW l \in Sip, NEW sdp \in MaybeSdp,
           Capture(l, sdp)
    PROVE  /\ stash' \in [Legs -> State]
           /\ shows' \in [Sip -> {"nothing", "video", "voice"}]
           /\ asked' \in [Sip -> SUBSET Legs] /\ moved' \in [Sip -> BOOLEAN]
           /\ StashFits'
           /\ sdp # {} => shows'[l] # "nothing"
           /\ \A s \in sdp : shows'[l] = "video" <=> s.live
           /\ sdp = {} => UNCHANGED <<stash, shows, asked, moved>>
           /\ \A c \in Legs \ {l} : stash'[c] = stash[c]
           /\ \A c \in Sip \ {l} : shows'[c] = shows[c]
           /\ \A k \in Sip :
                /\ asked'[k] \subseteq asked[k]
                /\ \A c \in asked'[k] : /\ stash'[c] = stash[c]
                                        /\ c \in Sip => shows'[c] = shows[c]
                /\ ~moved'[k] => ~moved[k] /\ asked'[k] = asked[k]
  <1>0. l \in Legs /\ Sip \subseteq Legs
    BY Cast
  <1>1. CASE sdp = {}
    <2>1. UNCHANGED <<stash, shows, asked, moved>>
      BY <1>1 DEF Capture
    <2>2. StashFits'
      BY <2>1 DEF StashFits
    <2>3. QED
      BY <1>1, <2>1, <2>2 DEF TypeOK
  <1>2. CASE sdp # {}
    <2>1. PICK s \in sdp : /\ stash' = [stash EXCEPT ![l] = StateAfter(@, s)]
                           /\ Talks(l, s)
      BY <1>2 DEF Capture
    <2>2. sdp = {s} /\ s \in Sdp /\ s.live \in BOOLEAN /\ s.attr \in BOOLEAN
      BY <2>1 DEF MaybeSdp, Sdp
    <2>3. /\ shows' = [shows EXCEPT ![l] = IF s.live THEN "video" ELSE "voice"]
          /\ asked' = [m \in Sip |-> asked[m] \ {l}]
          /\ moved' = [m \in Sip |-> moved[m] \/ m # l]
      BY <2>1 DEF Talks
    <2>4. /\ stash'[l] = StateAfter(stash[l], s)
          /\ \A c \in Legs \ {l} : stash'[c] = stash[c]
      BY <1>0, <2>1 DEF TypeOK
    <2>5. /\ shows'[l] = IF s.live THEN "video" ELSE "voice"
          /\ \A c \in Sip \ {l} : shows'[c] = shows[c]
      BY <2>3 DEF TypeOK
    <2>6. stash' \in [Legs -> State]
      <3>1. stash[l].value \in BOOLEAN
        BY <1>0 DEF TypeOK, State
      <3>2. StateAfter(stash[l], s) \in State
        BY <2>2, <3>1 DEF StateAfter, State
      <3>3. QED
        BY <2>1, <3>2 DEF TypeOK
    <2>7. shows' \in [Sip -> {"nothing", "video", "voice"}]
      BY <2>3 DEF TypeOK
    <2>8. asked' \in [Sip -> SUBSET Legs] /\ moved' \in [Sip -> BOOLEAN]
      BY <2>3 DEF TypeOK
    <2>9. StashFits'
      <3>1. /\ stash'[l].observed <=> shows'[l] # "nothing"
            /\ stash'[l].had_video <=> shows'[l] = "video"
        BY <2>4, <2>5 DEF StateAfter
      <3>2. \A h \in Helpers : stash'[h] = NoState
        BY <2>4, Cast DEF StashFits
      <3>3. \A c \in Sip \ {l} : /\ stash'[c].observed <=> shows'[c] # "nothing"
                                 /\ stash'[c].had_video <=> shows'[c] = "video"
        BY <1>0, <2>4, <2>5 DEF StashFits
      <3>4. QED
        BY <3>1, <3>2, <3>3 DEF StashFits
    <2>10. ASSUME NEW k \in Sip
           PROVE  /\ asked'[k] \subseteq asked[k]
                  /\ \A c \in asked'[k] : /\ stash'[c] = stash[c]
                                          /\ c \in Sip => shows'[c] = shows[c]
                  /\ ~moved'[k] => ~moved[k] /\ asked'[k] = asked[k]
      <3>1. asked'[k] = asked[k] \ {l} /\ asked[k] \subseteq Legs
        BY <2>3 DEF TypeOK
      <3>2. ~moved'[k] => ~moved[k] /\ k = l
        BY <2>3
      <3>3. l \notin asked[l]
        BY DEF LegsFit
      <3>4. QED
        BY <2>4, <2>5, <3>1, <3>2, <3>3
    <2>11. /\ shows'[l] # "nothing"
           /\ \A t \in sdp : shows'[l] = "video" <=> t.live
      BY <2>2, <2>5
    <2>12. QED
      BY <1>2, <2>4, <2>5, <2>6, <2>7, <2>8, <2>9, <2>10, <2>11
  <1>3. QED
    BY <1>1, <1>2

LEMMA InitCall == Init => CallInv
  <1> SUFFICES ASSUME Init PROVE CallInv
    OBVIOUS
  <1>1. TypeOK
    <2>1. NoState \in State
      BY DEF NoState, State
    <2>2. QED
      BY <2>1, Cast DEF Init, TypeOK
  <1>2. LegsFit
    BY DEF Init, LegsFit, Idle
  <1>3. StashFits
    BY Cast DEF Init, StashFits, NoState
  <1>4. ASSUME NEW l \in Sip
        PROVE  WalkFits(l) /\ PaneFits(l)
    BY DEF Init, WalkFits, PaneFits, NoLeg
  <1>5. PlainFits
    BY Cast DEF Init, PlainFits, CallerFits, AsksOnly, Idle
  <1>6. QED
    BY <1>1, <1>2, <1>3, <1>4, <1>5 DEF CallInv

-----------------------------------------------------------------------------

Fits == \A l \in Sip : WalkFits(l) /\ PaneFits(l)

LEMMA CallParts ==
    CallInv <=> TypeOK /\ LegsFit /\ StashFits /\ Fits /\ PlainFits
  BY DEF CallInv, Fits

\* A step of one leg's serializer, as far as the other legs are concerned.
LEMMA OthersFit ==
    ASSUME Fits, NEW l \in Sip, WalkFits(l)', PaneFits(l)',
           \A k \in Sip \ {l} : /\ walk'[k] = walk[k] /\ pane'[k] = pane[k]
                                /\ hint'[k] = hint[k] /\ asked'[k] = asked[k]
                                /\ moved'[k] = moved[k],
           UNCHANGED <<legs, gone, bridge, stash, shows>>
    PROVE  Fits'
  <1>1. ASSUME NEW k \in Sip \ {l}
        PROVE  WalkFits(k)' /\ PaneFits(k)'
    <2>1. WalkFits(k) /\ PaneFits(k)
      BY DEF Fits
    <2>2. BridgePeer(k)' = BridgePeer(k)
      BY DEF BridgePeer
    <2>3. QED
      BY <1>1, <2>1, <2>2, StillFits
  <1>2. QED
    BY <1>1 DEF Fits

\* A step of the server.
LEMMA ServerFits ==
    ASSUME Fits, UNCHANGED <<walk, pane, hint, asked, stash, shows>>,
           \A k \in Sip : asked[k] \cap legs' \subseteq legs,
           gone \subseteq gone',
           \A k \in Sip : /\ ~moved'[k] => ~moved[k]
                          /\ ~moved'[k] => /\ BridgePeer(k)' = BridgePeer(k)
                                           /\ legs' \cap Sip \subseteq legs \cap Sip
    PROVE  Fits'
  <1>1. ASSUME NEW k \in Sip
        PROVE  WalkFits(k)' /\ PaneFits(k)'
    <2>1. WalkFits(k) /\ PaneFits(k)
      BY DEF Fits
    <2>2. QED
      BY <1>1, <2>1, StillFits
  <1>2. QED
    BY <1>1 DEF Fits

\* A leg talks and nothing else happens to the patches and panes.
LEMMA TalkFits ==
    ASSUME TypeOK, LegsFit, StashFits, Fits, NEW l \in Sip, NEW sdp \in MaybeSdp,
           Capture(l, sdp), UNCHANGED <<walk, pane, hint, gone>>,
           \A k \in Sip : asked[k] \cap legs' \subseteq legs,
           \A k \in Sip : walk[k] # {} => /\ BridgePeer(k)' = BridgePeer(k)
                                          /\ legs' \cap Sip \subseteq legs \cap Sip
    PROVE  Fits'
  <1>1. ASSUME NEW k \in Sip
        PROVE  WalkFits(k)' /\ PaneFits(k)'
    <2>1. WalkFits(k) /\ PaneFits(k)
      BY DEF Fits
    <2>2. /\ asked'[k] \subseteq asked[k]
          /\ \A c \in asked'[k] : stash'[c] = stash[c] /\ (c \in Sip => shows'[c] = shows[c])
          /\ ~moved'[k] => ~moved[k] /\ asked'[k] = asked[k]
      BY CaptureEffect
    <2>3. asked'[k] \cap legs' \subseteq legs
      BY <2>2
    <2>4. QED
      BY <1>1, <2>1, <2>2, <2>3, StillFits
  <1>2. QED
    BY <1>1 DEF Fits

\* A message that is about to be sent.
LEMMA OweType ==
    ASSUME TypeOK, NEW l \in Sip, NEW method \in {"INVITE", "UPDATE"},
           NEW offer \in BOOLEAN, Owe(l, method, offer)
    PROVE  /\ owed' \in [Sip -> SUBSET Message]
           /\ \A k \in Sip : \A m, n \in owed'[k] : m = n
           /\ \A k \in Sip \ {l} : owed'[k] = owed[k]
           /\ owed'[l] = {[method |-> method, offer |-> offer]}
  <1>1. PICK msg : msg = [method |-> method, offer |-> offer]
    OBVIOUS
  <1>2. msg \in Message
    BY <1>1 DEF Message
  <1>3. owed' = [owed EXCEPT ![l] = {msg}]
    BY <1>1 DEF Owe
  <1>4. owed'[l] = {msg} /\ \A k \in Sip \ {l} : owed'[k] = owed[k]
    BY <1>3 DEF TypeOK
  <1>5. owed' \in [Sip -> SUBSET Message]
    BY <1>2, <1>3 DEF TypeOK
  <1>6. \A k \in Sip : \A m, n \in owed'[k] : m = n
    BY <1>4 DEF TypeOK
  <1>7. QED
    BY <1>1, <1>4, <1>5, <1>6

-----------------------------------------------------------------------------
(* What the phones do.                                                      *)

LEMMA IncomingInviteStep ==
    ASSUME CallInv, NEW sdp \in MaybeSdp, IncomingInvite(sdp)
    PROVE  CallInv'
  <1>0. TypeOK /\ LegsFit /\ StashFits /\ Fits /\ PlainFits
    BY CallParts
  <1>1. /\ legs = {} /\ legs' = {Caller}
        /\ line' = [line EXCEPT ![Caller] = \A s \in sdp : s.line]
        /\ Capture(Caller, sdp)
        /\ UNCHANGED <<gone, bridge, up, winner, owed, walk, awaited, pane, hint, plain>>
    BY DEF IncomingInvite
  <1>2. gone = {} /\ up = {} /\ bridge = {}
    BY <1>0, <1>1 DEF LegsFit, TypeOK
  <1>3. /\ stash' \in [Legs -> State]
        /\ shows' \in [Sip -> {"nothing", "video", "voice"}]
        /\ asked' \in [Sip -> SUBSET Legs] /\ moved' \in [Sip -> BOOLEAN]
        /\ StashFits'
        /\ \A c \in Sip \ {Caller} : shows'[c] = shows[c]
        /\ \A k \in Sip : asked'[k] \subseteq asked[k]
    BY <1>0, <1>1, Cast, CaptureEffect
  <1>4. TypeOK'
    <2>1. line' \in [Sip -> BOOLEAN]
      BY <1>0, <1>1 DEF TypeOK
    <2>2. legs' \subseteq Legs /\ bridge' \subseteq legs' \cap Sip
      BY <1>1, <1>2, Cast
    <2>3. QED
      BY <1>0, <1>1, <1>3, <2>1, <2>2 DEF TypeOK
  <1>5. LegsFit'
    <2>1. \A l \in Sip : Idle(l)
      BY <1>0, <1>1 DEF LegsFit
    <2>2. \A l \in Sip : asked'[l] = {}
      BY <1>0, <1>1, <1>2, <1>3 DEF LegsFit
    <2>3. QED
      BY <1>0, <1>1, <1>2, <1>3, <2>1, <2>2 DEF LegsFit, Idle
  <1>6. Fits'
    <2>1. \A k \in Sip : walk[k] = {} /\ asked[k] = {}
      BY <1>0, <1>1, <1>2 DEF LegsFit, Idle
    <2>2. QED
      BY <1>0, <1>1, <2>1, Cast, TalkFits
  <1>7. PlainFits'
    <2> SUFFICES ASSUME plain PROVE PlainFits'
      BY <1>1 DEF PlainFits
    <2>1. CallerFits
      BY <1>0 DEF PlainFits
    <2>2. winner = NoLeg /\ Idle(Caller) /\ Idle(Caller)'
      BY <1>1, <1>2, <2>1 DEF CallerFits, Idle
    <2>3. CallerFits'
      BY <1>1, <1>2, <2>1, <2>2, Cast DEF CallerFits, AsksOnly, Idle
    <2>4. legs' \cap Callees = {}
      BY <1>1, Cast
    <2>5. QED
      BY <2>3, <2>4 DEF PlainFits
  <1>8. QED
    BY <1>3, <1>4, <1>5, <1>6, <1>7, CallParts DEF CallInv, Fits

LEMMA ReinviteStep ==
    ASSUME CallInv, NEW l \in Sip, NEW s \in Sdp, NEW method \in {"INVITE", "UPDATE"},
           Reinvite(l, s, method)
    PROVE  CallInv'
  <1>0. TypeOK /\ LegsFit /\ StashFits /\ Fits
    BY CallParts
  <1>1. /\ l \in up \cap legs /\ Idle(l) /\ ~plain'
        /\ Capture(l, {s})
        /\ line' = [line EXCEPT ![l] = s.line]
        /\ UNCHANGED <<legs, gone, bridge, up, winner, walk, awaited>>
    BY DEF Reinvite, Odd, callVars
  <1>2. \/ Owe(l, method, FALSE) /\ UNCHANGED <<pane, hint>>
        \/ /\ pane' = [pane EXCEPT ![l] = "dark"]
           /\ hint' = [hint EXCEPT ![l] = NoLeg]
           /\ UNCHANGED owed
    BY DEF Reinvite
  <1>3. {s} \in MaybeSdp /\ s.line \in BOOLEAN
    BY DEF MaybeSdp, Sdp
  <1>4. /\ stash' \in [Legs -> State]
        /\ shows' \in [Sip -> {"nothing", "video", "voice"}]
        /\ asked' \in [Sip -> SUBSET Legs] /\ moved' \in [Sip -> BOOLEAN]
        /\ StashFits'
        /\ \A c \in Sip \ {l} : shows'[c] = shows[c]
        /\ \A k \in Sip :
              /\ asked'[k] \subseteq asked[k]
              /\ \A c \in asked'[k] : stash'[c] = stash[c] /\ (c \in Sip => shows'[c] = shows[c])
              /\ ~moved'[k] => ~moved[k] /\ asked'[k] = asked[k]
    BY <1>0, <1>1, <1>3, CaptureEffect
  <1>5. /\ owed' \in [Sip -> SUBSET Message]
        /\ \A k \in Sip : \A m, n \in owed'[k] : m = n
        /\ \A k \in Sip \ {l} : owed'[k] = owed[k]
    <2>1. CASE Owe(l, method, FALSE)
      BY <1>0, <2>1, OweType
    <2>2. CASE UNCHANGED owed
      BY <1>0, <2>2 DEF TypeOK
    <2>3. QED
      BY <1>2, <2>1, <2>2
  <1>6. /\ pane' \in [Sip -> {"dark", "open", "refused"}]
        /\ hint' \in [Sip -> Sip \cup {"default", NoLeg}]
        /\ \A k \in Sip \ {l} : pane'[k] = pane[k] /\ hint'[k] = hint[k]
        /\ \/ pane'[l] = pane[l] /\ hint'[l] = hint[l]
           \/ pane'[l] = "dark" /\ hint'[l] = NoLeg
    BY <1>0, <1>2 DEF TypeOK
  <1>7. TypeOK'
    <2>1. line' \in [Sip -> BOOLEAN] /\ plain' \in BOOLEAN
      BY <1>0, <1>1, <1>3 DEF TypeOK, Reinvite, Odd
    <2>2. QED
      BY <1>0, <1>1, <1>4, <1>5, <1>6, <2>1 DEF TypeOK
  <1>8. LegsFit'
    <2>1. \A k \in Sip : k \notin legs' => Idle(k)'
      BY <1>0, <1>1, <1>5 DEF LegsFit, Idle
    <2>2. QED
      BY <1>0, <1>1, <1>4, <2>1 DEF LegsFit
  <1>9. Fits'
    <2>1. ASSUME NEW k \in Sip, pane'[k] = pane[k], hint'[k] = hint[k]
          PROVE  WalkFits(k)' /\ PaneFits(k)'
      <3>1. WalkFits(k) /\ PaneFits(k) /\ BridgePeer(k)' = BridgePeer(k)
        BY <1>0, <1>1 DEF Fits, BridgePeer
      <3>2. asked'[k] \cap legs' \subseteq legs
        BY <1>1
      <3>3. QED
        BY <1>1, <1>4, <2>1, <3>1, <3>2, StillFits
    <2>2. ASSUME pane'[l] = "dark", hint'[l] = NoLeg
          PROVE  WalkFits(l)' /\ PaneFits(l)'
      <3>1. walk'[l] = {}
        BY <1>1 DEF Idle
      <3>2. QED
        BY <2>2, <3>1, Cast DEF WalkFits, PaneFits
    <2>3. QED
      BY <1>6, <2>1, <2>2 DEF Fits
  <1>10. PlainFits'
    BY <1>1 DEF PlainFits
  <1>11. QED
    BY <1>4, <1>7, <1>8, <1>9, <1>10 DEF CallInv, Fits

LEMMA RespondStep ==
    ASSUME CallInv, NEW l \in Sip, NEW sdp \in MaybeSdp, NEW final \in BOOLEAN,
           Respond(l, sdp, final)
    PROVE  CallInv'
  <1>0. TypeOK /\ LegsFit /\ StashFits /\ Fits /\ PlainFits
    BY CallParts
  <1>1. /\ l \in legs /\ awaited[l] /\ Idle(l)
        /\ sdp # {} \/ (final /\ l \notin up /\ stash[l].observed)
        /\ plain' = (final /\ plain)
        /\ Capture(l, sdp)
        /\ awaited' = [awaited EXCEPT ![l] = ~final]
        /\ up' = IF final THEN up \cup {l} ELSE up
        /\ line' = [line EXCEPT ![l] = @ /\ \A s \in sdp : s.line]
        /\ UNCHANGED <<legs, gone, bridge, winner, owed, walk, pane, hint>>
    <2>1. plain' = (final /\ plain)
      BY <1>0 DEF Respond, Odd, TypeOK
    <2>2. QED
      BY <2>1 DEF Respond
  <1>2. /\ stash' \in [Legs -> State]
        /\ shows' \in [Sip -> {"nothing", "video", "voice"}]
        /\ asked' \in [Sip -> SUBSET Legs] /\ moved' \in [Sip -> BOOLEAN]
        /\ StashFits'
        /\ sdp # {} => shows'[l] # "nothing"
        /\ \A c \in Sip \ {l} : shows'[c] = shows[c]
        /\ \A k \in Sip : asked'[k] \subseteq asked[k]
    BY <1>0, <1>1, CaptureEffect
  <1>3. awaited' \in [Sip -> BOOLEAN] /\ \A k \in Sip \ {l} : awaited'[k] = awaited[k]
    BY <1>0, <1>1 DEF TypeOK
  <1>4. TypeOK'
    <2>1. line' \in [Sip -> BOOLEAN]
      BY <1>0, <1>1 DEF TypeOK
    <2>2. plain' \in BOOLEAN /\ up' \subseteq Sip
      BY <1>0, <1>1 DEF TypeOK
    <2>3. QED
      BY <1>0, <1>1, <1>2, <1>3, <2>1, <2>2 DEF TypeOK
  <1>5. LegsFit'
    <2>1. \A k \in Sip : Idle(k)' <=> Idle(k)
      BY <1>1 DEF Idle
    <2>2. QED
      BY <1>0, <1>1, <1>2, <1>3, <2>1 DEF LegsFit
  <1>6. Fits'
    <2>1. \A k \in Sip : BridgePeer(k)' = BridgePeer(k)
      BY <1>1 DEF BridgePeer
    <2>2. QED
      BY <1>0, <1>1, <2>1, TalkFits
  <1>7. PlainFits'
    <2> SUFFICES ASSUME final, plain PROVE PlainFits'
      BY <1>1 DEF PlainFits
    <2>1. /\ CallerFits /\ \A c \in legs \cap Callees : CalleeFits(c)
          /\ \A c, d \in legs \cap Callees : c = d
      BY <1>0 DEF PlainFits
    <2>2. l # Caller /\ l \in legs \cap Callees
      BY <1>1, <2>1, Cast DEF CallerFits
    <2>3. l \notin up /\ shows[l] = "nothing"
      BY <1>1, <2>1, <2>2 DEF CalleeFits
    <2>4. sdp # {}
      BY <1>0, <1>1, <2>3 DEF StashFits
    <2>5. CalleeFits(l)'
      <3>1. up' = up \cup {l} /\ ~awaited'[l] /\ Idle(l)'
        BY ZenonT(40), <1>0, <1>1 DEF Idle, TypeOK
      <3>2. AsksOnly(l, Caller)'
        BY <1>1 DEF AsksOnly, Idle
      <3>3. \A msg \in owed'[l] : msg.method = "INVITE"
        BY <1>1 DEF Idle
      <3>4. l \in Cisco => Agrees(l, Caller)
        BY <1>1, <2>1, <2>2 DEF CalleeFits
      <3>5. l \in Cisco => Agrees(l, Caller)'
        BY <1>1, <1>2, <2>2, <3>4, Cast DEF Agrees
      <3>6. QED
        BY <1>2, <2>4, <3>1, <3>2, <3>3, <3>5 DEF CalleeFits
    <2>6. winner = NoLeg
      BY <2>1, <2>2, <2>3 DEF CallerFits
    <2>7. CallerFits'
      <3>1. Idle(Caller) /\ Idle(Caller)'
        BY <1>1, <2>1, <2>6 DEF CallerFits, Idle
      <3>2. Caller \notin up' /\ ~awaited'[Caller]
        BY <1>1, <1>3, <2>1, <2>2, <2>6, Cast DEF CallerFits
      <3>3. winner' = NoLeg /\ winner \notin legs'
        BY <1>0, <1>1, <2>6, Cast DEF TypeOK
      <3>4. QED
        BY <1>1, <2>1, <2>6, <3>1, <3>2, <3>3 DEF CallerFits, AsksOnly, Idle
    <2>8. QED
      BY <1>1, <2>1, <2>2, <2>5, <2>7 DEF PlainFits
  <1>8. QED
    BY <1>2, <1>4, <1>5, <1>6, <1>7 DEF CallInv, Fits

-----------------------------------------------------------------------------
(* What the supplement does.                                                *)

\* The other side of a plain call.
Peer(l) == IF l = Caller THEN winner ELSE Caller

\* In a plain call a message waits for a leg only before the bridge, and there
\* is no phone but the other side.
LEMMA PlainAsk ==
    ASSUME TypeOK, LegsFit, PlainFits, plain, NEW l \in Sip, ~Idle(l)
    PROVE  /\ l \in legs /\ bridge = {} /\ BridgePeer(l) = {}
           /\ Peer(l) \in Sip /\ Peer(l) # l
           /\ legs \cap Sip \subseteq {l, Peer(l)}
           /\ AsksOnly(l, Peer(l))
           /\ l = Caller => winner # NoLeg
           /\ l # Caller => l \in legs \cap Callees /\ l \notin up
  <1>1. /\ CallerFits /\ \A c \in legs \cap Callees : CalleeFits(c)
        /\ \A c, d \in legs \cap Callees : c = d
    BY DEF PlainFits
  <1>2. l \in legs
    BY DEF LegsFit
  <1>3. BridgePeer(l) = {} \/ bridge # {}
    BY DEF BridgePeer
  <1>4. CASE l = Caller
    <2>1. winner # NoLeg /\ bridge = {} /\ AsksOnly(l, winner)
      BY <1>1, <1>4 DEF CallerFits
    <2>2. winner \in Callees /\ legs \cap Callees \subseteq {winner}
      BY <1>1, <2>1 DEF CallerFits, TypeOK
    <2>3. QED
      BY <1>2, <1>3, <1>4, <2>1, <2>2, Cast DEF Peer
  <1>5. CASE l # Caller
    <2>1. l \in legs \cap Callees
      BY <1>2, <1>5, Cast
    <2>2. CalleeFits(l) /\ l \notin up
      BY <1>1, <2>1 DEF CalleeFits
    <2>3. bridge = {}
      BY <1>1, <2>1, <2>2 DEF CallerFits
    <2>4. legs \cap Sip \subseteq {l, Caller}
      BY <1>1, <2>1, Cast
    <2>5. QED
      BY <1>3, <1>5, <2>1, <2>2, <2>3, <2>4, Cast DEF Peer, CalleeFits
  <1>6. QED
    BY <1>4, <1>5

\* What a step of the supplement owes to a plain call.
LEMMA PlainAfter ==
    ASSUME TypeOK, LegsFit, PlainFits, plain, NEW l \in Sip, ~Idle(l),
           UNCHANGED <<legs, bridge, up, winner, line, stash, shows, plain>>,
           \A k \in Sip \ {l} : /\ owed'[k] = owed[k] /\ walk'[k] = walk[k]
                                /\ pane'[k] = pane[k] /\ awaited'[k] = awaited[k],
           owed'[l] \subseteq owed[l],
           NEW m, m = Peer(l), AsksOnly(l, m)',
           l = Caller => ~awaited'[l] /\ \A w \in walk'[l] : ~w.msg.offer,
           walk'[l] = {} /\ l \in Cisco /\ m \in legs => Agrees(l, m)'
    PROVE  PlainFits'
  <1>1. /\ CallerFits /\ \A c \in legs \cap Callees : CalleeFits(c)
        /\ \A c, d \in legs \cap Callees : c = d
    BY DEF PlainFits
  <1>2. /\ l \in legs /\ bridge = {} /\ m \in Sip
        /\ l = Caller => winner # NoLeg
        /\ l # Caller => l \in legs \cap Callees /\ l \notin up
    BY PlainAsk
  <1>3. Caller \in legs
    BY <1>2 DEF LegsFit
  <1>4. ASSUME NEW c \in legs \cap Callees
        PROVE  CalleeFits(c)'
    <2>1. CalleeFits(c) /\ c \in Sip /\ c # Caller
      BY <1>1, <1>4, Cast
    <2>2. CASE c # l
      <3>1. Idle(c)' <=> Idle(c)
        BY <2>1, <2>2 DEF Idle
      <3>2. AsksOnly(c, Caller)' <=> AsksOnly(c, Caller)
        BY <2>1, <2>2 DEF AsksOnly
      <3>3. Agrees(c, Caller)' <=> Agrees(c, Caller)
        BY <2>1, <2>2 DEF Agrees
      <3>4. QED
        BY <2>1, <2>2, <3>1, <3>2, <3>3 DEF CalleeFits
    <2>3. CASE c = l
      <3>1. m = Caller /\ c \notin up
        BY <1>2, <2>1, <2>3 DEF Peer
      <3>2. AsksOnly(c, Caller)'
        BY <2>3, <3>1
      <3>3. c \in Cisco /\ Idle(c)' => Agrees(c, Caller)'
        BY <1>3, <2>3, <3>1 DEF Idle
      <3>4. QED
        BY <2>1, <2>3, <3>1, <3>2, <3>3 DEF CalleeFits
    <2>4. QED
      BY <2>2, <2>3
  <1>5. CallerFits'
    <2>1. CASE l # Caller
      <3>1. Caller \in Sip \ {l}
        BY <2>1, Cast
      <3>2. /\ owed'[Caller] = owed[Caller] /\ walk'[Caller] = walk[Caller]
            /\ pane'[Caller] = pane[Caller] /\ awaited'[Caller] = awaited[Caller]
        BY <3>1
      <3>3. Idle(Caller)' <=> Idle(Caller)
        BY <3>2 DEF Idle
      <3>4. AsksOnly(Caller, winner)' <=> AsksOnly(Caller, winner)
        BY <3>2 DEF AsksOnly
      <3>5. Agrees(Caller, winner)' <=> Agrees(Caller, winner)
        BY <3>2 DEF Agrees
      <3>6. QED
        BY <1>1, <3>2, <3>3, <3>4, <3>5 DEF CallerFits
    <2>2. CASE l = Caller
      <3>1. m = winner /\ winner # NoLeg
        BY <1>2, <2>2 DEF Peer
      <3>2. AsksOnly(Caller, winner)'
        BY <2>2, <3>1 DEF AsksOnly
      <3>3. winner \in legs /\ Caller \in Cisco /\ Idle(Caller)' => Agrees(Caller, winner)'
        BY <2>2, <3>1 DEF Idle, Agrees
      <3>4. QED
        BY <1>1, <1>2, <2>2, <3>1, <3>2, <3>3 DEF CallerFits
    <2>3. QED
      BY <2>1, <2>2
  <1>6. QED
    BY <1>1, <1>4, <1>5 DEF PlainFits

LEMMA SendUnpatchedStep ==
    ASSUME CallInv, NEW l \in Sip, SendUnpatched(l)
    PROVE  CallInv'
  <1>0. TypeOK /\ LegsFit /\ StashFits /\ Fits /\ PlainFits
    BY CallParts
  <1>1. PICK msg \in owed[l] :
            /\ ~Patched(l, msg)
            /\ owed' = [owed EXCEPT ![l] = {}]
            /\ Sent(l, msg, "open", NoLeg)
            /\ asked' = [asked EXCEPT ![l] = {}]
            /\ moved' = [moved EXCEPT ![l] = TRUE]
            /\ UNCHANGED <<legs, gone, bridge, up, winner, line, stash, shows, walk, plain>>
    BY DEF SendUnpatched, callVars
  <1>2. msg \in Message /\ msg.offer \in BOOLEAN
    BY <1>0, <1>1 DEF TypeOK, Message
  <1>3. /\ awaited' = [awaited EXCEPT ![l] = msg.offer]
        /\ pane' = [pane EXCEPT ![l] = "open"]
        /\ hint' = [hint EXCEPT ![l] = NoLeg]
    BY <1>1 DEF Sent
  <1>4. /\ owed'[l] = {} /\ awaited'[l] = msg.offer /\ pane'[l] = "open"
        /\ hint'[l] = NoLeg /\ asked'[l] = {} /\ moved'[l] = TRUE
        /\ \A k \in Sip \ {l} : /\ owed'[k] = owed[k] /\ awaited'[k] = awaited[k]
                                /\ pane'[k] = pane[k] /\ hint'[k] = hint[k]
                                /\ asked'[k] = asked[k] /\ moved'[k] = moved[k]
    BY <1>0, <1>1, <1>3 DEF TypeOK
  <1>5. TypeOK'
    <2>1. owed' \in [Sip -> SUBSET Message] /\ \A k \in Sip : \A m, n \in owed'[k] : m = n
      BY <1>0, <1>1, <1>4 DEF TypeOK
    <2>2. /\ awaited' \in [Sip -> BOOLEAN]
          /\ pane' \in [Sip -> {"dark", "open", "refused"}]
          /\ hint' \in [Sip -> Sip \cup {"default", NoLeg}]
      BY <1>0, <1>2, <1>3 DEF TypeOK
    <2>3. asked' \in [Sip -> SUBSET Legs] /\ moved' \in [Sip -> BOOLEAN]
      BY <1>0, <1>1 DEF TypeOK
    <2>4. QED
      BY <1>0, <1>1, <2>1, <2>2, <2>3 DEF TypeOK
  <1>6. l \in legs /\ ~Idle(l)
    BY <1>0, <1>1 DEF LegsFit, Idle
  <1>7. LegsFit'
    <2>1. \A k \in Sip : k \notin legs => Idle(k)'
      BY <1>0, <1>1, <1>4 DEF LegsFit, Idle
    <2>2. \A k \in Sip : k \notin legs \cup gone => shows[k] = "nothing" /\ ~awaited'[k]
      BY <1>0, <1>4, <1>6 DEF LegsFit
    <2>3. \A k \in Sip : asked'[k] \subseteq (legs \cup gone) \ {k}
      BY <1>0, <1>4 DEF LegsFit
    <2>4. QED
      BY <1>0, <1>1, <2>1, <2>2, <2>3 DEF LegsFit
  <1>8. Fits'
    <2>1. WalkFits(l) /\ walk'[l] = walk[l]
      BY <1>0, <1>1 DEF Fits
    <2>2. WalkFits(l)'
      BY <1>4, <2>1 DEF WalkFits, Seen
    <2>3. PaneFits(l)'
      BY <1>4, Cast DEF PaneFits
    <2>4. QED
      BY <1>0, <1>1, <1>4, <2>2, <2>3, OthersFit
  <1>9. StashFits'
    BY <1>0, <1>1 DEF StashFits
  <1>10. PlainFits'
    <2> SUFFICES ASSUME plain PROVE PlainFits'
      BY <1>1 DEF PlainFits
    <2>1. /\ CallerFits /\ \A c \in legs \cap Callees : CalleeFits(c)
      BY <1>0 DEF PlainFits
    <2>2. /\ l # Caller => l \in legs \cap Callees
          /\ AsksOnly(l, Peer(l))
      BY <1>0, <1>6, PlainAsk
    <2>3. msg.method = "INVITE" /\ (l = Caller => ~msg.offer)
      BY <1>1, <2>1, <2>2 DEF CallerFits, CalleeFits
    <2>4. l \notin Cisco
      BY <1>1, <2>3 DEF Patched
    <2>5. PICK m : m = Peer(l)
      OBVIOUS
    <2>6. AsksOnly(l, m)'
      BY <1>1, <2>2, <2>5 DEF AsksOnly
    <2>7. l = Caller => ~awaited'[l] /\ \A w \in walk'[l] : ~w.msg.offer
      BY <1>1, <1>4, <2>1, <2>3 DEF CallerFits
    <2>8. QED
      BY <1>0, <1>1, <1>4, <1>6, <2>4, <2>5, <2>6, <2>7, PlainAfter
  <1>11. QED
    BY <1>5, <1>7, <1>8, <1>9, <1>10 DEF CallInv, Fits

LEMMA StartPatchStep ==
    ASSUME CallInv, NEW l \in Sip, StartPatch(l)
    PROVE  CallInv'
  <1>0. TypeOK /\ LegsFit /\ StashFits /\ Fits /\ PlainFits
    BY CallParts
  <1>1. PICK msg \in owed[l] :
            /\ owed' = [owed EXCEPT ![l] = {}]
            /\ walk' = [walk EXCEPT ![l] =
                   {[msg |-> msg, fast |-> BridgePeer(l) # {}, due |-> Candidates(l),
                     seen |-> {}]}]
            /\ asked' = [asked EXCEPT ![l] = Candidates(l)]
            /\ moved' = [moved EXCEPT ![l] = FALSE]
            /\ UNCHANGED <<legs, gone, bridge, up, winner, line, stash, shows,
                           awaited, pane, hint, plain>>
    BY DEF StartPatch, callVars
  <1>2. msg \in Message
    BY <1>0, <1>1 DEF TypeOK
  <1>3. PICK w : w = [msg |-> msg, fast |-> BridgePeer(l) # {}, due |-> Candidates(l),
                      seen |-> {}]
    OBVIOUS
  <1>4. /\ w.msg = msg /\ (w.fast <=> BridgePeer(l) # {})
        /\ w.due = Candidates(l) /\ w.seen = {}
    BY <1>3
  <1>5. /\ BridgePeer(l) \subseteq legs \cap Sip /\ l \notin BridgePeer(l)
        /\ Candidates(l) \subseteq legs \ {l}
    BY <1>0 DEF BridgePeer, Candidates, TypeOK
  <1>6. w \in Walk
    <2>1. Candidates(l) \subseteq Legs
      BY <1>0, <1>5 DEF TypeOK
    <2>2. QED
      BY <1>2, <1>3, <2>1 DEF Walk
  <1>7. walk' = [walk EXCEPT ![l] = {w}]
    BY <1>1, <1>3
  <1>8. /\ owed'[l] = {} /\ walk'[l] = {w}
        /\ asked'[l] = Candidates(l) /\ ~moved'[l]
        /\ \A k \in Sip \ {l} : /\ owed'[k] = owed[k] /\ walk'[k] = walk[k]
                                /\ asked'[k] = asked[k] /\ moved'[k] = moved[k]
    BY <1>0, <1>1, <1>7 DEF TypeOK
  <1>9. TypeOK'
    <2>1. owed' \in [Sip -> SUBSET Message] /\ walk' \in [Sip -> SUBSET Walk]
      BY <1>0, <1>1, <1>6, <1>7 DEF TypeOK
    <2>2. \A k \in Sip : /\ \A m, n \in owed'[k] : m = n
                         /\ \A x, y \in walk'[k] : x = y
      BY <1>0, <1>8 DEF TypeOK
    <2>3. asked' \in [Sip -> SUBSET Legs] /\ moved' \in [Sip -> BOOLEAN]
      <3>1. Candidates(l) \subseteq Legs
        BY <1>0, <1>5 DEF TypeOK
      <3>2. QED
        BY <1>0, <1>1, <3>1 DEF TypeOK
    <2>4. QED
      BY <1>0, <1>1, <2>1, <2>2, <2>3 DEF TypeOK
  <1>10. l \in legs /\ ~Idle(l)
    BY <1>0, <1>1 DEF LegsFit, Idle
  <1>11. LegsFit'
    <2>1. \A k \in Sip : k \notin legs => Idle(k)'
      BY <1>0, <1>8, <1>10 DEF LegsFit, Idle
    <2>2. \A k \in Sip : asked'[k] \subseteq (legs \cup gone) \ {k}
      BY <1>0, <1>5, <1>8 DEF LegsFit
    <2>3. QED
      BY <1>0, <1>1, <2>1, <2>2 DEF LegsFit
  <1>12. Fits'
    <2>1. Seen(w) = {}
      BY <1>4 DEF Seen
    <2>2. IF w.fast THEN BridgePeer(l) = w.due
          ELSE BridgePeer(l) = {} /\ legs \cap Sip \subseteq w.due \cup {l}
      BY <1>4 DEF Candidates
    <2>3. BridgePeer(l)' = BridgePeer(l)
      BY <1>1 DEF BridgePeer
    <2>4. WalkFits(l)'
      BY <1>1, <1>4, <1>5, <1>8, <2>1, <2>2, <2>3 DEF WalkFits, Seen
    <2>5. PaneFits(l)'
      BY <1>8 DEF PaneFits
    <2>6. QED
      BY <1>0, <1>1, <1>8, <2>4, <2>5, OthersFit
  <1>13. StashFits'
    BY <1>0, <1>1 DEF StashFits
  <1>14. PlainFits'
    <2> SUFFICES ASSUME plain PROVE PlainFits'
      BY <1>1 DEF PlainFits
    <2>1. CallerFits
      BY <1>0 DEF PlainFits
    <2>2. BridgePeer(l) = {} /\ Peer(l) # l
      BY <1>0, <1>10, PlainAsk
    <2>3. PICK m : m = Peer(l)
      OBVIOUS
    <2>4. AsksOnly(l, m)'
      <3>1. ~w.fast /\ (m \in legs => m \in w.due)
        BY <1>4, <2>2, <2>3 DEF Candidates
      <3>2. QED
        BY <1>1, <1>4, <1>8, <3>1 DEF AsksOnly
    <2>5. l = Caller => ~awaited'[l] /\ \A x \in walk'[l] : ~x.msg.offer
      BY <1>1, <1>4, <1>8, <2>1 DEF CallerFits
    <2>6. walk'[l] # {}
      BY <1>8
    <2>7. QED
      BY <1>0, <1>1, <1>8, <1>10, <2>3, <2>4, <2>5, <2>6, PlainAfter
  <1>15. QED
    BY <1>9, <1>11, <1>12, <1>13, <1>14 DEF CallInv, Fits

LEMMA PeerHadVideoCbStep ==
    ASSUME CallInv, NEW l \in Sip, NEW c \in Legs, PeerHadVideoCb(l, c)
    PROVE  CallInv'
  <1>0. TypeOK /\ LegsFit /\ StashFits /\ Fits /\ PlainFits
    BY CallParts
  <1>1. PICK w \in walk[l] :
            /\ c \in (IF w.fast THEN w.due ELSE legs) \ (Seen(w) \cup {l})
            /\ walk' = [walk EXCEPT ![l] =
                   {[w EXCEPT !.seen = @ \cup {[leg |-> c, state |-> stash[c]]}]}]
            /\ UNCHANGED <<legs, gone, bridge, up, winner, line, stash, shows, owed,
                           awaited, pane, hint, asked, moved, plain>>
    BY DEF PeerHadVideoCb, callVars
  <1>2. PICK v : v = [leg |-> c, state |-> stash[c]]
    OBVIOUS
  <1>3. PICK x : x = [w EXCEPT !.seen = w.seen \cup {v}]
    OBVIOUS
  <1>4. w \in Walk /\ walk[l] = {w}
    BY <1>0, <1>1 DEF TypeOK
  <1>5. v.leg = c /\ v.state = stash[c]
    BY <1>2
  <1>6. /\ x.msg = w.msg /\ x.fast = w.fast /\ x.due = w.due
        /\ x.seen = w.seen \cup {v}
    BY <1>3, <1>4 DEF Walk
  <1>7. x \in Walk
    <2>1. v \in [leg : Legs, state : State]
      BY <1>0, <1>2 DEF TypeOK
    <2>2. w.seen \cup {v} \subseteq [leg : Legs, state : State]
      BY <1>4, <2>1 DEF Walk
    <2>3. QED
      BY <1>3, <1>4, <2>2 DEF Walk
  <1>8. walk' = [walk EXCEPT ![l] = {x}]
    BY <1>1, <1>2, <1>3
  <1>9. walk'[l] = {x} /\ \A k \in Sip \ {l} : walk'[k] = walk[k]
    BY <1>0, <1>8 DEF TypeOK
  <1>10. TypeOK'
    <2>1. walk' \in [Sip -> SUBSET Walk]
      BY <1>0, <1>7, <1>8 DEF TypeOK
    <2>2. \A k \in Sip : \A y, z \in walk'[k] : y = z
      BY <1>0, <1>9 DEF TypeOK
    <2>3. QED
      BY <1>0, <1>1, <2>1, <2>2 DEF TypeOK
  <1>11. l \in legs /\ ~Idle(l)
    BY <1>0, <1>1 DEF LegsFit, Idle
  <1>12. LegsFit'
    <2>1. \A k \in Sip : k \notin legs => Idle(k)'
      BY <1>0, <1>1, <1>9, <1>11 DEF LegsFit, Idle
    <2>2. QED
      BY <1>0, <1>1, <2>1 DEF LegsFit
  <1>13. Fits'
    <2>1. /\ l \notin w.due \cup Seen(w)
          /\ asked[l] \subseteq w.due
          /\ \A y \in w.seen : y.leg \in asked[l] => y.state = stash[y.leg]
          /\ ~moved[l] =>
                /\ asked[l] = w.due
                /\ Seen(w) \cap Sip \subseteq w.due
                /\ IF w.fast THEN BridgePeer(l) = w.due
                   ELSE BridgePeer(l) = {} /\ legs \cap Sip \subseteq w.due \cup {l}
      BY <1>0, <1>1 DEF Fits, WalkFits
    <2>2. Seen(x) = Seen(w) \cup {c} /\ c # l
      BY <1>1, <1>5, <1>6 DEF Seen
    <2>3. BridgePeer(l)' = BridgePeer(l)
      BY <1>1 DEF BridgePeer
    <2>4. \A y \in x.seen : y.leg \in asked[l] => y.state = stash[y.leg]
      BY <1>5, <1>6, <2>1
    <2>5. ~moved[l] /\ c \in Sip => c \in w.due
      BY <1>1, <2>1
    <2>6. /\ l \notin x.due \cup Seen(x)
          /\ asked[l] \subseteq x.due
          /\ ~moved[l] =>
                /\ asked[l] = x.due
                /\ Seen(x) \cap Sip \subseteq x.due
                /\ IF x.fast THEN BridgePeer(l) = x.due
                   ELSE BridgePeer(l) = {} /\ legs \cap Sip \subseteq x.due \cup {l}
      BY <1>6, <2>1, <2>2, <2>5
    <2>7. WalkFits(l)'
      BY <1>1, <1>9, <2>3, <2>4, <2>6 DEF WalkFits, Seen
    <2>8. PaneFits(l)'
      BY <1>9 DEF PaneFits
    <2>9. QED
      BY <1>0, <1>1, <1>9, <2>7, <2>8, OthersFit
  <1>14. StashFits'
    BY <1>0, <1>1 DEF StashFits
  <1>15. PlainFits'
    <2> SUFFICES ASSUME plain PROVE PlainFits'
      BY <1>1 DEF PlainFits
    <2>1. /\ CallerFits /\ \A d \in legs \cap Callees : CalleeFits(d)
      BY <1>0 DEF PlainFits
    <2>2. /\ AsksOnly(l, Peer(l)) /\ legs \cap Sip \subseteq {l, Peer(l)}
          /\ l # Caller => l \in legs \cap Callees /\ l \notin up
      BY <1>0, <1>11, PlainAsk
    <2>3. PICK m : m = Peer(l)
      OBVIOUS
    <2>4. AsksOnly(l, m)'
      <3>1. /\ ~w.fast /\ (m \in legs => m \in w.due)
            /\ \A y \in w.seen : y.leg \in Sip => y.leg = m /\ y.state = stash[m]
        BY <1>1, <2>2, <2>3 DEF AsksOnly
      <3>2. c \in Sip => c = m
        BY <1>1, <2>2, <2>3, <3>1
      <3>3. \A y \in x.seen : y.leg \in Sip => y.leg = m /\ y.state = stash[m]
        BY <1>5, <1>6, <3>1, <3>2
      <3>4. QED
        BY <1>1, <1>6, <1>9, <3>1, <3>3 DEF AsksOnly
    <2>5. l = Caller => ~awaited'[l] /\ \A y \in walk'[l] : ~y.msg.offer
      BY <1>1, <1>6, <1>9, <2>1 DEF CallerFits
    <2>6. owed'[l] = owed[l] /\ walk'[l] # {}
      BY <1>1, <1>9
    <2>7. QED
      BY <1>0, <1>1, <1>9, <1>11, <2>3, <2>4, <2>5, <2>6, PlainAfter
  <1>16. QED
    BY <1>10, <1>12, <1>13, <1>14, <1>15 DEF CallInv, Fits

\* An imageattr is that of a phone that sent one.
LEMMA ImageattrType ==
    ASSUME TypeOK, StashFits, NEW l \in Sip, NEW h \in PeerImageattr(l)
    PROVE  /\ h \in Sip \cup {"default"}
           /\ h = "default" => \A c \in Candidates(l) : ~stash[c].value
  <1>1. Candidates(l) \subseteq Legs
    BY DEF Candidates, BridgePeer, TypeOK
  <1>2. \A c \in Candidates(l) : stash[c].value => c \in Sip
    BY <1>1, Cast DEF StashFits, NoState
  <1>3. QED
    BY <1>1, <1>2, Cast DEF PeerImageattr

\* What a patch decides when it has been round.
LEMMA PatchFits ==
    ASSUME TypeOK, LegsFit, StashFits, NEW l \in Sip, NEW w \in walk[l], WalkFits(l),
           (IF w.fast THEN w.due ELSE w.due \cap legs) \subseteq Seen(w)
    PROVE  /\ PeerHadNoVideo(w) =>
                 \A c \in asked[l] \cap legs \cap Sip : shows[c] # "video"
           /\ ~PeerHadNoVideo(w) /\ ~moved[l] =>
                 \E c \in asked[l] \cap Sip : shows[c] # "voice"
           /\ ~moved[l] => asked[l] \subseteq Candidates(l) \cup (Legs \ legs)
  <1>1. /\ asked[l] \subseteq w.due
        /\ \A v \in w.seen : v.leg \in asked[l] => v.state = stash[v.leg]
        /\ ~moved[l] =>
              /\ asked[l] = w.due
              /\ Seen(w) \cap Sip \subseteq w.due
              /\ IF w.fast THEN BridgePeer(l) = w.due
                 ELSE BridgePeer(l) = {} /\ legs \cap Sip \subseteq w.due \cup {l}
    BY DEF WalkFits
  <1>2. ASSUME PeerHadNoVideo(w), NEW c \in asked[l] \cap legs \cap Sip
        PROVE  shows[c] # "video"
    <2>1. c \in Seen(w)
      BY <1>1
    <2>2. PICK v \in w.seen : v.leg = c
      BY <2>1 DEF Seen
    <2>3. v.state = stash[c] /\ ~v.state.had_video
      BY <1>1, <1>2, <2>2 DEF PeerHadNoVideo
    <2>4. QED
      BY <2>3 DEF StashFits
  <1>3. ASSUME ~PeerHadNoVideo(w), ~moved[l]
        PROVE  \E c \in asked[l] \cap Sip : shows[c] # "voice"
    <2>1. \A v \in w.seen : v.leg \in Sip => v.leg \in asked[l] /\ v.state = stash[v.leg]
      BY <1>1, <1>3 DEF Seen
    <2>2. CASE \E v \in w.seen : v.leg \in Sip /\ v.state.had_video
      <3>1. PICK v \in w.seen : v.leg \in Sip /\ v.state.had_video
        BY <2>2
      <3>2. v.leg \in asked[l] \cap Sip /\ shows[v.leg] = "video"
        BY <2>1, <3>1 DEF StashFits
      <3>3. QED
        BY <3>2
    <2>3. CASE \E v \in w.seen : v.leg \in Sip /\ ~v.state.observed
      <3>1. PICK v \in w.seen : v.leg \in Sip /\ ~v.state.observed
        BY <2>3
      <3>2. v.leg \in asked[l] \cap Sip /\ shows[v.leg] = "nothing"
        BY <2>1, <3>1 DEF StashFits
      <3>3. QED
        BY <3>2
    <2>4. QED
      BY <1>3, <2>2, <2>3 DEF PeerHadNoVideo
  <1>4. ASSUME ~moved[l]
        PROVE  asked[l] \subseteq Candidates(l) \cup (Legs \ legs)
    <2>1. asked[l] \subseteq Legs /\ l \notin asked[l]
      BY DEF TypeOK, LegsFit
    <2>2. QED
      BY <1>1, <1>4, <2>1 DEF Candidates
  <1>5. QED
    BY <1>2, <1>3, <1>4

LEMMA PatchVideoMediaStep ==
    ASSUME CallInv, NEW l \in Sip, PatchVideoMedia(l)
    PROVE  CallInv'
  <1>0. TypeOK /\ LegsFit /\ StashFits /\ Fits /\ PlainFits
    BY CallParts
  <1>1. PICK w \in walk[l] :
            /\ (IF w.fast THEN w.due ELSE w.due \cap legs) \subseteq Seen(w)
            /\ walk' = [walk EXCEPT ![l] = {}]
            /\ IF PeerHadNoVideo(w) THEN Sent(l, w.msg, "refused", NoLeg)
               ELSE \E h \in PeerImageattr(l) : Sent(l, w.msg, "open", h)
            /\ asked' = [asked EXCEPT ![l] = @ \ (legs \ Candidates(l))]
            /\ UNCHANGED <<legs, gone, bridge, up, winner, line, stash, shows, owed,
                           moved, plain>>
    BY DEF PatchVideoMedia, callVars
  <1>2. PICK p, h :
            /\ Sent(l, w.msg, p, h)
            /\ p = IF PeerHadNoVideo(w) THEN "refused" ELSE "open"
            /\ h \in Sip \cup {"default", NoLeg}
            /\ h = "default" => \A c \in Candidates(l) : ~stash[c].value
    <2>1. CASE PeerHadNoVideo(w)
      BY <1>1, <2>1 DEF NoLeg
    <2>2. CASE ~PeerHadNoVideo(w)
      <3>1. PICK h \in PeerImageattr(l) : Sent(l, w.msg, "open", h)
        BY <1>1, <2>2
      <3>2. /\ h \in Sip \cup {"default"}
            /\ h = "default" => \A c \in Candidates(l) : ~stash[c].value
        BY <1>0, ImageattrType
      <3>3. QED
        BY <2>2, <3>1, <3>2
    <2>3. QED
      BY <2>1, <2>2
  <1>3. /\ awaited' = [awaited EXCEPT ![l] = w.msg.offer]
        /\ pane' = [pane EXCEPT ![l] = p]
        /\ hint' = [hint EXCEPT ![l] = h]
    BY <1>2 DEF Sent
  <1>4. w.msg.offer \in BOOLEAN
    BY <1>0, <1>1 DEF TypeOK, Walk, Message
  <1>5. /\ walk'[l] = {} /\ awaited'[l] = w.msg.offer /\ pane'[l] = p /\ hint'[l] = h
        /\ asked'[l] = asked[l] \ (legs \ Candidates(l))
        /\ \A k \in Sip \ {l} : /\ walk'[k] = walk[k] /\ awaited'[k] = awaited[k]
                                /\ pane'[k] = pane[k] /\ hint'[k] = hint[k]
                                /\ asked'[k] = asked[k]
    BY <1>0, <1>1, <1>3 DEF TypeOK
  <1>6. TypeOK'
    <2>1. walk' \in [Sip -> SUBSET Walk] /\ \A k \in Sip : \A x, y \in walk'[k] : x = y
      BY <1>0, <1>1, <1>5 DEF TypeOK
    <2>2. /\ awaited' \in [Sip -> BOOLEAN]
          /\ pane' \in [Sip -> {"dark", "open", "refused"}]
          /\ hint' \in [Sip -> Sip \cup {"default", NoLeg}]
      BY <1>0, <1>2, <1>3, <1>4 DEF TypeOK
    <2>3. asked' \in [Sip -> SUBSET Legs]
      BY <1>0, <1>1 DEF TypeOK
    <2>4. QED
      BY <1>0, <1>1, <2>1, <2>2, <2>3 DEF TypeOK
  <1>7. l \in legs /\ ~Idle(l)
    BY <1>0, <1>1 DEF LegsFit, Idle
  <1>8. LegsFit'
    <2>1. \A k \in Sip : k \notin legs => Idle(k)'
      BY <1>0, <1>1, <1>5 DEF LegsFit, Idle
    <2>2. \A k \in Sip : k \notin legs \cup gone => shows[k] = "nothing" /\ ~awaited'[k]
      BY <1>0, <1>5, <1>7 DEF LegsFit
    <2>3. \A k \in Sip : asked'[k] \subseteq (legs \cup gone) \ {k}
      BY <1>0, <1>5 DEF LegsFit
    <2>4. QED
      BY <1>0, <1>1, <2>1, <2>2, <2>3 DEF LegsFit
  <1>9. Fits'
    <2>1. WalkFits(l)'
      BY <1>5 DEF WalkFits
    <2>2. /\ PeerHadNoVideo(w) =>
                 \A c \in asked[l] \cap legs \cap Sip : shows[c] # "video"
          /\ ~PeerHadNoVideo(w) /\ ~moved[l] =>
                 \E c \in asked[l] \cap Sip : shows[c] # "voice"
          /\ ~moved[l] => asked[l] \subseteq Candidates(l) \cup (Legs \ legs)
      BY <1>0, <1>1, PatchFits DEF Fits
    <2>3. p = "refused" => \A c \in asked'[l] \cap legs \cap Sip : shows[c] # "video"
      BY <1>2, <1>5, <2>2
    <2>4. p = "open" /\ ~moved[l] => \E c \in asked'[l] \cap Sip : shows[c] # "voice"
      BY <1>2, <1>5, <2>2
    <2>5. h = "default" => \A c \in asked'[l] \cap legs : ~stash[c].value
      BY <1>2, <1>5
    <2>6. PaneFits(l)'
      BY <1>1, <1>5, <2>3, <2>4, <2>5 DEF PaneFits
    <2>7. QED
      BY <1>0, <1>1, <1>5, <2>1, <2>6, OthersFit
  <1>10. StashFits'
    BY <1>0, <1>1 DEF StashFits
  <1>11. PlainFits'
    <2> SUFFICES ASSUME plain PROVE PlainFits'
      BY <1>1 DEF PlainFits
    <2>1. CallerFits
      BY <1>0 DEF PlainFits
    <2>2. AsksOnly(l, Peer(l)) /\ Peer(l) \in Sip
      BY <1>0, <1>7, PlainAsk
    <2>3. PICK m : m = Peer(l)
      OBVIOUS
    <2>4. AsksOnly(l, m)'
      BY <1>5 DEF AsksOnly
    <2>5. l = Caller => ~awaited'[l] /\ \A x \in walk'[l] : ~x.msg.offer
      BY <1>1, <1>5, <2>1 DEF CallerFits
    <2>6. m \in legs => Agrees(l, m)'
      <3> SUFFICES ASSUME m \in legs, shows[m] # "nothing"
                   PROVE  p = "open" <=> shows[m] = "video"
        BY <1>1, <1>5 DEF Agrees
      <3>1. /\ m \in w.due
            /\ \A v \in w.seen : v.leg \in Sip => v.leg = m /\ v.state = stash[m]
        BY <1>1, <2>2, <2>3 DEF AsksOnly
      <3>2. PICK v \in w.seen : v.leg = m
        BY <1>1, <3>1 DEF Seen
      <3>3. m \in Sip /\ stash[m].observed
        BY <1>0, <2>2, <2>3 DEF StashFits
      <3>4. PeerHadNoVideo(w) <=> ~stash[m].had_video
        BY <3>1, <3>2, <3>3 DEF PeerHadNoVideo
      <3>5. stash[m].had_video <=> shows[m] = "video"
        BY <1>0, <3>3 DEF StashFits
      <3>6. QED
        BY <1>2, <3>4, <3>5
    <2>7. QED
      BY <1>0, <1>1, <1>5, <1>7, <2>3, <2>4, <2>5, <2>6, PlainAfter
  <1>12. QED
    BY <1>6, <1>8, <1>9, <1>10, <1>11 DEF CallInv, Fits

-----------------------------------------------------------------------------
(* What the server does with the call.                                      *)

LEMMA DialStep ==
    ASSUME CallInv, NEW c \in Callees, Dial(c)
    PROVE  CallInv'
  <1>0. TypeOK /\ LegsFit /\ StashFits /\ Fits /\ PlainFits
    BY CallParts
  <1>1. /\ Caller \in legs /\ c \notin legs /\ c \notin gone
        /\ plain' = (plain /\ legs \cap Callees = {} /\ winner = NoLeg)
        /\ legs' = legs \cup {c}
        /\ moved' = [m \in Sip |-> TRUE]
        /\ line' = [line EXCEPT ![c] = TRUE]
        /\ Owe(c, "INVITE", TRUE)
        /\ UNCHANGED <<gone, bridge, up, winner, stash, shows, walk, awaited, pane,
                       hint, asked>>
    BY DEF Dial, Everywhere
  <1>2. c \in Sip /\ c \in Legs /\ c # Caller
    BY Cast
  <1>3. /\ owed' \in [Sip -> SUBSET Message]
        /\ \A k \in Sip : \A m, n \in owed'[k] : m = n
        /\ \A k \in Sip \ {c} : owed'[k] = owed[k]
        /\ owed'[c] = {[method |-> "INVITE", offer |-> TRUE]}
    BY <1>0, <1>1, <1>2, OweType
  <1>4. TypeOK'
    <2>1. legs' \subseteq Legs /\ bridge' \subseteq legs' \cap Sip
      BY <1>0, <1>1, <1>2 DEF TypeOK
    <2>2. line' \in [Sip -> BOOLEAN] /\ moved' \in [Sip -> BOOLEAN] /\ plain' \in BOOLEAN
      BY <1>0, <1>1, <1>2 DEF TypeOK
    <2>3. QED
      BY <1>0, <1>1, <1>3, <2>1, <2>2 DEF TypeOK
  <1>5. LegsFit'
    <2>1. \A k \in Sip : k \notin legs' => Idle(k)'
      BY <1>0, <1>1, <1>3 DEF LegsFit, Idle
    <2>2. \A k \in Sip : asked'[k] \subseteq (legs' \cup gone') \ {k}
      BY <1>0, <1>1 DEF LegsFit
    <2>3. legs' \cap gone' = {} /\ up' \subseteq legs' \cup gone' /\ Caller \in legs'
      BY <1>0, <1>1 DEF LegsFit
    <2>4. QED
      BY <1>0, <1>1, <2>1, <2>2, <2>3 DEF LegsFit
  <1>6. Fits'
    <2>1. \A k \in Sip : asked[k] \cap legs' \subseteq legs
      BY <1>0, <1>1 DEF LegsFit
    <2>2. \A k \in Sip : moved'[k]
      BY <1>1
    <2>3. QED
      BY <1>0, <1>1, <2>1, <2>2, ServerFits
  <1>7. StashFits'
    BY <1>0, <1>1 DEF StashFits
  <1>8. PlainFits'
    <2> SUFFICES ASSUME plain, legs \cap Callees = {}, winner = NoLeg PROVE PlainFits'
      BY <1>1 DEF PlainFits
    <2>1. CallerFits
      BY <1>0 DEF PlainFits
    <2>2. CallerFits'
      <3>1. Idle(Caller) /\ Idle(Caller)'
        BY <1>1, <1>2, <1>3, <2>1, Cast DEF CallerFits, Idle
      <3>2. winner' = NoLeg /\ winner' \notin legs'
        BY <1>0, <1>1, <1>2, Cast DEF TypeOK
      <3>3. QED
        BY <1>1, <1>2, <1>3, <2>1, <3>1, <3>2, Cast DEF CallerFits, AsksOnly, Idle
    <2>3. legs' \cap Callees = {c}
      BY <1>1
    <2>4. CalleeFits(c)'
      <3>1. walk[c] = {} /\ c \notin up /\ shows[c] = "nothing"
        BY <1>0, <1>1, <1>2 DEF LegsFit, Idle
      <3>2. ~Idle(c)'
        BY <1>3 DEF Idle
      <3>3. \A msg \in owed'[c] : msg.method = "INVITE"
        BY <1>3
      <3>4. AsksOnly(c, Caller)'
        BY <1>1, <3>1 DEF AsksOnly
      <3>5. QED
        BY <1>1, <3>1, <3>2, <3>3, <3>4 DEF CalleeFits
    <2>5. QED
      BY <2>2, <2>3, <2>4 DEF PlainFits
  <1>9. QED
    BY <1>4, <1>5, <1>6, <1>7, <1>8 DEF CallInv, Fits

LEMMA AddHelperStep ==
    ASSUME CallInv, NEW h \in Helpers, AddHelper(h)
    PROVE  CallInv'
  <1>0. TypeOK /\ LegsFit /\ StashFits /\ Fits /\ PlainFits
    BY CallParts
  <1>1. /\ legs # {} /\ h \notin legs /\ h \notin gone
        /\ legs' = legs \cup {h}
        /\ UNCHANGED <<gone, bridge, line, up, winner, stash, shows, owed, walk, awaited,
                       pane, hint, asked, moved, plain>>
    BY DEF AddHelper, sendVars
  <1>2. h \in Legs /\ h \notin Sip
    BY Cast
  <1>3. TypeOK'
    BY <1>0, <1>1, <1>2 DEF TypeOK
  <1>4. LegsFit'
    <2>1. \A k \in Sip : k \notin legs' => Idle(k)'
      BY <1>0, <1>1 DEF LegsFit, Idle
    <2>2. \A k \in Sip : asked'[k] \subseteq (legs' \cup gone') \ {k}
      BY <1>0, <1>1 DEF LegsFit
    <2>3. legs' \cap gone' = {} /\ up' \subseteq legs' \cup gone' /\ Caller \in legs'
      BY <1>0, <1>1 DEF LegsFit
    <2>4. QED
      BY <1>0, <1>1, <2>1, <2>2, <2>3 DEF LegsFit
  <1>5. Fits'
    <2>1. \A k \in Sip : asked[k] \cap legs' \subseteq legs
      BY <1>0, <1>1 DEF LegsFit
    <2>2. \A k \in Sip : BridgePeer(k)' = BridgePeer(k)
      BY <1>1 DEF BridgePeer
    <2>3. legs' \cap Sip \subseteq legs \cap Sip
      BY <1>1, <1>2
    <2>4. QED
      BY <1>0, <1>1, <2>1, <2>2, <2>3, ServerFits
  <1>6. StashFits'
    BY <1>0, <1>1 DEF StashFits
  <1>7. PlainFits'
    <2> SUFFICES ASSUME plain PROVE PlainFits'
      BY <1>1 DEF PlainFits
    <2>1. /\ CallerFits /\ \A c \in legs \cap Callees : CalleeFits(c)
          /\ \A c, d \in legs \cap Callees : c = d
      BY <1>0 DEF PlainFits
    <2>2. legs' \cap Callees = legs \cap Callees
      BY <1>1, <1>2, Cast
    <2>3. \A m \in Sip \cup {NoLeg} : m \in legs' <=> m \in legs
      BY <1>1, <1>2, Cast
    <2>4. ASSUME NEW c \in legs \cap Callees
          PROVE  CalleeFits(c)'
      <3>1. CalleeFits(c)
        BY <2>1
      <3>2. AsksOnly(c, Caller)'
        BY <1>1, <2>3, <3>1, Cast DEF AsksOnly, CalleeFits
      <3>3. QED
        BY <1>1, <3>1, <3>2 DEF CalleeFits, Idle, Agrees
    <2>5. CallerFits'
      <3>1. winner \in Sip \cup {NoLeg}
        BY <1>0, Cast DEF TypeOK
      <3>2. AsksOnly(Caller, winner)'
        BY <1>1, <2>1, <2>3, <3>1 DEF AsksOnly, CallerFits
      <3>3. winner' \in legs' <=> winner \in legs
        BY <1>1, <2>3, <3>1
      <3>4. Idle(Caller)' <=> Idle(Caller)
        BY <1>1 DEF Idle
      <3>5. Agrees(Caller, winner)' <=> Agrees(Caller, winner)
        BY <1>1 DEF Agrees
      <3>6. QED
        BY <1>1, <2>1, <2>2, <3>2, <3>3, <3>4, <3>5 DEF CallerFits
    <2>6. QED
      BY <2>1, <2>2, <2>4, <2>5 DEF PlainFits
  <1>8. QED
    BY <1>3, <1>4, <1>5, <1>6, <1>7 DEF CallInv, Fits

\* The answer to the caller, with video or without.
LEMMA AnswerCallerType ==
    ASSUME TypeOK, NEW final \in BOOLEAN, AnswerCaller(final)
    PROVE  /\ owed' \in [Sip -> SUBSET Message]
           /\ \A k \in Sip : \A m, n \in owed'[k] : m = n
           /\ \A k \in Sip \ {Caller} : owed'[k] = owed[k]
           /\ line[Caller] => owed'[Caller] = {[method |-> "INVITE", offer |-> FALSE]}
           /\ ~line[Caller] => owed'[Caller] = owed[Caller]
           /\ up' \subseteq up \cup {Caller} /\ up \subseteq up'
           /\ final => Caller \in up'
  <1>1. /\ up' \subseteq up \cup {Caller} /\ up \subseteq up'
        /\ final => Caller \in up'
    BY DEF AnswerCaller
  <1>2. CASE line[Caller]
    BY <1>1, <1>2, Cast, OweType DEF AnswerCaller
  <1>3. CASE ~line[Caller]
    BY <1>1, <1>3 DEF AnswerCaller, TypeOK
  <1>4. QED
    BY <1>2, <1>3

\* Messages that wait for legs that are there.
LEMMA OwedLegs ==
    ASSUME LegsFit, NEW l \in Sip, l \in legs, UNCHANGED <<legs, walk>>,
           \A k \in Sip \ {l} : owed'[k] = owed[k]
    PROVE  \A k \in Sip : k \notin legs' => Idle(k)'
  BY DEF LegsFit, Idle

LEMMA AnswerEarlyStep ==
    ASSUME CallInv, NEW final \in BOOLEAN, AnswerEarly(final)
    PROVE  CallInv'
  <1>0. TypeOK /\ LegsFit /\ StashFits /\ Fits
    BY CallParts
  <1>1. /\ Caller \in legs /\ ~plain' /\ plain' \in BOOLEAN
        /\ AnswerCaller(final)
        /\ UNCHANGED <<legs, gone, bridge, winner, line, stash, shows, walk, awaited,
                       pane, hint, asked, moved>>
    BY DEF AnswerEarly, Odd
  <1>2. /\ owed' \in [Sip -> SUBSET Message]
        /\ \A k \in Sip : \A m, n \in owed'[k] : m = n
        /\ \A k \in Sip \ {Caller} : owed'[k] = owed[k]
        /\ up' \subseteq up \cup {Caller}
    BY <1>0, <1>1, AnswerCallerType
  <1>3. TypeOK'
    BY <1>0, <1>1, <1>2, Cast DEF TypeOK
  <1>4. LegsFit'
    <2>1. \A k \in Sip : k \notin legs' => Idle(k)'
      BY <1>0, <1>1, <1>2, Cast, OwedLegs
    <2>2. QED
      BY <1>0, <1>1, <1>2, <2>1 DEF LegsFit
  <1>5. Fits'
    <2>1. \A k \in Sip : BridgePeer(k)' = BridgePeer(k)
      BY <1>1 DEF BridgePeer
    <2>2. QED
      BY <1>0, <1>1, <2>1, ServerFits
  <1>6. StashFits' /\ PlainFits'
    BY <1>0, <1>1 DEF StashFits, PlainFits
  <1>7. QED
    BY <1>3, <1>4, <1>5, <1>6 DEF CallInv, Fits

LEMMA PickupStep ==
    ASSUME CallInv, NEW c \in Callees, Pickup(c)
    PROVE  CallInv'
  <1>0. TypeOK /\ LegsFit /\ StashFits /\ Fits /\ PlainFits
    BY CallParts
  <1>1. /\ winner = NoLeg /\ c \in up \cap legs /\ Caller \in legs /\ Idle(Caller)
        /\ winner' = c
        /\ IF Caller \in up THEN UNCHANGED <<up, owed>> ELSE AnswerCaller(TRUE)
        /\ UNCHANGED <<legs, gone, bridge, line, stash, shows, walk, awaited, pane,
                       hint, asked, moved, plain>>
    BY DEF Pickup
  <1>2. /\ owed' \in [Sip -> SUBSET Message]
        /\ \A k \in Sip : \A m, n \in owed'[k] : m = n
        /\ \A k \in Sip \ {Caller} : owed'[k] = owed[k]
        /\ up' \subseteq up \cup {Caller} /\ up \subseteq up'
    <2>1. CASE Caller \in up
      BY <1>0, <1>1, <2>1 DEF TypeOK
    <2>2. CASE Caller \notin up
      BY <1>0, <1>1, <2>2, AnswerCallerType
    <2>3. QED
      BY <2>1, <2>2
  <1>3. TypeOK'
    BY <1>0, <1>1, <1>2, Cast DEF TypeOK
  <1>4. LegsFit'
    <2>1. \A k \in Sip : k \notin legs' => Idle(k)'
      BY <1>0, <1>1, <1>2, Cast, OwedLegs
    <2>2. QED
      BY <1>0, <1>1, <1>2, <2>1 DEF LegsFit
  <1>5. Fits'
    <2>1. \A k \in Sip : BridgePeer(k)' = BridgePeer(k)
      BY <1>1 DEF BridgePeer
    <2>2. QED
      BY <1>0, <1>1, <2>1, ServerFits
  <1>6. StashFits'
    BY <1>0, <1>1 DEF StashFits
  <1>7. PlainFits'
    <2> SUFFICES ASSUME plain PROVE PlainFits'
      BY <1>1 DEF PlainFits
    <2>1. /\ CallerFits /\ \A d \in legs \cap Callees : CalleeFits(d)
          /\ \A d, e \in legs \cap Callees : d = e
      BY <1>0 DEF PlainFits
    <2>2. bridge = {} /\ Caller \notin up /\ c # NoLeg
      BY <1>1, <2>1, Cast DEF CallerFits
    <2>3. /\ line[Caller] => owed'[Caller] = {[method |-> "INVITE", offer |-> FALSE]}
          /\ ~line[Caller] => owed'[Caller] = owed[Caller]
      BY <1>0, <1>1, <2>2, AnswerCallerType
    <2>4. CallerFits'
      <3>1. line[Caller] => ~Idle(Caller)'
        BY <2>3 DEF Idle
      <3>2. \A msg \in owed'[Caller] : msg.method = "INVITE" /\ ~msg.offer
        BY <1>1, <2>3 DEF Idle
      <3>3. walk'[Caller] = {}
        BY <1>1 DEF Idle
      <3>4. legs' \cap Callees \subseteq {c} /\ c \in up'
        BY <1>1, <1>2, <2>1
      <3>5. AsksOnly(Caller, winner)'
        BY <3>3 DEF AsksOnly
      <3>6. QED
        BY <1>1, <2>1, <2>2, <3>1, <3>2, <3>3, <3>4, <3>5 DEF CallerFits
    <2>5. ASSUME NEW d \in legs \cap Callees
          PROVE  CalleeFits(d)'
      <3>1. CalleeFits(d) /\ d \in Sip \ {Caller}
        BY <2>1, <2>5, Cast
      <3>2. (d \in up' <=> d \in up) /\ owed'[d] = owed[d]
        BY <1>2, <3>1
      <3>3. Idle(d)' <=> Idle(d)
        BY <1>1, <3>2 DEF Idle
      <3>4. AsksOnly(d, Caller)' <=> AsksOnly(d, Caller)
        BY <1>1 DEF AsksOnly
      <3>5. Agrees(d, Caller)' <=> Agrees(d, Caller)
        BY <1>1 DEF Agrees
      <3>6. QED
        BY <1>1, <3>1, <3>2, <3>3, <3>4, <3>5 DEF CalleeFits
    <2>6. QED
      BY <1>1, <2>1, <2>4, <2>5 DEF PlainFits
  <1>8. QED
    BY <1>3, <1>4, <1>5, <1>6, <1>7 DEF CallInv, Fits

\* Legs are bridged: the caller is answered, so that nothing waits to be sent to it.
LEMMA BridgedFits ==
    ASSUME CallInv, bridge' \subseteq legs \cap Sip, Everywhere,
           plain => Idle(Caller) /\ winner # NoLeg,
           UNCHANGED <<legs, gone, up, winner, line, stash, shows, sendVars, plain>>
    PROVE  CallInv'
  <1>0. TypeOK /\ LegsFit /\ StashFits /\ Fits /\ PlainFits
    BY CallParts
  <1>1. /\ moved' = [m \in Sip |-> TRUE]
        /\ UNCHANGED <<legs, gone, up, winner, line, stash, shows, owed, walk, awaited,
                       pane, hint, asked, plain>>
    BY DEF Everywhere, sendVars
  <1>2. TypeOK'
    BY <1>0, <1>1 DEF TypeOK
  <1>3. LegsFit' /\ StashFits'
    BY <1>0, <1>1 DEF LegsFit, StashFits, Idle
  <1>4. Fits'
    BY <1>0, <1>1, ServerFits
  <1>5. PlainFits'
    <2> SUFFICES ASSUME plain PROVE PlainFits'
      BY <1>1 DEF PlainFits
    <2>1. /\ CallerFits /\ \A d \in legs \cap Callees : CalleeFits(d)
          /\ \A d, e \in legs \cap Callees : d = e
      BY <1>0 DEF PlainFits
    <2>2. CallerFits'
      BY <1>1, <2>1 DEF CallerFits, AsksOnly, Agrees, Idle
    <2>3. \A d \in legs \cap Callees : CalleeFits(d)'
      BY <1>1, <2>1 DEF CalleeFits, AsksOnly, Agrees, Idle
    <2>4. QED
      BY <1>1, <2>1, <2>2, <2>3 DEF PlainFits
  <1>6. QED
    BY <1>2, <1>3, <1>4, <1>5 DEF CallInv, Fits

LEMMA BridgeCallStep ==
    ASSUME CallInv, BridgeCall
    PROVE  CallInv'
  <1>1. TypeOK
    BY CallParts
  <1>2. /\ winner # NoLeg /\ {Caller, winner} \subseteq legs /\ Idle(Caller)
        /\ bridge' = {Caller, winner} /\ Everywhere
        /\ UNCHANGED <<legs, gone, up, winner, line, stash, shows, sendVars, plain>>
    BY DEF BridgeCall
  <1>3. bridge' \subseteq legs \cap Sip
    BY <1>1, <1>2, Cast DEF TypeOK
  <1>4. QED
    BY <1>2, <1>3, BridgedFits

LEMMA JoinStep ==
    ASSUME CallInv, NEW c \in Callees, Join(c)
    PROVE  CallInv'
  <1>1. TypeOK /\ PlainFits
    BY CallParts
  <1>2. /\ bridge # {} /\ c \in legs /\ bridge' = bridge \cup {c} /\ Everywhere
        /\ UNCHANGED <<legs, gone, up, winner, line, stash, shows, sendVars, plain>>
    BY DEF Join
  <1>3. bridge' \subseteq legs \cap Sip
    BY <1>1, <1>2, Cast DEF TypeOK
  <1>4. plain => Idle(Caller) /\ winner # NoLeg
    BY <1>1, <1>2 DEF PlainFits, CallerFits
  <1>5. QED
    BY <1>2, <1>3, <1>4, BridgedFits

LEMMA RefreshStep ==
    ASSUME CallInv, NEW l \in Sip, NEW method \in {"INVITE", "UPDATE"},
           Refresh(l, method)
    PROVE  CallInv'
  <1>0. TypeOK /\ LegsFit /\ StashFits /\ Fits
    BY CallParts
  <1>1. /\ l \in legs /\ ~plain' /\ plain' \in BOOLEAN
        /\ Owe(l, method, TRUE)
        /\ UNCHANGED <<legs, gone, bridge, up, winner, line, stash, shows, walk, awaited,
                       pane, hint, asked, moved>>
    BY DEF Refresh, Odd, callVars
  <1>2. /\ owed' \in [Sip -> SUBSET Message]
        /\ \A k \in Sip : \A m, n \in owed'[k] : m = n
        /\ \A k \in Sip \ {l} : owed'[k] = owed[k]
    BY <1>0, <1>1, OweType
  <1>3. TypeOK'
    BY <1>0, <1>1, <1>2 DEF TypeOK
  <1>4. LegsFit'
    <2>1. \A k \in Sip : k \notin legs' => Idle(k)'
      BY <1>0, <1>1, <1>2, OwedLegs
    <2>2. QED
      BY <1>0, <1>1, <2>1 DEF LegsFit
  <1>5. Fits'
    <2>1. \A k \in Sip : BridgePeer(k)' = BridgePeer(k)
      BY <1>1 DEF BridgePeer
    <2>2. QED
      BY <1>0, <1>1, <2>1, ServerFits
  <1>6. StashFits' /\ PlainFits'
    BY <1>0, <1>1 DEF StashFits, PlainFits
  <1>7. QED
    BY <1>3, <1>4, <1>5, <1>6 DEF CallInv, Fits

\* A bridge that falls apart when a leg from elsewhere goes was no bridge of two.
LEMMA BridgeOfOthers ==
    ASSUME NEW c, c \notin bridge, NEW k,
           bridge' = IF bridge \subseteq {Caller, c} THEN {} ELSE bridge \ {c}
    PROVE  BridgePeer(k)' = BridgePeer(k)
  <1>1. CASE bridge \subseteq {Caller, c}
    <2>1. bridge' = {} /\ bridge \subseteq {Caller}
      BY <1>1
    <2>2. Cardinality({}) = 0 /\ Cardinality({Caller}) = 1
      BY FS_EmptySet, FS_Singleton
    <2>3. bridge = {} \/ bridge = {Caller}
      BY <2>1
    <2>4. Cardinality(bridge) # 2 /\ Cardinality(bridge') # 2
      BY <2>1, <2>2, <2>3
    <2>5. QED
      BY <2>4 DEF BridgePeer
  <1>2. CASE ~(bridge \subseteq {Caller, c})
    <2>1. bridge' = bridge
      BY <1>2
    <2>2. QED
      BY <2>1 DEF BridgePeer
  <1>3. QED
    BY <1>1, <1>2

LEMMA HangupStep ==
    ASSUME CallInv, NEW c \in Legs, Hangup(c)
    PROVE  CallInv'
  <1>0. TypeOK /\ LegsFit /\ StashFits /\ Fits /\ PlainFits
    BY CallParts
  <1>1. /\ c \in legs /\ c # Caller
        /\ legs' = legs \ {c} /\ gone' = gone \cup {c}
        /\ bridge' = IF bridge \subseteq {Caller, c} THEN {} ELSE bridge \ {c}
        /\ UNCHANGED <<up, winner, line, stash, shows, awaited, pane, hint, asked, plain>>
    BY Cast DEF Hangup
  <1>2. /\ owed' \in [Sip -> SUBSET Message] /\ walk' \in [Sip -> SUBSET Walk]
        /\ \A k \in Sip : /\ k = c => owed'[k] = {} /\ walk'[k] = {}
                          /\ k # c => owed'[k] = owed[k] /\ walk'[k] = walk[k]
    <2>1. CASE c \in Sip
      <3>1. /\ owed' = [owed EXCEPT ![c] = {}]
            /\ walk' = [walk EXCEPT ![c] = {}]
        BY <2>1 DEF Hangup
      <3>2. QED
        BY <1>0, <3>1 DEF TypeOK
    <2>2. CASE c \notin Sip
      <3>1. UNCHANGED <<owed, walk>>
        BY <2>2 DEF Hangup
      <3>2. QED
        BY <1>0, <2>2, <3>1 DEF TypeOK
    <2>3. QED
      BY <2>1, <2>2
  <1>3. /\ c \in bridge => moved' = [m \in Sip |-> TRUE]
        /\ c \notin bridge => moved' = moved
    BY DEF Hangup, Everywhere
  <1>4. TypeOK'
    <2>1. \A k \in Sip : /\ \A m, n \in owed'[k] : m = n
                         /\ \A w, x \in walk'[k] : w = x
      BY <1>0, <1>2 DEF TypeOK
    <2>2. /\ legs' \subseteq Legs /\ gone' \subseteq Legs
          /\ bridge' \subseteq legs' \cap Sip
      BY <1>0, <1>1 DEF TypeOK
    <2>3. moved' \in [Sip -> BOOLEAN]
      BY <1>0, <1>3 DEF TypeOK
    <2>4. QED
      BY <1>0, <1>1, <1>2, <2>1, <2>2, <2>3 DEF TypeOK
  <1>5. LegsFit'
    <2>1. \A k \in Sip : k \notin legs' => Idle(k)'
      BY <1>0, <1>1, <1>2 DEF LegsFit, Idle
    <2>2. legs' \cup gone' = legs \cup gone
      BY <1>1
    <2>3. legs' \cap gone' = {} /\ Caller \in legs'
      BY <1>0, <1>1 DEF LegsFit
    <2>4. QED
      BY <1>0, <1>1, <2>1, <2>2, <2>3 DEF LegsFit
  <1>6. Fits'
    <2>1. ASSUME NEW k \in Sip, k = c
          PROVE  WalkFits(k)' /\ PaneFits(k)'
      BY <1>1, <1>2, <2>1 DEF WalkFits, PaneFits
    <2>2. ASSUME NEW k \in Sip, k # c
          PROVE  WalkFits(k)' /\ PaneFits(k)'
      <3>1. WalkFits(k) /\ PaneFits(k)
        BY <1>0 DEF Fits
      <3>2. /\ walk'[k] = walk[k] /\ pane'[k] = pane[k] /\ hint'[k] = hint[k]
            /\ asked'[k] = asked[k]
        BY <1>1, <1>2, <2>2
      <3>3. ~moved'[k] => c \notin bridge /\ ~moved[k]
        BY <1>3
      <3>4. ~moved'[k] => BridgePeer(k)' = BridgePeer(k)
        BY <1>1, <3>3, BridgeOfOthers
      <3>5. legs' \subseteq legs /\ (k \notin gone' => k \notin gone)
        BY <1>1
      <3>6. \A d \in asked'[k] : stash'[d] = stash[d] /\ (d \in Sip => shows'[d] = shows[d])
        BY <1>1
      <3>7. QED
        BY <3>1, <3>2, <3>3, <3>4, <3>5, <3>6, StillFits
    <2>3. QED
      BY <2>1, <2>2 DEF Fits
  <1>7. StashFits'
    BY <1>0, <1>1 DEF StashFits
  <1>8. PlainFits'
    <2> SUFFICES ASSUME plain PROVE PlainFits'
      BY <1>1 DEF PlainFits
    <2>1. /\ CallerFits /\ \A d \in legs \cap Callees : CalleeFits(d)
          /\ \A d, e \in legs \cap Callees : d = e
      BY <1>0 DEF PlainFits
    <2>2. legs' \subseteq legs /\ (bridge = {} => bridge' = {})
      BY <1>1
    <2>3. owed'[Caller] = owed[Caller] /\ walk'[Caller] = walk[Caller]
      BY <1>1, <1>2, Cast
    <2>4. CallerFits'
      <3>1. AsksOnly(Caller, winner)'
        BY <1>1, <2>1, <2>2, <2>3 DEF CallerFits, AsksOnly
      <3>2. Idle(Caller)' <=> Idle(Caller)
        BY <2>3 DEF Idle
      <3>3. Agrees(Caller, winner)' <=> Agrees(Caller, winner)
        BY <1>1 DEF Agrees
      <3>4. QED
        BY <1>1, <2>1, <2>2, <2>3, <3>1, <3>2, <3>3 DEF CallerFits
    <2>5. ASSUME NEW d \in legs' \cap Callees
          PROVE  CalleeFits(d)'
      <3>1. CalleeFits(d) /\ owed'[d] = owed[d] /\ walk'[d] = walk[d]
        BY <1>1, <1>2, <2>1, <2>5, Cast
      <3>2. Idle(d)' <=> Idle(d)
        BY <3>1 DEF Idle
      <3>3. AsksOnly(d, Caller)'
        BY <1>1, <2>2, <3>1 DEF CalleeFits, AsksOnly
      <3>4. Agrees(d, Caller)' <=> Agrees(d, Caller)
        BY <1>1 DEF Agrees
      <3>5. QED
        BY <1>1, <3>1, <3>2, <3>3, <3>4 DEF CalleeFits
    <2>6. QED
      BY <1>1, <2>1, <2>2, <2>4, <2>5 DEF PlainFits
  <1>9. QED
    BY <1>4, <1>5, <1>6, <1>7, <1>8 DEF CallInv, Fits

-----------------------------------------------------------------------------

LEMMA NextCall == CallInv /\ [Next]_vars => CallInv'
  <1> SUFFICES ASSUME CallInv, [Next]_vars PROVE CallInv'
    OBVIOUS
  <1>1. ASSUME NEW sdp \in MaybeSdp, IncomingInvite(sdp) PROVE CallInv'
    BY <1>1, IncomingInviteStep
  <1>2. ASSUME NEW l \in Sip, Phone(l) PROVE CallInv'
    BY <1>2, ReinviteStep, RespondStep DEF Phone
  <1>3. ASSUME NEW l \in Sip, Supplement(l) PROVE CallInv'
    BY <1>3, SendUnpatchedStep, StartPatchStep, PeerHadVideoCbStep, PatchVideoMediaStep
       DEF Supplement
  <1>4. ASSUME Server PROVE CallInv'
    <2>1. ASSUME NEW c \in Callees, Dial(c) \/ Pickup(c) \/ Join(c) PROVE CallInv'
      BY <2>1, DialStep, PickupStep, JoinStep
    <2>2. ASSUME NEW h \in Helpers, AddHelper(h) PROVE CallInv'
      BY <2>2, AddHelperStep
    <2>3. ASSUME NEW final \in BOOLEAN, AnswerEarly(final) PROVE CallInv'
      BY <2>3, AnswerEarlyStep
    <2>4. ASSUME NEW l \in Sip, NEW m \in {"INVITE", "UPDATE"}, Refresh(l, m) PROVE CallInv'
      BY <2>4, RefreshStep
    <2>5. ASSUME NEW c \in Legs, Hangup(c) PROVE CallInv'
      BY <2>5, HangupStep
    <2>6. QED
      BY <1>4, <2>1, <2>2, <2>3, <2>4, <2>5, BridgeCallStep DEF Server
  <1>5. CASE UNCHANGED vars
    <2>1. UNCHANGED <<legs, gone, bridge, up, winner, line, stash, shows, owed, walk,
                      awaited, pane, hint, asked, moved, plain>>
      BY <1>5 DEF vars, callVars, sendVars
    <2>2. BridgePeer(Caller)' = BridgePeer(Caller)
          /\ \A k \in Sip : BridgePeer(k)' = BridgePeer(k)
      BY <2>1 DEF BridgePeer
    <2>3. TypeOK' /\ LegsFit' /\ StashFits'
      BY <2>1 DEF CallInv, TypeOK, LegsFit, StashFits, Idle
    <2>4. Fits'
      BY <2>1, <2>2, CallParts, ServerFits DEF LegsFit
    <2>5. PlainFits'
      BY <2>1 DEF CallInv, PlainFits, CallerFits, CalleeFits, AsksOnly, Agrees, Idle
    <2>6. QED
      BY <2>3, <2>4, <2>5 DEF CallInv, Fits
  <1>6. QED
    BY <1>1, <1>2, <1>3, <1>4, <1>5 DEF Next

\* The invariant: what is on its way to a leg, what a patch has seen, and what
\* a phone was told fit what the legs said, in every order in which legs talk,
\* come, go and are bridged.
THEOREM CallInvariant == Spec => []CallInv
  <1>1. Init => CallInv
    BY InitCall
  <1>2. CallInv /\ [Next]_vars => CallInv'
    BY NextCall
  <1>3. QED
    BY <1>1, <1>2, PTL DEF Spec

\* No phone loses its video to another leg's silence: who had video all along
\* is never missed by cisco_h264_peer_had_video().
THEOREM VideoStaysKept == Spec => []VideoIsKept
  <1>1. CallInv => VideoIsKept
    <2> SUFFICES ASSUME CallInv, NEW l \in Sip, Told(l), pane[l] = "refused"
                 PROVE  \A c \in asked[l] \cap legs \cap Sip : shows[c] # "video"
      BY DEF VideoIsKept
    <2>1. l \notin gone /\ walk[l] = {}
      BY DEF CallInv, LegsFit, Told, Idle
    <2>2. QED
      BY <2>1 DEF CallInv, PaneFits
  <1>2. QED
    BY <1>1, CallInvariant, PTL

\* No black pane: video left open was somebody's, or of somebody yet unheard.
THEOREM OpenPanesHaveASource == Spec => []NoPhantomPane
  <1>1. CallInv => NoPhantomPane
    <2> SUFFICES ASSUME CallInv, NEW l \in Sip, Told(l), pane[l] = "open", ~moved[l]
                 PROVE  \E c \in asked[l] \cap Sip : shows[c] # "voice"
      BY DEF NoPhantomPane
    <2>1. l \notin gone /\ walk[l] = {}
      BY DEF CallInv, LegsFit, Told, Idle
    <2>2. QED
      BY <2>1 DEF CallInv, PaneFits
  <1>2. QED
    BY <1>1, CallInvariant, PTL

\* The default imageattr goes to those whose peers sent none.
THEOREM PeersAreMirrored == Spec => []MirrorsAPeer
  <1>1. CallInv => MirrorsAPeer
    <2> SUFFICES ASSUME CallInv, NEW l \in Sip, Told(l), hint[l] = "default"
                 PROVE  \A c \in asked[l] \cap legs : ~stash[c].value
      BY DEF MirrorsAPeer
    <2>1. l \notin gone /\ walk[l] = {}
      BY DEF CallInv, LegsFit, Told, Idle
    <2>2. QED
      BY <2>1 DEF CallInv, PaneFits
  <1>2. QED
    BY <1>1, CallInvariant, PTL

\* In a plain call each Cisco phone's pane agrees with what the other leg sent.
THEOREM PlainPanesAgree == Spec => []PanesAgree
  <1>1. CallInv => PanesAgree
    <2> SUFFICES ASSUME CallInv, NEW l \in bridge, NEW m \in bridge, plain, l # m,
                        Told(l), line[l], shows[m] # "nothing"
                 PROVE  pane[l] = "open" <=> shows[m] = "video"
      BY DEF PanesAgree
    <2>1. CallerFits /\ \A c \in legs \cap Callees : CalleeFits(c)
      BY DEF CallInv, PlainFits
    <2>2. l \in legs \cap Cisco /\ Idle(l)
      BY DEF Told
    <2>3. l \in legs \cap Sip /\ m \in legs \cap Sip
      BY DEF CallInv, TypeOK
    <2>4. winner # NoLeg /\ legs \cap Callees \subseteq {winner}
      BY <2>1 DEF CallerFits
    <2>5. CASE l = Caller
      <3>1. m = winner
        BY <2>3, <2>4, <2>5, Cast
      <3>2. Agrees(Caller, winner)
        BY <2>1, <2>2, <2>3, <2>5, <3>1 DEF CallerFits
      <3>3. QED
        BY <2>5, <3>1, <3>2 DEF Agrees
    <2>6. CASE l # Caller
      <3>1. l \in Callees /\ m = Caller
        BY <2>3, <2>4, <2>6, Cast
      <3>2. Agrees(l, Caller)
        BY <2>1, <2>2, <2>3, <3>1 DEF CalleeFits
      <3>3. QED
        BY <3>1, <3>2 DEF Agrees
    <2>7. QED
      BY <2>5, <2>6
  <1>2. QED
    BY <1>1, CallInvariant, PTL

=============================================================================
