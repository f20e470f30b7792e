------------------------------ MODULE GateCue -------------------------------
(***************************************************************************)
(* Gate Cue (cue/gate_state.c, gate.c, shortcut.c, shortcut_tap.h).  The     *)
(* deck's pad task and its PLAY task work on one atomic session word; the    *)
(* message thread turns the feature on and off, from the menu, from the      *)
(* plate between TIME and TEMPO, and when a track comes with its default.    *)
(*                                                                         *)
(* Each atomic access is a step.  Left out: the plate's drawing, the native  *)
(* companion that may own the transport instead, the hooks' byte guards.     *)
(***************************************************************************)
EXTENDS Naturals, FiniteSets

CONSTANTS GtPads,      \* pads of the deck
          GtMaxHands,  \* bound: presses of pads and PLAY
          GtMaxTouch   \* bound: taps, menu changes, tracks

ASSUME GtAssumption == GtPads \subseteq 0..7 /\ {GtMaxHands, GtMaxTouch} \subseteq Nat

VARIABLES gtOn, gtActive, gtDefault,  \* g_gate_on, g_gate_active, g_gate_default_active
          gtEnabled, gtSession,       \* struct gate_cue_state
          gtPad, gtPlay,              \* the pad task and the PLAY task in a hook
          gtUi,                       \* the message thread inside set_enabled
          gtTap, gtPending,           \* struct cue_shortcut_tap, gate_g_track_pending
          gtDown, gtHands, gtTouch,
          gtOwed, gtMeant             \* of the properties only, see there

gtVars == <<gtOn, gtActive, gtDefault, gtEnabled, gtSession, gtPad, gtPlay, gtUi, gtTap,
            gtPending, gtDown, gtHands, gtTouch, gtOwed, gtMeant>>

NoPad == 99
NoGate == [pad |-> NoPad, latch |-> FALSE]
IdleHook == [pc |-> "idle", pad |-> NoPad, fresh |-> FALSE, old |-> NoGate]
NoTap == [armed |-> FALSE, desired |-> FALSE, pending |-> FALSE, queued |-> FALSE]

GtInit ==
  /\ gtOn = TRUE /\ gtActive = TRUE /\ gtDefault = FALSE
  /\ gtEnabled = TRUE /\ gtSession = NoGate
  /\ gtPad = IdleHook /\ gtPlay = IdleHook /\ gtUi = "idle"
  /\ gtTap = NoTap /\ gtPending = FALSE
  /\ gtDown = {} /\ gtHands = 0 /\ gtTouch = 0
  /\ gtOwed = FALSE /\ gtMeant = TRUE

-----------------------------------------------------------------------------
(* gate_cue_state on the deck's threads: each hook first re-applies the      *)
(* master and the toggle, then does its own.                                 *)

gtNotDeck == <<gtOn, gtActive, gtDefault, gtUi, gtTap, gtPending, gtTouch, gtMeant>>
gtRest == <<gtNotDeck, gtHands, gtDown>>

\* gate_cue_state_set_enabled from cdj_gate_cue_prepare: the flag, and nothing
\* armed when it is off.
Refresh(e) ==
  /\ gtEnabled' = e
  /\ IF e THEN UNCHANGED <<gtSession, gtOwed>> ELSE gtSession' = NoGate /\ gtOwed' = FALSE

\* cdj_gate_cue_prepare of a press: active first, else whether the handler
\* blocks a fresh gate or the operation excludes it.
GtPress(p, fresh) ==
  /\ gtPad.pc = "idle" /\ p \notin gtDown /\ gtHands < GtMaxHands
  /\ gtHands' = gtHands + 1 /\ gtDown' = gtDown \cup {p}
  /\ Refresh(gtOn /\ gtActive)
  /\ gtPad' = [IdleHook EXCEPT !.pc = "load", !.pad = p, !.fresh = fresh]
  /\ UNCHANGED <<gtPlay, gtNotDeck>>
\* gate_cue_state_press: load, decide, compare and exchange.
GtPressLoads ==
  /\ gtPad.pc = "load"
  /\ LET rejected == ~gtEnabled
                     \/ (gtSession.pad = NoPad /\ ~gtPad.fresh)
                     \/ gtSession.pad = gtPad.pad
     IN  gtPad' = IF rejected THEN IdleHook ELSE [gtPad EXCEPT !.pc = "swap", !.old = gtSession]
  /\ UNCHANGED <<gtEnabled, gtSession, gtOwed, gtPlay, gtRest>>
SwapUnchecked ==   \* seeded fault: a store where the code compares
  /\ gtPad.pc = "swap"
  /\ gtSession' = [pad |-> gtPad.pad, latch |-> gtPad.old.pad # NoPad /\ gtPad.old.latch]
  /\ gtPad' = IdleHook
  /\ UNCHANGED <<gtEnabled, gtOwed, gtPlay, gtRest>>
GtPressSwaps ==
  /\ gtPad.pc = "swap"
  /\ IF gtSession = gtPad.old
     THEN /\ gtSession' = [pad |-> gtPad.pad, latch |-> gtPad.old.pad # NoPad /\ gtPad.old.latch]
          /\ gtPad' = IdleHook
     ELSE gtPad' = [gtPad EXCEPT !.pc = "load"] /\ UNCHANGED gtSession
  /\ UNCHANGED <<gtEnabled, gtOwed, gtPlay, gtRest>>

\* gate_cue_state_release: one exchange; an unlatched session is a back-cue.
\* `gtOwed` says PLAY was consumed for the session this release ends.
BackCues == gtEnabled' /\ gtSession.pad # NoPad /\ ~gtSession.latch
GtRelease(p) ==
  /\ gtPad.pc = "idle" /\ p \in gtDown
  /\ gtDown' = gtDown \ {p}
  /\ gtEnabled' = (gtOn /\ gtActive)
  /\ gtSession' = NoGate
  /\ gtPad' = [IdleHook EXCEPT !.pc = IF BackCues THEN "backcued" ELSE "stocked"]
  /\ UNCHANGED <<gtOwed, gtPlay, gtHands, gtNotDeck>>
GtReleased ==
  /\ gtPad.pc \in {"backcued", "stocked"}
  /\ gtPad' = IdleHook /\ gtOwed' = FALSE
  /\ UNCHANGED <<gtEnabled, gtSession, gtPlay, gtRest>>

\* gate_cue_state_play.
GtPlay ==
  /\ gtPlay.pc = "idle" /\ gtHands < GtMaxHands /\ gtHands' = gtHands + 1
  /\ Refresh(gtOn /\ gtActive)
  /\ gtPlay' = [IdleHook EXCEPT !.pc = "load"]
  /\ UNCHANGED <<gtPad, gtDown, gtNotDeck>>
GtPlayLoads ==
  /\ gtPlay.pc = "load"
  /\ gtPlay' = IF ~gtEnabled \/ gtSession.pad = NoPad \/ gtSession.latch THEN IdleHook
               ELSE [gtPlay EXCEPT !.pc = "swap", !.old = gtSession]
  /\ UNCHANGED <<gtEnabled, gtSession, gtOwed, gtPad, gtRest>>
GtPlaySwaps ==
  /\ gtPlay.pc = "swap"
  /\ IF gtSession = gtPlay.old
     THEN gtSession' = [gtSession EXCEPT !.latch = TRUE] /\ gtOwed' = TRUE /\ gtPlay' = IdleHook
     ELSE gtPlay' = [gtPlay EXCEPT !.pc = "load"] /\ UNCHANGED <<gtSession, gtOwed>>
  /\ UNCHANGED <<gtEnabled, gtPad, gtRest>>

GtDeck ==
  \/ \E p \in GtPads, fresh \in BOOLEAN : GtPress(p, fresh)
  \/ \E p \in GtPads : GtRelease(p)
  \/ GtPressLoads \/ GtPressSwaps \/ GtReleased \/ GtPlay \/ GtPlayLoads \/ GtPlaySwaps

-----------------------------------------------------------------------------
(* The message thread.                                                      *)

gtNotUi == <<gtPad, gtPlay, gtDown, gtHands>>
Touches == gtUi = "idle" /\ gtTouch < GtMaxTouch /\ gtTouch' = gtTouch + 1

\* gate_cue_state_set_enabled, off: the flag, then the session.
Enables(e) ==
  /\ gtEnabled' = e
  /\ gtUi' = IF e THEN "idle" ELSE "clear"
GtUiClears ==
  /\ gtUi = "clear" /\ gtUi' = "idle"
  /\ gtSession' = NoGate /\ gtOwed' = FALSE
  /\ UNCHANGED <<gtOn, gtActive, gtDefault, gtEnabled, gtTap, gtPending, gtTouch, gtMeant, gtNotUi>>

\* cue_gate_menu_changed: gate_menu_state_apply, cue_gate_changed, and
\* cue_shortcut_refresh, which forgets the tap when the master is off.  The menu
\* is another screen: no tap of the plate is still waiting for its tick.
GtMenu(on, def) ==
  /\ Touches /\ <<on, def>> # <<gtOn, gtDefault>> /\ ~gtTap.pending /\ ~gtTap.armed
  /\ on \/ def = gtDefault       \* OFF keeps the saved default
  /\ gtOn' = on /\ gtDefault' = def /\ gtActive' = on
  /\ gtTap' = IF on THEN gtTap ELSE NoTap
  /\ gtMeant' = on
  /\ Enables(on)
  /\ UNCHANGED <<gtSession, gtOwed, gtPending, gtNotUi>>

\* cue_tap_down and cue_tap_up, inside the plate or off it.
GtTapDown ==
  /\ Touches /\ gtOn /\ ~gtTap.armed
  /\ gtTap' = [gtTap EXCEPT !.armed = TRUE,
                            !.desired = ~(IF gtTap.pending THEN gtTap.queued ELSE gtActive)]
  /\ UNCHANGED <<gtOn, gtActive, gtDefault, gtEnabled, gtSession, gtUi, gtPending, gtOwed, gtMeant, gtNotUi>>
GtTapUp(inside) ==
  /\ gtUi = "idle" /\ gtTap.armed
  /\ gtTap' = IF inside
              THEN [gtTap EXCEPT !.armed = FALSE, !.pending = TRUE, !.queued = gtTap.desired]
              ELSE [gtTap EXCEPT !.armed = FALSE]
  /\ gtMeant' = IF inside THEN ~gtMeant
                 ELSE IF gtTap.pending THEN gtTap.queued ELSE gtActive
  /\ UNCHANGED <<gtOn, gtActive, gtDefault, gtEnabled, gtSession, gtUi, gtPending, gtTouch, gtOwed, gtNotUi>>

\* cue_gate_track_loaded: only a note, taken by the display tick.
GtTrackLoaded ==
  /\ gtTouch < GtMaxTouch /\ gtTouch' = gtTouch + 1
  /\ gtOn /\ ~gtPending
  /\ gtPending' = TRUE
  /\ UNCHANGED <<gtOn, gtActive, gtDefault, gtEnabled, gtSession, gtUi, gtTap, gtOwed, gtMeant, gtNotUi>>

\* cue_shortcut_tick: the new track's default, then the tap.
GtTick ==
  /\ gtUi = "idle" /\ (gtPending \/ gtTap.pending)
  /\ LET seeded == IF gtPending /\ gtOn THEN gtDefault ELSE gtActive
         wants == IF gtTap.pending /\ gtOn THEN gtTap.queued ELSE seeded
     IN  /\ gtActive' = (gtOn /\ wants)
         /\ IF gtActive' # gtActive \/ gtPending THEN Enables(gtOn /\ wants)
            ELSE UNCHANGED <<gtEnabled, gtUi>>
         /\ gtMeant' = IF gtPending /\ gtOn
                       THEN IF gtTap.armed THEN ~gtTap.desired
                            ELSE IF gtTap.pending THEN gtTap.queued ELSE gtDefault
                       ELSE gtMeant
  /\ gtPending' = FALSE
  /\ gtTap' = [gtTap EXCEPT !.pending = FALSE, !.armed = gtOn /\ @]
  /\ UNCHANGED <<gtOn, gtDefault, gtSession, gtTouch, gtOwed, gtNotUi>>

GtUi ==
  \/ \E on, def \in BOOLEAN : GtMenu(on, def)
  \/ \E inside \in BOOLEAN : GtTapUp(inside)
  \/ GtUiClears \/ GtTapDown \/ GtTrackLoaded \/ GtTick

GtNext == GtDeck \/ GtUi
GtSpec == GtInit /\ [][GtNext]_gtVars

-----------------------------------------------------------------------------
(* Properties.                                                              *)

\* PLAY is "consumed only while a gate is active and latches playback"
\* (test_gate_state.c:25): once it was consumed, the release that ends that
\* gate does not send the deck back to the cue, whatever pads were pressed on
\* top of it in between.
ConsumedPlayKeepsPlaying == ~(gtPad.pc = "backcued" /\ gtOwed)

\* No gate is left armed with every pad up and every hook returned: the next
\* pad would start inside a gate nobody holds and skip the handler's own test
\* of a fresh one (gate.c:107-111).
NoGateWithoutAPad ==
  gtDown = {} /\ gtPad.pc = "idle" /\ gtPlay.pc = "idle" => gtSession.pad = NoPad

\* A tap that ends inside the plate toggles what the DJ sees, once for every
\* tap, however many come between two ticks of the display.  `gtMeant` is the
\* toggle counted tap by tap, from where the menu or a track last left it; a
\* finger that was down when the track came means what it meant going down.
EveryTapCounts ==
  gtOn /\ ~gtTap.pending /\ ~gtTap.armed /\ ~gtPending => gtActive = gtMeant

\* What the DJ is owed whatever the three callers of the session word interleave:
\* a consumed PLAY keeps playing, a gate ends with its pad, a tap is one toggle.
GateIsTheDjs == ConsumedPlayKeepsPlaying /\ NoGateWithoutAPad /\ EveryTapCounts
=============================================================================
