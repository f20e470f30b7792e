------------------------------ MODULE PadLamps ------------------------------
(***************************************************************************)
(* The lamps of the eight pads (cue/led.c, lamp/lamp.c, lamp/dance.c): the   *)
(* app writes a lamp when its own state changes, the features claim pads      *)
(* (the start-up dance, the open X-PAD, the groove circuit), and the display  *)
(* tick repaints when the word of all claims has moved.                      *)
(*                                                                         *)
(* A picture is a name.  The tick reads the word and then asks every pad      *)
(* again.  The display ticks some thirty times a second: a hand or the blink  *)
(* moves a claim once a tick at most, a sounding voice (PlFast) more often.    *)
(* The app's write and the tick are on one thread.  Left out: the hues, the ordinals    *)
(* and the log; the hash of the word has no collisions here.                 *)
(***************************************************************************)
EXTENDS Naturals, FiniteSets

CONSTANTS PlPads, PlMaxEvents,
          PlFast      \* a claim may move twice within a tick

ASSUME PlAssumption == PlPads \subseteq Nat \ {0} /\ PlMaxEvents \in Nat /\ PlFast \in BOOLEAN

VARIABLES plApp,      \* led_g_pad_hw[].app: what the app last wrote
          plWire,     \* what the panel shows
          plKnown, plOurs,   \* the pads whose lamp is known; the pads owed to the app
          plWord,     \* cue_led_tick's last_word
          plTurn,     \* the tick is between its word and its paint
          plDance,    \* "before", "on", "over"
          plXpad,     \* the X-PAD panel: shut, or the bank selected
          plReady,    \* banks loaded
          plRow,      \* the stems row is open
          plSlots, plActive, plBlink,   \* groove slots; the running one; dark half of the blink
          plEvents

plVars == <<plApp, plWire, plKnown, plOurs, plWord, plTurn, plDance, plXpad, plReady, plRow,
            plSlots, plActive, plBlink, plEvents>>

Unpainted == "unpainted"
NoWord == [p \in PlPads |-> "no word yet"]
Shut == 0

PlInit ==
  /\ plApp = [p \in PlPads |-> Unpainted] /\ plWire = plApp
  /\ plKnown = {} /\ plOurs = {} /\ plWord = NoWord /\ plTurn = FALSE
  /\ plDance = "before" /\ plXpad = Shut /\ plReady = {} /\ plRow = FALSE
  /\ plSlots = {} /\ plActive = {} /\ plBlink = FALSE /\ plEvents = 0

Happens == plEvents < PlMaxEvents /\ plEvents' = plEvents + 1

-----------------------------------------------------------------------------
(* Who claims a pad, and with what picture.                                 *)

Dark == "dark"
NotClaimed == "not claimed"

\* lamp_pad: the dance, then xpad_pad_lamp, then gc_pad_lamp.
XpadLamp(p) ==
  IF p \notin plReady THEN "grey" ELSE IF plXpad = p THEN "green lit" ELSE "green dim"
GrooveLamp(p) ==
  IF ~plRow \/ p \notin plSlots THEN NotClaimed
  ELSE IF p \in plActive /\ plBlink THEN Dark
  ELSE "part"
LampPad(p) ==
  IF plDance = "on" THEN "dance"
  ELSE IF plXpad # Shut THEN XpadLamp(p)
  ELSE GrooveLamp(p)

\* lamp_word: what nobody claims counts as a dark lamp.
LampWord == [p \in PlPads |-> IF LampPad(p) = NotClaimed THEN Dark ELSE LampPad(p)]

-----------------------------------------------------------------------------
(* The two writers of the panel.                                            *)

\* led_wrap_update: the app's colour is kept whole, and a claimed pad shows the
\* claim; the eighth pad to be known starts the dance, once.
AppWritesThrough(p, c) ==   \* seeded fault: the app's write is passed on as it is
  /\ Happens /\ ~plTurn
  /\ plApp' = [plApp EXCEPT ![p] = c] /\ plKnown' = plKnown \cup {p}
  /\ plDance' = IF plKnown' = PlPads /\ plDance = "before" THEN "on" ELSE plDance
  /\ plWire' = [plWire EXCEPT ![p] = c] /\ UNCHANGED plOurs
  /\ UNCHANGED <<plWord, plTurn, plXpad, plReady, plRow, plSlots, plActive, plBlink>>
PlAppWrites(p, c) ==
  /\ Happens /\ ~plTurn
  /\ plApp' = [plApp EXCEPT ![p] = c] /\ plKnown' = plKnown \cup {p}
  /\ plDance' = IF plKnown' = PlPads /\ plDance = "before" THEN "on" ELSE plDance
  /\ LET l == IF plDance' = "on" THEN "dance" ELSE LampPad(p)
     IN  IF l = NotClaimed THEN plWire' = [plWire EXCEPT ![p] = c] /\ UNCHANGED plOurs
         ELSE plWire' = [plWire EXCEPT ![p] = l] /\ plOurs' = plOurs \cup {p}
  /\ UNCHANGED <<plWord, plTurn, plXpad, plReady, plRow, plSlots, plActive, plBlink>>

\* cue_led_tick: nothing to do while the word stands.
PlTickWord ==
  /\ ~plTurn /\ plWord # LampWord
  /\ plWord' = LampWord /\ plTurn' = TRUE
  /\ UNCHANGED <<plApp, plWire, plKnown, plOurs, plDance, plXpad, plReady, plRow, plSlots,
                 plActive, plBlink, plEvents>>
\* Every known pad: the claim, or once, on the turn, the app's own write.
PlTickPaints ==
  /\ plTurn /\ plTurn' = FALSE
  /\ LET claimed == {p \in plKnown : LampPad(p) # NotClaimed} IN
       /\ plOurs' = claimed
       /\ plWire' = [p \in PlPads |-> IF p \in claimed THEN LampPad(p)
                                     ELSE IF p \in plOurs THEN plApp[p] ELSE plWire[p]]
  /\ UNCHANGED <<plApp, plKnown, plWord, plDance, plXpad, plReady, plRow, plSlots, plActive,
                 plBlink, plEvents>>

-----------------------------------------------------------------------------
(* What moves the claims.                                                   *)

\* lamp_dance_ask after DANCE_MS, in which the display tick ran.
PlDanceEnds ==
  /\ ~plTurn /\ plWord = LampWord
  /\ plDance = "on" /\ plDance' = "over"
  /\ UNCHANGED <<plApp, plWire, plKnown, plOurs, plWord, plTurn, plXpad, plReady, plRow, plSlots,
                 plActive, plBlink, plEvents>>

Claims ==
  \/ plXpad' \in (PlPads \cup {Shut}) \ {plXpad} /\ plRow' = FALSE
       /\ UNCHANGED <<plReady, plSlots, plActive, plBlink>>
  \/ plReady' \in {{}, PlPads} \ {plReady} /\ UNCHANGED <<plXpad, plRow, plSlots, plActive, plBlink>>
  \/ plRow' = ~plRow /\ plXpad' = Shut /\ UNCHANGED <<plReady, plSlots, plActive, plBlink>>
  \/ plSlots' \in {{}, PlPads} \cup {{p} : p \in PlPads} /\ plActive' = {}
       /\ plSlots' # plSlots /\ UNCHANGED <<plXpad, plReady, plRow, plBlink>>
  \/ plActive' \in {{}} \cup {{p} : p \in plSlots} /\ plActive' # plActive
       /\ UNCHANGED <<plXpad, plReady, plRow, plSlots, plBlink>>
  \/ plActive # {} /\ plBlink' = ~plBlink /\ UNCHANGED <<plXpad, plReady, plRow, plSlots, plActive>>
PlClaims ==
  /\ PlFast \/ (~plTurn /\ plWord = LampWord)
  /\ Happens /\ Claims
  /\ UNCHANGED <<plApp, plWire, plKnown, plOurs, plWord, plTurn, plDance>>

PlTick == PlTickWord \/ PlTickPaints
PlNext ==
  \/ \E p \in PlPads, c \in {"cue", "empty"} : PlAppWrites(p, c)
  \/ PlTickWord \/ PlTickPaints \/ PlDanceEnds \/ PlClaims
PlSpec == PlInit /\ [][PlNext]_plVars /\ WF_plVars(PlTick) /\ WF_plVars(PlDanceEnds)

-----------------------------------------------------------------------------
(* Properties.                                                              *)

\* A pad nobody owes the app shows the app's last write: a claim that came and
\* went between two repaints, or between a word and its paint, leaves no colour
\* of ours without the debt (led.c:198-213, 275-283).
UnownedPadIsTheApps == \A p \in plKnown \ plOurs : plWire[p] = plApp[p]

\* The features' picture arrives: once claims stop moving, every known pad that
\* is claimed for a light shows it, whichever of the app's writes and the claim came
\* last.  Not so with PlFast: a claim that moves and moves back between two words
\* leaves the panel on what it was in between.
ClaimsReachThePanel ==
  <>[](\A p \in plKnown : LampPad(p) \in {NotClaimed, Dark} \/ plWire[p] = LampPad(p))

\* "Written once, on the turn -- closing the row, ejecting the stick, losing the
\* stems and the sweep finishing all reach here" (led.c:199-201): once claims stop
\* moving, every pad nobody claims shows the app's own write.
PadsAreHandedBack == <>[](\A p \in plKnown : LampPad(p) = NotClaimed => plWire[p] = plApp[p])
=============================================================================
