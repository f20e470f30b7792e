----------------------------- MODULE CueProofs -----------------------------
(***************************************************************************)
(* Gate Cue and the pads' claims, for any pads and any number of presses,   *)
(* taps and tracks, and the X-PAD's bar and roll, for any zones, bar and     *)
(* advances.                                                               *)
(*                                                                         *)
(* Gate Cue.  Only the pad task opens a session, and under a pad that is    *)
(* still down, since a release waits for the press's hook (GateHasItsPad);  *)
(* a consumed PLAY has latched the session it was consumed for, and the     *)
(* release that ends a latched session is never a back-cue (OwedIsLatched). *)
(* Of the taps: what the DJ means is at every moment in one of three        *)
(* places, the finger, the queued tap or the toggle (MeantIsKept).          *)
(*                                                                         *)
(* The X-PAD.  While the blocks' spans join up, the play head is where they  *)
(* have come to.  Of every event, from there on, its phase does not come      *)
(* round within half a bar of when it sounded (Apart); of the running roll,    *)
(* every boundary to come but the claimed one is half a division from the       *)
(* selected pad's last hit (RollWaits).                                      *)
(***************************************************************************)
EXTENDS GateCue, CuePad, XpadSeq, FiniteSetTheorems, WellFoundedInduction, TLAPS

-----------------------------------------------------------------------------
(* Gate Cue: the invariant.                                                 *)

Words == [pad : GtPads \cup {NoPad}, latch : BOOLEAN]
Hooks(pcs) == [pc : pcs, pad : GtPads \cup {NoPad}, fresh : BOOLEAN,
               old : Words]
GtFlags ==
  /\ gtOn \in BOOLEAN /\ gtActive \in BOOLEAN /\ gtDefault \in BOOLEAN /\ gtEnabled \in BOOLEAN
  /\ gtPending \in BOOLEAN /\ gtOwed \in BOOLEAN /\ gtMeant \in BOOLEAN
GtWord == gtSession \in Words /\ gtDown \subseteq GtPads
GtPadTask == gtPad \in Hooks({"idle", "load", "swap", "backcued", "stocked"})
GtPlayTask == gtPlay \in Hooks({"idle", "load", "swap"})
GtMessage ==
  /\ gtUi \in {"idle", "clear"}
  /\ gtTap \in [armed : BOOLEAN, desired : BOOLEAN, pending : BOOLEAN, queued : BOOLEAN]
GtTypes == GtFlags /\ GtWord /\ GtPadTask /\ GtPlayTask /\ GtMessage

\* A session is under a pad that is down, and the press that will open one too.
GateHasItsPad ==
  /\ gtSession.pad # NoPad => gtSession.pad \in gtDown
  /\ gtPad.pc \in {"load", "swap"} => gtPad.pad \in gtDown
  /\ gtPad.pc \in {"backcued", "stocked"} => gtSession.pad = NoPad
  /\ gtPlay.pc = "swap" => gtPlay.old.pad # NoPad

\* A consumed PLAY is in the latch, until the release that found it there is over.
OwedIsLatched == gtOwed => gtPad.pc = "stocked" \/ (gtSession.pad # NoPad /\ gtSession.latch)

\* Where the DJ's wish is: under the finger, in the queue, or in force.
Wish == IF gtTap.armed THEN ~gtTap.desired ELSE IF gtTap.pending THEN gtTap.queued ELSE gtActive
MeantIsKept == gtOn => gtMeant = Wish

GtIInv == GtTypes /\ GateHasItsPad /\ OwedIsLatched /\ MeantIsKept

(* What a hook may be updated with.                                         *)
LEMMA NoGateIsAWord == NoGate \in Words
BY DEF Words, NoGate
(* A hook that has nothing in hand is one of the hooks, whatever the set of its program counters
   is. *)
LEMMA IdleIsAHook == ASSUME NEW S, "idle" \in S PROVE IdleHook \in Hooks(S)
BY NoGateIsAWord DEF Hooks, IdleHook
(* A hook that only moves on to its next step is still a hook of that set. *)
LEMMA HookWalks ==
  ASSUME NEW S, NEW h \in Hooks(S), NEW c \in S
  PROVE  [h EXCEPT !.pc = c] \in Hooks(S)
BY DEF Hooks
(* So is one that moves on with the gate word it has just loaded. *)
LEMMA HookReads ==
  ASSUME NEW S, NEW h \in Hooks(S), NEW c \in S, NEW w \in Words
  PROVE  [h EXCEPT !.pc = c, !.old = w] \in Hooks(S)
BY DEF Hooks
(* And one that begins with a pad in hand, freshly pressed or not. *)
LEMMA HookBegins ==
  ASSUME NEW S, NEW h \in Hooks(S), NEW c \in S, NEW p \in GtPads, NEW f \in BOOLEAN
  PROVE  [h EXCEPT !.pc = c, !.pad = p, !.fresh = f] \in Hooks(S)
BY DEF Hooks

(* The initial state.                                                       *)
THEOREM GtInitIInv == GtInit => GtIInv
<1> SUFFICES ASSUME GtInit PROVE GtIInv
  OBVIOUS
<1>1. GtTypes
  <2>1. GtFlags /\ GtWord
    BY NoGateIsAWord DEF GtInit, GtFlags, GtWord
  <2>2. GtPadTask /\ GtPlayTask
    BY IdleIsAHook DEF GtInit, GtPadTask, GtPlayTask
  <2>3. GtMessage
    BY DEF GtInit, GtMessage, NoTap
  <2>4. QED
    BY <2>1, <2>2, <2>3 DEF GtTypes
<1>2. GateHasItsPad /\ OwedIsLatched /\ MeantIsKept
  BY DEF GtInit, GateHasItsPad, OwedIsLatched, MeantIsKept, Wish, NoGate, IdleHook, NoTap
<1>3. QED
  BY <1>1, <1>2 DEF GtIInv

(* A step of the pad task or of the PLAY task.                              *)
LEMMA GtDeckKeepsIInv == ASSUME GtIInv, GtDeck PROVE GtIInv'
<1> USE GtAssumption DEF GtIInv
<1>1. ASSUME NEW p \in GtPads, NEW fresh \in BOOLEAN, GtPress(p, fresh) PROVE GtIInv'
  <2>1. GtTypes'
    <3>1. GtFlags'
      BY <1>1 DEF GtTypes, GtFlags, GtPress, Refresh, gtRest, gtNotDeck, IdleHook, NoGate, NoPad
    <3>2. GtWord'
      BY <1>1, NoGateIsAWord DEF GtTypes, GtWord, GtPress, Refresh, gtRest, gtNotDeck
    <3>3. GtPadTask'
      BY <1>1, NoGateIsAWord, IdleIsAHook, HookWalks, HookReads, HookBegins DEF GtTypes, GtPadTask, GtWord, GtPress, Refresh, gtRest, gtNotDeck
    <3>4. GtPlayTask'
      BY <1>1, NoGateIsAWord, IdleIsAHook, HookWalks, HookReads, HookBegins DEF GtTypes, GtPlayTask, GtWord, GtPress, Refresh, gtRest, gtNotDeck
    <3>5. GtMessage'
      BY <1>1 DEF GtTypes, GtMessage, GtPress, Refresh, gtRest, gtNotDeck, IdleHook, NoGate, NoPad
    <3>6. QED
      BY <3>1, <3>2, <3>3, <3>4, <3>5 DEF GtTypes
  <2>2. GateHasItsPad'
    BY <1>1 DEF GtTypes, GtFlags, GtWord, GtPadTask, GtPlayTask, GtMessage, Words, Hooks, GateHasItsPad, GtPress, Refresh, gtRest, gtNotDeck, IdleHook, NoGate, NoPad
  <2>3. OwedIsLatched'
    BY <1>1 DEF GtTypes, GtFlags, GtWord, GtPadTask, GtPlayTask, GtMessage, Words, Hooks, OwedIsLatched, GtPress, Refresh, gtRest, gtNotDeck, IdleHook, NoGate, NoPad
  <2>4. MeantIsKept'
    BY <1>1 DEF GtTypes, GtFlags, GtWord, GtPadTask, GtPlayTask, GtMessage, Words, Hooks, MeantIsKept, Wish, GtPress, Refresh, gtRest, gtNotDeck, IdleHook, NoGate, NoPad
  <2>5. QED
    BY <2>1, <2>2, <2>3, <2>4
<1>2. CASE GtPressLoads
  <2>1. GtTypes'
    <3>1. GtFlags'
      BY <1>2 DEF GtTypes, GtFlags, GtPressLoads, gtRest, gtNotDeck, IdleHook, NoGate, NoPad
    <3>2. GtWord'
      BY <1>2, NoGateIsAWord DEF GtTypes, GtWord, GtPressLoads, gtRest, gtNotDeck
    <3>3. GtPadTask'
      BY <1>2, NoGateIsAWord, IdleIsAHook, HookWalks, HookReads, HookBegins DEF GtTypes, GtPadTask, GtWord, GtPressLoads, gtRest, gtNotDeck
    <3>4. GtPlayTask'
      BY <1>2, NoGateIsAWord, IdleIsAHook, HookWalks, HookReads, HookBegins DEF GtTypes, GtPlayTask, GtWord, GtPressLoads, gtRest, gtNotDeck
    <3>5. GtMessage'
      BY <1>2 DEF GtTypes, GtMessage, GtPressLoads, gtRest, gtNotDeck, IdleHook, NoGate, NoPad
    <3>6. QED
      BY <3>1, <3>2, <3>3, <3>4, <3>5 DEF GtTypes
  <2>2. GateHasItsPad'
    BY <1>2 DEF GtTypes, GtFlags, GtWord, GtPadTask, GtPlayTask, GtMessage, Words, Hooks, GateHasItsPad, GtPressLoads, gtRest, gtNotDeck, IdleHook, NoGate, NoPad
  <2>3. OwedIsLatched'
    BY <1>2 DEF GtTypes, GtFlags, GtWord, GtPadTask, GtPlayTask, GtMessage, Words, Hooks, OwedIsLatched, GtPressLoads, gtRest, gtNotDeck, IdleHook, NoGate, NoPad
  <2>4. MeantIsKept'
    BY <1>2 DEF GtTypes, GtFlags, GtWord, GtPadTask, GtPlayTask, GtMessage, Words, Hooks, MeantIsKept, Wish, GtPressLoads, gtRest, gtNotDeck, IdleHook, NoGate, NoPad
  <2>5. QED
    BY <2>1, <2>2, <2>3, <2>4
<1>3. CASE GtPressSwaps
  <2>1. GtTypes'
    <3>1. GtFlags'
      BY <1>3 DEF GtTypes, GtFlags, GtPressSwaps, gtRest, gtNotDeck, IdleHook, NoGate, NoPad
    <3>2. GtWord'
        <4> DEFINE l == gtPad.old.pad # NoPad /\ gtPad.old.latch
        <4>1. l \in BOOLEAN /\ gtPad.pad \in GtPads \cup {NoPad}
          BY DEF GtTypes, GtPadTask, Hooks
        <4>2. gtSession' = [pad |-> gtPad.pad, latch |-> l] \/ gtSession' = gtSession
          BY <1>3 DEF GtPressSwaps
        <4> HIDE DEF l
        <4>3. QED
          BY <1>3, <4>1, <4>2 DEF GtTypes, GtWord, Words, GtPressSwaps, gtRest
    <3>3. GtPadTask'
      BY <1>3, NoGateIsAWord, IdleIsAHook, HookWalks, HookReads, HookBegins DEF GtTypes, GtPadTask, GtWord, GtPressSwaps, gtRest, gtNotDeck
    <3>4. GtPlayTask'
      BY <1>3, NoGateIsAWord, IdleIsAHook, HookWalks, HookReads, HookBegins DEF GtTypes, GtPlayTask, GtWord, GtPressSwaps, gtRest, gtNotDeck
    <3>5. GtMessage'
      BY <1>3 DEF GtTypes, GtMessage, GtPressSwaps, gtRest, gtNotDeck, IdleHook, NoGate, NoPad
    <3>6. QED
      BY <3>1, <3>2, <3>3, <3>4, <3>5 DEF GtTypes
  <2>2. GateHasItsPad'
    BY <1>3 DEF GtTypes, GtFlags, GtWord, GtPadTask, GtPlayTask, GtMessage, Words, Hooks, GateHasItsPad, GtPressSwaps, gtRest, gtNotDeck, IdleHook, NoGate, NoPad
  <2>3. OwedIsLatched'
    <3> SUFFICES ASSUME gtOwed, gtSession = gtPad.old, gtSession.pad # NoPad, gtSession.latch
                 PROVE  gtSession'.pad # NoPad /\ gtSession'.latch
      BY <1>3 DEF OwedIsLatched, GtPressSwaps
    <3>1. gtSession' = [pad |-> gtPad.pad, latch |-> TRUE]
      BY <1>3 DEF GtPressSwaps
    <3>2. gtPad.pad \in GtPads
      BY <1>3 DEF GtTypes, GtWord, GateHasItsPad, GtPressSwaps
    <3>3. QED
      BY <3>1, <3>2 DEF NoPad
  <2>4. MeantIsKept'
    BY <1>3 DEF GtTypes, GtFlags, GtWord, GtPadTask, GtPlayTask, GtMessage, Words, Hooks, MeantIsKept, Wish, GtPressSwaps, gtRest, gtNotDeck, IdleHook, NoGate, NoPad
  <2>5. QED
    BY <2>1, <2>2, <2>3, <2>4
<1>4. ASSUME NEW p \in GtPads, GtRelease(p) PROVE GtIInv'
  <2>1. GtTypes'
    <3>1. GtFlags'
      BY <1>4 DEF GtTypes, GtFlags, GtRelease, BackCues, gtRest, gtNotDeck, IdleHook, NoGate, NoPad
    <3>2. GtWord'
      BY <1>4, NoGateIsAWord DEF GtTypes, GtWord, GtRelease, BackCues, gtRest, gtNotDeck
    <3>3. GtPadTask'
      BY <1>4, NoGateIsAWord, IdleIsAHook, HookWalks, HookReads, HookBegins DEF GtTypes, GtPadTask, GtWord, GtRelease, BackCues, gtRest, gtNotDeck
    <3>4. GtPlayTask'
      BY <1>4, NoGateIsAWord, IdleIsAHook, HookWalks, HookReads, HookBegins DEF GtTypes, GtPlayTask, GtWord, GtRelease, BackCues, gtRest, gtNotDeck
    <3>5. GtMessage'
      BY <1>4 DEF GtTypes, GtMessage, GtRelease, BackCues, gtRest, gtNotDeck, IdleHook, NoGate, NoPad
    <3>6. QED
      BY <3>1, <3>2, <3>3, <3>4, <3>5 DEF GtTypes
  <2>2. GateHasItsPad'
    BY <1>4 DEF GtTypes, GtFlags, GtWord, GtPadTask, GtPlayTask, GtMessage, Words, Hooks, GateHasItsPad, GtRelease, BackCues, gtRest, gtNotDeck, IdleHook, NoGate, NoPad
  <2>3. OwedIsLatched'
    BY <1>4 DEF GtTypes, GtFlags, GtWord, GtPadTask, GtPlayTask, GtMessage, Words, Hooks, OwedIsLatched, GtRelease, BackCues, gtRest, gtNotDeck, IdleHook, NoGate, NoPad
  <2>4. MeantIsKept'
    BY <1>4 DEF GtTypes, GtFlags, GtWord, GtPadTask, GtPlayTask, GtMessage, Words, Hooks, MeantIsKept, Wish, GtRelease, BackCues, gtRest, gtNotDeck, IdleHook, NoGate, NoPad
  <2>5. QED
    BY <2>1, <2>2, <2>3, <2>4
<1>5. CASE GtReleased
  <2>1. GtTypes'
    <3>1. GtFlags'
      BY <1>5 DEF GtTypes, GtFlags, GtReleased, gtRest, gtNotDeck, IdleHook, NoGate, NoPad
    <3>2. GtWord'
      BY <1>5, NoGateIsAWord DEF GtTypes, GtWord, GtReleased, gtRest, gtNotDeck
    <3>3. GtPadTask'
      BY <1>5, NoGateIsAWord, IdleIsAHook, HookWalks, HookReads, HookBegins DEF GtTypes, GtPadTask, GtWord, GtReleased, gtRest, gtNotDeck
    <3>4. GtPlayTask'
      BY <1>5, NoGateIsAWord, IdleIsAHook, HookWalks, HookReads, HookBegins DEF GtTypes, GtPlayTask, GtWord, GtReleased, gtRest, gtNotDeck
    <3>5. GtMessage'
      BY <1>5 DEF GtTypes, GtMessage, GtReleased, gtRest, gtNotDeck, IdleHook, NoGate, NoPad
    <3>6. QED
      BY <3>1, <3>2, <3>3, <3>4, <3>5 DEF GtTypes
  <2>2. GateHasItsPad'
    BY <1>5 DEF GtTypes, GtFlags, GtWord, GtPadTask, GtPlayTask, GtMessage, Words, Hooks, GateHasItsPad, GtReleased, gtRest, gtNotDeck, IdleHook, NoGate, NoPad
  <2>3. OwedIsLatched'
    BY <1>5 DEF GtTypes, GtFlags, GtWord, GtPadTask, GtPlayTask, GtMessage, Words, Hooks, OwedIsLatched, GtReleased, gtRest, gtNotDeck, IdleHook, NoGate, NoPad
  <2>4. MeantIsKept'
    BY <1>5 DEF GtTypes, GtFlags, GtWord, GtPadTask, GtPlayTask, GtMessage, Words, Hooks, MeantIsKept, Wish, GtReleased, gtRest, gtNotDeck, IdleHook, NoGate, NoPad
  <2>5. QED
    BY <2>1, <2>2, <2>3, <2>4
<1>6. CASE GtPlay
  <2>1. GtTypes'
    <3>1. GtFlags'
      BY <1>6 DEF GtTypes, GtFlags, GtPlay, Refresh, gtRest, gtNotDeck, IdleHook, NoGate, NoPad
    <3>2. GtWord'
      BY <1>6, NoGateIsAWord DEF GtTypes, GtWord, GtPlay, Refresh, gtRest, gtNotDeck
    <3>3. GtPadTask'
      BY <1>6, NoGateIsAWord, IdleIsAHook, HookWalks, HookReads, HookBegins DEF GtTypes, GtPadTask, GtWord, GtPlay, Refresh, gtRest, gtNotDeck
    <3>4. GtPlayTask'
      BY <1>6, NoGateIsAWord, IdleIsAHook, HookWalks, HookReads, HookBegins DEF GtTypes, GtPlayTask, GtWord, GtPlay, Refresh, gtRest, gtNotDeck
    <3>5. GtMessage'
      BY <1>6 DEF GtTypes, GtMessage, GtPlay, Refresh, gtRest, gtNotDeck, IdleHook, NoGate, NoPad
    <3>6. QED
      BY <3>1, <3>2, <3>3, <3>4, <3>5 DEF GtTypes
  <2>2. GateHasItsPad'
    BY <1>6 DEF GtTypes, GtFlags, GtWord, GtPadTask, GtPlayTask, GtMessage, Words, Hooks, GateHasItsPad, GtPlay, Refresh, gtRest, gtNotDeck, IdleHook, NoGate, NoPad
  <2>3. OwedIsLatched'
    BY <1>6 DEF GtTypes, GtFlags, GtWord, GtPadTask, GtPlayTask, GtMessage, Words, Hooks, OwedIsLatched, GtPlay, Refresh, gtRest, gtNotDeck, IdleHook, NoGate, NoPad
  <2>4. MeantIsKept'
    BY <1>6 DEF GtTypes, GtFlags, GtWord, GtPadTask, GtPlayTask, GtMessage, Words, Hooks, MeantIsKept, Wish, GtPlay, Refresh, gtRest, gtNotDeck, IdleHook, NoGate, NoPad
  <2>5. QED
    BY <2>1, <2>2, <2>3, <2>4
<1>7. CASE GtPlayLoads
  <2>1. GtTypes'
    <3>1. GtFlags'
      BY <1>7 DEF GtTypes, GtFlags, GtPlayLoads, gtRest, gtNotDeck, IdleHook, NoGate, NoPad
    <3>2. GtWord'
      BY <1>7, NoGateIsAWord DEF GtTypes, GtWord, GtPlayLoads, gtRest, gtNotDeck
    <3>3. GtPadTask'
      BY <1>7, NoGateIsAWord, IdleIsAHook, HookWalks, HookReads, HookBegins DEF GtTypes, GtPadTask, GtWord, GtPlayLoads, gtRest, gtNotDeck
    <3>4. GtPlayTask'
      BY <1>7, NoGateIsAWord, IdleIsAHook, HookWalks, HookReads, HookBegins DEF GtTypes, GtPlayTask, GtWord, GtPlayLoads, gtRest, gtNotDeck
    <3>5. GtMessage'
      BY <1>7 DEF GtTypes, GtMessage, GtPlayLoads, gtRest, gtNotDeck, IdleHook, NoGate, NoPad
    <3>6. QED
      BY <3>1, <3>2, <3>3, <3>4, <3>5 DEF GtTypes
  <2>2. GateHasItsPad'
    BY <1>7 DEF GtTypes, GtFlags, GtWord, GtPadTask, GtPlayTask, GtMessage, Words, Hooks, GateHasItsPad, GtPlayLoads, gtRest, gtNotDeck, IdleHook, NoGate, NoPad
  <2>3. OwedIsLatched'
    BY <1>7 DEF GtTypes, GtFlags, GtWord, GtPadTask, GtPlayTask, GtMessage, Words, Hooks, OwedIsLatched, GtPlayLoads, gtRest, gtNotDeck, IdleHook, NoGate, NoPad
  <2>4. MeantIsKept'
    BY <1>7 DEF GtTypes, GtFlags, GtWord, GtPadTask, GtPlayTask, GtMessage, Words, Hooks, MeantIsKept, Wish, GtPlayLoads, gtRest, gtNotDeck, IdleHook, NoGate, NoPad
  <2>5. QED
    BY <2>1, <2>2, <2>3, <2>4
<1>8. CASE GtPlaySwaps
  <2>1. GtTypes'
    <3>1. GtFlags'
      BY <1>8 DEF GtTypes, GtFlags, GtPlaySwaps, gtRest, gtNotDeck, IdleHook, NoGate, NoPad
    <3>2. GtWord'
        <4>1. gtSession' = [gtSession EXCEPT !.latch = TRUE] \/ gtSession' = gtSession
          BY <1>8 DEF GtPlaySwaps
        <4>2. QED
          BY <1>8, <4>1 DEF GtTypes, GtWord, Words, GtPlaySwaps, gtRest
    <3>3. GtPadTask'
      BY <1>8, NoGateIsAWord, IdleIsAHook, HookWalks, HookReads, HookBegins DEF GtTypes, GtPadTask, GtWord, GtPlaySwaps, gtRest, gtNotDeck
    <3>4. GtPlayTask'
      BY <1>8, NoGateIsAWord, IdleIsAHook, HookWalks, HookReads, HookBegins DEF GtTypes, GtPlayTask, GtWord, GtPlaySwaps, gtRest, gtNotDeck
    <3>5. GtMessage'
      BY <1>8 DEF GtTypes, GtMessage, GtPlaySwaps, gtRest, gtNotDeck, IdleHook, NoGate, NoPad
    <3>6. QED
      BY <3>1, <3>2, <3>3, <3>4, <3>5 DEF GtTypes
  <2>2. GateHasItsPad'
    BY <1>8 DEF GtTypes, GtFlags, GtWord, GtPadTask, GtPlayTask, GtMessage, Words, Hooks, GateHasItsPad, GtPlaySwaps, gtRest, gtNotDeck, IdleHook, NoGate, NoPad
  <2>3. OwedIsLatched'
    <3>1. CASE gtSession = gtPlay.old
      <4>1. gtSession' = [gtSession EXCEPT !.latch = TRUE] /\ gtSession.pad # NoPad
        BY <1>8, <3>1 DEF GtPlaySwaps, GateHasItsPad
      <4>2. QED
        BY <4>1 DEF OwedIsLatched, GtTypes, GtWord, Words
    <3>2. CASE gtSession # gtPlay.old
      BY <1>8, <3>2 DEF GtPlaySwaps, OwedIsLatched
    <3>3. QED
      BY <3>1, <3>2
  <2>4. MeantIsKept'
    BY <1>8 DEF GtTypes, GtFlags, GtWord, GtPadTask, GtPlayTask, GtMessage, Words, Hooks, MeantIsKept, Wish, GtPlaySwaps, gtRest, gtNotDeck, IdleHook, NoGate, NoPad
  <2>5. QED
    BY <2>1, <2>2, <2>3, <2>4
<1>9. QED
  BY <1>1, <1>2, <1>3, <1>4, <1>5, <1>6, <1>7, <1>8 DEF GtDeck

(* A step of the message thread.                                            *)
LEMMA GtUiKeepsIInv == ASSUME GtIInv, GtUi PROVE GtIInv'
<1> USE GtAssumption DEF GtIInv
<1>1. ASSUME NEW on \in BOOLEAN, NEW def \in BOOLEAN, GtMenu(on, def) PROVE GtIInv'
  <2>1. GtTypes'
    <3>1. GtFlags'
      BY <1>1 DEF GtTypes, GtFlags, GtMenu, Touches, Enables, gtNotUi, NoTap, NoGate, NoPad
    <3>2. GtWord'
      BY <1>1, NoGateIsAWord DEF GtTypes, GtWord, GtMenu, Touches, Enables, gtNotUi
    <3>3. GtPadTask'
      BY <1>1, NoGateIsAWord, IdleIsAHook, HookWalks, HookReads, HookBegins DEF GtTypes, GtPadTask, GtWord, GtMenu, Touches, Enables, gtNotUi
    <3>4. GtPlayTask'
      BY <1>1, NoGateIsAWord, IdleIsAHook, HookWalks, HookReads, HookBegins DEF GtTypes, GtPlayTask, GtWord, GtMenu, Touches, Enables, gtNotUi
    <3>5. GtMessage'
      BY <1>1 DEF GtTypes, GtMessage, GtMenu, Touches, Enables, gtNotUi, NoTap, NoGate, NoPad
    <3>6. QED
      BY <3>1, <3>2, <3>3, <3>4, <3>5 DEF GtTypes
  <2>2. GateHasItsPad'
    BY <1>1 DEF GtTypes, GtFlags, GtWord, GtPadTask, GtPlayTask, GtMessage, Words, Hooks, GateHasItsPad, GtMenu, Touches, Enables, gtNotUi, NoTap, NoGate, NoPad
  <2>3. OwedIsLatched'
    BY <1>1 DEF GtTypes, GtFlags, GtWord, GtPadTask, GtPlayTask, GtMessage, Words, Hooks, OwedIsLatched, GtMenu, Touches, Enables, gtNotUi, NoTap, NoGate, NoPad
  <2>4. MeantIsKept'
    BY <1>1 DEF GtTypes, GtFlags, GtWord, GtPadTask, GtPlayTask, GtMessage, Words, Hooks, MeantIsKept, Wish, GtMenu, Touches, Enables, gtNotUi, NoTap, NoGate, NoPad
  <2>5. QED
    BY <2>1, <2>2, <2>3, <2>4
<1>2. ASSUME NEW inside \in BOOLEAN, GtTapUp(inside) PROVE GtIInv'
  <2>1. GtTypes'
    <3>1. GtFlags'
        <4>1. gtTap.pending \in BOOLEAN /\ gtTap.queued \in BOOLEAN
          BY DEF GtTypes, GtMessage
        <4>2. gtMeant' \in BOOLEAN
          BY <1>2, <4>1 DEF GtTapUp, GtTypes, GtFlags
        <4>3. QED
          BY <1>2, <4>2 DEF GtTapUp, GtTypes, GtFlags, gtNotUi
    <3>2. GtWord'
      BY <1>2, NoGateIsAWord DEF GtTypes, GtWord, GtTapUp, gtNotUi
    <3>3. GtPadTask'
      BY <1>2, NoGateIsAWord, IdleIsAHook, HookWalks, HookReads, HookBegins DEF GtTypes, GtPadTask, GtWord, GtTapUp, gtNotUi
    <3>4. GtPlayTask'
      BY <1>2, NoGateIsAWord, IdleIsAHook, HookWalks, HookReads, HookBegins DEF GtTypes, GtPlayTask, GtWord, GtTapUp, gtNotUi
    <3>5. GtMessage'
      BY <1>2 DEF GtTypes, GtMessage, GtTapUp, gtNotUi, NoTap, NoGate, NoPad
    <3>6. QED
      BY <3>1, <3>2, <3>3, <3>4, <3>5 DEF GtTypes
  <2>2. GateHasItsPad'
    BY <1>2 DEF GtTypes, GtFlags, GtWord, GtPadTask, GtPlayTask, GtMessage, Words, Hooks, GateHasItsPad, GtTapUp, gtNotUi, NoTap, NoGate, NoPad
  <2>3. OwedIsLatched'
    BY <1>2 DEF GtTypes, GtFlags, GtWord, GtPadTask, GtPlayTask, GtMessage, Words, Hooks, OwedIsLatched, GtTapUp, gtNotUi, NoTap, NoGate, NoPad
  <2>4. MeantIsKept'
    BY <1>2 DEF GtTypes, GtFlags, GtWord, GtPadTask, GtPlayTask, GtMessage, Words, Hooks, MeantIsKept, Wish, GtTapUp, gtNotUi, NoTap, NoGate, NoPad
  <2>5. QED
    BY <2>1, <2>2, <2>3, <2>4
<1>3. CASE GtUiClears
  <2>1. GtTypes'
    <3>1. GtFlags'
      BY <1>3 DEF GtTypes, GtFlags, GtUiClears, gtNotUi, NoTap, NoGate, NoPad
    <3>2. GtWord'
      BY <1>3, NoGateIsAWord DEF GtTypes, GtWord, GtUiClears, gtNotUi
    <3>3. GtPadTask'
      BY <1>3, NoGateIsAWord, IdleIsAHook, HookWalks, HookReads, HookBegins DEF GtTypes, GtPadTask, GtWord, GtUiClears, gtNotUi
    <3>4. GtPlayTask'
      BY <1>3, NoGateIsAWord, IdleIsAHook, HookWalks, HookReads, HookBegins DEF GtTypes, GtPlayTask, GtWord, GtUiClears, gtNotUi
    <3>5. GtMessage'
      BY <1>3 DEF GtTypes, GtMessage, GtUiClears, gtNotUi, NoTap, NoGate, NoPad
    <3>6. QED
      BY <3>1, <3>2, <3>3, <3>4, <3>5 DEF GtTypes
  <2>2. GateHasItsPad'
    BY <1>3 DEF GtTypes, GtFlags, GtWord, GtPadTask, GtPlayTask, GtMessage, Words, Hooks, GateHasItsPad, GtUiClears, gtNotUi, NoTap, NoGate, NoPad
  <2>3. OwedIsLatched'
    BY <1>3 DEF GtTypes, GtFlags, GtWord, GtPadTask, GtPlayTask, GtMessage, Words, Hooks, OwedIsLatched, GtUiClears, gtNotUi, NoTap, NoGate, NoPad
  <2>4. MeantIsKept'
    BY <1>3 DEF GtTypes, GtFlags, GtWord, GtPadTask, GtPlayTask, GtMessage, Words, Hooks, MeantIsKept, Wish, GtUiClears, gtNotUi, NoTap, NoGate, NoPad
  <2>5. QED
    BY <2>1, <2>2, <2>3, <2>4
<1>4. CASE GtTapDown
  <2>1. GtTypes'
    <3>1. GtFlags'
      BY <1>4 DEF GtTypes, GtFlags, GtTapDown, Touches, gtNotUi, NoTap, NoGate, NoPad
    <3>2. GtWord'
      BY <1>4, NoGateIsAWord DEF GtTypes, GtWord, GtTapDown, Touches, gtNotUi
    <3>3. GtPadTask'
      BY <1>4, NoGateIsAWord, IdleIsAHook, HookWalks, HookReads, HookBegins DEF GtTypes, GtPadTask, GtWord, GtTapDown, Touches, gtNotUi
    <3>4. GtPlayTask'
      BY <1>4, NoGateIsAWord, IdleIsAHook, HookWalks, HookReads, HookBegins DEF GtTypes, GtPlayTask, GtWord, GtTapDown, Touches, gtNotUi
    <3>5. GtMessage'
        <4> DEFINE d == ~(IF gtTap.pending THEN gtTap.queued ELSE gtActive)
        <4>1. d \in BOOLEAN /\ gtTap' = [gtTap EXCEPT !.armed = TRUE, !.desired = d]
          BY <1>4 DEF GtTapDown
        <4> HIDE DEF d
        <4>2. QED
          BY <1>4, <4>1 DEF GtTypes, GtMessage, GtTapDown, Touches
    <3>6. QED
      BY <3>1, <3>2, <3>3, <3>4, <3>5 DEF GtTypes
  <2>2. GateHasItsPad'
    BY <1>4 DEF GtTypes, GtFlags, GtWord, GtPadTask, GtPlayTask, GtMessage, Words, Hooks, GateHasItsPad, GtTapDown, Touches, gtNotUi, NoTap, NoGate, NoPad
  <2>3. OwedIsLatched'
    BY <1>4 DEF GtTypes, GtFlags, GtWord, GtPadTask, GtPlayTask, GtMessage, Words, Hooks, OwedIsLatched, GtTapDown, Touches, gtNotUi, NoTap, NoGate, NoPad
  <2>4. MeantIsKept'
    BY <1>4 DEF GtTypes, GtFlags, GtWord, GtPadTask, GtPlayTask, GtMessage, Words, Hooks, MeantIsKept, Wish, GtTapDown, Touches, gtNotUi, NoTap, NoGate, NoPad
  <2>5. QED
    BY <2>1, <2>2, <2>3, <2>4
<1>5. CASE GtTrackLoaded
  <2>1. GtTypes'
    <3>1. GtFlags'
      BY <1>5 DEF GtTypes, GtFlags, GtTrackLoaded, gtNotUi, NoTap, NoGate, NoPad
    <3>2. GtWord'
      BY <1>5, NoGateIsAWord DEF GtTypes, GtWord, GtTrackLoaded, gtNotUi
    <3>3. GtPadTask'
      BY <1>5, NoGateIsAWord, IdleIsAHook, HookWalks, HookReads, HookBegins DEF GtTypes, GtPadTask, GtWord, GtTrackLoaded, gtNotUi
    <3>4. GtPlayTask'
      BY <1>5, NoGateIsAWord, IdleIsAHook, HookWalks, HookReads, HookBegins DEF GtTypes, GtPlayTask, GtWord, GtTrackLoaded, gtNotUi
    <3>5. GtMessage'
      BY <1>5 DEF GtTypes, GtMessage, GtTrackLoaded, gtNotUi, NoTap, NoGate, NoPad
    <3>6. QED
      BY <3>1, <3>2, <3>3, <3>4, <3>5 DEF GtTypes
  <2>2. GateHasItsPad'
    BY <1>5 DEF GtTypes, GtFlags, GtWord, GtPadTask, GtPlayTask, GtMessage, Words, Hooks, GateHasItsPad, GtTrackLoaded, gtNotUi, NoTap, NoGate, NoPad
  <2>3. OwedIsLatched'
    BY <1>5 DEF GtTypes, GtFlags, GtWord, GtPadTask, GtPlayTask, GtMessage, Words, Hooks, OwedIsLatched, GtTrackLoaded, gtNotUi, NoTap, NoGate, NoPad
  <2>4. MeantIsKept'
    BY <1>5 DEF GtTypes, GtFlags, GtWord, GtPadTask, GtPlayTask, GtMessage, Words, Hooks, MeantIsKept, Wish, GtTrackLoaded, gtNotUi, NoTap, NoGate, NoPad
  <2>5. QED
    BY <2>1, <2>2, <2>3, <2>4
<1>6. CASE GtTick
  <2>1. GtTypes'
    <3>1. GtFlags'
        <4>1. gtTap.pending \in BOOLEAN /\ gtTap.queued \in BOOLEAN /\ gtTap.desired \in BOOLEAN
          BY DEF GtTypes, GtMessage
        <4>2. gtActive' \in BOOLEAN
          BY <1>6 DEF GtTick
        <4>3. gtEnabled' \in BOOLEAN
          BY <1>6 DEF GtTick, Enables, GtTypes, GtFlags
        <4>4. gtMeant' \in BOOLEAN
          BY <1>6, <4>1 DEF GtTick, GtTypes, GtFlags
        <4>5. QED
          BY <1>6, <4>2, <4>3, <4>4 DEF GtTick, GtTypes, GtFlags, gtNotUi
    <3>2. GtWord'
      BY <1>6, NoGateIsAWord DEF GtTypes, GtWord, GtTick, Enables, gtNotUi
    <3>3. GtPadTask'
      BY <1>6, NoGateIsAWord, IdleIsAHook, HookWalks, HookReads, HookBegins DEF GtTypes, GtPadTask, GtWord, GtTick, Enables, gtNotUi
    <3>4. GtPlayTask'
      BY <1>6, NoGateIsAWord, IdleIsAHook, HookWalks, HookReads, HookBegins DEF GtTypes, GtPlayTask, GtWord, GtTick, Enables, gtNotUi
    <3>5. GtMessage'
      BY <1>6 DEF GtTypes, GtMessage, GtTick, Enables, gtNotUi, NoTap, NoGate, NoPad
    <3>6. QED
      BY <3>1, <3>2, <3>3, <3>4, <3>5 DEF GtTypes
  <2>2. GateHasItsPad'
    BY <1>6 DEF GtTypes, GtFlags, GtWord, GtPadTask, GtPlayTask, GtMessage, Words, Hooks, GateHasItsPad, GtTick, Enables, gtNotUi, NoTap, NoGate, NoPad
  <2>3. OwedIsLatched'
    BY <1>6 DEF GtTypes, GtFlags, GtWord, GtPadTask, GtPlayTask, GtMessage, Words, Hooks, OwedIsLatched, GtTick, Enables, gtNotUi, NoTap, NoGate, NoPad
  <2>4. MeantIsKept'
    BY <1>6 DEF GtTypes, GtFlags, GtWord, GtPadTask, GtPlayTask, GtMessage, Words, Hooks, MeantIsKept, Wish, GtTick, Enables, gtNotUi, NoTap, NoGate, NoPad
  <2>5. QED
    BY <2>1, <2>2, <2>3, <2>4
<1>7. QED
  BY <1>1, <1>2, <1>3, <1>4, <1>5, <1>6 DEF GtUi

(* Every step of the pad task, of the PLAY hook and of the menu keeps the inductive invariant of
   Gate Cue. *)
THEOREM GtStepKeepsIInv == GtIInv /\ [GtNext]_gtVars => GtIInv'
<1> SUFFICES ASSUME GtIInv, [GtNext]_gtVars PROVE GtIInv'
  OBVIOUS
<1>1. CASE UNCHANGED gtVars
  BY <1>1 DEF gtVars, GtIInv, GtTypes, GtFlags, GtWord, GtPadTask, GtPlayTask, GtMessage, Words, Hooks, GateHasItsPad, OwedIsLatched, MeantIsKept, Wish
<1>2. QED
  BY <1>1, GtDeckKeepsIInv, GtUiKeepsIInv DEF GtNext

(* What the invariant is for.                                               *)
THEOREM GtIInvSuffices == GtIInv => GateIsTheDjs
BY GtAssumption DEF GtIInv, GtTypes, GtFlags, GtWord, GtPadTask, GtPlayTask, GtMessage, Words, Hooks, GateHasItsPad, OwedIsLatched, MeantIsKept, Wish, GateIsTheDjs,
   ConsumedPlayKeepsPlaying, NoGateWithoutAPad, EveryTapCounts

(* A consumed PLAY keeps playing, a gate ends with its pad, a tap is one     *)
(* toggle: gate_state.c, gate.c, shortcut.c in any interleaving.            *)
THEOREM GateCueKeepsItsPromise == GtSpec => []GateIsTheDjs
<1>1. GtSpec => []GtIInv
  BY GtInitIInv, GtStepKeepsIInv, PTL DEF GtSpec
<1>2. QED
  BY <1>1, GtIInvSuffices, PTL
-----------------------------------------------------------------------------
(* The pads: the invariant.                                                 *)

CpWrite == [kind : CpPads \cup {MemoryKind}, pos : Nat]
CpTypes ==
  /\ cpHead \in Nat /\ cpNeedle \in Nat /\ cpCue \in [CpPads -> Nat]
  /\ cpWrites \in Seq(CpWrite)
  /\ cpArm \in [kind : CpPads \cup {NoKind}, pos : Nat]
  /\ cpOwner \in [CpPads -> {Nobody, "xpad", "groove", "preview"}]
  /\ cpDown \subseteq CpPads

\* The deck's count is the pads that are down, and it has seen those of them that
\* no panel took.
HeldIsCounted == IsFiniteSet(cpDown) /\ cpHeld = Cardinality(cpDown)
SeenAreTheDecks == \A p \in cpSeen : p \in cpDown /\ cpOwner[p] \notin {"xpad", "groove"}

CpIInv == CpTypes /\ HeldIsCounted /\ SeenAreTheDecks /\ NeedleIsThePadsAlone

(* The initial state.                                                       *)
THEOREM CpInitIInv == CpInit => CpIInv
<1> SUFFICES ASSUME CpInit PROVE CpIInv
  OBVIOUS
<1>1. cpHead \in Nat
  BY CpAssumption DEF CpInit, CpAssumption
<1>2. CpTypes
  BY <1>1 DEF CpInit, CpTypes, Unarmed
<1>3. HeldIsCounted
  BY FS_EmptySet DEF CpInit, HeldIsCounted
<1>4. SeenAreTheDecks /\ NeedleIsThePadsAlone
  BY DEF CpInit, SeenAreTheDecks, NeedleIsThePadsAlone
<1>5. QED
  BY <1>2, <1>3, <1>4 DEF CpIInv

(* A press: the count goes up by one, and the deck sees it unless a panel    *)
(* took it.                                                                 *)
LEMMA PressKeepsIInv ==
  ASSUME CpIInv, NEW p \in CpPads, NEW erase \in BOOLEAN, CpPress(p, erase)
  PROVE  CpIInv'
<1> USE CpAssumption DEF CpIInv, CpAssumption
<1>1. cpArm' \in [kind : CpPads \cup {NoKind}, pos : Nat]
  BY DEF CpPress, CpTypes, Unarmed
<1>2. Claimer(p) \in {Nobody, "xpad", "groove", "preview"}
  BY DEF Claimer
<1>3. /\ cpHead' \in Nat /\ cpCue' \in [CpPads -> Nat]
      /\ cpWrites' \in Seq(CpWrite)
  <2>1. CASE UNCHANGED <<cpCue, cpWrites, cpHead>>
    BY <2>1 DEF CpTypes
  <2>2. CASE DeckPress(p, erase)
    <3>1. [kind |-> p, pos |-> cpHead] \in CpWrite
      BY DEF CpTypes, CpWrite
    <3>2. CASE cpCue[p] = 0
      <4> DEFINE w == [kind |-> p, pos |-> cpHead]
      <4>1. cpWrites' = Append(cpWrites, w) /\ UNCHANGED <<cpCue, cpHead>>
        BY <2>2, <3>2 DEF DeckPress
      <4>2. w \in CpWrite
        BY <3>1
      <4> HIDE DEF w
      <4>3. QED
        BY <4>1, <4>2 DEF CpTypes
    <3>3. CASE cpCue[p] # 0 /\ erase
      BY <2>2, <3>3 DEF DeckPress, CpTypes
    <3>4. CASE cpCue[p] # 0 /\ ~erase
      BY <2>2, <3>4 DEF DeckPress, CpTypes
    <3>5. QED
      BY <3>2, <3>3, <3>4
  <2>3. QED
    BY <2>1, <2>2 DEF CpPress
<1>4. CpTypes'
  BY <1>1, <1>2, <1>3 DEF CpPress, CpTypes
<1>5. HeldIsCounted'
  BY FS_AddElement DEF CpPress, HeldIsCounted
<1>6. SeenAreTheDecks'
  <2>1. cpOwner' = [cpOwner EXCEPT ![p] = Claimer(p)] /\ cpDown' = cpDown \cup {p}
    BY DEF CpPress
  <2>2. cpSeen' = IF Claimer(p) \in {"xpad", "groove"} THEN cpSeen ELSE cpSeen \cup {p}
    BY DEF CpPress
  <2>3. p \notin cpSeen
    BY DEF CpPress, SeenAreTheDecks
  <2>4. QED
    BY <2>1, <2>2, <2>3 DEF SeenAreTheDecks, CpTypes
<1>7. NeedleIsThePadsAlone'
  BY DEF CpPress, NeedleIsThePadsAlone
<1>8. QED
  BY <1>4, <1>5, <1>6, <1>7

(* A release: to whom the press went, whatever opened or closed meanwhile.   *)
LEMMA ReleaseKeepsIInv ==
  ASSUME CpIInv, NEW p \in CpPads, CpRelease(p)
  PROVE  CpIInv'
<1> USE CpAssumption DEF CpIInv, CpAssumption
<1>1. CpTypes'
  BY DEF CpRelease, CpTypes
<1>2. HeldIsCounted'
  <2>1. p \in cpDown /\ cpHeld # 0
    BY FS_EmptySet DEF CpRelease, HeldIsCounted
  <2>2. QED
    BY <2>1, FS_RemoveElement DEF CpRelease, HeldIsCounted
<1>3. SeenAreTheDecks'
  BY DEF CpRelease, SeenAreTheDecks, CpTypes
<1>4. NeedleIsThePadsAlone'
  BY DEF CpRelease, NeedleIsThePadsAlone, NoKind
<1>5. QED
  BY <1>1, <1>2, <1>3, <1>4

(* A write that lands: the armed pad's goes to the needle, and no arm is for  *)
(* the memory cue.                                                          *)
LEMMA SetHereKeepsIInv == ASSUME CpIInv, CpSetHere PROVE CpIInv'
<1> USE CpAssumption DEF CpIInv, CpAssumption
<1> DEFINE w == Head(cpWrites)
<1>1. w \in CpWrite /\ cpWrites' \in Seq(CpWrite)
  BY DEF CpSetHere, CpTypes
<1>2. w.kind = MemoryKind => cpArm.kind # w.kind
  BY DEF CpTypes, MemoryKind, NoKind
<1>3. (IF cpArm.kind = w.kind THEN cpArm.pos ELSE w.pos) \in Nat
  BY <1>1 DEF CpTypes, CpWrite
<1>4. CpTypes'
  BY <1>1, <1>3 DEF CpSetHere, CpTypes, CpWrite, Unarmed
<1>5. HeldIsCounted' /\ SeenAreTheDecks'
  BY DEF CpSetHere, HeldIsCounted, SeenAreTheDecks
<1>6. NeedleIsThePadsAlone'
  BY <1>1, <1>2 DEF CpSetHere, NeedleIsThePadsAlone, CpWrite
<1>7. QED
  BY <1>4, <1>5, <1>6

(* Every press and release of a pad, every cue set or called, every panel opened and every move of
   the needle keeps the inductive invariant of the pads. *)
THEOREM CpStepKeepsIInv == CpIInv /\ [CpNext]_cpVars => CpIInv'
<1> SUFFICES ASSUME CpIInv, [CpNext]_cpVars PROVE CpIInv'
  OBVIOUS
<1> USE DEF CpIInv
<1>1. CASE CpCueButton
  <2>1. [kind |-> MemoryKind, pos |-> cpHead] \in CpWrite
    BY DEF CpTypes, CpWrite
  <2>2. CpTypes'
    BY <1>1, <2>1 DEF CpCueButton, CpTypes
  <2>3. QED
    BY <1>1, <2>2 DEF CpCueButton, HeldIsCounted, SeenAreTheDecks, NeedleIsThePadsAlone
<1>2. CASE CpPanels
  BY <1>2 DEF CpPanels, CpTypes, HeldIsCounted, SeenAreTheDecks, NeedleIsThePadsAlone
<1>3. ASSUME NEW at \in CpSpots \cup {0}, CpNeedle(at) PROVE CpIInv'
  BY <1>3, CpAssumption DEF CpNeedle, CpTypes, HeldIsCounted, SeenAreTheDecks, NeedleIsThePadsAlone,
     CpAssumption
<1>4. CASE UNCHANGED cpVars
  BY <1>4 DEF cpVars, CpTypes, HeldIsCounted, SeenAreTheDecks, NeedleIsThePadsAlone
<1>5. QED
  BY <1>1, <1>2, <1>3, <1>4, PressKeepsIInv, ReleaseKeepsIInv, SetHereKeepsIInv DEF CpNext

(* What the invariant is for: with every pad up the deck holds none.         *)
THEOREM CpIInvSuffices == CpIInv => PressesStayWhole
<1> SUFFICES ASSUME CpIInv PROVE PressesStayWhole
  OBVIOUS
<1>1. cpDown = {} => cpHeld = 0
  BY FS_EmptySet DEF CpIInv, HeldIsCounted
<1>2. QED
  BY <1>1 DEF CpIInv, SeenAreTheDecks, PressesStayWhole, DeckSeesWholePresses

(* The deck sees a release for each press it saw, whatever panels opened or   *)
(* closed under held pads, and the needle moves its own cue alone: pad.c,     *)
(* preview.c, for any pads and any presses.                                 *)
THEOREM PadsKeepTheirPromise == CpSpec => []PressesStayWhole
<1>1. CpSpec => []CpIInv
  BY CpInitIInv, CpStepKeepsIInv, PTL DEF CpSpec
<1>2. QED
  BY <1>1, CpIInvSuffices, PTL

-----------------------------------------------------------------------------
(* The X-PAD: of numbers.                                                    *)

\* A set of naturals that is not empty has a least element.
LEMMA LeastIn == ASSUME NEW S \in SUBSET Nat, S # {} PROVE \E n \in S : \A m \in S : n <= m
<1> DEFINE R == {ss \in Nat \X Nat : ss[1] < ss[2]}
<1>1. IsWellFoundedOn(R, Nat)
  BY NatLessThanWellFounded DEF OpToRel
<1>2. \E n \in S : \A m \in S : <<m, n>> \notin R
  <2> HIDE DEF R
  <2> QED
    BY <1>1, WFMin
<1>3. \A n, m \in S : <<m, n>> \notin R => n <= m
  OBVIOUS
<1>4. QED
  BY <1>2, <1>3

\* Multiples of a length keep the order of what they multiply.
LEMMA MultiplesMove ==
  ASSUME NEW n \in Nat \ {0}, NEW a \in Int, NEW b \in Int
  PROVE  /\ n * a \in Int /\ a * n = n * a
         /\ n * (a + 1) = n * a + n
         /\ a <= b => n * a <= n * b
         /\ n * a < n * b => a < b
  <1>1. n * a \in Int /\ a * n = n * a /\ n * (a + 1) = n * a + n
    OBVIOUS
  <1>2. n * (b - a) = n * b - n * a
    OBVIOUS
  <1>3. b - a >= 0 => n * (b - a) >= 0
    OBVIOUS
  <1>4. b - a <= 0 => n * (b - a) <= 0
    OBVIOUS
  <1>5. QED
    BY <1>1, <1>2, <1>3, <1>4

\* Quotient and remainder.
LEMMA Divides ==
  ASSUME NEW n \in Nat \ {0}, NEW a \in Int
  PROVE  /\ a \div n \in Int /\ a % n \in 0..n - 1
         /\ a = n * (a \div n) + (a % n)
  OBVIOUS

\* There is one of each.
LEMMA DividesOnce ==
  ASSUME NEW n \in Nat \ {0}, NEW a \in Int, NEW k \in Int, NEW r \in 0..n - 1, a = n * k + r
  PROVE  a \div n = k /\ a % n = r
<1> DEFINE q == a \div n
<1>1. q \in Int /\ a % n \in 0..n - 1 /\ a = n * q + (a % n)
  BY Divides
<1> HIDE DEF q
<1> DEFINE x == n * q  y == n * k
<1>2. /\ x \in Int /\ y \in Int /\ a = x + (a % n) /\ a = y + r
      /\ q + 1 <= k => x + n <= y
      /\ k + 1 <= q => y + n <= x
  <2>1. n * (q + 1) = n * q + n /\ n * (k + 1) = n * k + n
    BY <1>1, MultiplesMove
  <2>2. /\ x \in Int /\ y \in Int
        /\ q + 1 <= k => n * (q + 1) <= n * k
        /\ k + 1 <= q => n * (k + 1) <= n * q
    BY <1>1, MultiplesMove
  <2>3. QED
    BY <1>1, <2>1, <2>2
<1> HIDE DEF x, y
<1>3. ~(q < k)
  BY <1>1, <1>2
<1>4. ~(k < q)
  BY <1>1, <1>2
<1>5. q = k
  BY <1>1, <1>3, <1>4
<1>6. QED
  BY <1>1, <1>2, <1>5 DEF q, x, y

\* Two points of one phase are a bar apart.
LEMMA PhasesAreBarsApart ==
  ASSUME NEW a \in Int, NEW b \in Int, a < b, Wrap(a) = Wrap(b)
  PROVE  b >= a + XsBar
<1> DEFINE j == a \div XsBar  k == b \div XsBar
<1>1. XsBar \in Nat \ {0}
  BY XsAssumption
<1>2. /\ j \in Int /\ k \in Int /\ a = XsBar * j + Wrap(a) /\ b = XsBar * k + Wrap(b)
      /\ Wrap(a) \in 0..XsBar - 1
  BY <1>1, Divides DEF Wrap
<1> HIDE DEF j, k
<1>3. XsBar * j < XsBar * k /\ XsBar * j \in Int /\ XsBar * k \in Int
  BY <1>1, <1>2, MultiplesMove
<1>4. j < k
  BY <1>1, <1>2, <1>3, MultiplesMove
<1>5. XsBar * (j + 1) <= XsBar * k /\ XsBar * (j + 1) = XsBar * j + XsBar
  BY <1>1, <1>2, <1>4, MultiplesMove
<1>6. QED
  BY <1>1, <1>2, <1>3, <1>5

\* What falls in a span is the phase of a point in it.
LEMMA FallsInTheSpan ==
  ASSUME NEW s, s.b0 \in Int, s.b1 \in Int, NEW p \in 0..XsBar - 1, Falls(p, s)
  PROVE  \E q \in Int : s.b0 < q /\ q <= s.b1 /\ Wrap(q) = p
<1> DEFINE b0 == s.b0  b1 == s.b1  p0 == Wrap(b0)  p1 == Wrap(b1)
           j == b0 \div XsBar  k == b1 \div XsBar
<1>1. XsBar \in Nat \ {0}
  BY XsAssumption
<1>2. /\ b0 < b1 /\ b1 - b0 < XsBar
      /\ (IF p1 > p0 THEN p > p0 /\ p <= p1 ELSE p > p0 \/ p <= p1)
  BY DEF Falls
<1>3. /\ j \in Int /\ k \in Int /\ p0 \in 0..XsBar - 1 /\ p1 \in 0..XsBar - 1
      /\ b0 = XsBar * j + p0 /\ b1 = XsBar * k + p1 /\ b0 \in Int /\ b1 \in Int
  BY <1>1, Divides DEF Wrap
<1> HIDE DEF b0, b1, p0, p1, j, k
<1>4. /\ XsBar * j \in Int /\ XsBar * k \in Int
      /\ XsBar * (j + 1) = XsBar * j + XsBar /\ XsBar * (k + 1) = XsBar * k + XsBar
      /\ XsBar * (j + 1 + 1) = XsBar * (j + 1) + XsBar
  BY <1>1, <1>3, MultiplesMove
<1>5. j <= k
  <2>1. k + 1 <= j => XsBar * (k + 1) <= XsBar * j
    BY <1>1, <1>3, MultiplesMove
  <2>2. QED
    BY <1>1, <1>2, <1>3, <1>4, <2>1
<1>6. k <= j + 1
  <2>1. j + 1 + 1 <= k => XsBar * (j + 1 + 1) <= XsBar * k
    BY <1>1, <1>3, MultiplesMove
  <2>2. QED
    BY <1>1, <1>2, <1>3, <1>4, <2>1
<1>7. k = j \/ k = j + 1
  BY <1>3, <1>5, <1>6
<1>8. ASSUME NEW m \in Int PROVE Wrap(XsBar * m + p) = p /\ XsBar * m + p \in Int
  <2>1. XsBar * m + p \in Int
    BY <1>1, MultiplesMove
  <2>2. QED
    BY <1>1, <2>1, DividesOnce DEF Wrap
<1>9. CASE p1 > p0
  <2>1. k = j
    BY <1>1, <1>2, <1>3, <1>4, <1>7, <1>9
  <2>2. b0 < XsBar * j + p /\ XsBar * j + p <= b1
    BY <1>2, <1>3, <1>4, <1>9, <2>1
  <2>3. QED
    BY <1>3, <1>8, <2>2 DEF b0, b1
<1>10. CASE ~(p1 > p0)
  <2>1. k = j + 1
    BY <1>2, <1>3, <1>4, <1>7, <1>10
  <2>2. CASE p > p0
    <3>1. b0 < XsBar * j + p /\ XsBar * j + p <= b1
      BY <1>1, <1>3, <1>4, <2>1, <2>2
    <3>2. QED
      BY <1>3, <1>8, <3>1 DEF b0, b1
  <2>3. CASE p <= p1
    <3>1. b0 < XsBar * k + p /\ XsBar * k + p <= b1
      BY <1>1, <1>3, <1>4, <2>1, <2>3
    <3>2. QED
      BY <1>3, <1>8, <3>1 DEF b0, b1
  <2>4. QED
    BY <1>2, <1>10, <2>2, <2>3
<1>11. QED
  BY <1>9, <1>10

\* A boundary to come that is not the nearest one is half a division away, and the
\* one after a crossed boundary a whole one.
LEMMA BoundariesToCome ==
  ASSUME NEW d \in Nat \ {0}, NEW b \in Int, NEW k \in Int, k * d > b
  PROVE  /\ k # NearestBoundary(b, d) => 2 * (k * d - b) >= d
         /\ k >= b \div d + 1 /\ k * d - (b \div d) * d >= d
<1> DEFINE m == b \div d  n == NearestBoundary(b, d)
<1>1. m \in Int /\ b % d \in 0..d - 1 /\ b = d * m + (b % d)
  BY Divides
<1>2. PICK e \in 0..2 * d - 1 : n \in Int /\ 2 * b + d = (2 * d) * n + e
  <2> DEFINE w == 2 * d  v == 2 * b + d
  <2>1. w \in Nat \ {0} /\ v \in Int /\ n = v \div w
    BY DEF NearestBoundary
  <2> HIDE DEF n
  <2>2. n \in Int /\ v % w \in 0..w - 1 /\ v = w * n + (v % w)
    <3> HIDE DEF w, v
    <3> QED
      BY <2>1, Divides
  <2>3. QED
    BY <2>2
<1> HIDE DEF m, n
<1> DEFINE x == d * k  y == d * m  z == d * n
<1>3. /\ x \in Int /\ y \in Int /\ z \in Int /\ k * d = x /\ m * d = y
      /\ b = y + (b % d) /\ 2 * b + d = 2 * z + e
  <2>1. x \in Int /\ y \in Int /\ z \in Int /\ k * d = x /\ m * d = y
    BY <1>1, <1>2, MultiplesMove
  <2>2. (2 * d) * n = 2 * z
    BY <1>2
  <2>3. QED
    BY <1>1, <1>2, <2>1, <2>2
<1>4. /\ y < x => m + 1 <= k
      /\ m + 1 <= k => y + d <= x
      /\ n + 1 <= k => z + d <= x
      /\ k + 1 <= n => x + d <= z
  <2>1. d * (m + 1) = y + d /\ d * (n + 1) = z + d /\ d * (k + 1) = x + d
    BY <1>1, <1>2, MultiplesMove
  <2>2. /\ y < x => m < k
        /\ m + 1 <= k => d * (m + 1) <= x
        /\ n + 1 <= k => d * (n + 1) <= x
        /\ k + 1 <= n => d * (k + 1) <= z
    BY <1>1, <1>2, MultiplesMove
  <2>3. QED
    BY <1>1, <1>2, <2>1, <2>2
<1>5. x > b
  BY <1>3
<1> HIDE DEF x, y, z
<1>6. m + 1 <= k /\ y + d <= x
  BY <1>1, <1>3, <1>4, <1>5
<1>7. k # n => 2 * (x - b) >= d
  <2>1. CASE k + 1 <= n
    BY <1>2, <1>3, <1>4, <1>5, <2>1
  <2>2. CASE n + 1 <= k
    BY <1>2, <1>3, <1>4, <1>5, <2>2
  <2>3. QED
    BY <1>2, <2>1, <2>2
<1>8. QED
  BY <1>1, <1>3, <1>6, <1>7 DEF m, n


\* The last boundary of a span.
LEMMA LastBoundary ==
  ASSUME NEW d \in Nat \ {0}, NEW b \in Nat
  PROVE  /\ b \div d \in Nat /\ (b \div d) * d \in Nat /\ (b \div d) * d <= b
         /\ \A a \in Nat : b \div d > a \div d => (b \div d) * d > a
<1> DEFINE m == b \div d  x == d * m
<1>1. m \in Int /\ b % d \in 0..d - 1 /\ b = x + (b % d)
  BY Divides
<1> HIDE DEF m
<1>2. x \in Int /\ m * d = x /\ d * (m + 1) = x + d /\ d * 0 = 0
  BY <1>1, MultiplesMove
<1>3. m >= 0 /\ x >= 0
  <2>1. m + 1 <= 0 => d * (m + 1) <= d * 0
    BY <1>1, MultiplesMove
  <2>2. 0 <= m => d * 0 <= d * m
    BY <1>1, MultiplesMove
  <2> HIDE DEF x
  <2>3. m >= 0
    BY <1>1, <1>2, <2>1
  <2>4. QED
    BY <1>2, <2>2, <2>3 DEF x
<1>4. ASSUME NEW a \in Nat, m > a \div d PROVE x > a
  <2> DEFINE k == a \div d  y == d * k
  <2>1. k \in Int /\ a % d \in 0..d - 1 /\ a = y + (a % d)
    BY Divides
  <2> HIDE DEF k
  <2>2. k + 1 <= m
    BY <1>1, <1>4, <2>1 DEF k
  <2>3. d * (k + 1) <= x /\ d * (k + 1) = y + d /\ y \in Int
    BY <1>1, <2>1, <2>2, MultiplesMove
  <2> HIDE DEF x, y
  <2>4. QED
    BY <1>2, <2>1, <2>3
<1> HIDE DEF x
<1>5. QED
  BY <1>1, <1>2, <1>3, <1>4 DEF m

-----------------------------------------------------------------------------
(* The X-PAD: the invariant.                                                 *)

Strips == XsDivs \cup {None}
Half == XsBar \div 2

IsEvent(e) ==
  /\ DOMAIN e = {"kind", "bank", "div", "phase", "last"}
  /\ e.div \in Strips /\ e.phase \in 0..XsBar - 1 /\ e.last \in Int

\* From here on its phase does not come round before half a bar since it sounded.
Apart(e) == \A q \in Int : xsHead.beat < q /\ Wrap(q) = e.phase => q - e.last >= Half

XsTypes ==
  /\ xsHead.pos \in Nat \cup {None} /\ xsHead.beat \in Nat
  /\ xsRoll.div \in Strips /\ xsRoll.claim \in Int
  /\ xsTouch \in Strips /\ xsAuto \in Strips
  /\ xsSel \in XsBanks \cup {None} /\ xsPend \subseteq XsBanks /\ IsFiniteSet(xsPend)
  /\ xsPend # {} => xsSel \in xsPend
  /\ DOMAIN xsSaw = {"touch", "late", "tight", "echo", "even", "struck"}
  /\ xsSaw.struck \in [XsBanks -> Int]

\* What the array holds, and what is to be put there.
EventsAre ==
  /\ \E S : /\ xsEv \in Seq(S) /\ xsPush.todo \in Seq(S)
            /\ \A e \in S : IsEvent(e) /\ (xsSaw.even => Apart(e))
  /\ DOMAIN xsPush = {"todo", "n"}
  /\ xsN \in 0..Len(xsEv) /\ (xsPush.n # NotRead => xsPush.n \in 0..Len(xsEv))

\* A boundary of the running roll that is still to come, and not claimed, is half a
\* division from the selected pad's last hit.
RollWaits ==
  xsSaw.even /\ xsPend = {} /\ xsSel # None /\ xsRoll.div # None /\ xsSaw.struck[xsSel] # None =>
    \A k \in Int : k * xsRoll.div > xsHead.beat /\ k # xsRoll.claim =>
      2 * (k * xsRoll.div - xsSaw.struck[xsSel]) >= xsRoll.div

XsIInv == XsTypes /\ EventsAre /\ RollWaits /\ HitsKeepTheirTime

\* Half a bar is one.
LEMMA HalfBar == XsBar \in Nat \ {0} /\ Half \in Nat /\ 2 * Half <= XsBar
<1>1. XsBar \in Nat \ {0}
  BY XsAssumption
<1>2. QED
  BY <1>1, Divides DEF Half

\* The span of a block: it does not run back, and with the room an event is left it
\* is no longer than the bar.
LEMMA SpanOf ==
  ASSUME XsTypes, NEW adv \in XsAdvances,
         NEW pos, pos = IF xsHead.pos = None THEN 0 ELSE xsHead.pos + adv
  PROVE  LET s == HeadStep(pos) IN
         /\ pos \in Nat /\ s.b0 \in Nat /\ s.b1 \in Nat /\ s.b0 <= s.b1
         /\ Half \in Nat /\ s.b1 - s.b0 + Half <= XsBar + 1
         /\ Joins(s) => xsSaw.even /\ s.b0 = xsHead.beat
<1> DEFINE s == HeadStep(pos)
<1>1. adv \in Nat /\ 2 * adv <= XsBar /\ XsBar \in Nat \ {0}
  BY XsAssumption
<1>2. Half \in Nat /\ 2 * Half <= XsBar
  BY <1>1, Divides DEF Half
<1>3. xsHead.beat \in Nat /\ xsHead.pos \in Nat \cup {None}
  BY DEF XsTypes
<1>4. CASE xsHead.pos # None /\ pos # xsHead.pos
  <2>1. pos > xsHead.pos /\ pos - xsHead.pos = adv /\ pos \in Nat
    BY <1>1, <1>3, <1>4 DEF None
  <2>2. s = [b0 |-> pos, b1 |-> pos + adv, still |-> 0]
    BY <1>4, <2>1 DEF HeadStep
  <2>3. s.b0 = pos /\ s.b1 = pos + adv
    BY <2>2
  <2> HIDE DEF s
  <2>4. QED
    BY <1>1, <1>2, <1>4, <2>1, <2>3 DEF Joins, s
<1>5. CASE ~(xsHead.pos # None /\ pos # xsHead.pos)
  <2>1. s.b0 = xsHead.beat /\ (s.b1 = xsHead.beat \/ s.b1 = xsHead.beat + 1)
    BY <1>5 DEF HeadStep
  <2>2. pos \in Nat
    BY <1>1, <1>3 DEF None
  <2> HIDE DEF s
  <2>3. QED
    BY <1>1, <1>2, <1>3, <2>1, <2>2 DEF Joins, s
<1>6. QED
  BY <1>4, <1>5

\* The last of a set of numbers up to n.
LEMMA LastOf ==
  ASSUME NEW n \in Nat, NEW S \in SUBSET (1..n), S # {}
  PROVE  \E i \in S : \A j \in S : j <= i
<1> DEFINE T == {m \in Nat : \A j \in S : j <= m}
<1>1. n \in T
  OBVIOUS
<1>2. PICK m \in T : \A k \in T : m <= k
  <2> HIDE DEF T
  <2>1. T \in SUBSET Nat
    BY DEF T
  <2>2. QED
    BY <1>1, <2>1, LeastIn
<1>3. m \in S
  <2> SUFFICES ASSUME m \notin S PROVE FALSE
    OBVIOUS
  <2>1. m - 1 \in T
    <3>1. PICK j \in S : TRUE
      OBVIOUS
    <3>2. m \in Nat /\ m >= 1 /\ \A k \in S : k <= m - 1
      BY <1>2, <3>1
    <3>3. QED
      BY <3>2
  <2>2. QED
    BY <1>2, <2>1
<1>4. QED
  BY <1>2, <1>3

\* What the bar plays back on the strip is one of its zones, or the finger lifted.
LEMMA AutoIsAStrip == ASSUME XsTypes, EventsAre, NEW s PROVE AutoAfter(s) \in Strips /\ Gesture(s) \in Strips
<1> DEFINE pads == {i \in Due(s) : xsEv[i].kind = "pad"}
<1>1. PICK S : xsEv \in Seq(S) /\ \A e \in S : IsEvent(e)
  BY DEF EventsAre
<1>2. xsN \in 0..Len(xsEv) /\ Len(xsEv) \in Nat /\ \A i \in 1..Len(xsEv) : xsEv[i].div \in Strips
  BY <1>1 DEF EventsAre, IsEvent
<1>3. pads \in SUBSET (1..xsN) /\ pads \in SUBSET (1..Len(xsEv))
  BY <1>2 DEF Due
<1>4. CASE pads = {}
  <2>1. AutoAfter(s) = xsAuto
    BY <1>4 DEF AutoAfter
  <2>2. QED
    BY <2>1 DEF Gesture, XsTypes
<1>5. CASE pads # {}
  <2> DEFINE last == CHOOSE i \in pads : \A j \in pads : j <= i
  <2>1. AutoAfter(s) = xsEv[last].div
    BY <1>5 DEF AutoAfter
  <2> HIDE DEF pads
  <2>2. last \in pads
    BY <1>2, <1>3, <1>5, LastOf
  <2>3. xsEv[last].div \in Strips
    BY <1>2, <1>3, <2>2
  <2>4. QED
    BY <2>1, <2>3 DEF Gesture, XsTypes
<1>6. QED
  BY <1>4, <1>5

-----------------------------------------------------------------------------
(* The events through a block: those it does not play are no nearer, those it  *)
(* plays or records are a bar away, and none that it plays sounded in the half   *)
(* bar before.                                                               *)

\* The event that is recorded at the end of a span.
LEMMA RecordedIsApart ==
  ASSUME NEW b \in Nat, xsHead'.beat = b, NEW e, IsEvent(e), e.phase = Wrap(b), e.last = b
  PROVE  Apart(e)'
<1> SUFFICES ASSUME NEW q \in Int, b < q, Wrap(q) = Wrap(b) PROVE q - b >= Half
  BY DEF Apart
<1>1. q >= b + XsBar
  BY PhasesAreBarsApart
<1>2. XsBar \in Nat \ {0} /\ 2 * Half <= XsBar /\ Half \in Nat
  BY HalfBar
<1>3. QED
  BY <1>1, <1>2

\* The event that a span plays.
LEMMA PlayedIsApart ==
  ASSUME NEW s, s.b0 \in Nat, s.b1 \in Nat, s.b1 - s.b0 + Half <= XsBar + 1, Half \in Nat,
         xsHead'.beat = s.b1, NEW e, IsEvent(e), Falls(e.phase, s)
  PROVE  /\ IsEvent([e EXCEPT !.last = s.b1]) /\ Apart([e EXCEPT !.last = s.b1])'
         /\ Apart(e) /\ s.b0 = xsHead.beat => ~(s.b1 - e.last < Half)
<1> DEFINE f == [e EXCEPT !.last = s.b1]
<1>1. IsEvent(f) /\ f.phase = e.phase /\ f.last = s.b1
  BY DEF IsEvent
<1> HIDE DEF f
<1>2. PICK p \in Int : s.b0 < p /\ p <= s.b1 /\ Wrap(p) = e.phase
  BY FallsInTheSpan DEF IsEvent
<1>3. ASSUME NEW q \in Int, s.b1 < q, Wrap(q) = e.phase PROVE q - s.b1 >= Half
  <2>1. q >= p + XsBar
    BY <1>2, <1>3, PhasesAreBarsApart
  <2>2. XsBar \in Nat
    BY XsAssumption
  <2>3. QED
    BY <1>2, <2>1, <2>2
<1>4. Apart(f)'
  BY <1>1, <1>3 DEF Apart
<1>5. ASSUME Apart(e), s.b0 = xsHead.beat PROVE ~(s.b1 - e.last < Half)
  <2>1. p - e.last >= Half
    BY <1>2, <1>5 DEF Apart
  <2>2. QED
    BY <1>2, <2>1 DEF IsEvent
<1>6. QED
  BY <1>1, <1>4, <1>5 DEF f

\* What is not played waits on.
LEMMA StillApart ==
  ASSUME xsHead.beat \in Nat, xsHead'.beat \in Nat, xsHead.beat <= xsHead'.beat, NEW e, Apart(e)
  PROVE  Apart(e)'
BY DEF Apart

\* Together, what is in the array and what is to be put there.
LEMMA EventsThroughABlock ==
  ASSUME XsTypes, EventsAre, NEW adv \in XsAdvances,
         NEW pos, pos = IF xsHead.pos = None THEN 0 ELSE xsHead.pos + adv,
         Steps(pos), MixBlock(pos)
  PROVE  EventsAre' /\ (xsSaw'.even => ~xsSaw'.echo \/ xsSaw.echo)
<1> DEFINE s == HeadStep(pos)
<1>1. /\ s.b0 \in Nat /\ s.b1 \in Nat /\ s.b0 <= s.b1 /\ Half \in Nat /\ s.b1 - s.b0 + Half <= XsBar + 1
      /\ Joins(s) => xsSaw.even /\ s.b0 = xsHead.beat
  BY SpanOf
<1>2. xsHead'.beat = s.b1
  BY DEF Steps
<1>3. /\ xsPush' = [todo |-> Records(s), n |-> NotRead] /\ xsN' = xsN
      /\ xsEv' = [i \in 1..Len(xsEv) |-> IF i \in Hits(s) THEN [xsEv[i] EXCEPT !.last = s.b1] ELSE xsEv[i]]
      /\ xsSaw'.even = Joins(s)
      /\ xsSaw'.echo = (xsSaw.echo \/ \E i \in Hits(s) : s.b1 - xsEv[i].last < XsBar \div 2)
  BY DEF MixBlock
<1>4. PICK S : /\ xsEv \in Seq(S) /\ xsPush.todo \in Seq(S)
               /\ \A e \in S : IsEvent(e) /\ (xsSaw.even => Apart(e))
  BY DEF EventsAre
<1>5. \A i \in Hits(s) : i \in 1..Len(xsEv) /\ xsEv[i] \in S /\ Falls(xsEv[i].phase, s)
  BY <1>4 DEF Hits, Due, EventsAre
<1> HIDE DEF s
<1> DEFINE Played(e) == [e EXCEPT !.last = s.b1]
           Pads == {PadEvent(xsTouch, s.b1)}
           Recorded == {HitEvent(Sorted(xsPend)[i], s.b1) : i \in 1..Cardinality(xsPend)}
           T == S \cup {Played(e) : e \in {x \in S : Falls(x.phase, s)}} \cup Pads \cup Recorded
<1>6. ASSUME NEW e \in T PROVE IsEvent(e) /\ (xsSaw'.even => Apart(e)')
  <2>1. CASE e \in S
    BY <1>1, <1>2, <1>3, <1>4, <2>1, StillApart DEF XsTypes
  <2>2. ASSUME NEW x \in S, Falls(x.phase, s), e = Played(x) PROVE IsEvent(e) /\ Apart(e)'
    <3>1. IsEvent(x)
      BY <1>4
    <3>2. QED
      BY <1>1, <1>2, <2>2, <3>1, PlayedIsApart
  <2>3. Wrap(s.b1) \in 0..XsBar - 1
    BY <1>1, XsAssumption, Divides DEF Wrap
  <2>4. CASE e \in Pads
    <3>1. IsEvent(e) /\ e.phase = Wrap(s.b1) /\ e.last = s.b1
      BY <1>1, <2>3, <2>4 DEF PadEvent, IsEvent, XsTypes
    <3>2. QED
      BY <1>1, <1>2, <3>1, RecordedIsApart
  <2>5. CASE e \in Recorded
    <3>1. IsEvent(e) /\ e.phase = Wrap(s.b1) /\ e.last = s.b1
      BY <1>1, <2>3, <2>5 DEF HitEvent, IsEvent, Strips
    <3>2. QED
      BY <1>1, <1>2, <3>1, RecordedIsApart
  <2>6. QED
    BY <1>6, <2>1, <2>2, <2>4, <2>5
<1>7. xsEv' \in Seq(T) /\ Len(xsEv') = Len(xsEv)
  <2>1. Len(xsEv) \in Nat /\ \A i \in 1..Len(xsEv) : xsEv[i] \in S
    BY <1>4
  <2>2. \A i \in 1..Len(xsEv) : xsEv'[i] \in T
    BY <1>3, <1>5, <2>1
  <2> HIDE DEF T
  <2>3. xsEv' \in [1..Len(xsEv) -> T]
    BY <1>3, <2>2
  <2>4. QED
    BY <2>1, <2>3
<1>8. Records(s) \in Seq(T)
  <2>1. Cardinality(xsPend) \in Nat
    BY FS_CardinalityType DEF XsTypes
  <2> DEFINE hits == [i \in 1..Cardinality(xsPend) |-> HitEvent(Sorted(xsPend)[i], s.b1)]
             pads == IF Automates(s) THEN <<PadEvent(xsTouch, s.b1)>> ELSE <<>>
  <2>2. hits \in [1..Cardinality(xsPend) -> T] /\ PadEvent(xsTouch, s.b1) \in T
    OBVIOUS
  <2>3. Records(s) = pads \o (IF xsOver THEN hits ELSE <<>>)
    BY DEF Records
  <2> HIDE DEF hits, T
  <2>4. hits \in Seq(T)
    BY <2>1, <2>2
  <2>5. pads \in Seq(T)
    BY <2>2
  <2> HIDE DEF pads
  <2>6. QED
    BY <2>3, <2>4, <2>5
<1>9. EventsAre'
  <2>1. /\ \E S2 : /\ xsEv' \in Seq(S2) /\ xsPush'.todo \in Seq(S2)
                   /\ \A e \in S2 : IsEvent(e) /\ (xsSaw'.even => Apart(e)')
    <3> HIDE DEF T
    <3>1. xsPush'.todo \in Seq(T)
      BY <1>3, <1>8
    <3>2. QED
      BY <1>6, <1>7, <3>1
  <2>2. DOMAIN xsPush' = {"todo", "n"} /\ xsN' \in 0..Len(xsEv') /\ xsPush'.n = NotRead
    BY <1>3, <1>7 DEF EventsAre
  <2>3. QED
    BY <2>1, <2>2 DEF EventsAre, IsEvent
<1>10. ASSUME xsSaw'.even PROVE ~xsSaw'.echo \/ xsSaw.echo
  <2>1. \A i \in Hits(s) : IsEvent(xsEv[i]) /\ Apart(xsEv[i]) /\ Falls(xsEv[i].phase, s)
    BY <1>1, <1>3, <1>4, <1>5, <1>10
  <2>2. s.b0 = xsHead.beat
    BY <1>1, <1>3, <1>10
  <2>3. \A i \in Hits(s) : ~(s.b1 - xsEv[i].last < Half)
    BY <1>1, <1>2, <2>1, <2>2, PlayedIsApart
  <2>4. QED
    BY <1>3, <2>3 DEF Half
<1>11. QED
  BY <1>9, <1>10

-----------------------------------------------------------------------------
(* The roll, then the whole block and the other steps.                         *)

\* The roll through a block: what it fires is far enough from the pad's last hit, and
\* what it claims keeps the next one far enough from this one.
LEMMA RollThroughABlock ==
  ASSUME XsTypes, EventsAre, RollWaits, NEW adv \in XsAdvances,
         NEW pos, pos = IF xsHead.pos = None THEN 0 ELSE xsHead.pos + adv,
         Steps(pos), MixBlock(pos), UNCHANGED <<xsOver, xsSel, xsTouch, xsHands>>
  PROVE  XsTypes' /\ RollWaits' /\ (xsSaw'.even => ~xsSaw'.tight \/ xsSaw.tight)
<1> DEFINE s == HeadStep(pos)  div == Gesture(s)  rolls == RollFires(s, div)
           at(b) == IF b \in xsPend THEN s.b0
                    ELSE IF rolls /\ b = xsSel
                         THEN IF div # xsRoll.div THEN s.b0 ELSE (s.b1 \div div) * div
                    ELSE None
           m == s.b1 \div div
<1>1. /\ pos \in Nat /\ s.b0 \in Nat /\ s.b1 \in Nat /\ s.b0 <= s.b1
      /\ Joins(s) => xsSaw.even /\ s.b0 = xsHead.beat
  BY SpanOf
<1>2. xsHead'.beat = s.b1 /\ xsHead'.pos = pos /\ xsSel' = xsSel /\ xsTouch' = xsTouch
  BY DEF Steps
<1>3. /\ xsAuto' = AutoAfter(s) /\ xsRoll' = PendingClaims(s, RollAfter(s, div)) /\ xsPend' = {}
      /\ DOMAIN xsSaw' = {"touch", "late", "tight", "echo", "even", "struck"}
      /\ xsSaw'.even = Joins(s)
      /\ xsSaw'.struck = [b \in XsBanks |-> IF at(b) # None THEN at(b) ELSE xsSaw.struck[b]]
      /\ xsSaw'.tight =
           (xsSaw.tight \/
             (rolls /\ div = xsRoll.div /\ xsSel \notin xsPend /\ xsSaw.struck[xsSel] # None /\
              2 * (at(xsSel) - xsSaw.struck[xsSel]) < div))
  BY DEF MixBlock
<1>4. div \in Strips /\ AutoAfter(s) \in Strips
  BY AutoIsAStrip
<1>5. ASSUME div # None PROVE div \in Nat \ {0} /\ m \in Nat /\ m * div \in Nat /\ m * div <= s.b1
  <2>1. div \in Nat \ {0}
    BY <1>4, <1>5, XsAssumption DEF Strips
  <2>2. PICK d \in Nat \ {0}, b \in Nat : d = div /\ b = s.b1
    BY <1>1, <2>1
  <2>3. m = b \div d
    BY <2>2
  <2> HIDE DEF m, s, div
  <2>4. QED
    BY <2>1, <2>2, <2>3, LastBoundary
<1>6. rolls => div # None /\ xsSel # None
  BY DEF RollFires
<1>7. NearestBoundary(s.b1, div) \in Int \/ div = None
  <2>1. ASSUME div # None PROVE (2 * s.b1 + div) \div (2 * div) \in Int
    <3> DEFINE v == 2 * s.b1 + div  w == 2 * div
    <3>1. v \in Int /\ w \in Nat \ {0}
      BY <1>1, <1>5, <2>1
    <3> HIDE DEF v, w
    <3>2. v \div w \in Int
      BY <3>1, Divides
    <3>3. QED
      BY <3>2 DEF v, w
  <2>2. QED
    BY <2>1 DEF NearestBoundary
<1> HIDE DEF s, div, m
<1>8. \A b : at(b) \in Int
  BY <1>1, <1>5, <1>6 DEF None, m
<1>9. xsRoll'.div = div /\ xsRoll'.claim \in Int
  BY <1>3, <1>7 DEF PendingClaims, RollAfter, None, XsTypes
<1>10. XsTypes'
  <2>1. xsSaw'.struck \in [XsBanks -> Int]
    <3>1. \A b \in XsBanks : (IF at(b) # None THEN at(b) ELSE xsSaw.struck[b]) \in Int
      BY <1>8 DEF XsTypes
    <3> HIDE DEF at
    <3>2. QED
      BY <1>3, <3>1
  <2>2. IsFiniteSet({}) /\ xsPend' = {}
    BY <1>3, FS_EmptySet
  <2>3. xsTouch' \in Strips /\ xsSel' \in XsBanks \cup {None}
    BY <1>2 DEF XsTypes
  <2>4. QED
    BY <1>1, <1>2, <1>3, <1>4, <1>9, <2>1, <2>2, <2>3 DEF XsTypes
<1>11. ASSUME div # None, xsSel # None, div = xsRoll.div, xsPend = {}, rolls, xsSaw.struck[xsSel] # None, xsSaw'.even
       PROVE  ~(2 * (at(xsSel) - xsSaw.struck[xsSel]) < div)
  <2>1. xsSaw.even /\ s.b0 = xsHead.beat
    BY <1>1, <1>3, <1>11
  <2>2. Crossed(s, div) /\ xsRoll.claim # m
    BY <1>11 DEF RollFires, m
  <2>3. at(xsSel) = m * div
    BY <1>11 DEF m
  <2>4. m * div > s.b0
    <3>1. PICK d \in Nat \ {0}, b \in Nat, c \in Nat : d = div /\ b = s.b1 /\ c = s.b0
      BY <1>1, <1>5, <1>11
    <3>2. m = b \div d /\ m > c \div d
      BY <2>2, <3>1 DEF Crossed, m
    <3>3. QED
      BY <3>1, <3>2, LastBoundary
  <2>5. 2 * (m * div - xsSaw.struck[xsSel]) >= div
    BY <1>5, <1>11, <2>1, <2>2, <2>4 DEF RollWaits
  <2>6. 2 * (m * div - xsSaw.struck[xsSel]) \in Int /\ div \in Int
    BY <1>5, <1>11 DEF XsTypes
  <2> HIDE DEF at
  <2>7. QED
    BY <2>3, <2>5, <2>6
<1>12. xsSaw'.even => ~xsSaw'.tight \/ xsSaw.tight
  <2> SUFFICES ASSUME xsSaw'.even, rolls, div = xsRoll.div, xsSel \notin xsPend, xsSaw.struck[xsSel] # None
               PROVE  ~(2 * (at(xsSel) - xsSaw.struck[xsSel]) < div)
    BY <1>3
  <2>1. xsPend = {}
    BY DEF XsTypes
  <2>2. QED
    BY <1>6, <1>11, <2>1
<1>13. RollWaits'
  <2> SUFFICES ASSUME xsSaw'.even, xsSel # None, div # None, xsSaw'.struck[xsSel] # None,
                      NEW k \in Int, k * div > s.b1, k # xsRoll'.claim
               PROVE  2 * (k * div - xsSaw'.struck[xsSel]) >= div
    BY <1>2, <1>9 DEF RollWaits
  <2>1. div \in Nat \ {0} /\ m \in Nat /\ m * div \in Nat /\ m * div <= s.b1
    BY <1>5
  <2>11. PICK d \in Nat \ {0}, b \in Nat : d = div /\ b = s.b1
    BY <1>1, <2>1
  <2>12. m = b \div d /\ NearestBoundary(s.b1, div) = NearestBoundary(b, d) /\ k * d > b
    BY <2>11 DEF m
  <2>2. k # NearestBoundary(s.b1, div) => 2 * (k * div - s.b1) >= div
    <3>1. k # NearestBoundary(b, d) => 2 * (k * d - b) >= d
      BY <2>12, BoundariesToCome DEF NearestBoundary
    <3>2. QED
      BY <2>11, <2>12, <3>1
  <2>3. k >= m + 1 /\ k * div - m * div >= div
    <3>1. k >= b \div d + 1 /\ k * d - (b \div d) * d >= d
      BY <2>12, BoundariesToCome
    <3>2. QED
      BY <2>11, <2>12, <3>1
  <2>4. xsSaw.even /\ s.b0 = xsHead.beat
    BY <1>1, <1>3
  <2>5. k * div \in Int /\ xsSel \in XsBanks /\ xsSaw'.struck[xsSel] = IF at(xsSel) # None THEN at(xsSel) ELSE xsSaw.struck[xsSel]
    BY <1>3, <2>1 DEF XsTypes
  <2>6. CASE xsPend # {}
    <3>1. xsSel \in xsPend
      BY <2>6 DEF XsTypes
    <3>2. xsSaw'.struck[xsSel] = s.b0
      BY <1>1, <2>5, <3>1 DEF None
    <3>3. xsRoll'.claim = NearestBoundary(s.b1, div)
      BY <1>3, <1>9, <2>6 DEF PendingClaims, RollAfter
    <3>4. QED
      BY <1>1, <2>1, <2>2, <2>5, <3>2, <3>3
  <2>7. CASE xsPend = {} /\ div # xsRoll.div
    <3>1. rolls /\ at(xsSel) = s.b0
      BY <2>7 DEF RollFires
    <3>2. xsSaw'.struck[xsSel] = s.b0
      BY <1>1, <2>5, <3>1 DEF None
    <3>3. xsRoll'.claim = NearestBoundary(s.b1, div)
      BY <1>3, <2>7 DEF PendingClaims, RollAfter
    <3>4. QED
      BY <1>1, <2>1, <2>2, <2>5, <3>2, <3>3
  <2>8. CASE xsPend = {} /\ div = xsRoll.div /\ rolls
    <3>1. at(xsSel) = m * div
      BY <2>8 DEF m
    <3>2. xsSaw'.struck[xsSel] = m * div
      BY <2>1, <2>5, <3>1 DEF None
    <3>3. QED
      BY <2>1, <2>3, <2>5, <3>2
  <2>9. CASE xsPend = {} /\ div = xsRoll.div /\ ~rolls
    <3>1. xsSaw'.struck[xsSel] = xsSaw.struck[xsSel]
      BY <2>5, <2>9 DEF None
    <3>2. k # xsRoll.claim
      <4>1. CASE Crossed(s, div)
        <5>1. xsRoll.claim = m
          BY <2>9, <4>1 DEF RollFires, m
        <5>2. QED
          BY <2>1, <2>3, <5>1
      <4>2. CASE ~Crossed(s, div)
        <5>1. xsRoll'.claim = xsRoll.claim
          BY <1>3, <2>9, <4>2 DEF PendingClaims, RollAfter
        <5>2. QED
          BY <5>1
      <4>3. QED
        BY <4>1, <4>2
    <3>3. k * xsRoll.div > xsHead.beat
      BY <1>1, <2>4, <2>5, <2>9
    <3>4. QED
      BY <2>4, <2>9, <3>1, <3>2, <3>3 DEF RollWaits
  <2>10. QED
    BY <2>6, <2>7, <2>8, <2>9
<1>14. QED
  BY <1>10, <1>12, <1>13

\* A block of either kind.
LEMMA BlockKeepsTime == ASSUME XsIInv, NEW adv \in XsAdvances, Block(adv) PROVE XsIInv'
<1> DEFINE pos == IF xsHead.pos = None THEN 0 ELSE xsHead.pos + adv
<1> USE DEF XsIInv
<1>1. Steps(pos) /\ UNCHANGED <<xsOver, xsSel, xsTouch, xsHands>> /\ (MixBlock(pos) \/ QuietBlock(pos))
  BY DEF Block
<1>2. CASE MixBlock(pos)
  <2>1. EventsAre' /\ (xsSaw'.even => ~xsSaw'.echo \/ xsSaw.echo)
    BY <1>1, <1>2, EventsThroughABlock
  <2>2. XsTypes' /\ RollWaits' /\ (xsSaw'.even => ~xsSaw'.tight \/ xsSaw.tight)
    BY <1>1, <1>2, RollThroughABlock
  <2>3. xsSaw'.even => xsSaw.even
    BY <1>2 DEF MixBlock, Joins
  <2>4. HitsKeepTheirTime'
    BY <2>1, <2>2, <2>3 DEF HitsKeepTheirTime, NoEcho, RollKeepsItsDistance
  <2>5. QED
    BY <2>1, <2>2, <2>4
<1>3. CASE QuietBlock(pos)
  <2> DEFINE s == HeadStep(pos)
  <2>1. /\ pos \in Nat /\ s.b0 \in Nat /\ s.b1 \in Nat /\ s.b0 <= s.b1
        /\ Joins(s) => xsSaw.even /\ s.b0 = xsHead.beat
    BY SpanOf
  <2>2. /\ xsHead'.beat = s.b1 /\ xsHead'.pos = pos
        /\ UNCHANGED <<xsAuto, xsRoll, xsPend, xsPush, xsEv, xsN, xsSel, xsTouch>>
    BY <1>1, <1>3 DEF Steps, QuietBlock
  <2>3. /\ DOMAIN xsSaw' = {"touch", "late", "tight", "echo", "even", "struck"} /\ xsSaw'.even = Joins(s)
        /\ xsSaw'.struck = xsSaw.struck /\ xsSaw'.tight = xsSaw.tight /\ xsSaw'.echo = xsSaw.echo
    BY <1>3 DEF QuietBlock, XsTypes
  <2> HIDE DEF pos, s
  <2>4. XsTypes'
    BY <2>1, <2>2, <2>3 DEF XsTypes
  <2>5. EventsAre'
    <3>1. PICK S : /\ xsEv \in Seq(S) /\ xsPush.todo \in Seq(S)
                   /\ \A e \in S : IsEvent(e) /\ (xsSaw.even => Apart(e))
      BY DEF EventsAre
    <3>2. xsSaw'.even => \A e \in S : Apart(e)'
      BY <2>1, <2>2, <2>3, <3>1, StillApart DEF XsTypes
    <3>3. QED
      BY <2>2, <3>1, <3>2 DEF EventsAre, IsEvent
  <2>6. RollWaits'
    <3> SUFFICES ASSUME xsSaw'.even, xsPend = {}, xsSel # None, xsRoll.div # None, xsSaw.struck[xsSel] # None,
                        NEW k \in Int, k * xsRoll.div > s.b1, k # xsRoll.claim
                 PROVE  2 * (k * xsRoll.div - xsSaw.struck[xsSel]) >= xsRoll.div
      BY <2>2, <2>3 DEF RollWaits
    <3>1. xsSaw.even /\ s.b0 = xsHead.beat
      BY <2>1, <2>3
    <3>2. xsRoll.div \in Nat
      BY XsAssumption DEF XsTypes, Strips
    <3>5. k * xsRoll.div \in Int
      BY <3>2
    <3>3. k * xsRoll.div > xsHead.beat
      BY <2>1, <3>1, <3>5
    <3>4. QED
      BY <3>1, <3>3 DEF RollWaits
  <2>7. HitsKeepTheirTime'
    BY <2>1, <2>3 DEF HitsKeepTheirTime, NoEcho, RollKeepsItsDistance
  <2>8. QED
    BY <2>4, <2>5, <2>6, <2>7
<1>4. QED
  BY <1>1, <1>2, <1>3

\* Two sequences, one after the other.
LEMMA Joined ==
  ASSUME NEW S, NEW a \in Seq(S), NEW b \in Seq(S)
  PROVE  a \o b \in Seq(S) /\ Len(a \o b) = Len(a) + Len(b)
OBVIOUS

\* Writing an event takes one from what is to be put, and the oldest away if it must.
LEMMA PushKeepsTime == ASSUME XsIInv, PushReads \/ PushStores PROVE XsIInv'
<1> USE DEF XsIInv
<1>1. UNCHANGED <<xsHead, xsAuto, xsSel, xsPend, xsTouch, xsRoll, xsSaw>>
  BY DEF PushReads, PushStores
<1>2. XsTypes' /\ RollWaits' /\ HitsKeepTheirTime' /\ (\A e : IsEvent(e)' = IsEvent(e) /\ Apart(e)' = Apart(e))
  BY <1>1 DEF XsTypes, RollWaits, HitsKeepTheirTime, NoEcho, RollKeepsItsDistance, IsEvent, Apart
<1>3. PICK S : /\ xsEv \in Seq(S) /\ xsPush.todo \in Seq(S)
               /\ \A e \in S : IsEvent(e) /\ (xsSaw.even => Apart(e))
  BY DEF EventsAre
<1>4. /\ DOMAIN xsPush = {"todo", "n"} /\ xsN \in 0..Len(xsEv) /\ Len(xsEv) \in Nat
      /\ xsPush.n # NotRead => xsPush.n \in 0..Len(xsEv)
  BY <1>3 DEF EventsAre
<1>5. XsMax \in Nat \ {0}
  BY XsAssumption
<1>6. /\ xsEv' \in Seq(S) /\ xsPush'.todo \in Seq(S) /\ DOMAIN xsPush' = {"todo", "n"}
      /\ xsN' \in 0..Len(xsEv') /\ (xsPush'.n # NotRead => xsPush'.n \in 0..Len(xsEv'))
  <2>1. CASE PushReads /\ xsN >= XsMax
    <3>1. /\ xsEv' = Tail(SubSeq(xsEv, 1, XsMax)) /\ xsN' = XsMax - 1
          /\ xsPush' = [xsPush EXCEPT !.n = XsMax - 1]
      BY <2>1 DEF PushReads
    <3> DEFINE kept == SubSeq(xsEv, 1, XsMax)
    <3>2. kept \in Seq(S) /\ Len(kept) = XsMax
      BY <1>3, <1>4, <1>5, <2>1
    <3>3. Tail(kept) \in Seq(S) /\ Len(Tail(kept)) = XsMax - 1
      <4> HIDE DEF kept
      <4> QED
        BY <1>5, <3>2
    <3> HIDE DEF kept
    <3>4. xsEv' = Tail(kept)
      BY <3>1 DEF kept
    <3>5. xsPush'.todo = xsPush.todo /\ xsPush'.n = XsMax - 1 /\ DOMAIN xsPush' = {"todo", "n"}
      BY <1>4, <3>1
    <3>6. xsEv' \in Seq(S) /\ Len(xsEv') = XsMax - 1
      BY <3>3, <3>4
    <3>7. xsN' \in 0..Len(xsEv') /\ xsPush'.n \in 0..Len(xsEv')
      BY <1>5, <3>1, <3>5, <3>6
    <3>8. QED
      BY <1>3, <3>5, <3>6, <3>7
  <2>2. CASE PushReads /\ ~(xsN >= XsMax)
    <3>1. UNCHANGED <<xsEv, xsN>> /\ xsPush' = [xsPush EXCEPT !.n = xsN]
      BY <2>2 DEF PushReads
    <3>2. QED
      BY <1>3, <1>4, <3>1
  <2>3. CASE PushStores
    <3> DEFINE n == xsPush.n  low == SubSeq(xsEv, 1, n)  high == SubSeq(xsEv, n + 2, Len(xsEv))
               one == <<Head(xsPush.todo)>>
    <3>1. /\ xsEv' = low \o one \o high /\ xsN' = n + 1
          /\ xsPush' = [todo |-> Tail(xsPush.todo), n |-> NotRead] /\ n \in 0..Len(xsEv)
          /\ xsPush.todo # <<>>
      BY <1>4, <2>3 DEF PushStores
    <3>2. low \in Seq(S) /\ Len(low) = n /\ high \in Seq(S) /\ Len(high) \in Nat
      <4>1. n \in 0..Len(xsEv) /\ Len(xsEv) \in Nat
        BY <1>4, <3>1
      <4> HIDE DEF n
      <4>2. low \in Seq(S) /\ Len(low) = n
        BY <1>3, <4>1
      <4>3. high \in Seq(S)
        BY <1>3, <4>1
      <4> HIDE DEF high
      <4>4. QED
        BY <4>2, <4>3
    <3>3. Head(xsPush.todo) \in S /\ Tail(xsPush.todo) \in Seq(S)
      BY <1>3, <3>1
    <3>4. one \in Seq(S) /\ Len(one) = 1
      BY <3>3
    <3> HIDE DEF n, low, one, high
    <3>5. low \o one \in Seq(S) /\ Len(low \o one) = n + 1
      <4>1. low \o one \in Seq(S) /\ Len(low \o one) = Len(low) + Len(one)
        BY <3>2, <3>4, Joined
      <4>2. QED
        BY <3>2, <3>4, <4>1
    <3>6. xsEv' \in Seq(S) /\ Len(xsEv') = n + 1 + Len(high)
      <4> DEFINE part == low \o one
      <4>1. part \in Seq(S) /\ Len(part) = n + 1 /\ xsEv' = part \o high
        BY <3>1, <3>5
      <4> HIDE DEF part
      <4>2. part \o high \in Seq(S) /\ Len(part \o high) = Len(part) + Len(high)
        BY <3>2, <4>1, Joined
      <4>3. QED
        BY <4>1, <4>2
    <3>7. QED
      BY <1>4, <3>1, <3>2, <3>3, <3>6
  <2>4. QED
    BY <2>1, <2>2, <2>3
<1>7. EventsAre'
  BY <1>1, <1>2, <1>3, <1>6 DEF EventsAre
<1>8. QED
  BY <1>2, <1>7

\* The DJ's hands.
LEMMA HandsKeepTime ==
  ASSUME XsIInv,
         \/ \E b \in XsBanks : Fire(b)
         \/ \E d \in XsDivs \cup {None} : Touch(d)
         \/ OverdubOn \/ OverdubOff
  PROVE  XsIInv'
<1> USE DEF XsIInv
<1>1. UNCHANGED <<xsHead, xsRoll, xsSaw, xsEv, xsPush>>
  BY DEF Fire, Touch, OverdubOn, OverdubOff
<1>2. HitsKeepTheirTime' /\ (\A e : IsEvent(e)' = IsEvent(e) /\ Apart(e)' = Apart(e))
  BY <1>1 DEF HitsKeepTheirTime, NoEcho, RollKeepsItsDistance, IsEvent, Apart
<1>3. xsN' \in 0..Len(xsEv)
  <2>1. Len(xsEv) \in Nat /\ xsN \in 0..Len(xsEv)
    BY DEF EventsAre
  <2>2. xsN' = xsN \/ xsN' = 0
    BY DEF Fire, Touch, OverdubOn, OverdubOff
  <2>3. QED
    BY <2>1, <2>2
<1>4. EventsAre'
  BY <1>1, <1>2, <1>3 DEF EventsAre
<1>5. /\ xsTouch' \in Strips /\ xsAuto' \in Strips
      /\ xsPend' # {} => xsSel' \in xsPend'
      /\ xsSel' \in XsBanks \cup {None} /\ xsPend' \subseteq XsBanks /\ IsFiniteSet(xsPend')
  <2>1. \A b : IsFiniteSet(xsPend \cup {b})
    BY FS_AddElement DEF XsTypes
  <2>2. QED
    BY <2>1 DEF Fire, Touch, OverdubOn, OverdubOff, XsTypes, Strips
<1>6. XsTypes'
  BY <1>1, <1>5 DEF XsTypes
<1>7. RollWaits'
  <2>1. (xsSel' = xsSel /\ xsPend' = xsPend) \/ xsPend' # {}
    BY DEF Fire, Touch, OverdubOn, OverdubOff
  <2>2. QED
    BY <1>1, <2>1 DEF RollWaits
<1>8. QED
  BY <1>2, <1>4, <1>6, <1>7

\* At first nothing is recorded, and no pad was struck.
LEMMA XsInitKeepsTime == ASSUME XsInit PROVE XsIInv
<1>1. XsTypes
  BY FS_EmptySet DEF XsInit, XsTypes, Strips, None
<1>2. EventsAre
  <2>1. <<>> \in Seq({})
    OBVIOUS
  <2>2. xsEv = <<>> /\ xsPush.todo = <<>> /\ DOMAIN xsPush = {"todo", "n"} /\ xsN = 0 /\ xsPush.n = NotRead /\ Len(<<>>) = 0
    BY DEF XsInit
  <2>3. \E S : xsEv \in Seq(S) /\ xsPush.todo \in Seq(S) /\ \A e \in S : IsEvent(e) /\ (xsSaw.even => Apart(e))
    <3>1. \A e \in {} : IsEvent(e) /\ (xsSaw.even => Apart(e))
      OBVIOUS
    <3>2. xsEv \in Seq({}) /\ xsPush.todo \in Seq({})
      BY <2>1, <2>2
    <3>3. QED
      BY <3>1, <3>2
  <2>4. QED
    BY <2>2, <2>3 DEF EventsAre
<1>3. QED
  BY <1>1, <1>2 DEF XsInit, XsIInv, RollWaits, HitsKeepTheirTime, NoEcho, RollKeepsItsDistance

(* Whatever the DJ's hands do and wherever the blocks fall, as long as their spans join up, no hit  *)
(* is heard again before half a bar has gone by, and the roll's own hits keep half a division from    *)
(* the one under the finger (audio.c:655-660, seq.c:131-135).                                     *)
THEOREM NothingIsHeardTwice == XsSpec => []HitsKeepTheirTime
<1>1. XsIInv /\ [XsNext]_xsVars => XsIInv'
  <2> SUFFICES ASSUME XsIInv, [XsNext]_xsVars PROVE XsIInv'
    OBVIOUS
  <2>1. CASE UNCHANGED xsVars
    BY <2>1 DEF xsVars, XsIInv, XsTypes, EventsAre, IsEvent, Apart, RollWaits, HitsKeepTheirTime, NoEcho, RollKeepsItsDistance
  <2>2. QED
    BY <2>1, BlockKeepsTime, PushKeepsTime, HandsKeepTime DEF XsNext
<1>2. XsIInv => HitsKeepTheirTime
  BY DEF XsIInv
<1>3. QED
  BY <1>1, <1>2, XsInitKeepsTime, PTL DEF XsSpec
=============================================================================
