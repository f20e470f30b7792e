------------------------------ MODULE CuePad --------------------------------
(***************************************************************************)
(* The hot-cue interception (cue/pad.c) with the behaviours behind it:       *)
(* X-PAD and the groove circuit claim pads, PREVIEW HOTCUE claims an empty   *)
(* pad under the needle (cue/preview.c), SMART CUE watches (cue/smart.c).    *)
(*                                                                         *)
(* The deck is outside: its press jumps to a cue that is there, sets one at  *)
(* the play head where there is none, by a setHere that lands later, and     *)
(* erases it when CALL/DELETE is held; the CUE button sets the memory cue.    *)
(* Positions are small numbers.  Left out: the release operation and PLAY     *)
(* while held, which no behaviour of this tree declares; the structures read  *)
(* out of the app.                                                          *)
(***************************************************************************)
EXTENDS Naturals, Sequences, FiniteSets

CONSTANTS CpPads,     \* pads
          CpSpots,    \* positions of the play head and of the needle
          CpMaxHands  \* bound: presses, panel changes, needle moves

ASSUME CpAssumption ==
  /\ CpPads \subseteq 1 .. 98 /\ CpSpots \subseteq Nat \ {0} /\ CpMaxHands \in Nat
  /\ \E s \in CpSpots : \A t \in CpSpots : s <= t   \* there is a first one

VARIABLES cpCue,      \* pad -> position of its hot cue, 0 when there is none
          cpMemory,   \* the memory cue
          cpHead,     \* the play head
          cpNeedle,   \* the preview needle, 0 when it is down
          cpWrites,   \* setHere calls on their way: [kind, pos]
          cpOwner,    \* cue_g_owner
          cpHeld,     \* cue_g_held
          cpArm,      \* preview_g_kind and preview_g_pos
          cpSmart,    \* smart_g_had, smart_g_have, smart_g_pos
          cpXpad, cpGroove,  \* the X-PAD panel is open; pads of a live groove table
          cpDown, cpSeen, cpHands, cpTook   \* cpSeen, cpTook: of the properties only

cpVars == <<cpCue, cpMemory, cpHead, cpNeedle, cpWrites, cpOwner, cpHeld, cpArm, cpSmart,
            cpXpad, cpGroove, cpDown, cpSeen, cpHands, cpTook>>

Nobody == "deck"
\* The kinds a set names: the memory cue, or a pad.
MemoryKind == 0
NoKind == 99
Unarmed == [kind |-> NoKind, pos |-> 0]

CpInit ==
  /\ cpCue = [p \in CpPads |-> 0] /\ cpMemory = 0
  /\ cpHead = CHOOSE s \in CpSpots : \A t \in CpSpots : s <= t
  /\ cpNeedle = 0 /\ cpWrites = <<>>
  /\ cpOwner = [p \in CpPads |-> Nobody] /\ cpHeld = 0 /\ cpArm = Unarmed
  /\ cpSmart = [had |-> {}, have |-> FALSE, pos |-> 0]
  /\ cpXpad = FALSE /\ cpGroove = {} /\ cpDown = {}
  /\ cpSeen = {} /\ cpHands = 0 /\ cpTook = [pad |-> NoKind, pos |-> 0]

Hands == cpHands < CpMaxHands /\ cpHands' = cpHands + 1

-----------------------------------------------------------------------------
(* The press: DOWN to everybody, then the first claimer in order of priority. *)

\* smart_pad at DOWN, smart_take.
SmartDown(p) ==
  [had |-> IF cpCue[p] # 0 THEN cpSmart.had \cup {p} ELSE cpSmart.had \ {p},
   have |-> cpCue[p] # 0,
   pos |-> IF cpCue[p] # 0 THEN cpCue[p] ELSE cpSmart.pos]

\* xpad_pad_claim, gc_claim, preview_claim, as cue_claimer asks them.
Claimer(p) ==
  IF cpXpad THEN "xpad"
  ELSE IF p \in cpGroove THEN "groove"
  ELSE IF cpNeedle # 0 /\ cpCue[p] = 0 THEN "preview"
  ELSE Nobody

\* The deck's own press of a pad: jump, or a setHere at the play head.
DeckPress(p, erase) ==
  IF cpCue[p] = 0
  THEN cpWrites' = Append(cpWrites, [kind |-> p, pos |-> cpHead]) /\ UNCHANGED <<cpCue, cpHead>>
  ELSE IF erase THEN cpCue' = [cpCue EXCEPT ![p] = 0] /\ UNCHANGED <<cpWrites, cpHead>>
  ELSE cpHead' = cpCue[p] /\ UNCHANGED <<cpCue, cpWrites>>

\* cue_wrap_press.  The DOWN phase of preview_pad drops an arm nobody took; a
\* claimed preview press arms its kind and runs the deck's press after all.
CpPress(p, erase) ==
  /\ p \notin cpDown /\ Hands
  /\ cpDown' = cpDown \cup {p}
  /\ cpHeld' = cpHeld + 1 /\ cpSmart' = SmartDown(p)
  /\ LET c == Claimer(p) IN
       /\ cpOwner' = [cpOwner EXCEPT ![p] = c]
       /\ cpArm' = IF c = "preview" THEN [kind |-> p, pos |-> cpNeedle] ELSE Unarmed
       /\ IF c \in {"xpad", "groove"} THEN UNCHANGED <<cpCue, cpWrites, cpHead>> ELSE DeckPress(p, erase)
       /\ cpSeen' = IF c \in {"xpad", "groove"} THEN cpSeen ELSE cpSeen \cup {p}
  /\ UNCHANGED <<cpMemory, cpNeedle, cpXpad, cpGroove, cpTook>>

\* preview_wrap_set_here: an armed kind goes to the needle's position, once.
CpSetHere ==
  /\ cpWrites # <<>>
  /\ LET w == Head(cpWrites)
         mine == cpArm.kind = w.kind
         at == IF mine THEN cpArm.pos ELSE w.pos
     IN  /\ cpArm' = IF mine THEN Unarmed ELSE cpArm
         /\ IF w.kind = MemoryKind THEN cpMemory' = at /\ UNCHANGED cpCue
            ELSE cpCue' = [cpCue EXCEPT ![w.kind] = at] /\ UNCHANGED cpMemory
         /\ cpTook' = IF w.kind = MemoryKind THEN [pad |-> NoKind, pos |-> at - w.pos] ELSE cpTook
  /\ cpWrites' = Tail(cpWrites)
  /\ UNCHANGED <<cpHead, cpNeedle, cpOwner, cpHeld, cpSmart, cpXpad, cpGroove, cpDown, cpSeen, cpHands>>

\* cue_wrap_release: to the claimer that took the press, preview then running
\* the deck's release; otherwise the deck's release and UP to the watchers.
\* smart_pad at UP follows a pad that had a cue and still has one.
Follows(p) == p \in cpSmart.had /\ cpCue[p] # 0 /\ cpSmart.have
ReleaseAsksAgain(p) ==   \* seeded fault: the claimer is asked for, not remembered
  /\ p \in cpDown
  /\ cpDown' = cpDown \ {p} /\ cpHeld' = IF cpHeld = 0 THEN 0 ELSE cpHeld - 1
  /\ cpOwner' = [cpOwner EXCEPT ![p] = Nobody]
  /\ LET c == Claimer(p) IN
       /\ cpSeen' = IF c \in {"xpad", "groove"} THEN cpSeen ELSE cpSeen \ {p}
       /\ IF c = Nobody /\ Follows(p)
          THEN cpMemory' = cpSmart.pos /\ cpTook' = [pad |-> p, pos |-> cpCue[p]]
          ELSE UNCHANGED <<cpMemory, cpTook>>
  /\ UNCHANGED <<cpCue, cpHead, cpNeedle, cpWrites, cpArm, cpSmart, cpXpad, cpGroove, cpHands>>
CpRelease(p) ==
  /\ p \in cpDown
  /\ cpDown' = cpDown \ {p} /\ cpHeld' = IF cpHeld = 0 THEN 0 ELSE cpHeld - 1
  /\ cpOwner' = [cpOwner EXCEPT ![p] = Nobody]
  /\ cpSeen' = IF cpOwner[p] \in {"xpad", "groove"} THEN cpSeen ELSE cpSeen \ {p}
  /\ IF cpOwner[p] = Nobody /\ Follows(p)
     THEN cpMemory' = cpSmart.pos /\ cpTook' = [pad |-> p, pos |-> cpCue[p]]
     ELSE UNCHANGED <<cpMemory, cpTook>>
  /\ UNCHANGED <<cpCue, cpHead, cpNeedle, cpWrites, cpArm, cpSmart, cpXpad, cpGroove, cpHands>>

-----------------------------------------------------------------------------
(* Around it.                                                               *)

\* cue_wrap_preview_set and _clear.
CpNeedle(at) ==
  /\ Hands /\ at # cpNeedle /\ cpNeedle' = at
  /\ UNCHANGED <<cpCue, cpMemory, cpHead, cpWrites, cpOwner, cpHeld, cpArm, cpSmart, cpXpad,
                 cpGroove, cpDown, cpSeen, cpTook>>
\* The CUE button on a paused deck.
CpCueButton ==
  /\ Hands /\ cpWrites' = Append(cpWrites, [kind |-> MemoryKind, pos |-> cpHead])
  /\ UNCHANGED <<cpCue, cpMemory, cpHead, cpNeedle, cpOwner, cpHeld, cpArm, cpSmart, cpXpad,
                 cpGroove, cpDown, cpSeen, cpTook>>
\* A panel opens or closes; the groove table goes up or down.
CpPanels ==
  /\ Hands
  /\ \/ cpXpad' = ~cpXpad /\ UNCHANGED cpGroove
     \/ cpGroove' \in {{}, CpPads} \ {cpGroove} /\ UNCHANGED cpXpad
  /\ UNCHANGED <<cpCue, cpMemory, cpHead, cpNeedle, cpWrites, cpOwner, cpHeld, cpArm, cpSmart,
                 cpDown, cpSeen, cpTook>>

CpNext ==
  \/ \E p \in CpPads : CpRelease(p) \/ \E erase \in BOOLEAN : CpPress(p, erase)
  \/ CpSetHere \/ CpCueButton \/ CpPanels
  \/ \E at \in CpSpots \cup {0} : CpNeedle(at)
CpSpec == CpInit /\ [][CpNext]_cpVars

-----------------------------------------------------------------------------
(* Properties.                                                              *)

\* "A claimed pad is the claimer's alone" (cue.h:99): with every pad up, the
\* deck has seen a release for each press it saw and for no other, whatever
\* opened or closed while the pads were held.
DeckSeesWholePresses == cpSeen \subseteq cpDown /\ (cpDown = {} => cpHeld = 0 /\ cpSeen = {})

\* A press under the needle redirects its own cue and nothing else: a memory
\* cue the CUE button sets while one is armed lands at the play head.
NeedleIsThePadsAlone == cpTook.pad = NoKind => cpTook.pos = 0

\* A claim changes what a press means and nothing that outlives it (cue.h:99,
\* preview.c:101-121).
PressesStayWhole == DeckSeesWholePresses /\ NeedleIsThePadsAlone

\* "It goes where the hot cue is, taken from the pad's own slot" (smart.c:5): the
\* memory cue a release places is where the released pad's cue is.  What was
\* taken is kept once for all pads, so a second pad pressed before the first is
\* up takes its place (smart.c:60-63).
MemoryFollowsThePad == cpTook.pad # NoKind => cpMemory = cpTook.pos \/ cpWrites # <<>>
=============================================================================
