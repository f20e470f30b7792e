------------------------------ MODULE XpadSeq ------------------------------
(***************************************************************************)
(* The X-PAD's clock, roll and bar (xpad/audio.c, xpad/seq.c): what one      *)
(* audio block fires, what OVERDUB records, and the clear that another       *)
(* thread makes in the middle of a record.                                  *)
(*                                                                         *)
(* Beats are whole units, XsBar of them to the bar; a block's span is what   *)
(* the play head moved.  A division is its length in units.  A voice is the  *)
(* number of blocks it still sounds.  Left out: pitch, levels, the second    *)
(* head (the same step at another place), the panel that opens and closes    *)
(* (XpadPanel).                                                             *)
(***************************************************************************)
EXTENDS Integers, Sequences, FiniteSets

CONSTANTS XsBanks,     \* pads with a sample
          XsDivs,      \* lengths of the strip's zones, in units
          XsBar,       \* XP_SEQ_BEATS in units
          XsMax,       \* XP_SEQ_MAX
          XsStill,     \* XP_STILL_BLOCKS
          XsLength,    \* blocks a sample sounds
          XsAdvances,  \* what the play head moves in a block
          XsEnd,       \* bound: units of track played
          XsMaxHands   \* bound: what the DJ does

ASSUME XsAssumption ==
  /\ {XsBar, XsMax, XsLength} \subseteq Nat \ {0}
  /\ {XsStill, XsEnd, XsMaxHands} \subseteq Nat
  /\ XsDivs \subseteq Nat \ {0} /\ XsAdvances \subseteq Nat
  /\ \A a \in XsAdvances : 2 * a <= XsBar   \* "clamped", to eight blocks (audio.c:346-358)

VARIABLES xsHead,    \* struct xp_head: last_pos, still, beat
          xsEv, xsN, \* the array and the count that publishes it
          xsAuto,    \* what the bar plays back on the strip
          xsOver,    \* OVERDUB
          xsSel, xsPend, xsVoice,
          xsTouch,   \* the zone under the finger
          xsRoll,    \* xpad_g_roll_div, xpad_g_roll_claim
          xsWas,     \* was_div of xp_automate
          xsPush,    \* records the block still has to make, with the count read
          xsHands,
          xsSaw      \* of the properties only: what the last block saw and fired

xsVars == <<xsHead, xsEv, xsN, xsAuto, xsOver, xsSel, xsPend, xsVoice, xsTouch,
            xsRoll, xsWas, xsPush, xsHands, xsSaw>>

None == -1
NotRead == -1

XsInit ==
  /\ xsHead = [pos |-> None, still |-> 0, beat |-> 0, adv |-> 0]
  /\ xsEv = <<>> /\ xsN = 0 /\ xsAuto = None /\ xsOver = FALSE
  /\ xsSel = None /\ xsPend = {} /\ xsVoice = [b \in XsBanks |-> 0]
  /\ xsTouch = None /\ xsRoll = [div |-> None, claim |-> None] /\ xsWas = None
  /\ xsPush = [todo |-> <<>>, n |-> NotRead] /\ xsHands = 0
  /\ xsSaw = [touch |-> None, late |-> FALSE, tight |-> FALSE, echo |-> FALSE,
              even |-> TRUE, struck |-> [b \in XsBanks |-> None]]

-----------------------------------------------------------------------------
(* The clock.                                                               *)

\* xp_head_step: the span [b0, b1] of a block at `pos`.
HeadStep(pos) ==
  LET h == xsHead
      moved == h.pos # None /\ pos # h.pos
      adv == IF h.pos # None /\ pos > h.pos THEN pos - h.pos ELSE 1
  IN  IF moved THEN [b0 |-> pos, b1 |-> pos + adv, still |-> 0]
      ELSE IF h.still < XsStill THEN [b0 |-> h.beat, b1 |-> h.beat, still |-> h.still + 1]
      ELSE [b0 |-> h.beat, b1 |-> h.beat + 1, still |-> h.still]

\* xp_crossed, xp_claim_boundary.
Crossed(s, L) == s.b1 > s.b0 /\ s.b1 \div L > s.b0 \div L
NearestBoundary(beat, L) == (2 * beat + L) \div (2 * L)

-----------------------------------------------------------------------------
(* The bar.                                                                 *)

\* xp_wrap, and the phases a span covers: half-open at the low end.
Wrap(b) == b % XsBar
FallsFromTheLowEnd(p, s) ==   \* seeded fault: half-open at the other end
  LET p0 == Wrap(s.b0)  p1 == Wrap(s.b1) IN
  /\ s.b1 > s.b0 /\ s.b1 - s.b0 < XsBar
  /\ IF p1 > p0 THEN p >= p0 /\ p < p1 ELSE p >= p0 \/ p < p1
Falls(p, s) ==
  LET p0 == Wrap(s.b0)  p1 == Wrap(s.b1) IN
  /\ s.b1 > s.b0 /\ s.b1 - s.b0 < XsBar
  /\ IF p1 > p0 THEN p > p0 /\ p <= p1 ELSE p > p0 \/ p <= p1

\* xpad_seq_play: the events of the bar this span fires, and the gesture the
\* last of them leaves on the strip.
Due(s) == {i \in 1..xsN : Falls(xsEv[i].phase, s)}
Hits(s) == {i \in Due(s) : xsEv[i].kind = "hit"}
AutoAfter(s) ==
  LET pads == {i \in Due(s) : xsEv[i].kind = "pad"} IN
  IF pads = {} THEN xsAuto ELSE xsEv[CHOOSE i \in pads : \A j \in pads : j <= i].div

\* xpad_seq_record and xpad_seq_record_pad, if OVERDUB is on.  `last` is the
\* beat the event last sounded at (of the property only).
HitEvent(bank, beat) == [kind |-> "hit", bank |-> bank, div |-> None, phase |-> Wrap(beat), last |-> beat]
PadEvent(div, beat) == [kind |-> "pad", bank |-> None, div |-> div, phase |-> Wrap(beat), last |-> beat]

-----------------------------------------------------------------------------
(* xpad_mix.                                                                *)

\* xp_gesture_read: a live finger, or what the bar plays back.
Gesture(s) == IF xsTouch # None THEN xsTouch ELSE AutoAfter(s)

\* xp_roll: fresh zones fire at once and claim the nearest boundary; then a
\* boundary fires unless it is the claimed one.
RollFires(s, div) ==
  /\ xsSel # None /\ div # None
  /\ \/ div # xsRoll.div
     \/ Crossed(s, div) /\ xsRoll.claim # s.b1 \div div
RollAfter(s, div) ==
  [div |-> div,
   claim |-> IF xsSel = None \/ div = None THEN xsRoll.claim
             ELSE IF div # xsRoll.div THEN NearestBoundary(s.b1, div)
             ELSE IF Crossed(s, div) THEN None ELSE xsRoll.claim]

\* xp_pending: a press claims the boundary of the running roll.
PendingClaims(s, roll) ==
  IF xsPend # {} /\ roll.div # None
  THEN [roll EXCEPT !.claim = NearestBoundary(s.b1, roll.div)] ELSE roll

\* xp_automate: the strip, when it has moved, on the quarter beat.
Automates(s) == xsOver /\ s.b1 > s.b0 /\ xsTouch # xsWas

\* "Is anything to do at all?" (audio.c:828-840).
Busy == \/ \E b \in XsBanks : xsVoice[b] > 0
        \/ xsPend # {} \/ xsN > 0 \/ xsTouch # None

Sorted(S) == CHOOSE q \in [1..Cardinality(S) -> S] : \A i, j \in 1..Cardinality(S) : i < j => q[i] < q[j]
Records(s) ==
  (IF Automates(s) THEN <<PadEvent(xsTouch, s.b1)>> ELSE <<>>) \o
  (IF xsOver THEN [i \in 1..Cardinality(xsPend) |-> HitEvent(Sorted(xsPend)[i], s.b1)] ELSE <<>>)

Steps(pos) == xsHead' = [pos |-> pos, still |-> HeadStep(pos).still,
                         beat |-> HeadStep(pos).b1, adv |-> pos - xsHead.pos]

\* Have all spans so far joined up?  A seek, a parked deck that starts again and
\* a tempo that changes leave a gap or an overlap (of the properties only).
Joins(s) == xsSaw.even /\ (xsHead.pos = None \/ s.b0 = xsHead.beat)

\* A block with something to do.
MixBlock(pos) ==
  LET s == HeadStep(pos)  div == Gesture(s)  rolls == RollFires(s, div)
      at(b) == IF b \in xsPend THEN s.b0
               ELSE IF rolls /\ b = xsSel
                    THEN IF div # xsRoll.div THEN s.b0 ELSE (s.b1 \div div) * div
               ELSE None
  IN
  /\ Busy
  /\ xsAuto' = AutoAfter(s)
  /\ xsRoll' = PendingClaims(s, RollAfter(s, div))
  /\ xsWas' = IF ~xsOver THEN None ELSE IF Automates(s) THEN xsTouch ELSE xsWas
  /\ xsPend' = {}
  /\ xsPush' = [todo |-> Records(s), n |-> NotRead]
  /\ xsVoice' = [b \in XsBanks |->
        IF at(b) # None \/ \E i \in Hits(s) : xsEv[i].bank = b THEN XsLength
        ELSE IF xsVoice[b] > 0 THEN xsVoice[b] - 1 ELSE 0]
  /\ xsEv' = [i \in 1..Len(xsEv) |-> IF i \in Hits(s) THEN [xsEv[i] EXCEPT !.last = s.b1] ELSE xsEv[i]]
  /\ xsSaw' =
       [touch |-> xsTouch,
        late |-> xsSaw.late \/ (xsTouch # None /\ xsTouch # xsSaw.touch /\ xsSel \notin xsPend \cup {None} /\ ~rolls),
        tight |-> xsSaw.tight \/
                  (rolls /\ div = xsRoll.div /\ xsSel \notin xsPend /\ xsSaw.struck[xsSel] # None /\
                   2 * (at(xsSel) - xsSaw.struck[xsSel]) < div),
        echo |-> xsSaw.echo \/ \E i \in Hits(s) : s.b1 - xsEv[i].last < XsBar \div 2,
        even |-> Joins(s),
        struck |-> [b \in XsBanks |-> IF at(b) # None THEN at(b) ELSE xsSaw.struck[b]]]
  /\ UNCHANGED xsN

\* Nothing to do: the clock is advanced and the rest of xpad_mix is skipped.
QuietBlock(pos) ==
  /\ ~Busy
  /\ xsSaw' = [xsSaw EXCEPT !.touch = xsTouch, !.even = Joins(HeadStep(pos))]
  /\ UNCHANGED <<xsAuto, xsRoll, xsWas, xsPend, xsPush, xsVoice, xsEv, xsN>>

Block(adv) ==
  LET pos == IF xsHead.pos = None THEN 0 ELSE xsHead.pos + adv IN
  /\ xsPush.todo = <<>> /\ HeadStep(pos).b1 <= XsEnd
  /\ Steps(pos)
  /\ MixBlock(pos) \/ QuietBlock(pos)
  /\ UNCHANGED <<xsOver, xsSel, xsTouch, xsHands>>

-----------------------------------------------------------------------------
(* xp_seq_push: the count is read, the event written, the count stored.     *)

PushReads ==
  /\ xsPush.todo # <<>> /\ xsPush.n = NotRead
  /\ IF xsN >= XsMax
     THEN /\ xsEv' = Tail(SubSeq(xsEv, 1, XsMax)) /\ xsN' = XsMax - 1
          /\ xsPush' = [xsPush EXCEPT !.n = XsMax - 1]
     ELSE /\ xsPush' = [xsPush EXCEPT !.n = xsN] /\ UNCHANGED <<xsEv, xsN>>
  /\ UNCHANGED <<xsHead, xsAuto, xsOver, xsSel, xsPend, xsVoice, xsTouch, xsRoll, xsWas, xsHands, xsSaw>>
PushStores ==
  /\ xsPush.todo # <<>> /\ xsPush.n # NotRead
  /\ xsEv' = SubSeq(xsEv, 1, xsPush.n) \o <<Head(xsPush.todo)>> \o SubSeq(xsEv, xsPush.n + 2, Len(xsEv))
  /\ xsN' = xsPush.n + 1
  /\ xsPush' = [todo |-> Tail(xsPush.todo), n |-> NotRead]
  /\ UNCHANGED <<xsHead, xsAuto, xsOver, xsSel, xsPend, xsVoice, xsTouch, xsRoll, xsWas, xsHands, xsSaw>>

-----------------------------------------------------------------------------
(* The DJ's hands: deck task and message thread.                            *)

Hand == xsHands < XsMaxHands /\ xsHands' = xsHands + 1

\* xpad_fire.
Fire(b) ==
  /\ Hand /\ xsSel' = b /\ xsPend' = xsPend \cup {b}
  /\ UNCHANGED <<xsHead, xsEv, xsN, xsAuto, xsOver, xsVoice, xsTouch, xsRoll, xsWas, xsPush, xsSaw>>

\* The finger takes a zone, slides to another, or is lifted.
Touch(d) ==
  /\ Hand /\ d # xsTouch /\ xsTouch' = d
  /\ UNCHANGED <<xsHead, xsEv, xsN, xsAuto, xsOver, xsSel, xsPend, xsVoice, xsRoll, xsWas, xsPush, xsSaw>>

\* xpad_overdub_set, xpad_seq_clear: from the DELETE key, or as the panel closes.
OverdubOn ==
  /\ Hand /\ ~xsOver /\ xsOver' = TRUE
  /\ UNCHANGED <<xsHead, xsEv, xsN, xsAuto, xsSel, xsPend, xsVoice, xsTouch, xsRoll, xsWas, xsPush, xsSaw>>
OverdubOff ==
  /\ Hand /\ xsOver /\ xsOver' = FALSE
  /\ xsN' = 0 /\ xsAuto' = None
  /\ UNCHANGED <<xsHead, xsEv, xsSel, xsPend, xsVoice, xsTouch, xsRoll, xsWas, xsPush, xsSaw>>

XsNext ==
  \/ \E a \in XsAdvances : Block(a)
  \/ PushReads \/ PushStores
  \/ \E b \in XsBanks : Fire(b)
  \/ \E d \in XsDivs \cup {None} : Touch(d)
  \/ OverdubOn \/ OverdubOff

XsSpec == XsInit /\ [][XsNext]_xsVars

-----------------------------------------------------------------------------
(* Properties.                                                              *)

\* A hit that was just played or just recorded is not heard again before the
\* bar comes round, as long as the blocks' spans join up: the play runs before
\* the record and the span is open at the low end (seq.c:131-135).
NoEcho == xsSaw.even => ~xsSaw.echo

\* The roll never stutters under the hand: after a hit the finger made, the
\* machine's next one is at least half a division away (audio.c:655-660),
\* again over spans that join up.
RollKeepsItsDistance == xsSaw.even => ~xsSaw.tight

\* What is heard is what was played, once, in its own time (audio.c:655-660,
\* seq.c:131-135).
HitsKeepTheirTime == NoEcho /\ RollKeepsItsDistance

\* "THE FIRST HIT OF A ZONE IS IMMEDIATE" (audio.c:645-648): the block that
\* first sees the finger in a zone fires the selected pad.
FirstHitIsImmediate == ~xsSaw.late

\* "OVERDUB going off frees the lot" (seq.c:184-187): while it is off, and no
\* record is under way, the bar has nothing to play.
BarStaysCleared == ~xsOver /\ xsPush.todo = <<>> => xsN = 0
=============================================================================
