----------------------------- MODULE WaveStems -----------------------------
(***************************************************************************)
(* The waveform that follows the stem faders (wave/stems.c, paint.c,         *)
(* analyze.c).  The repository's reply thread latches which object a         *)
(* waveform came in; a worker takes a copy of the deck's own columns,        *)
(* computes how much of each part is in a column, and writes the columns     *)
(* back scaled by the faders, in the deck's own array.                       *)
(*                                                                         *)
(* One style of the three (they are bound and painted alike); a tick of the  *)
(* worker is one step unless it analyses, which takes seconds.  Columns are  *)
(* two stretches, each the track's own at some gain; while the deck draws,   *)
(* what it draws lands after anything written under it.  Left out: arrays    *)
(* the deck frees, writes that fail, the offline mode (PreStems), the codec, *)
(* the pauses that only delay (POLL_TICKS, ANALYSIS_RETRY_TICKS), and a      *)
(* restore that has no memory or cannot read an array (paint.c:191-195):     *)
(* once the record of what was left is given up (paint.c:391-395), paint of  *)
(* ours that such a restore left could be taken for the deck's.              *)
(***************************************************************************)
EXTENDS Naturals, Sequences, FiniteSets, SequencesExt

CONSTANTS WsTracks, WsObjects,
          WsBindsMax,   \* OBJ_BINDS
          WsStable,     \* STABLE_POLLS
          WsGiveUp,     \* CAPTURE_GIVEUP_POLLS
          WsSettle,     \* SETTLE_TICKS
          WsMaxEvents   \* bound: replies, tracks put on and hands together

ASSUME WsAssumption ==
  /\ {WsGiveUp, WsSettle, WsMaxEvents} \subseteq Nat
  /\ {WsBindsMax, WsStable} \subseteq Nat \ {0} /\ WsStable < WsGiveUp

VARIABLES wsDeck,     \* object -> the track it is for, how far it is drawn, its columns
          wsReply,    \* the reply thread between the id and the object
          wsLatch,    \* wave_g_tid and wave_g_obj_style
          wsBound,    \* g_obj_bind, oldest first
          wsTrack,    \* the track that plays, the one acted on, g_stem_ready
          wsAsked,    \* g_track_ready, g_pending_path, wave_g_track_gone
          wsHand,     \* the STEMS switch, ORIGINAL, the faders
          wsWorker,   \* the worker: its state of the style and its locals
          wsBands,    \* track -> whose audio its bands.bin was computed from
          wsEvents

wsVars == <<wsDeck, wsReply, wsLatch, wsBound, wsTrack, wsAsked, wsHand, wsWorker, wsBands, wsEvents>>

NoTrack == "none"
NoObject == "none"
Stretches == {1, 2}
Low == 1
Unity == 2

OwnColumns(t) == [s \in Stretches |-> [of |-> t, gain |-> Unity]]
Scaled(column, g) == IF g = Unity THEN column ELSE [column EXCEPT !.gain = g]

NoCopy == [obj |-> NoObject, tid |-> NoTrack, own |-> OwnColumns(NoTrack), wrote |-> FALSE,
           written |-> OwnColumns(NoTrack), modified |-> FALSE]
NoProbe == [obj |-> NoObject, seen |-> OwnColumns(NoTrack), polls |-> 0, stable |-> 0, blank |-> 0]
NoLeft == [obj |-> NoObject, columns |-> OwnColumns(NoTrack)]
ForgottenNow == 0   \* forget_applied: no fader stands there

WsInit ==
  /\ wsDeck = [o \in WsObjects |-> [for |-> NoTrack, fill |-> "blank", columns |-> OwnColumns(NoTrack)]]
  /\ wsReply = [tid |-> NoTrack, obj |-> NoObject]
  /\ wsLatch = [tid |-> NoTrack, obj |-> NoObject]
  /\ wsBound = <<>>
  /\ wsTrack = [plays |-> NoTrack, acted |-> NoTrack, served |-> FALSE]
  /\ wsAsked = [ready |-> FALSE, path |-> NoTrack, gone |-> FALSE]
  /\ wsHand = [on |-> TRUE, bypass |-> FALSE, gain |-> Unity]
  /\ wsWorker = [pc |-> "tick", pulls |-> NoTrack, wereOn |-> FALSE, copy |-> NoCopy, probe |-> NoProbe,
                 left |-> NoLeft, have |-> FALSE, applied |-> ForgottenNow, tail |-> {}, settle |-> 0]
  /\ wsBands = [t \in WsTracks |-> NoTrack]
  /\ wsEvents = 0

Counted == wsEvents < WsMaxEvents /\ wsEvents' = wsEvents + 1

-----------------------------------------------------------------------------
(* The deck: a waveform per track, in an object that keeps it until the      *)
(* object is taken for another; what plays; the DJ's hand.                   *)

wsNotDeck == <<wsLatch, wsBound, wsTrack, wsAsked, wsHand, wsWorker, wsBands>>

\* The deck answers for a track: in the object that holds it, or in one it takes for it.
WsReplies(t, o) ==
  /\ Counted /\ wsReply.obj = NoObject
  /\ \/ wsDeck[o].for = t /\ UNCHANGED wsDeck
     \/ /\ \A x \in WsObjects : wsDeck[x].for # t
        /\ wsDeck[o].for = NoTrack \/ wsDeck[o].for # wsTrack.plays
        /\ wsDeck' = [wsDeck EXCEPT ![o].for = t, ![o].fill = IF @ = "drawn" THEN "old" ELSE @]
  /\ wsReply' = [tid |-> t, obj |-> o]
  /\ wsLatch' = [wsLatch EXCEPT !.tid = t]                          \* publish_tid
  /\ UNCHANGED <<wsBound, wsTrack, wsAsked, wsHand, wsWorker, wsBands>>

Remembered(bound, t, o) ==
  IF \E i \in DOMAIN bound : bound[i].tid = t
  THEN [i \in DOMAIN bound |-> IF bound[i].tid = t THEN [tid |-> t, obj |-> o] ELSE bound[i]]
  ELSE LET longer == Append(bound, [tid |-> t, obj |-> o])
       IN IF Len(longer) > WsBindsMax THEN Tail(longer) ELSE longer

WsLatches ==
  /\ wsReply.obj # NoObject
  /\ wsLatch' = [wsLatch EXCEPT !.obj = wsReply.obj]
  /\ wsBound' = Remembered(wsBound, wsReply.tid, wsReply.obj)
  /\ wsReply' = [tid |-> NoTrack, obj |-> NoObject]
  /\ UNCHANGED <<wsDeck, wsTrack, wsAsked, wsHand, wsWorker, wsBands, wsEvents>>

\* The analyser draws: an old picture or an empty array, columns coming, all of them there.
WsDraws(o) ==
  /\ \/ /\ wsDeck[o].for # NoTrack /\ wsDeck[o].fill \in {"blank", "old"}
        /\ wsDeck' = [wsDeck EXCEPT ![o].fill = "coming"]
     \/ /\ wsDeck[o].fill = "coming"
        /\ wsDeck' = [wsDeck EXCEPT ![o].fill = "drawn", ![o].columns = OwnColumns(wsDeck[o].for)]
  /\ UNCHANGED <<wsReply, wsNotDeck, wsEvents>>

WsSourceMoves(t) ==
  /\ Counted /\ t # wsTrack.plays /\ wsTrack' = [wsTrack EXCEPT !.plays = t]
  /\ UNCHANGED <<wsDeck, wsReply, wsLatch, wsBound, wsAsked, wsHand, wsWorker, wsBands>>

\* stem_track_act: the waveform first, then the levels, then the job.
WsTrackActs ==
  /\ wsTrack.plays \notin {NoTrack, wsTrack.acted}
  /\ wsTrack' = [wsTrack EXCEPT !.acted = wsTrack.plays, !.served = FALSE]
  /\ wsAsked' = [wsAsked EXCEPT !.gone = TRUE]
  /\ wsHand' = [wsHand EXCEPT !.gain = Unity]
  /\ UNCHANGED <<wsDeck, wsReply, wsLatch, wsBound, wsWorker, wsBands, wsEvents>>

\* The loader: the pair is resident, and only then is the analysis asked for.
WsServed ==
  /\ wsTrack.acted # NoTrack /\ ~wsTrack.served /\ wsHand.on
  /\ wsTrack' = [wsTrack EXCEPT !.served = TRUE]
  /\ wsAsked' = [wsAsked EXCEPT !.path = wsTrack.acted, !.ready = TRUE]
  /\ UNCHANGED <<wsDeck, wsReply, wsLatch, wsBound, wsHand, wsWorker, wsBands, wsEvents>>

WsHandMoves ==
  /\ Counted
  /\ \/ wsHand' = [wsHand EXCEPT !.on = ~@]
     \/ wsTrack.served /\ wsHand' = [wsHand EXCEPT !.bypass = ~@]
     \/ wsTrack.served /\ wsHand' = [wsHand EXCEPT !.gain = IF @ = Low THEN Unity ELSE Low]
  /\ UNCHANGED <<wsDeck, wsReply, wsLatch, wsBound, wsTrack, wsAsked, wsWorker, wsBands>>

-----------------------------------------------------------------------------
(* What the worker does to its state and the deck's array: a pair <<w, d>>.  *)

Drawn(d, o) == d[o].fill \in {"old", "drawn"}     \* nothing is landing in it
Holds(d, o, columns) == Drawn(d, o) /\ d[o].columns = columns

\* wave_write_style: only the stretches that are not what was written last.
WriteStyle(w, d, src) ==
  LET c == w.copy
      lands == [s \in Stretches |-> IF c.wrote /\ c.written[s] = src[s] THEN d[c.obj].columns[s] ELSE src[s]]
  IN <<[w EXCEPT !.copy.wrote = TRUE, !.copy.written = src],
       [d EXCEPT ![c.obj].columns = lands]>>

Restore(w, d) ==
  IF ~w.copy.modified THEN <<w, d>>
  ELSE LET r == WriteStyle(w, d, w.copy.own) IN <<[r[1] EXCEPT !.copy.modified = FALSE], r[2]>>

LettingGo(w, d) == <<w, d>>   \* seeded fault: the array is let go as it is
RestoreIfOurs(w, d) ==
  IF w.copy.modified /\ w.copy.wrote /\ w.copy.written # w.copy.own /\ Holds(d, w.copy.obj, w.copy.written)
  THEN Restore(w, d) ELSE <<w, d>>

Invalidate(w, d) ==
  LET r == RestoreIfOurs(w, d)
      c == r[1].copy
  IN <<[r[1] EXCEPT !.left = IF c.wrote /\ c.written # c.own THEN [obj |-> c.obj, columns |-> c.written] ELSE NoLeft,
                    !.copy = NoCopy, !.probe = NoProbe], r[2]>>

Diverged(c, d) == ~(c.modified /\ ~c.wrote) /\ ~Holds(d, c.obj, IF c.wrote THEN c.written ELSE c.own)
Stale(c, d) == /\ c.obj # NoObject
               /\ (wsTrack.plays # NoTrack /\ c.tid # wsTrack.plays) \/ Diverged(c, d)

\* The object of a track, when the last reply is about another.
Elsewhere == wsTrack.plays # NoTrack /\ wsLatch.tid # wsTrack.plays
ObjectOf(t) == LET at == {i \in DOMAIN wsBound : wsBound[i].tid = t}
               IN IF at = {} THEN NoObject ELSE wsBound[CHOOSE i \in at : TRUE].obj
BindsTo == IF Elsewhere THEN ObjectOf(wsTrack.plays) ELSE wsLatch.obj

\* One poll of a probe p of the object it started on.
Polled(p, d, left) ==
  LET still == Drawn(d, p.obj) /\ d[p.obj].columns = p.seen
      ours == left.obj = p.obj /\ Holds(d, p.obj, left.columns)
  IN IF ours \/ d[p.obj].fill = "blank"
     THEN [p EXCEPT !.stable = 0, !.polls = 0, !.blank = @ + 1]
     ELSE [p EXCEPT !.blank = 0, !.polls = @ + 1, !.seen = d[p.obj].columns,
                    !.stable = IF p.polls > 0 /\ still THEN @ + 1 ELSE 0]

CaptureStep(w, d) ==
  LET start == IF w.probe.obj # NoObject THEN w.probe ELSE [NoProbe EXCEPT !.obj = BindsTo]
      p == Polled(start, d, w.left)
  IN IF BindsTo = NoObject /\ (Elsewhere \/ w.probe.obj = NoObject) THEN w
     ELSE IF p.blank > 0
     THEN IF p.blank < WsGiveUp THEN [w EXCEPT !.probe = p]
          ELSE [w EXCEPT !.probe = NoProbe, !.left = IF d[p.obj].fill # "blank" THEN NoLeft ELSE @]
     ELSE IF p.stable < WsStable
     THEN [w EXCEPT !.probe = IF p.polls >= WsGiveUp THEN NoProbe ELSE p]
     ELSE [w EXCEPT !.probe = NoProbe, !.left = NoLeft,
                    !.copy = [NoCopy EXCEPT !.obj = p.obj, !.own = p.seen,
                                            !.tid = IF Elsewhere THEN wsTrack.plays ELSE wsLatch.tid]]

\* wave_paint over some stretches; the first write of a copy is of all of it.
Paint(w, d, g, where) ==
  LET c == w.copy
      base == IF c.wrote THEN c.written ELSE c.own
      r == WriteStyle(w, d, [s \in Stretches |-> IF s \in where THEN Scaled(c.own[s], g) ELSE base[s]])
  IN IF c.obj = NoObject THEN <<w, d>> ELSE <<[r[1] EXCEPT !.copy.modified = TRUE], r[2]>>

\* What is near the needle now, what is not when the faders have settled.
Apply(w, d, near) ==
  LET r == Paint([w EXCEPT !.applied = wsHand.gain, !.settle = 0], d, wsHand.gain, near)
  IN <<[r[1] EXCEPT !.tail = Stretches \ near], r[2]>>
Settles(w, d) ==
  IF w.settle + 1 < WsSettle THEN <<[w EXCEPT !.settle = @ + 1], d>>
  ELSE LET r == Paint([w EXCEPT !.settle = 0], d, w.applied, w.tail) IN <<[r[1] EXCEPT !.tail = {}], r[2]>>

\* The end of a tick: ORIGINAL, the faders moved, or the rest of the picture.
Follows(w, d, near) ==
  IF ~w.have THEN <<w, d>>
  ELSE IF wsHand.bypass
       THEN LET r == Restore(w, d) IN <<[r[1] EXCEPT !.applied = ForgottenNow], r[2]>>
       ELSE IF w.applied # wsHand.gain THEN Apply(w, d, near)
       ELSE IF w.tail # {} THEN Settles(w, d) ELSE <<w, d>>

-----------------------------------------------------------------------------
(* The worker. *)

Becomes(r) == wsWorker' = r[1] /\ wsDeck' = r[2]
wsNotWorker == <<wsReply, wsLatch, wsBound, wsTrack, wsHand, wsEvents>>
Near == {{1}, {2}, Stretches}

\* A tick that finds the track gone.
WsDrops ==
  /\ wsWorker.pc = "tick" /\ wsAsked.gone
  /\ LET r == Invalidate(wsWorker, wsDeck)
     IN Becomes(<<[r[1] EXCEPT !.have = FALSE, !.tail = {}, !.applied = ForgottenNow], r[2]>>)
  /\ wsAsked' = [wsAsked EXCEPT !.gone = FALSE, !.ready = FALSE]
  /\ UNCHANGED <<wsNotWorker, wsBands>>

WsOff ==
  /\ wsWorker.pc = "tick" /\ ~wsAsked.gone /\ ~wsHand.on /\ wsWorker.wereOn
  /\ LET r == Restore(wsWorker, wsDeck)
     IN Becomes(<<[r[1] EXCEPT !.wereOn = FALSE, !.applied = ForgottenNow], r[2]>>)
  /\ UNCHANGED <<wsNotWorker, wsAsked, wsBands>>

\* The first half of a tick: a stale copy is dropped, a missing one is looked for.
Looked ==
  LET w == IF wsWorker.wereOn THEN wsWorker ELSE [wsWorker EXCEPT !.wereOn = TRUE, !.applied = ForgottenNow]
      r == IF Stale(w.copy, wsDeck)
           THEN LET i == Invalidate(w, wsDeck) IN <<[i[1] EXCEPT !.have = FALSE], i[2]>> ELSE <<w, wsDeck>>
  IN <<IF r[1].copy.obj = NoObject THEN CaptureStep(r[1], r[2]) ELSE r[1], r[2]>>
Wanted(w) == wsAsked.ready /\ w.copy.obj # NoObject /\ ~w.have

WsTick ==
  /\ wsWorker.pc = "tick" /\ ~wsAsked.gone /\ wsHand.on
  /\ \/ \* no analysis, or one that has to come back: no rate yet, the set is being swapped
        /\ \E near \in Near : Becomes(Follows(Looked[1], Looked[2], near))
        /\ UNCHANGED <<wsAsked, wsBands>>
     \/ \* the cached bands, or a definite no
        /\ Wanted(Looked[1])
        /\ \E near \in Near, hit \in {wsBands[wsAsked.path] # NoTrack, FALSE} :
             Becomes(Follows(IF hit THEN [Looked[1] EXCEPT !.have = TRUE, !.applied = ForgottenNow] ELSE Looked[1],
                             Looked[2], near))
        /\ wsAsked' = [wsAsked EXCEPT !.ready = FALSE] /\ UNCHANGED wsBands
     \/ \* the track is pulled through, under the set's pages
        /\ Wanted(Looked[1]) /\ wsBands[wsAsked.path] = NoTrack /\ wsTrack.served
        /\ Becomes(<<[Looked[1] EXCEPT !.pc = "pull", !.pulls = wsAsked.path], Looked[2]>>)
        /\ UNCHANGED <<wsAsked, wsBands>>
  /\ UNCHANGED wsNotWorker

\* mix_sink: the track changed under the pull, and the question is kept.
WsAborts ==
  /\ wsWorker.pc = "pull" /\ (wsAsked.gone \/ ~wsTrack.served)
  /\ \E near \in Near :
       Becomes(Follows([wsWorker EXCEPT !.pc = "tick", !.pulls = NoTrack], wsDeck, near))
  /\ UNCHANGED <<wsNotWorker, wsAsked, wsBands>>

\* All of it is through; the bands go beside the pair of the path that is named now.
WsPulled ==
  /\ wsWorker.pc = "pull"
  /\ wsWorker' = [wsWorker EXCEPT !.pc = "store", !.have = TRUE]
  /\ UNCHANGED <<wsDeck, wsNotWorker, wsAsked, wsBands>>
WsStores ==
  /\ wsWorker.pc = "store"
  /\ \E stored \in BOOLEAN : wsBands' = IF stored THEN [wsBands EXCEPT ![wsAsked.path] = wsWorker.pulls] ELSE wsBands
  /\ wsAsked' = [wsAsked EXCEPT !.ready = FALSE]
  /\ \E near \in Near :
       Becomes(Follows([wsWorker EXCEPT !.pc = "tick", !.pulls = NoTrack, !.applied = ForgottenNow], wsDeck, near))
  /\ UNCHANGED wsNotWorker

WsNext ==
  \/ \E t \in WsTracks, o \in WsObjects : WsReplies(t, o)
  \/ WsLatches
  \/ \E o \in WsObjects : WsDraws(o)
  \/ \E t \in WsTracks : WsSourceMoves(t)
  \/ WsTrackActs \/ WsServed \/ WsHandMoves
  \/ WsDrops \/ WsOff \/ WsTick \/ WsAborts \/ WsPulled \/ WsStores

WsSpec == WsInit /\ [][WsNext]_wsVars

-----------------------------------------------------------------------------
(* Properties. *)

Ours(columns) == \E s \in Stretches : columns[s].gain # Unity

\* What is taken for the deck's own picture never holds a fader's position: a reduced peak
\* would become the reference of the next paint (paint.c:166-174).
CopyIsTheDecks == wsWorker.copy.obj # NoObject => ~Ours(wsWorker.copy.own)

\* An array that shows the faders is the one whose own columns are still held.
PaintIsHeld == \A o \in WsObjects : Drawn(wsDeck, o) /\ Ours(wsDeck[o].columns) =>
  wsWorker.copy.obj = o /\ wsWorker.copy.modified

\* With the stems off and the edge acted on, every array is as the deck drew it.
OffIsTheDecks == ~wsWorker.wereOn => \A o \in WsObjects : Drawn(wsDeck, o) => ~Ours(wsDeck[o].columns)

\* Nothing of ours stays behind or is adopted, whatever the deck, the DJ and the job do
\* between two ticks.
NothingOfOursStays == CopyIsTheDecks /\ PaintIsHeld /\ OffIsTheDecks

\* TLC finds the rest violated (README).  What is painted on is the array of the track that
\* plays: "Still keyed on the id, so this cannot bind to another track's array"
\* (paint.c:315-316); a probe that starts between a reply's id and its object can.
PaintIsOfTheTrack ==
  wsWorker.copy.modified /\ wsTrack.plays = wsTrack.acted /\ ~wsAsked.gone /\ wsWorker.copy.tid = wsTrack.plays
    => wsDeck[wsWorker.copy.obj].for = wsTrack.plays

\* The bands beside a pair were computed from that track: the path is read again after the pull.
BandsAreTheTracks == \A t \in WsTracks : wsBands[t] \in {NoTrack, t}

\* Only an answer consumes the question (wave/stems.c:415): not a track that is already gone.
AnswersConsume == [][WsDrops /\ wsAsked.ready => wsAsked.path # wsTrack.acted]_wsVars
=============================================================================
