------------------------------- MODULE StemMix -------------------------------
(***************************************************************************)
(* The stem mix (stem/audio_mix.c, loop.c) under the row's faders and held   *)
(* mutes (stem/ui/wedge.c, row.c): the message thread publishes a gain and   *)
(* what it wants muted, the audio thread commits the mute on the quarter it  *)
(* lands in, then plays a block of three parts, one of them from a loop.     *)
(*                                                                         *)
(* A block is the coefficient each signal ends up with and the beats its     *)
(* frames fall in.  The deck mixes drums as what is left of the track, so    *)
(* that a signal is counted in the two parts, the track and the file.        *)
(* Left out: the samples, the conversion of a beat to a frame of the file.   *)
(***************************************************************************)
EXTENDS Integers, Sequences

CONSTANTS SmHands,     \* the parts the DJ touches
          SmLooped,    \* the parts a groove loop may play instead of
          SmLevels,    \* fader positions; the highest is the full mix
          SmBeats,     \* the track's beats
          SmWalkMax,   \* BEAT_WALK_MAX
          SmPositions, SmLength,   \* where a block may start, and its frames
          SmQuarters   \* bound: the clock's quarters, told apart up to this many

Drums == "drums"
Harmonics == "harmonics"
Vocals == "vocals"
SmParts == {Drums, Harmonics, Vocals}
FullMix == CHOOSE l \in SmLevels : \A m \in SmLevels : m <= l

ASSUME SmAssumption ==
  /\ SmHands \cup SmLooped \subseteq SmParts
  /\ SmLevels \subseteq Nat \ {0} /\ \E l \in SmLevels : \A m \in SmLevels : m <= l
  /\ SmBeats \in Seq(Int) /\ Len(SmBeats) >= 2 /\ SmPositions \subseteq Int
  /\ \A a, b \in DOMAIN SmBeats : a <= b => SmBeats[a] <= SmBeats[b]   \* "ASCENDING OR NOTHING" (grid.c:334-338)
  /\ {SmWalkMax, SmLength, SmQuarters} \subseteq Nat

VARIABLES smRow,    \* stems_g_mute and stems_g_level
          smWant, smLive, smOpen, smGain,   \* what the two threads share, per part
          smSwitch, \* g_stems_on, bypass, stems ready, QUANTIZE
          smUi,     \* the message thread in stems_publish_gain
          smAudio,  \* the audio thread in stem_mute_commit
          smClock,  \* the X-PAD's clock: there or not, and its quarter
          smSeen,   \* stem_g_mute_quarter and its ok
          smBlock,  \* the block just played: coefficients and beats
          smFresh   \* no call has been made since the quarter, or the clock, changed

smVars == <<smRow, smWant, smLive, smOpen, smGain, smSwitch, smUi, smAudio, smClock, smSeen,
            smBlock, smFresh>>
smShared == <<smWant, smLive, smOpen, smGain>>

NoPart == "none"
All(v) == [p \in SmParts |-> v]

UiIdle == [pc |-> "idle", part |-> NoPart, gain |-> 0]
AudioIdle == [pc |-> "idle", part |-> NoPart, want |-> FALSE, todo |-> {}, due |-> FALSE, gains |-> <<>>]

SmInit ==
  /\ smRow = [mute |-> All(FALSE), level |-> All(FullMix)]
  /\ smWant = All(FALSE) /\ smLive = All(FALSE) /\ smOpen = All(FullMix) /\ smGain = All(FullMix)
  /\ smSwitch = [on |-> TRUE, bypass |-> FALSE, ready |-> FALSE, snap |-> TRUE]
  /\ smUi = UiIdle /\ smAudio = AudioIdle
  /\ smClock = [have |-> TRUE, quarter |-> 0] /\ smSeen = [quarter |-> 0, ok |-> FALSE]
  /\ smBlock = <<>> /\ smFresh = TRUE

-----------------------------------------------------------------------------
(* The message thread: wedge.c and row.c.                                    *)

smNotUi == <<smLive, smGain, smAudio, smClock, smSeen, smFresh>>
Played == smBlock' = <<>>    \* every other step

\* stems_publish_gain: the fader's own gain and the mute wanted are stored; the
\* gain then published is the one of the mute that is live.
Publishes(p, row) ==
  /\ smUi' = [pc |-> "gain", part |-> p, gain |-> IF smLive[p] THEN 0 ELSE row.level[p]]
  /\ smRow' = row /\ smOpen' = [smOpen EXCEPT ![p] = row.level[p]]
  /\ smWant' = [smWant EXCEPT ![p] = row.mute[p]]
SmGainSet ==
  /\ smUi.pc = "gain"
  /\ smGain' = [smGain EXCEPT ![smUi.part] = smUi.gain]
  /\ smUi' = UiIdle /\ Played
  /\ UNCHANGED <<smRow, smWant, smLive, smOpen, smSwitch, smAudio, smClock, smSeen, smFresh>>

\* stems_mute_set: a caption held, then the finger lifted.
SmMute(p, on) ==
  /\ smUi.pc = "idle" /\ smRow.mute[p] # on /\ (on => smSwitch.ready)
  /\ Publishes(p, [smRow EXCEPT !.mute[p] = on])
  /\ Played /\ UNCHANGED <<smSwitch, smNotUi>>

\* stems_wedge_track: a fader is inert when its stem is off.
SmFader(p, l) ==
  /\ smUi.pc = "idle" /\ smSwitch.ready /\ ~smSwitch.bypass /\ ~smRow.mute[p]
  /\ smRow.level[p] # l
  /\ Publishes(p, [smRow EXCEPT !.level[p] = l])
  /\ Played /\ UNCHANGED <<smSwitch, smNotUi>>

\* mod_stems_reset_levels, part by part, on a track change.
SmReset(p) ==
  /\ smUi.pc = "idle" /\ ~smSwitch.ready
  /\ Publishes(p, [smRow EXCEPT !.mute[p] = FALSE, !.level[p] = FullMix])
  /\ Played /\ UNCHANGED <<smSwitch, smNotUi>>

\* stems_bypass_toggle, the STEMS setting, the set coming and going
\* (stems_ready_poll gives a bypass back, while the row is open), the deck's QUANTIZE.
SmSwitches ==
  /\ smUi.pc = "idle"
  /\ \/ smSwitch.ready /\ smSwitch' = [smSwitch EXCEPT !.bypass = ~@]
     \/ \E b \in {smSwitch.bypass, smSwitch.bypass /\ ~smSwitch.ready} :
          smSwitch' = [smSwitch EXCEPT !.ready = ~@, !.bypass = b]
     \/ smSwitch' = [smSwitch EXCEPT !.on = ~@]
     \/ smSwitch' = [smSwitch EXCEPT !.snap = ~@]
  /\ Played /\ UNCHANGED <<smRow, smWant, smOpen, smUi, smNotUi>>

-----------------------------------------------------------------------------
(* The clock.                                                                *)

Mixes == smSwitch.on /\ ~smSwitch.bypass
smNotClock == <<smRow, smShared, smSwitch, smUi, smAudio, smSeen>>

\* The clock as a call finds it: between two calls it changes once, blocks being
\* a hundred times shorter than quarters.
ClockMayMove == Mixes => ~smFresh
SmQuarter ==
  /\ ClockMayMove /\ smClock.have /\ smClock' = [smClock EXCEPT !.quarter = (@ + 1) % SmQuarters]
  /\ smFresh' = TRUE /\ Played /\ UNCHANGED smNotClock
SmClockGoes ==
  /\ ClockMayMove /\ smClock' = [smClock EXCEPT !.have = ~@] /\ smFresh' = TRUE
  /\ Played /\ UNCHANGED smNotClock

-----------------------------------------------------------------------------
(* stem_mute_commit, at the head of every block the mix is called for.  What  *)
(* a call may do is noted in due: it is the first of its quarter, or nothing  *)
(* is there to wait for.                                                     *)

smNotAudio == <<smRow, smWant, smOpen, smSwitch, smUi, smClock>>
Moving == {p \in SmParts : smWant[p] # smLive[p]}
ClockNow == [quarter |-> IF smClock.have THEN smClock.quarter ELSE 0, ok |-> smClock.have]
Waits == smSwitch.snap /\ smClock.have /\ smSeen.ok /\ smSeen.quarter = ClockNow.quarter

Looks(seen, waits) ==
  /\ smAudio.pc = "idle" /\ Mixes
  /\ smSeen' = seen
  /\ smAudio' = [smAudio EXCEPT !.pc = IF Moving = {} \/ waits THEN "mix" ELSE "live",
                                !.todo = IF waits THEN {} ELSE Moving,
                                !.gains = smGain,
                                !.due = smFresh \/ ~smSwitch.snap \/ ~smClock.have]
  /\ smFresh' = FALSE /\ Played
  /\ UNCHANGED <<smLive, smGain, smNotAudio>>

RemembersWaiting ==   \* seeded fault: a clock that comes back is waited for in vain
  Looks(IF Moving # {} /\ Waits THEN smSeen ELSE ClockNow, Waits \/ (smSwitch.snap /\ ~smClock.have))
SmLooks == Looks(IF Moving # {} /\ Waits THEN smSeen ELSE ClockNow, Waits)

\* A part at a time: the mute, then the gain it stands for.
SmCommits ==
  /\ smAudio.pc = "live"
  /\ IF smAudio.todo = {} THEN /\ smAudio' = [smAudio EXCEPT !.pc = "mix"] /\ UNCHANGED smLive
     ELSE \E p \in smAudio.todo :
       /\ smAudio' = [smAudio EXCEPT !.pc = "gain", !.part = p, !.want = smWant[p], !.todo = @ \ {p}]
       /\ smLive' = [smLive EXCEPT ![p] = smWant[p]]
  /\ Played /\ UNCHANGED <<smGain, smSeen, smFresh, smNotAudio>>
SmCommitsGain ==
  /\ smAudio.pc = "gain"
  /\ smGain' = [smGain EXCEPT ![smAudio.part] = IF smAudio.want THEN 0 ELSE smOpen[smAudio.part]]
  /\ smAudio' = [smAudio EXCEPT !.pc = "live", !.part = NoPart, !.want = FALSE] /\ Played
  /\ UNCHANGED <<smLive, smSeen, smFresh, smNotAudio>>

-----------------------------------------------------------------------------
(* loop.c: the beat a frame falls in.                                        *)

Beat(i) == SmBeats[i + 1]      \* counted from 0, as the code does
LastBeat == Len(SmBeats) - 1
BeatBefore(at) == CHOOSE i \in 0..LastBeat - 1 :    \* the bisection
  Beat(i) <= at /\ \A j \in i + 1..LastBeat - 1 : Beat(j) > at

\* The cursor moves on a few beats at most, and is believed only if that was enough.
Hints(cursor, at) == cursor \in 0..LastBeat - 1 /\ Beat(cursor) <= at
Walked(at, i) ==
  LET n == CHOOSE n \in 0..SmWalkMax :
             /\ \A m \in 0..n - 1 : i + m < LastBeat - 1 /\ at >= Beat(i + m + 1)
             /\ (n = SmWalkMax \/ i + n >= LastBeat - 1 \/ at < Beat(i + n + 1))
  IN i + n
WalkUnchecked(at, cursor) ==   \* seeded fault: where the walk stops is taken for the beat
  IF Hints(cursor, at) THEN Walked(at, cursor)
  ELSE BeatBefore(at)
CursorOrBisect(at, cursor) ==
  IF Hints(cursor, at) /\ at < Beat(Walked(at, cursor) + 1)
  THEN Walked(at, cursor) ELSE BeatBefore(at)

\* stem_beat_at: outside the beats the nearest one is carried on, and the cursor stays.
BeatAt(at, cursor) ==
  IF at < Beat(0) THEN [beat |-> 0, cursor |-> cursor]
  ELSE IF at >= Beat(LastBeat) THEN [beat |-> LastBeat, cursor |-> cursor]
  ELSE [beat |-> CursorOrBisect(at, cursor), cursor |-> CursorOrBisect(at, cursor)]

\* A block's frames, one cursor through all of them.
Beats(from) ==
  LET cursor[k \in 0..SmLength] ==
        IF k = 0 THEN -1 ELSE BeatAt(from + k - 1, cursor[k - 1]).cursor
  IN  [k \in 1..SmLength |-> BeatAt(from + k - 1, cursor[k - 1]).beat]

BeatsFrom == [from \in SmPositions |-> Beats(from)]

-----------------------------------------------------------------------------
(* stem_mix: the coefficients of the track and of the two stored stems, then *)
(* of each part and of the loop's file.                                      *)

Mix(track, h, v, file) ==
  [p \in SmParts \cup {"file"} |->
     CASE p = Drums -> track [] p = Harmonics -> track + h [] p = Vocals -> track + v
       [] p = "file" -> file]
MixOf(d, gh, gv, part) ==
  CASE part = NoPart -> Mix(d, gh - d, gv - d, 0)
    [] part = Drums -> Mix(0, gh, gv, d)
    [] part = Harmonics -> Mix(d, -d, gv - d, gh)
    [] part = Vocals -> Mix(d, gh - d, -d, gv)

\* The gains were loaded before the commit, so that a mute is heard from the next
\* call on; a set may not be there.
SmMixes(from, loop) ==
  LET gains == smAudio.gains IN
  /\ smAudio.pc = "mix" /\ smAudio' = AudioIdle
  /\ smBlock' = IF ~smSwitch.ready THEN <<>>
                ELSE [mix |-> MixOf(gains[Drums], gains[Harmonics], gains[Vocals], loop),
                      gains |-> gains, loop |-> loop,
                      from |-> from, beats |-> IF loop = NoPart THEN <<>> ELSE BeatsFrom[from]]
  /\ UNCHANGED <<smLive, smGain, smSeen, smFresh, smNotAudio>>

SmBlockRuns ==
  \/ SmLooks \/ SmCommits \/ SmCommitsGain
  \/ SmMixes(0, NoPart)      \* without a loop the position is not asked for
  \/ \E from \in SmPositions, loop \in SmLooped : SmMixes(from, loop)

SmNext ==
  \/ \E p \in SmHands : (\E on \in BOOLEAN : SmMute(p, on)) \/ (\E l \in SmLevels : SmFader(p, l))
  \/ \E p \in SmHands : SmReset(p)
  \/ SmGainSet \/ SmSwitches \/ SmQuarter \/ SmClockGoes
  \/ SmBlockRuns

\* Blocks come while the mix is called for, the clock runs, a handler returns.
SmSpec ==
  /\ SmInit /\ [][SmNext]_smVars
  /\ WF_smVars(SmBlockRuns) /\ WF_smVars(SmQuarter) /\ WF_smVars(SmGainSet)

-----------------------------------------------------------------------------
(* Properties.                                                              *)

\* A part is heard at its own gain and nowhere else, or its loop is, whatever is
\* derived from what (audio_mix.c:184-254).
MixIsTheRow == smBlock # <<>> =>
  /\ \A p \in SmParts : smBlock.mix[p] = IF p = smBlock.loop THEN 0 ELSE smBlock.gains[p]
  /\ smBlock.mix["file"] = IF smBlock.loop = NoPart THEN 0 ELSE smBlock.gains[smBlock.loop]

\* The beat of a frame is that of its position, however many beats the block jumped
\* over on the way (loop.c:68-83).
BeatIsOfThePosition == smBlock # <<>> =>
  \A k \in DOMAIN smBlock.beats :
    smBlock.beats[k] = BeatAt(smBlock.from + k - 1, -1).beat

\* A mute moves in the first call of its quarter, or at once when there is nothing to
\* wait for: not in the middle of one that was already played through
\* ("the first call after the boundary does it", stem/audio.c:376-377).
MovesOnTheQuarter == [][smLive' # smLive => smAudio.due]_smVars

\* "A mute that never lands is worse than one that lands early" (stem/audio.c:379-380):
\* held, or let go, it lands while the mix is called, whatever the clock does.
MuteLands == \A p \in SmHands, on \in BOOLEAN :
  <>[](Mixes /\ smRow.mute[p] = on) => <>[](smLive[p] = on)

\* What is heard is what the row says, in its time.
BlockIsTheRows == MixIsTheRow /\ BeatIsOfThePosition
MuteKeepsTime == MovesOnTheQuarter /\ MuteLands

\* "The fader position is not a thing to restore afterwards" (row.c:136-139): with both
\* threads at rest the gain is the live mute's.  A publish that read the mute before a
\* commit and stores after it leaves a held mute heard, or a stem silent.
GainIsTheMutes ==
  smUi.pc = "idle" /\ smAudio.pc = "idle" =>
    \A p \in SmHands : smGain[p] = IF smLive[p] THEN 0 ELSE smRow.level[p]
=============================================================================
