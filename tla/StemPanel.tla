------------------------------ MODULE StemPanel ------------------------------
(***************************************************************************)
(* The stems row on the play screen (stem/ui/hooks.c, row.c, wedge.c,        *)
(* panel.c, wavewait.c): the STEMS button opens it, the faders, captions and *)
(* BYPASS work it, and the display tick brings the button, the badge, the    *)
(* progress bar and the marks into line with what the job's threads publish. *)
(*                                                                         *)
(* All of it runs on the message thread, so that an event or a tick is one   *)
(* step and each C function here is an operator from a panel to a panel; the *)
(* world is what other threads and the settings change between two of them.  *)
(* Left out: the drawing, the colours but the edit mark's, the waveform.     *)
(***************************************************************************)
EXTENDS Integers, FiniteSets

CONSTANTS SpParts,       \* the parts of the row
          SpJobs,        \* what a snapshot may say of the job: stage, percent, via_server
          SpSettle,      \* WARN_SETTLE_TICKS
          SpBlink,       \* MOD_BLINK_PERIOD
          SpCooldown,    \* GRAB_COOLDOWN
          SpPatience,    \* WAVEWAIT_GIVEUP
          SpMaxEvents    \* bound: events between the ticks

Over == {"idle", "done", "failed"}
NoJob == [stage |-> "idle", percent |-> 0, server |-> FALSE]

ASSUME SpAssumption ==
  /\ {SpSettle, SpBlink, SpCooldown, SpPatience, SpMaxEvents} \subseteq Nat \ {0}
  /\ \A j \in SpJobs : j.percent \in 0..100 /\ j.server \in BOOLEAN

VARIABLES spPanel,   \* the row and all it shows
          spWorld,   \* g_stems_on, the set, the sidecar's status, the job, the theme
          spFinger,  \* the control under the finger, and what it has worked since it landed
          spEvents   \* counted

spVars == <<spPanel, spWorld, spFinger, spEvents>>

Wedge(p) == <<"wedge", p>>
Caption(p) == <<"caption", p>>
Stems == <<"stems", "">>
Bypass == <<"bypass", "">>
Nothing == <<"nothing", "">>
Wedges == {Wedge(p) : p \in SpParts}
Captions == {Caption(p) : p \in SpParts}

SpFull == 2
Flashes == 3
BlinkTicks == Flashes * 2 * SpBlink

SpInit ==
  /\ spPanel = [open |-> FALSE, synced |-> <<FALSE, FALSE>>, plate |-> "off",
                warnUp |-> FALSE, blink |-> 0, settle |-> 0,
                mark |-> "none", markUp |-> FALSE, theme |-> 0,
                bypass |-> FALSE, shown |-> FALSE,
                mute |-> {}, level |-> [p \in SpParts |-> SpFull],
                grab |-> Nothing, last |-> Nothing, freed |-> SpCooldown,
                up |-> FALSE, fill |-> -1, marks |-> FALSE, word |-> <<"idle", -1>>,
                drawnFill |-> -1, drawnMarks |-> -1, drawnWord |-> <<"none", -1>>,
                read |-> NoJob, wait |-> "off", waited |-> 0]
  /\ spWorld = [on |-> TRUE, ready |-> FALSE, seen |-> FALSE, usable |-> FALSE, job |-> NoJob,
                analysed |-> FALSE, loop |-> FALSE, theme |-> 0]
  /\ spFinger = [on |-> Nothing, worked |-> {}] /\ spEvents = 0

-----------------------------------------------------------------------------
(* The progress bar: stems_prog_pos and stems_processing_set.                *)

Bounds == [upload |-> 20, separate |-> 80, recon |-> 84, write |-> 88, fetch |-> 95]
Between(a, b, percent) == a + (percent * (b - a)) \div 100
Pos(job) ==
  IF ~job.server THEN job.percent
  ELSE CASE job.stage = "uploading" -> Between(0, Bounds.upload, job.percent)
         [] job.stage = "reconstructing" -> Between(Bounds.separate, Bounds.recon, job.percent)
         [] job.stage = "writing" -> Between(Bounds.recon, Bounds.write, job.percent)
         [] job.stage = "fetching" -> Between(Bounds.write, Bounds.fetch, job.percent)
         [] job.stage = "loading" -> Between(Bounds.fetch, 100, job.percent)
         [] OTHER -> Between(Bounds.upload, Bounds.separate, job.percent)

Forgotten(n) == [n EXCEPT !.drawnFill = -1, !.drawnMarks = -1, !.drawnWord = <<"none", -1>>]

\* Each part is drawn again only when it moved: the guards are what was drawn.
GuardsOnPercent(n, job) ==   \* seeded fault: the fill is guarded by the percent, not its place
  LET pos == Pos(job) IN
  [n EXCEPT !.marks = job.server,
            !.fill = IF job.percent # n.drawnFill THEN pos ELSE @, !.drawnFill = job.percent,
            !.word = <<job.stage, pos>>, !.read = job]
Draws(n, job) ==
  LET pos == Pos(job)
      word == <<job.stage, pos>>
      marks == IF job.server THEN 1 ELSE 0 IN
  [n EXCEPT !.marks = IF marks # n.drawnMarks THEN job.server ELSE @, !.drawnMarks = marks,
            !.fill = IF pos # n.drawnFill THEN pos ELSE @, !.drawnFill = pos,
            !.word = IF word # n.drawnWord THEN word ELSE @, !.drawnWord = word,
            !.read = job]

ProcessingSet(n, job) ==
  IF job.stage \in Over THEN IF n.up THEN [Forgotten(n) EXCEPT !.up = FALSE] ELSE n
  ELSE Draws(IF n.up THEN n ELSE [Forgotten(n) EXCEPT !.up = TRUE], job)

-----------------------------------------------------------------------------
(* The row: stems_sync, stems_toggle_row.  The band may be refused, and the  *)
(* kit calls back when it went elsewhere.                                    *)

Plated(n, plate) == [n EXCEPT !.plate = plate]

Sync(n) ==
  LET lit == spWorld.on /\ n.open IN
  IF n.synced = <<spWorld.on, n.open>> THEN n
  ELSE [Plated(n, IF lit THEN "on" ELSE "off") EXCEPT
          !.synced = <<spWorld.on, n.open>>,
          !.grab = IF lit \/ @ = Stems THEN @ ELSE Nothing,
          !.last = IF lit \/ n.grab = Stems THEN @ ELSE Nothing]

Toggled(n, comes) ==
  IF n.open THEN Sync([n EXCEPT !.open = FALSE])
  ELSE IF ~comes THEN n
  ELSE ProcessingSet(Forgotten(Sync([n EXCEPT !.open = TRUE])), spWorld.job)

\* stems_available.
Available == spWorld.ready \/ ~spWorld.seen \/ spWorld.usable

-----------------------------------------------------------------------------
(* The finger: one gesture, one control.                                     *)

\* stems_grab_take: only a fader is refused for having been entered too soon.
MayTake(n, c) ==
  IF n.grab # Nothing THEN n.grab = c
  ELSE ~(c \in Wedges /\ n.last \notin {Nothing, c} /\ n.freed < SpCooldown)
Taken(n, c) == [n EXCEPT !.grab = c, !.last = c]
Released(n) == IF n.grab = Nothing THEN n ELSE [n EXCEPT !.grab = Nothing, !.freed = 0]

StemOff(n, p) == ~spWorld.ready \/ n.bypass \/ p \in n.mute

\* A press refused: the badge and the red plate at once, then the blink.
Refused(n) == [Plated(n, "refuse") EXCEPT !.blink = BlinkTicks, !.warnUp = TRUE]

\* stems_wedge_down, stems_label_mousedown.
Works(n, c, level, comes) ==
  CASE c \in Wedges -> [n EXCEPT !.level[c[2]] = level]
    [] c \in Captions -> [n EXCEPT !.mute = IF spWorld.ready THEN @ \cup {c[2]} ELSE @]
    [] c = Bypass -> [n EXCEPT !.bypass = IF spWorld.ready THEN ~@ ELSE @]
    [] c = Stems -> IF ~n.open /\ ~Available THEN Refused(n) ELSE Toggled(n, comes)
Inert(n, c) == c \in Wedges /\ StemOff(n, c[2])
Down(n, c, level, comes) ==
  IF Inert(n, c) \/ ~MayTake(n, c) THEN n ELSE Works(Taken(n, c), c, level, comes)

\* stems_wedge_up, stems_label_mouseup: any caption let go of lets go of all.
Up(n, c) ==
  IF c \in Wedges THEN Released(n) ELSE Released([n EXCEPT !.mute = {}])

Visible(n, c) == \/ c = Stems /\ spWorld.on
                 \/ c # Stems /\ spWorld.on /\ n.open /\ ~n.up
Worked(n, c) == IF n.grab = c /\ spWorld.ready THEN {c} \ {Stems} ELSE {}
Reached == spEvents < SpMaxEvents /\ spEvents' = spEvents + 1

SpPress == \E c \in Wedges \cup Captions \cup {Stems, Bypass}, l \in 0..SpFull, comes \in BOOLEAN :
  /\ Reached /\ spFinger.on = Nothing /\ Visible(spPanel, c)
  /\ spPanel' = Down(spPanel, c, l, comes)
  /\ spFinger' = [on |-> c, worked |-> Worked(spPanel', c)]
  /\ UNCHANGED spWorld

\* A finger that crosses a boundary lifts off one control and lands on the next.
SpCross == \E c \in Wedges \cup Captions \cup {Stems, Bypass}, l \in 0..SpFull, comes \in BOOLEAN :
  LET left == Up(spPanel, spFinger.on) IN
  /\ Reached /\ spFinger.on \notin {Nothing, c} /\ Visible(left, c)
  /\ spPanel' = Down(left, c, l, comes)
  /\ spFinger' = [on |-> c, worked |-> spFinger.worked \cup Worked(spPanel', c)]
  /\ UNCHANGED spWorld

SpDrag == \E l \in 0..SpFull :
  LET c == spFinger.on IN
  /\ Reached /\ c \in Wedges /\ spPanel.grab = c /\ ~StemOff(spPanel, c[2])
  /\ spPanel' = [spPanel EXCEPT !.level[c[2]] = l]
  /\ UNCHANGED <<spWorld, spFinger>>

SpLift ==
  /\ spFinger.on # Nothing
  /\ spPanel' = Up(spPanel, spFinger.on)
  /\ spFinger' = [on |-> Nothing, worked |-> {}]
  /\ UNCHANGED <<spWorld, spEvents>>

-----------------------------------------------------------------------------
(* The display tick: stems_drc_timer.                                        *)

\* stems_ready_poll: a set that goes takes the bypass with it.
ReadyPolled(n) ==
  IF spWorld.ready = n.shown THEN n
  ELSE [n EXCEPT !.shown = spWorld.ready, !.bypass = @ /\ spWorld.ready]

\* stems_wavewait_poll: breathing while the analysis may come, then still.
WaitPolled(n) ==
  IF ~(spWorld.ready /\ ~n.bypass /\ ~spWorld.analysed)
  THEN [n EXCEPT !.wait = "off", !.waited = 0]
  ELSE CASE n.wait = "off" -> [n EXCEPT !.wait = "pulse", !.waited = 0]
         [] n.wait = "still" -> n
         [] n.wait = "pulse" -> [n EXCEPT !.waited = @ + 1,
                                          !.wait = IF n.waited + 1 >= SpPatience THEN "still" ELSE @]

\* stems_theme_poll: the mark's colour is forgotten with the palette it came from.
ThemePolled(n) ==
  IF spWorld.theme = n.theme THEN n ELSE [n EXCEPT !.theme = spWorld.theme, !.mark = "none"]

\* stems_warn_poll: the badge comes after a second of nothing to offer, goes at
\* once, and takes the row with it.
WarnWanted == ~Available
Settled(n) == [n EXCEPT !.settle = IF WarnWanted THEN IF @ > SpSettle THEN @ ELSE @ + 1 ELSE 0]
Warned(n) ==
  IF WarnWanted = n.warnUp \/ (WarnWanted /\ n.settle <= SpSettle) THEN n
  ELSE IF ~WarnWanted THEN [Plated(n, "off") EXCEPT !.warnUp = FALSE, !.blink = 0]
  ELSE IF n.open THEN Toggled([n EXCEPT !.warnUp = TRUE], FALSE)
  ELSE [n EXCEPT !.warnUp = TRUE]
Blinked(n) ==
  LET left == n.blink - 1 IN
  IF ~WarnWanted \/ n.blink = 0 THEN n
  ELSE IF left % SpBlink # 0 THEN [n EXCEPT !.blink = left]
  ELSE [Plated(n, IF left # 0 /\ (left \div SpBlink) % 2 = 0 THEN "refuse" ELSE "off")
          EXCEPT !.blink = left]
WarnPolled(n) == Blinked(Warned(Settled(n)))

\* stems_edit_poll: is the track coming out as it went in?
Edited(n) ==
  /\ spWorld.on /\ ~n.bypass
  /\ spWorld.loop \/ n.mute # {} \/ \E p \in SpParts : n.level[p] # SpFull
EditPolled(n) ==
  LET want == IF ~Edited(n) THEN "none" ELSE IF n.plate = "on" THEN "text" ELSE "accent" IN
  IF want = n.mark THEN n ELSE [n EXCEPT !.mark = want, !.markUp = want # "none"]

RowPolled(n) == IF n.open THEN ReadyPolled(WaitPolled(ProcessingSet(n, spWorld.job))) ELSE n
Cooled(n) == [n EXCEPT !.freed = IF @ < SpCooldown THEN @ + 1 ELSE @]

SpTick == \E gone \in BOOLEAN :    \* the kit found the band elsewhere
  /\ LET kept == IF gone /\ spPanel.open
                 THEN Sync([ThemePolled(Cooled(spPanel)) EXCEPT !.open = FALSE])
                 ELSE ThemePolled(Cooled(spPanel))
     IN spPanel' = EditPolled(WarnPolled(RowPolled(kept)))
  /\ UNCHANGED <<spWorld, spFinger, spEvents>>

\* stems_ta_paint.
SpPaint == /\ spPanel' = Sync(spPanel) /\ UNCHANGED <<spWorld, spFinger, spEvents>>

-----------------------------------------------------------------------------
(* What the other threads, the settings and the track loader do.             *)

SpWorldMoves ==
  /\ Reached /\ UNCHANGED <<spPanel, spFinger>>
  /\ \/ spWorld' = [spWorld EXCEPT !.ready = ~@, !.analysed = FALSE]
     \/ \E u \in BOOLEAN : spWorld' = [spWorld EXCEPT !.seen = TRUE, !.usable = u]
     \/ \E j \in SpJobs : spWorld' = [spWorld EXCEPT !.job = j]
     \/ spWorld' = [spWorld EXCEPT !.on = ~@]
     \/ spWorld' = [spWorld EXCEPT !.analysed = spWorld.ready]
     \/ spWorld' = [spWorld EXCEPT !.loop = ~@]
     \/ spWorld' = [spWorld EXCEPT !.theme = 1 - @]

\* mod_stems_reset_levels, on a track change.
SpTrackChanges ==
  /\ Reached
  /\ spPanel' = [spPanel EXCEPT !.mute = {}, !.level = [p \in SpParts |-> SpFull]]
  /\ spWorld' = [spWorld EXCEPT !.ready = FALSE, !.analysed = FALSE, !.job = NoJob]
  /\ UNCHANGED spFinger

SpNext == SpPress \/ SpCross \/ SpDrag \/ SpLift \/ SpTick \/ SpPaint \/ SpWorldMoves \/ SpTrackChanges

SpSpec == SpInit /\ [][SpNext]_spVars

-----------------------------------------------------------------------------
(* Properties.                                                              *)

\* A gesture that ended leaves neither a stem silent nor the row taken, wherever the
\* finger went and whatever closed the row under it (row.c:489-497).
FingerLeavesNothing ==
  spFinger.on = Nothing => spPanel.grab = Nothing /\ spPanel.mute = {}

\* The bar shows the job the last poll read, all of it, whatever was on it before
\* ("a fill left at the previous run's separation while the caption reads UPLOADING",
\* row.c:305-309).
BarIsTheJobs ==
  spPanel.up => /\ spPanel.fill = Pos(spPanel.read) /\ spPanel.marks = spPanel.read.server
                /\ spPanel.word = <<spPanel.read.stage, Pos(spPanel.read)>>

\* What the panel shows and holds is true of the finger and of the job.
PanelIsTrue == FingerLeavesNothing /\ BarIsTheJobs

\* "Whoever takes the gesture at mouseDown owns EVERY control in the row until the
\* finger lifts" (wedge.c:60-61).
SweepWorksOneControl == Cardinality(spFinger.worked) <= 1

\* The button reads on exactly while the row is up: "the resting state is forced
\* rather than left to whatever the last tick happened to draw" (hooks.c:227-229).
PlateTellsTheRow ==
  (spPanel.plate = "on") = (spPanel.synced = <<TRUE, TRUE>>)

\* "Leaving BYPASS latched over nothing would silently apply to whatever lands next"
\* (hooks.c:118-119).
BypassEndsWithItsSet == [][spWorld'.ready /\ ~spWorld.ready => ~spPanel.bypass]_spVars

\* After a tick the mark says whether the track is edited (hooks.c:149-150).
MarkTellsTheEdit == [][SpTick => spPanel'.markUp = (spPanel'.mark # "none")]_spVars
=============================================================================
