----------------------------- MODULE ViewProofs -----------------------------
(***************************************************************************)
(* What the screen shows, for any jobs, levels, tracks, themes, copies and    *)
(* numbers of events.  The panel: a drawn bar tells all of the job it was read    *)
(* for, and no mute outlasts its finger.  Waveform stems: the columns of the      *)
(* faders are in no track's own object, and what is put back is the object's own.  *)
(* The theme: every copy of the waveform's colours wears the theme last put on,     *)
(* as long as no selection comes in the middle of a pass.  The mix: a block counts   *)
(* every part once at its own gain, and a frame's beat is its position's.             *)
(*                                                                         *)
(* The panel.  Each value of the bar is guarded by what was drawn of it; the    *)
(* guards are forgotten whenever the bar is not drawn, so a value that is not      *)
(* drawn again is the one on the screen (GuardsAreTrue, BarIsTrue).  What a tick   *)
(* does is a chain of parts, and each leaves a true row true (Leaves).            *)
(*                                                                         *)
(* Waveform stems.  What the worker wrote is in its copy until it is put back,   *)
(* and it looks at the deck's object again before it writes, and before it puts     *)
(* back: an object that went to another track holds nothing of its own             *)
(* (ShownIsWritten, OwnIsTheDecks).                                           *)
(*                                                                         *)
(* The theme.  A place that is known and not yet in the theme is before a thread  *)
(* that is to come to it: in its loop, or on the way to one (SitesAreSeen).  A      *)
(* reply marks the tables stock only with its own pass still to come.  A copy that    *)
(* is whole was stock or written by the mod, and so is never passed by              *)
(* (SitesAreOurs); the ground and the strip's palette follow what was computed         *)
(* (GroundGoesAlong), and a scan holds until a reply brings a style (ScansAreWhole).     *)
(*                                                                         *)
(* The mix.  A walked cursor that is believed brackets the position, and beats        *)
(* that ascend leave only one that does (BisectionFinds, AnyCursor); once a call was    *)
(* made the audio thread has seen the clock as it is (SeenIsTheClock), so a mute that    *)
(* is committed is due (CommitIsDue).                                           *)
(***************************************************************************)
EXTENDS StemPanel, WaveStems, ThemeWave, StemMix, FiniteSetTheorems, WellFoundedInduction, TLAPS

-----------------------------------------------------------------------------
(* The row.                                                                  *)
IsPanel(n) ==
  /\ n.wait \in {"off", "pulse", "still"}
  /\ DOMAIN n =
       {"open", "synced", "plate", "warnUp", "blink", "settle", "mark", "markUp", "theme", "bypass", "shown",
        "mute", "level", "grab", "last", "freed", "up", "fill", "marks", "word", "drawnFill", "drawnMarks",
        "drawnWord", "read", "wait", "waited"}
IsJob(job) == job.percent \in 0..100 /\ job.server \in BOOLEAN

\* What is guarded by what was drawn is what was drawn, or nothing was.
GuardsAreTrue(n) ==
  /\ n.drawnFill \in {-1, n.fill} /\ n.marks \in BOOLEAN
  /\ n.drawnMarks = -1 \/ n.drawnMarks = IF n.marks THEN 1 ELSE 0
  /\ n.drawnWord \in {<<"none", -1>>, n.word}
BarIsTrue(n) ==
  n.up => n.fill = Pos(n.read) /\ n.marks = n.read.server /\ n.word = <<n.read.stage, Pos(n.read)>>

RowIsTrue(n) == IsPanel(n) /\ GuardsAreTrue(n) /\ BarIsTrue(n)

\* What is done to a row that no finger works: the bar stays true, the mutes stay, and
\* the row is taken by nobody new.
Leaves(n, m) == RowIsTrue(m) /\ m.mute = n.mute /\ m.grab \in {Nothing, n.grab}

\* Nothing of the bar nor of the gesture is touched.
Apart(n, m) ==
  /\ IsPanel(m)
  /\ m.up = n.up /\ m.fill = n.fill /\ m.marks = n.marks /\ m.word = n.word /\ m.read = n.read
  /\ m.drawnFill = n.drawnFill /\ m.drawnMarks = n.drawnMarks /\ m.drawnWord = n.drawnWord
  /\ m.mute = n.mute /\ m.grab = n.grab

SpIInv ==
  /\ RowIsTrue(spPanel) /\ IsJob(spWorld.job)
  /\ DOMAIN spWorld = {"on", "ready", "seen", "usable", "job", "analysed", "loop", "theme"}
  /\ DOMAIN spFinger = {"on", "worked"}
  /\ spPanel.grab \in {Nothing, spFinger.on}
  /\ spPanel.mute # {} => spFinger.on \in Captions

-----------------------------------------------------------------------------
(* The controls of the row are told apart.                                       *)
LEMMA ControlsDiffer ==
  /\ Nothing \notin Wedges \cup Captions \cup {Stems, Bypass}
  /\ Captions \cap (Wedges \cup {Stems, Bypass}) = {} /\ Stems \notin Wedges /\ Bypass \notin Wedges
<1>1. (\A c \in Wedges : c[1] = "wedge") /\ (\A c \in Captions : c[1] = "caption")
  BY DEF Wedges, Captions, Wedge, Caption
<1>2. Nothing[1] = "nothing" /\ Stems[1] = "stems" /\ Bypass[1] = "bypass"
  BY DEF Nothing, Stems, Bypass
<1>3. Bypass \notin Wedges
  BY <1>1, <1>2
<1>4. QED
  BY <1>1, <1>2, <1>3

(* A place on the bar is a number, and no place is the mark of nothing drawn.        *)
LEMMA PlacesAreNumbers == ASSUME NEW job, IsJob(job) PROVE Pos(job) \in Nat
<1>1. \A a, b \in 0..100 : a <= b => Between(a, b, job.percent) \in Nat
  <2> SUFFICES ASSUME NEW a \in 0..100, NEW b \in 0..100, a <= b PROVE Between(a, b, job.percent) \in Nat
    OBVIOUS
  <2>1. job.percent * (b - a) \in Nat
    <3>1. job.percent \in Nat /\ b - a \in Nat
      BY DEF IsJob
    <3>2. \A x, y \in Nat : x * y \in Nat
      OBVIOUS
    <3>3. QED
      BY <3>1, <3>2
  <2>2. (job.percent * (b - a)) \div 100 \in Nat
    BY <2>1
  <2>3. QED
    BY <2>2 DEF Between
<1>2. /\ Between(0, 20, job.percent) \in Nat /\ Between(20, 80, job.percent) \in Nat
      /\ Between(80, 84, job.percent) \in Nat /\ Between(84, 88, job.percent) \in Nat
      /\ Between(88, 95, job.percent) \in Nat /\ Between(95, 100, job.percent) \in Nat
  <2>1. \A a, b : a \in 0..100 /\ b \in 0..100 /\ a <= b => Between(a, b, job.percent) \in Nat
    BY <1>1
  <2> HIDE <1>1
  <2>2. 0 \in 0..100 /\ 20 \in 0..100 /\ 0 <= 20 /\ 80 \in 0..100 /\ 20 <= 80 /\ 84 \in 0..100 /\ 80 <= 84
    OBVIOUS
  <2>3. 88 \in 0..100 /\ 84 <= 88 /\ 95 \in 0..100 /\ 88 <= 95 /\ 100 \in 0..100 /\ 95 <= 100
    OBVIOUS
  <2>4. Between(0, 20, job.percent) \in Nat /\ Between(20, 80, job.percent) \in Nat
    BY <2>1, <2>2
  <2>5. Between(80, 84, job.percent) \in Nat /\ Between(84, 88, job.percent) \in Nat
    BY <2>1, <2>2, <2>3
  <2>6. Between(88, 95, job.percent) \in Nat /\ Between(95, 100, job.percent) \in Nat
    BY <2>1, <2>3
  <2>7. QED
    BY <2>4, <2>5, <2>6
<1>3. job.percent \in Nat
  BY DEF IsJob
<1>4. QED
  BY <1>2, <1>3 DEF Pos, Bounds

\* What touches nothing of the bar leaves it true.
LEMMA ApartLeaves == ASSUME NEW n, NEW m, RowIsTrue(n), Apart(n, m) PROVE Leaves(n, m)
BY DEF RowIsTrue, Apart, Leaves, GuardsAreTrue, BarIsTrue

\* What is left true, and left true again, is left true.
LEMMA LeavesOn ==
  ASSUME NEW n, NEW m, NEW k, Leaves(n, m), Leaves(m, k) PROVE Leaves(n, k)
BY DEF Leaves

(* Drawn over guards that are true, the bar shows the whole of the job.             *)
LEMMA DrawsTheJob ==
  ASSUME NEW n, NEW job, IsPanel(n), GuardsAreTrue(n), IsJob(job)
  PROVE  RowIsTrue(Draws(n, job)) /\ Draws(n, job).mute = n.mute /\ Draws(n, job).grab = n.grab
         /\ Draws(n, job).up = n.up
<1> DEFINE m == Draws(n, job)
           pos == Pos(job)
           marks == IF job.server THEN 1 ELSE 0
           word == <<job.stage, pos>>
<1>1. pos \in Nat /\ marks \in {0, 1} /\ word # <<"none", -1>>
  BY PlacesAreNumbers
<1>2. /\ IsPanel(m) /\ m.read = job /\ m.up = n.up /\ m.mute = n.mute /\ m.grab = n.grab
      /\ m.marks = (IF marks # n.drawnMarks THEN job.server ELSE n.marks) /\ m.drawnMarks = marks
      /\ m.fill = (IF pos # n.drawnFill THEN pos ELSE n.fill) /\ m.drawnFill = pos
      /\ m.word = (IF word # n.drawnWord THEN word ELSE n.word) /\ m.drawnWord = word
  BY DEF Draws, IsPanel
<1> HIDE DEF m, pos, word
<1>3. m.fill = pos
  BY <1>1, <1>2 DEF GuardsAreTrue
<1>4. m.word = word
  BY <1>1, <1>2 DEF GuardsAreTrue
<1>5. m.marks = job.server
  <2>1. job.server \in BOOLEAN
    BY DEF IsJob
  <2>2. CASE marks # n.drawnMarks
    BY <1>2, <2>2
  <2>3. CASE marks = n.drawnMarks
    BY <1>1, <1>2, <2>1, <2>3 DEF GuardsAreTrue
  <2>4. QED
    BY <2>2, <2>3
<1>6. GuardsAreTrue(m)
  <2>1. m.drawnFill = m.fill
    BY <1>2, <1>3
  <2>2. m.drawnWord = m.word
    BY <1>2, <1>4
  <2>3. m.marks \in BOOLEAN
    BY <1>5 DEF IsJob
  <2>4. m.drawnMarks = IF m.marks THEN 1 ELSE 0
    BY <1>2, <1>5
  <2>5. QED
    BY <2>1, <2>2, <2>3, <2>4 DEF GuardsAreTrue
<1>7. BarIsTrue(m)
  BY <1>2, <1>3, <1>4, <1>5 DEF BarIsTrue, word, pos
<1>8. QED
  BY <1>2, <1>6, <1>7 DEF RowIsTrue, m

\* To forget what was drawn is safe.
LEMMA ForgottenLeaves == ASSUME NEW n, RowIsTrue(n) PROVE Leaves(n, Forgotten(n))
BY DEF Leaves, RowIsTrue, IsPanel, GuardsAreTrue, BarIsTrue, Forgotten

\* The processing bar is set: hidden when the job is over, or drawn anew.
LEMMA ProcessingLeaves ==
  ASSUME NEW n, NEW job, RowIsTrue(n), IsJob(job) PROVE Leaves(n, ProcessingSet(n, job))
<1> DEFINE f == Forgotten(n)
<1>1. Leaves(n, f) /\ IsPanel(f) /\ GuardsAreTrue(f)
  BY ForgottenLeaves DEF Leaves, RowIsTrue
<1>2. CASE job.stage \in Over
  <2> DEFINE m == [f EXCEPT !.up = FALSE]
  <2> HIDE DEF f
  <2>1. IsPanel(m) /\ GuardsAreTrue(m) /\ m.up = FALSE /\ m.mute = f.mute /\ m.grab = f.grab
    BY <1>1 DEF IsPanel, GuardsAreTrue
  <2> HIDE DEF m
  <2>2. Leaves(n, m)
    BY <1>1, <2>1 DEF Leaves, RowIsTrue, BarIsTrue
  <2>3. Leaves(n, n)
    BY DEF Leaves
  <2>4. QED
    BY <1>2, <2>2, <2>3 DEF ProcessingSet, m, f
<1>3. CASE job.stage \notin Over
  <2> DEFINE m == IF n.up THEN n ELSE [f EXCEPT !.up = TRUE]
  <2> HIDE DEF f
  <2>1. IsPanel(m) /\ GuardsAreTrue(m) /\ m.mute = n.mute /\ m.grab \in {Nothing, n.grab}
    <3>1. CASE n.up
      BY <3>1 DEF RowIsTrue
    <3>2. CASE ~n.up
      BY <1>1, <3>2 DEF IsPanel, GuardsAreTrue, Leaves
    <3>3. QED
      BY <3>1, <3>2
  <2>2. ProcessingSet(n, job) = Draws(m, job)
    BY <1>3 DEF ProcessingSet, f
  <2> HIDE DEF m
  <2>3. RowIsTrue(Draws(m, job)) /\ Draws(m, job).mute = m.mute /\ Draws(m, job).grab = m.grab
    BY <2>1, DrawsTheJob
  <2>4. QED
    BY <2>1, <2>2, <2>3 DEF Leaves
<1>4. QED
  BY <1>2, <1>3

\* The row is shown or hidden.
LEMMA SyncLeaves == ASSUME NEW n, RowIsTrue(n) PROVE Leaves(n, Sync(n))
<1>1. Leaves(n, n)
  BY DEF Leaves
<1>2. CASE spWorld.on /\ n.open
  <2> DEFINE lit == spWorld.on /\ n.open
             m == [Plated(n, "on") EXCEPT !.synced = <<spWorld.on, n.open>>, !.grab = @, !.last = @]
  <2>1. Sync(n) \in {n, m}
    BY <1>2 DEF Sync
  <2>2. Apart(n, m)
    BY DEF Apart, RowIsTrue, IsPanel, Plated
  <2> HIDE DEF m
  <2>3. QED
    BY <1>1, <2>1, <2>2, ApartLeaves
<1>3. CASE ~(spWorld.on /\ n.open)
  <2> DEFINE m == [Plated(n, "off") EXCEPT !.synced = <<spWorld.on, n.open>>,
                     !.grab = IF @ = Stems THEN @ ELSE Nothing, !.last = IF n.grab = Stems THEN @ ELSE Nothing]
             k == [m EXCEPT !.grab = n.grab]
  <2>1. Sync(n) \in {n, m}
    BY <1>3 DEF Sync
  <2>2. Apart(n, k) /\ m.grab \in {Nothing, n.grab} /\ IsPanel(m)
    BY DEF Apart, RowIsTrue, IsPanel, Plated
  <2>3. Leaves(n, m)
    <3>1. m.up = k.up /\ m.fill = k.fill /\ m.marks = k.marks /\ m.word = k.word /\ m.read = k.read
          /\ m.drawnFill = k.drawnFill /\ m.drawnMarks = k.drawnMarks /\ m.drawnWord = k.drawnWord /\ m.mute = k.mute
      BY <2>2 DEF IsPanel
    <3> HIDE DEF m, k
    <3>2. Leaves(n, k)
      BY <2>2, ApartLeaves
    <3>3. QED
      BY <2>2, <3>1, <3>2 DEF Leaves, RowIsTrue, GuardsAreTrue, BarIsTrue
  <2> HIDE DEF m
  <2>4. QED
    BY <1>1, <2>1, <2>3
<1>4. QED
  BY <1>2, <1>3

\* The row is opened or closed: closing lets go of every part.
LEMMA ToggledLeaves ==
  ASSUME NEW n, NEW comes, RowIsTrue(n), IsJob(spWorld.job) PROVE Leaves(n, Toggled(n, comes))
<1>0. Leaves(n, n)
  BY DEF Leaves
<1>1. \A x : Leaves(n, [n EXCEPT !.open = x])
  <2>1. \A x : Apart(n, [n EXCEPT !.open = x])
    BY DEF Apart, RowIsTrue, IsPanel
  <2>2. QED
    BY <2>1, ApartLeaves
<1>2. \A x : Leaves(n, Sync([n EXCEPT !.open = x]))
  <2> SUFFICES ASSUME NEW x PROVE Leaves(n, Sync([n EXCEPT !.open = x]))
    OBVIOUS
  <2> DEFINE m == [n EXCEPT !.open = x]
  <2>1. Leaves(n, m)
    BY <1>1
  <2> HIDE DEF m
  <2>2. Leaves(m, Sync(m))
    BY <2>1, SyncLeaves DEF Leaves
  <2>3. Leaves(n, Sync(m))
    BY <2>1, <2>2, LeavesOn
  <2>4. QED
    BY <2>3 DEF m
<1>3. CASE n.open
  BY <1>2, <1>3 DEF Toggled
<1>4. CASE ~n.open
  <2> DEFINE m == Sync([n EXCEPT !.open = TRUE])
  <2>1. Leaves(n, m)
    BY <1>2
  <2>2. Toggled(n, comes) \in {n, ProcessingSet(Forgotten(m), spWorld.job)}
    BY <1>4 DEF Toggled
  <2> HIDE DEF m
  <2>3. Leaves(m, Forgotten(m))
    BY <2>1, ForgottenLeaves DEF Leaves
  <2>4. Leaves(Forgotten(m), ProcessingSet(Forgotten(m), spWorld.job))
    BY <2>3, ProcessingLeaves DEF Leaves
  <2>5. Leaves(n, ProcessingSet(Forgotten(m), spWorld.job))
    BY <2>1, <2>3, <2>4, LeavesOn
  <2>6. QED
    BY <1>0, <2>2, <2>5
<1>5. QED
  BY <1>3, <1>4

-----------------------------------------------------------------------------
(* The display tick: each of its polls leaves the bar and the gesture alone, or takes   *)
(* the row down.                                                             *)
LEMMA PollsLeave ==
  ASSUME NEW n, RowIsTrue(n)
  PROVE  /\ Leaves(n, Cooled(n)) /\ Leaves(n, ThemePolled(n)) /\ Leaves(n, WaitPolled(n))
         /\ Leaves(n, ReadyPolled(n)) /\ Leaves(n, EditPolled(n)) /\ Leaves(n, Settled(n)) /\ Leaves(n, Blinked(n))
<1> USE DEF RowIsTrue, IsPanel, Apart
<1>1. Apart(n, n)
  OBVIOUS
<1>2. Apart(n, Cooled(n))
  BY DEF Cooled
<1>3. Apart(n, ThemePolled(n))
  BY DEF ThemePolled
<1>4. Apart(n, WaitPolled(n))
  <2> DEFINE m == [n EXCEPT !.waited = @ + 1, !.wait = IF n.waited + 1 >= SpPatience THEN "still" ELSE @]
             dark == ~(spWorld.ready /\ ~n.bypass /\ ~spWorld.analysed)
  <2>1. Apart(n, [n EXCEPT !.wait = "off", !.waited = 0]) /\ Apart(n, [n EXCEPT !.wait = "pulse", !.waited = 0])
    OBVIOUS
  <2>2. Apart(n, m)
    OBVIOUS
  <2>3. CASE dark
    BY <2>1, <2>3 DEF WaitPolled
  <2> HIDE DEF Apart
  <2>4. ASSUME ~dark PROVE Apart(n, WaitPolled(n))
    <3>1. CASE n.wait = "off"
      BY <2>1, <2>4, <3>1 DEF WaitPolled
    <3>2. CASE n.wait = "still"
      BY <1>1, <2>4, <3>2 DEF WaitPolled
    <3>3. CASE n.wait = "pulse"
      BY <2>2, <2>4, <3>3 DEF WaitPolled
    <3>4. QED
      BY <3>1, <3>2, <3>3
  <2>5. QED
    BY <2>3, <2>4
<1>5. Apart(n, ReadyPolled(n))
  BY DEF ReadyPolled
<1>6. Apart(n, EditPolled(n))
  <2> DEFINE want == IF ~Edited(n) THEN "none" ELSE IF n.plate = "on" THEN "text" ELSE "accent"
             m == [n EXCEPT !.mark = want, !.markUp = want # "none"]
  <2>1. EditPolled(n) \in {n, m}
    BY DEF EditPolled
  <2> HIDE DEF want
  <2>2. Apart(n, m)
    OBVIOUS
  <2> HIDE DEF m
  <2>3. QED
    BY <1>1, <2>1, <2>2
<1>7. Apart(n, Settled(n))
  BY DEF Settled
<1>8. Apart(n, Blinked(n))
  <2> DEFINE left == n.blink - 1
             plate == IF left # 0 /\ (left \div SpBlink) % 2 = 0 THEN "refuse" ELSE "off"
             m == [n EXCEPT !.blink = left]
             k == [[n EXCEPT !.plate = plate] EXCEPT !.blink = left]
  <2>1. Blinked(n) \in {n, m, k}
    BY DEF Blinked, Plated
  <2> HIDE DEF left, plate
  <2>2. Apart(n, m) /\ Apart(n, k)
    OBVIOUS
  <2> HIDE DEF m, k
  <2>3. QED
    BY <1>1, <2>1, <2>2
<1> HIDE DEF RowIsTrue, IsPanel, Apart
<1>9. QED
  BY <1>2, <1>3, <1>4, <1>5, <1>6, <1>7, <1>8, ApartLeaves

\* The warning, on a job that cannot run.
LEMMA WarnLeaves ==
  ASSUME NEW n, RowIsTrue(n), IsJob(spWorld.job) PROVE Leaves(n, WarnPolled(n))
<1> DEFINE s == Settled(n)
           w == Warned(s)
<1>1. Leaves(n, s)
  BY PollsLeave
<1> HIDE DEF s
<1>2. Leaves(s, w)
  <2> DEFINE up == [s EXCEPT !.warnUp = TRUE]
             down == [Plated(s, "off") EXCEPT !.warnUp = FALSE, !.blink = 0]
  <2>1. w \in {s, up, down, Toggled(up, FALSE)}
    BY DEF Warned
  <2>2. Apart(s, s) /\ Apart(s, up) /\ Apart(s, down)
    BY <1>1 DEF Apart, Leaves, RowIsTrue, IsPanel, Plated
  <2> HIDE DEF w, up, down
  <2>3. Leaves(s, s) /\ Leaves(s, up) /\ Leaves(s, down)
    BY <1>1, <2>2, ApartLeaves DEF Leaves
  <2>4. Leaves(up, Toggled(up, FALSE))
    BY <2>3, ToggledLeaves DEF Leaves
  <2>5. Leaves(s, Toggled(up, FALSE))
    BY <2>3, <2>4, LeavesOn
  <2>6. QED
    BY <2>1, <2>3, <2>5
<1> HIDE DEF w
<1>3. Leaves(w, Blinked(w))
  BY <1>2, PollsLeave DEF Leaves
<1>4. Leaves(n, Blinked(w))
  BY <1>1, <1>2, <1>3, LeavesOn
<1>5. QED
  BY <1>4 DEF WarnPolled, w, s

\* The bar and what is waited for, as polled.
LEMMA RowLeaves ==
  ASSUME NEW n, RowIsTrue(n), IsJob(spWorld.job) PROVE Leaves(n, RowPolled(n))
<1> DEFINE p == ProcessingSet(n, spWorld.job)
           q == WaitPolled(p)
<1>1. Leaves(n, p) /\ Leaves(n, n)
  BY ProcessingLeaves DEF Leaves
<1> HIDE DEF p
<1>2. Leaves(p, q)
  BY <1>1, PollsLeave DEF Leaves
<1> HIDE DEF q
<1>3. Leaves(q, ReadyPolled(q))
  BY <1>2, PollsLeave DEF Leaves
<1>4. Leaves(n, ReadyPolled(q))
  BY <1>1, <1>2, <1>3, LeavesOn
<1>5. QED
  BY <1>1, <1>4 DEF RowPolled, q, p

\* A whole tick, poll after poll.
LEMMA TickLeaves ==
  ASSUME RowIsTrue(spPanel), IsJob(spWorld.job), SpTick PROVE Leaves(spPanel, spPanel')
<1> DEFINE n == ThemePolled(Cooled(spPanel))
           shut == Sync([n EXCEPT !.open = FALSE])
           Ends(k) == EditPolled(WarnPolled(RowPolled(k)))
<1>1. Leaves(spPanel, n)
  <2>1. Leaves(spPanel, Cooled(spPanel))
    BY PollsLeave
  <2>2. Leaves(Cooled(spPanel), n)
    BY <2>1, PollsLeave DEF Leaves
  <2>3. QED
    BY <2>1, <2>2, LeavesOn
<1>2. spPanel' = Ends(n) \/ spPanel' = Ends(shut)
  BY DEF SpTick
<1> HIDE DEF n
<1>3. Leaves(spPanel, shut)
  <2> DEFINE m == [n EXCEPT !.open = FALSE]
  <2>1. Apart(n, m)
    BY <1>1 DEF Apart, Leaves, RowIsTrue, IsPanel
  <2> HIDE DEF m
  <2>2. Leaves(n, m)
    BY <1>1, <2>1, ApartLeaves DEF Leaves
  <2>3. Leaves(m, Sync(m))
    BY <2>2, SyncLeaves DEF Leaves
  <2>4. Leaves(spPanel, Sync(m))
    BY <1>1, <2>2, <2>3, LeavesOn
  <2>5. QED
    BY <2>4 DEF m
<1> HIDE DEF shut
<1>4. ASSUME NEW k, Leaves(spPanel, k) PROVE Leaves(spPanel, Ends(k))
  <2>1. Leaves(k, RowPolled(k))
    BY <1>4, RowLeaves DEF Leaves
  <2>2. Leaves(RowPolled(k), WarnPolled(RowPolled(k)))
    BY <2>1, WarnLeaves DEF Leaves
  <2>3. Leaves(WarnPolled(RowPolled(k)), Ends(k))
    BY <2>2, PollsLeave DEF Leaves
  <2>4. QED
    BY <1>4, <2>1, <2>2, <2>3, LeavesOn
<1> HIDE DEF Ends
<1>5. QED
  BY <1>1, <1>2, <1>3, <1>4

-----------------------------------------------------------------------------
(* The finger.                                                               *)

(* A finger that lands on a row nobody has taken takes it or leaves it, and mutes what  *)
(* it landed on or nothing.                                                    *)
LEMMA DownTakes ==
  ASSUME NEW n, NEW c \in Wedges \cup Captions \cup {Stems, Bypass}, NEW l, NEW comes,
         RowIsTrue(n), IsJob(spWorld.job), n.grab = Nothing, n.mute = {}
  PROVE  /\ RowIsTrue(Down(n, c, l, comes)) /\ Down(n, c, l, comes).grab \in {Nothing, c}
         /\ Down(n, c, l, comes).mute # {} => c \in Captions
<1> DEFINE t == Taken(n, c)
           Lands(m) == RowIsTrue(m) /\ m.grab \in {Nothing, c} /\ (m.mute # {} => c \in Captions)
<1>1. Lands(n)
  OBVIOUS
<1>2. RowIsTrue(t) /\ t.grab = c /\ t.mute = {}
  BY DEF RowIsTrue, IsPanel, GuardsAreTrue, BarIsTrue, Taken
<1> HIDE DEF t
<1>3. \A m : Leaves(t, m) => Lands(m)
  BY <1>2 DEF Leaves
<1>4. Lands(Works(t, c, l, comes))
  <2>1. CASE c \in Wedges
    <3>1. Apart(t, [t EXCEPT !.level[c[2]] = l])
      BY <1>2 DEF Apart, RowIsTrue, IsPanel
    <3>2. Leaves(t, [t EXCEPT !.level[c[2]] = l])
      BY <1>2, <3>1, ApartLeaves
    <3>3. Works(t, c, l, comes) = [t EXCEPT !.level[c[2]] = l]
      <4>1. c \notin Captions /\ c # Stems /\ c # Bypass
        BY <2>1, ControlsDiffer
      <4>2. QED
        BY <2>1, <4>1 DEF Works
    <3> HIDE DEF Lands
    <3>4. QED
      BY <1>3, <3>2, <3>3
  <2>2. CASE c \in Captions
    <3> DEFINE m == [t EXCEPT !.mute = IF spWorld.ready THEN @ \cup {c[2]} ELSE @]
    <3>1. RowIsTrue(m) /\ m.grab = c
      BY <1>2 DEF RowIsTrue, IsPanel, GuardsAreTrue, BarIsTrue
    <3>2. Works(t, c, l, comes) = m
      <4>1. c \notin Wedges /\ c # Stems /\ c # Bypass
        BY <2>2, ControlsDiffer
      <4>2. QED
        BY <2>2, <4>1 DEF Works
    <3> HIDE DEF m
    <3>3. QED
      BY <2>2, <3>1, <3>2
  <2>3. CASE c = Bypass
    <3> DEFINE m == [t EXCEPT !.bypass = IF spWorld.ready THEN ~@ ELSE @]
    <3>1. Apart(t, m)
      BY <1>2 DEF Apart, RowIsTrue, IsPanel
    <3>2. Bypass \notin Wedges /\ Bypass \notin Captions /\ Bypass # Stems
      <4>1. Bypass # Stems
        BY DEF Bypass, Stems
      <4>2. QED
        BY <4>1, ControlsDiffer
    <3>3. Works(t, c, l, comes) = m
      BY <2>3, <3>2 DEF Works
    <3> HIDE DEF m, Lands
    <3>4. Leaves(t, m)
      BY <1>2, <3>1, ApartLeaves
    <3>5. QED
      BY <1>3, <3>3, <3>4
  <2>4. CASE c = Stems
    <3> DEFINE m == [Plated(t, "refuse") EXCEPT !.blink = BlinkTicks, !.warnUp = TRUE]
    <3>1. Apart(t, m)
      BY <1>2 DEF Apart, RowIsTrue, IsPanel, Plated
    <3>2. Stems # Bypass /\ Stems \notin Wedges /\ Stems \notin Captions
      <4>1. Bypass # Stems
        BY DEF Bypass, Stems
      <4>2. QED
        BY <4>1, ControlsDiffer
    <3>3. Works(t, c, l, comes) \in {m, Toggled(t, comes)}
      BY <2>4, <3>2 DEF Works, Refused
    <3> HIDE DEF m, Lands
    <3>4. Leaves(t, m) /\ Leaves(t, Toggled(t, comes))
      BY <1>2, <3>1, ApartLeaves, ToggledLeaves
    <3>5. QED
      BY <1>3, <3>3, <3>4
  <2>5. QED
    BY <2>1, <2>2, <2>3, <2>4
<1> HIDE DEF Lands
<1>5. Down(n, c, l, comes) \in {n, Works(t, c, l, comes)}
  BY DEF Down, t
<1>6. Lands(Down(n, c, l, comes))
  BY <1>1, <1>4, <1>5
<1>7. QED
  BY <1>6 DEF Lands

(* A finger that leaves lets go of the row and of the mutes.                        *)
LEMMA UpReleases ==
  ASSUME NEW n, NEW c, RowIsTrue(n), n.mute # {} => c \in Captions
  PROVE  RowIsTrue(Up(n, c)) /\ Up(n, c).grab = Nothing /\ Up(n, c).mute = {}
<1> DEFINE m == IF c \in Wedges THEN n ELSE [n EXCEPT !.mute = {}]
<1>1. RowIsTrue(m) /\ m.mute = {}
  <2>1. CASE c \in Wedges
    BY <2>1, ControlsDiffer
  <2>2. CASE c \notin Wedges
    BY <2>2 DEF RowIsTrue, IsPanel, GuardsAreTrue, BarIsTrue
  <2>3. QED
    BY <2>1, <2>2
<1>2. Up(n, c) = Released(m)
  BY DEF Up
<1> HIDE DEF m
<1>3. RowIsTrue(Released(m)) /\ Released(m).grab = Nothing /\ Released(m).mute = {}
  BY <1>1 DEF RowIsTrue, IsPanel, GuardsAreTrue, BarIsTrue, Released
<1>4. QED
  BY <1>2, <1>3

-----------------------------------------------------------------------------
(* The steps.                                                                *)

\* Nothing to do is a job at nought.
LEMMA NoJobIsAJob == IsJob(NoJob)
<1>1. NoJob.percent = 0 /\ NoJob.server = FALSE
  BY DEF NoJob
<1>2. 0 \in 0..100 /\ FALSE \in BOOLEAN
  OBVIOUS
<1>3. NoJob.percent \in 0..100 /\ NoJob.server \in BOOLEAN
  BY <1>1, <1>2, Zenon
<1>4. QED
  BY <1>3 DEF IsJob

(* An untouched row, and no finger on it.                                       *)
LEMMA SpInitIInv == SpInit => SpIInv
<1> SUFFICES ASSUME SpInit PROVE SpIInv
  OBVIOUS
<1>1. RowIsTrue(spPanel) /\ spPanel.grab = Nothing /\ spPanel.mute = {}
  BY DEF SpInit, RowIsTrue, IsPanel, GuardsAreTrue, BarIsTrue
<1>2. IsJob(spWorld.job)
  <2>1. spWorld.job = NoJob
    BY DEF SpInit
  <2>2. QED
    BY <2>1, NoJobIsAJob
<1>3. /\ DOMAIN spWorld = {"on", "ready", "seen", "usable", "job", "analysed", "loop", "theme"}
      /\ DOMAIN spFinger = {"on", "worked"}
  BY DEF SpInit
<1>4. QED
  BY <1>1, <1>2, <1>3 DEF SpIInv

(* What leaves the gesture alone keeps the finger's word on it.                      *)
LEMMA LeavingKeepsIInv ==
  ASSUME SpIInv, Leaves(spPanel, spPanel'), UNCHANGED <<spWorld, spFinger>> PROVE SpIInv'
<1>1. RowIsTrue(spPanel') /\ spPanel'.mute = spPanel.mute /\ spPanel'.grab \in {Nothing, spPanel.grab}
  BY DEF Leaves
<1>2. RowIsTrue(spPanel)'
  BY <1>1 DEF RowIsTrue, IsPanel, GuardsAreTrue, BarIsTrue, Pos, Between
<1>3. IsJob(spWorld.job)'
  BY DEF SpIInv, IsJob
<1>4. QED
  BY <1>1, <1>2, <1>3 DEF SpIInv

\* A finger presses, crosses, lifts.
LEMMA FingerKeepsIInv ==
  ASSUME SpIInv, SpPress \/ SpCross \/ SpLift PROVE SpIInv'
<1> USE DEF SpIInv
<1>0. IsJob(spWorld.job)
  OBVIOUS
<1>1. ASSUME NEW n, NEW c \in Wedges \cup Captions \cup {Stems, Bypass}, NEW l, NEW comes, NEW w,
             RowIsTrue(n), n.grab = Nothing, n.mute = {}, UNCHANGED spWorld,
             spPanel' = Down(n, c, l, comes), spFinger' = [on |-> c, worked |-> w]
      PROVE  SpIInv'
  <2>1. /\ RowIsTrue(spPanel') /\ spPanel'.grab \in {Nothing, c}
        /\ spPanel'.mute # {} => c \in Captions
    BY <1>0, <1>1, DownTakes
  <2>2. spFinger'.on = c /\ DOMAIN spFinger' = {"on", "worked"}
    BY <1>1
  <2>3. IsJob(spWorld'.job)
    BY <1>0, <1>1
  <2>4. QED
    BY <1>1, <2>1, <2>2, <2>3
<1>2. CASE SpPress
  <2>1. spPanel.grab = Nothing /\ spPanel.mute = {} /\ RowIsTrue(spPanel)
    BY <1>2, ControlsDiffer DEF SpPress
  <2>2. PICK c \in Wedges \cup Captions \cup {Stems, Bypass}, l \in 0..SpFull, comes \in BOOLEAN :
          /\ spPanel' = Down(spPanel, c, l, comes) /\ UNCHANGED spWorld
          /\ spFinger' = [on |-> c, worked |-> Worked(spPanel', c)]
    BY <1>2 DEF SpPress
  <2>3. QED
    BY <1>1, <2>1, <2>2
<1>3. CASE SpCross
  <2> DEFINE left == Up(spPanel, spFinger.on)
  <2>1. RowIsTrue(left) /\ left.grab = Nothing /\ left.mute = {}
    BY UpReleases
  <2>2. PICK c \in Wedges \cup Captions \cup {Stems, Bypass}, l \in 0..SpFull, comes \in BOOLEAN :
          /\ spPanel' = Down(left, c, l, comes) /\ UNCHANGED spWorld
          /\ spFinger' = [on |-> c, worked |-> spFinger.worked \cup Worked(spPanel', c)]
    BY <1>3 DEF SpCross
  <2> HIDE DEF left
  <2>3. QED
    BY <1>1, <2>1, <2>2
<1>4. CASE SpLift
  <2> DEFINE left == Up(spPanel, spFinger.on)
  <2>1. RowIsTrue(left) /\ left.grab = Nothing /\ left.mute = {}
    BY UpReleases
  <2>2. spPanel' = left /\ spFinger' = [on |-> Nothing, worked |-> {}] /\ spWorld' = spWorld
    BY <1>4 DEF SpLift
  <2> HIDE DEF left
  <2>3. QED
    BY <1>0, <2>1, <2>2
<1>5. QED
  BY <1>2, <1>3, <1>4

\* A track change lets every part sound.
LEMMA TrackKeepsIInv == ASSUME SpIInv, SpTrackChanges PROVE SpIInv'
<1>1. spPanel' = [spPanel EXCEPT !.mute = {}, !.level = [p \in SpParts |-> SpFull]] /\ UNCHANGED spFinger
  BY DEF SpTrackChanges
<1>2. RowIsTrue(spPanel') /\ spPanel'.mute = {} /\ spPanel'.grab = spPanel.grab
  BY <1>1 DEF SpIInv, RowIsTrue, IsPanel, GuardsAreTrue, BarIsTrue
<1>3. spWorld' = [spWorld EXCEPT !.ready = FALSE, !.analysed = FALSE, !.job = NoJob]
  BY DEF SpTrackChanges
<1>4. IsJob(spWorld'.job) /\ DOMAIN spWorld' = DOMAIN spWorld
  <2>1. spWorld'.job = NoJob /\ DOMAIN spWorld' = DOMAIN spWorld
    BY <1>3 DEF SpIInv
  <2>2. QED
    BY <2>1, NoJobIsAJob
<1>5. QED
  BY <1>1, <1>2, <1>4 DEF SpIInv

\* What the row reads may change under it.
LEMMA WorldKeepsIInv == ASSUME SpIInv, SpWorldMoves PROVE SpIInv'
<1>1. IsJob(spWorld'.job) /\ DOMAIN spWorld' = DOMAIN spWorld
  <2> USE DEF SpIInv
  <2>1. CASE \E j \in SpJobs : spWorld' = [spWorld EXCEPT !.job = j]
    BY <2>1, SpAssumption DEF IsJob
  <2>2. CASE \E u \in BOOLEAN : spWorld' = [spWorld EXCEPT !.seen = TRUE, !.usable = u]
    BY <2>2
  <2>3. CASE spWorld' = [spWorld EXCEPT !.ready = ~@, !.analysed = FALSE]
    BY <2>3
  <2>4. CASE spWorld' = [spWorld EXCEPT !.on = ~@]
    BY <2>4
  <2>5. CASE spWorld' = [spWorld EXCEPT !.analysed = spWorld.ready]
    BY <2>5
  <2>6. CASE spWorld' = [spWorld EXCEPT !.loop = ~@]
    BY <2>6
  <2>7. CASE spWorld' = [spWorld EXCEPT !.theme = 1 - @]
    BY <2>7
  <2>8. QED
    BY <2>1, <2>2, <2>3, <2>4, <2>5, <2>6, <2>7 DEF SpWorldMoves
<1>2. UNCHANGED <<spPanel, spFinger>>
  BY DEF SpWorldMoves
<1>3. QED
  BY <1>1, <1>2 DEF SpIInv

(* The bar is the job's and the gesture is the finger's: no panel and no world breaks it.  *)
LEMMA StepKeepsSpIInv == SpIInv /\ [SpNext]_spVars => SpIInv'
<1> SUFFICES ASSUME SpIInv, [SpNext]_spVars PROVE SpIInv'
  OBVIOUS
<1>0. RowIsTrue(spPanel) /\ IsJob(spWorld.job)
  BY DEF SpIInv
<1>1. CASE SpTick
  BY <1>0, <1>1, TickLeaves, LeavingKeepsIInv DEF SpTick
<1>2. CASE SpPaint
  BY <1>0, <1>2, SyncLeaves, LeavingKeepsIInv DEF SpPaint
<1>3. CASE SpDrag
  <2>1. PICK l \in 0..SpFull : spPanel' = [spPanel EXCEPT !.level[spFinger.on[2]] = l]
    BY <1>3 DEF SpDrag
  <2>2. Apart(spPanel, spPanel')
    BY <1>0, <2>1 DEF Apart, RowIsTrue, IsPanel
  <2>3. UNCHANGED <<spWorld, spFinger>>
    BY <1>3 DEF SpDrag
  <2>4. QED
    BY <1>0, <2>2, <2>3, ApartLeaves, LeavingKeepsIInv
<1>4. CASE SpPress \/ SpCross \/ SpLift
  BY <1>4, FingerKeepsIInv
<1>5. CASE SpTrackChanges
  BY <1>5, TrackKeepsIInv
<1>6. CASE SpWorldMoves
  BY <1>6, WorldKeepsIInv
<1>7. CASE UNCHANGED spVars
  BY <1>7 DEF SpIInv, spVars
<1>8. QED
  BY <1>1, <1>2, <1>3, <1>4, <1>5, <1>6, <1>7 DEF SpNext

(* With no finger on it the row is taken by nobody and mutes nothing, however it was      *)
(* closed under the finger, and the bar that is up shows the whole of the job it last     *)
(* read, its fill, its marks and its caption (row.c:303-336, 489-497).                    *)
THEOREM PanelTellsTheTruth == SpSpec => []PanelIsTrue
<1>1. SpIInv => PanelIsTrue
  <2> SUFFICES ASSUME SpIInv PROVE PanelIsTrue
    OBVIOUS
  <2>1. FingerLeavesNothing
    BY ControlsDiffer DEF SpIInv, FingerLeavesNothing
  <2>2. BarIsTheJobs
    BY DEF SpIInv, RowIsTrue, BarIsTrue, BarIsTheJobs
  <2>3. QED
    BY <2>1, <2>2 DEF PanelIsTrue
<1>2. QED
  BY <1>1, SpInitIInv, StepKeepsSpIInv, PTL DEF SpSpec

-----------------------------------------------------------------------------
(* The waveform.                                                             *)
Columns == [Stretches -> [of : WsTracks \cup {NoTrack}, gain : Nat]]
Decks == [WsObjects -> [for : WsTracks \cup {NoTrack}, fill : {"blank", "old", "coming", "drawn"}, columns : Columns]]
Objects == WsObjects \cup {NoObject}
Copies == [obj : Objects, tid : WsTracks \cup {NoTrack}, own : Columns, wrote : BOOLEAN,
           written : Columns, modified : BOOLEAN]
Probes == [obj : Objects, seen : Columns, polls : Nat, stable : Nat, blank : Nat]
Workers == [pc : {"tick", "pull", "store"}, pulls : WsTracks \cup {NoTrack}, wereOn : BOOLEAN,
            copy : Copies, probe : Probes, left : [obj : Objects, columns : Columns],
            have : BOOLEAN, applied : Nat, tail : SUBSET Stretches, settle : Nat]

\* An array on which a fader shows is the copy's, and shows what was written last.
ShownIsWritten(w, d) == \A o \in WsObjects : Drawn(d, o) /\ Ours(d[o].columns) =>
  w.copy.obj = o /\ w.copy.modified /\ w.copy.wrote /\ d[o].columns = w.copy.written
OwnIsTheDecks(w) == w.copy.obj # NoObject => ~Ours(w.copy.own)
\* Nothing is written before the analysis is there, nor while it is made.
WritesAfterAnalysis(w) ==
  /\ w.copy.modified => w.copy.wrote
  /\ w.copy.wrote => w.copy.obj # NoObject /\ w.have
  /\ w.pc # "tick" => ~w.copy.wrote /\ w.wereOn
NothingShows(d) == \A o \in WsObjects : Drawn(d, o) => ~Ours(d[o].columns)

Sound(w, d) ==
  /\ w \in Workers /\ d \in Decks
  /\ ShownIsWritten(w, d) /\ OwnIsTheDecks(w) /\ WritesAfterAnalysis(w)

WsTypes ==
  /\ wsReply \in [tid : WsTracks \cup {NoTrack}, obj : Objects]
  /\ wsLatch \in [tid : WsTracks \cup {NoTrack}, obj : Objects]
  /\ wsBound \in Seq([tid : WsTracks \cup {NoTrack}, obj : Objects])
  /\ wsTrack \in [plays : WsTracks \cup {NoTrack}, acted : WsTracks \cup {NoTrack}, served : BOOLEAN]
  /\ wsAsked \in [ready : BOOLEAN, path : WsTracks \cup {NoTrack}, gone : BOOLEAN]
  /\ wsHand \in [on : BOOLEAN, bypass : BOOLEAN, gain : {Low, Unity}]

WsIInv ==
  /\ WsTypes /\ Sound(wsWorker, wsDeck)
  /\ ~wsWorker.wereOn => NothingShows(wsDeck)

-----------------------------------------------------------------------------
(* The entries of a sequence are of its set.                                  *)
LEMMA EntryOf ==
  ASSUME NEW S, NEW s \in Seq(S)
  PROVE  DOMAIN s = 1..Len(s) /\ Len(s) \in Nat /\ \A i \in 1..Len(s) : s[i] \in S
  OBVIOUS

\* An object's own columns are no fader's.
LEMMA OwnColumnsAreColumns ==
  ASSUME NEW t \in WsTracks \cup {NoTrack} PROVE OwnColumns(t) \in Columns /\ ~Ours(OwnColumns(t))
BY DEF OwnColumns, Columns, Ours, Unity, Stretches

\* What stands for nothing is of its type.
LEMMA NothingIsSound ==
  /\ NoCopy \in Copies /\ NoProbe \in Probes /\ NoLeft \in [obj : Objects, columns : Columns]
  /\ NoCopy.obj = NoObject /\ ~NoCopy.wrote /\ ~NoCopy.modified /\ NoProbe.obj = NoObject
<1>1. OwnColumns(NoTrack) \in Columns
  BY OwnColumnsAreColumns
<1> HIDE DEF Columns
<1>2. QED
  BY <1>1 DEF NoCopy, NoProbe, NoLeft, Copies, Probes, Objects, OwnColumns

\* At the start nothing is copied, and nothing shows.
LEMMA WsInitIInv == WsInit => WsIInv
<1> SUFFICES ASSUME WsInit PROVE WsIInv
  OBVIOUS
<1>1. WsTypes
  BY DEF WsInit, WsTypes, Objects, Low, Unity
<1>2. wsDeck \in Decks /\ NothingShows(wsDeck)
  <2>1. OwnColumns(NoTrack) \in Columns
    BY OwnColumnsAreColumns
  <2>2. \A o \in WsObjects : wsDeck[o] = [for |-> NoTrack, fill |-> "blank", columns |-> OwnColumns(NoTrack)]
    BY DEF WsInit
  <2>3. NothingShows(wsDeck)
    BY <2>2 DEF NothingShows, Drawn
  <2> HIDE DEF Columns
  <2>4. wsDeck \in Decks
    BY <2>1 DEF WsInit, Decks
  <2>5. QED
    BY <2>3, <2>4
<1>3. wsWorker \in Workers
  <2>1. wsWorker = [pc |-> "tick", pulls |-> NoTrack, wereOn |-> FALSE, copy |-> NoCopy, probe |-> NoProbe,
                    left |-> NoLeft, have |-> FALSE, applied |-> ForgottenNow, tail |-> {}, settle |-> 0]
    BY DEF WsInit
  <2>2. ForgottenNow \in Nat
    BY DEF ForgottenNow
  <2>3. QED
    BY <2>1, <2>2, NothingIsSound DEF Workers
<1>4. wsWorker.copy = NoCopy /\ wsWorker.pc = "tick"
  BY DEF WsInit
<1>5. QED
  BY <1>1, <1>2, <1>3, <1>4, NothingIsSound
     DEF WsIInv, Sound, ShownIsWritten, OwnIsTheDecks, WritesAfterAnalysis, NothingShows

-----------------------------------------------------------------------------
(* What the worker does to a sound pair.                                       *)

Written(w, src) == [w EXCEPT !.copy = [w.copy EXCEPT !.wrote = TRUE, !.written = src]]
(* Over columns that are what was written last, what is written is what is there.  *)
LEMMA Writes ==
  ASSUME NEW w \in Workers, NEW d \in Decks, NEW src \in Columns, w.copy.obj \in WsObjects,
         w.copy.wrote /\ Drawn(d, w.copy.obj) => d[w.copy.obj].columns = w.copy.written
  PROVE  /\ WriteStyle(w, d, src)[1] = Written(w, src)
         /\ WriteStyle(w, d, src)[1] \in Workers /\ WriteStyle(w, d, src)[2] \in Decks
         /\ \A o \in WsObjects :
              /\ Drawn(WriteStyle(w, d, src)[2], o) <=> Drawn(d, o)
              /\ o # w.copy.obj => WriteStyle(w, d, src)[2][o] = d[o]
              /\ o = w.copy.obj /\ Drawn(d, o) => WriteStyle(w, d, src)[2][o].columns = src
<1> DEFINE c == w.copy
           lands == [s \in Stretches |-> IF c.wrote /\ c.written[s] = src[s] THEN d[c.obj].columns[s] ELSE src[s]]
           w1 == [w EXCEPT !.copy = [w.copy EXCEPT !.wrote = TRUE, !.written = src]]
           d1 == [d EXCEPT ![c.obj].columns = lands]
<1>0. c \in Copies /\ d[c.obj].columns \in Columns
  BY DEF Workers, Decks
<1>1. WriteStyle(w, d, src) = <<w1, d1>>
  BY DEF WriteStyle, Workers
<1>2. lands \in Columns
  BY <1>0 DEF Columns
<1>3. Drawn(d, c.obj) => lands = src
  BY <1>0 DEF Columns
<1> HIDE DEF lands, Columns
<1>4. w1 \in Workers
  BY <1>0 DEF Workers, Copies
<1>5. d1 \in Decks
  BY <1>2 DEF Decks
<1>6. \A o \in WsObjects :
              /\ Drawn(d1, o) <=> Drawn(d, o)
              /\ o # c.obj => d1[o] = d[o]
              /\ o = c.obj /\ Drawn(d, o) => d1[o].columns = src
  BY <1>3 DEF Decks, Drawn
<1>7. WriteStyle(w, d, src)[1] = w1 /\ WriteStyle(w, d, src)[2] = d1
  BY <1>1
<1>8. Written(w, src) = w1
  BY DEF Written
<1> HIDE DEF w1, d1
<1>9. QED
  BY <1>4, <1>5, <1>6, <1>7, <1>8

(* Going back to the deck's own columns, whatever the deck has drawn since.         *)
LEMMA Restores ==
  ASSUME NEW w, NEW d, Sound(w, d)
  PROVE  /\ Sound(Restore(w, d)[1], Restore(w, d)[2]) /\ NothingShows(Restore(w, d)[2])
         /\ Restore(w, d)[1].wereOn = w.wereOn /\ Restore(w, d)[1].pc = w.pc
<1> DEFINE c == w.copy
<1>0. w \in Workers /\ d \in Decks /\ c \in Copies /\ w = [w EXCEPT !.copy = c]
  BY DEF Sound, Workers
<1>1. CASE ~c.modified
  <2>1. Restore(w, d) = <<w, d>>
    BY <1>1 DEF Restore
  <2>2. NothingShows(d)
    BY <1>1 DEF Sound, ShownIsWritten, NothingShows
  <2>3. Restore(w, d)[1] = w /\ Restore(w, d)[2] = d
    BY <2>1
  <2>4. QED
    BY <1>0, <1>1, <2>2, <2>3
<1>2. CASE c.modified
  <2> DEFINE lands == [s \in Stretches |-> IF c.wrote /\ c.written[s] = c.own[s] THEN d[c.obj].columns[s] ELSE c.own[s]]
             c1 == [c EXCEPT !.wrote = TRUE, !.written = c.own, !.modified = FALSE]
             w1 == [w EXCEPT !.copy = c1]
             d1 == [d EXCEPT ![c.obj].columns = lands]
  <2>1. c.obj \in WsObjects /\ c.wrote /\ w.have /\ w.pc = "tick" /\ ~Ours(c.own) /\ d[c.obj].columns \in Columns
    BY <1>0, <1>2 DEF Sound, WritesAfterAnalysis, OwnIsTheDecks, Copies, Objects, Decks
  <2>2. Restore(w, d) = <<w1, d1>>
    <3> DEFINE r == WriteStyle(w, d, c.own)
               w0 == [w EXCEPT !.copy.wrote = TRUE, !.copy.written = c.own]
    <3>1. r = <<w0, d1>>
      BY DEF WriteStyle
    <3>2. [w0 EXCEPT !.copy.modified = FALSE] = w1
      BY <1>0 DEF Workers, Copies
    <3>3. Restore(w, d) = <<[r[1] EXCEPT !.copy.modified = FALSE], r[2]>>
      BY <1>2 DEF Restore
    <3> HIDE DEF r, w0, w1, d1
    <3>4. QED
      BY <3>1, <3>2, <3>3
  <2>3. lands \in Columns
    BY <1>0, <2>1 DEF Columns, Copies
  <2>4. Drawn(d, c.obj) => ~Ours(lands)
    <3>1. CASE Ours(d[c.obj].columns) /\ Drawn(d, c.obj)
      <4>1. d[c.obj].columns = c.written
        BY <2>1, <3>1 DEF Sound, ShownIsWritten
      <4>2. QED
        BY <2>1, <4>1 DEF Ours, Columns
    <3>2. CASE ~Ours(d[c.obj].columns)
      BY <2>1, <3>2 DEF Ours, Columns
    <3>3. QED
      BY <3>1, <3>2
  <2>5. c1 \in Copies /\ c1.obj = c.obj /\ c1.own = c.own /\ c1.wrote /\ ~c1.modified
    BY <1>0 DEF Copies
  <2> HIDE DEF lands, c1, Columns
  <2>6. w1 \in Workers /\ w1.copy = c1 /\ w1.pc = w.pc /\ w1.have = w.have
    BY <1>0, <2>5 DEF Workers
  <2>7. d1 \in Decks
    BY <1>0, <2>3 DEF Decks
  <2>8. \A o \in WsObjects : Drawn(d1, o) => ~Ours(d1[o].columns)
    <3> SUFFICES ASSUME NEW o \in WsObjects, Drawn(d1, o) PROVE ~Ours(d1[o].columns)
      OBVIOUS
    <3>1. CASE o = c.obj
      BY <1>0, <2>4, <3>1 DEF Drawn, Decks
    <3>2. CASE o # c.obj
      <4>1. d1[o] = d[o] /\ Drawn(d, o)
        BY <1>0, <3>2 DEF Drawn, Decks
      <4>2. QED
        BY <3>2, <4>1 DEF Sound, ShownIsWritten
    <3>3. QED
      BY <3>1, <3>2
  <2>9. Restore(w, d)[1] = w1 /\ Restore(w, d)[2] = d1
    BY <2>2
  <2> HIDE DEF w1, d1
  <2>10. Sound(w1, d1)
    BY <2>1, <2>5, <2>6, <2>7, <2>8 DEF Sound, ShownIsWritten, OwnIsTheDecks, WritesAfterAnalysis
  <2>11. w1.wereOn = w.wereOn /\ w1.pc = w.pc
    BY <1>0 DEF w1, Workers
  <2>12. QED
    BY <2>5, <2>6, <2>8, <2>9, <2>10, <2>11 DEF NothingShows
<1>3. QED
  BY <1>1, <1>2

(* Only what is ours is put back; what the deck has drawn over it shows no fader.     *)
LEMMA RestoresIfOurs ==
  ASSUME NEW w, NEW d, Sound(w, d)
  PROVE  /\ Sound(RestoreIfOurs(w, d)[1], RestoreIfOurs(w, d)[2]) /\ NothingShows(RestoreIfOurs(w, d)[2])
         /\ RestoreIfOurs(w, d)[1].wereOn = w.wereOn /\ RestoreIfOurs(w, d)[1].pc = w.pc
<1> DEFINE ours == w.copy.modified /\ w.copy.wrote /\ w.copy.written # w.copy.own /\ Holds(d, w.copy.obj, w.copy.written)
<1>1. CASE ours
  BY <1>1, Restores DEF RestoreIfOurs
<1>2. CASE ~ours
  <2>1. RestoreIfOurs(w, d) = <<w, d>>
    BY <1>2 DEF RestoreIfOurs
  <2>2. NothingShows(d)
    <3> SUFFICES ASSUME NEW o \in WsObjects, Drawn(d, o), Ours(d[o].columns) PROVE FALSE
      BY DEF NothingShows
    <3>1. w.copy.obj = o /\ w.copy.modified /\ w.copy.wrote /\ d[o].columns = w.copy.written
      BY DEF Sound, ShownIsWritten
    <3>2. Holds(d, o, w.copy.written)
      BY <3>1 DEF Holds
    <3>3. w.copy.written = w.copy.own
      BY <1>2, <3>1, <3>2
    <3>4. w.copy.obj # NoObject
      BY <3>1 DEF Sound, WritesAfterAnalysis
    <3>5. ~Ours(w.copy.own)
      BY <3>4 DEF Sound, OwnIsTheDecks
    <3>6. QED
      BY <3>1, <3>3, <3>5
  <2>3. RestoreIfOurs(w, d)[1] = w /\ RestoreIfOurs(w, d)[2] = d
    BY <2>1
  <2>4. QED
    BY <2>2, <2>3
<1>3. QED
  BY <1>1, <1>2

(* A copy is let go with nothing of it on the array.                             *)
LEMMA Invalidates ==
  ASSUME NEW w, NEW d, Sound(w, d)
  PROVE  /\ Sound(Invalidate(w, d)[1], Invalidate(w, d)[2]) /\ NothingShows(Invalidate(w, d)[2])
         /\ Invalidate(w, d)[1].copy = NoCopy
         /\ Invalidate(w, d)[1].wereOn = w.wereOn /\ Invalidate(w, d)[1].pc = w.pc
<1> DEFINE r == RestoreIfOurs(w, d)
           c == r[1].copy
           left == IF c.wrote /\ c.written # c.own THEN [obj |-> c.obj, columns |-> c.written] ELSE NoLeft
           w1 == [r[1] EXCEPT !.left = left, !.copy = NoCopy, !.probe = NoProbe]
<1>1. Sound(r[1], r[2]) /\ NothingShows(r[2]) /\ r[1].wereOn = w.wereOn /\ r[1].pc = w.pc
  BY RestoresIfOurs
<1>2. Invalidate(w, d) = <<w1, r[2]>>
  BY DEF Invalidate
<1> HIDE DEF r
<1>3. r[1] \in Workers /\ r[2] \in Decks /\ c \in Copies /\ w \in Workers
  BY <1>1 DEF Sound, Workers
<1>4. left \in [obj : Objects, columns : Columns]
  BY <1>3, NothingIsSound DEF Copies
<1> HIDE DEF left, c
<1>5. w1 \in Workers /\ w1.copy = NoCopy /\ w1.pc = r[1].pc /\ w1.wereOn = r[1].wereOn
  BY <1>3, <1>4, NothingIsSound DEF Workers
<1>7. Invalidate(w, d)[1] = w1 /\ Invalidate(w, d)[2] = r[2]
  BY <1>2
<1> HIDE DEF w1
<1>8. Sound(w1, r[2])
  <2>1. WritesAfterAnalysis(w1)
    BY <1>1, <1>5, NothingIsSound DEF Sound, WritesAfterAnalysis
  <2>2. QED
    BY <1>1, <1>3, <1>5, <2>1, NothingIsSound DEF Sound, ShownIsWritten, OwnIsTheDecks, NothingShows
<1>9. QED
  BY <1>1, <1>5, <1>7, <1>8

(* What the worker finds of the latch and of the objects it remembers is an object.   *)
LEMMA BindsToAnObject == ASSUME WsTypes PROVE BindsTo \in Objects
<1>1. \A i \in DOMAIN wsBound : wsBound[i].obj \in Objects
  <2>0. wsBound \in Seq([tid : WsTracks \cup {NoTrack}, obj : Objects])
    BY DEF WsTypes
  <2>1. \A i \in DOMAIN wsBound : wsBound[i] \in [tid : WsTracks \cup {NoTrack}, obj : Objects]
    BY <2>0, EntryOf
  <2>2. QED
    BY <2>1
<1>2. \A t : ObjectOf(t) \in Objects
  BY <1>1 DEF ObjectOf, Objects
<1>3. QED
  BY <1>2 DEF BindsTo, WsTypes

(* A copy that is taken was seen twice alike, in an array that shows no fader.       *)
LEMMA CaptureIsTheDecks ==
  ASSUME WsTypes, NEW w, NEW d, Sound(w, d), w.copy.obj = NoObject
  PROVE  /\ Sound(CaptureStep(w, d), d) /\ ~CaptureStep(w, d).copy.wrote
         /\ CaptureStep(w, d).pc = w.pc /\ CaptureStep(w, d).wereOn = w.wereOn
         /\ CaptureStep(w, d).have = w.have
<1> DEFINE start == IF w.probe.obj # NoObject THEN w.probe ELSE [NoProbe EXCEPT !.obj = BindsTo]
           p == Polled(start, d, w.left)
           tid == IF Elsewhere THEN wsTrack.plays ELSE wsLatch.tid
           c == [NoCopy EXCEPT !.obj = p.obj, !.own = p.seen, !.tid = tid]
           left == IF d[p.obj].fill # "blank" THEN NoLeft ELSE w.left
           looks == [w EXCEPT !.probe = p]
           ends == [w EXCEPT !.probe = NoProbe, !.left = left]
           gives == [w EXCEPT !.probe = NoProbe]
           takes == [w EXCEPT !.probe = NoProbe, !.left = NoLeft, !.copy = c]
<1>0. w \in Workers /\ d \in Decks /\ ~w.copy.wrote /\ ~w.copy.modified
  BY DEF Sound, WritesAfterAnalysis
<1>1. CASE BindsTo = NoObject /\ (Elsewhere \/ w.probe.obj = NoObject)
  <2>1. CaptureStep(w, d) = w
    BY <1>1 DEF CaptureStep
  <2>2. QED
    BY <1>0, <2>1
<1>2. CASE ~(BindsTo = NoObject /\ (Elsewhere \/ w.probe.obj = NoObject))
  <2>1. start \in Probes /\ start.obj \in WsObjects
    <3>1. CASE w.probe.obj # NoObject
      BY <1>0, <3>1 DEF Workers, Probes, Objects
    <3>2. CASE w.probe.obj = NoObject
      <4>1. BindsTo \in WsObjects
        BY <1>2, <3>2, BindsToAnObject DEF Objects
      <4>2. [NoProbe EXCEPT !.obj = BindsTo] \in Probes /\ [NoProbe EXCEPT !.obj = BindsTo].obj = BindsTo
        BY <4>1, NothingIsSound DEF Probes, Objects
      <4>3. QED
        BY <3>2, <4>1, <4>2
    <3>3. QED
      BY <3>1, <3>2
  <2> HIDE DEF start
  <2>2. d[start.obj].columns \in Columns
    BY <1>0, <2>1 DEF Decks
  <2>3. p \in Probes /\ p.obj = start.obj
        /\ (p.blank = 0 /\ p.stable # 0 => Drawn(d, p.obj) /\ p.seen = d[p.obj].columns)
    <3> DEFINE still == Drawn(d, start.obj) /\ d[start.obj].columns = start.seen
               ours == w.left.obj = start.obj /\ Holds(d, start.obj, w.left.columns)
    <3>1. CASE ours \/ d[start.obj].fill = "blank"
      <4>1. p = [start EXCEPT !.stable = 0, !.polls = 0, !.blank = @ + 1]
        BY <3>1 DEF Polled
      <4> HIDE DEF p, Columns
      <4>2. start.blank \in Nat /\ start.blank + 1 \in Nat /\ start.blank + 1 # 0
        BY <2>1 DEF Probes
      <4>3. p \in Probes /\ p.obj = start.obj /\ p.blank = start.blank + 1
        BY <2>1, <4>1, <4>2 DEF Probes
      <4>4. QED
        BY <4>2, <4>3
    <3>2. CASE ~(ours \/ d[start.obj].fill = "blank")
      <4>1. p = [start EXCEPT !.blank = 0, !.polls = @ + 1, !.seen = d[start.obj].columns,
                              !.stable = IF start.polls > 0 /\ still THEN @ + 1 ELSE 0]
        BY <3>2 DEF Polled
      <4> HIDE DEF p, Columns
      <4>2. start.polls \in Nat /\ start.polls + 1 \in Nat /\ start.stable \in Nat /\ start.stable + 1 \in Nat
        BY <2>1 DEF Probes
      <4> HIDE DEF still
      <4>3. p \in Probes /\ p.obj = start.obj /\ p.seen = d[start.obj].columns /\ (p.stable # 0 => still)
        BY <2>1, <2>2, <4>1, <4>2 DEF Probes
      <4>4. QED
        BY <2>1, <4>3 DEF still
    <3>3. QED
      BY <3>1, <3>2
  <2>4. CaptureStep(w, d) =
          IF p.blank > 0
          THEN IF p.blank < WsGiveUp THEN looks ELSE ends
          ELSE IF p.stable < WsStable
          THEN (IF p.polls >= WsGiveUp THEN gives ELSE looks)
          ELSE takes
    BY <1>2 DEF CaptureStep, start
  <2>5. left \in [obj : Objects, columns : Columns]
    BY <1>0, NothingIsSound DEF Workers
  <2> HIDE DEF p, left, Columns
  <2>6. \A x \in {looks, ends, gives} : x \in Workers /\ x.copy = w.copy /\ x.pc = w.pc /\ x.wereOn = w.wereOn /\ x.have = w.have
    <3> DEFINE Kept(x) == x \in Workers /\ x.copy = w.copy /\ x.pc = w.pc /\ x.wereOn = w.wereOn /\ x.have = w.have
    <3>1. Kept(looks)
      BY <1>0, <2>3 DEF Workers
    <3>2. Kept(ends)
      BY <1>0, <2>5, NothingIsSound DEF Workers
    <3>3. Kept(gives)
      BY <1>0, NothingIsSound DEF Workers
    <3>4. QED
      BY <3>1, <3>2, <3>3
  <2>7. ASSUME NEW x \in {looks, ends, gives} PROVE Sound(x, d)
    BY <1>0, <2>6 DEF Sound, ShownIsWritten, OwnIsTheDecks, WritesAfterAnalysis
  <2>8. CASE CaptureStep(w, d) \in {looks, ends, gives}
    <3> DEFINE x == CaptureStep(w, d)
    <3> HIDE DEF x
    <3>1. x \in {looks, ends, gives}
      BY <2>8 DEF x
    <3> HIDE DEF looks, ends, gives
    <3>2. Sound(x, d) /\ x.copy = w.copy /\ x.pc = w.pc /\ x.wereOn = w.wereOn /\ x.have = w.have
      BY <2>6, <2>7, <3>1
    <3>3. QED
      BY <1>0, <3>2 DEF x
  <2>9. CASE CaptureStep(w, d) = takes /\ ~(p.blank > 0) /\ ~(p.stable < WsStable)
    <3>1. p.blank = 0 /\ p.stable # 0
      BY <2>3, <2>9, WsAssumption DEF Probes
    <3>2. Drawn(d, p.obj) /\ p.seen = d[p.obj].columns /\ p.obj \in WsObjects /\ p.seen \in Columns
      BY <2>1, <2>3, <3>1 DEF Probes
    <3>3. ~Ours(p.seen)
      BY <1>0, <3>2 DEF Sound, ShownIsWritten
    <3>4. tid \in WsTracks \cup {NoTrack}
      BY DEF WsTypes
    <3>5. c \in Copies /\ c.own = p.seen /\ ~c.wrote /\ ~c.modified
      BY <3>2, <3>4, NothingIsSound DEF Copies, Objects
    <3> HIDE DEF c
    <3>6. takes \in Workers /\ takes.copy = c /\ takes.pc = w.pc /\ takes.wereOn = w.wereOn /\ takes.have = w.have
      BY <1>0, <3>5, NothingIsSound DEF Workers
    <3> HIDE DEF takes
    <3>7. Sound(takes, d)
      BY <1>0, <3>3, <3>5, <3>6, NothingIsSound DEF Sound, ShownIsWritten, OwnIsTheDecks, WritesAfterAnalysis
    <3>8. QED
      BY <2>9, <3>5, <3>6, <3>7
  <2>10. QED
    <3> HIDE DEF looks, ends, gives, takes
    <3>1. CaptureStep(w, d) \in {looks, ends, gives} \/ (CaptureStep(w, d) = takes /\ ~(p.blank > 0) /\ ~(p.stable < WsStable))
      BY <2>4
    <3>2. QED
      BY <2>8, <2>9, <3>1
<1>3. QED
  BY <1>1, <1>2

-----------------------------------------------------------------------------
(* Painting, over an array that is not written yet or shows what was written last.    *)
Held(w, d) == w.copy.wrote /\ Drawn(d, w.copy.obj) => d[w.copy.obj].columns = w.copy.written

(* A painted array shows what the copy says was written.                          *)
LEMMA Paints ==
  ASSUME NEW w, NEW d, NEW g \in Nat, NEW where, Sound(w, d), Held(w, d), w.have, w.pc = "tick"
  PROVE  /\ Sound(Paint(w, d, g, where)[1], Paint(w, d, g, where)[2])
         /\ Paint(w, d, g, where)[1].wereOn = w.wereOn
<1> DEFINE c == w.copy
           base == IF c.wrote THEN c.written ELSE c.own
           src == [s \in Stretches |-> IF s \in where THEN Scaled(c.own[s], g) ELSE base[s]]
           r == WriteStyle(w, d, src)
           c1 == [c EXCEPT !.wrote = TRUE, !.written = src, !.modified = TRUE]
           w1 == [w EXCEPT !.copy = c1]
<1>0. w \in Workers /\ d \in Decks /\ c \in Copies /\ w = [w EXCEPT !.copy = c]
  BY DEF Sound, Workers
<1>1. CASE c.obj = NoObject
  <2>1. Paint(w, d, g, where) = <<w, d>>
    BY <1>1 DEF Paint
  <2>2. Paint(w, d, g, where)[1] = w /\ Paint(w, d, g, where)[2] = d
    BY <2>1
  <2>3. QED
    BY <1>0, <2>2
<1>2. CASE c.obj # NoObject
  <2>1. c.obj \in WsObjects /\ c.own \in Columns /\ base \in Columns
    BY <1>0, <1>2 DEF Copies, Objects
  <2>2. src \in Columns
    <3>1. \A s \in Stretches : Scaled(c.own[s], g) \in [of : WsTracks \cup {NoTrack}, gain : Nat]
      BY <2>1 DEF Scaled, Columns
    <3>2. QED
      BY <2>1, <3>1 DEF Columns
  <2>3. Paint(w, d, g, where) = <<[r[1] EXCEPT !.copy.modified = TRUE], r[2]>>
    BY <1>2 DEF Paint
  <2> HIDE DEF src
  <2>4. /\ r[1] = [w EXCEPT !.copy = [c EXCEPT !.wrote = TRUE, !.written = src]] /\ r[2] \in Decks
        /\ \A o \in WsObjects : /\ Drawn(r[2], o) <=> Drawn(d, o)
                                /\ o # c.obj => r[2][o] = d[o]
                                /\ o = c.obj /\ Drawn(d, o) => r[2][o].columns = src
    <3>1. c.wrote /\ Drawn(d, c.obj) => d[c.obj].columns = c.written
      BY DEF Held
    <3>2. w \in Workers /\ d \in Decks /\ src \in Columns /\ w.copy.obj \in WsObjects
      BY <1>0, <2>1, <2>2
    <3> HIDE DEF Columns, base, c1, w1
    <3>3. /\ r[1] = Written(w, src)
          /\ r[1] \in Workers /\ r[2] \in Decks
          /\ \A o \in WsObjects :
              /\ Drawn(r[2], o) <=> Drawn(d, o)
              /\ o # w.copy.obj => r[2][o] = d[o]
              /\ o = w.copy.obj /\ Drawn(d, o) => r[2][o].columns = src
      BY <3>1, <3>2, Writes
    <3> HIDE DEF r
    <3>4. QED
      BY <3>3 DEF Written
  <2> HIDE DEF r
  <2>5. [r[1] EXCEPT !.copy.modified = TRUE] = w1
    BY <1>0, <2>4 DEF Workers, Copies
  <2>6. c1 \in Copies /\ c1.obj = c.obj /\ c1.own = c.own /\ c1.wrote /\ c1.modified /\ c1.written = src
    BY <1>0, <2>2 DEF Copies
  <2> HIDE DEF c1
  <2>7. w1 \in Workers /\ w1.copy = c1 /\ w1.have /\ w1.pc = "tick"
    BY <1>0, <2>6 DEF Workers
  <2>8. w1.wereOn = w.wereOn
    BY <1>0 DEF Workers
  <2> HIDE DEF w1
  <2>9. ShownIsWritten(w1, r[2])
    <3> SUFFICES ASSUME NEW o \in WsObjects, Drawn(r[2], o), Ours(r[2][o].columns)
                 PROVE  c.obj = o /\ r[2][o].columns = src
      BY <2>6, <2>7 DEF ShownIsWritten
    <3>1. c.obj = o
      <4> SUFFICES ASSUME c.obj # o PROVE FALSE
        OBVIOUS
      <4>1. Drawn(d, o) /\ Ours(d[o].columns)
        BY <2>4
      <4>2. QED
        BY <4>1 DEF Sound, ShownIsWritten
    <3>2. QED
      BY <2>4, <3>1
  <2>10. Sound(w1, r[2])
    BY <1>2, <2>4, <2>6, <2>7, <2>9 DEF Sound, OwnIsTheDecks, WritesAfterAnalysis
  <2>11. Paint(w, d, g, where)[1] = w1 /\ Paint(w, d, g, where)[2] = r[2]
    BY <2>3, <2>5
  <2>12. QED
    BY <2>8, <2>10, <2>11
<1>3. QED
  BY <1>1, <1>2

(* The fields no property looks at may change.                                   *)
Alike(w, x) == x.copy = w.copy /\ x.have = w.have /\ x.pc = w.pc /\ x.wereOn = w.wereOn
\* What the rest of the worker is does not matter to its copy.
LEMMA OtherFields ==
  ASSUME NEW w, NEW d, NEW x \in Workers, Sound(w, d), Alike(w, x) PROVE Sound(x, d)
<1>1. x \in Workers /\ x.copy = w.copy /\ x.have = w.have /\ x.pc = w.pc /\ x.wereOn = w.wereOn
  BY DEF Alike
<1>2. Sound(x, d)
  BY <1>1 DEF Sound, ShownIsWritten, OwnIsTheDecks, WritesAfterAnalysis
<1>3. QED
  BY <1>1, <1>2

(* The end of a tick.                                                        *)
LEMMA FollowsSoundly ==
  ASSUME WsTypes, NEW w, NEW d, NEW near \in SUBSET Stretches, Sound(w, d), Held(w, d), w.pc = "tick"
  PROVE  /\ Sound(Follows(w, d, near)[1], Follows(w, d, near)[2])
         /\ Follows(w, d, near)[1].wereOn = w.wereOn
<1> DEFINE f == Follows(w, d, near)
<1>0. w \in Workers /\ wsHand.gain \in Nat /\ ForgottenNow \in Nat /\ w.applied \in Nat /\ w.settle \in Nat
  BY DEF Sound, Workers, WsTypes, Low, Unity, ForgottenNow
<1>1. CASE ~w.have \/ (~wsHand.bypass /\ w.applied = wsHand.gain /\ w.tail = {})
  <2>1. f = <<w, d>>
    BY <1>1 DEF Follows
  <2>2. f[1] = w /\ f[2] = d
    BY <2>1
  <2>3. QED
    BY <2>2
<1>2. CASE w.have /\ wsHand.bypass
  <2> DEFINE r == Restore(w, d)
             x == [r[1] EXCEPT !.applied = ForgottenNow]
  <2>1. f = <<x, r[2]>>
    BY <1>2 DEF Follows
  <2>2. Sound(r[1], r[2]) /\ r[1].wereOn = w.wereOn
    BY Restores
  <2> HIDE DEF r
  <2>3. x \in Workers /\ Alike(r[1], x)
    BY <1>0, <2>2 DEF Sound, Workers, Alike
  <2> HIDE DEF x
  <2>4. Sound(x, r[2]) /\ x.wereOn = w.wereOn
    BY <2>2, <2>3, OtherFields DEF Alike
  <2>5. f[1] = x /\ f[2] = r[2]
    BY <2>1
  <2>6. QED
    BY <2>4, <2>5
<1>3. CASE w.have /\ ~wsHand.bypass /\ w.applied # wsHand.gain
  <2> DEFINE w0 == [w EXCEPT !.applied = wsHand.gain, !.settle = 0]
             r == Paint(w0, d, wsHand.gain, near)
             x == [r[1] EXCEPT !.tail = Stretches \ near]
  <2>1. f = <<x, r[2]>>
    BY <1>3 DEF Follows, Apply
  <2>2. w0 \in Workers /\ Alike(w, w0)
    BY <1>0 DEF Workers, Alike
  <2> HIDE DEF w0
  <2>3. Sound(w0, d) /\ Held(w0, d) /\ w0.have /\ w0.pc = "tick" /\ w0.wereOn = w.wereOn
    BY <1>3, <2>2, OtherFields DEF Alike, Held
  <2>4. Sound(r[1], r[2]) /\ r[1].wereOn = w.wereOn
    BY <1>0, <2>3, Paints
  <2> HIDE DEF r
  <2>5. x \in Workers /\ Alike(r[1], x)
    BY <2>4 DEF Sound, Workers, Alike
  <2> HIDE DEF x
  <2>6. Sound(x, r[2]) /\ x.wereOn = w.wereOn
    BY <2>4, <2>5, OtherFields DEF Alike
  <2>7. f[1] = x /\ f[2] = r[2]
    BY <2>1
  <2>8. QED
    BY <2>6, <2>7
<1>4. CASE w.have /\ ~wsHand.bypass /\ w.applied = wsHand.gain /\ w.tail # {} /\ w.settle + 1 < WsSettle
  <2> DEFINE x == [w EXCEPT !.settle = @ + 1]
  <2>1. f = <<x, d>>
    BY <1>4 DEF Follows, Settles
  <2>2. x \in Workers /\ Alike(w, x)
    BY <1>0 DEF Workers, Alike
  <2> HIDE DEF x
  <2>3. Sound(x, d) /\ x.wereOn = w.wereOn
    BY <2>2, OtherFields DEF Alike
  <2>4. f[1] = x /\ f[2] = d
    BY <2>1
  <2>5. QED
    BY <2>3, <2>4
<1>5. CASE w.have /\ ~wsHand.bypass /\ w.applied = wsHand.gain /\ w.tail # {} /\ ~(w.settle + 1 < WsSettle)
  <2> DEFINE w0 == [w EXCEPT !.settle = 0]
             r == Paint(w0, d, w.applied, w.tail)
             x == [r[1] EXCEPT !.tail = {}]
  <2>1. f = <<x, r[2]>>
    BY <1>5 DEF Follows, Settles
  <2>2. w0 \in Workers /\ Alike(w, w0)
    BY <1>0 DEF Workers, Alike
  <2> HIDE DEF w0
  <2>3. Sound(w0, d) /\ Held(w0, d) /\ w0.have /\ w0.pc = "tick" /\ w0.wereOn = w.wereOn
    BY <1>5, <2>2, OtherFields DEF Alike, Held
  <2>4. Sound(r[1], r[2]) /\ r[1].wereOn = w.wereOn
    BY <1>0, <2>3, Paints
  <2> HIDE DEF r
  <2>5. x \in Workers /\ Alike(r[1], x)
    BY <2>4 DEF Sound, Workers, Alike
  <2> HIDE DEF x
  <2>6. Sound(x, r[2]) /\ x.wereOn = w.wereOn
    BY <2>4, <2>5, OtherFields DEF Alike
  <2>7. f[1] = x /\ f[2] = r[2]
    BY <2>1
  <2>8. QED
    BY <2>6, <2>7
<1>6. QED
  BY <1>1, <1>2, <1>3, <1>4, <1>5

(* The first half of a tick: what is stale is gone, what is held is as it was left.  *)
LEMMA LooksSoundly ==
  ASSUME WsIInv
  PROVE  /\ Sound(Looked[1], Looked[2]) /\ Held(Looked[1], Looked[2])
         /\ Looked[1].wereOn /\ Looked[1].pc = wsWorker.pc
<1> USE DEF WsIInv
<1> DEFINE w == IF wsWorker.wereOn THEN wsWorker ELSE [wsWorker EXCEPT !.wereOn = TRUE, !.applied = ForgottenNow]
           i == Invalidate(w, wsDeck)
           w1 == [i[1] EXCEPT !.have = FALSE]
           r == IF Stale(w.copy, wsDeck) THEN <<w1, i[2]>> ELSE <<w, wsDeck>>
           x == IF r[1].copy.obj = NoObject THEN CaptureStep(r[1], r[2]) ELSE r[1]
<1>0. Looked = <<x, r[2]>> /\ wsWorker \in Workers
  BY DEF Looked, Sound
<1>1. Sound(w, wsDeck) /\ w.copy = wsWorker.copy /\ w.wereOn /\ w.pc = wsWorker.pc
  <2>1. ForgottenNow \in Nat
    BY DEF ForgottenNow
  <2>2. w \in Workers /\ w.copy = wsWorker.copy /\ w.wereOn /\ w.pc = wsWorker.pc /\ w.have = wsWorker.have
    BY <1>0, <2>1 DEF Workers
  <2> HIDE DEF w
  <2>3. QED
    BY <2>2 DEF Sound, ShownIsWritten, OwnIsTheDecks, WritesAfterAnalysis
<1> HIDE DEF w
<1>2. Sound(i[1], i[2]) /\ i[1].copy = NoCopy /\ i[1].wereOn /\ i[1].pc = wsWorker.pc
  BY <1>1, Invalidates
<1> HIDE DEF i
<1>3. Sound(w1, i[2]) /\ w1.copy = NoCopy /\ w1.wereOn /\ w1.pc = wsWorker.pc
  <2>1. w1 \in Workers /\ w1.copy = NoCopy /\ w1.wereOn /\ w1.pc = wsWorker.pc
    BY <1>2 DEF Sound, Workers
  <2> HIDE DEF w1
  <2>2. QED
    BY <1>2, <2>1, NothingIsSound DEF Sound, ShownIsWritten, OwnIsTheDecks, WritesAfterAnalysis
<1> HIDE DEF w1
<1>4. Sound(r[1], r[2]) /\ r[1].wereOn /\ r[1].pc = wsWorker.pc
      /\ (r[1].copy.obj # NoObject => Held(r[1], r[2]))
  <2>1. CASE Stale(w.copy, wsDeck)
    <3>1. r[1] = w1 /\ r[2] = i[2]
      BY <2>1
    <3>2. QED
      BY <1>3, <3>1, NothingIsSound
  <2>2. CASE ~Stale(w.copy, wsDeck)
    <3>1. r[1] = w /\ r[2] = wsDeck
      BY <2>2
    <3>2. w.copy.obj # NoObject /\ w.copy.wrote => wsDeck[w.copy.obj].columns = w.copy.written
      BY <2>2 DEF Stale, Diverged, Holds
    <3>3. w.copy.obj # NoObject => Held(w, wsDeck)
      BY <3>2 DEF Held
    <3>4. QED
      BY <1>1, <3>1, <3>3
  <2>3. QED
    BY <2>1, <2>2
<1> HIDE DEF r
<1>5. Sound(x, r[2]) /\ Held(x, r[2]) /\ x.wereOn /\ x.pc = wsWorker.pc
  <2>1. CASE r[1].copy.obj = NoObject
    <3>1. Sound(x, r[2]) /\ ~x.copy.wrote /\ x.pc = r[1].pc /\ x.wereOn = r[1].wereOn
      BY <1>4, <2>1, CaptureIsTheDecks
    <3>2. QED
      BY <1>4, <3>1 DEF Held
  <2>2. CASE r[1].copy.obj # NoObject
    BY <1>4, <2>2
  <2>3. QED
    BY <2>1, <2>2
<1> HIDE DEF x
<1>6. Looked[1] = x /\ Looked[2] = r[2]
  BY <1>0
<1>7. QED
  BY <1>5, <1>6

-----------------------------------------------------------------------------
(* A track that is gone, and the switch: nothing of ours is on any array after it.    *)
LEMMA LettingGoKeepsIInv ==
  ASSUME WsIInv, WsDrops \/ WsOff PROVE WsIInv'
<1> USE DEF WsIInv
<1>1. CASE WsDrops
  <2> DEFINE r == Invalidate(wsWorker, wsDeck)
             w1 == [r[1] EXCEPT !.have = FALSE, !.tail = {}, !.applied = ForgottenNow]
  <2>1. wsWorker' = w1 /\ wsDeck' = r[2]
    BY <1>1 DEF WsDrops, Becomes
  <2>2. Sound(r[1], r[2]) /\ NothingShows(r[2]) /\ r[1].copy = NoCopy /\ r[1].pc = "tick"
    BY <1>1, Invalidates DEF WsDrops
  <2> HIDE DEF r
  <2>3. w1 \in Workers /\ w1.copy = NoCopy /\ w1.pc = "tick"
    BY <2>2 DEF Sound, Workers, ForgottenNow
  <2> HIDE DEF w1
  <2>4. Sound(w1, r[2])
    BY <2>2, <2>3, NothingIsSound DEF Sound, ShownIsWritten, OwnIsTheDecks, WritesAfterAnalysis, NothingShows
  <2>5. WsTypes'
    BY <1>1 DEF WsDrops, wsNotWorker, WsTypes
  <2>6. QED
    BY <2>1, <2>2, <2>4, <2>5
<1>2. CASE WsOff
  <2> DEFINE r == Restore(wsWorker, wsDeck)
             w1 == [r[1] EXCEPT !.wereOn = FALSE, !.applied = ForgottenNow]
  <2>1. wsWorker' = w1 /\ wsDeck' = r[2]
    BY <1>2 DEF WsOff, Becomes
  <2>2. Sound(r[1], r[2]) /\ NothingShows(r[2]) /\ r[1].pc = "tick"
    BY <1>2, Restores DEF WsOff
  <2> HIDE DEF r
  <2>3. w1 \in Workers /\ w1.copy = r[1].copy /\ w1.pc = "tick" /\ w1.have = r[1].have
    BY <2>2 DEF Sound, Workers, ForgottenNow
  <2> HIDE DEF w1
  <2>4. Sound(w1, r[2])
    BY <2>2, <2>3 DEF Sound, ShownIsWritten, OwnIsTheDecks, WritesAfterAnalysis
  <2>5. WsTypes'
    BY <1>2 DEF WsOff, wsNotWorker, WsTypes
  <2>6. QED
    BY <2>1, <2>2, <2>4, <2>5
<1>3. QED
  BY <1>1, <1>2

(* A tick that looks, follows the faders, or goes into the analysis.                *)
LEMMA TickKeepsIInv ==
  ASSUME WsIInv, WsTick PROVE WsIInv'
<1> USE DEF WsIInv
<1>0. /\ Sound(Looked[1], Looked[2]) /\ Held(Looked[1], Looked[2])
      /\ Looked[1].wereOn /\ Looked[1].pc = "tick" /\ Looked[1] \in Workers
  BY LooksSoundly DEF WsTick, Sound
<1>1. ASSUME NEW near \in Near, Becomes(Follows(Looked[1], Looked[2], near))
      PROVE  Sound(wsWorker', wsDeck') /\ wsWorker'.wereOn
  BY <1>0, <1>1, FollowsSoundly DEF Becomes, Near, Stretches
<1>2. ASSUME Wanted(Looked[1]), NEW near \in Near, NEW hit,
             Becomes(Follows(IF hit THEN [Looked[1] EXCEPT !.have = TRUE, !.applied = ForgottenNow] ELSE Looked[1],
                             Looked[2], near))
      PROVE  Sound(wsWorker', wsDeck') /\ wsWorker'.wereOn
  <2> DEFINE w1 == [Looked[1] EXCEPT !.have = TRUE, !.applied = ForgottenNow]
  <2>1. CASE hit
    <3>1. w1 \in Workers /\ w1.copy = Looked[1].copy /\ w1.pc = "tick" /\ w1.wereOn /\ w1.have
      BY <1>0 DEF Workers, ForgottenNow
    <3>2. Becomes(Follows(w1, Looked[2], near))
      BY <1>2, <2>1
    <3> HIDE DEF w1
    <3>3. Sound(w1, Looked[2]) /\ Held(w1, Looked[2])
      BY <1>0, <3>1 DEF Sound, Held, ShownIsWritten, OwnIsTheDecks, WritesAfterAnalysis
    <3>4. QED
      BY <3>1, <3>2, <3>3, FollowsSoundly DEF Becomes, Near, Stretches
  <2>2. CASE ~hit
    BY <1>1, <1>2, <2>2
  <2>3. QED
    BY <2>1, <2>2
<1>3. ASSUME Wanted(Looked[1]), Becomes(<<[Looked[1] EXCEPT !.pc = "pull", !.pulls = wsAsked.path], Looked[2]>>)
      PROVE  Sound(wsWorker', wsDeck') /\ wsWorker'.wereOn
  <2> DEFINE w1 == [Looked[1] EXCEPT !.pc = "pull", !.pulls = wsAsked.path]
  <2>1. wsAsked.path \in WsTracks \cup {NoTrack}
    BY DEF WsTypes
  <2>2. w1 \in Workers /\ w1.copy = Looked[1].copy /\ w1.wereOn /\ w1.have = Looked[1].have
    BY <1>0, <2>1 DEF Workers
  <2>3. wsWorker' = w1 /\ wsDeck' = Looked[2]
    BY <1>3 DEF Becomes
  <2> HIDE DEF w1
  <2>4. Sound(w1, Looked[2])
    BY <1>0, <1>3, <2>2 DEF Sound, ShownIsWritten, OwnIsTheDecks, WritesAfterAnalysis, Wanted
  <2>5. QED
    BY <2>2, <2>3, <2>4
<1>4. Sound(wsWorker', wsDeck') /\ wsWorker'.wereOn
  BY <1>1, <1>2, <1>3 DEF WsTick
<1>5. WsTypes'
  BY DEF WsTick, wsNotWorker, WsTypes
<1>6. QED
  BY <1>4, <1>5

(* The analysis: nothing is written while it is made, and what it ends with is painted  *)
(* over the whole array.                                                      *)
LEMMA AnalysisKeepsIInv ==
  ASSUME WsIInv, WsAborts \/ WsPulled \/ WsStores PROVE WsIInv'
<1> USE DEF WsIInv
<1>0. wsWorker \in Workers /\ Sound(wsWorker, wsDeck)
  BY DEF Sound
<1>1. CASE WsAborts
  <2> DEFINE w1 == [wsWorker EXCEPT !.pc = "tick", !.pulls = NoTrack]
  <2>0. ~wsWorker.copy.wrote /\ wsWorker.wereOn
    BY <1>0, <1>1 DEF WsAborts, Sound, WritesAfterAnalysis
  <2>1. w1 \in Workers /\ w1.copy = wsWorker.copy /\ w1.pc = "tick" /\ w1.wereOn /\ w1.have = wsWorker.have
    BY <1>0, <2>0 DEF Workers
  <2>2. PICK near \in Near : Becomes(Follows(w1, wsDeck, near))
    BY <1>1 DEF WsAborts
  <2> HIDE DEF w1
  <2>3. Sound(w1, wsDeck) /\ Held(w1, wsDeck)
    BY <1>0, <2>0, <2>1 DEF Sound, Held, ShownIsWritten, OwnIsTheDecks, WritesAfterAnalysis
  <2>4. Sound(wsWorker', wsDeck') /\ wsWorker'.wereOn
    BY <2>1, <2>2, <2>3, FollowsSoundly DEF Becomes, Near, Stretches
  <2>5. WsTypes'
    BY <1>1 DEF WsAborts, wsNotWorker, WsTypes
  <2>6. QED
    BY <2>4, <2>5
<1>2. CASE WsPulled
  <2>0. ~wsWorker.copy.wrote /\ wsWorker.wereOn
    BY <1>0, <1>2 DEF WsPulled, Sound, WritesAfterAnalysis
  <2>1. wsWorker' \in Workers /\ wsWorker'.copy = wsWorker.copy /\ wsWorker'.wereOn
    BY <1>0, <1>2, <2>0 DEF WsPulled, Workers
  <2>2. Sound(wsWorker', wsDeck')
    BY <1>0, <1>2, <2>0, <2>1 DEF WsPulled, Sound, ShownIsWritten, OwnIsTheDecks, WritesAfterAnalysis
  <2>3. WsTypes'
    BY <1>2 DEF WsPulled, wsNotWorker, WsTypes
  <2>4. QED
    BY <2>1, <2>2, <2>3
<1>3. CASE WsStores
  <2> DEFINE w1 == [wsWorker EXCEPT !.pc = "tick", !.pulls = NoTrack, !.applied = ForgottenNow]
  <2>0. ~wsWorker.copy.wrote /\ wsWorker.wereOn
    BY <1>0, <1>3 DEF WsStores, Sound, WritesAfterAnalysis
  <2>1. w1 \in Workers /\ w1.copy = wsWorker.copy /\ w1.pc = "tick" /\ w1.wereOn /\ w1.have = wsWorker.have
    BY <1>0, <2>0 DEF Workers, ForgottenNow
  <2>2. PICK near \in Near : Becomes(Follows(w1, wsDeck, near))
    BY <1>3 DEF WsStores
  <2> HIDE DEF w1
  <2>3. Sound(w1, wsDeck) /\ Held(w1, wsDeck)
    BY <1>0, <2>0, <2>1 DEF Sound, Held, ShownIsWritten, OwnIsTheDecks, WritesAfterAnalysis
  <2>4. Sound(wsWorker', wsDeck') /\ wsWorker'.wereOn
    BY <2>1, <2>2, <2>3, FollowsSoundly DEF Becomes, Near, Stretches
  <2>5. WsTypes'
    BY <1>3 DEF WsStores, wsNotWorker, WsTypes
  <2>6. QED
    BY <2>4, <2>5
<1>4. QED
  BY <1>1, <1>2, <1>3

(* What the deck draws shows no fader, and what it takes over it leaves as it is.     *)
LEMMA DeckKeepsSound ==
  ASSUME WsIInv, wsDeck' \in Decks, UNCHANGED wsWorker,
         \A o \in WsObjects : Drawn(wsDeck', o) =>
           \/ Drawn(wsDeck, o) /\ wsDeck'[o].columns = wsDeck[o].columns
           \/ ~Ours(wsDeck'[o].columns)
  PROVE  Sound(wsWorker', wsDeck') /\ (~wsWorker'.wereOn => NothingShows(wsDeck'))
BY DEF WsIInv, Sound, ShownIsWritten, NothingShows

(* The deck, the reply thread and the DJ.                                       *)
LEMMA DeckKeepsIInv ==
  ASSUME WsIInv,
         \/ \E t \in WsTracks, o \in WsObjects : WsReplies(t, o)
         \/ WsLatches \/ (\E o \in WsObjects : WsDraws(o)) \/ (\E t \in WsTracks : WsSourceMoves(t))
         \/ WsTrackActs \/ WsServed \/ WsHandMoves
  PROVE  WsIInv'
<1> USE DEF WsIInv
<1>0. wsDeck \in Decks
  BY DEF Sound
<1>1. ASSUME NEW t \in WsTracks, NEW o \in WsObjects, WsReplies(t, o) PROVE WsIInv'
  <2>1. WsTypes'
    BY <1>1 DEF WsReplies, WsTypes, Objects
  <2>2. wsDeck' \in Decks
    <3>1. CASE UNCHANGED wsDeck
      BY <1>0, <3>1
    <3>2. CASE ~UNCHANGED wsDeck
      <4>1. wsDeck' = [wsDeck EXCEPT ![o].for = t, ![o].fill = IF @ = "drawn" THEN "old" ELSE @]
        BY <1>1, <3>2 DEF WsReplies
      <4> HIDE DEF Columns
      <4>2. QED
        BY <1>0, <4>1 DEF Decks
    <3>3. QED
      BY <3>1, <3>2
  <2>3. \A x \in WsObjects : Drawn(wsDeck', x) => Drawn(wsDeck, x) /\ wsDeck'[x].columns = wsDeck[x].columns
    BY <1>0, <1>1 DEF WsReplies, Drawn, Decks
  <2>4. QED
    BY <1>1, <2>1, <2>2, <2>3, DeckKeepsSound DEF WsReplies
<1>2. CASE WsLatches
  <2>1. wsBound' \in Seq([tid : WsTracks \cup {NoTrack}, obj : Objects])
    <3> DEFINE Binds == [tid : WsTracks \cup {NoTrack}, obj : Objects]
               new == [tid |-> wsReply.tid, obj |-> wsReply.obj]
    <3>1. new \in Binds /\ wsBound \in Seq(Binds)
      BY DEF WsTypes
    <3>2. wsBound' = Remembered(wsBound, wsReply.tid, wsReply.obj)
      BY <1>2 DEF WsLatches
    <3> HIDE DEF Binds
    <3>3. [i \in DOMAIN wsBound |-> IF wsBound[i].tid = wsReply.tid THEN new ELSE wsBound[i]] \in Seq(Binds)
      BY <3>1
    <3>4. Append(wsBound, new) \in Seq(Binds) /\ Tail(Append(wsBound, new)) \in Seq(Binds)
      BY <3>1
    <3> HIDE DEF new
    <3>5. Remembered(wsBound, wsReply.tid, wsReply.obj) \in Seq(Binds)
      BY <3>3, <3>4 DEF Remembered, new
    <3>6. QED
      BY <3>2, <3>5 DEF Binds
  <2>2. WsTypes'
    BY <1>2, <2>1 DEF WsLatches, WsTypes, Objects
  <2>3. QED
    BY <1>2, <2>2 DEF WsLatches
<1>3. ASSUME NEW o \in WsObjects, WsDraws(o) PROVE WsIInv'
  <2>1. WsTypes'
    BY <1>3 DEF WsDraws, wsNotDeck, WsTypes
  <2>2. UNCHANGED wsWorker
    BY <1>3 DEF WsDraws, wsNotDeck
  <2>3. CASE wsDeck' = [wsDeck EXCEPT ![o].fill = "coming"]
    <3>1. wsDeck' \in Decks
      BY <1>0, <2>3 DEF Decks
    <3>2. \A x \in WsObjects : Drawn(wsDeck', x) => Drawn(wsDeck, x) /\ wsDeck'[x].columns = wsDeck[x].columns
      BY <1>0, <2>3 DEF Drawn, Decks
    <3>3. QED
      BY <2>1, <2>2, <3>1, <3>2, DeckKeepsSound
  <2>4. CASE wsDeck' = [wsDeck EXCEPT ![o].fill = "drawn", ![o].columns = OwnColumns(wsDeck[o].for)]
    <3>1. OwnColumns(wsDeck[o].for) \in Columns /\ ~Ours(OwnColumns(wsDeck[o].for))
      BY <1>0, OwnColumnsAreColumns DEF Decks
    <3> HIDE DEF Columns
    <3>2. wsDeck' \in Decks
      BY <1>0, <2>4, <3>1 DEF Decks
    <3>3. wsDeck'[o].columns = OwnColumns(wsDeck[o].for)
      BY <1>0, <2>4 DEF Decks
    <3>4. \A x \in WsObjects \ {o} : wsDeck'[x] = wsDeck[x]
      BY <1>0, <2>4 DEF Decks
    <3>5. \A x \in WsObjects : Drawn(wsDeck', x) =>
            (Drawn(wsDeck, x) /\ wsDeck'[x].columns = wsDeck[x].columns) \/ ~Ours(wsDeck'[x].columns)
      BY <3>1, <3>3, <3>4 DEF Drawn
    <3>6. QED
      BY <2>1, <2>2, <3>2, <3>5, DeckKeepsSound
  <2>5. QED
    BY <1>3, <2>3, <2>4 DEF WsDraws
<1>4. ASSUME NEW t \in WsTracks, WsSourceMoves(t) PROVE WsIInv'
  BY <1>4 DEF WsSourceMoves, WsTypes
<1>5. CASE WsTrackActs
  BY <1>5 DEF WsTrackActs, WsTypes
<1>6. CASE WsServed
  BY <1>6 DEF WsServed, WsTypes
<1>7. CASE WsHandMoves
  BY <1>7 DEF WsHandMoves, WsTypes
<1>8. QED
  BY <1>1, <1>2, <1>3, <1>4, <1>5, <1>6, <1>7

(* Whatever the deck, the DJ and the job do between two ticks, no fader's position is     *)
(* taken for the deck's picture or stays behind in an array (paint.c:166-174).        *)
THEOREM NothingOfTheFadersStays == WsSpec => []NothingOfOursStays
<1>1. WsIInv /\ [WsNext]_wsVars => WsIInv'
  <2> SUFFICES ASSUME WsIInv, [WsNext]_wsVars PROVE WsIInv'
    OBVIOUS
  <2>1. CASE UNCHANGED wsVars
    BY <2>1 DEF wsVars, WsIInv, WsTypes
  <2>2. QED
    BY <2>1, LettingGoKeepsIInv, TickKeepsIInv, AnalysisKeepsIInv, DeckKeepsIInv DEF WsNext
<1>2. WsIInv => NothingOfOursStays
  BY DEF WsIInv, Sound, ShownIsWritten, OwnIsTheDecks, NothingShows,
         NothingOfOursStays, CopyIsTheDecks, PaintIsHeld, OffIsTheDecks
<1>3. QED
  BY WsInitIInv, <1>1, <1>2, PTL DEF WsSpec

-----------------------------------------------------------------------------
(* The theme: the invariant.                                                   *)
Hues == TwThemes \cup {Original}
Pairs == [1..2 -> Hues]
Styles == {"3band", "blue"}
Due == <<twTheme, twTheme>>
Worn == IF twThemed = Unset THEN Stock ELSE twThemed.words

\* What a thread may be in the middle of, under a theme.
Painting(t) == t.at \in {"ask", "store"}
Looping(t) == t.at \in {"sites", "second"}
Asks2 == [at : {"ask", "store"}, pal : TwThemes, id : TwThemes \cup Styles, todo : Seq({"ink", "ground"}),
          got : Seq(TwThemes), then : {"themed", "shown", "replied"}]
Loops == [at : {"sites", "second"}, i : Nat \ {0}, pal : Hues, words : Pairs, ours : BOOLEAN, wrote : BOOLEAN]
Rebuilds == [at : {"rebuild"}, style : Styles, todo : Seq(TwTables \X {1, 2})]

AsksWell(w, t, theme, of) ==
  /\ t \in Asks2 /\ t.pal = theme
  /\ t.at = "store" => t.todo # <<>> /\ of = theme
  /\ t.then # "shown" => \/ t.got = <<>> /\ t.todo = Words
                         \/ t.got = <<theme>> /\ t.todo = <<"ground">>
                         \/ t.got = <<theme, theme>> /\ t.todo = <<>>
  /\ t.then = "themed" => t.id = theme
  /\ t.then = "replied" => w = "reply" /\ t.id \in Styles
LoopsWell(t, theme, known, id) ==
  /\ t \in Loops /\ t.pal = theme /\ t.words = <<theme, theme>> /\ t.ours = (theme # Original)
  /\ t.i <= Len(known) + 1 /\ (t.at = "second" => t.i <= Len(known) /\ t.wrote)
  /\ theme # Original => id = theme
IsAThread(w, t, theme, of, known, id, tables) ==
  \/ t = Idle \/ t = [at |-> "apply"] \/ t = [at |-> "number", pal |-> theme]
  \/ AsksWell(w, t, theme, of)
  \/ LoopsWell(t, theme, known, id)
  \/ w = "reply" /\ t \in Rebuilds /\ \A k \in DOMAIN t.todo : tables[t.todo[k][1]] \in Pairs
  \/ w = "reply" /\ t \in [at : {"replied"}, style : Styles]

\* A thread that will still see the place: with it in its loop, or before its loop.
WillSee(t, j) ==
  \/ t.at \in {"apply", "number", "rebuild", "replied"}
  \/ (Painting(t) /\ t.then # "shown")
  \/ Looping(t) /\ t.i <= j
Rebuilding(t) == t.at \in {"rebuild", "replied"} \/ (Painting(t) /\ t.then = "replied")
Themes(t) == Painting(t) /\ t.then = "themed"
StyleOf(t) == IF Painting(t) THEN t.id ELSE t.style

TwTypes ==
  /\ twTheme \in Hues /\ twTables \in [TwTables -> Pairs \cup {Nowhere}]
  /\ twKnown \in Seq(TwTables) /\ Len(twKnown) <= TwSites /\ twScanned \in BOOLEAN /\ twStyle \in Styles \cup {"none"}
  /\ twThemed = Unset \/ \E h \in TwThemes : twThemed = [id |-> h, words |-> <<h, h>>]
  /\ twWritten = Unset \/ \E p \in Pairs : twWritten = [id |-> "ours", words |-> p]

MemoAnswers ==
  /\ DOMAIN twMemo = {"of", "entry"}
  /\ twMemo.entry = Empty \/ (DOMAIN twMemo.entry = {"asked", "answer"} /\ twMemo.entry.asked \in {"ink", "ground"})
  /\ AnswersAreThePalettes
TwThreads ==
  /\ DOMAIN twThread = Threads
  /\ \A w \in Threads : IsAThread(w, twThread[w], twTheme, twMemo.of, twKnown, twThemed.id, twTables)

SitesAreThere ==
  /\ \A j \in DOMAIN twKnown : twTables[twKnown[j]] \in Pairs
  /\ \A t \in TwTables \ Range(twKnown) : twTables[t] \in {Nowhere, Stock}
SitesAreOurs == \A j \in DOMAIN twKnown : LET words == twTables[twKnown[j]] IN
  Whole(words) =>
    \/ words = Stock \/ (twWritten # Unset /\ words = twWritten.words)
    \/ words = Due /\ \E w \in Threads : Looping(twThread[w]) /\ twThread[w].wrote
PassedAreDue == \A w \in Threads : Looping(twThread[w]) =>
  \A j \in 1..twThread[w].i - 1 :
    Whole(twTables[twKnown[j]]) => twTables[twKnown[j]] \in {Stock, Due}
SitesAreSeen == \A j \in DOMAIN twKnown : LET words == twTables[twKnown[j]] IN
  Whole(words) =>
    \/ words = IF \E w \in Threads : Looping(twThread[w]) THEN Due ELSE Worn
    \/ \E w \in Threads : WillSee(twThread[w], j)
GroundGoesAlong ==
  /\ twGround = GroundUnder(Worn[1])
  /\ twPal = IF \E w \in Threads : Themes(twThread[w]) THEN twTheme ELSE Worn[1]
ScansAreWhole ==
  /\ twScanned /\ Len(twKnown) < TwSites =>
       \/ Present \subseteq Range(twKnown)
       \/ Rebuilding(twThread["reply"]) /\ StyleOf(twThread["reply"]) # twStyle
  /\ \A t \in TwTables :
       TwStyleOf[t] \in {"3band", twStyle} \/ (Rebuilding(twThread["reply"]) /\ TwStyleOf[t] = StyleOf(twThread["reply"]))
         => twTables[t] # Nowhere

TwIInv == TwTypes /\ TwThreads /\ MemoAnswers /\ SitesAreThere /\ SitesAreOurs /\ PassedAreDue /\ SitesAreSeen
          /\ GroundGoesAlong /\ ScansAreWhole

-----------------------------------------------------------------------------
(* Two words, and two threads.                                                *)
LEMMA PairOf ==
  ASSUME NEW a \in Hues, NEW b \in Hues
  PROVE  <<a, b>> \in Pairs /\ <<a, b>>[1] = a /\ <<a, b>>[2] = b
BY DEF Pairs

\* A pair is its two words.
LEMMA PairIs == ASSUME NEW p \in Pairs PROVE p = <<p[1], p[2]>> /\ p[1] \in Hues /\ p[2] \in Hues
BY DEF Pairs

\* The stock contents are a pair; an absent copy is none.
LEMMA StockIsAPair == Stock \in Pairs /\ Stock = <<Original, Original>> /\ Original \in Hues /\ Nowhere \notin Pairs
<1>1. Original \in Hues
  BY DEF Hues
<1>2. Stock \in Pairs /\ Stock = <<Original, Original>>
  BY <1>1, PairOf DEF Stock
<1>3. Nowhere \notin Pairs
  BY DEF Nowhere, Pairs
<1>4. QED
  BY <1>1, <1>2, <1>3

\* One thread moves, the other stays.
LEMMA MoveOf ==
  ASSUME NEW w \in Threads, NEW r, DOMAIN twThread = Threads, Goes(w, r)
  PROVE  /\ DOMAIN twThread' = Threads /\ twThread'[w] = r
         /\ \A v \in Threads : v # w => twThread'[v] = twThread[v]
BY DEF Goes

\* Where a thread is says what it is.
LEMMA ThreadAt ==
  ASSUME NEW w, NEW t, NEW theme, NEW of, NEW known, NEW id, NEW tables,
         IsAThread(w, t, theme, of, known, id, tables)
  PROVE  /\ t.at = "idle" => t = Idle
         /\ t.at = "apply" => t = [at |-> "apply"]
         /\ t.at = "number" => t = [at |-> "number", pal |-> theme]
         /\ t.at \in {"ask", "store"} => AsksWell(w, t, theme, of)
         /\ t.at \in {"sites", "second"} => LoopsWell(t, theme, known, id)
         /\ t.at = "rebuild" => w = "reply" /\ t \in Rebuilds /\ \A k \in DOMAIN t.todo : tables[t.todo[k][1]] \in Pairs
         /\ t.at = "replied" => w = "reply" /\ t \in [at : {"replied"}, style : Styles]
<1>1. Idle.at = "idle" /\ [at |-> "apply"].at = "apply" /\ [at |-> "number", pal |-> theme].at = "number"
  BY DEF Idle
<1>2. AsksWell(w, t, theme, of) => t.at \in {"ask", "store"}
  BY DEF AsksWell, Asks2
<1>3. LoopsWell(t, theme, known, id) => t.at \in {"sites", "second"}
  BY DEF LoopsWell, Loops
<1>4. t \in Rebuilds => t.at = "rebuild"
  BY DEF Rebuilds
<1>5. t \in [at : {"replied"}, style : Styles] => t.at = "replied"
  OBVIOUS
<1> HIDE DEF Rebuilds
<1>6. QED
  BY <1>1, <1>2, <1>3, <1>4, <1>5 DEF IsAThread

(* What happens to the world leaves a thread what it is, as long as it goes by the same *)
(* palette, the places stay and no copy goes.                                   *)
LEMMA ThreadStays ==
  ASSUME NEW w, NEW t, NEW theme, NEW of, NEW known, NEW id, NEW tables, NEW of2, NEW known2, NEW id2, NEW tables2,
         IsAThread(w, t, theme, of, known, id, tables), known \in Seq(TwTables), known2 \in Seq(TwTables),
         of = theme => of2 = theme, Len(known) <= Len(known2), theme # Original /\ id = theme => id2 = theme,
         \A x \in TwTables : tables[x] \in Pairs => tables2[x] \in Pairs
  PROVE  IsAThread(w, t, theme, of2, known2, id2, tables2)
<1>1. AsksWell(w, t, theme, of) => AsksWell(w, t, theme, of2)
  BY DEF AsksWell
<1>2. ASSUME LoopsWell(t, theme, known, id) PROVE LoopsWell(t, theme, known2, id2)
  <2>1. t.i \in Nat /\ Len(known) \in Nat /\ Len(known2) \in Nat
    BY <1>2 DEF LoopsWell, Loops
  <2>2. QED
    BY <1>2, <2>1 DEF LoopsWell
<1>3. ASSUME t \in Rebuilds, \A k \in DOMAIN t.todo : tables[t.todo[k][1]] \in Pairs
      PROVE  \A k \in DOMAIN t.todo : tables2[t.todo[k][1]] \in Pairs
  <2> TAKE k \in DOMAIN t.todo
  <2>1. t.todo \in Seq(TwTables \X {1, 2})
    BY <1>3 DEF Rebuilds
  <2>2. t.todo[k] \in TwTables \X {1, 2}
    BY <2>1
  <2>3. t.todo[k][1] \in TwTables
    BY <2>2
  <2>4. QED
    BY <1>3, <2>3
<1> HIDE DEF Rebuilds
<1>4. QED
  BY <1>1, <1>2, <1>3 DEF IsAThread

\* One thread goes on, to what a thread may be, and the other stays what it is.
LEMMA ThreadsGo ==
  ASSUME TwThreads, NEW w \in Threads, NEW r, Goes(w, r), twTheme' = twTheme,
         twKnown \in Seq(TwTables), twKnown' \in Seq(TwTables), Len(twKnown) <= Len(twKnown'),
         twMemo.of = twTheme => twMemo'.of = twTheme,
         twTheme # Original /\ twThemed.id = twTheme => twThemed'.id = twTheme,
         \A x \in TwTables : twTables[x] \in Pairs => twTables'[x] \in Pairs,
         IsAThread(w, r, twTheme, twMemo'.of, twKnown', twThemed'.id, twTables')
  PROVE  TwThreads'
<1>1. DOMAIN twThread' = Threads /\ twThread'[w] = r /\ \A v \in Threads : v # w => twThread'[v] = twThread[v]
  BY MoveOf DEF TwThreads
<1>2. ASSUME NEW v \in Threads, v # w
      PROVE  IsAThread(v, twThread[v], twTheme, twMemo'.of, twKnown', twThemed'.id, twTables')
  <2>1. IsAThread(v, twThread[v], twTheme, twMemo.of, twKnown, twThemed.id, twTables)
    BY DEF TwThreads
  <2>2. QED
    BY <2>1, ThreadStays
<1>3. \A v \in Threads : IsAThread(v, twThread'[v], twTheme, twMemo'.of, twKnown', twThemed'.id, twTables')
  BY <1>1, <1>2
<1>4. QED
  BY <1>1, <1>3 DEF TwThreads, IsAThread, AsksWell, LoopsWell

-----------------------------------------------------------------------------
(* The memo, and what the threads do between two loops.                          *)

(* A thread that is on its way, and stays so, disturbs nothing that is said of the sites. *)
LEMMA Onward ==
  ASSUME TwIInv, NEW w \in Threads, NEW r, Goes(w, r), TwTypes', TwThreads', MemoAnswers', ScansAreWhole',
         UNCHANGED <<twTheme, twTables, twKnown, twThemed, twWritten, twGround, twPal>>,
         ~Looping(twThread[w]), ~Looping(r), \A j \in Nat : WillSee(twThread[w], j) => WillSee(r, j),
         Themes(twThread[w]) <=> Themes(r)
  PROVE  TwIInv'
<1> DEFINE now == twThread  then == twThread'
<1>1. then[w] = r /\ \A v \in Threads : v # w => then[v] = now[v]
  BY MoveOf DEF TwIInv, TwThreads
<1>2. \A v \in Threads : Looping(then[v]) \/ Looping(now[v]) => then[v] = now[v]
  BY <1>1
<1>3. \A v \in Threads : \A j \in Nat : WillSee(now[v], j) => WillSee(then[v], j)
  BY <1>1
<1>4. (\E v \in Threads : Themes(now[v])) <=> \E v \in Threads : Themes(then[v])
  BY <1>1
<1>5. (\E v \in Threads : Looping(then[v])) = (\E v \in Threads : Looping(now[v]))
  BY <1>2
<1>6. Due' = Due /\ Worn' = Worn /\ Present' = Present
  BY DEF Due, Worn, Present
<1>7. DOMAIN twKnown \subseteq Nat
  BY DEF TwIInv, TwTypes
<1> HIDE DEF now, then
<1> USE DEF TwIInv
<1>8. SitesAreThere'
  BY <1>6 DEF SitesAreThere
<1>9. SitesAreOurs'
  <2>1. \A v \in Threads : Looping(now[v]) /\ now[v].wrote => Looping(then[v]) /\ then[v].wrote
    BY <1>2
  <2> HIDE DEF Looping
  <2>2. QED
    BY <1>6, <2>1 DEF SitesAreOurs, now, then
<1>10. PassedAreDue'
  <2> HIDE DEF Looping
  <2>1. \A v \in Threads : Looping(then[v]) => Looping(now[v]) /\ then[v].i = now[v].i
    BY <1>2
  <2>2. QED
    BY <1>6, <2>1 DEF PassedAreDue, now, then
<1>11. SitesAreSeen'
  <2> HIDE DEF Looping, WillSee
  <2>1. QED
    BY <1>3, <1>5, <1>6, <1>7 DEF SitesAreSeen, now, then
<1>12. GroundGoesAlong'
  BY <1>4, <1>6 DEF GroundGoesAlong, now, then
<1>13. QED
  BY <1>8, <1>9, <1>10, <1>11, <1>12

\* The same, with nothing but the thread and the memo touched.
LEMMA OnItsWay ==
  ASSUME TwIInv, NEW w \in Threads, NEW r, Goes(w, r), UNCHANGED notMemo, TwThreads', MemoAnswers',
         ~Looping(twThread[w]), ~Looping(r), \A j \in Nat : WillSee(twThread[w], j) => WillSee(r, j),
         Rebuilding(twThread[w]) = Rebuilding(r), Rebuilding(r) => StyleOf(r) = StyleOf(twThread[w]),
         Themes(twThread[w]) <=> Themes(r)
  PROVE  TwIInv'
<1> DEFINE now == twThread  then == twThread'
<1>1. then[w] = r /\ \A v \in Threads : v # w => then[v] = now[v]
  BY MoveOf DEF TwIInv, TwThreads
<1>2. Rebuilding(then["reply"]) = Rebuilding(now["reply"])
      /\ (Rebuilding(now["reply"]) => StyleOf(then["reply"]) = StyleOf(now["reply"]))
  BY <1>1 DEF Threads
<1>3. UNCHANGED <<twTheme, twTables, twKnown, twScanned, twStyle, twThemed, twWritten, twGround, twPal>>
      /\ Present' = Present
  BY DEF notMemo, Present
<1> HIDE DEF now, then
<1>4. TwTypes'
  BY <1>3 DEF TwIInv, TwTypes
<1>5. ScansAreWhole'
  <2> HIDE DEF Rebuilding, StyleOf
  <2>1. QED
    BY <1>2, <1>3 DEF TwIInv, ScansAreWhole, now, then
<1>6. QED
  BY <1>3, <1>4, <1>5, Onward

\* The second answer after the first.
LEMMA Appended == \A x : Append(<<x>>, x) = <<x, x>>
<1> SUFFICES ASSUME NEW x PROVE Append(<<x>>, x) = <<x, x>>
  OBVIOUS
<1> DEFINE S == {x}
<1>1. <<x>> \in Seq(S) /\ <<x, x>> \in Seq(S) /\ x \in S
  OBVIOUS
<1>2. Len(<<x>>) = 1 /\ Len(<<x, x>>) = 2 /\ <<x>>[1] = x /\ <<x, x>>[1] = x /\ <<x, x>>[2] = x
  OBVIOUS
<1>3. Append(<<x>>, x) \in Seq(S)
  BY <1>1
<1>4. Len(Append(<<x>>, x)) = 2
  BY <1>1, <1>2
<1>5. Append(<<x>>, x)[1] = x /\ Append(<<x>>, x)[2] = x
  BY <1>1, <1>2
<1>6. \A a, b \in Seq(S) : Len(a) = 2 /\ Len(b) = 2 /\ a[1] = b[1] /\ a[2] = b[2] => a = b
  OBVIOUS
<1>7. QED
  BY <1>1, <1>2, <1>3, <1>4, <1>5, <1>6

(* An answer more: what is left to ask, and what was answered, stay together.          *)
LEMMA ToldAsksWell ==
  ASSUME NEW w, NEW t, NEW theme, NEW of, AsksWell(w, t, theme, of), t.todo # <<>>
  PROVE  /\ \A of2 : AsksWell(w, Told(t, theme), theme, of2)
         /\ Told(t, theme).then = t.then /\ Told(t, theme).id = t.id /\ Told(t, theme).at = "ask"
         /\ Head(t.todo) \in {"ink", "ground"} /\ theme \in TwThemes
<1> DEFINE m == Told(t, theme)
<1>1. t \in Asks2 /\ t.pal = theme /\ theme \in TwThemes
  BY DEF AsksWell, Asks2
<1>2. t.todo \in Seq({"ink", "ground"}) /\ t.got \in Seq(TwThemes)
  BY <1>1 DEF Asks2
<1>3. Head(t.todo) \in {"ink", "ground"} /\ Tail(t.todo) \in Seq({"ink", "ground"}) /\ Append(t.got, theme) \in Seq(TwThemes)
  BY <1>1, <1>2
<1>4. m \in Asks2 /\ m.at = "ask" /\ m.pal = theme /\ m.then = t.then /\ m.id = t.id
      /\ m.todo = Tail(t.todo) /\ m.got = Append(t.got, theme)
  BY <1>1, <1>3 DEF Told, Asks2
<1> HIDE DEF m
<1>5. ASSUME t.then # "shown"
      PROVE  \/ m.got = <<theme>> /\ m.todo = <<"ground">>
             \/ m.got = <<theme, theme>> /\ m.todo = <<>>
  <2>1. CASE t.got = <<>> /\ t.todo = Words
    <3>1. Tail(Words) = <<"ground">> /\ Append(<<>>, theme) = <<theme>>
      BY DEF Words
    <3>2. QED
      BY <1>4, <2>1, <3>1
  <2>2. CASE t.got = <<theme>> /\ t.todo = <<"ground">>
    <3>1. Append(<<theme>>, theme) = <<theme, theme>>
      BY Appended
    <3>3. Tail(<<"ground">>) = <<>>
      OBVIOUS
    <3>2. QED
      BY <1>4, <2>2, <3>1, <3>3
  <2>3. QED
    BY <1>5, <2>1, <2>2 DEF AsksWell
<1>6. QED
  BY <1>3, <1>1, <1>4, <1>5 DEF AsksWell, m

\* An answer from the memo, or a miss that takes the memo over.
LEMMA AskKeepsIInv == ASSUME TwIInv, NEW w \in Threads, TwAsk(w) PROVE TwIInv'
<1> DEFINE t == twThread[w]
<1>0. t.at = "ask" /\ t.todo # <<>> /\ AsksWell(w, t, twTheme, twMemo.of) /\ UNCHANGED <<notMemo, twEvents>>
  BY ThreadAt DEF TwAsk, At, TwIInv, TwThreads
<1>1. t.pal = twTheme /\ t \in Asks2 /\ twKnown \in Seq(TwTables)
      /\ UNCHANGED <<twTheme, twKnown, twTables, twThemed>>
  BY <1>0 DEF AsksWell, TwIInv, TwTypes, notMemo
<1>3. /\ AsksWell(w, Told(t, twTheme), twTheme, twMemo'.of)
      /\ Told(t, twTheme).then = t.then /\ Told(t, twTheme).id = t.id /\ Told(t, twTheme).at = "ask"
      /\ Head(t.todo) \in {"ink", "ground"} /\ twTheme \in TwThemes
  <2> HIDE DEF t
  <2>1. QED
    BY <1>0, ToldAsksWell
<1>4. ASSUME NEW r, Goes(w, r), MemoAnswers', twMemo.of = twTheme => twMemo'.of = twTheme,
             AsksWell(w, r, twTheme, twMemo'.of), r.at \in {"ask", "store"}, r.then = t.then, r.id = t.id
      PROVE  TwIInv'
  <2>1. TwThreads'
    <3>1. IsAThread(w, r, twTheme, twMemo'.of, twKnown', twThemed'.id, twTables')
      BY <1>4 DEF IsAThread
    <3>2. QED
      BY <1>1, <1>4, <3>1, ThreadsGo DEF TwIInv
  <2>2. /\ ~Looping(t) /\ ~Looping(r) /\ \A j \in Nat : WillSee(t, j) => WillSee(r, j)
        /\ Rebuilding(t) = Rebuilding(r) /\ (Rebuilding(r) => StyleOf(r) = StyleOf(t)) /\ (Themes(t) <=> Themes(r))
    BY <1>0, <1>4 DEF Looping, WillSee, Rebuilding, StyleOf, Themes, Painting
  <2>3. QED
    BY <1>0, <1>4, <2>1, <2>2, OnItsWay
<1>5. CASE Hit(t) /\ Goes(w, Told(t, twMemo.entry.answer)) /\ UNCHANGED twMemo
  <2>1. twMemo.entry # Empty
    <3>1. Empty.asked = "nothing" /\ twMemo.entry.asked \in {"ink", "ground"}
      BY <1>3, <1>5 DEF Hit, Empty
    <3>2. QED
      BY <3>1
  <2>2. twMemo.entry.answer = twTheme
    BY <1>1, <1>5, <2>1 DEF Hit, TwIInv, MemoAnswers, AnswersAreThePalettes
  <2>3. MemoAnswers'
    BY <1>5 DEF TwIInv, MemoAnswers, AnswersAreThePalettes
  <2>4. QED
    BY <1>3, <1>4, <1>5, <2>2, <2>3
<1>6. CASE ~Hit(t) /\ Goes(w, [t EXCEPT !.at = "store"])
           /\ twMemo' = IF twMemo.of = t.pal THEN twMemo ELSE [of |-> t.pal, entry |-> Empty]
  <2> DEFINE r == [t EXCEPT !.at = "store"]
  <2>1. twMemo'.of = twTheme /\ MemoAnswers'
    BY <1>1, <1>6 DEF TwIInv, MemoAnswers, AnswersAreThePalettes
  <2>2. r \in Asks2 /\ r.at = "store" /\ r.todo = t.todo /\ r.got = t.got /\ r.pal = t.pal /\ r.then = t.then /\ r.id = t.id
    BY <1>1 DEF Asks2
  <2> HIDE DEF r
  <2>3. AsksWell(w, r, twTheme, twMemo'.of)
    BY <1>0, <2>1, <2>2 DEF AsksWell
  <2>4. QED
    BY <1>4, <1>6, <2>1, <2>2, <2>3 DEF r
<1>7. QED
  BY <1>5, <1>6 DEF TwAsk

\* An answer computed and stored.
LEMMA StoreKeepsIInv == ASSUME TwIInv, NEW w \in Threads, TwStore(w) PROVE TwIInv'
<1> DEFINE t == twThread[w]
           r == Told(t, t.pal)
<1>0. t.at = "store" /\ AsksWell(w, t, twTheme, twMemo.of) /\ UNCHANGED <<notMemo, twEvents>> /\ Goes(w, r)
      /\ twMemo' = [twMemo EXCEPT !.entry = [asked |-> Head(t.todo), answer |-> t.pal]]
  BY ThreadAt DEF TwStore, At, TwIInv, TwThreads
<1>1. t.pal = twTheme /\ t.todo # <<>> /\ twMemo.of = twTheme /\ twKnown \in Seq(TwTables)
      /\ UNCHANGED <<twTheme, twKnown, twTables, twThemed>>
  BY <1>0 DEF AsksWell, TwIInv, TwTypes, notMemo
<1>2. /\ AsksWell(w, r, twTheme, twMemo'.of) /\ r.then = t.then /\ r.id = t.id /\ r.at = "ask"
      /\ Head(t.todo) \in {"ink", "ground"} /\ twTheme \in TwThemes
  <2> HIDE DEF t
  <2>1. QED
    BY <1>0, <1>1, ToldAsksWell
<1> HIDE DEF r
<1>3. MemoAnswers' /\ twMemo'.of = twTheme
  <2>1. DOMAIN twMemo = {"of", "entry"}
    BY DEF TwIInv, MemoAnswers
  <2>2. /\ DOMAIN twMemo' = {"of", "entry"} /\ twMemo'.of = twTheme
        /\ twMemo'.entry = [asked |-> Head(t.todo), answer |-> twTheme]
    BY <1>0, <1>1, <2>1
  <2>3. DOMAIN twMemo'.entry = {"asked", "answer"} /\ twMemo'.entry.asked = Head(t.todo) /\ twMemo'.entry.answer = twTheme
    BY <2>2
  <2>4. QED
    BY <1>2, <2>2, <2>3 DEF MemoAnswers, AnswersAreThePalettes
<1>4. TwThreads'
  <2>1. IsAThread(w, r, twTheme, twMemo'.of, twKnown', twThemed'.id, twTables')
    BY <1>2 DEF IsAThread
  <2>2. QED
    BY <1>0, <1>1, <1>3, <2>1, ThreadsGo DEF TwIInv
<1>5. /\ ~Looping(t) /\ ~Looping(r) /\ \A j \in Nat : WillSee(t, j) => WillSee(r, j)
      /\ Rebuilding(t) = Rebuilding(r) /\ (Rebuilding(r) => StyleOf(r) = StyleOf(t)) /\ (Themes(t) <=> Themes(r))
  BY <1>0, <1>2 DEF Looping, WillSee, Rebuilding, StyleOf, Themes, Painting
<1>6. QED
  BY <1>0, <1>3, <1>4, <1>5, OnItsWay

(* A thread that begins, or ends, or goes on to what comes before its loop.             *)
LEMMA WaysKeepIInv ==
  ASSUME TwIInv, ~TwRaces,
         \/ \E i \in DOMAIN Words : TwPaints(Words[i])
         \/ TwTicks \/ TwShown("message") \/ TwBakes \/ TwBaked \/ \E w \in Threads : TwBegins(w)
  PROVE  TwIInv'
<1>1. ASSUME NEW w \in Threads, NEW r, Goes(w, r), UNCHANGED <<notMemo, twMemo>>,
             IsAThread(w, r, twTheme, twMemo.of, twKnown, twThemed.id, twTables),
             ~Looping(twThread[w]), ~Looping(r), \A j \in Nat : WillSee(twThread[w], j) => WillSee(r, j),
             Rebuilding(twThread[w]) = Rebuilding(r), Rebuilding(r) => StyleOf(r) = StyleOf(twThread[w]),
             ~Themes(twThread[w]), ~Themes(r)
      PROVE  TwIInv'
  <2>1. UNCHANGED <<twTheme, twKnown, twTables, twThemed, twMemo>> /\ twKnown \in Seq(TwTables)
    BY <1>1 DEF notMemo, TwIInv, TwTypes
  <2>2. MemoAnswers'
    BY <2>1 DEF TwIInv, MemoAnswers, AnswersAreThePalettes
  <2>3. TwThreads'
    BY <1>1, <2>1, ThreadsGo DEF TwIInv
  <2>4. QED
    BY <1>1, <2>2, <2>3, OnItsWay
<1>2. \A w \in Threads : IsAThread(w, twThread[w], twTheme, twMemo.of, twKnown, twThemed.id, twTables)
  BY DEF TwIInv, TwThreads
<1> USE DEF Looping, WillSee, Rebuilding, StyleOf, Themes, Painting
<1>3. "message" \in Threads /\ "reply" \in Threads
  BY DEF Threads
<1>4. ASSUME NEW i \in DOMAIN Words, TwPaints(Words[i]) PROVE TwIInv'
  <2> DEFINE r == Asks(twTheme, twTheme, <<Words[i]>>, "shown")
  <2>1. twThread["message"].at = "idle" /\ Goes("message", r) /\ UNCHANGED <<notMemo, twMemo>> /\ twTheme # Original
    BY <1>4 DEF TwPaints, At
  <2>2. Words[i] \in {"ink", "ground"} /\ twTheme \in TwThemes
    BY <2>1 DEF Words, TwIInv, TwTypes, Hues
  <2>3. r \in Asks2 /\ r.at = "ask" /\ r.then = "shown" /\ r.pal = twTheme
    BY <2>2 DEF Asks, Asks2
  <2> HIDE DEF r
  <2>4. IsAThread("message", r, twTheme, twMemo.of, twKnown, twThemed.id, twTables)
    BY <2>3 DEF IsAThread, AsksWell
  <2>5. QED
    BY <1>1, <1>3, <2>1, <2>3, <2>4
<1>5. CASE TwTicks
  <2> DEFINE r == [at |-> "apply"]
  <2>1. twThread["message"].at = "idle" /\ Goes("message", r) /\ UNCHANGED <<notMemo, twMemo>> /\ r.at = "apply"
    BY <1>5 DEF TwTicks, At
  <2>2. IsAThread("message", r, twTheme, twMemo.of, twKnown, twThemed.id, twTables)
    BY DEF IsAThread
  <2> HIDE DEF r
  <2>3. QED
    BY <1>1, <1>3, <2>1, <2>2
<1>6. CASE TwShown("message")
  <2>1. twThread["message"].at = "ask" /\ twThread["message"].then = "shown" /\ Goes("message", Idle)
        /\ UNCHANGED <<notMemo, twMemo>> /\ Idle.at = "idle"
    BY <1>6 DEF TwShown, At, Idle
  <2>2. IsAThread("message", Idle, twTheme, twMemo.of, twKnown, twThemed.id, twTables)
    BY DEF IsAThread
  <2>3. QED
    BY <1>1, <1>3, <2>1, <2>2
<1>7. ASSUME NEW w \in Threads, TwBegins(w) PROVE TwIInv'
  <2> DEFINE r == [at |-> "number", pal |-> twTheme]
  <2>1. twThread[w].at = "apply" /\ Goes(w, r) /\ UNCHANGED <<notMemo, twMemo>> /\ r.at = "number"
    BY <1>7 DEF TwBegins, At
  <2>2. IsAThread(w, r, twTheme, twMemo.of, twKnown, twThemed.id, twTables)
    BY DEF IsAThread
  <2> HIDE DEF r
  <2>3. QED
    BY <1>1, <2>1, <2>2
<1>8. CASE TwBakes
  <2> DEFINE t == twThread["reply"]
             r == IF twTheme = Original THEN [at |-> "replied", style |-> t.style]
                  ELSE Asks(twTheme, t.style, Words, "replied")
  <2>1. t.at = "rebuild" /\ Goes("reply", r) /\ UNCHANGED <<notMemo, twMemo>>
    BY <1>8 DEF TwBakes, At
  <2>2. t \in Rebuilds
    BY <1>2, <1>3, <2>1, ThreadAt
  <2>3. t.style \in Styles
    BY <2>2 DEF Rebuilds
  <2>4. CASE twTheme = Original
    <3>1. r = [at |-> "replied", style |-> t.style] /\ r.at = "replied" /\ r.style = t.style
      BY <2>4
    <3>2. r \in [at : {"replied"}, style : Styles]
      BY <2>3, <3>1
    <3> HIDE DEF r
    <3>3. IsAThread("reply", r, twTheme, twMemo.of, twKnown, twThemed.id, twTables)
      BY <3>2 DEF IsAThread
    <3>4. QED
      BY <1>1, <1>3, <2>1, <3>1, <3>3
  <2>5. CASE twTheme # Original
    <3>1. twTheme \in TwThemes
      BY <2>5 DEF TwIInv, TwTypes, Hues
    <3>2. r = Asks(twTheme, t.style, Words, "replied")
      BY <2>5
    <3>3. Words \in Seq({"ink", "ground"})
      BY DEF Words
    <3>4. /\ r \in Asks2 /\ r.at = "ask" /\ r.pal = twTheme /\ r.id = t.style /\ r.todo = Words /\ r.got = <<>>
          /\ r.then = "replied"
      BY <2>3, <3>1, <3>2, <3>3 DEF Asks, Asks2
    <3> HIDE DEF r
    <3>5. IsAThread("reply", r, twTheme, twMemo.of, twKnown, twThemed.id, twTables)
      BY <2>3, <3>4 DEF IsAThread, AsksWell
    <3>6. QED
      BY <1>1, <1>3, <2>1, <3>4, <3>5
  <2>6. QED
    BY <2>4, <2>5
<1>9. CASE TwBaked
  <2> DEFINE t == twThread["reply"]
             r == [at |-> "replied", style |-> t.id]
  <2>1. t.at = "ask" /\ t.then = "replied" /\ Goes("reply", r) /\ UNCHANGED <<notMemo, twMemo>>
        /\ r.at = "replied" /\ r.style = t.id
    BY <1>9 DEF TwBaked, At
  <2>2. AsksWell("reply", t, twTheme, twMemo.of)
    BY <1>2, <1>3, <2>1, ThreadAt
  <2>3. r \in [at : {"replied"}, style : Styles]
    BY <2>1, <2>2 DEF AsksWell
  <2> HIDE DEF r
  <2>4. IsAThread("reply", r, twTheme, twMemo.of, twKnown, twThemed.id, twTables)
    BY <2>3 DEF IsAThread
  <2>5. QED
    BY <1>1, <1>3, <2>1, <2>4
<1>10. QED
  BY <1>4, <1>5, <1>6, <1>7, <1>8, <1>9

-----------------------------------------------------------------------------
(* A word is written.                                                         *)

Put(tables, s, k, h) == [tables EXCEPT ![s][k] = h]

(* What a word was written to is whole only in the hue of that word.                  *)
LEMMA WordWritten ==
  ASSUME NEW tables \in [TwTables -> Pairs \cup {Nowhere}], NEW s \in TwTables, tables[s] \in Pairs,
         NEW k \in {1, 2}, NEW h \in Hues, NEW after, after = Put(tables, s, k, h)
  PROVE  /\ after \in [TwTables -> Pairs \cup {Nowhere}] /\ after[s] \in Pairs
         /\ \A x \in TwTables : x # s => after[x] = tables[x]
         /\ Whole(after[s]) => after[s] = <<h, h>>
         /\ tables[s] = <<h, h>> => after[s] = <<h, h>>
<1> DEFINE p == [tables[s] EXCEPT ![k] = h]
<1>1. p \in Pairs /\ p[k] = h /\ \A m \in {1, 2} : m # k => p[m] = tables[s][m]
  BY DEF Pairs
<1>2. after = [tables EXCEPT ![s] = p]
  BY DEF Put
<1> HIDE DEF p
<1>3. after \in [TwTables -> Pairs \cup {Nowhere}] /\ after[s] = p /\ \A x \in TwTables : x # s => after[x] = tables[x]
  BY <1>1, <1>2
<1>4. p[1] = p[2] => p = <<h, h>>
  BY <1>1, PairIs
<1>5. tables[s] = <<h, h>> => p = <<h, h>>
  BY <1>1, PairIs
<1>6. QED
  BY <1>1, <1>3, <1>4, <1>5 DEF Whole

\* The thread that writes is to come to the place again, or leaves it in what it writes.
LEMMA WriteKeepsIInv ==
  ASSUME TwIInv, NEW w \in Threads, NEW r, Goes(w, r), NEW s \in TwTables, NEW k \in {1, 2}, NEW h \in Hues,
         twTables[s] \in Pairs, twTables' = Put(twTables, s, k, h),
         UNCHANGED <<twTheme, twKnown, twScanned, twStyle, twThemed, twWritten, twGround, twPal, twMemo>>,
         IsAThread(w, r, twTheme, twMemo.of, twKnown, twThemed.id, twTables), ~Themes(twThread[w]), ~Themes(r),
         Looping(twThread[w]) <=> Looping(r),
         \A j \in Nat : WillSee(twThread[w], j) => WillSee(r, j) \/ twKnown[j] = s,
         Rebuilding(twThread[w]) <=> Rebuilding(r), Rebuilding(r) => StyleOf(r) = StyleOf(twThread[w]),
         \/ /\ Looping(r) /\ r.wrote /\ h = twTheme /\ s \in Range(twKnown)
            /\ \A j \in Nat : j < r.i => j < twThread[w].i \/ twKnown[j] = s
         \/ ~Looping(r) /\ h = Original /\ r.at = "rebuild"
  PROVE  TwIInv'
<1> USE DEF TwIInv
<1> DEFINE now == twThread  then == twThread'
<1>1. then[w] = r /\ \A v \in Threads : v # w => then[v] = now[v]
  BY MoveOf DEF TwThreads
<1>2. /\ twTables' \in [TwTables -> Pairs \cup {Nowhere}] /\ twTables'[s] \in Pairs
      /\ \A x \in TwTables : x # s => twTables'[x] = twTables[x]
      /\ Whole(twTables'[s]) => twTables'[s] = <<h, h>>
      /\ twTables[s] = <<h, h>> => twTables'[s] = <<h, h>>
  BY WordWritten DEF TwTypes
<1>3. Due' = Due /\ Worn' = Worn /\ Due = <<twTheme, twTheme>> /\ Stock = <<Original, Original>>
  BY DEF Due, Worn, Stock
<1>4. \A j \in DOMAIN twKnown : j \in Nat /\ twKnown[j] \in TwTables
  BY DEF TwTypes
<1>5. \A x \in TwTables : (twTables'[x] \in Pairs) = (twTables[x] \in Pairs) /\ (twTables'[x] = Nowhere) = (twTables[x] = Nowhere)
  BY <1>2, StockIsAPair
<1>6. /\ (\E v \in Threads : Looping(then[v])) = (\E v \in Threads : Looping(now[v]))
      /\ \A v \in Threads : Looping(now[v]) /\ now[v].wrote => Looping(then[v]) /\ then[v].wrote
      /\ \A v \in Threads : Looping(then[v]) => Looping(now[v])
      /\ \A v \in Threads : Looping(then[v]) => \A j \in Nat : j < then[v].i => j < now[v].i \/ twKnown[j] = s
  BY <1>1
<1>7. \A v \in Threads, j \in Nat : WillSee(now[v], j) => WillSee(then[v], j) \/ twKnown[j] = s
  BY <1>1
<1>8. (Rebuilding(then["reply"]) <=> Rebuilding(now["reply"]))
      /\ (Rebuilding(now["reply"]) => StyleOf(then["reply"]) = StyleOf(now["reply"]))
  BY <1>1 DEF Threads
<1>9. \A v \in Threads : Themes(now[v]) <=> Themes(then[v])
  BY <1>1
<1>10. \/ Looping(then[w]) /\ then[w].wrote /\ <<h, h>> = Due
       \/ <<h, h>> = Stock /\ \A j \in Nat : WillSee(then[w], j)
  BY <1>1, <1>3 DEF WillSee
<1>11. MemoAnswers'
  BY DEF MemoAnswers, AnswersAreThePalettes
<1>12. TwThreads'
  <2>1. /\ \A x \in TwTables : twTables[x] \in Pairs => twTables'[x] \in Pairs
        /\ twKnown \in Seq(TwTables) /\ Len(twKnown) <= Len(twKnown) /\ twKnown' = twKnown
        /\ twMemo'.of = twMemo.of /\ twThemed'.id = twThemed.id
    BY <1>5 DEF TwTypes
  <2>2. IsAThread(w, r, twTheme, twMemo.of, twKnown, twThemed.id, twTables')
    BY <2>1, ThreadStays
  <2>3. QED
    BY <2>1, <2>2, ThreadsGo
<1>13. TwTypes'
  BY <1>2 DEF TwTypes
<1>14. Present' = Present
  BY <1>5 DEF Present
<1> HIDE DEF now, then
<1>15. SitesAreThere'
  <2>1. \A j \in DOMAIN twKnown : twTables'[twKnown[j]] \in Pairs
    BY <1>4, <1>5 DEF SitesAreThere
  <2>2. ASSUME NEW x \in TwTables \ Range(twKnown) PROVE twTables'[x] \in {Nowhere, Stock}
    <3>1. CASE x # s
      BY <1>2, <3>1 DEF SitesAreThere
    <3>2. CASE x = s
      <4>1. h = Original /\ twTables[s] = Stock
        BY <3>2, StockIsAPair DEF SitesAreThere
      <4>2. QED
        BY <1>2, <1>3, <3>2, <4>1
    <3>3. QED
      BY <3>1, <3>2
  <2>3. QED
    BY <2>1, <2>2 DEF SitesAreThere
<1>16. SitesAreOurs'
  <2> HIDE DEF Looping
  <2> SUFFICES ASSUME NEW j \in DOMAIN twKnown, Whole(twTables'[twKnown[j]])
               PROVE  \/ twTables'[twKnown[j]] = Stock \/ (twWritten # Unset /\ twTables'[twKnown[j]] = twWritten.words)
                      \/ twTables'[twKnown[j]] = Due /\ \E v \in Threads : Looping(then[v]) /\ then[v].wrote
    BY <1>3 DEF SitesAreOurs, then
  <2>1. CASE twKnown[j] = s
    BY <1>2, <1>10, <2>1
  <2>2. CASE twKnown[j] # s
    <3>1. twTables'[twKnown[j]] = twTables[twKnown[j]]
      BY <1>2, <1>4, <2>2
    <3>2. QED
      BY <1>6, <3>1 DEF SitesAreOurs, now
  <2>3. QED
    BY <2>1, <2>2
<1>17. PassedAreDue'
  <2> HIDE DEF Looping
  <2> SUFFICES ASSUME NEW v \in Threads, Looping(then[v]), NEW j \in 1..then[v].i - 1, Whole(twTables'[twKnown[j]])
               PROVE  twTables'[twKnown[j]] \in {Stock, Due}
    BY <1>3 DEF PassedAreDue, then
  <2>1. Looping(now[v]) /\ LoopsWell(now[v], twTheme, twKnown, twThemed.id) /\ LoopsWell(then[v], twTheme, twKnown, twThemed'.id)
    <3>1. Looping(now[v])
      BY <1>6
    <3>2. IsAThread(v, now[v], twTheme, twMemo.of, twKnown, twThemed.id, twTables)
          /\ IsAThread(v, then[v], twTheme, twMemo'.of, twKnown, twThemed'.id, twTables')
      BY <1>12 DEF TwThreads, now, then
    <3>3. QED
      BY <3>1, <3>2, ThreadAt DEF Looping
  <2>2. j \in Nat /\ j >= 1 /\ j < then[v].i /\ now[v].i \in Nat /\ j \in DOMAIN twKnown
    <3>1. then[v].i \in Nat /\ then[v].i <= Len(twKnown) + 1 /\ now[v].i \in Nat
      BY <2>1 DEF LoopsWell, Loops
    <3>2. QED
      BY <3>1 DEF TwTypes
  <2>3. CASE twKnown[j] = s
    BY <1>2, <1>10, <2>3
  <2>4. CASE twKnown[j] # s
    <3>1. twTables'[twKnown[j]] = twTables[twKnown[j]]
      BY <1>2, <1>4, <2>2, <2>4
    <3>2. j < now[v].i
      BY <1>6, <2>2, <2>4
    <3>3. j \in 1..now[v].i - 1
      BY <2>2, <3>2
    <3>4. QED
      BY <2>1, <3>1, <3>3 DEF PassedAreDue, now
  <2>5. QED
    BY <2>3, <2>4
<1>18. SitesAreSeen'
  <2> HIDE DEF Looping, WillSee
  <2> DEFINE target == IF \E v \in Threads : Looping(now[v]) THEN Due ELSE Worn
  <2> SUFFICES ASSUME NEW j \in DOMAIN twKnown, Whole(twTables'[twKnown[j]])
               PROVE  \/ twTables'[twKnown[j]] = target
                      \/ \E v \in Threads : WillSee(then[v], j)
    BY <1>3, <1>6 DEF SitesAreSeen, then
  <2>1. CASE twKnown[j] = s
    BY <1>2, <1>4, <1>6, <1>10, <2>1
  <2>2. CASE twKnown[j] # s
    <3>1. twTables'[twKnown[j]] = twTables[twKnown[j]]
      BY <1>2, <1>4, <2>2
    <3>2. \/ twTables[twKnown[j]] = target
          \/ \E v \in Threads : WillSee(now[v], j)
      BY <3>1 DEF SitesAreSeen, now
    <3> HIDE DEF target
    <3>3. QED
      BY <1>4, <1>7, <2>2, <3>1, <3>2
  <2>3. QED
    BY <2>1, <2>2
<1>19. GroundGoesAlong'
  BY <1>3, <1>9 DEF GroundGoesAlong, now, then
<1>20. ScansAreWhole'
  <2> HIDE DEF Rebuilding, StyleOf
  <2>1. QED
    BY <1>5, <1>8, <1>14 DEF ScansAreWhole, now, then
<1>21. QED
  BY <1>11, <1>12, <1>13, <1>15, <1>16, <1>17, <1>18, <1>19, <1>20

\* The pass writes a copy's second word.
LEMMA SecondKeepsIInv == ASSUME TwIInv, NEW w \in Threads, TwSecond(w) PROVE TwIInv'
<1> DEFINE t == twThread[w]
           r == [t EXCEPT !.at = "sites", !.i = @ + 1]
           s == twKnown[t.i]
<1>1. t.at = "second" /\ LoopsWell(t, twTheme, twKnown, twThemed.id)
  BY ThreadAt DEF TwSecond, At, TwIInv, TwThreads
<1>2. Goes(w, r) /\ twTables' = Put(twTables, s, 2, t.words[2])
      /\ UNCHANGED <<twTheme, twKnown, twScanned, twStyle, twThemed, twWritten, twGround, twPal, twMemo>>
  BY DEF TwSecond, Put
<1>3. t \in Loops /\ t.words[2] = twTheme /\ t.wrote /\ t.i \in Nat \ {0} /\ t.i <= Len(twKnown) /\ twKnown \in Seq(TwTables)
      /\ twTheme \in Hues
  BY <1>1 DEF LoopsWell, Loops, TwIInv, TwTypes
<1>4. t.i \in DOMAIN twKnown
  BY <1>3
<1>5. s \in TwTables /\ s \in Range(twKnown) /\ twTables[s] \in Pairs
  BY <1>3, <1>4 DEF TwIInv, SitesAreThere, Range
<1>6. r \in Loops /\ r.at = "sites" /\ r.i = t.i + 1 /\ r.wrote = t.wrote /\ r.pal = t.pal /\ r.words = t.words
      /\ r.ours = t.ours
  <2>1. t \in Loops /\ t.i + 1 \in Nat \ {0}
    BY <1>3
  <2> HIDE DEF t
  <2>2. QED
    BY <2>1 DEF Loops
<1> HIDE DEF r
<1>7. IsAThread(w, r, twTheme, twMemo.of, twKnown, twThemed.id, twTables)
  BY <1>1, <1>3, <1>6 DEF IsAThread, LoopsWell
<1>8. \A j \in Nat : (WillSee(t, j) => WillSee(r, j) \/ twKnown[j] = s) /\ (j < r.i => j < t.i \/ twKnown[j] = s)
  <2> TAKE j \in Nat
  <2>1. j = t.i => twKnown[j] = s
    OBVIOUS
  <2>2. j # t.i => (t.i <= j => r.i <= j) /\ (j < r.i => j < t.i)
    BY <1>3, <1>6
  <2> HIDE DEF s
  <2>3. QED
    BY <1>1, <1>6, <2>1, <2>2 DEF WillSee, Painting, Looping
<1>9. Looping(t) /\ Looping(r) /\ ~Themes(t) /\ ~Themes(r) /\ ~Rebuilding(t) /\ ~Rebuilding(r)
  BY <1>1, <1>6 DEF Looping, Themes, Rebuilding, Painting
<1>10. /\ twTables' = Put(twTables, s, 2, twTheme) /\ 2 \in {1, 2}
       /\ \A j \in Nat : WillSee(t, j) => WillSee(r, j) \/ twKnown[j] = s
       /\ (Looping(t) <=> Looping(r)) /\ (Rebuilding(t) <=> Rebuilding(r)) /\ (Rebuilding(r) => StyleOf(r) = StyleOf(t))
       /\ Looping(r) /\ r.wrote /\ \A j \in Nat : j < r.i => j < t.i \/ twKnown[j] = s
  BY <1>2, <1>3, <1>6, <1>8, <1>9
<1> HIDE DEF s
<1>11. QED
  BY <1>2, <1>3, <1>5, <1>7, <1>9, <1>10, WriteKeepsIInv

\* The application writes its own word.
LEMMA RebuildKeepsIInv == ASSUME TwIInv, TwRebuilds PROVE TwIInv'
<1> DEFINE t == twThread["reply"]
           r == [t EXCEPT !.todo = Tail(@)]
           s == Head(t.todo)[1]
           k == Head(t.todo)[2]
<1>0. "reply" \in Threads
  BY DEF Threads
<1>1. t.at = "rebuild" /\ t.todo # <<>> /\ t \in Rebuilds /\ \A m \in DOMAIN t.todo : twTables[t.todo[m][1]] \in Pairs
  BY <1>0, ThreadAt DEF TwRebuilds, At, TwIInv, TwThreads
<1>2. Goes("reply", r) /\ twTables' = Put(twTables, s, k, Original)
      /\ UNCHANGED <<twTheme, twKnown, twScanned, twStyle, twThemed, twWritten, twGround, twPal, twMemo>>
  BY DEF TwRebuilds, Put
<1>3. t.todo \in Seq(TwTables \X {1, 2})
  BY <1>1 DEF Rebuilds
<1>4. /\ 1 \in DOMAIN t.todo /\ Head(t.todo) = t.todo[1] /\ t.todo[1] \in TwTables \X {1, 2}
      /\ Tail(t.todo) \in Seq(TwTables \X {1, 2})
      /\ \A m \in DOMAIN Tail(t.todo) : m + 1 \in DOMAIN t.todo /\ Tail(t.todo)[m] = t.todo[m + 1]
  BY <1>1, <1>3
<1>5. s \in TwTables /\ k \in {1, 2} /\ twTables[s] \in Pairs
  BY <1>1, <1>4
<1>6. r \in Rebuilds /\ r.at = "rebuild" /\ r.style = t.style /\ r.todo = Tail(t.todo)
  BY <1>1, <1>4 DEF Rebuilds
<1> HIDE DEF r
<1>7. IsAThread("reply", r, twTheme, twMemo.of, twKnown, twThemed.id, twTables)
  <2>1. \A m \in DOMAIN r.todo : twTables[r.todo[m][1]] \in Pairs
    BY <1>1, <1>4, <1>6
  <2> HIDE DEF Rebuilds
  <2>2. QED
    BY <1>6, <2>1 DEF IsAThread
<1>8. ~Looping(t) /\ ~Looping(r) /\ ~Themes(t) /\ ~Themes(r) /\ Rebuilding(t) /\ Rebuilding(r) /\ StyleOf(r) = StyleOf(t)
      /\ \A j \in Nat : WillSee(r, j)
  BY <1>1, <1>6 DEF Looping, Themes, Rebuilding, Painting, StyleOf, WillSee
<1>9. Original \in Hues
  BY StockIsAPair
<1> HIDE DEF s, k
<1>10. /\ \A j \in Nat : WillSee(t, j) => WillSee(r, j) \/ twKnown[j] = s
       /\ (Looping(t) <=> Looping(r)) /\ (Rebuilding(t) <=> Rebuilding(r)) /\ (Rebuilding(r) => StyleOf(r) = StyleOf(t))
       /\ ~Looping(r) /\ Original = Original /\ r.at = "rebuild" /\ ~Themes(t) /\ ~Themes(r)
  BY <1>6, <1>8
<1>11. QED
  BY <1>0, <1>2, <1>5, <1>7, <1>9, <1>10, WriteKeepsIInv

(* A place is passed when it wears what the loop writes, or is the application's own.       *)
LEMMA PassKeepsIInv ==
  ASSUME TwIInv, NEW w \in Threads, twThread[w].at = "sites", twThread[w].i <= Len(twKnown),
         LET s == twKnown[twThread[w].i] IN
           twTables[s] = twThread[w].words \/ ~IsOurs(twTables[s], twThread[w].ours),
         Goes(w, [twThread[w] EXCEPT !.i = @ + 1]), UNCHANGED <<notMemo, twMemo>>
  PROVE  TwIInv'
<1> USE DEF TwIInv
<1> DEFINE now == twThread  then == twThread'  t == twThread[w]  r == [t EXCEPT !.i = @ + 1]  s == twKnown[t.i]
<1>1. then[w] = r /\ \A v \in Threads : v # w => then[v] = now[v]
  BY MoveOf DEF TwThreads
<1>2. LoopsWell(t, twTheme, twKnown, twThemed.id)
  BY ThreadAt DEF TwThreads
<1>3. t \in Loops /\ t.words = Due /\ t.ours = (twTheme # Original) /\ t.i \in Nat \ {0} /\ twKnown \in Seq(TwTables)
  BY <1>2 DEF LoopsWell, Loops, TwTypes, Due
<1>4. r \in Loops /\ r.at = "sites" /\ r.i = t.i + 1 /\ r.wrote = t.wrote /\ r.pal = t.pal /\ r.words = t.words /\ r.ours = t.ours
  BY <1>3 DEF Loops
<1>5. t.i \in DOMAIN twKnown
  BY <1>3
<1>6. UNCHANGED <<twTheme, twTables, twKnown, twScanned, twStyle, twThemed, twWritten, twGround, twPal, twMemo>>
      /\ Due' = Due /\ Worn' = Worn /\ Present' = Present
  BY DEF notMemo, Due, Worn, Present
<1>7. Whole(twTables[s]) => twTables[s] = Due
  <2> SUFFICES ASSUME Whole(twTables[s]), ~IsOurs(twTables[s], t.ours) PROVE twTables[s] = Due
    BY <1>3
  <2>1. \/ twTables[s] = Stock \/ (twWritten # Unset /\ twTables[s] = twWritten.words) \/ twTables[s] = Due
    BY <1>5 DEF SitesAreOurs
  <2>2. twTheme = Original => Due = Stock
    BY DEF Due, Stock
  <2>3. QED
    BY <1>3, <2>1, <2>2 DEF IsOurs
<1> HIDE DEF r
<1>8. /\ \A v \in Threads : (Looping(now[v]) <=> Looping(then[v]))
      /\ \A v \in Threads : Looping(now[v]) /\ now[v].wrote => Looping(then[v]) /\ then[v].wrote
      /\ \A v \in Threads, j \in Nat : j < then[v].i /\ Looping(then[v]) => j < now[v].i \/ (v = w /\ j = t.i)
      /\ \A v \in Threads, j \in Nat : WillSee(now[v], j) => WillSee(then[v], j) \/ j = t.i
      /\ Looping(now[w])
  <2>1. Looping(now[w]) /\ Looping(r)
    BY <1>4 DEF Looping
  <2>2. \A j \in Nat : (j < r.i => j < t.i \/ j = t.i) /\ (WillSee(t, j) => WillSee(r, j) \/ j = t.i)
    BY <1>3, <1>4 DEF WillSee, Painting, Looping
  <2>3. QED
    BY <1>1, <1>4, <2>1, <2>2
<1>9. \A v \in Threads : /\ Themes(now[v]) <=> Themes(then[v])
                         /\ (Rebuilding(then[v]) <=> Rebuilding(now[v]))
                         /\ Rebuilding(now[v]) => StyleOf(then[v]) = StyleOf(now[v])
  BY <1>1, <1>4 DEF Themes, Rebuilding, Painting
<1>10. MemoAnswers' /\ TwTypes' /\ SitesAreThere'
  BY <1>6 DEF MemoAnswers, AnswersAreThePalettes, TwTypes, SitesAreThere
<1>11. TwThreads'
  <2>1. LoopsWell(r, twTheme, twKnown, twThemed.id)
    <3>1. Len(twKnown) \in Nat /\ t.i <= Len(twKnown)
      BY <1>3
    <3> HIDE DEF t
    <3>2. r.i <= Len(twKnown) + 1 /\ r.at # "second"
      BY <1>3, <1>4, <3>1
    <3>3. QED
      BY <1>2, <1>4, <3>2 DEF LoopsWell
  <2>2. IsAThread(w, r, twTheme, twMemo'.of, twKnown', twThemed'.id, twTables')
    BY <1>6, <2>1 DEF IsAThread
  <2>3. Len(twKnown) <= Len(twKnown)
    BY <1>3
  <2>4. QED
    BY <1>3, <1>6, <2>2, <2>3, ThreadsGo DEF r
<1>12. ASSUME NEW v \in Threads, Looping(then[v]) PROVE then[v].i \in Nat
  <2>1. IsAThread(v, then[v], twTheme', twMemo'.of, twKnown', twThemed'.id, twTables')
    BY <1>11 DEF TwThreads
  <2>2. LoopsWell(then[v], twTheme', twKnown', twThemed'.id)
    BY <1>12, <2>1, ThreadAt DEF Looping
  <2>3. QED
    BY <2>2 DEF LoopsWell, Loops
<1>13. ASSUME NEW v \in Threads, Looping(now[v]) PROVE now[v].i \in Nat
  <2>1. LoopsWell(now[v], twTheme, twKnown, twThemed.id)
    BY <1>13, ThreadAt DEF Looping, TwThreads
  <2>2. QED
    BY <2>1 DEF LoopsWell, Loops
<1>14. "reply" \in Threads
  BY DEF Threads
<1>15. DOMAIN twKnown \subseteq Nat
  BY <1>3
<1> HIDE DEF now, then
<1>16. SitesAreOurs'
  <2> HIDE DEF Looping
  <2>1. QED
    BY <1>6, <1>8 DEF SitesAreOurs, now, then
<1>17. PassedAreDue'
  <2> HIDE DEF Looping
  <2> SUFFICES ASSUME NEW v \in Threads, Looping(then[v]), NEW j \in 1..then[v].i - 1, Whole(twTables[twKnown[j]])
               PROVE  twTables[twKnown[j]] \in {Stock, Due}
    BY <1>6 DEF PassedAreDue, then
  <2>1. j \in Nat /\ j >= 1 /\ j < then[v].i /\ now[v].i \in Nat
    BY <1>8, <1>12, <1>13
  <2>2. CASE j < now[v].i
    <3>1. j \in 1..now[v].i - 1
      BY <2>1, <2>2
    <3>2. QED
      BY <1>8, <3>1 DEF PassedAreDue, now
  <2>3. CASE j = t.i
    BY <1>7, <2>3
  <2>4. QED
    BY <1>8, <2>1, <2>2, <2>3
<1>18. SitesAreSeen'
  <2> HIDE DEF Looping, WillSee
  <2> SUFFICES ASSUME NEW j \in DOMAIN twKnown, Whole(twTables[twKnown[j]])
               PROVE  twTables[twKnown[j]] = Due \/ \E v \in Threads : WillSee(then[v], j)
    BY <1>6, <1>8 DEF SitesAreSeen, then
  <2>1. twTables[twKnown[j]] = Due \/ \E v \in Threads : WillSee(now[v], j)
    BY <1>8 DEF SitesAreSeen, now
  <2>2. QED
    BY <1>7, <1>8, <1>15, <2>1
<1>19. GroundGoesAlong'
  BY <1>6, <1>9 DEF GroundGoesAlong, now, then
<1>20. ScansAreWhole'
  <2> HIDE DEF Rebuilding, StyleOf
  <2>1. QED
    BY <1>6, <1>9, <1>14 DEF ScansAreWhole, now, then
<1>21. QED
  BY <1>10, <1>11, <1>16, <1>17, <1>18, <1>19, <1>20

\* The pass takes a copy up, or passes it by.
LEMMA SiteKeepsIInv == ASSUME TwIInv, NEW w \in Threads, TwSite(w) PROVE TwIInv'
<1> DEFINE t == twThread[w]
           r == [t EXCEPT !.at = "second", !.wrote = TRUE]
           s == twKnown[t.i]
<1>1. t.at = "sites" /\ t.i <= Len(twKnown) /\ LoopsWell(t, twTheme, twKnown, twThemed.id)
      /\ UNCHANGED <<twTheme, twKnown, twScanned, twStyle, twThemed, twWritten, twGround, twPal, twMemo>>
  BY ThreadAt DEF TwSite, At, TwIInv, TwThreads
<1>2. CASE (twTables[s] = t.words \/ ~IsOurs(twTables[s], t.ours)) /\ Goes(w, [t EXCEPT !.i = @ + 1]) /\ UNCHANGED twTables
  BY <1>1, <1>2, PassKeepsIInv DEF notMemo
<1>3. CASE twTables' = [twTables EXCEPT ![s][1] = t.words[1]] /\ Goes(w, r)
  <2>1. twTables' = Put(twTables, s, 1, t.words[1])
    BY <1>3 DEF Put
  <2>2. t \in Loops /\ t.words[1] = twTheme /\ t.i \in Nat \ {0} /\ twKnown \in Seq(TwTables) /\ twTheme \in Hues
    BY <1>1 DEF LoopsWell, Loops, TwIInv, TwTypes
  <2>3. t.i \in DOMAIN twKnown
    BY <1>1, <2>2
  <2>4. s \in TwTables /\ s \in Range(twKnown) /\ twTables[s] \in Pairs
    BY <2>2, <2>3 DEF TwIInv, SitesAreThere, Range
  <2>5. r \in Loops /\ r.at = "second" /\ r.i = t.i /\ r.wrote = TRUE /\ r.pal = t.pal /\ r.words = t.words /\ r.ours = t.ours
    BY <2>2 DEF Loops
  <2> HIDE DEF r
  <2>6. IsAThread(w, r, twTheme, twMemo.of, twKnown, twThemed.id, twTables)
    BY <1>1, <2>2, <2>5 DEF IsAThread, LoopsWell
  <2>7. /\ Looping(t) /\ Looping(r) /\ ~Themes(t) /\ ~Themes(r) /\ ~Rebuilding(t) /\ ~Rebuilding(r)
        /\ \A j \in Nat : WillSee(t, j) => WillSee(r, j)
    BY <1>1, <2>5 DEF Looping, Themes, Rebuilding, Painting, WillSee
  <2> HIDE DEF s
  <2>8. /\ twTables' = Put(twTables, s, 1, twTheme) /\ 1 \in {1, 2}
        /\ \A j \in Nat : WillSee(t, j) => WillSee(r, j) \/ twKnown[j] = s
        /\ (Looping(t) <=> Looping(r)) /\ (Rebuilding(t) <=> Rebuilding(r)) /\ (Rebuilding(r) => StyleOf(r) = StyleOf(t))
        /\ Looping(r) /\ r.wrote /\ \A j \in Nat : j < r.i => j < t.i \/ twKnown[j] = s
    BY <2>1, <2>2, <2>5, <2>7
  <2>9. QED
    BY <1>1, <1>3, <2>2, <2>4, <2>6, <2>7, <2>8, WriteKeepsIInv
<1>4. QED
  BY <1>2, <1>3 DEF TwSite

-----------------------------------------------------------------------------
(* A loop begins, and ends.                                                     *)

(* The entries of a sequence made of a finite set are the set's, and all of it.        *)
LEMMA SeqOfSet ==
  ASSUME NEW S, IsFiniteSet(S)
  PROVE  /\ SetToSeq(S) \in Seq(S) /\ Len(SetToSeq(S)) = Cardinality(S) /\ Cardinality(S) \in Nat
         /\ Range(SetToSeq(S)) = S
<1> DEFINE n == Cardinality(S)  q == SetToSeq(S)
<1>1. n \in Nat /\ ExistsBijection(1..n, S)
  BY FS_CardinalityType
<1>2. \E f \in [1..n -> S] : IsInjective(f)
  <2>1. PICK f \in Bijection(1..n, S) : TRUE
    BY <1>1 DEF ExistsBijection
  <2>2. f \in [1..n -> S] /\ \A a, b \in 1..n : f[a] = f[b] => a = b
    BY <2>1 DEF Bijection, Injection, IsInjective
  <2>3. QED
    BY <2>2 DEF IsInjective
<1>3. q \in [1..n -> S] /\ IsInjective(q)
  BY <1>2 DEF SetToSeq
<1> HIDE DEF q
<1>4. q \in Seq(S) /\ Len(q) = n
  BY <1>1, <1>3
<1>5. q \in Injection(1..n, S)
  BY <1>3 DEF Injection, IsInjective
<1>6. q \in Surjection(1..n, S)
  <2>1. IsFiniteSet(1..n) /\ Cardinality(1..n) = n
    BY <1>1, FS_Interval
  <2>2. QED
    BY <1>5, <2>1, FS_Injection
<1>7. Range(q) = S
  BY <1>3, <1>6 DEF Surjection, Range
<1>8. QED
  BY <1>1, <1>4, <1>7 DEF q

Fresh == {t \in TwTables : twTables[t] = Stock}
Grows(known, known2) ==
  /\ known2 \in Seq(TwTables) /\ Len(known) <= Len(known2)
  /\ \A j \in 1..Len(known) : known2[j] = known[j]
  /\ \A j \in 1..Len(known2) : j <= Len(known) \/ twTables[known2[j]] = Stock

\* A scan adds copies that are stock, and all of them while there is room.
LEMMA ScanGrows ==
  ASSUME TwTypes
  PROVE  Grows(twKnown, twKnown) /\ Grows(twKnown, Scan)
         /\ Len(Scan) <= TwSites /\ (Len(Scan) < TwSites => Fresh \subseteq Range(Scan))
<1> DEFINE S == Fresh \ Range(twKnown)
           found == SetToSeq(S)
           room == TwSites - Len(twKnown)
           m == IF Len(found) < room THEN Len(found) ELSE room
           more == SubSeq(found, 1, m)
<1>1. IsFiniteSet(S) /\ S \subseteq TwTables
  BY FS_Subset, TwAssumption DEF Fresh
<1> HIDE DEF S
<1>2. found \in Seq(S) /\ Range(found) = S
  BY <1>1, SeqOfSet
<1>3. Scan = twKnown \o more
  BY DEF Scan, Fresh, S
<1>4. twKnown \in Seq(TwTables) /\ Len(twKnown) \in Nat /\ TwSites \in Nat /\ Len(found) \in Nat /\ room \in Nat
  BY <1>2, TwAssumption DEF TwTypes
<1> HIDE DEF found
<1>5. m \in Nat /\ m <= Len(found) /\ m <= room /\ (m < room => m = Len(found))
  BY <1>4
<1> HIDE DEF m
<1>6. more \in Seq(S) /\ Len(more) = m /\ \A j \in 1..m : more[j] = found[j]
  BY <1>2, <1>4, <1>5
<1> HIDE DEF more
<1>7. \A j \in 1..m : more[j] \in S
  BY <1>6
<1>8. more \in Seq(TwTables)
  BY <1>1, <1>6
<1>9. /\ Scan \in Seq(TwTables) /\ Len(Scan) = Len(twKnown) + m
      /\ \A j \in 1..Len(twKnown) : Scan[j] = twKnown[j]
      /\ \A j \in 1..m : Scan[Len(twKnown) + j] = more[j]
  <2>1. \A a, b \in Seq(TwTables) :
          /\ a \o b \in Seq(TwTables) /\ Len(a \o b) = Len(a) + Len(b)
          /\ \A j \in 1..Len(a) : (a \o b)[j] = a[j]
          /\ \A j \in 1..Len(b) : (a \o b)[Len(a) + j] = b[j]
    OBVIOUS
  <2>2. QED
    BY <1>3, <1>4, <1>6, <1>8, <2>1
<1>10. ASSUME NEW j \in 1..Len(Scan), ~(j <= Len(twKnown)) PROVE twTables[Scan[j]] = Stock
  <2> DEFINE k == j - Len(twKnown)
  <2>1. k \in 1..m /\ j = Len(twKnown) + k
    BY <1>4, <1>5, <1>9, <1>10
  <2> HIDE DEF k
  <2>2. Scan[j] \in S
    BY <1>7, <1>9, <2>1
  <2>3. QED
    BY <2>2 DEF S, Fresh
<1>11. Grows(twKnown, Scan)
  BY <1>4, <1>5, <1>9, <1>10 DEF Grows
<1>12. Grows(twKnown, twKnown)
  BY <1>4 DEF Grows
<1>13. Len(Scan) <= TwSites
  BY <1>4, <1>5, <1>9
<1>14. ASSUME Len(Scan) < TwSites, NEW x \in Fresh PROVE x \in Range(Scan)
  <2>1. m = Len(found)
    BY <1>4, <1>5, <1>9, <1>14
  <2>2. CASE x \in Range(twKnown)
    <3>1. PICK j \in 1..Len(twKnown) : twKnown[j] = x
      BY <1>4, <2>2 DEF Range
    <3>2. Scan[j] = x /\ j \in DOMAIN Scan
      BY <1>4, <1>5, <1>9, <3>1
    <3>3. QED
      BY <3>2 DEF Range
  <2>3. CASE x \notin Range(twKnown)
    <3>1. x \in Range(found)
      BY <1>2, <2>3 DEF S
    <3>2. PICK j \in 1..m : found[j] = x
      BY <1>2, <2>1, <3>1 DEF Range
    <3>3. Scan[Len(twKnown) + j] = x /\ Len(twKnown) + j \in DOMAIN Scan
      BY <1>4, <1>5, <1>6, <1>9, <3>2
    <3>4. QED
      BY <3>3 DEF Range
  <2>4. QED
    BY <2>2, <2>3
<1>15. QED
  BY <1>11, <1>12, <1>13, <1>14

(* A loop begins with every place before it.                                        *)
LEMMA StartKeepsIInv ==
  ASSUME TwIInv, NEW w \in Threads, NEW r, Goes(w, r), ~Looping(twThread[w]),
         UNCHANGED <<twTheme, twTables, twStyle, twWritten, twMemo>>, Grows(twKnown, twKnown'),
         TwTypes', TwThreads', GroundGoesAlong', ScansAreWhole',
         \A j \in Nat \ {0} : WillSee(r, j), Looping(r) => r.i = 1
  PROVE  TwIInv'
<1> USE DEF TwIInv
<1> DEFINE now == twThread  then == twThread'
<1>1. then[w] = r /\ \A v \in Threads : v # w => then[v] = now[v]
  BY MoveOf DEF TwThreads
<1>2. Due' = Due
  BY DEF Due
<1>3. /\ twKnown \in Seq(TwTables) /\ twKnown' \in Seq(TwTables) /\ Len(twKnown) \in Nat /\ Len(twKnown') \in Nat
      /\ DOMAIN twKnown = 1..Len(twKnown) /\ DOMAIN twKnown' = 1..Len(twKnown') /\ Len(twKnown) <= Len(twKnown')
      /\ \A j \in DOMAIN twKnown : j \in DOMAIN twKnown' /\ twKnown'[j] = twKnown[j]
      /\ \A j \in DOMAIN twKnown' : j \in Nat \ {0} /\ (j \in DOMAIN twKnown \/ twTables[twKnown'[j]] = Stock)
  BY DEF TwTypes, Grows
<1>4. \A v \in Threads : Looping(now[v]) => v # w /\ then[v] = now[v]
  BY <1>1
<1>5. \A v \in Threads : Looping(then[v]) => then[v] = now[v] \/ then[v].i = 1
  BY <1>1
<1> HIDE DEF now, then
<1>6. MemoAnswers'
  BY DEF MemoAnswers, AnswersAreThePalettes
<1>7. SitesAreThere'
  <2>1. \A j \in DOMAIN twKnown' : twTables[twKnown'[j]] \in Pairs
    BY <1>3, StockIsAPair DEF SitesAreThere
  <2>2. Range(twKnown) \subseteq Range(twKnown')
    BY <1>3 DEF Range
  <2>3. QED
    BY <2>1, <2>2 DEF SitesAreThere
<1>8. SitesAreOurs'
  <2> HIDE DEF Looping
  <2> SUFFICES ASSUME NEW j \in DOMAIN twKnown', Whole(twTables[twKnown'[j]])
               PROVE  \/ twTables[twKnown'[j]] = Stock \/ (twWritten # Unset /\ twTables[twKnown'[j]] = twWritten.words)
                      \/ twTables[twKnown'[j]] = Due /\ \E v \in Threads : Looping(then[v]) /\ then[v].wrote
    BY <1>2 DEF SitesAreOurs, then
  <2>1. CASE j \notin DOMAIN twKnown
    BY <1>3, <2>1
  <2>2. CASE j \in DOMAIN twKnown
    <3>1. twKnown'[j] = twKnown[j]
      BY <1>3, <2>2
    <3>2. QED
      BY <1>4, <2>2, <3>1 DEF SitesAreOurs, now
  <2>3. QED
    BY <2>1, <2>2
<1>9. PassedAreDue'
  <2> HIDE DEF Looping
  <2> SUFFICES ASSUME NEW v \in Threads, Looping(then[v]), NEW j \in 1..then[v].i - 1, Whole(twTables[twKnown'[j]])
               PROVE  twTables[twKnown'[j]] \in {Stock, Due}
    BY <1>2 DEF PassedAreDue, then
  <2>1. then[v] = now[v]
    BY <1>5
  <2>2. LoopsWell(now[v], twTheme, twKnown, twThemed.id)
    BY <2>1, ThreadAt DEF TwThreads, Looping, now
  <2>3. now[v].i \in Nat /\ now[v].i <= Len(twKnown) + 1
    BY <2>2 DEF LoopsWell, Loops
  <2>4. j \in DOMAIN twKnown
    BY <1>3, <2>1, <2>3
  <2>5. twKnown'[j] = twKnown[j]
    BY <1>3, <2>4
  <2>6. QED
    BY <2>1, <2>5 DEF PassedAreDue, now
<1>10. SitesAreSeen'
  <2>1. \A j \in DOMAIN twKnown' : WillSee(then[w], j)
    BY <1>1, <1>3
  <2> HIDE DEF Looping, WillSee
  <2>2. QED
    BY <2>1 DEF SitesAreSeen, then
<1>11. QED
  BY <1>6, <1>7, <1>8, <1>9, <1>10

(* A loop ends with every place after it: what is whole is in the theme, or another loop   *)
(* is to come to it.                                                           *)
LEMMA EndKeepsIInv ==
  ASSUME TwIInv, NEW w \in Threads, Goes(w, Idle), ~Rebuilding(twThread[w]),
         UNCHANGED <<twTheme, twTables, twKnown, twScanned, twStyle, twMemo>>,
         TwTypes', TwThreads', Worn' = Due, twPal' = twTheme, twGround' = GroundUnder(twTheme),
         \A j \in DOMAIN twKnown : Whole(twTables[twKnown[j]]) =>
           \/ twTables[twKnown[j]] = Due
           \/ \E v \in Threads : v # w /\ WillSee(twThread[v], j),
         \A j \in DOMAIN twKnown : Whole(twTables[twKnown[j]]) =>
           \/ twTables[twKnown[j]] = Stock \/ (twWritten' # Unset /\ twTables[twKnown[j]] = twWritten'.words)
           \/ twTables[twKnown[j]] = Due /\ \E v \in Threads : v # w /\ Looping(twThread[v]) /\ twThread[v].wrote
  PROVE  TwIInv'
<1> USE DEF TwIInv
<1> DEFINE now == twThread  then == twThread'
<1>1. then[w] = Idle /\ \A v \in Threads : v # w => then[v] = now[v]
  BY MoveOf DEF TwThreads
<1>2. Due' = Due /\ Present' = Present /\ Due[1] = twTheme
  BY DEF Due, Present
<1>3. ~Looping(Idle) /\ ~Rebuilding(Idle)
  BY DEF Idle, Looping, Rebuilding, Painting
<1>4. \A v \in Threads : Looping(then[v]) => then[v] = now[v]
  BY <1>1, <1>3
<1>5. Rebuilding(now["reply"]) \/ Rebuilding(then["reply"]) => then["reply"] = now["reply"]
  BY <1>1, <1>3 DEF Threads
<1> HIDE DEF now, then
<1>6. MemoAnswers'
  BY DEF MemoAnswers, AnswersAreThePalettes
<1>7. SitesAreThere'
  BY DEF SitesAreThere
<1>8. SitesAreOurs'
  <2> HIDE DEF Looping
  <2>1. QED
    BY <1>1, <1>2 DEF SitesAreOurs, now, then
<1>9. PassedAreDue'
  <2> HIDE DEF Looping
  <2>1. QED
    BY <1>2, <1>4 DEF PassedAreDue, now, then
<1>10. SitesAreSeen'
  <2> HIDE DEF Looping, WillSee
  <2>1. QED
    BY <1>1, <1>2 DEF SitesAreSeen, now, then
<1>11. GroundGoesAlong'
  BY <1>2 DEF GroundGoesAlong
<1>12. ScansAreWhole'
  <2> HIDE DEF Rebuilding, StyleOf
  <2>1. QED
    BY <1>2, <1>5 DEF ScansAreWhole, now, then
<1>13. QED
  BY <1>6, <1>7, <1>8, <1>9, <1>10, <1>11, <1>12

(* mod_theme and theme_id agree while no selection comes in between: what is to be done   *)
(* is done in the theme that is selected.                                           *)
LEMMA NumberKeepsIInv == ASSUME TwIInv, NEW w \in Threads, TwNumber(w) PROVE TwIInv'
<1> USE DEF TwIInv
<1> DEFINE t == twThread[w]
<1>1. /\ t.at = "number" /\ t.pal = twTheme
      /\ UNCHANGED <<twTheme, twTables, twStyle, twWritten, twMemo>>
  BY ThreadAt DEF TwNumber, At, TwThreads
<1>2. ~Looping(t) /\ ~Rebuilding(t) /\ ~Themes(t)
  BY <1>1 DEF Looping, Rebuilding, Themes, Painting
<1>3. /\ twTheme \in Hues /\ twKnown \in Seq(TwTables) /\ (twKnown' = twKnown => Grows(twKnown, twKnown'))
      /\ Len(twKnown) \in Nat /\ Len(twKnown) <= Len(twKnown)
  BY ScanGrows DEF TwTypes
<1>4. MemoAnswers' /\ Due' = Due /\ Due = <<twTheme, twTheme>> /\ Due[1] = twTheme
  BY <1>1 DEF MemoAnswers, AnswersAreThePalettes, Due
<1>5. CASE t.pal = Original /\ twWritten = Unset /\ Disarm /\ Goes(w, Idle) /\ UNCHANGED <<twKnown, twScanned>>
  <2>1. twTheme = Original /\ Due = Stock /\ twThemed' = Unset /\ twGround' = Black /\ twPal' = Original
    BY <1>1, <1>4, <1>5 DEF Disarm, Stock
  <2>2. Worn' = Due /\ twGround' = GroundUnder(twTheme) /\ twPal' = twTheme
    BY <2>1 DEF Worn, GroundUnder, Stock
  <2>3. TwTypes'
    BY <1>1, <1>5, <2>1 DEF TwTypes
  <2>4. TwThreads'
    <3>1. IsAThread(w, Idle, twTheme, twMemo'.of, twKnown', twThemed'.id, twTables')
      BY DEF IsAThread
    <3>2. QED
      BY <1>1, <1>3, <1>5, <2>1, <3>1, ThreadsGo
  <2>5. \A j \in DOMAIN twKnown : Whole(twTables[twKnown[j]]) => twTables[twKnown[j]] = Stock
    BY <1>5, <2>1 DEF SitesAreOurs
  <2> HIDE DEF t
  <2>6. QED
    BY <1>1, <1>2, <1>5, <2>1, <2>2, <2>3, <2>4, <2>5, EndKeepsIInv DEF t
<1>6. ASSUME NEW r, Goes(w, r), Looping(r) => r.i = 1, Grows(twKnown, twKnown'), TwTypes',
             IsAThread(w, r, twTheme, twMemo.of, twKnown', twThemed.id, twTables),
             ~Rebuilding(r), \A j \in Nat \ {0} : WillSee(r, j), UNCHANGED <<twThemed, twGround>>,
             \/ twPal' = twTheme /\ (Themes(r) \/ Worn[1] = twTheme)
             \/ twPal' = twPal /\ ~Themes(r),
             \/ UNCHANGED <<twKnown, twScanned>>
             \/ Len(twKnown') < TwSites => Present \subseteq Range(twKnown')
      PROVE  TwIInv'
  <2> DEFINE now == twThread  then == twThread'
  <2>1. then[w] = r /\ \A v \in Threads : v # w => then[v] = now[v]
    BY <1>6, MoveOf DEF TwThreads
  <2>2. /\ \A v \in Threads : Themes(then[v]) <=> IF v = w THEN Themes(r) ELSE Themes(now[v])
        /\ \A v \in Threads : Rebuilding(then[v]) \/ Rebuilding(now[v]) => then[v] = now[v]
    BY <1>2, <1>6, <2>1
  <2>3. Worn' = Worn /\ Present' = Present /\ "reply" \in Threads
    BY <1>1, <1>6 DEF Worn, Present, Threads
  <2>4. TwThreads'
    <3>1. twKnown' \in Seq(TwTables) /\ Len(twKnown) <= Len(twKnown')
      BY <1>6 DEF Grows
    <3>2. QED
      BY <1>1, <1>3, <1>6, <3>1, ThreadsGo
  <2> HIDE DEF now, then, t
  <2>5. GroundGoesAlong'
    <3>1. CASE twPal' = twTheme /\ (Themes(r) \/ Worn[1] = twTheme)
      BY <1>1, <1>6, <2>2, <2>3, <3>1 DEF GroundGoesAlong, then
    <3>2. CASE twPal' = twPal /\ ~Themes(r)
      <4>1. (\E v \in Threads : Themes(then[v])) <=> \E v \in Threads : Themes(now[v])
        BY <1>2, <2>2, <3>2 DEF now, t
      <4>2. QED
        BY <1>1, <1>6, <2>3, <3>2, <4>1 DEF GroundGoesAlong, now, then
    <3>3. QED
      BY <1>6, <3>1, <3>2
  <2>6. ScansAreWhole'
    <3> HIDE DEF Rebuilding, StyleOf
    <3>1. CASE UNCHANGED <<twKnown, twScanned>>
      BY <1>1, <2>2, <2>3, <3>1 DEF ScansAreWhole, now, then
    <3>2. CASE Len(twKnown') < TwSites => Present \subseteq Range(twKnown')
      BY <1>1, <2>2, <2>3, <3>2 DEF ScansAreWhole, now, then
    <3>3. QED
      BY <1>6, <3>1, <3>2
  <2>7. QED
    BY <1>1, <1>2, <1>6, <2>4, <2>5, <2>6, StartKeepsIInv DEF t
<1>7. CASE t.pal = Original /\ Goes(w, Loop(Original, Stock, FALSE, FALSE))
           /\ UNCHANGED <<twThemed, twGround, twPal, twKnown, twScanned>>
  <2> DEFINE r == Loop(Original, Stock, FALSE, FALSE)
  <2>1. /\ r \in Loops /\ r.at = "sites" /\ r.i = 1 /\ r.pal = Original /\ r.words = Stock /\ r.ours = FALSE
    BY StockIsAPair DEF Loop, Loops
  <2> HIDE DEF r
  <2>2. twTheme = Original /\ r.words = <<twTheme, twTheme>> /\ r.i <= Len(twKnown) + 1
    BY <1>1, <1>3, <1>7, <2>1, StockIsAPair
  <2>3. IsAThread(w, r, twTheme, twMemo.of, twKnown', twThemed.id, twTables)
    BY <1>7, <2>1, <2>2 DEF IsAThread, LoopsWell
  <2>4. ~Rebuilding(r) /\ ~Themes(r) /\ \A j \in Nat \ {0} : WillSee(r, j)
    BY <2>1 DEF Rebuilding, Themes, Painting, WillSee, Looping
  <2>5. TwTypes'
    BY <1>1, <1>7 DEF TwTypes
  <2> HIDE DEF t
  <2>6. QED
    BY <1>3, <1>6, <1>7, <2>1, <2>3, <2>4, <2>5 DEF r
<1>8. CASE /\ t.pal # Original
           /\ twKnown' = (IF twScanned THEN twKnown ELSE Scan) /\ twScanned' = TRUE
           /\ twPal' = t.pal
           /\ Goes(w, IF twThemed.id = twTheme THEN Loop(t.pal, twThemed.words, TRUE, FALSE)
                      ELSE Asks(t.pal, twTheme, Words, "themed"))
           /\ UNCHANGED <<twThemed, twGround>>
  <2>1. twTheme \in TwThemes /\ twTheme # Original /\ twPal' = twTheme
    BY <1>1, <1>8 DEF TwTypes, Hues
  <2>2. /\ Grows(twKnown, twKnown') /\ Len(twKnown') <= TwSites
        /\ \/ UNCHANGED <<twKnown, twScanned>>
           \/ Len(twKnown') < TwSites => Present \subseteq Range(twKnown')
    <3>1. CASE twScanned
      <4>1. twKnown' = twKnown /\ twScanned' = twScanned
        BY <1>8, <3>1 DEF TwTypes
      <4>2. QED
        BY <1>3, <4>1 DEF TwTypes
    <3>2. CASE ~twScanned
      <4>1. Grows(twKnown, twKnown') /\ Len(twKnown') <= TwSites /\ (Len(twKnown') < TwSites => Fresh \subseteq Range(twKnown'))
        BY <1>8, <3>2, ScanGrows
      <4>2. ASSUME Fresh \subseteq Range(twKnown'), NEW x \in Present PROVE x \in Range(twKnown')
        <5>1. CASE x \in Range(twKnown)
          <6>1. PICK j \in 1..Len(twKnown) : twKnown[j] = x
            BY <1>3, <5>1 DEF Range, TwTypes
          <6>2. j \in 1..Len(twKnown') /\ twKnown'[j] = x
            BY <1>3, <4>1, <6>1 DEF Grows
          <6>3. j \in DOMAIN twKnown'
            BY <4>1, <6>2 DEF Grows
          <6>4. QED
            BY <6>2, <6>3 DEF Range
        <5>2. CASE x \notin Range(twKnown)
          BY <4>2, <5>2 DEF SitesAreThere, Present, Fresh
        <5>3. QED
          BY <5>1, <5>2
      <4>3. QED
        BY <4>1, <4>2
    <3>3. QED
      BY <3>1, <3>2
  <2>3. twKnown' \in Seq(TwTables) /\ Len(twKnown') \in Nat
    BY <2>2 DEF Grows
  <2>4. TwTypes'
    BY <1>1, <1>8, <2>2, <2>3 DEF TwTypes
  <2>5. CASE twThemed.id = twTheme
    <3> DEFINE r == Loop(twTheme, Due, TRUE, FALSE)
    <3>1. twThemed # Unset /\ twThemed.words = Due
      <4>1. Unset.id = "none" /\ "none" \notin TwThemes
        BY TwAssumption DEF Unset
      <4>2. PICK h \in TwThemes : twThemed = [id |-> h, words |-> <<h, h>>]
        BY <2>1, <2>5, <4>1 DEF TwTypes
      <4>3. twThemed.id = h /\ twThemed.words = <<h, h>>
        BY <4>2
      <4>4. QED
        BY <1>4, <2>1, <2>5, <4>1, <4>3
    <3>2. Worn[1] = twTheme
      BY <1>4, <3>1 DEF Worn
    <3>3. Goes(w, r)
      BY <1>1, <1>8, <2>5, <3>1
    <3>4. r \in Loops /\ r.at = "sites" /\ r.i = 1 /\ r.pal = twTheme /\ r.words = <<twTheme, twTheme>> /\ r.ours = TRUE
      BY <1>3, <1>4, PairOf DEF Loop, Loops
    <3> HIDE DEF r
    <3>5. r.i <= Len(twKnown') + 1
      BY <2>3, <3>4
    <3>6. IsAThread(w, r, twTheme, twMemo.of, twKnown', twThemed.id, twTables)
      BY <2>1, <2>5, <3>4, <3>5 DEF IsAThread, LoopsWell
    <3>7. ~Rebuilding(r) /\ ~Themes(r) /\ \A j \in Nat \ {0} : WillSee(r, j)
      BY <3>4 DEF Rebuilding, Themes, Painting, WillSee, Looping
    <3> HIDE DEF t
    <3>8. QED
      BY <1>6, <1>8, <2>1, <2>2, <2>4, <3>2, <3>3, <3>4, <3>6, <3>7
  <2>6. CASE twThemed.id # twTheme
    <3> DEFINE r == Asks(twTheme, twTheme, Words, "themed")
    <3>1. Goes(w, r)
      BY <1>1, <1>8, <2>6
    <3>2. Words \in Seq({"ink", "ground"})
      BY DEF Words
    <3>3. /\ r \in Asks2 /\ r.at = "ask" /\ r.pal = twTheme /\ r.id = twTheme /\ r.todo = Words /\ r.got = <<>>
          /\ r.then = "themed"
      BY <2>1, <3>2 DEF Asks, Asks2
    <3> HIDE DEF r
    <3>4. IsAThread(w, r, twTheme, twMemo.of, twKnown', twThemed.id, twTables)
      BY <3>3 DEF IsAThread, AsksWell
    <3>5. ~Looping(r) /\ ~Rebuilding(r) /\ Themes(r) /\ \A j \in Nat \ {0} : WillSee(r, j)
      BY <3>3 DEF Rebuilding, Themes, Painting, WillSee, Looping
    <3> HIDE DEF t
    <3>6. QED
      BY <1>6, <1>8, <2>1, <2>2, <2>4, <3>1, <3>4, <3>5
  <2>7. QED
    BY <2>5, <2>6
<1>9. QED
  BY <1>5, <1>7, <1>8 DEF TwNumber

\* What was computed is the theme's, and so is the ground, unless the theme leaves it black.
LEMMA ComputedKeepsIInv == ASSUME TwIInv, NEW w \in Threads, TwComputed(w) PROVE TwIInv'
<1> USE DEF TwIInv
<1> DEFINE t == twThread[w]
           r == Loop(twTheme, Due, TRUE, FALSE)
<1>1. /\ t.at = "ask" /\ t.todo = <<>> /\ t.then = "themed" /\ AsksWell(w, t, twTheme, twMemo.of)
      /\ twThemed' = [id |-> t.id, words |-> t.got]
      /\ twGround' = IF t.got[2] \in TwDark THEN Black ELSE t.got[2]
      /\ Goes(w, Loop(t.pal, t.got, TRUE, FALSE))
      /\ UNCHANGED <<twTheme, twTables, twKnown, twScanned, twStyle, twWritten, twPal, twMemo>>
  BY ThreadAt DEF TwComputed, At, TwThreads
<1>2. t.pal = twTheme /\ t.id = twTheme /\ twTheme \in TwThemes
  BY <1>1 DEF AsksWell, Asks2
<1>3. Due = <<twTheme, twTheme>> /\ Due' = Due /\ Due[1] = twTheme /\ Due[2] = twTheme /\ Present' = Present /\ twTheme \in Hues
  BY <1>1, <1>2 DEF Due, Present, Hues
<1>4. t.got = Due
  <2>1. Words # <<>> /\ <<"ground">> # <<>>
    BY DEF Words
  <2>2. QED
    BY <1>1, <1>3, <2>1 DEF AsksWell
<1>5. Original # twTheme /\ "none" # twTheme
  BY <1>2, TwAssumption DEF Original
<1>6. twThemed' = [id |-> twTheme, words |-> Due] /\ twGround' = GroundUnder(twTheme) /\ Goes(w, r)
  BY <1>1, <1>2, <1>3, <1>4, <1>5 DEF GroundUnder
<1>7. twThemed'.id = twTheme /\ twThemed'.words = Due /\ twThemed' # Unset
  BY <1>5, <1>6 DEF Unset
<1>8. ~Looping(t) /\ ~Rebuilding(t) /\ Themes(t)
  BY <1>1 DEF Looping, Rebuilding, Themes, Painting
<1>9. r \in Loops /\ r.at = "sites" /\ r.i = 1 /\ r.pal = twTheme /\ r.words = <<twTheme, twTheme>> /\ r.ours = TRUE
  BY <1>3, PairOf DEF Loop, Loops
<1> HIDE DEF r
<1>10. ~Rebuilding(r) /\ ~Themes(r) /\ \A j \in Nat \ {0} : WillSee(r, j)
  BY <1>9 DEF Rebuilding, Themes, Painting, WillSee, Looping
<1>11. twKnown \in Seq(TwTables) /\ Len(twKnown) \in Nat /\ Len(twKnown) <= Len(twKnown) /\ r.i <= Len(twKnown) + 1
  BY <1>9 DEF TwTypes
<1>12. MemoAnswers' /\ TwTypes'
  BY <1>1, <1>2, <1>3, <1>6 DEF MemoAnswers, AnswersAreThePalettes, TwTypes
<1>13. TwThreads'
  <2>1. IsAThread(w, r, twTheme, twMemo.of, twKnown, twTheme, twTables)
    BY <1>5, <1>9, <1>11 DEF IsAThread, LoopsWell
  <2>2. QED
    BY <1>1, <1>6, <1>7, <1>11, <2>1, ThreadsGo
<1> DEFINE now == twThread  then == twThread'
<1>14. then[w] = r /\ \A v \in Threads : v # w => then[v] = now[v]
  BY <1>6, MoveOf DEF TwThreads
<1>15. \A v \in Threads : Rebuilding(then[v]) \/ Rebuilding(now[v]) => then[v] = now[v]
  BY <1>8, <1>10, <1>14
<1>16. GroundGoesAlong'
  <2>1. twPal = twTheme
    BY <1>8 DEF GroundGoesAlong
  <2>2. Worn' = Due
    BY <1>7 DEF Worn
  <2>3. QED
    BY <1>1, <1>3, <1>6, <2>1, <2>2 DEF GroundGoesAlong
<1>17. ScansAreWhole'
  <2>1. "reply" \in Threads
    BY DEF Threads
  <2> HIDE DEF Rebuilding, StyleOf, now, then
  <2>2. QED
    BY <1>1, <1>3, <1>15, <2>1 DEF ScansAreWhole, now, then
<1>18. Grows(twKnown, twKnown')
  BY <1>1, ScanGrows
<1> HIDE DEF t, now, then
<1>19. QED
  BY <1>1, <1>6, <1>8, <1>9, <1>10, <1>12, <1>13, <1>16, <1>17, <1>18, StartKeepsIInv DEF t

(* The loop's end: every copy that is whole was stock or ours as the loop passed, and wears   *)
(* what the loop writes.                                                            *)
LEMMA AppliedKeepsIInv == ASSUME TwIInv, NEW w \in Threads, TwApplied(w) PROVE TwIInv'
<1> USE DEF TwIInv
<1> DEFINE t == twThread[w]
<1>1. /\ t.at = "sites" /\ t.i > Len(twKnown) /\ Goes(w, Idle) /\ LoopsWell(t, twTheme, twKnown, twThemed.id)
      /\ UNCHANGED <<twTheme, twTables, twKnown, twScanned, twStyle, twMemo>>
  BY ThreadAt DEF TwApplied, At, TwThreads
<1>2. /\ t.pal = twTheme /\ t.words = Due /\ t.i \in Nat /\ Len(twKnown) \in Nat /\ twKnown \in Seq(TwTables)
      /\ DOMAIN twKnown = 1..Len(twKnown) /\ Len(twKnown) <= Len(twKnown)
      /\ (twTheme # Original => twThemed.id = twTheme) /\ twTheme \in Hues
  BY <1>1 DEF LoopsWell, Loops, TwTypes, Due
<1>3. ~Rebuilding(t) /\ Looping(t) /\ ~Themes(t)
  BY <1>1 DEF Looping, Rebuilding, Themes, Painting
<1>4. \A j \in DOMAIN twKnown : ~WillSee(t, j)
  BY <1>1, <1>2 DEF WillSee, Painting, Looping
<1>5. Due = <<twTheme, twTheme>> /\ Due[1] = twTheme /\ Due \in Pairs /\ Stock = <<Original, Original>>
  BY <1>2, PairOf, StockIsAPair DEF Due
<1>6. \A j \in DOMAIN twKnown : Whole(twTables[twKnown[j]]) => twTables[twKnown[j]] \in {Stock, Due}
  <2>1. \A j \in DOMAIN twKnown : j \in 1..t.i - 1
    BY <1>1, <1>2
  <2>2. QED
    BY <1>3, <2>1 DEF PassedAreDue
<1>7. \A j \in DOMAIN twKnown : Whole(twTables[twKnown[j]]) =>
           \/ twTables[twKnown[j]] = Due
           \/ \E v \in Threads : v # w /\ WillSee(twThread[v], j)
  <2> HIDE DEF Looping, WillSee
  <2>1. QED
    BY <1>3, <1>4 DEF SitesAreSeen
<1>8. ASSUME twThemed' = Unset \/ UNCHANGED twThemed, twTheme # Original => twThemed' = twThemed PROVE TwThreads'
  <2>1. IsAThread(w, Idle, twTheme, twMemo'.of, twKnown', twThemed'.id, twTables')
    BY DEF IsAThread
  <2>2. QED
    BY <1>1, <1>2, <1>8, <2>1, ThreadsGo
<1>9. CASE t.pal = Original /\ twWritten' = Unset /\ Disarm
  <2>1. twTheme = Original /\ Due = Stock /\ twThemed' = Unset /\ twGround' = Black /\ twPal' = Original
    BY <1>2, <1>5, <1>9 DEF Disarm
  <2>2. Worn' = Due /\ twGround' = GroundUnder(twTheme) /\ twPal' = twTheme
    BY <2>1 DEF Worn, GroundUnder, Stock
  <2>3. TwTypes' /\ TwThreads'
    BY <1>1, <1>8, <1>9, <2>1 DEF TwTypes
  <2> HIDE DEF t
  <2>4. QED
    BY <1>1, <1>3, <1>6, <1>7, <2>1, <2>2, <2>3, EndKeepsIInv DEF t
<1>10. CASE /\ t.pal # Original
            /\ twWritten' = IF t.wrote THEN [id |-> "ours", words |-> t.words] ELSE twWritten
            /\ UNCHANGED <<twThemed, twGround, twPal>>
  <2>1. twTheme \in TwThemes /\ twThemed.id = twTheme /\ twTheme # Original
    BY <1>2, <1>10 DEF Hues
  <2>2. Worn = Due
    <3>1. Unset.id = "none" /\ "none" \notin TwThemes
      BY TwAssumption DEF Unset
    <3>2. PICK h \in TwThemes : twThemed = [id |-> h, words |-> <<h, h>>]
      BY <2>1, <3>1 DEF TwTypes
    <3>3. twThemed.id = h /\ twThemed.words = <<h, h>>
      BY <3>2
    <3>4. QED
      BY <1>5, <2>1, <3>1, <3>3 DEF Worn
  <2>3. Worn' = Due
    BY <1>10, <2>2 DEF Worn
  <2>4. twPal' = twTheme /\ twGround' = GroundUnder(twTheme)
    BY <1>5, <1>10, <2>2 DEF GroundGoesAlong
  <2>5. TwTypes' /\ TwThreads'
    <3>1. twWritten' = Unset \/ \E p \in Pairs : twWritten' = [id |-> "ours", words |-> p]
      BY <1>2, <1>5, <1>10 DEF TwTypes
    <3>2. QED
      BY <1>1, <1>8, <1>10, <3>1 DEF TwTypes
  <2>6. ASSUME NEW j \in DOMAIN twKnown, Whole(twTables[twKnown[j]])
        PROVE  \/ twTables[twKnown[j]] = Stock \/ (twWritten' # Unset /\ twTables[twKnown[j]] = twWritten'.words)
               \/ twTables[twKnown[j]] = Due /\ \E v \in Threads : v # w /\ Looping(twThread[v]) /\ twThread[v].wrote
    <3> HIDE DEF Looping
    <3>1. CASE t.wrote
      <4>1. twWritten' = [id |-> "ours", words |-> Due]
        BY <1>2, <1>10, <3>1
      <4>2. twWritten'.words = Due /\ twWritten'.id = "ours" /\ Unset.id = "none"
        BY <4>1 DEF Unset
      <4>3. twWritten' # Unset
        BY <4>2
      <4>4. QED
        BY <1>6, <2>6, <4>2, <4>3
    <3>2. CASE ~t.wrote
      BY <1>10, <2>6, <3>2 DEF SitesAreOurs
    <3>3. QED
      BY <3>1, <3>2
  <2> HIDE DEF t
  <2>7. QED
    BY <1>1, <1>3, <1>7, <2>3, <2>4, <2>5, <2>6, EndKeepsIInv DEF t
<1>11. QED
  BY <1>9, <1>10 DEF TwApplied

-----------------------------------------------------------------------------
(* A selection, a reply, and the theorem.                                        *)

\* A selection finds both threads at rest, and changes nothing that is worn.
LEMMA SelectKeepsIInv ==
  ASSUME TwIInv, ~TwRaces, NEW h \in TwThemes \cup {Original}, TwSelect(h) PROVE TwIInv'
<1> USE DEF TwIInv
<1>1. /\ twTheme' = h /\ UNCHANGED <<twTables, twKnown, twScanned, twStyle, twThemed, twWritten, twGround, twPal, twMemo, twThread>>
      /\ \A w \in Threads : twThread[w].at = "idle"
  BY DEF TwSelect, At, Threads
<1>2. \A w \in Threads : ~Looping(twThread[w]) /\ ~Themes(twThread[w]) /\ ~Rebuilding(twThread[w]) /\ twThread[w] = Idle
  BY <1>1, ThreadAt DEF Looping, Themes, Rebuilding, Painting, TwThreads
<1>3. TwTypes' /\ MemoAnswers' /\ SitesAreThere' /\ Worn' = Worn
  BY <1>1 DEF TwTypes, Hues, MemoAnswers, AnswersAreThePalettes, SitesAreThere, Worn
<1>4. TwThreads'
  BY <1>1, <1>2 DEF TwThreads, IsAThread
<1>5. SitesAreOurs' /\ PassedAreDue' /\ SitesAreSeen' /\ GroundGoesAlong'
  <2> HIDE DEF Looping, Themes, WillSee
  <2>1. SitesAreOurs' /\ PassedAreDue'
    BY <1>1, <1>2 DEF SitesAreOurs, PassedAreDue
  <2>2. SitesAreSeen'
    BY <1>1, <1>2, <1>3 DEF SitesAreSeen
  <2>3. GroundGoesAlong'
    BY <1>1, <1>2, <1>3 DEF GroundGoesAlong
  <2>4. QED
    BY <2>1, <2>2, <2>3
<1>6. ScansAreWhole'
  <2>1. Present' = Present
    BY <1>1 DEF Present
  <2> HIDE DEF Rebuilding, StyleOf
  <2>2. QED
    BY <1>1, <2>1 DEF ScansAreWhole
<1>7. QED
  BY <1>3, <1>4, <1>5, <1>6

\* The copies a reply brings are of its own style, and the reply's own pass is still to come.
LEMMA RepliesKeepIInv == ASSUME TwIInv, NEW style \in Styles, TwReplies(style) PROVE TwIInv'
<1> USE DEF TwIInv
<1> DEFINE r == [at |-> "rebuild", style |-> style, todo |-> WordsOf(SetToSeq(Present))]
           now == twThread  then == twThread'
<1>1. /\ twThread["reply"].at = "idle" /\ Goes("reply", r) /\ "reply" \in Threads
      /\ UNCHANGED <<twTheme, twKnown, twScanned, twStyle, twThemed, twWritten, twGround, twPal, twMemo>>
      /\ twTables' = [t \in TwTables |-> IF twTables[t] = Nowhere /\ TwStyleOf[t] = style THEN Stock ELSE twTables[t]]
  BY DEF TwReplies, At, Threads
<1>2. /\ \A x \in TwTables : twTables[x] # Nowhere => twTables'[x] = twTables[x]
      /\ \A x \in TwTables : twTables[x] = Nowhere => twTables'[x] = IF TwStyleOf[x] = style THEN Stock ELSE Nowhere
      /\ \A x \in TwTables : twTables[x] \in Pairs => twTables'[x] = twTables[x] /\ twTables'[x] \in Pairs
      /\ twTables' \in [TwTables -> Pairs \cup {Nowhere}]
  BY <1>1, StockIsAPair DEF TwTypes
<1>3. then["reply"] = r /\ \A v \in Threads : v # "reply" => then[v] = now[v]
  BY <1>1, MoveOf DEF TwThreads
<1>4. /\ ~Looping(now["reply"]) /\ ~Themes(now["reply"]) /\ ~Rebuilding(now["reply"])
      /\ \A j \in Nat : ~WillSee(now["reply"], j)
  BY <1>1 DEF Looping, Themes, Rebuilding, Painting, WillSee
<1>5. ~Looping(r) /\ ~Themes(r) /\ Rebuilding(r) /\ StyleOf(r) = style
  BY DEF Looping, Themes, Rebuilding, Painting, StyleOf
<1>6. r \in Rebuilds /\ \A k \in DOMAIN r.todo : twTables'[r.todo[k][1]] \in Pairs
  <2> DEFINE q == SetToSeq(Present)
  <2>1. IsFiniteSet(Present) /\ Present \subseteq TwTables
    BY FS_Subset, TwAssumption DEF Present
  <2>2. q \in Seq(Present)
    BY <2>1, SeqOfSet
  <2>3. \A x \in Present : twTables'[x] \in Pairs
    BY <1>2 DEF Present, TwTypes
  <2> HIDE DEF q
  <2>4. Len(q) \in Nat /\ DOMAIN q = 1..Len(q) /\ \A k \in 1..Len(q) : q[k] \in Present
    BY <2>2
  <2>5. \A k \in 1..2 * Len(q) : (k + 1) \div 2 \in 1..Len(q) /\ 2 - (k % 2) \in {1, 2}
    BY <2>4
  <2> DEFINE todo == WordsOf(q)
  <2>6. todo = [k \in 1..2 * Len(q) |-> <<q[(k + 1) \div 2], 2 - (k % 2)>>]
    BY DEF WordsOf
  <2> HIDE DEF todo
  <2>7. \A k \in 1..2 * Len(q) : q[(k + 1) \div 2] \in Present /\ 2 - (k % 2) \in {1, 2}
    BY <2>4, <2>5
  <2>8. DOMAIN todo = 1..2 * Len(q) /\ \A k \in DOMAIN todo : todo[k] \in TwTables \X {1, 2} /\ todo[k][1] \in Present
    BY <2>1, <2>6, <2>7
  <2>9. todo \in Seq(TwTables \X {1, 2})
    <3>1. 2 * Len(q) \in Nat /\ todo \in [1..2 * Len(q) -> TwTables \X {1, 2}]
      BY <2>4, <2>6, <2>8
    <3> DEFINE n == 2 * Len(q)
    <3> HIDE DEF n
    <3>2. QED
      BY <3>1 DEF n
  <2>10. r.at = "rebuild" /\ r.style = style /\ r.todo = todo /\ r = [at |-> "rebuild", style |-> style, todo |-> todo]
    BY DEF todo, q
  <2> HIDE DEF r
  <2>11. r \in Rebuilds
    BY <2>9, <2>10 DEF Rebuilds
  <2>12. QED
    BY <2>3, <2>8, <2>10, <2>11
<1> HIDE DEF r
<1>7. twKnown \in Seq(TwTables) /\ Len(twKnown) <= Len(twKnown) /\ \A j \in DOMAIN twKnown : j \in Nat /\ twKnown[j] \in TwTables
  BY DEF TwTypes
<1>8. TwThreads'
  <2>1. IsAThread("reply", r, twTheme, twMemo'.of, twKnown', twThemed'.id, twTables')
    <3> HIDE DEF Rebuilds
    <3>1. QED
      BY <1>6 DEF IsAThread
  <2>2. QED
    BY <1>1, <1>2, <1>7, <2>1, ThreadsGo
<1>9. Due' = Due /\ Worn' = Worn
  BY <1>1 DEF Due, Worn
<1>10. /\ \A v \in Threads : (Looping(then[v]) <=> Looping(now[v])) /\ (Themes(then[v]) <=> Themes(now[v]))
       /\ \A v \in Threads : Looping(then[v]) => then[v] = now[v]
       /\ \A v \in Threads : \A j \in Nat : WillSee(now[v], j) => WillSee(then[v], j)
  BY <1>3, <1>4, <1>5
<1> HIDE DEF now, then
<1>11. \A j \in DOMAIN twKnown : twTables'[twKnown[j]] = twTables[twKnown[j]] /\ twTables'[twKnown[j]] \in Pairs
  BY <1>2, <1>7 DEF SitesAreThere
<1>12. TwTypes' /\ MemoAnswers'
  BY <1>1, <1>2 DEF TwTypes, MemoAnswers, AnswersAreThePalettes
<1>13. SitesAreThere'
  <2>1. ASSUME NEW x \in TwTables \ Range(twKnown) PROVE twTables'[x] \in {Nowhere, Stock}
    BY <1>2 DEF SitesAreThere
  <2>2. QED
    BY <1>1, <1>11, <2>1 DEF SitesAreThere
<1>14. SitesAreOurs'
  <2> HIDE DEF Looping
  <2>1. QED
    BY <1>1, <1>9, <1>10, <1>11 DEF SitesAreOurs, now, then
<1>15. PassedAreDue'
  <2> HIDE DEF Looping
  <2> SUFFICES ASSUME NEW v \in Threads, Looping(then[v]), NEW j \in 1..then[v].i - 1, Whole(twTables'[twKnown[j]])
               PROVE  twTables'[twKnown[j]] \in {Stock, Due}
    BY <1>1, <1>9 DEF PassedAreDue, then
  <2>1. then[v] = now[v] /\ Looping(now[v])
    BY <1>10
  <2>2. LoopsWell(now[v], twTheme, twKnown, twThemed.id)
    BY <2>1, ThreadAt DEF TwThreads, Looping, now
  <2>3. now[v].i \in Nat /\ now[v].i <= Len(twKnown) + 1 /\ Len(twKnown) \in Nat /\ DOMAIN twKnown = 1..Len(twKnown)
    BY <1>7, <2>2 DEF LoopsWell, Loops
  <2>4. j \in DOMAIN twKnown
    BY <2>1, <2>3
  <2>5. QED
    BY <1>11, <2>1, <2>4 DEF PassedAreDue, now
<1>16. SitesAreSeen'
  <2> HIDE DEF Looping, WillSee
  <2>1. QED
    BY <1>1, <1>7, <1>9, <1>10, <1>11 DEF SitesAreSeen, now, then
<1>17. GroundGoesAlong'
  <2> HIDE DEF Themes
  <2>1. QED
    BY <1>1, <1>9, <1>10 DEF GroundGoesAlong, now, then
<1>18. ScansAreWhole'
  <2>1. Rebuilding(then["reply"]) /\ StyleOf(then["reply"]) = style
    BY <1>3, <1>5 DEF then
  <2>2. CASE \E x \in TwTables : twTables[x] = Nowhere /\ TwStyleOf[x] = style
    <3>1. style # twStyle
      BY <2>2 DEF ScansAreWhole
    <3> HIDE DEF Rebuilding, StyleOf
    <3>2. QED
      BY <1>1, <1>2, <2>1, <3>1, StockIsAPair DEF ScansAreWhole, then
  <2>3. CASE \A x \in TwTables : twTables[x] = Nowhere => TwStyleOf[x] # style
    <3>1. Present' = Present
      BY <1>2, <2>3 DEF Present
    <3>2. \A x \in TwTables : TwStyleOf[x] = style => twTables'[x] # Nowhere
      BY <1>2, <2>3
    <3> HIDE DEF Rebuilding, StyleOf
    <3>3. QED
      BY <1>1, <1>2, <1>4, <2>1, <3>1, <3>2 DEF ScansAreWhole, now, then
  <2>4. QED
    BY <2>2, <2>3
<1>19. QED
  BY <1>8, <1>12, <1>13, <1>14, <1>15, <1>16, <1>17, <1>18

\* theme_wave_replied: a style the mod has not seen has it scan again.
LEMMA RepliedKeepsIInv == ASSUME TwIInv, TwReplied PROVE TwIInv'
<1> USE DEF TwIInv
<1> DEFINE t == twThread["reply"]
           r == [at |-> "apply"]
<1>1. /\ t.at = "replied" /\ Goes("reply", r) /\ "reply" \in Threads /\ t.style \in Styles
      /\ twStyle' = t.style /\ twScanned' = (twScanned /\ t.style = twStyle)
      /\ UNCHANGED <<twTheme, twTables, twKnown, twThemed, twWritten, twGround, twPal, twMemo>>
  BY ThreadAt DEF TwReplied, TakesStyle, At, TwThreads, Threads
<1>2. r.at = "apply"
  OBVIOUS
<1> HIDE DEF r
<1>3. /\ ~Looping(t) /\ ~Themes(t) /\ Rebuilding(t) /\ StyleOf(t) = t.style
      /\ ~Looping(r) /\ ~Themes(r) /\ ~Rebuilding(r) /\ \A j \in Nat : WillSee(r, j)
  BY <1>1, <1>2 DEF Looping, Themes, Rebuilding, Painting, StyleOf, WillSee
<1>4. TwTypes' /\ MemoAnswers'
  BY <1>1 DEF TwTypes, MemoAnswers, AnswersAreThePalettes
<1>5. TwThreads'
  <2>1. IsAThread("reply", r, twTheme, twMemo'.of, twKnown', twThemed'.id, twTables')
    BY DEF IsAThread, r
  <2>2. twKnown \in Seq(TwTables) /\ Len(twKnown) <= Len(twKnown)
    BY DEF TwTypes
  <2>3. QED
    BY <1>1, <2>1, <2>2, ThreadsGo
<1>6. ScansAreWhole'
  <2>1. twThread'["reply"] = r
    BY <1>1, MoveOf DEF TwThreads
  <2>2. Present' = Present
    BY <1>1 DEF Present
  <2> HIDE DEF Rebuilding, StyleOf
  <2>3. QED
    BY <1>1, <1>3, <2>1, <2>2 DEF ScansAreWhole
<1> HIDE DEF t
<1>7. QED
  BY <1>1, <1>3, <1>4, <1>5, <1>6, Onward DEF t

\* At the start every copy there is stock.
LEMMA TwInitIInv == ASSUME TwInit PROVE TwIInv
<1>1. /\ twThread = [w \in Threads |-> Idle] /\ twKnown = <<>> /\ twScanned = FALSE /\ twStyle = "none"
      /\ twThemed = Unset /\ twWritten = Unset /\ twGround = Black /\ twPal = Original
      /\ twMemo = [of |-> Original, entry |-> Empty]
  BY DEF TwInit
<1>2. \A w \in Threads : twThread[w] = Idle /\ ~Looping(Idle) /\ ~Themes(Idle) /\ ~Rebuilding(Idle)
  BY <1>1 DEF Looping, Themes, Rebuilding, Painting, Idle
<1>3. Worn = Stock /\ Stock[1] = Original /\ Range(twKnown) = {} /\ DOMAIN twKnown = {} /\ Len(twKnown) = 0
  BY <1>1 DEF Worn, Stock, Range
<1>4. \A t \in TwTables : twTables[t] \in {Nowhere, Stock} /\ (twTables[t] = Stock <=> TwStyleOf[t] = "3band")
  BY StockIsAPair DEF TwInit, Nowhere, Stock
<1>5. twTables \in [TwTables -> Pairs \cup {Nowhere}]
  BY StockIsAPair DEF TwInit
<1>6. TwTypes
  <2>1. twTheme \in Hues
    BY DEF TwInit, Hues
  <2>2. twKnown \in Seq(TwTables) /\ Len(twKnown) <= TwSites
    BY <1>1, <1>3, TwAssumption
  <2>3. QED
    BY <1>1, <1>5, <2>1, <2>2 DEF TwTypes
<1>7. TwThreads
  BY <1>1, <1>2 DEF TwThreads, IsAThread
<1>8. MemoAnswers
  BY <1>1 DEF MemoAnswers, AnswersAreThePalettes
<1>9. SitesAreThere
  BY <1>3, <1>4 DEF SitesAreThere
<1>10. SitesAreOurs /\ SitesAreSeen /\ PassedAreDue
  <2> HIDE DEF Looping, WillSee
  <2>1. QED
    BY <1>2, <1>3 DEF SitesAreOurs, SitesAreSeen, PassedAreDue
<1>11. GroundGoesAlong
  <2> HIDE DEF Themes
  <2>1. QED
    BY <1>1, <1>2, <1>3 DEF GroundGoesAlong, GroundUnder
<1>12. ScansAreWhole
  <2>1. "reply" \in Threads /\ Stock # Nowhere
    BY StockIsAPair DEF Threads
  <2>2. \A t \in TwTables : TwStyleOf[t] \in {"3band", "blue"} /\ TwStyleOf[t] # "none"
    BY TwAssumption
  <2> HIDE DEF Rebuilding, StyleOf
  <2>3. QED
    BY <1>1, <1>2, <1>4, <2>1, <2>2 DEF ScansAreWhole
<1>13. QED
  BY <1>6, <1>7, <1>8, <1>9, <1>10, <1>11, <1>12 DEF TwIInv

\* Every step keeps the invariant, as long as no selection races a pass.
LEMMA TwStep == ASSUME TwIInv, ~TwRaces, [TwNext]_twVars PROVE TwIInv'
<1>1. CASE UNCHANGED twVars
  <2>1. UNCHANGED <<twTheme, twTables, twKnown, twScanned, twStyle, twThemed, twWritten, twGround, twPal, twMemo, twThread>>
    BY <1>1 DEF twVars
  <2>2. TwTypes' /\ TwThreads' /\ MemoAnswers' /\ SitesAreThere'
    BY <2>1 DEF TwIInv, TwTypes, TwThreads, MemoAnswers, AnswersAreThePalettes, SitesAreThere, IsAThread, AsksWell, LoopsWell
  <2>3. Due' = Due /\ Worn' = Worn /\ Present' = Present
    BY <2>1 DEF Due, Worn, Present
  <2>4. SitesAreOurs' /\ PassedAreDue' /\ SitesAreSeen'
    <3> HIDE DEF Looping, WillSee
    <3>1. QED
      BY <2>1, <2>3 DEF TwIInv, SitesAreOurs, PassedAreDue, SitesAreSeen
  <2>5. GroundGoesAlong' /\ ScansAreWhole'
    <3> HIDE DEF Themes, Rebuilding, StyleOf
    <3>1. QED
      BY <2>1, <2>3 DEF TwIInv, GroundGoesAlong, ScansAreWhole
  <2>6. QED
    BY <2>2, <2>4, <2>5 DEF TwIInv
<1>2. ASSUME NEW h \in TwThemes \cup {Original}, TwSelect(h) PROVE TwIInv'
  BY <1>2, SelectKeepsIInv
<1>3. CASE \/ \E i \in DOMAIN Words : TwPaints(Words[i])
           \/ TwTicks \/ TwShown("message") \/ TwBakes \/ TwBaked \/ \E w \in Threads : TwBegins(w)
  BY <1>3, WaysKeepIInv
<1>4. ASSUME NEW style \in {"3band", "blue"}, TwReplies(style) PROVE TwIInv'
  BY <1>4, RepliesKeepIInv DEF Styles
<1>5. CASE TwRebuilds \/ TwReplied
  BY <1>5, RebuildKeepsIInv, RepliedKeepsIInv
<1>6. ASSUME NEW w \in Threads,
             TwAsk(w) \/ TwStore(w) \/ TwNumber(w) \/ TwComputed(w) \/ TwSite(w) \/ TwSecond(w) \/ TwApplied(w)
      PROVE  TwIInv'
  BY <1>6, AskKeepsIInv, StoreKeepsIInv, NumberKeepsIInv, ComputedKeepsIInv, SiteKeepsIInv, SecondKeepsIInv,
     AppliedKeepsIInv
<1>7. QED
  BY <1>1, <1>2, <1>3, <1>4, <1>5, <1>6 DEF TwNext

\* With both threads at rest nobody is to come: what is known wears what was computed.
LEMMA TwWorn == ASSUME TwIInv PROVE ThemeIsWorn
<1> USE DEF TwIInv
<1>1. AnswersAreThePalettes
  BY DEF MemoAnswers
<1>2. ASSUME \A w \in Threads : At(w, "idle") PROVE
        /\ \A i \in DOMAIN twKnown : Whole(twTables[twKnown[i]]) => twTables[twKnown[i]] = Worn
        /\ twScanned /\ Len(twKnown) < TwSites => Present \subseteq Range(twKnown)
        /\ twPal = Worn[1] /\ twGround = GroundUnder(Worn[1])
        /\ twThemed # Unset => twThemed.words = <<twThemed.id, twThemed.id>>
  <2>1. \A w \in Threads : ~Looping(twThread[w]) /\ ~Themes(twThread[w]) /\ ~Rebuilding(twThread[w])
                           /\ \A j \in Nat : ~WillSee(twThread[w], j)
    BY <1>2 DEF At, Looping, Themes, Rebuilding, Painting, WillSee
  <2>2. "reply" \in Threads /\ DOMAIN twKnown \subseteq Nat
    BY DEF Threads, TwTypes
  <2>3. twThemed # Unset => twThemed.words = <<twThemed.id, twThemed.id>>
    BY DEF TwTypes
  <2> HIDE DEF Looping, Themes, Rebuilding, WillSee
  <2>4. \A i \in DOMAIN twKnown : Whole(twTables[twKnown[i]]) => twTables[twKnown[i]] = Worn
    BY <2>1, <2>2 DEF SitesAreSeen
  <2>5. twPal = Worn[1] /\ twGround = GroundUnder(Worn[1])
    BY <2>1 DEF GroundGoesAlong
  <2>6. QED
    BY <2>1, <2>2, <2>3, <2>4, <2>5 DEF ScansAreWhole
<1>3. StripIsOneTheme
  BY <1>2 DEF StripIsOneTheme, Worn
<1>4. QED
  BY <1>1, <1>3 DEF ThemeIsWorn

(* Whatever the order of loads, ticks, replies and selections, the waveform's copies wear one  *)
(* theme, the strip's ground and palette go with it and the memo answers for the palette it is   *)
(* of: for any themes, copies and number of places (theme/wave.c, theme/palette.c), as long as    *)
(* no selection comes between a thread's reading of the theme and what it does with it.            *)
THEOREM TheThemeIsWorn == ASSUME ~TwRaces PROVE TwSpec => []ThemeIsWorn
<1>1. TwInit => TwIInv
  BY TwInitIInv
<1>2. TwIInv /\ [TwNext]_twVars => TwIInv'
  BY TwStep
<1>3. TwIInv => ThemeIsWorn
  BY TwWorn
<1>4. QED
  BY <1>1, <1>2, <1>3, PTL DEF TwSpec

-----------------------------------------------------------------------------
(* The mix: the beat of a frame.                                               *)

\* A set of naturals that is not empty has a least element.
LEMMA LeastIn == ASSUME NEW S \in SUBSET Nat, S # {} PROVE \E n \in S : \A m \in S : n <= m
<1> DEFINE R == {ss \in Nat \X Nat : ss[1] < ss[2]}
<1>1. IsWellFoundedOn(R, Nat)
  BY NatLessThanWellFounded DEF OpToRel
<1>2. \E n \in S : \A m \in S : <<m, n>> \notin R
  <2> HIDE DEF R
  <2> QED
    BY <1>1, WFMin
<1>3. \A n, m \in S : <<m, n>> \notin R => n <= m
  OBVIOUS
<1>4. QED
  BY <1>2, <1>3

\* The beats ascend, counted from 0.
LEMMA BeatsAscend ==
  /\ LastBeat \in Nat \ {0} /\ \A i \in 0..LastBeat : Beat(i) \in Int
  /\ \A i, j \in 0..LastBeat : i <= j => Beat(i) <= Beat(j)
<1>1. /\ Len(SmBeats) \in Nat /\ Len(SmBeats) >= 2 /\ LastBeat = Len(SmBeats) - 1
      /\ DOMAIN SmBeats = 1..Len(SmBeats) /\ \A k \in 1..Len(SmBeats) : SmBeats[k] \in Int
  BY SmAssumption DEF LastBeat
<1>2. \A i \in 0..LastBeat : i + 1 \in 1..Len(SmBeats)
  BY <1>1
<1>3. \A a, b \in DOMAIN SmBeats : a <= b => SmBeats[a] <= SmBeats[b]
  BY SmAssumption
<1>4. \A i \in 0..LastBeat : Beat(i) \in Int
  BY <1>1, <1>2 DEF Beat
<1>5. ASSUME NEW i \in 0..LastBeat, NEW j \in 0..LastBeat, i <= j PROVE Beat(i) <= Beat(j)
  <2>1. i + 1 \in DOMAIN SmBeats /\ j + 1 \in DOMAIN SmBeats /\ i + 1 <= j + 1
    BY <1>1, <1>2, <1>5
  <2>2. QED
    BY <1>3, <2>1 DEF Beat
<1>6. QED
  BY <1>1, <1>4, <1>5

\* The walk from a hint stops, and never past the position.
LEMMA WalkedIs ==
  ASSUME NEW at \in Int, NEW i, Hints(i, at)
  PROVE  Walked(at, i) \in 0..LastBeat - 1 /\ Beat(Walked(at, i)) <= at
<1> DEFINE Stops(n) == n = SmWalkMax \/ i + n >= LastBeat - 1 \/ at < Beat(i + n + 1)
           GoesOn(m) == i + m < LastBeat - 1 /\ at >= Beat(i + m + 1)
           S == {n \in 0..SmWalkMax : Stops(n)}
           N == CHOOSE n \in 0..SmWalkMax : (\A m \in 0..n - 1 : GoesOn(m)) /\ Stops(n)
<1>1. i \in 0..LastBeat - 1 /\ Beat(i) <= at /\ SmWalkMax \in Nat /\ LastBeat \in Nat \ {0}
  BY SmAssumption, BeatsAscend DEF Hints
<1>2. S \in SUBSET Nat /\ SmWalkMax \in S
  BY <1>1
<1>3. PICK n \in S : \A m \in S : n <= m
  <2> HIDE DEF S
  <2>1. QED
    BY <1>2, LeastIn
<1>4. ASSUME NEW m \in 0..n - 1 PROVE GoesOn(m)
  <2>1. m \in 0..SmWalkMax /\ m < n /\ n \in Nat
    BY <1>1, <1>2, <1>3
  <2>2. ~Stops(m)
    <3>1. m \notin S
      BY <1>1, <1>3, <2>1
    <3>2. QED
      BY <2>1, <3>1
  <2>3. i + m + 1 \in 0..LastBeat
    BY <1>1, <2>1, <2>2
  <2>4. QED
    BY <1>1, <2>1, <2>2, <2>3, BeatsAscend
<1>5. N \in 0..SmWalkMax /\ \A m \in 0..N - 1 : GoesOn(m)
  <2>1. n \in 0..SmWalkMax /\ (\A m \in 0..n - 1 : GoesOn(m)) /\ Stops(n)
    BY <1>3, <1>4
  <2> HIDE DEF GoesOn, Stops
  <2>2. QED
    BY <2>1
<1>6. Walked(at, i) = i + N
  BY DEF Walked
<1> HIDE DEF N
<1>7. CASE N = 0
  BY <1>1, <1>6, <1>7
<1>8. CASE N # 0
  <2>1. N - 1 \in 0..N - 1
    BY <1>1, <1>5, <1>8
  <2>2. i + (N - 1) < LastBeat - 1 /\ at >= Beat(i + (N - 1) + 1)
    BY <1>5, <2>1
  <2>3. i + (N - 1) + 1 = i + N /\ i + N \in 0..LastBeat - 1
    BY <1>1, <1>5, <1>8, <2>2
  <2>4. QED
    BY <1>1, <1>6, <2>2, <2>3, BeatsAscend
<1>9. QED
  BY <1>7, <1>8

\* What brackets the position is what the bisection finds.
LEMMA BisectionFinds ==
  ASSUME NEW at \in Int, NEW j \in 0..LastBeat - 1, Beat(j) <= at, at < Beat(j + 1)
  PROVE  BeatBefore(at) = j
<1> DEFINE P(i) == Beat(i) <= at /\ \A k \in i + 1..LastBeat - 1 : Beat(k) > at
<1>1. LastBeat \in Nat \ {0}
  BY BeatsAscend
<1>2. P(j)
  <2> SUFFICES ASSUME NEW k \in j + 1..LastBeat - 1 PROVE Beat(k) > at
    OBVIOUS
  <2>1. j + 1 \in 0..LastBeat /\ k \in 0..LastBeat /\ j + 1 <= k
    BY <1>1
  <2>2. Beat(j + 1) <= Beat(k) /\ Beat(k) \in Int /\ Beat(j + 1) \in Int
    BY <2>1, BeatsAscend
  <2>3. QED
    BY <2>2
<1>3. ASSUME NEW i \in 0..LastBeat - 1, P(i) PROVE i = j
  <2>1. Beat(i) \in Int /\ Beat(j) \in Int
    BY <1>1, BeatsAscend
  <2>2. ~(i < j)
    <3>1. i < j => j \in i + 1..LastBeat - 1
      BY <1>1
    <3>2. QED
      BY <1>3, <2>1, <3>1
  <2>3. ~(j < i)
    <3>1. j < i => i \in j + 1..LastBeat - 1
      BY <1>1
    <3>2. QED
      BY <1>2, <1>3, <2>1, <3>1
  <2>4. QED
    BY <1>1, <2>2, <2>3
<1>4. BeatBefore(at) = CHOOSE i \in 0..LastBeat - 1 : P(i)
  BY DEF BeatBefore
<1> HIDE DEF P
<1>5. QED
  BY <1>2, <1>3, <1>4

\* Whatever the cursor holds, the beat is that of the position.
LEMMA AnyCursor == ASSUME NEW at \in Int, NEW cursor PROVE BeatAt(at, cursor).beat = BeatAt(at, -1).beat
<1>1. ASSUME NEW c PROVE CursorOrBisect(at, c) = BeatBefore(at)
  <2> DEFINE j == Walked(at, c)
  <2>1. CASE Hints(c, at) /\ at < Beat(j + 1)
    <3>1. j \in 0..LastBeat - 1 /\ Beat(j) <= at
      BY <2>1, WalkedIs
    <3>2. CursorOrBisect(at, c) = j
      BY <2>1 DEF CursorOrBisect
    <3> HIDE DEF j
    <3>3. QED
      BY <2>1, <3>1, <3>2, BisectionFinds
  <2>2. CASE ~(Hints(c, at) /\ at < Beat(j + 1))
    BY <2>2 DEF CursorOrBisect
  <2>3. QED
    BY <2>1, <2>2
<1>2. CursorOrBisect(at, cursor) = CursorOrBisect(at, -1)
  BY <1>1
<1>3. QED
  BY <1>2 DEF BeatAt

\* A frame's beat does not depend on the frames before it.
LEMMA BeatsAre ==
  ASSUME NEW from \in SmPositions
  PROVE  \A k \in DOMAIN BeatsFrom[from] : BeatsFrom[from][k] = BeatAt(from + k - 1, -1).beat
<1>1. \A at \in Int : \A c : BeatAt(at, c).beat = BeatAt(at, -1).beat
  BY AnyCursor
<1>2. \A k \in 1..SmLength : from + k - 1 \in Int
  BY SmAssumption
<1>3. DOMAIN Beats(from) = 1..SmLength
  BY DEF Beats
<1>4. ASSUME NEW k \in 1..SmLength PROVE Beats(from)[k] = BeatAt(from + k - 1, -1).beat
  BY <1>1, <1>2 DEF Beats
<1>5. QED
  BY <1>3, <1>4 DEF BeatsFrom

-----------------------------------------------------------------------------
(* The mix: what is heard, and when a mute moves.                                 *)

\* However a signal is derived, a part is heard at its own gain, or its loop is.
LEMMA PartsAreHeard ==
  ASSUME NEW gains \in [SmParts -> Int], NEW loop \in SmParts \cup {NoPart}
  PROVE  LET mix == MixOf(gains[Drums], gains[Harmonics], gains[Vocals], loop) IN
         /\ \A p \in SmParts : mix[p] = IF p = loop THEN 0 ELSE gains[p]
         /\ mix["file"] = IF loop = NoPart THEN 0 ELSE gains[loop]
<1> DEFINE d == gains[Drums]  gh == gains[Harmonics]  gv == gains[Vocals]
<1>1. d \in Int /\ gh \in Int /\ gv \in Int
  BY DEF SmParts, Drums, Harmonics, Vocals
<1>2. \A track, h, v, file :
        /\ Mix(track, h, v, file)[Drums] = track /\ Mix(track, h, v, file)[Harmonics] = track + h
        /\ Mix(track, h, v, file)[Vocals] = track + v /\ Mix(track, h, v, file)["file"] = file
  BY DEF Mix, SmParts, Drums, Harmonics, Vocals
<1> DEFINE mix == MixOf(d, gh, gv, loop)
<1>3. CASE loop = NoPart
  <2>1. mix = Mix(d, gh - d, gv - d, 0)
    BY <1>3 DEF MixOf, NoPart, Drums, Harmonics, Vocals
  <2> HIDE DEF mix
  <2>2. mix[Drums] = d /\ mix[Harmonics] = gh /\ mix[Vocals] = gv /\ mix["file"] = 0
    BY <1>1, <1>2, <2>1
  <2>3. QED
    BY <1>3, <2>2 DEF mix, NoPart, SmParts, Drums, Harmonics, Vocals
<1>4. CASE loop = Drums
  <2>1. mix = Mix(0, gh, gv, d)
    BY <1>4 DEF MixOf, NoPart, Drums, Harmonics, Vocals
  <2> HIDE DEF mix
  <2>2. mix[Drums] = 0 /\ mix[Harmonics] = gh /\ mix[Vocals] = gv /\ mix["file"] = d
    BY <1>1, <1>2, <2>1
  <2>3. QED
    BY <1>4, <2>2 DEF mix, NoPart, SmParts, Drums, Harmonics, Vocals
<1>5. CASE loop = Harmonics
  <2>1. mix = Mix(d, -d, gv - d, gh)
    BY <1>5 DEF MixOf, NoPart, Drums, Harmonics, Vocals
  <2> HIDE DEF mix
  <2>2. mix[Drums] = d /\ mix[Harmonics] = 0 /\ mix[Vocals] = gv /\ mix["file"] = gh
    BY <1>1, <1>2, <2>1
  <2>3. QED
    BY <1>5, <2>2 DEF mix, NoPart, SmParts, Drums, Harmonics, Vocals
<1>6. CASE loop = Vocals
  <2>1. mix = Mix(d, gh - d, -d, gv)
    BY <1>6 DEF MixOf, NoPart, Drums, Harmonics, Vocals
  <2> HIDE DEF mix
  <2>2. mix[Drums] = d /\ mix[Harmonics] = gh /\ mix[Vocals] = 0 /\ mix["file"] = gv
    BY <1>1, <1>2, <2>1
  <2>3. QED
    BY <1>6, <2>2 DEF mix, NoPart, SmParts, Drums, Harmonics, Vocals
<1>7. QED
  BY <1>3, <1>4, <1>5, <1>6 DEF SmParts

Levels == [SmParts -> Int]
SmTypes ==
  /\ smGain \in Levels /\ smOpen \in Levels /\ smFresh \in BOOLEAN
  /\ DOMAIN smRow = {"mute", "level"} /\ smRow.level \in Levels
  /\ smUi.gain \in Int
  /\ DOMAIN smAudio = {"pc", "part", "want", "todo", "due", "gains"}
  /\ smAudio.pc # "idle" => smAudio.gains \in Levels
  /\ DOMAIN smClock = {"have", "quarter"} /\ smClock.have \in BOOLEAN

\* Once a call was made, the audio thread has seen the clock as it is.
SeenIsTheClock ==
  ~smFresh => smSeen.ok = smClock.have /\ (smClock.have => smSeen.quarter = smClock.quarter)
CommitIsDue == smAudio.pc \in {"live", "gain"} => smAudio.due

SmIInv == SmTypes /\ SeenIsTheClock /\ CommitIsDue /\ BlockIsTheRows

\* The full mix is one of the fader's positions.
LEMMA FullMixIsALevel == FullMix \in SmLevels /\ SmLevels \subseteq Nat
<1>1. PICK l \in SmLevels : \A m \in SmLevels : m <= l
  BY SmAssumption
<1>2. FullMix \in SmLevels
  BY <1>1 DEF FullMix
<1>3. QED
  BY <1>2, SmAssumption

\* At first every part is open at the full mix.
LEMMA SmInitIInv == ASSUME SmInit PROVE SmIInv
<1>1. FullMix \in Int
  BY FullMixIsALevel
<1>2. SmTypes
  BY <1>1 DEF SmInit, SmTypes, Levels, All, UiIdle, AudioIdle
<1>3. QED
  BY <1>2 DEF SmInit, SmIInv, SeenIsTheClock, CommitIsDue, BlockIsTheRows, MixIsTheRow, BeatIsOfThePosition, AudioIdle

\* A step that plays no block leaves nothing to be wrong in one.
LEMMA NothingPlayed == ASSUME smBlock' = <<>> PROVE BlockIsTheRows'
BY DEF BlockIsTheRows, MixIsTheRow, BeatIsOfThePosition

\* The message thread and the clock.
LEMMA RowKeepsIInv ==
  ASSUME SmIInv,
         \/ \E p \in SmHands : (\E on \in BOOLEAN : SmMute(p, on)) \/ (\E l \in SmLevels : SmFader(p, l))
         \/ \E p \in SmHands : SmReset(p)
         \/ SmGainSet \/ SmSwitches \/ SmQuarter \/ SmClockGoes
  PROVE  SmIInv' /\ UNCHANGED smLive
<1> USE DEF SmIInv
<1>1. FullMix \in Int /\ SmLevels \subseteq Int /\ SmHands \subseteq SmParts
  BY SmAssumption, FullMixIsALevel
<1>2. ASSUME NEW p \in SmParts, NEW row, DOMAIN row = {"mute", "level"}, row.level \in Levels, Publishes(p, row),
             UNCHANGED smNotUi, Played
      PROVE  SmIInv' /\ UNCHANGED smLive
  <2>1. smUi'.gain \in Int /\ smOpen' \in Levels /\ smRow' = row
    BY <1>2 DEF Publishes, Levels, SmTypes
  <2>2. UNCHANGED <<smLive, smGain, smAudio, smClock, smSeen, smFresh>>
    BY <1>2 DEF smNotUi
  <2>3. SmTypes' /\ SeenIsTheClock' /\ CommitIsDue'
    BY <1>2, <2>1, <2>2 DEF SmTypes, SeenIsTheClock, CommitIsDue
  <2>4. QED
    BY <1>2, <2>2, <2>3, NothingPlayed DEF Played
<1>3. ASSUME NEW p \in SmHands, NEW on, SmMute(p, on) PROVE SmIInv' /\ UNCHANGED smLive
  <2> DEFINE row == [smRow EXCEPT !.mute[p] = on]
  <2>1. DOMAIN row = {"mute", "level"} /\ row.level = smRow.level
    BY DEF SmTypes
  <2>2. Publishes(p, row) /\ UNCHANGED smNotUi /\ Played
    BY <1>3 DEF SmMute
  <2> HIDE DEF row
  <2>3. QED
    BY <1>1, <1>2, <2>1, <2>2 DEF SmTypes
<1>4. ASSUME NEW p \in SmHands, NEW l \in SmLevels, SmFader(p, l) PROVE SmIInv' /\ UNCHANGED smLive
  <2> DEFINE row == [smRow EXCEPT !.level[p] = l]
  <2>1. DOMAIN row = {"mute", "level"} /\ row.level \in Levels
    BY <1>1 DEF SmTypes, Levels
  <2>2. Publishes(p, row) /\ UNCHANGED smNotUi /\ Played
    BY <1>4 DEF SmFader
  <2> HIDE DEF row
  <2>3. QED
    BY <1>1, <1>2, <2>1, <2>2
<1>5. ASSUME NEW p \in SmHands, SmReset(p) PROVE SmIInv' /\ UNCHANGED smLive
  <2> DEFINE row == [smRow EXCEPT !.mute[p] = FALSE, !.level[p] = FullMix]
  <2>1. DOMAIN row = {"mute", "level"} /\ row.level \in Levels
    BY <1>1 DEF SmTypes, Levels
  <2>2. Publishes(p, row) /\ UNCHANGED smNotUi /\ Played
    BY <1>5 DEF SmReset
  <2> HIDE DEF row
  <2>3. QED
    BY <1>1, <1>2, <2>1, <2>2
<1>6. CASE SmGainSet
  <2>1. smGain' \in Levels
    BY <1>6 DEF SmGainSet, SmTypes, Levels
  <2>2. SmTypes' /\ SeenIsTheClock' /\ CommitIsDue' /\ UNCHANGED smLive
    BY <1>6, <2>1 DEF SmGainSet, SmTypes, SeenIsTheClock, CommitIsDue, UiIdle
  <2>3. QED
    BY <1>6, <2>2, NothingPlayed DEF SmGainSet, Played
<1>7. CASE SmSwitches
  <2>1. UNCHANGED <<smRow, smOpen, smUi, smLive, smGain, smAudio, smClock, smSeen, smFresh>> /\ smBlock' = <<>>
    BY <1>7 DEF SmSwitches, smNotUi, Played
  <2>2. SmTypes' /\ SeenIsTheClock' /\ CommitIsDue'
    BY <2>1 DEF SmTypes, SeenIsTheClock, CommitIsDue
  <2>3. QED
    BY <2>1, <2>2, NothingPlayed
<1>8. CASE SmQuarter \/ SmClockGoes
  <2>1. /\ UNCHANGED <<smRow, smWant, smLive, smOpen, smGain, smSwitch, smUi, smAudio, smSeen>>
        /\ smFresh' = TRUE /\ smBlock' = <<>>
    BY <1>8 DEF SmQuarter, SmClockGoes, smNotClock, smShared, Played
  <2>2. DOMAIN smClock' = {"have", "quarter"} /\ smClock'.have \in BOOLEAN
    BY <1>8 DEF SmQuarter, SmClockGoes, SmTypes
  <2>3. SmTypes' /\ SeenIsTheClock' /\ CommitIsDue'
    BY <2>1, <2>2 DEF SmTypes, SeenIsTheClock, CommitIsDue
  <2>4. QED
    BY <2>1, <2>3, NothingPlayed
<1>9. QED
  BY <1>3, <1>4, <1>5, <1>6, <1>7, <1>8

\* A call of the mix: the look at the clock, the commit, the block.
LEMMA BlockKeepsIInv ==
  ASSUME SmIInv, SmBlockRuns
  PROVE  SmIInv' /\ (smLive' # smLive => smAudio.due)
<1> USE DEF SmIInv
<1>1. CASE SmLooks
  <2> DEFINE seen == IF Moving # {} /\ Waits THEN smSeen ELSE ClockNow
             a == [smAudio EXCEPT !.pc = IF Moving = {} \/ Waits THEN "mix" ELSE "live",
                                  !.todo = IF Waits THEN {} ELSE Moving,
                                  !.gains = smGain,
                                  !.due = smFresh \/ ~smSwitch.snap \/ ~smClock.have]
  <2>1. /\ smSeen' = seen /\ smAudio' = a /\ smFresh' = FALSE /\ smBlock' = <<>>
        /\ UNCHANGED <<smLive, smGain, smRow, smWant, smOpen, smSwitch, smUi, smClock>>
    BY <1>1 DEF SmLooks, Looks, Played, smNotAudio
  <2>2. /\ DOMAIN a = {"pc", "part", "want", "todo", "due", "gains"} /\ a.gains = smGain
        /\ a.pc = (IF Moving = {} \/ Waits THEN "mix" ELSE "live")
        /\ a.due = (smFresh \/ ~smSwitch.snap \/ ~smClock.have)
    BY DEF SmTypes
  <2> HIDE DEF a
  <2>3. ClockNow.ok = smClock.have /\ (smClock.have => ClockNow.quarter = smClock.quarter)
    BY DEF ClockNow
  <2>4. seen.ok = smClock.have /\ (smClock.have => seen.quarter = smClock.quarter)
    <3>1. CASE Moving # {} /\ Waits
      BY <2>3, <3>1 DEF Waits, SmTypes
    <3>2. CASE ~(Moving # {} /\ Waits)
      BY <2>3, <3>2
    <3>3. QED
      BY <3>1, <3>2
  <2>5. a.pc = "live" => a.due
    <3> SUFFICES ASSUME ~Waits, smSwitch.snap, smClock.have PROVE smFresh
      BY <2>2
    <3>1. QED
      BY <2>3 DEF Waits, SeenIsTheClock, SmTypes
  <2> HIDE DEF seen
  <2>6. SmTypes' /\ SeenIsTheClock' /\ CommitIsDue'
    BY <2>1, <2>2, <2>4, <2>5 DEF SmTypes, SeenIsTheClock, CommitIsDue
  <2>7. QED
    BY <2>1, <2>6, NothingPlayed
<1>2. CASE SmCommits
  <2>1. /\ smAudio.pc = "live" /\ smAudio.due /\ smBlock' = <<>>
        /\ UNCHANGED <<smGain, smSeen, smFresh, smRow, smWant, smOpen, smSwitch, smUi, smClock>>
    BY <1>2 DEF SmCommits, Played, smNotAudio, CommitIsDue
  <2>2. /\ DOMAIN smAudio' = {"pc", "part", "want", "todo", "due", "gains"}
        /\ smAudio'.gains = smAudio.gains /\ smAudio'.due = smAudio.due
    BY <1>2 DEF SmCommits, SmTypes
  <2>3. SmTypes' /\ SeenIsTheClock' /\ CommitIsDue'
    BY <2>1, <2>2 DEF SmTypes, SeenIsTheClock, CommitIsDue
  <2>4. QED
    BY <2>1, <2>3, NothingPlayed
<1>3. CASE SmCommitsGain
  <2>1. /\ smAudio.pc = "gain" /\ smBlock' = <<>>
        /\ UNCHANGED <<smLive, smSeen, smFresh, smRow, smWant, smOpen, smSwitch, smUi, smClock>>
    BY <1>3 DEF SmCommitsGain, Played, smNotAudio
  <2>2. /\ DOMAIN smAudio' = {"pc", "part", "want", "todo", "due", "gains"}
        /\ smAudio'.gains = smAudio.gains /\ smAudio'.due = smAudio.due /\ smAudio'.pc = "live"
    BY <1>3 DEF SmCommitsGain, SmTypes
  <2>3. smGain' \in Levels
    <3> DEFINE x == IF smAudio.want THEN 0 ELSE smOpen[smAudio.part]
    <3>1. smGain' = [smGain EXCEPT ![smAudio.part] = x]
      BY <1>3 DEF SmCommitsGain
    <3>2. smAudio.part \in SmParts => x \in Int
      BY DEF SmTypes, Levels
    <3> HIDE DEF x
    <3>3. QED
      BY <3>1, <3>2 DEF SmTypes, Levels
  <2>4. SmTypes' /\ SeenIsTheClock' /\ CommitIsDue'
    BY <2>1, <2>2, <2>3 DEF SmTypes, SeenIsTheClock, CommitIsDue
  <2>5. QED
    BY <2>1, <2>4, NothingPlayed
<1>4. ASSUME NEW from, NEW loop \in SmParts \cup {NoPart}, loop = NoPart \/ from \in SmPositions, SmMixes(from, loop)
      PROVE  SmIInv' /\ UNCHANGED smLive
  <2> DEFINE gains == smAudio.gains
             mix == MixOf(gains[Drums], gains[Harmonics], gains[Vocals], loop)
             beats == IF loop = NoPart THEN <<>> ELSE BeatsFrom[from]
  <2>1. /\ smAudio.pc = "mix" /\ smAudio' = AudioIdle
        /\ UNCHANGED <<smLive, smGain, smSeen, smFresh, smRow, smWant, smOpen, smSwitch, smUi, smClock>>
        /\ \/ smBlock' = <<>>
           \/ smBlock' = [mix |-> mix, gains |-> gains, loop |-> loop, from |-> from, beats |-> beats]
    BY <1>4 DEF SmMixes, smNotAudio
  <2>2. SmTypes' /\ SeenIsTheClock' /\ CommitIsDue'
    BY <2>1 DEF SmTypes, SeenIsTheClock, CommitIsDue, AudioIdle
  <2>3. gains \in Levels
    BY <2>1 DEF SmTypes
  <2>4. /\ \A p \in SmParts : mix[p] = IF p = loop THEN 0 ELSE gains[p]
        /\ mix["file"] = IF loop = NoPart THEN 0 ELSE gains[loop]
    <3> HIDE DEF gains
    <3>1. QED
      BY <2>3, PartsAreHeard DEF Levels
  <2>5. \A k \in DOMAIN beats : beats[k] = BeatAt(from + k - 1, -1).beat
    BY <1>4, BeatsAre
  <2> HIDE DEF gains, mix, beats
  <2>6. BlockIsTheRows'
    <3>1. CASE smBlock' = [mix |-> mix, gains |-> gains, loop |-> loop, from |-> from, beats |-> beats]
      <4>1. smBlock'.mix = mix /\ smBlock'.gains = gains /\ smBlock'.loop = loop /\ smBlock'.from = from /\ smBlock'.beats = beats
        BY <3>1
      <4>2. QED
        BY <2>4, <2>5, <4>1 DEF BlockIsTheRows, MixIsTheRow, BeatIsOfThePosition
    <3>2. QED
      BY <2>1, <3>1, NothingPlayed
  <2>7. QED
    BY <2>1, <2>2, <2>6
<1>5. SmLooks => UNCHANGED smLive
  BY DEF SmLooks, Looks
<1>6. SmCommitsGain => UNCHANGED smLive
  BY DEF SmCommitsGain
<1>7. SmCommits => smAudio.due
  BY DEF SmCommits, CommitIsDue
<1>8. QED
  BY <1>1, <1>2, <1>3, <1>4, <1>5, <1>6, <1>7, SmAssumption DEF SmBlockRuns

\* No step, of either thread or of the clock, breaks the invariant.
LEMMA SmStep == ASSUME SmIInv, [SmNext]_smVars PROVE SmIInv' /\ (smLive' # smLive => smAudio.due)
<1>1. CASE UNCHANGED smVars
  BY <1>1 DEF smVars, SmIInv, SmTypes, SeenIsTheClock, CommitIsDue, BlockIsTheRows, MixIsTheRow, BeatIsOfThePosition
<1>2. CASE SmBlockRuns
  BY <1>2, BlockKeepsIInv
<1>3. CASE \/ \E p \in SmHands : (\E on \in BOOLEAN : SmMute(p, on)) \/ (\E l \in SmLevels : SmFader(p, l))
           \/ \E p \in SmHands : SmReset(p)
           \/ SmGainSet \/ SmSwitches \/ SmQuarter \/ SmClockGoes
  BY <1>3, RowKeepsIInv
<1>4. QED
  BY <1>1, <1>2, <1>3 DEF SmNext

(* Whatever the faders, the mutes, the loops and the positions, a block counts each part once, at *)
(* its own gain or as its loop, and a frame's beat is that of its position, however far the          *)
(* cursor was (audio_mix.c:184-254, loop.c:45-106).                                                *)
THEOREM BlocksAreTheRows == SmSpec => []BlockIsTheRows
<1>1. SmIInv /\ [SmNext]_smVars => SmIInv'
  BY SmStep
<1>2. SmIInv => BlockIsTheRows
  BY DEF SmIInv
<1>3. QED
  BY <1>1, <1>2, SmInitIInv, PTL DEF SmSpec

(* A mute is committed by the first call of its quarter, or at once when there is nothing to   *)
(* wait for, and never in the middle of one (stem/audio.c:376-377).                            *)
THEOREM MutesMoveOnTheQuarter == SmSpec => MovesOnTheQuarter
<1>1. SmIInv /\ [SmNext]_smVars => SmIInv'
  BY SmStep
<1>2. SmIInv /\ [SmNext]_smVars => [smLive' # smLive => smAudio.due]_smVars
  BY SmStep
<1>3. QED
  BY <1>1, <1>2, SmInitIInv, PTL DEF SmSpec, MovesOnTheQuarter
=============================================================================
