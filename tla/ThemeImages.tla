----------------------------- MODULE ThemeImages -----------------------------
(***************************************************************************)
(* Recolouring the app's images in place (theme/image.c, image_sync.c): the  *)
(* first sighting keeps a copy, every sighting asks which pixels are still   *)
(* ours and lays the selected palette on the copy; a strip pushes the least  *)
(* recently seen strip out of the budget; a blit into another image is lent  *)
(* the stock pixels.                                                         *)
(*                                                                           *)
(* A pixel is the app's picture it belongs to (one of two: painted over, it  *)
(* is the other), the colour tables the app drew it by and the palettes we   *)
(* laid on it.  The tables wear a theme of their own, behind the selected    *)
(* one until wave.c looks: a strip drawn by them comes themed, and           *)
(* img_ground_themed leaves it as it is.  The message thread draws and       *)
(* selects; the database thread bakes strips.  A sighting holds g_img_lock;  *)
(* selecting does not.  The fingerprint sees every change here; a draw of    *)
(* wrap_drawimg is one step.  Left out: the probes and the census, and what  *)
(* an image drawn shows while its own pixels stay as they are.               *)
(***************************************************************************)
EXTENDS Naturals, Sequences, FiniteSets, SequencesExt

CONSTANTS TiSprites, TiStrips,
          TiOpaque,         \* strips without an alpha channel
          TiThemes,         \* the themes with a palette
          TiLiveBudget, TiCopyBudget, TiTable,   \* in images
          TiGrounded,       \* the themes whose ground is not black
          TiSites,          \* the scan found the app's colour tables
          TiMaxEvents

ASSUME TiAssumption ==
  /\ TiOpaque \subseteq TiStrips /\ TiGrounded \subseteq TiThemes /\ TiSprites \cap TiStrips = {}
  /\ TiThemes \cap {"original", "stock", "mixed"} = {}
  /\ {TiLiveBudget, TiCopyBudget, TiTable, TiMaxEvents} \subseteq Nat /\ TiLiveBudget > 0

VARIABLES tiTheme,    \* g_theme_id
          tiTables,   \* g_themed_id: the theme of the tables and of g_ground
          tiEver,     \* g_img_ever_on
          tiPx,       \* the buffers
          tiSlots,    \* g_img, by image
          tiSeen,     \* the adopted strips, least recently seen first
          tiBake,     \* the bake under the lock: its image and the palette it read
          tiStray,    \* (history) the images labelled by a palette our coats are not of
          tiPainted,  \* (history) the picture the app last painted, per region
          tiEvents

tiVars == <<tiTheme, tiTables, tiEver, tiPx, tiSlots, tiSeen, tiBake, tiStray,
            tiPainted, tiEvents>>

Images == TiSprites \cup TiStrips
Regions == {1, 2}   \* the first covers more of the picture
Original == "original"
Stock == "stock"
Mixed == "mixed"
NoSlotYet == [chrome |-> "none"]
NoBake == [image |-> "none"]
Baked == [image |-> "baked"]   \* sighted, the replyer has not returned

\* The app's picture n of a pixel, drawn by the tables of theme t.
Drawn(n, t) == [raw |-> n, tables |-> t, coats |-> <<>>]
TiInit ==
  /\ tiTheme = Original /\ tiTables = Original /\ tiEver = FALSE
  /\ tiPx = [i \in Images |-> [r \in Regions |-> Drawn(0, Original)]]
  /\ tiSlots = [i \in Images |-> NoSlotYet] /\ tiSeen = <<>>
  /\ tiBake = NoBake /\ tiStray = {}
  /\ tiPainted = [i \in Images |-> [r \in Regions |-> 0]] /\ tiEvents = 0

Occurs == tiEvents < TiMaxEvents /\ tiEvents' = tiEvents + 1

-----------------------------------------------------------------------------
(* One sighting.  w holds the buffers, the slots and the order of the strips.  *)

World == [px |-> tiPx, slots |-> tiSlots, seen |-> tiSeen, stray |-> tiStray]
Becomes(w) == tiPx' = w.px /\ tiSlots' = w.slots /\ tiSeen' = w.seen /\ tiStray' = w.stray

Adopted(w, i) == w.slots[i].chrome = "ours"
Mapped(pal, px) ==
  IF pal \notin TiThemes THEN px
  ELSE [r \in Regions |-> [px[r] EXCEPT !.coats = Append(@, pal)]]

\* img_restore, when the buffer is still the object the copy describes; img_release.
ReleaseKeepsTheCoat(w, i) ==   \* seeded fault: the slot goes and the pixels stay
  [w EXCEPT !.slots[i] = NoSlotYet, !.seen = Remove(@, i)]
ImgRelease(w, i) ==
  LET e == w.slots[i]
      ours == Adopted(w, i) /\ e.applied # Stock /\ e.here
  IN  [px |-> IF ours THEN [w.px EXCEPT ![i] = e.orig] ELSE w.px,
       slots |-> [w.slots EXCEPT ![i] = NoSlotYet], seen |-> Remove(w.seen, i),
       stray |-> w.stray]

\* img_evict_live
EvictLive(w) == IF Len(w.seen) < TiLiveBudget THEN w ELSE ImgRelease(w, Head(w.seen))

\* The first sighting: room first, then the slot, a copy if it is ours to recolour.
FirstSighting(w0, i, later) ==
  LET live == i \in TiStrips
      ok == live => later
      w == IF live /\ ok THEN EvictLive(w0) ELSE w0
      copies == {j \in Images : Adopted(w, j)}
      chrome == ok /\ Cardinality(copies) < TiCopyBudget
  IN  IF Cardinality({j \in Images : w.slots[j] # NoSlotYet}) = TiTable THEN w
      ELSE [px |-> w.px,
            slots |-> [w.slots EXCEPT ![i] =
              [chrome |-> IF chrome THEN "ours" ELSE "left alone", orig |-> w.px[i],
               applied |-> Original, left |-> <<>>, here |-> TRUE]],
            seen |-> IF live /\ chrome THEN Append(w.seen, i) ELSE w.seen,
            stray |-> w.stray]

\* img_reconcile: a pixel that is what we left keeps its original.
Reconciled(e, px) ==
  [r \in Regions |-> IF px[r] = Mapped(e.applied, e.orig)[r] THEN e.orig[r] ELSE px[r]]

\* img_ground_themed: more of the picture has the tables' themed ground than the stock one.
Sourced(px) ==
  LET themed(r) == <<px[r].tables, px[r].coats>> \in {<<Original, <<tiTables>>>>, <<tiTables, <<>>>>}
      stock(r) == <<px[r].tables, px[r].coats>> = <<Original, <<>>>>
  IN  tiTables \in TiGrounded /\ (themed(1) \/ (~stock(1) /\ themed(2)))

\* An image with a slot: pal is the palette read on entry, want the label it gets.  A
\* strip that the tables themed gets the label alone.  It goes astray when a coat of
\* ours is of another palette than the label.
Visit(w, i, pal, want) ==
  LET e == w.slots[i]
      moved == w.px[i] # e.left
      orig == IF moved THEN Reconciled(e, w.px[i]) ELSE e.orig
      applied == IF moved THEN Mixed ELSE e.applied
      sourced == want # Stock /\ i \in TiStrips /\ Sourced(w.px[i])
      px == IF applied = want \/ sourced THEN w.px[i] ELSE Mapped(pal, orig)
      astray == /\ applied # want /\ want # Stock
                /\ IF sourced THEN \E r \in Regions : px[r].coats \notin {<<>>, <<want>>}
                              ELSE pal # want
  IN  IF ~Adopted(w, i) THEN w
      ELSE IF ~e.here THEN ImgRelease(w, i)
      ELSE [px |-> [w.px EXCEPT ![i] = px],
            slots |-> [w.slots EXCEPT ![i] = [e EXCEPT !.orig = orig, !.applied = want, !.left = px]],
            seen |-> IF i \in TiStrips THEN Append(Remove(w.seen, i), i) ELSE w.seen,
            stray |-> IF astray THEN w.stray \cup {i} ELSE w.stray]

\* img_sync_locked, with the palette it read and the theme it labels the slot by.
Sighted(w, i, later, pal, id) ==
  LET want == IF pal = Original THEN Stock ELSE id
      known == IF w.slots[i] = NoSlotYet THEN FirstSighting(w, i, later) ELSE w
  IN  IF pal = Original /\ ~tiEver THEN w
      ELSE IF known.slots[i] = NoSlotYet THEN known
      ELSE Visit(known, i, pal, want)
TurnsOn(pal) == tiEver' = (tiEver \/ pal # Original)

\* theme_img_lend_stock
Lent(w, i) ==
  IF ~Adopted(w, i) \/ w.slots[i].applied = Stock THEN w
  ELSE [px |-> [w.px EXCEPT ![i] = w.slots[i].orig],
        slots |-> [w.slots EXCEPT ![i] = [@ EXCEPT !.applied = Stock, !.left = w.slots[i].orig]],
        seen |-> w.seen, stray |-> w.stray]

-----------------------------------------------------------------------------
(* The message thread.                                                      *)

Unlocked == tiBake \in {NoBake, Baked}

TiSelect(t) ==
  /\ Occurs /\ tiTheme' = t
  /\ UNCHANGED <<tiTables, tiEver, tiPx, tiSlots, tiSeen, tiBake, tiStray, tiPainted>>

\* theme_wave_apply, at one setFill in 1024.
TiApplies ==
  /\ tiTables # tiTheme /\ tiTables' = tiTheme
  /\ UNCHANGED <<tiTheme, tiEver, tiPx, tiSlots, tiSeen, tiBake, tiStray, tiPainted, tiEvents>>

\* wrap_drawimg onto the display: the sprite path, and the strips that are left
\* recoloured.  An opaque strip is left as it is: the tables themed it, or it is
\* recoloured for this blit alone.
TiDraws(i) ==
  /\ Unlocked
  /\ LET strip == tiTheme # Original /\ ~Adopted(World, i) /\ i \in TiStrips
     IN  IF strip /\ i \in TiOpaque
         THEN UNCHANGED <<tiEver, tiPx, tiSlots, tiSeen, tiStray>>
         ELSE Becomes(Sighted(World, i, strip, tiTheme, tiTheme)) /\ TurnsOn(tiTheme)
  /\ UNCHANGED <<tiTheme, tiTables, tiBake, tiPainted, tiEvents>>

\* wrap_drawimg of one sprite into another, which the app is building.
TiDerives(i, j) ==
  /\ i # j /\ Unlocked
  /\ LET w1 == Sighted(World, i, FALSE, tiTheme, tiTheme)
         w2 == IF tiTheme = Original THEN w1 ELSE Lent(w1, i)
         w3 == [w2 EXCEPT !.px[j] = w2.px[i]]
     IN  Becomes(IF w2 = w1 THEN w3 ELSE Sighted(w3, i, FALSE, tiTheme, tiTheme))
         /\ tiPainted' = [tiPainted EXCEPT ![j] = [r \in Regions |-> w2.px[i][r].raw]]
  /\ TurnsOn(tiTheme) /\ UNCHANGED <<tiTheme, tiTables, tiBake, tiEvents>>

\* wrap_setfill with an image in the FillType.
TiFills(i) ==
  /\ Unlocked
  /\ Becomes(Sighted(World, i, TRUE, tiTheme, tiTheme)) /\ TurnsOn(tiTheme)
  /\ UNCHANGED <<tiTheme, tiTables, tiBake, tiPainted, tiEvents>>

-----------------------------------------------------------------------------
(* The app and the database thread.                                         *)

\* The colours a buffer may be drawn in: a strip's are the tables', unless the app has
\* just made them anew.
Colours(i) == {Original} \cup (IF i \in TiStrips /\ TiSites THEN {tiTables} ELSE {})

\* The app paints some of a buffer: a recycled row is painted over, not cleared.
TiPaints(i, rs, t) ==
  /\ Occurs
  /\ tiPx' = [tiPx EXCEPT ![i] = [r \in Regions |-> IF r \in rs THEN Drawn(1 - @[r].raw, t) ELSE @[r]]]
  /\ tiPainted' = [tiPainted EXCEPT ![i] = [r \in Regions |-> IF r \in rs THEN tiPx'[i][r].raw ELSE @[r]]]
  /\ UNCHANGED <<tiTheme, tiTables, tiEver, tiSlots, tiSeen, tiBake, tiStray>>

\* A buffer is reallocated under its image.
TiMoves(i) ==
  /\ Adopted(World, i) /\ Unlocked /\ Occurs
  /\ tiPx' = [tiPx EXCEPT ![i] = [r \in Regions |-> Drawn(1 - @[r].raw, Original)]]
  /\ tiPainted' = [tiPainted EXCEPT ![i] = [r \in Regions |-> tiPx'[i][r].raw]]
  /\ tiSlots' = [tiSlots EXCEPT ![i].here = FALSE]
  /\ UNCHANGED <<tiTheme, tiTables, tiEver, tiSeen, tiBake, tiStray>>

\* theme_bake_recolour: the lock and the palette; then the label and the rest; then
\* the tables, theme_wave_replied.
TiBakeReads(i) ==
  /\ tiBake = NoBake /\ Occurs
  /\ tiBake' = [image |-> i, pal |-> tiTheme]
  /\ UNCHANGED <<tiTheme, tiTables, tiEver, tiPx, tiSlots, tiSeen, tiStray, tiPainted>>
TiBakeSights ==
  /\ ~Unlocked /\ tiBake' = Baked
  /\ Becomes(Sighted(World, tiBake.image, TRUE, tiBake.pal, tiTheme)) /\ TurnsOn(tiBake.pal)
  /\ UNCHANGED <<tiTheme, tiTables, tiPainted, tiEvents>>
TiBakeReplies ==
  /\ tiBake = Baked /\ tiBake' = NoBake /\ tiTables' = tiTheme
  /\ UNCHANGED <<tiTheme, tiEver, tiPx, tiSlots, tiSeen, tiStray, tiPainted, tiEvents>>

TiNext ==
  \/ \E t \in (TiThemes \cup {Original}) \ {tiTheme} : TiSelect(t)
  \/ TiApplies
  \/ \E i \in Images : TiDraws(i) \/ TiFills(i) \/ TiMoves(i)
  \/ \E i, j \in TiSprites : TiDerives(i, j)
  \/ \E i \in Images, rs \in SUBSET Regions \ {{}} : \E t \in Colours(i) : TiPaints(i, rs, t)
  \/ \E i \in TiStrips : TiBakeReads(i)
  \/ TiBakeSights \/ TiBakeReplies
TiSpec == TiInit /\ [][TiNext]_tiVars

-----------------------------------------------------------------------------
(* Properties.                                                              *)

\* The coats of ours a pixel of an image may wear: its slot's palette's, or none where
\* the app has drawn since.
Wearable(i) ==
  {<<>>} \cup {<<t>> : t \in {t \in TiThemes : Adopted(World, i) /\ tiSlots[i].applied = t}}

\* "A buffer we stop tracking must not be left wearing our transform": what has no slot
\* or is labelled stock, as all that ORIGINAL draws is, wears no coat of ours, and
\* nothing wears two or another palette's than its label, through repaints over what we
\* left, evictions, loans, derived images, strips that come themed, bakes and changes of
\* theme (image_sync.c:47-50, 592-595, image.c:145-150).  A strip that has once been
\* given a label its coats are not of is no longer counted.
CoatsAreCounted == \A i \in Images \ tiStray, r \in Regions : tiPx[i][r].coats \in Wearable(i)

\* "A theme is resolved at draw time, so switching needs no notification"
\* (theme.c:350-353): the same of every strip.
LabelsAreTrue == \A i \in Images, r \in Regions : tiPx[i][r].coats \in Wearable(i)

\* "Put the pixels back, if what is in the buffer is still our doing"
\* (image_sync.c:44): no step of ours loses what the app painted last.
PaintStays == \A i \in Images, r \in Regions : tiPx[i][r].raw = tiPainted[i][r]
=============================================================================
