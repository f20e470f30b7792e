----------------------------- MODULE DeckProofs -----------------------------
(***************************************************************************)
(* The settings record: for any number of changes and power cuts, one saver   *)
(* at a time never leaves a half-written record, nor loses a saved one.  The     *)
(* app's images: no pixel is recoloured twice, whatever is drawn, painted over,    *)
(* derived, evicted or baked, and ORIGINAL shows none recoloured.  The grid     *)
(* panel: its copy of the document tells the whole edit of the loaded analysis,  *)
(* over any number of loads, presses, refusals and resets.  The patches: for any   *)
(* mods and places, what is refused leaves no call behind and cuts none off.       *)
(*                                                                         *)
(* The record.  No file has two names, and none is older than the change it  *)
(* is made for, so the save in hand writes neither the record in place nor the  *)
(* copy (NamesAreApart).  What the renames bring into place was synced under     *)
(* them (HandIsSynced); and the record is moved aside as it was, over a copy that *)
(* is no newer (KeptIsThere).                                               *)
(*                                                                         *)
(* The images.  A sighting is made of parts (room, slot, visit, loan, release)    *)
(* and each keeps WorldIsTold: what a buffer wears is what its slot tells.      *)
(*                                                                         *)
(* The panel.  Until a remembered address goes to another track, the loaded    *)
(* object is as it came unless it is the one that was edited, and that one, with *)
(* the word of a swap still to come, is what the panel asks for (GeOwn).          *)
(*                                                                         *)
(* The patches.  Over a patch of a place is what the next live one found there, or   *)
(* what the place holds: its own wrapper, which calls what it found (PatchesNest).   *)
(* Mods patch in turn, so what one takes back is on top (OwnersInOrder), and the      *)
(* chain of calls is counted by induction from the newest patch (GreatestOf).        *)
(***************************************************************************)
EXTENDS SettingsRecord, ThemeImages, GridEdit, HookJournal, FiniteSetTheorems, WellFoundedInduction, TLAPS

Walk == {"rest", "open", "write", "sync", "aside", "put"}
Held == {"write", "sync", "aside", "put"}

SrTypes ==
  /\ srChanges \in 0..SrMaxChanges /\ srKept \in 0..srChanges
  /\ {srPath, srTmp, srBak} \subseteq 0..srChanges
  /\ srData \in [Names -> Int] /\ srDurable \in [Names -> Int]
  /\ srAt \in [SrSavers -> Walk] /\ srFd \in [SrSavers -> 0..srChanges]
  /\ srTaken \in [SrSavers -> 0..srChanges]

NamesAreApart ==
  /\ srPath # NoFile => srPath # srBak
  /\ srTmp # NoFile => srTmp \notin {srPath, srBak}
  /\ \A w \in SrSavers :
       /\ srAt[w] # "rest" => srKept < srTaken[w]
       /\ srAt[w] = "open" => \A f \in {srPath, srTmp, srBak} : f < srTaken[w]
       /\ srAt[w] \in Held => srTmp # NoFile /\ srFd[w] = srTmp
       /\ srAt[w] = "put" => srPath = NoFile

HandIsSynced == \A w \in SrSavers :
  /\ srAt[w] = "sync" => srData[srFd[w]] = srTaken[w]
  /\ srAt[w] \in {"aside", "put"} => srDurable[srFd[w]] = srTaken[w]

KeptIsThere ==
  /\ srPath # NoFile => srDurable[srPath] # Torn /\ srDurable[srPath] >= srKept
  /\ srPath = NoFile /\ srKept > 0 =>
       srBak # NoFile /\ srDurable[srBak] # Torn /\ srDurable[srBak] >= srKept

SrIInv == SrTypes /\ NamesAreApart /\ HandIsSynced /\ KeptIsThere

\* No two threads save at once.  Nothing in the code sees to it: the menu and the
\* separator's thread share the temporary name.
LoneSaver == \E w \in SrSavers : SrSavers = {w}
-----------------------------------------------------------------------------
(* The changes of the record and its file names are numbers, and none of them is the mark of a
   torn file. *)
LEMMA CountsAreNumbers == SrMaxChanges \in Nat /\ Names \subseteq Nat /\ Torn \in Int \ Nat
BY SrAssumption DEF Names, Torn

(* The record a deck starts with, none or an old one, satisfies the inductive invariant. *)
THEOREM SrInitIInv == SrInit => SrIInv
BY CountsAreNumbers DEF SrInit, SrIInv, SrTypes, NamesAreApart, HandIsSynced, KeptIsThere, Names, NoFile,
   Torn, Defaults, Walk, Held

(* A system call of the saver, or a power cut.                              *)
THEOREM SrStepKeepsIInv == LoneSaver => (SrIInv /\ [SrNext]_srVars => SrIInv')
<1> SUFFICES ASSUME NEW w \in SrSavers, SrSavers = {w}, SrIInv, [SrNext]_srVars PROVE SrIInv'
  BY DEF LoneSaver
<1> USE CountsAreNumbers DEF SrIInv, Walks, NoFile
<1>1. CASE SrChange(w)
  <2>1. SrTypes'
    <3>1. srChanges' \in 0..SrMaxChanges /\ srKept' \in 0..srChanges' /\ srChanges <= srChanges'
      BY <1>1 DEF SrTypes, SrChange
    <3>2. {srPath', srTmp', srBak'} \subseteq 0..srChanges'
      BY <1>1 DEF SrTypes, SrChange
    <3>3. srData' \in [Names -> Int] /\ srDurable' \in [Names -> Int]
      <4>1. srTaken[w] \in Int /\ Torn \in Int
        BY DEF SrTypes, Torn
      <4>2. QED
        BY <1>1, <4>1 DEF SrTypes, SrChange
    <3>4. srAt' \in [SrSavers -> Walk]
      BY <1>1 DEF SrTypes, Walk, SrChange
    <3>5. srFd' \in [SrSavers -> 0..srChanges'] /\ srTaken' \in [SrSavers -> 0..srChanges']
      BY <1>1, <3>1 DEF SrTypes, SrChange
    <3>6. QED
      BY <3>1, <3>2, <3>3, <3>4, <3>5 DEF SrTypes
  <2>2. NamesAreApart'
    BY <1>1 DEF SrTypes, NamesAreApart, Held, Walk, SrChange
  <2>3. HandIsSynced'
    BY <1>1 DEF SrTypes, NamesAreApart, HandIsSynced, Held, Names, SrChange
  <2>4. KeptIsThere'
    BY <1>1 DEF SrTypes, NamesAreApart, HandIsSynced, KeptIsThere, Held, Names, Torn, SrChange
  <2>5. QED
    BY <2>1, <2>2, <2>3, <2>4
<1>2. CASE SrOpens(w)
  <2>1. SrTypes'
    <3>1. srAt' \in [SrSavers -> Walk] /\ srFd' \in [SrSavers -> 0..srChanges']
      BY <1>2 DEF SrTypes, Walk, Names, SrOpens
    <3>2. {srPath', srTmp', srBak'} \subseteq 0..srChanges'
      BY <1>2 DEF SrTypes, SrOpens
    <3>3. srData' \in [Names -> Int] /\ srDurable' \in [Names -> Int]
      BY <1>2 DEF SrTypes, SrOpens
    <3>4. QED
      BY <1>2, <3>1, <3>2, <3>3 DEF SrTypes, SrOpens
  <2>2. NamesAreApart'
    BY <1>2 DEF SrTypes, NamesAreApart, Held, Walk, SrOpens
  <2>3. HandIsSynced'
    BY <1>2 DEF SrTypes, NamesAreApart, HandIsSynced, Held, Names, SrOpens
  <2>4. KeptIsThere'
    <3> DEFINE f == IF srTmp # NoFile THEN srTmp ELSE srTaken[w]
    <3>1. f \in Names /\ f \notin {srPath, srBak} /\ srDurable' = [srDurable EXCEPT ![f] = Torn]
      <4>1. srAt[w] = "open" /\ srDurable' = [srDurable EXCEPT ![f] = Torn]
        BY <1>2 DEF SrOpens
      <4>2. CASE srTmp # NoFile
        <5>1. srTmp \in Names /\ srTmp \notin {srPath, srBak}
          BY <4>2 DEF SrTypes, NamesAreApart, Names
        <5>2. QED
          BY <4>1, <4>2, <5>1
      <4>3. CASE srTmp = NoFile
        <5>1. srTaken[w] \in 0..srChanges /\ srChanges \in 0..SrMaxChanges
          BY DEF SrTypes
        <5>2. \A g \in {srPath, srTmp, srBak} : g < srTaken[w]
          BY <4>1 DEF NamesAreApart
        <5>3. srTaken[w] \in Names
          BY <5>1, <5>2 DEF SrTypes, Names
        <5>4. QED
          BY <4>1, <4>3, <5>2, <5>3 DEF SrTypes
      <4>4. QED
        BY <4>2, <4>3
    <3> HIDE DEF f
    <3>2. UNCHANGED <<srPath, srBak, srKept>>
      BY <1>2 DEF SrOpens
    <3>3. \A g \in {srPath, srBak} : srDurable'[g] = srDurable[g]
      BY <3>1 DEF SrTypes
    <3>4. QED
      BY <3>2, <3>3 DEF KeptIsThere
  <2>5. QED
    BY <2>1, <2>2, <2>3, <2>4
<1>3. CASE SrCannotOpen(w)
  <2>1. SrTypes'
    BY <1>3 DEF SrTypes, Walk, Names, Torn, SrCannotOpen
  <2>2. NamesAreApart'
    BY <1>3 DEF SrTypes, NamesAreApart, Held, Walk, SrCannotOpen
  <2>3. HandIsSynced'
    BY <1>3 DEF SrTypes, NamesAreApart, HandIsSynced, Held, Names, SrCannotOpen
  <2>4. KeptIsThere'
    BY <1>3 DEF SrTypes, NamesAreApart, HandIsSynced, KeptIsThere, Held, Names, Torn, SrCannotOpen
  <2>5. QED
    BY <2>1, <2>2, <2>3, <2>4
<1>4. CASE SrWrites(w)
  <2>1. SrTypes'
    <3>1. srChanges' \in 0..SrMaxChanges /\ srKept' \in 0..srChanges' /\ srChanges <= srChanges'
      BY <1>4 DEF SrTypes, SrWrites
    <3>2. {srPath', srTmp', srBak'} \subseteq 0..srChanges'
      BY <1>4 DEF SrTypes, SrWrites
    <3>3. srData' \in [Names -> Int] /\ srDurable' \in [Names -> Int]
      <4>1. srTaken[w] \in Int /\ Torn \in Int
        BY DEF SrTypes, Torn
      <4>2. QED
        BY <1>4, <4>1 DEF SrTypes, SrWrites
    <3>4. srAt' \in [SrSavers -> Walk]
      BY <1>4 DEF SrTypes, Walk, SrWrites
    <3>5. srFd' \in [SrSavers -> 0..srChanges'] /\ srTaken' \in [SrSavers -> 0..srChanges']
      BY <1>4, <3>1 DEF SrTypes, SrWrites
    <3>6. QED
      BY <3>1, <3>2, <3>3, <3>4, <3>5 DEF SrTypes
  <2>2. NamesAreApart'
    BY <1>4 DEF SrTypes, NamesAreApart, Held, Walk, SrWrites
  <2>3. HandIsSynced'
    BY <1>4 DEF SrTypes, NamesAreApart, HandIsSynced, Held, Names, SrWrites
  <2>4. KeptIsThere'
    BY <1>4 DEF SrTypes, NamesAreApart, HandIsSynced, KeptIsThere, Held, Names, Torn, SrWrites
  <2>5. QED
    BY <2>1, <2>2, <2>3, <2>4
<1>5. CASE SrPartitionFull(w)
  <2>1. SrTypes'
    <3>1. srChanges' \in 0..SrMaxChanges /\ srKept' \in 0..srChanges' /\ srChanges <= srChanges'
      BY <1>5 DEF SrTypes, SrPartitionFull
    <3>2. {srPath', srTmp', srBak'} \subseteq 0..srChanges'
      BY <1>5 DEF SrTypes, SrPartitionFull
    <3>3. srData' \in [Names -> Int] /\ srDurable' \in [Names -> Int]
      <4>1. srTaken[w] \in Int /\ Torn \in Int
        BY DEF SrTypes, Torn
      <4>2. QED
        BY <1>5, <4>1 DEF SrTypes, SrPartitionFull
    <3>4. srAt' \in [SrSavers -> Walk]
      BY <1>5 DEF SrTypes, Walk, SrPartitionFull
    <3>5. srFd' \in [SrSavers -> 0..srChanges'] /\ srTaken' \in [SrSavers -> 0..srChanges']
      BY <1>5, <3>1 DEF SrTypes, SrPartitionFull
    <3>6. QED
      BY <3>1, <3>2, <3>3, <3>4, <3>5 DEF SrTypes
  <2>2. NamesAreApart'
    BY <1>5 DEF SrTypes, NamesAreApart, Held, Walk, SrPartitionFull
  <2>3. HandIsSynced'
    BY <1>5 DEF SrTypes, NamesAreApart, HandIsSynced, Held, Names, SrPartitionFull
  <2>4. KeptIsThere'
    BY <1>5 DEF SrTypes, NamesAreApart, HandIsSynced, KeptIsThere, Held, Names, Torn, SrPartitionFull
  <2>5. QED
    BY <2>1, <2>2, <2>3, <2>4
<1>6. CASE SrSyncs(w)
  <2>1. SrTypes'
    BY <1>6 DEF SrTypes, Walk, Names, Torn, SrSyncs
  <2>2. NamesAreApart'
    BY <1>6 DEF SrTypes, NamesAreApart, Held, Walk, SrSyncs
  <2>3. HandIsSynced'
    BY <1>6 DEF SrTypes, NamesAreApart, HandIsSynced, Held, Names, SrSyncs
  <2>4. KeptIsThere'
    <3>1. srFd[w] \in Names /\ srFd[w] \notin {srPath, srBak}
      BY <1>6 DEF SrTypes, NamesAreApart, Held, Names, SrSyncs
    <3>2. \A f \in {srPath, srBak} : srDurable'[f] = srDurable[f]
      BY <1>6, <3>1 DEF SrTypes, SrSyncs
    <3>3. QED
      BY <1>6, <3>2 DEF KeptIsThere, SrSyncs
  <2>5. QED
    BY <2>1, <2>2, <2>3, <2>4
<1>7. CASE SrAside(w)
  <2>1. SrTypes'
    BY <1>7 DEF SrTypes, Walk, Names, Torn, SrAside
  <2>2. NamesAreApart'
    BY <1>7 DEF SrTypes, NamesAreApart, Held, Walk, SrAside
  <2>3. HandIsSynced'
    BY <1>7 DEF SrTypes, NamesAreApart, HandIsSynced, Held, Names, SrAside
  <2>4. KeptIsThere'
    BY <1>7 DEF SrTypes, NamesAreApart, HandIsSynced, KeptIsThere, Held, Names, Torn, SrAside
  <2>5. QED
    BY <2>1, <2>2, <2>3, <2>4
<1>8. CASE SrPuts(w)
  <2>1. SrTypes'
    BY <1>8 DEF SrTypes, Walk, Names, Torn, SrPuts
  <2>2. NamesAreApart'
    BY <1>8 DEF SrTypes, NamesAreApart, Held, Walk, SrPuts
  <2>3. HandIsSynced'
    BY <1>8 DEF SrTypes, NamesAreApart, HandIsSynced, Held, Names, SrPuts
  <2>4. KeptIsThere'
    <3>1. srDurable[srFd[w]] = srTaken[w] /\ srFd[w] = srTmp /\ srTmp # NoFile
      BY <1>8 DEF NamesAreApart, HandIsSynced, Held, SrPuts
    <3>2. srTaken[w] \in Nat /\ srTaken[w] # Torn
      BY DEF SrTypes
    <3>3. srKept < srTaken[w] /\ srKept \in Nat
      BY <1>8 DEF SrTypes, NamesAreApart, SrPuts
    <3>4. srPath' = srTmp /\ srKept' = srTaken[w] /\ srDurable' = srDurable
      BY <1>8, <3>1, <3>2, <3>3 DEF SrPuts
    <3>5. QED
      BY <3>1, <3>2, <3>4 DEF KeptIsThere
  <2>5. QED
    BY <2>1, <2>2, <2>3, <2>4
<1>9. CASE SrPowerCut
  BY <1>9 DEF SrPowerCut, SrTypes, NamesAreApart, HandIsSynced, KeptIsThere, Walk, Held, Defaults
<1>10. CASE UNCHANGED srVars
  BY <1>10 DEF srVars, SrTypes, NamesAreApart, HandIsSynced, KeptIsThere
<1>11. QED
  BY <1>1, <1>2, <1>3, <1>4, <1>5, <1>6, <1>7, <1>8, <1>9, <1>10 DEF SrNext

(* A power cut can lose the new value but never leaves a half-written one, and  *)
(* the previous copy stays (common.c:659-660), as long as one thread saves at a  *)
(* time.                                                                   *)
THEOREM CutsLoseOneChangeAtMost == LoneSaver => (SrSpec => []CutsLoseOneChange)
<1>1. SrIInv => CutsLoseOneChange
  BY CountsAreNumbers DEF SrIInv, SrTypes, KeptIsThere, CutsLoseOneChange, NeverHalfWritten, ACopyStays, NoFile
<1>2. ASSUME LoneSaver PROVE SrSpec => []CutsLoseOneChange
  <2>1. SrIInv /\ [SrNext]_srVars => SrIInv'
    BY <1>2, SrStepKeepsIInv
  <2>2. QED
    BY <1>1, <2>1, SrInitIInv, PTL DEF SrSpec
<1>3. QED
  BY <1>2

-----------------------------------------------------------------------------
(* The images.  Every step of ours goes through a sighting, so what a world of   *)
(* buffers and slots must keep is kept by each of its parts.  A buffer no slot    *)
(* recolours is bare; in one that is recoloured, a pixel is bare or is what the   *)
(* slot's label makes of the original it keeps, and the originals are bare.  Only *)
(* a strip goes astray, and of one astray nothing is claimed.                *)
Labels == TiThemes \cup {Original, Stock, Mixed}
Pixels == [raw : {0, 1}, tables : TiThemes \cup {Original}, coats : Seq(TiThemes)]
Buffers == [Regions -> Pixels]
Kept == [chrome : {"ours", "left alone"}, orig : Buffers, applied : Labels,
         left : Buffers \cup {<<>>}, here : BOOLEAN]
Bare(px) == \A r \in Regions : px[r].coats = <<>>

SlotTells(w, i) ==
  LET e == w.slots[i] IN
  IF e.chrome = "ours"
  THEN /\ Bare(e.orig)
       /\ \A r \in Regions : w.px[i][r].coats = <<>> \/ w.px[i][r] = Mapped(e.applied, e.orig)[r]
       /\ ~e.here => Bare(w.px[i])
  ELSE Bare(w.px[i])

WorldIsTold(w) ==
  /\ w = [px |-> w.px, slots |-> w.slots, seen |-> w.seen, stray |-> w.stray]
  /\ w.px \in [Images -> Buffers] /\ w.slots \in [Images -> {NoSlotYet} \cup Kept]
  /\ w.stray \subseteq TiStrips
  /\ \A i \in Images \ w.stray : SlotTells(w, i)

PalettesAreThemes ==
  /\ Unlocked \/ (tiBake.image \in TiStrips /\ tiBake.pal \in TiThemes \cup {Original})
  /\ {tiTheme, tiTables} \subseteq TiThemes \cup {Original} /\ tiEver \in BOOLEAN

NothingWornBefore == ~tiEver => \A i \in Images : Bare(tiPx[i])

TiIInv == WorldIsTold(World) /\ PalettesAreThemes /\ NothingWornBefore
-----------------------------------------------------------------------------
(* ORIGINAL, the stock art and a mixed row are not themes: no coat can be taken for one of them. *)
LEMMA LabelsAreNoThemes == Original \notin TiThemes /\ Stock \notin TiThemes /\ Mixed \notin TiThemes
BY TiAssumption DEF Original, Stock, Mixed

(* A region the app has just drawn wears no coat. *)
LEMMA DrawnIsBare ==
  ASSUME NEW n \in {0, 1}, NEW t \in TiThemes \cup {Original}
  PROVE  Drawn(n, t) \in Pixels /\ Drawn(n, t).coats = <<>>
BY DEF Drawn, Pixels

(* A slot that was never made is told from every slot the pool keeps by its chrome. *)
LEMMA NoSlotIsNotKept == NoSlotYet.chrome = "none" /\ NoSlotYet \notin Kept /\ \A e \in Kept : e.chrome # "none"
BY DEF NoSlotYet, Kept

(* What a palette makes of a buffer, and of a buffer that is bare. *)
LEMMA MappedIs ==
  ASSUME NEW pal, NEW px \in Buffers
  PROVE  /\ Mapped(pal, px) \in Buffers
         /\ pal \notin TiThemes => Mapped(pal, px) = px
         /\ pal \in TiThemes => \A r \in Regions : Mapped(pal, px)[r] = [px[r] EXCEPT !.coats = Append(@, pal)]
         /\ Bare(px) => \A r \in Regions :
                          Mapped(pal, px)[r].coats = IF pal \in TiThemes THEN <<pal>> ELSE <<>>
<1>1. CASE pal \notin TiThemes
  BY <1>1 DEF Mapped, Bare
<1>2. CASE pal \in TiThemes
  <2>1. \A r \in Regions : px[r] \in Pixels /\ Append(px[r].coats, pal) \in Seq(TiThemes)
    BY <1>2 DEF Buffers, Pixels
  <2>2. Mapped(pal, px) = [r \in Regions |-> [px[r] EXCEPT !.coats = Append(@, pal)]]
    BY <1>2 DEF Mapped
  <2>3. \A r \in Regions : /\ Mapped(pal, px)[r] \in Pixels
                           /\ Mapped(pal, px)[r] = [px[r] EXCEPT !.coats = Append(@, pal)]
                           /\ Mapped(pal, px)[r].coats = Append(px[r].coats, pal)
    BY <2>1, <2>2 DEF Pixels
  <2>4. Mapped(pal, px) \in Buffers
    BY <2>2, <2>3 DEF Buffers
  <2>5. Append(<<>>, pal) = <<pal>>
    OBVIOUS
  <2>6. QED
    BY <1>2, <2>3, <2>4, <2>5 DEF Bare
<1>3. QED
  BY <1>1, <1>2

(* A palette makes the same of pixels that are the same.                     *)
LEMMA MappedAgrees ==
  ASSUME NEW pal, NEW px \in Buffers, NEW qx \in Buffers, NEW r \in Regions, px[r] = qx[r]
  PROVE  Mapped(pal, px)[r] = Mapped(pal, qx)[r]
BY DEF Mapped

(* What a world that is told says of a pixel's coats: the slot's palette or none. *)
LEMMA ToldIsWearable ==
  ASSUME NEW w, WorldIsTold(w), NEW i \in Images \ w.stray, NEW r \in Regions
  PROVE  \/ w.px[i][r].coats = <<>>
         \/ /\ Adopted(w, i) /\ w.slots[i].applied \in TiThemes
            /\ w.px[i][r].coats = <<w.slots[i].applied>>
<1>1. w.px[i] \in Buffers /\ w.slots[i] \in {NoSlotYet} \cup Kept /\ SlotTells(w, i)
  BY DEF WorldIsTold
<1>2. CASE Adopted(w, i)
  <2>1. w.slots[i].orig \in Buffers /\ Bare(w.slots[i].orig)
    BY <1>1, <1>2, NoSlotIsNotKept DEF SlotTells, Adopted, Kept
  <2>2. w.px[i][r].coats = <<>> \/ w.px[i][r] = Mapped(w.slots[i].applied, w.slots[i].orig)[r]
    BY <1>1, <1>2 DEF SlotTells, Adopted
  <2>3. Mapped(w.slots[i].applied, w.slots[i].orig)[r].coats
          = IF w.slots[i].applied \in TiThemes THEN <<w.slots[i].applied>> ELSE <<>>
    BY <2>1, MappedIs
  <2>4. CASE w.slots[i].applied \in TiThemes
    BY <1>2, <2>2, <2>3, <2>4
  <2>5. CASE w.slots[i].applied \notin TiThemes
    BY <2>2, <2>3, <2>5
  <2>6. QED
    BY <2>4, <2>5
<1>3. CASE ~Adopted(w, i)
  BY <1>1, <1>3 DEF SlotTells, Bare, Adopted
<1>4. QED
  BY <1>2, <1>3

(* img_release, of an image or of none.                                     *)
LEMMA ReleaseTells ==
  ASSUME NEW w, WorldIsTold(w), NEW v
  PROVE  /\ WorldIsTold(ImgRelease(w, v)) /\ ImgRelease(w, v).stray = w.stray
         /\ \A i \in Images : ImgRelease(w, v).slots[i] = IF i = v THEN NoSlotYet ELSE w.slots[i]
<1> DEFINE z == ImgRelease(w, v)
           px == IF Adopted(w, v) /\ w.slots[v].applied # Stock /\ w.slots[v].here
                 THEN [w.px EXCEPT ![v] = w.slots[v].orig] ELSE w.px
<1>1. z = [px |-> px, slots |-> [w.slots EXCEPT ![v] = NoSlotYet], seen |-> Remove(w.seen, v),
           stray |-> w.stray]
  BY DEF ImgRelease
<1>2. /\ z = [px |-> z.px, slots |-> z.slots, seen |-> z.seen, stray |-> z.stray]
      /\ z.px = px /\ z.slots = [w.slots EXCEPT ![v] = NoSlotYet] /\ z.stray = w.stray
  BY <1>1
<1> HIDE DEF z
<1>3. z.slots \in [Images -> {NoSlotYet} \cup Kept]
      /\ \A i \in Images : z.slots[i] = IF i = v THEN NoSlotYet ELSE w.slots[i]
  BY <1>2 DEF WorldIsTold
<1>4. v \in Images /\ Adopted(w, v) => w.slots[v] \in Kept
  BY NoSlotIsNotKept DEF WorldIsTold, Adopted
<1>5. z.px \in [Images -> Buffers] /\ \A i \in Images : i # v => z.px[i] = w.px[i]
  <2>1. w.px \in [Images -> Buffers]
    BY DEF WorldIsTold
  <2>2. v \in Images /\ Adopted(w, v) => w.slots[v].orig \in Buffers
    BY <1>4 DEF Kept
  <2>3. QED
    BY <1>2, <2>1, <2>2
<1>6. ASSUME v \in Images \ w.stray PROVE Bare(z.px[v])
  <2>1. SlotTells(w, v) /\ w.px \in [Images -> Buffers]
    BY <1>6 DEF WorldIsTold
  <2>2. CASE Adopted(w, v) /\ w.slots[v].applied # Stock /\ w.slots[v].here
    BY <1>2, <1>6, <2>1, <2>2 DEF SlotTells, Adopted
  <2>3. CASE Adopted(w, v) /\ ~w.slots[v].here
    BY <1>2, <2>1, <2>3 DEF SlotTells, Adopted
  <2>4. CASE Adopted(w, v) /\ w.slots[v].applied = Stock
    <3>1. \A r \in Regions : w.px[v][r].coats = <<>>
      BY <1>6, <2>4, ToldIsWearable, LabelsAreNoThemes
    <3>2. QED
      BY <1>2, <2>4, <3>1 DEF Bare
  <2>5. CASE ~Adopted(w, v)
    BY <1>2, <2>1, <2>5 DEF SlotTells, Adopted
  <2>6. QED
    BY <2>2, <2>3, <2>4, <2>5
<1>7. ASSUME NEW i \in Images \ w.stray PROVE SlotTells(z, i)
  <2>1. CASE i = v
    BY <1>3, <1>6, <2>1, NoSlotIsNotKept DEF SlotTells
  <2>2. CASE i # v
    BY <1>3, <1>5, <2>2 DEF WorldIsTold, SlotTells
  <2>3. QED
    BY <2>1, <2>2
<1>8. QED
  BY <1>2, <1>3, <1>5, <1>7 DEF WorldIsTold, z

(* img_evict_live, and the first sighting of an image.                       *)
LEMMA FirstSightingTells ==
  ASSUME NEW w0, WorldIsTold(w0), NEW i \in Images, w0.slots[i] = NoSlotYet, NEW later \in BOOLEAN
  PROVE  WorldIsTold(FirstSighting(w0, i, later)) /\ FirstSighting(w0, i, later).stray = w0.stray
<1> DEFINE live == i \in TiStrips
           ok == live => later
           w == IF live /\ ok THEN EvictLive(w0) ELSE w0
           copies == {j \in Images : Adopted(w, j)}
           chrome == ok /\ Cardinality(copies) < TiCopyBudget
           kind == IF chrome THEN "ours" ELSE "left alone"
           none == <<>>
           e == [chrome |-> kind, orig |-> w.px[i], applied |-> Original, left |-> none, here |-> TRUE]
           seen == IF live /\ chrome THEN Append(w.seen, i) ELSE w.seen
           z == [px |-> w.px, slots |-> [w.slots EXCEPT ![i] = e], seen |-> seen, stray |-> w.stray]
<1>1. WorldIsTold(w) /\ w.slots[i] = NoSlotYet /\ w.stray = w0.stray
  <2>1. WorldIsTold(EvictLive(w0)) /\ EvictLive(w0).slots[i] = NoSlotYet /\ EvictLive(w0).stray = w0.stray
    BY ReleaseTells DEF EvictLive
  <2>2. QED
    BY <2>1
<1>2. FirstSighting(w0, i, later) = w \/ FirstSighting(w0, i, later) = z
  BY DEF FirstSighting
<1>3. kind \in {"ours", "left alone"}
  OBVIOUS
<1> HIDE DEF w, kind, seen
<1>4. w.px[i] \in Buffers /\ (i \notin w.stray => Bare(w.px[i]))
  BY <1>1, NoSlotIsNotKept DEF WorldIsTold, SlotTells
<1>5. e \in Kept
  <2>1. Original \in Labels
    BY DEF Labels
  <2>2. none \in Buffers \cup {<<>>}
    OBVIOUS
  <2> HIDE DEF none
  <2>3. QED
    BY <1>3, <1>4, <2>1, <2>2 DEF Kept
<1>6. e.chrome = kind /\ e.orig = w.px[i] /\ e.here
  OBVIOUS
<1> HIDE DEF e
<1>7. /\ z = [px |-> z.px, slots |-> z.slots, seen |-> z.seen, stray |-> z.stray]
      /\ z.px = w.px /\ z.slots = [w.slots EXCEPT ![i] = e] /\ z.stray = w.stray
  BY <1>1 DEF WorldIsTold
<1> HIDE DEF z
<1>8. z.slots \in [Images -> {NoSlotYet} \cup Kept] /\ z.px \in [Images -> Buffers] /\ z.stray \subseteq TiStrips
  BY <1>1, <1>5, <1>7 DEF WorldIsTold
<1>9. ASSUME NEW j \in Images \ z.stray PROVE SlotTells(z, j)
  <2>1. CASE j = i
    <3>1. z.slots[j] = e /\ z.px[j] = w.px[i] /\ Bare(w.px[i])
      BY <1>1, <1>4, <1>7, <2>1 DEF WorldIsTold
    <3>2. QED
      BY <1>6, <3>1 DEF SlotTells, Bare
  <2>2. CASE j # i
    <3>1. z.slots[j] = w.slots[j] /\ z.px[j] = w.px[j] /\ SlotTells(w, j)
      BY <1>1, <1>7, <2>2 DEF WorldIsTold
    <3>2. QED
      BY <3>1 DEF SlotTells
  <2>3. QED
    BY <2>1, <2>2
<1>10. WorldIsTold(z)
  BY <1>7, <1>8, <1>9 DEF WorldIsTold
<1>11. QED
  BY <1>1, <1>2, <1>7, <1>10

(* A visit to an image that has a slot.  Left as the tables drew it, mapped or put *)
(* back, its coats are its new label's unless it goes astray, and there is none     *)
(* when there is no palette.                                                *)
LEMMA VisitTells ==
  ASSUME NEW w, WorldIsTold(w), NEW i \in Images, w.slots[i] # NoSlotYet,
         NEW pal \in TiThemes \cup {Original}, NEW id \in TiThemes \cup {Original},
         i \in TiStrips \/ id = pal, NEW want, want = IF pal = Original THEN Stock ELSE id
  PROVE  LET z == Visit(w, i, pal, want) IN
         /\ WorldIsTold(z) /\ w.stray \subseteq z.stray
         /\ pal = Original /\ i \notin z.stray => Bare(z.px[i])
<1> DEFINE e == w.slots[i]
           moved == w.px[i] # e.left
           orig == IF moved THEN Reconciled(e, w.px[i]) ELSE e.orig
           applied == IF moved THEN Mixed ELSE e.applied
           sourced == want # Stock /\ i \in TiStrips /\ Sourced(w.px[i])
           px == IF applied = want \/ sourced THEN w.px[i] ELSE Mapped(pal, orig)
           astray == /\ applied # want /\ want # Stock
                     /\ IF sourced THEN \E r \in Regions : px[r].coats \notin {<<>>, <<want>>}
                                   ELSE pal # want
           slot == [e EXCEPT !.orig = orig, !.applied = want, !.left = px]
           seen == IF i \in TiStrips THEN Append(Remove(w.seen, i), i) ELSE w.seen
           stray == IF astray THEN w.stray \cup {i} ELSE w.stray
           z == [px |-> [w.px EXCEPT ![i] = px], slots |-> [w.slots EXCEPT ![i] = slot], seen |-> seen,
                 stray |-> stray]
<1>1. /\ e \in Kept /\ w.px[i] \in Buffers /\ w.px \in [Images -> Buffers]
      /\ i \notin w.stray => SlotTells(w, i)
  BY DEF WorldIsTold
<1>2. CASE ~Adopted(w, i)
  <2>1. Visit(w, i, pal, want) = w
    BY <1>2 DEF Visit
  <2>2. QED
    BY <1>1, <1>2, <2>1 DEF SlotTells, Adopted
<1>3. CASE Adopted(w, i) /\ ~e.here
  <2>1. Visit(w, i, pal, want) = ImgRelease(w, i)
    BY <1>3 DEF Visit
  <2>2. /\ WorldIsTold(ImgRelease(w, i)) /\ ImgRelease(w, i).slots[i] = NoSlotYet
        /\ ImgRelease(w, i).stray = w.stray
    BY ReleaseTells
  <2>3. i \notin w.stray => Bare(ImgRelease(w, i).px[i])
    BY <2>2, NoSlotIsNotKept DEF WorldIsTold, SlotTells
  <2>4. QED
    BY <2>1, <2>2, <2>3
<1>4. CASE Adopted(w, i) /\ e.here
  <2>1. Visit(w, i, pal, want) = z
    BY <1>4 DEF Visit
  <2>2. e.orig \in Buffers /\ e.applied \in Labels /\ e.chrome = "ours" /\ e.here \in BOOLEAN
    BY <1>1, <1>4 DEF Adopted, Kept
  <2>3. i \notin w.stray =>
          /\ Bare(e.orig)
          /\ \A r \in Regions : w.px[i][r].coats = <<>> \/ w.px[i][r] = Mapped(e.applied, e.orig)[r]
    BY <1>1, <2>2 DEF SlotTells
  <2>4. /\ Reconciled(e, w.px[i]) \in Buffers
        /\ i \notin w.stray => Bare(Reconciled(e, w.px[i]))
    BY <1>1, <2>2, <2>3 DEF Reconciled, Buffers, Bare
  <2>5. orig \in Buffers /\ (i \notin w.stray => Bare(orig))
    BY <2>2, <2>3, <2>4
  <2>6. want \in Labels /\ want # Mixed
    BY LabelsAreNoThemes DEF Labels, Original, Stock, Mixed
  <2>7. Mapped(pal, orig) \in Buffers /\ Mapped(want, orig) \in Buffers
    BY <2>5, MappedIs
  <2>8. px \in Buffers
    BY <1>1, <2>7
  <2>9. ASSUME i \notin stray, NEW r \in Regions
        PROVE  px[r].coats = <<>> \/ px[r] = Mapped(want, orig)[r]
    <3>1. ~astray /\ i \notin w.stray
      BY <2>9
    <3>2. CASE applied = want
      <4>1. ~moved /\ px = w.px[i] /\ orig = e.orig /\ want = e.applied
        BY <2>6, <3>2
      <4>2. QED
        BY <2>3, <3>1, <4>1
    <3>3. CASE applied # want /\ sourced
      <4>1. px = w.px[i] /\ px[r].coats \in {<<>>, <<want>>}
        BY <3>1, <3>3
      <4>2. CASE px[r].coats = <<want>>
        <5>1. <<want>> # <<>>
          OBVIOUS
        <5>2. px[r] = Mapped(e.applied, e.orig)[r]
          BY <2>3, <3>1, <4>1, <4>2, <5>1
        <5>3. Mapped(e.applied, e.orig)[r].coats = IF e.applied \in TiThemes THEN <<e.applied>> ELSE <<>>
          <6>1. e.orig \in Buffers /\ Bare(e.orig)
            BY <2>2, <2>3, <3>1
          <6> HIDE DEF e
          <6>2. QED
            BY <6>1, MappedIs
        <5>4. e.applied = want /\ want \in TiThemes
          <6>1. Mapped(e.applied, e.orig)[r].coats = <<want>>
            BY <4>2, <5>2
          <6> HIDE DEF e
          <6>2. QED
            BY <5>1, <5>3, <6>1
        <5>5. orig = Reconciled(e, w.px[i])
          BY <3>3, <5>4
        <5>6. orig[r] = e.orig[r]
          BY <4>1, <5>2, <5>5 DEF Reconciled
        <5>7. Mapped(want, orig)[r] = Mapped(want, e.orig)[r]
          <6>1. orig \in Buffers /\ e.orig \in Buffers
            BY <2>2, <2>5
          <6> HIDE DEF orig, e
          <6>2. QED
            BY <5>6, <6>1, MappedAgrees
        <5>8. QED
          BY <5>2, <5>4, <5>7
      <4>3. QED
        BY <4>1, <4>2
    <3>4. CASE applied # want /\ ~sourced
      <4>1. px = Mapped(pal, orig)
        BY <3>4
      <4>2. CASE want = Stock
        <5>1. pal = Original
          BY <4>2, LabelsAreNoThemes DEF Original, Stock
        <5>2. QED
          BY <2>5, <3>1, <4>1, <4>2, <5>1, MappedIs, LabelsAreNoThemes DEF Bare
      <4>3. CASE want # Stock
        BY <3>1, <3>4, <4>1, <4>3
      <4>4. QED
        BY <4>2, <4>3
    <3>5. QED
      BY <3>2, <3>3, <3>4
  <2>10. stray \subseteq TiStrips /\ w.stray \subseteq stray
    <3>1. astray => i \in TiStrips
      OBVIOUS
    <3>2. QED
      BY <3>1 DEF WorldIsTold
  <2> HIDE DEF orig, px, e, applied, stray
  <2>11. slot \in Kept /\ slot.chrome = "ours" /\ slot.orig = orig /\ slot.applied = want /\ slot.here
    BY <1>1, <1>4, <2>2, <2>5, <2>6, <2>8 DEF Kept
  <2> HIDE DEF slot, seen
  <2>12. /\ z = [px |-> z.px, slots |-> z.slots, seen |-> z.seen, stray |-> z.stray]
         /\ z.px = [w.px EXCEPT ![i] = px] /\ z.slots = [w.slots EXCEPT ![i] = slot] /\ z.stray = stray
    OBVIOUS
  <2> HIDE DEF z
  <2>13. z.px \in [Images -> Buffers] /\ z.slots \in [Images -> {NoSlotYet} \cup Kept]
         /\ z.px[i] = px /\ z.slots[i] = slot
    BY <1>1, <2>8, <2>11, <2>12 DEF WorldIsTold
  <2>14. ASSUME NEW j \in Images \ z.stray PROVE SlotTells(z, j)
    <3>1. CASE j = i
      BY <2>5, <2>9, <2>10, <2>11, <2>12, <2>13, <3>1 DEF SlotTells
    <3>2. CASE j # i
      BY <1>1, <2>10, <2>12, <3>2 DEF WorldIsTold, SlotTells
    <3>3. QED
      BY <3>1, <3>2
  <2>15. WorldIsTold(z)
    BY <2>10, <2>12, <2>13, <2>14 DEF WorldIsTold
  <2>16. pal = Original /\ i \notin z.stray => Bare(z.px[i])
    <3>1. pal = Original => Mapped(want, orig) = orig
      BY <2>5, MappedIs, LabelsAreNoThemes
    <3>2. QED
      BY <2>5, <2>9, <2>10, <2>12, <2>13, <3>1 DEF Bare
  <2>17. QED
    BY <2>1, <2>10, <2>12, <2>15, <2>16
<1>5. QED
  BY <1>2, <1>3, <1>4

(* A sighting, and the loan of the stock pixels.                            *)
LEMMA SightedTells ==
  ASSUME NEW w, WorldIsTold(w), NEW i \in Images, NEW later \in BOOLEAN,
         NEW pal \in TiThemes \cup {Original}, NEW id \in TiThemes \cup {Original},
         i \in TiStrips \/ id = pal,
         pal = Original /\ ~tiEver => \A j \in Images : Bare(w.px[j])
  PROVE  LET z == Sighted(w, i, later, pal, id) IN
         /\ WorldIsTold(z) /\ (pal = Original /\ i \notin z.stray => Bare(z.px[i]))
         /\ pal = Original /\ ~tiEver => z = w
<1> DEFINE want == IF pal = Original THEN Stock ELSE id
           known == IF w.slots[i] = NoSlotYet THEN FirstSighting(w, i, later) ELSE w
           z == Sighted(w, i, later, pal, id)
<1>1. WorldIsTold(known)
  BY FirstSightingTells
<1>2. z = IF pal = Original /\ ~tiEver THEN w
          ELSE IF known.slots[i] = NoSlotYet THEN known ELSE Visit(known, i, pal, want)
  BY DEF Sighted
<1> HIDE DEF known, z
<1>3. CASE pal = Original /\ ~tiEver
  BY <1>2, <1>3 DEF z
<1>4. CASE ~(pal = Original /\ ~tiEver) /\ known.slots[i] = NoSlotYet
  BY <1>1, <1>2, <1>4, NoSlotIsNotKept DEF WorldIsTold, SlotTells, z
<1>5. CASE ~(pal = Original /\ ~tiEver) /\ known.slots[i] # NoSlotYet
  <2>1. WorldIsTold(Visit(known, i, pal, want))
        /\ (pal = Original /\ i \notin Visit(known, i, pal, want).stray => Bare(Visit(known, i, pal, want).px[i]))
    BY <1>1, <1>5, VisitTells
  <2>2. QED
    BY <1>2, <1>5, <2>1 DEF z
<1>6. QED
  BY <1>3, <1>4, <1>5

(* A sprite whose pixels are lent back to the app's own leaves a world that is told, and is
   bare itself. *)
LEMMA LentTells ==
  ASSUME NEW w, WorldIsTold(w), NEW i \in TiSprites
  PROVE  WorldIsTold(Lent(w, i)) /\ Bare(Lent(w, i).px[i])
<1> DEFINE orig == w.slots[i].orig
           slot == [w.slots[i] EXCEPT !.applied = Stock, !.left = orig]
           z == [px |-> [w.px EXCEPT ![i] = orig], slots |-> [w.slots EXCEPT ![i] = slot],
                 seen |-> w.seen, stray |-> w.stray]
<1>1. i \in Images \ w.stray
  BY TiAssumption DEF WorldIsTold, Images
<1>2. w.px[i] \in Buffers /\ SlotTells(w, i) /\ w.px \in [Images -> Buffers]
      /\ (Adopted(w, i) => w.slots[i] \in Kept)
  BY <1>1, NoSlotIsNotKept DEF WorldIsTold, Adopted
<1>3. CASE ~Adopted(w, i)
  BY <1>2, <1>3 DEF Lent, SlotTells, Adopted
<1>4. CASE Adopted(w, i) /\ w.slots[i].applied = Stock
  <2>1. \A r \in Regions : w.px[i][r].coats = <<>>
    BY <1>1, <1>4, ToldIsWearable, LabelsAreNoThemes
  <2>2. QED
    BY <1>4, <2>1 DEF Lent, Bare
<1>5. CASE Adopted(w, i) /\ w.slots[i].applied # Stock
  <2>1. orig \in Buffers /\ Bare(orig) /\ w.slots[i] \in Kept /\ w.slots[i].chrome = "ours"
    BY <1>2, <1>5 DEF SlotTells, Adopted, Kept
  <2> HIDE DEF orig
  <2>2. slot \in Kept /\ slot.chrome = "ours" /\ slot.orig = orig /\ slot.applied = Stock
    BY <2>1 DEF Kept, Labels, orig
  <2>3. Lent(w, i) = z
    BY <1>5 DEF Lent, orig
  <2>4. /\ z = [px |-> z.px, slots |-> z.slots, seen |-> z.seen, stray |-> z.stray]
        /\ z.px = [w.px EXCEPT ![i] = orig] /\ z.slots = [w.slots EXCEPT ![i] = slot] /\ z.stray = w.stray
    BY DEF WorldIsTold
  <2> HIDE DEF z, slot
  <2>5. z.px \in [Images -> Buffers] /\ z.slots \in [Images -> {NoSlotYet} \cup Kept]
        /\ z.px[i] = orig /\ z.slots[i] = slot
    BY <1>1, <1>2, <2>1, <2>2, <2>4 DEF WorldIsTold
  <2>6. ASSUME NEW j \in Images \ z.stray PROVE SlotTells(z, j)
    <3>1. CASE j = i
      BY <2>1, <2>2, <2>5, <3>1 DEF SlotTells, Bare
    <3>2. CASE j # i
      BY <1>2, <2>4, <3>2 DEF WorldIsTold, SlotTells
    <3>3. QED
      BY <3>1, <3>2
  <2>7. WorldIsTold(z)
    BY <2>4, <2>5, <2>6 DEF WorldIsTold
  <2>8. QED
    BY <2>1, <2>3, <2>5, <2>7
<1>6. QED
  BY <1>3, <1>4, <1>5
-----------------------------------------------------------------------------
(* Before the first draw nothing is baked, mapped or kept, and the inductive invariant holds. *)
THEOREM TiInitIInv == TiInit => TiIInv
<1> SUFFICES ASSUME TiInit PROVE TiIInv
  OBVIOUS
<1>1. [r \in Regions |-> Drawn(0, Original)] \in Buffers /\ Bare([r \in Regions |-> Drawn(0, Original)])
  BY DrawnIsBare DEF Buffers, Bare
<1>2. \A i \in Images : tiPx[i] \in Buffers /\ Bare(tiPx[i]) /\ tiSlots[i] = NoSlotYet
  BY <1>1 DEF TiInit
<1>3. tiPx \in [Images -> Buffers] /\ tiSlots \in [Images -> {NoSlotYet} \cup Kept] /\ tiStray = {}
  BY <1>2 DEF TiInit
<1>4. WorldIsTold(World)
  BY <1>2, <1>3, NoSlotIsNotKept DEF WorldIsTold, World, SlotTells
<1>5. QED
  BY <1>2, <1>4 DEF TiInit, TiIInv, PalettesAreThemes, NothingWornBefore, Unlocked

(* A world that becomes what the variables hold. *)
LEMMA BecomesTold ==
  ASSUME NEW w, WorldIsTold(w), Becomes(w)
  PROVE  WorldIsTold(World') /\ World' = w
BY DEF WorldIsTold, Becomes, World

(* A draw, a fill or a bake: the image is sighted by a palette, and labelled by a theme. *)
LEMMA SightingKeepsIInv ==
  ASSUME TiIInv, NEW i \in Images, NEW later \in BOOLEAN,
         NEW pal \in TiThemes \cup {Original}, i \in TiStrips \/ pal = tiTheme,
         Becomes(Sighted(World, i, later, pal, tiTheme)), TurnsOn(pal)
  PROVE  WorldIsTold(World') /\ NothingWornBefore' /\ tiEver' \in BOOLEAN
<1> DEFINE z == Sighted(World, i, later, pal, tiTheme)
<1>1. WorldIsTold(z) /\ (pal = Original /\ ~tiEver => z = World)
  <2>1. WorldIsTold(World) /\ tiTheme \in TiThemes \cup {Original} /\ World.px = tiPx
    BY DEF TiIInv, PalettesAreThemes, World
  <2>2. pal = Original /\ ~tiEver => \A j \in Images : Bare(World.px[j])
    BY <2>1 DEF TiIInv, NothingWornBefore
  <2>3. i \in TiStrips \/ tiTheme = pal
    OBVIOUS
  <2>4. /\ WorldIsTold(Sighted(World, i, later, pal, tiTheme))
        /\ pal = Original /\ ~tiEver => Sighted(World, i, later, pal, tiTheme) = World
    <3> HIDE DEF z
    <3> DEFINE id == tiTheme
               w == World
    <3>1. /\ WorldIsTold(w) /\ id \in TiThemes \cup {Original} /\ (i \in TiStrips \/ id = pal)
          /\ pal = Original /\ ~tiEver => \A j \in Images : Bare(w.px[j])
      BY <2>1, <2>2, <2>3
    <3> HIDE DEF id, w
    <3>2. /\ WorldIsTold(Sighted(w, i, later, pal, id))
          /\ pal = Original /\ ~tiEver => Sighted(w, i, later, pal, id) = w
      BY <3>1, SightedTells, ZenonT(60)
    <3>3. QED
      BY <3>2 DEF id, w
  <2>5. QED
    BY <2>4
<1> HIDE DEF z
<1>2. WorldIsTold(World') /\ World' = z
  BY <1>1, BecomesTold DEF z
<1>3. NothingWornBefore'
  <2>1. ~tiEver' => pal = Original /\ ~tiEver
    BY DEF TurnsOn
  <2>2. ~tiEver' => tiPx' = tiPx
    BY <1>1, <1>2, <2>1 DEF World
  <2>3. QED
    BY <2>1, <2>2 DEF NothingWornBefore, TiIInv
<1>4. QED
  BY <1>2, <1>3 DEF TurnsOn

(* What leaves the buffers, the slots and the history alone leaves the invariant to its palettes. *)
LEMMA SameWorldKeepsIInv ==
  ASSUME TiIInv, UNCHANGED <<tiPx, tiSlots, tiSeen, tiStray, tiEver>>, PalettesAreThemes'
  PROVE  TiIInv'
<1>1. World' = World
  BY DEF World
<1>2. QED
  BY <1>1 DEF TiIInv, NothingWornBefore

(* The app's own strokes over some regions of one buffer, which may have moved: they are bare. *)
LEMMA StrokeTells ==
  ASSUME NEW w, WorldIsTold(w), NEW i \in Images, NEW px \in Buffers, NEW slots,
         \A r \in Regions : px[r].coats = <<>> \/ px[r] = w.px[i][r],
         slots = w.slots \/ (Adopted(w, i) /\ Bare(px) /\ slots = [w.slots EXCEPT ![i].here = FALSE])
  PROVE  WorldIsTold([px |-> [w.px EXCEPT ![i] = px], slots |-> slots, seen |-> w.seen, stray |-> w.stray])
<1> DEFINE z == [px |-> [w.px EXCEPT ![i] = px], slots |-> slots, seen |-> w.seen, stray |-> w.stray]
<1>1. w.px \in [Images -> Buffers] /\ w.px[i] \in Buffers /\ w.slots[i] \in {NoSlotYet} \cup Kept
  BY DEF WorldIsTold
<1>2. /\ z = [px |-> z.px, slots |-> z.slots, seen |-> z.seen, stray |-> z.stray]
      /\ z.px = [w.px EXCEPT ![i] = px] /\ z.slots = slots /\ z.stray = w.stray
  OBVIOUS
<1> HIDE DEF z
<1>3. z.px \in [Images -> Buffers] /\ z.px[i] = px /\ \A j \in Images : j # i => z.px[j] = w.px[j]
  BY <1>1, <1>2
<1>4. /\ slots \in [Images -> {NoSlotYet} \cup Kept] /\ \A j \in Images : j # i => slots[j] = w.slots[j]
      /\ slots[i].chrome = w.slots[i].chrome
      /\ slots[i] = w.slots[i] \/ (Adopted(w, i) /\ slots[i].orig = w.slots[i].orig /\ Bare(px))
  <2>1. CASE slots = w.slots
    BY <2>1 DEF WorldIsTold
  <2>2. CASE Adopted(w, i) /\ Bare(px) /\ slots = [w.slots EXCEPT ![i].here = FALSE]
    <3>1. w.slots[i] \in Kept
      BY <1>1, <2>2, NoSlotIsNotKept DEF Adopted
    <3>2. /\ [w.slots[i] EXCEPT !.here = FALSE] \in Kept
          /\ [w.slots[i] EXCEPT !.here = FALSE].chrome = w.slots[i].chrome
          /\ [w.slots[i] EXCEPT !.here = FALSE].orig = w.slots[i].orig
      BY <3>1 DEF Kept
    <3>3. slots = [w.slots EXCEPT ![i] = [w.slots[i] EXCEPT !.here = FALSE]]
      BY <2>2
    <3>4. QED
      BY <2>2, <3>2, <3>3 DEF WorldIsTold
  <2>3. QED
    BY <2>1, <2>2
<1>5. ASSUME NEW j \in Images \ w.stray PROVE SlotTells(z, j)
  <2>1. SlotTells(w, j)
    BY DEF WorldIsTold
  <2>2. CASE j = i
    <3>1. CASE slots[i] = w.slots[i]
      BY <1>1, <1>2, <1>3, <2>1, <2>2, <3>1 DEF SlotTells, Bare
    <3>2. CASE Adopted(w, i) /\ slots[i].orig = w.slots[i].orig /\ Bare(px)
      BY <1>2, <1>3, <1>4, <2>1, <2>2, <3>2 DEF SlotTells, Bare, Adopted
    <3>3. QED
      BY <1>4, <3>1, <3>2
  <2>3. CASE j # i
    BY <1>2, <1>3, <1>4, <2>1, <2>3 DEF SlotTells
  <2>4. QED
    BY <2>2, <2>3
<1>6. WorldIsTold(z)
  BY <1>2, <1>3, <1>4, <1>5 DEF WorldIsTold
<1>7. QED
  BY <1>6 DEF z

(* A draw of an image, with what it maps and whom it evicts for that, keeps the invariant. *)
LEMMA DrawsKeepsIInv == ASSUME TiIInv, NEW i \in Images, TiDraws(i) \/ TiFills(i) PROVE TiIInv'
<1> DEFINE strip == tiTheme # Original /\ ~Adopted(World, i) /\ i \in TiStrips
<1>1. UNCHANGED <<tiTheme, tiTables, tiBake>> /\ tiTheme \in TiThemes \cup {Original}
  BY DEF TiDraws, TiFills, TiIInv, PalettesAreThemes
<1>2. ASSUME UNCHANGED <<tiEver, tiPx, tiSlots, tiSeen, tiStray>> PROVE TiIInv'
  BY <1>1, <1>2, SameWorldKeepsIInv DEF TiIInv, PalettesAreThemes, Unlocked
<1>3. ASSUME NEW later \in BOOLEAN, Becomes(Sighted(World, i, later, tiTheme, tiTheme)), TurnsOn(tiTheme)
      PROVE  TiIInv'
  <2>1. WorldIsTold(World') /\ NothingWornBefore' /\ tiEver' \in BOOLEAN
    BY <1>1, <1>3, SightingKeepsIInv
  <2>2. QED
    BY <1>1, <2>1 DEF TiIInv, PalettesAreThemes, Unlocked
<1>4. strip \in BOOLEAN
  OBVIOUS
<1>5. CASE TiDraws(i) /\ strip /\ i \in TiOpaque
  BY <1>2, <1>5 DEF TiDraws
<1>6. CASE TiDraws(i) /\ ~(strip /\ i \in TiOpaque)
  <2>1. Becomes(Sighted(World, i, strip, tiTheme, tiTheme)) /\ TurnsOn(tiTheme)
    BY <1>6 DEF TiDraws
  <2> HIDE DEF strip
  <2>2. QED
    BY <1>3, <1>4, <2>1
<1>7. CASE TiFills(i)
  BY <1>3, <1>7 DEF TiFills
<1>8. QED
  BY <1>5, <1>6, <1>7

(* One sprite is blitted into another, the stock pixels lent for it.         *)
LEMMA DerivesKeepsIInv ==
  ASSUME TiIInv, NEW i \in TiSprites, NEW j \in TiSprites, TiDerives(i, j) PROVE TiIInv'
<1> DEFINE w1 == Sighted(World, i, FALSE, tiTheme, tiTheme)
           w2 == IF tiTheme = Original THEN w1 ELSE Lent(w1, i)
           w3 == [w2 EXCEPT !.px[j] = w2.px[i]]
           w4 == Sighted(w3, i, FALSE, tiTheme, tiTheme)
<1>1. /\ WorldIsTold(World) /\ tiTheme \in TiThemes \cup {Original} /\ tiEver \in BOOLEAN
      /\ ~tiEver => \A k \in Images : Bare(World.px[k])
      /\ i \in Images /\ j \in Images
  BY DEF TiIInv, PalettesAreThemes, NothingWornBefore, World, Images
<1>2. /\ WorldIsTold(w1) /\ (tiTheme = Original /\ i \notin w1.stray => Bare(w1.px[i]))
      /\ tiTheme = Original /\ ~tiEver => w1 = World
  BY <1>1, SightedTells
<1>3. i \notin w1.stray
  BY <1>2, TiAssumption DEF WorldIsTold
<1>4. WorldIsTold(w2) /\ Bare(w2.px[i]) /\ (tiTheme = Original => w2 = w1)
  BY <1>2, <1>3, LentTells
<1> HIDE DEF w1, w2
<1>5. w3 = [px |-> [w2.px EXCEPT ![j] = w2.px[i]], slots |-> w2.slots, seen |-> w2.seen, stray |-> w2.stray]
  BY <1>4 DEF WorldIsTold
<1>6. w2.px[i] \in Buffers /\ \A r \in Regions : w2.px[i][r].coats = <<>>
  BY <1>1, <1>4 DEF WorldIsTold, Bare
<1>7. WorldIsTold(w3)
  <2> DEFINE px == w2.px[i]
             slots == w2.slots
  <2>1. px \in Buffers /\ (\A r \in Regions : px[r].coats = <<>> \/ px[r] = w2.px[j][r]) /\ slots = w2.slots
    BY <1>6
  <2> HIDE DEF px, slots
  <2>2. WorldIsTold([px |-> [w2.px EXCEPT ![j] = px], slots |-> slots, seen |-> w2.seen, stray |-> w2.stray])
    BY <1>1, <1>4, <2>1, StrokeTells
  <2>3. QED
    BY <1>5, <2>2 DEF px, slots
<1>8. tiTheme = Original /\ ~tiEver => \A k \in Images : Bare(w3.px[k])
  <2>1. w2.px \in [Images -> Buffers] /\ w3.px = [w2.px EXCEPT ![j] = w2.px[i]]
    BY <1>4, <1>5 DEF WorldIsTold
  <2>2. QED
    BY <1>1, <1>2, <1>4, <2>1
<1> HIDE DEF w3
<1>9. UNCHANGED <<tiTheme, tiTables, tiBake>> /\ TurnsOn(tiTheme)
  BY DEF TiDerives
<1>10. CASE tiTheme = Original
  <2>1. Becomes(w3)
    BY <1>4, <1>10 DEF TiDerives, w1, w2, w3
  <2>2. WorldIsTold(World') /\ World' = w3 /\ tiEver' \in BOOLEAN /\ (~tiEver' => ~tiEver)
    <3>1. WorldIsTold(World') /\ World' = w3
      BY <1>7, <2>1, BecomesTold
    <3>2. tiEver' = (tiEver \/ tiTheme # Original)
      BY <1>9 DEF TurnsOn
    <3>3. tiEver' \in BOOLEAN /\ (~tiEver' => ~tiEver)
      BY <1>10, <3>2
    <3>4. QED
      BY <3>1, <3>3
  <2>3. NothingWornBefore'
    BY <1>8, <1>10, <2>2 DEF NothingWornBefore, World
  <2>4. QED
    BY <1>9, <2>2, <2>3 DEF TiIInv, PalettesAreThemes, Unlocked
<1>11. CASE tiTheme # Original
  <2>1. WorldIsTold(w4)
    BY <1>1, <1>7, <1>11, SightedTells
  <2>2. Becomes(w3) \/ Becomes(w4)
    BY DEF TiDerives, w1, w2, w3
  <2> HIDE DEF w4
  <2>3. WorldIsTold(World') /\ tiEver' = TRUE
    BY <1>1, <1>7, <1>9, <1>11, <2>1, <2>2, BecomesTold DEF TurnsOn
  <2>4. QED
    BY <1>9, <2>3 DEF TiIInv, PalettesAreThemes, NothingWornBefore, Unlocked
<1>12. QED
  BY <1>10, <1>11

(* The app paints over some of a buffer, by the tables or as it comes, or moves it. *)
LEMMA PaintsKeepsIInv ==
  ASSUME TiIInv, NEW i \in Images,
         TiMoves(i) \/ \E rs \in SUBSET Regions : \E t \in Colours(i) : TiPaints(i, rs, t)
  PROVE  TiIInv'
<1>1. /\ WorldIsTold(World) /\ World.px = tiPx /\ World.slots = tiSlots
      /\ tiPx \in [Images -> Buffers] /\ tiPx[i] \in Buffers
      /\ \A r \in Regions : tiPx[i][r] \in Pixels /\ 1 - tiPx[i][r].raw \in {0, 1}
  BY DEF TiIInv, WorldIsTold, World, Buffers, Pixels
<1>2. \A t \in Colours(i) : t \in TiThemes \cup {Original}
  BY DEF Colours, TiIInv, PalettesAreThemes
<1>3. PICK px \in Buffers :
        /\ tiPx' = [tiPx EXCEPT ![i] = px]
        /\ \A r \in Regions : px[r].coats = <<>> \/ px[r] = tiPx[i][r]
        /\ tiSlots' = tiSlots \/ (Adopted(World, i) /\ Bare(px) /\ tiSlots' = [tiSlots EXCEPT ![i].here = FALSE])
  <2>1. CASE TiMoves(i)
    <3> DEFINE px == [r \in Regions |-> Drawn(1 - tiPx[i][r].raw, Original)]
    <3>1. px \in Buffers /\ Bare(px)
      BY <1>1, DrawnIsBare DEF Buffers, Bare
    <3>2. tiPx' = [tiPx EXCEPT ![i] = px]
      BY <2>1 DEF TiMoves
    <3>3. Adopted(World, i) /\ tiSlots' = [tiSlots EXCEPT ![i].here = FALSE]
      BY <2>1 DEF TiMoves
    <3> HIDE DEF px
    <3>4. QED
      BY <3>1, <3>2, <3>3 DEF Bare
  <2>2. CASE \E rs \in SUBSET Regions : \E t \in Colours(i) : TiPaints(i, rs, t)
    <3>1. PICK rs \in SUBSET Regions, t \in Colours(i) : TiPaints(i, rs, t)
      BY <2>2
    <3> DEFINE px == [r \in Regions |-> IF r \in rs THEN Drawn(1 - tiPx[i][r].raw, t) ELSE tiPx[i][r]]
    <3>2. px \in Buffers /\ \A r \in Regions : px[r].coats = <<>> \/ px[r] = tiPx[i][r]
      BY <1>1, <1>2, DrawnIsBare DEF Buffers
    <3>3. tiPx' = [tiPx EXCEPT ![i] = px]
      BY <3>1 DEF TiPaints
    <3>4. tiSlots' = tiSlots
      BY <3>1 DEF TiPaints
    <3> HIDE DEF px
    <3>5. QED
      BY <3>2, <3>3, <3>4
  <2>3. QED
    BY <2>1, <2>2
<1>4. UNCHANGED <<tiTheme, tiTables, tiBake, tiEver, tiSeen, tiStray>>
  BY DEF TiMoves, TiPaints
<1>5. World' = [px |-> [World.px EXCEPT ![i] = px], slots |-> tiSlots', seen |-> World.seen, stray |-> World.stray]
  BY <1>3, <1>4 DEF World
<1>6. WorldIsTold(World')
  BY <1>1, <1>3, <1>5, StrokeTells
<1>7. NothingWornBefore'
  BY <1>1, <1>3, <1>4 DEF NothingWornBefore, TiIInv, Bare
<1>8. QED
  BY <1>4, <1>6, <1>7 DEF TiIInv, PalettesAreThemes, Unlocked

(* The database thread bakes a strip, by the palette it read and the theme it finds. *)
LEMMA BakeKeepsIInv == ASSUME TiIInv, TiBakeSights PROVE TiIInv'
<1>1. tiBake.image \in TiStrips /\ tiBake.image \in Images /\ tiBake.pal \in TiThemes \cup {Original}
  BY DEF TiIInv, PalettesAreThemes, TiBakeSights, Images
<1>2. Becomes(Sighted(World, tiBake.image, TRUE, tiBake.pal, tiTheme)) /\ TurnsOn(tiBake.pal)
  BY DEF TiBakeSights
<1>3. WorldIsTold(World') /\ NothingWornBefore' /\ tiEver' \in BOOLEAN
  BY <1>1, <1>2, SightingKeepsIInv
<1>4. tiBake' = Baked /\ UNCHANGED <<tiTheme, tiTables>>
  BY DEF TiBakeSights
<1>5. QED
  BY <1>3, <1>4 DEF TiIInv, PalettesAreThemes, Unlocked

(* A step of either thread or of the app.                                   *)
THEOREM TiStepKeepsIInv == TiIInv /\ [TiNext]_tiVars => TiIInv'
<1> SUFFICES ASSUME TiIInv, [TiNext]_tiVars PROVE TiIInv'
  OBVIOUS
<1>1. ASSUME NEW t \in TiThemes \cup {Original}, TiSelect(t) PROVE TiIInv'
  <2>1. UNCHANGED <<tiTables, tiEver, tiPx, tiSlots, tiSeen, tiBake, tiStray>> /\ tiTheme' = t
    BY <1>1 DEF TiSelect
  <2>2. QED
    BY <2>1, SameWorldKeepsIInv DEF TiIInv, PalettesAreThemes, Unlocked
<1>2. CASE TiApplies \/ TiBakeReplies
  <2>1. /\ UNCHANGED <<tiTheme, tiEver, tiPx, tiSlots, tiSeen, tiStray>>
        /\ tiTables' = tiTheme /\ tiBake' \in {tiBake, NoBake}
    BY <1>2 DEF TiApplies, TiBakeReplies
  <2>2. QED
    BY <2>1, SameWorldKeepsIInv DEF TiIInv, PalettesAreThemes, Unlocked
<1>3. ASSUME NEW i \in TiStrips, TiBakeReads(i) PROVE TiIInv'
  <2>1. /\ tiBake' = [image |-> i, pal |-> tiTheme]
        /\ UNCHANGED <<tiTheme, tiTables, tiEver, tiPx, tiSlots, tiSeen, tiStray>>
    BY <1>3 DEF TiBakeReads
  <2>2. tiBake'.image \in TiStrips /\ tiBake'.pal \in TiThemes \cup {Original}
    BY <2>1 DEF TiIInv, PalettesAreThemes
  <2>3. QED
    BY <2>1, <2>2, SameWorldKeepsIInv DEF TiIInv, PalettesAreThemes
<1>4. CASE UNCHANGED tiVars
  BY <1>4, SameWorldKeepsIInv DEF tiVars, TiIInv, PalettesAreThemes, Unlocked
<1>5. CASE TiNext
  BY <1>1, <1>2, <1>3, <1>5, DrawsKeepsIInv, DerivesKeepsIInv, PaintsKeepsIInv, BakeKeepsIInv DEF TiNext
<1>6. QED
  BY <1>4, <1>5

(* Every buffer wears what its slot says and nothing twice ("a buffer we stop       *)
(* tracking must not be left wearing our transform", image_sync.c:47-50), for any    *)
(* number of images, themes and slots, whichever thread selects, sights or themes     *)
(* the tables when, but for the strips that go astray.                       *)
THEOREM NoCoatIsLaidTwice == TiSpec => []CoatsAreCounted
<1>1. TiIInv => CoatsAreCounted
  <2>1. SUFFICES ASSUME TiIInv, NEW i \in Images \ tiStray, NEW r \in Regions
                 PROVE  tiPx[i][r].coats \in Wearable(i)
    BY DEF CoatsAreCounted
  <2>2. WorldIsTold(World) /\ World.px = tiPx /\ World.slots = tiSlots /\ World.stray = tiStray
    BY <2>1 DEF TiIInv, World
  <2>3. QED
    BY <2>2, ToldIsWearable DEF Wearable
<1>2. QED
  BY <1>1, TiInitIInv, TiStepKeepsIInv, PTL DEF TiSpec
-----------------------------------------------------------------------------
(* The grid panel.  Until its first edit the playing track's grid is as it was   *)
(* loaded, after it the original remembers it so; and the array in place, or the   *)
(* one half written, is the one the panel's multiplier and steps make of it.     *)
Fresh == [beats |-> [load |-> geLoads, len |-> GeBeats], count |-> GeBeats]
Edited(mult, steps) ==
  [beats |-> [load |-> geLoads, len |-> Asked(GeBeats, mult, steps)], count |-> Asked(GeBeats, mult, steps)]
InPlace == IF geSwap # NoSwap /\ geSwap.at = geHere
           THEN [beats |-> geSwap.beats, count |-> geSwap.count] ELSE geObject[geHere]

GeShapes ==
  /\ geObject = [a \in GeAddresses |-> geObject[a]] /\ {geHere, geOrig.at} \subseteq GeAddresses \cup {Nowhere}
  /\ geSwap # NoSwap => geHere # Nowhere /\ geSwap.at = geOrig.at
GeOwn ==
  /\ geOrig.at # geHere => geObject[geHere] = Fresh
  /\ geOrig.at = geHere => geOrig = [at |-> geHere, beats |-> Fresh.beats, count |-> GeBeats] /\ gePanel.id = geHere
  /\ gePanel.id = geHere => InPlace = Edited(gePanel.mult, gePanel.steps)

GeIInv == GeShapes /\ (~geReused /\ geHere # Nowhere => GeOwn)

\* The panel's zeroes ask for the grid as it was loaded.
LEMMA NothingAsked == Edited(0, 0) = Fresh
<1>1. GeBeats \in Nat /\ 2^0 = 1
  BY GeAssumption
<1>2. Asked(GeBeats, 0, 0) = GeBeats
  BY <1>1 DEF Asked
<1>3. QED
  BY <1>2 DEF Edited, Fresh

(* A deck just started has no edit in memory, and the inductive invariant of the grid panel holds. *)
THEOREM GeInitIInv == GeInit => GeIInv
BY DEF GeInit, GeIInv, GeShapes, NoSwap, Nowhere

(* A load, a press, a reset, and the second half of a swap.                  *)
THEOREM GeStepKeepsIInv == GeIInv /\ [GeNext]_geVars => GeIInv'
<1> SUFFICES ASSUME GeIInv, [GeNext]_geVars PROVE GeIInv'
  OBVIOUS
<1> USE GeAssumption
<1>1. ASSUME NEW a \in GeAddresses, GeLoad(a) PROVE GeIInv'
  <2>1. /\ geSwap = NoSwap /\ geHere' = a /\ a # Nowhere
        /\ geObject' = [geObject EXCEPT ![a] = Fresh']
        /\ geReused' = (geReused \/ a \in {geOrig.at, gePanel.id})
        /\ UNCHANGED <<geOrig, gePanel, geSwap>>
    BY <1>1 DEF GeLoad, Fresh, Nowhere
  <2>2. geObject' = [b \in GeAddresses |-> geObject'[b]] /\ geObject'[a] = Fresh'
    BY <2>1 DEF GeIInv, GeShapes
  <2>3. GeShapes'
    BY <2>1, <2>2 DEF GeIInv, GeShapes
  <2>4. ~geReused' => GeOwn'
    BY <2>1, <2>2 DEF GeOwn
  <2>5. QED
    BY <2>3, <2>4 DEF GeIInv
<1>2. ASSUME Taps, geOrig' = Remembered, gePanel' = Edit, UNCHANGED <<geHere, geObject, geSwap, geReused, geLoads>>
      PROVE  GeIInv'
  <2>1. GeShapes'
    BY <1>2 DEF GeIInv, GeShapes, Taps, Remembered
  <2>2. ASSUME ~geReused PROVE GeOwn'
    <3>1. GeOwn /\ geSwap = NoSwap /\ geHere # Nowhere
      BY <1>2, <2>2 DEF GeIInv, Taps
    <3>2. gePanel'.id = geHere /\ geOrig'.at = geHere
      BY <1>2 DEF Edit, Remembered
    <3>3. geOrig' = [at |-> geHere, beats |-> Fresh.beats, count |-> GeBeats]
      BY <1>2, <3>1 DEF GeOwn, Remembered, Fresh
    <3>4. geObject[geHere] = Edited(gePanel'.mult, gePanel'.steps)
      <4>1. CASE gePanel.id = geHere
        BY <1>2, <3>1, <4>1 DEF GeOwn, InPlace, Edit
      <4>2. CASE gePanel.id # geHere
        BY <1>2, <3>1, <4>2, NothingAsked DEF GeOwn, Edit
      <4>3. QED
        BY <4>1, <4>2
    <3>5. Edited(gePanel.mult, gePanel.steps)' = Edited(gePanel'.mult, gePanel'.steps) /\ Fresh' = Fresh
      BY <1>2 DEF Edited, Fresh
    <3>6. InPlace' = geObject[geHere]
      BY <1>2, <3>1 DEF InPlace
    <3>7. QED
      BY <1>2, <3>2, <3>3, <3>4, <3>5, <3>6 DEF GeOwn
  <2>3. QED
    BY <1>2, <2>1, <2>2 DEF GeIInv
<1>3. ASSUME NEW at, NEW beats, NEW count, NEW than, Swaps(at, beats, count, than), at \in GeAddresses
      PROVE  /\ geSwap' # NoSwap /\ geSwap'.at = at /\ geSwap'.beats = beats /\ geSwap'.count = count
             /\ geObject' = [a \in GeAddresses |-> geObject'[a]]
             /\ \A a \in GeAddresses : a # at => geObject'[a] = geObject[a]
  <2>1. \E word \in {"count", "beats"} : geSwap' = [word |-> word, at |-> at, beats |-> beats, count |-> count]
    BY <1>3 DEF Swaps
  <2>2. \E o : geObject' = [geObject EXCEPT ![at] = o]
    BY <1>3 DEF Swaps
  <2>3. QED
    BY <1>3, <2>1, <2>2 DEF NoSwap, GeIInv, GeShapes
<1>4. ASSUME NEW which \in Buttons, GeScale(which) PROVE GeIInv'
  <2>1. /\ Taps /\ geOrig' = Remembered /\ gePanel' = Turned(which) /\ geHere \in GeAddresses /\ geHere # Nowhere
        /\ Swaps(geHere, Result(which), Result(which).len, Remembered.count)
        /\ UNCHANGED <<geHere, geReused, geLoads>>
    BY <1>4 DEF GeScale, Taps, GeIInv, GeShapes
  <2>2. geOrig'.at = geHere /\ gePanel'.id = geHere
    BY <2>1 DEF Remembered, Turned, Edit, Buttons
  <2>3. GeShapes'
    BY <1>3, <2>1, <2>2 DEF GeShapes
  <2>4. ASSUME ~geReused PROVE GeOwn'
    <3>1. GeOwn /\ geSwap = NoSwap
      BY <2>1, <2>4 DEF GeIInv, Taps
    <3>2. geOrig' = [at |-> geHere, beats |-> Fresh.beats, count |-> GeBeats]
      BY <2>1, <3>1 DEF GeOwn, Remembered, Fresh
    <3>3. Result(which) = Edited(gePanel'.mult, gePanel'.steps).beats
          /\ Result(which).len = Edited(gePanel'.mult, gePanel'.steps).count
      BY <2>1, <3>2 DEF Result, Edited, Fresh
    <3>4. InPlace' = [beats |-> Result(which), count |-> Result(which).len]
      BY <1>3, <2>1 DEF InPlace
    <3>5. Edited(gePanel.mult, gePanel.steps)' = Edited(gePanel'.mult, gePanel'.steps) /\ Fresh' = Fresh
      BY <2>1 DEF Edited, Fresh
    <3>6. InPlace' = Edited(gePanel'.mult, gePanel'.steps)
      BY <3>3, <3>4 DEF Edited
    <3>7. QED
      BY <2>1, <2>2, <3>2, <3>5, <3>6 DEF GeOwn
  <2>5. QED
    BY <2>1, <2>3, <2>4 DEF GeIInv
<1>5. CASE GeReset
  <2>1. /\ Taps /\ gePanel' = [id |-> geHere, mult |-> 0, steps |-> 0]
        /\ UNCHANGED <<geHere, geOrig, geReused, geLoads>> /\ geSwap = NoSwap /\ geHere \in GeAddresses
    BY <1>5 DEF GeReset, Taps, GeIInv, GeShapes
  <2>2. Edited(gePanel.mult, gePanel.steps)' = Fresh /\ Fresh' = Fresh
    BY <2>1, NothingAsked DEF Edited, Fresh
  <2>3. ASSUME ~geReused PROVE GeOwn /\ (geOrig.at # geHere => geObject[geHere] = Fresh)
    BY <2>1, <2>3 DEF GeIInv, GeOwn, Taps
  <2>4. CASE geOrig.at = Nowhere
    <3>1. UNCHANGED <<geObject, geSwap>> /\ geOrig.at # geHere
      BY <1>5, <2>1, <2>4 DEF GeReset, Taps
    <3>2. GeShapes' /\ InPlace' = geObject[geHere]
      BY <2>1, <3>1 DEF GeIInv, GeShapes, InPlace
    <3>3. QED
      BY <2>1, <2>2, <2>3, <3>1, <3>2 DEF GeIInv, GeOwn
  <2>5. CASE geOrig.at # Nowhere
    <3>1. Swaps(geOrig.at, geOrig.beats, geOrig.count, geObject[geOrig.at].count) /\ geOrig.at \in GeAddresses
      BY <1>5, <2>5 DEF GeReset, GeIInv, GeShapes
    <3>2. GeShapes'
      BY <1>3, <2>1, <3>1 DEF GeIInv, GeShapes, Taps
    <3>3. ASSUME ~geReused PROVE GeOwn'
      <4>1. geOrig.at = geHere => InPlace' = Fresh
        BY <1>3, <2>1, <2>3, <3>1, <3>3 DEF InPlace, GeOwn, Fresh
      <4>2. geOrig.at # geHere => geObject'[geHere] = Fresh /\ InPlace' = Fresh
        BY <1>3, <2>1, <2>3, <3>1, <3>3 DEF InPlace
      <4>3. QED
        BY <2>1, <2>2, <2>3, <3>3, <4>1, <4>2 DEF GeOwn
    <3>4. QED
      BY <2>1, <3>2, <3>3 DEF GeIInv
  <2>6. QED
    BY <2>4, <2>5
<1>6. CASE GeSwapped
  <2> DEFINE done == [beats |-> geSwap.beats, count |-> geSwap.count]
  <2>1. /\ geSwap # NoSwap /\ geSwap' = NoSwap /\ geObject' = [geObject EXCEPT ![geSwap.at] = done]
        /\ UNCHANGED <<geHere, geOrig, gePanel, geReused, geLoads>>
    BY <1>6 DEF GeSwapped
  <2>2. geHere \in GeAddresses /\ geHere # Nowhere /\ geSwap.at = geOrig.at
    BY <2>1 DEF GeIInv, GeShapes
  <2>3. geObject'[geHere] = InPlace /\ InPlace' = InPlace /\ geObject' = [a \in GeAddresses |-> geObject'[a]]
    BY <2>1, <2>2 DEF InPlace, GeIInv, GeShapes
  <2>4. Edited(gePanel.mult, gePanel.steps)' = Edited(gePanel.mult, gePanel.steps) /\ Fresh' = Fresh
    BY <2>1 DEF Edited, Fresh
  <2>5. geOrig.at # geHere => geObject'[geHere] = geObject[geHere]
    BY <2>1, <2>2 DEF GeIInv, GeShapes
  <2>6. QED
    BY <2>1, <2>2, <2>3, <2>4, <2>5 DEF GeIInv, GeShapes, GeOwn
<1>7. CASE UNCHANGED geVars
  BY <1>7 DEF geVars, GeIInv, GeShapes, GeOwn, InPlace, Edited, Fresh
<1>8. CASE GeNext
  <2>1. ASSUME NEW which \in Buttons, GeRefused(which) PROVE GeIInv'
    BY <1>2, <2>1 DEF GeRefused
  <2>2. QED
    BY <1>1, <1>4, <1>5, <1>6, <1>8, <2>1 DEF GeNext
<1>9. QED
  BY <1>7, <1>8

(* "The panel keeps the WHOLE edit and states it as one k against the original    *)
(* every time" (panel.c:161-164): for any number of tracks, addresses and presses. *)
THEOREM PanelKeepsTheWholeEdit == GeSpec => []PanelTellsTheGrid
<1>1. GeIInv => PanelTellsTheGrid
  BY DEF GeIInv, GeOwn, InPlace, Edited, PanelTellsTheGrid
<1>2. QED
  BY <1>1, GeInitIInv, GeStepKeepsIInv, PTL DEF GeSpec

-----------------------------------------------------------------------------
(* Induction in the form the provers can use: a set of naturals that is not empty *)
(* has a least element, and Min is it.                                       *)
LEMMA LeastOf ==
  ASSUME NEW S \in SUBSET Nat, S # {}
  PROVE  Min(S) \in S /\ \A m \in S : Min(S) <= m
<1> DEFINE R == {ss \in Nat \X Nat : ss[1] < ss[2]}
<1>1. IsWellFoundedOn(R, Nat)
  BY NatLessThanWellFounded DEF OpToRel
<1>2. \E n \in S : \A m \in S : <<m, n>> \notin R
  <2> HIDE DEF R
  <2> QED
    BY <1>1, WFMin
<1>3. \A n, m \in S : <<m, n>> \notin R => n <= m
  OBVIOUS
<1>4. \E n \in S : \A m \in S : n <= m
  BY <1>2, <1>3
<1>5. QED
  BY <1>4 DEF Min

(* A set of indices that is not empty has a greatest element.                 *)
LEMMA GreatestOf ==
  ASSUME NEW k \in Nat, NEW S \in SUBSET (1..k), S # {}
  PROVE  \E n \in S : \A m \in S : m <= n
<1> DEFINE T == {i \in 0..k : k - i \in S}
<1>1. T \in SUBSET Nat /\ T # {}
  <2>1. PICK n \in S : TRUE
    OBVIOUS
  <2>2. k - n \in 0..k /\ k - (k - n) = n
    OBVIOUS
  <2>3. k - n \in T
    BY <2>2
  <2>4. T \subseteq Nat
    OBVIOUS
  <2>5. QED
    BY <2>3, <2>4
<1>2. Min(T) \in T /\ \A i \in T : Min(T) <= i
  <2> HIDE DEF T
  <2> QED
    BY <1>1, LeastOf
<1>3. k - Min(T) \in S /\ Min(T) \in 0..k
  BY <1>2
<1>4. ASSUME NEW m \in S PROVE m <= k - Min(T)
  <2>1. k - m \in T
    OBVIOUS
  <2>2. QED
    BY <1>2, <1>3, <2>1
<1>5. QED
  BY <1>3, <1>4

(* The entries of a sequence are of its set.                                  *)
LEMMA EntryOf ==
  ASSUME NEW S, NEW s \in Seq(S)
  PROVE  DOMAIN s = 1..Len(s) /\ Len(s) \in Nat /\ \A i \in 1..Len(s) : s[i] \in S
  OBVIOUS

\* What a place may hold and a wrapper may call.
Links == Wrappers \cup {StockCode}
HjTypes ==
  /\ hjMod \in 1..Len(HjMods) + 1 /\ hjTurn \in Nat \ {0}
  /\ hjMod <= Len(HjMods) => hjTurn <= Len(HjMods[hjMod])
  /\ hjHolds \in [HjPlaces -> Links] /\ hjCalls \in [Wrappers -> Links]
  /\ hjJournal \in Seq([place : HjPlaces, orig : Links \cup {Undone}, owner : Nat])

\* The wrapper that patch n put over its place: what the next patch of that place
\* found there, or what is there now.
Above(n) == {m \in Live(hjJournal[n].place) : n < m}
Over(n) == IF Above(n) = {} THEN hjHolds[hjJournal[n].place] ELSE hjJournal[Min(Above(n))].orig

\* The mods patch one after the other, and one that refused keeps nothing.
OwnersInOrder ==
  /\ \A n \in DOMAIN hjJournal : hjJournal[n].owner <= hjMod
  /\ \A m, n \in DOMAIN hjJournal : m < n => hjJournal[m].owner <= hjJournal[n].owner
  /\ \A p \in HjPlaces : \A n \in Live(p) : hjJournal[n].owner \in hjInstalled \cup {hjMod}

\* From the newest wrapper of a place down: each is of its patch's owner, was used for
\* no later patch, calls what its patch found, and the oldest found the stock code.
PatchesNest == \A p \in HjPlaces :
  /\ Live(p) = {} => hjHolds[p] = StockCode
  /\ \A n \in Live(p) :
       /\ Over(n) \in Wrappers /\ Over(n)[1] = hjJournal[n].owner
       /\ Over(n)[1] = hjMod => Over(n)[2] < hjTurn
       /\ hjCalls[Over(n)] = hjJournal[n].orig
       /\ (\A m \in Live(p) : n <= m) => hjJournal[n].orig = StockCode
       /\ \A m \in Live(p) : Over(m) = Over(n) => m = n

HjIInv == HjTypes /\ OwnersInOrder /\ PatchesNest

-----------------------------------------------------------------------------
(* A wrapper is told from the stock code and from an entry that was undone.     *)
LEMMA WrappersAreNoCode == StockCode \notin Wrappers /\ Undone \notin Links
<1>1. \A w \in Wrappers : w[1] \in DOMAIN HjMods
  BY DEF Wrappers
<1>2. 0 \notin DOMAIN HjMods
  BY HjAssumption
<1>3. QED
  BY <1>1, <1>2 DEF StockCode, Undone, Links

(* The next patch to make is of a mod and a place there are, and its wrapper too. *)
LEMMA PatchIsThere ==
  ASSUME HjTypes, Installing
  PROVE  /\ hjMod \in 1..Len(HjMods) /\ hjTurn \in 1..Len(HjMods[hjMod])
         /\ <<hjMod, hjTurn>> \in Wrappers /\ Patch.place \in HjPlaces
<1>1. hjMod \in 1..Len(HjMods) /\ hjMod \in DOMAIN HjMods
  BY HjAssumption DEF Installing
<1>2. HjMods[hjMod] \in Seq([place : HjPlaces, needed : BOOLEAN])
  BY <1>1, HjAssumption
<1>3. hjTurn \in 1..Len(HjMods[hjMod]) /\ hjTurn \in DOMAIN HjMods[hjMod]
  BY <1>2 DEF Installing
<1>4. Patch \in [place : HjPlaces, needed : BOOLEAN]
  <2>1. HjMods[hjMod][hjTurn] \in [place : HjPlaces, needed : BOOLEAN]
    BY <1>2, <1>3, EntryOf
  <2>2. QED
    BY <2>1 DEF Patch
<1>5. <<hjMod, hjTurn>> \in Wrappers
  BY <1>1, <1>3 DEF Wrappers
<1>6. QED
  BY <1>1, <1>3, <1>4, <1>5

(* Advancing keeps the mod and the turn in range.                            *)
LEMMA AdvancesInRange ==
  ASSUME HjTypes, Installing, Advances
  PROVE  /\ hjMod' \in 1..Len(HjMods) + 1 /\ hjTurn' \in Nat \ {0}
         /\ hjMod' <= Len(HjMods) => hjTurn' <= Len(HjMods[hjMod'])
         /\ hjMod' \in {hjMod, hjMod + 1} /\ (hjMod' = hjMod => hjTurn' = hjTurn + 1)
         /\ hjInstalled \cup {hjMod} \subseteq hjInstalled' \cup {hjMod'}
<1>0. Len(HjMods) \in Nat /\ \A k \in 1..Len(HjMods) : Len(HjMods[k]) \in Nat \ {0}
  BY HjAssumption
<1>1. CASE hjTurn = Len(HjMods[hjMod])
  BY <1>0, <1>1, PatchIsThere DEF Advances
<1>2. CASE hjTurn # Len(HjMods[hjMod])
  BY <1>0, <1>2, PatchIsThere DEF Advances
<1>3. QED
  BY <1>1, <1>2

(* Before the first mod every place holds the stock code.                      *)
LEMMA HjInitIInv == HjInit => HjIInv
<1> SUFFICES ASSUME HjInit PROVE HjIInv
  OBVIOUS
<1> USE DEF HjInit
<1>1. \A p \in HjPlaces : Live(p) = {}
  BY DEF Live
<1>2. HjTypes
  <2>1. Len(HjMods) \in Nat /\ (1 <= Len(HjMods) => Len(HjMods[1]) \in Nat \ {0})
    BY HjAssumption
  <2>2. QED
    BY <2>1 DEF HjTypes, Links
<1>3. QED
  BY <1>1, <1>2 DEF HjIInv, OwnersInOrder, PatchesNest

(* The live patches of a place, and those above one of them.                   *)
LEMMA LiveOnes ==
  ASSUME HjTypes, NEW p \in HjPlaces
  PROVE  /\ Live(p) \in SUBSET (1..Len(hjJournal)) /\ Live(p) \in SUBSET Nat
         /\ Len(hjJournal) \in Nat /\ DOMAIN hjJournal = 1..Len(hjJournal)
         /\ \A n \in Live(p) : /\ hjJournal[n].place = p /\ hjJournal[n].orig \in Links
                               /\ Above(n) = {m \in Live(p) : n < m}
<1>1. Len(hjJournal) \in Nat /\ DOMAIN hjJournal = 1..Len(hjJournal)
  BY DEF HjTypes
<1>2. \A n \in DOMAIN hjJournal : hjJournal[n].orig \in Links \cup {Undone}
  <2>1. \A n \in DOMAIN hjJournal : hjJournal[n] \in [place : HjPlaces, orig : Links \cup {Undone}, owner : Nat]
    BY EntryOf DEF HjTypes
  <2>2. QED
    BY <2>1
<1>3. Live(p) \in SUBSET (1..Len(hjJournal))
  BY <1>1 DEF Live
<1>4. \A n \in Live(p) : hjJournal[n].place = p /\ hjJournal[n].orig \in Links
  BY <1>2 DEF Live
<1>5. \A n \in Live(p) : Above(n) = {m \in Live(p) : n < m}
  BY <1>4 DEF Above
<1>6. QED
  BY <1>1, <1>3, <1>4, <1>5

-----------------------------------------------------------------------------
(* A patch is made on top: what was over the others is over them still.         *)
LEMMA PatchesKeepsIInv ==
  ASSUME HjIInv, HjPatches PROVE HjIInv'
<1> USE DEF HjIInv
<1> SUFFICES ASSUME NEW CONSTANT top, NEW CONSTANT new, NEW CONSTANT at,
                    top = Len(hjJournal) + 1, new = <<hjMod, hjTurn>>, at = Patch.place
             PROVE  HjIInv'
  OBVIOUS
<1>1. /\ hjMod \in 1..Len(HjMods) /\ new \in Wrappers /\ at \in HjPlaces
      /\ hjHolds[at] \in Links /\ top \in Nat
  BY PatchIsThere DEF HjPatches, HjTypes
<1>2. /\ hjMod' \in 1..Len(HjMods) + 1 /\ hjTurn' \in Nat \ {0}
      /\ hjMod' <= Len(HjMods) => hjTurn' <= Len(HjMods[hjMod'])
      /\ hjMod' \in {hjMod, hjMod + 1} /\ (hjMod' = hjMod => hjTurn' = hjTurn + 1)
      /\ hjInstalled \cup {hjMod} \subseteq hjInstalled' \cup {hjMod'}
  BY AdvancesInRange DEF HjPatches
<1>3. /\ hjHolds' = [hjHolds EXCEPT ![at] = new] /\ hjCalls' = [hjCalls EXCEPT ![new] = hjHolds[at]]
      /\ hjJournal' = Append(hjJournal, [place |-> at, orig |-> hjHolds[at], owner |-> hjMod])
  BY DEF HjPatches
<1>4. HjTypes'
  <2>1. [place |-> at, orig |-> hjHolds[at], owner |-> hjMod] \in [place : HjPlaces, orig : Links \cup {Undone}, owner : Nat]
    BY <1>1
  <2>2. hjJournal' \in Seq([place : HjPlaces, orig : Links \cup {Undone}, owner : Nat])
    BY <1>3, <2>1 DEF HjTypes
  <2>3. hjHolds' \in [HjPlaces -> Links] /\ hjCalls' \in [Wrappers -> Links]
    BY <1>1, <1>3 DEF HjTypes, Links
  <2>4. QED
    BY <1>2, <2>2, <2>3 DEF HjTypes
<1>5. /\ DOMAIN hjJournal = 1..top - 1 /\ DOMAIN hjJournal' = 1..top
      /\ \A n \in 1..top - 1 : hjJournal'[n] = hjJournal[n]
      /\ hjJournal'[top] = [place |-> at, orig |-> hjHolds[at], owner |-> hjMod]
  BY <1>1, <1>3 DEF HjTypes
<1>6. \A p \in HjPlaces : Live(p)' = IF p = at THEN Live(p) \cup {top} ELSE Live(p)
  BY <1>1, <1>5, WrappersAreNoCode DEF Live
<1>7. OwnersInOrder'
  <2>1. \A n \in DOMAIN hjJournal' : hjJournal'[n].owner <= hjMod
    BY <1>1, <1>5 DEF OwnersInOrder
  <2>2. \A n \in DOMAIN hjJournal' : hjJournal'[n].owner <= hjMod'
    <3>1. \A n \in DOMAIN hjJournal' : hjJournal'[n].owner \in Nat
      <4>1. \A n \in DOMAIN hjJournal' :
              hjJournal'[n] \in [place : HjPlaces, orig : Links \cup {Undone}, owner : Nat]
        BY <1>4, EntryOf DEF HjTypes
      <4>2. QED
        BY <4>1
    <3>2. hjMod \in Nat /\ hjMod' \in Nat /\ hjMod <= hjMod'
      BY <1>1, <1>2
    <3>3. QED
      BY <2>1, <3>1, <3>2
  <2>3. \A m, n \in DOMAIN hjJournal' : m < n => hjJournal'[m].owner <= hjJournal'[n].owner
    BY <1>1, <1>5 DEF OwnersInOrder
  <2>4. \A p \in HjPlaces : \A n \in Live(p)' : hjJournal'[n].owner \in hjInstalled' \cup {hjMod'}
    <3> SUFFICES ASSUME NEW p \in HjPlaces, NEW n \in Live(p)' PROVE hjJournal'[n].owner \in hjInstalled \cup {hjMod}
      BY <1>2
    <3>1. CASE n = top
      BY <3>1, <1>5
    <3>2. CASE n # top
      BY <3>2, <1>5, <1>6, LiveOnes DEF OwnersInOrder
    <3>3. QED
      BY <3>1, <3>2
  <2>5. QED
    BY <2>2, <2>3, <2>4 DEF OwnersInOrder
<1>8. \A p \in HjPlaces : \A n \in Live(p) : Over(n)' = Over(n)
  <2> SUFFICES ASSUME NEW p \in HjPlaces, NEW n \in Live(p) PROVE Over(n)' = Over(n)
    OBVIOUS
  <2>1. /\ n \in 1..top - 1 /\ hjJournal[n].place = p /\ hjJournal'[n].place = p
        /\ Above(n) = {m \in Live(p) : n < m} /\ Live(p) \in SUBSET (1..top - 1)
    BY <1>5, LiveOnes
  <2>2. CASE p # at
    <3>1. Above(n)' = Above(n)
      BY <1>6, <2>1, <2>2 DEF Above
    <3>2. CASE Above(n) = {}
      BY <1>3, <1>4, <2>1, <2>2, <3>1, <3>2 DEF Over, HjTypes
    <3>3. CASE Above(n) # {}
      <4>1. Min(Above(n)) \in Above(n)
        <5>1. Above(n) \in SUBSET Nat
          BY <2>1
        <5>2. QED
          BY <3>3, <5>1, LeastOf
      <4>2. Min(Above(n)) \in 1..top - 1
        BY <2>1, <4>1
      <4>3. QED
        BY <1>5, <3>1, <3>3, <4>2 DEF Over
    <3>4. QED
      BY <3>2, <3>3
  <2>3. CASE p = at
    <3>1. Above(n)' = Above(n) \cup {top}
      BY <1>1, <1>6, <2>1, <2>3 DEF Above
    <3>2. CASE Above(n) = {}
      <4>1. Min({top}) = top
        <5>1. {top} \in SUBSET Nat /\ {top} # {}
          BY <1>1
        <5>2. QED
          BY <5>1, LeastOf
      <4>2. QED
        <5>1. Above(n)' = {top}
          BY <3>1, <3>2
        <5>2. Over(n)' = hjJournal'[top].orig
          BY <4>1, <5>1 DEF Over
        <5>3. Over(n) = hjHolds[at]
          BY <2>1, <2>3, <3>2 DEF Over
        <5>4. QED
          BY <1>5, <5>2, <5>3
    <3>3. CASE Above(n) # {}
      <4> DEFINE least == Min(Above(n))
      <4>1. least \in Above(n) /\ \A m \in Above(n) : least <= m
        <5>1. Above(n) \in SUBSET Nat
          BY <2>1
        <5>2. QED
          BY <3>3, <5>1, LeastOf
      <4>2. least \in 1..top - 1
        BY <2>1, <4>1
      <4>3. Above(n)' \in SUBSET Nat /\ Above(n)' # {}
        BY <1>1, <2>1, <3>1
      <4>4. Min(Above(n)') \in Above(n)' /\ \A m \in Above(n)' : Min(Above(n)') <= m
        BY <4>3, LeastOf
      <4> HIDE DEF least
      <4>5. Min(Above(n)') = least
        <5>1. least \in Above(n)' /\ least < top
          BY <1>1, <3>1, <4>1, <4>2
        <5>2. Min(Above(n)') <= least /\ Min(Above(n)') \in Nat
          BY <4>3, <4>4, <5>1
        <5>3. Min(Above(n)') \in Above(n)
          BY <1>1, <3>1, <4>2, <4>4, <5>1, <5>2
        <5>4. QED
          BY <4>1, <4>2, <5>2, <5>3
      <4>6. Over(n)' = hjJournal'[least].orig /\ Over(n) = hjJournal[least].orig
        BY <3>1, <3>3, <4>5 DEF Over, least
      <4>7. QED
        BY <1>5, <4>2, <4>6
    <3>4. QED
      BY <3>2, <3>3
  <2>4. QED
    BY <2>2, <2>3
<1>9. Over(top)' = new
  <2>1. Above(top)' = {}
    <3>1. Above(top)' = {m \in Live(at)' : top < m}
      BY <1>5 DEF Above
    <3>2. Live(at)' = Live(at) \cup {top} /\ Live(at) \in SUBSET (1..top - 1)
      BY <1>1, <1>6, LiveOnes
    <3>3. QED
      BY <1>1, <3>1, <3>2
  <2>2. QED
    <3>1. Over(top)' = hjHolds'[at]
      BY <1>5, <2>1 DEF Over
    <3>2. hjHolds'[at] = new
      BY <1>1, <1>3 DEF HjTypes
    <3>3. QED
      BY <3>1, <3>2
<1>10. \A p \in HjPlaces : \A n \in Live(p) : Over(n) # new
  BY <1>1 DEF PatchesNest, HjTypes
<1>11. PatchesNest'
  <2> SUFFICES ASSUME NEW p \in HjPlaces
               PROVE  /\ Live(p)' = {} => hjHolds'[p] = StockCode
                      /\ \A n \in Live(p)' :
                           /\ Over(n)' \in Wrappers /\ Over(n)'[1] = hjJournal'[n].owner
                           /\ Over(n)'[1] = hjMod' => Over(n)'[2] < hjTurn'
                           /\ hjCalls'[Over(n)'] = hjJournal'[n].orig
                           /\ (\A m \in Live(p)' : n <= m) => hjJournal'[n].orig = StockCode
                           /\ \A m \in Live(p)' : Over(m)' = Over(n)' => m = n
    BY DEF PatchesNest
  <2>1. Live(p)' = {} => hjHolds'[p] = StockCode
    BY <1>1, <1>3, <1>6 DEF PatchesNest, HjTypes
  <2>2. ASSUME NEW n \in Live(p)', n # top
        PROVE  /\ n \in Live(p) /\ n \in 1..top - 1
               /\ Over(n)' = Over(n) /\ hjJournal'[n] = hjJournal[n] /\ Over(n) # new
    BY <1>5, <1>6, <1>8, <1>10, <2>2, LiveOnes
  <2>3. ASSUME NEW n \in Live(p)', n = top
        PROVE  /\ p = at /\ Over(n)' = new
               /\ hjJournal'[n] = [place |-> at, orig |-> hjHolds[at], owner |-> hjMod]
    <3>1. n \notin Live(p)
      BY <1>1, <2>3, LiveOnes
    <3>2. p = at
      BY <1>6, <3>1
    <3>3. QED
      BY <1>5, <1>9, <2>3, <3>2
  <2>4. ASSUME NEW n \in Live(p)'
        PROVE  /\ Over(n)' \in Wrappers /\ Over(n)'[1] = hjJournal'[n].owner
               /\ Over(n)'[1] = hjMod' => Over(n)'[2] < hjTurn'
               /\ hjCalls'[Over(n)'] = hjJournal'[n].orig
    <3>1. CASE n = top
      <4>1. hjCalls'[new] = hjHolds[at]
        BY <1>1, <1>3 DEF HjTypes
      <4>2. QED
        <5>1. Over(n)' = new /\ hjJournal'[n].owner = hjMod /\ hjJournal'[n].orig = hjHolds[at]
          BY <2>3, <3>1
        <5>2. new[1] = hjMod' => new[2] < hjTurn'
          BY <1>1, <1>2 DEF HjTypes
        <5>3. QED
          BY <1>1, <4>1, <5>1, <5>2
    <3>2. CASE n # top
      <4>1. /\ Over(n) \in Wrappers /\ Over(n)[1] = hjJournal[n].owner
            /\ Over(n)[1] = hjMod => Over(n)[2] < hjTurn
            /\ hjCalls[Over(n)] = hjJournal[n].orig
        BY <2>2, <3>2 DEF PatchesNest
      <4>2. hjCalls'[Over(n)] = hjCalls[Over(n)]
        BY <1>3, <2>2, <3>2, <4>1 DEF HjTypes
      <4>3. Over(n)[1] <= hjMod
        BY <1>5, <2>2, <3>2, <4>1 DEF OwnersInOrder
      <4>4. Over(n)[1] \in Nat /\ Over(n)[2] \in Nat
        <5>1. \A w \in Wrappers : w[1] \in Nat /\ w[2] \in Nat
          BY HjAssumption DEF Wrappers
        <5>2. QED
          BY <4>1, <5>1
      <4>5. Over(n)[1] = hjMod' => Over(n)[2] < hjTurn'
        BY <1>1, <1>2, <4>1, <4>3, <4>4 DEF HjTypes
      <4>6. QED
        BY <2>2, <3>2, <4>1, <4>2, <4>5
    <3>3. QED
      BY <3>1, <3>2
  <2>5. ASSUME NEW n \in Live(p)', \A m \in Live(p)' : n <= m
        PROVE  hjJournal'[n].orig = StockCode
    <3>1. CASE n = top
      <4>1. Live(p) = {}
        BY <1>1, <1>5, <1>6, <2>3, <2>5, <3>1, LiveOnes
      <4>2. QED
        BY <2>3, <3>1, <4>1 DEF PatchesNest
    <3>2. CASE n # top
      BY <1>6, <2>2, <2>5, <3>2 DEF PatchesNest
    <3>3. QED
      BY <3>1, <3>2
  <2>6. ASSUME NEW n \in Live(p)', NEW m \in Live(p)', Over(m)' = Over(n)'
        PROVE  m = n
    BY <2>2, <2>3, <2>6 DEF PatchesNest
  <2>7. QED
    BY <2>1, <2>4, <2>5, <2>6
<1>12. QED
  BY <1>4, <1>7, <1>11

-----------------------------------------------------------------------------
(* A mod that refuses takes its own patches off, which are the newest of every     *)
(* place: what was over the others is over them again.                        *)
LEMMA RefusesKeepsIInv ==
  ASSUME HjIInv, HjRefuses PROVE HjIInv'
<1> USE DEF HjIInv
<1> SUFFICES ASSUME NEW CONSTANT mod, mod = hjMod PROVE HjIInv'
  OBVIOUS
<1> DEFINE Own(p) == {n \in Live(p) : hjJournal[n].owner = mod}
<1>1. mod \in 1..Len(HjMods) /\ Len(HjMods) \in Nat
  BY PatchIsThere, HjAssumption DEF HjRefuses
<1>2. /\ hjMod' = mod + 1 /\ hjTurn' = 1 /\ UNCHANGED <<hjCalls, hjInstalled>>
      /\ hjHolds' = [p \in HjPlaces |-> IF Own(p) = {} THEN hjHolds[p] ELSE hjJournal[Min(Own(p))].orig]
      /\ hjJournal' = [n \in DOMAIN hjJournal |->
            IF hjJournal[n].owner = mod THEN [hjJournal[n] EXCEPT !.orig = Undone] ELSE hjJournal[n]]
  BY DEF HjRefuses, PutBack
<1>3. /\ DOMAIN hjJournal' = DOMAIN hjJournal /\ DOMAIN hjJournal = 1..Len(hjJournal) /\ Len(hjJournal) \in Nat
      /\ \A n \in DOMAIN hjJournal : hjJournal[n] \in [place : HjPlaces, orig : Links \cup {Undone}, owner : Nat]
  BY <1>2, EntryOf DEF HjTypes
<1>4. \A n \in DOMAIN hjJournal :
        /\ hjJournal'[n].place = hjJournal[n].place /\ hjJournal'[n].owner = hjJournal[n].owner
        /\ hjJournal'[n].orig = IF hjJournal[n].owner = mod THEN Undone ELSE hjJournal[n].orig
        /\ hjJournal'[n] \in [place : HjPlaces, orig : Links \cup {Undone}, owner : Nat]
  BY <1>2, <1>3
<1>5. \A p \in HjPlaces :
        /\ Live(p)' = Live(p) \ Own(p) /\ Own(p) \in SUBSET Nat
        /\ Own(p) # {} => Min(Own(p)) \in Own(p) /\ \A m \in Own(p) : Min(Own(p)) <= m
  <2> SUFFICES ASSUME NEW p \in HjPlaces
               PROVE  /\ Live(p)' = Live(p) \ Own(p) /\ Own(p) \in SUBSET Nat
                      /\ Own(p) # {} => Min(Own(p)) \in Own(p) /\ \A m \in Own(p) : Min(Own(p)) <= m
    OBVIOUS
  <2>1. Live(p)' = Live(p) \ Own(p)
    BY <1>3, <1>4, WrappersAreNoCode DEF Live
  <2>2. Own(p) \in SUBSET Nat
    BY LiveOnes
  <2> HIDE DEF Own
  <2>3. Own(p) # {} => Min(Own(p)) \in Own(p) /\ \A m \in Own(p) : Min(Own(p)) <= m
    BY <2>2, LeastOf
  <2>4. QED
    BY <2>1, <2>2, <2>3
<1>6. HjTypes'
  <2>1. hjJournal' \in Seq([place : HjPlaces, orig : Links \cup {Undone}, owner : Nat])
    <3> DEFINE Forms == [place : HjPlaces, orig : Links \cup {Undone}, owner : Nat]
    <3>1. hjJournal' \in [1..Len(hjJournal) -> Forms]
      BY <1>2, <1>3, <1>4
    <3> HIDE DEF Forms
    <3>2. hjJournal' \in Seq(Forms)
      BY <1>3, <3>1
    <3>3. QED
      BY <3>2 DEF Forms
  <2>2. hjHolds' \in [HjPlaces -> Links]
    <3>1. \A p \in HjPlaces : Own(p) # {} => hjJournal[Min(Own(p))].orig \in Links
      BY <1>5, LiveOnes
    <3>2. \A p \in HjPlaces : hjHolds[p] \in Links
      BY DEF HjTypes
    <3> HIDE DEF Own
    <3>3. QED
      BY <1>2, <3>1, <3>2
  <2>3. hjMod' <= Len(HjMods) => hjTurn' <= Len(HjMods[hjMod'])
    <3>1. \A k \in 1..Len(HjMods) : Len(HjMods[k]) \in Nat \ {0}
      BY HjAssumption
    <3>2. QED
      BY <1>1, <1>2, <3>1
  <2>4. hjMod' \in 1..Len(HjMods) + 1 /\ hjTurn' \in Nat \ {0}
    BY <1>1, <1>2
  <2>5. hjCalls' \in [Wrappers -> Links]
    BY <1>2 DEF HjTypes
  <2>6. QED
    BY <2>1, <2>2, <2>3, <2>4, <2>5 DEF HjTypes
<1>7. OwnersInOrder'
  <2>1. \A n \in DOMAIN hjJournal' : hjJournal'[n].owner <= hjMod'
    BY <1>1, <1>2, <1>3, <1>4 DEF OwnersInOrder
  <2>2. \A m, n \in DOMAIN hjJournal' : m < n => hjJournal'[m].owner <= hjJournal'[n].owner
    BY <1>3, <1>4 DEF OwnersInOrder
  <2>3. \A p \in HjPlaces : \A n \in Live(p)' : hjJournal'[n].owner \in hjInstalled' \cup {hjMod'}
    <3> SUFFICES ASSUME NEW p \in HjPlaces, NEW n \in Live(p)' PROVE hjJournal'[n].owner \in hjInstalled
      BY <1>2
    <3>1. n \in Live(p) /\ n \notin Own(p)
      BY <1>5
    <3>2. hjJournal[n].owner \in hjInstalled \cup {mod} /\ hjJournal[n].owner # mod
      BY <3>1 DEF OwnersInOrder
    <3>3. n \in DOMAIN hjJournal
      BY <3>1 DEF Live
    <3>4. QED
      BY <1>4, <3>2, <3>3
  <2>4. QED
    BY <2>1, <2>2, <2>3 DEF OwnersInOrder
<1>8. \A p \in HjPlaces : \A n \in Live(p) : \A m \in Own(p) :
        n \notin Own(p) => n < m
  <2> SUFFICES ASSUME NEW p \in HjPlaces, NEW n \in Live(p), NEW m \in Own(p), n \notin Own(p) PROVE n < m
    OBVIOUS
  <2>1. /\ n \in DOMAIN hjJournal /\ m \in DOMAIN hjJournal /\ hjJournal[m].owner = mod /\ hjJournal[n].owner # mod
        /\ n \in Nat /\ m \in Nat /\ hjJournal[n].owner \in Nat
    <3>1. m \in Live(p) /\ hjJournal[m].owner = mod /\ hjJournal[n].owner # mod
      OBVIOUS
    <3>2. n \in DOMAIN hjJournal /\ m \in DOMAIN hjJournal
      BY <3>1 DEF Live
    <3>3. n \in Nat /\ m \in Nat
      BY <1>3, <3>2
    <3>4. hjJournal[n] \in [place : HjPlaces, orig : Links \cup {Undone}, owner : Nat]
      BY <1>3, <3>2
    <3>5. hjJournal[n].owner \in Nat
      BY <3>4
    <3>6. QED
      BY <3>1, <3>2, <3>3, <3>5
  <2>2. hjJournal[n].owner < mod
    BY <1>1, <2>1 DEF OwnersInOrder
  <2>3. ~(m < n)
    BY <1>1, <2>1, <2>2 DEF OwnersInOrder
  <2>4. m # n
    BY <2>1
  <2>5. QED
    BY <2>1, <2>3, <2>4
<1>9. \A p \in HjPlaces : \A n \in Live(p)' : Over(n)' = Over(n)
  <2> SUFFICES ASSUME NEW p \in HjPlaces, NEW n \in Live(p)' PROVE Over(n)' = Over(n)
    OBVIOUS
  <2>1. /\ n \in Live(p) /\ n \notin Own(p) /\ n \in DOMAIN hjJournal
        /\ hjJournal[n].place = p /\ hjJournal'[n].place = p
        /\ Above(n) = {m \in Live(p) : n < m} /\ Above(n) \in SUBSET Nat /\ Above(n) \subseteq DOMAIN hjJournal
    <3>1. n \in Live(p) /\ n \notin Own(p)
      BY <1>5
    <3>2. n \in DOMAIN hjJournal /\ hjJournal[n].place = p
      BY <3>1 DEF Live
    <3>3. Above(n) = {m \in Live(p) : n < m}
      BY <3>1, LiveOnes
    <3>4. Live(p) \in SUBSET Nat /\ Live(p) \subseteq DOMAIN hjJournal
      BY LiveOnes DEF Live
    <3>5. Above(n) \in SUBSET Nat /\ Above(n) \subseteq DOMAIN hjJournal
      BY <3>3, <3>4
    <3>6. hjJournal'[n].place = p
      BY <1>4, <3>2
    <3>7. QED
      BY <3>1, <3>2, <3>3, <3>5, <3>6
  <2>2. Above(n)' = Above(n) \ Own(p)
    BY <1>5, <2>1 DEF Above
  <2>3. Own(p) \subseteq Above(n)
    BY <1>8, <2>1
  <2> HIDE DEF Own
  <2>4. CASE Above(n)' # {}
    <3> DEFINE least == Min(Above(n))
    <3>1. least \in Above(n) /\ \A m \in Above(n) : least <= m
      BY <2>1, <2>2, <2>4, LeastOf
    <3>2. Min(Above(n)') \in Above(n)' /\ \A m \in Above(n)' : Min(Above(n)') <= m
      <4>1. Above(n)' \in SUBSET Nat
        BY <2>1, <2>2
      <4>2. QED
        BY <2>4, <4>1, LeastOf
    <3> HIDE DEF least
    <3>3. least \notin Own(p)
      <4>1. PICK k \in Above(n) : k \notin Own(p)
        BY <2>2, <2>4
      <4>2. ASSUME least \in Own(p) PROVE k < least
        <5>1. k \in Live(p)
          BY <2>1, <4>1
        <5>2. QED
          BY <1>8, <4>1, <4>2, <5>1 DEF Own
      <4>3. QED
        BY <2>1, <3>1, <4>1, <4>2
    <3>4. least \in Above(n)'
      BY <2>2, <3>1, <3>3
    <3>5. Min(Above(n)') = least
      <4>1. Min(Above(n)') \in Nat /\ least \in Nat
        BY <2>1, <2>2, <3>1, <3>2
      <4>2. Min(Above(n)') <= least /\ least <= Min(Above(n)')
        BY <2>2, <3>1, <3>2, <3>4
      <4>3. QED
        BY <4>1, <4>2
    <3>6. Over(n)' = hjJournal'[least].orig
      BY <2>4, <3>5 DEF Over
    <3>7. Over(n) = hjJournal[least].orig
      BY <2>2, <2>4 DEF Over, least
    <3>8. least \in DOMAIN hjJournal /\ hjJournal[least].owner # mod
      BY <2>1, <3>1, <3>3 DEF Own
    <3>9. QED
      BY <1>4, <3>6, <3>7, <3>8
  <2>5. CASE Above(n)' = {}
    <3>1. Above(n) = Own(p)
      BY <2>2, <2>3, <2>5
    <3>2. Over(n)' = hjHolds'[p]
      BY <2>1, <2>5 DEF Over
    <3>3. hjHolds'[p] = IF Own(p) = {} THEN hjHolds[p] ELSE hjJournal[Min(Own(p))].orig
      BY <1>2 DEF Own
    <3>4. Over(n) = IF Own(p) = {} THEN hjHolds[p] ELSE hjJournal[Min(Own(p))].orig
      BY <2>1, <3>1 DEF Over
    <3>5. QED
      BY <3>2, <3>3, <3>4
  <2>6. QED
    BY <2>4, <2>5
<1>10. PatchesNest'
  <2> SUFFICES ASSUME NEW p \in HjPlaces
               PROVE  /\ Live(p)' = {} => hjHolds'[p] = StockCode
                      /\ \A n \in Live(p)' :
                           /\ Over(n)' \in Wrappers /\ Over(n)'[1] = hjJournal'[n].owner
                           /\ Over(n)'[1] = hjMod' => Over(n)'[2] < hjTurn'
                           /\ hjCalls'[Over(n)'] = hjJournal'[n].orig
                           /\ (\A m \in Live(p)' : n <= m) => hjJournal'[n].orig = StockCode
                           /\ \A m \in Live(p)' : Over(m)' = Over(n)' => m = n
    BY DEF PatchesNest
  <2>1. ASSUME Live(p)' = {} PROVE hjHolds'[p] = StockCode
    <3>1. Live(p) = Own(p)
      BY <1>5, <2>1
    <3>2. CASE Own(p) = {}
      BY <1>2, <3>1, <3>2 DEF PatchesNest
    <3>3. CASE Own(p) # {}
      <4>1. Min(Own(p)) \in Live(p) /\ \A m \in Live(p) : Min(Own(p)) <= m
        BY <1>5, <3>1, <3>3
      <4>2. hjJournal[Min(Own(p))].orig = StockCode
        BY <4>1 DEF PatchesNest
      <4>3. QED
        BY <1>2, <3>3, <4>2
    <3>4. QED
      BY <3>2, <3>3
  <2>2. ASSUME NEW n \in Live(p)'
        PROVE  /\ n \in Live(p) /\ n \notin Own(p) /\ Over(n)' = Over(n) /\ n \in Nat
               /\ hjJournal'[n].owner = hjJournal[n].owner /\ hjJournal'[n].orig = hjJournal[n].orig
               /\ hjJournal[n].owner \in Nat /\ hjJournal[n].owner <= mod
    <3>1. n \in Live(p) /\ n \notin Own(p) /\ Over(n)' = Over(n)
      BY <1>5, <1>9
    <3>2. n \in DOMAIN hjJournal /\ hjJournal[n].owner # mod
      BY <3>1 DEF Live
    <3>3. hjJournal[n] \in [place : HjPlaces, orig : Links \cup {Undone}, owner : Nat] /\ n \in Nat
      BY <1>3, <3>2
    <3>4. hjJournal[n].owner \in Nat
      BY <3>3
    <3>5. hjJournal[n].owner <= mod
      BY <3>2 DEF OwnersInOrder
    <3>6. hjJournal'[n].owner = hjJournal[n].owner /\ hjJournal'[n].orig = hjJournal[n].orig
      BY <1>4, <3>2
    <3>7. QED
      BY <3>1, <3>3, <3>4, <3>5, <3>6
  <2>3. ASSUME NEW n \in Live(p)'
        PROVE  /\ Over(n)' \in Wrappers /\ Over(n)'[1] = hjJournal'[n].owner
               /\ Over(n)'[1] = hjMod' => Over(n)'[2] < hjTurn'
               /\ hjCalls'[Over(n)'] = hjJournal'[n].orig
    <3>1. Over(n) \in Wrappers /\ Over(n)[1] = hjJournal[n].owner /\ hjCalls[Over(n)] = hjJournal[n].orig
      BY <2>2 DEF PatchesNest
    <3>2. Over(n)[1] # hjMod'
      <4>1. hjJournal[n].owner \in Nat /\ hjJournal[n].owner <= mod
        BY <2>2
      <4>2. hjJournal[n].owner # mod + 1
        BY <1>1, <4>1
      <4>3. QED
        BY <1>2, <3>1, <4>2
    <3>3. QED
      BY <1>2, <2>2, <3>1, <3>2
  <2>4. ASSUME NEW n \in Live(p)', \A m \in Live(p)' : n <= m
        PROVE  hjJournal'[n].orig = StockCode
    <3>1. \A m \in Live(p) : n <= m
      <4> SUFFICES ASSUME NEW m \in Live(p) PROVE n <= m
        OBVIOUS
      <4>1. CASE m \in Own(p)
        <5>1. n < m
          BY <1>8, <2>2, <4>1
        <5>2. m \in Nat
          BY LiveOnes
        <5>3. QED
          BY <2>2, <5>1, <5>2
      <4>2. CASE m \notin Own(p)
        BY <1>5, <2>4, <4>2
      <4>3. QED
        BY <4>1, <4>2
    <3>2. QED
      BY <2>2, <3>1 DEF PatchesNest
  <2>5. ASSUME NEW n \in Live(p)', NEW m \in Live(p)', Over(m)' = Over(n)'
        PROVE  m = n
    BY <2>2, <2>5 DEF PatchesNest
  <2>6. QED
    BY <2>1, <2>3, <2>4, <2>5
<1>11. QED
  BY <1>6, <1>7, <1>10

(* A mod that does without a patch leaves the places and the journal as they are.   *)
LEMMA GoesWithoutKeepsIInv ==
  ASSUME HjIInv, HjGoesWithout PROVE HjIInv'
<1> USE DEF HjIInv
<1>1. /\ hjMod' \in 1..Len(HjMods) + 1 /\ hjTurn' \in Nat \ {0}
      /\ hjMod' <= Len(HjMods) => hjTurn' <= Len(HjMods[hjMod'])
      /\ hjMod' \in {hjMod, hjMod + 1} /\ (hjMod' = hjMod => hjTurn' = hjTurn + 1)
      /\ hjInstalled \cup {hjMod} \subseteq hjInstalled' \cup {hjMod'}
  BY AdvancesInRange DEF HjGoesWithout
<1>2. UNCHANGED <<hjHolds, hjCalls, hjJournal>>
  BY DEF HjGoesWithout
<1>3. (\A p \in HjPlaces : Live(p)' = Live(p)) /\ (\A n : Over(n)' = Over(n))
  BY <1>2 DEF Live, Above, Over
<1>4. HjTypes'
  BY <1>1, <1>2 DEF HjTypes
<1>5. OwnersInOrder'
  <2>1. \A n \in DOMAIN hjJournal : hjJournal[n].owner \in Nat
    <3>1. \A n \in DOMAIN hjJournal : hjJournal[n] \in [place : HjPlaces, orig : Links \cup {Undone}, owner : Nat]
      BY EntryOf DEF HjTypes
    <3>2. QED
      BY <3>1
  <2>2. hjMod \in Nat /\ hjMod' \in Nat /\ hjMod <= hjMod'
    BY <1>1 DEF HjTypes
  <2>3. QED
    BY <1>1, <1>2, <1>3, <2>1, <2>2 DEF OwnersInOrder
<1>6. PatchesNest'
  <2>1. \A w \in Wrappers : w[1] \in Nat /\ w[2] \in Nat
    BY HjAssumption DEF Wrappers
  <2>2. ASSUME NEW p \in HjPlaces, NEW n \in Live(p), Over(n)[1] = hjMod'
        PROVE  Over(n)[2] < hjTurn'
    <3>1. Over(n) \in Wrappers /\ Over(n)[1] = hjJournal[n].owner /\ (Over(n)[1] = hjMod => Over(n)[2] < hjTurn)
      BY DEF PatchesNest
    <3>2. hjJournal[n].owner <= hjMod
      BY LiveOnes DEF OwnersInOrder
    <3>3. hjMod \in Nat /\ hjTurn \in Nat
      BY DEF HjTypes
    <3>4. hjMod' = hjMod /\ hjTurn' = hjTurn + 1
      <4>1. hjMod' <= hjMod
        BY <2>2, <3>1, <3>2
      <4>2. QED
        BY <1>1, <3>3, <4>1
    <3>5. Over(n)[2] < hjTurn /\ Over(n)[2] \in Nat
      BY <2>1, <2>2, <3>1, <3>4
    <3>6. QED
      BY <3>3, <3>4, <3>5
  <2>3. QED
    BY <1>2, <1>3, <2>2 DEF PatchesNest
<1>7. QED
  BY <1>4, <1>5, <1>6

(* Whatever a mod's install does, the journal tells what is over what.           *)
LEMMA HjStepKeepsIInv == HjIInv /\ [HjNext]_hjVars => HjIInv'
<1> SUFFICES ASSUME HjIInv, [HjNext]_hjVars PROVE HjIInv'
  OBVIOUS
<1>1. CASE UNCHANGED hjVars
  <2>1. UNCHANGED <<hjMod, hjTurn, hjHolds, hjCalls, hjJournal, hjInstalled>>
    BY <1>1 DEF hjVars
  <2>2. (\A p : Live(p)' = Live(p)) /\ (\A n : Over(n)' = Over(n))
    BY <2>1 DEF Live, Above, Over
  <2>3. HjTypes' /\ OwnersInOrder'
    BY <2>1, <2>2 DEF HjIInv, HjTypes, OwnersInOrder
  <2>4. PatchesNest'
    BY <2>1, <2>2 DEF HjIInv, PatchesNest
  <2>5. QED
    BY <2>3, <2>4 DEF HjIInv
<1>2. QED
  BY <1>1, PatchesKeepsIInv, RefusesKeepsIInv, GoesWithoutKeepsIInv DEF HjNext

-----------------------------------------------------------------------------
(* Nested patches make one chain: the wrappers over the live patches of a place,  *)
(* and the stock code under the oldest.                                       *)
LEMMA ChainOfPlace ==
  ASSUME HjIInv, NEW p \in HjPlaces
  PROVE  Chain(p) = {Over(n) : n \in Live(p)} \cup {StockCode}
<1> USE DEF HjIInv
<1> DEFINE C == {Over(n) : n \in Live(p)} \cup {StockCode}
<1>1. /\ Live(p) \in SUBSET (1..Len(hjJournal)) /\ Len(hjJournal) \in Nat
      /\ \A n \in Live(p) : /\ hjJournal[n].place = p
                            /\ Above(n) = {m \in Live(p) : n < m}
  BY LiveOnes
<1>2. \A n \in Live(p) : Over(n) \in Wrappers /\ hjCalls[Over(n)] = hjJournal[n].orig
  BY DEF PatchesNest
<1>3. ASSUME NEW n \in Live(p), Above(n) # {}
      PROVE  Min(Above(n)) \in Above(n) /\ (\A k \in Above(n) : Min(Above(n)) <= k)
             /\ Over(n) = hjJournal[Min(Above(n))].orig
  <2>1. Above(n) \in SUBSET Nat
    BY <1>1
  <2>2. QED
    BY <1>3, <2>1, LeastOf DEF Over
<1>4. \A n \in Live(p) : Above(n) = {} => Over(n) = hjHolds[p]
  BY <1>1 DEF Over
<1>5. C \in SUBSET InUse
  <2>1. hjHolds[p] \in InUse /\ \A w \in Wrappers : hjCalls[w] \in InUse
    BY DEF InUse
  <2>2. ASSUME NEW n \in Live(p) PROVE Over(n) \in InUse
    <3>1. CASE Above(n) = {}
      BY <1>4, <2>1, <3>1
    <3>2. CASE Above(n) # {}
      <4>1. Min(Above(n)) \in Live(p) /\ Over(n) = hjJournal[Min(Above(n))].orig
        BY <1>1, <1>3, <3>2
      <4>2. QED
        BY <1>2, <2>1, <4>1
    <3>3. QED
      BY <3>1, <3>2
  <2>3. StockCode \in InUse
    <3>1. CASE Live(p) = {}
      BY <2>1, <3>1 DEF PatchesNest
    <3>2. CASE Live(p) # {}
      <4>1. Min(Live(p)) \in Live(p) /\ \A m \in Live(p) : Min(Live(p)) <= m
        BY <1>1, <3>2, LiveOnes, LeastOf
      <4>2. hjJournal[Min(Live(p))].orig = StockCode
        BY <4>1 DEF PatchesNest
      <4>3. QED
        BY <1>2, <2>1, <4>1, <4>2
    <3>3. QED
      BY <3>1, <3>2
  <2>4. QED
    BY <2>2, <2>3
<1>6. hjHolds[p] \in C
  <2>1. CASE Live(p) = {}
    BY <2>1 DEF PatchesNest
  <2>2. CASE Live(p) # {}
    <3>1. PICK n \in Live(p) : \A m \in Live(p) : m <= n
      BY <1>1, <2>2, GreatestOf
    <3>2. Above(n) = {}
      BY <1>1, <3>1
    <3>3. QED
      BY <1>4, <3>1, <3>2
  <2>3. QED
    BY <2>1, <2>2
<1>7. Closed(C)
  <2> SUFFICES ASSUME NEW n \in Live(p) PROVE hjJournal[n].orig \in C
    BY <1>2 DEF Closed
  <2> DEFINE Below == {m \in Live(p) : m < n}
  <2>1. CASE Below = {}
    <3>1. \A m \in Live(p) : n <= m
      BY <1>1, <2>1
    <3>2. QED
      BY <3>1 DEF PatchesNest
  <2>2. CASE Below # {}
    <3>1. PICK m \in Below : \A k \in Below : k <= m
      <4>1. Below \in SUBSET (1..Len(hjJournal))
        BY <1>1
      <4> HIDE DEF Below
      <4>2. QED
        BY <1>1, <2>2, <4>1, GreatestOf
    <3>2. m \in Live(p) /\ n \in Above(m) /\ \A k \in Above(m) : n <= k
      BY <1>1, <3>1
    <3>3. Min(Above(m)) = n
      <4>1. Min(Above(m)) \in Above(m) /\ \A k \in Above(m) : Min(Above(m)) <= k
        BY <1>3, <3>2
      <4>2. Above(m) \in SUBSET Nat
        BY <1>1, <3>2
      <4>3. n <= Min(Above(m)) /\ Min(Above(m)) <= n /\ n \in Nat /\ Min(Above(m)) \in Nat
        BY <3>2, <4>1, <4>2
      <4>4. QED
        BY <4>3
    <3>4. Over(m) = hjJournal[n].orig
      BY <1>3, <3>2, <3>3
    <3>5. QED
      BY <3>2, <3>4
  <2>3. QED
    BY <2>1, <2>2
<1>8. ASSUME NEW S \in SUBSET InUse, hjHolds[p] \in S, Closed(S)
      PROVE  C \subseteq S
  <2>1. ASSUME NEW n \in Live(p), Over(n) \in S PROVE hjJournal[n].orig \in S
    BY <1>2, <1>8, <2>1, WrappersAreNoCode DEF Closed
  <2> DEFINE Out == {n \in Live(p) : Over(n) \notin S}
  <2>2. Out = {}
    <3> SUFFICES ASSUME Out # {} PROVE FALSE
      OBVIOUS
    <3>1. PICK n \in Out : \A k \in Out : k <= n
      <4>1. Out \in SUBSET (1..Len(hjJournal))
        BY <1>1
      <4> HIDE DEF Out
      <4>2. QED
        BY <1>1, <4>1, GreatestOf
    <3>2. Above(n) # {}
      BY <1>4, <1>8, <3>1
    <3>3. Min(Above(n)) \in Above(n) /\ Over(n) = hjJournal[Min(Above(n))].orig
      BY <1>3, <3>1, <3>2
    <3>4. Min(Above(n)) \in Live(p) /\ n < Min(Above(n)) /\ n \in Nat /\ Min(Above(n)) \in Nat
      BY <1>1, <3>1, <3>3
    <3>5. Over(Min(Above(n))) \in S
      BY <3>1, <3>4
    <3>6. QED
      BY <2>1, <3>1, <3>3, <3>4, <3>5
  <2>3. StockCode \in S
    <3>1. CASE Live(p) = {}
      BY <1>8, <3>1 DEF PatchesNest
    <3>2. CASE Live(p) # {}
      <4>1. Min(Live(p)) \in Live(p) /\ \A m \in Live(p) : Min(Live(p)) <= m
        BY <1>1, <3>2, LiveOnes, LeastOf
      <4>2. hjJournal[Min(Live(p))].orig = StockCode
        BY <4>1 DEF PatchesNest
      <4>3. QED
        BY <2>1, <2>2, <4>1, <4>2
    <3>3. QED
      BY <3>1, <3>2
  <2>4. QED
    BY <2>2, <2>3
<1> HIDE DEF C
<1>9. Chain(p) = C
  BY <1>5, <1>6, <1>7, <1>8 DEF Chain
<1>10. QED
  BY <1>9 DEF C

(* Every place leads to the stock code, through one wrapper for each patch the     *)
(* journal holds for it, of mods that are in (common.c:847-857).               *)
THEOREM RefusalsLeaveStock == HjSpec => []RefusedMeansStock
<1>1. ASSUME HjIInv PROVE RefusedMeansStock
  <2> USE <1>1 DEF HjIInv
  <2> SUFFICES ASSUME NEW p \in HjPlaces
               PROVE  /\ StockCode \in Chain(p)
                      /\ \A w \in Chain(p) \ {StockCode} : w[1] \in hjInstalled \cup {hjMod}
                      /\ Cardinality(Chain(p) \ {StockCode}) = Cardinality(Live(p))
    BY DEF RefusedMeansStock
  <2>1. Chain(p) = {Over(n) : n \in Live(p)} \cup {StockCode}
    BY ChainOfPlace
  <2>2. \A n \in Live(p) :
          Over(n) \in Wrappers /\ Over(n)[1] = hjJournal[n].owner /\ \A m \in Live(p) : Over(m) = Over(n) => m = n
    BY DEF PatchesNest
  <2>3. Chain(p) \ {StockCode} = {Over(n) : n \in Live(p)}
    BY <2>1, <2>2, WrappersAreNoCode
  <2>4. \A w \in Chain(p) \ {StockCode} : w[1] \in hjInstalled \cup {hjMod}
    BY <2>2, <2>3 DEF OwnersInOrder
  <2>5. Cardinality({Over(n) : n \in Live(p)}) = Cardinality(Live(p))
    <3> DEFINE f == [n \in Live(p) |-> Over(n)]
               Overs == {Over(n) : n \in Live(p)}
    <3>1. f \in Bijection(Live(p), Overs)
      <4>1. f \in [Live(p) -> Overs]
        OBVIOUS
      <4>2. \A m, n \in Live(p) : f[m] = f[n] => m = n
        BY <2>2
      <4>3. \A w \in Overs : \E n \in Live(p) : f[n] = w
        OBVIOUS
      <4> HIDE DEF f, Overs
      <4>4. IsInjective(f)
        BY <4>1, <4>2 DEF IsInjective
      <4>5. QED
        BY <4>1, <4>3, <4>4 DEF Bijection, Injection, Surjection
    <3>2. IsFiniteSet(Live(p))
      <4>1. IsFiniteSet(1..Len(hjJournal))
        BY LiveOnes, FS_Interval
      <4>2. Live(p) \subseteq 1..Len(hjJournal)
        BY LiveOnes
      <4>3. QED
        BY <4>1, <4>2, FS_Subset
    <3> HIDE DEF f, Overs
    <3>3. Cardinality(Live(p)) = Cardinality(Overs)
      <4>1. ExistsBijection(Live(p), Overs)
        BY <3>1 DEF ExistsBijection
      <4>2. QED
        BY <3>2, <4>1, FS_Bijection
    <3>4. QED
      BY <3>3 DEF Overs
  <2>6. QED
    BY <2>1, <2>3, <2>4, <2>5
<1>2. QED
  BY <1>1, HjInitIInv, HjStepKeepsIInv, PTL DEF HjSpec
=============================================================================
