----------------------------- MODULE MediaProofs -----------------------------
(***************************************************************************)
(* What the sticks hold, for any tracks, ids, pages and slots and any number   *)
(* of pulls, insertions and power cuts.  The stem cache: an entry a lookup       *)
(* accepts has no half part in it, and a store takes away no entry.  Offline      *)
(* stems: no block and no repaint works on a set that was freed, and a selection   *)
(* is of the generation it was made in.  The groove table: nothing is mixed from    *)
(* a loop that was freed under the table.                                   *)
(*                                                                         *)
(* The cache.  What is only in the page cache of the stick is of the one       *)
(* store that is in hand, and of the part it is copying (CachedIsInHand); so a  *)
(* pull or a cut tears nothing that was renamed (FinalIsSynced).  As long as no  *)
(* stick came back in the middle of a store, the store that reaches its rename   *)
(* on the stick has synced both parts there (StagedIsSynced).                *)
(*                                                                         *)
(* Offline stems.  Generations only grow, and the worker loads each of them at  *)
(* most once, because it marks it seen before the load (prestem.c:190): a set   *)
(* is named by its generation, so what was freed is older than what is loaded   *)
(* (FreedAreOlder).  The worker frees a set after it took it out of reach and    *)
(* then saw every user gone (UnlinkedFirst), and a user that is gone holds no    *)
(* set (IdleHoldsNothing).                                                  *)
(*                                                                         *)
(* The groove table.  A reader is counted before it looks, and the loader takes  *)
(* the table off before it waits for the count: while it frees and fills, no       *)
(* reader is past its look (TableIsOff).                                     *)
(***************************************************************************)
EXTENDS StemCache, PreStems, GrooveCircuit, TLAPS

-----------------------------------------------------------------------------
(* The stem cache.                                                         *)
Parts2 == {"none", "part", "cached", "disk", "bad"}
Metas == {"none", "cached", "disk", "old"}
Dirs == [made : BOOLEAN, meta : Metas, h : Parts2, v : Parts2]
Steps == {"idle", "parent", "mkdir", "h", "hsync", "v", "vsync", "meta", "rename", "undo"}

ScTypes ==
  /\ scIn \in BOOLEAN /\ scBack \in BOOLEAN /\ scId \in ScIds \cup {""}
  /\ scFinal \in [FileSystems -> [Keys -> Dirs]]
  /\ scStage \in [FileSystems -> [Keys -> Dirs]]
  /\ scStore \in [pc : Steps, key : Keys \cup {NoKey}]
  /\ scStore.pc # "idle" => scStore.key \in Keys

\* A file of the stick that is only in the page cache is the one being copied, or
\* one a failed step is about to remove.
CachedIsInHand ==
  \A k \in Keys :
    LET d == scStage["stick"][k] IN
    /\ "cached" \in {d.meta, d.h, d.v} => scIn /\ scStore.pc # "idle" /\ k = scStore.key
    /\ d.h = "cached" => scStore.pc \in {"hsync", "undo"}
    /\ d.v = "cached" => scStore.pc \in {"vsync", "undo"}
    /\ d.meta = "cached" => scStore.pc \in {"rename", "undo"}

FinalIsSynced ==
  \A k \in Keys : "cached" \notin {scFinal["stick"][k].h, scFinal["stick"][k].v}

\* What the store has done so far, while the stick it began on stayed in.
StagedIsSynced ==
  ~scBack /\ scIn =>
    /\ scStore.pc \in {"v", "vsync", "meta", "rename"} => scStage["stick"][scStore.key].h = "disk"
    /\ scStore.pc \in {"meta", "rename"} => scStage["stick"][scStore.key].v = "disk"

FinalIsWhole ==
  ~scBack => \A k \in Keys : "part" \notin {scFinal["stick"][k].h, scFinal["stick"][k].v}

ScIInv == ScTypes /\ CachedIsInHand /\ FinalIsSynced /\ StagedIsSynced /\ FinalIsWhole
-----------------------------------------------------------------------------
(* The directories and what a pull makes of them.                           *)
LEMMA EmptyIsADir == Empty \in Dirs /\ Fresh \in Dirs
BY DEF Empty, Fresh, Dirs, Metas, Parts2

(* What a pull of the stick leaves of one directory: nothing cached, and whatever had reached the
   medium. *)
LEMMA PulledDir ==
  ASSUME NEW dir \in Dirs, NEW d \in PulledDirs(dir)
  PROVE  /\ d \in Dirs
         /\ "cached" \notin {d.meta, d.h, d.v}
         /\ dir.h # "cached" => d.h = dir.h
         /\ dir.v # "cached" => d.v = dir.v
         /\ dir.meta # "cached" => d.meta = dir.meta
<1>1. PICK m \in {IF x = "part" THEN "none" ELSE x : x \in Survives(dir.meta)},
           h \in Survives(dir.h), v \in Survives(dir.v) :
             d = [made |-> dir.made, meta |-> m, h |-> h, v |-> v]
  BY DEF PulledDirs
<1>2. /\ m \in Metas /\ m # "cached"
      /\ dir.meta # "cached" => m = dir.meta
  BY DEF Survives, Dirs, Metas
<1>3. h \in Parts2 /\ h # "cached" /\ (dir.h # "cached" => h = dir.h)
  BY DEF Survives, Dirs, Parts2
<1>4. v \in Parts2 /\ v # "cached" /\ (dir.v # "cached" => v = dir.v)
  BY DEF Survives, Dirs, Parts2
<1>5. QED
  BY <1>1, <1>2, <1>3, <1>4 DEF Dirs

\* A directory with nothing in the page cache comes through as it is.
LEMMA SyncedComesThrough ==
  ASSUME NEW dir \in Dirs
  PROVE  PulledDirs(dir) = {dir} <=> "cached" \notin {dir.meta, dir.h, dir.v}
<1>1. ASSUME "cached" \notin {dir.meta, dir.h, dir.v} PROVE PulledDirs(dir) = {dir}
  <2>1. dir.meta # "part" BY DEF Dirs, Metas
  <2>2. Survives(dir.h) = {dir.h} /\ Survives(dir.v) = {dir.v} /\ Survives(dir.meta) = {dir.meta}
    BY <1>1 DEF Survives
  <2>3. {IF x = "part" THEN "none" ELSE x : x \in Survives(dir.meta)} = {dir.meta}
    BY <2>1, <2>2
  <2>4. dir = [made |-> dir.made, meta |-> dir.meta, h |-> dir.h, v |-> dir.v]
    BY DEF Dirs
  <2>5. QED
    BY <2>2, <2>3, <2>4 DEF PulledDirs
<1>2. ASSUME PulledDirs(dir) = {dir} PROVE "cached" \notin {dir.meta, dir.h, dir.v}
  BY <1>2, PulledDir
<1>3. QED
  BY <1>1, <1>2

\* A table of directories after a pull: each is as it was or is what a pull makes
\* of it; and if only one had unsynced files, none has now.
LEMMA PulledTable ==
  ASSUME NEW table \in [Keys -> Dirs], NEW f \in AfterPull(table)
  PROVE  /\ f \in [Keys -> Dirs]
         /\ \A k \in Keys : f[k] = table[k] \/ f[k] \in PulledDirs(table[k])
<1>1. CASE f = table
  BY <1>1
<1>2. CASE f # table
  <2>1. PICK k0 \in Unsynced(table) : f \in {[table EXCEPT ![k0] = d] : d \in PulledDirs(table[k0])}
    BY <1>2 DEF AfterPull
  <2>0. PICK d0 \in PulledDirs(table[k0]) : f = [table EXCEPT ![k0] = d0]
    BY <2>1
  <2>2. k0 \in Keys /\ d0 \in PulledDirs(table[k0])
    BY <2>1 DEF Unsynced
  <2>3. d0 \in Dirs
    BY <2>2, PulledDir
  <2>4. QED
    BY <2>0, <2>2, <2>3
<1>3. QED
  BY <1>1, <1>2

(* After a pull no directory of the stick holds data that is only in memory. *)
LEMMA PulledTableIsSynced ==
  ASSUME NEW table \in [Keys -> Dirs], NEW f \in AfterPull(table), NEW here,
         \A k \in Keys : "cached" \in {table[k].meta, table[k].h, table[k].v} => k = here
  PROVE  \A k \in Keys : "cached" \notin {f[k].meta, f[k].h, f[k].v}
<1>1. \A k \in Keys : k \in Unsynced(table) <=> "cached" \in {table[k].meta, table[k].h, table[k].v}
  BY SyncedComesThrough DEF Unsynced
<1>2. CASE Unsynced(table) = {}
  BY <1>1, <1>2 DEF AfterPull
<1>3. CASE Unsynced(table) # {}
  <2>1. PICK k0 \in Unsynced(table) : f \in {[table EXCEPT ![k0] = d] : d \in PulledDirs(table[k0])}
    BY <1>3 DEF AfterPull
  <2>0. PICK d0 \in PulledDirs(table[k0]) : f = [table EXCEPT ![k0] = d0]
    BY <2>1
  <2>2. k0 \in Unsynced(table) /\ k0 \in Keys /\ d0 \in PulledDirs(table[k0])
    BY <2>1 DEF Unsynced
  <2>3. k0 = here
    BY <1>1, <2>2
  <2>4. "cached" \notin {d0.meta, d0.h, d0.v}
    BY <2>2, PulledDir
  <2>5. TAKE k \in Keys
  <2>6. CASE k = here
    BY <2>0, <2>2, <2>3, <2>4, <2>6
  <2>7. CASE k # here
    BY <1>1, <2>0, <2>3, <2>7
  <2>8. QED
    BY <2>6, <2>7
<1>4. QED
  BY <1>2, <1>3

\* The step leaves nothing in the page cache but what the store has in hand.
LEMMA HandStays ==
  ASSUME CachedIsInHand, NEW dir \in Dirs, scIn' = scIn,
         \A k \in Keys : scStage'["stick"][k] =
           IF scIn /\ k = scStore.key THEN dir ELSE scStage["stick"][k],
         scIn => /\ "cached" \in {dir.meta, dir.h, dir.v} =>
                      scStore'.pc # "idle" /\ scStore'.key = scStore.key
                 /\ dir.h = "cached" => scStore'.pc \in {"hsync", "undo"}
                 /\ dir.v = "cached" => scStore'.pc \in {"vsync", "undo"}
                 /\ dir.meta = "cached" => scStore'.pc \in {"rename", "undo"}
  PROVE  CachedIsInHand'
<1> SUFFICES ASSUME NEW k \in Keys
             PROVE  LET d == scStage'["stick"][k] IN
                    /\ "cached" \in {d.meta, d.h, d.v} =>
                         scIn' /\ scStore'.pc # "idle" /\ k = scStore'.key
                    /\ d.h = "cached" => scStore'.pc \in {"hsync", "undo"}
                    /\ d.v = "cached" => scStore'.pc \in {"vsync", "undo"}
                    /\ d.meta = "cached" => scStore'.pc \in {"rename", "undo"}
  BY DEF CachedIsInHand
<1>1. CASE scIn /\ k = scStore.key
  BY <1>1
<1>2. CASE ~(scIn /\ k = scStore.key)
  <2>1. "cached" \notin {scStage["stick"][k].meta, scStage["stick"][k].h, scStage["stick"][k].v}
    BY <1>2 DEF CachedIsInHand
  <2>2. QED
    BY <1>2, <2>1
<1>3. QED
  BY <1>1, <1>2

\* What the store has in hand, read from the directory it is filling.
LEMMA StagedInHand ==
  ASSUME ScTypes, CachedIsInHand, scStore.key \in Keys
  PROVE  /\ Staged \in Dirs
         /\ scIn => /\ Staged = scStage["stick"][scStore.key]
                    /\ Staged.h = "cached" => scStore.pc \in {"hsync", "undo"}
                    /\ Staged.v = "cached" => scStore.pc \in {"vsync", "undo"}
                    /\ Staged.meta = "cached" => scStore.pc \in {"rename", "undo"}
BY DEF ScTypes, CachedIsInHand, Staged, Here, FileSystems

\* The step leaves synced, of what the store has in hand, what was to be by then.
LEMMA SyncedStays ==
  ASSUME scStore.key \in Keys, NEW dir, scIn' = scIn, scStore'.key = scStore.key,
         \A k \in Keys : scStage'["stick"][k] =
           IF scIn /\ k = scStore.key THEN dir ELSE scStage["stick"][k],
         ~scBack' /\ scIn =>
           /\ scStore'.pc \in {"v", "vsync", "meta", "rename"} => dir.h = "disk"
           /\ scStore'.pc \in {"meta", "rename"} => dir.v = "disk"
  PROVE  StagedIsSynced'
BY DEF StagedIsSynced

\* A directory is one with a part, or its record, written.
LEMMA FilledIsADir ==
  ASSUME NEW d \in Dirs
  PROVE  /\ [d EXCEPT !["h"] = "cached"] \in Dirs /\ [d EXCEPT !["h"] = "disk"] \in Dirs
         /\ [d EXCEPT !["v"] = "cached"] \in Dirs /\ [d EXCEPT !["v"] = "disk"] \in Dirs
         /\ \A f \in Whole : [d EXCEPT !.meta = f] \in Dirs
<1>1. "cached" \in Parts2 /\ "disk" \in Parts2 /\ Whole \subseteq Metas
  BY DEF Parts2, Metas, Whole
<1>2. QED
  BY <1>1 DEF Dirs

\* A step that writes the staging directory, seen from the stick.
LEMMA StagesIs ==
  ASSUME ScTypes, scStore.key \in Keys, NEW dir \in Dirs, Stages(dir)
  PROVE  /\ scStage' \in [FileSystems -> [Keys -> Dirs]]
         /\ \A k \in Keys : scStage'["stick"][k] =
               IF scIn /\ k = scStore.key THEN dir ELSE scStage["stick"][k]
BY DEF ScTypes, Stages, Here, FileSystems
-----------------------------------------------------------------------------
(* The initial state.                                                       *)
THEOREM ScInitIInv == ScInit => ScIInv
<1> SUFFICES ASSUME ScInit PROVE ScIInv
  OBVIOUS
<1>1. /\ \A k \in Keys : scFinal["stick"][k] = Empty /\ scStage["stick"][k] = Empty
      /\ scStore.pc = "idle"
  BY DEF ScInit, ScIdle, FileSystems
<1>2. ScTypes
  BY EmptyIsADir DEF ScInit, ScTypes, ScIdle, Steps
<1>3. QED
  BY <1>1, <1>2 DEF ScIInv, CachedIsInHand, FinalIsSynced, StagedIsSynced, FinalIsWhole, Empty

(* A step of the separator in a store.  Every step but the first and the last  *)
(* leaves the key, the stick and what came back as they are.                *)
LEMMA StoreKeepsIInv == ScIInv /\ StoreStep => ScIInv'
<1> SUFFICES ASSUME ScIInv, StoreStep PROVE ScIInv'
  OBVIOUS
<1> USE EmptyIsADir DEF ScIInv, At, Moves, ScRest
<1>1. ASSUME NEW t \in ScTracks, StoreBegins(t) PROVE ScIInv'
  <2>1. ScTypes'
    BY <1>1 DEF ScTypes, Steps, StoreBegins, KeyOf, CanKey, Keys
  <2>2. CachedIsInHand'
    BY <1>1 DEF CachedIsInHand, ScTypes, StoreBegins, KeyOf, CanKey, Keys
  <2>3. FinalIsSynced'
    BY <1>1 DEF FinalIsSynced, ScTypes, StoreBegins, KeyOf, CanKey, Keys
  <2>4. StagedIsSynced'
    BY <1>1 DEF StagedIsSynced, ScTypes, StoreBegins, KeyOf, CanKey, Keys
  <2>5. FinalIsWhole'
    BY <1>1 DEF FinalIsWhole, ScTypes, StoreBegins, KeyOf, CanKey, Keys
  <2>6. QED
    BY <2>1, <2>2, <2>3, <2>4, <2>5
<1>2. CASE MakeParent
  <2>1. ScTypes'
    BY <1>2 DEF ScTypes, Steps, MakeParent
  <2>2. CachedIsInHand'
    BY <1>2 DEF CachedIsInHand, ScTypes, MakeParent
  <2>3. FinalIsSynced'
    BY <1>2 DEF FinalIsSynced, ScTypes, MakeParent
  <2>4. StagedIsSynced'
    BY <1>2 DEF StagedIsSynced, ScTypes, MakeParent
  <2>5. FinalIsWhole'
    BY <1>2 DEF FinalIsWhole, ScTypes, MakeParent
  <2>6. QED
    BY <2>1, <2>2, <2>3, <2>4, <2>5
<1>3. CASE MakeStaging
  <2>11. scStore.key \in Keys
    BY <1>3 DEF ScTypes, MakeStaging, Fresh, Empty
  <2>12. Fresh \in Dirs
    BY <1>3, <2>11 DEF MakeStaging
  <2>13. /\ scStage' \in [FileSystems -> [Keys -> Dirs]]
        /\ \A k \in Keys : scStage'["stick"][k] =
              IF scIn /\ k = scStore.key THEN Fresh ELSE scStage["stick"][k]
    BY <1>3, <2>11, <2>12, StagesIs DEF MakeStaging, Fresh, Empty
  <2>1. ScTypes'
    BY <1>3, <2>11, <2>12, <2>13 DEF ScTypes, Steps, MakeStaging, Fresh, Empty
  <2>2. CachedIsInHand'
    BY <1>3, <2>12, <2>13, HandStays DEF MakeStaging, Fresh, Empty
  <2>3. FinalIsSynced'
    BY <1>3, <2>11, <2>12, <2>13 DEF FinalIsSynced, ScTypes, MakeStaging, Fresh, Empty
  <2>4. StagedIsSynced'
    BY <1>3, <2>11, <2>12, <2>13 DEF StagedIsSynced, ScTypes, MakeStaging, Fresh, Empty
  <2>5. FinalIsWhole'
    BY <1>3, <2>11, <2>12, <2>13 DEF FinalIsWhole, ScTypes, MakeStaging, Fresh, Empty
  <2>6. QED
    BY <2>1, <2>2, <2>3, <2>4, <2>5
<1>4. CASE CopyPart("h", "hsync")
  <2>11. scStore.key \in Keys
    BY <1>4 DEF ScTypes, CopyPart
  <2>12. [Staged EXCEPT !["h"] = "cached"] \in Dirs
    BY <2>11, StagedInHand, FilledIsADir
  <2>13. /\ scStage' \in [FileSystems -> [Keys -> Dirs]]
        /\ \A k \in Keys : scStage'["stick"][k] =
              IF scIn /\ k = scStore.key THEN [Staged EXCEPT !["h"] = "cached"] ELSE scStage["stick"][k]
    BY <1>4, <2>11, <2>12, StagesIs DEF CopyPart
  <2>1. ScTypes'
    BY <1>4, <2>11, <2>12, <2>13 DEF ScTypes, Steps, CopyPart, Staged, Here, FileSystems, Dirs
  <2>2. CachedIsInHand'
    <3>1. /\ [Staged EXCEPT !["h"] = "cached"].meta = Staged.meta
          /\ [Staged EXCEPT !["h"] = "cached"].h = "cached"
          /\ [Staged EXCEPT !["h"] = "cached"].v = Staged.v
      BY <2>11, StagedInHand DEF Dirs
    <3>2. scIn => LET d == [Staged EXCEPT !["h"] = "cached"] IN
            /\ "cached" \in {d.meta, d.h, d.v} =>
                 scStore'.pc # "idle" /\ scStore'.key = scStore.key
            /\ d.h = "cached" => scStore'.pc \in {"hsync", "undo"}
            /\ d.v = "cached" => scStore'.pc \in {"vsync", "undo"}
            /\ d.meta = "cached" => scStore'.pc \in {"rename", "undo"}
      BY <1>4, <2>11, <3>1, StagedInHand DEF ScTypes, CopyPart
    <3>3. QED
      BY <1>4, <2>12, <2>13, <3>2, HandStays DEF CopyPart
  <2>3. FinalIsSynced'
    BY <1>4, <2>11, <2>12, <2>13 DEF FinalIsSynced, ScTypes, CopyPart, Staged, Here, FileSystems, Dirs
  <2>4. StagedIsSynced'
    <3>1. [Staged EXCEPT !["h"] = "cached"].h = "cached"
      BY <2>11, StagedInHand DEF Dirs
    <3>2. scStore'.pc = "hsync" /\ scStore'.key = scStore.key
      BY <1>4, <2>11 DEF ScTypes, CopyPart
    <3>3. QED
      BY <1>4, <2>11, <2>13, <3>1, <3>2, SyncedStays DEF CopyPart
  <2>5. FinalIsWhole'
    BY <1>4, <2>11, <2>12, <2>13 DEF FinalIsWhole, ScTypes, CopyPart, Staged, Here, FileSystems, Dirs
  <2>6. QED
    BY <2>1, <2>2, <2>3, <2>4, <2>5
<1>5. CASE SyncPart("h", "hsync", "v")
  <2>11. scStore.key \in Keys
    BY <1>5 DEF ScTypes, SyncPart
  <2>12. [Staged EXCEPT !["h"] = "disk"] \in Dirs
    BY <2>11, StagedInHand, FilledIsADir
  <2>13. /\ scStage' \in [FileSystems -> [Keys -> Dirs]]
        /\ \A k \in Keys : scStage'["stick"][k] =
              IF scIn /\ k = scStore.key THEN [Staged EXCEPT !["h"] = "disk"] ELSE scStage["stick"][k]
    BY <1>5, <2>11, <2>12, StagesIs DEF SyncPart
  <2>1. ScTypes'
    BY <1>5, <2>11, <2>12, <2>13 DEF ScTypes, Steps, SyncPart, Staged, Here, FileSystems, Dirs
  <2>2. CachedIsInHand'
    <3>1. /\ [Staged EXCEPT !["h"] = "disk"].meta = Staged.meta
          /\ [Staged EXCEPT !["h"] = "disk"].h = "disk"
          /\ [Staged EXCEPT !["h"] = "disk"].v = Staged.v
      BY <2>11, StagedInHand DEF Dirs
    <3>2. scIn => LET d == [Staged EXCEPT !["h"] = "disk"] IN
            /\ "cached" \in {d.meta, d.h, d.v} =>
                 scStore'.pc # "idle" /\ scStore'.key = scStore.key
            /\ d.h = "cached" => scStore'.pc \in {"hsync", "undo"}
            /\ d.v = "cached" => scStore'.pc \in {"vsync", "undo"}
            /\ d.meta = "cached" => scStore'.pc \in {"rename", "undo"}
      BY <1>5, <2>11, <3>1, StagedInHand DEF ScTypes, SyncPart
    <3>3. QED
      BY <1>5, <2>12, <2>13, <3>2, HandStays DEF SyncPart
  <2>3. FinalIsSynced'
    BY <1>5, <2>11, <2>12, <2>13 DEF FinalIsSynced, ScTypes, SyncPart, Staged, Here, FileSystems, Dirs
  <2>4. StagedIsSynced'
    <3>1. [Staged EXCEPT !["h"] = "disk"].h = "disk"
      BY <2>11, StagedInHand DEF Dirs
    <3>2. scStore'.pc = "v" /\ scStore'.key = scStore.key
      BY <1>5, <2>11 DEF ScTypes, SyncPart
    <3>3. QED
      BY <1>5, <2>11, <2>13, <3>1, <3>2, SyncedStays DEF SyncPart
  <2>5. FinalIsWhole'
    BY <1>5, <2>11, <2>12, <2>13 DEF FinalIsWhole, ScTypes, SyncPart, Staged, Here, FileSystems, Dirs
  <2>6. QED
    BY <2>1, <2>2, <2>3, <2>4, <2>5
<1>6. CASE CopyPart("v", "vsync")
  <2>11. scStore.key \in Keys
    BY <1>6 DEF ScTypes, CopyPart
  <2>12. [Staged EXCEPT !["v"] = "cached"] \in Dirs
    BY <2>11, StagedInHand, FilledIsADir
  <2>13. /\ scStage' \in [FileSystems -> [Keys -> Dirs]]
        /\ \A k \in Keys : scStage'["stick"][k] =
              IF scIn /\ k = scStore.key THEN [Staged EXCEPT !["v"] = "cached"] ELSE scStage["stick"][k]
    BY <1>6, <2>11, <2>12, StagesIs DEF CopyPart
  <2>1. ScTypes'
    BY <1>6, <2>11, <2>12, <2>13 DEF ScTypes, Steps, CopyPart, Staged, Here, FileSystems, Dirs
  <2>2. CachedIsInHand'
    <3>1. /\ [Staged EXCEPT !["v"] = "cached"].meta = Staged.meta
          /\ [Staged EXCEPT !["v"] = "cached"].h = Staged.h
          /\ [Staged EXCEPT !["v"] = "cached"].v = "cached"
      BY <2>11, StagedInHand DEF Dirs
    <3>2. scIn => LET d == [Staged EXCEPT !["v"] = "cached"] IN
            /\ "cached" \in {d.meta, d.h, d.v} =>
                 scStore'.pc # "idle" /\ scStore'.key = scStore.key
            /\ d.h = "cached" => scStore'.pc \in {"hsync", "undo"}
            /\ d.v = "cached" => scStore'.pc \in {"vsync", "undo"}
            /\ d.meta = "cached" => scStore'.pc \in {"rename", "undo"}
      BY <1>6, <2>11, <3>1, StagedInHand DEF ScTypes, CopyPart
    <3>3. QED
      BY <1>6, <2>12, <2>13, <3>2, HandStays DEF CopyPart
  <2>3. FinalIsSynced'
    BY <1>6, <2>11, <2>12, <2>13 DEF FinalIsSynced, ScTypes, CopyPart, Staged, Here, FileSystems, Dirs
  <2>4. StagedIsSynced'
    <3>1. /\ [Staged EXCEPT !["v"] = "cached"].h = Staged.h
          /\ [Staged EXCEPT !["v"] = "cached"].v = "cached"
      BY <2>11, StagedInHand DEF Dirs
    <3>2. scStore'.pc = "vsync" /\ scStore'.key = scStore.key
      BY <1>6, <2>11 DEF ScTypes, CopyPart
    <3>3. scIn => Staged = scStage["stick"][scStore.key]
      BY <2>11, StagedInHand
    <3>4. ~scBack /\ scIn => Staged.h = "disk"
      BY <1>6, <3>3 DEF StagedIsSynced, CopyPart
    <3>5. scIn' = scIn /\ scBack' = scBack
      BY <1>6 DEF CopyPart
    <3>6. ~scBack' /\ scIn =>
            /\ scStore'.pc \in {"v", "vsync", "meta", "rename"} => [Staged EXCEPT !["v"] = "cached"].h = "disk"
            /\ scStore'.pc \in {"meta", "rename"} => [Staged EXCEPT !["v"] = "cached"].v = "disk"
      BY <3>1, <3>2, <3>4, <3>5
    <3>7. QED
      BY <2>11, <2>12, <2>13, <3>2, <3>5, <3>6, SyncedStays
  <2>5. FinalIsWhole'
    BY <1>6, <2>11, <2>12, <2>13 DEF FinalIsWhole, ScTypes, CopyPart, Staged, Here, FileSystems, Dirs
  <2>6. QED
    BY <2>1, <2>2, <2>3, <2>4, <2>5
<1>7. CASE SyncPart("v", "vsync", "meta")
  <2>11. scStore.key \in Keys
    BY <1>7 DEF ScTypes, SyncPart
  <2>12. [Staged EXCEPT !["v"] = "disk"] \in Dirs
    BY <2>11, StagedInHand, FilledIsADir
  <2>13. /\ scStage' \in [FileSystems -> [Keys -> Dirs]]
        /\ \A k \in Keys : scStage'["stick"][k] =
              IF scIn /\ k = scStore.key THEN [Staged EXCEPT !["v"] = "disk"] ELSE scStage["stick"][k]
    BY <1>7, <2>11, <2>12, StagesIs DEF SyncPart
  <2>1. ScTypes'
    BY <1>7, <2>11, <2>12, <2>13 DEF ScTypes, Steps, SyncPart, Staged, Here, FileSystems, Dirs
  <2>2. CachedIsInHand'
    <3>1. /\ [Staged EXCEPT !["v"] = "disk"].meta = Staged.meta
          /\ [Staged EXCEPT !["v"] = "disk"].h = Staged.h
          /\ [Staged EXCEPT !["v"] = "disk"].v = "disk"
      BY <2>11, StagedInHand DEF Dirs
    <3>2. scIn => LET d == [Staged EXCEPT !["v"] = "disk"] IN
            /\ "cached" \in {d.meta, d.h, d.v} =>
                 scStore'.pc # "idle" /\ scStore'.key = scStore.key
            /\ d.h = "cached" => scStore'.pc \in {"hsync", "undo"}
            /\ d.v = "cached" => scStore'.pc \in {"vsync", "undo"}
            /\ d.meta = "cached" => scStore'.pc \in {"rename", "undo"}
      BY <1>7, <2>11, <3>1, StagedInHand DEF ScTypes, SyncPart
    <3>3. QED
      BY <1>7, <2>12, <2>13, <3>2, HandStays DEF SyncPart
  <2>3. FinalIsSynced'
    BY <1>7, <2>11, <2>12, <2>13 DEF FinalIsSynced, ScTypes, SyncPart, Staged, Here, FileSystems, Dirs
  <2>4. StagedIsSynced'
    <3>1. /\ [Staged EXCEPT !["v"] = "disk"].h = Staged.h
          /\ [Staged EXCEPT !["v"] = "disk"].v = "disk"
      BY <2>11, StagedInHand DEF Dirs
    <3>2. scStore'.pc = "meta" /\ scStore'.key = scStore.key
      BY <1>7, <2>11 DEF ScTypes, SyncPart
    <3>3. scIn => Staged = scStage["stick"][scStore.key]
      BY <2>11, StagedInHand
    <3>4. ~scBack /\ scIn => Staged.h = "disk"
      BY <1>7, <3>3 DEF StagedIsSynced, SyncPart
    <3>5. scIn' = scIn /\ scBack' = scBack
      BY <1>7 DEF SyncPart
    <3>6. ~scBack' /\ scIn =>
            /\ scStore'.pc \in {"v", "vsync", "meta", "rename"} => [Staged EXCEPT !["v"] = "disk"].h = "disk"
            /\ scStore'.pc \in {"meta", "rename"} => [Staged EXCEPT !["v"] = "disk"].v = "disk"
      BY <3>1, <3>2, <3>4, <3>5
    <3>7. QED
      BY <2>11, <2>12, <2>13, <3>2, <3>5, <3>6, SyncedStays
  <2>5. FinalIsWhole'
    BY <1>7, <2>11, <2>12, <2>13 DEF FinalIsWhole, ScTypes, SyncPart, Staged, Here, FileSystems, Dirs
  <2>6. QED
    BY <2>1, <2>2, <2>3, <2>4, <2>5
<1>8. ASSUME NEW f \in Whole, At("meta"), Staged.made, Stages([Staged EXCEPT !.meta = f]),
             Moves("rename"), UNCHANGED scFinal, ScRest
      PROVE  ScIInv'
  <2>11. scStore.key \in Keys
    BY <1>8 DEF ScTypes, Whole
  <2>12. [Staged EXCEPT !.meta = f] \in Dirs
    BY <2>11, <1>8, StagedInHand, FilledIsADir
  <2>13. /\ scStage' \in [FileSystems -> [Keys -> Dirs]]
        /\ \A k \in Keys : scStage'["stick"][k] =
              IF scIn /\ k = scStore.key THEN [Staged EXCEPT !.meta = f] ELSE scStage["stick"][k]
    BY <1>8, <2>11, <2>12, StagesIs DEF Whole
  <2>1. ScTypes'
    BY <1>8, <2>11, <2>12, <2>13 DEF ScTypes, Steps, Whole, Staged, Here, FileSystems, Dirs
  <2>2. CachedIsInHand'
    <3>1. /\ [Staged EXCEPT !.meta = f].meta = f
          /\ [Staged EXCEPT !.meta = f].h = Staged.h
          /\ [Staged EXCEPT !.meta = f].v = Staged.v
      BY <2>11, StagedInHand DEF Dirs
    <3>2. scIn => LET d == [Staged EXCEPT !.meta = f] IN
            /\ "cached" \in {d.meta, d.h, d.v} =>
                 scStore'.pc # "idle" /\ scStore'.key = scStore.key
            /\ d.h = "cached" => scStore'.pc \in {"hsync", "undo"}
            /\ d.v = "cached" => scStore'.pc \in {"vsync", "undo"}
            /\ d.meta = "cached" => scStore'.pc \in {"rename", "undo"}
      BY <1>8, <2>11, <3>1, StagedInHand DEF ScTypes, Whole
    <3>3. QED
      BY <1>8, <2>12, <2>13, <3>2, HandStays DEF Whole
  <2>3. FinalIsSynced'
    BY <1>8, <2>11, <2>12, <2>13 DEF FinalIsSynced, ScTypes, Whole, Staged, Here, FileSystems, Dirs
  <2>4. StagedIsSynced'
    <3>1. /\ [Staged EXCEPT !.meta = f].h = Staged.h
          /\ [Staged EXCEPT !.meta = f].v = Staged.v
      BY <2>11, StagedInHand DEF Dirs
    <3>2. scStore'.pc = "rename" /\ scStore'.key = scStore.key
      BY <1>8, <2>11 DEF ScTypes, Whole
    <3>3. scIn => Staged = scStage["stick"][scStore.key]
      BY <2>11, StagedInHand
    <3>4. ~scBack /\ scIn => Staged.h = "disk" /\ Staged.v = "disk"
      BY <1>8, <3>3 DEF StagedIsSynced, Whole
    <3>5. scIn' = scIn /\ scBack' = scBack
      BY <1>8 DEF Whole
    <3>6. ~scBack' /\ scIn =>
            /\ scStore'.pc \in {"v", "vsync", "meta", "rename"} => [Staged EXCEPT !.meta = f].h = "disk"
            /\ scStore'.pc \in {"meta", "rename"} => [Staged EXCEPT !.meta = f].v = "disk"
      BY <3>1, <3>2, <3>4, <3>5
    <3>7. QED
      BY <2>11, <2>12, <2>13, <3>2, <3>5, <3>6, SyncedStays
  <2>5. FinalIsWhole'
    BY <1>8, <2>11, <2>12, <2>13 DEF FinalIsWhole, ScTypes, Whole, Staged, Here, FileSystems, Dirs
  <2>6. QED
    BY <2>1, <2>2, <2>3, <2>4, <2>5
<1>9. CASE RenameEntry
  <2>11. scStore.key \in Keys
    BY <1>9 DEF ScTypes, RenameEntry, Empty, Staged, Here, FileSystems
  <2>12. Empty \in Dirs
    BY <1>9, <2>11 DEF RenameEntry
  <2>13. /\ scStage' \in [FileSystems -> [Keys -> Dirs]]
        /\ \A k \in Keys : scStage'["stick"][k] =
              IF scIn /\ k = scStore.key THEN Empty ELSE scStage["stick"][k]
    BY <1>9, <2>11, <2>12, StagesIs DEF RenameEntry, Empty, Staged, Here, FileSystems
  <2>1. ScTypes'
    <3>1. scStore' = [scStore EXCEPT !.pc = "idle"] /\ UNCHANGED <<scIn, scBack, scId>>
      BY <1>9 DEF RenameEntry
    <3>2. Staged \in Dirs /\ Here \in FileSystems
      BY <2>11, StagedInHand DEF Here, FileSystems
    <3>3. scFinal' \in [FileSystems -> [Keys -> Dirs]]
      BY <1>9, <2>11, <3>2 DEF ScTypes, RenameEntry
    <3>4. scStore' \in [pc : Steps, key : Keys \cup {NoKey}] /\ scStore'.pc = "idle"
      BY <3>1 DEF ScTypes, Steps
    <3>5. QED
      BY <2>13, <3>1, <3>3, <3>4 DEF ScTypes
  <2>2. CachedIsInHand'
    BY <1>9, <2>12, <2>13, HandStays DEF RenameEntry, Empty
  <2>3. FinalIsSynced'
    BY <1>9, <2>11, <2>12, <2>13 DEF FinalIsSynced, ScTypes, CachedIsInHand, StagedIsSynced, RenameEntry, Empty, Staged, Here, FileSystems
  <2>4. StagedIsSynced'
    BY <1>9, <2>11, <2>12, <2>13 DEF StagedIsSynced, ScTypes, RenameEntry, Empty, Staged, Here, FileSystems
  <2>5. FinalIsWhole'
    BY <1>9, <2>11, <2>12, <2>13 DEF FinalIsWhole, ScTypes, CachedIsInHand, StagedIsSynced, RenameEntry, Empty, Staged, Here, FileSystems
  <2>6. QED
    BY <2>1, <2>2, <2>3, <2>4, <2>5
<1>10. CASE RenameRefused
  <2>1. ScTypes'
    BY <1>10 DEF ScTypes, Steps, RenameRefused
  <2>2. CachedIsInHand'
    BY <1>10 DEF CachedIsInHand, ScTypes, RenameRefused
  <2>3. FinalIsSynced'
    BY <1>10 DEF FinalIsSynced, ScTypes, RenameRefused
  <2>4. StagedIsSynced'
    BY <1>10 DEF StagedIsSynced, ScTypes, RenameRefused
  <2>5. FinalIsWhole'
    BY <1>10 DEF FinalIsWhole, ScTypes, RenameRefused
  <2>6. QED
    BY <2>1, <2>2, <2>3, <2>4, <2>5
<1>11. CASE StoreFails
  <2>1. ScTypes'
    BY <1>11 DEF ScTypes, Steps, StoreFails
  <2>2. CachedIsInHand'
    BY <1>11 DEF CachedIsInHand, ScTypes, StoreFails
  <2>3. FinalIsSynced'
    BY <1>11 DEF FinalIsSynced, ScTypes, StoreFails
  <2>4. StagedIsSynced'
    BY <1>11 DEF StagedIsSynced, ScTypes, StoreFails
  <2>5. FinalIsWhole'
    BY <1>11 DEF FinalIsWhole, ScTypes, StoreFails
  <2>6. QED
    BY <2>1, <2>2, <2>3, <2>4, <2>5
<1>12. CASE MkdirFails
  <2>1. ScTypes'
    BY <1>12 DEF ScTypes, Steps, MkdirFails, ScIdle
  <2>2. CachedIsInHand'
    BY <1>12 DEF CachedIsInHand, ScTypes, MkdirFails, ScIdle
  <2>3. FinalIsSynced'
    BY <1>12 DEF FinalIsSynced, ScTypes, MkdirFails, ScIdle
  <2>4. StagedIsSynced'
    BY <1>12 DEF StagedIsSynced, ScTypes, MkdirFails, ScIdle
  <2>5. FinalIsWhole'
    BY <1>12 DEF FinalIsWhole, ScTypes, MkdirFails, ScIdle
  <2>6. QED
    BY <2>1, <2>2, <2>3, <2>4, <2>5
<1>13. CASE UndoStaging
  <2>11. scStore.key \in Keys
    BY <1>13 DEF ScTypes, UndoStaging, ScIdle, Empty
  <2>12. Empty \in Dirs
    BY <1>13, <2>11 DEF UndoStaging
  <2>13. /\ scStage' \in [FileSystems -> [Keys -> Dirs]]
        /\ \A k \in Keys : scStage'["stick"][k] =
              IF scIn /\ k = scStore.key THEN Empty ELSE scStage["stick"][k]
    BY <1>13, <2>11, <2>12, StagesIs DEF UndoStaging, ScIdle, Empty
  <2>1. ScTypes'
    BY <1>13, <2>11, <2>12, <2>13 DEF ScTypes, Steps, UndoStaging, ScIdle, Empty
  <2>2. CachedIsInHand'
    BY <1>13, <2>12, <2>13, HandStays DEF UndoStaging, Empty
  <2>3. FinalIsSynced'
    BY <1>13, <2>11, <2>12, <2>13 DEF FinalIsSynced, ScTypes, UndoStaging, ScIdle, Empty
  <2>4. StagedIsSynced'
    BY <1>13, <2>11, <2>12, <2>13 DEF StagedIsSynced, ScTypes, UndoStaging, ScIdle, Empty
  <2>5. FinalIsWhole'
    BY <1>13, <2>11, <2>12, <2>13 DEF FinalIsWhole, ScTypes, UndoStaging, ScIdle, Empty
  <2>6. QED
    BY <2>1, <2>2, <2>3, <2>4, <2>5
<1>14. QED
  BY <1>1, <1>2, <1>3, <1>4, <1>5, <1>6, <1>7, <1>8, <1>9, <1>10, <1>11, <1>12, <1>13
     DEF StoreStep, Copies, WriteMeta

(* A step of the store, of the loader, of the DJ or of the deck.            *)
THEOREM ScStepKeepsIInv == ScIInv /\ [ScNext]_scVars => ScIInv'
<1> SUFFICES ASSUME ScIInv, [ScNext]_scVars PROVE ScIInv'
  OBVIOUS
<1> USE EmptyIsADir DEF ScIInv, At
<1>1. CASE StoreStep
  BY <1>1, StoreKeepsIInv
<1>2. ASSUME NEW t \in ScTracks, Lookup(t) PROVE ScIInv'
  <2>1. ScTypes'
    BY <1>2 DEF ScTypes, Steps, Lookup
  <2>2. CachedIsInHand'
    BY <1>2 DEF CachedIsInHand, ScTypes, Lookup
  <2>3. FinalIsSynced'
    BY <1>2 DEF FinalIsSynced, ScTypes, Lookup
  <2>4. StagedIsSynced'
    BY <1>2 DEF StagedIsSynced, ScTypes, Lookup
  <2>5. FinalIsWhole'
    BY <1>2 DEF FinalIsWhole, ScTypes, Lookup
  <2>6. QED
    BY <2>1, <2>2, <2>3, <2>4, <2>5
<1>3. CASE DecodeEnds
  <2>1. ScTypes'
    BY <1>3 DEF ScTypes, Steps, DecodeEnds
  <2>2. CachedIsInHand'
    BY <1>3 DEF CachedIsInHand, ScTypes, DecodeEnds
  <2>3. FinalIsSynced'
    BY <1>3 DEF FinalIsSynced, ScTypes, DecodeEnds
  <2>4. StagedIsSynced'
    BY <1>3 DEF StagedIsSynced, ScTypes, DecodeEnds
  <2>5. FinalIsWhole'
    BY <1>3 DEF FinalIsWhole, ScTypes, DecodeEnds
  <2>6. QED
    BY <2>1, <2>2, <2>3, <2>4, <2>5
<1>4. CASE Pull
  <2>1. PICK f \in AfterPull(scFinal["stick"]), s \in AfterPull(scStage["stick"]) :
          /\ scFinal' = [scFinal EXCEPT !["stick"] = f]
          /\ scStage' = [scStage EXCEPT !["stick"] = s]
    BY <1>4 DEF Pull
  <2>2. /\ scFinal["stick"] \in [Keys -> Dirs] /\ scStage["stick"] \in [Keys -> Dirs]
        /\ scIn' = FALSE /\ UNCHANGED <<scId, scStore, scLook, scBack>>
    BY <1>4 DEF ScTypes, FileSystems, Pull
  <2>3. f \in [Keys -> Dirs] /\ s \in [Keys -> Dirs]
    BY <2>1, <2>2, PulledTable
  <2>4. \A k \in Keys : f[k].h = scFinal["stick"][k].h /\ f[k].v = scFinal["stick"][k].v
    BY <2>1, <2>2, PulledTable, PulledDir DEF FinalIsSynced
  <2>5. \A k \in Keys : "cached" \notin {s[k].meta, s[k].h, s[k].v}
    <3> DEFINE table == scStage["stick"]
               here == scStore.key
    <3>1. \A k \in Keys : "cached" \in {table[k].meta, table[k].h, table[k].v} => k = here
      BY DEF CachedIsInHand
    <3>2. table \in [Keys -> Dirs] /\ s \in AfterPull(table)
      BY <2>1, <2>2
    <3>3. QED
      <4> HIDE DEF table, here
      <4>1. QED
        BY <3>1, <3>2, PulledTableIsSynced
  <2>6. scFinal'["stick"] = f /\ scStage'["stick"] = s
    BY <2>1 DEF ScTypes, FileSystems
  <2>7. ScTypes'
    BY <2>1, <2>2, <2>3 DEF ScTypes, FileSystems
  <2>8. CachedIsInHand'
    BY <2>5, <2>6 DEF CachedIsInHand
  <2>9. FinalIsSynced' /\ FinalIsWhole'
    BY <2>2, <2>4, <2>6 DEF FinalIsSynced, FinalIsWhole
  <2>10. StagedIsSynced'
    BY <2>2 DEF StagedIsSynced
  <2>11. QED
    BY <2>7, <2>8, <2>9, <2>10
<1>5. CASE Insert
  <2>1. ScTypes'
    BY <1>5 DEF ScTypes, Steps, Insert
  <2>2. CachedIsInHand'
    BY <1>5 DEF CachedIsInHand, ScTypes, Insert
  <2>3. FinalIsSynced'
    BY <1>5 DEF FinalIsSynced, ScTypes, Insert
  <2>4. StagedIsSynced'
    BY <1>5 DEF StagedIsSynced, ScTypes, CachedIsInHand, Insert
  <2>5. FinalIsWhole'
    BY <1>5 DEF FinalIsWhole, ScTypes, Insert
  <2>6. QED
    BY <2>1, <2>2, <2>3, <2>4, <2>5
<1>6. CASE PowerCut
  <2>1. PICK f \in AfterPull(scFinal["stick"]) : scFinal' = [scFinal EXCEPT !["stick"] = f]
    BY <1>6 DEF PowerCut
  <2>2. /\ scFinal["stick"] \in [Keys -> Dirs]
        /\ scStage' = [fs \in FileSystems |-> [k \in Keys |-> Empty]]
        /\ scStore' = ScIdle /\ UNCHANGED <<scIn, scId, scBack>>
    BY <1>6 DEF ScTypes, FileSystems, PowerCut
  <2>3. f \in [Keys -> Dirs]
    BY <2>1, <2>2, PulledTable
  <2>4. \A k \in Keys : f[k].h = scFinal["stick"][k].h /\ f[k].v = scFinal["stick"][k].v
    BY <2>1, <2>2, PulledTable, PulledDir DEF FinalIsSynced
  <2>5. scFinal'["stick"] = f /\ \A k \in Keys : scStage'["stick"][k] = Empty
    BY <2>1, <2>2 DEF ScTypes, FileSystems
  <2>6. ScTypes'
    BY <2>1, <2>2, <2>3 DEF ScTypes, FileSystems, ScIdle, Steps
  <2>7. CachedIsInHand'
    BY <2>5 DEF CachedIsInHand, Empty
  <2>8. FinalIsSynced' /\ FinalIsWhole'
    BY <2>2, <2>4, <2>5 DEF FinalIsSynced, FinalIsWhole
  <2>9. StagedIsSynced'
    BY <2>2 DEF StagedIsSynced, ScIdle
  <2>10. QED
    BY <2>6, <2>7, <2>8, <2>9
<1>7. CASE ScArrives
  <2>1. PICK k0 \in Keys, d \in {[made |-> TRUE, meta |-> "old", h |-> "disk", v |-> "disk"],
                                 [made |-> TRUE, meta |-> "disk", h |-> "bad", v |-> "disk"]} :
          /\ scFinal["stick"][k0] = Empty
          /\ scFinal' = [scFinal EXCEPT !["stick"][k0] = d]
    BY <1>7 DEF ScArrives
  <2>2. d \in Dirs /\ d.h \in {"disk", "bad"} /\ d.v = "disk"
    <3>1. CASE d = [made |-> TRUE, meta |-> "old", h |-> "disk", v |-> "disk"]
      BY <3>1 DEF Dirs, Metas, Parts2
    <3>2. CASE d = [made |-> TRUE, meta |-> "disk", h |-> "bad", v |-> "disk"]
      BY <3>2 DEF Dirs, Metas, Parts2
    <3>3. QED
      BY <2>1, <3>1, <3>2
  <2>3. \A k \in Keys : scFinal'["stick"][k] = IF k = k0 THEN d ELSE scFinal["stick"][k]
    BY <2>1 DEF ScTypes, FileSystems
  <2>4. UNCHANGED <<scIn, scStage, scId, scStore, scLook, scBack>>
    BY <1>7 DEF ScArrives
  <2>5. ScTypes'
    BY <2>1, <2>2, <2>4 DEF ScTypes, FileSystems
  <2>6. CachedIsInHand' /\ StagedIsSynced'
    BY <2>4 DEF CachedIsInHand, StagedIsSynced
  <2>7. FinalIsSynced' /\ FinalIsWhole'
    BY <2>2, <2>3, <2>4 DEF FinalIsSynced, FinalIsWhole
  <2>8. QED
    BY <2>5, <2>6, <2>7
<1>8. ASSUME NEW id \in ScIds, Learn(id) PROVE ScIInv'
  <2>1. ScTypes'
    BY <1>8 DEF ScTypes, Steps, Learn
  <2>2. CachedIsInHand'
    BY <1>8 DEF CachedIsInHand, ScTypes, Learn
  <2>3. FinalIsSynced'
    BY <1>8 DEF FinalIsSynced, ScTypes, Learn
  <2>4. StagedIsSynced'
    BY <1>8 DEF StagedIsSynced, ScTypes, Learn
  <2>5. FinalIsWhole'
    BY <1>8 DEF FinalIsWhole, ScTypes, Learn
  <2>6. QED
    BY <2>1, <2>2, <2>3, <2>4, <2>5
<1>9. CASE UNCHANGED scVars
  <2>1. ScTypes'
    BY <1>9 DEF ScTypes, Steps, scVars
  <2>2. CachedIsInHand'
    BY <1>9 DEF CachedIsInHand, ScTypes, scVars
  <2>3. FinalIsSynced'
    BY <1>9 DEF FinalIsSynced, ScTypes, scVars
  <2>4. StagedIsSynced'
    BY <1>9 DEF StagedIsSynced, ScTypes, scVars
  <2>5. FinalIsWhole'
    BY <1>9 DEF FinalIsWhole, ScTypes, scVars
  <2>6. QED
    BY <2>1, <2>2, <2>3, <2>4, <2>5
<1>10. QED
  BY <1>1, <1>2, <1>3, <1>4, <1>5, <1>6, <1>7, <1>8, <1>9 DEF ScNext

-----------------------------------------------------------------------------
(* An entry a lookup accepts has both its parts whole, whatever is pulled or   *)
(* cut in the middle of a store (cache.c:609-611, 693-697), as long as no stick *)
(* came back while one was in hand.                                          *)
THEOREM EntriesAreWhole == ScSpec => []NoTornEntry
<1>1. ScIInv => NoTornEntry
  BY DEF ScIInv, FinalIsWhole, NoTornEntry
<1>2. QED
  BY <1>1, ScInitIInv, ScStepKeepsIInv, PTL DEF ScSpec

(* A store renames its entry onto nothing or onto an empty directory only, and  *)
(* what is on the medium comes through a pull: an entry that is acceptable and  *)
(* synced stays acceptable (cache.c:721-742).                               *)
LEMMA EntryComesThrough ==
  ASSUME ScIInv, [ScNext]_scVars, NEW k \in Keys,
         Accepts(scFinal["stick"][k]), scFinal["stick"][k].meta = "disk"
  PROVE  scFinal'["stick"][k] = scFinal["stick"][k]
<1> USE DEF ScIInv
<1>1. scFinal["stick"][k] \notin {Empty, Fresh}
  BY DEF Accepts, Whole, Empty, Fresh
<1>2. /\ scFinal["stick"] \in [Keys -> Dirs] /\ scFinal["stick"][k] \in Dirs
      /\ "cached" \notin {scFinal["stick"][k].meta, scFinal["stick"][k].h, scFinal["stick"][k].v}
  BY DEF ScTypes, FileSystems, FinalIsSynced
<1>3. ASSUME NEW f \in AfterPull(scFinal["stick"]), scFinal' = [scFinal EXCEPT !["stick"] = f]
      PROVE  scFinal'["stick"][k] = scFinal["stick"][k]
  <2>1. scFinal'["stick"] = f
    BY <1>3 DEF ScTypes, FileSystems
  <2>2. PulledDirs(scFinal["stick"][k]) = {scFinal["stick"][k]}
    BY <1>2, SyncedComesThrough
  <2>3. f[k] = scFinal["stick"][k] \/ f[k] \in PulledDirs(scFinal["stick"][k])
    BY <1>2, PulledTable
  <2>4. QED
    BY <2>1, <2>2, <2>3
<1>4. CASE RenameEntry
  BY <1>1, <1>4 DEF RenameEntry, ScTypes, FileSystems, Here
<1>5. CASE Pull \/ PowerCut
  <2>1. \E f \in AfterPull(scFinal["stick"]) : scFinal' = [scFinal EXCEPT !["stick"] = f]
    BY <1>5 DEF Pull, PowerCut
  <2>2. QED
    BY <1>3, <2>1
<1>6. CASE ScArrives
  <2>1. PICK k0 \in Keys :
        /\ scFinal["stick"][k0] = Empty
        /\ \E d : scFinal' = [scFinal EXCEPT !["stick"][k0] = d]
    BY <1>6 DEF ScArrives
  <2>2. k # k0
    BY <1>1, <2>1
  <2>3. QED
    BY <1>2, <2>1, <2>2 DEF ScTypes, FileSystems
<1>7. CASE StoreStep /\ ~RenameEntry
  BY <1>7 DEF StoreStep, StoreBegins, MakeParent, MakeStaging, Copies, CopyPart, SyncPart, WriteMeta,
     RenameRefused, StoreFails, MkdirFails, UndoStaging
<1>8. ASSUME NEW t \in ScTracks, Lookup(t) PROVE scFinal' = scFinal
  BY <1>8 DEF Lookup
<1>9. ASSUME NEW id \in ScIds, Learn(id) PROVE scFinal' = scFinal
  BY <1>9 DEF Learn
<1>10. CASE DecodeEnds \/ Insert \/ UNCHANGED scVars
  BY <1>10 DEF DecodeEnds, Insert, scVars
<1>11. QED
  BY <1>4, <1>5, <1>6, <1>7, <1>8, <1>9, <1>10 DEF ScNext

(* An entry whose files are on the medium stays acceptable to a lookup through every later store,
   failure, pull and restart (cache.c:661-741). *)
THEOREM EntriesAreKept == ScSpec => EntryIsKept
<1>1. ScIInv /\ [ScNext]_scVars =>
        \A k \in Keys : LET d == scFinal["stick"][k] IN
          Accepts(d) /\ d.meta = "disk" => Accepts(scFinal'["stick"][k])
  BY EntryComesThrough
<1>2. QED
  BY <1>1, ScInitIInv, ScStepKeepsIInv, PTL DEF ScSpec, EntryIsKept

-----------------------------------------------------------------------------
(* Offline stems.                                                          *)
Users == [at : {"idle", "in", "mix", "write"}, sel : SUBSET Full, set : Nat,
          source : PsTracks \cup {NoTrack}]
PsTypes ==
  /\ psGen \in Nat \ {0} /\ psSet \in Nat /\ psDead \subseteq Nat \ {0}
  /\ psWork \in [at : {"idle", "retire", "load"}, gen : Nat, seen : Nat, old : Nat]
  /\ psAudio \in Users /\ psPaint \in Users
  /\ psSource \in PsTracks \cup {NoTrack} /\ psSel \subseteq Full

\* Nothing loaded, freed or being freed is of a generation the worker has not seen.
FreedAreOlder ==
  /\ psWork.seen <= psGen /\ psSet <= psWork.seen
  /\ \A d \in psDead \cup {psWork.old} : d <= psWork.seen
  /\ psWork.at = "load" => psWork.gen = psWork.seen /\ psWork.gen \notin psDead /\ psWork.gen # 0
  /\ psWork.at = "retire" => psWork.seen < psGen

\* While the worker waits for the users, and while it loads, no set is in reach.
UnlinkedFirst ==
  /\ psWork.at # "idle" => psSet = NoSet
  /\ psSet \notin psDead

IdleHoldsNothing ==
  /\ psAudio.at = "idle" => psAudio.set = NoSet
  /\ psPaint.at = "idle" => psPaint.set = NoSet

PsIInv ==
  /\ PsTypes /\ FreedAreOlder /\ UnlinkedFirst /\ IdleHoldsNothing
  /\ PairIsOfTheTrack
-----------------------------------------------------------------------------
(* The initial state.                                                       *)
THEOREM PsInitIInv == PsInit => PsIInv
BY PsAssumption DEF PsInit, PsIInv, PsTypes, Users, FreedAreOlder, UnlinkedFirst, IdleHoldsNothing,
   PairIsOfTheTrack, PsViewIsAlive, SelectionDiesWithItsTrack, RoutedIsItsOwn, PsIdle, NoSet

(* A step of the message thread, the worker, the audio thread or the         *)
(* waveform worker.                                                         *)
THEOREM PsStepKeepsIInv == PsIInv /\ [PsNext]_psVars => PsIInv'
<1> SUFFICES ASSUME PsIInv, [PsNext]_psVars PROVE PsIInv'
  OBVIOUS
<1> USE DEF Users
<1>1. CASE PsTick
  <2>1. PsTypes'
    BY <1>1 DEF PsIInv, PsTypes, PsTick
  <2>2. FreedAreOlder'
    BY <1>1 DEF PsIInv, PsTypes, FreedAreOlder, PsTick
  <2>3. UnlinkedFirst'
    BY <1>1 DEF PsIInv, PsTypes, UnlinkedFirst, PsTick
  <2>4. IdleHoldsNothing'
    BY <1>1 DEF PsIInv, PsTypes, IdleHoldsNothing, PsTick
  <2>5. PairIsOfTheTrack'
    BY <1>1 DEF PsIInv, PsTypes, PairIsOfTheTrack, PsViewIsAlive, SelectionDiesWithItsTrack, RoutedIsItsOwn, PsTick
  <2>6. QED
    BY <2>1, <2>2, <2>3, <2>4, <2>5 DEF PsIInv
<1>2. ASSUME NEW row \in {"stems", "pre"}, PsSettings(row) PROVE PsIInv'
  <2>1. PsTypes'
    BY <1>2 DEF PsIInv, PsTypes, PsSettings
  <2>2. FreedAreOlder'
    BY <1>2 DEF PsIInv, PsTypes, FreedAreOlder, PsSettings
  <2>3. UnlinkedFirst'
    BY <1>2 DEF PsIInv, PsTypes, UnlinkedFirst, PsSettings
  <2>4. IdleHoldsNothing'
    BY <1>2 DEF PsIInv, PsTypes, IdleHoldsNothing, PsSettings
  <2>5. PairIsOfTheTrack'
    BY <1>2 DEF PsIInv, PsTypes, PairIsOfTheTrack, PsViewIsAlive, SelectionDiesWithItsTrack, RoutedIsItsOwn, PsSettings
  <2>6. QED
    BY <2>1, <2>2, <2>3, <2>4, <2>5 DEF PsIInv
<1>3. ASSUME NEW part \in Full, PsTap(part) PROVE PsIInv'
  <2>1. PsTypes'
    BY <1>3 DEF PsIInv, PsTypes, PsTap
  <2>2. FreedAreOlder'
    BY <1>3 DEF PsIInv, FreedAreOlder, PsTap
  <2>3. UnlinkedFirst'
    BY <1>3 DEF PsIInv, PsTypes, UnlinkedFirst, PsTap
  <2>4. IdleHoldsNothing'
    BY <1>3 DEF PsIInv, PsTypes, IdleHoldsNothing, PsTap
  <2>5. PairIsOfTheTrack'
    BY <1>3 DEF PsIInv, PsTypes, PairIsOfTheTrack, PsViewIsAlive, SelectionDiesWithItsTrack, RoutedIsItsOwn, PsTap
  <2>6. QED
    BY <2>1, <2>2, <2>3, <2>4, <2>5 DEF PsIInv
<1>4. ASSUME NEW t \in PsTracks, PsLoads(t) PROVE PsIInv'
  <2>1. PsTypes'
    BY <1>4 DEF PsIInv, PsTypes, PsLoads
  <2>2. FreedAreOlder'
    BY <1>4 DEF PsIInv, FreedAreOlder, PsLoads
  <2>3. UnlinkedFirst'
    BY <1>4 DEF PsIInv, PsTypes, UnlinkedFirst, PsLoads
  <2>4. IdleHoldsNothing'
    BY <1>4 DEF PsIInv, PsTypes, IdleHoldsNothing, PsLoads
  <2>5. PairIsOfTheTrack'
    BY <1>4 DEF PsIInv, PsTypes, PairIsOfTheTrack, PsViewIsAlive, SelectionDiesWithItsTrack, RoutedIsItsOwn, PsLoads
  <2>6. QED
    BY <2>1, <2>2, <2>3, <2>4, <2>5 DEF PsIInv
<1>5. CASE PsUnlink
  <2>1. PsTypes'
    BY <1>5 DEF PsIInv, PsTypes, PsUnlink, NoSet
  <2>2. FreedAreOlder'
    BY <1>5 DEF PsIInv, PsTypes, FreedAreOlder, PsUnlink, NoSet
  <2>3. UnlinkedFirst'
    BY <1>5 DEF PsIInv, PsTypes, UnlinkedFirst, PsUnlink, NoSet
  <2>4. IdleHoldsNothing'
    BY <1>5 DEF PsIInv, PsTypes, IdleHoldsNothing, PsUnlink, NoSet
  <2>5. PairIsOfTheTrack'
    BY <1>5 DEF PsIInv, PsTypes, PairIsOfTheTrack, PsViewIsAlive, SelectionDiesWithItsTrack, RoutedIsItsOwn, PsUnlink, NoSet
  <2>6. QED
    BY <2>1, <2>2, <2>3, <2>4, <2>5 DEF PsIInv
<1>6. CASE PsRetire
  <2>1. PsTypes'
    BY <1>6 DEF PsIInv, PsTypes, PsRetire, Taken, Using, NoSet
  <2>2. FreedAreOlder'
    BY <1>6 DEF PsIInv, PsTypes, FreedAreOlder, PsRetire, Taken, Using, NoSet
  <2>3. UnlinkedFirst'
    BY <1>6 DEF PsIInv, PsTypes, UnlinkedFirst, PsRetire, Taken, Using, NoSet
  <2>4. IdleHoldsNothing'
    BY <1>6 DEF PsIInv, PsTypes, IdleHoldsNothing, PsRetire, Taken, Using, NoSet
  <2>5. PairIsOfTheTrack'
    BY <1>6 DEF PsIInv, PsTypes, IdleHoldsNothing, FreedAreOlder, UnlinkedFirst, PairIsOfTheTrack, PsViewIsAlive, SelectionDiesWithItsTrack, RoutedIsItsOwn, PsRetire, Taken, Using, NoSet
  <2>6. QED
    BY <2>1, <2>2, <2>3, <2>4, <2>5 DEF PsIInv
<1>7. ASSUME NEW b \in Bundles, PsPublish(b) PROVE PsIInv'
  <2>1. PsTypes'
    BY <1>7 DEF PsIInv, PsTypes, PsPublish, NoSet
  <2>2. FreedAreOlder'
    BY <1>7 DEF PsIInv, FreedAreOlder, PsPublish, NoSet
  <2>3. UnlinkedFirst'
    BY <1>7 DEF PsIInv, PsTypes, FreedAreOlder, UnlinkedFirst, PsPublish, NoSet
  <2>4. IdleHoldsNothing'
    BY <1>7 DEF PsIInv, PsTypes, IdleHoldsNothing, PsPublish, NoSet
  <2>5. PairIsOfTheTrack'
    BY <1>7 DEF PsIInv, PsTypes, PairIsOfTheTrack, PsViewIsAlive, SelectionDiesWithItsTrack, RoutedIsItsOwn, PsPublish, NoSet
  <2>6. QED
    BY <2>1, <2>2, <2>3, <2>4, <2>5 DEF PsIInv
<1>8. ASSUME NEW ok \in BOOLEAN, PsService(ok) PROVE PsIInv'
  <2>1. PsTypes'
    BY <1>8 DEF PsIInv, PsTypes, PsService
  <2>2. FreedAreOlder'
    BY <1>8 DEF PsIInv, FreedAreOlder, PsService
  <2>3. UnlinkedFirst'
    BY <1>8 DEF PsIInv, PsTypes, UnlinkedFirst, PsService
  <2>4. IdleHoldsNothing'
    BY <1>8 DEF PsIInv, PsTypes, IdleHoldsNothing, PsService
  <2>5. PairIsOfTheTrack'
    BY <1>8 DEF PsIInv, PsTypes, PairIsOfTheTrack, PsViewIsAlive, SelectionDiesWithItsTrack, RoutedIsItsOwn, PsService
  <2>6. QED
    BY <2>1, <2>2, <2>3, <2>4, <2>5 DEF PsIInv
<1>9. CASE PsBlock
  <2>1. PsTypes'
    BY <1>9 DEF PsIInv, PsTypes, PsBlock, NoSet
  <2>2. FreedAreOlder'
    BY <1>9 DEF PsIInv, FreedAreOlder, PsBlock, NoSet
  <2>3. UnlinkedFirst'
    BY <1>9 DEF PsIInv, PsTypes, UnlinkedFirst, PsBlock, NoSet
  <2>4. IdleHoldsNothing'
    BY <1>9 DEF PsIInv, PsTypes, IdleHoldsNothing, PsBlock, NoSet
  <2>5. PairIsOfTheTrack'
    BY <1>9 DEF PsIInv, PsTypes, PairIsOfTheTrack, PsViewIsAlive, SelectionDiesWithItsTrack, RoutedIsItsOwn, PsBlock, NoSet
  <2>6. QED
    BY <2>1, <2>2, <2>3, <2>4, <2>5 DEF PsIInv
<1>10. CASE PsBlockLooks
  <2>1. PsTypes'
    BY <1>10 DEF PsIInv, PsTypes, PsBlockLooks, NoSet
  <2>2. FreedAreOlder'
    BY <1>10 DEF PsIInv, FreedAreOlder, PsBlockLooks, NoSet
  <2>3. UnlinkedFirst'
    BY <1>10 DEF PsIInv, PsTypes, UnlinkedFirst, PsBlockLooks, NoSet
  <2>4. IdleHoldsNothing'
    BY <1>10 DEF PsIInv, PsTypes, IdleHoldsNothing, PsBlockLooks, NoSet
  <2>5. PairIsOfTheTrack'
    BY <1>10 DEF PsIInv, PsTypes, UnlinkedFirst, PairIsOfTheTrack, PsViewIsAlive, SelectionDiesWithItsTrack, RoutedIsItsOwn, PsBlockLooks, NoSet
  <2>6. QED
    BY <2>1, <2>2, <2>3, <2>4, <2>5 DEF PsIInv
<1>11. ASSUME NEW p \in PsPages, PsMix(p) PROVE PsIInv'
  <2>1. PsTypes'
    BY <1>11 DEF PsIInv, PsTypes, PsMix, Routes, PsIdle, NoSet, NoTrack, Full
  <2>2. FreedAreOlder'
    BY <1>11 DEF PsIInv, FreedAreOlder, PsMix, Routes, PsIdle, NoSet, NoTrack, Full
  <2>3. UnlinkedFirst'
    BY <1>11 DEF PsIInv, PsTypes, UnlinkedFirst, PsMix, Routes, PsIdle, NoSet, NoTrack, Full
  <2>4. IdleHoldsNothing'
    BY <1>11 DEF PsIInv, PsTypes, IdleHoldsNothing, PsMix, Routes, PsIdle, NoSet, NoTrack, Full
  <2>5. PairIsOfTheTrack'
    BY <1>11 DEF PsIInv, PsTypes, PairIsOfTheTrack, PsViewIsAlive, SelectionDiesWithItsTrack, RoutedIsItsOwn, PsMix, Routes, PsIdle, NoSet, NoTrack, Full
  <2>6. QED
    BY <2>1, <2>2, <2>3, <2>4, <2>5 DEF PsIInv
<1>12. CASE PsWaveRound
  <2>1. PsTypes'
    BY <1>12 DEF PsIInv, PsTypes, PsWaveRound, PsIdle, NoSet, NoTrack, Full
  <2>2. FreedAreOlder'
    BY <1>12 DEF PsIInv, FreedAreOlder, PsWaveRound, PsIdle, NoSet, NoTrack, Full
  <2>3. UnlinkedFirst'
    BY <1>12 DEF PsIInv, PsTypes, UnlinkedFirst, PsWaveRound, PsIdle, NoSet, NoTrack, Full
  <2>4. IdleHoldsNothing'
    BY <1>12 DEF PsIInv, PsTypes, IdleHoldsNothing, PsWaveRound, PsIdle, NoSet, NoTrack, Full
  <2>5. PairIsOfTheTrack'
    BY <1>12 DEF PsIInv, PsTypes, PairIsOfTheTrack, PsViewIsAlive, SelectionDiesWithItsTrack, RoutedIsItsOwn, PsWaveRound, PsIdle, NoSet, NoTrack, Full
  <2>6. QED
    BY <2>1, <2>2, <2>3, <2>4, <2>5 DEF PsIInv
<1>13. CASE PsPaintLooks
  <2>1. PsTypes'
    BY <1>13 DEF PsIInv, PsTypes, PsPaintLooks, PsIdle, NoSet, NoTrack, Full
  <2>2. FreedAreOlder'
    BY <1>13 DEF PsIInv, FreedAreOlder, PsPaintLooks, PsIdle, NoSet, NoTrack, Full
  <2>3. UnlinkedFirst'
    BY <1>13 DEF PsIInv, PsTypes, UnlinkedFirst, PsPaintLooks, PsIdle, NoSet, NoTrack, Full
  <2>4. IdleHoldsNothing'
    BY <1>13 DEF PsIInv, PsTypes, IdleHoldsNothing, PsPaintLooks, PsIdle, NoSet, NoTrack, Full
  <2>5. PairIsOfTheTrack'
    BY <1>13 DEF PsIInv, PsTypes, UnlinkedFirst, PairIsOfTheTrack, PsViewIsAlive, SelectionDiesWithItsTrack, RoutedIsItsOwn, PsPaintLooks, PsIdle, NoSet, NoTrack, Full
  <2>6. QED
    BY <2>1, <2>2, <2>3, <2>4, <2>5 DEF PsIInv
<1>14. CASE PsPaintWrites
  <2>1. PsTypes'
    BY <1>14 DEF PsIInv, PsTypes, PsPaintWrites, PsIdle, NoSet, NoTrack, Full
  <2>2. FreedAreOlder'
    BY <1>14 DEF PsIInv, FreedAreOlder, PsPaintWrites, PsIdle, NoSet, NoTrack, Full
  <2>3. UnlinkedFirst'
    BY <1>14 DEF PsIInv, PsTypes, UnlinkedFirst, PsPaintWrites, PsIdle, NoSet, NoTrack, Full
  <2>4. IdleHoldsNothing'
    BY <1>14 DEF PsIInv, PsTypes, IdleHoldsNothing, PsPaintWrites, PsIdle, NoSet, NoTrack, Full
  <2>5. PairIsOfTheTrack'
    BY <1>14 DEF PsIInv, PsTypes, PairIsOfTheTrack, PsViewIsAlive, SelectionDiesWithItsTrack, RoutedIsItsOwn, PsPaintWrites, PsIdle, NoSet, NoTrack, Full
  <2>6. QED
    BY <2>1, <2>2, <2>3, <2>4, <2>5 DEF PsIInv
<1>15. CASE UNCHANGED psVars
  BY <1>15 DEF psVars, PsIInv, PsTypes, FreedAreOlder, UnlinkedFirst, IdleHoldsNothing, PairIsOfTheTrack, PsViewIsAlive, SelectionDiesWithItsTrack, RoutedIsItsOwn
<1>16. QED
  BY <1>1, <1>2, <1>3, <1>4, <1>5, <1>6, <1>7, <1>8, <1>9, <1>10, <1>11, <1>12, <1>13, <1>14, <1>15 DEF PsNext

(* No freed set is worked on, no selection outlives its track and no block is *)
(* mixed from another track's pair (prestem.c:147-229, 330-332).             *)
THEOREM PreStemsArePaired == PsSpec => []PairIsOfTheTrack
<1>1. PsSpec => []PsIInv
  BY PsInitIInv, PsStepKeepsIInv, PTL DEF PsSpec
<1>2. PsIInv => PairIsOfTheTrack
  BY DEF PsIInv
<1>3. QED
  BY <1>1, <1>2, PTL

-----------------------------------------------------------------------------
(* The groove table.  The reader is counted before it looks, and the loader takes   *)
(* the table off before it waits: so while the loader frees and fills, a reader can  *)
(* only be on its way out.                                                    *)
Reading == {"look", "mix"}

GcTypes ==
  /\ gcSlot \in [GcSlots -> Nat] /\ gcLive \in BOOLEAN
  /\ gcActive \in GcSlots \cup {NoSlot}
  /\ gcAudio \in [pc : {"idle", "enter"} \cup Reading, slot : GcSlots \cup {NoSlot}, view : Nat]
  /\ gcAudio.pc # "idle" => gcAudio.slot \in GcSlots
  /\ gcLoader.pc \in {"idle", "drain", "scan", "lines"}
  /\ gcPad.pc # "idle" => gcPad.slot \in GcSlots
  /\ gcScans \in Nat /\ (gcLoader.pc = "lines" => gcScans # 0)

ReaderIsCounted == gcReaders = IF gcAudio.pc \in Reading THEN 1 ELSE 0
TableIsOff ==
  /\ gcLoader.pc # "idle" => ~gcLive
  /\ gcLoader.pc \in {"scan", "lines"} => gcAudio.pc # "mix"

GcIInv == GcTypes /\ ReaderIsCounted /\ TableIsOff /\ GcViewIsAlive

(* Nobody is in the table, and nothing is loaded.                                *)
LEMMA GcInitIInv == GcInit => GcIInv
<1> SUFFICES ASSUME GcInit PROVE GcIInv
  OBVIOUS
<1> USE DEF GcInit
<1>1. gcSlot \in [GcSlots -> Nat] /\ gcLive \in BOOLEAN /\ gcActive \in GcSlots \cup {NoSlot}
  OBVIOUS
<1>2. gcAudio \in [pc : {"idle", "enter"} \cup Reading, slot : GcSlots \cup {NoSlot}, view : Nat]
  OBVIOUS
<1>3. GcTypes
  BY <1>1, <1>2 DEF GcTypes
<1>4. QED
  BY <1>3 DEF GcIInv, ReaderIsCounted, TableIsOff, GcViewIsAlive, Reading

(* A block of the mix counts itself in, looks, and counts itself out either way.    *)
LEMMA MixKeepsIInv == ASSUME GcIInv, GcMix PROVE GcIInv'
<1> USE DEF GcIInv, GcTypes, ReaderIsCounted, TableIsOff, GcViewIsAlive, Reading,
            gcNotAudio, gcTable, gcArming
<1>1. CASE GcActive
  BY <1>1 DEF GcActive
<1>2. CASE GcEnter
  BY <1>2 DEF GcEnter
<1>3. CASE GcLook
  BY <1>3 DEF GcLook, CanView
<1>4. CASE GcBackOut
  BY <1>4 DEF GcBackOut
<1>5. CASE GcRelease
  BY <1>5 DEF GcRelease
<1>6. QED
  BY <1>1, <1>2, <1>3, <1>4, <1>5 DEF GcMix

(* The loader frees when it has counted nobody, and fills what cannot be seen.      *)
LEMMA LoadKeepsIInv == ASSUME GcIInv, GcLoad PROVE GcIInv'
<1> USE DEF GcIInv, GcTypes, ReaderIsCounted, TableIsOff, GcViewIsAlive, Reading,
            gcNotLoader
<1>1. CASE GcPoll
  <2>1. gcLoader.pc = "idle" /\ gcLoader'.pc = "drain" /\ gcLive' = FALSE
    BY <1>1 DEF GcPoll
  <2>2. UNCHANGED <<gcSlot, gcReaders, gcActive, gcAudio, gcPad, gcScans>>
    BY <1>1 DEF GcPoll
  <2>3. QED
    BY <2>1, <2>2
<1>2. CASE GcUnload
  BY <1>2 DEF GcUnload
<1>3. CASE GcScanBegins
  BY <1>3 DEF GcScanBegins
<1>4. CASE GcMediaGone
  BY <1>4 DEF GcMediaGone
<1>5. CASE GcConfigLine
  <2>1. gcLoader'.pc = "lines" /\ gcLoader.pc = "lines"
    BY <1>5 DEF GcConfigLine
  <2>2. gcSlot' \in [GcSlots -> Nat]
    BY <1>5 DEF GcConfigLine
  <2>3. QED
    BY <1>5, <2>1, <2>2 DEF GcConfigLine
<1>6. CASE GcScanEnds
  BY <1>6 DEF GcScanEnds
<1>7. QED
  BY <1>1, <1>2, <1>3, <1>4, <1>5, <1>6 DEF GcLoad

(* A press, a stick and a track change leave the table to the loader.              *)
LEMMA DeckKeepsIInv == ASSUME GcIInv, GcPress \/ GcMedia \/ GcPool \/ GcTrackChanges PROVE GcIInv'
<1> USE DEF GcIInv, GcTypes, ReaderIsCounted, TableIsOff, GcViewIsAlive, Reading,
            gcNotPad, gcNotMedia, gcTable, gcArming
<1>1. CASE \E s \in GcSlots : GcClaim(s)
  BY <1>1 DEF GcClaim
<1>2. CASE GcPadOff
  BY <1>2 DEF GcPadOff
<1>3. CASE GcPadTakes
  BY <1>3 DEF GcPadTakes
<1>4. CASE GcArmClears
  BY <1>4 DEF GcArmClears
<1>5. CASE GcArmPublishes
  BY <1>5 DEF GcArmPublishes
<1>6. CASE GcMedia
  BY <1>6 DEF GcMedia
<1>7. CASE GcTrackChanges
  BY <1>7 DEF GcTrackChanges
<1>8. CASE GcPool
  BY <1>8 DEF GcPool
<1>9. QED
  BY <1>1, <1>2, <1>3, <1>4, <1>5, <1>6, <1>7, <1>8 DEF GcPress

(* What the mix reads in a block is never a buffer that a scan has freed, however    *)
(* sticks come and go and pads are pressed (gc.c:74-76).                          *)
THEOREM MixedLoopsAreAlive == GcSpec => []GcViewIsAlive
<1>1. GcIInv /\ [GcNext]_gcVars => GcIInv'
  <2> SUFFICES ASSUME GcIInv, [GcNext]_gcVars PROVE GcIInv'
    OBVIOUS
  <2>1. CASE UNCHANGED gcVars
    BY <2>1 DEF gcVars, GcIInv, GcTypes, ReaderIsCounted, TableIsOff, GcViewIsAlive
  <2>2. QED
    BY <2>1, MixKeepsIInv, LoadKeepsIInv, DeckKeepsIInv DEF GcNext
<1>2. GcIInv => GcViewIsAlive
  BY DEF GcIInv
<1>3. QED
  BY GcInitIInv, <1>1, <1>2, PTL DEF GcSpec
=============================================================================
