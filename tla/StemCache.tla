----------------------------- MODULE StemCache -----------------------------
(***************************************************************************)
(* The stem cache on the DJ's own media (stem/cache.c): the separator       *)
(* stores a pair while the loader looks one up, the stick is pulled and put  *)
(* back, the deck restarts.                                                 *)
(*                                                                         *)
(* A directory is a record of three files.  A file is "none", "part" (some   *)
(* bytes, not all), "cached" (whole, in the page cache), "disk" (whole, on   *)
(* the medium) or "bad" (whole, but no decoder takes it); a meta file may    *)
(* also be "old", of another META_VERSION.  Paths are names: when the stick  *)
(* is out, the same path leads into the mount point's leftover directory on  *)
(* the deck's own file system (cache.c:171-174).  A directory operation is   *)
(* taken to reach the medium with the step that makes it.                    *)
(*                                                                         *)
(* Left out: the linked player's volumes, read by the same lookup and never  *)
(* written; lengths of paths; the hash itself (a key is the pair of a        *)
(* separation id and a track, cache.c:404-417).                              *)
(***************************************************************************)
EXTENDS Naturals

CONSTANTS ScTracks,     \* tracks on the stick
          ScIds,        \* separation ids a server may announce
          ScMaxEvents   \* bound: pulls, insertions and restarts

ASSUME ScAssumption == ScMaxEvents \in Nat

VARIABLES scIn,       \* is the stick mounted
          scFinal,    \* final entries: file system -> key -> directory
          scStage,    \* staging directories of this pid: file system -> key -> directory
          scId,       \* g_stem_sep_id, "" before the first STATUS
          scStore,    \* the separator: where it is in stem_cache_store
          scLook,     \* the loader: where it is in stem_cache_lookup
          scBack,     \* has a stick come back in the middle of a store (of the property only)
          scEvents    \* bounded count of what the DJ does

scVars == <<scIn, scFinal, scStage, scId, scStore, scLook, scBack, scEvents>>

-----------------------------------------------------------------------------
Keys == ScIds \X ScTracks
FileSystems == {"stick", "deck"}
Whole == {"cached", "disk"}
Empty == [made |-> FALSE, meta |-> "none", h |-> "none", v |-> "none"]
Fresh == [Empty EXCEPT !.made = TRUE]

\* is_mounted, base_collect: what the path of a volume leads to now.
Here == IF scIn THEN "stick" ELSE "deck"

\* meta_read, find_part: an entry a lookup accepts.  It looks at sizes, not at
\* content: a torn or undecodable part is accepted.
Accepts(dir) == dir.meta \in Whole /\ dir.h # "none" /\ dir.v # "none"

\* key_of: the key is made of the track's bytes, so the stick must be in; and
\* no id, no path.
KeyOf(id, t) == <<id, t>>
CanKey == scIn /\ scId # ""

NoKey == <<"none", "none">>
ScIdle == [pc |-> "idle", key |-> NoKey]

\* The stick may carry an entry of an older shim, or one whose harmonics no
\* decoder takes (another server's, a bad sector); ScArrives puts it there.
ScInit ==
  /\ scIn = TRUE
  /\ scFinal = [f \in FileSystems |-> [k \in Keys |-> Empty]]
  /\ scStage = [f \in FileSystems |-> [k \in Keys |-> Empty]]
  /\ scId = ""
  /\ scStore = ScIdle
  /\ scLook = ScIdle
  /\ scEvents = 0 /\ scBack = FALSE

-----------------------------------------------------------------------------
(* stem_cache_store, in the order of its steps.  Any step that touches the  *)
(* medium may fail; a failure after mkdir(staging) ends in rm_rf_shallow.   *)

At(p) == scStore.pc = p
Moves(p) == scStore' = [scStore EXCEPT !.pc = p]
Staged == scStage[Here][scStore.key]
Stages(dir) == scStage' = [scStage EXCEPT ![Here][scStore.key] = dir]
ScRest == UNCHANGED <<scId, scLook, scBack, scEvents, scIn>>

\* store_root and entry_path: the track's own volume, writable and with room.
StoreBegins(t) ==
  /\ At("idle") /\ CanKey
  /\ scStore' = [pc |-> "parent", key |-> KeyOf(scId, t)]
  /\ UNCHANGED <<scFinal, scStage>> /\ ScRest

\* mkdir_p(parent): on whatever file system the path leads to by now.
MakeParent ==
  /\ At("parent")
  /\ Moves("mkdir") /\ UNCHANGED <<scFinal, scStage>> /\ ScRest

\* rm_rf_shallow(staging), mkdir(staging).
MakeStaging ==
  /\ At("mkdir")
  /\ Stages(Fresh) /\ Moves("h") /\ UNCHANGED scFinal /\ ScRest

\* copy_file up to its last write; the staging directory must still be there.
CopyPart(part, next) ==
  /\ At(part) /\ Staged.made
  /\ Stages([Staged EXCEPT ![part] = "cached"]) /\ Moves(next)
  /\ UNCHANGED scFinal /\ ScRest

\* fsync(outfd), which decides: an fd of a pulled stick fails.
SyncPart(part, at, next) ==
  /\ At(at) /\ Staged[part] = "cached"
  /\ Stages([Staged EXCEPT ![part] = "disk"]) /\ Moves(next)
  /\ UNCHANGED scFinal /\ ScRest
SyncNothing(part, at, next) ==   \* seeded fault: no fsync
  /\ At(at) /\ Staged[part] = "cached" /\ Moves(next)
  /\ UNCHANGED <<scStage, scFinal>> /\ ScRest
CopiesUnsynced ==
  \/ CopyPart("h", "hsync") \/ SyncNothing("h", "hsync", "v")
  \/ CopyPart("v", "vsync") \/ SyncPart("v", "vsync", "meta")
Copies ==
  \/ CopyPart("h", "hsync") \/ SyncPart("h", "hsync", "v")
  \/ CopyPart("v", "vsync") \/ SyncPart("v", "vsync", "meta")

\* meta_write: its fsync's result is not looked at.
WriteMeta ==
  /\ At("meta") /\ Staged.made
  /\ \E f \in Whole : Stages([Staged EXCEPT !.meta = f])
  /\ Moves("rename") /\ UNCHANGED scFinal /\ ScRest

\* Seeded fault: the refused rename repaired in two operations.
RenameAfterRemoval ==
  /\ At("rename") /\ Staged.made
  /\ IF scFinal[Here][scStore.key] \in {Empty, Fresh}
     THEN /\ scFinal' = [scFinal EXCEPT ![Here][scStore.key] = Staged]
          /\ Stages(Empty) /\ Moves("idle")
     ELSE /\ scFinal' = [scFinal EXCEPT ![Here][scStore.key] = Empty]
          /\ UNCHANGED <<scStage, scStore>>
  /\ ScRest

\* rename(staging, final) onto nothing, or onto an empty directory.
RenameEntry ==
  /\ At("rename") /\ Staged.made
  /\ scFinal[Here][scStore.key] \in {Empty, Fresh}
  /\ scFinal' = [scFinal EXCEPT ![Here][scStore.key] = Staged]
  /\ Stages(Empty) /\ Moves("idle") /\ ScRest

\* ENOTEMPTY: an entry is there already, whatever it is worth.
RenameRefused ==
  /\ At("rename")
  /\ \/ ~Staged.made
     \/ scFinal[Here][scStore.key] \notin {Empty, Fresh}
  /\ Moves("undo") /\ UNCHANGED <<scFinal, scStage>> /\ ScRest

\* A full or pulled medium fails any step; copy_file unlinks what it began.
StoreFails ==
  /\ scStore.pc \in {"h", "hsync", "v", "vsync", "meta"}
  /\ Moves("undo") /\ UNCHANGED <<scFinal, scStage>> /\ ScRest
MkdirFails ==
  /\ scStore.pc \in {"parent", "mkdir"}
  /\ scStore' = ScIdle /\ UNCHANGED <<scFinal, scStage>> /\ ScRest

\* rm_rf_shallow(staging).
UndoStaging ==
  /\ At("undo")
  /\ Stages(Empty) /\ scStore' = ScIdle /\ UNCHANGED scFinal /\ ScRest

StoreStep ==
  \/ \E t \in ScTracks : StoreBegins(t)
  \/ MakeParent \/ MakeStaging \/ Copies \/ WriteMeta \/ RenameEntry
  \/ RenameRefused \/ StoreFails \/ MkdirFails \/ UndoStaging

-----------------------------------------------------------------------------
(* stem_cache_lookup and the decode of what it found.                       *)

\* collect_roots, entry_path, meta_read, find_part twice: stat and read only.
Lookup(t) ==
  /\ scLook.pc = "idle" /\ CanKey
  /\ Accepts(scFinal["stick"][KeyOf(scId, t)])
  /\ scLook' = [pc |-> "decode", key |-> KeyOf(scId, t)]
  /\ UNCHANGED <<scIn, scFinal, scStage, scId, scStore, scBack, scEvents>>

\* The decoder opens the paths the lookup returned (store.c, decode.c).
DecodeEnds ==
  /\ scLook.pc = "decode"
  /\ scLook' = ScIdle
  /\ UNCHANGED <<scIn, scFinal, scStage, scId, scStore, scBack, scEvents>>

-----------------------------------------------------------------------------
(* What happens to the deck.                                                *)

ScEvent == scEvents < ScMaxEvents /\ scEvents' = scEvents + 1

\* What was only in the page cache is on the medium, half there, or lost.
Survives(f) == IF f = "cached" THEN {"disk", "part", "none"} ELSE {f}
PulledDirs(dir) ==
  {[made |-> dir.made, meta |-> m, h |-> h, v |-> v] :
     m \in {IF x = "part" THEN "none" ELSE x : x \in Survives(dir.meta)},
     h \in Survives(dir.h), v \in Survives(dir.v)}

\* Only the entry written last can have unsynced files.
Unsynced(table) == {k \in Keys : PulledDirs(table[k]) # {table[k]}}
AfterPull(table) ==
  IF Unsynced(table) = {} THEN {table}
  ELSE UNION {{[table EXCEPT ![k] = d] : d \in PulledDirs(table[k])} : k \in Unsynced(table)}

Pull ==
  /\ scIn /\ ScEvent
  /\ scIn' = FALSE
  /\ \E f \in AfterPull(scFinal["stick"]), s \in AfterPull(scStage["stick"]) :
       /\ scFinal' = [scFinal EXCEPT !["stick"] = f]
       /\ scStage' = [scStage EXCEPT !["stick"] = s]
  /\ UNCHANGED <<scId, scStore, scLook, scBack>>

Insert ==
  /\ ~scIn
  /\ scIn' = TRUE /\ scBack' = (scBack \/ ~At("idle"))
  /\ UNCHANGED <<scFinal, scStage, scId, scStore, scLook, scEvents>>

\* A power cut: as a pull, the stick stays in, and the new process has another
\* pid, so the staging directory it left is nobody's.
PowerCut ==
  /\ scIn /\ ScEvent
  /\ \E f \in AfterPull(scFinal["stick"]) : scFinal' = [scFinal EXCEPT !["stick"] = f]
  /\ scStage' = [f \in FileSystems |-> [k \in Keys |-> Empty]]
  /\ scStore' = ScIdle /\ scLook' = ScIdle
  /\ UNCHANGED <<scIn, scId, scBack>>

\* The stick comes from a deck with another shim, or has an undecodable pair.
ScArrives ==
  /\ scId = "" /\ ScEvent
  /\ \E k \in Keys, d \in {[made |-> TRUE, meta |-> "old", h |-> "disk", v |-> "disk"],
                            [made |-> TRUE, meta |-> "disk", h |-> "bad", v |-> "disk"]} :
       /\ scFinal["stick"][k] = Empty
       /\ scFinal' = [scFinal EXCEPT !["stick"][k] = d]
  /\ UNCHANGED <<scIn, scStage, scId, scStore, scLook, scBack>>

\* handle_frame STATUS on the separator's own thread: between two stores.
Learn(id) ==
  /\ At("idle") /\ id # scId
  /\ scId' = id
  /\ UNCHANGED <<scIn, scFinal, scStage, scStore, scLook, scBack, scEvents>>

-----------------------------------------------------------------------------
(* Properties.                                                              *)

\* The entry appears whole or not at all (cache.c:693-697, 609-611): whatever
\* is pulled or cut in between, no directory a lookup accepts has a part that
\* is only half there.  The exception is a stick that comes back in the middle
\* of a store: the names then lead into the staging directory an earlier failure
\* left on it (rm_rf_shallow could not reach it), and its half part is taken along.
NoTornEntry ==
  ~scBack => \A k \in Keys : Accepts(scFinal["stick"][k]) =>
      "part" \notin {scFinal["stick"][k].h, scFinal["stick"][k].v}

\* An entry whose files are on the medium stays acceptable through every later
\* store, failure, pull and restart: a store adds and never takes away.
EntryIsKept ==
  [][\A k \in Keys :
       LET d == scFinal["stick"][k] IN
       Accepts(d) /\ d.meta = "disk" => Accepts(scFinal'["stick"][k])]_scVars

\* "Losing the race against another deck writing the same entry is a success,
\* not a failure: whatever is there is as valid as what we built"
\* (cache.c:732-733).
WhatIsThereIsAsGood ==
  At("rename") /\ Staged.made /\ scFinal[Here][scStore.key] \notin {Empty, Fresh} =>
    /\ Accepts(scFinal[Here][scStore.key])
    /\ "bad" \notin {scFinal[Here][scStore.key].h, scFinal[Here][scStore.key].v}

ScNext ==
  \/ StoreStep
  \/ \E t \in ScTracks : Lookup(t)
  \/ DecodeEnds \/ Pull \/ Insert \/ PowerCut \/ ScArrives
  \/ \E id \in ScIds : Learn(id)

ScSpec == ScInit /\ [][ScNext]_scVars
=============================================================================
