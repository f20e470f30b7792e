--------------------------- MODULE GrooveCircuit ---------------------------
(***************************************************************************)
(* The groove circuit (stem/gc.c): a table of decoded loops that the loader  *)
(* rebuilds from the stick, the mix reads on the audio thread, a pad press   *)
(* arms on the deck task and a track change disarms on the message thread.   *)
(*                                                                         *)
(* A scan gives every buffer it loads the number of the scan, so a view that *)
(* names a number the table no longer has is a view of freed memory.  Sticks *)
(* are mounted on paths, and a path is all the loader remembers of one.  A   *)
(* stick's config file is a sequence of lines, each a slot and whether the   *)
(* file decodes.  Left out: the samples, the beat rounding of a loop, the    *)
(* part a slot replaces, loops named by an absolute path, the lamps' colours. *)
(***************************************************************************)
EXTENDS Naturals, Sequences

CONSTANTS GcSlots,      \* pads a config may name
          GcConfig,     \* stick -> sequence of [slot, decodes]
          GcPaths,      \* mount paths, counted in readdir's order
          GcMaxPresses, \* bound: pad presses
          GcMaxSwaps    \* bound: changes of stick, pool rate or track

ASSUME GcAssumption ==
  /\ {GcMaxPresses, GcMaxSwaps} \subseteq Nat
  /\ GcPaths \subseteq Nat \ {0}
  /\ GcConfig \in [DOMAIN GcConfig -> Seq([slot : GcSlots \cup {"bad"}, decodes : BOOLEAN])]

VARIABLES gcSlot,     \* slot -> the scan that loaded it, 0 when empty
          gcLive, gcReaders, gcActive, gcEngage,
          gcRoot,     \* gc_g_root and gc_g_rate, NoRoot before the first scan
          gcLoader,   \* the loader in mod_stem_gc_poll: the root and rate it found,
                      \* and the stick whose config it has open
          gcAudio,    \* the audio thread in a block
          gcPad,      \* the deck task in gc_pad
          gcMounted,  \* path -> the stick there, or NoStick
          gcRate,     \* stem_pool_rate, 0 before the pool is open
          gcUnseen,   \* history: a stick was put where the table's own was, unseen
          gcTrack,    \* the track on the deck, counted
          gcScans, gcPresses, gcSwaps

gcVars == <<gcSlot, gcLive, gcReaders, gcActive, gcEngage, gcRoot, gcLoader,
            gcAudio, gcPad, gcMounted, gcRate, gcUnseen, gcTrack, gcScans,
            gcPresses, gcSwaps>>
gcWorld  == <<gcMounted, gcRate>>
gcTable  == <<gcSlot, gcLive, gcRoot, gcScans>>
gcArming == <<gcActive, gcEngage>>

NoSlot == "none"
NoStick == "none"
Nowhere == 0
Sticks == DOMAIN GcConfig
Rates == {1, 2}
NoRoot == [path |-> Nowhere, rate |-> 0]

GcInit ==
  /\ gcSlot = [s \in GcSlots |-> 0] /\ gcLive = FALSE /\ gcReaders = 0
  /\ gcActive = NoSlot /\ gcEngage = 0
  /\ gcRoot = NoRoot
  /\ gcLoader = [pc |-> "idle", line |-> 1, root |-> NoRoot, stick |-> NoStick]
  /\ gcAudio = [pc |-> "idle", slot |-> NoSlot, view |-> 0]
  /\ gcPad = [pc |-> "idle", slot |-> NoSlot, at |-> 0]
  /\ gcMounted \in [GcPaths -> Sticks \cup {NoStick}] /\ gcRate \in {0} \cup Rates
  /\ gcUnseen = FALSE /\ gcTrack = 1
  /\ gcScans = 0 /\ gcPresses = 0 /\ gcSwaps = 0

-----------------------------------------------------------------------------
(* The audio thread: audio_mix.c:126-127 and the view it holds for a block. *)

gcNotAudio == <<gcTable, gcArming, gcLoader, gcPad, gcWorld, gcUnseen, gcTrack, gcPresses, gcSwaps>>

\* gc_active.
GcActive ==
  /\ gcAudio.pc = "idle" /\ gcActive # NoSlot
  /\ gcAudio' = [pc |-> "enter", slot |-> gcActive, view |-> 0]
  /\ UNCHANGED <<gcReaders, gcNotAudio>>

\* gc_acquire: count first, look second, back out if there is nothing.
GcEnter ==
  /\ gcAudio.pc = "enter"
  /\ gcReaders' = gcReaders + 1
  /\ gcAudio' = [gcAudio EXCEPT !.pc = "look"]
  /\ UNCHANGED gcNotAudio
CanView == gcLive /\ gcSlot[gcAudio.slot] # 0
GcLook ==
  /\ gcAudio.pc = "look" /\ CanView
  /\ gcAudio' = [gcAudio EXCEPT !.pc = "mix", !.view = gcSlot[gcAudio.slot]]
  /\ UNCHANGED <<gcReaders, gcNotAudio>>
BackOutUncounted ==   \* seeded fault: the count is kept on the way out
  /\ gcAudio.pc = "look" /\ ~CanView
  /\ gcAudio' = [pc |-> "idle", slot |-> NoSlot, view |-> 0]
  /\ UNCHANGED <<gcReaders, gcNotAudio>>
GcBackOut ==
  /\ gcAudio.pc = "look" /\ ~CanView
  /\ gcReaders' = gcReaders - 1
  /\ gcAudio' = [pc |-> "idle", slot |-> NoSlot, view |-> 0]
  /\ UNCHANGED gcNotAudio

\* gc_release, at the end of the block.
GcRelease ==
  /\ gcAudio.pc = "mix"
  /\ gcReaders' = gcReaders - 1
  /\ gcAudio' = [pc |-> "idle", slot |-> NoSlot, view |-> 0]
  /\ UNCHANGED gcNotAudio

GcMix == GcActive \/ GcEnter \/ GcLook \/ GcBackOut \/ GcRelease

-----------------------------------------------------------------------------
(* The loader: mod_stem_gc_poll.                                            *)

gcNotLoader == <<gcReaders, gcEngage, gcAudio, gcPad, gcWorld, gcTrack, gcPresses, gcSwaps>>

\* stem_media_first_root: the first path with something mounted.
MountedPaths == {p \in GcPaths : gcMounted[p] # NoStick}
FirstRoot == IF MountedPaths = {} THEN Nowhere
             ELSE CHOOSE p \in MountedPaths : \A q \in MountedPaths : p <= q
RootNow == IF FirstRoot = Nowhere THEN NoRoot ELSE [path |-> FirstRoot, rate |-> gcRate]

\* Nothing mounted and something held, or a table built for another path or
\* rate (gc.c:525); which stick is on the path is not asked.
GcPoll ==
  /\ gcLoader.pc = "idle" /\ gcRate # 0 /\ RootNow # gcRoot
  /\ gcLoader' = [gcLoader EXCEPT !.pc = "drain", !.root = RootNow] /\ gcLive' = FALSE
  /\ UNCHANGED <<gcSlot, gcRoot, gcUnseen, gcScans, gcActive, gcNotLoader>>

\* gc_unload: wait for the readers, free, disarm.
GcUnload ==
  /\ gcLoader.pc = "drain" /\ gcReaders = 0
  /\ gcSlot' = [s \in GcSlots |-> 0] /\ gcActive' = NoSlot
  /\ gcLoader' = [gcLoader EXCEPT !.pc = "scan"]
  /\ UNCHANGED <<gcLive, gcRoot, gcUnseen, gcScans, gcNotLoader>>

\* There was no media: the table stays off.
GcMediaGone ==
  /\ gcLoader.pc = "scan" /\ gcLoader.root = NoRoot
  /\ gcRoot' = NoRoot /\ gcUnseen' = FALSE
  /\ gcLoader' = [gcLoader EXCEPT !.pc = "idle"]
  /\ UNCHANGED <<gcSlot, gcLive, gcScans, gcActive, gcNotLoader>>

\* gc_scan opens the config of what is on the path by now.
GcScanBegins ==
  /\ gcLoader.pc = "scan" /\ gcLoader.root # NoRoot
  /\ gcScans' = gcScans + 1 /\ gcUnseen' = FALSE
  /\ gcLoader' = [gcLoader EXCEPT !.pc = "lines", !.line = 1,
                                  !.stick = gcMounted[gcLoader.root.path]]
  /\ UNCHANGED <<gcSlot, gcLive, gcRoot, gcActive, gcNotLoader>>

\* gc_config_line and gc_load_one: a bad slot is skipped, a slot that is loaded
\* already keeps its first file, a file that will not decode, or is not there
\* since the stick has gone, leaves it empty.
LinesOf(k) == IF k = NoStick THEN <<>> ELSE GcConfig[k]
Lines == LinesOf(gcLoader.stick)
Line == Lines[gcLoader.line]
Loads == /\ Line.slot \in GcSlots /\ gcSlot[Line.slot] = 0
         /\ Line.decodes /\ gcMounted[gcLoader.root.path] = gcLoader.stick
GcConfigLine ==
  /\ gcLoader.pc = "lines" /\ gcLoader.line <= Len(Lines)
  /\ gcLoader' = [gcLoader EXCEPT !.line = @ + 1]
  /\ gcSlot' = IF Loads THEN [gcSlot EXCEPT ![Line.slot] = gcScans] ELSE gcSlot
  /\ UNCHANGED <<gcLive, gcRoot, gcUnseen, gcScans, gcActive, gcNotLoader>>
GcScanEnds ==
  /\ gcLoader.pc = "lines" /\ gcLoader.line > Len(Lines)
  /\ gcLive' = TRUE /\ gcRoot' = gcLoader.root
  /\ gcLoader' = [gcLoader EXCEPT !.pc = "idle", !.line = 1, !.stick = NoStick]
  /\ UNCHANGED <<gcSlot, gcUnseen, gcScans, gcActive, gcNotLoader>>

GcLoad == GcPoll \/ GcUnload \/ GcMediaGone \/ GcScanBegins \/ GcConfigLine \/ GcScanEnds

-----------------------------------------------------------------------------
(* The deck task: gc_claim and gc_pad.                                      *)

gcNotPad == <<gcTable, gcReaders, gcLoader, gcAudio, gcWorld, gcUnseen, gcTrack, gcSwaps>>

\* gc_claim: gc_slot_part of a slot that is loaded, under the open row.
GcClaim(s) ==
  /\ gcPad.pc = "idle" /\ gcPresses < GcMaxPresses
  /\ gcLive /\ gcSlot[s] # 0
  /\ gcPresses' = gcPresses + 1
  /\ gcPad' = [pc |-> "pad", slot |-> s, at |-> 0]
  /\ UNCHANGED <<gcArming, gcNotPad>>

\* gc_pad: the armed slot goes off; another reads the grid and is armed.
GcPadOff ==
  /\ gcPad.pc = "pad" /\ gcPad.slot = gcActive
  /\ gcActive' = NoSlot /\ gcPad' = [gcPad EXCEPT !.pc = "idle"]
  /\ UNCHANGED <<gcEngage, gcPresses, gcNotPad>>
GcPadTakes ==
  /\ gcPad.pc = "pad" /\ gcPad.slot # gcActive
  /\ gcPad' = [gcPad EXCEPT !.pc = "arm", !.at = gcTrack]
  /\ UNCHANGED <<gcArming, gcPresses, gcNotPad>>

\* gc_arm: clear, write the position, publish.
GcArmClears ==
  /\ gcPad.pc = "arm"
  /\ gcActive' = NoSlot /\ gcEngage' = gcPad.at
  /\ gcPad' = [gcPad EXCEPT !.pc = "publish"]
  /\ UNCHANGED <<gcPresses, gcNotPad>>
GcArmPublishes ==
  /\ gcPad.pc = "publish"
  /\ gcActive' = gcPad.slot /\ gcPad' = [gcPad EXCEPT !.pc = "idle"]
  /\ UNCHANGED <<gcEngage, gcPresses, gcNotPad>>

GcPress == (\E s \in GcSlots : GcClaim(s)) \/ GcPadOff \/ GcPadTakes
           \/ GcArmClears \/ GcArmPublishes

-----------------------------------------------------------------------------
(* The deck.                                                                *)

gcNotMedia == <<gcTable, gcReaders, gcArming, gcLoader, gcAudio, gcPad, gcTrack, gcPresses>>

\* A stick goes in, out, or both between two looks of the loader.
TablePath == IF gcLoader.pc = "lines" THEN gcLoader.root.path
             ELSE IF gcLoader.pc = "idle" THEN gcRoot.path ELSE Nowhere
GcPulled(p) ==
  /\ gcMounted[p] # NoStick /\ gcMounted' = [gcMounted EXCEPT ![p] = NoStick]
  /\ UNCHANGED gcUnseen
GcPut(p) ==
  /\ gcMounted[p] = NoStick
  /\ \E k \in Sticks : gcMounted' = [gcMounted EXCEPT ![p] = k]
  /\ gcUnseen' = (gcUnseen \/ p = TablePath)
GcMedia ==
  /\ gcSwaps < GcMaxSwaps /\ gcSwaps' = gcSwaps + 1
  /\ \E p \in GcPaths : GcPulled(p) \/ GcPut(p)
  /\ UNCHANGED <<gcRate, gcNotMedia>>

\* The pool is opened, or opened at another rate.
GcPool ==
  /\ gcSwaps < GcMaxSwaps /\ gcSwaps' = gcSwaps + 1
  /\ gcRate' \in Rates \ {gcRate}
  /\ UNCHANGED <<gcMounted, gcUnseen, gcNotMedia>>

\* stem_job_set_track, gc_disarm (job.c:711-719).
GcTrackChanges ==
  /\ gcSwaps < GcMaxSwaps /\ gcSwaps' = gcSwaps + 1
  /\ gcTrack' = gcTrack + 1 /\ gcActive' = NoSlot
  /\ UNCHANGED <<gcTable, gcEngage, gcReaders, gcLoader, gcAudio, gcPad, gcWorld, gcUnseen, gcPresses>>

GcNext == GcMix \/ GcLoad \/ GcPress \/ GcMedia \/ GcPool \/ GcTrackChanges

\* The audio callback keeps coming, the loader runs, and between two blocks it
\* again and again finds nobody in the table.
GcFairness == WF_gcVars(GcMix) /\ WF_gcVars(GcLoad) /\ SF_gcVars(GcUnload)
GcSpec == GcInit /\ [][GcNext]_gcVars /\ GcFairness

-----------------------------------------------------------------------------
(* Properties.                                                              *)

\* "The audio thread must never wait and the worker must never free early"
\* (gc.c:74-76): what the mix reads in a block is never a buffer a scan freed.
GcViewIsAlive ==
  gcAudio.pc = "mix" => gcSlot[gcAudio.slot] = gcAudio.view

\* The pads a stick's config fills.
PadsOf(k) == {LinesOf(k)[i].slot : i \in {j \in 1..Len(LinesOf(k)) : LinesOf(k)[j].decodes}} \cap GcSlots
TableIsRight ==
  /\ gcLoader.pc = "idle" /\ gcRoot = RootNow
  /\ FirstRoot # Nowhere => gcLive /\ \A s \in GcSlots : gcSlot[s] # 0 <=> s \in PadsOf(gcMounted[FirstRoot])
  /\ FirstRoot = Nowhere => ~gcLive

\* Every stick that stays is served: the wait for the readers has no bound, so
\* it must be that every reader leaves, whichever way it went in; and whatever
\* went in or out while the loader waited or scanned is noticed by a later poll,
\* unless a stick was put in, between two polls, on the path of the one the table
\* was made of.
GcTableFollowsStick == <>[](gcRate = 0 \/ gcUnseen \/ TableIsRight)

\* A table under the mix is alive, and it is the stick's in the end.
GcTableIsTheSticks == []GcViewIsAlive /\ GcTableFollowsStick

\* gc.c:69-70, "A pool rate change or a different stick means the buffers are
\* wrong rather than stale, so both are re-scanned": the same without the
\* exception.  It does not hold, gc.c:525 compares the path.
GcDifferentStickIsScanned == <>[](gcRate = 0 \/ TableIsRight)

\* The phase of an armed loop is measured in the track it is played over: the
\* grid is read again on every press so that it "cannot then be the previous
\* track's" (gc.c:559-562), and a track change disarms (job.c:713-718).
GcPhaseIsOfTheTrack == gcActive # NoSlot => gcEngage = gcTrack
=============================================================================
