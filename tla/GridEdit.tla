------------------------------ MODULE GridEdit ------------------------------
(* The five buttons of the grid panel (grid/panel.c) and the rewriting of the *)
(* deck's own beat array under its readers (stem/grid_edit.c).  The panel     *)
(* keeps the whole edit, a multiplier and a number of millisecond steps, and  *)
(* states it against the array the deck loaded; the array's pointer and count *)
(* are two words of the deck's object and are written one after the other.    *)
(*                                                                            *)
(* An object has an address, which the deck may give to a later track's.  An  *)
(* array is the load it came with or was made from, and a length; a millisecond *)
(* step is one beat.  The bars' pair goes the way the beats' does.            *)

EXTENDS Integers

CONSTANTS GeAddresses,  \* where the deck's objects are
          GeBeats,      \* the length of a loaded array
          GeMost,       \* GRID_BEATS_MAX
          GeDoublings,  \* how often the multiplier doubles or halves (GP_MULT_MAX)
          GeStepsMax,   \* GP_STEPS_MAX
          GeMaxLoads, GeMaxTaps   \* bounds
ASSUME GeAssumption ==
  {GeBeats, GeMost, GeDoublings, GeStepsMax, GeMaxLoads, GeMaxTaps} \subseteq Nat /\ 0 \notin GeAddresses

VARIABLES geHere,    \* the address of the playing track's object (stem_grid_id)
          geObject,  \* address -> [beats, count]
          geOrig,    \* grid_g_orig_*: [at, beats, count]
          gePanel,   \* gp_g_edit_id, gp_g_mult, gp_g_steps: [id, mult, steps]
          geTid,     \* did the grid come with a TrackID
          geSwap,    \* the word still to be written, its object and what for
          geSaved,   \* what was registered last: [load, count]
          geReused,  \* history: an address the panel or the original remembers was given away
          geLoads, geTaps

geVars == <<geHere, geObject, geOrig, gePanel, geTid, geSwap, geSaved, geReused, geLoads, geTaps>>

Nowhere == 0
NoBeats == [load |-> 0, len |-> 0]
NoSwap == [word |-> "none", at |-> Nowhere, beats |-> NoBeats, count |-> 0]
NothingSaved == [load |-> 0, count |-> 0]

GeInit ==
  /\ geHere = Nowhere /\ geObject = [a \in GeAddresses |-> [beats |-> NoBeats, count |-> 0]]
  /\ geOrig = [at |-> Nowhere, beats |-> NoBeats, count |-> 0]
  /\ gePanel = [id |-> Nowhere, mult |-> 0, steps |-> 0] /\ geTid = FALSE
  /\ geSwap = NoSwap /\ geSaved = NothingSaved /\ geReused = FALSE /\ geLoads = 0 /\ geTaps = 0

\* The length an edit asks for: n_new of stem_grid_edit_scale.
Asked(count, mult, steps) ==
  (IF mult >= 0 THEN (count - 1) * 2^mult ELSE (count - 1) \div 2^(-mult)) + 1 - steps

\* The deck loads a track: its object is at any address but the one in use.
GeLoad(a) ==
  /\ geSwap = NoSwap /\ a # geHere /\ geLoads < GeMaxLoads
  /\ geLoads' = geLoads + 1 /\ geHere' = a /\ geTid' \in BOOLEAN
  /\ geObject' = [geObject EXCEPT ![a] = [beats |-> [load |-> geLoads', len |-> GeBeats], count |-> GeBeats]]
  /\ geReused' = (geReused \/ a \in {geOrig.at, gePanel.id})
  /\ UNCHANGED <<geOrig, gePanel, geSwap, geSaved, geTaps>>

-----------------------------------------------------------------------------
(* stem_grid_edit_scale and stem_grid_edit_reset.                             *)

\* grid_swap_pair: growing writes the pointer first, shrinking the count.
Swaps(at, beats, count, than) ==
  IF count > than
  THEN /\ geObject' = [geObject EXCEPT ![at].beats = beats]
       /\ geSwap' = [word |-> "count", at |-> at, beats |-> beats, count |-> count]
  ELSE /\ geObject' = [geObject EXCEPT ![at].count = count]
       /\ geSwap' = [word |-> "beats", at |-> at, beats |-> beats, count |-> count]

\* Another grid than the panel's: the edit starts over.
Edit == IF gePanel.id # geHere THEN [id |-> geHere, mult |-> 0, steps |-> 0] ELSE gePanel
Turned(which) ==
  CASE which = "double" -> [Edit EXCEPT !.mult = IF @ < GeDoublings THEN @ + 1 ELSE @]
    [] which = "half" -> [Edit EXCEPT !.mult = IF @ > -GeDoublings THEN @ - 1 ELSE @]
    [] which = "enlarge" -> [Edit EXCEPT !.steps = IF @ < GeStepsMax THEN @ + 1 ELSE @]
    [] which = "reduce" -> [Edit EXCEPT !.steps = IF @ > -GeStepsMax THEN @ - 1 ELSE @]
Buttons == {"double", "half", "enlarge", "reduce"}
Taps == geSwap = NoSwap /\ geHere # Nowhere /\ geTaps < GeMaxTaps /\ geTaps' = geTaps + 1

\* The first edit of an object remembers what the deck loaded into it.
Remembered ==
  IF geOrig.at # geHere
  THEN [at |-> geHere, beats |-> geObject[geHere].beats, count |-> geObject[geHere].count] ELSE geOrig
Result(which) ==
  LET o == Remembered IN
  [load |-> o.beats.load, len |-> Asked(o.count, Turned(which).mult, Turned(which).steps)]
GeScale(which) ==
  /\ Taps /\ Result(which).len \in 2..GeMost
  /\ geOrig' = Remembered /\ gePanel' = Turned(which)
  /\ Swaps(geHere, Result(which), Result(which).len, Remembered.count)
  /\ UNCHANGED <<geHere, geTid, geSaved, geReused, geLoads>>
\* Too few beats, too many, or no memory for them: neither does the panel move.
RefusedButTurned(which) ==   \* seeded fault: the panel counts the press it did not make
  /\ Taps /\ geOrig' = Remembered /\ gePanel' = Turned(which)
  /\ UNCHANGED <<geHere, geObject, geTid, geSwap, geSaved, geReused, geLoads>>
GeRefused(which) ==
  /\ Taps /\ geOrig' = Remembered /\ gePanel' = Edit
  /\ UNCHANGED <<geHere, geObject, geTid, geSwap, geSaved, geReused, geLoads>>
\* RESET of whatever object was edited last.
GeReset ==
  /\ Taps /\ gePanel' = [id |-> geHere, mult |-> 0, steps |-> 0]
  /\ IF geOrig.at = Nowhere THEN UNCHANGED <<geObject, geSwap>>
     ELSE Swaps(geOrig.at, geOrig.beats, geOrig.count, geObject[geOrig.at].count)
  /\ UNCHANGED <<geHere, geOrig, geTid, geSaved, geReused, geLoads>>
\* The other word, and the save: the playing track's, when the grid has its id.
GeSwapped ==
  /\ geSwap # NoSwap /\ geSwap' = NoSwap
  /\ geObject' = [geObject EXCEPT ![geSwap.at] = [beats |-> geSwap.beats, count |-> geSwap.count]]
  /\ geSaved' = IF geTid THEN [load |-> geLoads, count |-> geObject'[geHere].count] ELSE geSaved
  /\ UNCHANGED <<geHere, geOrig, gePanel, geTid, geReused, geLoads, geTaps>>

GeNext ==
  \/ \E a \in GeAddresses : GeLoad(a)
  \/ \E which \in Buttons : GeScale(which) \/ GeRefused(which)
  \/ GeReset \/ GeSwapped
GeSpec == GeInit /\ [][GeNext]_geVars

-----------------------------------------------------------------------------
(* Properties.                                                              *)

\* "The panel keeps the WHOLE edit and states it as one k against the original
\* every time" (panel.c:161-164): between two presses the playing track's grid is
\* its own, as long as the panel's multiplier and steps make the one it was loaded
\* with, after refused presses, resets and other tracks too; unless the deck gave
\* a remembered address to another track.
PanelTellsTheGrid ==
  geSwap = NoSwap /\ gePanel.id = geHere /\ geHere # Nowhere /\ ~geReused =>
    geObject[geHere] = [beats |-> [load |-> geLoads, len |-> Asked(GeBeats, gePanel.mult, gePanel.steps)],
                        count |-> Asked(GeBeats, gePanel.mult, gePanel.steps)]

\* "Either way no reader indexes past the end of whichever array it is holding"
\* (grid.c:754): no state in between has a count past the array's end.  The code
\* breaks it: stem_grid_edit_scale orders the writes by the count the deck loaded,
\* not by the one in place (grid_edit.c:179).
NoReaderIndexesPast == \A a \in GeAddresses : geObject[a].count <= geObject[a].beats.len

\* A RESET is of the grid on the panel.  The code breaks it: the object of the last
\* edit is written whichever track plays (grid_edit.c:216-221).
ResetIsOfThePanels == geSwap # NoSwap => geSwap.at = geHere
=============================================================================
