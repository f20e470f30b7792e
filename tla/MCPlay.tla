---------------------------- MODULE MCPlay ----------------------------
(* The components under the DJ's hands: the X-PAD's automation and table,   *)
(* the band the panels share, the gate, the cue pads, the pads' lamps.      *)
EXTENDS XpadSeq, XpadBank, KitBand, GateCue,
        CuePad, PadLamps

VARIABLE scene   \* the component that moves; the others stay as they start

\* A stick with more samples than banks, and one with one that is not wanted.
F(n, w, d) == [name |-> n, wanted |-> w, decodes |-> d]
MCSticks == [a |-> <<F(3, TRUE, TRUE), F(1, TRUE, TRUE), F(2, TRUE, TRUE), F(0, FALSE, TRUE)>>,
             b |-> <<F(5, TRUE, FALSE), F(4, TRUE, TRUE)>>]

Scenes == {"overdub", "bank", "band", "gate", "cue", "lamps"}
playVars == <<scene, xsVars, xbVars, kbVars, gtVars, cpVars, plVars>>

PlayInit ==
  /\ scene \in Scenes
  /\ XsInit /\ XbInit /\ KbInit /\ GtInit /\ CpInit /\ PlInit

PlayNext ==
  /\ UNCHANGED scene
  /\ \/ scene = "overdub" /\ XsNext /\ UNCHANGED <<xbVars, kbVars, gtVars, cpVars, plVars>>
     \/ scene = "bank" /\ XbNext /\ UNCHANGED <<xsVars, kbVars, gtVars, cpVars, plVars>>
     \/ scene = "band" /\ KbNext /\ UNCHANGED <<xsVars, xbVars, gtVars, cpVars, plVars>>
     \/ scene = "gate" /\ GtNext /\ UNCHANGED <<xsVars, xbVars, kbVars, cpVars, plVars>>
     \/ scene = "cue" /\ CpNext /\ UNCHANGED <<xsVars, xbVars, kbVars, gtVars, plVars>>
     \/ scene = "lamps" /\ PlNext /\ UNCHANGED <<xsVars, xbVars, kbVars, gtVars, cpVars>>

PlaySpec ==
  /\ PlayInit /\ [][PlayNext]_playVars
  /\ WF_xbVars(scene = "bank" /\ XbTick)
  /\ WF_kbVars(scene = "band" /\ KbTick)
  /\ WF_plVars(scene = "lamps" /\ PlTick)
  /\ WF_plVars(scene = "lamps" /\ PlDanceEnds)
=============================================================================
