---------------------------- MODULE MCMedia ----------------------------
(* The components a pair of stems passes through on its way to the ear: the *)
(* track that plays, the entry cache on a stick, the decode, the groove     *)
(* table, the offline pair.                                                 *)
EXTENDS StemCache, GrooveCircuit, PreStems, StemSource,
        StemDecode

VARIABLE scene   \* the component that moves; the others stay as they start

\* Two decks' sticks, with a line for a loop that is not there and one that does
\* not decode.
L(s, d) == [slot |-> s, decodes |-> d]
MCConfig == [A |-> <<L("1", FALSE), L("1", TRUE), L("bad", TRUE)>>, B |-> <<L("1", TRUE), L("2", TRUE)>>]
\* Two tracks the pool tells apart in both words.
MCIds == [a |-> <<1, 1>>, b |-> <<2, 2>>]

Scenes == {"cache", "groove", "offline", "source", "decode"}
mediaVars == <<scene, scVars, gcVars, psVars, soVars, sdVars>>

MediaInit ==
  /\ scene \in Scenes
  /\ ScInit /\ GcInit /\ PsInit /\ SoInit /\ SdInit
  /\ (scene # "groove" => gcRate = 0 /\ gcMounted = [p \in GcPaths |-> NoStick])
  /\ (scene # "decode" => sdFile = [p \in Parts |-> "sound"])

MediaNext ==
  /\ UNCHANGED scene
  /\ \/ scene = "cache" /\ ScNext /\ UNCHANGED <<gcVars, psVars, soVars, sdVars>>
     \/ scene = "groove" /\ GcNext /\ UNCHANGED <<scVars, psVars, soVars, sdVars>>
     \/ scene = "offline" /\ PsNext /\ UNCHANGED <<scVars, gcVars, soVars, sdVars>>
     \/ scene = "source" /\ SoNext /\ UNCHANGED <<scVars, gcVars, psVars, sdVars>>
     \/ scene = "decode" /\ SdNext /\ UNCHANGED <<scVars, gcVars, psVars, soVars>>

MediaSpec ==
  /\ MediaInit /\ [][MediaNext]_mediaVars
  /\ WF_gcVars(scene = "groove" /\ GcMix)
  /\ WF_gcVars(scene = "groove" /\ GcLoad)
  /\ SF_gcVars(scene = "groove" /\ GcUnload)
  /\ WF_psVars(scene = "offline" /\ PsTick)
  /\ SF_psVars(scene = "offline" /\ PsWorks)
  /\ WF_psVars(scene = "offline" /\ PsReads)
  /\ WF_psVars(scene = "offline" /\ PsPaints)
  /\ (scene = "offline" => []<>NobodyIsIn)
=============================================================================
