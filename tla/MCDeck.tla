---------------------------- MODULE MCDeck ----------------------------
(* The components that own what the application looks like and starts from: *)
(* the theme's images, the settings record, the patches, the installer.     *)
EXTENDS ThemeImages, SettingsRecord, HookJournal, Updater

VARIABLE scene   \* the component that moves; the others stay as they start

\* Three mods over the same places, some of whose patches a mod can do without.
P(pl, n) == [place |-> pl, needed |-> n]
MCMods == <<<<P("fill", TRUE), P("draw", FALSE), P("paint", TRUE)>>,
            <<P("paint", TRUE), P("fill", FALSE), P("paint", TRUE)>>,
            <<P("draw", TRUE), P("fill", TRUE)>>>>

Scenes == {"theme", "settings", "hooks", "updater"}
deckVars == <<scene, tiVars, srVars, hjVars, udVars>>

DeckInit ==
  /\ scene \in Scenes
  /\ TiInit /\ SrInit /\ HjInit /\ UdInit

DeckNext ==
  /\ UNCHANGED scene
  /\ \/ scene = "theme" /\ TiNext /\ UNCHANGED <<srVars, hjVars, udVars>>
     \/ scene = "settings" /\ SrNext /\ UNCHANGED <<tiVars, hjVars, udVars>>
     \/ scene = "hooks" /\ HjNext /\ UNCHANGED <<tiVars, srVars, udVars>>
     \/ scene = "updater" /\ UdNext /\ UNCHANGED <<tiVars, srVars, hjVars>>

DeckSpec ==
  /\ DeckInit /\ [][DeckNext]_deckVars
  /\ WF_udVars(scene = "updater" /\ UdSteps)
=============================================================================
