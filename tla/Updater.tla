------------------------------- MODULE Updater -------------------------------
(***************************************************************************)
(* Installing and removing the mods (updater/src): usb_update.sh stages an     *)
(* overlay archive, phase1.sh and phase2.sh rewrite it on the next two boots,   *)
(* payload.sh runs in front of the deck's own launcher from then on, and         *)
(* native-launch.sh tries the companion; uninstall.sh and service mode remove it. *)
(*                                                                         *)
(* /home/root is the archive over the stock system, merged at boot.  An archive    *)
(* is what it shadows.  External: the deck's boot, its service manager, which      *)
(* starts a launcher that ended again, how much room the partition has, and the      *)
(* hand on the power switch, which owes nothing.  Left out: the screens, the lamp,   *)
(* the SSH key, where the partitions are.                                    *)
(***************************************************************************)
EXTENDS Naturals

CONSTANTS UdMaxInstalls, UdMaxFaults   \* bounds: installations; power cuts, crashes,
                                       \* and times the partition fills up

ASSUME UdAssumption == {UdMaxInstalls, UdMaxFaults} \subseteq Nat

VARIABLES udDeck,       \* what the firmware is like, unknown until the stick is in it
          udArchive,    \* pdj.tar.gz
          udNew,        \* pdj.tar.gz.new
          udDisabled, udLogs, udSettings,   \* the other files of ours
          udBoot,       \* the archive merged at this boot, or the deck is off
          udAt,         \* the script that runs
          udWrites,     \* the archive it is about to put in place
          udUp,         \* what the deck ended up running
          udFull,       \* the overlay's partition has no room for another archive
          udCrashed, udRemoved,    \* (history) since the last installation
          udUnmarked,   \* (history) a crash whose marker did not reach the medium
          udInstalls, udFaults

udVars == <<udDeck, udArchive, udNew, udDisabled, udLogs, udSettings, udBoot, udAt, udWrites, udUp,
            udFull, udCrashed, udRemoved, udUnmarked, udInstalls, udFaults>>
udHistory == <<udCrashed, udRemoved, udUnmarked>>

NoArchive == [launcher |-> "stock", app |-> "stock", below |-> "-", companion |-> FALSE, whole |-> TRUE]
Off == [launcher |-> "off"]
Nothing == "nothing"
\* One application, one line that starts it, a build the companion was made for,
\* and the model that a script can restart.
Decks == [oneApp : BOOLEAN, oneLine : BOOLEAN, exactBuild : BOOLEAN, reboots : BOOLEAN]
Unknown == [oneApp |-> "unknown"]

UdInit ==
  /\ udDeck = Unknown /\ udArchive = NoArchive /\ udNew = "none"
  /\ udDisabled = FALSE /\ udLogs = FALSE /\ udSettings = FALSE
  /\ udBoot = Off /\ udAt = "off" /\ udWrites = NoArchive /\ udUp = Nothing
  /\ udFull = FALSE /\ udCrashed = FALSE /\ udRemoved = FALSE /\ udUnmarked = FALSE
  /\ udInstalls = 0 /\ udFaults = 0

Faults == udFaults < UdMaxFaults /\ udFaults' = udFaults + 1
Files == <<udArchive, udNew, udDisabled, udLogs, udSettings>>

-----------------------------------------------------------------------------
(* Every archive is written beside the one in place, synced and renamed.      *)

Packs == udAt \in {"install", "phase1", "phase2"}
OnlyFiles == UNCHANGED <<udDeck, udDisabled, udLogs, udSettings, udBoot, udWrites, udUp, udFull, udHistory,
                         udInstalls, udFaults>>

\* tar -czf .new, into the page cache.
UdTars ==
  /\ Packs /\ ~udFull /\ udNew' = "cached" /\ udAt' = "syncs"
  /\ UNCHANGED udArchive /\ OnlyFiles
\* There is no room, and set -e ends the script: at each of its starts, as long as
\* there is none.  In the update mode the failure stays on the screen.
UdTarFails ==
  /\ Packs /\ udFull /\ udNew' = "torn" /\ udAt' = IF udBoot = Off THEN "asks" ELSE "ended"
  /\ UNCHANGED udArchive /\ OnlyFiles
UdSyncs ==
  /\ udAt = "syncs" /\ udNew' = "whole" /\ udAt' = "renames"
  /\ UNCHANGED udArchive /\ OnlyFiles
\* The rename and what follows it: one model reboots, the other asks for the switch;
\* there, the unsupported firmware ends with exit 1 (phase1.sh:75).
UdRenames ==
  /\ udAt = "renames"
  /\ udArchive' = [udWrites EXCEPT !.whole = udNew = "whole"] /\ udNew' = "none"
  /\ udAt' = IF udBoot = Off THEN "asks" ELSE IF udDeck.reboots THEN "rebooting"
             ELSE IF udBoot.launcher = "phase1" /\ ~udDeck.oneApp THEN "ended" ELSE "asks"
  /\ OnlyFiles

-----------------------------------------------------------------------------
(* From the stick: the deck is in its update mode.                          *)

\* usb_update.sh builds the overlay fresh, over whatever is there.
UdInstall(d) ==
  /\ udAt = "off" /\ udInstalls < UdMaxInstalls /\ udInstalls' = udInstalls + 1
  /\ (udDeck = Unknown \/ udDeck = d) /\ udDeck' = d
  /\ udAt' = "install" /\ udLogs' = TRUE /\ udRemoved' = FALSE
  /\ udWrites' = [launcher |-> "phase1", app |-> "stock", below |-> "-", companion |-> FALSE, whole |-> TRUE]
  /\ UNCHANGED <<udArchive, udNew, udDisabled, udSettings, udBoot, udUp, udFull, udCrashed, udUnmarked, udFaults>>

\* uninstall.sh
UdUninstall ==
  /\ udAt = "off" /\ udArchive # NoArchive
  /\ udArchive' = NoArchive /\ udLogs' = FALSE /\ udSettings' = FALSE /\ udCrashed' = FALSE /\ udRemoved' = TRUE
  /\ UNCHANGED <<udDeck, udNew, udDisabled, udBoot, udAt, udWrites, udUp, udFull, udUnmarked, udInstalls, udFaults>>

-----------------------------------------------------------------------------
(* A boot: /home/root/scripts/apl_start.sh runs, ours or the deck's.         *)

OnlyPower == UNCHANGED <<Files, udDeck, udWrites, udFull, udCrashed, udRemoved, udInstalls>>

\* The overlay is merged: by the hand, or by a phase's systemctl reboot.
Boots == udBoot' = udArchive /\ udAt' = "launcher" /\ UNCHANGED <<udUp, udUnmarked, udFaults>> /\ OnlyPower
UdSwitchedOn == udAt = "off" /\ Boots
UdReboots ==
  \/ udAt = "rebooting" /\ udBoot # Off /\ udBoot' = Off /\ UNCHANGED <<udAt, udUp, udUnmarked, udFaults>> /\ OnlyPower
  \/ udAt = "rebooting" /\ udBoot = Off /\ Boots
\* A script that failed is started again.
UdStartsAgain ==
  /\ udAt = "ended" /\ udAt' = "launcher" /\ UNCHANGED <<udBoot, udUp, udUnmarked, udFaults>> /\ OnlyPower
\* The hand, where a script asks for it, has failed, or the deck has come up.
UdSwitchedOff ==
  /\ udAt \in {"asks", "ended", "up"} /\ udAt' = "off" /\ udBoot' = Off /\ udUp' = Nothing
  /\ UNCHANGED <<udUnmarked, udFaults>> /\ OnlyPower
\* Anywhere else; what was not synced may be lost.
UdPowerCut ==
  /\ udAt \notin {"off", "asks", "ended", "up"} /\ Faults /\ udAt' = "off" /\ udBoot' = Off /\ udUp' = Nothing
  /\ udNew' = IF udNew = "cached" THEN "torn" ELSE udNew
  /\ udDisabled' \in IF udAt = "marked" THEN BOOLEAN ELSE {udDisabled}
  /\ udUnmarked' = (udUnmarked \/ udAt \in {"crashed", "marked"})
  /\ UNCHANGED <<udArchive, udLogs, udSettings, udDeck, udWrites, udFull, udCrashed, udRemoved, udInstalls>>

\* The partition is shared with others: it fills up, and is cleared or not.
UdFills ==
  /\ ~udFull /\ Faults /\ udFull' = TRUE
  /\ UNCHANGED <<Files, udDeck, udBoot, udAt, udWrites, udUp, udHistory, udInstalls>>
UdIsCleared ==
  /\ udFull /\ udFull' = FALSE
  /\ UNCHANGED <<Files, udDeck, udBoot, udAt, udWrites, udUp, udHistory, udInstalls, udFaults>>

Runs(what) == udAt' = "up" /\ udUp' = what

\* phase1.sh: out of its own way, phase2 in the application's place; on a firmware
\* without exactly one application, out of its own way only.
Unpacks == udAt = "launcher" /\ udBoot.launcher = "phase1"
OnlyBegins == UNCHANGED <<udArchive, udNew, udLogs, udSettings, udDeck, udBoot, udUp, udFull, udRemoved, udInstalls, udFaults>>
Phase1StaysInPlace ==   \* seeded fault: the staged launcher is packed again
  /\ Unpacks /\ udAt' = "phase1"
  /\ udWrites' = [udArchive EXCEPT !.app = IF udDeck.oneApp THEN "phase2" ELSE "stock"]
  /\ UNCHANGED <<udDisabled, udCrashed, udUnmarked>> /\ OnlyBegins
UdPhase1 ==
  /\ Unpacks /\ udArchive.launcher = "phase1" /\ udAt' = "phase1"
  /\ udWrites' = [udArchive EXCEPT !.launcher = "stock", !.app = IF udDeck.oneApp THEN "phase2" ELSE "stock"]
  /\ UNCHANGED <<udDisabled, udCrashed, udUnmarked>> /\ OnlyBegins
\* Started again behind its own archive, it finds nothing to remove (phase1.sh:52).
UdPhase1Again ==
  /\ Unpacks /\ udArchive.launcher # "phase1" /\ udAt' = "ended"
  /\ UNCHANGED <<udWrites, udDisabled, udCrashed, udUnmarked>> /\ OnlyBegins

\* The deck's own launcher: the application, which may be phase2, or the test mode.
UdStockLauncher(service) ==
  /\ udAt = "launcher" /\ udBoot.launcher = "stock" /\ (service \/ udBoot.app = "stock")
  /\ Runs(IF service THEN "test mode" ELSE "stock")
  /\ UNCHANGED <<Files, udDeck, udBoot, udWrites, udFull, udHistory, udInstalls, udFaults>>

\* phase2.sh: out of its own way, and the payload in front of the launcher it finds,
\* with the companion for a build it was made for; else nothing at all.
UdPhase2 ==
  /\ udAt = "launcher" /\ udBoot.launcher = "stock" /\ udBoot.app = "phase2" /\ udAt' = "phase2"
  /\ udWrites' = IF udDeck.oneLine
                 THEN [udArchive EXCEPT !.app = "stock", !.launcher = "payload", !.below = udBoot.launcher,
                                        !.companion = udDeck.exactBuild]
                 ELSE [udArchive EXCEPT !.app = "stock"]
  /\ udDisabled' = IF udDeck.oneLine /\ udDeck.exactBuild THEN FALSE ELSE udDisabled
  /\ udCrashed' = FALSE /\ udUnmarked' = FALSE
  /\ OnlyBegins

\* payload.sh in service mode: the mods go, and the test mode comes up.
UdServiceRemoves ==
  /\ udAt = "launcher" /\ udBoot.launcher = "payload"
  /\ udArchive' = NoArchive /\ udLogs' = FALSE /\ udSettings' = FALSE /\ Runs("test mode")
  /\ udCrashed' = FALSE /\ udRemoved' = TRUE
  /\ UNCHANGED <<udNew, udDisabled, udDeck, udBoot, udWrites, udFull, udUnmarked, udInstalls, udFaults>>

\* payload.sh, and the application line phase2 wrote; the deck is used.
UdPayload ==
  /\ udAt = "launcher" /\ udBoot.launcher = "payload"
  /\ udLogs' = TRUE /\ udSettings' = TRUE
  /\ Runs(IF udBoot.companion /\ ~udDisabled THEN "companion" ELSE "shim")
  /\ UNCHANGED <<udArchive, udNew, udDisabled, udDeck, udBoot, udWrites, udFull, udHistory, udInstalls, udFaults>>

\* native-launch.sh: EP122 ends badly with the companion in it; the marker, which a
\* full partition may refuse; the sync, and the launch without it.
OnlyRuns == UNCHANGED <<udArchive, udNew, udLogs, udSettings, udDeck, udBoot, udWrites, udFull, udRemoved, udInstalls>>
UdCompanionCrashes ==
  /\ udAt = "up" /\ udUp = "companion" /\ Faults /\ udCrashed' = TRUE
  /\ udAt' = "crashed" /\ udUp' = Nothing
  /\ UNCHANGED <<udDisabled, udUnmarked>> /\ OnlyRuns
UdMarks ==
  /\ udAt = "crashed" /\ udAt' = "marked"
  /\ udDisabled' = TRUE \/ (udFull /\ UNCHANGED udDisabled)
  /\ UNCHANGED <<udUp, udCrashed, udUnmarked, udFaults>> /\ OnlyRuns
UdFallsBack ==
  /\ udAt = "marked" /\ Runs("shim") /\ udUnmarked' = ~udDisabled
  /\ UNCHANGED <<udDisabled, udCrashed, udFaults>> /\ OnlyRuns
\* Any application that ends is started again through the launcher.
UdAppEnds ==
  /\ udAt = "up" /\ Faults /\ udAt' = "launcher" /\ udUp' = Nothing
  /\ UNCHANGED <<Files, udDeck, udBoot, udWrites, udFull, udHistory, udInstalls>>

\* What runs by itself on a deck that is on: the scripts, the restarts, the launch.
UdSteps ==
  \/ UdTars \/ UdTarFails \/ UdSyncs \/ UdRenames \/ UdReboots \/ UdStartsAgain
  \/ UdPhase1 \/ UdPhase1Again \/ UdPhase2 \/ UdPayload
  \/ UdMarks \/ UdFallsBack \/ \E s \in BOOLEAN : UdStockLauncher(s)
UdNext ==
  \/ UdSteps \/ UdServiceRemoves \/ UdSwitchedOn \/ UdSwitchedOff \/ UdPowerCut
  \/ UdFills \/ UdIsCleared \/ UdUninstall \/ UdCompanionCrashes \/ UdAppEnds
  \/ \E d \in Decks : UdInstall(d)
UdSpec == UdInit /\ [][UdNext]_udVars /\ WF_udVars(UdSteps)

-----------------------------------------------------------------------------
(* Properties.                                                              *)

\* "An interrupted write loses the new archive, not the working one"
\* (usb_update.sh:169-170), and the runtime launcher is the payload in front of the
\* deck's own: never in front of one of ours, which would start the application of
\* another phase (phase1.sh:52, phase2.sh:38-41).
LauncherWrapsTheDecks ==
  /\ udArchive.whole
  /\ udArchive.launcher = "payload" => udArchive.below = "stock" /\ udArchive.app = "stock"

\* A deck with room for an archive comes up with an application, whatever was cut
\* and whatever crashed: the model that reboots by itself once it is switched on,
\* the other if the hand does what the screen asks.  While the partition is full a
\* phase cannot get out of its own way, and there is no application.
DeckComesUp ==
  <>[]~udFull =>
    /\ udAt = "launcher" /\ (udDeck # Unknown => udDeck.reboots) ~> udUp # Nothing \/ udAt = "off"
    /\ []<>(udBoot = Off \/ udUp # Nothing) /\ []<>(udBoot # Off) => []<>(udUp # Nothing)

\* "Any non-zero EP122 exit permanently disables the Gate companion"
\* (native-launch.sh:5-6): after a crash the companion is not run again before it
\* is installed again, unless the power went before the marker was synced or the
\* partition had no room for it.
CompanionTriedOnce == [][udUp' = "companion" => ~udCrashed \/ udUnmarked]_udVars

\* Whatever is cut or crashes, the installed launcher is whole and wraps the deck's
\* own, the deck comes up, and a companion that crashed is left alone.
InstallIsSafe == []LauncherWrapsTheDecks /\ CompanionTriedOnce /\ DeckComesUp

\* native-launch.sh:5-6 and 61-62 as they stand, which a cut between the crash and
\* the marker refutes.
CrashIsRemembered == [][udUp' = "companion" => ~udCrashed]_udVars

\* "Going back to stock should leave nothing behind" (uninstall.sh:82).
StockLeavesNothing ==
  udRemoved /\ udAt = "off" => udNew = "none" /\ ~udDisabled /\ ~udLogs /\ ~udSettings
=============================================================================
