---------------------------- MODULE SettingsRecord ----------------------------
(***************************************************************************)
(* The settings record (core/common.c): saved by the menu on the message     *)
(* thread and by the stem separator's thread, which learns the server's id,   *)
(* through one temporary name, with the previous record kept as .BAK; read     *)
(* once, at start.                                                         *)
(*                                                                         *)
(* A record is the count of the changes it holds; the defaults are 0, and a       *)
(* record that fails a check is torn.  Names move at once and survive a power cut;  *)
(* what was written survives when it was synced.  Left out: the fields.        *)
(***************************************************************************)
EXTENDS Integers

CONSTANTS SrSavers, SrMaxChanges, SrMaxCuts

ASSUME SrAssumption == SrMaxChanges \in Nat /\ SrMaxCuts \in Nat

VARIABLES srMemory,           \* the settings in memory
          srPath, srTmp, srBak,   \* the file behind each name
          srData, srDurable,  \* by file: what is in it, and what a power cut leaves
          srAt, srFd, srTaken,    \* by saver: its next step, its open file, its snapshot
          srKept,             \* (history) the newest change whose save completed
          srChanges, srCuts

srVars == <<srMemory, srPath, srTmp, srBak, srData, srDurable, srAt, srFd, srTaken, srKept, srChanges, srCuts>>

NoFile == 0
Names == 1..SrMaxChanges
Torn == -1
Defaults == 0

SrInit ==
  /\ srMemory = Defaults /\ srPath = NoFile /\ srTmp = NoFile /\ srBak = NoFile
  /\ srData = [f \in Names |-> Torn] /\ srDurable = srData
  /\ srAt = [w \in SrSavers |-> "rest"] /\ srFd = [w \in SrSavers |-> NoFile]
  /\ srTaken = [w \in SrSavers |-> Defaults]
  /\ srKept = 0 /\ srChanges = 0 /\ srCuts = 0

Walks(w, from, to) == srAt[w] = from /\ srAt' = [srAt EXCEPT ![w] = to]

-----------------------------------------------------------------------------
(* mods_settings_save, one system call at a time.                           *)

\* A row or the server's id changes, and the record is composed.
SrChange(w) ==
  /\ srChanges < SrMaxChanges /\ srChanges' = srChanges + 1 /\ srMemory' = srChanges'
  /\ Walks(w, "rest", "open") /\ srTaken' = [srTaken EXCEPT ![w] = srMemory']
  /\ UNCHANGED <<srPath, srTmp, srBak, srData, srDurable, srFd, srKept, srCuts>>

\* O_CREAT | O_TRUNC: the file of that name is emptied, or there is a new one, told
\* from the others by the change it is made for.  The open may be refused.
SrOpens(w) ==
  /\ LET f == IF srTmp # NoFile THEN srTmp ELSE srTaken[w]
     IN  /\ Walks(w, "open", "write") /\ srTmp' = f /\ srFd' = [srFd EXCEPT ![w] = f]
         /\ srData' = [srData EXCEPT ![f] = Torn] /\ srDurable' = [srDurable EXCEPT ![f] = Torn]
  /\ UNCHANGED <<srMemory, srPath, srBak, srTaken, srKept, srChanges, srCuts>>
SrCannotOpen(w) ==
  /\ Walks(w, "open", "rest")
  /\ UNCHANGED <<srMemory, srPath, srTmp, srBak, srData, srDurable, srFd, srTaken, srKept, srChanges, srCuts>>

SrWrites(w) ==
  /\ Walks(w, "write", "sync") /\ srData' = [srData EXCEPT ![srFd[w]] = srTaken[w]]
  /\ UNCHANGED <<srMemory, srPath, srTmp, srBak, srDurable, srFd, srTaken, srKept, srChanges, srCuts>>
\* A full partition: the temporary goes and nothing is persisted.
SrPartitionFull(w) ==
  /\ Walks(w, "write", "rest") /\ srFd' = [srFd EXCEPT ![w] = NoFile]
  /\ srData' = [srData EXCEPT ![srFd[w]] = Torn] /\ srTmp' = NoFile
  /\ UNCHANGED <<srMemory, srPath, srBak, srDurable, srTaken, srKept, srChanges, srCuts>>

SyncSkipped(w) ==   \* seeded fault: no fsync before the renames
  /\ Walks(w, "sync", "aside")
  /\ UNCHANGED <<srMemory, srPath, srTmp, srBak, srData, srDurable, srFd, srTaken, srKept, srChanges, srCuts>>
SrSyncs(w) ==
  /\ Walks(w, "sync", "aside")
  /\ srDurable' = [srDurable EXCEPT ![srFd[w]] = srData[srFd[w]]]
  /\ UNCHANGED <<srMemory, srPath, srTmp, srBak, srData, srFd, srTaken, srKept, srChanges, srCuts>>

\* rename(PATH, .BAK): nothing happens when there is no PATH.
SrAside(w) ==
  /\ Walks(w, "aside", "put") /\ srPath' = NoFile
  /\ srBak' = IF srPath = NoFile THEN srBak ELSE srPath
  /\ UNCHANGED <<srMemory, srTmp, srData, srDurable, srFd, srTaken, srKept, srChanges, srCuts>>

\* rename(.new, PATH): refused when the name is gone.
SrPuts(w) ==
  /\ Walks(w, "put", "rest") /\ srFd' = [srFd EXCEPT ![w] = NoFile] /\ srTmp' = NoFile
  /\ srPath' = IF srTmp = NoFile THEN srPath ELSE srTmp
  /\ srKept' = IF srTmp = NoFile \/ srTaken[w] < srKept THEN srKept ELSE srTaken[w]
  /\ UNCHANGED <<srMemory, srBak, srData, srDurable, srTaken, srChanges, srCuts>>

-----------------------------------------------------------------------------
(* The power and the start.                                                 *)

SrPowerCut ==
  /\ srCuts < SrMaxCuts /\ srCuts' = srCuts + 1
  /\ srData' = srDurable
  \* mods_settings_load: the record if it validates, else every default.
  /\ srMemory' = IF srPath = NoFile \/ srDurable[srPath] = Torn THEN Defaults
                 ELSE srDurable[srPath]
  /\ srAt' = [w \in SrSavers |-> "rest"] /\ srFd' = [w \in SrSavers |-> NoFile]
  /\ srTaken' = [w \in SrSavers |-> Defaults]
  /\ UNCHANGED <<srPath, srTmp, srBak, srDurable, srKept, srChanges>>

SrNext ==
  \/ \E w \in SrSavers :
       SrChange(w) \/ SrOpens(w) \/ SrCannotOpen(w) \/ SrWrites(w) \/ SrPartitionFull(w)
         \/ SrSyncs(w) \/ SrAside(w) \/ SrPuts(w)
  \/ SrPowerCut
SrSpec == SrInit /\ [][SrNext]_srVars

-----------------------------------------------------------------------------
(* Properties.                                                              *)

\* "A power cut can lose the new value but never leave a half-written one"
\* (common.c:659-660): whatever the cut, the record in place validates.
NeverHalfWritten == srPath # NoFile => srDurable[srPath] # Torn

\* "... and the previous copy stays as .BAK": once a save has completed, a cut leaves
\* that record, or a later one, under one of the two names.
ACopyStays ==
  srKept > 0 => \E f \in {srPath, srBak} \ {NoFile} :
                   srDurable[f] # Torn /\ srDurable[f] >= srKept

\* The promise of the save's comment, whole (common.c:659-660).
CutsLoseOneChange == NeverHalfWritten /\ ACopyStays

\* A cut loses the new value at most: with every saver at rest the record in place is
\* as new as the last save that completed, so the next start finds it.
TheNextStartFindsIt ==
  srKept > 0 /\ (\A w \in SrSavers : srAt[w] = "rest")
     => srPath # NoFile /\ srData[srPath] # Torn /\ srData[srPath] >= srKept
=============================================================================
