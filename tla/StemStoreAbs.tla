---------------------------- MODULE StemStoreAbs ----------------------------
(***************************************************************************)
(* What package/deck/mods/stem/store.c promises its readers, with no        *)
(* counters and no waits: at most one set is resident, a reader takes the   *)
(* resident set in one step and keeps it until it lets go, and a set is     *)
(* freed only when it is neither resident nor in a reader's hands.          *)
(***************************************************************************)
CONSTANTS Readers, Sets, NoSet

VARIABLES resident,  \* the set a reader would be given now
          live,      \* the complete sets that have not been freed
          holding    \* the set each reader has

absVars == <<resident, live, holding>>

AbsInit == resident = NoSet /\ live = {} /\ holding = [r \in Readers |-> NoSet]

Take(r) ==
  /\ holding[r] = NoSet
  /\ resident # NoSet
  /\ holding' = [holding EXCEPT ![r] = resident]
  /\ UNCHANGED <<resident, live>>

LetGo(r) ==
  /\ holding[r] # NoSet
  /\ holding' = [holding EXCEPT ![r] = NoSet]
  /\ UNCHANGED <<resident, live>>

Build ==
  /\ \E s \in Sets \ live : live' = live \cup {s}
  /\ UNCHANGED <<resident, holding>>

Withdraw == resident # NoSet /\ resident' = NoSet /\ UNCHANGED <<live, holding>>

Offer ==
  /\ resident = NoSet
  /\ resident' \in live
  /\ \A r \in Readers : holding[r] # resident'
  /\ UNCHANGED <<live, holding>>

Free ==
  /\ \E s \in live \ {resident} :
       /\ \A r \in Readers : holding[r] # s
       /\ live' = live \ {s}
  /\ UNCHANGED <<resident, holding>>

AbsNext == (\E r \in Readers : Take(r) \/ LetGo(r)) \/ Build \/ Withdraw \/ Offer \/ Free

AbsSpec == AbsInit /\ [][AbsNext]_absVars
=============================================================================
