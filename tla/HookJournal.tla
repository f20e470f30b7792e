----------------------------- MODULE HookJournal -----------------------------
(***************************************************************************)
(* Installing the mods (core/common.c): in order of priority each one         *)
(* repoints vtable slots and function heads at wrappers, each patch journalled  *)
(* with its owner; a mod that refuses has its patches put back.                *)
(*                                                                         *)
(* A place is a slot or a function head; it holds a wrapper, named by its mod     *)
(* and its turn in that mod, or the stock code, and a wrapper calls what its      *)
(* patch found.  Left out: addresses, the displaced prologue, patches made while  *)
(* the deck runs, and a page mod_prot cannot make writable for a restore.          *)
(***************************************************************************)
EXTENDS Naturals, Sequences, FiniteSets, FiniteSetsExt

CONSTANTS HjPlaces,   \* the slots and function heads
          HjMods,     \* in order of priority: for each mod its patches
          HjRoom      \* MOD_PATCH_MAX

ASSUME HjAssumption ==
  /\ HjRoom \in Nat
  /\ HjMods \in Seq(Seq([place : HjPlaces, needed : BOOLEAN]))
  /\ \A k \in DOMAIN HjMods : HjMods[k] # <<>>

VARIABLES hjMod, hjTurn,   \* the mod being installed and its next patch
          hjHolds,         \* what each place holds
          hjCalls,         \* what each wrapper calls (the saved pointer, the trampoline)
          hjJournal,       \* g_patch: place, orig, owner; orig is 0 once undone
          hjInstalled      \* the mods whose install returned 0

hjVars == <<hjMod, hjTurn, hjHolds, hjCalls, hjJournal, hjInstalled>>

StockCode == <<0, 0>>
Undone == <<0, 1>>
Wrappers == UNION {{k} \X DOMAIN HjMods[k] : k \in DOMAIN HjMods}

HjInit ==
  /\ hjMod = 1 /\ hjTurn = 1
  /\ hjHolds = [p \in HjPlaces |-> StockCode] /\ hjCalls = [w \in Wrappers |-> StockCode]
  /\ hjJournal = <<>> /\ hjInstalled = {}

Installing == hjMod \in DOMAIN HjMods /\ hjTurn \in DOMAIN HjMods[hjMod]
Patch == HjMods[hjMod][hjTurn]
\* The next patch, or the install returns 0 and the next mod begins.
Advances ==
  IF hjTurn = Len(HjMods[hjMod])
  THEN hjMod' = hjMod + 1 /\ hjTurn' = 1 /\ hjInstalled' = hjInstalled \cup {hjMod}
  ELSE hjTurn' = hjTurn + 1 /\ UNCHANGED <<hjMod, hjInstalled>>

\* mod_patch_slot, _vslot, _exec_slot and _fn: journalled before it can be needed.
HjPatches ==
  /\ Installing /\ Len(hjJournal) < HjRoom
  /\ hjHolds' = [hjHolds EXCEPT ![Patch.place] = <<hjMod, hjTurn>>]
  /\ hjCalls' = [hjCalls EXCEPT ![<<hjMod, hjTurn>>] = hjHolds[Patch.place]]
  /\ hjJournal' = Append(hjJournal,
       [place |-> Patch.place, orig |-> hjHolds[Patch.place], owner |-> hjMod])
  /\ Advances

\* A place that cannot be read or written, an instruction that cannot be moved, a
\* full journal: nothing is written, and a mod may do without that patch.
HjGoesWithout ==
  /\ Installing /\ ~Patch.needed /\ Advances
  /\ UNCHANGED <<hjHolds, hjCalls, hjJournal>>

\* mod_unpatch_owner, newest first: the oldest patch of a place has the last word.
Live(p) == {n \in DOMAIN hjJournal : hjJournal[n].place = p /\ hjJournal[n].orig # Undone}
PutBack(mod) ==
  [p \in HjPlaces |->
     LET own == {n \in Live(p) : hjJournal[n].owner = mod}
     IN  IF own = {} THEN hjHolds[p] ELSE hjJournal[Min(own)].orig]

\* A needed patch fails: the mod's patches are put back and the next mod begins.
RefusalForgotten ==   \* seeded fault: a refused mod keeps what it had patched
  /\ Installing /\ Patch.needed /\ hjMod' = hjMod + 1 /\ hjTurn' = 1
  /\ UNCHANGED <<hjHolds, hjCalls, hjJournal, hjInstalled>>
HjRefuses ==
  /\ Installing /\ Patch.needed
  /\ hjMod' = hjMod + 1 /\ hjTurn' = 1
  /\ hjHolds' = PutBack(hjMod)
  /\ hjJournal' = [n \in DOMAIN hjJournal |->
       IF hjJournal[n].owner = hjMod THEN [hjJournal[n] EXCEPT !.orig = Undone] ELSE hjJournal[n]]
  /\ UNCHANGED <<hjCalls, hjInstalled>>

HjNext == HjPatches \/ HjGoesWithout \/ HjRefuses
HjSpec == HjInit /\ [][HjNext]_hjVars

-----------------------------------------------------------------------------
(* Properties.                                                              *)

\* What runs when the app reaches a place: the least set with what the place holds
\* and, for every wrapper in it, what that wrapper saved.
Closed(S) == \A w \in S \ {StockCode} : hjCalls[w] \in S
InUse == {hjHolds[p] : p \in HjPlaces} \cup {hjCalls[w] : w \in Wrappers}
Chain(p) ==
  LET closed == {S \in SUBSET InUse : hjHolds[p] \in S /\ Closed(S)}
  IN  {w \in InUse : \A S \in closed : w \in S}

\* A refused mod leaves nothing of itself and cuts nobody else off: from every place
\* the calls reach the stock code, through the wrappers the journal holds for it and
\* no others, of mods that installed or are installing (common.c:847-857).
RefusedMeansStock ==
  \A p \in HjPlaces :
    LET chain == Chain(p) IN
    /\ StockCode \in chain
    /\ \A w \in chain \ {StockCode} : w[1] \in hjInstalled \cup {hjMod}
    /\ Cardinality(chain \ {StockCode}) = Cardinality(Live(p))
=============================================================================
