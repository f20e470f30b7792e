----------------------------- MODULE StemStore -----------------------------
(***************************************************************************)
(* package/deck/mods/stem/store.c: the one decoded stem set the audio       *)
(* thread mixes from, and how its memory is reclaimed.                      *)
(*                                                                         *)
(* Readers are the threads that bracket their use of the set with           *)
(* stem_store_acquire / stem_store_release (the audio thread's mix and the  *)
(* waveform worker's analysis).  Probers are threads that call              *)
(* stem_store_rate, which dereferences the set with no such bracket.  The   *)
(* loader is the only writer: stem_store_publish and stem_store_release_all.*)
(* Every atomic access of the C code is one action.                         *)
(*                                                                         *)
(* Left out: the decode itself (its verdict is a choice between DecodeOk    *)
(* and DecodeFail), the sample data, the waits before the decode, and the   *)
(* calloc that fails before anything changed.  Sets is the set of heap      *)
(* addresses a stem_set can have: an address that was freed is reused.      *)
(***************************************************************************)
EXTENDS Naturals, FiniteSets

CONSTANTS Readers,   \* threads that acquire and release
          Probers,   \* threads that call stem_store_rate
          Sets,      \* addresses a stem_set can be allocated at
          NoSet,     \* the null pointer
          SpinMax    \* the bound of set_retire's wait (100000 in the code)

ASSUME StoreAssumption == /\ IsFiniteSet(Readers)
                          /\ NoSet \notin Sets
                          /\ SpinMax \in Nat

VARIABLES gSet,    \* g_set
          inuse,   \* g_inuse
          heap,    \* what each address holds: "free", "building" or "built"
          rpc,     \* where each reader stands
          held,    \* the set each reader works on
          probed,  \* the pointer each prober has loaded and not yet read through
          wpc,     \* where the loader stands
          fresh,   \* the set being built, not published yet
          old,     \* the set set_retire took out of g_set
          spins    \* set_retire's loop counter

readerVars == <<rpc, held>>
loaderVars == <<wpc, fresh, old, spins>>
vars == <<gSet, inuse, heap, readerVars, probed, loaderVars>>

Counted == {r \in Readers : rpc[r] # "out"}   \* readers g_inuse stands for
Inside  == {r \in Readers : rpc[r] = "inside"}

TypeOK ==
  /\ gSet \in Sets \cup {NoSet}
  /\ inuse \in Nat
  /\ heap \in [Sets -> {"free", "building", "built"}]
  /\ rpc \in [Readers -> {"out", "counted", "empty", "inside"}]
  /\ held \in [Readers -> Sets \cup {NoSet}]
  /\ probed \in [Probers -> Sets \cup {NoSet}]
  /\ wpc \in {"idle", "building", "exchange", "drain", "reclaim", "install"}
  /\ fresh \in Sets \cup {NoSet}
  /\ old \in Sets \cup {NoSet}
  /\ spins \in 0..SpinMax

Init ==
  /\ gSet = NoSet
  /\ inuse = 0
  /\ heap = [s \in Sets |-> "free"]
  /\ rpc = [r \in Readers |-> "out"]
  /\ held = [r \in Readers |-> NoSet]
  /\ probed = [p \in Probers |-> NoSet]
  /\ wpc = "idle"
  /\ fresh = NoSet
  /\ old = NoSet
  /\ spins = 0

-----------------------------------------------------------------------------
(* The realtime side: stem_store_acquire and stem_store_release.            *)

AcquireCount(r) ==
  /\ rpc[r] = "out"
  /\ inuse' = inuse + 1
  /\ rpc' = [rpc EXCEPT ![r] = "counted"]
  /\ UNCHANGED <<gSet, heap, held, probed, loaderVars>>

AcquireLoad(r) ==
  /\ rpc[r] = "counted"
  /\ rpc' = [rpc EXCEPT ![r] = IF gSet = NoSet THEN "empty" ELSE "inside"]
  /\ held' = [held EXCEPT ![r] = gSet]
  /\ UNCHANGED <<gSet, inuse, heap, probed, loaderVars>>

AcquireBackOut(r) ==
  /\ rpc[r] = "empty"
  /\ inuse' = inuse - 1
  /\ rpc' = [rpc EXCEPT ![r] = "out"]
  /\ UNCHANGED <<gSet, heap, held, probed, loaderVars>>

Release(r) ==
  /\ rpc[r] = "inside"
  /\ inuse' = inuse - 1
  /\ rpc' = [rpc EXCEPT ![r] = "out"]
  /\ held' = [held EXCEPT ![r] = NoSet]
  /\ UNCHANGED <<gSet, heap, probed, loaderVars>>

-----------------------------------------------------------------------------
(* stem_store_rate: a load of the pointer, then a read through it.          *)

RateLoad(p) ==
  /\ probed[p] = NoSet
  /\ gSet # NoSet
  /\ probed' = [probed EXCEPT ![p] = gSet]
  /\ UNCHANGED <<gSet, inuse, heap, readerVars, loaderVars>>

RateRead(p) ==
  /\ probed[p] # NoSet
  /\ probed' = [probed EXCEPT ![p] = NoSet]
  /\ UNCHANGED <<gSet, inuse, heap, readerVars, loaderVars>>

-----------------------------------------------------------------------------
(* The loader: stem_store_publish, stem_store_release_all, set_retire.      *)

BeginPublish ==
  /\ wpc = "idle"
  /\ \E s \in Sets :
       /\ heap[s] = "free"
       /\ heap' = [heap EXCEPT ![s] = "building"]
       /\ fresh' = s
  /\ wpc' = "building"
  /\ UNCHANGED <<gSet, inuse, readerVars, probed, old, spins>>

DecodeOk ==
  /\ wpc = "building"
  /\ heap' = [heap EXCEPT ![fresh] = "built"]
  /\ wpc' = "exchange"
  /\ UNCHANGED <<gSet, inuse, readerVars, probed, fresh, old, spins>>

\* Either stem failed, or the track moved on: the partial set is freed and
\* the resident one is left alone.
DecodeFail ==
  /\ wpc = "building"
  /\ heap' = [heap EXCEPT ![fresh] = "free"]
  /\ fresh' = NoSet
  /\ wpc' = "idle"
  /\ UNCHANGED <<gSet, inuse, readerVars, probed, old, spins>>

BeginReleaseAll ==
  /\ wpc = "idle"
  /\ wpc' = "exchange"
  /\ UNCHANGED <<gSet, inuse, heap, readerVars, probed, fresh, old, spins>>

Exchange ==
  /\ wpc = "exchange"
  /\ old' = gSet
  /\ gSet' = NoSet
  /\ spins' = 0
  /\ wpc' = IF gSet = NoSet THEN "install" ELSE "drain"
  /\ UNCHANGED <<inuse, heap, readerVars, probed, fresh>>

DrainDone ==
  /\ wpc = "drain"
  /\ inuse = 0
  /\ wpc' = "reclaim"
  /\ UNCHANGED <<gSet, inuse, heap, readerVars, probed, fresh, old, spins>>

\* Seeded fault: the wait is not bounded.
DrainSpinForever ==
  /\ wpc = "drain"
  /\ inuse # 0
  /\ UNCHANGED vars

DrainSpin ==
  /\ wpc = "drain"
  /\ inuse # 0
  /\ spins < SpinMax
  /\ spins' = spins + 1
  /\ UNCHANGED <<gSet, inuse, heap, readerVars, probed, wpc, fresh, old>>

\* Seeded fault: giving up on the wait frees the set all the same.
DrainLeakFrees ==
  /\ wpc = "drain"
  /\ inuse # 0
  /\ spins = SpinMax
  /\ wpc' = "reclaim"
  /\ UNCHANGED <<gSet, inuse, heap, readerVars, probed, fresh, old, spins>>

\* Out of patience: the set is abandoned, never freed.
DrainLeak ==
  /\ wpc = "drain"
  /\ inuse # 0
  /\ spins = SpinMax
  /\ old' = NoSet
  /\ wpc' = "install"
  /\ UNCHANGED <<gSet, inuse, heap, readerVars, probed, fresh, spins>>

Reclaim ==
  /\ wpc = "reclaim"
  /\ heap' = [heap EXCEPT ![old] = "free"]
  /\ old' = NoSet
  /\ wpc' = "install"
  /\ UNCHANGED <<gSet, inuse, readerVars, probed, fresh, spins>>

\* The tail of stem_store_publish; stem_store_release_all has nothing to install.
Install ==
  /\ wpc = "install"
  /\ gSet' = fresh
  /\ fresh' = NoSet
  /\ wpc' = "idle"
  /\ UNCHANGED <<inuse, heap, readerVars, probed, old, spins>>

-----------------------------------------------------------------------------
ReaderStep(r) == AcquireCount(r) \/ AcquireLoad(r) \/ AcquireBackOut(r) \/ Release(r)
ProberStep(p) == RateLoad(p) \/ RateRead(p)
Retire        == Exchange \/ DrainDone \/ DrainSpin \/ DrainLeak \/ Reclaim \/ Install
LoaderStep    == BeginPublish \/ DecodeOk \/ DecodeFail \/ BeginReleaseAll \/ Retire

Next == \/ \E r \in Readers : ReaderStep(r)
        \/ \E p \in Probers : ProberStep(p)
        \/ LoaderStep

Spec == Init /\ [][Next]_vars

(* The loader thread is scheduled while it has a retire to finish.  Nothing *)
(* is asked of the readers: the audio thread may be wedged.                 *)
LiveSpec == Spec /\ WF_vars(Retire)

-----------------------------------------------------------------------------
(* Properties.                                                              *)

(* The memory a reader works on between acquire and release is a complete   *)
(* set that nobody has freed (store.c:50-56, "the worker cannot free a      *)
(* buffer while a read is inside it").                                      *)
NoUseAfterFree == \A r \in Inside : held[r] \in Sets /\ heap[held[r]] = "built"

(* A set that one reader is still inside is never handed out again as the   *)
(* memory of a set under construction, which is how a premature free shows  *)
(* when the allocator reuses the address before the reader looks.           *)
NoRecycleUnderReader == wpc = "building" => \A r \in Inside : held[r] # fresh

(* g_inuse is exactly the number of readers between their increment and     *)
(* their decrement, whichever of the two exits they take.  A count that     *)
(* drifts up leaks every set from then on; one that drifts down frees one   *)
(* under a reader.                                                          *)
InuseIsExact == inuse = Cardinality(Counted)

(* The inductive invariant behind the two properties above: which pointers  *)
(* are live at each point of the loader's walk through set_retire.          *)
LoaderWalk ==
  /\ wpc = "idle" => fresh = NoSet /\ old = NoSet
  /\ wpc = "building" => fresh \in Sets /\ heap[fresh] = "building" /\ old = NoSet
  /\ wpc = "exchange" => old = NoSet
  /\ wpc \in {"drain", "reclaim"} =>
       gSet = NoSet /\ old \in Sets /\ heap[old] = "built" /\ old # fresh
  /\ wpc = "install" => gSet = NoSet /\ old = NoSet
  /\ wpc # "building" /\ fresh # NoSet => heap[fresh] = "built"
ResidentIsComplete == gSet # NoSet => heap[gSet] = "built" /\ gSet # fresh
FreshIsPrivate == \A r \in Inside : held[r] # fresh
OutsideHoldsNothing == \A r \in Readers : rpc[r] # "inside" => held[r] = NoSet
ReclaimIsAlone == wpc = "reclaim" => \A r \in Inside : held[r] # old

IInv == /\ TypeOK
        /\ InuseIsExact
        /\ LoaderWalk
        /\ ResidentIsComplete
        /\ FreshIsPrivate
        /\ OutsideHoldsNothing
        /\ ReclaimIsAlone
        /\ NoUseAfterFree

(* What stem.h:436-439 offers "Any thread": a caller of stem_store_rate     *)
(* reads a set that has not been freed.                                     *)
RateReadsLiveSet == \A p \in Probers : probed[p] # NoSet => heap[probed[p]] # "free"

(* The wait in set_retire ends even if a reader never leaves: the set is    *)
(* freed or abandoned, and the loader goes on to the next track.            *)
RetireEnds == wpc = "exchange" ~> wpc = "idle"

Live == {s \in Sets : heap[s] = "built"}

Abs == INSTANCE StemStoreAbs WITH resident <- gSet, live <- Live, holding <- held

(* store.c implements StemStoreAbs: every step of the counters and waits is *)
(* a step of the abstract store or invisible to it.                         *)
ImplementsAbs == Abs!AbsSpec
=============================================================================
