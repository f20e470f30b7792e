-------------------------- MODULE StemStoreProofs --------------------------
(***************************************************************************)
(* The reclamation protocol of store.c, for any number of readers, sets and *)
(* any patience: a reader never works on freed memory.                      *)
(*                                                                         *)
(* The argument.  g_inuse counts the readers past their increment           *)
(* (InuseIsExact), so when set_retire reads zero no reader is inside any    *)
(* set; the pointer was cleared before that read, so none can enter the     *)
(* retired set afterwards (ReclaimIsAlone).  The set under construction was *)
(* free memory, which no reader holds, and stays out of reach until         *)
(* Install (FreshIsPrivate).                                                *)
(***************************************************************************)
EXTENDS StemStore, FiniteSetTheorems, TLAPS

(* Counting one reader more: AcquireCount moves it from "out".              *)
LEMMA CountUp ==
  ASSUME TypeOK, NEW r \in Readers, rpc[r] = "out",
         rpc' = [rpc EXCEPT ![r] = "counted"]
  PROVE  /\ Cardinality(Counted)' = Cardinality(Counted) + 1
         /\ Cardinality(Counted) \in Nat
<1>1. IsFiniteSet(Counted)
  BY StoreAssumption, FS_Subset DEF StoreAssumption, Counted
<1>2. Counted' = Counted \cup {r} /\ r \notin Counted
  BY DEF Counted, TypeOK
<1>3. QED
  BY <1>1, <1>2, FS_AddElement, FS_CardinalityType

(* Counting one reader less: both ways out of acquire.                      *)
LEMMA CountDown ==
  ASSUME TypeOK, NEW r \in Readers, rpc[r] # "out",
         rpc' = [rpc EXCEPT ![r] = "out"]
  PROVE  /\ Cardinality(Counted)' = Cardinality(Counted) - 1
         /\ Cardinality(Counted)' \in Nat
<1>1. IsFiniteSet(Counted)
  BY StoreAssumption, FS_Subset DEF StoreAssumption, Counted
<1>2. Counted' = Counted \ {r} /\ r \in Counted
  BY DEF Counted, TypeOK
<1>3. IsFiniteSet(Counted') /\ Cardinality(Counted') = Cardinality(Counted) - 1
  BY <1>1, <1>2, FS_RemoveElement
<1>4. QED
  BY <1>3, FS_CardinalityType

(* A step that leaves the readers' counters alone leaves the count alone.   *)
LEMMA CountSame ==
  ASSUME InuseIsExact, inuse' = inuse, Counted' = Counted
  PROVE  InuseIsExact'
BY DEF InuseIsExact

(* No reader is inside once the count has been read as zero.                *)
LEMMA ZeroMeansNobody ==
  ASSUME TypeOK, InuseIsExact, inuse = 0
  PROVE  Inside = {}
<1>1. IsFiniteSet(Counted)
  BY StoreAssumption, FS_Subset DEF StoreAssumption, Counted
<1>2. Counted = {}
  BY <1>1, FS_EmptySet DEF InuseIsExact
<1>3. QED
  BY <1>2 DEF Counted, Inside

-----------------------------------------------------------------------------
(* The initial state satisfies the inductive invariant.                     *)
THEOREM InitIInv == Init => IInv
<1> SUFFICES ASSUME Init PROVE IInv
  OBVIOUS
<1> USE StoreAssumption DEF StoreAssumption
<1>1. TypeOK
  BY DEF Init, TypeOK
<1>2. Counted = {} /\ Inside = {}
  BY DEF Init, Counted, Inside
<1>3. InuseIsExact
  BY <1>2, FS_EmptySet DEF Init, InuseIsExact
<1>4. LoaderWalk /\ ResidentIsComplete /\ OutsideHoldsNothing
  BY DEF Init, LoaderWalk, ResidentIsComplete, OutsideHoldsNothing
<1>5. FreshIsPrivate /\ ReclaimIsAlone /\ NoUseAfterFree
  BY <1>2 DEF FreshIsPrivate, ReclaimIsAlone, NoUseAfterFree
<1>6. QED
  BY <1>1, <1>3, <1>4, <1>5 DEF IInv

(* A step of a reader preserves the inductive invariant.                    *)
LEMMA ReaderKeepsIInv ==
  ASSUME IInv, NEW r \in Readers, ReaderStep(r)
  PROVE  IInv'
<1> USE StoreAssumption DEF StoreAssumption
<1>t. TypeOK /\ InuseIsExact /\ LoaderWalk /\ ResidentIsComplete
      /\ FreshIsPrivate /\ OutsideHoldsNothing /\ ReclaimIsAlone /\ NoUseAfterFree
  BY DEF IInv
<1>1. CASE AcquireCount(r)
  <2>1. Cardinality(Counted)' = Cardinality(Counted) + 1
    BY <1>1, <1>t, CountUp DEF AcquireCount
  <2>2. TypeOK' /\ InuseIsExact'
    BY <1>1, <1>t, <2>1 DEF AcquireCount, TypeOK, InuseIsExact, loaderVars
  <2>3. Inside' = Inside
    BY <1>1, <1>t DEF AcquireCount, TypeOK, Inside
  <2>4. LoaderWalk' /\ ResidentIsComplete'
    BY <1>1, <1>t DEF AcquireCount, LoaderWalk, ResidentIsComplete, loaderVars
  <2>5. FreshIsPrivate' /\ ReclaimIsAlone' /\ NoUseAfterFree'
    BY <1>1, <1>t, <2>3 DEF AcquireCount, FreshIsPrivate, ReclaimIsAlone, NoUseAfterFree, loaderVars
  <2>6. OutsideHoldsNothing'
    BY <1>1, <1>t DEF AcquireCount, OutsideHoldsNothing, TypeOK
  <2>7. QED
    BY <2>2, <2>4, <2>5, <2>6 DEF IInv
<1>2. CASE AcquireLoad(r)
  <2>1. Counted' = Counted
    BY <1>2, <1>t DEF AcquireLoad, TypeOK, Counted
  <2>2. TypeOK' /\ InuseIsExact'
    BY <1>2, <1>t, <2>1, CountSame DEF AcquireLoad, TypeOK, loaderVars
  <2>3. LoaderWalk' /\ ResidentIsComplete'
    BY <1>2, <1>t DEF AcquireLoad, LoaderWalk, ResidentIsComplete, loaderVars
  <2>4. FreshIsPrivate' /\ NoUseAfterFree'
    BY <1>2, <1>t DEF AcquireLoad, FreshIsPrivate, NoUseAfterFree, Inside, TypeOK,
                      ResidentIsComplete, loaderVars
  <2>5. ReclaimIsAlone'
    BY <1>2, <1>t DEF AcquireLoad, ReclaimIsAlone, LoaderWalk, Inside, TypeOK, loaderVars
  <2>6. OutsideHoldsNothing'
    BY <1>2, <1>t DEF AcquireLoad, OutsideHoldsNothing, TypeOK
  <2>7. QED
    BY <2>2, <2>3, <2>4, <2>5, <2>6 DEF IInv
<1>3. CASE AcquireBackOut(r)
  <2>1. /\ Cardinality(Counted)' = Cardinality(Counted) - 1
        /\ Cardinality(Counted)' \in Nat
    BY <1>3, <1>t, CountDown DEF AcquireBackOut
  <2>2. TypeOK' /\ InuseIsExact'
    BY <1>3, <1>t, <2>1 DEF AcquireBackOut, TypeOK, InuseIsExact, loaderVars
  <2>3. Inside' = Inside
    BY <1>3, <1>t DEF AcquireBackOut, TypeOK, Inside
  <2>4. LoaderWalk' /\ ResidentIsComplete'
    BY <1>3, <1>t DEF AcquireBackOut, LoaderWalk, ResidentIsComplete, loaderVars
  <2>5. FreshIsPrivate' /\ ReclaimIsAlone' /\ NoUseAfterFree'
    BY <1>3, <1>t, <2>3 DEF AcquireBackOut, FreshIsPrivate, ReclaimIsAlone, NoUseAfterFree, loaderVars
  <2>6. OutsideHoldsNothing'
    BY <1>3, <1>t DEF AcquireBackOut, OutsideHoldsNothing, TypeOK
  <2>7. QED
    BY <2>2, <2>4, <2>5, <2>6 DEF IInv
<1>4. CASE Release(r)
  <2>1. /\ Cardinality(Counted)' = Cardinality(Counted) - 1
        /\ Cardinality(Counted)' \in Nat
    BY <1>4, <1>t, CountDown DEF Release
  <2>2. TypeOK' /\ InuseIsExact'
    BY <1>4, <1>t, <2>1 DEF Release, TypeOK, InuseIsExact, loaderVars
  <2>3. Inside' \subseteq Inside /\ \A q \in Inside' : held'[q] = held[q]
    BY <1>4, <1>t DEF Release, TypeOK, Inside
  <2>4. LoaderWalk' /\ ResidentIsComplete'
    BY <1>4, <1>t DEF Release, LoaderWalk, ResidentIsComplete, loaderVars
  <2>5. FreshIsPrivate' /\ ReclaimIsAlone' /\ NoUseAfterFree'
    BY <1>4, <1>t, <2>3 DEF Release, FreshIsPrivate, ReclaimIsAlone, NoUseAfterFree, loaderVars
  <2>6. OutsideHoldsNothing'
    BY <1>4, <1>t DEF Release, OutsideHoldsNothing, TypeOK
  <2>7. QED
    BY <2>2, <2>4, <2>5, <2>6 DEF IInv
<1>5. QED
  BY <1>1, <1>2, <1>3, <1>4 DEF ReaderStep

(* stem_store_rate changes nothing but what its caller holds.               *)
LEMMA ProberKeepsIInv ==
  ASSUME IInv, NEW p \in Probers, ProberStep(p)
  PROVE  IInv'
<1>1. probed' \in [Probers -> Sets \cup {NoSet}]
  BY DEF IInv, TypeOK, ProberStep, RateLoad, RateRead
<1>2. UNCHANGED <<gSet, inuse, heap, rpc, held, wpc, fresh, old, spins>>
  BY DEF ProberStep, RateLoad, RateRead, readerVars, loaderVars
<1>3. TypeOK'
  BY <1>1, <1>2 DEF IInv, TypeOK
<1>4. Counted' = Counted /\ Inside' = Inside
  BY <1>2 DEF Counted, Inside
<1>5. QED
  BY <1>2, <1>3, <1>4 DEF IInv, InuseIsExact, LoaderWalk, ResidentIsComplete,
     FreshIsPrivate, OutsideHoldsNothing, ReclaimIsAlone, NoUseAfterFree

(* A step of the loader preserves the inductive invariant.                  *)
LEMMA LoaderKeepsIInv ==
  ASSUME IInv, LoaderStep
  PROVE  IInv'
<1> USE StoreAssumption DEF StoreAssumption
<1>t. TypeOK /\ InuseIsExact /\ LoaderWalk /\ ResidentIsComplete
      /\ FreshIsPrivate /\ OutsideHoldsNothing /\ ReclaimIsAlone /\ NoUseAfterFree
  BY DEF IInv
<1>r. UNCHANGED <<inuse, rpc, held, probed>>
  BY DEF LoaderStep, Retire, BeginPublish, DecodeOk, DecodeFail, BeginReleaseAll, Exchange,
         DrainDone, DrainSpin, DrainLeak, Reclaim, Install, readerVars
<1>s. Counted' = Counted /\ Inside' = Inside /\ OutsideHoldsNothing'
  BY <1>t, <1>r DEF Counted, Inside, OutsideHoldsNothing
<1>c. InuseIsExact'
  BY <1>t, <1>r, <1>s, CountSame
<1>1. CASE BeginPublish
  <2> PICK s \in Sets : heap[s] = "free" /\ heap' = [heap EXCEPT ![s] = "building"] /\ fresh' = s
    BY <1>1 DEF BeginPublish
  <2>1. TypeOK'
    BY <1>1, <1>t, <1>r DEF BeginPublish, TypeOK
  <2>2. LoaderWalk' /\ ResidentIsComplete'
    BY <1>1, <1>t DEF BeginPublish, LoaderWalk, ResidentIsComplete, TypeOK
  <2>3. FreshIsPrivate' /\ ReclaimIsAlone' /\ NoUseAfterFree'
    BY <1>1, <1>t, <1>r, <1>s
    DEF BeginPublish, FreshIsPrivate, ReclaimIsAlone, NoUseAfterFree, TypeOK
  <2>4. QED
    BY <1>s, <1>c, <2>1, <2>2, <2>3 DEF IInv
<1>2. CASE DecodeOk
  <2>1. TypeOK'
    BY <1>2, <1>t, <1>r DEF DecodeOk, TypeOK
  <2>2. LoaderWalk' /\ ResidentIsComplete'
    BY <1>2, <1>t DEF DecodeOk, LoaderWalk, ResidentIsComplete, TypeOK
  <2>3. FreshIsPrivate' /\ ReclaimIsAlone' /\ NoUseAfterFree'
    BY <1>2, <1>t, <1>r, <1>s
    DEF DecodeOk, FreshIsPrivate, ReclaimIsAlone, NoUseAfterFree, LoaderWalk, TypeOK
  <2>4. QED
    BY <1>s, <1>c, <2>1, <2>2, <2>3 DEF IInv
<1>3. CASE DecodeFail
  <2>1. TypeOK'
    BY <1>3, <1>t, <1>r DEF DecodeFail, TypeOK
  <2>2. LoaderWalk' /\ ResidentIsComplete'
    BY <1>3, <1>t DEF DecodeFail, LoaderWalk, ResidentIsComplete, TypeOK
  <2>3. FreshIsPrivate' /\ ReclaimIsAlone' /\ NoUseAfterFree'
    BY <1>3, <1>t, <1>r, <1>s
    DEF DecodeFail, FreshIsPrivate, ReclaimIsAlone, NoUseAfterFree, LoaderWalk, TypeOK
  <2>4. QED
    BY <1>s, <1>c, <2>1, <2>2, <2>3 DEF IInv
<1>4. CASE BeginReleaseAll
  <2>1. TypeOK' /\ LoaderWalk' /\ ResidentIsComplete'
    BY <1>4, <1>t, <1>r DEF BeginReleaseAll, TypeOK, LoaderWalk, ResidentIsComplete
  <2>2. FreshIsPrivate' /\ ReclaimIsAlone' /\ NoUseAfterFree'
    BY <1>4, <1>t, <1>r, <1>s
    DEF BeginReleaseAll, FreshIsPrivate, ReclaimIsAlone, NoUseAfterFree
  <2>3. QED
    BY <1>s, <1>c, <2>1, <2>2 DEF IInv
<1>5. CASE Exchange
  <2>1. TypeOK' /\ LoaderWalk' /\ ResidentIsComplete'
    BY <1>5, <1>t, <1>r DEF Exchange, TypeOK, LoaderWalk, ResidentIsComplete
  <2>2. FreshIsPrivate' /\ ReclaimIsAlone' /\ NoUseAfterFree'
    BY <1>5, <1>t, <1>r, <1>s
    DEF Exchange, FreshIsPrivate, ReclaimIsAlone, NoUseAfterFree
  <2>3. QED
    BY <1>s, <1>c, <2>1, <2>2 DEF IInv
<1>6. CASE DrainDone
  <2>1. TypeOK' /\ LoaderWalk' /\ ResidentIsComplete'
    BY <1>6, <1>t, <1>r DEF DrainDone, TypeOK, LoaderWalk, ResidentIsComplete
  <2>2. Inside = {}
    BY <1>6, <1>t, ZeroMeansNobody DEF DrainDone
  <2>3. FreshIsPrivate' /\ ReclaimIsAlone' /\ NoUseAfterFree'
    BY <1>s, <2>2 DEF FreshIsPrivate, ReclaimIsAlone, NoUseAfterFree
  <2>4. QED
    BY <1>s, <1>c, <2>1, <2>3 DEF IInv
<1>7. CASE DrainSpin
  <2>1. TypeOK' /\ LoaderWalk' /\ ResidentIsComplete'
    BY <1>7, <1>t, <1>r DEF DrainSpin, TypeOK, LoaderWalk, ResidentIsComplete
  <2>2. FreshIsPrivate' /\ ReclaimIsAlone' /\ NoUseAfterFree'
    BY <1>7, <1>t, <1>r, <1>s
    DEF DrainSpin, FreshIsPrivate, ReclaimIsAlone, NoUseAfterFree
  <2>3. QED
    BY <1>s, <1>c, <2>1, <2>2 DEF IInv
<1>8. CASE DrainLeak
  <2>1. TypeOK' /\ LoaderWalk' /\ ResidentIsComplete'
    BY <1>8, <1>t, <1>r DEF DrainLeak, TypeOK, LoaderWalk, ResidentIsComplete
  <2>2. FreshIsPrivate' /\ ReclaimIsAlone' /\ NoUseAfterFree'
    BY <1>8, <1>t, <1>r, <1>s
    DEF DrainLeak, FreshIsPrivate, ReclaimIsAlone, NoUseAfterFree
  <2>3. QED
    BY <1>s, <1>c, <2>1, <2>2 DEF IInv
<1>9. CASE Reclaim
  <2>1. TypeOK'
    BY <1>9, <1>t, <1>r DEF Reclaim, TypeOK
  <2>2. LoaderWalk' /\ ResidentIsComplete'
    BY <1>9, <1>t DEF Reclaim, LoaderWalk, ResidentIsComplete, TypeOK
  <2>3. FreshIsPrivate' /\ ReclaimIsAlone' /\ NoUseAfterFree'
    BY <1>9, <1>t, <1>r, <1>s
    DEF Reclaim, FreshIsPrivate, ReclaimIsAlone, NoUseAfterFree, LoaderWalk, TypeOK
  <2>4. QED
    BY <1>s, <1>c, <2>1, <2>2, <2>3 DEF IInv
<1>10. CASE Install
  <2>1. TypeOK' /\ LoaderWalk' /\ ResidentIsComplete'
    BY <1>10, <1>t, <1>r DEF Install, TypeOK, LoaderWalk, ResidentIsComplete
  <2>2. FreshIsPrivate' /\ ReclaimIsAlone' /\ NoUseAfterFree'
    BY <1>10, <1>t, <1>r, <1>s
    DEF Install, FreshIsPrivate, ReclaimIsAlone, NoUseAfterFree
  <2>3. QED
    BY <1>s, <1>c, <2>1, <2>2 DEF IInv
<1>11. QED
  BY <1>1, <1>2, <1>3, <1>4, <1>5, <1>6, <1>7, <1>8, <1>9, <1>10 DEF LoaderStep, Retire

(* Every step preserves the inductive invariant.                            *)
THEOREM NextIInv == IInv /\ [Next]_vars => IInv'
<1> SUFFICES ASSUME IInv, [Next]_vars PROVE IInv'
  OBVIOUS
<1>1. CASE \E r \in Readers : ReaderStep(r)
  BY <1>1, ReaderKeepsIInv
<1>2. CASE \E p \in Probers : ProberStep(p)
  BY <1>2, ProberKeepsIInv
<1>3. CASE LoaderStep
  BY <1>3, LoaderKeepsIInv
<1>4. CASE UNCHANGED vars
  <2>1. UNCHANGED <<gSet, inuse, heap, rpc, held, probed, wpc, fresh, old, spins>>
    BY <1>4 DEF vars, readerVars, loaderVars
  <2>2. Counted' = Counted /\ Inside' = Inside
    BY <2>1 DEF Counted, Inside
  <2>3. QED
    BY <2>1, <2>2 DEF IInv, TypeOK, InuseIsExact, LoaderWalk, ResidentIsComplete,
       FreshIsPrivate, OutsideHoldsNothing, ReclaimIsAlone, NoUseAfterFree
<1>5. QED
  BY <1>1, <1>2, <1>3, <1>4 DEF Next

(* The inductive invariant holds in every reachable state.                  *)
THEOREM IInvHolds == Spec => []IInv
  BY InitIInv, NextIInv, PTL DEF Spec

(* The variables keep their types: in particular g_inuse never goes below   *)
(* zero, however the readers' two exits interleave (store.c:61-79).         *)
THEOREM TypeCorrect == Spec => []TypeOK
<1>1. IInv => TypeOK
  BY DEF IInv
<1>2. QED
  BY IInvHolds, <1>1, PTL

(* A reader between stem_store_acquire and stem_store_release never works   *)
(* on freed or half-built memory (store.c:50-56).                           *)
THEOREM ReadersAreSafe == Spec => []NoUseAfterFree
<1>1. IInv => NoUseAfterFree
  BY DEF IInv
<1>2. QED
  BY IInvHolds, <1>1, PTL

(* g_inuse is at all times the number of readers past their increment.      *)
THEOREM CountIsExact == Spec => []InuseIsExact
<1>1. IInv => InuseIsExact
  BY DEF IInv
<1>2. QED
  BY IInvHolds, <1>1, PTL

-----------------------------------------------------------------------------
(* A reader's step is a Take, a LetGo or invisible to the abstract store.   *)
LEMMA ReaderRefines ==
  ASSUME IInv, NEW r \in Readers, ReaderStep(r)
  PROVE  [Abs!AbsNext]_(Abs!absVars)
<1>t. TypeOK /\ OutsideHoldsNothing /\ NoUseAfterFree
  BY DEF IInv
<1>h. UNCHANGED <<gSet, heap>> /\ Live' = Live
  BY DEF ReaderStep, AcquireCount, AcquireLoad, AcquireBackOut, Release, Live
<1>1. CASE AcquireCount(r)
  BY <1>1, <1>h DEF AcquireCount, Abs!absVars
<1>2. CASE AcquireLoad(r) /\ gSet = NoSet
  <2>1. held' = held
    BY <1>2, <1>t DEF AcquireLoad, TypeOK, OutsideHoldsNothing
  <2>2. QED
    BY <2>1, <1>h DEF Abs!absVars
<1>3. CASE AcquireLoad(r) /\ gSet # NoSet
  <2>1. Abs!Take(r)
    BY <1>3, <1>t, <1>h DEF AcquireLoad, OutsideHoldsNothing, Abs!Take
  <2>2. QED
    BY <2>1 DEF Abs!AbsNext
<1>4. CASE AcquireBackOut(r)
  BY <1>4, <1>h DEF AcquireBackOut, Abs!absVars
<1>5. CASE Release(r)
  <2>1. held[r] # NoSet
    BY <1>5, <1>t, StoreAssumption DEF Release, Inside, NoUseAfterFree, StoreAssumption
  <2>2. Abs!LetGo(r)
    BY <1>5, <1>h, <2>1 DEF Release, Abs!LetGo
  <2>3. QED
    BY <2>2 DEF Abs!AbsNext
<1>6. QED
  BY <1>1, <1>2, <1>3, <1>4, <1>5 DEF ReaderStep

(* A loader's step builds, withdraws, frees or offers a set, or is invisible. *)
LEMMA LoaderRefines ==
  ASSUME IInv, LoaderStep
  PROVE  [Abs!AbsNext]_(Abs!absVars)
<1> USE StoreAssumption DEF StoreAssumption
<1>t. TypeOK /\ LoaderWalk /\ FreshIsPrivate /\ OutsideHoldsNothing /\ ReclaimIsAlone
      /\ NoUseAfterFree
  BY DEF IInv
<1>r. held' = held
  BY DEF LoaderStep, Retire, BeginPublish, DecodeOk, DecodeFail, BeginReleaseAll, Exchange,
         DrainDone, DrainSpin, DrainLeak, Reclaim, Install, readerVars
<1>1. CASE BeginPublish
  <2>1. Live' = Live
    BY <1>1, <1>t DEF BeginPublish, Live, TypeOK
  <2>2. QED
    BY <1>1, <1>r, <2>1 DEF BeginPublish, Abs!absVars
<1>2. CASE DecodeOk
  <2>1. fresh \in Sets \ Live /\ Live' = Live \cup {fresh}
    BY <1>2, <1>t DEF DecodeOk, Live, TypeOK, LoaderWalk
  <2>2. Abs!Build
    BY <1>2, <1>r, <2>1 DEF DecodeOk, Abs!Build
  <2>3. QED
    BY <2>2 DEF Abs!AbsNext
<1>3. CASE DecodeFail
  <2>1. Live' = Live
    BY <1>3, <1>t DEF DecodeFail, Live, TypeOK, LoaderWalk
  <2>2. QED
    BY <1>3, <1>r, <2>1 DEF DecodeFail, Abs!absVars
<1>4. CASE Exchange
  <2>1. Live' = Live
    BY <1>4 DEF Exchange, Live
  <2>2. gSet # NoSet => Abs!Withdraw
    BY <1>4, <1>r, <2>1 DEF Exchange, Abs!Withdraw
  <2>3. gSet = NoSet => UNCHANGED Abs!absVars
    BY <1>4, <1>r, <2>1 DEF Exchange, Abs!absVars
  <2>4. QED
    BY <2>2, <2>3 DEF Abs!AbsNext
<1>5. CASE Reclaim
  <2>1. old \in Live \ {gSet} /\ Live' = Live \ {old}
    BY <1>5, <1>t DEF Reclaim, Live, TypeOK, LoaderWalk
  <2>2. \A r \in Readers : held[r] # old
    BY <1>5, <1>t DEF Reclaim, Inside, ReclaimIsAlone, OutsideHoldsNothing, LoaderWalk
  <2>3. Abs!Free
    BY <1>5, <1>r, <2>1, <2>2 DEF Reclaim, Abs!Free
  <2>4. QED
    BY <2>3 DEF Abs!AbsNext
<1>6. CASE Install /\ fresh = NoSet
  <2>1. gSet' = gSet /\ Live' = Live
    BY <1>6, <1>t DEF Install, LoaderWalk, Live
  <2>2. QED
    BY <1>r, <2>1 DEF Abs!absVars
<1>7. CASE Install /\ fresh # NoSet
  <2>1. gSet = NoSet /\ gSet' \in Live /\ Live' = Live
    BY <1>7, <1>t DEF Install, LoaderWalk, Live, TypeOK
  <2>2. \A r \in Readers : held[r] # gSet'
    BY <1>7, <1>t DEF Install, Inside, FreshIsPrivate, OutsideHoldsNothing
  <2>3. Abs!Offer
    BY <1>r, <2>1, <2>2 DEF Abs!Offer
  <2>4. QED
    BY <2>3 DEF Abs!AbsNext
<1>8. CASE BeginReleaseAll \/ DrainDone \/ DrainSpin \/ DrainLeak
  <2>1. gSet' = gSet /\ heap' = heap
    BY <1>8 DEF BeginReleaseAll, DrainDone, DrainSpin, DrainLeak
  <2>2. QED
    BY <1>r, <2>1 DEF Live, Abs!absVars
<1>9. QED
  BY <1>1, <1>2, <1>3, <1>4, <1>5, <1>6, <1>7, <1>8 DEF LoaderStep, Retire

(* The counters and waits of store.c implement the store of StemStoreAbs:   *)
(* a set is freed only when nobody can be given it and nobody has it.       *)
THEOREM Refinement == Spec => ImplementsAbs
<1>1. Init => Abs!AbsInit
  <2> SUFFICES ASSUME Init PROVE Abs!AbsInit
    OBVIOUS
  <2>1. Live = {}
    BY DEF Init, Live
  <2>2. QED
    BY <2>1 DEF Init, Abs!AbsInit
<1>2. IInv /\ [Next]_vars => [Abs!AbsNext]_(Abs!absVars)
  <2> SUFFICES ASSUME IInv, [Next]_vars PROVE [Abs!AbsNext]_(Abs!absVars)
    OBVIOUS
  <2>1. CASE \E r \in Readers : ReaderStep(r)
    BY <2>1, ReaderRefines
  <2>2. CASE \E p \in Probers : ProberStep(p)
    <3>1. UNCHANGED <<gSet, heap, held>>
      BY <2>2 DEF ProberStep, RateLoad, RateRead, readerVars
    <3>2. QED
      BY <3>1 DEF Live, Abs!absVars
  <2>3. CASE LoaderStep
    BY <2>3, LoaderRefines
  <2>4. CASE UNCHANGED vars
    BY <2>4 DEF vars, readerVars, Live, Abs!absVars
  <2>5. QED
    BY <2>1, <2>2, <2>3, <2>4 DEF Next
<1>3. QED
  BY <1>1, <1>2, IInvHolds, PTL DEF Spec, ImplementsAbs, Abs!AbsSpec
=============================================================================
