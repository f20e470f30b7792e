---------------------------- MODULE StemJobProofs ----------------------------
(***************************************************************************)
(* The track protocol of job.c and job_loader.c, for any tracks, any media  *)
(* and any number of loads and failures: a set of another track does not    *)
(* stay resident, unless a generation was stored over a newer one.          *)
(*                                                                         *)
(* The argument.  The path changes only while the message thread is away    *)
(* from its loop, and it comes back with a generation the loader has not    *)
(* seen (SeenIsPast), so a set that was the track's when it was installed   *)
(* stays so or has the loader's release ahead.  A cached set installed for  *)
(* a track that has gone is caught by the second look (CheckIsOfOwnSet); a  *)
(* delivered one was checked after the loader last looked at the            *)
(* generation (DeliveryIsWatched).                                          *)
(***************************************************************************)
EXTENDS StemJob, TLAPS

(* The initial state has the inductive invariant. *)
THEOREM InitIInv == Init => IInv
<1> SUFFICES ASSUME Init PROVE IInv
  OBVIOUS
<1> USE JobAssumption DEF JobAssumption, Init
<1>1. TypeOK
  <2>1. {stemsOn, ready, mnext, lwhole, served, asked, supersede, busy, rateWrong, rewound}
          \subseteq BOOLEAN
    BY Zenon
  <2>2. moved \in BOOLEAN /\ delivery.whole \in BOOLEAN /\ delivery.track \in Paths
    BY Zenon DEF NoDelivery, Paths
  <2>3. QED
    BY <2>1, <2>2 DEF TypeOK, Paths, Parts
<1>2. PathsAreWhole /\ TrackInv
  BY DEF PathsAreWhole, TrackInv, SeenIsPast, DeliveryIsWatched, CheckIsOfOwnSet,
    StaleSetIsDoomed
<1>3. QED
  BY <1>1, <1>2 DEF IInv, TypeInv

-----------------------------------------------------------------------------
(* What the deck, the settings and the clock do preserves the types. *)
LEMMA EnvironmentKeepsTypes ==
  ASSUME TypeInv, (\E t \in Tracks : DeckLoads(t)) \/ SettingsChanged \/ PoolRateObserve
                  \/ RetryFallsDue \/ ServerArrived PROVE TypeInv'
<1> USE JobAssumption DEF JobAssumption, TypeInv, TypeOK, PathsAreWhole, Paths, Parts,
        vars, envVars, shared, msgVars, loadVars, sepVars, wantVars, pairVars
<1>1. ASSUME NEW t \in Tracks, DeckLoads(t) PROVE TypeInv'
  BY <1>1 DEF DeckLoads
<1>2. CASE SettingsChanged
  <2>1. stemsOn' \in BOOLEAN /\ ready' \in BOOLEAN /\ mnext' \in BOOLEAN
    BY <1>2, Zenon DEF SettingsChanged, BeginSetTrack, BeginRequest
  <2>2. QED
    BY <1>2, <2>1 DEF SettingsChanged, BeginSetTrack, BeginRequest
<1>3. CASE PoolRateObserve
  <2>1. rateWrong' \in BOOLEAN
    BY <1>3, Zenon DEF PoolRateObserve
  <2>2. ready' \in BOOLEAN /\ mnext' \in BOOLEAN
    BY <1>3, Zenon DEF PoolRateObserve, BeginSetTrack
  <2>3. QED
    BY <1>3, <2>1, <2>2 DEF PoolRateObserve, BeginSetTrack
<1>4. CASE RetryFallsDue
  BY <1>4 DEF RetryFallsDue
<1>5. CASE ServerArrived
  BY <1>5 DEF ServerArrived, Spend
<1>6. QED
  BY <1>1, <1>2, <1>3, <1>4, <1>5

(* A step of the message thread preserves the types. *)
LEMMA MessageKeepsTypes ==
  ASSUME TypeInv, MessageStep PROVE TypeInv'
<1> USE JobAssumption DEF JobAssumption, TypeInv, TypeOK, PathsAreWhole, Paths, Parts,
        vars, envVars, shared, msgVars, loadVars, sepVars, wantVars, pairVars
<1>1. CASE TrackWatch
  <2>1. moved' \in BOOLEAN
    BY <1>1, Zenon DEF TrackWatch
  <2>2. CASE deck = actedOn
    BY <1>1, <2>1, <2>2 DEF TrackWatch
  <2>3. CASE deck # actedOn
    <3>1. ready' \in BOOLEAN /\ mnext' \in BOOLEAN
      BY <1>1, <2>3 DEF TrackWatch, BeginSetTrack
    <3>2. QED
      BY <1>1, <2>1, <2>3, <3>1 DEF TrackWatch, BeginSetTrack
  <2>4. QED
    BY <2>2, <2>3
<1>2. CASE SetPath
  BY <1>2 DEF SetPath
<1>3. CASE GenLoad
  BY <1>3 DEF GenLoad
<1>4. CASE GenStore
  BY <1>4 DEF GenStore
<1>5. CASE JobRequest
  <2>1. mnext' \in BOOLEAN
    BY <1>5, Zenon DEF JobRequest, BeginRequest
  <2>2. QED
    BY <1>5, <2>1 DEF JobRequest, BeginRequest
<1>6. QED
  BY <1>1, <1>2, <1>3, <1>4, <1>5 DEF MessageStep

(* A step of the loader preserves the types; its path is whole again by the time it is published. *)
LEMMA LoaderKeepsTypes ==
  ASSUME TypeInv, LoaderStep PROVE TypeInv'
<1> USE JobAssumption DEF JobAssumption, TypeInv, TypeOK, PathsAreWhole, Paths, Parts,
        vars, envVars, shared, msgVars, loadVars, sepVars, wantVars, pairVars
<1>1. CASE LoaderTop
  <2>1. served' \in BOOLEAN
    BY <1>1 DEF LoaderTop
  <2>2. QED
    BY <1>1, <2>1 DEF LoaderTop
<1>2. CASE ReleaseAll
  BY <1>2 DEF ReleaseAll
<1>3. CASE TakeDelivery
  BY <1>3 DEF TakeDelivery, Current, NoDelivery
<1>4. CASE ArmPublish
  BY <1>4 DEF ArmPublish
<1>5. CASE PublishOk
  BY <1>5 DEF PublishOk, Undecodable
<1>6. CASE PublishAborted
  BY <1>6 DEF PublishAborted
<1>7. CASE PublishNotYet
  BY <1>7 DEF PublishNotYet, Spend, Undecodable
<1>8. CASE PublishBad
  BY <1>8 DEF PublishBad, Undecodable
<1>9. CASE StillCurrent
  BY <1>9 DEF StillCurrent, Current
<1>10. CASE MarkReady
  BY <1>10 DEF MarkReady
<1>11. CASE LoaderDue
  <2>1. lwhole' \in BOOLEAN
    BY <1>11, Zenon DEF LoaderDue
  <2>2. QED
    BY <1>11, <2>1 DEF LoaderDue
<1>12. CASE BeginServe
  BY <1>12 DEF BeginServe
<1>13. CASE ProbeFails
  BY <1>13 DEF ProbeFails, Spend
<1>14. CASE ProbeLength
  BY <1>14 DEF ProbeLength, Current
<1>15. CASE CacheLookup
  BY <1>15 DEF CacheLookup
<1>16. CASE RequestSeparation
  BY <1>16 DEF RequestSeparation
<1>17. CASE AskSeparator
  BY <1>17 DEF AskSeparator
<1>18. CASE EndServe
  BY <1>18 DEF EndServe
<1>19. QED
  BY <1>1, <1>2, <1>3, <1>4, <1>5, <1>6, <1>7, <1>8, <1>9, <1>10, <1>11, <1>12, <1>13, <1>14, <1>15, <1>16, <1>17, <1>18 DEF LoaderStep

(* A step of the separator preserves the types. *)
LEMMA SeparatorKeepsTypes ==
  ASSUME TypeInv, SeparatorStep PROVE TypeInv'
<1> USE JobAssumption DEF JobAssumption, TypeInv, TypeOK, PathsAreWhole, Paths, Parts,
        vars, envVars, shared, msgVars, loadVars, sepVars, wantVars, pairVars
<1>1. CASE SeeWant
  <2>1. asked' \in BOOLEAN
    BY <1>1, Zenon DEF SeeWant
  <2>2. QED
    BY <1>1, <2>1 DEF SeeWant
<1>2. CASE ClearForJob
  <2>1. supersede' \in BOOLEAN
    BY <1>2, Zenon DEF ClearForJob
  <2>2. QED
    BY <1>2, <2>1 DEF ClearForJob
<1>3. CASE MarkBusy
  BY <1>3 DEF MarkBusy
<1>4. CASE StartJob
  <2>1. CASE Current(want)
    BY <1>4, <2>1 DEF StartJob, Current
  <2>2. CASE ~Current(want)
    <3>1. UNCHANGED <<job, announced>> /\ spc' = "over"
      BY <1>4, <2>2, Zenon DEF StartJob
    <3>2. QED
      BY <1>4, <3>1 DEF StartJob, Current
  <2>3. QED
    BY <2>1, <2>2
<1>5. ASSUME NEW part \in Parts, StemReady(part) PROVE TypeInv'
  BY <1>5 DEF StemReady
<1>6. CASE StoreInCache
  BY <1>6 DEF StoreInCache
<1>7. CASE VolumeRefuses
  BY <1>7 DEF VolumeRefuses, Spend
<1>8. CASE Deliver
  BY <1>8 DEF Deliver
<1>9. CASE JobSuperseded
  BY <1>9 DEF JobSuperseded
<1>10. CASE JobFailed
  BY <1>10 DEF JobFailed, Current, Spend
<1>11. CASE JobRetryLater
  BY <1>11 DEF JobRetryLater
<1>12. CASE JobOver
  <2>1. busy' \in BOOLEAN
    BY <1>12, Zenon DEF JobOver
  <2>2. QED
    BY <1>12, <2>1 DEF JobOver
<1>13. CASE SepGenLoad
  BY <1>13 DEF SepGenLoad
<1>14. CASE SepGenStore
  BY <1>14 DEF SepGenStore
<1>15. QED
  BY <1>1, <1>2, <1>3, <1>4, <1>5, <1>6, <1>7, <1>8, <1>9, <1>10, <1>11, <1>12, <1>13, <1>14 DEF SeparatorStep

-----------------------------------------------------------------------------
(* What the part of the invariant about the track depends on.               *)
trackVars == <<resident, curPath, mpc, seen, curGen, lpc, lpath, rewound>>

(* A step that leaves these words alone keeps that part.                    *)
LEMMA ElsewhereKeepsTrack ==
  ASSUME TrackInv, UNCHANGED trackVars PROVE TrackInv'
BY DEF TrackInv, SeenIsPast, DeliveryIsWatched, CheckIsOfOwnSet, StaleSetIsDoomed, trackVars

(* The message thread: it leaves its loop to change the path and does not come back without moving the generation. *)
LEMMA MessageKeepsTrack ==
  ASSUME IInv, MessageStep \/ SettingsChanged \/ PoolRateObserve PROVE TrackInv'
<1> USE DEF envVars, shared, msgVars, loadVars, sepVars, wantVars, pairVars
<1>1. /\ {resident, marg} \subseteq Paths
      /\ {curGen, mgen, sgen, seen} \subseteq Nat
      /\ rewound \in BOOLEAN
  BY DEF IInv, TypeInv, TypeOK
<1>2. CASE TrackWatch
  BY <1>1, <1>2 DEF TrackWatch, BeginSetTrack, Paths, IInv, TrackInv, SeenIsPast, DeliveryIsWatched,
      CheckIsOfOwnSet, StaleSetIsDoomed
<1>3. CASE SetPath
  BY <1>1, <1>3 DEF SetPath, Paths, IInv, TrackInv, SeenIsPast, DeliveryIsWatched,
      CheckIsOfOwnSet, StaleSetIsDoomed
<1>4. CASE GenLoad
  BY <1>1, <1>4 DEF GenLoad, Paths, IInv, TrackInv, SeenIsPast, DeliveryIsWatched,
      CheckIsOfOwnSet, StaleSetIsDoomed
<1>5. CASE GenStore
  <2>1. rewound' \/ (~rewound /\ curGen = mgen)
    BY <1>5, Zenon DEF GenStore
  <2>2. UNCHANGED <<resident, curPath, seen, lpc, lpath>> /\ curGen' = mgen + 1
    BY <1>5 DEF GenStore, envVars, loadVars
  <2>3. rewound' \/ seen' < curGen'
    BY <1>1, <2>1, <2>2 DEF IInv, TrackInv, SeenIsPast
  <2>4. QED
    BY <1>1, <2>2, <2>3 DEF IInv, TrackInv, SeenIsPast, DeliveryIsWatched,
      CheckIsOfOwnSet, StaleSetIsDoomed
<1>6. CASE JobRequest
  BY <1>1, <1>6 DEF JobRequest, BeginRequest, Paths, IInv, TrackInv, SeenIsPast, DeliveryIsWatched,
      CheckIsOfOwnSet, StaleSetIsDoomed
<1>7. CASE SettingsChanged
  BY <1>1, <1>7 DEF SettingsChanged, BeginSetTrack, BeginRequest, Spend, Paths, IInv, TrackInv, SeenIsPast, DeliveryIsWatched,
      CheckIsOfOwnSet, StaleSetIsDoomed
<1>8. CASE PoolRateObserve
  BY <1>1, <1>8 DEF PoolRateObserve, BeginSetTrack, Paths, IInv, TrackInv, SeenIsPast, DeliveryIsWatched,
      CheckIsOfOwnSet, StaleSetIsDoomed
<1>9. QED
  BY <1>2, <1>3, <1>4, <1>5, <1>6, <1>7, <1>8 DEF MessageStep

(* The loader: a set it installs is the current track's, or the step that drops it is due. *)
LEMMA LoaderKeepsTrack ==
  ASSUME IInv, LoaderStep PROVE TrackInv'
<1> USE DEF envVars, shared, msgVars, loadVars, sepVars, wantVars, pairVars
<1>1. /\ {resident, marg} \subseteq Paths
      /\ {curGen, mgen, sgen, seen} \subseteq Nat
      /\ rewound \in BOOLEAN
  BY DEF IInv, TypeInv, TypeOK
<1>2. CASE LoaderTop
  BY <1>1, <1>2 DEF LoaderTop, Paths, IInv, TrackInv, SeenIsPast, DeliveryIsWatched,
      CheckIsOfOwnSet, StaleSetIsDoomed
<1>3. CASE ReleaseAll
  BY <1>1, <1>3 DEF ReleaseAll, Paths, IInv, TrackInv, SeenIsPast, DeliveryIsWatched,
      CheckIsOfOwnSet, StaleSetIsDoomed
<1>4. CASE TakeDelivery
  BY <1>1, <1>4 DEF TakeDelivery, Current, NoDelivery, Paths, IInv, TrackInv, SeenIsPast, DeliveryIsWatched,
      CheckIsOfOwnSet, StaleSetIsDoomed
<1>5. CASE ArmPublish
  BY <1>1, <1>5 DEF ArmPublish, Paths, IInv, TrackInv, SeenIsPast, DeliveryIsWatched,
      CheckIsOfOwnSet, StaleSetIsDoomed
<1>6. CASE PublishOk
  BY <1>1, <1>6 DEF PublishOk, Undecodable, Paths, IInv, TrackInv, SeenIsPast, DeliveryIsWatched,
      CheckIsOfOwnSet, StaleSetIsDoomed
<1>7. CASE PublishAborted
  BY <1>1, <1>7 DEF PublishAborted, Paths, IInv, TrackInv, SeenIsPast, DeliveryIsWatched,
      CheckIsOfOwnSet, StaleSetIsDoomed
<1>8. CASE PublishNotYet
  BY <1>1, <1>8 DEF PublishNotYet, Spend, Undecodable, Paths, IInv, TrackInv, SeenIsPast, DeliveryIsWatched,
      CheckIsOfOwnSet, StaleSetIsDoomed
<1>9. CASE PublishBad
  BY <1>1, <1>9 DEF PublishBad, Undecodable, Paths, IInv, TrackInv, SeenIsPast, DeliveryIsWatched,
      CheckIsOfOwnSet, StaleSetIsDoomed
<1>10. CASE StillCurrent
  BY <1>1, <1>10 DEF StillCurrent, Current, Paths, IInv, TrackInv, SeenIsPast, DeliveryIsWatched,
      CheckIsOfOwnSet, StaleSetIsDoomed
<1>11. CASE MarkReady
  BY <1>1, <1>11 DEF MarkReady, Paths, IInv, TrackInv, SeenIsPast, DeliveryIsWatched,
      CheckIsOfOwnSet, StaleSetIsDoomed
<1>12. CASE LoaderDue
  BY <1>1, <1>12 DEF LoaderDue, Paths, IInv, TrackInv, SeenIsPast, DeliveryIsWatched,
      CheckIsOfOwnSet, StaleSetIsDoomed
<1>13. CASE BeginServe
  BY <1>1, <1>13 DEF BeginServe, Paths, IInv, TrackInv, SeenIsPast, DeliveryIsWatched,
      CheckIsOfOwnSet, StaleSetIsDoomed
<1>14. CASE ProbeFails
  BY <1>1, <1>14 DEF ProbeFails, Spend, Paths, IInv, TrackInv, SeenIsPast, DeliveryIsWatched,
      CheckIsOfOwnSet, StaleSetIsDoomed
<1>15. CASE ProbeLength
  BY <1>1, <1>15 DEF ProbeLength, Current, Paths, IInv, TrackInv, SeenIsPast, DeliveryIsWatched,
      CheckIsOfOwnSet, StaleSetIsDoomed
<1>16. CASE CacheLookup
  BY <1>1, <1>16 DEF CacheLookup, Paths, IInv, TrackInv, SeenIsPast, DeliveryIsWatched,
      CheckIsOfOwnSet, StaleSetIsDoomed
<1>17. CASE RequestSeparation
  BY <1>1, <1>17 DEF RequestSeparation, Paths, IInv, TrackInv, SeenIsPast, DeliveryIsWatched,
      CheckIsOfOwnSet, StaleSetIsDoomed
<1>18. CASE AskSeparator
  BY <1>1, <1>18 DEF AskSeparator, Paths, IInv, TrackInv, SeenIsPast, DeliveryIsWatched,
      CheckIsOfOwnSet, StaleSetIsDoomed
<1>19. CASE EndServe
  BY <1>1, <1>19 DEF EndServe, Paths, IInv, TrackInv, SeenIsPast, DeliveryIsWatched,
      CheckIsOfOwnSet, StaleSetIsDoomed
<1>20. QED
  BY <1>2, <1>3, <1>4, <1>5, <1>6, <1>7, <1>8, <1>9, <1>10, <1>11, <1>12, <1>13, <1>14, <1>15, <1>16, <1>17, <1>18, <1>19 DEF LoaderStep

(* The separator's own increment: over a newer generation it is a rewind. *)
LEMMA SeparatorStoresGeneration ==
  ASSUME IInv, SepGenStore PROVE TrackInv'
<1> USE DEF envVars, shared, msgVars, loadVars, sepVars, wantVars, pairVars
<1>1. /\ {resident, marg} \subseteq Paths
      /\ {curGen, mgen, sgen, seen} \subseteq Nat
      /\ rewound \in BOOLEAN
  BY DEF IInv, TypeInv, TypeOK
<1>2. CASE SepGenStore
  <2>1. rewound' \/ (~rewound /\ curGen = sgen)
    BY <1>2, Zenon DEF SepGenStore
  <2>2. UNCHANGED <<resident, curPath, seen, lpc, lpath>> /\ curGen' = sgen + 1
    BY <1>2 DEF SepGenStore, envVars, loadVars
  <2>3. rewound' \/ seen' < curGen'
    BY <1>1, <2>1, <2>2 DEF IInv, TrackInv, SeenIsPast
  <2>4. QED
    BY <1>1, <2>2, <2>3 DEF IInv, TrackInv, SeenIsPast, DeliveryIsWatched,
      CheckIsOfOwnSet, StaleSetIsDoomed
<1>3. QED
  BY <1>2

-----------------------------------------------------------------------------
(* Every step preserves the inductive invariant. *)
THEOREM NextIInv == IInv /\ [Next]_vars => IInv'
<1> SUFFICES ASSUME IInv, [Next]_vars PROVE IInv'
  OBVIOUS
<1> USE DEF IInv
<1>1. TypeInv'
  <2>1. CASE Next
    BY <2>1, EnvironmentKeepsTypes, MessageKeepsTypes, LoaderKeepsTypes, SeparatorKeepsTypes
      DEF Next
  <2>2. CASE UNCHANGED vars
    BY <2>2 DEF TypeInv, TypeOK, PathsAreWhole, Paths, vars, envVars, shared, msgVars,
      loadVars, sepVars, wantVars, pairVars
  <2>3. QED
    BY <2>1, <2>2
<1>2. TrackInv'
  <2>1. CASE MessageStep \/ SettingsChanged \/ PoolRateObserve
    BY <2>1, MessageKeepsTrack
  <2>2. CASE LoaderStep
    BY <2>2, LoaderKeepsTrack
  <2>3. CASE SepGenStore
    BY <2>3, SeparatorStoresGeneration
  <2>4. ASSUME NEW t \in Tracks, DeckLoads(t) PROVE TrackInv'
    BY <2>4, ElsewhereKeepsTrack DEF DeckLoads, trackVars, shared, msgVars, loadVars
  <2>5. CASE RetryFallsDue \/ ServerArrived
    BY <2>5, ElsewhereKeepsTrack DEF RetryFallsDue, ServerArrived, trackVars, msgVars, loadVars
  <2>6. CASE SeparatorStep /\ ~SepGenStore
    BY <2>6, ElsewhereKeepsTrack DEF SeparatorStep, SeeWant, ClearForJob, MarkBusy, StartJob,
      StemReady, StoreInCache, VolumeRefuses, Deliver, JobSuperseded, JobFailed, JobRetryLater,
      JobOver, SepGenLoad, trackVars, shared, msgVars, loadVars
  <2>7. CASE UNCHANGED vars
    BY <2>7, ElsewhereKeepsTrack DEF vars, trackVars, shared, msgVars, loadVars
  <2>8. QED
    BY <2>1, <2>2, <2>3, <2>4, <2>5, <2>6, <2>7 DEF Next
<1>3. QED
  BY <1>1, <1>2

(* The inductive invariant holds in every reachable state. *)
THEOREM IInvHolds == Spec => []IInv
<1>1. IInv /\ [Next]_vars => IInv'
  BY NextIInv
<1>2. QED
  BY <1>1, InitIInv, PTL DEF Spec

(* Every reachable state of the job's threads is well typed; in particular  *)
(* no half-written path is ever published or separated (job.c:227-230).     *)
THEOREM TypeCorrect == Spec => []TypeOK
<1>1. IInv => TypeOK
  BY DEF IInv, TypeInv
<1>2. QED
  BY <1>1, IInvHolds, PTL

(* A resident set that is not the current track's is on its way out         *)
(* (job_loader.c:69-75, 118-138), unless a generation was rewound.          *)
THEOREM StaleSetsLeave == Spec => []StaleSetIsDoomed
<1>1. IInv => StaleSetIsDoomed
  BY DEF IInv, TrackInv
<1>2. QED
  BY <1>1, IInvHolds, PTL

(* What a publish installs is a whole path's set (job_loader.c:15-26): the  *)
(* loader never works on a path it read while it was being written.         *)
THEOREM PathsStayWhole == Spec => []PathsAreWhole
<1>1. IInv => PathsAreWhole
  BY DEF IInv, TypeInv
<1>2. QED
  BY <1>1, IInvHolds, PTL

-----------------------------------------------------------------------------
(* The exception of StaleSetIsDoomed needs the second writer of the         *)
(* generation: a separator that is never told of a server stores none.      *)
LoneWriter ==
  /\ spc \notin {"genload", "genstore"}
  /\ mpc = "store" => mgen = curGen
  /\ ~rewound

(* A step without a server turning up keeps the generation's one writer.    *)
LEMMA StepKeepsLoneWriter ==
  ASSUME "edge" \notin Events, LoneWriter, [Next]_vars PROVE LoneWriter'
<1> USE DEF LoneWriter, envVars, shared, msgVars, loadVars, sepVars, wantVars, pairVars
<1>1. CASE MessageStep
  <2>1. CASE GenStore
    <3>1. mgen = curGen /\ ~rewound
      BY <2>1 DEF GenStore
    <3>2. ~rewound'
      BY <2>1, <3>1, Zenon DEF GenStore
    <3>3. QED
      BY <2>1, <3>2 DEF GenStore
  <2>2. CASE TrackWatch \/ SetPath \/ GenLoad \/ JobRequest
    BY <2>2 DEF TrackWatch, SetPath, GenLoad, JobRequest, BeginSetTrack, BeginRequest
  <2>3. QED
    BY <1>1, <2>1, <2>2 DEF MessageStep
<1>2. CASE SettingsChanged \/ PoolRateObserve
  BY <1>2 DEF SettingsChanged, PoolRateObserve, BeginSetTrack, BeginRequest
<1>3. CASE LoaderStep
  <2>1. UNCHANGED <<spc, mpc, mgen, curGen, rewound>>
    BY <1>3 DEF LoaderStep, LoaderTop, ReleaseAll, TakeDelivery, ArmPublish, PublishOk,
      PublishAborted, PublishNotYet, PublishBad, StillCurrent, MarkReady, LoaderDue,
      BeginServe, ProbeFails, ProbeLength, CacheLookup, RequestSeparation, AskSeparator,
      EndServe
  <2>2. QED
    BY <2>1
<1>4. CASE ServerArrived
  BY <1>4 DEF ServerArrived, Spend
<1>5. CASE SeparatorStep
  BY <1>5 DEF SeparatorStep, SeeWant, ClearForJob, MarkBusy, StartJob, StemReady,
    StoreInCache, VolumeRefuses, Deliver, JobSuperseded, JobFailed, JobRetryLater, JobOver,
    SepGenLoad, SepGenStore
<1>6. ASSUME NEW t \in Tracks, DeckLoads(t) PROVE LoneWriter'
  BY <1>6 DEF DeckLoads
<1>7. CASE RetryFallsDue \/ UNCHANGED vars
  BY <1>7 DEF RetryFallsDue, vars
<1>8. QED
  BY <1>1, <1>2, <1>3, <1>4, <1>5, <1>6, <1>7 DEF Next

(* Without a second writer no generation is ever stored over a newer one,   *)
(* so every stale set leaves: job.c:721 races with server_arrived only.     *)
THEOREM LoneWriterNeverRewinds ==
  ASSUME "edge" \notin Events PROVE Spec => [](~rewound)
<1>1. Init => LoneWriter
  BY DEF Init, LoneWriter
<1>2. LoneWriter /\ [Next]_vars => LoneWriter'
  BY StepKeepsLoneWriter
<1>3. LoneWriter => ~rewound
  BY DEF LoneWriter
<1>4. QED
  BY <1>1, <1>2, <1>3, PTL DEF Spec
=============================================================================
