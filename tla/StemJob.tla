------------------------------ MODULE StemJob ------------------------------
(***************************************************************************)
(* package/deck/mods/stem/job*.c: which track the stems are for.            *)
(*                                                                         *)
(* Four threads share a handful of unlocked words.  The message thread      *)
(* names the current track (g_cur_path, then g_cur_gen) and clears          *)
(* g_stem_ready; the loader follows the generation, frees and publishes the *)
(* resident set and sets g_stem_ready; the separator runs one separation at *)
(* a time and asks the loader again when a server turns up; the audio       *)
(* thread mixes whatever is resident.  An action runs from one access of a  *)
(* word another thread writes to the next.                                  *)
(*                                                                         *)
(* The resident set is one value here: StemStore models how a publish       *)
(* replaces it under the readers.  A separation is the frames that end it:  *)
(* a STEM_READY per part, or a failure.  The media cache is the set of      *)
(* tracks it holds, some of whose entries (Spoiled) will not decode.        *)
(* OverCue stems stay off, the sidecar's fixed spool files are not shown    *)
(* being unlinked, and a track's path always resolves from its sourceId.    *)
(* The words of a request (job.c:320-323, AskSeparator) and those of a track *)
(* let go (job_loader.c:134-137, ReleaseAll) are stored in one step.         *)
(***************************************************************************)
EXTENDS Naturals, FiniteSets

CONSTANTS Tracks,      \* the paths the DJ loads
          NoTrack,     \* the empty path
          Torn,        \* g_cur_path read while snprintf is writing it
          OnMedia,     \* tracks whose stems the media holds at the start
          Spoiled,     \* those of them whose pair does not decode
          MaxLoads,    \* bound: track loads
          Events,      \* what else may happen, of EventKinds
          MaxEvents,   \* bound: how often, in all
          RateSurprise \* whether the pool rate turns out not as assumed

\* The STEMS row pressed, a server turning up, a passing failure, a delivered
\* pair that meets a deck too busy to decode, a volume that takes no cache.
EventKinds == {"toggle", "edge", "fault", "busy", "refusal"}

ASSUME JobAssumption == /\ NoTrack \notin Tracks
                        /\ Torn \notin Tracks \cup {NoTrack}
                        /\ Spoiled \subseteq OnMedia
                        /\ OnMedia \subseteq Tracks
                        /\ MaxLoads \in Nat /\ MaxEvents \in Nat
                        /\ Events \subseteq EventKinds
                        /\ RateSurprise \in BOOLEAN

Parts == {"harmonics", "vocals"}
Paths == Tracks \cup {NoTrack}

VARIABLES
  deck,      \* the track the deck plays (g_src.sid_*)
  moved,     \* g_src.track_gen has moved since stem_track_watch last looked
  actedOn,   \* stem_track_act's acted_on
  stemsOn,   \* g_stems_on
  curPath,   \* g_cur_path
  curGen,    \* g_cur_gen
  ready,     \* g_stem_ready
  retry,     \* g_retry_at: none, armed (in the future) or due
  mpc, marg, mgen, mnext,            \* the message thread
  lpc, lpath, lwhole, lgen, seen, served,   \* the loader
  resident,  \* the track whose set is in g_set
  spc, job, sgen,                    \* the separator
  want, asked, supersede, busy,      \* g_want_path, g_want_gen moved, the two flags
  arrived,   \* g_arrived: parts recorded for the job in flight
  announced, \* parts the sidecar has sent for that job
  delivery,  \* g_delivery
  media,     \* tracks the media cache holds
  rateWrong, \* the resident rate will be found wrong
  rewound,   \* history: a generation was stored over a newer one
  budget     \* what is left of the environment's bounds

shared   == <<curPath, curGen, ready, retry>>
msgVars  == <<mpc, marg, mgen, mnext>>
loadVars == <<lpc, lpath, lwhole, lgen, seen, served>>
sepVars  == <<spc, job, sgen>>
wantVars == <<want, asked, supersede, busy>>
pairVars == <<arrived, announced>>
envVars  == <<deck, moved, actedOn, stemsOn, rateWrong>>
vars == <<envVars, shared, msgVars, loadVars, resident, sepVars, wantVars, pairVars,
          delivery, media, rewound, budget>>

NoDelivery == [track |-> NoTrack, whole |-> FALSE]
Current(p) == p # NoTrack /\ p = curPath            \* track_is_current
Spend(event) ==
  /\ event \in Events
  /\ budget.events > 0
  /\ budget' = [budget EXCEPT !.events = @ - 1]

TypeOK ==
  /\ deck \in Paths /\ actedOn \in Paths /\ moved \in BOOLEAN
  /\ {stemsOn, ready, mnext, lwhole, served, asked, supersede, busy, rateWrong, rewound} \subseteq BOOLEAN
  /\ curPath \in Paths \cup {Torn} /\ lpath \in Paths \cup {Torn}
  /\ {curGen, mgen, lgen, seen, sgen} \subseteq Nat
  /\ retry \in {"none", "armed", "due"}
  /\ mpc \in {"idle", "path", "torn", "gen", "store", "request"}
  /\ lpc \in {"top", "release", "delivery", "dlatch", "dpublish", "dcheck", "dready", "due",
              "begin", "probe", "lookup", "latch", "publish", "check", "mark", "request",
              "ask", "end"}
  /\ spc \in {"idle", "clear", "busy", "defer", "run", "store", "deliver", "retry", "over",
              "genload", "genstore"}
  /\ {marg, resident, job, want, delivery.track} \subseteq Paths
  /\ arrived \subseteq Parts /\ announced \subseteq Parts
  /\ delivery.whole \in BOOLEAN
  /\ media \subseteq Tracks

Init ==
  /\ deck = NoTrack /\ moved = FALSE /\ actedOn = NoTrack
  /\ stemsOn = TRUE
  /\ curPath = NoTrack /\ curGen = 0 /\ ready = FALSE /\ retry = "none"
  /\ mpc = "idle" /\ marg = NoTrack /\ mgen = 0 /\ mnext = FALSE
  /\ lpc = "top" /\ lpath = NoTrack /\ lwhole = FALSE /\ lgen = 0 /\ seen = 0 /\ served = FALSE
  /\ resident = NoTrack
  /\ spc = "idle" /\ job = NoTrack /\ sgen = 0
  /\ want = NoTrack /\ asked = FALSE /\ supersede = FALSE /\ busy = FALSE
  /\ arrived = {} /\ announced = {}
  /\ delivery = NoDelivery
  /\ media = OnMedia
  /\ rateWrong = RateSurprise
  /\ rewound = FALSE
  /\ budget = [loads |-> MaxLoads, events |-> MaxEvents]

-----------------------------------------------------------------------------
(* The deck and the audio thread.                                           *)

\* The sourceId in the stretcher moves: another track is playing.
DeckLoads(t) ==
  /\ t # deck
  /\ budget.loads > 0
  /\ budget' = [budget EXCEPT !.loads = @ - 1]
  /\ deck' = t
  /\ moved' = TRUE
  /\ UNCHANGED <<actedOn, stemsOn, rateWrong, shared, msgVars, loadVars,
                 resident, sepVars, wantVars, pairVars, delivery, media,
                 rewound>>

-----------------------------------------------------------------------------
(* The message thread.                                                      *)

\* stem_job_set_track up to the write of the path.
BeginSetTrack(p, next) ==
  IF p # NoTrack /\ p = curPath
  THEN UNCHANGED <<ready, msgVars>>
  ELSE /\ ready' = FALSE
       /\ mpc' = "path"
       /\ marg' = p
       /\ mnext' = next
       /\ UNCHANGED mgen

\* stem_job_request up to the read of the generation.
BeginRequest ==
  /\ retry' = "none"
  /\ mpc' = "gen"
  /\ mnext' = FALSE
  /\ UNCHANGED <<marg, mgen>>

TrackWatch ==
  /\ mpc = "idle"
  /\ moved
  /\ moved' = FALSE
  /\ actedOn' = deck
  /\ IF deck = actedOn
     THEN UNCHANGED <<ready, msgVars>>
     ELSE BeginSetTrack(deck, FALSE)
  /\ UNCHANGED <<deck, stemsOn, rateWrong, curPath, curGen, retry, loadVars,
                 resident, sepVars, wantVars, pairVars, delivery, media,
                 rewound, budget>>

\* mods_stem_settings_changed after the STEMS row was pressed.
SettingsChanged ==
  /\ mpc = "idle"
  /\ Spend("toggle")
  /\ stemsOn' = ~stemsOn
  /\ IF stemsOn
     THEN BeginSetTrack(NoTrack, FALSE) /\ UNCHANGED retry
     ELSE BeginRequest /\ UNCHANGED ready
  /\ UNCHANGED <<deck, moved, actedOn, rateWrong, curPath, curGen, loadVars,
                 resident, sepVars, wantVars, pairVars, delivery, media,
                 rewound>>

\* pool_rate_observe, the one time the rate is established.
PoolRateObserve ==
  /\ mpc = "idle"
  /\ rateWrong
  /\ resident # NoTrack
  /\ rateWrong' = FALSE
  /\ BeginSetTrack(NoTrack, stemsOn)
  /\ UNCHANGED <<deck, moved, actedOn, stemsOn, curPath, curGen, retry,
                 loadVars, resident, sepVars, wantVars, pairVars, delivery,
                 media, rewound, budget>>

\* snprintf into g_cur_path: another thread may read it half written.
SetPath ==
  /\ \/ /\ mpc = "path" /\ marg # NoTrack
        /\ curPath' = Torn
        /\ mpc' = "torn"
     \/ /\ mpc = IF marg = NoTrack THEN "path" ELSE "torn"
        /\ curPath' = marg
        /\ mpc' = "gen"
  /\ UNCHANGED <<envVars, curGen, ready, retry, marg, mgen, mnext, loadVars,
                 resident, sepVars, wantVars, pairVars, delivery, media,
                 rewound, budget>>

\* g_cur_gen + 1 is a load, an addition and a store.
GenLoad ==
  /\ mpc = "gen"
  /\ mgen' = curGen
  /\ mpc' = "store"
  /\ UNCHANGED <<envVars, shared, marg, mnext, loadVars, resident, sepVars,
                 wantVars, pairVars, delivery, media, rewound, budget>>

GenStore ==
  /\ mpc = "store"
  /\ curGen' = mgen + 1
  /\ rewound' = (rewound \/ curGen # mgen)
  /\ mpc' = IF mnext THEN "request" ELSE "idle"
  /\ mgen' = 0
  /\ UNCHANGED <<envVars, curPath, ready, retry, marg, mnext, loadVars,
                 resident, sepVars, wantVars, pairVars, delivery, media,
                 budget>>

JobRequest ==
  /\ mpc = "request"
  /\ BeginRequest
  /\ UNCHANGED <<envVars, curPath, curGen, ready, loadVars, resident,
                 sepVars, wantVars, pairVars, delivery, media, rewound,
                 budget>>

MessageStep == TrackWatch \/ SetPath \/ GenLoad \/ GenStore \/ JobRequest

-----------------------------------------------------------------------------
(* The loader.                                                              *)

\* Seeded fault: a new generation does not ask for the track to be served again.
LoaderTopKeepsServed ==
  /\ lpc = "top"
  /\ IF curGen # seen
     THEN seen' = curGen /\ lpc' = "release"
     ELSE lpc' = "delivery" /\ UNCHANGED seen
  /\ UNCHANGED <<envVars, shared, msgVars, lpath, lwhole, lgen, served,
                 resident, sepVars, wantVars, pairVars, delivery, media,
                 rewound, budget>>

LoaderTop ==
  /\ lpc = "top"
  /\ IF curGen # seen
     THEN seen' = curGen /\ served' = FALSE /\ lpc' = "release"
     ELSE lpc' = "delivery" /\ UNCHANGED <<seen, served>>
  /\ UNCHANGED <<envVars, shared, msgVars, lpath, lwhole, lgen, resident,
                 sepVars, wantVars, pairVars, delivery, media, rewound,
                 budget>>

\* The branch of a moved generation: free, forget the half pair, drop the retry.
ReleaseAll ==
  /\ lpc = "release"
  /\ resident' = NoTrack
  /\ arrived' = {}
  /\ retry' = "none"
  /\ lpc' = "delivery"
  /\ UNCHANGED <<envVars, curPath, curGen, ready, msgVars, lpath, lwhole,
                 lgen, seen, served, sepVars, wantVars, announced, delivery,
                 media, rewound, budget>>

TakeDelivery ==
  /\ lpc = "delivery"
  /\ delivery' = NoDelivery
  /\ IF Current(delivery.track)
     THEN lpath' = delivery.track /\ lwhole' = delivery.whole /\ lpc' = "dlatch"
     ELSE lpc' = "due" /\ UNCHANGED <<lpath, lwhole>>
  /\ UNCHANGED <<envVars, shared, msgVars, lgen, seen, served, resident,
                 sepVars, wantVars, pairVars, media, rewound, budget>>

\* loader_publish latches the generation the publish belongs to.
ArmPublish ==
  /\ lpc \in {"dlatch", "latch"}
  /\ lgen' = curGen
  /\ lpc' = IF lpc = "latch" THEN "publish" ELSE "dpublish"
  /\ UNCHANGED <<envVars, shared, msgVars, lpath, lwhole, seen, served,
                 resident, sepVars, wantVars, pairVars, delivery, media,
                 rewound, budget>>

Undecodable == IF lpc = "dpublish" THEN ~lwhole ELSE lpath \in Spoiled

PublishOk ==
  /\ lpc \in {"dpublish", "publish"}
  /\ ~Undecodable
  /\ resident' = lpath
  /\ lpc' = IF lpc = "publish" THEN "check" ELSE "dcheck"
  /\ UNCHANGED <<envVars, shared, msgVars, lpath, lwhole, lgen, seen, served,
                 sepVars, wantVars, pairVars, delivery, media, rewound,
                 budget>>

\* STEM_PUBLISH_ABORT: a wait or a chunk saw that the generation moved.
PublishAborted ==
  /\ lpc \in {"dpublish", "publish"}
  /\ curGen # lgen
  /\ lpc' = IF lpc = "publish" THEN "end" ELSE "due"
  /\ UNCHANGED <<envVars, shared, msgVars, lpath, lwhole, lgen, seen, served,
                 resident, sepVars, wantVars, pairVars, delivery, media,
                 rewound, budget>>

\* STEM_PUBLISH_RETRY: no pool rate yet, a busy deck, or no memory.
PublishNotYet ==
  /\ lpc \in {"dpublish", "publish"}
  /\ Spend(IF lpc = "publish" THEN "fault" ELSE "busy")
  /\ IF lpc = "publish"
     THEN retry' = "armed" /\ lpc' = "end"
     ELSE lpc' = "due" /\ UNCHANGED retry
  /\ UNCHANGED <<envVars, curPath, curGen, ready, msgVars, lpath, lwhole,
                 lgen, seen, served, resident, sepVars, wantVars, pairVars,
                 delivery, media, rewound>>

\* STEM_PUBLISH_BAD: separate it again, unless it came from the separator.
PublishBad ==
  /\ lpc \in {"dpublish", "publish"}
  /\ Undecodable
  /\ lpc' = IF lpc = "publish" THEN "request" ELSE "due"
  /\ UNCHANGED <<envVars, shared, msgVars, lpath, lwhole, lgen, seen, served,
                 resident, sepVars, wantVars, pairVars, delivery, media,
                 rewound, budget>>

\* The second look at the track: only the cached path drops a set nobody wants.
StillCurrent ==
  /\ lpc \in {"check", "dcheck"}
  /\ \/ /\ Current(lpath)
        /\ lpc' = IF lpc = "check" THEN "mark" ELSE "dready"
        /\ UNCHANGED resident
     \/ /\ ~Current(lpath)
        /\ IF lpc = "check"
           THEN resident' = NoTrack /\ lpc' = "end"
           ELSE lpc' = "due" /\ UNCHANGED resident
  /\ UNCHANGED <<envVars, shared, msgVars, lpath, lwhole, lgen, seen, served,
                 sepVars, wantVars, pairVars, delivery, media, rewound,
                 budget>>

MarkReady ==
  /\ lpc \in {"mark", "dready"}
  /\ ready' = TRUE
  /\ lpc' = IF lpc = "mark" THEN "end" ELSE "due"
  /\ UNCHANGED <<envVars, curPath, curGen, retry, msgVars, lpath, lwhole,
                 lgen, seen, served, resident, sepVars, wantVars, pairVars,
                 delivery, media, rewound, budget>>

\* Is there something to serve, or a retry that fell due?
LoaderDue ==
  /\ lpc = "due"
  /\ LET due == retry = "due" \/ (retry = "none" /\ ~served)
     IN lpc' = IF stemsOn /\ curPath # NoTrack /\ due THEN "begin" ELSE "top"
  /\ lpath' = NoTrack /\ lwhole' = FALSE /\ lgen' = 0
  /\ UNCHANGED <<envVars, shared, msgVars, seen, served, resident, sepVars,
                 wantVars, pairVars, delivery, media, rewound, budget>>

BeginServe ==
  /\ lpc = "begin"
  /\ retry' = "none"
  /\ lpath' = curPath
  /\ lpc' = "probe"
  /\ UNCHANGED <<envVars, curPath, curGen, ready, msgVars, lwhole, lgen,
                 seen, served, resident, sepVars, wantVars, pairVars,
                 delivery, media, rewound, budget>>

\* Seeded fault: a failed probe schedules nothing.
ProbeFailsForGood ==
  /\ lpc = "probe"
  /\ IF lpath \in Tracks THEN Spend("fault") ELSE UNCHANGED budget
  /\ lpc' = "end"
  /\ UNCHANGED <<envVars, shared, msgVars, lpath, lwhole, lgen, seen, served,
                 resident, sepVars, wantVars, pairVars, delivery, media,
                 rewound>>

\* The length probe of a path that names no file fails like any other.
ProbeFails ==
  /\ lpc = "probe"
  /\ IF lpath \in Tracks THEN Spend("fault") ELSE UNCHANGED budget
  /\ retry' = "armed"
  /\ lpc' = "end"
  /\ UNCHANGED <<envVars, curPath, curGen, ready, msgVars, lpath, lwhole,
                 lgen, seen, served, resident, sepVars, wantVars, pairVars,
                 delivery, media, rewound>>

ProbeLength ==
  /\ lpc = "probe"
  /\ lpath \in Tracks
  /\ lpc' = IF Current(lpath) THEN "lookup" ELSE "end"
  /\ UNCHANGED <<envVars, shared, msgVars, lpath, lwhole, lgen, seen, served,
                 resident, sepVars, wantVars, pairVars, delivery, media,
                 rewound, budget>>

CacheLookup ==
  /\ lpc = "lookup"
  /\ lpc' = IF lpath \in media THEN "latch" ELSE "request"
  /\ UNCHANGED <<envVars, shared, msgVars, lpath, lwhole, lgen, seen, served,
                 resident, sepVars, wantVars, pairVars, delivery, media,
                 rewound, budget>>

\* sep_request: asking again for what is already running is not asking.
RequestSeparation ==
  /\ lpc = "request"
  /\ lpc' = IF want = lpath /\ busy THEN "end" ELSE "ask"
  /\ UNCHANGED <<envVars, shared, msgVars, lpath, lwhole, lgen, seen, served,
                 resident, sepVars, wantVars, pairVars, delivery, media,
                 rewound, budget>>

AskSeparator ==
  /\ lpc = "ask"
  /\ want' = lpath
  /\ supersede' = TRUE
  /\ asked' = TRUE
  /\ lpc' = "end"
  /\ UNCHANGED <<envVars, shared, msgVars, lpath, lwhole, lgen, seen, served,
                 resident, sepVars, busy, pairVars, delivery, media, rewound,
                 budget>>

\* Seeded fault: the track that was served is taken for the track that is loaded.
EndServeAdopts ==
  /\ lpc = "end"
  /\ served' = (retry = "none")
  /\ seen' = curGen
  /\ lpc' = "top"
  /\ lpath' = NoTrack
  /\ lgen' = 0
  /\ UNCHANGED <<envVars, shared, msgVars, lwhole, resident, sepVars,
                 wantVars, pairVars, delivery, media, rewound, budget>>

EndServe ==
  /\ lpc = "end"
  /\ served' = (retry = "none")
  /\ lpc' = "top"
  /\ lpath' = NoTrack
  /\ lgen' = 0
  /\ UNCHANGED <<envVars, shared, msgVars, lwhole, seen, resident, sepVars,
                 wantVars, pairVars, delivery, media, rewound, budget>>

LoaderStep == \/ LoaderTop \/ ReleaseAll \/ TakeDelivery \/ ArmPublish
              \/ PublishOk \/ PublishAborted \/ PublishNotYet \/ PublishBad
              \/ StillCurrent \/ MarkReady \/ LoaderDue \/ BeginServe \/ ProbeFails
              \/ ProbeLength \/ CacheLookup \/ RequestSeparation \/ AskSeparator \/ EndServe

\* JOB_RETRY_SEC go by: longer than a return from run_separation takes.
RetryFallsDue ==
  /\ retry = "armed"
  /\ spc # "over"
  /\ retry' = "due"
  /\ UNCHANGED <<envVars, curPath, curGen, ready, msgVars, loadVars,
                 resident, sepVars, wantVars, pairVars, delivery, media,
                 rewound, budget>>

-----------------------------------------------------------------------------
(* The separator.                                                           *)

SeeWant ==
  /\ spc = "idle"
  /\ asked
  /\ asked' = FALSE
  /\ spc' = "clear"
  /\ UNCHANGED <<envVars, shared, msgVars, loadVars, resident, job, sgen,
                 want, supersede, busy, pairVars, delivery, media, rewound,
                 budget>>

ClearForJob ==
  /\ spc = "clear"
  /\ supersede' = FALSE
  /\ arrived' = {}
  /\ spc' = "busy"
  /\ UNCHANGED <<envVars, shared, msgVars, loadVars, resident, job, sgen,
                 want, asked, busy, announced, delivery, media, rewound,
                 budget>>

MarkBusy ==
  /\ spc = "busy"
  /\ busy' = TRUE
  /\ spc' = "defer"
  /\ UNCHANGED <<envVars, shared, msgVars, loadVars, resident, job, sgen,
                 want, asked, supersede, pairVars, delivery, media, rewound,
                 budget>>

\* The top of run_separation: the deck is quiet; is the track still loaded?
StartJob ==
  /\ spc = "defer"
  /\ IF Current(want)
     THEN job' = want /\ announced' = {} /\ spc' = "run"
     ELSE spc' = "over" /\ UNCHANGED <<job, announced>>
  /\ UNCHANGED <<envVars, shared, msgVars, loadVars, resident, sgen,
                 wantVars, arrived, delivery, media, rewound, budget>>

\* STEM_MSG_STEM_READY: the second part of the pair makes it complete.
StemReady(part) ==
  /\ spc = "run"
  /\ part \notin announced
  /\ announced' = announced \cup {part}
  /\ arrived' = arrived \cup {part}
  /\ spc' = IF arrived' = Parts THEN "store" ELSE "run"
  /\ UNCHANGED <<envVars, shared, msgVars, loadVars, resident, job, sgen,
                 wantVars, delivery, media, rewound, budget>>

\* stem_cache_store copies the files g_arrived names, on a volume that takes them.
StoreInCache ==
  /\ spc = "store"
  /\ spc' = "deliver"
  /\ media' = IF arrived = Parts THEN media \cup {job} ELSE media
  /\ UNCHANGED <<envVars, shared, msgVars, loadVars, resident, job, sgen,
                 wantVars, pairVars, delivery, rewound, budget>>

VolumeRefuses ==
  /\ spc = "store"
  /\ Spend("refusal")
  /\ spc' = "deliver"
  /\ UNCHANGED <<envVars, shared, msgVars, loadVars, resident, job, sgen,
                 wantVars, pairVars, delivery, media, rewound>>

\* sep_deliver copies the same paths again.
Deliver ==
  /\ spc = "deliver"
  /\ delivery' = [track |-> job, whole |-> arrived = Parts]
  /\ spc' = "over"
  /\ UNCHANGED <<envVars, shared, msgVars, loadVars, resident, job, sgen,
                 wantVars, pairVars, media, rewound, budget>>

\* A supersede seen by the upload or the poll loop.  One seen in the STATUS wait leaves
\* through job_failed (job.c:396-407): it is a JobFailed, counted among the faults.
JobSuperseded ==
  /\ spc = "run"
  /\ supersede
  /\ spc' = "over"
  /\ UNCHANGED <<envVars, shared, msgVars, loadVars, resident, job, sgen,
                 wantVars, pairVars, delivery, media, rewound, budget>>

\* job_failed up to the retry it schedules: any failure on the wire, or
\* JOB_SILENCE_SEC without a frame once both parts were sent.
JobFailed ==
  /\ spc = "run"
  /\ IF announced = Parts THEN UNCHANGED budget ELSE Spend("fault")
  /\ spc' = IF Current(job) THEN "retry" ELSE "over"
  /\ UNCHANGED <<envVars, shared, msgVars, loadVars, resident, job, sgen,
                 wantVars, pairVars, delivery, media, rewound>>

JobRetryLater ==
  /\ spc = "retry"
  /\ retry' = "armed"
  /\ spc' = "over"
  /\ UNCHANGED <<envVars, curPath, curGen, ready, msgVars, loadVars,
                 resident, job, sgen, wantVars, pairVars, delivery, media,
                 rewound, budget>>

JobOver ==
  /\ spc = "over"
  /\ busy' = FALSE
  /\ spc' = "idle"
  /\ announced' = {}
  /\ job' = NoTrack
  /\ UNCHANGED <<envVars, shared, msgVars, loadVars, resident, sgen, want,
                 asked, supersede, arrived, delivery, media, rewound,
                 budget>>

\* server_arrived, in the idle branch after a probe that found a server.
ServerArrived ==
  /\ spc = "idle"
  /\ Spend("edge")
  /\ IF stemsOn /\ curPath # NoTrack /\ resident = NoTrack
     THEN retry' = "none" /\ spc' = "genload"
     ELSE UNCHANGED <<retry, spc>>
  /\ UNCHANGED <<envVars, curPath, curGen, ready, msgVars, loadVars,
                 resident, job, sgen, wantVars, pairVars, delivery, media,
                 rewound>>

\* stem_job_request's increment, on the separator's thread.
SepGenLoad ==
  /\ spc = "genload"
  /\ sgen' = curGen
  /\ spc' = "genstore"
  /\ UNCHANGED <<envVars, shared, msgVars, loadVars, resident, job, wantVars,
                 pairVars, delivery, media, rewound, budget>>

SepGenStore ==
  /\ spc = "genstore"
  /\ curGen' = sgen + 1
  /\ rewound' = (rewound \/ curGen # sgen)
  /\ spc' = "idle"
  /\ sgen' = 0
  /\ UNCHANGED <<envVars, curPath, ready, retry, msgVars, loadVars, resident,
                 job, wantVars, pairVars, delivery, media, budget>>

SeparatorStep == \/ SeeWant \/ ClearForJob \/ MarkBusy \/ StartJob
                 \/ \E part \in Parts : StemReady(part)
                 \/ StoreInCache \/ VolumeRefuses \/ Deliver \/ JobSuperseded
                 \/ JobFailed \/ JobRetryLater \/ JobOver \/ SepGenLoad \/ SepGenStore

-----------------------------------------------------------------------------
Next == \/ \E t \in Tracks : DeckLoads(t)
        \/ SettingsChanged \/ PoolRateObserve \/ MessageStep
        \/ LoaderStep \/ RetryFallsDue
        \/ ServerArrived \/ SeparatorStep

Spec == Init /\ [][Next]_vars

(* Every thread keeps running, the five seconds of a retry pass, and a      *)
(* separation comes to an end; the DJ, the settings and the server owe      *)
(* nothing.                                                                 *)
LiveSpec == /\ Spec
            /\ WF_vars(MessageStep) /\ WF_vars(LoaderStep)
            /\ WF_vars(RetryFallsDue) /\ WF_vars(SeparatorStep)

-----------------------------------------------------------------------------
(* Properties.                                                              *)

(* A resident set that is not the current track's is on its way out: the    *)
(* message thread has still to move the generation, the loader has still to *)
(* see it or to free, or it has yet to look at the track a second time.     *)
(* The one exception is a generation the separator stored over a newer one. *)
StaleSetIsDoomed ==
  resident \notin {NoTrack, curPath} =>
    mpc # "idle" \/ seen # curGen \/ lpc \in {"release", "check"} \/ rewound

(* The inductive invariant behind TypeOK and StaleSetIsDoomed.  A path the   *)
(* loader or the separator works on was a whole one when it was taken.      *)
PathsAreWhole ==
  /\ lpc \in {"dlatch", "dpublish", "dcheck", "dready", "lookup", "latch", "publish",
             "check", "mark", "request", "ask"} => lpath \in Tracks
  /\ spc \in {"run", "store", "deliver", "retry"} => job \in Tracks

(* The loader has not seen a generation that is still to come.              *)
SeenIsPast == rewound \/ seen <= curGen

(* A delivery is published without a look at the track behind it: if that   *)
(* is no longer the current one, the generation has moved or is about to.   *)
DeliveryIsWatched ==
  lpc \in {"dlatch", "dpublish"} /\ lpath # curPath =>
    mpc # "idle" \/ seen # curGen \/ rewound

\* The set the second look is about is the one just published.
CheckIsOfOwnSet == lpc = "check" => resident = lpath

TypeInv == TypeOK /\ PathsAreWhole
TrackInv == SeenIsPast /\ DeliveryIsWatched /\ CheckIsOfOwnSet /\ StaleSetIsDoomed
IInv == TypeInv /\ TrackInv

(* job.c:210-212, "Worker thread only, and reset per job": a pair both of   *)
(* whose parts were announced is complete, and not waited for.              *)
AnnouncedPairIsComplete == spc = "run" => announced # Parts

(* The track the deck plays, if the media holds stems for it that decode,   *)
(* is eventually the resident set and ready, unless the DJ loads another or *)
(* switches STEMS off.                                                      *)
CachedTrackIsServed ==
  \A t \in OnMedia \ Spoiled :
    deck = t /\ stemsOn ~> deck # t \/ ~stemsOn \/ (resident = t /\ ready)

(* store.c:391-392, "the job comes back in a few seconds": a pair that was  *)
(* separated for the track the deck plays is eventually resident and ready, *)
(* unless the DJ loads another or switches STEMS off.                       *)
DeliveredTrackIsServed ==
  \A t \in Tracks :
    deck = t /\ stemsOn /\ delivery = [track |-> t, whole |-> TRUE]
      ~> deck # t \/ ~stemsOn \/ (resident = t /\ ready)
=============================================================================
