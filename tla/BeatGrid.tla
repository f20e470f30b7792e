------------------------------ MODULE BeatGrid ------------------------------
(* The beat grid the mix follows (stem/grid.c).  The deck's reply for a track *)
(* brings a grid with its TrackID; it is kept, staged, and armed from the     *)
(* display tick and from a pad press: the array is published under its        *)
(* readers, the tempo beside it, and a latch says for which track and rate.   *)
(* A track change forgets what is published, and the latch.                   *)
(*                                                                            *)
(* A grid is the track it describes.  A published array is a number with what *)
(* it holds: the track, the id it is stamped with and the rate it is for.     *)
(* Threads: the deck's reply, the message thread's tick and forget ("tick"),  *)
(* the deck's pad task ("pad"), the mix.  The reply of a load is over before  *)
(* the message thread notices the load (grid.c:301-308).                      *)

EXTENDS Naturals, Sequences, FiniteSets

CONSTANTS BgTracks,    \* tracks with a grid
          BgPlain,     \* tracks without one
          BgSlots,     \* GRID_REPLY_SLOTS
          BgRates,     \* rates of the pool, of which it has none at first
          BgMaxEvents  \* bound: loads, pad presses and rates together
ASSUME BgAssumption == BgSlots \in Nat \ {0} /\ BgMaxEvents \in Nat /\ 0 \notin BgRates

VARIABLES bgTrack,    \* stem_source_id: the track the mix reads
          bgNoticed,  \* the track the message thread has noticed
          bgRate,     \* stem_pool_rate
          bgReply,    \* the reply being handled: where, and for which track
          bgHolder,   \* grid_g_holder, grid_g_holder_tid
          bgKept,     \* grid_g_replies: the ids, oldest first
          bgPending,  \* grid_g_pending: [of, tid] or NoArray
          bgBeats,    \* grid_g_beats: number of the array, 0 when none
          bgArray,    \* number -> [of, tid, rate], Freed when it is not allocated
          bgLive, bgReaders,    \* grid_g_beats_live, grid_g_beats_readers
          bgTempo,    \* grid_g_spb_bits, beat0: the track they are of, NoTrackId when 0
          bgArmed,    \* grid_g_armed_*: [tid, rate]
          bgArming,   \* grid_g_arming
          bgAt,       \* thread -> where it stands, with its locals
          bgMix,      \* the mix: where it stands and the array it reads
          bgOverlap,  \* history: a pad press "crossed" a reply, an arming or a
                      \* forgetting; "both" threads published at once
          bgEvents

bgVars == <<bgTrack, bgNoticed, bgRate, bgReply, bgHolder, bgKept, bgPending, bgBeats, bgArray, bgLive,
            bgReaders, bgTempo, bgArmed, bgArming, bgAt, bgMix, bgOverlap, bgEvents>>
bgSource == <<bgTrack, bgNoticed, bgRate, bgEvents>>
bgDeck == <<bgReply, bgHolder, bgKept>>
bgShown == <<bgBeats, bgArray, bgLive, bgTempo>>
bgLatch == <<bgArmed, bgArming>>

NoTrackId == "no id"
NoArray == [of |-> NoTrackId, tid |-> NoTrackId]
Freed == [of |-> NoTrackId, tid |-> NoTrackId, rate |-> 0]
NotArmed == [tid |-> NoTrackId, rate |-> 0]
Away == [at |-> "idle", tid |-> NoTrackId, rate |-> 0, new |-> 0, old |-> 0, arms |-> FALSE, cue |-> NoTrackId]
Arrays == 1..4

BgInit ==
  /\ bgTrack = NoTrackId /\ bgNoticed = NoTrackId /\ bgRate = 0
  /\ bgReply = [at |-> "idle", tid |-> NoTrackId]
  /\ bgHolder = NoArray /\ bgKept = <<>> /\ bgPending = NoArray
  /\ bgBeats = 0 /\ bgArray = [n \in Arrays |-> Freed] /\ bgLive = FALSE /\ bgReaders = 0
  /\ bgTempo = NoTrackId /\ bgArmed = NotArmed /\ bgArming = FALSE
  /\ bgAt = [p \in {"tick", "pad"} |-> Away] /\ bgMix = [at |-> "idle", array |-> 0]
  /\ bgOverlap = {} /\ bgEvents = 0

Arrives == bgEvents < BgMaxEvents /\ bgEvents' = bgEvents + 1
IsKept(t) == t \in {bgKept[i] : i \in DOMAIN bgKept}

-----------------------------------------------------------------------------
(* grid_wrap_reply: the holder, then its id, then the kept copy, then the     *)
(* staged one.                                                                *)

BgReplyComes(t) ==
  /\ bgReply.at = "idle" /\ t # bgTrack /\ Arrives
  /\ bgReply' = [at |-> "holder", tid |-> t] /\ bgHolder' = [bgHolder EXCEPT !.of = t]
  /\ UNCHANGED <<bgTrack, bgNoticed, bgRate, bgKept, bgPending, bgShown, bgReaders, bgLatch, bgAt, bgMix, bgOverlap>>
BgReplyTags ==
  /\ bgReply.at = "holder" /\ bgReply' = [bgReply EXCEPT !.at = "keeps"]
  /\ bgHolder' = [bgHolder EXCEPT !.tid = bgReply.tid]
  /\ UNCHANGED <<bgSource, bgKept, bgPending, bgShown, bgReaders, bgLatch, bgAt, bgMix, bgOverlap>>
\* grid_reply_keep: the slot of the same id, or the oldest.
BgReplyKeeps ==
  /\ bgReply.at = "keeps" /\ bgReply' = [bgReply EXCEPT !.at = "stages"]
  /\ bgKept' = LET t == bgReply.tid IN
       IF IsKept(t) THEN bgKept ELSE IF Len(bgKept) < BgSlots THEN Append(bgKept, t) ELSE Append(Tail(bgKept), t)
  /\ UNCHANGED <<bgSource, bgHolder, bgPending, bgShown, bgReaders, bgLatch, bgAt, bgMix, bgOverlap>>
BgReplyStages ==
  /\ bgReply.at = "stages" /\ bgReply' = [bgReply EXCEPT !.at = "loads"]
  /\ bgPending' = [of |-> bgReply.tid, tid |-> bgReply.tid]
  /\ UNCHANGED <<bgSource, bgHolder, bgKept, bgShown, bgReaders, bgLatch, bgAt, bgMix, bgOverlap>>
\* The load the reply belongs to: the mix reads the new source while the reply is
\* handled or after it.
BgSourceTurns ==
  /\ bgReply.at # "idle" /\ bgTrack # bgReply.tid /\ bgTrack' = bgReply.tid
  /\ UNCHANGED <<bgNoticed, bgRate, bgEvents, bgDeck, bgPending, bgShown, bgReaders, bgLatch, bgAt, bgMix, bgOverlap>>
BgReplyEnds ==
  /\ bgReply.at = "loads" /\ bgTrack = bgReply.tid
  /\ bgReply' = [at |-> "idle", tid |-> NoTrackId]
  /\ UNCHANGED <<bgSource, bgHolder, bgKept, bgPending, bgShown, bgReaders, bgLatch, bgAt, bgMix, bgOverlap>>
\* A track that has no grid, or that comes back without a reply.
BgLoadsSilently(t) ==
  /\ bgReply.at = "idle" /\ t # bgTrack /\ Arrives /\ bgTrack' = t
  /\ UNCHANGED <<bgNoticed, bgRate, bgDeck, bgPending, bgShown, bgReaders, bgLatch, bgAt, bgMix, bgOverlap>>
BgRateIs(r) ==
  /\ r # bgRate /\ Arrives /\ bgRate' = r
  /\ UNCHANGED <<bgTrack, bgNoticed, bgDeck, bgPending, bgShown, bgReaders, bgLatch, bgAt, bgMix, bgOverlap>>

-----------------------------------------------------------------------------
(* grid_arm_reply, from either thread, and the cue walk of stem_grid_take.    *)

Set(p, f) == bgAt' = [bgAt EXCEPT ![p] = f]
Crosses == bgOverlap' = IF bgAt["pad"].at # "idle" THEN bgOverlap \cup {"crossed"} ELSE bgOverlap
\* A kept reply for the source, not armed yet, and nobody arming.
CanArm == bgRate # 0 /\ IsKept(bgTrack) /\ bgArmed # [tid |-> bgTrack, rate |-> bgRate] /\ ~bgArming
ArmsFor(p) ==
  /\ bgArming' = TRUE
  /\ Set(p, [Away EXCEPT !.at = "beats", !.tid = bgTrack, !.rate = bgRate, !.arms = TRUE])
BgTick ==
  /\ bgAt["tick"].at = "idle" /\ CanArm /\ ArmsFor("tick") /\ Crosses
  /\ UNCHANGED <<bgSource, bgDeck, bgPending, bgShown, bgReaders, bgArmed, bgMix>>
\* No reply of the source: the cue slots, whose grid may be of another track.
BgPress ==
  /\ bgAt["pad"].at = "idle" /\ bgRate # 0 /\ Arrives
  /\ \/ CanArm /\ ArmsFor("pad")
     \/ /\ ~IsKept(bgTrack) /\ UNCHANGED bgArming
        /\ \E c \in BgTracks \cup {NoTrackId} :
             Set("pad", [Away EXCEPT !.at = "cues", !.tid = bgTrack, !.rate = bgRate, !.cue = c])
  /\ UNCHANGED <<bgTrack, bgNoticed, bgRate, bgDeck, bgPending, bgShown, bgReaders, bgArmed, bgMix, bgOverlap>>
\* grid_read makes the slot's holder the one to edit; no grid in any: drop, and no tempo.
BgCues ==
  /\ bgAt["pad"].at = "cues"
  /\ \/ /\ bgAt["pad"].cue = NoTrackId /\ Set("pad", Away)
        /\ bgLive' = FALSE /\ bgTempo' = NoTrackId /\ UNCHANGED bgHolder
     \/ /\ bgAt["pad"].cue # NoTrackId /\ bgHolder' = [of |-> bgAt["pad"].cue, tid |-> NoTrackId]
        /\ IF bgAt["pad"].tid = NoTrackId
           THEN bgLive' = FALSE /\ Set("pad", [bgAt["pad"] EXCEPT !.at = "tempo"])
           ELSE UNCHANGED bgLive /\ Set("pad", [bgAt["pad"] EXCEPT !.at = "beats"])
        /\ UNCHANGED bgTempo
  /\ bgOverlap' = IF bgReply.at # "idle" THEN bgOverlap \cup {"crossed"} ELSE bgOverlap
  /\ UNCHANGED <<bgSource, bgReply, bgKept, bgPending, bgBeats, bgArray, bgReaders, bgLatch, bgMix>>

\* grid_reply_stage_beats, then grid_beats_for: what is live may do; else the staged
\* array when its id is this track's, else a copy through the holder.
Staged(p) ==
  IF bgPending = NoArray /\ bgAt[p].arms /\ IsKept(bgAt[p].tid)
  THEN [of |-> bgAt[p].tid, tid |-> bgAt[p].tid] ELSE bgPending
LiveDoes(p) ==
  bgLive /\ bgBeats # 0 /\ bgArray[bgBeats].tid = bgAt[p].tid /\ bgArray[bgBeats].rate = bgAt[p].rate
Source(p) ==
  LET s == Staged(p) IN
  IF s.tid = bgAt[p].tid /\ s # NoArray THEN s.of
  ELSE IF bgAt[p].arms THEN (IF bgHolder.tid = bgAt[p].tid THEN bgHolder.of ELSE NoTrackId)
  ELSE bgAt[p].cue
NewArray == CHOOSE n \in Arrays : bgArray[n] = Freed /\ n # bgMix.array /\ n # bgBeats
BgBeatsFor(p) ==
  /\ bgAt[p].at = "beats"
  /\ IF LiveDoes(p)
     THEN /\ bgPending' = Staged(p) /\ Set(p, [bgAt[p] EXCEPT !.at = "tempo"])
          /\ UNCHANGED <<bgArray, bgLive, bgOverlap>>
     ELSE /\ bgPending' = NoArray /\ bgLive' = FALSE
          /\ IF Source(p) = NoTrackId
             THEN Set(p, [bgAt[p] EXCEPT !.at = "tempo"]) /\ UNCHANGED <<bgArray, bgOverlap>>
             ELSE /\ bgArray' = [bgArray EXCEPT ![NewArray] = [of |-> Source(p), tid |-> bgAt[p].tid, rate |-> bgAt[p].rate]]
                  /\ Set(p, [bgAt[p] EXCEPT !.at = "swap", !.new = NewArray, !.old = bgBeats])
                  /\ bgOverlap' = IF \E q \in DOMAIN bgAt : bgAt[q].at = "swap" THEN bgOverlap \cup {"both"} ELSE bgOverlap
  /\ UNCHANGED <<bgSource, bgDeck, bgBeats, bgTempo, bgReaders, bgLatch, bgMix>>
\* grid_publish_beats, once the readers are gone.
BgSwaps(p) ==
  /\ bgAt[p].at = "swap" /\ bgReaders = 0
  /\ bgBeats' = bgAt[p].new /\ bgLive' = TRUE
  /\ bgArray' = [n \in Arrays |-> IF n = bgAt[p].old THEN Freed ELSE bgArray[n]]
  /\ Set(p, [bgAt[p] EXCEPT !.at = "tempo"])
  /\ UNCHANGED <<bgSource, bgDeck, bgPending, bgTempo, bgReaders, bgLatch, bgMix, bgOverlap>>
\* grid_publish; a cue's tempo is of the track the slot holds.
BgTempoOf(p) ==
  /\ bgAt[p].at = "tempo" /\ bgTempo' = (IF bgAt[p].arms THEN bgAt[p].tid ELSE bgAt[p].cue)
  /\ Set(p, IF bgAt[p].arms THEN [bgAt[p] EXCEPT !.at = "latch"] ELSE Away)
  /\ UNCHANGED <<bgSource, bgDeck, bgPending, bgBeats, bgArray, bgLive, bgReaders, bgLatch, bgMix, bgOverlap>>
BgLatches(p) ==
  /\ bgAt[p].at = "latch" /\ Set(p, Away)
  /\ bgArmed' = [tid |-> bgAt[p].tid, rate |-> bgAt[p].rate] /\ bgArming' = FALSE
  /\ UNCHANGED <<bgSource, bgDeck, bgPending, bgShown, bgReaders, bgMix, bgOverlap>>

\* stem_grid_forget, when the message thread notices the change.
ForgetKeepsTheLatch ==   \* seeded fault: the answer goes and the latch stays
  /\ bgAt["tick"].at = "idle" /\ bgNoticed # bgTrack /\ bgReply.at = "idle" /\ bgNoticed' = bgTrack
  /\ bgLive' = FALSE /\ bgTempo' = NoTrackId
  /\ Crosses
  /\ UNCHANGED <<bgTrack, bgRate, bgEvents, bgDeck, bgPending, bgBeats, bgArray, bgReaders, bgArmed, bgArming, bgAt, bgMix>>
BgForget ==
  /\ bgAt["tick"].at = "idle" /\ bgNoticed # bgTrack /\ bgReply.at = "idle" /\ bgNoticed' = bgTrack
  /\ bgLive' = FALSE /\ bgTempo' = NoTrackId /\ bgArmed' = NotArmed
  /\ Crosses
  /\ UNCHANGED <<bgTrack, bgRate, bgEvents, bgDeck, bgPending, bgBeats, bgArray, bgReaders, bgArming, bgAt, bgMix>>

-----------------------------------------------------------------------------
(* The mix: stem_grid_beats_acquire and _release.                             *)

BgMixCounts ==
  /\ bgMix.at = "idle" /\ bgMix' = [bgMix EXCEPT !.at = "counted"] /\ bgReaders' = bgReaders + 1
  /\ UNCHANGED <<bgSource, bgDeck, bgPending, bgShown, bgLatch, bgAt, bgOverlap>>
BgMixLooks ==
  /\ bgMix.at = "counted"
  /\ IF bgLive /\ bgBeats # 0
     THEN bgMix' = [at |-> "reads", array |-> bgBeats] /\ UNCHANGED bgReaders
     ELSE bgMix' = [at |-> "idle", array |-> 0] /\ bgReaders' = bgReaders - 1
  /\ UNCHANGED <<bgSource, bgDeck, bgPending, bgShown, bgLatch, bgAt, bgOverlap>>
BgMixLeaves ==
  /\ bgMix.at = "reads" /\ bgMix' = [at |-> "idle", array |-> 0] /\ bgReaders' = bgReaders - 1
  /\ UNCHANGED <<bgSource, bgDeck, bgPending, bgShown, bgLatch, bgAt, bgOverlap>>

-----------------------------------------------------------------------------
BgReplies == BgReplyTags \/ BgReplyKeeps \/ BgReplyStages \/ BgSourceTurns \/ BgReplyEnds
BgThread(p) == BgBeatsFor(p) \/ BgSwaps(p) \/ BgTempoOf(p) \/ BgLatches(p)
BgReads == BgMixCounts \/ BgMixLooks \/ BgMixLeaves
BgNext ==
  \/ \E t \in BgTracks : BgReplyComes(t)
  \/ \E t \in BgTracks \cup BgPlain : (t \in BgPlain \/ IsKept(t)) /\ BgLoadsSilently(t)
  \/ \E r \in BgRates : BgRateIs(r)
  \/ BgReplies \/ BgTick \/ BgForget \/ BgPress \/ BgCues
  \/ \E p \in {"tick", "pad"} : BgThread(p)
  \/ BgReads
\* Every thread goes on; the mix again and again is in no array (bgMix idle) when
\* the one that publishes looks.
BgTicks == BgTick \/ BgForget \/ BgThread("tick")
BgPads == BgCues \/ BgThread("pad")
BgFairness ==
  /\ WF_bgVars(BgReplies) /\ WF_bgVars(BgTicks) /\ WF_bgVars(BgPads) /\ WF_bgVars(BgMixLooks \/ BgMixLeaves)
  /\ SF_bgVars(BgSwaps("tick")) /\ SF_bgVars(BgSwaps("pad"))
BgSpec == BgInit /\ [][BgNext]_bgVars /\ BgFairness

-----------------------------------------------------------------------------
(* Properties.                                                              *)

\* The array the mix reads is not freed under it, whichever of the two threads
\* publishes and whatever the other is doing (grid.c:231-233), short of both
\* publishing at once.
GridViewIsAlive == bgMix.at = "reads" /\ "both" \notin bgOverlap => bgArray[bgMix.array] # Freed

\* "Or nothing ever puts the grid back" (grid.c:305-311): when loads and presses
\* stop, a track whose reply is kept has its own tempo, and the beats that are live
\* are its own at the rate of the pool, wherever the reply, the source, the
\* forgetting and the arming fell; unless a pad press walked the cues while a reply
\* was handled, or was under way while the message thread armed or forgot.
GridComesBack ==
  <>[](IsKept(bgTrack) /\ bgRate # 0 /\ bgOverlap = {} =>
         /\ bgTempo = bgTrack
         /\ bgLive => bgArray[bgBeats].of = bgTrack /\ bgArray[bgBeats].rate = bgRate)

\* The grid shown is alive and comes to be the track's.
GridIsTheTracks == []GridViewIsAlive /\ GridComesBack

\* The same without the exception.  The code breaks it: the pad task stores the
\* latch after the message thread has wiped it.
GridAlwaysComesBack ==
  <>[](IsKept(bgTrack) /\ bgRate # 0 => bgTempo = bgTrack)

\* "The array route survives a second load" (grid.c:571-573).  The code breaks it: a
\* copy staged for another track keeps the kept one out, and is freed.
BeatsComeBack ==
  <>[](IsKept(bgTrack) /\ bgRate # 0 /\ bgOverlap = {} => bgLive)

\* "Two threads doing that to one array is a double free" (grid.c:557-559): two
\* publications never have the same array to free.  The code breaks it: the cue
\* walk publishes without the lock (grid.c:702-703).
FreedOnce == "both" \notin bgOverlap
=============================================================================
