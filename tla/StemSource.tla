----------------------------- MODULE StemSource -----------------------------
(***************************************************************************)
(* Which track is playing (stem/audio.c, audio_probe.c, decode.c): the       *)
(* player hands the stretcher a source, the audio thread reads it and copies *)
(* the id it reads under, a word at a time, and the message thread, once it  *)
(* sees the count move, turns the id into a path and tells the stem job.     *)
(*                                                                         *)
(* The pool names a track by two words, SoIds[t], and while it pre-buffers   *)
(* the top half of the second carries a countdown.  A path is the last file  *)
(* the deck was seen to open, bound to the id the first time it is asked.    *)
(* Left out: the strings, the counters of the log, the samples.              *)
(***************************************************************************)
EXTENDS Naturals, Sequences

CONSTANTS SoIds,        \* track -> <<lo, hi>>
          SoClasses,    \* classes a source may be of
          SoBinds,      \* SID_BINDS
          SoMaxLoads, SoMaxOpens   \* bounds: tracks put on, readers opened

ASSUME SoAssumption ==
  /\ SoIds \in [DOMAIN SoIds -> Seq(Nat)] /\ \A t \in DOMAIN SoIds : Len(SoIds[t]) = 2
  /\ SoBinds \in Nat \ {0} /\ {SoMaxLoads, SoMaxOpens} \subseteq Nat

VARIABLES soPlayer,  \* what the deck plays: the source object and the track
          soSrc,     \* g_src: the patched class, the source taken for the player's
          soSid, soGen,
          soAudio,   \* the audio thread between two words of the id
          soCap,     \* g_cap.pending and g_track_path
          soBound,   \* g_bind, oldest first
          soWatch,   \* the message thread in stem_track_watch
          soActed,   \* acted_on; NoPath when the id had none
          soLoads, soOpens, soHeard   \* counted; the tracks the audio thread changed to

soVars == <<soPlayer, soSrc, soSid, soGen, soAudio, soCap, soBound, soWatch, soActed,
            soLoads, soOpens, soHeard>>

SoTracks == DOMAIN SoIds
NoSource == <<>>
NoPath == "none"
NoClass == "none"

SoInit ==
  /\ soPlayer = [source |-> NoSource, track |-> NoPath]
  /\ soSrc = [vt |-> NoClass, obj |-> NoSource]
  /\ soSid = <<0, 0>> /\ soGen = 0 /\ soAudio = [pc |-> "idle", id |-> <<0, 0>>]
  /\ soCap = [pending |-> FALSE, path |-> NoPath] /\ soBound = <<>>
  /\ soWatch = [pc |-> "idle", seen |-> 0, lo |-> 0] /\ soActed = NoPath
  /\ soLoads = 0 /\ soOpens = 0 /\ soHeard = <<>>

-----------------------------------------------------------------------------
(* The page filler: stem_reader_open.  The capture is one slot deep, and our *)
(* own decodes take it too without naming a track (g_decode_self).           *)

SoOpens(t, ours, opened) ==
  /\ soOpens < SoMaxOpens /\ soOpens' = soOpens + 1
  /\ soCap' = IF soCap.pending THEN soCap
              ELSE [pending |-> TRUE, path |-> IF opened /\ ~ours THEN t ELSE soCap.path]
  /\ UNCHANGED <<soPlayer, soSrc, soSid, soGen, soAudio, soBound, soWatch, soActed,
                 soLoads, soHeard>>

\* mod_stem_decode_report, from the theme's fill hook.
SoReports ==
  /\ soCap.pending /\ soCap' = [soCap EXCEPT !.pending = FALSE]
  /\ UNCHANGED <<soPlayer, soSrc, soSid, soGen, soAudio, soBound, soWatch, soActed,
                 soLoads, soOpens, soHeard>>

-----------------------------------------------------------------------------
(* The track loader: stem_set_source, after the stock call.                  *)

SoSetSource(c, patches, t) ==
  LET source == <<c, soLoads + 1>>
      taken == soSrc.vt = c \/ (soSrc.vt = NoClass /\ patches) IN
  /\ soLoads < SoMaxLoads /\ soLoads' = soLoads + 1
  /\ soPlayer' = [source |-> source, track |-> t]
  /\ soSrc' = IF taken THEN [vt |-> c, obj |-> source] ELSE soSrc
  /\ UNCHANGED <<soSid, soGen, soAudio, soCap, soBound, soWatch, soActed, soOpens, soHeard>>

SoUnset ==
  /\ soPlayer.source # NoSource
  /\ soPlayer' = [source |-> NoSource, track |-> NoPath]
  /\ soSrc' = [soSrc EXCEPT !.obj = NoSource]
  /\ UNCHANGED <<soSid, soGen, soAudio, soCap, soBound, soWatch, soActed, soLoads,
                 soOpens, soHeard>>

-----------------------------------------------------------------------------
(* The audio thread: stem_source_read on the source taken for the player's.  *)

\* What is read: the two words, and the countdown in the top half of the second.
TrackHalf(words) == <<words.lo, words.hi.low>>

SoReads(countdown) ==
  LET id == TrackHalf([lo |-> SoIds[soPlayer.track][1],
                       hi |-> [low |-> SoIds[soPlayer.track][2], top |-> countdown]]) IN
  /\ soAudio.pc = "idle"
  /\ soPlayer.source # NoSource /\ soPlayer.source = soSrc.obj /\ id # soSid
  /\ soSid' = <<id[1], soSid[2]>>
  /\ soAudio' = [pc |-> "hi", id |-> id]
  /\ soHeard' = IF soHeard # <<>> /\ soHeard[Len(soHeard)] = soPlayer.track THEN soHeard
                ELSE Append(soHeard, soPlayer.track)
  /\ UNCHANGED <<soPlayer, soSrc, soGen, soCap, soBound, soWatch, soActed, soLoads, soOpens>>

PublishesEarly ==   \* seeded fault: the count moves between the two words
  \/ /\ soAudio.pc = "hi"
     /\ soGen' = soGen + 1 /\ soAudio' = [soAudio EXCEPT !.pc = "gen"]
     /\ UNCHANGED soSid
  \/ /\ soAudio.pc = "gen"
     /\ soSid' = soAudio.id /\ soAudio' = [soAudio EXCEPT !.pc = "idle"]
     /\ UNCHANGED soGen
\* The count moves after both words: the reader that sees it sees them.
SoPublishes ==
  \/ /\ soAudio.pc = "hi"
     /\ soSid' = soAudio.id /\ soAudio' = [soAudio EXCEPT !.pc = "gen"]
     /\ UNCHANGED soGen
  \/ /\ soAudio.pc = "gen"
     /\ soGen' = soGen + 1 /\ soAudio' = [soAudio EXCEPT !.pc = "idle"]
     /\ UNCHANGED soSid
SoCopies ==
  /\ SoPublishes
  /\ UNCHANGED <<soPlayer, soSrc, soCap, soBound, soWatch, soActed, soLoads, soOpens, soHeard>>

-----------------------------------------------------------------------------
(* The message thread: stem_track_watch, and stem_track_act on what it finds.*)

SoSees ==
  /\ soWatch.pc = "idle" /\ soWatch.seen # soGen
  /\ soWatch' = [soWatch EXCEPT !.pc = "lo", !.seen = soGen]
  /\ UNCHANGED <<soPlayer, soSrc, soSid, soGen, soAudio, soCap, soBound, soActed, soLoads,
                 soOpens, soHeard>>

SoReadsLo ==
  /\ soWatch.pc = "lo"
  /\ soWatch' = [soWatch EXCEPT !.pc = "hi", !.lo = soSid[1]]
  /\ UNCHANGED <<soPlayer, soSrc, soSid, soGen, soAudio, soCap, soBound, soActed, soLoads,
                 soOpens, soHeard>>

\* stem_decode_path_for_sid: the path bound to the id, or the last file opened.
BoundTo(bound, id) == {i \in 1..Len(bound) : bound[i].id = id}
PathOf(bound, id) ==
  IF BoundTo(bound, id) = {} THEN NoPath
  ELSE bound[CHOOSE i \in BoundTo(bound, id) : \A j \in BoundTo(bound, id) : i <= j].path
Bind(bound, id) ==
  IF BoundTo(bound, id) # {} \/ soCap.path = NoPath THEN bound
  ELSE LET grown == Append(bound, [id |-> id, path |-> soCap.path]) IN
       IF Len(grown) > SoBinds THEN Tail(grown) ELSE grown

SoActs ==
  /\ soWatch.pc = "hi"
  /\ soWatch' = [soWatch EXCEPT !.pc = "idle"]
  /\ soBound' = Bind(soBound, <<soWatch.lo, soSid[2]>>)
  /\ soActed' = PathOf(soBound', <<soWatch.lo, soSid[2]>>)
  /\ UNCHANGED <<soPlayer, soSrc, soSid, soGen, soAudio, soCap, soLoads, soOpens, soHeard>>

SoNext ==
  \/ \E t \in SoTracks, ours, opened \in BOOLEAN : SoOpens(t, ours, opened)
  \/ SoReports
  \/ \E c \in SoClasses, patches \in BOOLEAN, t \in SoTracks : SoSetSource(c, patches, t)
  \/ SoUnset
  \/ \E countdown \in 0..1 : SoReads(countdown)
  \/ SoCopies \/ SoSees \/ SoReadsLo \/ SoActs

SoSpec == SoInit /\ [][SoNext]_soVars

-----------------------------------------------------------------------------
\* With both threads at rest and the count seen, the job works on the path of
\* the id that plays, whatever halves of ids were read in between.
TrackIsActedOn ==
  soWatch.pc = "idle" /\ soAudio.pc = "idle" /\ soWatch.seen = soGen /\ soGen > 0
    => soActed = PathOf(soBound, soSid)

\* A track is one change: pre-buffering under a countdown is not another track
\* (audio.c:498-502), however often the ids alternate.
TrackIsOneChange == soGen <= Len(soHeard)

\* The stems follow what the audio thread plays (audio.c:460-523,
\* audio_probe.c:56-73).
SourceIsFollowed == TrackIsActedOn /\ TrackIsOneChange

\* "A missed capture costs a log line, not correctness" (decode.c:208-210).
PathIsOfTheTrack == \A i \in 1..Len(soBound) :
  \A t \in SoTracks : SoIds[t] = soBound[i].id => soBound[i].path = t
=============================================================================
