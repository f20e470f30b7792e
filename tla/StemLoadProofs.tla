--------------------------- MODULE StemLoadProofs ---------------------------
(***************************************************************************)
(* What the stems are loaded for, and at what rate, for any tracks, classes,  *)
(* rates and any number of loads, windows and openings.                     *)
(*                                                                         *)
(* The source.  The message thread may pair the low word of one id with the   *)
(* high word of another; it then acts again, because the count it took before   *)
(* the first word is behind the one that follows the second (WatchedIsWhole).   *)
(* The track the audio thread changed to last is the one of the id it holds     *)
(* (HeardIsHeld), so an id it finds new is of a new track (CountIsBehind).      *)
(*                                                                         *)
(* The decode.  What a thread pulled is negative or empty for the file's sake,  *)
(* for want of memory or of the chain, or because the track moved on, and that   *)
(* it did stays so until the next load (PullsAreFair); nothing is read by a     *)
(* thread of a load that has ended (NoThreadsBetween).                      *)
(*                                                                         *)
(* The answer the pair is fetched with.  A call is somewhere in what the server  *)
(* meant to say: behind a header, at a chunk, in one, so many tokens into the body *)
(* (CallIs); the buffer and then the wire go on from there (Stream).           *)
(***************************************************************************)
EXTENDS StemSource, StemDecode, HttpCall, WellFoundedInduction, TLAPS

IdOf(t) == <<SoIds[t][1], SoIds[t][2]>>

SoTypes ==
  /\ soPlayer.source # NoSource => soPlayer.track \in SoTracks
  /\ soSid \in Nat \X Nat /\ soGen \in Nat
  /\ soAudio \in [pc : {"idle", "hi", "gen"}, id : Nat \X Nat]
  /\ soWatch \in [pc : {"idle", "lo", "hi"}, seen : Nat, lo : Nat]
  /\ soHeard \in Seq(SoTracks)

\* The count the message thread saw; and whether what it read under it is whole.
WatchedIsWhole ==
  /\ soWatch.seen <= soGen
  /\ soWatch.seen = soGen /\ soAudio.pc = "idle" =>
       /\ soWatch.pc = "hi" => soWatch.lo = soSid[1]
       /\ soWatch.pc = "idle" /\ soGen > 0 => soActed = PathOf(soBound, soSid)

\* The id the audio thread holds, or is about to, is of the track it heard last.
HeardIsHeld ==
  /\ soHeard # <<>> =>
       /\ soAudio.pc = "idle" => soSid = IdOf(soHeard[Len(soHeard)])
       /\ soAudio.pc # "idle" => soAudio.id = IdOf(soHeard[Len(soHeard)])
  /\ soAudio.pc = "gen" => soSid = soAudio.id
  /\ soAudio.pc # "idle" => soHeard # <<>>

CountIsBehind == soGen + (IF soAudio.pc = "idle" THEN 0 ELSE 1) <= Len(soHeard)

SoIInv == SoTypes /\ WatchedIsWhole /\ HeardIsHeld /\ CountIsBehind
-----------------------------------------------------------------------------
(* The identity of a track is a pair of numbers, so that two of them can be compared. *)
LEMMA IdsArePairs == \A t \in SoTracks : IdOf(t) \in Nat \X Nat
<1> SUFFICES ASSUME NEW t \in SoTracks PROVE IdOf(t) \in Nat \X Nat
  OBVIOUS
<1>1. SoIds[t] \in Seq(Nat) /\ Len(SoIds[t]) = 2
  BY SoAssumption DEF SoTracks
<1>2. SoIds[t][1] \in Nat /\ SoIds[t][2] \in Nat
  BY <1>1
<1>3. QED
  BY <1>2 DEF IdOf

(* Before the first track the source has acted on nothing, and its inductive invariant holds. *)
THEOREM SoInitIInv == SoInit => SoIInv
BY DEF SoInit, SoIInv, SoTypes, WatchedIsWhole, HeardIsHeld, CountIsBehind

(* The audio thread finds another id under the source it reads: it is of       *)
(* another track than the last it heard, and the track is noted.            *)
LEMMA ReadsKeepSoIInv == ASSUME SoIInv, NEW c \in 0..1, SoReads(c) PROVE SoIInv'
<1> DEFINE t == soPlayer.track
<1>1. /\ t \in SoTracks /\ soAudio.pc = "idle" /\ soSid' = <<IdOf(t)[1], soSid[2]>>
      /\ soAudio' = [pc |-> "hi", id |-> IdOf(t)] /\ IdOf(t) # soSid
      /\ UNCHANGED <<soPlayer, soGen, soBound, soWatch, soActed>>
  BY DEF SoReads, SoIInv, SoTypes, TrackHalf, IdOf, SoTracks
<1>2. soHeard' = Append(soHeard, t)
  BY <1>1 DEF SoReads, SoIInv, HeardIsHeld
<1>3. IdOf(t) \in Nat \X Nat
  BY <1>1, IdsArePairs
<1>4. soHeard' \in Seq(SoTracks) /\ Len(soHeard') = Len(soHeard) + 1 /\ soHeard'[Len(soHeard')] = t
  BY <1>1, <1>2 DEF SoIInv, SoTypes
<1> HIDE DEF t
<1>5. SoTypes'
  BY <1>1, <1>3, <1>4 DEF SoIInv, SoTypes
<1>6. WatchedIsWhole' /\ CountIsBehind'
  BY <1>1, <1>4 DEF SoIInv, SoTypes, WatchedIsWhole, CountIsBehind
<1>7. HeardIsHeld'
  BY <1>1, <1>3, <1>4 DEF SoIInv, SoTypes, HeardIsHeld
<1>8. QED
  BY <1>5, <1>6, <1>7 DEF SoIInv

(* A step of the page filler, the track loader, the audio thread or the        *)
(* message thread.                                                          *)
THEOREM SoStepKeepsIInv == SoIInv /\ [SoNext]_soVars => SoIInv'
<1> SUFFICES ASSUME SoIInv, [SoNext]_soVars PROVE SoIInv'
  OBVIOUS
<1> USE DEF SoIInv
<1>1. ASSUME NEW t \in SoTracks, NEW ours \in BOOLEAN, NEW opened \in BOOLEAN, SoOpens(t, ours, opened)
      PROVE  SoIInv'
  BY <1>1 DEF SoOpens, SoTypes, WatchedIsWhole, HeardIsHeld, CountIsBehind
<1>2. CASE SoReports
  BY <1>2 DEF SoReports, SoTypes, WatchedIsWhole, HeardIsHeld, CountIsBehind
<1>3. ASSUME NEW c \in SoClasses, NEW patches \in BOOLEAN, NEW t \in SoTracks, SoSetSource(c, patches, t)
      PROVE  SoIInv'
  BY <1>3 DEF SoSetSource, SoTypes, WatchedIsWhole, HeardIsHeld, CountIsBehind
<1>4. CASE SoUnset
  BY <1>4 DEF SoUnset, SoTypes, WatchedIsWhole, HeardIsHeld, CountIsBehind
<1>5. ASSUME NEW c \in 0..1, SoReads(c) PROVE SoIInv'
  BY <1>5, ReadsKeepSoIInv
<1>6. CASE SoCopies
  <2>1. SoTypes'
    BY <1>6 DEF SoCopies, SoPublishes, SoTypes
  <2>2. WatchedIsWhole'
    BY <1>6 DEF SoCopies, SoPublishes, SoTypes, WatchedIsWhole
  <2>3. HeardIsHeld'
    BY <1>6 DEF SoCopies, SoPublishes, SoTypes, HeardIsHeld
  <2>4. CountIsBehind'
    BY <1>6 DEF SoCopies, SoPublishes, SoTypes, CountIsBehind
  <2>5. QED
    BY <2>1, <2>2, <2>3, <2>4
<1>7. CASE SoSees
  <2>1. SoTypes'
    BY <1>7 DEF SoSees, SoTypes
  <2>2. WatchedIsWhole'
    BY <1>7 DEF SoSees, SoTypes, WatchedIsWhole
  <2>3. HeardIsHeld' /\ CountIsBehind'
    BY <1>7 DEF SoSees, HeardIsHeld, CountIsBehind
  <2>4. QED
    BY <2>1, <2>2, <2>3
<1>8. CASE SoReadsLo
  BY <1>8 DEF SoReadsLo, SoTypes, WatchedIsWhole, HeardIsHeld, CountIsBehind
<1>9. CASE SoActs
  <2>1. SoTypes' /\ HeardIsHeld' /\ CountIsBehind'
    BY <1>9 DEF SoActs, SoTypes, HeardIsHeld, CountIsBehind
  <2>2. WatchedIsWhole'
    <3>1. soWatch.seen = soGen /\ soAudio.pc = "idle" => <<soWatch.lo, soSid[2]>> = soSid
      BY <1>9 DEF SoActs, SoTypes, WatchedIsWhole
    <3>2. soActed' = PathOf(soBound', <<soWatch.lo, soSid[2]>>)
      BY <1>9 DEF SoActs
    <3>3. QED
      BY <1>9, <3>1, <3>2 DEF SoActs, SoTypes, WatchedIsWhole
  <2>3. QED
    BY <2>1, <2>2
<1>10. CASE UNCHANGED soVars
  BY <1>10 DEF soVars, SoTypes, WatchedIsWhole, HeardIsHeld, CountIsBehind
<1>11. QED
  BY <1>1, <1>2, <1>3, <1>4, <1>5, <1>6, <1>7, <1>8, <1>9, <1>10 DEF SoNext

(* The stems follow what the audio thread plays: the count moves once a track   *)
(* (audio.c:498-502), and what is acted on once it was seen is the path of the  *)
(* id that plays (audio_probe.c:56-73).                                      *)
THEOREM StemsFollowTheSource == SoSpec => []SourceIsFollowed
<1>1. SoIInv => SourceIsFollowed
  BY DEF SoIInv, SoTypes, WatchedIsWhole, CountIsBehind, SourceIsFollowed, TrackIsActedOn, TrackIsOneChange
<1>2. QED
  BY <1>1, SoInitIInv, SoStepKeepsIInv, PTL DEF SoSpec
-----------------------------------------------------------------------------
(* The decode.                                                              *)
Things == Buffers \cup {"pcm", "reader"}
Threads == [pc : {"idle", "begin", "open", "pump", "pulled", "done"}, mode : {"probe", "fill"},
            held : SUBSET Things, got : Int, said : {"none", "bad", "abort", "retry", "loaded"}]

Rates == KPoolRates \cup {0}
SdTypes ==
  /\ sdFile \in [Parts -> Worths] /\ sdWanted \in BOOLEAN /\ sdStarved \in BOOLEAN
  /\ sdRates \in [pool : Rates, last : Rates, engine : Rates, set : Rates, jumped : BOOLEAN]
  /\ sdLoad \in [pc : {"idle", "rate", "deck", "pair"}, rate : Rates, polls : Nat]
  /\ sdPull \in [Parts -> Threads]

NoThreadsBetween == sdLoad.pc # "pair" => \A p \in Parts : sdPull[p] = NoPull

\* A thread that came back with nothing did so for a reason; that the track moved
\* on is a reason of a fill alone.
Excused(p) == sdStarved \/ sdFile[p] = "dead"
PullsAreFair == \A p \in Parts :
  LET r == sdPull[p] IN
  /\ r.pc = "pump" => r.mode = "fill" /\ r.got \in 0..Length(p)
  /\ r.pc = "pulled" /\ r.got <= 0 => Excused(p) \/ (r.mode = "fill" /\ ~sdWanted)
  /\ r.said = "bad" => Excused(p)

\* What a thread holds is what it will let go of on every way out of where it is.
HoldsWhatItDrops == \A p \in Parts :
  LET r == sdPull[p] IN
  /\ r.pc \in {"idle", "begin", "pulled", "done"} => r.held \subseteq {"pcm"}
  /\ r.pc = "open" => r.held \subseteq Buffers \cup {"pcm"}

SdIInv == SdTypes /\ NoThreadsBetween /\ PullsAreFair /\ HoldsWhatItDrops /\ VerdictIsOfTheFile
-----------------------------------------------------------------------------
\* A thread that has not begun.
LEMMA NoPullIsAThread ==
  /\ NoPull \in Threads /\ [NoPull EXCEPT !.pc = "begin"] \in Threads
  /\ NoPull.pc = "idle" /\ NoPull.held = {} /\ NoPull.said = "none"
  /\ [NoPull EXCEPT !.pc = "begin"].pc = "begin"
  /\ [NoPull EXCEPT !.pc = "begin"].held = {}
  /\ [NoPull EXCEPT !.pc = "begin"].said = "none"
BY DEF NoPull, Threads

(* With no file opened and no thread running the inductive invariant of the decode holds. *)
THEOREM SdInitIInv == SdInit => SdIInv
<1> SUFFICES ASSUME SdInit PROVE SdIInv
  OBVIOUS
<1>1. \A p \in Parts : sdPull[p] = NoPull
  BY DEF SdInit
<1>2. SdTypes
  BY NoPullIsAThread DEF SdInit, SdTypes, Rates
<1>3. NoThreadsBetween /\ PullsAreFair /\ HoldsWhatItDrops
  BY <1>1, NoPullIsAThread DEF NoThreadsBetween, PullsAreFair, HoldsWhatItDrops
<1>4. QED
  BY <1>2, <1>3 DEF SdIInv, SdInit, VerdictIsOfTheFile

\* A thread that comes out of stem_decode_pull.
LEMMA OutOfThePull ==
  ASSUME NEW r \in Threads, NEW got \in Int, NEW drops,
         r.held \subseteq Buffers \cup {"pcm"} \cup drops
  PROVE  LET o == Out(r, got, drops) IN
         /\ o \in Threads /\ o.held \subseteq {"pcm"}
         /\ o.pc = "pulled" /\ o.got = got /\ o.mode = r.mode /\ o.said = r.said
<1>1. r.held \ (Buffers \cup drops) \in SUBSET Things /\ r.held \ (Buffers \cup drops) \subseteq {"pcm"}
  BY DEF Threads
<1>2. QED
  BY <1>1 DEF Out, Threads

\* One thread's step: the other thread, the load, the file stay.  What is asked of
\* the thread's next state is asked of no other.
Fair(r, p, starved) ==
  /\ r \in Threads
  /\ r.pc # "idle"
  /\ r.pc = "pump" => r.mode = "fill" /\ r.got \in 0..Length(p)
  /\ r.pc = "pulled" /\ r.got <= 0 =>
       starved \/ sdFile[p] = "dead" \/ (r.mode = "fill" /\ ~sdWanted)
  /\ r.said = "bad" => starved \/ sdFile[p] = "dead"
  /\ r.pc \in {"begin", "pulled", "done"} => r.held \subseteq {"pcm"}
  /\ r.pc = "open" => r.held \subseteq Buffers \cup {"pcm"}

(* A step of one part's thread that leaves it fair, and touches nothing but the thread and the
   starvation it noticed, keeps the invariant. *)
LEMMA ThreadKeepsIInv ==
  ASSUME SdIInv, NEW p \in Parts, NEW r, To(p, r), sdPull[p].pc # "idle",
         Fair(r, p, sdStarved'), sdStarved' \in BOOLEAN, sdStarved => sdStarved', UNCHANGED sdNotPull
  PROVE  SdIInv'
<1>1. /\ sdPull' = [sdPull EXCEPT ![p] = r]
      /\ UNCHANGED <<sdFile, sdRates, sdWanted, sdDeck, sdLoad, sdSaid>>
  BY DEF To, sdNotPull
<1>2. SdTypes'
  BY <1>1 DEF SdIInv, SdTypes, Fair
<1>3. sdLoad.pc = "pair"
  BY NoPullIsAThread DEF SdIInv, NoThreadsBetween
<1>4. NoThreadsBetween'
  BY <1>1, <1>3 DEF NoThreadsBetween
<1>5. \A q \in Parts : sdPull'[q] = IF q = p THEN r ELSE sdPull[q]
  BY <1>1 DEF SdIInv, SdTypes
<1>6. PullsAreFair'
  BY <1>1, <1>5 DEF SdIInv, PullsAreFair, Excused, Fair, Length
<1>7. HoldsWhatItDrops'
  BY <1>5 DEF SdIInv, HoldsWhatItDrops, Fair
<1>8. VerdictIsOfTheFile'
  BY <1>1 DEF SdIInv, VerdictIsOfTheFile
<1>9. QED
  BY <1>2, <1>4, <1>6, <1>7, <1>8 DEF SdIInv

(* The four steps of a thread.                                              *)
LEMMA AllocatesKeepsIInv ==
  ASSUME SdIInv, NEW p \in Parts, NEW fails \in BOOLEAN, SdAllocates(p, fails) PROVE SdIInv'
<1>1. /\ sdPull[p] \in Threads /\ sdPull[p].pc = "begin" /\ sdPull[p].held \subseteq {"pcm"}
      /\ sdPull[p].said = "bad" => Excused(p)
      /\ sdStarved' = (sdStarved \/ fails) /\ sdStarved' \in BOOLEAN
  BY DEF SdAllocates, P, SdIInv, SdTypes, HoldsWhatItDrops, PullsAreFair
<1>2. CASE fails
  <2> DEFINE o == Out(sdPull[p], -1, {})
  <2>1. /\ o \in Threads /\ o.held \subseteq {"pcm"} /\ o.pc = "pulled"
        /\ o.got = -1 /\ o.mode = sdPull[p].mode /\ o.said = sdPull[p].said
    BY <1>1, OutOfThePull
  <2>2. To(p, o)
    BY <1>2 DEF SdAllocates, P
  <2> HIDE DEF o
  <2>3. Fair(o, p, sdStarved')
    BY <1>1, <1>2, <2>1 DEF Fair, Excused, Worths
  <2>4. QED
    BY <1>1, <2>2, <2>3, ThreadKeepsIInv DEF SdAllocates
<1>3. CASE ~fails
  <2> DEFINE r == [sdPull[p] EXCEPT !.pc = "open", !.held = @ \cup Buffers]
  <2>1. /\ r \in Threads /\ r.held \subseteq Buffers \cup {"pcm"} /\ r.pc = "open"
        /\ r.said = sdPull[p].said
    BY <1>1 DEF Threads, Things
  <2>2. To(p, r)
    BY <1>3 DEF SdAllocates, P
  <2> HIDE DEF r
  <2>3. Fair(r, p, sdStarved')
    BY <1>1, <1>3, <2>1 DEF Fair, Excused
  <2>4. QED
    BY <1>1, <2>2, <2>3, ThreadKeepsIInv DEF SdAllocates
<1>4. QED
  BY <1>2, <1>3

\* A thread about to pump.
Pumping(r) == [r EXCEPT !.pc = "pump", !.got = 0]
(* A thread that begins to pump is a thread, with nothing got yet and its verdict unsaid. *)
LEMMA PumpBegins ==
  ASSUME NEW r \in Threads
  PROVE  /\ Pumping(r) \in Threads /\ Pumping(r).pc = "pump" /\ Pumping(r).got = 0
         /\ Pumping(r).mode = r.mode /\ Pumping(r).said = r.said
<1> DEFINE none == 0
<1>1. none \in Int
  OBVIOUS
<1>2. Pumping(r) = [r EXCEPT !.pc = "pump", !.got = none]
  BY DEF Pumping
<1> HIDE DEF none
<1>3. /\ Pumping(r) \in Threads /\ Pumping(r).pc = "pump" /\ Pumping(r).got = none
      /\ Pumping(r).mode = r.mode /\ Pumping(r).said = r.said
  BY <1>1, <1>2 DEF Threads
<1>4. QED
  BY <1>3 DEF none

(* A part's length is nothing or one sample of the model. *)
LEMMA LengthIsNoneOrOne == \A p \in Parts : 0 \in 0..Length(p) /\ Length(p) \in {0, 1}
BY DEF Length

(* Opening a part's file, with each way it can fail, keeps the invariant. *)
LEMMA OpensKeepsIInv ==
  ASSUME SdIInv, NEW p \in Parts, NEW opens \in BOOLEAN, NEW fits \in BOOLEAN,
         SdOpensFile(p, opens, fits)
  PROVE  SdIInv'
<1> DEFINE open == [sdPull[p] EXCEPT !.held = @ \cup {"reader"}]
<1>1. /\ sdPull[p] \in Threads /\ sdPull[p].pc = "open"
      /\ sdPull[p].held \subseteq Buffers \cup {"pcm"}
      /\ sdPull[p].said = "bad" => Excused(p)
      /\ sdFile[p] \in Worths /\ (sdFile[p] = "sound" => opens)
      /\ sdStarved' = (sdStarved \/ (opens /\ ~fits)) /\ sdStarved' \in BOOLEAN
  BY DEF SdOpensFile, P, SdIInv, SdTypes, HoldsWhatItDrops, PullsAreFair
<1>2. /\ open \in Threads /\ open.held \subseteq Buffers \cup {"pcm"} \cup {"reader"}
      /\ open.mode = sdPull[p].mode /\ open.said = sdPull[p].said
  BY <1>1 DEF Threads, Things
<1>3. CASE ~opens
  <2> DEFINE o == Out(sdPull[p], -1, {})
  <2>1. /\ o \in Threads /\ o.held \subseteq {"pcm"} /\ o.pc = "pulled"
        /\ o.got = -1 /\ o.mode = sdPull[p].mode /\ o.said = sdPull[p].said
    BY <1>1, OutOfThePull
  <2>2. To(p, o)
    BY <1>3 DEF SdOpensFile, P
  <2> HIDE DEF o
  <2>3. Fair(o, p, sdStarved')
    BY <1>1, <1>3, <2>1 DEF Fair, Excused, Worths
  <2>4. QED
    BY <1>1, <2>2, <2>3, ThreadKeepsIInv DEF SdOpensFile
<1>4. CASE opens /\ ~fits
  <2> DEFINE o == Out(open, -1, MismatchDrops)
  <2>1. /\ o \in Threads /\ o.held \subseteq {"pcm"} /\ o.pc = "pulled"
        /\ o.got = -1 /\ o.mode = sdPull[p].mode /\ o.said = sdPull[p].said
    <3> HIDE DEF open
    <3>1. QED
      BY <1>1, <1>2, OutOfThePull DEF MismatchDrops
  <2>2. To(p, o)
    BY <1>4 DEF SdOpensFile, P
  <2> HIDE DEF o
  <2>3. Fair(o, p, sdStarved')
    BY <1>1, <1>4, <2>1 DEF Fair, Excused, Worths
  <2>4. QED
    BY <1>1, <2>2, <2>3, ThreadKeepsIInv DEF SdOpensFile
<1>5. CASE opens /\ fits /\ sdPull[p].mode = "probe"
  <2> DEFINE got == IF sdFile[p] = "dead" THEN 0 ELSE 1
  <2> DEFINE o == Out(open, got, {"reader"})
  <2>1. /\ o \in Threads /\ o.held \subseteq {"pcm"} /\ o.pc = "pulled"
        /\ o.got = got /\ o.mode = sdPull[p].mode /\ o.said = sdPull[p].said
    <3>1. got \in Int
      OBVIOUS
    <3> HIDE DEF open, got
    <3>2. QED
      BY <1>1, <1>2, <3>1, OutOfThePull
  <2>2. To(p, o)
    BY <1>5 DEF SdOpensFile, P
  <2> HIDE DEF o
  <2>3. Fair(o, p, sdStarved')
    <3>1. got <= 0 => sdFile[p] = "dead"
      BY <1>1 DEF Worths
    <3> HIDE DEF got, open
    <3>2. QED
      BY <1>1, <2>1, <3>1 DEF Fair, Excused
  <2>4. QED
    BY <1>1, <2>2, <2>3, ThreadKeepsIInv DEF SdOpensFile
<1>6. CASE opens /\ fits /\ sdPull[p].mode # "probe"
  <2> DEFINE r == Pumping(open)
  <2>0. sdPull[p].mode = "fill"
    BY <1>1, <1>6 DEF Threads
  <2>1. r \in Threads /\ r.pc = "pump" /\ r.got = 0 /\ r.mode = "fill" /\ r.said = sdPull[p].said
    <3> HIDE DEF open
    <3>1. QED
      BY <1>2, <2>0, PumpBegins
  <2>2. To(p, r)
    BY <1>6 DEF SdOpensFile, P, Pumping
  <2> HIDE DEF r
  <2>3. Fair(r, p, sdStarved')
    BY <1>1, <2>1, LengthIsNoneOrOne DEF Fair, Excused
  <2>4. QED
    BY <1>1, <2>2, <2>3, ThreadKeepsIInv DEF SdOpensFile
<1>7. QED
  BY <1>3, <1>4, <1>5, <1>6

(* So does a turn of the pump. *)
LEMMA PumpsKeepsIInv == ASSUME SdIInv, NEW p \in Parts, SdPumps(p) PROVE SdIInv'
<1>1. /\ sdPull[p] \in Threads /\ sdPull[p].pc = "pump" /\ sdPull[p].mode = "fill"
      /\ sdPull[p].got \in 0..Length(p) /\ sdFile[p] \in Worths
      /\ sdPull[p].said = "bad" => Excused(p)
      /\ sdStarved' = sdStarved /\ sdStarved' \in BOOLEAN /\ UNCHANGED sdNotPull
  BY DEF SdPumps, P, SdIInv, SdTypes, PullsAreFair
<1>2. sdPull[p].held \subseteq Buffers \cup {"pcm"} \cup {"reader"}
  BY <1>1 DEF Threads, Things
<1>3. CASE sdPull[p].got = Length(p)
  <2> DEFINE o == Out(sdPull[p], sdPull[p].got, {"reader"})
  <2>1. /\ o \in Threads /\ o.held \subseteq {"pcm"} /\ o.pc = "pulled"
        /\ o.got = Length(p) /\ o.mode = "fill" /\ o.said = sdPull[p].said
    BY <1>1, <1>2, <1>3, LengthIsNoneOrOne, OutOfThePull
  <2>2. To(p, o)
    BY <1>3 DEF SdPumps, P
  <2>3. Length(p) <= 0 => sdFile[p] = "dead"
    BY <1>1 DEF Length, Worths
  <2> HIDE DEF o
  <2>4. Fair(o, p, sdStarved')
    BY <1>1, <2>1, <2>3 DEF Fair, Excused
  <2>5. QED
    BY <1>1, <2>2, <2>4, ThreadKeepsIInv
<1>4. CASE sdPull[p].got # Length(p) /\ ~sdWanted
  <2> DEFINE o == Out(sdPull[p], -1, {"reader"})
  <2>1. /\ o \in Threads /\ o.held \subseteq {"pcm"} /\ o.pc = "pulled"
        /\ o.got = -1 /\ o.mode = "fill" /\ o.said = sdPull[p].said
    BY <1>1, <1>2, OutOfThePull
  <2>2. To(p, o)
    BY <1>4 DEF SdPumps, P
  <2> HIDE DEF o
  <2>3. Fair(o, p, sdStarved')
    BY <1>1, <1>4, <2>1 DEF Fair, Excused
  <2>4. QED
    BY <1>1, <2>2, <2>3, ThreadKeepsIInv
<1>5. CASE sdPull[p].got # Length(p) /\ sdWanted
  <2> DEFINE r == [sdPull[p] EXCEPT !.got = @ + 1]
  <2>1. /\ r \in Threads /\ r.pc = "pump" /\ r.mode = "fill" /\ r.said = sdPull[p].said
        /\ r.got = sdPull[p].got + 1
    BY <1>1 DEF Threads
  <2>2. To(p, r)
    BY <1>5 DEF SdPumps, P
  <2>3. r.got \in 0..Length(p)
    BY <1>1, <1>5, <2>1, LengthIsNoneOrOne
  <2> HIDE DEF r
  <2>4. Fair(r, p, sdStarved')
    BY <1>1, <2>1, <2>3 DEF Fair, Excused
  <2>5. QED
    BY <1>1, <2>2, <2>4, ThreadKeepsIInv
<1>6. QED
  BY <1>3, <1>4, <1>5

(* So does the verdict at the end of the pump. *)
LEMMA JudgesKeepsIInv ==
  ASSUME SdIInv, NEW p \in Parts, NEW room \in BOOLEAN, SdJudges(p, room) PROVE SdIInv'
<1>1. /\ sdPull[p] \in Threads /\ sdPull[p].pc = "pulled"
      /\ sdPull[p].got <= 0 => Excused(p) \/ (sdPull[p].mode = "fill" /\ ~sdWanted)
      /\ sdPull[p].said = "bad" => Excused(p)
      /\ sdPull[p].held \subseteq {"pcm"} /\ sdWanted \in BOOLEAN
      /\ sdStarved' = sdStarved /\ sdStarved' \in BOOLEAN /\ UNCHANGED sdNotPull
  BY DEF SdJudges, P, SdIInv, SdTypes, PullsAreFair, HoldsWhatItDrops
<1>2. CASE sdPull[p].mode = "probe" /\ sdPull[p].got <= 0
  <2> DEFINE r == [sdPull[p] EXCEPT !.pc = "done", !.said = "bad"]
  <2>1. /\ r \in Threads /\ r.pc = "done" /\ r.held = sdPull[p].held
    BY <1>1 DEF Threads
  <2>2. To(p, r)
    BY <1>1, <1>2 DEF SdJudges, P, Threads
  <2> HIDE DEF r
  <2>3. Fair(r, p, sdStarved')
    BY <1>1, <1>2, <2>1 DEF Fair, Excused
  <2>4. QED
    BY <1>1, <2>2, <2>3, ThreadKeepsIInv
<1>3. CASE sdPull[p].mode = "probe" /\ ~(sdPull[p].got <= 0) /\ room
  <2> DEFINE r == [sdPull[p] EXCEPT !.pc = "begin", !.mode = "fill", !.held = @ \cup {"pcm"}]
  <2>1. /\ r \in Threads /\ r.pc = "begin" /\ r.held \subseteq {"pcm"} /\ r.said = sdPull[p].said
    BY <1>1 DEF Threads, Things
  <2>2. To(p, r)
    BY <1>3 DEF SdJudges, P
  <2> HIDE DEF r
  <2>3. Fair(r, p, sdStarved')
    BY <1>1, <2>1 DEF Fair, Excused
  <2>4. QED
    BY <1>1, <2>2, <2>3, ThreadKeepsIInv
<1>4. CASE sdPull[p].mode = "probe" /\ ~(sdPull[p].got <= 0) /\ ~room
  <2> DEFINE r == [sdPull[p] EXCEPT !.pc = "done", !.said = "retry"]
  <2>1. /\ r \in Threads /\ r.pc = "done" /\ r.held = sdPull[p].held /\ r.said = "retry"
    BY <1>1 DEF Threads
  <2>2. To(p, r)
    BY <1>4 DEF SdJudges, P
  <2> HIDE DEF r
  <2>3. Fair(r, p, sdStarved')
    BY <1>1, <2>1 DEF Fair
  <2>4. QED
    BY <1>1, <2>2, <2>3, ThreadKeepsIInv
<1>5. CASE sdPull[p].mode = "fill" /\ sdPull[p].got <= 0
  <2> DEFINE says == SaysOf(p)
             r == [sdPull[p] EXCEPT !.pc = "done", !.said = says, !.held = @ \ {"pcm"}]
  <2>1. says \in {"bad", "abort"} /\ (says = "bad" => sdWanted)
    BY DEF SaysOf
  <2>2. To(p, r)
    BY <1>5 DEF SdJudges, P
  <2> HIDE DEF says
  <2>3. /\ r \in Threads /\ r.pc = "done" /\ r.held \subseteq {"pcm"} /\ r.said = says
    BY <1>1, <2>1 DEF Threads
  <2> HIDE DEF r
  <2>4. Fair(r, p, sdStarved')
    BY <1>1, <1>5, <2>1, <2>3 DEF Fair, Excused
  <2>5. QED
    BY <1>1, <2>2, <2>4, ThreadKeepsIInv
<1>6. CASE sdPull[p].mode = "fill" /\ ~(sdPull[p].got <= 0)
  <2> DEFINE r == [sdPull[p] EXCEPT !.pc = "done", !.said = "loaded"]
  <2>1. /\ r \in Threads /\ r.pc = "done" /\ r.held = sdPull[p].held /\ r.said = "loaded"
    BY <1>1 DEF Threads
  <2>2. To(p, r)
    BY <1>6 DEF SdJudges, P
  <2> HIDE DEF r
  <2>3. Fair(r, p, sdStarved')
    BY <1>1, <2>1 DEF Fair
  <2>4. QED
    BY <1>1, <2>2, <2>3, ThreadKeepsIInv
<1>7. QED
  BY <1>1, <1>2, <1>3, <1>4, <1>5, <1>6 DEF Threads

(* The load's own steps.                                                    *)
LEMMA SnappedIsARate == \A r : SnapRate(r) \in Rates
<1> SUFFICES ASSUME NEW r, \E k \in KPoolRates : Near(r, k)
             PROVE  (CHOOSE k \in KPoolRates : Near(r, k)) \in KPoolRates
  BY DEF SnapRate, Rates
<1>1. QED
  OBVIOUS

(* An observed rate leaves the four rates rates; the pool takes it only when it was seen twice
   running. *)
LEMMA ObservedIsARate ==
  ASSUME SdTypes, NEW r \in Rates
  PROVE  /\ Observe(r) \in [pool : Rates, last : Rates, engine : Rates, set : Rates, jumped : BOOLEAN]
         /\ Observe(r).jumped = sdRates.jumped /\ Observe(r).last = r
         /\ Observe(r).pool = IF r # 0 THEN (IF sdRates.last = r THEN r ELSE 0) ELSE sdRates.pool
<1>1. CASE r = 0
  BY <1>1 DEF Observe, SdTypes
<1>2. CASE r # 0
  <2> DEFINE pool == IF sdRates.last = r THEN r ELSE 0
  <2>1. pool \in Rates
    BY DEF Rates
  <2>2. Observe(r) = [sdRates EXCEPT !.last = r, !.pool = pool]
    BY <1>2 DEF Observe
  <2>3. QED
    <3> HIDE DEF pool
    <3>1. /\ Observe(r) \in [pool : Rates, last : Rates, engine : Rates, set : Rates, jumped : BOOLEAN]
          /\ Observe(r).jumped = sdRates.jumped /\ Observe(r).last = r /\ Observe(r).pool = pool
      BY <2>1, <2>2 DEF SdTypes
    <3>2. QED
      BY <1>2, <3>1 DEF pool
<1>3. QED
  BY <1>1, <1>2

(* What a window of the play head may change: the rates, and whether the load is still wanted; no
   file and no thread. *)
LEMMA WindowIs ==
  ASSUME SdTypes, NEW seen, NEW jumped \in BOOLEAN, SdWindow(seen, jumped)
  PROVE  LET after == IF sdRates.pool # 0 THEN sdRates ELSE Observe(SnapRate(seen)) IN
         /\ sdRates' \in [pool : Rates, last : Rates, engine : Rates, set : Rates, jumped : BOOLEAN]
         /\ sdRates'.pool = after.pool /\ sdRates'.last = after.last /\ sdRates'.jumped = jumped
         /\ ~(jumped /\ sdRates.jumped)
         /\ sdWanted' \in BOOLEAN /\ (sdWanted' => sdWanted)
         /\ UNCHANGED <<sdFile, sdLoad, sdPull, sdSaid, sdStarved>>
<1> DEFINE after == IF sdRates.pool # 0 THEN sdRates ELSE Observe(SnapRate(seen))
           stale == after.pool # sdRates.pool /\ sdRates.set \notin {0, after.pool}
           set == IF stale THEN 0 ELSE after.set
<1>1. after \in [pool : Rates, last : Rates, engine : Rates, set : Rates, jumped : BOOLEAN]
  BY SnappedIsARate, ObservedIsARate DEF SdTypes
<1>2. set \in Rates
  BY <1>1 DEF Rates
<1>3. stale \in BOOLEAN
  OBVIOUS
<1>4. /\ sdRates' = [after EXCEPT !.jumped = jumped, !.set = set]
      /\ sdWanted' = (sdWanted /\ ~stale) /\ ~(jumped /\ sdRates.jumped)
      /\ UNCHANGED <<sdFile, sdLoad, sdPull, sdSaid, sdStarved>>
  BY DEF SdWindow
<1> HIDE DEF after, stale, set
<1>5. /\ sdRates' \in [pool : Rates, last : Rates, engine : Rates, set : Rates, jumped : BOOLEAN]
      /\ sdRates'.pool = after.pool /\ sdRates'.last = after.last /\ sdRates'.jumped = jumped
  BY <1>1, <1>2, <1>4
<1>6. sdWanted' \in BOOLEAN /\ (sdWanted' => sdWanted)
  BY <1>3, <1>4 DEF SdTypes
<1>7. QED
  BY <1>4, <1>5, <1>6 DEF after

(* Hence it keeps the invariant. *)
LEMMA WindowKeepsIInv ==
  ASSUME SdIInv, NEW seen, NEW jumped \in BOOLEAN, SdWindow(seen, jumped) PROVE SdIInv'
<1>1. /\ sdRates' \in [pool : Rates, last : Rates, engine : Rates, set : Rates, jumped : BOOLEAN]
      /\ sdWanted' \in BOOLEAN /\ (sdWanted' => sdWanted)
      /\ UNCHANGED <<sdFile, sdLoad, sdPull, sdSaid, sdStarved>>
  BY WindowIs DEF SdIInv
<1>2. SdTypes'
  BY <1>1 DEF SdIInv, SdTypes
<1>3. NoThreadsBetween' /\ HoldsWhatItDrops' /\ VerdictIsOfTheFile'
  BY <1>1 DEF SdIInv, NoThreadsBetween, HoldsWhatItDrops, VerdictIsOfTheFile
<1>4. PullsAreFair'
  BY <1>1 DEF SdIInv, PullsAreFair, Excused, Length
<1>5. QED
  BY <1>2, <1>3, <1>4 DEF SdIInv

\* A load that ends: no thread is left, and what is said is not that a file is bad
\* unless one is, or memory ran out.
LEMMA EndsKeepsIInv ==
  ASSUME SdIInv, NEW said, Ends(said), said = "bad" => sdStarved \/ \E p \in Parts : sdFile[p] = "dead",
         UNCHANGED <<sdFile, sdWanted, sdStarved>>,
         sdRates' \in [pool : Rates, last : Rates, engine : Rates, set : Rates, jumped : BOOLEAN]
  PROVE  SdIInv'
<1>1. /\ sdPull' = [p \in Parts |-> NoPull] /\ sdLoad' = [sdLoad EXCEPT !.pc = "idle"] /\ sdSaid' = said
  BY DEF Ends
<1>2. \A p \in Parts : sdPull'[p] = NoPull
  BY <1>1
<1>3. SdTypes'
  BY <1>1, NoPullIsAThread DEF SdIInv, SdTypes
<1>4. NoThreadsBetween' /\ HoldsWhatItDrops' /\ PullsAreFair'
  BY <1>2, NoPullIsAThread DEF NoThreadsBetween, HoldsWhatItDrops, PullsAreFair
<1>5. VerdictIsOfTheFile'
  BY <1>1 DEF VerdictIsOfTheFile
<1>6. QED
  BY <1>3, <1>4, <1>5 DEF SdIInv

\* A step of a load that has no threads yet, or of the deck.
LEMMA LoadKeepsIInv ==
  ASSUME SdIInv, UNCHANGED <<sdFile, sdWanted, sdPull, sdSaid, sdStarved>>,
         sdRates' \in [pool : Rates, last : Rates, engine : Rates, set : Rates, jumped : BOOLEAN],
         sdLoad' \in [pc : {"idle", "rate", "deck", "pair"}, rate : Rates, polls : Nat],
         sdLoad'.pc = "pair" <=> sdLoad.pc = "pair"
  PROVE  SdIInv'
<1>1. SdTypes'
  BY DEF SdIInv, SdTypes
<1>2. NoThreadsBetween' /\ HoldsWhatItDrops' /\ PullsAreFair' /\ VerdictIsOfTheFile'
  BY DEF SdIInv, NoThreadsBetween, HoldsWhatItDrops, PullsAreFair, Excused, Length, VerdictIsOfTheFile
<1>3. QED
  BY <1>1, <1>2 DEF SdIInv

(* So does asking the pool for its rate. *)
LEMMA AsksRateKeepsIInv ==
  ASSUME SdIInv, NEW healthy \in BOOLEAN, SdAsksRate(healthy) PROVE SdIInv'
<1> DEFINE known == PoolRate # 0
           rates == IF known THEN sdRates ELSE [sdRates EXCEPT !.engine = Measured(healthy)]
           rate == IF known THEN PoolRate ELSE rates.engine
<1>1. Measured(healthy) \in Rates /\ PoolRate \in Rates
  BY SdAssumption DEF Measured, PoolRate, SdIInv, SdTypes, Rates
<1>2. rates \in [pool : Rates, last : Rates, engine : Rates, set : Rates, jumped : BOOLEAN]
  BY <1>1 DEF SdIInv, SdTypes
<1>3. rate \in Rates
  BY <1>1, <1>2
<1>4. /\ sdRates' = rates /\ UNCHANGED <<sdFile, sdWanted, sdStarved>> /\ sdLoad.pc = "rate"
      /\ \/ /\ sdLoad' = [pc |-> "deck", rate |-> rate, polls |-> 0] /\ UNCHANGED <<sdSaid, sdPull>>
         \/ sdLoad' = [sdLoad EXCEPT !.polls = @ + 1] /\ UNCHANGED <<sdSaid, sdPull>>
         \/ Ends(IF sdWanted THEN "retry" ELSE "abort")
  BY DEF SdAsksRate
<1> HIDE DEF rates, rate, known
<1>5. CASE sdLoad' = [pc |-> "deck", rate |-> rate, polls |-> 0] /\ UNCHANGED <<sdSaid, sdPull>>
  <2>1. sdLoad' \in [pc : {"idle", "rate", "deck", "pair"}, rate : Rates, polls : Nat]
        /\ sdLoad'.pc # "pair"
    BY <1>3, <1>5
  <2>2. QED
    BY <1>2, <1>4, <1>5, <2>1, LoadKeepsIInv
<1>6. CASE sdLoad' = [sdLoad EXCEPT !.polls = @ + 1] /\ UNCHANGED <<sdSaid, sdPull>>
  <2>1. sdLoad' \in [pc : {"idle", "rate", "deck", "pair"}, rate : Rates, polls : Nat]
        /\ sdLoad'.pc = sdLoad.pc
    BY <1>6 DEF SdIInv, SdTypes
  <2>2. QED
    BY <1>2, <1>4, <1>6, <2>1, LoadKeepsIInv
<1>7. CASE Ends(IF sdWanted THEN "retry" ELSE "abort")
  BY <1>2, <1>4, <1>7, EndsKeepsIInv
<1>8. QED
  BY <1>4, <1>5, <1>6, <1>7

(* So does a poll of the deck's own loader. *)
LEMMA AsksDeckKeepsIInv == ASSUME SdIInv, SdAsksDeck PROVE SdIInv'
<1>1. /\ sdLoad.pc = "deck" /\ UNCHANGED <<sdFile, sdRates, sdWanted, sdStarved>>
      /\ \/ /\ sdLoad' = [sdLoad EXCEPT !.pc = "pair"] /\ sdPull' = [p \in Parts |-> Starts(p)]
            /\ UNCHANGED sdSaid
         \/ sdLoad' = [sdLoad EXCEPT !.polls = @ + 1] /\ UNCHANGED <<sdSaid, sdPull>>
         \/ Ends(IF sdWanted THEN "retry" ELSE "abort")
  BY DEF SdAsksDeck
<1>2. sdRates' \in [pool : Rates, last : Rates, engine : Rates, set : Rates, jumped : BOOLEAN]
  BY <1>1 DEF SdIInv, SdTypes
<1>3. CASE /\ sdLoad' = [sdLoad EXCEPT !.pc = "pair"] /\ sdPull' = [p \in Parts |-> Starts(p)]
           /\ UNCHANGED sdSaid
  <2>1. \A p \in Parts : sdPull'[p] = [NoPull EXCEPT !.pc = "begin"]
    BY <1>3 DEF Starts
  <2>2. sdPull' \in [Parts -> Threads]
    BY <1>3, NoPullIsAThread DEF Starts
  <2>3. sdLoad' \in [pc : {"idle", "rate", "deck", "pair"}, rate : Rates, polls : Nat]
        /\ sdLoad'.pc = "pair"
    BY <1>3 DEF SdIInv, SdTypes
  <2>4. SdTypes'
    BY <1>1, <1>2, <2>2, <2>3 DEF SdIInv, SdTypes
  <2>5. NoThreadsBetween' /\ HoldsWhatItDrops' /\ PullsAreFair'
    BY <2>1, <2>3, NoPullIsAThread DEF NoThreadsBetween, HoldsWhatItDrops, PullsAreFair
  <2>6. VerdictIsOfTheFile'
    BY <1>1, <1>3 DEF SdIInv, VerdictIsOfTheFile
  <2>7. QED
    BY <2>4, <2>5, <2>6 DEF SdIInv
<1>4. CASE sdLoad' = [sdLoad EXCEPT !.polls = @ + 1] /\ UNCHANGED <<sdSaid, sdPull>>
  <2>1. sdLoad' \in [pc : {"idle", "rate", "deck", "pair"}, rate : Rates, polls : Nat]
        /\ sdLoad'.pc = sdLoad.pc
    BY <1>4 DEF SdIInv, SdTypes
  <2>2. QED
    BY <1>1, <1>2, <1>4, <2>1, LoadKeepsIInv
<1>5. CASE Ends(IF sdWanted THEN "retry" ELSE "abort")
  BY <1>1, <1>2, <1>5, EndsKeepsIInv
<1>6. QED
  BY <1>1, <1>3, <1>4, <1>5

(* So does joining the two threads and taking their results. *)
LEMMA JoinsKeepsIInv == ASSUME SdIInv, SdJoins PROVE SdIInv'
<1> DEFINE says == {sdPull[p].said : p \in Parts}
           verdict == CASE says = {"loaded"} -> "stored" [] "abort" \in says -> "abort"
                        [] "bad" \in says -> "bad" [] OTHER -> "retry"
<1>1. /\ Ends(verdict) /\ UNCHANGED <<sdFile, sdWanted, sdStarved>>
      /\ sdRates' = IF says = {"loaded"} THEN [sdRates EXCEPT !.set = sdLoad.rate] ELSE sdRates
  BY DEF SdJoins, P
<1>2. verdict = "bad" => "bad" \in says
  OBVIOUS
<1>3. "bad" \in says => sdStarved \/ \E p \in Parts : sdFile[p] = "dead"
  BY DEF SdIInv, PullsAreFair, Excused
<1>4. sdRates' \in [pool : Rates, last : Rates, engine : Rates, set : Rates, jumped : BOOLEAN]
  BY <1>1 DEF SdIInv, SdTypes
<1> HIDE DEF verdict, says
<1>5. QED
  BY <1>1, <1>2, <1>3, <1>4, EndsKeepsIInv

\* How fast the play head moves at a held tempo, in samples a second.
SeenAt(tempo) == (SdRate * tempo) \div 1000

(* A step of the message thread, the load, the deck or a thread of the load. *)
THEOREM SdStepKeepsIInv == SdIInv /\ [SdNext]_sdVars => SdIInv'
<1> SUFFICES ASSUME SdIInv, [SdNext]_sdVars PROVE SdIInv'
  OBVIOUS
<1>1. CASE SdPlays
  <2>1. PICK tempo \in SdTempos : SdWindow(SeenAt(tempo), FALSE)
    BY <1>1 DEF SdPlays, SeenAt
  <2>2. QED
    BY <2>1, WindowKeepsIInv
<1>2. CASE SdJumps
  BY <1>2, WindowKeepsIInv DEF SdJumps
<1>3. CASE SdBegins
  <2>1. /\ sdLoad.pc = "idle" /\ sdLoad' = [pc |-> "rate", rate |-> 0, polls |-> 0]
        /\ sdWanted' = TRUE /\ sdSaid' = "none" /\ sdStarved' = FALSE
        /\ UNCHANGED <<sdFile, sdRates, sdPull>>
    BY <1>3 DEF SdBegins
  <2>2. \A p \in Parts : sdPull[p] = NoPull
    BY <2>1 DEF SdIInv, NoThreadsBetween
  <2>3. SdTypes'
    BY <2>1 DEF SdIInv, SdTypes, Rates
  <2>4. NoThreadsBetween' /\ HoldsWhatItDrops'
    BY <2>1, <2>2, NoPullIsAThread DEF NoThreadsBetween, HoldsWhatItDrops
  <2>5. PullsAreFair'
    BY <2>1, <2>2, NoPullIsAThread DEF PullsAreFair
  <2>6. QED
    BY <2>1, <2>3, <2>4, <2>5 DEF SdIInv, VerdictIsOfTheFile
<1>4. ASSUME NEW healthy \in BOOLEAN, SdAsksRate(healthy) PROVE SdIInv'
  BY <1>4, AsksRateKeepsIInv
<1>5. CASE SdAsksDeck
  BY <1>5, AsksDeckKeepsIInv
<1>6. CASE SdDeckOpens
  BY <1>6, LoadKeepsIInv DEF SdDeckOpens, SdIInv, SdTypes
<1>7. CASE SdMovesOn
  <2>1. sdWanted' = FALSE /\ UNCHANGED <<sdFile, sdRates, sdLoad, sdPull, sdSaid, sdStarved>>
    BY <1>7 DEF SdMovesOn
  <2>2. SdTypes'
    BY <2>1 DEF SdIInv, SdTypes
  <2>3. NoThreadsBetween' /\ HoldsWhatItDrops' /\ VerdictIsOfTheFile'
    BY <2>1 DEF SdIInv, NoThreadsBetween, HoldsWhatItDrops, VerdictIsOfTheFile
  <2>4. PullsAreFair'
    BY <2>1 DEF SdIInv, PullsAreFair, Excused, Length
  <2>5. QED
    BY <2>2, <2>3, <2>4 DEF SdIInv
<1>8. ASSUME NEW p \in Parts, SdThread(p) PROVE SdIInv'
  BY <1>8, AllocatesKeepsIInv, OpensKeepsIInv, PumpsKeepsIInv, JudgesKeepsIInv DEF SdThread
<1>9. CASE SdJoins
  BY <1>9, JoinsKeepsIInv
<1>10. CASE UNCHANGED sdVars
  BY <1>10, LoadKeepsIInv DEF sdVars, SdIInv, SdTypes
<1>11. QED
  BY <1>1, <1>2, <1>3, <1>4, <1>5, <1>6, <1>7, <1>8, <1>9, <1>10 DEF SdNext

(* A pair is condemned for a file of its own, or because a decode could not    *)
(* begin (store.c:217-219, 233-236); and whatever failed, no thread that is done *)
(* holds more than its samples.                                             *)
THEOREM VerdictsAreFair == SdSpec => [](VerdictIsOfTheFile /\ NothingIsLeft)
<1>1. SdIInv => VerdictIsOfTheFile /\ NothingIsLeft
  <2> SUFFICES ASSUME SdIInv, NEW p \in Parts, sdPull[p].pc \in {"idle", "begin", "pulled", "done"}
               PROVE  sdPull[p].held \subseteq {"pcm"}
    BY DEF SdIInv, NothingIsLeft, P
  <2> QED
    BY DEF SdIInv, HoldsWhatItDrops
<1>2. QED
  BY <1>1, SdInitIInv, SdStepKeepsIInv, PTL DEF SdSpec

-----------------------------------------------------------------------------
(* The rate.  A window may show any rate when the play head jumped in it, but no *)
(* two in a row do; so what was shown last, unless it jumped, is the pool's.  At   *)
(* a held tempo the play head moves at another listed rate the code is fooled:    *)
(* the tempos are those at which it is not.                                  *)
TemposAreTheirOwn == \A tempo \in SdTempos : SnapRate(SeenAt(tempo)) \in {0, SdRate}

ShownIsThePools ==
  /\ RateIsThePools
  /\ sdRates.pool = 0 /\ ~sdRates.jumped => sdRates.last \in {0, SdRate}

(* A window that is no jump, and looks like the pool's own rate or like none, leaves no other rate
   shown. *)
LEMMA WindowShows ==
  ASSUME SdTypes, ShownIsThePools, NEW seen, NEW jumped \in BOOLEAN, SdWindow(seen, jumped),
         ~jumped => SnapRate(seen) \in {0, SdRate}
  PROVE  ShownIsThePools'
<1> DEFINE r == SnapRate(seen)
<1>1. r \in Rates
  BY SnappedIsARate
<1>2. CASE sdRates.pool # 0
  BY <1>2, WindowIs DEF ShownIsThePools, RateIsThePools
<1>3. CASE sdRates.pool = 0
  <2>1. /\ sdRates'.pool = Observe(r).pool /\ sdRates'.last = Observe(r).last
        /\ sdRates'.jumped = jumped /\ ~(jumped /\ sdRates.jumped)
    BY <1>3, WindowIs
  <2> HIDE DEF r
  <2>2. /\ sdRates'.last = r
        /\ sdRates'.pool = IF r # 0 THEN (IF sdRates.last = r THEN r ELSE 0) ELSE sdRates.pool
    BY <1>1, <2>1, ObservedIsARate
  <2>3. ~jumped => r \in {0, SdRate}
    BY DEF r
  <2>4. QED
    BY <1>3, <2>1, <2>2, <2>3 DEF ShownIsThePools, RateIsThePools
<1>4. QED
  BY <1>2, <1>3

(* Where no held tempo looks like another listed rate, no step gives the pool one. *)
LEMMA RateKeeps ==
  ASSUME TemposAreTheirOwn, SdIInv, ShownIsThePools, [SdNext]_sdVars PROVE ShownIsThePools'
<1>1. CASE SdPlays
  <2>1. PICK tempo \in SdTempos : SdWindow(SeenAt(tempo), FALSE)
    BY <1>1 DEF SdPlays, SeenAt
  <2>2. QED
    BY <2>1, WindowShows DEF SdIInv, TemposAreTheirOwn
<1>2. CASE SdJumps
  BY <1>2, WindowShows DEF SdJumps, SdIInv
<1>3. ASSUME NEW healthy \in BOOLEAN, SdAsksRate(healthy) PROVE ShownIsThePools'
  <2>1. sdRates' = sdRates \/ sdRates' = [sdRates EXCEPT !.engine = Measured(healthy)]
    BY <1>3 DEF SdAsksRate
  <2>2. sdRates'.pool = sdRates.pool /\ sdRates'.last = sdRates.last /\ sdRates'.jumped = sdRates.jumped
    BY <2>1 DEF SdIInv, SdTypes
  <2>3. QED
    BY <2>2 DEF ShownIsThePools, RateIsThePools
<1>4. CASE SdJoins
  <2>1. sdRates' = sdRates \/ sdRates' = [sdRates EXCEPT !.set = sdLoad.rate]
    BY <1>4 DEF SdJoins
  <2>2. sdRates'.pool = sdRates.pool /\ sdRates'.last = sdRates.last /\ sdRates'.jumped = sdRates.jumped
    BY <2>1 DEF SdIInv, SdTypes
  <2>3. QED
    BY <2>2 DEF ShownIsThePools, RateIsThePools
<1>5. ASSUME NEW p \in Parts, SdThread(p) PROVE sdRates' = sdRates
  BY <1>5 DEF SdThread, SdAllocates, SdOpensFile, SdPumps, SdJudges, sdNotPull
<1>6. CASE SdBegins \/ SdAsksDeck \/ SdDeckOpens \/ SdMovesOn \/ UNCHANGED sdVars
  BY <1>6 DEF SdBegins, SdAsksDeck, SdDeckOpens, SdMovesOn, sdVars, ShownIsThePools, RateIsThePools
<1>7. QED
  BY <1>1, <1>2, <1>3, <1>4, <1>5, <1>6 DEF SdNext, ShownIsThePools, RateIsThePools

(* A pair is loaded at the pool's rate (audio.c:188-190), judged for what it is   *)
(* and let go of, at every tempo that does not look like another listed rate.   *)
THEOREM PairsAreJudged == TemposAreTheirOwn => (SdSpec => []PairIsJudged)
<1> SUFFICES ASSUME TemposAreTheirOwn PROVE SdSpec => []PairIsJudged
  OBVIOUS
<1>1. SdInit => ShownIsThePools
  BY DEF SdInit, ShownIsThePools, RateIsThePools
<1>2. SdIInv /\ ShownIsThePools /\ [SdNext]_sdVars => ShownIsThePools'
  BY RateKeeps
<1>3. SdSpec => [](SdIInv /\ ShownIsThePools)
  BY <1>1, <1>2, SdInitIInv, SdStepKeepsIInv, PTL DEF SdSpec
<1>4. ShownIsThePools /\ VerdictIsOfTheFile /\ NothingIsLeft => PairIsJudged
  BY DEF ShownIsThePools, PairIsJudged
<1>5. QED
  BY <1>3, <1>4, VerdictsAreFair, PTL

-----------------------------------------------------------------------------
(* The answer: what the server says, token by token.                         *)

Kinds == {"status", "length", "chunked", "other", "size", "body", "end"}
Token == [t : Kinds, v : Int]

\* What a word says.
LEMMA WordIs == \A k, v : Word(k, v).t = k /\ Word(k, v).v = v
BY DEF Word

\* A word of a known kind is a token.
LEMMA WordIsToken == ASSUME NEW k \in Kinds, NEW v \in Int PROVE Word(k, v) \in Token
BY DEF Word, Token

\* The end of a line is no other word.
LEMMA EndIs == End \in Token /\ End.t = "end" /\ \A k \in Kinds \ {"end"}, v \in Int : Word(k, v) # End
<1>1. "end" \in Kinds
  BY DEF Kinds
<1>2. End \in Token
  BY <1>1, WordIsToken DEF End
<1>3. QED
  BY <1>2, WordIs DEF End

\* A line is a word and its end.
LEMMA LineTokens ==
  ASSUME NEW k \in Kinds, NEW v \in Int
  PROVE  /\ Line(k, v) \in Seq(Token) /\ Len(Line(k, v)) = 2
         /\ Line(k, v)[1] = Word(k, v) /\ Line(k, v)[2] = End
<1>1. Word(k, v) \in Token /\ End \in Token
  BY WordIsToken, EndIs
<1>2. QED
  BY <1>1 DEF Line

\* An end alone is a sequence of one token.
LEMMA EndTokens == <<End>> \in Seq(Token) /\ Len(<<End>>) = 1 /\ <<End>>[1] = End
BY EndIs

\* What a concatenation holds, and where.
LEMMA Catenated ==
  \A s, u \in Seq(Token) :
    /\ s \o u \in Seq(Token) /\ Len(s \o u) = Len(s) + Len(u)
    /\ \A i \in 1..Len(s) : (s \o u)[i] = s[i]
    /\ \A i \in 1..Len(u) : (s \o u)[Len(s) + i] = u[i]
OBVIOUS

\* An entity of n tokens.
LEMMA EntityTokens ==
  ASSUME NEW n \in Nat
  PROVE  /\ Entity(n) \in Seq(Token) /\ Len(Entity(n)) = n
         /\ \A i \in 1..n : Entity(n)[i] = Word("body", i)
<1>1. \A i \in 1..n : Word("body", i) \in Token
  BY WordIsToken DEF Kinds
<1>2. Entity(n) \in [1..n -> Token]
  BY <1>1 DEF Entity
<1>3. Entity(n) \in Seq(Token)
  BY <1>2
<1>4. QED
  BY <1>2, <1>3 DEF Entity

\* A wire is a status line, headers to a blank line and a body.
WireIs(w, h, b) ==
  /\ w \in Seq(Token) /\ h \in Seq(Token) /\ b \in Seq(Token)
  /\ Len(w) = 3 + Len(h) + Len(b)
  /\ w[1] = Word("status", 200) /\ w[2] = End /\ w[3 + Len(h)] = End
  /\ \A i \in 1..Len(h) : w[2 + i] = h[i]
  /\ \A i \in 1..Len(b) : w[3 + Len(h) + i] = b[i]

\* An answer put together is one that WireIs takes apart.
LEMMA WiresAre ==
  ASSUME NEW h \in Seq(Token), NEW b \in Seq(Token)
  PROVE  WireIs(Line("status", 200) \o h \o <<End>> \o b, h, b)
<1> DEFINE s == Line("status", 200)  x == s \o h  y == x \o <<End>>  w == y \o b
<1>1. s \in Seq(Token) /\ Len(s) = 2 /\ s[1] = Word("status", 200) /\ s[2] = End
  <2>1. "status" \in Kinds
    BY DEF Kinds
  <2>2. QED
    BY <2>1, LineTokens
<1> HIDE DEF s
<1>2. x \in Seq(Token) /\ Len(x) = 2 + Len(h) /\ x[1] = s[1] /\ x[2] = s[2] /\ \A i \in 1..Len(h) : x[2 + i] = h[i]
  <2>1. /\ s \o h \in Seq(Token) /\ Len(s \o h) = Len(s) + Len(h)
        /\ \A i \in 1..Len(s) : (s \o h)[i] = s[i]
        /\ \A i \in 1..Len(h) : (s \o h)[Len(s) + i] = h[i]
    BY <1>1, Catenated
  <2>2. 1 \in 1..2 /\ 2 \in 1..2
    OBVIOUS
  <2> HIDE DEF x
  <2>3. QED
    BY <1>1, <2>1, <2>2 DEF x
<1> HIDE DEF x
<1>3. y \in Seq(Token) /\ Len(y) = Len(x) + 1 /\ y[Len(x) + 1] = End /\ \A i \in 1..Len(x) : y[i] = x[i]
  <2> DEFINE e == <<End>>
  <2>1. e \in Seq(Token) /\ Len(e) = 1 /\ e[1] = End
    BY EndTokens
  <2> HIDE DEF e
  <2>2. /\ x \o e \in Seq(Token) /\ Len(x \o e) = Len(x) + Len(e)
        /\ \A i \in 1..Len(x) : (x \o e)[i] = x[i]
        /\ \A i \in 1..Len(e) : (x \o e)[Len(x) + i] = e[i]
    BY <1>2, <2>1, Catenated
  <2>3. 1 \in 1..1
    OBVIOUS
  <2>4. QED
    BY <2>1, <2>2, <2>3 DEF e
<1> HIDE DEF y
<1>4. w \in Seq(Token) /\ Len(w) = Len(y) + Len(b) /\ (\A i \in 1..Len(y) : w[i] = y[i])
      /\ \A i \in 1..Len(b) : w[Len(y) + i] = b[i]
  <2>1. /\ y \o b \in Seq(Token) /\ Len(y \o b) = Len(y) + Len(b)
        /\ \A i \in 1..Len(y) : (y \o b)[i] = y[i]
        /\ \A i \in 1..Len(b) : (y \o b)[Len(y) + i] = b[i]
    BY <1>3, Catenated
  <2>2. QED
    BY <2>1
<1> HIDE DEF w
<1>5. Len(h) \in Nat /\ Len(b) \in Nat
  OBVIOUS
<1>6. w[1] = Word("status", 200) /\ w[2] = End /\ w[3 + Len(h)] = End
  BY <1>1, <1>2, <1>3, <1>4, <1>5
<1>7. \A i \in 1..Len(h) : w[2 + i] = h[i]
  <2> SUFFICES ASSUME NEW i \in 1..Len(h) PROVE w[2 + i] = h[i]
    OBVIOUS
  <2>1. 2 + i \in 1..Len(x) /\ 2 + i \in 1..Len(y)
    BY <1>2, <1>3, <1>5
  <2>2. QED
    BY <1>2, <1>3, <1>4, <2>1
<1>8. WireIs(w, h, b)
  BY <1>2, <1>3, <1>4, <1>5, <1>6, <1>7 DEF WireIs
<1>9. QED
  BY <1>8 DEF w, y, x, s

\* Headers: each line is a word and its end, or has no end within a buffer, and what
\* they say of the framing.
HeadersAre(h, f, n) ==
  /\ h \in Seq(Token) /\ f \in {"length", "eof", "chunked"}
  /\ \A i \in 0..Len(h) : i = 0 \/ h[i] = End =>
       \/ i = Len(h)
       \/ i + 2 <= Len(h) /\ h[i + 1] # End /\ h[i + 2] = End
       \/ \A j \in 1..HcRoom : i + j <= Len(h) /\ h[i + j] # End
  /\ f # "chunked" => \A i \in 1..Len(h) : h[i].t # "chunked"
  /\ f = "eof" => \A i \in 1..Len(h) : h[i].t # "length"
  /\ f = "length" => \A i \in 1..Len(h) : h[i].t = "length" => h[i].v = n
  /\ f = "chunked" => \E i \in 1..Len(h) : h[i].t = "chunked"
  /\ f = "length" => \E i \in 1..Len(h) : h[i].t = "length"

\* One header line says one thing.
LEMMA OneHeader ==
  ASSUME NEW n \in Nat, NEW k \in {"length", "other", "chunked"}, NEW v \in Int, NEW f,
         \/ k = "length" /\ f = "length" /\ v = n
         \/ k = "other" /\ f = "eof"
         \/ k = "chunked" /\ f = "chunked"
  PROVE  HeadersAre(Line(k, v), f, n)
<1> DEFINE h == Line(k, v)
<1>1. k \in Kinds \ {"end"}
  BY DEF Kinds
<1>2. h \in Seq(Token) /\ Len(h) = 2 /\ h[1] = Word(k, v) /\ h[2] = End
  BY <1>1, LineTokens
<1> HIDE DEF h
<1>3. h[1].t = k /\ h[1].v = v /\ h[2].t = "end" /\ h[1] # End
  BY <1>1, <1>2, WordIs, EndIs
<1>4. \A i \in 0..2 : i = 0 \/ i = 1 \/ i = 2
  OBVIOUS
<1>5. \A i \in 0..2 : i = 0 \/ h[i] = End => i = 2 \/ (i + 2 <= 2 /\ h[i + 1] # End /\ h[i + 2] = End)
  BY <1>2, <1>3, <1>4
<1>6. HeadersAre(h, f, n)
  <2>1. \A i \in 1..Len(h) : h[i].t \in {k, "end"} /\ (h[i].t = "length" => h[i].v = v)
    BY <1>1, <1>2, <1>3, <1>4
  <2>2. 1 \in 1..Len(h)
    BY <1>2
  <2>3. QED
    BY <1>1, <1>2, <1>3, <1>5, <2>1, <2>2 DEF HeadersAre
<1>7. QED
  BY <1>6 DEF h

\* A length beside chunked, in either order, says chunked.
LEMMA TwoHeaders ==
  ASSUME NEW n \in Nat, NEW k, NEW v \in Int, NEW l, NEW u \in Int,
         <<k, l>> = <<"chunked", "length">> \/ <<k, l>> = <<"length", "chunked">>
  PROVE  HeadersAre(Line(k, v) \o Line(l, u), "chunked", n)
<1> DEFINE a == Line(k, v)  b == Line(l, u)  h == a \o b
<1>1. k \in Kinds \ {"end"} /\ l \in Kinds \ {"end"} /\ (k = "chunked" \/ l = "chunked")
  BY DEF Kinds
<1>2. /\ a \in Seq(Token) /\ Len(a) = 2 /\ a[1] = Word(k, v) /\ a[2] = End
      /\ b \in Seq(Token) /\ Len(b) = 2 /\ b[1] = Word(l, u) /\ b[2] = End
  BY <1>1, LineTokens
<1> HIDE DEF a, b
<1>3. h \in Seq(Token) /\ Len(h) = 4 /\ h[1] = a[1] /\ h[2] = a[2] /\ h[2 + 1] = b[1] /\ h[2 + 2] = b[2]
  <2>1. /\ a \o b \in Seq(Token) /\ Len(a \o b) = Len(a) + Len(b)
        /\ \A i \in 1..Len(a) : (a \o b)[i] = a[i]
        /\ \A i \in 1..Len(b) : (a \o b)[Len(a) + i] = b[i]
    BY <1>2, Catenated
  <2>2. 1 \in 1..2 /\ 2 \in 1..2
    OBVIOUS
  <2> HIDE DEF h
  <2>3. QED
    BY <1>2, <2>1, <2>2 DEF h
<1> HIDE DEF h
<1>4. h[1].t = k /\ h[3].t = l /\ h[2] = End /\ h[4] = End /\ h[1] # End /\ h[3] # End
  BY <1>1, <1>2, <1>3, WordIs, EndIs
<1>5. \A i \in 0..4 : i = 0 \/ i = 1 \/ i = 2 \/ i = 3 \/ i = 4
  OBVIOUS
<1>6. \A i \in 0..4 : i = 0 \/ h[i] = End => i = 4 \/ (i + 2 <= 4 /\ h[i + 1] # End /\ h[i + 2] = End)
  BY <1>4, <1>5
<1>7. \E i \in 1..4 : h[i].t = "chunked"
  BY <1>1, <1>4
<1>8. HeadersAre(h, "chunked", n)
  BY <1>3, <1>6, <1>7 DEF HeadersAre
<1>9. QED
  BY <1>8 DEF h, a, b

\* A header longer than the buffer, before a length.
LEMMA LongHeader ==
  ASSUME NEW n \in Nat
  PROVE  LET long == [i \in 1..HcRoom + 1 |-> Word("other", 0)] \o <<End>>
         IN  HeadersAre(long \o Line("length", n), "length", n)
<1> DEFINE o == [i \in 1..HcRoom + 1 |-> Word("other", 0)]  e == <<End>>  a == o \o e
           c == Line("length", n)  h == a \o c
<1>1. HcRoom \in Nat
  BY HcAssumption
<1>2. "other" \in Kinds \ {"end"} /\ "length" \in Kinds \ {"end"}
  BY DEF Kinds
<1>3. o \in Seq(Token) /\ Len(o) = HcRoom + 1 /\ \A i \in 1..HcRoom + 1 : o[i] = Word("other", 0)
  <2>1. Word("other", 0) \in Token
    BY <1>2, WordIsToken
  <2>2. o \in [1..HcRoom + 1 -> Token]
    BY <2>1
  <2>3. QED
    BY <1>1, <2>2
<1>4. e \in Seq(Token) /\ Len(e) = 1 /\ e[1] = End
  BY EndTokens
<1>5. c \in Seq(Token) /\ Len(c) = 2 /\ c[1] = Word("length", n) /\ c[2] = End
  BY <1>2, LineTokens
<1> HIDE DEF o, c, e
<1>6. a \in Seq(Token) /\ Len(a) = HcRoom + 2 /\ a[HcRoom + 2] = End /\ \A i \in 1..HcRoom + 1 : a[i] = Word("other", 0)
  <2>1. a \in Seq(Token) /\ Len(a) = HcRoom + 1 + 1 /\ a[HcRoom + 1 + 1] = e[1] /\ \A i \in 1..HcRoom + 1 : a[i] = o[i]
    BY <1>1, <1>3, <1>4, Catenated
  <2> HIDE DEF a
  <2>2. HcRoom + 1 + 1 = HcRoom + 2
    BY <1>1
  <2>3. QED
    BY <1>3, <1>4, <2>1, <2>2
<1> HIDE DEF a
<1>7. /\ h \in Seq(Token) /\ Len(h) = HcRoom + 4 /\ \A i \in 1..HcRoom + 2 : h[i] = a[i]
      /\ h[HcRoom + 3] = c[1] /\ h[HcRoom + 4] = c[2]
  <2>1. /\ h \in Seq(Token) /\ Len(h) = HcRoom + 2 + 2 /\ \A i \in 1..HcRoom + 2 : h[i] = a[i]
        /\ h[HcRoom + 2 + 1] = c[1] /\ h[HcRoom + 2 + 2] = c[2]
    <3>1. /\ a \o c \in Seq(Token) /\ Len(a \o c) = Len(a) + Len(c)
          /\ \A i \in 1..Len(a) : (a \o c)[i] = a[i]
          /\ \A i \in 1..Len(c) : (a \o c)[Len(a) + i] = c[i]
      BY <1>5, <1>6, Catenated
    <3>2. 1 \in 1..2 /\ 2 \in 1..2
      OBVIOUS
    <3> HIDE DEF h
    <3>3. QED
      BY <1>5, <1>6, <3>1, <3>2 DEF h
  <2> HIDE DEF h
  <2>2. HcRoom + 2 + 1 = HcRoom + 3 /\ HcRoom + 2 + 2 = HcRoom + 4
    BY <1>1
  <2>3. QED
    BY <2>1, <2>2
<1> HIDE DEF h
<1>8. /\ \A i \in 1..HcRoom + 1 : h[i] # End /\ h[i].t = "other"
      /\ h[HcRoom + 2] = End /\ h[HcRoom + 4] = End
      /\ h[HcRoom + 3].t = "length" /\ h[HcRoom + 3].v = n /\ h[HcRoom + 3] # End
  <2>1. \A i \in 1..HcRoom + 1 : h[i] = Word("other", 0)
    BY <1>1, <1>6, <1>7
  <2>2. h[HcRoom + 2] = End /\ h[HcRoom + 4] = End /\ h[HcRoom + 3] = Word("length", n)
    BY <1>1, <1>5, <1>6, <1>7
  <2>3. Word("other", 0) # End /\ Word("length", n) # End
    BY <1>2, EndIs
  <2>4. QED
    BY <2>1, <2>2, <2>3, WordIs
<1>9. \A i \in 1..HcRoom + 4 : i \in 1..HcRoom + 1 \/ i = HcRoom + 2 \/ i = HcRoom + 3 \/ i = HcRoom + 4
  BY <1>1
<1>10. ASSUME NEW i \in 0..Len(h), i = 0 \/ h[i] = End
      PROVE  \/ i = Len(h)
             \/ i + 2 <= Len(h) /\ h[i + 1] # End /\ h[i + 2] = End
             \/ \A j \in 1..HcRoom : i + j <= Len(h) /\ h[i + j] # End
  <2>1. CASE i = 0
    BY <1>1, <1>7, <1>8, <2>1
  <2>2. CASE i # 0
    <3>1. i = HcRoom + 2 \/ i = HcRoom + 4
      BY <1>1, <1>7, <1>8, <1>9, <1>10, <2>2
    <3>2. CASE i = HcRoom + 2
      <4>1. i + 1 = HcRoom + 3 /\ i + 2 = HcRoom + 4
        BY <1>1, <3>2
      <4>2. QED
        BY <1>7, <1>8, <4>1
    <3>3. QED
      BY <1>7, <3>1, <3>2
  <2>3. QED
    BY <2>1, <2>2
<1>11. HeadersAre(h, "length", n)
  <2>1. \A i \in 1..Len(h) : h[i].t # "chunked" /\ (h[i].t = "length" => h[i].v = n)
    <3>1. SUFFICES ASSUME NEW i \in 1..HcRoom + 4 PROVE h[i].t # "chunked" /\ (h[i].t = "length" => h[i].v = n)
      BY <1>7
    <3>2. CASE i \in 1..HcRoom + 1
      BY <1>8, <3>2
    <3>3. CASE i = HcRoom + 3
      BY <1>8, <3>3
    <3>4. CASE i = HcRoom + 2 \/ i = HcRoom + 4
      <4>1. h[i].t = "end"
        BY <1>8, <3>4, EndIs
      <4>2. QED
        BY <4>1
    <3>5. QED
      BY <1>9, <3>2, <3>3, <3>4
  <2>2. HcRoom + 3 \in 1..Len(h)
    BY <1>1, <1>7
  <2>3. QED
    BY <1>7, <1>8, <1>10, <2>1, <2>2 DEF HeadersAre
<1>12. QED
  BY <1>11 DEF h, a, o, c, e

\* A chunk of v tokens of the entity from the j-th on, q tokens into the body, and the
\* line that says there are no more.
ChunkAt(b, q, j, v) ==
  /\ v \in Nat \ {0} /\ q + 3 + v <= Len(b)
  /\ b[q + 1] = Word("size", v) /\ b[q + 2] = End /\ b[q + 3 + v] = End
  /\ \A i \in 1..v : b[q + 2 + i] = Word("body", j + i)
LastAt(b, q) == q + 2 <= Len(b) /\ b[q + 1] = Word("size", 0) /\ b[q + 2] = End

\* Where the chunks begin, with what they go on from.
ChunksAre(b, n, Z) ==
  /\ b \in Seq(Token) /\ Z \subseteq Nat \X (0..n) /\ <<0, 0>> \in Z
  /\ \A q, j : <<q, j>> \in Z =>
       \/ LastAt(b, q) /\ j = n
       \/ \E v : ChunkAt(b, q, j, v) /\ <<q + 3 + v, j + v>> \in Z

\* A chunk of the entity is one at its own beginning.
LEMMA ChunkTokens ==
  ASSUME NEW n \in Nat, NEW j \in Nat, NEW v \in Nat \ {0}, j + v <= n
  PROVE  LET c == Chunk(Entity(n), j + 1, j + v)
         IN  c \in Seq(Token) /\ Len(c) = 3 + v /\ ChunkAt(c, 0, j, v)
<1> DEFINE E == Entity(n)  s == SubSeq(E, j + 1, j + v)  x == Line("size", v)  y == x \o s  e == <<End>>  c == y \o e
<1>1. E \in Seq(Token) /\ Len(E) = n /\ \A i \in 1..n : E[i] = Word("body", i)
  BY EntityTokens
<1> HIDE DEF E
<1>2. s \in Seq(Token) /\ Len(s) = v /\ \A i \in 1..v : s[i] = Word("body", j + i)
  <2>1. s \in Seq(Token) /\ Len(s) = v /\ \A i \in 1..v : s[i] = E[j + 1 + i - 1]
    BY <1>1
  <2>2. \A i \in 1..v : j + 1 + i - 1 = j + i /\ j + i \in 1..n
    OBVIOUS
  <2> HIDE DEF s
  <2>3. QED
    BY <1>1, <2>1, <2>2
<1>3. x \in Seq(Token) /\ Len(x) = 2 /\ x[1] = Word("size", v) /\ x[2] = End
  <2>1. "size" \in Kinds
    BY DEF Kinds
  <2>2. QED
    BY <2>1, LineTokens
<1>4. e \in Seq(Token) /\ Len(e) = 1 /\ e[1] = End
  BY EndTokens
<1> HIDE DEF s, x, e
<1>5. /\ y \in Seq(Token) /\ Len(y) = 2 + v /\ y[1] = Word("size", v) /\ y[2] = End
      /\ \A i \in 1..v : y[2 + i] = Word("body", j + i)
  <2>1. /\ x \o s \in Seq(Token) /\ Len(x \o s) = Len(x) + Len(s)
        /\ \A i \in 1..Len(x) : (x \o s)[i] = x[i]
        /\ \A i \in 1..Len(s) : (x \o s)[Len(x) + i] = s[i]
    BY <1>2, <1>3, Catenated
  <2>2. 1 \in 1..2 /\ 2 \in 1..2
    OBVIOUS
  <2> HIDE DEF y
  <2>3. QED
    BY <1>2, <1>3, <2>1, <2>2 DEF y
<1> HIDE DEF y
<1>6. c \in Seq(Token) /\ Len(c) = 3 + v /\ c[3 + v] = End /\ \A i \in 1..2 + v : c[i] = y[i]
  <2>1. /\ y \o e \in Seq(Token) /\ Len(y \o e) = Len(y) + Len(e)
        /\ \A i \in 1..Len(y) : (y \o e)[i] = y[i]
        /\ \A i \in 1..Len(e) : (y \o e)[Len(y) + i] = e[i]
    BY <1>4, <1>5, Catenated
  <2>2. 1 \in 1..1 /\ 2 + v + 1 = 3 + v
    OBVIOUS
  <2> HIDE DEF c
  <2>3. (y \o e)[2 + v + 1] = End
    BY <1>4, <1>5, <2>1, <2>2
  <2>4. QED
    BY <1>4, <1>5, <2>1, <2>2, <2>3 DEF c
<1> HIDE DEF c
<1>7. ChunkAt(c, 0, j, v)
  <2>1. 0 + 1 = 1 /\ 0 + 2 = 2 /\ 0 + 3 + v = 3 + v /\ 1 \in 1..2 + v /\ 2 \in 1..2 + v
    OBVIOUS
  <2>2. \A i \in 1..v : 0 + 2 + i = 2 + i /\ 2 + i \in 1..2 + v
    OBVIOUS
  <2>3. c[1] = Word("size", v) /\ c[2] = End
    BY <1>5, <1>6, <2>1
  <2>4. \A i \in 1..v : c[0 + 2 + i] = Word("body", j + i)
    BY <1>5, <1>6, <2>2
  <2>5. QED
    BY <1>6, <2>1, <2>3, <2>4 DEF ChunkAt
<1>8. j + v - (j + 1) + 1 = v
  OBVIOUS
<1>9. QED
  BY <1>6, <1>7, <1>8 DEF c, y, x, s, e, E, Chunk

\* c is in w from the k-th token on.
Within(w, k, c) == k + Len(c) <= Len(w) /\ \A i \in 1..Len(c) : w[k + i] = c[i]

\* What is in a sequence stays where it is when more follows.
LEMMA WithinMore ==
  ASSUME NEW x \in Seq(Token), NEW r \in Seq(Token), NEW c \in Seq(Token), NEW k \in Nat, Within(x, k, c)
  PROVE  Within(x \o r, k, c)
<1>1. /\ x \o r \in Seq(Token) /\ Len(x \o r) = Len(x) + Len(r)
      /\ \A i \in 1..Len(x) : (x \o r)[i] = x[i]
  BY Catenated
<1> DEFINE w == x \o r
<1> HIDE DEF w
<1>2. Len(x) \in Nat /\ Len(r) \in Nat /\ Len(c) \in Nat
  OBVIOUS
<1>3. \A i \in 1..Len(c) : k + i \in 1..Len(x)
  BY <1>2 DEF Within
<1>4. Within(w, k, c)
  BY <1>1, <1>2, <1>3 DEF Within, w
<1>5. QED
  BY <1>4 DEF w

\* What is appended is at the end of what was there.
LEMMA WithinLast ==
  ASSUME NEW x \in Seq(Token), NEW c \in Seq(Token)
  PROVE  Within(x \o c, Len(x), c)
<1>1. /\ x \o c \in Seq(Token) /\ Len(x \o c) = Len(x) + Len(c)
      /\ \A i \in 1..Len(c) : (x \o c)[Len(x) + i] = c[i]
  BY Catenated
<1> DEFINE w == x \o c
<1> HIDE DEF w
<1>2. Within(w, Len(x), c)
  BY <1>1 DEF Within, w
<1>3. QED
  BY <1>2 DEF w

\* A chunk that is in a sequence is a chunk of it.
LEMMA ChunkWithin ==
  ASSUME NEW w \in Seq(Token), NEW c \in Seq(Token), NEW k \in Nat, Within(w, k, c),
         NEW j \in Nat, NEW v, ChunkAt(c, 0, j, v)
  PROVE  ChunkAt(w, k, j, v)
<1>1. v \in Nat \ {0} /\ 3 + v <= Len(c) /\ Len(c) \in Nat /\ Len(w) \in Nat
  BY DEF ChunkAt
<1>2. /\ 1 \in 1..Len(c) /\ 2 \in 1..Len(c) /\ 3 + v \in 1..Len(c)
      /\ 0 + 1 = 1 /\ 0 + 2 = 2 /\ 0 + 3 + v = 3 + v /\ k + 3 + v = k + (3 + v) /\ k + 3 + v <= Len(w)
      /\ \A i \in 1..v : k + 2 + i = k + (2 + i) /\ 0 + 2 + i = 2 + i /\ 2 + i \in 1..Len(c)
  BY <1>1 DEF Within
<1>3. w[k + 1] = Word("size", v) /\ w[k + 2] = End /\ w[k + 3 + v] = End
  BY <1>2 DEF ChunkAt, Within
<1>4. \A i \in 1..v : w[k + 2 + i] = Word("body", j + i)
  BY <1>2 DEF ChunkAt, Within
<1>5. QED
  BY <1>1, <1>2, <1>3, <1>4 DEF ChunkAt

\* A chunked body, cut in two anywhere, with trailers or not: where its chunks are.
LEMMA ChunksOfAll ==
  ASSUME NEW n \in Nat, NEW k \in 0..n, NEW t \in {<<>>, Line("other", 0)}
  PROVE  LET b == Chunks(Entity(n), k) \o t \o <<End>> IN \E Z : ChunksAre(b, n, Z)
<1> DEFINE E == Entity(n)
           c == IF k > 0 THEN Chunk(E, 1, k) ELSE <<>>
           d == IF k < Len(E) THEN Chunk(E, k + 1, Len(E)) ELSE <<>>
           l == Line("size", 0)  e == <<End>>
           x == c \o d  y == x \o l  z == y \o t  b == z \o e
<1>1. Len(E) = n
  BY EntityTokens
<1>2. c \in Seq(Token) /\ (k = 0 => Len(c) = 0) /\ (k # 0 => Len(c) = 3 + k /\ ChunkAt(c, 0, 0, k))
  <2>1. CASE k = 0
    BY <2>1
  <2>2. CASE k # 0
    <3> DEFINE cc == Chunk(E, 0 + 1, 0 + k)
    <3>1. k \in Nat \ {0} /\ 0 + k <= n /\ 0 \in Nat
      BY <2>2
    <3>2. cc \in Seq(Token) /\ Len(cc) = 3 + k /\ ChunkAt(cc, 0, 0, k)
      BY <3>1, ChunkTokens
    <3>3. 0 + 1 = 1 /\ 0 + k = k /\ k > 0
      BY <3>1
    <3>4. c = cc
      BY <3>3
    <3> HIDE DEF cc, c
    <3>5. QED
      BY <2>2, <3>2, <3>4
  <2>3. QED
    BY <2>1, <2>2
<1>3. d \in Seq(Token) /\ (k = n => Len(d) = 0) /\ (k # n => Len(d) = 3 + (n - k) /\ ChunkAt(d, 0, k, n - k))
  <2>1. CASE k = n
    BY <1>1, <2>1
  <2>2. CASE k # n
    <3> DEFINE dd == Chunk(E, k + 1, k + (n - k))
    <3>1. n - k \in Nat \ {0} /\ k + (n - k) <= n /\ k \in Nat
      BY <2>2
    <3>2. dd \in Seq(Token) /\ Len(dd) = 3 + (n - k) /\ ChunkAt(dd, 0, k, n - k)
      BY <3>1, ChunkTokens
    <3>3. k + (n - k) = n /\ k < n
      BY <3>1, <2>2
    <3>4. d = dd
      BY <1>1, <3>3
    <3> HIDE DEF dd, d
    <3>5. QED
      BY <2>2, <3>2, <3>4
  <2>3. QED
    BY <2>1, <2>2
<1>4. l \in Seq(Token) /\ Len(l) = 2 /\ l[1] = Word("size", 0) /\ l[2] = End
  <2>1. "size" \in Kinds
    BY DEF Kinds
  <2>2. QED
    BY <2>1, LineTokens
<1>5. e \in Seq(Token) /\ t \in Seq(Token)
  <2>1. "other" \in Kinds
    BY DEF Kinds
  <2>2. QED
    <3>1. Line("other", 0) \in Seq(Token)
      BY <2>1, LineTokens
    <3>2. t = <<>> => t \in Seq(Token)
      OBVIOUS
    <3>3. QED
      BY <3>1, <3>2, EndTokens
<1> HIDE DEF c, d, l, e, E
<1>7. x \in Seq(Token) /\ Len(x) = Len(c) + Len(d) /\ Within(x, 0, c) /\ Within(x, Len(c), d)
  <2>1. x \in Seq(Token) /\ Len(x) = Len(c) + Len(d)
    BY <1>2, <1>3, Catenated
  <2>2. Within(x, Len(c), d)
    BY <1>2, <1>3, WithinLast
  <2>3. Within(c, 0, c)
    <3>1. Len(c) \in Nat /\ 0 + Len(c) = Len(c) /\ \A i \in 1..Len(c) : 0 + i = i
      BY <1>2
    <3>2. QED
      BY <3>1 DEF Within
  <2>4. Within(x, 0, c)
    BY <1>2, <1>3, <2>3, WithinMore
  <2>5. QED
    BY <2>1, <2>2, <2>4
<1> HIDE DEF x
<1>8. y \in Seq(Token) /\ Within(y, 0, c) /\ Within(y, Len(c), d) /\ Within(y, Len(x), l)
  <2>1. y \in Seq(Token)
    BY <1>7, <1>4, Catenated
  <2>2. Len(c) \in Nat
    BY <1>2
  <2>3. QED
    BY <1>2, <1>3, <1>4, <1>7, <2>1, <2>2, WithinLast, WithinMore
<1> HIDE DEF y
<1>9. z \in Seq(Token) /\ Within(z, 0, c) /\ Within(z, Len(c), d) /\ Within(z, Len(x), l)
  <2>1. z \in Seq(Token)
    BY <1>8, <1>5, Catenated
  <2>2. Len(c) \in Nat /\ Len(x) \in Nat
    BY <1>2, <1>7
  <2>3. QED
    BY <1>2, <1>3, <1>4, <1>5, <1>8, <2>1, <2>2, WithinMore
<1> HIDE DEF z
<1>10. b \in Seq(Token) /\ Within(b, 0, c) /\ Within(b, Len(c), d) /\ Within(b, Len(x), l)
  <2>1. b \in Seq(Token)
    BY <1>9, <1>5, Catenated
  <2>2. Len(c) \in Nat /\ Len(x) \in Nat
    BY <1>2, <1>7
  <2>3. QED
    BY <1>2, <1>3, <1>4, <1>5, <1>9, <2>1, <2>2, WithinMore
<1> HIDE DEF b
<1> DEFINE p == Len(c)  q == Len(x)  Z == {<<0, 0>>, <<p, k>>, <<q, n>>}
<1>11. p \in Nat /\ q \in Nat /\ q = p + Len(d) /\ Len(d) \in Nat
  BY <1>2, <1>3, <1>7
<1>12. LastAt(b, q)
  <2>1. 1 \in 1..2 /\ 2 \in 1..2
    OBVIOUS
  <2>2. QED
    BY <1>4, <1>10, <2>1 DEF Within, LastAt
<1>13. k # 0 => ChunkAt(b, 0, 0, k) /\ 0 + 3 + k = p /\ 0 + k = k
  BY <1>2, <1>10, ChunkWithin
<1>14. k # n => ChunkAt(b, p, k, n - k) /\ p + 3 + (n - k) = q /\ k + (n - k) = n
  <2>1. k # n => p + 3 + (n - k) = q /\ k + (n - k) = n
    BY <1>3, <1>11
  <2>2. k # n => ChunkAt(b, p, k, n - k)
    BY <1>3, <1>10, <1>11, ChunkWithin
  <2>3. QED
    BY <2>1, <2>2
<1>15. (k = 0 => p = 0) /\ (k = n => q = p)
  BY <1>2, <1>3, <1>11
<1> HIDE DEF p, q
<1>16. ChunksAre(b, n, Z)
  <2>1. Z \subseteq Nat \X (0..n) /\ <<0, 0>> \in Z /\ <<p, k>> \in Z /\ <<q, n>> \in Z
    BY <1>11
  <2>2. ASSUME NEW r, NEW j, <<r, j>> \in Z
        PROVE  \/ LastAt(b, r) /\ j = n
               \/ \E v : ChunkAt(b, r, j, v) /\ <<r + 3 + v, j + v>> \in Z
    <3>1. CASE r = q /\ j = n
      BY <1>12, <3>1
    <3>2. CASE r = p /\ j = k
      <4>1. CASE k = n
        BY <1>12, <1>15, <3>2, <4>1
      <4>2. CASE k # n
        BY <1>14, <2>1, <3>2, <4>2
      <4>3. QED
        BY <4>1, <4>2
    <3>3. CASE r = 0 /\ j = 0
      <4>1. CASE k = 0
        BY <1>15, <3>2, <3>3, <4>1
      <4>2. CASE k # 0
        BY <1>13, <2>1, <3>3, <4>2
      <4>3. QED
        BY <4>1, <4>2
    <3>4. QED
      BY <2>2, <3>1, <3>2, <3>3
  <2>3. QED
    BY <1>10, <2>1, <2>2 DEF ChunksAre
<1>17. \E W : ChunksAre(b, n, W)
  BY <1>16
<1>18. QED
  BY <1>17 DEF b, z, y, x, c, d, l, e, E, Chunks

\* What the server means to say.
AnswerIs(a, h, b, Z) ==
  /\ a.n \in Nat /\ WireIs(a.wire, h, b) /\ HeadersAre(h, a.framing, a.n)
  /\ a.framing # "chunked" => b = Entity(a.n)
  /\ a.framing = "chunked" => ChunksAre(b, a.n, Z)

\* Every answer of the server is status, headers and body (Answers).
LEMMA AnswersAre == \A a \in Answers : \E h, b, Z : AnswerIs(a, h, b, Z)
<1> DEFINE A(n, f, heads, body) == [n |-> n, framing |-> f, wire |-> Line("status", 200) \o heads \o <<End>> \o body]
           long == [i \in 1..HcRoom + 1 |-> Word("other", 0)] \o <<End>>
           cl(n) == Line("length", n)
           te == Line("chunked", 0)
<1>1. SUFFICES ASSUME NEW a \in Answers PROVE \E h, b, Z : AnswerIs(a, h, b, Z)
  OBVIOUS
<1>2. \E n \in 0..HcEntity :
        \/ a = A(n, "length", cl(n), Entity(n))
        \/ a = A(n, "length", long \o cl(n), Entity(n))
        \/ a = A(n, "eof", Line("other", 0), Entity(n))
        \/ \E h \in {te, te \o cl(1), cl(1) \o te}, k \in 0..n, t \in {<<>>, Line("other", 0)} :
             a = A(n, "chunked", h, Chunks(Entity(n), k) \o t \o <<End>>)
  <2> DEFINE F(n) == {A(n, "length", cl(n), Entity(n)), A(n, "length", long \o cl(n), Entity(n)),
                      A(n, "eof", Line("other", 0), Entity(n))} \cup
                     {A(n, "chunked", h, Chunks(Entity(n), k) \o t \o <<End>>) :
                        h \in {te, te \o cl(1), cl(1) \o te}, k \in 0..n, t \in {<<>>, Line("other", 0)}}
  <2>1. Answers = UNION {F(n) : n \in 0..HcEntity}
    BY SMTT(40) DEF Answers
  <2> HIDE DEF F
  <2>2. PICK n \in 0..HcEntity : a \in F(n)
    BY <1>1, <2>1
  <2> HIDE DEF A, te, cl, long
  <2>3. QED
    BY <2>2 DEF F
<1>3. PICK n \in 0..HcEntity :
        \/ a = A(n, "length", cl(n), Entity(n))
        \/ a = A(n, "length", long \o cl(n), Entity(n))
        \/ a = A(n, "eof", Line("other", 0), Entity(n))
        \/ \E h \in {te, te \o cl(1), cl(1) \o te}, k \in 0..n, t \in {<<>>, Line("other", 0)} :
             a = A(n, "chunked", h, Chunks(Entity(n), k) \o t \o <<End>>)
  BY <1>2, Zenon
<1>4. n \in Nat
  BY HcAssumption
<1>5. Entity(n) \in Seq(Token)
  BY <1>4, EntityTokens
<1>6. ASSUME NEW f, NEW h \in Seq(Token), NEW b \in Seq(Token)
      PROVE  A(n, f, h, b).n = n /\ A(n, f, h, b).framing = f /\ WireIs(A(n, f, h, b).wire, h, b)
  <2>1. WireIs(Line("status", 200) \o h \o <<End>> \o b, h, b)
    BY WiresAre
  <2> DEFINE w == Line("status", 200) \o h \o <<End>> \o b
  <2> HIDE DEF w
  <2>2. A(n, f, h, b) = [n |-> n, framing |-> f, wire |-> w]
    BY DEF w
  <2> HIDE DEF A
  <2>3. QED
    BY <2>1, <2>2 DEF w
<1>7. ASSUME NEW f \in {"length", "eof"}, NEW h, HeadersAre(h, f, n), a = A(n, f, h, Entity(n))
      PROVE  \E b, Z : AnswerIs(a, h, b, Z)
  <2>1. h \in Seq(Token)
    BY <1>7 DEF HeadersAre
  <2>2. a.n = n /\ a.framing = f /\ WireIs(a.wire, h, Entity(n))
    <3> HIDE DEF A
    <3>1. QED
      BY <1>5, <1>6, <1>7, <2>1
  <2>3. AnswerIs(a, h, Entity(n), {})
    BY <1>4, <1>7, <2>2 DEF AnswerIs
  <2>4. QED
    BY <2>3
<1>8. CASE a = A(n, "length", cl(n), Entity(n))
  <2>1. HeadersAre(cl(n), "length", n)
    BY <1>4, OneHeader
  <2> HIDE DEF A, cl
  <2>2. QED
    BY <1>7, <1>8, <2>1
<1>9. CASE a = A(n, "length", long \o cl(n), Entity(n))
  <2>1. HeadersAre(long \o cl(n), "length", n)
    BY <1>4, LongHeader
  <2> HIDE DEF A, cl, long
  <2>2. QED
    BY <1>7, <1>9, <2>1
<1>10. CASE a = A(n, "eof", Line("other", 0), Entity(n))
  <2>1. HeadersAre(Line("other", 0), "eof", n)
    BY <1>4, OneHeader
  <2> HIDE DEF A
  <2>2. QED
    BY <1>7, <1>10, <2>1
<1>11. ASSUME NEW h \in {te, te \o cl(1), cl(1) \o te}, NEW k \in 0..n, NEW t \in {<<>>, Line("other", 0)},
              a = A(n, "chunked", h, Chunks(Entity(n), k) \o t \o <<End>>)
       PROVE  \E b, Z : AnswerIs(a, h, b, Z)
  <2>1. HeadersAre(te, "chunked", n)
    BY <1>4, OneHeader
  <2>2. HeadersAre(te \o cl(1), "chunked", n)
    BY <1>4, TwoHeaders
  <2>3. HeadersAre(cl(1) \o te, "chunked", n)
    BY <1>4, TwoHeaders
  <2> DEFINE b == Chunks(Entity(n), k) \o t \o <<End>>
  <2>4. PICK Z : ChunksAre(b, n, Z)
    BY <1>4, ChunksOfAll
  <2> HIDE DEF A, te, cl, b
  <2>5. HeadersAre(h, "chunked", n)
    BY <2>1, <2>2, <2>3
  <2>6. h \in Seq(Token) /\ b \in Seq(Token)
    BY <2>4, <2>5 DEF HeadersAre, ChunksAre
  <2>7. a = A(n, "chunked", h, b)
    BY <1>11 DEF b
  <2>8. a.n = n /\ a.framing = "chunked" /\ WireIs(a.wire, h, b)
    BY <1>6, <2>6, <2>7
  <2>9. AnswerIs(a, h, b, Z)
    BY <1>4, <2>4, <2>5, <2>8 DEF AnswerIs
  <2>10. QED
    BY <2>9
<1>12. QED
  <2> HIDE DEF A, te, cl, long
  <2>1. QED
    BY <1>3, <1>8, <1>9, <1>10, <1>11

-----------------------------------------------------------------------------
(* The call: where it is in what the server said.                             *)

\* Of the first p tokens of w the call knows; the next are in the buffer and then on
\* the wire, as far as the peer went on.
Stream(w, p) ==
  /\ hcBuf \in Seq(Token) /\ hcWire \in Seq(Token)
  /\ hcPos \in 0..Len(hcBuf) /\ Len(hcBuf) <= HcRoom
  /\ p \in Nat /\ p + (Len(hcBuf) - hcPos) + Len(hcWire) <= Len(w)
  /\ \A i \in 1..Len(hcBuf) - hcPos : hcBuf[hcPos + i] = w[p + i]
  /\ \A i \in 1..Len(hcWire) : hcWire[i] = w[p + (Len(hcBuf) - hcPos) + i]

\* What is ahead in the buffer.
LEMMA AheadIs ==
  ASSUME NEW w \in Seq(Token), NEW p, Stream(w, p)
  PROVE  /\ Ahead \in Seq(Token) /\ Len(Ahead) = Len(hcBuf) - hcPos /\ Len(Ahead) \in 0..HcRoom
         /\ \A i \in 1..Len(Ahead) : Ahead[i] = w[p + i]
         /\ p + Len(Ahead) <= Len(w)
<1>1. hcBuf \in Seq(Token) /\ hcPos \in 0..Len(hcBuf) /\ Len(hcBuf) \in Nat /\ Len(hcWire) \in Nat
  BY DEF Stream
<1>2. Ahead \in Seq(Token) /\ Len(Ahead) = Len(hcBuf) - hcPos
  BY <1>1 DEF Ahead
<1>3. \A i \in 1..Len(hcBuf) - hcPos : Ahead[i] = hcBuf[hcPos + i]
  <2> SUFFICES ASSUME NEW i \in 1..Len(hcBuf) - hcPos PROVE Ahead[i] = hcBuf[hcPos + i]
    OBVIOUS
  <2>1. Ahead[i] = hcBuf[hcPos + 1 + i - 1] /\ hcPos + 1 + i - 1 = hcPos + i
    BY <1>1 DEF Ahead
  <2>2. QED
    BY <2>1
<1>4. QED
  BY <1>1, <1>2, <1>3, HcAssumption DEF Stream

\* What is consumed was the next of the stream.
LEMMA ConsumeMoves ==
  ASSUME NEW w \in Seq(Token), NEW p, Stream(w, p), NEW k \in 0..Len(Ahead), Consume(k)
  PROVE  Stream(w, p + k)'
<1>1. /\ hcBuf \in Seq(Token) /\ hcPos \in 0..Len(hcBuf) /\ Len(hcBuf) \in Nat /\ Len(hcWire) \in Nat /\ p \in Nat
      /\ k \in 0..Len(hcBuf) - hcPos
  <2>1. Len(Ahead) = Len(hcBuf) - hcPos
    BY AheadIs
  <2>2. hcBuf \in Seq(Token) /\ hcWire \in Seq(Token) /\ hcPos \in 0..Len(hcBuf) /\ p \in Nat
    BY DEF Stream
  <2>3. QED
    BY <2>1, <2>2
<1>2. hcPos' = hcPos + k /\ hcBuf' = hcBuf /\ hcWire' = hcWire
  BY DEF Consume
<1>3. /\ hcPos + k \in 0..Len(hcBuf) /\ p + k \in Nat
      /\ p + k + (Len(hcBuf) - (hcPos + k)) = p + (Len(hcBuf) - hcPos)
  BY <1>1
<1>4. ASSUME NEW i \in 1..Len(hcBuf) - (hcPos + k) PROVE hcBuf[hcPos + k + i] = w[p + k + i]
  <2>1. k + i \in 1..Len(hcBuf) - hcPos /\ hcPos + (k + i) = hcPos + k + i /\ p + (k + i) = p + k + i
    BY <1>1
  <2>2. QED
    BY <2>1 DEF Stream
<1>5. p + k + (Len(hcBuf) - (hcPos + k)) + Len(hcWire) <= Len(w)
  BY <1>3 DEF Stream
<1>6. \A i \in 1..Len(hcWire) : hcWire[i] = w[p + k + (Len(hcBuf) - (hcPos + k)) + i]
  BY <1>3 DEF Stream
<1>7. QED
  BY <1>2, <1>3, <1>4, <1>5, <1>6 DEF Stream

\* A read moves the stream on and loses nothing.
LEMMA FillsKeep ==
  ASSUME NEW w \in Seq(Token), NEW p, Stream(w, p), HcFills
  PROVE  Stream(w, p)'
<1>1. /\ hcBuf \in Seq(Token) /\ hcWire \in Seq(Token) /\ hcPos \in 0..Len(hcBuf)
      /\ Len(hcBuf) \in Nat /\ Len(hcWire) \in Nat /\ p \in Nat /\ HcRoom \in Nat
  BY HcAssumption DEF Stream
<1>2. Kept \in Seq(Token) /\ \/ Kept = hcBuf
                             \/ Kept = Ahead
  <2>1. hcPos = Len(hcBuf) => Ahead = <<>>
    BY <1>1 DEF Ahead
  <2>2. QED
    BY <1>1, <2>1, AheadIs DEF Kept
<1>3. PICK m \in 1..Len(hcWire) :
         /\ m <= HcRoom - Len(Kept)
         /\ hcBuf' = Kept \o SubSeq(hcWire, 1, m)
         /\ hcWire' = SubSeq(hcWire, m + 1, Len(hcWire))
  BY DEF HcFills
<1> DEFINE s == SubSeq(hcWire, 1, m)  a == Len(hcBuf) - hcPos
<1>4. s \in Seq(Token) /\ Len(s) = m /\ \A i \in 1..m : s[i] = hcWire[i]
  BY <1>1, <1>3
<1>5. hcWire' \in Seq(Token) /\ Len(hcWire') = Len(hcWire) - m /\ \A i \in 1..Len(hcWire) - m : hcWire'[i] = hcWire[m + i]
  <2>1. hcWire' \in Seq(Token) /\ Len(hcWire') = Len(hcWire) - m
        /\ \A i \in 1..Len(hcWire) - m : hcWire'[i] = hcWire[m + 1 + i - 1]
    BY <1>1, <1>3
  <2>2. \A i \in 1..Len(hcWire) - m : m + 1 + i - 1 = m + i
    BY <1>1, <1>3
  <2>3. QED
    BY <2>1, <2>2
<1> HIDE DEF s
<1>6. /\ hcBuf' \in Seq(Token) /\ Len(hcBuf') = Len(Kept) + m
      /\ \A i \in 1..Len(Kept) : hcBuf'[i] = Kept[i]
      /\ \A i \in 1..m : hcBuf'[Len(Kept) + i] = s[i]
  <2>1. hcBuf' = Kept \o s
    BY <1>3 DEF s
  <2>2. QED
    BY <1>2, <1>4, <2>1, Catenated
<1>7. Len(Kept) \in Nat /\ Len(hcBuf') <= HcRoom
  BY <1>1, <1>2, <1>3, <1>6
\* The tokens ahead, and those read behind them.
<1>8. /\ hcPos' \in 0..Len(Kept) /\ Len(Kept) - hcPos' = a
      /\ \A i \in 1..a : Kept[hcPos' + i] = w[p + i]
  <2>1. CASE Kept = hcBuf
    <3>1. hcPos' = hcPos
      BY <2>1 DEF HcFills
    <3>2. QED
      BY <1>1, <2>1, <3>1 DEF Stream
  <2>2. CASE Kept # hcBuf
    <3>1. hcPos' = 0 /\ Kept = Ahead
      BY <1>2, <2>2 DEF HcFills
    <3>2. Len(Kept) = a /\ \A i \in 1..a : Kept[i] = w[p + i]
      BY <3>1, AheadIs
    <3>3. \A i \in 1..a : 0 + i = i
      BY <1>1
    <3>4. QED
      BY <1>1, <3>1, <3>2, <3>3
  <2>3. QED
    BY <2>1, <2>2
<1>9. \A i \in 1..Len(hcWire) : hcWire[i] = w[p + a + i]
  BY DEF Stream
<1>10. p + a + Len(hcWire) <= Len(w) /\ a \in Nat
  BY <1>1 DEF Stream
<1> HIDE DEF a
<1>15. PICK u \in Nat : u = Len(Kept)
  BY <1>7
<1>18. PICK d \in 0..u : d = hcPos'
  BY <1>8, <1>15
<1>19. PICK g \in Nat : g = a
  BY <1>10
<1>20. PICK l \in Nat : l = Len(hcWire)
  BY <1>1
<1>21. u - d = g
  BY <1>8, <1>15, <1>18, <1>19
<1>22. u = d + g /\ d \in Nat
  BY <1>21
<1>16. m \in Nat /\ m <= l /\ Len(hcBuf') = u + m /\ Len(hcWire') = l - m
  BY <1>3, <1>5, <1>6, <1>15, <1>20
<1>11. Len(hcBuf') - hcPos' = a + m
  <2>1. u + m - d = g + m
    BY <1>16, <1>22
  <2>2. Len(hcBuf') - hcPos' = u + m - d
    BY <1>16, <1>18
  <2>3. a + m = g + m
    BY <1>19
  <2>4. QED
    BY <2>1, <2>2, <2>3
<1>12. ASSUME NEW i \in 1..a + m PROVE hcBuf'[hcPos' + i] = w[p + i]
  <2>1. CASE i \in 1..a
    <3>1. hcPos' + i \in 1..Len(Kept)
      <4>1. i \in 1..g
        BY <1>19, <2>1
      <4>2. d + i \in 1..u
        BY <1>22, <4>1
      <4>3. QED
        BY <1>15, <1>18, <4>2
    <3>2. QED
      BY <1>6, <1>8, <2>1, <3>1
  <2>2. CASE i \notin 1..a
    <3>1. PICK r \in 1..m : i = a + r
      <4>1. i - a \in 1..m /\ i = a + (i - a)
        BY <1>3, <1>10, <2>2
      <4>2. QED
        BY <4>1
    <3>2. hcPos' + i = Len(Kept) + r /\ p + i = p + a + r /\ r \in 1..Len(hcWire)
      <4>1. d + (g + r) = u + r /\ p + (g + r) = p + g + r /\ r \in 1..l
        BY <1>1, <1>16, <1>22
      <4>2. QED
        BY <1>15, <1>18, <1>19, <1>20, <3>1, <4>1
    <3>3. QED
      BY <1>4, <1>6, <1>9, <3>1, <3>2
  <2>3. QED
    BY <2>1, <2>2
<1>13. ASSUME NEW i \in 1..Len(hcWire') PROVE hcWire'[i] = w[p + (a + m) + i]
  <2>1. m + i \in 1..Len(hcWire) /\ p + a + (m + i) = p + (a + m) + i
    BY <1>1, <1>3, <1>5, <1>10
  <2>2. QED
    BY <1>5, <1>9, <2>1
<1>14. p + (a + m) + Len(hcWire') <= Len(w) /\ hcPos' \in 0..Len(hcBuf')
  <2>1. p + (g + m) + (l - m) <= Len(w)
    <3>1. p + g + l <= Len(w) /\ Len(w) \in Nat
      BY <1>10, <1>19, <1>20
    <3>2. QED
      BY <1>1, <1>16, <3>1
  <2>2. d \in 0..u + m
    BY <1>16, <1>22
  <2>3. QED
    BY <1>16, <1>18, <1>19, <1>20, <2>1, <2>2
<1>17. QED
  BY <1>1, <1>5, <1>6, <1>7, <1>11, <1>12, <1>13, <1>14 DEF Stream

\* A set of naturals that is not empty has a least element.
LEMMA LeastIn == ASSUME NEW S \in SUBSET Nat, S # {} PROVE \E n \in S : \A m \in S : n <= m
<1> DEFINE R == {ss \in Nat \X Nat : ss[1] < ss[2]}
<1>1. IsWellFoundedOn(R, Nat)
  BY NatLessThanWellFounded DEF OpToRel
<1>2. \E n \in S : \A m \in S : <<m, n>> \notin R
  <2> HIDE DEF R
  <2> QED
    BY <1>1, WFMin
<1>3. \A n, m \in S : <<m, n>> \notin R => n <= m
  OBVIOUS
<1>4. QED
  BY <1>2, <1>3

\* A line goes to the first end of a line.
LEMMA LineStops ==
  ASSUME NEW w \in Seq(Token), NEW p, Stream(w, p), HasLine
  PROVE  /\ LineLen \in 1..Len(Ahead) /\ LineLen <= HcRoom
         /\ w[p + LineLen] = End /\ \A i \in 1..LineLen - 1 : w[p + i] # End
         /\ LineIs = IF LineLen = 1 THEN Word("blank", 0) ELSE w[p + 1]
         /\ p + LineLen <= Len(w)
<1>1. /\ DOMAIN Ahead = 1..Len(Ahead) /\ Len(Ahead) \in 0..HcRoom /\ HcRoom \in Nat
      /\ \A i \in 1..Len(Ahead) : Ahead[i] = w[p + i]
      /\ p + Len(Ahead) <= Len(w) /\ p \in Nat /\ Len(w) \in Nat
  <2>1. Ahead \in Seq(Token)
    BY AheadIs
  <2>2. DOMAIN Ahead = 1..Len(Ahead)
    BY <2>1
  <2>3. p \in Nat /\ HcRoom \in Nat /\ Len(w) \in Nat
    BY HcAssumption DEF Stream
  <2>4. QED
    BY <2>2, <2>3, AheadIs
<1> DEFINE S == {i \in 1..Len(Ahead) : Ahead[i] = End}
<1>2. PICK l \in S : \A m \in S : l <= m
  <2>1. S \in SUBSET Nat /\ S # {}
    BY <1>1 DEF HasLine
  <2> HIDE DEF S
  <2>2. QED
    BY <2>1, LeastIn
<1>3. \E i \in DOMAIN Ahead : Ahead[i] = End /\ \A j \in 1..i - 1 : Ahead[j] # End
  <2>1. l \in DOMAIN Ahead /\ Ahead[l] = End
    BY <1>1
  <2>2. ASSUME NEW j \in 1..l - 1 PROVE Ahead[j] # End
    <3>1. j \in 1..Len(Ahead) /\ ~(l <= j)
      BY <1>1
    <3>2. QED
      BY <1>2, <3>1
  <2>3. QED
    BY <2>1, <2>2
<1>4. LineLen \in DOMAIN Ahead /\ Ahead[LineLen] = End /\ \A j \in 1..LineLen - 1 : Ahead[j] # End
  BY <1>3 DEF LineLen
<1>5. \A j \in 1..LineLen - 1 : j \in 1..Len(Ahead)
  BY <1>1, <1>4
<1>6. 1 \in 1..Len(Ahead)
  BY <1>1, <1>4
<1>7. LineLen <= HcRoom /\ p + LineLen <= Len(w)
  BY <1>1, <1>4
<1>8. LineIs = IF LineLen = 1 THEN Word("blank", 0) ELSE w[p + 1]
  BY <1>1, <1>6 DEF LineIs
<1>9. QED
  BY <1>1, <1>4, <1>5, <1>7, <1>8

\* The blank line.
LEMMA ShortLine ==
  ASSUME NEW w \in Seq(Token), NEW p, Stream(w, p), HasLine, w[p + 1] = End
  PROVE  LineLen = 1 /\ LineIs = Word("blank", 0)
<1>1. /\ LineLen \in 1..Len(Ahead) /\ (\A i \in 1..LineLen - 1 : w[p + i] # End)
      /\ LineIs = IF LineLen = 1 THEN Word("blank", 0) ELSE w[p + 1]
  BY LineStops
<1>2. Len(Ahead) \in Nat
  BY AheadIs, HcAssumption
<1>3. LineLen # 1 => 1 \in 1..LineLen - 1
  BY <1>1, <1>2
<1>4. QED
  BY <1>1, <1>3

\* A line of one word.
LEMMA WordLine ==
  ASSUME NEW w \in Seq(Token), NEW p, Stream(w, p), HasLine, w[p + 1] # End, w[p + 2] = End
  PROVE  LineLen = 2 /\ LineIs = w[p + 1]
<1>1. /\ LineLen \in 1..Len(Ahead) /\ w[p + LineLen] = End /\ (\A i \in 1..LineLen - 1 : w[p + i] # End)
      /\ LineIs = IF LineLen = 1 THEN Word("blank", 0) ELSE w[p + 1]
  BY LineStops
<1>2. Len(Ahead) \in Nat
  BY AheadIs, HcAssumption
<1>3. LineLen \notin {1, 2} => 2 \in 1..LineLen - 1
  BY <1>1, <1>2
<1>4. LineLen # 1
  BY <1>1
<1>5. QED
  BY <1>1, <1>3, <1>4

\* What the first i tokens of the headers said.
Heads(h, i, n) ==
  /\ hcHeads \in [len : Int, have : BOOLEAN, chunked : BOOLEAN]
  /\ hcHeads.have <=> \E k \in 1..i : h[k].t = "length"
  /\ hcHeads.chunked <=> \E k \in 1..i : h[k].t = "chunked"
  /\ hcHeads.have /\ (\A k \in 1..Len(h) : h[k].t = "length" => h[k].v = n) => hcHeads.len = n

\* The callback has the entity's beginning.
Given(n) ==
  /\ hcPushed \in Seq(Token) /\ Len(hcPushed) <= n
  /\ \A i \in 1..Len(hcPushed) : hcPushed[i] = Word("body", i)

BodyFrom(h) == 3 + Len(h)
AtHeaders(a, h) ==
  /\ hcPushed = <<>>
  /\ \E i \in 0..Len(h) : (i = 0 \/ h[i] = End) /\ Stream(a.wire, 2 + i) /\ Heads(h, i, a.n)
AtLength(a, h) ==
  /\ a.framing = "length" /\ hcLeft = a.n - Len(hcPushed) /\ Stream(a.wire, BodyFrom(h) + Len(hcPushed))
AtSize(a, h, Z) ==
  /\ a.framing = "chunked"
  /\ \E q : <<q, Len(hcPushed)>> \in Z /\ Stream(a.wire, BodyFrom(h) + q)
InChunk(a, h, b, Z) ==
  /\ a.framing = "chunked"
  /\ \E q, j, v, d :
       /\ <<q, j>> \in Z /\ ChunkAt(b, q, j, v) /\ <<q + 3 + v, j + v>> \in Z /\ d \in 0..v
       /\ Len(hcPushed) = j + d /\ hcLeft = v - d /\ Stream(a.wire, BodyFrom(h) + (q + 2 + d))

\* Where the call is, and what it has come through.
CallIs(a, h, b, Z) ==
  /\ hcAnswer = a /\ Given(a.n)
  /\ hcStatus \in {-1, 200} /\ (hcStatus = 200 => hcPc = "done" /\ hcUp.left = 0)
  /\ hcPc \notin {"dial", "send", "done"} => hcUp.left = 0
  /\ hcPc \in {"dial", "send", "status"} => hcPushed = <<>> /\ Heads(h, 0, a.n)
  /\ hcPc = "status" => Stream(a.wire, 0)
  /\ hcPc = "headers" => AtHeaders(a, h)
  /\ hcPc = "length" => AtLength(a, h)
  /\ hcPc = "toEof" => a.framing = "eof" /\ Stream(a.wire, BodyFrom(h) + Len(hcPushed))
  /\ hcPc = "size" => AtSize(a, h, Z)
  /\ hcPc \in {"chunk", "chunkEnd"} => InChunk(a, h, b, Z)
  /\ hcPc = "chunkEnd" => hcLeft = 0
  /\ hcPc = "trailers" => a.framing = "chunked" /\ Len(hcPushed) = a.n
  /\ hcStatus = 200 /\ a.framing # "eof" => Len(hcPushed) = a.n

HcIInv == \E a, h, b, Z : AnswerIs(a, h, b, Z) /\ CallIs(a, h, b, Z)

\* What AnswerIs says, token by token.
LEMMA AnswerTokens ==
  ASSUME NEW a, NEW h, NEW b, NEW Z, AnswerIs(a, h, b, Z)
  PROVE  /\ a.n \in Nat /\ a.wire \in Seq(Token) /\ h \in Seq(Token) /\ b \in Seq(Token)
         /\ Len(h) \in Nat /\ Len(b) \in Nat /\ BodyFrom(h) = 3 + Len(h)
         /\ Len(a.wire) = BodyFrom(h) + Len(b)
         /\ a.wire[1] = Word("status", 200) /\ a.wire[2] = End /\ a.wire[3 + Len(h)] = End
         /\ \A i \in 1..Len(h) : a.wire[2 + i] = h[i]
         /\ \A i \in 1..Len(b) : a.wire[BodyFrom(h) + i] = b[i]
         /\ a.framing # "chunked" => Len(b) = a.n /\ \A i \in 1..a.n : b[i] = Word("body", i)
<1>1. a.n \in Nat /\ WireIs(a.wire, h, b) /\ BodyFrom(h) = 3 + Len(h)
  BY DEF AnswerIs, BodyFrom
<1>2. h \in Seq(Token) /\ b \in Seq(Token)
  BY <1>1 DEF WireIs
<1>3. Len(h) \in Nat /\ Len(b) \in Nat
  BY <1>2
<1>4. a.framing # "chunked" => Len(b) = a.n /\ \A i \in 1..a.n : b[i] = Word("body", i)
  BY <1>1, EntityTokens DEF AnswerIs
<1>5. QED
  BY <1>1, <1>2, <1>3, <1>4 DEF WireIs

\* The call has not begun.
LEMMA HcInitIInv == HcInit => HcIInv
<1> SUFFICES ASSUME HcInit PROVE HcIInv
  OBVIOUS
<1>1. PICK h, b, Z : AnswerIs(hcAnswer, h, b, Z)
  BY AnswersAre DEF HcInit
<1>2. hcPushed = <<>> /\ hcPc = "dial" /\ hcStatus = -1 /\ hcHeads = [len |-> 0, have |-> FALSE, chunked |-> FALSE]
  BY DEF HcInit
<1>3. Heads(h, 0, hcAnswer.n)
  BY <1>2 DEF Heads
<1>4. Given(hcAnswer.n)
  BY <1>1, <1>2, AnswerTokens DEF Given
<1>5. CallIs(hcAnswer, h, b, Z)
  BY <1>2, <1>3, <1>4 DEF CallIs
<1>6. QED
  BY <1>1, <1>5 DEF HcIInv

\* A header line is taken for what it says.
LEMMA HeadsMove ==
  ASSUME NEW h \in Seq(Token), NEW i \in 0..Len(h), i + 2 <= Len(h), NEW n, Heads(h, i, n), h[i + 2] = End,
         \/ h[i + 1].t = "length" /\ hcHeads' = [hcHeads EXCEPT !.len = h[i + 1].v, !.have = TRUE]
         \/ h[i + 1].t = "chunked" /\ hcHeads' = [hcHeads EXCEPT !.chunked = TRUE]
         \/ h[i + 1].t = "other" /\ hcHeads' = hcHeads
  PROVE  Heads(h, i + 2, n)'
<1>1. Len(h) \in Nat /\ i \in Nat /\ i + 1 \in 1..Len(h) /\ h[i + 1] \in Token /\ h[i + 2].t = "end" /\ h[i + 1].v \in Int
  <2>1. Len(h) \in Nat /\ i \in Nat /\ i + 1 \in 1..Len(h)
    OBVIOUS
  <2>2. h[i + 1] \in Token
    BY <2>1
  <2>3. QED
    BY <2>1, <2>2, EndIs DEF Token
<1>2. ASSUME NEW x \in {"length", "chunked"}
      PROVE  (\E k \in 1..i + 2 : h[k].t = x) <=> (\E k \in 1..i : h[k].t = x) \/ h[i + 1].t = x
  <2>1. \A k \in 1..i + 2 : k \in 1..i \/ k = i + 1 \/ k = i + 2
    BY <1>1
  <2>2. 1..i \subseteq 1..i + 2 /\ i + 1 \in 1..i + 2
    BY <1>1
  <2>3. h[i + 2].t # x
    BY <1>1
  <2>4. QED
    BY <2>1, <2>2, <2>3
<1>3. CASE h[i + 1].t = "length" /\ hcHeads' = [hcHeads EXCEPT !.len = h[i + 1].v, !.have = TRUE]
  <2>1. /\ hcHeads' \in [len : Int, have : BOOLEAN, chunked : BOOLEAN]
        /\ hcHeads'.have = TRUE /\ hcHeads'.chunked = hcHeads.chunked /\ hcHeads'.len = h[i + 1].v
    BY <1>1, <1>3 DEF Heads
  <2>2. QED
    BY <1>1, <1>2, <1>3, <2>1 DEF Heads
<1>4. CASE h[i + 1].t = "chunked" /\ hcHeads' = [hcHeads EXCEPT !.chunked = TRUE]
  <2>1. /\ hcHeads' \in [len : Int, have : BOOLEAN, chunked : BOOLEAN]
        /\ hcHeads'.have = hcHeads.have /\ hcHeads'.chunked = TRUE /\ hcHeads'.len = hcHeads.len
    BY <1>4 DEF Heads
  <2>2. QED
    BY <1>1, <1>2, <1>4, <2>1 DEF Heads
<1>5. CASE h[i + 1].t = "other" /\ hcHeads' = hcHeads
  BY <1>1, <1>2, <1>5 DEF Heads
<1>6. QED
  BY <1>3, <1>4, <1>5

\* What the callback is given goes on from what it had.
LEMMA GivenMore ==
  ASSUME NEW n \in Nat, Given(n), NEW s \in Seq(Token), Len(hcPushed) + Len(s) <= n,
         \A i \in 1..Len(s) : s[i] = Word("body", Len(hcPushed) + i), hcPushed' = hcPushed \o s
  PROVE  Given(n)' /\ Len(hcPushed') = Len(hcPushed) + Len(s)
<1>1. /\ hcPushed' \in Seq(Token) /\ Len(hcPushed') = Len(hcPushed) + Len(s)
      /\ \A i \in 1..Len(hcPushed) : hcPushed'[i] = hcPushed[i]
      /\ \A i \in 1..Len(s) : hcPushed'[Len(hcPushed) + i] = s[i]
  BY Catenated DEF Given
<1>2. PICK j \in Nat : j = Len(hcPushed)
  BY DEF Given
<1>3. PICK k \in Nat : k = Len(s)
  OBVIOUS
<1>4. ASSUME NEW i \in 1..j + k PROVE hcPushed'[i] = Word("body", i)
  <2>1. CASE i \in 1..j
    BY <1>1, <1>2, <2>1 DEF Given
  <2>2. CASE i \notin 1..j
    <3>1. i - j \in 1..k /\ i = j + (i - j)
      BY <2>2
    <3>2. QED
      BY <1>1, <1>2, <1>3, <3>1
  <2>3. QED
    BY <2>1, <2>2
<1>5. QED
  BY <1>1, <1>2, <1>3, <1>4 DEF Given

-----------------------------------------------------------------------------
(* The call: its steps.                                                       *)

\* The request: dial, head and slices; then the answer is the whole stream or its beginning.
LEMMA RequestKeeps ==
  ASSUME NEW a, NEW h, NEW b, NEW Z, AnswerIs(a, h, b, Z), CallIs(a, h, b, Z), HcDials \/ HcSlice \/ HcAnswers
  PROVE  CallIs(a, h, b, Z)'
<1>1. CASE HcDials
  <2>1. /\ hcPc = "dial" /\ hcPc' \in {"send", "done"} /\ hcStatus' = -1
        /\ UNCHANGED <<hcAnswer, hcPushed, hcHeads>>
    BY <1>1 DEF HcDials, CallIs, Returns, hcSame
  <2>2. QED
    BY <2>1 DEF CallIs, Given, Heads
<1>2. CASE HcSlice
  <2>1. /\ hcPc = "send" /\ hcPc' \in {"send", "done"} /\ hcStatus' = -1
        /\ UNCHANGED <<hcAnswer, hcPushed, hcHeads>>
    BY <1>2 DEF HcSlice, CallIs, Returns
  <2>2. QED
    BY <2>1 DEF CallIs, Given, Heads
<1>3. CASE HcAnswers
  <2>1. /\ hcPc = "send" /\ hcPc' = "status" /\ hcUp.left = 0 /\ hcUp' = hcUp /\ hcStatus' = hcStatus
        /\ hcBuf' = <<>> /\ hcPos' = 0 /\ UNCHANGED <<hcAnswer, hcPushed, hcHeads>>
    BY <1>3 DEF HcAnswers
  <2>2. a.wire \in Seq(Token)
    BY AnswerTokens
  <2>3. /\ hcWire' \in Seq(Token) /\ Len(hcWire') <= Len(a.wire)
        /\ \A i \in 1..Len(hcWire') : hcWire'[i] = a.wire[i]
    <3>1. CASE hcWire' = a.wire
      BY <2>2, <3>1
    <3>2. CASE \E m \in 0..Len(a.wire) - 1 : hcWire' = SubSeq(a.wire, 1, m)
      BY <2>2, <3>2
    <3>3. QED
      BY <1>3, <3>1, <3>2 DEF HcAnswers, CallIs
  <2>4. Stream(a.wire, 0)'
    <3>1. /\ <<>> \in Seq(Token) /\ Len(<<>>) = 0 /\ HcRoom \in Nat /\ Len(hcWire') \in Nat
          /\ 0 \in 0..0 /\ 0 \in Nat /\ 0 - 0 = 0 /\ 0 <= HcRoom
      BY <2>3, HcAssumption
    <3>2. \A i \in 1..Len(hcWire') : 0 + 0 + i = i
      BY <3>1
    <3>3. 0 + 0 + Len(hcWire') <= Len(a.wire)
      BY <2>3, <3>1
    <3>4. \A i \in 1..0 : FALSE
      OBVIOUS
    <3>5. QED
      BY <2>1, <2>3, <3>1, <3>2, <3>3, <3>4 DEF Stream
  <2>5. QED
    BY <2>1, <2>4 DEF CallIs, Given, Heads
<1>4. QED
  BY <1>1, <1>2, <1>3

\* The stream read on, the call is where it was.
LEMMA ReadKeeps ==
  ASSUME NEW a, NEW h, NEW b, NEW Z, AnswerIs(a, h, b, Z), CallIs(a, h, b, Z), HcFills
  PROVE  CallIs(a, h, b, Z)'
<1>1. UNCHANGED <<hcUp, hcAnswer, hcPc, hcHeads, hcLeft, hcPushed, hcStatus>>
  BY DEF HcFills, hcSame
<1>2. \A p : Stream(a.wire, p) => Stream(a.wire, p)'
  BY FillsKeep, AnswerTokens
<1>3. Given(a.n)' /\ \A i : Heads(h, i, a.n) => Heads(h, i, a.n)'
  BY <1>1 DEF Given, Heads, CallIs
<1>4. AtHeaders(a, h) => AtHeaders(a, h)'
  BY <1>1, <1>2, <1>3 DEF AtHeaders
<1>5. AtLength(a, h) => AtLength(a, h)'
  BY <1>1, <1>2 DEF AtLength
<1>6. AtSize(a, h, Z) => AtSize(a, h, Z)'
  BY <1>1, <1>2 DEF AtSize
<1>7. InChunk(a, h, b, Z) => InChunk(a, h, b, Z)'
  BY <1>1, <1>2 DEF InChunk
<1>8. QED
  BY <1>1, <1>2, <1>3, <1>4, <1>5, <1>6, <1>7 DEF CallIs

\* A read with nothing to give (http.c:199-208, 235-242): only a body to EOF ends well.
LEMMA StarvesKeeps ==
  ASSUME NEW a, NEW h, NEW b, NEW Z, AnswerIs(a, h, b, Z), CallIs(a, h, b, Z), HcStarves
  PROVE  CallIs(a, h, b, Z)'
<1>1. UNCHANGED <<hcUp, hcAnswer, hcPushed>> /\ hcPc' = "done" /\ hcStatus' \in {-1, 200}
  BY DEF HcStarves, hcSame, Returns
<1>2. hcStatus' = 200 => hcPc = "toEof"
  BY DEF HcStarves, Returns, EndsWell
<1>3. QED
  BY <1>1, <1>2 DEF CallIs, Given

\* The status line (http_perform).
LEMMA StatusLineKeeps ==
  ASSUME NEW a, NEW h, NEW b, NEW Z, AnswerIs(a, h, b, Z), CallIs(a, h, b, Z), HcStatusLine
  PROVE  CallIs(a, h, b, Z)'
<1>1. /\ hcPc = "status" /\ HasLine /\ Consume(LineLen) /\ UNCHANGED <<hcUp, hcAnswer, hcHeads, hcLeft, hcPushed>>
      /\ hcPc' \in {"headers", "done"} /\ hcStatus' = -1
  BY DEF HcStatusLine, hcSame, Returns, CallIs
<1>2. Stream(a.wire, 0) /\ hcPushed = <<>> /\ Heads(h, 0, a.n)
  BY <1>1 DEF CallIs
<1>3. a.wire \in Seq(Token) /\ a.wire[0 + 1] # End /\ a.wire[0 + 2] = End /\ Len(h) \in Nat
  <2>1. Word("status", 200) # End
    BY EndIs DEF Kinds
  <2>2. 0 + 1 = 1 /\ 0 + 2 = 2
    OBVIOUS
  <2>3. QED
    BY <2>1, <2>2, AnswerTokens
<1>4. LineLen = 2
  BY <1>1, <1>2, <1>3, WordLine
<1>5. Stream(a.wire, 2 + 0)'
  <2>1. 2 \in 0..Len(Ahead) /\ Consume(2)
    BY <1>1, <1>2, <1>3, <1>4, LineStops
  <2>2. Stream(a.wire, 0 + 2)'
    BY <1>2, <1>3, <2>1, ConsumeMoves
  <2>3. QED
    BY <2>2
<1>6. AtHeaders(a, h)'
  <2>1. 0 \in 0..Len(h)
    BY <1>3
  <2>2. Heads(h, 0, a.n)'
    BY <1>1, <1>2 DEF Heads
  <2>3. QED
    BY <1>1, <1>2, <1>5, <2>1, <2>2 DEF AtHeaders
<1>7. QED
  BY <1>1, <1>2, <1>6 DEF CallIs, Given

\* A header line: the blank one chooses the framing the server meant.
LEMMA HeaderKeeps ==
  ASSUME NEW a, NEW h, NEW b, NEW Z, AnswerIs(a, h, b, Z), CallIs(a, h, b, Z), HcHeader
  PROVE  CallIs(a, h, b, Z)'
<1>1. /\ hcPc = "headers" /\ HasLine /\ Consume(LineLen)
      /\ UNCHANGED <<hcUp, hcAnswer, hcPushed, hcStatus>> /\ hcStatus = -1
  BY DEF HcHeader, hcSame, CallIs
<1>2. /\ a.n \in Nat /\ a.wire \in Seq(Token) /\ h \in Seq(Token) /\ Len(h) \in Nat /\ BodyFrom(h) = 3 + Len(h)
      /\ a.wire[3 + Len(h)] = End /\ \A k \in 1..Len(h) : a.wire[2 + k] = h[k]
  BY AnswerTokens
<1>3. hcPushed = <<>> /\ hcPushed' = <<>> /\ Given(a.n)' /\ hcUp.left = 0 /\ hcAnswer = a
  BY <1>1 DEF CallIs, Given, AtHeaders
<1>4. PICK i \in 0..Len(h) : (i = 0 \/ h[i] = End) /\ Stream(a.wire, 2 + i) /\ Heads(h, i, a.n)
  BY <1>1 DEF CallIs, AtHeaders
<1>5. \/ i = Len(h)
      \/ i + 2 <= Len(h) /\ h[i + 1] # End /\ h[i + 2] = End
      \/ \A j \in 1..HcRoom : i + j <= Len(h) /\ h[i + j] # End
  BY <1>4 DEF AnswerIs, HeadersAre
\* The blank line.
<1>6. CASE i = Len(h)
  <2>1. a.wire[2 + i + 1] = End
    <3>1. 2 + i + 1 = 3 + Len(h)
      BY <1>2, <1>6
    <3>2. QED
      BY <1>2, <3>1
  <2>2. LineLen = 1 /\ LineIs = Word("blank", 0)
    BY <1>1, <1>2, <1>4, <2>1, ShortLine
  <2>3. Stream(a.wire, BodyFrom(h))'
    <3>1. 1 \in 0..Len(Ahead) /\ Consume(1)
      BY <1>1, <1>2, <1>4, <2>2, LineStops
    <3>2. Stream(a.wire, 2 + i + 1)'
      BY <1>2, <1>4, <3>1, ConsumeMoves
    <3>3. 2 + i + 1 = BodyFrom(h)
      BY <1>2, <1>6
    <3>4. QED
      BY <3>2, <3>3
  <2>4. hcPc' = Framing /\ hcLeft' = hcHeads.len
    BY <2>2, WordIs DEF HcHeader
  <2>5. Len(hcPushed') = 0 /\ BodyFrom(h) + 0 = BodyFrom(h) /\ a.n - 0 = a.n
    BY <1>2, <1>3
  <2>6. a.framing \in {"length", "eof", "chunked"}
    BY DEF AnswerIs, HeadersAre
  <2>7. CASE a.framing = "chunked"
    <3>1. hcHeads.chunked
      BY <1>4, <1>6, <2>7 DEF AnswerIs, HeadersAre, Heads
    <3>2. hcPc' = "size"
      BY <2>4, <3>1 DEF Framing
    <3>3. <<0, 0>> \in Z
      BY <2>7 DEF AnswerIs, ChunksAre
    <3>4. AtSize(a, h, Z)'
      BY <2>3, <2>5, <2>7, <3>3 DEF AtSize
    <3>5. QED
      BY <1>1, <1>3, <3>2, <3>4 DEF CallIs
  <2>8. CASE a.framing = "length"
    <3>1. ~hcHeads.chunked /\ hcHeads.have /\ hcHeads.len = a.n
      BY <1>4, <1>6, <2>8 DEF AnswerIs, HeadersAre, Heads
    <3>2. hcPc' = "length"
      BY <2>4, <3>1 DEF Framing
    <3>3. AtLength(a, h)'
      BY <2>3, <2>4, <2>5, <2>8, <3>1 DEF AtLength
    <3>4. QED
      BY <1>1, <1>3, <3>2, <3>3 DEF CallIs
  <2>9. CASE a.framing = "eof"
    <3>1. ~hcHeads.chunked /\ ~hcHeads.have
      BY <1>4, <1>6, <2>9 DEF AnswerIs, HeadersAre, Heads
    <3>2. hcPc' = "toEof"
      BY <2>4, <3>1 DEF Framing
    <3>3. QED
      BY <1>1, <1>3, <2>3, <2>5, <2>9, <3>2 DEF CallIs
  <2>10. QED
    BY <2>6, <2>7, <2>8, <2>9
\* A header line that the buffer holds.
<1>7. CASE i + 2 <= Len(h) /\ h[i + 1] # End /\ h[i + 2] = End
  <2>1. /\ 2 + i + 1 = 2 + (i + 1) /\ 2 + i + 2 = 2 + (i + 2) /\ i + 1 \in 1..Len(h) /\ i + 2 \in 1..Len(h)
        /\ i + 2 \in 0..Len(h)
    BY <1>2, <1>7
  <2>2. a.wire[2 + i + 1] # End /\ a.wire[2 + i + 2] = End /\ a.wire[2 + i + 1] = h[i + 1]
    BY <1>2, <1>7, <2>1
  <2>3. LineLen = 2 /\ LineIs = h[i + 1]
    BY <1>1, <1>2, <1>4, <2>2, WordLine
  <2>4. Stream(a.wire, 2 + (i + 2))'
    <3>1. 2 \in 0..Len(Ahead) /\ Consume(2)
      BY <1>1, <1>2, <1>4, <2>3, LineStops
    <3>2. Stream(a.wire, 2 + i + 2)'
      BY <1>2, <1>4, <3>1, ConsumeMoves
    <3>3. QED
      BY <2>1, <3>2
  <2>5. LineIs.t # "blank"
    <3>1. h[i + 1] \in Token
      BY <1>2, <2>1
    <3>2. QED
      BY <2>3, <3>1 DEF Token, Kinds
  <2>6. /\ hcPc' = "headers"
        /\ \/ h[i + 1].t = "length" /\ hcHeads' = [hcHeads EXCEPT !.len = h[i + 1].v, !.have = TRUE]
           \/ h[i + 1].t = "chunked" /\ hcHeads' = [hcHeads EXCEPT !.chunked = TRUE]
           \/ h[i + 1].t = "other" /\ hcHeads' = hcHeads
    BY <1>1, <2>3, <2>5 DEF HcHeader
  <2>7. Heads(h, i + 2, a.n)'
    BY <1>2, <1>4, <1>7, <2>6, HeadsMove
  <2>8. AtHeaders(a, h)'
    BY <1>3, <1>7, <2>1, <2>4, <2>7 DEF AtHeaders
  <2>9. QED
    BY <1>1, <1>3, <2>6, <2>8 DEF CallIs
\* A longer one is no line the call can read.
<1>8. CASE \A j \in 1..HcRoom : i + j <= Len(h) /\ h[i + j] # End
  <2>1. PICK l \in 1..HcRoom : l = LineLen
    <3>1. LineLen \in 1..Len(Ahead) /\ LineLen <= HcRoom /\ Len(Ahead) \in 0..HcRoom
      BY <1>1, <1>2, <1>4, LineStops, AheadIs
    <3>2. LineLen \in 1..HcRoom
      BY <3>1, HcAssumption
    <3>3. QED
      BY <3>2
  <2>2. a.wire[2 + i + l] = End
    BY <1>1, <1>2, <1>4, <2>1, LineStops
  <2>3. 2 + i + l = 2 + (i + l) /\ i + l \in 1..Len(h)
    BY <1>2, <1>8, HcAssumption
  <2>4. h[i + l] = End
    BY <1>2, <2>2, <2>3
  <2>5. QED
    BY <1>8, <2>4
<1>9. QED
  BY <1>5, <1>6, <1>7, <1>8

\* A size line, the end behind a chunk, a trailer (drain_chunked).
LEMMA ChunkLineKeeps ==
  ASSUME NEW a, NEW h, NEW b, NEW Z, AnswerIs(a, h, b, Z), CallIs(a, h, b, Z), HcChunkLine
  PROVE  CallIs(a, h, b, Z)'
<1>1. /\ hcPc \in {"size", "chunkEnd", "trailers"} /\ HasLine /\ Consume(LineLen)
      /\ UNCHANGED <<hcUp, hcAnswer, hcHeads, hcPushed>> /\ hcUp.left = 0 /\ hcStatus = -1
  BY DEF HcChunkLine, hcSame, CallIs
<1>2. /\ a.n \in Nat /\ a.wire \in Seq(Token) /\ Len(h) \in Nat /\ BodyFrom(h) \in Nat
      /\ Len(b) \in Nat /\ \A k \in 1..Len(b) : a.wire[BodyFrom(h) + k] = b[k]
  BY AnswerTokens
<1>3. Given(a.n)' /\ hcAnswer = a
  BY <1>1 DEF CallIs, Given
<1> DEFINE B == BodyFrom(h)
<1>4. ASSUME hcPc # "trailers" PROVE a.framing = "chunked" /\ ChunksAre(b, a.n, Z)
  BY <1>1, <1>4 DEF CallIs, AtSize, InChunk, AnswerIs
<1>5. CASE hcPc = "size"
  <2>1. PICK q : <<q, Len(hcPushed)>> \in Z /\ Stream(a.wire, B + q)
    BY <1>5 DEF CallIs, AtSize
  <2>2. PICK j : j = Len(hcPushed)
    OBVIOUS
  <2>3. q \in Nat /\ j \in 0..a.n /\ <<q, j>> \in Z
    <3>1. <<q, j>> \in Z /\ <<q, j>> \in Nat \X (0..a.n)
      BY <1>4, <1>5, <2>1, <2>2 DEF ChunksAre
    <3>2. QED
      BY <3>1
  <2>4. \/ LastAt(b, q) /\ j = a.n
        \/ \E v : ChunkAt(b, q, j, v) /\ <<q + 3 + v, j + v>> \in Z
    BY <1>4, <1>5, <2>3 DEF ChunksAre
  <2>5. PICK v : \/ v = 0 /\ LastAt(b, q) /\ j = a.n
                 \/ ChunkAt(b, q, j, v) /\ <<q + 3 + v, j + v>> \in Z
    BY <2>4
  <2>6. v \in Nat /\ q + 2 <= Len(b) /\ b[q + 1] = Word("size", v) /\ b[q + 2] = End
    BY <1>2, <2>3, <2>5 DEF ChunkAt, LastAt
  <2>7. a.wire[B + q + 1] = Word("size", v) /\ a.wire[B + q + 2] = End
    <3>1. B + q + 1 = B + (q + 1) /\ B + q + 2 = B + (q + 2) /\ q + 1 \in 1..Len(b) /\ q + 2 \in 1..Len(b)
      <4>1. PICK y \in Nat : y = B
        BY <1>2
      <4>2. PICK m \in Nat : m = Len(b)
        BY <1>2
      <4>3. y + q + 1 = y + (q + 1) /\ y + q + 2 = y + (q + 2) /\ q + 1 \in 1..m /\ q + 2 \in 1..m
        BY <2>3, <2>6, <4>2
      <4> HIDE DEF B
      <4>4. QED
        BY <4>1, <4>2, <4>3
    <3>2. QED
      BY <1>2, <2>6, <3>1
  <2>8. LineLen = 2 /\ LineIs = Word("size", v)
    <3>1. Word("size", v) # End
      BY <2>6, EndIs DEF Kinds
    <3> HIDE DEF B
    <3>2. QED
      BY <1>1, <1>2, <2>1, <2>7, <3>1, WordLine
  <2>9. Stream(a.wire, B + (q + 2 + 0))'
    <3>1. 2 \in 0..Len(Ahead) /\ Consume(2)
      BY <1>1, <1>2, <2>1, <2>8, LineStops
    <3>2. Stream(a.wire, B + q + 2)'
      BY <1>2, <2>1, <3>1, ConsumeMoves
    <3>3. B + q + 2 = B + (q + 2 + 0)
      BY <1>2, <2>3
    <3>4. QED
      BY <3>2, <3>3
  <2>10. LineIs.t = "size" /\ LineIs.v = v
    BY <2>8, WordIs
  <2>11. CASE v = 0 /\ LastAt(b, q) /\ j = a.n
    <3>1. hcPc' = "trailers" /\ hcStatus' = hcStatus
      BY <1>5, <2>10, <2>11 DEF HcChunkLine
    <3>2. QED
      BY <1>1, <1>3, <1>4, <1>5, <2>2, <2>11, <3>1 DEF CallIs
  <2>12. CASE ChunkAt(b, q, j, v) /\ <<q + 3 + v, j + v>> \in Z
    <3>1. v > 0
      BY <2>12 DEF ChunkAt
    <3>2. hcPc' = "chunk" /\ hcLeft' = v /\ hcStatus' = hcStatus
      BY <1>5, <2>10, <3>1 DEF HcChunkLine
    <3>3. 0 \in 0..v /\ Len(hcPushed') = j + 0 /\ hcLeft' = v - 0
      BY <1>1, <2>2, <2>3, <2>6, <3>2
    <3>4. InChunk(a, h, b, Z)'
      BY <1>4, <1>5, <2>3, <2>9, <2>12, <3>3 DEF InChunk
    <3>5. QED
      BY <1>1, <1>3, <3>2, <3>4 DEF CallIs
  <2>13. QED
    BY <2>5, <2>11, <2>12
<1>6. CASE hcPc = "chunkEnd"
  <2>1. PICK q, j, v, d :
          /\ <<q, j>> \in Z /\ ChunkAt(b, q, j, v) /\ <<q + 3 + v, j + v>> \in Z /\ d \in 0..v
          /\ Len(hcPushed) = j + d /\ hcLeft = v - d /\ Stream(a.wire, B + (q + 2 + d))
    BY <1>6 DEF CallIs, InChunk
  <2>2. q \in Nat /\ j \in Nat /\ v \in Nat /\ q + 3 + v <= Len(b) /\ b[q + 3 + v] = End
    <3>1. <<q, j>> \in Nat \X (0..a.n)
      BY <1>4, <1>6, <2>1 DEF ChunksAre
    <3>2. QED
      BY <2>1, <3>1 DEF ChunkAt
  <2>3. d = v
    BY <1>6, <2>1, <2>2 DEF CallIs
  <2>4. /\ B + (q + 2 + d) + 1 = B + (q + 3 + v) /\ q + 3 + v \in 1..Len(b)
    BY <1>2, <2>2, <2>3
  <2>5. a.wire[B + (q + 2 + d) + 1] = End
    BY <1>2, <2>2, <2>4
  <2>6. LineLen = 1
    BY <1>1, <1>2, <2>1, <2>5, ShortLine
  <2>7. Stream(a.wire, B + (q + 3 + v))'
    <3>1. 1 \in 0..Len(Ahead) /\ Consume(1)
      BY <1>1, <1>2, <2>1, <2>6, LineStops
    <3>2. Stream(a.wire, B + (q + 2 + d) + 1)'
      BY <1>2, <2>1, <3>1, ConsumeMoves
    <3>3. QED
      BY <2>4, <3>2
  <2>8. hcPc' = "size" /\ hcStatus' = hcStatus
    BY <1>6 DEF HcChunkLine
  <2>9. AtSize(a, h, Z)'
    BY <1>1, <1>4, <1>6, <2>1, <2>3, <2>7 DEF AtSize
  <2>10. QED
    BY <1>1, <1>3, <2>8, <2>9 DEF CallIs
<1>7. CASE hcPc = "trailers"
  <2>1. hcPc' \in {"trailers", "done"} /\ hcStatus' \in {-1, 200} /\ (hcStatus' = 200 => hcPc' = "done")
    BY <1>1, <1>7 DEF HcChunkLine, Returns
  <2>2. a.framing = "chunked" /\ Len(hcPushed) = a.n
    BY <1>7 DEF CallIs
  <2>3. QED
    BY <1>1, <1>3, <2>1, <2>2 DEF CallIs
<1>8. QED
  BY <1>1, <1>5, <1>6, <1>7

\* Nothing of the length is left: the body, or the chunk, is whole (drain_body).
LEMMA BodyDoneKeeps ==
  ASSUME NEW a, NEW h, NEW b, NEW Z, AnswerIs(a, h, b, Z), CallIs(a, h, b, Z), HcBodyDone
  PROVE  CallIs(a, h, b, Z)'
<1>1. /\ hcPc \in {"length", "chunk"} /\ hcLeft = 0 /\ hcUp.left = 0 /\ hcStatus = -1 /\ hcAnswer = a
      /\ UNCHANGED <<hcUp, hcAnswer, hcWire, hcBuf, hcPos, hcHeads, hcLeft, hcPushed>>
  BY DEF HcBodyDone, hcSame, hcIn, CallIs
<1>2. Given(a.n)' /\ Len(hcPushed) \in Nat /\ a.n \in Nat
  BY <1>1, AnswerTokens DEF CallIs, Given
<1>3. CASE hcPc = "length"
  <2>1. hcPc' = "done" /\ hcStatus' = 200
    BY <1>3 DEF HcBodyDone, Returns
  <2>2. Len(hcPushed) = a.n
    BY <1>1, <1>2, <1>3 DEF CallIs, AtLength
  <2>3. QED
    BY <1>1, <1>2, <2>1, <2>2 DEF CallIs
<1>4. CASE hcPc = "chunk"
  <2>1. hcPc' = "chunkEnd" /\ hcStatus' = hcStatus
    BY <1>4 DEF HcBodyDone
  <2>2. InChunk(a, h, b, Z)'
    <3>1. \A p : Stream(a.wire, p) => Stream(a.wire, p)'
      BY <1>1 DEF Stream
    <3>2. QED
      BY <1>1, <1>4, <3>1 DEF CallIs, InChunk
  <2>3. QED
    BY <1>1, <1>2, <2>1, <2>2 DEF CallIs
<1>5. QED
  BY <1>1, <1>3, <1>4

\* The k tokens of w from the p-th on are the entity's from the j-th on.
BodyAt(w, p, j, k) == \A i \in 1..k : w[p + i] = Word("body", j + i)

\* The tokens ahead that are the entity's next go to the callback.
LEMMA PushedOn ==
  ASSUME NEW w \in Seq(Token), NEW p, Stream(w, p), NEW n \in Nat, Given(n), NEW k \in 0..Len(Ahead),
         NEW j, j = Len(hcPushed), j + k <= n, BodyAt(w, p, j, k),
         hcPushed' = hcPushed \o SubSeq(Ahead, 1, k), Consume(k)
  PROVE  Given(n)' /\ Len(hcPushed') = j + k /\ Stream(w, p + k)'
<1>1. Stream(w, p + k)'
  BY ConsumeMoves
<1>2. Ahead \in Seq(Token) /\ \A i \in 1..Len(Ahead) : Ahead[i] = w[p + i]
  BY AheadIs
<1> DEFINE s == SubSeq(Ahead, 1, k)
<1>3. s \in Seq(Token) /\ Len(s) = k /\ \A i \in 1..k : s[i] = Ahead[i]
  BY <1>2
<1> HIDE DEF s
<1>4. \A i \in 1..k : i \in 1..Len(Ahead)
  BY <1>2
<1>5. \A i \in 1..Len(s) : s[i] = Word("body", Len(hcPushed) + i)
  BY <1>2, <1>3, <1>4 DEF BodyAt
<1>6. hcPushed' = hcPushed \o s /\ Len(hcPushed) + Len(s) <= n
  BY <1>3 DEF s
<1>7. Given(n)' /\ Len(hcPushed') = Len(hcPushed) + Len(s)
  BY <1>3, <1>5, <1>6, GivenMore
<1>8. QED
  BY <1>1, <1>3, <1>7

\* The sink is given what the buffer holds, up to what is left (drain_body).
LEMMA HandsOverKeeps ==
  ASSUME NEW a, NEW h, NEW b, NEW Z, AnswerIs(a, h, b, Z), CallIs(a, h, b, Z), HcHandsOver
  PROVE  CallIs(a, h, b, Z)'
<1>1. /\ hcPc \in {"toEof", "length", "chunk"} /\ hcUp.left = 0 /\ hcStatus = -1 /\ hcAnswer = a
      /\ UNCHANGED <<hcUp, hcAnswer, hcHeads>>
  BY DEF HcHandsOver, WantsBody, hcSame, CallIs
<1>2. /\ a.n \in Nat /\ a.wire \in Seq(Token) /\ Len(h) \in Nat /\ BodyFrom(h) \in Nat
      /\ Len(b) \in Nat /\ \A k \in 1..Len(b) : a.wire[BodyFrom(h) + k] = b[k]
      /\ a.framing # "chunked" => Len(b) = a.n /\ \A i \in 1..a.n : b[i] = Word("body", i)
      /\ Len(a.wire) = BodyFrom(h) + Len(b)
  <2>1. /\ Len(h) \in Nat /\ BodyFrom(h) = 3 + Len(h)
        /\ Len(a.wire) = BodyFrom(h) + Len(b) /\ a.n \in Nat /\ a.wire \in Seq(Token) /\ Len(b) \in Nat
    BY AnswerTokens
  <2>2. BodyFrom(h) \in Nat
    BY <2>1
  <2>3. a.framing # "chunked" => Len(b) = a.n /\ \A i \in 1..a.n : b[i] = Word("body", i)
    BY AnswerTokens
  <2>4. \A k \in 1..Len(b) : a.wire[BodyFrom(h) + k] = b[k]
    BY AnswerTokens
  <2>5. QED
    BY <2>1, <2>2, <2>3, <2>4
<1>3. Given(a.n)
  BY DEF CallIs
<1>4. PICK j \in Nat : j = Len(hcPushed)
  BY <1>3 DEF Given
\* The sink refuses.
<1>5. CASE Returns(-1) /\ UNCHANGED <<hcIn, hcLeft, hcPushed>>
  BY <1>1, <1>3, <1>5 DEF CallIs, Returns, Given
\* It takes what there is, up to what is left.
<1> DEFINE have == IF hcPc = "toEof" \/ Len(Ahead) < hcLeft THEN Len(Ahead) ELSE hcLeft
           Takes(k) == /\ hcPushed' = hcPushed \o SubSeq(Ahead, 1, k)
                       /\ hcLeft' = IF hcPc = "toEof" THEN hcLeft ELSE hcLeft - k
                       /\ Consume(k) /\ UNCHANGED <<hcPc, hcStatus>>
<1>6. CASE Takes(have)
  <2> HIDE DEF Takes
  <2>1. ASSUME NEW p, Stream(a.wire, p), hcPc # "toEof" => hcLeft \in Nat
        PROVE  \E k \in 0..Len(Ahead) : Takes(k) /\ (hcPc # "toEof" => k <= hcLeft) /\ p + k <= Len(a.wire)
    <3>1. Len(Ahead) \in Nat /\ p + Len(Ahead) <= Len(a.wire) /\ p \in Nat /\ Len(a.wire) \in Nat
      <4>1. Len(Ahead) \in 0..HcRoom /\ p + Len(Ahead) <= Len(a.wire)
        BY <1>2, <2>1, AheadIs
      <4>2. p \in Nat
        BY <2>1 DEF Stream
      <4>3. QED
        BY <1>2, <4>1, <4>2, HcAssumption
    <3>2. have \in 0..Len(Ahead) /\ (hcPc # "toEof" => have <= hcLeft)
      BY <2>1, <3>1
    <3> HIDE DEF have
    <3>3. p + have <= Len(a.wire)
      BY <3>1, <3>2
    <3>4. QED
      BY <1>6, <3>2, <3>3
  <2>2. CASE hcPc \in {"toEof", "length"}
    <3>1. a.framing # "chunked" /\ Stream(a.wire, BodyFrom(h) + j) /\ (hcPc = "length" => a.framing = "length" /\ hcLeft = a.n - j)
      BY <1>4, <2>2 DEF CallIs, AtLength
    <3>2. hcPc # "toEof" => hcLeft \in Nat
      BY <1>2, <1>3, <1>4, <2>2, <3>1 DEF Given
    <3>3. PICK k \in 0..Len(Ahead) : Takes(k) /\ BodyFrom(h) + j + k <= Len(a.wire)
      BY <2>1, <3>1, <3>2
    <3>4. k \in Nat /\ j + k <= a.n
      <4>1. k \in Nat
        BY <1>2, <3>1, AheadIs, HcAssumption
      <4>2. PICK y \in Nat : y = BodyFrom(h)
        BY <1>2
      <4>3. PICK m \in Nat : m = a.n
        BY <1>2
      <4>4. y + j + k <= y + m
        BY <1>2, <3>1, <3>3, <4>2, <4>3
      <4>5. j + k <= m
        BY <4>1, <4>4
      <4>6. QED
        BY <4>1, <4>3, <4>5
    <3>5. \A i \in 1..k : a.wire[BodyFrom(h) + j + i] = Word("body", j + i)
      <4> SUFFICES ASSUME NEW i \in 1..k PROVE a.wire[BodyFrom(h) + j + i] = Word("body", j + i)
        OBVIOUS
      <4>1. j + i \in 1..a.n /\ BodyFrom(h) + j + i = BodyFrom(h) + (j + i)
        BY <1>2, <3>4
      <4>2. QED
        BY <1>2, <3>1, <4>1
    <3>6. Given(a.n)' /\ Len(hcPushed') = j + k /\ Stream(a.wire, BodyFrom(h) + j + k)'
      <4>1. PICK p : p = BodyFrom(h) + j
        OBVIOUS
      <4>2. /\ Stream(a.wire, p) /\ BodyAt(a.wire, p, j, k)
            /\ hcPushed' = hcPushed \o SubSeq(Ahead, 1, k) /\ Consume(k)
        BY <3>1, <3>3, <3>5, <4>1 DEF Takes, BodyAt
      <4>3. Given(a.n)' /\ Len(hcPushed') = j + k /\ Stream(a.wire, p + k)'
        <5>1. a.wire \in Seq(Token) /\ a.n \in Nat /\ Given(a.n) /\ k \in 0..Len(Ahead) /\ j = Len(hcPushed) /\ j + k <= a.n
          BY <1>2, <1>3, <1>4, <3>3, <3>4
        <5>2. QED
          BY <4>2, <5>1, PushedOn
      <4>4. QED
        BY <4>1, <4>3
    <3>7. Stream(a.wire, BodyFrom(h) + (j + k))'
      <4>1. BodyFrom(h) + j + k = BodyFrom(h) + (j + k)
        BY <1>2, <3>4
      <4>2. QED
        BY <3>6, <4>1
    <3>8. hcPc' = hcPc /\ hcStatus' = hcStatus
      BY <3>3 DEF Takes
    <3>9. CASE hcPc = "toEof"
      BY <1>1, <3>6, <3>7, <3>8, <3>9 DEF CallIs
    <3>10. CASE hcPc = "length"
      <4>1. hcLeft' = a.n - (j + k)
        <5>1. a.n - j - k = a.n - (j + k)
          BY <1>2, <3>4
        <5>2. QED
          BY <3>1, <3>3, <3>10, <5>1 DEF Takes
      <4>2. AtLength(a, h)'
        BY <3>1, <3>6, <3>7, <3>10, <4>1 DEF AtLength
      <4>3. QED
        BY <1>1, <3>6, <3>8, <3>10, <4>2 DEF CallIs
    <3>11. QED
      BY <2>2, <3>9, <3>10
  <2>3. CASE hcPc = "chunk"
    <3>1. /\ a.framing = "chunked" /\ ChunksAre(b, a.n, Z)
      BY <2>3 DEF CallIs, InChunk, AnswerIs
    <3>2. PICK q, g, v, d :
            /\ <<q, g>> \in Z /\ ChunkAt(b, q, g, v) /\ <<q + 3 + v, g + v>> \in Z /\ d \in 0..v
            /\ Len(hcPushed) = g + d /\ hcLeft = v - d /\ Stream(a.wire, BodyFrom(h) + (q + 2 + d))
      BY <2>3 DEF CallIs, InChunk
    <3>3. q \in Nat /\ g \in Nat /\ v \in Nat /\ q + 3 + v <= Len(b) /\ g + v <= a.n
          /\ \A i \in 1..v : b[q + 2 + i] = Word("body", g + i)
      <4>1. <<q, g>> \in Nat \X (0..a.n) /\ <<q + 3 + v, g + v>> \in Nat \X (0..a.n)
        BY <3>1, <3>2 DEF ChunksAre
      <4>2. QED
        BY <3>2, <4>1 DEF ChunkAt
    <3>4. d \in Nat /\ j = g + d /\ hcLeft \in Nat
      BY <1>4, <3>2, <3>3
    <3>5. PICK k \in 0..Len(Ahead) : Takes(k) /\ k <= hcLeft
      BY <2>1, <2>3, <3>2, <3>4
    <3>6. k \in Nat /\ d + k \in 0..v /\ j + k = g + (d + k) /\ j + k <= a.n
      <4>1. k \in Nat
        BY <1>2, <3>2, AheadIs, HcAssumption
      <4>2. QED
        <5>1. PICK l \in Nat : l = hcLeft
          BY <3>4
        <5>2. k <= l /\ l = v - d
          BY <3>2, <3>5, <5>1
        <5>3. PICK m \in Nat : m = a.n
          BY <1>2
        <5>4. g + v <= m
          BY <3>3, <5>3
        <5>5. d + k \in 0..v /\ j + k = g + (d + k) /\ j + k <= m
          BY <3>3, <3>4, <4>1, <5>2, <5>4
        <5>6. QED
          BY <4>1, <5>3, <5>5
    <3>7. \A i \in 1..k : a.wire[BodyFrom(h) + (q + 2 + d) + i] = Word("body", j + i)
      <4> SUFFICES ASSUME NEW i \in 1..k PROVE a.wire[BodyFrom(h) + (q + 2 + d) + i] = Word("body", j + i)
        OBVIOUS
      <4>1. d + i \in 1..v /\ q + 2 + (d + i) \in 1..Len(b) /\ j + i = g + (d + i)
        <5>1. PICK m \in Nat : m = Len(b)
          BY <1>2
        <5>2. i \in Nat /\ d + i \in 1..v /\ q + 3 + v <= m
          BY <3>3, <3>4, <3>6, <5>1
        <5>3. q + 2 + (d + i) \in 1..m /\ j + i = g + (d + i)
          BY <3>3, <3>4, <5>2
        <5>4. QED
          BY <5>1, <5>2, <5>3
      <4>2. BodyFrom(h) + (q + 2 + d) + i = BodyFrom(h) + (q + 2 + (d + i))
        <5>1. PICK y \in Nat : y = BodyFrom(h)
          BY <1>2
        <5>2. y + (q + 2 + d) + i = y + (q + 2 + (d + i))
          BY <3>3, <3>4
        <5>3. QED
          BY <5>1, <5>2
      <4>3. QED
        BY <1>2, <3>3, <4>1, <4>2
    <3>8. Given(a.n)' /\ Len(hcPushed') = j + k /\ Stream(a.wire, BodyFrom(h) + (q + 2 + d) + k)'
      <4>1. PICK p : p = BodyFrom(h) + (q + 2 + d)
        OBVIOUS
      <4>2. /\ Stream(a.wire, p) /\ BodyAt(a.wire, p, j, k)
            /\ hcPushed' = hcPushed \o SubSeq(Ahead, 1, k) /\ Consume(k)
        BY <3>2, <3>5, <3>7, <4>1 DEF Takes, BodyAt
      <4>3. Given(a.n)' /\ Len(hcPushed') = j + k /\ Stream(a.wire, p + k)'
        <5>1. a.wire \in Seq(Token) /\ a.n \in Nat /\ Given(a.n) /\ k \in 0..Len(Ahead) /\ j = Len(hcPushed) /\ j + k <= a.n
          BY <1>2, <1>3, <1>4, <3>5, <3>6
        <5>2. QED
          BY <4>2, <5>1, PushedOn
      <4>4. QED
        BY <4>1, <4>3
    <3>9. Stream(a.wire, BodyFrom(h) + (q + 2 + (d + k)))'
      <4>1. BodyFrom(h) + (q + 2 + d) + k = BodyFrom(h) + (q + 2 + (d + k))
        <5>1. PICK y \in Nat : y = BodyFrom(h)
          BY <1>2
        <5>2. y + (q + 2 + d) + k = y + (q + 2 + (d + k))
          BY <3>3, <3>4, <3>6
        <5>3. QED
          BY <5>1, <5>2
      <4>2. QED
        BY <3>8, <4>1
    <3>10. hcPc' = hcPc /\ hcStatus' = hcStatus /\ hcLeft' = v - (d + k)
      <4>1. v - d - k = v - (d + k)
        BY <3>3, <3>4, <3>6
      <4>2. QED
        BY <2>3, <3>2, <3>5, <4>1 DEF Takes
    <3>11. InChunk(a, h, b, Z)'
      <4>1. Len(hcPushed') = g + (d + k)
        BY <3>6, <3>8
      <4>2. QED
        BY <3>1, <3>2, <3>6, <3>9, <3>10, <4>1 DEF InChunk
    <3>12. QED
      BY <1>1, <2>3, <3>8, <3>10, <3>11 DEF CallIs
  <2>4. QED
    BY <1>1, <2>2, <2>3
<1>7. QED
  BY <1>5, <1>6 DEF HcHandsOver

\* Every step of the call keeps its place in the answer.
LEMMA HcStep == HcIInv /\ [HcNext]_hcVars => HcIInv'
<1> SUFFICES ASSUME HcIInv, [HcNext]_hcVars PROVE HcIInv'
  OBVIOUS
<1>1. PICK a, h, b, Z : AnswerIs(a, h, b, Z) /\ CallIs(a, h, b, Z)
  BY DEF HcIInv
<1>2. CallIs(a, h, b, Z)'
  <2>1. CASE HcDials \/ HcSlice \/ HcAnswers
    BY <1>1, <2>1, RequestKeeps
  <2>2. CASE HcFills
    BY <1>1, <2>2, ReadKeeps
  <2>3. CASE HcStarves
    BY <1>1, <2>3, StarvesKeeps
  <2>4. CASE HcStatusLine
    BY <1>1, <2>4, StatusLineKeeps
  <2>5. CASE HcHeader
    BY <1>1, <2>5, HeaderKeeps
  <2>6. CASE HcHandsOver
    BY <1>1, <2>6, HandsOverKeeps
  <2>7. CASE HcBodyDone
    BY <1>1, <2>7, BodyDoneKeeps
  <2>8. CASE HcChunkLine
    BY <1>1, <2>8, ChunkLineKeeps
  <2>9. CASE UNCHANGED hcVars
    <3>1. UNCHANGED <<hcPc, hcUp, hcAnswer, hcWire, hcOpen, hcBuf, hcPos, hcHeads, hcLeft, hcPushed, hcStatus>>
      BY <2>9 DEF hcVars
    <3>2. \A p : Stream(a.wire, p) => Stream(a.wire, p)'
      BY <3>1 DEF Stream
    <3>3. Given(a.n)' /\ \A i : Heads(h, i, a.n) => Heads(h, i, a.n)'
      BY <1>1, <3>1 DEF Given, Heads, CallIs
    <3>4. AtHeaders(a, h) => AtHeaders(a, h)'
      BY <3>1, <3>2, <3>3 DEF AtHeaders
    <3>5. AtLength(a, h) => AtLength(a, h)'
      BY <3>1, <3>2 DEF AtLength
    <3>6. AtSize(a, h, Z) => AtSize(a, h, Z)'
      BY <3>1, <3>2 DEF AtSize
    <3>7. InChunk(a, h, b, Z) => InChunk(a, h, b, Z)'
      BY <3>1, <3>2 DEF InChunk
    <3>8. QED
      BY <1>1, <3>1, <3>2, <3>3, <3>4, <3>5, <3>6, <3>7 DEF CallIs
  <2>10. QED
    BY <2>1, <2>2, <2>3, <2>4, <2>5, <2>6, <2>7, <2>8, <2>9 DEF HcNext
<1>3. QED
  BY <1>1, <1>2 DEF HcIInv

\* At its place in the answer, a call holds what the property says.
LEMMA HcIInvIsWhole == HcIInv => WholeOrRefused
<1> SUFFICES ASSUME HcIInv PROVE WholeOrRefused
  OBVIOUS
<1>1. PICK a, h, b, Z : AnswerIs(a, h, b, Z) /\ CallIs(a, h, b, Z)
  BY DEF HcIInv
<1>2. a.n \in Nat /\ hcAnswer = a /\ Given(a.n)
  BY <1>1, AnswerTokens DEF CallIs
<1> DEFINE e == Entity(a.n)
<1>3. e \in Seq(Token) /\ Len(e) = a.n /\ \A i \in 1..a.n : e[i] = Word("body", i)
  BY <1>2, EntityTokens
<1> HIDE DEF e
<1>4. hcPushed \in Seq(Token) /\ Len(hcPushed) <= Len(e) /\ \A i \in 1..Len(hcPushed) : hcPushed[i] = e[i]
  <2>1. hcPushed \in Seq(Token) /\ Len(hcPushed) <= a.n /\ \A i \in 1..Len(hcPushed) : hcPushed[i] = Word("body", i)
    BY <1>2 DEF Given
  <2>2. \A i \in 1..Len(hcPushed) : i \in 1..a.n
    BY <1>2, <2>1
  <2>3. QED
    BY <1>3, <2>1, <2>2
<1>5. IsPrefix(hcPushed, e)
  <2>1. SubSeq(hcPushed, 1, Len(hcPushed)) = SubSeq(e, 1, Len(hcPushed))
    BY <1>3, <1>4
  <2>2. QED
    BY <1>4, <2>1 DEF IsPrefix
<1>6. Len(hcPushed) = a.n => hcPushed = e
  <2>1. ASSUME Len(hcPushed) = a.n PROVE hcPushed = e
    <3>1. Len(hcPushed) = Len(e) /\ \A i \in 1..Len(e) : hcPushed[i] = e[i]
      BY <1>3, <1>4, <2>1
    <3>2. QED
      BY <1>3, <1>4, <3>1
  <2>2. QED
    BY <2>1
<1>7. hcStatus = 200 => hcUp.left = 0 /\ (a.framing # "eof" => Len(hcPushed) = a.n)
  BY <1>1 DEF CallIs
<1>8. QED
  BY <1>2, <1>5, <1>6, <1>7 DEF WholeOrRefused, e

(* "Getting this wrong is a silent truncation rather than an error" (http.c:20-24):  *)
(* a call that returns a status has sent what it promised and given the callback the  *)
(* whole entity, once, for buffers and entities of any length, in each of the framings *)
(* the server chooses and wherever a read ends or the stream breaks off.              *)
THEOREM AnswersAreWhole == HcSpec => []WholeOrRefused
<1>1. QED
  BY HcInitIInv, HcStep, HcIInvIsWhole, PTL DEF HcSpec
=============================================================================
