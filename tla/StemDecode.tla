----------------------------- MODULE StemDecode -----------------------------
(***************************************************************************)
(* A pair of stem files becoming the resident set (stem/store.c, decode.c)   *)
(* at the rate the pool runs at (audio_rate.c, audio_probe.c): the loader    *)
(* waits for a rate and for the deck's own loader to be quiet, decodes the   *)
(* two parts on two threads through the deck's reader chain, and reads the   *)
(* verdict off both: stored, the file is bad, try again, or moved on.        *)
(*                                                                         *)
(* Time is counted in polls.  What a file is worth is chosen once; that      *)
(* memory runs out or the chain is not the one expected may happen anywhere. *)
(* Left out: the samples, the gains, the progress, a stream that ends early.  *)
(***************************************************************************)
EXTENDS Integers, FiniteSets

CONSTANTS SdRate,      \* the rate the pool runs at
          SdTempos,    \* what the deck may play at, in thousandths; 0 paused
          SdQuiet, SdPolls,       \* SETTLE_QUIET_MS and SETTLE_WAIT_MS, in polls
          SdMaxWindows, SdMaxOpens, SdMaxLoads   \* bounds

KPoolRates == {44100, 48000, 88200, 96000, 176400, 192000}

ASSUME SdAssumption ==
  /\ SdRate \in KPoolRates /\ SdTempos \subseteq Nat
  /\ {SdQuiet, SdPolls, SdMaxWindows, SdMaxOpens, SdMaxLoads} \subseteq Nat

Parts == {"harmonics", "vocals"}
Worths == {"sound", "dead"}

VARIABLES sdFile,     \* part -> what the file is worth
          sdRates,    \* g_pool_rate, last_match, g_engine_rate and the set's own rate
          sdWanted,   \* stem_job_load_wanted
          sdDeck,     \* polls since the deck opened a reader, -1 before the first
          sdLoad,     \* the loader in stem_store_publish
          sdPull,     \* part -> the thread in load_one and stem_decode_pull
          sdSaid,     \* the verdict of the last load
          sdStarved,  \* an allocation or the chain failed in this load, not a file
          sdWindows, sdOpens, sdLoads

sdVars == <<sdFile, sdRates, sdWanted, sdDeck, sdLoad, sdPull, sdSaid, sdStarved,
            sdWindows, sdOpens, sdLoads>>
sdCounts == <<sdWindows, sdOpens, sdLoads>>

NoPull == [pc |-> "idle", mode |-> "probe", held |-> {}, got |-> 0, said |-> "none"]

SdInit ==
  /\ sdFile \in [Parts -> Worths]
  /\ sdRates = [pool |-> 0, last |-> 0, engine |-> 0, set |-> 0, jumped |-> FALSE]
  /\ sdWanted = TRUE /\ sdDeck = -1
  /\ sdLoad = [pc |-> "idle", rate |-> 0, polls |-> 0]
  /\ sdPull = [p \in Parts |-> NoPull]
  /\ sdSaid = "none" /\ sdStarved = FALSE
  /\ sdWindows = 0 /\ sdOpens = 0 /\ sdLoads = 0

-----------------------------------------------------------------------------
(* The pool's rate: the report's windows, on the message thread.             *)

Near(r, k) == 100 * r >= 99 * k /\ 100 * r <= 101 * k
SnapRate(r) == IF \E k \in KPoolRates : Near(r, k)
               THEN CHOOSE k \in KPoolRates : Near(r, k) ELSE 0

\* stem_pool_rate: the position's measure, or the stretcher's.
PoolRate == IF sdRates.pool # 0 THEN sdRates.pool ELSE sdRates.engine

ObserveThroughGaps(r) ==    \* seeded fault: a window that fits nothing is passed over
  IF r = 0 THEN sdRates
  ELSE [sdRates EXCEPT !.last = r, !.pool = IF sdRates.last = r THEN r ELSE 0]
\* pool_rate_observe: two windows in a row must snap to the same rate.
Observe(r) ==
  IF r = 0 THEN [sdRates EXCEPT !.last = 0]
  ELSE [sdRates EXCEPT !.last = r, !.pool = IF sdRates.last = r THEN r ELSE 0]

\* A window in which the play head moved at a tempo, or jumped.  A set built at
\* another rate is dropped and asked for again.
SdWindow(seen, jumped) ==
  /\ sdWindows < SdMaxWindows /\ sdWindows' = sdWindows + 1
  /\ ~(jumped /\ sdRates.jumped)
  /\ LET after == IF sdRates.pool # 0 THEN sdRates ELSE Observe(SnapRate(seen))
         stale == after.pool # sdRates.pool /\ sdRates.set \notin {0, after.pool} IN
     /\ sdRates' = [after EXCEPT !.jumped = jumped, !.set = IF stale THEN 0 ELSE @]
     /\ sdWanted' = (sdWanted /\ ~stale)
  /\ UNCHANGED <<sdFile, sdDeck, sdLoad, sdPull, sdSaid, sdStarved, sdOpens, sdLoads>>
SdPlays == \E tempo \in SdTempos : SdWindow((SdRate * tempo) \div 1000, FALSE)
SdJumps == \E r \in KPoolRates : SdWindow(r, TRUE)

\* The stretcher's window in the report, and stem_engine_rate_measure on demand:
\* it runs at the pool's rate, or too slowly to say while a load has the processor.
Measured(healthy) == IF healthy THEN SdRate ELSE sdRates.engine

-----------------------------------------------------------------------------
(* stem_store_publish: the rate, the deck's own loader, then the two threads.*)

Ends(said) ==
  /\ sdLoad' = [sdLoad EXCEPT !.pc = "idle"] /\ sdSaid' = said
  /\ sdPull' = [p \in Parts |-> NoPull]

\* loader_publish latches the generation: from here on it is wanted until it moves.
SdBegins ==
  /\ sdLoad.pc = "idle" /\ sdLoads < SdMaxLoads
  /\ sdLoads' = sdLoads + 1 /\ sdWanted' = TRUE
  /\ sdLoad' = [pc |-> "rate", rate |-> 0, polls |-> 0]
  /\ sdSaid' = "none" /\ sdStarved' = FALSE
  /\ UNCHANGED <<sdFile, sdRates, sdDeck, sdPull, sdWindows, sdOpens>>

\* wait_for_pool_rate.
SdAsksRate(healthy) ==
  /\ sdLoad.pc = "rate"
  /\ LET known == PoolRate # 0
         rates == IF known THEN sdRates ELSE [sdRates EXCEPT !.engine = Measured(healthy)]
         rate == IF known THEN PoolRate ELSE rates.engine IN
     /\ sdRates' = rates
     /\ \/ /\ rate # 0
           /\ sdLoad' = [pc |-> "deck", rate |-> rate, polls |-> 0] /\ UNCHANGED <<sdSaid, sdPull>>
        \/ /\ rate = 0 /\ sdLoad.polls < SdPolls /\ sdWanted
           /\ sdLoad' = [sdLoad EXCEPT !.polls = @ + 1] /\ UNCHANGED <<sdSaid, sdPull>>
        \/ /\ rate = 0 /\ ~(sdLoad.polls < SdPolls /\ sdWanted)
           /\ Ends(IF sdWanted THEN "retry" ELSE "abort")
  /\ UNCHANGED <<sdFile, sdWanted, sdDeck, sdStarved, sdCounts>>

\* wait_for_deck and stem_decode_wait_deck_quiet: one poll; a deck never seen to
\* open a reader is given its time blind.
Starts(p) == [NoPull EXCEPT !.pc = "begin"]
SdAsksDeck ==
  /\ sdLoad.pc = "deck"
  /\ LET quiet == sdDeck = -1 \/ sdDeck >= SdQuiet
         over == ~sdWanted \/ sdLoad.polls >= SdPolls IN
     \/ /\ quiet
        /\ sdLoad' = [sdLoad EXCEPT !.pc = "pair"]
        /\ sdPull' = [p \in Parts |-> Starts(p)]
        /\ UNCHANGED <<sdSaid, sdDeck>>
     \/ /\ ~quiet /\ ~over
        /\ sdLoad' = [sdLoad EXCEPT !.polls = @ + 1] /\ sdDeck' = sdDeck + 1
        /\ UNCHANGED <<sdSaid, sdPull>>
     \/ /\ ~quiet /\ over
        /\ Ends(IF sdWanted THEN "retry" ELSE "abort") /\ UNCHANGED sdDeck
  /\ UNCHANGED <<sdFile, sdRates, sdWanted, sdStarved, sdCounts>>

\* The deck's loader opens a reader (stem_reader_open outside our own decode).
SdDeckOpens ==
  /\ sdOpens < SdMaxOpens /\ sdOpens' = sdOpens + 1 /\ sdDeck' = 0
  /\ UNCHANGED <<sdFile, sdRates, sdWanted, sdLoad, sdPull, sdSaid, sdStarved,
                 sdWindows, sdLoads>>

\* The track changes: the generation moves and does not come back.
SdMovesOn ==
  /\ sdWanted /\ sdLoad.pc # "idle" /\ sdWanted' = FALSE
  /\ UNCHANGED <<sdFile, sdRates, sdDeck, sdLoad, sdPull, sdSaid, sdStarved, sdCounts>>

-----------------------------------------------------------------------------
(* One thread: load_one, which pulls twice, once for the length alone.       *)

sdNotPull == <<sdFile, sdRates, sdWanted, sdDeck, sdLoad, sdSaid, sdCounts>>
To(p, r) == sdPull' = [sdPull EXCEPT ![p] = r]
P(p) == sdPull[p]

\* out_src, out_str, out: the converter goes with the reader it owns.
Buffers == {"buffers", "self", "string"}
Out(r, got, drops) == [r EXCEPT !.pc = "pulled", !.got = got, !.held = @ \ (Buffers \cup drops)]
MismatchDrops == {"reader"}

\* Its buffers; memory may run out, or the chain's parts not be there.
SdAllocates(p, fails) ==
  /\ P(p).pc = "begin"
  /\ To(p, IF fails THEN Out(P(p), -1, {})
           ELSE [P(p) EXCEPT !.pc = "open", !.held = @ \cup Buffers])
  /\ sdStarved' = (sdStarved \/ fails)
  /\ UNCHANGED sdNotPull

\* createReaderFor: nothing comes of a file that will not open.  The converter
\* then takes the reader, unless it is not the class expected.
SdOpensFile(p, opens, fits) ==
  LET open == [P(p) EXCEPT !.held = @ \cup {"reader"}] IN
  /\ P(p).pc = "open" /\ (sdFile[p] = "sound" => opens)
  /\ To(p, CASE ~opens -> Out(P(p), -1, {})
             [] opens /\ ~fits -> Out(open, -1, MismatchDrops)
             [] opens /\ fits /\ P(p).mode = "probe" ->
                  Out(open, IF sdFile[p] = "dead" THEN 0 ELSE 1, {"reader"})
             [] OTHER -> [open EXCEPT !.pc = "pump", !.got = 0])
  /\ sdStarved' = (sdStarved \/ (opens /\ ~fits))
  /\ UNCHANGED sdNotPull

\* A chunk: the stream ends where it ends, and the sink refuses once unwanted.
Length(p) == IF sdFile[p] = "sound" THEN 1 ELSE 0
SdPumps(p) ==
  /\ P(p).pc = "pump"
  /\ To(p, IF P(p).got = Length(p) THEN Out(P(p), P(p).got, {"reader"})
           ELSE IF ~sdWanted THEN Out(P(p), -1, {"reader"})
           ELSE [P(p) EXCEPT !.got = @ + 1])
  /\ UNCHANGED <<sdNotPull, sdStarved>>

\* What load_one makes of a pull.  A failed fill is the file's only while wanted.
SaysOf(p) == IF sdWanted THEN "bad" ELSE "abort"
SdJudges(p, room) ==
  /\ P(p).pc = "pulled"
  /\ \/ /\ P(p).mode = "probe" /\ P(p).got <= 0
        /\ To(p, [P(p) EXCEPT !.pc = "done", !.said = "bad"])
     \/ /\ P(p).mode = "probe" /\ P(p).got > 0
        /\ To(p, IF room THEN [P(p) EXCEPT !.pc = "begin", !.mode = "fill",
                                           !.held = @ \cup {"pcm"}]
                 ELSE [P(p) EXCEPT !.pc = "done", !.said = "retry"])
     \/ /\ P(p).mode = "fill"
        /\ To(p, IF P(p).got <= 0
                 THEN [P(p) EXCEPT !.pc = "done", !.said = SaysOf(p), !.held = @ \ {"pcm"}]
                 ELSE [P(p) EXCEPT !.pc = "done", !.said = "loaded"])
  /\ UNCHANGED <<sdNotPull, sdStarved>>

-----------------------------------------------------------------------------
(* Both joined: the verdict, and the set in place of the last.               *)

SdJoins ==
  LET says == {P(p).said : p \in Parts} IN
  /\ sdLoad.pc = "pair" /\ \A p \in Parts : P(p).pc = "done"
  /\ Ends(CASE says = {"loaded"} -> "stored" [] "abort" \in says -> "abort"
            [] "bad" \in says -> "bad" [] OTHER -> "retry")
  /\ sdRates' = IF says = {"loaded"} THEN [sdRates EXCEPT !.set = sdLoad.rate] ELSE sdRates
  /\ UNCHANGED <<sdFile, sdWanted, sdDeck, sdStarved, sdCounts>>

SdThread(p) ==
  \/ \E f, g \in BOOLEAN : SdAllocates(p, f) \/ SdOpensFile(p, f, g) \/ SdJudges(p, f)
  \/ SdPumps(p)

SdNext ==
  \/ SdPlays \/ SdJumps \/ SdBegins
  \/ \E healthy \in BOOLEAN : SdAsksRate(healthy)
  \/ SdAsksDeck \/ SdDeckOpens \/ SdMovesOn
  \/ \E p \in Parts : SdThread(p)
  \/ SdJoins

SdSpec == SdInit /\ [][SdNext]_sdVars

-----------------------------------------------------------------------------
\* No rate but the pool's own is settled on, though a window may show any.
\* "Refusing is the point: a rate we invented would put every stem out of
\* alignment" (audio.c:188-190).  Two windows at a held tempo that makes the play
\* head move at another listed rate settle on that one.
RateIsThePools == sdRates.pool \in {0, SdRate}

\* A pair is condemned for a file of its own (store.c:217-219, 233-236), or
\* because a decode could not begin, which load_one does not tell from it.
VerdictIsOfTheFile ==
  sdSaid = "bad" => sdStarved \/ \E p \in Parts : sdFile[p] = "dead"

\* Whatever failed, a thread that is done holds its samples at most.
NothingIsLeft == \A p \in Parts :
  P(p).pc \in {"idle", "begin", "pulled", "done"} => P(p).held \subseteq {"pcm"}

\* A pair is loaded at the pool's rate, judged for what it is, and let go of.
PairIsJudged == RateIsThePools /\ VerdictIsOfTheFile /\ NothingIsLeft
=============================================================================
