------------------------------ MODULE PreStems ------------------------------
(***************************************************************************)
(* Offline stems (stem/prestem.c, the pages of stem/prestem_media.c, the      *)
(* taps of stem/prestem_ui.c, stem/mode.c): the display tick names the track,  *)
(* one worker loads its sidecar pair and then its pages, the audio thread      *)
(* routes a block through the set, and the waveform worker (wave/stems.c)      *)
(* repaints what the set and the selection say.                             *)
(*                                                                         *)
(* A set is named by the generation it was loaded for.  A selection is a       *)
(* subset of the two parts, both of them being the mix as it is.  A bundle  *)
(* is what the environment has put there, kind by kind.  Left out: the JSON,   *)
(* the hashes' arithmetic, the report, the pixels.                           *)
(***************************************************************************)
EXTENDS Naturals, FiniteSets

CONSTANTS PsTracks, PsPages,
          PsMaxEvents   \* bound: tracks, switches, taps

ASSUME PsAssumption == PsPages \subseteq Nat /\ 0 \in PsPages /\ PsMaxEvents \in Nat

VARIABLES psSource,     \* the track the deck plays
          psSwitch,     \* g_stems_on, g_prestems_on
          psOn, psTrack, psGen, psSel, psLoading,   \* g_enabled, g_path, g_generation, ...
          psSet,        \* g_set: the generation it was loaded for, or NoSet
          psMedia,      \* generation -> [track, ready, requested, failed]
          psDead,       \* sets freed
          psWork,       \* the worker: [at, gen, seen, old]
          psAudio,      \* the audio block: [at, sel, set, source]
          psPaint,      \* prestem_wave_apply: [at, sel, set]
          psWave,       \* the waveform: [track, shows]
          psPreWas,     \* the waveform worker's pre_was_on
          psRouted, psAsked, psEvents   \* of the properties only, and the bound

psVars == <<psSource, psSwitch, psOn, psTrack, psGen, psSel, psLoading, psSet, psMedia, psDead,
            psWork, psAudio, psPaint, psWave, psPreWas, psRouted, psAsked, psEvents>>

NoSet == 0
NoTrack == "no track"
Full == {"vocal", "instrumental"}
PsIdle == [at |-> "idle", sel |-> Full, set |-> NoSet, source |-> NoTrack]

PsInit ==
  /\ psSource = NoTrack /\ psSwitch = [stems |-> FALSE, pre |-> TRUE]
  /\ psOn = TRUE /\ psTrack = NoTrack /\ psGen = 1 /\ psSel = Full /\ psLoading = FALSE
  /\ psSet = NoSet /\ psMedia = [g \in {} |-> {}] /\ psDead = {}
  /\ psWork = [at |-> "idle", gen |-> 0, seen |-> 0, old |-> NoSet]
  /\ psAudio = PsIdle /\ psPaint = PsIdle /\ psWave = [track |-> NoTrack, shows |-> Full]
  /\ psPreWas = TRUE /\ psRouted = FALSE /\ psAsked = 0 /\ psEvents = 0

PsHappens == psEvents < PsMaxEvents /\ psEvents' = psEvents + 1

-----------------------------------------------------------------------------
(* The message thread.                                                      *)

\* The track prestem_tick asks for under these switches.
Sought(sw) == IF sw.pre /\ ~sw.stems THEN psSource ELSE NoTrack

\* prestem_tick.
PsTick ==
  /\ Sought(psSwitch) # psTrack
  /\ psTrack' = Sought(psSwitch) /\ psLoading' = (psOn /\ psTrack' # NoTrack)
  /\ psGen' = psGen + 1 /\ psSel' = Full
  /\ UNCHANGED <<psSource, psSwitch, psOn, psSet, psMedia, psDead, psWork, psAudio, psPaint,
                 psWave, psPreWas, psRouted, psAsked, psEvents>>

\* stem_mode_exclusive: of both switches the one the DJ just turned stays.
ModeExclusive(sw, keep) ==
  [s \in {"stems", "pre"} |-> sw[s] /\ ~(s # keep /\ sw["stems"] /\ sw["pre"])]

\* A row of the menu: prestem_settings_changed, whole, with the tick that ends
\* it; or mods_stem_settings_changed, which comes here when it took PRE-STEMS off.
PsSettings(row) ==
  /\ PsHappens
  /\ LET sw == ModeExclusive([psSwitch EXCEPT ![row] = ~@], row)
     IN  /\ psSwitch' = [stems |-> sw["stems"], pre |-> sw["pre"]]
         /\ IF row = "pre" \/ psSwitch.pre # sw["pre"]
            THEN /\ psOn' = (sw["pre"] /\ ~sw["stems"]) /\ psTrack' = Sought(psSwitch')
                 /\ psLoading' = (psOn' /\ psTrack' # NoTrack) /\ psSel' = Full
                 /\ psGen' = psGen + IF psTrack' = psTrack THEN 1 ELSE 2
            ELSE UNCHANGED <<psOn, psTrack, psLoading, psSel, psGen>>
  /\ UNCHANGED <<psSource, psSet, psMedia, psDead, psWork, psAudio, psPaint, psWave, psPreWas,
                 psRouted, psAsked>>

\* prestem_ui_snapshot's flags, as prestem_ui_selectable reads them: ready, or
\* loading, unless a page could not be read.
MediaReady(g) == ~psMedia[g].failed /\ psMedia[g].requested \in psMedia[g].ready
Selectable ==
  /\ psOn
  /\ IF psSet = psGen THEN MediaReady(psSet) \/ ~psMedia[psSet].failed ELSE psLoading

\* pst_part_down and prestem_ui_request_state.
PsTap(part) ==
  /\ PsHappens /\ psSwitch.pre /\ ~psSwitch.stems /\ Selectable
  /\ psSet = psGen \/ psLoading
  /\ psSel' = (psSel \ {part}) \cup ({part} \ psSel) /\ psAsked' = psGen
  /\ UNCHANGED <<psSource, psSwitch, psOn, psTrack, psGen, psLoading, psSet, psMedia, psDead,
                 psWork, psAudio, psPaint, psWave, psPreWas, psRouted>>

\* The deck loads another track.
PsLoads(t) ==
  /\ PsHappens /\ t # psSource /\ psSource' = t
  /\ UNCHANGED <<psSwitch, psOn, psTrack, psGen, psSel, psLoading, psSet, psMedia, psDead, psWork,
                 psAudio, psPaint, psWave, psPreWas, psRouted, psAsked>>

-----------------------------------------------------------------------------
(* The worker.                                                              *)

Using == {r \in {psAudio, psPaint} : r.at # "idle"}

\* A new generation: retire unlinks the old set,
PsUnlink ==
  /\ psWork.at = "idle" /\ psWork.seen # psGen
  /\ psWork' = [psWork EXCEPT !.at = "retire", !.old = psSet] /\ psSet' = NoSet
  /\ UNCHANGED <<psSource, psSwitch, psOn, psTrack, psGen, psSel, psLoading, psMedia, psDead,
                 psAudio, psPaint, psWave, psPreWas, psRouted, psAsked, psEvents>>

\* waits for every user to be gone, frees it, and takes the request as it is.
Taken ==
  /\ psLoading' = (psOn /\ psTrack # NoTrack)
  /\ psWork' = [at |-> IF psLoading' THEN "load" ELSE "idle", gen |-> psGen, seen |-> psGen,
                old |-> NoSet]
  /\ psMedia' = [g \in DOMAIN psMedia \cup {psGen} |->
                   IF g = psGen THEN [track |-> psTrack, ready |-> {}, requested |-> 0, failed |-> FALSE]
                   ELSE psMedia[g]]
RetireUnwaited ==   \* seeded fault: the set is freed under its users
  /\ psWork.at = "retire"
  /\ psDead' = psDead \cup ({psWork.old} \ {NoSet}) /\ Taken
  /\ UNCHANGED <<psSource, psSwitch, psOn, psTrack, psGen, psSel, psSet, psAudio, psPaint,
                 psWave, psPreWas, psRouted, psAsked, psEvents>>
PsRetire ==
  /\ psWork.at = "retire" /\ (psWork.old = NoSet \/ Using = {})
  /\ psDead' = psDead \cup ({psWork.old} \ {NoSet}) /\ Taken
  /\ UNCHANGED <<psSource, psSwitch, psOn, psTrack, psGen, psSel, psSet, psAudio, psPaint,
                 psWave, psPreWas, psRouted, psAsked, psEvents>>

\* What a load may find on the media.
Bundles == [index : {"none", "another track's", "the track's"}, manifest : {"broken", "its own"},
            form : {"raw", "paged"}, tables : BOOLEAN, pictures : {"none", "whole", "damaged"}]
\* pgopen: a page table that is not the one the index vouches for, or leaves a hole.
\* Damage is refused there, and never read whole instead.
Opens(b) == b.form = "raw" \/ b.tables
\* The display files may be missing; one that is named must validate.
Pictured(b) == b.pictures # "damaged"
\* pst_media_load: the whole pair, or a paged one's first page, or a problem and
\* nothing is kept.
BundleLoads(b) == b.index = "the track's" /\ b.manifest = "its own" /\ Opens(b) /\ Pictured(b)
FirstPages(b) == IF b.form = "paged" THEN {0} ELSE PsPages

\* The load is over: published unless a newer generation cancelled it.
SeenLate(b) ==   \* seeded fault: the generation is marked seen when its load is over
  /\ psWork.at = "load"
  /\ psWork' = [psWork EXCEPT !.at = "idle", !.seen = psGen]
  /\ IF psWork.gen = psGen
     THEN /\ psLoading' = FALSE /\ psSet' = IF BundleLoads(b) THEN psGen ELSE psSet
          /\ psMedia' = [psMedia EXCEPT ![psGen].ready = FirstPages(b)]
     ELSE UNCHANGED <<psLoading, psSet, psMedia>>
  /\ UNCHANGED <<psSource, psSwitch, psOn, psTrack, psGen, psSel, psDead, psAudio, psPaint, psWave,
                 psPreWas, psRouted, psAsked, psEvents>>
PsPublish(b) ==
  /\ psWork.at = "load"
  /\ psWork' = [psWork EXCEPT !.at = "idle"]
  /\ IF psWork.gen # psGen THEN UNCHANGED <<psLoading, psSet, psMedia>>
     ELSE /\ psLoading' = FALSE
          /\ IF BundleLoads(b)
             THEN psSet' = psGen /\ psMedia' = [psMedia EXCEPT ![psGen].ready = FirstPages(b)]
             ELSE UNCHANGED <<psSet, psMedia>>
  /\ UNCHANGED <<psSource, psSwitch, psOn, psTrack, psGen, psSel, psDead, psAudio, psPaint, psWave,
                 psPreWas, psRouted, psAsked, psEvents>>

\* pst_media_service: the page asked for, or the next one missing; a page that
\* will not read, or a cancel under it, fails the set.
PsService(ok) ==
  /\ psWork.at = "idle" /\ psWork.seen = psGen /\ psSet # NoSet
  /\ LET md == psMedia[psSet]
         lacks == PsPages \ md.ready
         from == {p \in lacks : p >= md.requested}
         page == CHOOSE p \in (IF from # {} THEN from ELSE lacks) :
                   \A q \in (IF from # {} THEN from ELSE lacks) : p <= q
     IN  /\ ~md.failed /\ lacks # {}
         /\ psMedia' = [psMedia EXCEPT ![psSet] =
              IF ok THEN [md EXCEPT !.ready = @ \cup {page}] ELSE [md EXCEPT !.failed = TRUE]]
  /\ UNCHANGED <<psSource, psSwitch, psOn, psTrack, psGen, psSel, psLoading, psSet, psDead, psWork,
                 psAudio, psPaint, psWave, psPreWas, psRouted, psAsked, psEvents>>

-----------------------------------------------------------------------------
(* The audio thread: prestem_audio.                                         *)

PsBlock ==
  /\ psAudio.at = "idle" /\ psSwitch.pre /\ ~psSwitch.stems /\ psOn /\ psSource # NoTrack
  /\ psAudio' = [at |-> "in", sel |-> psSel, set |-> NoSet, source |-> psSource]
  /\ UNCHANGED <<psSource, psSwitch, psOn, psTrack, psGen, psSel, psLoading, psSet, psMedia, psDead,
                 psWork, psPaint, psWave, psPreWas, psRouted, psAsked, psEvents>>
PsBlockLooks ==
  /\ psAudio.at = "in" /\ psAudio' = [psAudio EXCEPT !.at = "mix", !.set = psSet]
  /\ UNCHANGED <<psSource, psSwitch, psOn, psTrack, psGen, psSel, psLoading, psSet, psMedia, psDead,
                 psWork, psPaint, psWave, psPreWas, psRouted, psAsked, psEvents>>

\* pst_media_mix over one page: it is asked for, and mixed when it is there.
Routes(page) ==
  psAudio.set # NoSet /\ psAudio.set = psGen /\ psMedia[psAudio.set].track = psAudio.source
PsMix(page) ==
  /\ psAudio.at = "mix" /\ psAudio' = PsIdle
  /\ IF Routes(page)
     THEN /\ psMedia' = [psMedia EXCEPT ![psAudio.set].requested = page]
          /\ psRouted' = (psRouted \/ (psAudio.sel # Full /\ page \in psMedia[psAudio.set].ready
                                       /\ psMedia[psAudio.set].track # psAudio.source))
     ELSE UNCHANGED <<psMedia, psRouted>>
  /\ UNCHANGED <<psSource, psSwitch, psOn, psTrack, psGen, psSel, psLoading, psSet, psDead, psWork,
                 psPaint, psWave, psPreWas, psAsked, psEvents>>

-----------------------------------------------------------------------------
(* The waveform worker.                                                     *)

\* One round: the mode just went off, the waveform was replaced, or paint.
PsWaveRound ==
  /\ psPaint.at = "idle" /\ psPreWas' = psSwitch.pre
  /\ psWave' = [track |-> IF psSwitch.pre \/ psSwitch.stems THEN psSource ELSE psWave.track,
                shows |-> IF (psPreWas /\ ~psSwitch.pre) \/ psWave.track # psSource THEN Full
                          ELSE psWave.shows]
  /\ psPaint' = IF psSwitch.pre /\ ~psSwitch.stems THEN [PsIdle EXCEPT !.at = "in"] ELSE psPaint
  /\ UNCHANGED <<psSource, psSwitch, psOn, psTrack, psGen, psSel, psLoading, psSet, psMedia, psDead,
                 psWork, psAudio, psRouted, psAsked, psEvents>>
\* prestem_wave_apply: the set, the selection, and the generation once more
\* before the write.
PsPaintLooks ==
  /\ psPaint.at = "in"
  /\ psPaint' = IF psSet # NoSet /\ psSet = psGen THEN [PsIdle EXCEPT !.at = "write", !.set = psSet, !.sel = psSel]
                ELSE PsIdle
  /\ UNCHANGED <<psSource, psSwitch, psOn, psTrack, psGen, psSel, psLoading, psSet, psMedia, psDead,
                 psWork, psAudio, psWave, psPreWas, psRouted, psAsked, psEvents>>
PsPaintWrites ==
  /\ psPaint.at = "write" /\ psPaint' = PsIdle
  /\ psWave' = IF psWave.track = psMedia[psPaint.set].track /\ (psPaint.sel = Full \/ psPaint.set = psGen)
               THEN [psWave EXCEPT !.shows = psPaint.sel] ELSE psWave
  /\ UNCHANGED <<psSource, psSwitch, psOn, psTrack, psGen, psSel, psLoading, psSet, psMedia, psDead,
                 psWork, psAudio, psPreWas, psRouted, psAsked, psEvents>>

-----------------------------------------------------------------------------
PsWorks == PsUnlink \/ PsRetire \/ \E b \in Bundles : PsPublish(b)
PsReads == PsBlockLooks \/ \E p \in PsPages : PsMix(p)
PsPaints == PsWaveRound \/ PsPaintLooks \/ PsPaintWrites
PsNext ==
  \/ PsTick \/ \E row \in {"stems", "pre"} : PsSettings(row)
  \/ \E part \in Full : PsTap(part)
  \/ \E t \in PsTracks : PsLoads(t)
  \/ PsUnlink \/ PsRetire \/ \E ok \in BOOLEAN : PsService(ok)
  \/ \E b \in Bundles : PsPublish(b)
  \/ PsBlock \/ PsBlockLooks \/ \E p \in PsPages : PsMix(p)
  \/ PsWaveRound \/ PsPaintLooks \/ PsPaintWrites

\* The display ticks, the two workers run, a block is over; and a block or a
\* repaint takes a small part of its period, so that again and again, when the
\* worker looks, nobody is in a set.
NobodyIsIn == psAudio.at = "idle" /\ psPaint.at = "idle"
PsSpec ==
  /\ PsInit /\ [][PsNext]_psVars
  /\ WF_psVars(PsTick) /\ SF_psVars(PsWorks) /\ WF_psVars(PsReads) /\ WF_psVars(PsPaints)
  /\ []<>NobodyIsIn

-----------------------------------------------------------------------------
(* Properties.                                                              *)

\* The worker frees no set a block or a repaint is still using (prestem.c:147-159):
\* a user counts itself in before it looks, the worker unlinks before it counts.
PsViewIsAlive == psAudio.set \notin psDead /\ psPaint.set \notin psDead

\* A selection is of the generation it was asked in: a track or mode change under
\* a queued tap, or a tap while a load is cancelled, never leaves a part muted on
\* what plays next.
SelectionDiesWithItsTrack == psSel # Full => psAsked = psGen

\* No block of one track is mixed from another track's pair, whatever moved
\* between the source, the generation and the set (prestem.c:330-332).
RoutedIsItsOwn == ~psRouted

\* The pair, the selection and the source stay of one generation across the worker,
\* the tick, the mix and the repaint (prestem.c:147-229, 330-332).
PairIsOfTheTrack == PsViewIsAlive /\ SelectionDiesWithItsTrack /\ RoutedIsItsOwn

\* LOADING is not for ever: once nothing more happens the last generation has
\* been loaded or refused, though any number of loads were cancelled before it.
LoadingEnds == <>[]~psLoading

\* "Off: the deck's own waveform goes back" (wave/stems.c:349-352), and while a set
\* plays the waveform comes to show what the selection lets through.
WaveComesToTell ==
  <>[](/\ ~psSwitch.pre => psWave.shows = Full
       /\ (psOn /\ psSet = psGen /\ psWave.track = psMedia[psSet].track) => psWave.shows = psSel)

\* Nothing waits for ever: the load ends and the waveform tells what plays.
WaitsEnd == LoadingEnds /\ WaveComesToTell

\* "A picture still carrying fader positions would be describing a mix nothing is
\* playing" (wave/stems.c:350-352): the waveform ends on a selection only when a set
\* plays it.
WaveTellsNothingElse ==
  <>[](psWave.shows # Full /\ psWave.track = psSource => psSet = psGen /\ ~psMedia[psSet].failed)
=============================================================================
