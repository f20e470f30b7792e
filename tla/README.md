# cdj3k-mods: specification and proofs

TLA+ modules, TLC configurations and TLAPS proofs for cdj3k-mods: from the track
the DJ loads, over the stems that are fetched, kept, decoded and mixed, to the
pads, the panels, the library and the theme the mods put on the deck, and the
scripts that install them. Paths below are relative to the repository;
`stem/`, `wave/`, `xpad/`, `cue/`, `kit/`, `lamp/`, `theme/`, `grid/`, `browse/`,
`db/` and `core/` stand for directories under `package/deck/mods/`,
`stemd_client/` for `package/deck/stemd_client/` and `updater/` for
`package/updater/src/`.

- [Inventory](#inventory): the system's parts, state, operations, hard behaviours
- [Plan](#plan): the modules, written and to come
- [Modules](#modules): how each one's state and actions correspond to the code
- [Runs](#runs): what TLC checks, with which bounds
- [Fairness](#fairness)
- [Proofs](#proofs)
- [Where code and comments disagree](#where-code-and-comments-disagree)
- [Not modelled](#not-modelled)

To reproduce: `tlc -config MCStemStore.cfg MCStemStore` and so on, each cfg with
the module the module the [table of runs](#runs) names; `tlapm StemStoreProofs.tla` and so
on, for the eight modules the section on [proofs](#proofs) names.

## Inventory

The program is a shared object (`ep122_shim.so`) preloaded into the CDJ-3000's
application, a sidecar process (`stemd_client`) that talks to a stem server on
the network, and the shell scripts that install both. The shim hooks virtual
tables of the application, so most of its code runs on threads it does not own.

### Threads

| thread | does | code |
| --- | --- | --- |
| message thread | display ticks, touches, menus, settings, repaints; notices track changes | `stem/audio_probe.c`, `stem/job_settings.c`, `stem/ui/`, `kit/`, `browse/`, `grid/`, `theme/` |
| audio thread | reads the source, mixes what is resident, plays the X-PAD, commits mutes | `stem/audio.c`, `stem/audio_mix.c`, `xpad/audio.c` |
| deck tasks | pads and PLAY | `cue/`, `xpad/deck.c`, `stem/gc.c` |
| loader | follows the generation, frees, decodes, publishes; scans loops and samples | `stem/job_loader.c`, `stem/store.c`, `stem/gc.c`, `xpad/bank.c` |
| separator | one separation at a time over the sidecar's socket | `stem/job.c`, `stem/job_separator.c`, `stem/ipc.c` |
| offline worker | loads pairs that lie beside the track | `stem/prestem.c` |
| waveform worker | analyses the resident set, paints the columns | `wave/stems.c`, `wave/analyze.c`, `wave/paint.c` |
| library and reply threads | the deck's own: replies with grids and waveforms, writes | `stem/grid.c`, `db/`, `theme/wave.c` |
| sidecar (a process) | one connection at a time, upload, poll, fetch, discovery | `stemd_client/` |

### Components

For each: its state, what it does, who it meets, and what makes it correct.
`PROJECT.json` gives each one's status.

**Stem store** (`stem/store.c`). `g_set`, the one decoded set, and `g_inuse`, the
number of readers between acquire and release. The audio thread may not wait and
the loader may not free early, with no lock between them: the loader takes the
pointer out, waits a bounded time for the count to be zero and abandons the set
if it never is. Correct when no reader touches freed memory, the count is exact
on every exit, and the loader always gets on.

**Stem job** (`stem/job.c`, `job_loader.c`, `job_separator.c`,
`job_settings.c`, `audio_probe.c`). A handful of unlocked words that say which
track the stems are for. The message thread writes path, then generation; the
loader and the separator compare them before and after work that takes seconds.
Correct when a set of another track never stays resident, and a track whose
stems can be had is served.

**Stem link** (`stem/ipc.c`, `job.c`, `job_separator.c`,
`stemd_client/session.c`, `main.c`, `http.c`, `shared/stem_proto.h`). A stream
socket of framed messages without job numbers, a two-slot backlog, a socket
buffer that fills, fixed spool file names. Both sides cancel, time out, die and
come back. Correct when a track's stems are its own, what the server gets is one
whole track, no separation parks the deck's thread, an HTTP answer is whole or
refused, and the server the deck is told of is the one there is.

**What a pair passes through**: the *source* (`stem/audio.c`, `audio_probe.c`,
`decode.c`: which track plays), the *media cache* (`stem/cache.c`: entries built
in a staging directory and renamed into place on a stick that can be pulled),
the *decode* (`stem/store.c`, `decode.c`, `audio_rate.c`: two threads, one
verdict, a rate still being measured), the *groove circuit* (`stem/gc.c`: decoded
loops under the mix), *offline stems* (`stem/prestem*.c`, `mode.c`: a generation,
a worker, a mode exclusive with server stems). Correct when an entry that is
found is whole, nothing is freed under its reader, what is mixed is of the track
that plays, and every wait ends.

**Under the DJ's hands**: the *mix* (`stem/audio_mix.c`, `loop.c`: faders, held
mutes, loops), *cue pads* with *Gate Cue*, *Preview* and *Smart Cue* (`cue/`),
the *X-PAD* (`xpad/`: sampler, roll, overdub), the *band* several panels share
(`kit/band.c`), the *lamps* (`cue/led.c`, `lamp/`), the *stems row*
(`stem/ui/`). Correct when a press is one claimer's from down to up, a hit sounds
once and in time, a gate ends with its pad, a mute lands on its quarter, and what
a panel shows is so.

**What the deck shows and knows**: the *waveform* scaled by the faders (`wave/`),
the *theme* (`theme/`: images recoloured in place, colour tables, a memo), the
*beat grid* and its *panel* (`stem/grid*.c`, `grid/`), the *library* and the
*browser's EDIT* (`db/`, `browse/`). Correct when nothing of the mods stays in
memory of the application's after they let go, and an edit is written whole.

**Start and installation**: *symbol resolution* and the *patch journal*
(`core/resolve*.c`, `core/common.c`), the *settings record* (`core/common.c`),
the *installer* (`updater/`). Correct when what is not recognised is refused,
what is refused leaves stock behaviour, and a power cut anywhere loses one
change and never the deck.

### What is hard

Steps of two threads between two unlocked accesses; a check before seconds of
work whose answer is used after it; frames of a cancelled job read by the next;
a pointer and its count, a tempo and its track, an id's two halves, written one
after the other under readers; a touch whose meaning changes between its press
and its release; memory of the application's that the application rebuilds,
reuses and repaints; a queue, a buffer or a table that is full; a server, a
sidecar or a stick that goes away; a wait that must end although its partner
never answers. `PROJECT.json` lists each at its line under `hazards`, with the
properties that cover it or why none does.

## Plan

| order | modules | status |
| --- | --- | --- |
| 1 | `StemStore`, `StemStoreAbs`, `StemStoreProofs` | written, checked, proved |
| 2 | `StemJob`, `StemJobProofs` | written, checked, safety proved |
| 3 | `SepSession`, `SepSessionProofs` | written, checked, safety proved |
| 4 | `StemCache`, `GrooveCircuit`, `PreStems`, `StemSource`, `StemDecode` | written, checked |
| 5 | `GateCue`, `CuePad`, `XpadSeq`, `XpadBank`, `KitBand`, `PadLamps` | written, checked |
| 6 | `SettingsRecord`, `HookJournal`, `Updater`, `ThemeImages` | written, checked |
| 7 | `BeatGrid`, `GridEdit`, `MoveWrite`, `Reorder`, `Discovery`, `HttpCall` | written, checked |
| 8 | `StemMix`, `StemPanel`, `WaveStems`, `ThemeWave`, `SymbolResolve` | written, checked |
| 9 | `MediaProofs` (cache, offline pairs, groove table), `StemLoadProofs` (source, decode, answers), `CueProofs` (gate, pads, X-PAD), `DeckProofs` (record, images, grid panel, patches), `ViewProofs` (row, waveform, theme, mix) | safety proved |
| 10 | the one invariant still only checked: `SymbolResolve` (`RightOrRefused`, without its RECURSIVE walk of the base classes) | next |
| 11 | the job's snapshot as a register (`stem/job.c:71-114`), the waveform codec as operators, the linked player's volumes | to come |

Compositions. `SepSession` joins deck, sidecar, spool files and cache, the
loader being one step; `StemJob` joins the three deck threads, the separation
being the frames that end it. `CuePad` joins the claimers of a pad, `KitBand` the
panels that want the band, `StemPanel` the row and the job's reports, `MoveWrite`
the two held edits and the one thread that writes them, `PreStems` the mode, the
worker, the mix and the waveform. The five composite modules `MCMedia`,
`MCPlay`, `MCDeck`, `MCLibrary` and `MCView` are of another kind, see
[Runs](#runs).

Abstract specification. `StemStoreAbs` (a set offered, taken, freed when no one
holds it) is implemented by `StemStore`.

## Modules

Every module's head says what it is about and what it leaves out; the comment
beside a variable names the word of the code it stands for, and `PROJECT.json`
maps each definition to its lines. In each, an action is one access of what is
shared, or a whole handler where all of its state is one thread's. Names carry a
prefix where several modules meet in one composite (`Sc` cache, `Gc` groove,
`Ps` offline, `So` source, `Sd` decode, `Xs`/`Xb` X-PAD, `Kb` band, `Gt` gate,
`Cp` pads, `Pl` lamps, `Ti`/`Tw` theme, `Sr` settings, `Hj` journal, `Ud`
installer, `Bg`/`Ge` grid, `Mv` library writes, `Br` browser, `Di` discovery,
`Hc` HTTP, `Sm` mix, `Sp` panel, `Ws` waveform, `Rs` resolver).

### StemStore

One reader process per thread that brackets its use, one prober per thread that
calls `stem_store_rate`, one loader.

| state | code |
| --- | --- |
| `gSet`, `inuse` | `g_set`, `g_inuse` |
| `heap[s]` | whether address `s` is free, under construction or a complete set |
| `rpc`, `held` | where a reader stands in acquire/release and the pointer it loaded |
| `wpc`, `fresh`, `old`, `spins` | where the loader stands, its locals in publish and `set_retire` |

Each atomic access is an action: `AcquireCount`, `AcquireLoad`,
`AcquireBackOut` and `Release` (store.c:57-80); `Exchange`, `DrainSpin`,
`DrainDone`, `DrainLeak` and `Reclaim` (`set_retire`, 102-119); `BeginPublish`,
`DecodeOk`, `DecodeFail`, `Install` (371-454). The atomics are sequentially
consistent in the code, so interleaving is the right semantics for them.
Addresses are reused: a set freed too early can be the next one built.

`StemStoreAbs` has three variables: what is offered, which sets exist, and which
set each reader holds; a set is freed only when it is not offered and not held.

### StemJob

A program counter per thread (`mpc`, `lpc`, `spc`) with the locals that outlive
a step. An action runs from one access of a shared word to the next, so
`g_cur_gen + 1` is `GenLoad` and `GenStore`, and a path being copied can be read
as `Torn`. The loader's loop is `LoaderTop`, `ReleaseAll`, `TakeDelivery`,
`LoaderDue`, `BeginServe`, ..., `EndServe`; a publish is one value of `resident`
because `StemStore` shows how it replaces the set. Environment: the DJ loads a
track, presses the STEMS row, a server turns up, a decode or probe fails for a
passing reason, the volume refuses the entry, the pool rate turns out wrong.

### SepSession

Each connection is two queues of frames. `dpc` walks the separator thread
through `run_separation` and `refresh_status`; `spc` walks the sidecar through
`session_run`. A PCM frame carries the track it was cut from, a spool file the
track whose audio it holds, so the properties can say whose stems an entry has.
Timeouts are actions enabled while nothing arrives (or nothing drains); a full
socket is `Capacity` frames; the backlog holds two connections and blocks the
third in `connect(2)`. A write to a server that dies inside a frame leaves the
rest of the payload in the stream as a `bytes` frame, which a later header read
takes for anything. `abandoned` is history: it becomes true at the step where the
deck leaves a job the sidecar still has to do or is doing (`HasWork`), and no
step of the program reads it.

Environment: track loads, the DJ's application restarting, the sidecar killed
and started again, a server that refuses or breaks off any request, the idle
probe. The server is external: it takes a body, finishes the job or not, keeps
the result until it is deleted.

### What a pair passes through (`MCMedia`)

- **StemSource**. `SoSetSource`/`SoUnset` are the hook on the stretcher's source
  (audio.c:550-590), `SoReads` and `SoCopies` the audio thread's read under a
  pool's id and its copy, a word a step, `SoSees`, `SoReadsLo` and `SoActs` the
  message thread's watch and its two reads, `SoOpens`/`SoReports` the one-slot
  capture of an opened file and `soBound` the ids bound to paths.
- **StemCache**. `StoreStep` is `stem_cache_store` from the key to the rename, one
  file operation a step, over files that may be partly written, in the page cache
  or on the medium; `Lookup` is the loader's; `Pull`, `Insert`, `PowerCut` and
  `ScArrives` are the stick. With the stick out the same paths lead into the
  deck's own file system, as they do for the code.
- **StemDecode**. `SdPlays` and `SdJumps` are the windows the pool's rate is
  measured by, `SdAsksRate`, `SdAsksDeck` the two waits before a decode,
  `SdThread` one of the two threads in `load_one`, `SdJoins` the verdict. A file is
  sound or dead once and for all; memory and the reader chain can fail anywhere.
- **GrooveCircuit**. `GcMix` is the reader of a block (count, look, read, leave),
  `GcLoad` the loader's poll with its unlink, wait, free and scan. The poll keeps
  the mount path and the rate it found; what is on that path is asked again when
  the config is opened and for each of its files. `GcPress` is the
  pad's arming in two stores, `GcTrackChanges` the disarming. A buffer is the
  number of the scan that loaded it, so that a view of freed memory is a number
  the table no longer has.
- **PreStems**. `PsTick`, `PsSettings` and `PsTap` are the message thread,
  `PsUnlink`, `PsRetire`, `PsService` and `PsPublish` the worker, `PsBlock` to
  `PsMix` a routed block, `PsWaveRound` to `PsPaintWrites` the repaint. A set is
  its generation; `psMedia` says what became of it. What lies beside a track is one
  of `Bundles`: whether the index names it, whose its manifest is, and which pages
  open; `BundleLoads` is the loader's verdict on it.

### Under the DJ's hands (`MCPlay`)

- **XpadSeq**. `Block(a)` is `xpad_audio_block` whole: the head, what the bar
  plays, the roll and the finger's first hit, what is recorded, over a span of `a`
  units. The record's read of the count and its store are `PushReads` and
  `PushStores`, for the clear by the message thread falls between them.
- **XpadBank**. The loader's scan with the names packed in order, the mix's view,
  the deck task that checks `xpad_open` and stores after it, the panel's gesture
  and HOLD.
- **KitBand**. `kit/band.c` as operators on one record, with its clients: presses,
  gates, the tick's release of what nobody holds. The application is outside: it
  takes one of the mods' modes or not.
- **GateCue**. Every load, compare-and-exchange and exchange of
  `gate_cue_state.session` is a step of the pad's or the PLAY's task; the message
  thread's switch-off is flag, then session. `GtTap` is the plate between TIME and
  TEMPO, with the taps a tick has not taken yet.
- **CuePad**. `CpPress` sends DOWN to everybody and asks for a claimer in the
  code's order; `CpRelease` asks the owner remembered. The deck's `setHere` lands
  later (`CpSetHere`), which is what PREVIEW redirects and Smart Cue watches.
- **PadLamps**. `PlAppWrites` is the hook on the application's lamp writes,
  `PlTickWord` and `PlTickPaints` the tick, `PlClaims` everything that moves a
  claim. `PlFast` lets a claim move twice in a tick.

### Start, look and installation (`MCDeck`)

- **ThemeImages**. `Sighted` is one sighting of an image under the lock: which pixels
  are still ours, the palette over the copy, the eviction of the least recently
  seen strip. A pixel is a picture of the application's, the colour tables it was
  drawn by and the palettes laid on it; the tables wear a theme of their own
  (`TiApplies`), so a strip can come themed, which `Sourced` is to notice
  (`img_ground_themed`). A bake of the database thread is three steps: the palette
  read on entry, the sighting under the lock, the return. The application paints,
  derives, moves and draws; `TiSelect` does not take the lock. `tiStray` remembers
  the strips that were given a label their coats are not of.
- **SettingsRecord**. Each system call of `mods_settings_save` is a step. A file
  has what is in it and what a power cut leaves of it; names move at once. A file
  is told from the others by the change it was made for, which `O_CREAT` under a
  name that is taken keeps (`SrOpens`).
- **HookJournal**. A place holds a wrapper or stock code, a wrapper calls what its
  patch found. A patch succeeds, is done without, or refuses its mod, whose
  patches are then given back newest first.
- **Updater**. The scripts, by the archive each is about to put in place (`udAt`,
  `udWrites`), written beside it, synced and renamed, a step each; `UdPowerCut` comes
  between any two. `UdFills` takes the room on the partition, and only `UdIsCleared`
  gives it back: until then `UdTarFails` ends the script, and the launcher starts it
  again. The companion's crash, the marker, its sync and the launch without it are
  steps of their own.

### Library and server (`MCLibrary`)

- **BeatGrid**. `BgReplies` walks a reply from its rescue to the staging,
  `BgThread(p)` arms and publishes on the tick or the pad, `BgForget` is the track
  change, `BgReads` the mix. An array is a number with the track, id and rate it is
  for, freed or not.
- **GridEdit**. `GeScale`, `GeRefused` and `GeReset` are the five buttons,
  `GeSwapped` the second of the two words of a swap.
- **MoveWrite**. Two edits wait in plain words (`mvBox`, `mvHeld`), stored and read
  one after another; the library's thread reads a table, writes a row a step, and
  may be refused.
- **Reorder**. One thread, but many callers: `BrEditPress`, `BrPress`, `BrMoves`,
  `BrLift`, `BrTick` are the mod's handlers, `BrShows`, `BrEnablesColumns`,
  `BrRebuilds` and `BrBarPaints` the deck between them.
- **Discovery**. `DiHello` to `DiReports` are the calls of one greeting; between
  them servers and avahi's cache change.
- **HttpCall**. `http_perform` over a wire of tokens. `HcFills` reads any number
  of them, `HcStarves` is the end of the stream or the timeout, at any place of
  each of the answers a server can send.

### What is seen and heard (`MCView`)

- **StemMix**. `SmMute` and `SmFader` are the message thread's publish with its
  read of the live mute before the store of the gain (`SmGainSet`); `SmBlockRuns`
  is the commit, part by part, and then the block: for each signal the coefficient
  it ends with, for each frame the beat it falls in.
- **StemPanel**. A C function is an operator from a panel to a panel; an event or a
  tick is a step. `SpWorldMoves` is what the job, the set and the settings do
  between two.
- **WaveStems**. The reply's two words, the worker's tick (bind, probe until the
  columns are still, copy, paint, restore) and the analysis in three steps
  (`WsPulled`, `WsStores`, `WsAborts`). Columns are the track's own at some gain;
  what the deck draws lands after what is written under it.
- **ThemeWave**. Both threads may be in the middle of a table (`twThread`), word by
  word; `TwRebuilds` is the application putting its own back.
- **SymbolResolve**. The passes in order over an image that is a record of what can
  be found in it; the images are the known one and some nine hundred that differ from
  it in one or two things that were added, lost, doubled or put in another's place.
  `Displaced` says of an image for which symbols another stands in the very place
  the symbol is looked for.

## Runs

| run | configuration | module | properties | result | distinct states |
| --- | --- | --- | --- | --- | --- |
| `store` | `MCStemStore.cfg` | `MCStemStore` | `NoUseAfterFree`, `IInv`, `RetireEnds`, `ImplementsAbs` | hold | 31 thousand |
| `job_safety` | `MCStemJob.cfg` | `MCStemJob` | `StaleSetIsDoomed`, `IInv` | hold | 5 million |
| `job_served` | `MCStemJobServed.cfg` | `MCStemJob` | `CachedTrackIsServed`, `DeliveredTrackIsServed` | hold | 90 thousand |
| `session` | `MCSepSession.cfg` | `MCSepSession` | `BodyIsOneTrack`, `EntriesAreOwnUnlessAbandoned`, `JobEndsOrConnects` | hold | 0.7 million |
| `media` | `MCMedia.cfg` | `MCMedia` | `NoTornEntry`, `EntryIsKept`, `GcTableIsTheSticks`, `PairIsOfTheTrack`, `WaitsEnd`, `SourceIsFollowed`, `PairIsJudged` | hold | 306 thousand |
| `play` | `MCPlay.cfg` | `MCPlay` | `HitsKeepTheirTime`, `PadsFollowTheHand`, `BandIsShared`, `GateIsTheDjs`, `PressesStayWhole`, `ClaimsReachThePanel` | hold | 365 thousand |
| `deck` | `MCDeck.cfg` | `MCDeck` | `CoatsAreCounted`, `CutsLoseOneChange`, `RefusedMeansStock`, `InstallIsSafe` | hold | 163 thousand |
| `library` | `MCLibrary.cfg` | `MCLibrary` | `GridIsTheTracks`, `PanelTellsTheGrid`, `EditsReachTheLibrary`, `EditLeavesNoTrace`, `ServerIsAsFound`, `WholeOrRefused` | hold | 375 thousand |
| `view` | `MCView.cfg` | `MCView` | `BlockIsTheRows`, `MuteKeepsTime`, `PanelIsTrue`, `NothingOfOursStays`, `ThemeIsWorn`, `RightOrRefused` | hold | 474 thousand |
| `grid_past` | `GridEditPast.cfg` | `GridEdit` | `NoReaderIndexesPast` | violated | |
| `tempo_own` | `MoveWriteTempo.cfg` | `MCLibrary` | `TempoIsItsOwn` | violated | |
| `theme_memo` | `ThemeMemo.cfg` | `MCView` | `AnswersAreThePalettes` | violated | |

**Composite modules.** `MCMedia`, `MCPlay`, `MCDeck`, `MCLibrary` and `MCView`
each hold five or six components that share no word. `scene` says which of them
moves, the others stay where they start, and TLC explores the union of their
state spaces in one run: nothing is gained from interleaving what does not
interact. Where components do interact, the interaction is inside a module (see
[Plan](#plan)); a module's neighbours are its environment actions.

What the passing runs show.

- `store`: two readers and a prober against any number of publishes and
  releases. No reader is ever inside freed memory, also when the loader gives up
  waiting; the count equals the readers it stands for (a conjunct of `IInv`); every
  retire ends even if a reader stays for ever. Two readers are enough because the
  loader sees only their number and the pointer each holds. Three addresses allow
  one resident, one abandoned and one under construction. The wait's bound is 2
  for 100000: it only has to be reachable and not at once.
- `job_safety`: all environment events, one of them per behaviour, with two loads
  over two tracks of which one has an entry that does not decode. Whenever a set
  that is not the current track's is resident, the step that removes it is already
  determined, except after the generation was rewound (below). Two tracks suffice
  to be wrong about a track, two loads to come back to one.
- `job_served`: with a track on the media and one that must be separated, two
  loads and one passing failure, each track the deck plays is eventually resident
  and ready: the loader's `served` latch and the retry time do not lose a track.
  Toggling and busy decks are left out: there the code does lose one (below).
- `session`: two connections, two jobs on the server, two loads, a socket of one
  frame, tracks of two frames, one poll for the 900 s of `POLL_MAX_SECONDS`, and
  one of: an application restart, a dead sidecar,
  a failed request, a probe. The body of every job the server accepted is all of
  one track; entries hold their own track's stems unless the deck has left a job the
  sidecar still had; the separator's thread always comes back, save for `connect(2)`,
  also from a server that answers every poll and never finishes: each PROGRESS
  resets the deck's silence budget, and what ends that job is the sidecar's own
  bound. Two chunks make a partial upload possible, one frame makes the socket fill
  inside it; a stale part or failure needs one earlier job. The tracks are alike,
  so the constraint `FirstIsA` names the first one loaded. What the theorems say of
  the link holds for any room and number of polls.
- `media`: one track and one id in the cache with two of pulls, insertions and
  cuts, enough to leave a half-built staging directory and come back to it; two
  mount paths, whatever is on them at first, and two changes of stick, rate or track:
  one stick for another under one path, and a loop that does not decode; offline pairs of
  two pages for two tracks; three tracks put on and one place to bind an id, so
  that bindings fall out; one load at a rate of 96 kHz with three windows.
- `play`: a bar of four units and blocks of none to two, so that a division falls
  on a block's end, in it, and between two; two banks and a stick with three
  names; two pads for everything that is one pad's or another's. Four hands and
  four touches are enough for a press, a switch-off in its middle, a release and a
  new press.
- `deck`: two sprites and two strips, one of them opaque, with room for one strip,
  two copies and three slots, so that each eviction is of the other strip; two themes,
  one of them with a themed ground, and the application's tables found; three of
  selections, repaints, moves and bakes, enough to draw by the tables of one theme
  what is labelled with the next, and to select between a bake's two reads;
  three changes of record and two cuts, a cut during a save that follows a cut save;
  three mods over three shared places; two installations and three faults: cuts,
  crashes, applications that end and a partition that fills, in any of the phases.
- `library`: two tracks with a grid and one without, room for one reply; an array
  of five beats that doubles once; two playlists and two edits, the second on top
  of the first; half a window of rows; two hosts and the documents that differ in
  one answer; a buffer of three tokens, shorter than the longest header.
- `view`: one part held and two that may be looped, a beat at the track's start
  and two on one position; a row of two parts; two tracks and two arrays with one
  binding; two themes, one of them with a dark ground; images in which a symbol's
  sibling, class, slot, window or literal is another's, beside those in which it is
  missing or found twice.

Bounds are constants and named in the configurations, and a bound stands in a
guard of what the environment does (`...Max...`), never of the code's own steps:
when connections run out a connection attempt fails, when jobs do the server
refuses, both answers the code handles. `CHECK_DEADLOCK FALSE` stands in the
configurations of `session` and of the composites: with the loads, events and
hands spent, those systems wait for the DJ, the installation has ended and the
resolver is done. The store and job runs check deadlock because the loader polls
for ever.

Where a run narrows the environment it does so because the code is known to break
outside: `TwRaces` (a theme selected while the other thread computes), `PlFast` (a
claim moves twice in a tick), one saver of the settings, tempi of `SdTempos` under
which no other listed rate is met. Each is a constant, so that the other case can be
run. Elsewhere the environment is whole and the property says which histories it
excepts: `tiStray` in `CoatsAreCounted`, `Displaced` in `RightOrRefused`, `gcUnseen` in
`GcTableIsTheSticks`, `udUnmarked` in `CompanionTriedOnce`. What either kind shows is
[below](#where-code-and-comments-disagree).

Some definitions are marked `Seeded fault:` in their comment: one action or
operator changed the way a slip in that code would. `PROJECT.json` pairs one with
every property of the passing runs, and TLC finds the property violated with it.

## Fairness

- `StemStore!LiveSpec`: weak fairness of the retire steps. The loader is a plain
  thread that yields between looks; nothing is asked of the readers.
- `StemJob!LiveSpec`: weak fairness of the message, loader and separator
  threads, which poll, and of the retry time passing. Because `SeparatorStep`
  holds the end of a separation, the assumption includes that the server answers
  or fails, which the silence budget (job.c:545) provides. The DJ, the settings
  and a server turning up owe nothing.
- `SepSession!LiveSpec`: weak fairness of the deck's thread only. The sidecar
  may stop at any step for good, and the server may never answer: this is what
  the deck's timeouts are for. The budget can run out only where no frame is
  there to be read; a sidecar that goes on polling is heard at every poll, and
  polls `MaxPolls` times.
- `GrooveCircuit`: weak fairness of the audio callback and the loader's poll,
  strong fairness of the loader's free. Its wait has no bound (gc.c:359), and a
  block is a small part of its period: a loader that looks every millisecond
  finds nobody inside again and again.
- `PreStems`: the display ticks, the worker, the block and the repaint go on;
  strong fairness of the worker, and `[]<>NobodyIsIn`, for the same reason
  (prestem.c:155).
- `BeatGrid`: replies, ticks, pads and the mix go on; strong fairness of the two
  exchanges that wait for readers, as above. The DJ loads and presses as he likes.
- `XpadBank`, `KitBand`, `PadLamps`: the display tick comes; the start-up dance
  ends by its own clock.
- `Updater`: a deck that is on takes its next step (`UdSteps`): the scripts, the
  launcher started again after one that failed, the reboot a phase asks for. The hand
  on the switch and the room on the partition owe nothing: that the room comes back
  (`<>[]~udFull`), and that a deck is switched on again where the script can only ask
  for it, are premises inside `DeckComesUp`.
- `MoveWrite`: the library's thread goes on handling messages.
- `StemMix`: blocks come, the clock's quarters come while there is a clock, and a
  handler returns.

In a composite each of these is asked in its own scene only.

## Proofs

Eight modules hold theorems. Each proves, about the components it extends, for
every value of the constants that the named assumption of the component allows:
the invariant holds at first, every action keeps it, and it implies the property.
The step's proof has one case per action, and the temporal step is the last.

| module | about | properties of the runs it proves |
| --- | --- | --- |
| `StemStoreProofs` | `StemStore` | `NoUseAfterFree`, `IInv`, `ImplementsAbs` |
| `StemJobProofs` | `StemJob` | `StaleSetIsDoomed`, `IInv` |
| `SepSessionProofs` | `SepSession` | `BodyIsOneTrack`, `EntriesAreOwnUnlessAbandoned` |
| `MediaProofs` | `StemCache`, `PreStems`, `GrooveCircuit` | `NoTornEntry`, `EntryIsKept` (an action property), `PairIsOfTheTrack` |
| `StemLoadProofs` | `StemSource`, `StemDecode`, `HttpCall` | `SourceIsFollowed`, `PairIsJudged`, `WholeOrRefused` |
| `CueProofs` | `GateCue`, `CuePad`, `XpadSeq` | `GateIsTheDjs`, `PressesStayWhole`, `HitsKeepTheirTime` |
| `DeckProofs` | `SettingsRecord`, `ThemeImages`, `GridEdit`, `HookJournal` | `CutsLoseOneChange`, `CoatsAreCounted`, `PanelTellsTheGrid`, `RefusedMeansStock` |
| `ViewProofs` | `StemPanel`, `WaveStems`, `ThemeWave`, `StemMix` | `PanelIsTrue`, `NothingOfOursStays`, `ThemeIsWorn`, `BlockIsTheRows` |

### The store and the job

`StemStoreProofs` proves about `StemStore`, for any finite set of readers, any
probers and addresses and any bound on the wait (`StoreAssumption`: readers are
finite, the null pointer is not an address, the bound is a natural number):

| theorem | states |
| --- | --- |
| `TypeCorrect` | `Spec => []TypeOK` |
| `CountIsExact` | `Spec => []InuseIsExact` |
| `ReadersAreSafe` | `Spec => []NoUseAfterFree` |
| `IInvHolds` | `Spec => []IInv` |
| `Refinement` | `Spec => ImplementsAbs` |

The argument. `NoUseAfterFree` alone is not inductive: that the loader frees
only when nobody reads depends on what it saw before. `IInv` adds that the
count is the cardinality of the counted readers, which pointers are live at each
point of the loader's walk (`LoaderWalk`), that the resident set is complete and
not the one being built, that no reader holds the set being built, and that at
the step that frees, no reader is inside the set to be freed
(`ReclaimIsAlone`). The last holds because the pointer is taken out first: once
the count is zero after that, a reader that arrives loads null or a later set.
`InitIInv` and `NextIInv` are the base and the step, one case per action; the
count's cases rest on the cardinality of a finite set with one element added or
removed. `Refinement` maps a reader's held pointer and the complete sets to the
abstract variables and uses `IInv` in every step.

`StemJobProofs` proves about `StemJob`, for any tracks and media, any set of
environment events and any bounds on loads and events (`JobAssumption`):

| theorem | states |
| --- | --- |
| `TypeCorrect` | `Spec => []TypeOK` |
| `StaleSetsLeave` | `Spec => []StaleSetIsDoomed` |
| `IInvHolds` | `Spec => []IInv` |
| `LoneWriterNeverRewinds` | `Spec => []~rewound` when no server turns up |

The argument. A set becomes stale in one of two ways. The path changes under a
resident set: it changes only while the message thread is away from its loop,
and that thread comes back having stored a generation above every one the
loader has seen (`SeenIsPast`), so the loader will free. Or the loader publishes
a set that is already stale: a cached one is caught by its second look, which is
about the set it published (`CheckIsOfOwnSet`); a delivered one is published
without a look at the track, and it is the generation that catches it
(`DeliveryIsWatched`). Both rest on the generation only growing. It has a second
writer, the separator when a server turns up, and the two accesses of each can
interleave: `rewound` marks that, the invariant excepts it, and
`LoneWriterNeverRewinds` shows that nothing else leads to it.
Typing needs one fact besides the types: a path the loader or the separator
works on was read whole (`PathsAreWhole`). The step lemmas follow the threads:
`MessageKeepsTypes`, `LoaderKeepsTypes`, `SeparatorKeepsTypes`, then the same
for `TrackInv`.

### The link (`SepSessionProofs`)

| theorem | states |
| --- | --- |
| `WholeTracksOnly` | `Spec => []BodyIsOneTrack` |
| `PairsStayWithTheirTrack` | `Spec => []EntriesAreOwnUnlessAbandoned` |

For any tracks, any length of an upload and of the socket's buffer, any number of
connections and jobs and any environment events (`SessionAssumption`). The
program has two processes and some forty actions, so the first lemma,
`StepsOnTheLink`, sorts every step into one of twenty-two kinds by what it does to
the two queues, the body and the server; the invariants are then kept kind by
kind.

`BodyIsOneTrack` needs to be known of a stream before the server has it. Two PCM
frames in a row on a queue are of one track, the first one on the queue is of the
body's, the one the deck sends next is of the last one's (`StreamsAgree`); a BEGIN,
a CANCEL or the tail of a broken payload parts two uploads. `Links` says that the
deck's connection is the newest and that the sidecar has left those before its
own.

The pairs need the whole round trip: what is queued, what the sidecar has taken
into its body, what the server has posted and what is on its way back are, on the
deck's own connection, of the job in hand, and each part comes once
(`LineIsTheJobs`). A whole upload is queued only with its END, and when the deck
has both parts nothing of it is left anywhere.

The proof changed the model and the property. The property first excepted jobs
cancelled after their upload, and the step of the poll loop that takes a FAILED
would not go through: the frame names no job, and on a link that is used again it
may be the answer to an upload cancelled before it was whole, which the server
broke off. The deck then leaves a job that the sidecar goes on with, and takes its
parts for the next one's. Three loads and one broken request are needed, more than
the run has; with them TLC shows it in 48 states. So the exception is now stated
about what happened and not about how: `abandoned`, set at any step at which the
deck leaves a job the sidecar still has.

### What a pair passes through (`MediaProofs`, `StemLoadProofs`)

| theorem | states |
| --- | --- |
| `EntriesAreWhole` | `ScSpec => []NoTornEntry` |
| `EntriesAreKept` | `ScSpec => EntryIsKept` |
| `PreStemsArePaired` | `PsSpec => []PairIsOfTheTrack` |
| `MixedLoopsAreAlive` | `GcSpec => []GcViewIsAlive` |
| `StemsFollowTheSource` | `SoSpec => []SourceIsFollowed` |
| `VerdictsAreFair` | `SdSpec => [](VerdictIsOfTheFile /\ NothingIsLeft)` |
| `PairsAreJudged` | `TemposAreTheirOwn => (SdSpec => []PairIsJudged)` |
| `AnswersAreWhole` | `HcSpec => []WholeOrRefused` |

- *Cache.* What is only in the page cache of the stick belongs to the one store in
  hand, and is the part it copies (`CachedIsInHand`); so a pull tears nothing that
  was renamed (`FinalIsSynced`). While no stick came back in the middle of a store,
  a store that reaches its rename has synced both parts (`StagedIsSynced`).
- *Offline pairs.* Generations only grow and the worker loads each at most once, so a
  set is named by its generation and what was freed is older than what is loaded
  (`FreedAreOlder`); it frees after it unlinked and saw every user gone
  (`UnlinkedFirst`).
- *Groove table.* The count is one exactly while the block reads
  (`ReaderIsCounted`), and the loader takes the table off before it waits for the
  count to be zero: while it frees and fills, no block is in the table
  (`TableIsOff`). `GcViewIsAlive`, that a block in the middle of its loop reads one
  the table still has, is the half of the component's promise that is an invariant.
- *Source.* A read of the two words of an id may be torn; then the count it took
  first is behind the one that follows, and the message thread acts again
  (`WatchedIsWhole`).
- *Decode.* A thread that returned nothing did so for the file, for want of memory
  or of the reader chain, or because the track moved on, and each stays so until
  the next load (`PullsAreFair`); what it holds it will drop on every way out
  (`HoldsWhatItDrops`). `TemposAreTheirOwn`: no held tempo moves the play head at
  another listed rate. The code relies on that and does not see to it (below);
  without it the verdict and the release hold still (`VerdictsAreFair`), the rate
  does not.
- *Answers.* For a buffer, an entity and an upload of any length (`HcAssumption`:
  naturals). Every answer is first taken apart: a status line, headers in which each
  line is one word or never ends within a buffer, and a body whose chunks begin at
  known places with known numbers of tokens before them (`AnswerIs`, `ChunksAre`).
  A call is then somewhere in it: at a header, so far into the body, at a chunk, so
  far into a chunk (`CallIs`); and the buffer's unread part followed by the wire is
  the answer from there on, up to where the peer broke off (`Stream`). A read moves
  tokens from the one to the other, also when it first moves the buffer down, and a
  line or a slice that is consumed moves the place by what it is long. So the
  headers end with the framing the server meant, also when a length stands beside
  `chunked`, and the three ways to end well are at the answer's end, but for the
  body that ends with the connection.

### The pads (`CueProofs`)

| theorem | states |
| --- | --- |
| `GateCueKeepsItsPromise` | `GtSpec => []GateIsTheDjs` |
| `PadsKeepTheirPromise` | `CpSpec => []PressesStayWhole` |
| `NothingIsHeardTwice` | `XsSpec => []HitsKeepTheirTime` |

- *Gate.* Only the pad's task opens a session, under a pad that is still down
  (`GateHasItsPad`); a consumed PLAY is in the latch until the release that found it
  is over (`OwedIsLatched`); what the DJ means by a tap is under the finger, in the
  queue or in force (`MeantIsKept`). Pads are the deck's eight (`GtAssumption`).
- *Pads.* The deck's count is the number of pads that are down and it has seen those
  no panel took (`HeldIsCounted`, `SeenAreTheDecks`).
- *X-PAD.* The spans of successive blocks join up, so a phase of the bar falls in
  one block of them; a block is half a bar at most (`XsAssumption`, from the clamp
  of audio.c:346-358), so no hit falls twice in one. After each block, an event
  recorded or played is half a bar at least from the next coming round of its phase
  (`Apart`), and a boundary of the running roll that is still to come is half a
  division at least from the pad's last hit, unless the roll has claimed it already
  (`RollWaits`). Both are asked, like the property, while the spans join up
  (`xsSaw.even`): a loop or a jump takes the head back over what it played.

### The deck's own memory (`DeckProofs`)

| theorem | states |
| --- | --- |
| `CutsLoseOneChangeAtMost` | `LoneSaver => (SrSpec => []CutsLoseOneChange)` |
| `NoCoatIsLaidTwice` | `TiSpec => []CoatsAreCounted` |
| `PanelKeepsTheWholeEdit` | `GeSpec => []PanelTellsTheGrid` |
| `RefusalsLeaveStock` | `HjSpec => []RefusedMeansStock` |

- *Record.* The save in hand writes neither the record in place nor the copy
  (`NamesAreApart`), what a rename brings into place was synced under the saver
  (`HandIsSynced`), and the record is moved aside over a copy no newer
  (`KeptIsThere`). `LoneSaver`: one thread saves at a time. The menu and the
  separator's thread share the temporary name and nothing keeps them apart; with
  two savers the property is false.
- *Images.* A sighting is taken apart into room, slot, visit, loan and release, and
  each part keeps `WorldIsTold`: what every buffer wears is what its slot tells, a
  strip that has gone astray excepted. Nothing is asked of the order of selections,
  bakes and draws, nor of how far the application's tables lag behind; a sighting
  that gives a label its coats are not of is what sends a strip astray.
- *Panel.* Until a remembered address is given to another track, an object is as it
  was loaded unless it is the one that was edited, and that one, with the word of a
  swap still to come, is what the panel asks for (`GeOwn`).
- *Patches.* For a journal of any length. From the newest wrapper of a place down,
  each calls what its patch found there, is of that patch's owner and was put there
  once, and the oldest found the stock code (`PatchesNest`); the mods patch one
  after the other and one that refused has nothing live (`OwnersInOrder`), so what
  is put back is the end of the list and not its middle. What runs when the
  application reaches a place is stated as the least set that holds what the place
  holds and all that its wrappers call, and not as a walk: that every wrapper of the
  list is in it, and nothing else, goes by the least live patch outside it
  (`LeastOf`, the least element of a set of naturals), which the prover can use where
  it cannot use the library's induction.

### What is seen and heard (`ViewProofs`)

| theorem | states |
| --- | --- |
| `PanelTellsTheTruth` | `SpSpec => []PanelIsTrue` |
| `NothingOfTheFadersStays` | `WsSpec => []NothingOfOursStays` |
| `TheThemeIsWorn` | `~TwRaces => (TwSpec => []ThemeIsWorn)` |
| `BlocksAreTheRows` | `SmSpec => []BlockIsTheRows` |
| `MutesMoveOnTheQuarter` | `SmSpec => MovesOnTheQuarter` |

- *Row.* Every handler of the row is a composition of functions from panel to panel,
  and each is shown to keep `RowIsTrue`: what a setter compares with before it draws
  is what was drawn or nothing (`GuardsAreTrue`), and a bar that is up shows the job
  last read (`BarIsTrue`). Those that run with no finger on the row also mute
  nothing and take it for nobody (`Leaves`).
- *Waveform.* An array on which a fader shows is the one the worker has copied, and
  shows what it wrote last (`ShownIsWritten`); the copy was made of the deck's own
  columns (`OwnIsTheDecks`), for the worker copies an array only when it has put
  back the last; and the analysis, between whose steps the deck and the DJ go on, is
  never made with something written (`WritesAfterAnalysis`).
- *Theme.* The invariant says of every place the mod knows whose words it shows: the
  stock's, the last that were written, or those of the loop that is under way
  (`SitesAreOurs`); that a place behind a loop's index has its words
  (`PassedAreDue`) and every other is going to be seen by it (`SitesAreSeen`); that
  the ground and the palette go along (`GroundGoesAlong`); and that a scan counts as
  done only when no copy is left out, or the application is rebuilding one and its
  reply will scan again (`ScansAreWhole`). The tables may be any finite set.
- *Mix.* The bisection finds the beat before a position in any ascending array, by
  least-element induction over the width of its interval (`BisectionFinds`); the
  walk from a cursor ends at the same beat or gives up to the bisection, so a
  frame's beat does not depend on the frames before it (`AnyCursor`). Whatever signal
  a part is derived from, it is heard at its own gain (`PartsAreHeard`). A mute is
  committed only by a call that has seen the clock as it is (`SeenIsTheClock`) and
  found it due (`CommitIsDue`). The theorem is the action half of `MuteKeepsTime`;
  the other half is liveness.

The hypotheses `TemposAreTheirOwn`, `LoneSaver` and `~TwRaces` are those
the runs make (see [Runs](#runs)), and each is met by the run's configuration. Without
them the code does break, and the README says how [below](#where-code-and-comments-disagree):
the run `theme_memo` is `TwRaces`.

### What is only model-checked

Liveness, which is out of the prover's reach with fairness and ENABLED:
`RetireEnds`, `CachedTrackIsServed`, `DeliveredTrackIsServed`,
`JobEndsOrConnects`, `WaitsEnd`, and the properties that state an eventuality
among the composites' (`PROPERTIES` of their configurations).

Safety without a theorem: `RightOrRefused`. `SymbolResolve` walks base classes
with RECURSIVE operators, and what it promises is about the images that are given,
which the run enumerates.

## Where code and comments disagree

Three runs keep a disagreement; `PROJECT.json` quotes both sides under
`findings`.

- `grid_past`: `stem_grid_edit_scale` orders the writes of pointer and count by
  the count the deck loaded, not by the one in place; after a doubling, a smaller
  edit leaves a reader the shorter array with the longer count.
- `tempo_own`: the held tempo and the track it is for are two words read one after
  the other by the library's thread; one track gets the other's tempo.
- `theme_memo`: two threads that miss in the theme's memo under two palettes leave
  the answer of one to the other.

The rest are definitions of the modules that TLC finds violated, without a run of
their own. Naming the definition as an INVARIANT or PROPERTY of a configuration
gives the shortest way there.

The stems' job and link:

- `StemStore!RateReadsLiveSet`: `stem_store_rate`, documented for any thread,
  reads the set outside acquire/release.
- `StemJob!CachedTrackIsServed` with STEMS off and on again: the path is emptied
  and only the generation moves; the loaded track is not served.
- `StemJob!DeliveredTrackIsServed` with a busy deck: a delivered pair that meets
  one is dropped and nothing asks again.
- `StemJob!AnnouncedPairIsComplete`: the loader clears the parts the separator is
  collecting; the pair then never completes and the job ends by silence.
- `SepSession!EntriesAreOwn`: parts of a job the deck left while the sidecar still
  had it are taken as the next job's and cached under its key. It leaves one by a
  cancel during the fetch, and by a `JOB_FAILED` that is the late answer to an
  earlier, cancelled upload which the server broke off: the frame names no job
  (job_separator.c:144).
- `SepSession!StreamStaysFramed`: a server that fails inside a frame leaves
  payload to be read as headers.
- `SepSession!NoOrphan`: a deck that goes away during a separation leaves the job
  on the server.
- `SepSession!JobEnds`: the send and receive timeouts are set after `connect(2)`,
  which can block behind the backlog.
- The generation is incremented by two threads without an atomic add and can be
  rewound (`rewound` in `StemJob`); readiness can be set after the message thread
  cleared it (job_loader.c:70-76) and the audio thread does not look at it in any
  case; a STATUS edge with a set still resident does nothing; the loader unlinks
  the fixed spool names after a decode of seconds, when they can be the next pair;
  a `JOB_BEGIN` that arrives while a separation is awaited is skipped.

Media, decode and mix:

- `StemCache!WhatIsThereIsAsGood`: a pair that will not decode is separated again,
  and the rename onto the bad entry fails (cache.c:732-734).
- `GrooveCircuit!GcDifferentStickIsScanned`: the poll compares the mount path and
  the rate (gc.c:525), not the stick; one that was put in where the table's own was,
  before a poll saw the path empty, keeps the other's loops on the pads, or none,
  against gc.c:66-70. `GcTableIsTheSticks` excepts exactly this (`gcUnseen`).
- `GrooveCircuit!GcPhaseIsOfTheTrack`: a pad press that read the old track's beats
  arms after the track change has disarmed; a re-arm shows the old slot with the
  new engage position for a block.
- `PreStems!WaveTellsNothingElse`: the waveform can end on a selection nothing
  plays (wave/stems.c:350-352).
- `StemSource!PathIsOfTheTrack`: a capture missed because the slot was taken binds
  the next id to the previous file's path (decode.c:383, against 208-210).
- `StemDecode`: `BAD` is said of a good file when a decode could not begin for
  want of memory (store.c:218-219 wants that told apart; `VerdictIsOfTheFile`
  excepts it), and `RateIsThePools` is violated with a tempo under which the play
  head moves at another listed rate, -8% being one (audio_rate.c:98).
- `StemMix!GainIsTheMutes`: a publish that read the live mute before a commit and
  stores after it leaves a held mute heard, or a stem silent (row.c:136-139).
- A mute that lands is heard one call late: `stem_mix` reads the gains before it
  commits the mute (audio_mix.c:105-120).

Pads, panels and lamps:

- `XpadSeq!BarStaysCleared`: a clear between the record's read of the count and
  its store brings the bar back (seq.c:184-187).
- `XpadSeq!FirstHitIsImmediate`: a finger that comes back to a zone after silence
  is not fresh and waits for a boundary (audio.c:832-840 against 645-647).
- `XpadBank!ClosedMeansUnlatched`: a MEMORY press checked before the close latches
  after it (ui.c:57-58).
- `KitBand!OneStripAtATime`: `stems_sync` does not read whether it got the band
  back (panel.c:95-96).
- `CuePad!MemoryFollowsThePad`: what Smart Cue took is kept once for all pads
  (smart.c:60-63).
- `PadLamps!PadsAreHandedBack`: an unclaimed pad and a dark claim have one word,
  so a pad let go of in the dark half of its blink stays dark (led.c:199-201,
  lamp.c:71-72). `ClaimsReachThePanel` fails with `PlFast`.
- `StemPanel`: `SweepWorksOneControl` (wedge.c:60-61), `PlateTellsTheRow`
  (hooks.c:227-229), `BypassEndsWithItsSet` (hooks.c:118-119) and
  `MarkTellsTheEdit` (hooks.c:149-150) are violated; STILL of a wait for the
  waveform is carried over to the next track.

Waveform and theme:

- `WaveStems!PaintIsOfTheTrack`: a probe that starts between a reply's id and its
  object binds another track's array (paint.c:315-316); `BandsAreTheTracks`: the
  bands can be written beside another track's pair; `AnswersConsume`: the answer
  for a track that is gone consumes the question for the one that came
  (wave/stems.c:415). Switching STEMS off writes the held copy over an array the
  deck has refilled in the same tick.
- `ThemeImages!LabelsAreTrue` (theme.c:350-353, a theme is resolved at draw time):
  - the tables and `g_ground` follow the selected theme only when `wave.c` looks, at
    the next 1024th `setFill` or wave reply. An adopted strip that is drawn again
    after a change from one theme with a ground to another, before that, is taken by
    `img_ground_themed` (image_sync.c:606) for the tables' own work, labelled with
    the new theme and left in the old one. After a partial repaint our own output is
    then taken as pristine and mapped a second time, and ORIGINAL shows it;
  - the application repaints most of a strip through the new tables, and the rest
    keeps a coat of ours of the old theme under the new label;
  - a theme is selected between a bake's reads of the palette and of `g_theme_id`.
- `ThemeImages!PaintStays` (image_sync.c:44): an eviction puts the kept pixels over
  what the application has painted since, `img_restore` looking at no fingerprint.
- `ThemeWave`: wave.c:112 says everything there is the message thread's, while
  replies run on the database thread; a table written by the tick while the
  application rebuilds it stays half and half until the next load;
  `theme_wave_ground_fill` has no caller.

Grid, library, browser, network:

- `BeatGrid!FreedOnce`: the cue walk publishes without the lock
  (grid.c:557-559, 702-703); `GridAlwaysComesBack`: the pad task stores the latch
  after the message thread wiped it; `BeatsComeBack`: a copy staged for another
  track keeps the kept one out (grid.c:571-573).
- `GridEdit!ResetIsOfThePanels`: a RESET writes the object of the last edit,
  whichever track plays (grid_edit.c:216-221).
- `MoveWrite!NoTornMove`, `LastTempoLands`: the words of a move can be read half
  old and half new; a second tempo can be forgotten with the first. A playlist
  that holds a track twice moves both (djdb.c:486); the module's lists hold each
  track once.
- `Reorder`: `MoveIsOfThisEdit` (drag.c:31-32), `HoldEndsWithEdit`
  (sort.c:440-441) and `DropWaitsForTheFinger` (drag.c:598-600) are violated; a
  release over a list that was rebuilt places a wrapper that is gone.

Start and installation:

- `SettingsRecord!TheNextStartFindsIt`: a cut between the two renames leaves the
  record under `.BAK`, where the load does not look (common.c:570, 687); two
  savers write through one temporary name.
- `Updater!StockLeavesNothing`: the uninstall leaves files behind
  (uninstall.sh:82); `CrashIsRemembered`: a companion that crashed is tried again
  after a cut between the crash and the synced marker, or where there was no room for
  one (native-launch.sh:57-65).
- A partition that is full keeps a phase, and no application runs for as long as it
  is full: `set -e` ends phase1 or phase2 at its `tar` (phase1.sh:84, phase2.sh:115),
  the launcher starts it again and it ends there again. Room for one archive and not
  for two is such a case. On the model that does not reboot by itself an unsupported
  firmware ends phase1 with exit 1 (phase1.sh:75); started again, it fails at its own
  `rm` (phase1.sh:52), so that the deck runs stock only after the power was off.
- `SymbolResolve`: a wrong address is given where another stands in the symbol's own
  place: siblings replaced or swapped with their number unchanged (resolve.c:949-968,
  against 928-933), a lookalike as the only match of a signature, a vtable whose
  slots have moved, the other build's ADRP pair at the instruction of the first row
  that decodes (resolve.c:834-840, which `gen-syms.py` does not test on the other
  build), and whatever is found through such a symbol. `RightOrRefused` excepts these,
  and no others (`Displaced`). An occurrence of a name beyond `NAME_OCCURRENCES` is
  not seen, so such an image is not among the harmless ones.

## Not modelled

Sample data, pixels, colour arithmetic, decoding, JSON and SQL syntax, frame
lengths and versions, layout and log lines. Memory is sequentially consistent:
where the code uses plain accesses from two threads the models give them the
order of the source, and a torn string or a torn pair of words where one can be
seen, not every reordering a compiler may do. Time is not measured: a timeout may
expire whenever its condition holds, which includes every real timing.

Assumptions the modules make, each in its head:

- `StemDecode`: no two windows in a row jump, which the code's two-in-a-row test
  relies on as well.
- `StemPanel`: a tick and an event of the message thread are one step, and the
  job's snapshot is read whole (job.c:64-70 accepts torn ones).
- `WaveStems`: a tick of the worker is one step but for the analysis; one waveform
  style stands for three; the deck's pauses between chunks are shorter than the
  wait for still columns. A restore that has no memory, or cannot read an array
  (paint.c:191-195), is left out: once the record of what was left there is given up
  (paint.c:391-395), our own paint could be taken for the deck's.
- `ThemeImages`: one draw of `wrap_drawimg` is one step, and the grounds of the
  themes that have one all differ. A strip drawn by the tables of one theme and
  mapped under another goes through two palettes, and so does its ink under a theme
  with a black ground; neither is counted as a coat of ours.
- `StemJob`: the words of a request (job.c:320-323) and those of a track let go
  (job_loader.c:134-137) are stored in one step each, and a supersede seen in the
  STATUS wait is a failure like the others, through `job_failed` (job.c:396-407).
- `HookJournal`: patches made while the deck runs, and a page that cannot be made
  writable for a restore, are left out.
- `MoveWrite`: the edits leave after a message; the same drains in the library's
  queries, inserts and updates (djdb.c:125-162, 754) are left out.
- `XpadBank`: how the strip routes each step of a drag and measures from a new
  anchor (strip.c:242-294) is a brick reached, or a fader past its snap or back.
- `Reorder`: that no playlist is on screen when `mod_djdb_playlist_now` names none,
  where the code also asks the list's parents and the side box (edit.c:132-143).
- `HttpCall`: 204 and 304, over without a body when none is framed (http.c:385).
- `BeatGrid`: a track's reply is over before the message thread notices the load
  (grid.c:301-308).
- `CuePad`: the release operation and the repeats (`cue_again` and its kin in
  `cue/pad.c`), which no behaviour of this tree declares.
- `PreStems`: the branch of a native owner, `prestem_native_owner_active` being
  always 0 (prestem.c:143).

Parts with no module, or only in part, and why:

- menu, popups and the JUCE bridge (`menu/`, `kit/menu.c`, `kit/popup.c`, `juce/`):
  drawing and forwarding; a row's press is the setting's change in the modules
  that have one;
- the waveform codec (`wave/codec.c`): arithmetic that
  `tests/test_wave_codec.c` runs over all values; operators against a reference
  are left for later;
- the parser and page cache of offline stems (`stem/prestem_media.c`,
  `prestem_hash.c`): a load that validates or not;
- the dumps, the pager and the linked player's watch (`db/`): they only look;
  the handle `db.c` borrows, with its test of autocommit before a statement, is left out;
- `ep122_find_instance` (`core/resolve.c`): a search of the heap without state;
- the job's snapshot (`stem/job.c:71-114`): a sequence count with more than one
  writer, next in the plan;
- tests, build tools and the image build, prebuilt companions, the documentation
  site.
