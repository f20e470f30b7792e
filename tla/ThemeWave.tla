------------------------------ MODULE ThemeWave ------------------------------
(***************************************************************************)
(* The theme where the waveform's colours are decided (theme/wave.c), and the *)
(* memo in front of the palettes (theme/palette.c, theme.h).                   *)
(*                                                                         *)
(* The application keeps copies of a table of colours, and rebuilds them to its *)
(* own on every track load.  The mod finds the copies by their stock contents,    *)
(* and writes the palette over every one that is stock or holds what it wrote      *)
(* last.  Two threads do it: the message thread as it paints, the database thread    *)
(* at the end of a waveform reply.  Both put colours through one memo.             *)
(*                                                                         *)
(* A table has two words, an ink and the ground; a word is the palette it was     *)
(* computed by.  The memo has one place.  Left out: the walk over the mappings,     *)
(* the arithmetic of a palette, peaks kept off pure black.                       *)
(***************************************************************************)
EXTENDS Naturals, Sequences, FiniteSets, SequencesExt

CONSTANTS TwThemes,       \* the themes with a palette
          TwDark,         \* those whose ground stays black
          TwTables,       \* the copies of the table
          TwStyleOf,      \* the style whose widget brings each copy
          TwSites,        \* WAVE_MAX_SITES
          TwMaxEvents,
          TwRaces         \* the two threads may ask about two palettes at once

ASSUME TwAssumption ==
  /\ IsFiniteSet(TwTables) /\ TwThemes \cap {"original", "none"} = {}
  /\ TwDark \subseteq TwThemes /\ {TwSites, TwMaxEvents} \subseteq Nat
  /\ TwStyleOf \in [TwTables -> {"3band", "blue"}] /\ TwRaces \in BOOLEAN

VARIABLES twTheme,      \* g_theme_id
          twTables,     \* the copies: absent, or their two words
          twKnown,      \* g_site
          twScanned,    \* g_scanned
          twStyle,      \* g_style
          twThemed,     \* g_themed with g_themed_id
          twWritten,    \* g_written with g_written_ok
          twGround,     \* g_ground: the palette it came from, Black for none
          twPal,        \* g_pal
          twMemo,       \* g_theme_memo, g_theme_memo_pal
          twThread,     \* what either thread is in the middle of
          twEvents

twVars == <<twTheme, twTables, twKnown, twScanned, twStyle, twThemed, twWritten, twGround,
            twPal, twMemo, twThread, twEvents>>

Original == "original"     \* a NULL palette
Black == "black"
Nowhere == <<>>
Unset == [id |-> "none", words |-> <<>>]
Empty == [asked |-> "nothing"]
Words == <<"ink", "ground">>
Stock == <<Original, Original>>
Threads == {"message", "reply"}
Idle == [at |-> "idle"]

TwInit ==
  /\ twTheme \in TwThemes \cup {Original}
  /\ twTables = [t \in TwTables |-> IF TwStyleOf[t] = "3band" THEN Stock ELSE Nowhere]
  /\ twKnown = <<>> /\ twScanned = FALSE /\ twStyle = "none"
  /\ twThemed = Unset /\ twWritten = Unset /\ twGround = Black /\ twPal = Original
  /\ twMemo = [of |-> Original, entry |-> Empty]
  /\ twThread = [w \in Threads |-> Idle] /\ twEvents = 0

Occurs == twEvents < TwMaxEvents /\ twEvents' = twEvents + 1
At(w, place) == twThread[w].at = place
Goes(w, r) == twThread' = [twThread EXCEPT ![w] = r]

notMemo == <<twTheme, twTables, twKnown, twScanned, twStyle, twThemed, twWritten, twGround, twPal>>

-----------------------------------------------------------------------------
(* The memo.  A thread that asks names the palette it has read; what it has been  *)
(* told so far is got, and then says what it does with the answers.               *)

Asks(pal, id, colours, then) ==
  [at |-> "ask", pal |-> pal, id |-> id, todo |-> colours, got |-> <<>>, then |-> then]
Told(t, answer) == [t EXCEPT !.at = "ask", !.todo = Tail(t.todo), !.got = Append(t.got, answer)]

Hit(t) == twMemo.of = t.pal /\ twMemo.entry.asked = Head(t.todo)

\* theme_palette_map: an answer kept, or a miss
TwAsk(w) ==
  LET t == twThread[w] IN
  /\ At(w, "ask") /\ t.todo # <<>>
  /\ \/ Hit(t) /\ Goes(w, Told(t, twMemo.entry.answer)) /\ UNCHANGED twMemo
     \/ /\ ~Hit(t) /\ Goes(w, [t EXCEPT !.at = "store"])
        /\ twMemo' = IF twMemo.of = t.pal THEN twMemo ELSE [of |-> t.pal, entry |-> Empty]
  /\ UNCHANGED <<notMemo, twEvents>>

\* theme_palette_slow: the answer is computed and stored
TwStore(w) ==
  LET t == twThread[w] IN
  /\ At(w, "store")
  /\ twMemo' = [twMemo EXCEPT !.entry = [asked |-> Head(t.todo), answer |-> t.pal]]
  /\ Goes(w, Told(t, t.pal)) /\ UNCHANGED <<notMemo, twEvents>>

-----------------------------------------------------------------------------
(* theme_wave_apply.                                                        *)

\* wave_scan: every copy that is stock, noted once, while there is room
Scan ==
  LET found == SetToSeq({t \in TwTables : twTables[t] = Stock} \ Range(twKnown))
      room == TwSites - Len(twKnown)
  IN  twKnown \o SubSeq(found, 1, IF Len(found) < room THEN Len(found) ELSE room)

\* mod_theme(); the number is read again
TwBegins(w) ==
  /\ At(w, "apply") /\ Goes(w, [at |-> "number", pal |-> twTheme])
  /\ UNCHANGED <<notMemo, twMemo, twEvents>>

Disarm == twThemed' = Unset /\ twGround' = Black /\ twPal' = Original
Loop(pal, words, ours, wrote) ==
  [at |-> "sites", i |-> 1, pal |-> pal, words |-> words, ours |-> ours, wrote |-> wrote]

TwNumber(w) ==
  LET t == twThread[w] IN
  /\ At(w, "number")
  /\ \/ /\ t.pal = Original
        /\ \/ twWritten = Unset /\ Disarm /\ Goes(w, Idle)
           \/ /\ twWritten # Unset /\ Goes(w, Loop(Original, Stock, FALSE, FALSE))
              /\ UNCHANGED <<twThemed, twGround, twPal>>
        /\ UNCHANGED <<twKnown, twScanned>>
     \/ /\ t.pal # Original
        /\ twKnown' = (IF twScanned THEN twKnown ELSE Scan) /\ twScanned' = TRUE
        /\ twPal' = t.pal
        /\ Goes(w, IF twThemed.id = twTheme THEN Loop(t.pal, twThemed.words, TRUE, FALSE)
                   ELSE Asks(t.pal, twTheme, Words, "themed"))
        /\ UNCHANGED <<twThemed, twGround>>
  /\ UNCHANGED <<twTheme, twTables, twStyle, twWritten, twMemo, twEvents>>

\* The group for the theme has been computed: g_themed, g_ground, g_themed_id.
TwComputed(w) ==
  LET t == twThread[w] IN
  /\ At(w, "ask") /\ t.todo = <<>> /\ t.then = "themed"
  /\ twThemed' = [id |-> t.id, words |-> t.got]
  /\ twGround' = IF t.got[2] \in TwDark THEN Black ELSE t.got[2]
  /\ Goes(w, Loop(t.pal, t.got, TRUE, FALSE))
  /\ UNCHANGED <<twTheme, twTables, twKnown, twScanned, twStyle, twWritten, twPal, twMemo, twEvents>>

\* A copy is written when it is stock or ours; going back, only when it is ours.
StockOnly(words, forth) == forth /\ words = Stock   \* seeded fault: a copy that wears the last theme is passed by
IsOurs(words, forth) ==
  \/ forth /\ words = Stock
  \/ twWritten # Unset /\ words = twWritten.words

TwSite(w) ==
  LET t == twThread[w]
      s == twKnown[t.i]
      next == [t EXCEPT !.i = @ + 1]
  IN
  /\ At(w, "sites") /\ t.i <= Len(twKnown)
  /\ \/ /\ twTables[s] # t.words /\ IsOurs(twTables[s], t.ours)
        /\ twTables' = [twTables EXCEPT ![s][1] = t.words[1]]
        /\ Goes(w, [t EXCEPT !.at = "second", !.wrote = TRUE])
     \/ /\ twTables[s] = t.words \/ ~IsOurs(twTables[s], t.ours)
        /\ Goes(w, next) /\ UNCHANGED twTables
  /\ UNCHANGED <<twTheme, twKnown, twScanned, twStyle, twThemed, twWritten, twGround, twPal,
                 twMemo, twEvents>>

TwSecond(w) ==
  LET t == twThread[w] IN
  /\ At(w, "second")
  /\ twTables' = [twTables EXCEPT ![twKnown[t.i]][2] = t.words[2]]
  /\ Goes(w, [t EXCEPT !.at = "sites", !.i = @ + 1])
  /\ UNCHANGED <<twTheme, twKnown, twScanned, twStyle, twThemed, twWritten, twGround, twPal,
                 twMemo, twEvents>>

TwApplied(w) ==
  LET t == twThread[w] IN
  /\ At(w, "sites") /\ t.i > Len(twKnown) /\ Goes(w, Idle)
  /\ \/ t.pal = Original /\ twWritten' = Unset /\ Disarm
     \/ /\ t.pal # Original
        /\ twWritten' = IF t.wrote THEN [id |-> "ours", words |-> t.words] ELSE twWritten
        /\ UNCHANGED <<twThemed, twGround, twPal>>
  /\ UNCHANGED <<twTheme, twTables, twKnown, twScanned, twStyle, twMemo, twEvents>>

-----------------------------------------------------------------------------
(* The message thread selects, paints, and applies from wrap_setfill's tick.     *)

TwSelect(t) ==
  /\ At("message", "idle") /\ (TwRaces \/ At("reply", "idle"))
  /\ Occurs /\ t # twTheme /\ twTheme' = t
  /\ UNCHANGED <<twTables, twKnown, twScanned, twStyle, twThemed, twWritten, twGround, twPal,
                 twMemo, twThread>>

\* A fill or a picture in the theme; a column of the blue strip (wave_sample_fix).
TwPaints(c) ==
  /\ At("message", "idle") /\ Occurs
  /\ \E pal \in (IF TwRaces THEN {twTheme, twPal} ELSE {twTheme}) \ {Original} :
       Goes("message", Asks(pal, pal, <<c>>, "shown"))
  /\ UNCHANGED <<notMemo, twMemo>>

TwTicks ==
  /\ At("message", "idle") /\ Occurs /\ Goes("message", [at |-> "apply"])
  /\ UNCHANGED <<notMemo, twMemo>>

TwShown(w) ==
  /\ At(w, "ask") /\ twThread[w].todo = <<>> /\ twThread[w].then = "shown"
  /\ Goes(w, Idle) /\ UNCHANGED <<notMemo, twMemo, twEvents>>

-----------------------------------------------------------------------------
(* A waveform reply on the database thread: the application rebuilds its tables,   *)
(* the first reply of a style bringing some; the overview baked by it goes through   *)
(* the palette; theme_wave_replied.                                              *)

WordsOf(ts) == [k \in 1..2 * Len(ts) |-> <<ts[(k + 1) \div 2], 2 - (k % 2)>>]
Present == {t \in TwTables : twTables[t] # Nowhere}

TwReplies(style) ==
  /\ At("reply", "idle") /\ Occurs
  /\ Goes("reply", [at |-> "rebuild", style |-> style, todo |-> WordsOf(SetToSeq(Present))])
  /\ twTables' = [t \in TwTables |->
       IF twTables[t] = Nowhere /\ TwStyleOf[t] = style THEN Stock ELSE twTables[t]]
  /\ UNCHANGED <<twTheme, twKnown, twScanned, twStyle, twThemed, twWritten, twGround, twPal, twMemo>>

\* The application's own stores, a word at a time.
TwRebuilds ==
  LET t == twThread["reply"] IN
  /\ At("reply", "rebuild") /\ t.todo # <<>>
  /\ twTables' = [twTables EXCEPT ![Head(t.todo)[1]][Head(t.todo)[2]] = Original]
  /\ Goes("reply", [t EXCEPT !.todo = Tail(@)])
  /\ UNCHANGED <<twTheme, twKnown, twScanned, twStyle, twThemed, twWritten, twGround, twPal,
                 twMemo, twEvents>>

TwBakes ==
  LET t == twThread["reply"] IN
  /\ At("reply", "rebuild") /\ t.todo = <<>>
  /\ Goes("reply", IF twTheme = Original THEN [at |-> "replied", style |-> t.style]
                   ELSE Asks(twTheme, t.style, Words, "replied"))
  /\ UNCHANGED <<notMemo, twMemo, twEvents>>

TwBaked ==
  /\ At("reply", "ask") /\ twThread["reply"].todo = <<>> /\ twThread["reply"].then = "replied"
  /\ Goes("reply", [at |-> "replied", style |-> twThread["reply"].id])
  /\ UNCHANGED <<notMemo, twMemo, twEvents>>

TakesStyle(style) ==
  twStyle' = style /\ twScanned' = (twScanned /\ style = twStyle)

TwReplied ==
  /\ At("reply", "replied") /\ TakesStyle(twThread["reply"].style)
  /\ Goes("reply", [at |-> "apply"])
  /\ UNCHANGED <<twTheme, twTables, twKnown, twThemed, twWritten, twGround, twPal, twMemo, twEvents>>

TwNext ==
  \/ \E t \in TwThemes \cup {Original} : TwSelect(t)
  \/ \E i \in DOMAIN Words : TwPaints(Words[i])
  \/ TwTicks \/ TwShown("message")
  \/ \E style \in {"3band", "blue"} : TwReplies(style)
  \/ TwRebuilds \/ TwBakes \/ TwBaked \/ TwReplied
  \/ \E w \in Threads : TwAsk(w) \/ TwStore(w) \/ TwBegins(w) \/ TwNumber(w) \/ TwComputed(w)
                        \/ TwSite(w) \/ TwSecond(w) \/ TwApplied(w)

TwSpec == TwInit /\ [][TwNext]_twVars

-----------------------------------------------------------------------------
(* What the strip is made of: its ink by style, and the ground the blend averages  *)
(* against, black where the theme left it so.                                    *)

Whole(words) == words[1] = words[2]
GroundUnder(pal) == IF pal \in TwDark \cup {Original} THEN Black ELSE pal

\* An answer kept is the palette's that the memo says it is: palette.c:293-297, slow,
\* not incorrect.
AnswersAreThePalettes ==
  twMemo.entry = Empty \/ twMemo.entry.answer = twMemo.of

\* With neither thread in the middle of anything, a scan has missed no copy there was
\* room for; every copy the mod knows wears what was last computed, stock when nothing
\* was; the blue strip's palette and the ground go with it (wave.c:150-152, never out of
\* step).  Except a copy the application was rebuilding while the tick wrote it: it is
\* left with a word of each until the next load.
StripIsOneTheme ==
  (\A w \in Threads : At(w, "idle")) =>
    LET wears == IF twThemed = Unset THEN Stock ELSE twThemed.words IN
    /\ \A i \in DOMAIN twKnown : Whole(twTables[twKnown[i]]) => twTables[twKnown[i]] = wears
    /\ twScanned /\ Len(twKnown) < TwSites => Present \subseteq Range(twKnown)
    /\ twPal = wears[1] /\ twGround = GroundUnder(wears[1])
    /\ twThemed # Unset => twThemed.words = <<twThemed.id, twThemed.id>>

\* Whatever the order of loads and ticks, and of selections under which the two threads
\* never ask about two palettes at once (~TwRaces), the waveform is drawn in one theme,
\* and the memo answers for the palette it is of.
ThemeIsWorn == AnswersAreThePalettes /\ StripIsOneTheme
=============================================================================
