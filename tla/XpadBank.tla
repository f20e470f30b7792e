------------------------------ MODULE XpadBank ------------------------------
(***************************************************************************)
(* The X-PAD's banks and panel (xpad/bank.c, ui.c, deck.c, strip.c): the     *)
(* loader packs the stick's samples onto the pads, the mix sounds them, the  *)
(* deck task presses pads and latches HOLD, the message thread opens, closes *)
(* and reads the strip.                                                     *)
(*                                                                         *)
(* A name is its place in the alphabet.  A stick is the directory's listing, *)
(* in the order the disk gives it; every scan numbers the buffers it loads.  *)
(* Left out: the samples themselves, the painting, the bar (XpadSeq), who    *)
(* owns the band (KitBand: here the band is had or it is not), and how the   *)
(* strip routes each step of a drag and measures from a new anchor           *)
(* (strip.c:242-294): a finger reaches another brick, or a fader past its    *)
(* snap or back.                                                            *)
(***************************************************************************)
EXTENDS Naturals, Sequences, FiniteSets

CONSTANTS XbSticks,    \* stick -> listing: sequence of [name, wanted, decodes]
          XbBanks,     \* XP_BANKS
          XbDivs,      \* bricks of the strip
          XbMaxSwaps,  \* bound: mounts and unmounts
          XbMaxHands   \* bound: what the DJ does

ASSUME XbAssumption ==
  /\ XbBanks \in Nat \ {0} /\ {XbMaxSwaps, XbMaxHands} \subseteq Nat
  /\ XbSticks \in [DOMAIN XbSticks -> Seq([name : Nat, wanted : BOOLEAN, decodes : BOOLEAN])]

VARIABLES xbBank,    \* the table: sequence of [name, scan], pad A first
          xbLive, xbReaders,
          xbRoot,    \* xpad_g_root, "" when none
          xbLoader,  \* the loader in xpad_bank_poll, with what it picked
          xbAudio,   \* the mix inside one voice of a block
          xbPend, xbVoice, xbHush, xbSel,
          xbOpen, xbHold, xbOver, xbTouch, xbRefuse,
          xbDeck,    \* the deck task past its xpad_open() check
          xbStick, xbScans, xbSwaps, xbHands

xbVars == <<xbBank, xbLive, xbReaders, xbRoot, xbLoader, xbAudio, xbPend, xbVoice,
            xbHush, xbSel, xbOpen, xbHold, xbOver, xbTouch, xbRefuse, xbDeck, xbStick,
            xbScans, xbSwaps, xbHands>>
xbTable == <<xbBank, xbLive, xbRoot, xbScans>>
xbShots == <<xbPend, xbVoice, xbHush, xbSel>>
xbPanel == <<xbOpen, xbHold, xbOver, xbTouch, xbRefuse>>
xbWorld == <<xbStick, xbSwaps, xbHands>>

NoRoot == ""
NoDiv == "none"
Pads == 1..XbBanks
Resting == [div |-> NoDiv, bent |-> FALSE, held |-> FALSE]

XbInit ==
  /\ xbBank = <<>> /\ xbLive = FALSE /\ xbReaders = 0 /\ xbRoot = NoRoot
  /\ xbLoader = [pc |-> "idle", root |-> NoRoot, picks |-> <<>>]
  /\ xbAudio = [pc |-> "idle", pad |-> 0, view |-> 0]
  /\ xbPend = {} /\ xbVoice = {} /\ xbHush = FALSE /\ xbSel = 0
  /\ xbOpen = FALSE /\ xbHold = FALSE /\ xbOver = FALSE /\ xbTouch = Resting
  /\ xbRefuse = FALSE /\ xbDeck = [pc |-> "idle", pad |-> 0]
  /\ xbStick = NoRoot /\ xbScans = 0 /\ xbSwaps = 0 /\ xbHands = 0

-----------------------------------------------------------------------------
(* The loader.                                                              *)

\* xpad_pick_insert: into its place by name, the last one falling off when the
\* pads are all taken.
Before(picks, f) == {i \in DOMAIN picks : picks[i].name <= f.name}
PickInsert(picks, f) ==
  LET at == Cardinality(Before(picks, f))
      all == SubSeq(picks, 1, at) \o <<f>> \o SubSeq(picks, at + 1, Len(picks))
  IN  IF Len(all) > XbBanks THEN SubSeq(all, 1, XbBanks) ELSE all

\* The readdir loop of xpad_scan, over the names xpad_name_wanted lets in.
Listed(dir) ==
  LET pick[n \in 0..Len(dir)] ==
        IF n = 0 THEN <<>>
        ELSE IF dir[n].wanted THEN PickInsert(pick[n - 1], dir[n]) ELSE pick[n - 1]
  IN  pick[Len(dir)]

xbNotLoader == <<xbReaders, xbAudio, xbVoice, xbPanel, xbDeck, xbWorld>>

\* xpad_bank_poll: a rebuild when the first root is not the one the table is of.
\* xpad_unload silences, takes the table down and waits for the readers.
XbPoll ==
  /\ xbLoader.pc = "idle" /\ xbRoot # xbStick
  /\ xbHush' = TRUE /\ xbPend' = {}
  /\ xbLive' = FALSE
  /\ xbLoader' = [pc |-> "drain", root |-> xbStick, picks |-> <<>>]
  /\ UNCHANGED <<xbBank, xbRoot, xbScans, xbSel, xbNotLoader>>
XbUnload ==
  /\ xbLoader.pc = "drain" /\ xbReaders = 0
  /\ xbBank' = <<>>
  /\ IF xbLoader.root = NoRoot
     THEN xbRoot' = NoRoot /\ xbLoader' = [xbLoader EXCEPT !.pc = "idle"]
     ELSE xbLoader' = [xbLoader EXCEPT !.pc = "list"] /\ UNCHANGED xbRoot
  /\ UNCHANGED <<xbLive, xbScans, xbShots, xbNotLoader>>

\* The directory, or none: the stick may have gone since the poll.
XbList ==
  /\ xbLoader.pc = "list"
  /\ IF xbStick = xbLoader.root
     THEN /\ xbLoader' = [xbLoader EXCEPT !.pc = "load", !.picks = Listed(XbSticks[xbStick])]
          /\ xbScans' = xbScans + 1 /\ UNCHANGED <<xbLive, xbRoot>>
     ELSE /\ xbLoader' = [xbLoader EXCEPT !.pc = "idle"]
          /\ xbRoot' = xbLoader.root /\ xbLive' = TRUE /\ UNCHANGED xbScans
  /\ UNCHANGED <<xbBank, xbShots, xbNotLoader>>

\* xpad_load_one of the next pick: what decodes is packed toward pad A.
XbLoad ==
  /\ xbLoader.pc = "load" /\ xbLoader.picks # <<>>
  /\ LET f == Head(xbLoader.picks) IN
       xbBank' = IF f.decodes /\ xbStick = xbLoader.root
                 THEN Append(xbBank, [name |-> f.name, scan |-> xbScans]) ELSE xbBank
  /\ xbLoader' = [xbLoader EXCEPT !.picks = Tail(@)]
  /\ UNCHANGED <<xbLive, xbRoot, xbScans, xbShots, xbNotLoader>>
XbPublish ==
  /\ xbLoader.pc = "load" /\ xbLoader.picks = <<>>
  /\ xbRoot' = xbLoader.root /\ xbLive' = TRUE
  /\ xbLoader' = [xbLoader EXCEPT !.pc = "idle"]
  /\ UNCHANGED <<xbBank, xbScans, xbShots, xbNotLoader>>

XbWork == XbPoll \/ XbUnload \/ XbList \/ XbLoad \/ XbPublish

-----------------------------------------------------------------------------
(* The mix: the hush and the pending shots first, then voice by voice.      *)

xbNotAudio == <<xbTable, xbLoader, xbSel, xbPanel, xbDeck, xbWorld>>

XbBlock ==
  /\ xbAudio.pc = "idle" /\ (xbHush \/ xbPend # {} \/ xbVoice # {})
  /\ xbVoice' = (IF xbHush THEN {} ELSE xbVoice) \cup xbPend
  /\ xbHush' = FALSE /\ xbPend' = {}
  /\ xbAudio' = [xbAudio EXCEPT !.pc = "voices"]
  /\ UNCHANGED <<xbReaders, xbNotAudio>>

\* xpad_bank_acquire: counted first, looked at second.
XbAcquire(p) ==
  /\ xbAudio.pc = "voices" /\ p \in xbVoice
  /\ xbReaders' = xbReaders + 1
  /\ xbAudio' = [pc |-> "look", pad |-> p, view |-> 0]
  /\ UNCHANGED <<xbPend, xbVoice, xbHush, xbNotAudio>>
XbLook ==
  /\ xbAudio.pc = "look"
  /\ IF xbLive /\ xbAudio.pad <= Len(xbBank)
     THEN /\ xbAudio' = [xbAudio EXCEPT !.pc = "sound", !.view = xbBank[xbAudio.pad].scan]
          /\ UNCHANGED <<xbReaders, xbVoice>>
     ELSE /\ xbReaders' = xbReaders - 1 /\ xbVoice' = xbVoice \ {xbAudio.pad}
          /\ xbAudio' = [pc |-> "voices", pad |-> 0, view |-> 0]
  /\ UNCHANGED <<xbPend, xbHush, xbNotAudio>>
\* The sample may end in this block.
XbSound ==
  /\ xbAudio.pc = "sound"
  /\ xbReaders' = xbReaders - 1
  /\ xbVoice' \in {xbVoice, xbVoice \ {xbAudio.pad}}
  /\ xbAudio' = [pc |-> "voices", pad |-> 0, view |-> 0]
  /\ UNCHANGED <<xbPend, xbHush, xbNotAudio>>
XbBlockEnds ==
  /\ xbAudio.pc = "voices"
  /\ xbAudio' = [xbAudio EXCEPT !.pc = "idle"]
  /\ UNCHANGED <<xbReaders, xbPend, xbVoice, xbHush, xbNotAudio>>
XbMix == XbBlock \/ (\E p \in Pads : XbAcquire(p)) \/ XbLook \/ XbSound \/ XbBlockEnds

-----------------------------------------------------------------------------
(* The deck task: xpad_open() is read first, the state is moved afterwards.  *)

xbNotDeck == <<xbTable, xbReaders, xbLoader, xbAudio, xbVoice, xbHush, xbTouch,
               xbOpen, xbRefuse, xbStick, xbSwaps>>

\* xpad_pad_claim, xpad_memory_run, xpad_delete_run up to the check.
XbDeckBegins(pc, p) ==
  /\ xbDeck.pc = "idle" /\ xbOpen /\ xbHands < XbMaxHands
  /\ xbDeck' = [pc |-> pc, pad |-> p] /\ xbHands' = xbHands + 1
  /\ UNCHANGED <<xbPend, xbSel, xbHold, xbOver, xbNotDeck>>
\* xpad_pad: a ready bank is selected and fired, an empty one is swallowed.
XbPadFires ==
  /\ xbDeck.pc = "pad"
  /\ IF xbLive /\ xbDeck.pad <= Len(xbBank)
     THEN xbSel' = xbDeck.pad /\ xbPend' = xbPend \cup {xbDeck.pad}
     ELSE UNCHANGED <<xbSel, xbPend>>
  /\ xbDeck' = [pc |-> "idle", pad |-> 0]
  /\ UNCHANGED <<xbHold, xbOver, xbHands, xbNotDeck>>
XbMemory ==
  /\ xbDeck.pc = "memory" /\ xbHold' = ~xbHold
  /\ xbDeck' = [pc |-> "idle", pad |-> 0]
  /\ UNCHANGED <<xbPend, xbSel, xbOver, xbHands, xbNotDeck>>
XbDelete ==
  /\ xbDeck.pc = "delete" /\ xbOver' = ~xbOver
  /\ xbDeck' = [pc |-> "idle", pad |-> 0]
  /\ UNCHANGED <<xbPend, xbSel, xbHold, xbHands, xbNotDeck>>
XbDeckTask ==
  \/ \E p \in Pads : XbDeckBegins("pad", p)
  \/ \E pc \in {"memory", "delete"} : XbDeckBegins(pc, 0)
  \/ XbPadFires \/ XbMemory \/ XbDelete

-----------------------------------------------------------------------------
(* The message thread.                                                      *)

xbNotTouch == <<xbTable, xbReaders, xbLoader, xbAudio, xbVoice, xbDeck, xbStick, xbSwaps>>
DjMoves == xbHands < XbMaxHands /\ xbHands' = xbHands + 1

\* xpad_toggle: no banks, no panel; then the band, which may be refused.
XbOpenPanel ==
  /\ ~xbOpen /\ DjMoves
  /\ IF xbLive /\ xbBank # <<>>
     THEN xbOpen' \in BOOLEAN /\ UNCHANGED xbRefuse
     ELSE xbRefuse' = TRUE /\ UNCHANGED xbOpen
  /\ UNCHANGED <<xbHold, xbOver, xbTouch, xbPend, xbSel, xbHush, xbNotTouch>>
\* xpad_toggle, xpad_band_closed, xpad_sync with the row off: all of them stop.
XbClosePanel ==
  /\ xbOpen /\ DjMoves /\ xbOpen' = FALSE
  /\ xbHush' = TRUE /\ xbPend' = {}
  /\ xbOver' = FALSE /\ xbHold' = FALSE /\ xbTouch' = Resting
  /\ UNCHANGED <<xbSel, xbRefuse, xbNotTouch>>

\* xpad_pad_down: a latched gesture keeps its bend.
XbDown(d) ==
  /\ xbOpen /\ ~xbTouch.held /\ DjMoves
  /\ xbTouch' = [div |-> d, held |-> TRUE,
                 bent |-> xbTouch.bent /\ xbHold /\ xbTouch.div # NoDiv]
  /\ UNCHANGED <<xbOpen, xbHold, xbOver, xbRefuse, xbPend, xbSel, xbHush, xbNotTouch>>
\* xpad_pad_drag: across to another brick, or up and down.
XbDrag ==
  /\ xbOpen /\ xbTouch.held /\ DjMoves
  /\ \/ \E d \in XbDivs : xbTouch' = [xbTouch EXCEPT !.div = d]
     \/ xbTouch' = [xbTouch EXCEPT !.bent = ~@]   \* past the snap, or back into it
  /\ UNCHANGED <<xbOpen, xbHold, xbOver, xbRefuse, xbPend, xbSel, xbHush, xbNotTouch>>
\* xpad_pad_up.
XbUp ==
  /\ xbTouch.held
  /\ xbTouch' = IF xbHold THEN [xbTouch EXCEPT !.held = FALSE] ELSE Resting
  /\ UNCHANGED <<xbOpen, xbHold, xbOver, xbRefuse, xbPend, xbSel, xbHush, xbHands, xbNotTouch>>

\* xpad_tick: HOLD going off drops what it held; the refusal stops blinking.
TickKeeps ==   \* seeded fault: the gesture is not reconciled
  /\ xbRefuse /\ xbRefuse' = FALSE
  /\ UNCHANGED <<xbTouch, xbOpen, xbHold, xbOver, xbPend, xbSel, xbHush, xbHands, xbNotTouch>>
XbTick ==
  /\ \/ xbRefuse
     \/ xbOpen /\ ~xbHold /\ ~xbTouch.held /\ xbTouch.div # NoDiv
  /\ xbRefuse' = FALSE
  /\ xbTouch' = IF xbOpen /\ ~xbHold /\ ~xbTouch.held THEN Resting ELSE xbTouch
  /\ UNCHANGED <<xbOpen, xbHold, xbOver, xbPend, xbSel, xbHush, xbHands, xbNotTouch>>

XbMessages ==
  \/ XbOpenPanel \/ XbClosePanel \/ XbDrag \/ XbUp \/ XbTick
  \/ \E d \in XbDivs : XbDown(d)

\* The DJ plugs and pulls.
XbSwap ==
  /\ xbSwaps < XbMaxSwaps
  /\ xbStick' \in ({NoRoot} \cup DOMAIN XbSticks) \ {xbStick}
  /\ xbSwaps' = xbSwaps + 1
  /\ UNCHANGED <<xbTable, xbReaders, xbLoader, xbAudio, xbShots, xbPanel, xbDeck, xbHands>>

XbNext == XbWork \/ XbMix \/ XbDeckTask \/ XbMessages \/ XbSwap
XbFairness == WF_xbVars(XbTick)
XbSpec == XbInit /\ [][XbNext]_xbVars /\ XbFairness

-----------------------------------------------------------------------------
(* Properties.                                                              *)

\* A voice that is sounding reads a buffer of the table: one the loader has
\* freed is never under a pointer the mix still holds (bank.c:168-171).
XbViewIsAlive ==
  xbAudio.pc = "sound" => \E i \in DOMAIN xbBank : xbBank[i].scan = xbAudio.view

\* "Files that sort past the eighth are simply not reached" (bank.c:183-186):
\* the pads of a table that is up are in order, they are of the first names of
\* one stick, and when nothing was pulled during the load they are all of those
\* that decode, in whatever order the disk listed them.
Wanted(s) == {XbSticks[s][i] : i \in {j \in DOMAIN XbSticks[s] : XbSticks[s][j].wanted}}
Reached(s) == {f.name : f \in {g \in Wanted(s) :
                 g.decodes /\ Cardinality({h \in Wanted(s) : h.name < g.name}) < XbBanks}}
Packed == {xbBank[i].name : i \in DOMAIN xbBank}
BanksAreTheFirstByName ==
  xbLive /\ xbRoot # NoRoot =>
    /\ Packed \subseteq Reached(xbRoot)
    /\ \A i, j \in DOMAIN xbBank : i < j => xbBank[i].name < xbBank[j].name
    /\ xbSwaps = 1 => Packed = Reached(xbRoot)

\* The table a voice reads is alive and the DJ's own (bank.c:164-186).
TableIsSound == XbViewIsAlive /\ BanksAreTheFirstByName

\* "A latch surviving a close would take hold of the next thing the DJ touched"
\* (ui.c:57-58).  A MEMORY press checked before the close and stored after it
\* does survive.
ClosedMeansUnlatched == ~xbOpen => ~xbHold

\* HOLD going off drops what it was holding, at the next tick (ui.c:350-358):
\* a gesture with no finger on it and no latch does not stay.
UnheldGestureDrops ==
  (xbTouch.div # NoDiv /\ ~xbTouch.held /\ ~xbHold) ~>
    (xbTouch.div = NoDiv \/ xbTouch.held \/ xbHold)
\* The table under the finger is sound, and the finger's gesture ends with the finger.
PadsFollowTheHand == []TableIsSound /\ UnheldGestureDrops

=============================================================================
