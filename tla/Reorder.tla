------------------------------- MODULE Reorder -------------------------------
(***************************************************************************)
(* EDIT in the browser (browse/edit.c, browse/sort.c, browse/drag.c): a plate   *)
(* on the header lets a row of a playlist be carried to another place.  While  *)
(* it is on the list is held on its `#` column; a press lifts a row, a release  *)
(* counts once it has survived some ticks, and the tick queues the move.        *)
(*                                                                         *)
(* Everything runs on the message thread, between the deck's own handlers: the   *)
(* deck shows another list, enables its columns again, rebuilds a list or the    *)
(* header under the mod, and breaks one touch into a release and a press.        *)
(* Heights are in half rows.                                                   *)
(***************************************************************************)
EXTENDS Integers, Sequences

CONSTANTS BrViews,      \* what can be on screen: [list, root, header, position, pid, rows, sort]
          BrSettle,     \* DG_SETTLE_TICKS
          BrWindow,     \* how many half rows are on screen
          BrMaxEvents,  \* bound on what the DJ and the deck do
          BrMaxTaps     \* bound on what the fingers do

Position == 3           \* BS_POSITION_COL
Alt == 4                \* BS_ALT_COL
By(c, f) == [col |-> c, fwd |-> f]
NoHold == [header |-> "-", was |-> By(0, TRUE), bits |-> FALSE, own |-> By(0, TRUE)]
NoEdit == [on |-> FALSE, list |-> "-", root |-> "-"]
NoDrag == [list |-> "-", from |-> -1, insert |-> -1, rows |-> 0, press |-> 0, at |-> 0, lifted |-> FALSE, alive |-> FALSE, edit |-> 0, fresh |-> TRUE]
Headers == {v.header : v \in BrViews}

VARIABLES
  brView,     \* what is on screen
  brHeader,   \* per header: the column marked, the order the list is in, sortable, the direction control
  brPlate,    \* the plate: "none", "hidden", "shown"; "dead" once its header was rebuilt
  brEdit,     \* be_g_on, be_g_list, be_g_root
  brHold,     \* the sort borrowed, and what the list's order was
  brDrag,     \* the row carried
  brSettling, \* dg_g_settle
  brOff,      \* how far the list on screen is scrolled
  brFinger,   \* the touch: "up", "ours" (its press began or resumed a drag) or "stock"
  brSeen,     \* the playlist the deck's caches name when none is on screen
  brMoves,    \* the moves queued
  brEdits,    \* how often EDIT was turned on
  brEvents, brTaps

brVars == <<brView, brHeader, brPlate, brEdit, brHold, brDrag, brSettling, brOff, brFinger, brSeen, brMoves, brEdits, brEvents, brTaps>>

Shown(v) == [mark |-> v.sort, order |-> v.sort, sortable |-> TRUE, dir |-> TRUE]
BrInit ==
  /\ brView \in {v \in BrViews : v.pid # 0}
  /\ brHeader = [h \in Headers |-> IF h = brView.header THEN Shown(brView) ELSE Shown(CHOOSE v \in BrViews : v.header = h)]
  /\ brPlate = "none" /\ brEdit = NoEdit /\ brHold = NoHold /\ brDrag = NoDrag /\ brSettling = 0
  /\ brOff = 0 /\ brFinger = "up" /\ brSeen = brView.pid /\ brMoves = <<>>
  /\ brEdits = 0 /\ brEvents = 0 /\ brTaps = 0

brSortVars == <<brHeader, brHold>>
brTouch == <<brDrag, brSettling, brOff, brFinger, brMoves>>
Happens == brEvents < BrMaxEvents /\ brEvents' = brEvents + 1
Touched == brTaps < BrMaxTaps /\ brTaps' = brTaps + 1
Steady == UNCHANGED <<brEvents, brTaps>>

-----------------------------------------------------------------------------
(* The sort, borrowed (sort.c).                                            *)

\* The listener: the column the list is on flips it, another one sorts it ascending.
Notified(o, col) == IF o.col = col THEN By(col, ~o.fwd) ELSE By(col, TRUE)
\* Seeded fault: another column takes one notify, whatever the direction.
NotifiesOnce(mark, to) == IF mark = to THEN 0 ELSE 1
\* bs_goto: as many notifies as the column marked asks for, the mark at the end.
Notifies(mark, to) == CASE mark.col # to.col -> IF to.fwd THEN 1 ELSE 2
                        [] mark.col = to.col /\ mark.fwd # to.fwd -> 1
                        [] OTHER -> 0
Goto(h, to) ==
  LET n == Notifies(h.mark, to)
      one == Notified(h.order, to.col)
  IN  [h EXCEPT !.mark = to, !.order = IF n = 0 THEN @ ELSE IF n = 1 THEN one ELSE Notified(one, to.col)]

\* browse_sort_has_position: a held sort only answers for the header it was taken from.
HasPosition == /\ brView.position
               /\ IF brHold # NoHold THEN brHold.header = brView.header ELSE brHeader[brView.header].sortable

\* browse_sort_take, and nothing to do when it is held already.
Take == LET h == brHeader[brView.header]
        IN  /\ brHold' = [header |-> brView.header, was |-> h.mark, bits |-> h.sortable, own |-> h.order]
            /\ brHeader' = [brHeader EXCEPT ![brView.header] = [Goto(h, By(Position, TRUE)) EXCEPT !.sortable = FALSE, !.dir = FALSE]]
\* browse_sort_give_back: the flags and the control always, the sort if it is still theirs.
GiveBack(headers, resort) ==
  LET h == headers[brHold.header]
      free == [h EXCEPT !.sortable = @ \/ brHold.bits, !.dir = TRUE]
      back == IF brHold.was.col # 0 THEN Goto(free, brHold.was) ELSE [free EXCEPT !.mark = By(0, TRUE)]
  IN  IF brHold = NoHold THEN UNCHANGED brHold /\ brHeader' = headers
      ELSE brHold' = NoHold /\ brHeader' = [headers EXCEPT ![brHold.header] = IF resort THEN back ELSE free]
\* browse_sort_refetch: away and back, so that the library is asked twice.
Refetched(h) == Goto([h EXCEPT !.order = Notified(@, Alt), !.mark = By(Alt, TRUE)], By(Position, TRUE))

-----------------------------------------------------------------------------
(* The plate (edit.c).                                                     *)

\* mod_djdb_playlist_now: the list on screen, or the one the caches still name.
PlaylistNow == IF brView.pid # 0 THEN brView.pid ELSE brSeen
\* The parent chain and the side box are asked when it is 0, and then no playlist is on screen.
OnPlaylist == PlaylistNow # 0
\* be_attach, on a header's paint.
BrBarPaints ==
  /\ brPlate = "none" /\ brView.list # "-"
  /\ brPlate' = IF HasPosition /\ OnPlaylist THEN "shown" ELSE "hidden"
  /\ UNCHANGED <<brView, brSortVars, brEdit, brTouch, brSeen, brEdits>> /\ Steady

\* be_mousedown on the plate.
BrEditPress ==
  /\ Happens /\ brPlate = "shown" /\ brFinger = "up"
  /\ \/ /\ brEdit.on
        /\ brEdit' = NoEdit /\ GiveBack(brHeader, TRUE) /\ UNCHANGED brEdits
     \/ /\ ~brEdit.on
        /\ \/ /\ brHold # NoHold \/ HasPosition
              /\ brEdit' = [on |-> TRUE, list |-> brView.list, root |-> brView.root]
              /\ brEdits' = brEdits + 1
              /\ IF brHold # NoHold THEN UNCHANGED brSortVars ELSE Take
           \/ /\ brHold = NoHold /\ ~HasPosition
              /\ UNCHANGED <<brEdit, brSortVars, brEdits>>
  /\ UNCHANGED <<brView, brPlate, brTouch, brSeen, brTaps>>

-----------------------------------------------------------------------------
(* The fingers (drag.c).                                                   *)

InEditList == brEdit.on /\ brView.list = brEdit.list
Carrying == brDrag.list # "-"
Clamp(x, lo, hi) == IF x < lo THEN lo ELSE IF x > hi THEN hi ELSE x
\* dg_carry_to: the row it would land on, rounded away from the middle, whole rows.
Rounded(dy) == IF dy >= 0 THEN (dy + 1) \div 2 ELSE -((-dy + 1) \div 2)
CarriedTo(d, finger) == [d EXCEPT !.insert = Clamp(d.from + Rounded(finger - d.press), 0, d.rows - 1), !.at = finger - brOff]

Begun(finger) ==
  [list |-> brView.list, from |-> finger \div 2, insert |-> finger \div 2, rows |-> brView.rows, press |-> finger,
   at |-> finger - brOff, lifted |-> TRUE, alive |-> TRUE, edit |-> brEdits, fresh |-> brSettling = 0]
Resumes == Carrying /\ brDrag.alive /\ InEditList
Begins == ~Resumes /\ InEditList /\ brView.rows > 1

\* dg_mousedown: a press while a row is carried is the same gesture; another one puts the
\* row back; a press in the list EDIT is on lifts a row, any other is the deck's.
BrPress ==
  /\ Touched /\ brFinger = "up" /\ brView.list # "-"
  /\ \E finger \in 0..2 * brView.rows - 1 :
       /\ finger - brOff \in 0..BrWindow - 1
       /\ \/ /\ Resumes
             /\ brDrag' = CarriedTo([brDrag EXCEPT !.lifted = TRUE], finger)
             /\ brSettling' = 0 /\ brFinger' = "ours"
          \/ /\ Begins
             /\ brDrag' = Begun(finger) /\ brFinger' = "ours" /\ UNCHANGED brSettling
          \/ /\ ~Resumes /\ ~Begins
             /\ brDrag' = IF brEdit.on THEN NoDrag ELSE brDrag
             /\ brFinger' = "stock" /\ UNCHANGED brSettling
  /\ UNCHANGED <<brView, brSortVars, brPlate, brEdit, brOff, brSeen, brMoves, brEdits, brEvents>>
\* dg_mousedrag: the row follows, and a release before it did not count.
BrMoves ==
  /\ Touched /\ brFinger # "up" /\ Carrying /\ brDrag.alive /\ InEditList
  /\ \E finger \in 0..2 * brView.rows - 1 :
       finger - brOff \in 0..BrWindow - 1 /\ brDrag' = CarriedTo(brDrag, finger)
  /\ brSettling' = 0
  /\ UNCHANGED <<brView, brSortVars, brPlate, brEdit, brOff, brFinger, brSeen, brMoves, brEdits, brEvents>>

\* dg_mouseup: the row goes back now, the write waits.
BrLift ==
  /\ brFinger # "up" /\ brFinger' = "up"
  /\ IF Carrying /\ InEditList
     THEN brDrag' = [brDrag EXCEPT !.lifted = FALSE] /\ brSettling' = BrSettle
     ELSE UNCHANGED <<brDrag, brSettling>>
  /\ UNCHANGED <<brView, brSortVars, brPlate, brEdit, brOff, brSeen, brMoves, brEdits>> /\ Steady

-----------------------------------------------------------------------------
(* The display's tick (be_tick): be_sync, browse_drag_tick, and EDIT's own      *)
(* expiry, in that order.                                                      *)

\* dg_autoscroll: at an edge of the window the list goes by and the row with it.
Scrolls == CASE brDrag.at < 1 /\ brOff > 0 -> -1
             [] brDrag.at > BrWindow - 2 /\ brOff < 2 * brView.rows - BrWindow -> 1
             [] OTHER -> 0
\* The row after the scroll that comes first in the tick.
ScrolledBy == IF brDrag.lifted THEN Scrolls ELSE 0
Scrolled == IF ScrolledBy = 0 THEN brDrag ELSE [CarriedTo(brDrag, brDrag.at + brOff + ScrolledBy) EXCEPT !.at = brDrag.at]
\* dg_commit.
Writes == Scrolled.from # Scrolled.insert /\ PlaylistNow # 0
Move == [pid |-> PlaylistNow, from |-> brDrag.from + 1, to |-> Scrolled.insert + 1, rows |-> brDrag.rows,
         edit |-> brDrag.edit, fresh |-> brDrag.fresh, down |-> brFinger = "ours"]
Commits == Carrying /\ brSettling = 1 /\ brDrag.alive

DragTick ==
  \/ /\ Commits
     /\ brDrag' = NoDrag /\ brSettling' = 0 /\ brOff' = brOff + ScrolledBy
     /\ brMoves' = IF Writes THEN Append(brMoves, Move) ELSE brMoves
  \/ /\ Carrying /\ brDrag.alive /\ ~Commits
     /\ brSettling' = IF brSettling > 0 THEN brSettling - 1 ELSE 0
     /\ brOff' = brOff + ScrolledBy /\ brDrag' = Scrolled
     /\ UNCHANGED brMoves
  \/ /\ Carrying /\ ~brDrag.alive
     /\ brDrag' = NoDrag /\ brSettling' = 0 /\ UNCHANGED <<brOff, brMoves>>
  \/ ~Carrying /\ UNCHANGED <<brDrag, brSettling, brOff, brMoves>>

\* be_sync: a plate its header took with it ends everything but the hold.
Gone == brPlate = "dead"
Synced == IF Gone THEN "none" ELSE IF brPlate = "none" THEN "none"
          ELSE IF brView.list # "-" /\ HasPosition /\ OnPlaylist THEN "shown" ELSE "hidden"
Expired == brEdit.on /\ ~Gone /\ (brView.root # brEdit.root \/ brView.list # brEdit.list \/ ~brView.position)
\* A write asks for the list again, before EDIT sees whether it has ended.
Fetched == IF Commits /\ Writes /\ brHold # NoHold
           THEN [brHeader EXCEPT ![brHold.header] = Refetched(@)] ELSE brHeader

BrTick ==
  /\ brPlate' = Synced
  /\ DragTick
  /\ \/ Expired /\ brEdit' = NoEdit /\ GiveBack(Fetched, FALSE)
     \/ /\ brEdit.on /\ ~Gone /\ ~Expired /\ UNCHANGED brEdit
        /\ IF brHold # NoHold
           THEN /\ brHeader' = [Fetched EXCEPT ![brHold.header].sortable = FALSE, ![brHold.header].dir = FALSE]
                /\ brHold' = [brHold EXCEPT !.bits = @ \/ brHeader[brHold.header].sortable]
           ELSE UNCHANGED brSortVars
     \/ /\ Gone \/ ~brEdit.on
        /\ brEdit' = NoEdit /\ brHeader' = Fetched /\ UNCHANGED brHold
  /\ UNCHANGED <<brView, brFinger, brSeen, brEdits>> /\ Steady

-----------------------------------------------------------------------------
(* The deck.                                                               *)

\* Another list, or another screen; one header serves several lists.
BrShows ==
  /\ Happens
  /\ \E v \in BrViews \ {brView} :
       /\ brView' = v
       /\ brHeader' = [brHeader EXCEPT ![v.header] = Shown(v)]
       /\ brSeen' \in IF v.pid # 0 THEN {v.pid} ELSE {brSeen, 0}
  /\ brOff' = 0 /\ brFinger' = IF brFinger = "up" THEN "up" ELSE "stock"
  /\ UNCHANGED <<brPlate, brEdit, brHold, brDrag, brSettling, brMoves, brEdits, brTaps>>

\* setSortEnabled rewrites the columns' flags whenever it likes.
BrEnablesColumns ==
  /\ Happens /\ ~brHeader[brView.header].sortable
  /\ brHeader' = [brHeader EXCEPT ![brView.header].sortable = TRUE]
  /\ UNCHANGED <<brView, brPlate, brEdit, brHold, brTouch, brSeen, brEdits, brTaps>>

\* The rows of the list on screen are made anew; a header is, with the plate on it.
BrRebuilds ==
  /\ Happens
  /\ \/ Carrying /\ brDrag' = [brDrag EXCEPT !.alive = FALSE] /\ UNCHANGED brPlate
     \/ brPlate \in {"hidden", "shown"} /\ brPlate' = "dead" /\ UNCHANGED brDrag
  /\ UNCHANGED <<brView, brSortVars, brEdit, brSettling, brOff, brFinger, brSeen, brMoves, brEdits, brTaps>>

BrNext ==
  \/ BrBarPaints \/ BrEditPress \/ BrPress \/ BrMoves \/ BrLift \/ BrTick
  \/ BrShows \/ BrEnablesColumns \/ BrRebuilds

BrSpec == BrInit /\ [][BrNext]_brVars

-----------------------------------------------------------------------------
(* Properties.                                                             *)

\* "A release only counts once it has survived a few ticks. A press inside that window
\* cancels it" (drag.c:598-600): a move is queued with the finger off the row.
DropWaitsForTheFinger == \A i \in DOMAIN brMoves : ~brMoves[i].down

\* It is so for every gesture that did not begin on the countdown another one left behind,
\* and what is queued is a move within the list, from one row of it to another.
DropIsDeliberate ==
  \A i \in DOMAIN brMoves :
    LET m == brMoves[i]
    IN  m.from \in 1..m.rows /\ m.to \in 1..m.rows /\ m.from # m.to /\ (m.fresh => ~m.down)

\* "A reorder borrows the sort": pressing EDIT off over the list it was turned on over
\* leaves that list in the order it was in before, whatever was carried, fetched again or
\* enabled in between (sort.c:227-251, 432-468).
EditOffRestores ==
  [][BrEditPress /\ brEdit.on /\ brHold # NoHold /\ brHold.was.col # 0 /\ brView.list = brEdit.list =>
       brHeader'[brHold.header].order = brHold.own]_brVars

\* The DJ's list comes through an EDIT: its order and its rows.
EditLeavesNoTrace == []DropIsDeliberate /\ EditOffRestores

\* "A drag only starts on a row of the list EDIT is on" (drag.c:31-32): a row that is
\* written was lifted since EDIT was last turned on.
MoveIsOfThisEdit == [][Len(brMoves') > Len(brMoves) /\ brEdit.on => brMoves'[Len(brMoves')].edit = brEdits]_brVars

\* "The flags and the direction control always come back" (sort.c:440-441): a sort that is
\* borrowed belongs to an EDIT that is on.
HoldEndsWithEdit == brHold # NoHold => brEdit.on
=============================================================================
