------------------------------ MODULE MoveWrite ------------------------------
(***************************************************************************)
(* Writing the DJ's edits into the deck's library (db/djdb.c,                *)
(* db/djdb_playlist.c): a playlist reorder from the browser and a tempo from  *)
(* the grid panel, asked for on the message thread, which has no library      *)
(* context, and written by a library thread after a message it has handled.   *)
(* Each edit waits in a few plain words, stored and read one after another.   *)
(* A read of a table is one step (the deck's query), a row written is one      *)
(* step, and the library may refuse any of them.  The same two drains are     *)
(* called from the library's queries, inserts and updates too (djdb.c:125-162, *)
(* 754), wherever the library runs: only the call after a message is here.    *)
(***************************************************************************)
EXTENDS Integers, Sequences, FiniteSets, SequencesExt

CONSTANTS MvLists,     \* playlist -> its contents, in order
          MvContents,  \* tracks whose tempo is edited
          MvFails,     \* DJDB_DRAIN_FAILS
          MvMaxAsks,   \* bound on edits
          MvMaxRefusals

Nobody == "-"
Pids == DOMAIN MvLists
NoMove == [pid |-> 0, from |-> 0, to |-> 0, rows |-> 0]
NoTempo == [id |-> Nobody, bpm |-> 0]

ASSUME MvListsAreSets == \A p \in Pids : p # 0 /\ IsInjective(MvLists[p])

VARIABLES
  mvTable,    \* DJDBSONGPLAYLIST: playlist -> content -> TRACKNO
  mvTempi,    \* djdbContent: content -> BPM
  mvBox,      \* djdb_g_move_pid, _from, _to, _rows
  mvHeld,     \* djdb_g_pending_id, _bpm
  mvFailed,   \* djdb_g_fails
  mvUi,       \* the message thread: [pc, req]
  mvLib,      \* the library thread: [pc, req, read, todo, failed]
  mvLast,     \* the last edit asked for of each kind, the requests the box was filled with
  mvStale,    \* TRUE: the list on screen is to be fetched again
  mvTorn,     \* the move being written was never asked for as it is
  mvRefusals, mvAsks

mvVars == <<mvTable, mvTempi, mvBox, mvHeld, mvFailed, mvUi, mvLib, mvLast, mvStale, mvTorn, mvRefusals, mvAsks>>

Idle == [pc |-> "idle", req |-> NoMove, read |-> <<>>, todo |-> {}, failed |-> FALSE]

MvInit ==
  /\ mvTable = [p \in Pids |-> [c \in Range(MvLists[p]) |-> CHOOSE i \in DOMAIN MvLists[p] : MvLists[p][i] = c]]
  /\ mvTempi = [c \in MvContents |-> 0]
  /\ mvBox = NoMove /\ mvHeld = NoTempo /\ mvFailed = 0
  /\ mvUi = [pc |-> "idle", req |-> NoMove, tempo |-> NoTempo] /\ mvLib = Idle
  /\ mvLast = [moves |-> {}, tempi |-> {}] /\ mvStale = FALSE /\ mvTorn = FALSE
  /\ mvRefusals = 0 /\ mvAsks = 0

mvData == <<mvTable, mvTempi>>
mvWords == <<mvBox, mvHeld, mvFailed>>
mvNotes == <<mvTorn, mvRefusals>>

-----------------------------------------------------------------------------
(* The message thread.                                                     *)

Asks == mvUi.pc = "idle" /\ mvAsks < MvMaxAsks /\ mvAsks' = mvAsks + 1

\* dg_commit: a drop of one row of the list on screen onto another.
Sane(r) == r.from # r.to /\ r.from > 0 /\ r.to > 0
MvAsksMove ==
  /\ Asks
  /\ \E p \in Pids, f, t \in 1..10 :
       /\ f <= Len(MvLists[p]) /\ t <= Len(MvLists[p])
       /\ LET r == [pid |-> p, from |-> f, to |-> t, rows |-> Len(MvLists[p])]
          IN  /\ Sane(r)
              /\ mvUi' = [mvUi EXCEPT !.pc = "pid", !.req = r]
              /\ mvLast' = [mvLast EXCEPT !.moves = @ \cup {r}]
  /\ UNCHANGED <<mvData, mvWords, mvLib, mvStale, mvNotes>>

\* mod_djdb_move_track_async, store by store; then the caches and the second fetch.
MvPosts ==
  /\ \/ /\ mvUi.pc = "pid" /\ mvBox' = [mvBox EXCEPT !.pid = mvUi.req.pid]
        /\ mvUi' = [mvUi EXCEPT !.pc = "from"] /\ UNCHANGED mvStale
     \/ /\ mvUi.pc = "from" /\ mvBox' = [mvBox EXCEPT !.from = mvUi.req.from]
        /\ mvUi' = [mvUi EXCEPT !.pc = "to"] /\ UNCHANGED mvStale
     \/ /\ mvUi.pc = "to" /\ mvBox' = [mvBox EXCEPT !.to = mvUi.req.to]
        /\ mvUi' = [mvUi EXCEPT !.pc = "rows"] /\ UNCHANGED mvStale
     \/ /\ mvUi.pc = "rows" /\ mvBox' = [mvBox EXCEPT !.rows = mvUi.req.rows]
        /\ mvUi' = [mvUi EXCEPT !.pc = "idle"] /\ mvStale' = TRUE
  /\ UNCHANGED <<mvData, mvHeld, mvFailed, mvLib, mvLast, mvNotes, mvAsks>>

\* mod_djdb_set_bpm: refused inline, because there is no context here, and held.
MvAsksTempo ==
  /\ Asks
  /\ \E c \in MvContents :
       /\ mvUi' = [mvUi EXCEPT !.pc = "bpm", !.tempo = [id |-> c, bpm |-> mvAsks + 1]]
       /\ mvLast' = [mvLast EXCEPT !.tempi = @ \cup {[id |-> c, bpm |-> mvAsks + 1]}]
  /\ UNCHANGED <<mvData, mvWords, mvLib, mvStale, mvNotes>>
MvHolds ==
  /\ \/ mvUi.pc = "bpm" /\ mvHeld' = [mvHeld EXCEPT !.bpm = mvUi.tempo.bpm] /\ mvUi' = [mvUi EXCEPT !.pc = "id"] /\ UNCHANGED mvFailed
     \/ mvUi.pc = "id" /\ mvHeld' = [mvHeld EXCEPT !.id = mvUi.tempo.id] /\ mvUi' = [mvUi EXCEPT !.pc = "idle"] /\ mvFailed' = 0
  /\ UNCHANGED <<mvData, mvBox, mvLib, mvLast, mvStale, mvNotes, mvAsks>>

-----------------------------------------------------------------------------
(* The library thread, after a message.                                    *)

Refuses == mvRefusals < MvMaxRefusals /\ mvRefusals' = mvRefusals + 1
mvAsked == <<mvUi, mvLast, mvAsks>>

\* djdb_wrap_msg_run: the message has been handled, the list fetched again if it was
\* one; a held tempo first, then the move.
MvMessage ==
  /\ mvLib.pc = "idle" /\ (mvHeld.id # Nobody \/ mvBox.pid # 0 \/ mvStale)
  /\ mvLib' = [mvLib EXCEPT !.pc = "tempo"] /\ mvStale' = FALSE
  /\ UNCHANGED <<mvData, mvWords, mvAsked, mvNotes>>

\* djdb_drain_pending: the words, the write, and what becomes of the words.
MvTempoLooks ==
  /\ mvLib.pc = "tempo"
  /\ IF mvHeld.id = Nobody \/ mvFailed >= MvFails
     THEN mvLib' = [mvLib EXCEPT !.pc = "move"]
     ELSE mvLib' = [mvLib EXCEPT !.pc = "bpm", !.req = [NoMove EXCEPT !.pid = mvHeld.id]]
  /\ UNCHANGED <<mvData, mvWords, mvAsked, mvStale, mvNotes>>
MvTempoReads ==
  /\ mvLib.pc = "bpm"
  /\ mvLib' = [mvLib EXCEPT !.pc = "write", !.req.to = mvHeld.bpm]
  /\ UNCHANGED <<mvData, mvWords, mvAsked, mvStale, mvNotes>>
MvTempoWrites ==
  /\ mvLib.pc = "write"
  /\ \/ /\ mvTempi' = [mvTempi EXCEPT ![mvLib.req.pid] = mvLib.req.to]
        /\ mvLib' = [mvLib EXCEPT !.pc = "forget"] /\ UNCHANGED <<mvFailed, mvRefusals>>
     \/ /\ Refuses /\ mvFailed' = mvFailed + 1
        /\ mvLib' = [mvLib EXCEPT !.pc = "move"] /\ UNCHANGED mvTempi
  /\ UNCHANGED <<mvTable, mvBox, mvHeld, mvAsked, mvStale, mvTorn>>
\* Seeded fault: the tempo that was written goes on being held.
ForgetsNothing ==
  /\ mvLib.pc = "forget" /\ mvLib' = [mvLib EXCEPT !.pc = "move"]
  /\ UNCHANGED <<mvData, mvWords, mvAsked, mvStale, mvNotes>>
MvTempoForgets ==
  /\ mvLib.pc = "forget"
  /\ mvHeld' = [mvHeld EXCEPT !.id = Nobody] /\ mvFailed' = 0
  /\ mvLib' = [mvLib EXCEPT !.pc = "move"]
  /\ UNCHANGED <<mvData, mvBox, mvAsked, mvStale, mvNotes>>

\* djdb_drain_move: the playlist, the two positions, then the word is cleared whatever
\* comes of it; the rows are read on the way into the call.
MvMoveLooks ==
  /\ mvLib.pc = "move"
  /\ mvLib' = IF mvBox.pid = 0 THEN Idle ELSE [mvLib EXCEPT !.pc = "positions", !.req = [NoMove EXCEPT !.pid = mvBox.pid]]
  /\ UNCHANGED <<mvData, mvWords, mvAsked, mvStale, mvNotes>>
MvMoveReads ==
  /\ mvLib.pc = "positions"
  /\ mvLib' = [mvLib EXCEPT !.pc = "clear", !.req.from = mvBox.from, !.req.to = mvBox.to]
  /\ UNCHANGED <<mvData, mvWords, mvAsked, mvStale, mvNotes>>
MvMoveClears ==
  /\ mvLib.pc = "clear"
  /\ mvBox' = [mvBox EXCEPT !.pid = 0]
  /\ mvLib' = [mvLib EXCEPT !.pc = "read", !.req.rows = mvBox.rows]
  /\ UNCHANGED <<mvData, mvHeld, mvFailed, mvAsked, mvStale, mvNotes>>

-----------------------------------------------------------------------------
(* mod_djdb_move_track.                                                    *)

\* The rows of a playlist as the query gives them, in any order.
Entries(p) == {[content |-> c, no |-> mvTable[p][c]] : c \in DOMAIN mvTable[p]}
Taken(r, es) == r.rows = Cardinality(es) /\ Sane(r) /\ \E e \in es : e.no = r.from

\* Where each entry goes: what lies between the two positions shifts one place away from
\* where the entry came from.
Target(r, e) ==
  CASE e.no = r.from -> r.to
    [] r.from < r.to /\ e.no > r.from /\ e.no <= r.to -> e.no - 1
    [] r.from > r.to /\ e.no >= r.to /\ e.no < r.from -> e.no + 1
    [] OTHER -> e.no

MvReadsList ==
  /\ mvLib.pc = "read"
  /\ LET r == mvLib.req  es == Entries(mvLib.req.pid)
     IN  IF Taken(r, es)
         THEN mvLib' = [mvLib EXCEPT !.pc = "rows", !.read = es, !.failed = FALSE,
                          !.todo = {[content |-> e.content, no |-> Target(r, e)] : e \in {x \in es : Target(r, x) # x.no}}]
         ELSE mvLib' = Idle
  /\ mvTorn' = (mvLib.req \notin mvLast.moves)
  /\ UNCHANGED <<mvData, mvWords, mvAsked, mvStale, mvRefusals>>
\* A row is written or refused; the others go on.
MvWritesRow ==
  /\ mvLib.pc = "rows"
  /\ \E e \in mvLib.todo :
       \/ /\ mvTable' = [mvTable EXCEPT ![mvLib.req.pid][e.content] = e.no]
          /\ mvLib' = [mvLib EXCEPT !.todo = @ \ {e}] /\ UNCHANGED mvRefusals
       \/ /\ Refuses /\ UNCHANGED mvTable
          /\ mvLib' = [mvLib EXCEPT !.todo = @ \ {e}, !.failed = TRUE]
  /\ UNCHANGED <<mvTempi, mvWords, mvAsked, mvStale, mvTorn>>
\* Every row was tried: the cached lists are dropped when all of them landed.
MvMoveEnds ==
  /\ mvLib.pc = "rows" /\ mvLib.todo = {}
  /\ mvLib' = [Idle EXCEPT !.pc = "done", !.req = mvLib.req, !.read = mvLib.read, !.failed = mvLib.failed]
  /\ UNCHANGED <<mvData, mvWords, mvAsked, mvStale, mvNotes>>
MvDropsCache ==
  /\ mvLib.pc = "done" /\ mvLib' = Idle
  /\ mvStale' = (mvStale \/ ~mvLib.failed)
  /\ UNCHANGED <<mvData, mvWords, mvAsked, mvNotes>>

MvLibrary ==
  \/ MvMessage \/ MvTempoLooks \/ MvTempoReads \/ MvTempoWrites \/ MvTempoForgets \/ MvMoveLooks
  \/ MvMoveReads \/ MvMoveClears \/ MvReadsList \/ MvWritesRow \/ MvMoveEnds \/ MvDropsCache
MvNext == MvAsksMove \/ MvPosts \/ MvAsksTempo \/ MvHolds \/ MvLibrary

MvSpec == MvInit /\ [][MvNext]_mvVars /\ WF_mvVars(MvLibrary)

-----------------------------------------------------------------------------
(* Properties.                                                             *)

\* The order a list of entries shows, and the same with one row carried to another place.
Order(es) == [i \in 1..Cardinality(es) |-> (CHOOSE e \in es : e.no = i).content]
Dense(p) == {mvTable[p][c] : c \in DOMAIN mvTable[p]} = 1..Cardinality(DOMAIN mvTable[p])
Carried(s, from, to) == InsertAt(RemoveAt(s, from), to, s[from])

\* A move writes the playlist the DJ saw with one row carried to its new place, and every
\* number from 1 to the last is still used once (djdb.c:481-503): not for a move put
\* together from two requests, nor after the library refused a row.
MoveIsOneCarry ==
  mvLib.pc = "done" /\ ~mvTorn /\ mvRefusals = 0 =>
    LET r == mvLib.req IN Dense(r.pid) /\ Order(Entries(r.pid)) = Carried(Order(mvLib.read), r.from, r.to)

\* "A second opinion on the id" (db.h:196-200): a playlist of another length than the list
\* on screen is never rewritten, whatever is read across two requests.
LengthIsRespected == mvLib.pc = "rows" => mvLib.req.rows = Cardinality(mvLib.read)

\* Both: what is written is the move the DJ made of the list the DJ saw.
MovesAreWhole == MoveIsOneCarry /\ LengthIsRespected

\* Nothing waits for ever on a library that goes on handling messages: a move is taken,
\* a tempo is written or out of its budget (djdb.c:303-318).
NothingWaitsForEver ==
  (mvBox.pid # 0 ~> mvBox.pid = 0) /\ (mvHeld.id # Nobody ~> mvHeld.id = Nobody \/ mvFailed >= MvFails)

\* An edit is written whole, and in the end.
EditsReachTheLibrary == []MovesAreWhole /\ NothingWaitsForEver

\* "The last edit wins" (djdb.c:290): a track's tempo is one that was asked for it.
TempoIsItsOwn == \A c \in MvContents : mvTempi[c] = 0 \/ [id |-> c, bpm |-> mvTempi[c]] \in mvLast.tempi
\* ... and the last one asked for is the one it ends with.
LastTempoLands == <>[](\A t \in mvLast.tempi : (\A u \in mvLast.tempi : u.bpm <= t.bpm) => mvTempi[t.id] = t.bpm \/ mvFailed > 0)
\* A move asked for is written as it was asked for, or not at all.
NoTornMove == mvLib.pc = "rows" => ~mvTorn
=============================================================================
