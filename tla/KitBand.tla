------------------------------ MODULE KitBand -------------------------------
(***************************************************************************)
(* The band under the waveform (kit/band.c) and the clients that borrow it   *)
(* (stem/ui/panel.c and hooks.c, xpad/ui.c).  The app's own quick-menu mode  *)
(* register says which panel has the band; a client writes its own mode      *)
(* there, or the grid mode where the app refuses it, or shrinks the waveform *)
(* by hand where the register's owner has not been found.                   *)
(*                                                                         *)
(* Everything runs on the app's message thread, so a handler is one step.    *)
(* The app itself is outside: it takes a mode of ours or not (KbAccepts), it  *)
(* refuses every panel without a track, its title-bar buttons and the rotary *)
(* write the register.  Left out: geometry, the buttons' slots.              *)
(***************************************************************************)
EXTENDS Naturals, FiniteSets

CONSTANTS KbAccepts,   \* modes of ours the app lays out
          KbMaxEvents  \* bound: what the DJ and the app do

Clients == {"stems", "xpad"}
Closed == 0
StockModes == {1, 2, 3}
Strip == 4             \* QM_MODE_STRIP, the app's grid mode
ModeOf == [c \in Clients |-> IF c = "stems" THEN 5 ELSE 6]
Ours == {ModeOf[c] : c \in Clients}
NoClient == "none"
Unclaimed == 99        \* band_g_claimed = -1

ASSUME KbAssumption == KbAccepts \subseteq Ours /\ KbMaxEvents \in Nat

VARIABLES kb,       \* mode, holder, used (band_g_used_qm), claimed, shrunk,
                    \* found (band_g_qm_owner), and per client open, on, and
                    \* seen: the state its last sync acted on
          kbTrack,  \* a track is loaded
          kbAvail,  \* stems_available()
          kbEvents

kbVars == <<kb, kbTrack, kbAvail, kbEvents>>

KbInit ==
  /\ kb = [mode |-> Closed, holder |-> NoClient, used |-> FALSE, claimed |-> Unclaimed,
           shrunk |-> FALSE, found |-> FALSE,
           open |-> [c \in Clients |-> FALSE], on |-> [c \in Clients |-> TRUE],
           seen |-> [c \in Clients |-> [on |-> TRUE, open |-> FALSE]]]
  /\ kbTrack = FALSE /\ kbAvail = TRUE /\ kbEvents = 0

-----------------------------------------------------------------------------
(* kit/band.c, on the record w.                                             *)

\* band_qm_mode: 0 with no owner, -1 when the register does not read back.
Accepted(m) == m = Closed \/ (kbTrack /\ m \in StockModes \cup {Strip} \cup KbAccepts)
ModeReply(w, m) == IF ~w.found THEN "none" ELSE IF Accepted(m) THEN "set" ELSE "refused"
SetMode(w, m) == IF ModeReply(w, m) = "set" THEN [w EXCEPT !.mode = m] ELSE w

\* band_qm_release: only a mode of ours is handed back.
Stranded(w) == w.found /\ w.mode \in Ours
Release(w) == IF Stranded(w) THEN [w EXCEPT !.mode = Closed, !.used = FALSE] ELSE w

\* band_drop_holder: stems_band_closed and xpad_band_closed clear their flag
\* and sync, which is no more than remembering what is now shown.
Now(w, c) == [on |-> w.on[c], open |-> w.open[c]]
Drop(w) ==
  LET c == w.holder
      shut == [w EXCEPT !.holder = NoClient, !.open[c] = FALSE]
  IN  IF c = NoClient THEN w
      ELSE IF w.open[c] THEN [shut EXCEPT !.seen[c] = Now(shut, c)] ELSE shut

\* kit_band_take.
Take(w, c) ==
  LET d == IF w.holder \notin {NoClient, c} THEN Drop(w) ELSE w
      h == [d EXCEPT !.holder = c]
      mine == ModeReply(h, ModeOf[c])
      strip == ModeReply(h, Strip)
  IN  IF mine = "set" THEN [SetMode(h, ModeOf[c]) EXCEPT !.used = TRUE, !.claimed = ModeOf[c]]
      ELSE IF strip = "set" THEN [SetMode(h, Strip) EXCEPT !.used = TRUE, !.claimed = Strip]
      ELSE IF mine = "refused" \/ strip = "refused"
           THEN [h EXCEPT !.holder = NoClient, !.claimed = Unclaimed]
      ELSE [h EXCEPT !.shrunk = TRUE, !.claimed = Unclaimed]

\* kit_band_give.
Give(w, c) ==
  LET g == [w EXCEPT !.holder = NoClient] IN
  IF w.holder # c THEN w
  ELSE IF Stranded(g) THEN Release(g)
  ELSE IF g.used THEN [SetMode(g, Closed) EXCEPT !.used = FALSE]
  ELSE [g EXCEPT !.shrunk = FALSE]

\* kit_band_poll: somebody else's mode drops the holder; with no holder a mode
\* of ours is handed back.
PollOf(w) ==
  IF w.holder = NoClient THEN Release(w)
  ELSE IF w.used /\ w.claimed = ModeOf[w.holder] /\ w.found /\ w.mode # ModeOf[w.holder]
       THEN Drop([w EXCEPT !.used = FALSE, !.claimed = Unclaimed])
       ELSE w
\* The register's owner may be found by any reader of it, and stays found.
Finding(w) == {w, [w EXCEPT !.found = TRUE]}

-----------------------------------------------------------------------------
(* The clients.                                                             *)

\* stems_sync: a gate that moved with the row open claims or releases the band;
\* what kit_band_take answers is not read.
StemsSync(w) ==
  LET old == w.seen["stems"]
      s == [w EXCEPT !.seen["stems"] = Now(w, "stems")]
  IN  IF old.on = w.on["stems"] \/ ~w.open["stems"] THEN s
      ELSE IF w.on["stems"] THEN Take(s, "stems") ELSE Give(s, "stems")

\* xpad_sync: a gate that went off with the panel open closes it.
XpadSync(w) ==
  LET s == [w EXCEPT !.seen["xpad"] = Now(w, "xpad")] IN
  IF w.seen["xpad"] # Now(w, "xpad") /\ ~w.on["xpad"] /\ w.open["xpad"]
  THEN Give([s EXCEPT !.open["xpad"] = FALSE], "xpad") ELSE s
Sync(w, c) == IF c = "stems" THEN StemsSync(w) ELSE XpadSync(w)

\* stems_toggle_row, xpad_toggle: the band first, and only open if it comes.
Toggled(w, c) ==
  IF w.open[c] THEN Sync(Give([w EXCEPT !.open[c] = FALSE], c), c)
  ELSE LET t == Take(w, c) IN
       IF t.holder # c THEN t ELSE Sync([t EXCEPT !.open[c] = TRUE], c)

Event == kbEvents < KbMaxEvents /\ kbEvents' = kbEvents + 1
KbQuiet == UNCHANGED <<kbTrack, kbAvail, kbEvents>>

\* A press of the client's own button, shown while its row of the menu is on.
\* STEMS with nothing to control refuses to open.
KbPress(c) ==
  /\ kb.seen[c].on /\ Event
  /\ c = "stems" => kb.open[c] \/ kbAvail
  /\ \E w \in Finding(kb) : kb' = Toggled(w, c)
  /\ UNCHANGED <<kbTrack, kbAvail>>

\* The menu's rows: X-PAD syncs at once, STEMS at the next paint.
KbGate(c) ==
  /\ Event
  /\ \E w \in Finding([kb EXCEPT !.on[c] = ~@]) : kb' = IF c = "xpad" THEN XpadSync(w) ELSE w
  /\ UNCHANGED <<kbTrack, kbAvail>>

\* stems_ta_paint: sync, and a poll while the row is shut.
KbPaint ==
  /\ \E w \in Finding(kb) :
       LET s == StemsSync(w) IN kb' = IF s.open["stems"] THEN s ELSE PollOf(s)
  /\ KbQuiet

\* stems_drc_timer: the poll, then stems_warn_poll, which shuts a row that has
\* nothing left to control.
TickWithoutRelease ==   \* seeded fault: an unheld mode of ours is left alone
  /\ \E w \in Finding(kb) :
       LET p == IF w.holder = NoClient THEN w ELSE PollOf(w) IN
       kb' = IF p.open["stems"] /\ ~kbAvail THEN Toggled(p, "stems") ELSE p
  /\ KbQuiet
KbTick ==
  /\ \E w \in Finding(kb) :
       LET p == PollOf(w) IN
       kb' = IF p.open["stems"] /\ ~kbAvail THEN Toggled(p, "stems") ELSE p
  /\ KbQuiet

\* band_btn_mousedown: a title-bar button of the app's takes the band over, and
\* what is left in the register is settled after the app has had its say.
KbStockPress(m) ==
  /\ Event
  /\ LET took == kb.holder # NoClient
         d == IF took THEN Drop([kb EXCEPT !.shrunk = FALSE]) ELSE kb
         says == IF kb.mode = m THEN {Closed} ELSE IF kbTrack THEN {m, kb.mode} ELSE {kb.mode}
     IN  \E n \in says : kb' = IF took THEN Release([d EXCEPT !.mode = n]) ELSE [d EXCEPT !.mode = n]
  /\ UNCHANGED <<kbTrack, kbAvail>>

\* Grid adjust opens and closes on the rotary, past every button.
KbGridAdjust ==
  /\ Event /\ kbTrack
  /\ kb' = [kb EXCEPT !.mode = IF @ = Strip THEN Closed ELSE Strip]
  /\ UNCHANGED <<kbTrack, kbAvail>>
\* A track comes or goes; the app may put its panel away with it.
KbLoadTrack ==
  /\ Event /\ kbTrack' = ~kbTrack
  /\ kb' \in {kb, [kb EXCEPT !.mode = IF kbTrack THEN Closed ELSE @]}
  /\ UNCHANGED kbAvail
KbServer ==
  /\ Event /\ kbAvail' = ~kbAvail /\ UNCHANGED <<kb, kbTrack>>

KbNext ==
  \/ \E c \in Clients : KbPress(c) \/ KbGate(c)
  \/ KbPaint \/ KbTick \/ KbGridAdjust \/ KbLoadTrack \/ KbServer
  \/ \E m \in StockModes : KbStockPress(m)
KbFairness == WF_kbVars(KbTick)
KbSpec == KbInit /\ [][KbNext]_kbVars /\ KbFairness

-----------------------------------------------------------------------------
(* Properties.                                                              *)

\* A client's strip is on the screen when its last sync saw the gate on and the
\* panel open.
Shows(c) == kb.seen[c].on /\ kb.seen[c].open

\* The band is held for a panel that is open: whoever closes one, a press, the
\* gate, the server going or the app's own panels, also lets the band go, so no
\* later press of another client finds it held for nothing.
HolderIsOpen == kb.holder # NoClient => kb.open[kb.holder]

\* "A desynced flag can never strand the band shrunk with no panel in it"
\* (band.c:507-508): a mode of ours that nobody holds is handed back.
BandIsHandedBack ==
  (kb.holder = NoClient /\ Stranded(kb)) ~> (kb.holder # NoClient \/ kb.mode \notin Ours)

\* The band is held for what is open and handed back for what is not.
BandIsShared == []HolderIsOpen /\ BandIsHandedBack

\* "Pressing one quick-menu button closes the last, and ours are not an
\* exception" (band.c:548-551): two strips are never drawn into one band.  The
\* code breaks it: stems_sync takes the band back with its gate and does not
\* read the answer (panel.c:95-96), so with no track the row is shown without
\* the band, and X-PAD opening over it finds nobody to close.
OneStripAtATime == Cardinality({c \in Clients : Shows(c)}) <= 1
=============================================================================
