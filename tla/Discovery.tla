------------------------------ MODULE Discovery ------------------------------
(***************************************************************************)
(* Finding a stem server (stemd_client/discovery.c) and telling the deck of    *)
(* it, once per HELLO (session.c:640-690).  The deck greets on connecting, when *)
(* the location is changed and every 30 s; the sidecar probes the address it     *)
(* already has and browses only when that fails.  A document of /v1/health is      *)
(* what it says to the four questions asked of it; the cut at HEALTH_MAX can       *)
(* lose its end.  A greeting's calls run one at a time and servers come and go     *)
(* between them.                                                                 *)
(***************************************************************************)
EXTENDS Naturals, Sequences, FiniteSets

CONSTANTS DiHosts,     \* addresses on the network
          DiDocs,      \* health documents: [rate, channels, stems, modelId, sepId, backend, model, preset]
          DiMaxMoves   \* bound on what the network and the DJ do

Auto == "auto"         \* STEM SERVER LOCATION: AUTO, or a host typed in
Unparsed == ":"        \* what parse_manual refuses
NoHost == "nowhere"
Missing == "missing"   \* a key the document does not hold
NoServer == [host |-> NoHost, reachable |-> FALSE, compatible |-> FALSE, sep |-> <<>>]

VARIABLES
  diNet,      \* per host: which document its server answers with, 0 when nothing listens
  diBrowse,   \* the lines avahi-browse answers with: [resolved, v4, named]
  diSetting,  \* the location the deck has
  diManual,   \* the sidecar's copy of it
  diSrv,      \* struct stem_server
  diPc,       \* "idle", "recheck", "find", "probe", "answer"
  diSaid,     \* the last STATUS and the location it is for
  diSteady,   \* the server known before the greeting answered and was fit all through it
  diMoves

diVars == <<diNet, diBrowse, diSetting, diManual, diSrv, diPc, diSaid, diSteady, diMoves>>
Worlds == [DiHosts -> 0..Len(DiDocs)]
Up(h) == h \in DiHosts /\ diNet[h] # 0
Doc(h) == DiDocs[diNet[h]]

DiInit ==
  /\ diNet \in Worlds /\ diBrowse = <<>>
  /\ diSetting = Auto /\ diManual = Auto /\ diSrv = NoServer
  /\ diPc = "idle" /\ diSaid = [srv |-> NoServer, for |-> Auto] /\ diSteady = FALSE /\ diMoves = 0

-----------------------------------------------------------------------------
(* The algorithms.                                                         *)

\* health_probe: four facts the deck cannot do without.
Compatible(d) == d.rate /\ d.channels /\ d.stems

\* derive_sep_id: the first key the document has, else a composite with a word for each
\* missing part.
OrWord(x, w) == IF x = Missing THEN w ELSE x
DeriveSepId(d) ==
  CASE d.modelId # Missing -> <<d.modelId>>
    [] d.modelId = Missing /\ d.sepId # Missing -> <<d.sepId>>
    [] OTHER -> <<OrWord(d.backend, "unknown"), OrWord(d.model, "unknown"), OrWord(d.preset, "default")>>

\* browse_mdns: the first line that is resolved and whose address is, or whose name
\* resolves to, an IPv4 one.
Usable(l) == l.resolved /\ (l.v4 \/ l.named)
BrowseFinds(lines) ==
  LET ok == {i \in DOMAIN lines : Usable(lines[i])}
  IN  IF ok = {} THEN NoHost ELSE lines[CHOOSE i \in ok : \A j \in ok : i <= j].host

\* What the location names: a manual entry as it parses, or what the browse finds.
Locates(manual) ==
  CASE manual = Auto -> BrowseFinds(diBrowse)
    [] manual = Unparsed -> NoHost
    [] OTHER -> manual

-----------------------------------------------------------------------------
(* A greeting.                                                             *)

\* HELLO: only a change of location goes looking; the rest ask the address already known.
Greets(pc) ==
  /\ diPc = "idle"
  /\ diManual' = diSetting
  /\ diPc' = pc
  /\ diSteady' = (diManual = diSetting /\ Up(diSrv.host) /\ Compatible(Doc(diSrv.host)))
  /\ UNCHANGED <<diNet, diBrowse, diSetting, diSrv, diSaid, diMoves>>
\* Seeded fault: an address that answers is good enough,
\* wherever it came from.
LookWhileKnown == IF diSrv.host = NoHost THEN "find" ELSE "recheck"
FirstLook == IF diManual # diSetting \/ diSrv.host = NoHost THEN "find" ELSE "recheck"
DiHello == Greets(FirstLook)

\* health_probe on an address: no answer leaves the record as it was.
Probed(srv) ==
  IF Up(srv.host)
  THEN [srv EXCEPT !.reachable = TRUE, !.compatible = Compatible(Doc(srv.host)), !.sep = DeriveSepId(Doc(srv.host))]
  ELSE srv
Fit(srv) == Up(srv.host) /\ Compatible(Doc(srv.host))

\* discovery_recheck: the address already known.
DiRecheck ==
  /\ diPc = "recheck"
  /\ diSrv' = Probed(diSrv)
  /\ diPc' = IF Fit(diSrv) THEN "answer" ELSE "find"
  /\ UNCHANGED <<diNet, diBrowse, diSetting, diManual, diSaid, diSteady, diMoves>>

\* discovery_find: forgets, locates, probes.
DiFind ==
  /\ diPc = "find"
  /\ diSrv' = [NoServer EXCEPT !.host = Locates(diManual)]
  /\ diPc' = IF Locates(diManual) = NoHost THEN "answer" ELSE "probe"
  /\ UNCHANGED <<diNet, diBrowse, diSetting, diManual, diSaid, diSteady, diMoves>>

DiProbe ==
  /\ diPc = "probe"
  /\ diSrv' = Probed(diSrv)
  /\ diPc' = "answer"
  /\ UNCHANGED <<diNet, diBrowse, diSetting, diManual, diSaid, diSteady, diMoves>>

\* report_status: what the record holds.
DiReports ==
  /\ diPc = "answer"
  /\ diSaid' = [srv |-> diSrv, for |-> diManual]
  /\ diPc' = "idle"
  /\ UNCHANGED <<diNet, diBrowse, diSetting, diManual, diSrv, diSteady, diMoves>>

-----------------------------------------------------------------------------
(* The network and the DJ.                                                 *)

Moves == diMoves < DiMaxMoves /\ diMoves' = diMoves + 1

\* A server starts, stops, or comes back with other weights.
DiServerChanges ==
  /\ Moves
  /\ \E h \in DiHosts, d \in 0..Len(DiDocs) :
       /\ diNet' = [diNet EXCEPT ![h] = d]
       /\ diSteady' = (diSteady /\ (h = diSrv.host => d # 0 /\ Compatible(DiDocs[d])))
  /\ UNCHANGED <<diBrowse, diSetting, diManual, diSrv, diPc, diSaid>>

\* avahi's cache warms, cools, and holds lines of servers that have gone.
DiCacheChanges ==
  /\ Moves
  /\ \E h \in DiHosts, g \in DiHosts, r, v, n \in BOOLEAN :
       diBrowse' \in {<<>>, <<[host |-> h, resolved |-> r, v4 |-> v, named |-> n],
                              [host |-> g, resolved |-> TRUE, v4 |-> TRUE, named |-> FALSE]>>}
  /\ UNCHANGED <<diNet, diSetting, diManual, diSrv, diPc, diSaid, diSteady>>

DiSetsLocation ==
  /\ Moves
  /\ diSetting' \in (DiHosts \cup {Auto, Unparsed}) \ {diSetting}
  /\ UNCHANGED <<diNet, diBrowse, diManual, diSrv, diPc, diSaid, diSteady>>

DiNext ==
  \/ DiHello \/ DiRecheck \/ DiFind \/ DiProbe \/ DiReports
  \/ DiServerChanges \/ DiCacheChanges \/ DiSetsLocation

DiSpec == DiInit /\ [][DiNext]_diVars

-----------------------------------------------------------------------------
(* Properties.                                                             *)

\* What a status tells the deck is of one server and of the place the greeting named: a
\* change from MANUAL to AUTO is never answered with the typed address's readiness
\* (session.c:654-657), an unparsable one never with the last server's, and the cache key
\* is that of a document that server has.
StatusIsOfThePlace ==
  LET s == diSaid.srv
  IN  /\ diSaid.for \in DiHosts /\ s.reachable => s.host = diSaid.for
      /\ diSaid.for = Unparsed => ~s.reachable
      /\ s.compatible => s.reachable /\ \E i \in DOMAIN DiDocs : Compatible(DiDocs[i]) /\ s.sep = DeriveSepId(DiDocs[i])

\* The deck's picture of its server, both ways round: what a report says is of the place,
\* and a refresh never takes away a server that was known and fit all through it, however
\* cold avahi's cache ("answering those with a browse is what made the deck flap",
\* session.c:663-669).
ServerIsAsFound ==
  [][DiReports => StatusIsOfThePlace' /\ (diSteady => diSrv.compatible)]_diVars
=============================================================================
