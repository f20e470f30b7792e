----------------------------- MODULE SepSession -----------------------------
(***************************************************************************)
(* The link between the deck's separator thread (job.c run_separation and   *)
(* refresh_status, job_separator.c, ipc.c) and the sidecar                  *)
(* (package/deck/stemd_client main.c and session.c), with the stem server   *)
(* the sidecar talks to.                                                    *)
(*                                                                         *)
(* A connection is two queues of frames.  The deck sends HELLO, BEGIN, PCM, *)
(* END and CANCEL; the sidecar answers STATUS, PROGRESS, READY and FAILED.  *)
(* A PCM frame carries the track it belongs to, a READY names a fixed spool *)
(* file whose content is whatever the last fetch put there, and a PROGRESS  *)
(* says only that a separation is being polled: one that was not read yet   *)
(* stands for those that follow it, and those of the fetching leg, each     *)
(* beside a READY, are left out.  The loader is one step that asks the      *)
(* separator for the current track when the cache has no entry for it.      *)
(*                                                                         *)
(* The two sides run at any speed: a side may be silent for as long as a    *)
(* timeout takes.  Left out: the length of a frame's payload, versions      *)
(* (both ends are built together), the pool rate asked for, and the writes  *)
(* of the sidecar, which never fill the deck's receive buffer.              *)
(***************************************************************************)
EXTENDS Naturals, Sequences, FiniteSets

CONSTANTS Tracks, NoTrack,
          Chunks,     \* PCM frames a track is uploaded in
          Capacity,   \* frames the socket holds before a write blocks
          MaxPolls,   \* polls of a job in POLL_MAX_SECONDS
          MaxConns,   \* bound: connections the deck opens
          MaxJobs,    \* bound: jobs the server accepts
          MaxLoads,   \* bound: tracks the DJ loads
          Events,     \* what else may happen, of EventKinds
          MaxEvents   \* bound: how often, in all

\* The DJ's application restarts, the sidecar dies, the server or the network
\* fails a request, the periodic status probe.
EventKinds == {"deck", "sidecar", "server", "probe"}

ASSUME SessionAssumption ==
  /\ NoTrack \notin Tracks
  /\ {Chunks, Capacity, MaxPolls} \subseteq Nat \ {0}
  /\ {MaxConns, MaxJobs, MaxLoads, MaxEvents} \subseteq Nat
  /\ Events \subseteq EventKinds

Parts == <<"harmonics", "vocals">>      \* in the order they are fetched
PartSet == {"harmonics", "vocals"}
Conns == 1..MaxConns
Jobs  == 1..MaxJobs
NoConn == 0
NoJob  == 0

VARIABLES
  cur,        \* the track the DJ has loaded (g_cur_path)
  pending,    \* the loader has it to serve, or its retry fell due
  dpc,        \* where the separator stands
  dconn,      \* g_fd
  statusOk,   \* g_status_ok
  want, asked, supersede,   \* g_want_path, g_want_gen moved, g_sep_supersede
  job,        \* g_job_path
  sent,       \* PCM frames sent
  arrived,    \* g_arrived
  delivered,  \* g_delivery is waiting for the loader
  opened,     \* connections made so far
  up, down,   \* frames on the way to the sidecar and to the deck
  deckShut, sideShut,       \* ends of a connection that were closed
  spc,        \* where the sidecar stands
  sconn,      \* the connection session_run serves
  found,      \* srv.reachable and srv.compatible
  body,       \* the POST body taken from the link so far; empty when no POST runs
  jobId,      \* job_id
  polls,      \* waited_us, in polls; 0 outside await_job
  fetched,    \* stems fetched of that job
  server,     \* the server's jobs
  spool,      \* whose audio each spool file holds
  media,      \* entries of the stem cache
  abandoned,  \* history: the deck left a job the sidecar still had
  budget

deckVars == <<dpc, dconn, statusOk, job, sent, arrived>>
wantVars == <<want, asked, supersede>>
trackVars == <<cur, pending>>
linkVars == <<opened, up, down, deckShut, sideShut>>
sideVars == <<spc, sconn, found, body, jobId, polls, fetched>>
diskVars == <<delivered, spool, media>>
vars == <<deckVars, wantVars, trackVars, linkVars, sideVars, server, diskVars, abandoned, budget>>

Frame(type, track) == [type |-> type, track |-> track]
Signal(type) == Frame(type, NoTrack)
UpFrames == [type : {"HELLO", "BEGIN", "PCM", "END", "CANCEL", "bytes"}, track : Tracks \cup {NoTrack}]
DownFrames == [type : {"STATUS", "PROGRESS", "FAILED"} \cup PartSet, ok : BOOLEAN]
Entries == [key : Tracks, harmonics : Tracks, vocals : Tracks]

TypeOK ==
  /\ cur \in Tracks \cup {NoTrack} /\ pending \in BOOLEAN
  /\ dpc \in {"idle", "start", "ensure", "connect", "reconnect", "await", "begin", "pcm", "end", "poll", "store",
              "deliver", "renew", "refresh"}
  /\ dconn \in Conns \cup {NoConn} /\ opened \in 0..MaxConns
  /\ {statusOk, asked, supersede, delivered, found, abandoned} \subseteq BOOLEAN
  /\ {want, job} \subseteq Tracks \cup {NoTrack}
  /\ sent \in 0..Chunks
  /\ arrived \subseteq PartSet
  /\ \A c \in Conns : /\ \A i \in DOMAIN up[c] : up[c][i] \in UpFrames
                      /\ \A i \in DOMAIN down[c] : down[c][i] \in DownFrames
  /\ deckShut \subseteq Conns /\ sideShut \subseteq Conns
  /\ spc \in {"accept", "read", "upload", "await", "fetch", "lost", "dead"}
  /\ sconn \in Conns \cup {NoConn}
  /\ \A i \in DOMAIN body : body[i] \in Tracks
  /\ Len(body) <= Chunks
  /\ jobId \in Jobs \cup {NoJob} /\ polls \in 0..MaxPolls /\ fetched \in 0..2
  /\ \A j \in Jobs : server[j].state \in {"none", "running", "done", "deleted"}
  /\ spool \in [PartSet -> Tracks \cup {NoTrack}]
  /\ media \subseteq Entries

Init ==
  /\ cur = NoTrack /\ pending = FALSE
  /\ dpc = "idle" /\ dconn = NoConn /\ statusOk = FALSE
  /\ want = NoTrack /\ asked = FALSE /\ supersede = FALSE
  /\ job = NoTrack /\ sent = 0 /\ arrived = {} /\ delivered = FALSE
  /\ opened = 0
  /\ up = [c \in Conns |-> <<>>] /\ down = [c \in Conns |-> <<>>]
  /\ deckShut = {} /\ sideShut = {}
  /\ spc = "accept" /\ sconn = NoConn /\ found = FALSE
  /\ body = <<>> /\ jobId = NoJob /\ polls = 0 /\ fetched = 0
  /\ server = [j \in Jobs |-> [state |-> "none", body |-> <<>>]]
  /\ spool = [p \in PartSet |-> NoTrack]
  /\ media = {}
  /\ abandoned = FALSE
  /\ budget = [loads |-> MaxLoads, events |-> MaxEvents]

Spend(event) ==
  /\ event \in Events
  /\ budget.events > 0
  /\ budget' = [budget EXCEPT !.events = @ - 1]

Cached(t) == \E e \in media : e.key = t

-----------------------------------------------------------------------------
(* The loader and the DJ.                                                   *)

\* Another track: the loader drops the half pair and has it to serve.
LoadTrack(t) ==
  /\ t # cur
  /\ budget.loads > 0
  /\ budget' = [budget EXCEPT !.loads = @ - 1]
  /\ cur' = t
  /\ pending' = TRUE
  /\ arrived' = {}
  /\ UNCHANGED <<dpc, dconn, statusOk, job, sent, wantVars, linkVars,
                 sideVars, server, diskVars, abandoned>>

\* loader_serve: the cache, or sep_request.
Serve ==
  /\ pending
  /\ pending' = FALSE
  /\ IF Cached(cur) \/ (want = cur /\ dpc \notin {"idle", "renew", "refresh"})
     THEN UNCHANGED wantVars
     ELSE want' = cur /\ supersede' = TRUE /\ asked' = TRUE
  /\ UNCHANGED <<deckVars, cur, linkVars, sideVars, server, diskVars,
                 abandoned, budget>>

\* loader_take_delivery ends by unlinking both spool files.
TakeDelivery ==
  /\ delivered
  /\ delivered' = FALSE
  /\ spool' = [p \in PartSet |-> NoTrack]
  /\ UNCHANGED <<deckVars, wantVars, trackVars, linkVars, sideVars, server,
                 media, abandoned, budget>>

-----------------------------------------------------------------------------
(* The deck's separator thread.                                             *)

Reads(c) == IF down[c] = <<>> THEN {} ELSE {Head(down[c])}
Hungup(c) == c \in sideShut /\ down[c] = <<>>       \* recv or write fails
HasRoom == dconn \notin sideShut /\ Len(up[dconn]) < Capacity
Post(c, frame) == up' = [up EXCEPT ![c] = Append(@, frame)]
Take(c) == down' = [down EXCEPT ![c] = Tail(@)]

\* job_failed, on a link that stays up; the retry falls due later.
Fails ==
  /\ dpc' = "idle"
  /\ pending' = (pending \/ job = cur)

\* A CANCEL that cannot be sent is not sent again.
Cancel == IF HasRoom THEN Post(dconn, Signal("CANCEL")) ELSE UNCHANGED up

\* The deck's end closes: what it had not read is gone.
Shut ==
  /\ deckShut' = deckShut \cup ({dconn} \ {NoConn})
  /\ down' = [c \in Conns |-> IF c = dconn THEN <<>> ELSE down[c]]
  /\ dconn' = NoConn

\* stem_ipc_close and job_failed.
Drops == Shut /\ Fails

SeeWant ==
  /\ dpc = "idle"
  /\ asked
  /\ asked' = FALSE
  /\ supersede' = FALSE
  /\ arrived' = {}
  /\ dpc' = "start"
  /\ UNCHANGED <<dconn, statusOk, job, sent, want, trackVars, linkVars,
                 sideVars, server, diskVars, abandoned, budget>>

StartJob ==
  /\ dpc = "start"
  /\ IF want = cur THEN job' = want /\ dpc' = "ensure" ELSE dpc' = "idle" /\ UNCHANGED job
  /\ UNCHANGED <<dconn, statusOk, sent, arrived, wantVars, trackVars,
                 linkVars, sideVars, server, diskVars, abandoned, budget>>

\* An idle turn that finds the status stale.
BeginRefresh ==
  /\ dpc = "idle"
  /\ ~asked
  /\ Spend("probe")
  /\ dpc' = "renew"
  /\ UNCHANGED <<dconn, statusOk, job, sent, arrived, wantVars, trackVars,
                 linkVars, sideVars, server, diskVars, abandoned>>

\* stem_ipc_ensure with a descriptor whose peer has not gone.
Reuse ==
  /\ dpc = "ensure"
  /\ dconn # NoConn
  /\ ~Hungup(dconn)
  /\ IF statusOk THEN dpc' = "begin" /\ UNCHANGED pending ELSE Fails
  /\ UNCHANGED <<dconn, statusOk, job, sent, arrived, wantVars, cur,
                 linkVars, sideVars, server, diskVars, abandoned, budget>>

\* refresh_status asks again on the link it has; a HELLO that cannot be sent drops it.
HelloAgain ==
  /\ dpc = "renew"
  /\ dconn # NoConn
  /\ ~Hungup(dconn)
  /\ IF HasRoom
     THEN /\ Post(dconn, Signal("HELLO"))
          /\ dpc' = "refresh"
          /\ UNCHANGED <<statusOk, dconn, down, deckShut>>
     ELSE /\ Shut
          /\ statusOk' = FALSE /\ dpc' = "idle"
          /\ UNCHANGED up
  /\ UNCHANGED <<job, sent, arrived, wantVars, trackVars, opened, sideShut,
                 sideVars, server, diskVars, abandoned, budget>>

\* No descriptor, or a dead one, and an attempt is due.
TryConnect ==
  /\ dpc \in {"ensure", "renew"}
  /\ dconn = NoConn \/ Hungup(dconn)
  /\ Shut
  /\ dpc' = IF dpc = "ensure" THEN "connect" ELSE "reconnect"
  /\ UNCHANGED <<statusOk, job, sent, arrived, wantVars, trackVars, opened,
                 up, sideShut, sideVars, server, diskVars, abandoned,
                 budget>>

\* The ten seconds between attempts are not over, or nobody listens.
ConnectFails ==
  /\ \/ dpc \in {"ensure", "renew"} /\ dconn = NoConn
     \/ dpc \in {"connect", "reconnect"} /\ (spc = "dead" \/ opened = MaxConns)
  /\ statusOk' = FALSE
  /\ IF dpc \in {"ensure", "connect"} THEN Fails ELSE dpc' = "idle" /\ UNCHANGED pending
  /\ UNCHANGED <<dconn, job, sent, arrived, wantVars, cur, linkVars,
                 sideVars, server, diskVars, abandoned, budget>>

\* connect(2) returns once the backlog of listen(fd, 1) has room: Linux lets
\* two connections wait, the third blocks, and no timeout is set yet.
Waiting == {c \in 1..opened : c \notin sideShut /\ c # sconn}
Connect ==
  /\ dpc \in {"connect", "reconnect"}
  /\ spc # "dead"
  /\ opened < MaxConns
  /\ Cardinality(Waiting) < 2
  /\ opened' = opened + 1
  /\ dconn' = opened + 1
  /\ Post(opened + 1, Signal("HELLO"))
  /\ dpc' = IF dpc = "connect" THEN "await" ELSE "refresh"
  /\ UNCHANGED <<statusOk, job, sent, arrived, wantVars, trackVars, down,
                 deckShut, sideShut, sideVars, server, diskVars, abandoned,
                 budget>>

\* await_sidecar_ready: a STATUS on the new link.
StatusArrives ==
  /\ dpc = "await"
  /\ \E frame \in Reads(dconn) :
       /\ frame.type = "STATUS"
       /\ Take(dconn)
       /\ statusOk' = frame.ok
       /\ IF frame.ok THEN dpc' = "begin" /\ UNCHANGED pending ELSE Fails
  /\ UNCHANGED <<dconn, job, sent, arrived, wantVars, cur, opened, up,
                 deckShut, sideShut, sideVars, server, diskVars, abandoned,
                 budget>>

\* Superseded, or JOB_READY_TIMEOUT_MS without a STATUS: the link stays up.
AwaitEnds ==
  /\ dpc = "await"
  /\ supersede \/ (Reads(dconn) = {} /\ ~Hungup(dconn))
  /\ Fails
  /\ UNCHANGED <<dconn, statusOk, job, sent, arrived, wantVars, cur,
                 linkVars, sideVars, server, diskVars, abandoned, budget>>

\* A write or a read that finds the peer gone.
LinkLost ==
  /\ dpc \in {"await", "begin", "pcm", "end", "poll"}
  /\ dpc \in {"begin", "pcm", "end"} => dconn \in sideShut
  /\ dpc \in {"await", "poll"} => Hungup(dconn)
  /\ Drops
  /\ UNCHANGED <<statusOk, job, sent, arrived, wantVars, cur, opened, up,
                 sideShut, sideVars, server, diskVars, abandoned, budget>>

\* IPC_SEND_TIMEOUT_SEC against a buffer that does not drain.
SendTimesOut ==
  /\ dpc \in {"begin", "pcm", "end"}
  /\ Len(up[dconn]) = Capacity
  /\ Drops
  /\ UNCHANGED <<statusOk, job, sent, arrived, wantVars, cur, opened, up,
                 sideShut, sideVars, server, diskVars, abandoned, budget>>

SendBegin ==
  /\ dpc = "begin"
  /\ HasRoom
  /\ Post(dconn, Frame("BEGIN", job))
  /\ sent' = 0
  /\ dpc' = "pcm"
  /\ UNCHANGED <<dconn, statusOk, job, arrived, wantVars, trackVars, opened,
                 down, deckShut, sideShut, sideVars, server, diskVars,
                 abandoned, budget>>

\* upload_chunk; the padding of a short decode does not look at supersede.
SendPcm ==
  /\ dpc = "pcm"
  /\ supersede => sent > 0 /\ sent + 1 = Chunks
  /\ HasRoom
  /\ Post(dconn, Frame("PCM", job))
  /\ sent' = sent + 1
  /\ dpc' = IF sent' = Chunks THEN "end" ELSE "pcm"
  /\ UNCHANGED <<dconn, statusOk, job, arrived, wantVars, trackVars, opened,
                 down, deckShut, sideShut, sideVars, server, diskVars,
                 abandoned, budget>>

\* A CANCEL frame and no more: the link stays up for the next track.
UploadCancelled ==
  /\ dpc = "pcm"
  /\ supersede
  /\ Cancel
  /\ dpc' = "idle"
  /\ UNCHANGED <<dconn, statusOk, job, sent, arrived, wantVars, trackVars,
                 opened, down, deckShut, sideShut, sideVars, server,
                 diskVars, abandoned, budget>>

SendEnd ==
  /\ dpc = "end"
  /\ HasRoom
  /\ Post(dconn, Signal("END"))
  /\ dpc' = "poll"
  /\ UNCHANGED <<dconn, statusOk, job, sent, arrived, wantVars, trackVars,
                 opened, down, deckShut, sideShut, sideVars, server,
                 diskVars, abandoned, budget>>

\* (History) the sidecar has, was sent or has answered a job of this connection's.
HasWork(c) ==
  \/ \E i \in DOMAIN up[c] : up[c][i].type = "BEGIN"
  \/ \E i \in DOMAIN down[c] : down[c][i].type \in PartSet
  \/ sconn = c /\ (spc = "upload" \/ jobId # NoJob)
Leaves == abandoned' = (abandoned \/ HasWork(dconn))

\* The poll loop sees the supersede before it reads.
PollCancelled ==
  /\ dpc = "poll"
  /\ supersede
  /\ Cancel
  /\ Leaves
  /\ dpc' = "idle"
  /\ UNCHANGED <<dconn, statusOk, job, sent, arrived, wantVars, trackVars,
                 opened, down, deckShut, sideShut, sideVars, server,
                 diskVars, budget>>

\* Seeded fault: one part of the pair is taken for the whole.
PartArrivesAlone ==
  /\ dpc = "poll"
  /\ \E frame \in Reads(dconn) :
       /\ frame.type \in PartSet
       /\ Take(dconn)
       /\ arrived' = arrived \cup {frame.type}
  /\ dpc' = "store"
  /\ UNCHANGED <<dconn, statusOk, job, sent, wantVars, trackVars, opened, up,
                 deckShut, sideShut, sideVars, server, diskVars, abandoned,
                 budget>>

PartArrives ==
  /\ dpc = "poll"
  /\ \E frame \in Reads(dconn) :
       /\ frame.type \in PartSet
       /\ Take(dconn)
       /\ arrived' = arrived \cup {frame.type}
  /\ dpc' = IF arrived' = PartSet THEN "store" ELSE "poll"
  /\ UNCHANGED <<dconn, statusOk, job, sent, wantVars, trackVars, opened, up,
                 deckShut, sideShut, sideVars, server, diskVars, abandoned,
                 budget>>

\* A FAILED names no job: it may be the answer to one the deck cancelled before.
FailureArrives ==
  /\ dpc = "poll"
  /\ \E frame \in Reads(dconn) : frame.type = "FAILED" /\ Take(dconn)
  /\ Leaves
  /\ Fails
  /\ UNCHANGED <<dconn, statusOk, job, sent, arrived, wantVars, cur, opened,
                 up, deckShut, sideShut, sideVars, server, diskVars, budget>>

\* The answer to a HELLO an interrupted refresh left behind.
LateStatus ==
  /\ dpc = "poll"
  /\ \E frame \in Reads(dconn) :
       frame.type = "STATUS" /\ Take(dconn) /\ statusOk' = frame.ok
  /\ UNCHANGED <<dpc, dconn, job, sent, arrived, wantVars, trackVars, opened,
                 up, deckShut, sideShut, sideVars, server, diskVars,
                 abandoned, budget>>

\* The bar moves, and the silence is counted from here again.
ProgressArrives ==
  /\ dpc = "poll"
  /\ \E frame \in Reads(dconn) : frame.type = "PROGRESS"
  /\ Take(dconn)
  /\ UNCHANGED <<deckVars, wantVars, trackVars, opened, up, deckShut,
                 sideShut, sideVars, server, diskVars, abandoned, budget>>

\* Seeded fault: the poll loop waits as long as it takes.
NeverSilent == dpc = "poll" /\ Reads(dconn) = {} /\ UNCHANGED vars

\* JOB_SILENCE_SEC without a frame: the sidecar is dead to the deck, wedged or
\* held up by the server.
SilenceTimesOut ==
  /\ dpc = "poll"
  /\ Reads(dconn) = {} /\ ~Hungup(dconn)
  /\ Cancel
  /\ Drops
  /\ UNCHANGED <<statusOk, job, sent, arrived, wantVars, cur, opened,
                 sideShut, sideVars, server, diskVars, abandoned, budget>>

\* stem_cache_store copies what the spool files hold now.
StorePair ==
  /\ dpc = "store"
  /\ media' = IF NoTrack \in {spool[p] : p \in PartSet} THEN media
              ELSE {e \in media : e.key # job} \cup
                   {[key |-> job, harmonics |-> spool["harmonics"], vocals |-> spool["vocals"]]}
  /\ dpc' = "deliver"
  /\ UNCHANGED <<dconn, statusOk, job, sent, arrived, wantVars, trackVars,
                 linkVars, sideVars, server, delivered, spool, abandoned,
                 budget>>

Deliver ==
  /\ dpc = "deliver"
  /\ delivered' = TRUE
  /\ dpc' = "idle"
  /\ UNCHANGED <<dconn, statusOk, job, sent, arrived, wantVars, trackVars,
                 linkVars, sideVars, server, spool, media, abandoned,
                 budget>>

\* refresh_status reads STATUS and nothing else, for STATUS_REPROBE_MS.
RefreshReads ==
  /\ dpc = "refresh"
  /\ \E frame \in Reads(dconn) :
       /\ Take(dconn)
       /\ IF frame.type = "STATUS"
          THEN statusOk' = frame.ok /\ dpc' = "idle"
          ELSE UNCHANGED <<statusOk, dpc>>
  /\ UNCHANGED <<dconn, job, sent, arrived, wantVars, trackVars, opened, up,
                 deckShut, sideShut, sideVars, server, diskVars, abandoned,
                 budget>>

RefreshEnds ==
  /\ dpc = "refresh"
  /\ dpc' = "idle"
  /\ \/ Hungup(dconn) /\ Shut /\ statusOk' = FALSE
     \/ /\ supersede \/ (Reads(dconn) = {} /\ ~Hungup(dconn))
        /\ UNCHANGED <<down, deckShut, dconn, statusOk>>
  /\ UNCHANGED <<job, sent, arrived, wantVars, trackVars, opened, up,
                 sideShut, sideVars, server, diskVars, abandoned, budget>>

DeckStep == \/ SeeWant \/ StartJob \/ BeginRefresh \/ Reuse \/ HelloAgain
            \/ TryConnect \/ ConnectFails \/ Connect \/ StatusArrives \/ AwaitEnds \/ LinkLost \/ SendTimesOut \/ SendBegin \/ SendPcm
            \/ UploadCancelled \/ SendEnd \/ PollCancelled \/ PartArrives \/ FailureArrives
            \/ LateStatus \/ ProgressArrives \/ SilenceTimesOut \/ StorePair \/ Deliver \/ RefreshReads
            \/ RefreshEnds

\* The DJ's application goes and comes back with nothing loaded.
DeckRestarts ==
  /\ Spend("deck")
  /\ Shut
  /\ dpc' = "idle" /\ statusOk' = FALSE
  /\ job' = NoTrack /\ sent' = 0 /\ arrived' = {} /\ delivered' = FALSE
  /\ want' = NoTrack /\ asked' = FALSE /\ supersede' = FALSE
  /\ cur' = NoTrack /\ pending' = FALSE
  /\ UNCHANGED <<opened, up, sideShut, sideVars, server, spool, media,
                 abandoned>>

-----------------------------------------------------------------------------
(* The sidecar.                                                             *)

\* What the sidecar can read: a frame, or the end of a link the deck closed.
Incoming == IF sconn = NoConn THEN <<>> ELSE up[sconn]
Next1 == IF Incoming = <<>> THEN {} ELSE {Head(Incoming)}
Eof == sconn # NoConn /\ Incoming = <<>> /\ sconn \in deckShut
Consume == up' = [up EXCEPT ![sconn] = Tail(@)]
\* The header was read, its payload was not.
Strand == up' = [up EXCEPT ![sconn] = <<Signal("bytes")>> \o Tail(@)]
Answer(frame) == IF sconn \in deckShut THEN UNCHANGED down
                 ELSE down' = [down EXCEPT ![sconn] = Append(@, frame)]
Reply(type) == Answer([type |-> type, ok |-> FALSE])
\* report_failed, and job_id forgotten.
GivesUp == Reply("FAILED") /\ jobId' = NoJob /\ spc' = "read" /\ body' = <<>>
Moved(j, state) == [server EXCEPT ![j] = [state |-> state, body |-> server[j].body]]
\* job_release: the DELETE, which the server may not hear.
Release(j, heard) ==
  /\ jobId' = NoJob
  /\ server' = IF j # NoJob /\ heard THEN Moved(j, "deleted") ELSE server
\* The server refuses, or a request to it dies.
ServerFails == Spend("server")

Accept ==
  /\ spc = "accept"
  /\ \E c \in 1..opened :
       /\ c \notin sideShut
       /\ \A d \in 1..(c - 1) : d \in sideShut
       /\ sconn' = c
  /\ spc' = "read" /\ found' = FALSE /\ jobId' = NoJob
  /\ UNCHANGED <<deckVars, wantVars, trackVars, linkVars, body, fetched,
                 server, diskVars, abandoned, budget, polls>>

\* STEM_MSG_HELLO: look for the server, then say what was found.
Hello ==
  /\ spc = "read"
  /\ \E frame \in Next1 : frame.type = "HELLO"
  /\ Consume
  /\ \/ found' = TRUE /\ UNCHANGED budget
     \/ found' = FALSE /\ ServerFails
  /\ Answer([type |-> "STATUS", ok |-> found'])
  /\ UNCHANGED <<deckVars, wantVars, trackVars, opened, deckShut, sideShut,
                 spc, sconn, body, jobId, fetched, server, diskVars,
                 abandoned, polls>>

JobBegin ==
  /\ spc = "read"
  /\ \E frame \in Next1 : frame.type = "BEGIN"
  /\ Consume
  /\ IF found
     THEN spc' = "upload" /\ body' = <<>> /\ UNCHANGED down
     ELSE Reply("FAILED") /\ UNCHANGED <<spc, body>>
  /\ UNCHANGED <<deckVars, wantVars, trackVars, opened, deckShut, sideShut,
                 sconn, found, jobId, fetched, server, diskVars, abandoned,
                 budget, polls>>

\* Frames that need nothing done: PCM without a POST, END without a job.
SkipFrame ==
  /\ spc = "read"
  /\ \E frame \in Next1 : \/ frame.type = "PCM"
                          \/ frame.type = "END" /\ jobId = NoJob
  /\ Consume
  /\ UNCHANGED <<deckVars, wantVars, trackVars, opened, down, deckShut,
                 sideShut, sideVars, server, diskVars, abandoned, budget>>

\* The tail of a payload read as headers: silence is a run of empty frames,
\* anything else is a length that swallows the rest of the connection.
ReadPayload ==
  /\ spc = "read"
  /\ \E frame \in Next1 : frame.type = "bytes"
  /\ Consume
  /\ spc' \in {"read", "lost"}
  /\ UNCHANGED <<deckVars, wantVars, trackVars, opened, down, deckShut,
                 sideShut, sconn, found, body, jobId, fetched, server,
                 diskVars, abandoned, budget, polls>>

Swallow ==
  /\ spc = "lost"
  /\ Next1 # {}
  /\ Consume
  /\ UNCHANGED <<deckVars, wantVars, trackVars, opened, down, deckShut,
                 sideShut, sideVars, server, diskVars, abandoned, budget>>

\* STEM_MSG_CANCEL, with or without a job.
CancelFrame ==
  /\ spc = "read"
  /\ \E frame \in Next1 : frame.type = "CANCEL"
  /\ Consume
  /\ Release(jobId, TRUE)
  /\ UNCHANGED <<deckVars, wantVars, trackVars, opened, down, deckShut,
                 sideShut, spc, sconn, found, body, fetched, diskVars,
                 abandoned, budget, polls>>

\* upload_pull: one PCM frame into the POST.
PullPcm ==
  /\ spc = "upload"
  /\ Len(body) < Chunks
  /\ \E frame \in Next1 : frame.type = "PCM" /\ body' = Append(body, frame.track)
  /\ Consume
  /\ UNCHANGED <<deckVars, wantVars, trackVars, opened, down, deckShut,
                 sideShut, spc, sconn, found, jobId, fetched, server,
                 diskVars, abandoned, budget, polls>>

\* Seeded fault: a frame that is not PCM is passed over.
PullPassesOver ==
  /\ spc = "upload"
  /\ Len(body) < Chunks
  /\ \E frame \in Next1 : frame.type # "PCM"
  /\ Consume
  /\ UNCHANGED <<deckVars, wantVars, trackVars, opened, down, deckShut,
                 sideShut, sideVars, server, diskVars, abandoned, budget>>

\* Any other frame ends the POST: CANCEL quietly, the rest as a broken stream.
PullEnds ==
  /\ spc = "upload"
  /\ Len(body) < Chunks
  /\ \E frame \in Next1 :
       \/ frame.type = "CANCEL" /\ Consume /\ jobId' = NoJob /\ spc' = "read" /\ body' = <<>> /\ UNCHANGED down
       \/ frame.type = "END" /\ Consume /\ GivesUp
       \/ frame.type \in {"HELLO", "BEGIN", "bytes"} /\ Strand /\ GivesUp
  /\ UNCHANGED <<deckVars, wantVars, trackVars, opened, deckShut, sideShut,
                 sconn, found, fetched, server, diskVars, abandoned,
                 budget, polls>>

\* The server goes away between two frames, or inside one.
PostBreaks ==
  /\ spc = "upload"
  /\ ServerFails
  /\ \/ UNCHANGED up
     \/ (\E frame \in Next1 : frame.type = "PCM") /\ Strand
  /\ GivesUp
  /\ UNCHANGED <<deckVars, wantVars, trackVars, opened, deckShut, sideShut,
                 sconn, found, fetched, server, diskVars, abandoned, polls>>

PostAccepted ==
  /\ spc = "upload"
  /\ Len(body) = Chunks
  /\ \E j \in Jobs :
       /\ server[j].state = "none"
       /\ \A i \in 1..(j - 1) : server[i].state # "none"
       /\ server' = [server EXCEPT ![j] = [state |-> "running", body |-> body]]
       /\ jobId' = j
  /\ spc' = "read" /\ body' = <<>>
  /\ UNCHANGED <<deckVars, wantVars, trackVars, linkVars, sconn, found,
                 fetched, diskVars, abandoned, budget, polls>>

\* Every job the server takes is taken.
PostRefused ==
  /\ spc = "upload"
  /\ Len(body) = Chunks
  /\ \A j \in Jobs : server[j].state # "none"
  /\ GivesUp
  /\ UNCHANGED <<deckVars, wantVars, trackVars, opened, up, deckShut,
                 sideShut, sconn, found, fetched, server, diskVars,
                 abandoned, budget, polls>>

JobEnd ==
  /\ spc = "read"
  /\ jobId # NoJob
  /\ \E frame \in Next1 : frame.type = "END"
  /\ Consume
  /\ spc' = "await"
  /\ UNCHANGED <<deckVars, wantVars, trackVars, opened, down, deckShut,
                 sideShut, sconn, found, body, jobId, polls, fetched, server,
                 diskVars, abandoned, budget>>

\* What the deck has not read yet takes in the next one.
Unread(type) == down[sconn] # <<>> /\ down[sconn][Len(down[sconn])].type = type
Tells == IF Unread("PROGRESS") THEN UNCHANGED down ELSE Reply("PROGRESS")

\* Seeded fault: the polls are not counted.
AwaitPollsOn ==
  /\ spc = "await"
  /\ Tells
  /\ UNCHANGED <<deckVars, wantVars, trackVars, opened, up, deckShut,
                 sideShut, sideVars, server, diskVars, abandoned, budget>>

\* One turn of await_job: the server answers, the deck is told.
AwaitPolls ==
  /\ spc = "await"
  /\ polls < MaxPolls
  /\ polls' = polls + 1
  /\ Tells
  /\ UNCHANGED <<deckVars, wantVars, trackVars, opened, up, deckShut,
                 sideShut, spc, sconn, found, body, jobId, fetched, server,
                 diskVars, abandoned, budget>>

\* POLL_MAX_SECONDS and the job is not done.
AwaitTimesOut ==
  /\ spc = "await"
  /\ polls = MaxPolls
  /\ GivesUp
  /\ polls' = 0
  /\ UNCHANGED <<deckVars, wantVars, trackVars, opened, up, deckShut,
                 sideShut, sconn, found, fetched, server,
                 diskVars, abandoned, budget>>

\* await_poke found a CANCEL.
PokeCancels ==
  /\ spc = "await"
  /\ \E frame \in Next1 : frame.type = "CANCEL"
  /\ Consume
  /\ Release(jobId, TRUE)
  /\ spc' = "read"
  /\ polls' = 0
  /\ UNCHANGED <<deckVars, wantVars, trackVars, opened, down, deckShut,
                 sideShut, sconn, found, body, fetched, diskVars, abandoned,
                 budget>>

\* Any other frame during a separation is dropped.
PokeSkips ==
  /\ spc = "await"
  /\ \E frame \in Next1 : frame.type # "CANCEL"
  /\ Consume
  /\ UNCHANGED <<deckVars, wantVars, trackVars, opened, down, deckShut,
                 sideShut, sideVars, server, diskVars, abandoned, budget>>

\* A poll that fails, or a job that fails.
AwaitFails ==
  /\ spc = "await"
  /\ ServerFails
  /\ GivesUp
  /\ polls' = 0
  /\ UNCHANGED <<deckVars, wantVars, trackVars, opened, up, deckShut,
                 sideShut, sconn, found, fetched, server, diskVars,
                 abandoned>>

\* await_poke found the link closed.
AwaitHungUp ==
  /\ spc = "await"
  /\ Eof
  /\ GivesUp
  /\ polls' = 0
  /\ UNCHANGED <<deckVars, wantVars, trackVars, opened, up, deckShut,
                 sideShut, sconn, found, fetched, server, diskVars,
                 abandoned, budget>>

AwaitDone ==
  /\ spc = "await"
  /\ server[jobId].state = "done"
  /\ spc' = "fetch"
  /\ fetched' = 0
  /\ polls' = 0
  /\ UNCHANGED <<deckVars, wantVars, trackVars, linkVars, sconn, found, body,
                 jobId, server, diskVars, abandoned, budget>>

\* fetch_stem: the file is renamed into place, then announced.
FetchStem ==
  /\ spc = "fetch"
  /\ fetched < 2
  /\ spool' = [spool EXCEPT ![Parts[fetched + 1]] = Head(server[jobId].body)]
  /\ IF sconn \in deckShut
     THEN GivesUp /\ fetched' = 0
     ELSE Reply(Parts[fetched + 1]) /\ fetched' = fetched + 1 /\ UNCHANGED <<spc, jobId, body>>
  /\ UNCHANGED <<deckVars, wantVars, trackVars, opened, up, deckShut,
                 sideShut, sconn, found, server, delivered, media,
                 abandoned, budget, polls>>

FetchFails ==
  /\ spc = "fetch"
  /\ fetched < 2
  /\ ServerFails
  /\ GivesUp
  /\ fetched' = 0
  /\ UNCHANGED <<deckVars, wantVars, trackVars, opened, up, deckShut,
                 sideShut, sconn, found, server, diskVars, abandoned, polls>>

FetchDone ==
  /\ spc = "fetch"
  /\ fetched = 2
  /\ jobId' = NoJob /\ fetched' = 0 /\ spc' = "read"
  /\ UNCHANGED <<deckVars, wantVars, trackVars, linkVars, sconn, found, body,
                 server, diskVars, abandoned, budget, polls>>

\* The way out of session_run: release what is still held, take the next client.
EndSession ==
  /\ spc \in {"read", "upload", "lost"}
  /\ Eof
  /\ Release(jobId, TRUE)
  /\ sideShut' = sideShut \cup {sconn}
  /\ sconn' = NoConn
  /\ spc' = "accept"
  /\ body' = <<>>
  /\ UNCHANGED <<deckVars, wantVars, trackVars, opened, up, down, deckShut,
                 found, fetched, diskVars, abandoned, budget, polls>>

SidecarStep == \/ Accept \/ Hello \/ JobBegin \/ SkipFrame \/ ReadPayload \/ Swallow
               \/ CancelFrame \/ PullPcm \/ PullEnds \/ PostBreaks \/ PostAccepted
               \/ PostRefused \/ JobEnd \/ PokeCancels \/ PokeSkips \/ AwaitPolls
               \/ AwaitTimesOut \/ AwaitFails
               \/ AwaitHungUp \/ AwaitDone \/ FetchStem \/ FetchFails \/ FetchDone \/ EndSession

\* Killed: its sockets close, what the deck had not read of them stays.
SidecarDies ==
  /\ spc # "dead"
  /\ Spend("sidecar")
  /\ spc' = "dead"
  /\ sideShut' = sideShut \cup (1..opened)
  /\ up' = [c \in Conns |-> <<>>]
  /\ sconn' = NoConn /\ jobId' = NoJob /\ body' = <<>> /\ fetched' = 0
  /\ polls' = 0
  /\ UNCHANGED <<deckVars, wantVars, trackVars, opened, down, deckShut,
                 found, server, diskVars, abandoned>>

\* Started again: spool_sweep, then listen.
SidecarStarts ==
  /\ spc = "dead"
  /\ spc' = "accept"
  /\ spool' = [p \in PartSet |-> NoTrack]
  /\ UNCHANGED <<deckVars, wantVars, trackVars, linkVars, sconn, found, body,
                 jobId, fetched, server, delivered, media, abandoned,
                 budget, polls>>

ServerFinishes ==
  /\ \E j \in Jobs : /\ server[j].state = "running"
                     /\ server' = Moved(j, "done")
  /\ UNCHANGED <<deckVars, wantVars, trackVars, linkVars, sideVars, diskVars,
                 abandoned, budget>>

-----------------------------------------------------------------------------
Next == \/ \E t \in Tracks : LoadTrack(t)
        \/ Serve \/ TakeDelivery
        \/ DeckStep \/ DeckRestarts
        \/ SidecarStep \/ SidecarDies \/ SidecarStarts
        \/ ServerFinishes

Spec == Init /\ [][Next]_vars

(* Only the deck's own thread is sure to run: the sidecar may be wedged, or *)
(* poll a server that never finishes.  The silence runs out only where      *)
(* nothing more arrives, and a sidecar that polls puts that off for         *)
(* MaxPolls polls.  (What a deck's step leaves alone is said first for TLC  *)
(* to rule the other steps out by.)                                         *)
DeckTurn == dpc # "idle" /\ UNCHANGED <<cur, sideShut, sideVars, server>> /\ DeckStep
LiveSpec == Spec /\ WF_vars(DeckTurn)

-----------------------------------------------------------------------------
(* Properties.                                                              *)

(* session.c:223-224, "this stops exactly on the byte boundary and leaves   *)
(* JOB_END for the frame loop": what the server is given is the whole of    *)
(* one track, whatever was cancelled or broken before it on the same link.  *)
BodyIsOneTrack ==
  \A j \in Jobs : server[j].state # "none" =>
    \E t \in Tracks : server[j].body = [i \in 1..Chunks |-> t]

IsOwn(e) == e.harmonics = e.key /\ e.vocals = e.key

(* The cache entry of a track is made of that track's own stems, except     *)
(* after the deck left a job the sidecar still had: it cancelled it from     *)
(* the poll loop, or took the failure of an earlier one for its own.        *)
EntriesAreOwnUnlessAbandoned == abandoned \/ \A e \in media : IsOwn(e)

(* session.c:378-380, "there is exactly one job in flight ... so nothing is *)
(* reading these while the next pair is written": every cache entry is made *)
(* of its own track's stems.                                                *)
EntriesAreOwn == \A e \in media : IsOwn(e)

(* session.c:789-790, "Drain so the stream stays framed": the sidecar never *)
(* takes the middle of a payload for a header.                              *)
StreamStaysFramed == spc = "read" => \A frame \in Next1 : frame.type # "bytes"

(* session.c:880-887, "The deck's socket going away is a cancel too": a job *)
(* the server is still running has a sidecar that holds its handle.         *)
NoOrphan == \A j \in Jobs : server[j].state = "running" => jobId = j

(* ipc.c:121-123, "Without this a wedged sidecar turns a worker thread into *)
(* a permanently parked one": whatever the sidecar does or does not do, the *)
(* separator comes back to its loop from every step of a job or a probe.    *)
JobEnds == dpc # "idle" ~> dpc = "idle"

(* The same with the one call those timeouts do not bound, connect(2): a    *)
(* job or a probe ends, or it is waiting to be accepted.  A sidecar that    *)
(* says nothing is ended by the silence budget (job.c:545), one that goes   *)
(* on reporting a job the server never finishes by its own budget of polls  *)
(* (session.c:579).                                                         *)
JobEndsOrConnects == dpc # "idle" ~> dpc \in {"idle", "connect", "reconnect"}
=============================================================================
