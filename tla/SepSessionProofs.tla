-------------------------- MODULE SepSessionProofs --------------------------
(***************************************************************************)
(* The separator's link to the sidecar, for any number of connections, jobs *)
(* and loads, uploads and socket buffers of any length.  Two results: what   *)
(* the server is given is the whole of one track (WholeTracksOnly), and the  *)
(* stem cache files every pair under its own track unless the deck left a    *)
(* job the sidecar still had (PairsStayWithTheirTrack).                      *)
(*                                                                         *)
(* Both proofs look at a step as the link sees it: StepsOnTheLink sorts the  *)
(* program's steps into the twenty-two of LinkSteps.                         *)
(*                                                                         *)
(* The first invariant, OneAndLinks.  Two PCM frames in a row on a queue are *)
(* of one track (LinesAgree), the next one is of the body's (BodyAgrees), the *)
(* one the deck sends next is of the last one's (LastAgrees).  A BEGIN, a    *)
(* CANCEL or the tail of a broken payload parts two uploads.  Links says what *)
(* connections are: the deck's is the newest, the sidecar serves the oldest  *)
(* it has not left.                                                          *)
(*                                                                         *)
(* The second, OwnIInv.  While nothing was abandoned, what the deck's own    *)
(* connection holds of a whole upload is the job's: queued, taken into the   *)
(* body, posted, and each part once on its way back (LineIsTheJobs).  A whole *)
(* upload leaves the deck only with its END, so none is there before (Sent), *)
(* and nothing of it is left when the deck has both parts (NothingBefore).   *)
(***************************************************************************)
EXTENDS SepSession, SequenceTheorems, TLAPS

JobSteps == {"ensure", "connect", "await", "begin", "pcm", "end", "poll", "store", "deliver"}
Linked == {"await", "begin", "pcm", "end", "poll", "store", "refresh"}
Serving == {"read", "upload", "await", "fetch", "lost"}

SsTypes ==
  /\ up \in [Conns -> Seq(UpFrames)] /\ down \in [Conns -> Seq(DownFrames)]
  /\ body \in Seq(Tracks) /\ Len(body) <= Chunks
  /\ dconn \in Conns \cup {NoConn} /\ sconn \in Conns \cup {NoConn} /\ opened \in 0..MaxConns
  /\ spc \in Serving <=> sconn # NoConn
  /\ jobId \in Jobs \cup {NoJob} /\ fetched \in 0..2 /\ sent \in 0..Chunks
  /\ spool \in [PartSet -> Tracks \cup {NoTrack}]
  /\ server = [j \in Jobs |-> [state |-> server[j].state, body |-> server[j].body]]
  /\ abandoned \in BOOLEAN /\ (jobId # NoJob => server[jobId].state # "none")
  /\ (dpc = "pcm" => sent < Chunks) /\ (spc \in {"await", "fetch"} => jobId # NoJob)
JobsAreOfTracks ==
  /\ pending => cur \in Tracks
  /\ asked \/ dpc = "start" => want \in Tracks
  /\ dpc \in JobSteps => job \in Tracks
  /\ dpc \in Linked => dconn # NoConn

\* Two PCM frames in a row are of one track.
Smooth(q) == \A i \in 1..Len(q) : i + 1 <= Len(q) /\ q[i].type = "PCM" /\ q[i + 1].type = "PCM"
                                     => q[i].track = q[i + 1].track
TracksAreReal(q) == \A i \in 1..Len(q) : q[i].type = "PCM" => q[i].track \in Tracks
LinesAgree == \A c \in Conns : Smooth(up[c]) /\ TracksAreReal(up[c])
BodyAgrees(q) == spc = "upload" /\ Len(body) > 0 =>
  /\ \A k \in 1..Len(body) : body[k] = body[1]
  /\ Len(q) > 0 /\ q[1].type = "PCM" => q[1].track = body[1]
LastAgrees(q) == dpc = "pcm" =>
  /\ Len(q) > 0 /\ q[Len(q)].type = "PCM" => q[Len(q)].track = job
  /\ Len(q) = 0 /\ spc = "upload" /\ sconn = dconn /\ Len(body) > 0 => body[1] = job
StreamsAgree == LinesAgree /\ BodyAgrees(up[sconn]) /\ LastAgrees(up[dconn])
OneIInv == SsTypes /\ JobsAreOfTracks /\ StreamsAgree /\ BodyIsOneTrack

-----------------------------------------------------------------------------
Links ==
  /\ sideShut \subseteq 1..opened /\ \A c \in sideShut : 1..c \subseteq sideShut
  /\ sconn # NoConn => sconn \in 1..opened /\ sconn \notin sideShut /\ 1..(sconn - 1) \subseteq sideShut
  /\ dconn # NoConn => dconn = opened /\ dconn \notin deckShut
  /\ deckShut \subseteq 1..opened
  /\ \A c \in Conns : c > opened => up[c] = <<>>
  /\ \A c \in Conns : c \notin sideShut /\ c # sconn => down[c] = <<>>

Follows(q, i, n) == \A k \in 1..n : i + k <= Len(q) /\ q[i + k].type = "PCM"
AreOf(q, i, n, t) == \A k \in 1..n : q[i + k].track = t
NoBegin(q, i) == \A j \in 1..Len(q) : j > i => q[j].type # "BEGIN"
Sent == dpc \in {"end", "poll"}
Mine == sconn = dconn
WholeQueued(q, i) == q[i].type = "BEGIN" /\ Follows(q, i, Chunks)
WholeTaken(q) == Mine /\ spc = "upload" /\ Follows(q, 0, Chunks - Len(body))
Owing == Mine /\ jobId # NoJob /\ ~(spc = "fetch" /\ fetched = 2)
BodyOurs == \A k \in 1..Len(body) : body[k] = job

\* What the server is given, or was given, for this connection is the job's.
QueuedIsOurs(q) == \A i \in 1..Len(q) : WholeQueued(q, i) => Sent /\ AreOf(q, i, Chunks, job) /\ NoBegin(q, i)
TakenIsOurs(q) == WholeTaken(q) => Sent /\ BodyOurs /\ AreOf(q, 0, Chunks - Len(body), job) /\ NoBegin(q, 0)
OwedIsOurs(q) == Owing => /\ Sent /\ NoBegin(q, 0) /\ spc # "upload"
                          /\ server[jobId].body = [k \in 1..Chunks |-> job]

\* An upload at the end of the queue is as long as what the deck has sent.
UploadIsCounted(q) == dpc = "pcm" =>
  /\ sent < Chunks
  /\ \A i \in 1..Len(q) : q[i].type = "BEGIN" /\ Follows(q, i, Len(q) - i)
       => Len(q) - i = sent /\ AreOf(q, i, Len(q) - i, job)
  /\ Mine /\ spc = "upload" /\ Follows(q, 0, Len(q))
       => Len(body) + Len(q) = sent /\ BodyOurs /\ AreOf(q, 0, Len(q), job)

\* A part on its way, or taken, is the job's, and nothing is behind it.
Accepted == Mine \/ dconn \in sideShut
Has(d, p) == \E i \in 1..Len(d) : d[i].type = p
Once(d, p) == \A i, j \in 1..Len(d) : d[i].type = p /\ d[j].type = p => i = j
Came(p) == dpc = "poll" /\ p \in arrived
NothingBefore(q, k) ==
  /\ \A i \in 1..Len(q) : ~WholeQueued(q, i)
  /\ ~WholeTaken(q)
  /\ Mine /\ jobId # NoJob => spc = "fetch" /\ fetched >= k
PartIsOurs(q, d, k) ==
  /\ Has(d, Parts[k]) \/ Came(Parts[k]) =>
       Sent /\ Accepted /\ spool[Parts[k]] \in {job, NoTrack} /\ NothingBefore(q, k)
  /\ ~(Has(d, Parts[k]) /\ Came(Parts[k]))
  /\ Once(d, Parts[k])
StoresTheJobs ==
  /\ dpc = "store" => Accepted /\ \A p \in PartSet : spool[p] \in {job, NoTrack}
  /\ dpc \in {"start", "ensure", "connect", "await", "begin", "pcm", "end"} => arrived = {}

LineIsTheJobs(q, d) ==
  /\ QueuedIsOurs(q) /\ TakenIsOurs(q) /\ OwedIsOurs(q)
  /\ UploadIsCounted(q)
  /\ PartIsOurs(q, d, 1) /\ PartIsOurs(q, d, 2)
LinkIsTheJobs == dconn # NoConn => LineIsTheJobs(up[dconn], down[dconn])
EntriesAreOwnNow == \A e \in media : IsOwn(e)
OwnIInv == /\ OneIInv /\ Links
           /\ abandoned \/ (LinkIsTheJobs /\ StoresTheJobs /\ EntriesAreOwnNow)

-----------------------------------------------------------------------------
(* Streams: what is appended, taken and stranded.                           *)
LEMMA AppendIs ==
  ASSUME NEW S, NEW q \in Seq(S), NEW f \in S
  PROVE  /\ Append(q, f) \in Seq(S) /\ Len(Append(q, f)) = Len(q) + 1 /\ Append(q, f)[Len(q) + 1] = f
         /\ \A i \in 1..Len(q) : Append(q, f)[i] = q[i]
OBVIOUS

(* What is left of a queue behind its head: the queue's own elements, one place nearer. *)
LEMMA TailIs ==
  ASSUME NEW S, NEW q \in Seq(S), q # <<>>
  PROVE  /\ Tail(q) \in Seq(S) /\ Len(q) > 0 /\ Len(Tail(q)) = Len(q) - 1 /\ Head(q) = q[1] /\ q[1] \in S
         /\ \A i \in 1..Len(Tail(q)) : Tail(q)[i] = q[i + 1]
OBVIOUS

\* A function on 1..n is a sequence.
LEMMA FunctionIsStream == ASSUME NEW S, NEW n \in Nat, NEW f \in [1..n -> S] PROVE f \in Seq(S)
BY SeqDef

BytesFrame == Signal("bytes")
StrandOf(q) == <<BytesFrame>> \o Tail(q)
(* A strand is as long as its queue, begins with stray bytes and is the queue's own from there on. *)
LEMMA StrandIs ==
  ASSUME NEW q \in Seq(UpFrames), q # <<>>
  PROVE  /\ StrandOf(q) \in Seq(UpFrames) /\ Len(StrandOf(q)) = Len(q) /\ StrandOf(q)[1] = BytesFrame
         /\ \A i \in 2..Len(q) : StrandOf(q)[i] = q[i]
<1>1. BytesFrame \in UpFrames
  BY DEF BytesFrame, Signal, Frame, UpFrames
<1>2. Tail(q) \in Seq(UpFrames) /\ Len(Tail(q)) = Len(q) - 1 /\ \A i \in 1..Len(Tail(q)) : Tail(q)[i] = q[i + 1]
  BY TailIs
<1>3. <<BytesFrame>> \in Seq(UpFrames) /\ Len(<<BytesFrame>>) = 1 /\ <<BytesFrame>>[1] = BytesFrame
  BY <1>1
<1> DEFINE b == <<BytesFrame>>  z == Tail(q)
<1> HIDE DEF b, z
<1>4. b \in Seq(UpFrames) /\ Len(b) = 1 /\ b[1] = BytesFrame /\ z \in Seq(UpFrames) /\ Len(z) = Len(q) - 1
  BY <1>2, <1>3 DEF b, z
<1> DEFINE bz == b \o z
<1>5. bz \in Seq(UpFrames) /\ Len(bz) = Len(b) + Len(z)
      /\ \A i \in 1..Len(b) + Len(z) : bz[i] = IF i <= Len(b) THEN b[i] ELSE z[i - Len(b)]
  BY <1>4, ConcatProperties
<1>6. \A i \in 2..Len(q) : z[i - 1] = q[i]
  BY <1>2 DEF z
<1>7. Len(q) \in Nat /\ Len(q) > 0
  BY TailIs
<1> HIDE DEF bz
<1>8. bz[1] = BytesFrame /\ Len(bz) = Len(q)
  BY <1>4, <1>5, <1>7
<1>9. ASSUME NEW i \in 2..Len(q) PROVE bz[i] = q[i]
  <2>1. bz[i] = z[i - 1]
    BY <1>4, <1>5, <1>7, <1>9
  <2>2. QED
    BY <1>6, <2>1
<1>10. QED
  BY <1>5, <1>8, <1>9 DEF StrandOf, b, z, bz

\* Two PCM frames in a row are still of one track, in what is left or grown.
LEMMA SmoothTail ==
  ASSUME NEW q \in Seq(UpFrames), q # <<>>, Smooth(q) /\ TracksAreReal(q)
  PROVE  Smooth(Tail(q)) /\ TracksAreReal(Tail(q))
BY TailIs DEF Smooth, TracksAreReal

(* Stray bytes in place of the head of an upload put no two tracks side by side. *)
LEMMA SmoothStrand ==
  ASSUME NEW q \in Seq(UpFrames), q # <<>>, Smooth(q) /\ TracksAreReal(q)
  PROVE  Smooth(StrandOf(q)) /\ TracksAreReal(StrandOf(q)) /\ StrandOf(q)[1].type # "PCM"
<1>1. BytesFrame.type # "PCM"
  BY DEF BytesFrame, Signal, Frame
<1>2. QED
  BY <1>1, StrandIs DEF Smooth, TracksAreReal

(* Nor does a frame appended behind one of its own track. *)
LEMMA SmoothAppend ==
  ASSUME NEW q \in Seq(UpFrames), NEW f \in UpFrames, Smooth(q) /\ TracksAreReal(q),
         f.type = "PCM" => f.track \in Tracks /\ (Len(q) > 0 /\ q[Len(q)].type = "PCM" => q[Len(q)].track = f.track)
  PROVE  Smooth(Append(q, f)) /\ TracksAreReal(Append(q, f))
BY AppendIs DEF Smooth, TracksAreReal

-----------------------------------------------------------------------------
(* What a step is to the link.                                              *)
SideKept == UNCHANGED <<spc, body, sconn, jobId, fetched, server, sideShut>>
DeckKept == UNCHANGED <<dpc, dconn, job, sent, arrived, opened, deckShut, media, abandoned, cur, pending, want, asked>>
Offered == {"pcm", "end", "poll"}
Early == {"start", "ensure", "connect", "await", "begin", "pcm", "end"}

\* A job the sidecar still has is not left unnoticed.
LeavesNoticed ==
  /\ abandoned' \in BOOLEAN /\ (abandoned => abandoned')
  /\ dpc \in {"end", "poll"} /\ dpc' \notin {"end", "poll"} => abandoned' \/ ~HasWork(dconn)
PostsOn(c, f) == up' = [up EXCEPT ![c] = Append(up[c], f)]

Thinks ==    \* the deck moves without a frame
  /\ SideKept /\ UNCHANGED <<up, down, dconn, opened, deckShut, sent, media>> /\ LeavesNoticed
  /\ dpc' \in Offered \cup {"store"} => dpc' = dpc /\ job' = job
  /\ dpc' \in Early => arrived' = {} \/ dpc \in Early
  /\ arrived' \in {arrived, {}}
  /\ spool' = spool \/ spool' = [p \in PartSet |-> NoTrack]
Posts ==     \* a frame of no upload
  /\ SideKept /\ UNCHANGED <<down, dconn, opened, deckShut, sent, job, arrived, media, spool>> /\ LeavesNoticed
  /\ dconn # NoConn /\ \E f \in UpFrames : f.type \notin {"PCM", "BEGIN"} /\ PostsOn(dconn, f)
  /\ dpc' \in {"refresh", "idle"} \/ (dpc = "end" /\ dpc' = "poll")
Hangs ==     \* the deck closes its end
  /\ SideKept /\ UNCHANGED <<opened, abandoned, media, spool>>
  /\ dconn' = NoConn /\ sent' \in {sent, 0} /\ deckShut' = deckShut \cup ({dconn} \ {NoConn})
  /\ dpc' \in {"idle", "connect", "reconnect"} /\ (dpc' = "connect" => dpc = "ensure" /\ arrived' = arrived)
  /\ up' = up \/ (dconn # NoConn /\ \E f \in UpFrames : f.type # "PCM" /\ PostsOn(dconn, f))
  /\ down' = [c \in Conns |-> IF c = dconn THEN <<>> ELSE down[c]]
Skims ==     \* the deck reads a frame and takes no part
  /\ SideKept /\ UNCHANGED <<up, dconn, opened, deckShut, sent, job, arrived, media, spool>> /\ LeavesNoticed
  /\ dconn # NoConn /\ down[dconn] # <<>> /\ down' = [down EXCEPT ![dconn] = Tail(down[dconn])]
  /\ dpc \in {"await", "refresh", "poll"} /\ dpc' \in {"begin", "idle", "refresh", "poll"}
  /\ (dpc' = "begin" => dpc = "await") /\ (dpc' = "poll" => dpc = "poll")

Told == \/ down' = down
        \/ \E f \in DownFrames : f.type \notin PartSet /\ down' = [down EXCEPT ![sconn] = Append(down[sconn], f)]
Shaped(sv) == sv = [j \in Jobs |-> [state |-> sv[j].state, body |-> sv[j].body]]
BodiesKept ==
  /\ Shaped(server')
  /\ \A j \in Jobs : server'[j].body = server[j].body /\ (server'[j].state = "none" <=> server[j].state = "none")
Takes == sconn # NoConn /\ up[sconn] # <<>> /\ up' = [up EXCEPT ![sconn] = Tail(up[sconn])]

Hears ==     \* the sidecar reads a frame of no upload
  /\ DeckKept /\ UNCHANGED <<spool, body, fetched, sconn, sideShut>> /\ Takes /\ Told /\ BodiesKept
  /\ {spc, spc'} \subseteq {"read", "await", "lost"} /\ jobId' \in {jobId, NoJob} /\ (spc' = "await" => jobId' # NoJob)
Opens ==     \* an upload begins
  /\ DeckKept /\ UNCHANGED <<spool, down, fetched, sconn, sideShut, server, jobId>> /\ Takes
  /\ Head(up[sconn]).type = "BEGIN" /\ spc = "read" /\ spc' = "upload" /\ body' = <<>>
Breaks ==    \* the job at hand is given up
  /\ DeckKept /\ UNCHANGED <<spool, sconn, sideShut, server>> /\ Told /\ body' = <<>>
  /\ sconn # NoConn /\ spc' = "read" /\ jobId' = NoJob /\ fetched' \in {fetched, 0}
  /\ up' = up \/ Takes \/ (up[sconn] # <<>> /\ up' = [up EXCEPT ![sconn] = StrandOf(up[sconn])])
Closes ==    \* the sidecar leaves a link the deck closed
  /\ DeckKept /\ UNCHANGED <<up, down, spool, fetched>> /\ BodiesKept
  /\ sconn \in deckShut /\ sideShut' = sideShut \cup {sconn} /\ sconn # NoConn
  /\ sconn' = NoConn /\ spc' = "accept" /\ jobId' = NoJob /\ body' = <<>>
ServerWorks ==    \* the server goes on, or the sidecar tells of it
  /\ DeckKept /\ UNCHANGED <<up, spool, fetched, spc, body, sconn, jobId, sideShut>> /\ BodiesKept
  /\ down' = down \/ (sconn # NoConn /\ spc = "await" /\ Told)

\* Moved changes one job, and of it the state.
LEMMA StateMoves ==
  ASSUME SsTypes, NEW m \in Jobs, NEW s
  PROVE  Shaped(Moved(m, s)) /\ \A j \in Jobs : Moved(m, s)[j].body = server[j].body
                                     /\ Moved(m, s)[j].state = IF j = m THEN s ELSE server[j].state
BY DEF Shaped, SsTypes, Moved

\* The frames without a track are frames.
LEMMA SignalIs == \A m \in {"HELLO", "END", "CANCEL"} : Signal(m) \in UpFrames /\ Signal(m).type = m
BY DEF Signal, Frame, UpFrames

\* job_release deletes: no body changes, no job comes to be.
LEMMA ReleaseKeeps == ASSUME SsTypes, Release(jobId, TRUE) PROVE BodiesKept /\ jobId' = NoJob
<1>1. Shaped(server)
  BY DEF SsTypes, Shaped
<1>2. CASE jobId = NoJob
  BY <1>1, <1>2 DEF Release, BodiesKept
<1>3. CASE jobId # NoJob
  <2>1. jobId \in Jobs /\ server[jobId].state # "none"
    BY <1>3 DEF SsTypes
  <2>2. server' = Moved(jobId, "deleted") /\ jobId' = NoJob
    BY <1>3 DEF Release
  <2>3. BodiesKept
    BY <2>1, <2>2, StateMoves DEF BodiesKept
  <2>4. QED
    BY <2>2, <2>3
<1>4. QED
  BY <1>2, <1>3

(* The deck's steps.                                                        *)
LEMMA DeckStepsOnTheLink ==
  ASSUME SsTypes, JobsAreOfTracks, Links
  PROVE  /\ \A t \in Tracks : LoadTrack(t) => Thinks
         /\ Serve => Thinks
         /\ TakeDelivery => Thinks
         /\ SeeWant => Thinks
         /\ StartJob => Thinks
         /\ BeginRefresh => Thinks
         /\ Reuse => Thinks
         /\ HelloAgain => Posts \/ Hangs
         /\ TryConnect => Hangs
         /\ ConnectFails => Thinks
         /\ StatusArrives => Skims
         /\ AwaitEnds => Thinks
         /\ LinkLost => Hangs
         /\ SendTimesOut => Hangs
         /\ UploadCancelled => Posts \/ Thinks
         /\ SendEnd => Posts
         /\ PollCancelled => Posts \/ Thinks
         /\ FailureArrives => Skims
         /\ LateStatus => Skims
         /\ ProgressArrives => Skims
         /\ SilenceTimesOut => Hangs
         /\ Deliver => Thinks
         /\ RefreshReads => Skims
         /\ RefreshEnds => Hangs \/ Thinks
         /\ DeckRestarts => Hangs
<1> USE DEF SideKept, LeavesNoticed, SsTypes, JobsAreOfTracks, Linked, Offered, Early, deckVars, wantVars, trackVars, linkVars, sideVars, diskVars
<1>1. \A t \in Tracks : LoadTrack(t) => Thinks
  BY DEF LoadTrack, Thinks
<1>2. Serve => Thinks
  BY DEF Serve, Thinks
<1>3. TakeDelivery => Thinks
  BY DEF TakeDelivery, Thinks
<1>4. SeeWant => Thinks
  BY DEF SeeWant, Thinks
<1>5. StartJob => Thinks
  BY DEF StartJob, Thinks
<1>6. BeginRefresh => Thinks
  BY DEF BeginRefresh, Thinks, Spend
<1>7. Reuse => Thinks
  BY DEF Reuse, Thinks, Fails, Hungup
<1>8. HelloAgain => Posts \/ Hangs
  BY SignalIs DEF HelloAgain, Posts, Hangs, PostsOn, HasRoom, Hungup, Post, Shut
<1>9. TryConnect => Hangs
  BY DEF TryConnect, Hangs, Hungup, Shut
<1>10. ConnectFails => Thinks
  BY DEF ConnectFails, Thinks, Fails
<1>11. StatusArrives => Skims
  BY DEF StatusArrives, Skims, Fails, Reads, Take
<1>12. AwaitEnds => Thinks
  BY DEF AwaitEnds, Thinks, Fails, Hungup, Reads
<1>13. LinkLost => Hangs
  BY DEF LinkLost, Hangs, Drops, Fails, Hungup, Shut
<1>14. SendTimesOut => Hangs
  BY DEF SendTimesOut, Hangs, Drops, Fails, Shut
<1>15. UploadCancelled => Posts \/ Thinks
  BY SignalIs DEF UploadCancelled, Posts, Thinks, PostsOn, Cancel, HasRoom, Post
<1>16. SendEnd => Posts
  <2> SUFFICES ASSUME SendEnd PROVE Posts
    OBVIOUS
  <2>1. dconn # NoConn /\ PostsOn(dconn, Signal("END")) /\ Signal("END") \in UpFrames /\ Signal("END").type = "END"
    BY SignalIs DEF SendEnd, Post, PostsOn
  <2>2. dpc = "end" /\ dpc' = "poll" /\ SideKept /\ LeavesNoticed
    BY DEF SendEnd
  <2>3. UNCHANGED <<down, dconn, opened, deckShut, sent, job, arrived, media, spool>>
    BY DEF SendEnd
  <2>4. QED
    BY <2>1, <2>2, <2>3 DEF Posts
<1>17. PollCancelled => Posts \/ Thinks
  BY SignalIs DEF PollCancelled, Posts, Thinks, PostsOn, Cancel, HasRoom, Leaves, Post
<1>18. FailureArrives => Skims
  BY DEF FailureArrives, Skims, Fails, Leaves, Reads, Take
<1>19. LateStatus => Skims
  BY DEF LateStatus, Skims, Reads, Take
<1>25. ProgressArrives => Skims
  BY DEF ProgressArrives, Skims, Reads, Take
<1>20. SilenceTimesOut => Hangs
  BY SignalIs DEF SilenceTimesOut, Hangs, PostsOn, Cancel, Drops, Fails, HasRoom, Hungup, Post, Reads, Shut
<1>21. Deliver => Thinks
  BY DEF Deliver, Thinks
<1>22. RefreshReads => Skims
  BY DEF RefreshReads, Skims, Reads, Take
<1>23. RefreshEnds => Hangs \/ Thinks
  BY DEF RefreshEnds, Hangs, Thinks, Hungup, Reads, Shut
<1>24. DeckRestarts => Hangs
  BY DEF DeckRestarts, Hangs, Shut, Spend
<1>99. QED
  BY <1>1, <1>2, <1>3, <1>4, <1>5, <1>6, <1>7, <1>8, <1>9, <1>10, <1>11, <1>12, <1>13, <1>14, <1>15, <1>16, <1>17, <1>18, <1>19, <1>20, <1>21, <1>22, <1>23, <1>24, <1>25

(* The sidecar's and the server's.                                          *)
LEMMA SideStepsOnTheLink ==
  ASSUME SsTypes, Links
  PROVE  /\ Hello => Hears
         /\ JobBegin => Hears \/ Opens
         /\ SkipFrame => Hears
         /\ ReadPayload => Hears
         /\ Swallow => Hears
         /\ CancelFrame => Hears
         /\ PullEnds => Breaks
         /\ PostBreaks => Breaks
         /\ PostRefused => Breaks
         /\ JobEnd => Hears
         /\ PokeCancels => Hears
         /\ PokeSkips => Hears
         /\ AwaitFails => Breaks
         /\ AwaitHungUp => Breaks
         /\ AwaitTimesOut => Breaks
         /\ AwaitPolls => ServerWorks
         /\ FetchFails => Breaks
         /\ EndSession => Closes
         /\ ServerFinishes => ServerWorks
<1> USE DEF DeckKept, SsTypes, Serving, deckVars, wantVars, trackVars, linkVars, sideVars, diskVars
<1>1. Hello => Hears
  BY DEF Hello, Hears, Told, Takes, BodiesKept, Shaped, Answer, Consume, Incoming, Next1, ServerFails, Spend, DownFrames, PartSet
<1>2. JobBegin => Hears \/ Opens
  BY DEF JobBegin, Hears, Opens, Told, Takes, BodiesKept, Shaped, Answer, Consume, Incoming, Next1, Reply, DownFrames, PartSet
<1>3. SkipFrame => Hears
  BY DEF SkipFrame, Hears, Told, Takes, BodiesKept, Shaped, Consume, Incoming, Next1, DownFrames, PartSet
<1>4. ReadPayload => Hears
  BY DEF ReadPayload, Hears, Told, Takes, BodiesKept, Shaped, Consume, Incoming, Next1, DownFrames, PartSet
<1>5. Swallow => Hears
  BY DEF Swallow, Hears, Told, Takes, BodiesKept, Shaped, Consume, Incoming, Next1, DownFrames, PartSet
<1>6. CancelFrame => Hears
  BY ReleaseKeeps DEF CancelFrame, Hears, Told, Takes, Consume, Incoming, Next1, DownFrames, PartSet
<1>7. PullEnds => Breaks
  BY DEF PullEnds, Breaks, Told, Takes, StrandOf, BytesFrame, Answer, Consume, Frame, GivesUp, Incoming, Next1, Reply, Signal, Strand, DownFrames, PartSet
<1>8. PostBreaks => Breaks
  BY DEF PostBreaks, Breaks, Told, Takes, StrandOf, BytesFrame, Answer, Frame, GivesUp, Incoming, Next1, Reply, ServerFails, Signal, Spend, Strand, DownFrames, PartSet
<1>9. PostRefused => Breaks
  BY DEF PostRefused, Breaks, Told, Takes, Answer, GivesUp, Reply, DownFrames, PartSet
<1>10. JobEnd => Hears
  BY DEF JobEnd, Hears, Told, Takes, BodiesKept, Shaped, Consume, Incoming, Next1, DownFrames, PartSet
<1>11. PokeCancels => Hears
  BY ReleaseKeeps DEF PokeCancels, Hears, Told, Takes, Consume, Incoming, Next1, DownFrames, PartSet
<1>12. PokeSkips => Hears
  BY DEF PokeSkips, Hears, Told, Takes, BodiesKept, Shaped, Consume, Incoming, Next1, DownFrames, PartSet
<1>13. AwaitFails => Breaks
  BY DEF AwaitFails, Breaks, Told, Takes, Answer, GivesUp, Reply, ServerFails, Spend, DownFrames, PartSet
<1>14. AwaitHungUp => Breaks
  BY DEF AwaitHungUp, Breaks, Told, Takes, Answer, Eof, GivesUp, Incoming, Reply, DownFrames, PartSet
<1>18. AwaitTimesOut => Breaks
  BY DEF AwaitTimesOut, Breaks, Told, Takes, Answer, GivesUp, Reply, DownFrames, PartSet
<1>19. AwaitPolls => ServerWorks
  BY DEF AwaitPolls, ServerWorks, Told, Tells, Answer, Reply, BodiesKept, Shaped, DownFrames, PartSet
<1>15. FetchFails => Breaks
  BY DEF FetchFails, Breaks, Told, Takes, Answer, GivesUp, Reply, ServerFails, Spend, DownFrames, PartSet
<1>16. EndSession => Closes
  BY ReleaseKeeps DEF EndSession, Closes, Eof, Incoming, DownFrames, PartSet
<1>17. ServerFinishes => ServerWorks
  <2> SUFFICES ASSUME ServerFinishes PROVE ServerWorks
    OBVIOUS
  <2>1. PICK j \in Jobs : server[j].state = "running" /\ server' = Moved(j, "done")
    BY DEF ServerFinishes
  <2>2. BodiesKept
    BY <2>1, StateMoves DEF BodiesKept
  <2>3. QED
    BY <2>2 DEF ServerFinishes, ServerWorks
<1>99. QED
  BY <1>1, <1>2, <1>3, <1>4, <1>5, <1>6, <1>7, <1>8, <1>9, <1>10, <1>11, <1>12, <1>13, <1>14, <1>15, <1>16, <1>17, <1>18, <1>19

(* Every step is one of these to the link.                                  *)
LinkSteps ==
  \/ Thinks \/ Posts \/ SendBegin \/ SendPcm \/ Connect \/ Hangs \/ Skims \/ PartArrives \/ StorePair
  \/ Hears \/ Opens \/ Breaks \/ PullPcm \/ PostAccepted \/ AwaitDone \/ FetchStem \/ FetchDone
  \/ Accept \/ Closes \/ SidecarDies \/ SidecarStarts \/ ServerWorks

\* Every step of the program is one of the link's.
LEMMA StepsOnTheLink == SsTypes /\ JobsAreOfTracks /\ Links /\ [Next]_vars => LinkSteps
<1> SUFFICES ASSUME SsTypes, JobsAreOfTracks, Links, [Next]_vars PROVE LinkSteps
  OBVIOUS
<1>1. CASE UNCHANGED vars
  BY <1>1 DEF vars, deckVars, wantVars, trackVars, linkVars, sideVars, diskVars, LinkSteps, ServerWorks, DeckKept,
     BodiesKept, Shaped, SsTypes
<1>2. CASE DeckStep
  BY <1>2, DeckStepsOnTheLink DEF DeckStep, LinkSteps
<1>3. CASE SidecarStep
  BY <1>3, SideStepsOnTheLink DEF SidecarStep, LinkSteps
<1>4. CASE (\E t \in Tracks : LoadTrack(t)) \/ Serve \/ TakeDelivery \/ DeckRestarts
  BY <1>4, DeckStepsOnTheLink DEF LinkSteps
<1>5. CASE SidecarDies \/ SidecarStarts \/ ServerFinishes
  BY <1>5, SideStepsOnTheLink DEF LinkSteps
<1>6. QED
  BY <1>1, <1>2, <1>3, <1>4, <1>5 DEF Next

(* The deck works for tracks: what it wants, and what its job is for.        *)
LEMMA JobsStayOfTracks == SsTypes /\ JobsAreOfTracks /\ [Next]_vars => JobsAreOfTracks'
<1> SUFFICES ASSUME SsTypes, JobsAreOfTracks, [Next]_vars PROVE JobsAreOfTracks'
  OBVIOUS
<1> USE DEF JobsAreOfTracks, JobSteps, Linked, Conns, NoConn, deckVars, wantVars, trackVars, linkVars, sideVars, diskVars
<1>1. ASSUME NEW t \in Tracks, LoadTrack(t) PROVE JobsAreOfTracks'
  BY <1>1 DEF LoadTrack
<1>2. CASE Serve \/ TakeDelivery \/ DeckRestarts
  BY <1>2, SessionAssumption DEF Serve, TakeDelivery, DeckRestarts, Shut
<1>3. CASE SeeWant \/ StartJob \/ BeginRefresh
  BY <1>3 DEF SeeWant, StartJob, BeginRefresh
<1>4. CASE SendBegin \/ SendPcm \/ UploadCancelled \/ SendEnd
  BY <1>4 DEF SendBegin, SendPcm, UploadCancelled, SendEnd
<1>5. CASE RefreshReads \/ RefreshEnds
  BY <1>5 DEF RefreshReads, RefreshEnds, Shut
<1>6. CASE Reuse
  BY <1>6 DEF Reuse, Fails
<1>7. CASE HelloAgain
  BY <1>7 DEF HelloAgain, Shut
<1>8. CASE TryConnect
  BY <1>8 DEF TryConnect, Shut
<1>9. CASE ConnectFails
  BY <1>9 DEF ConnectFails, Fails
<1>10. CASE Connect
  BY <1>10, SessionAssumption DEF Connect, SsTypes
<1>11. CASE StatusArrives
  BY <1>11 DEF StatusArrives, Fails
<1>12. CASE AwaitEnds
  BY <1>12 DEF AwaitEnds, Fails
<1>13. CASE LinkLost
  BY <1>13 DEF LinkLost, Drops, Fails, Shut
<1>14. CASE SendTimesOut
  BY <1>14 DEF SendTimesOut, Drops, Fails, Shut
<1>15. CASE PollCancelled
  BY <1>15 DEF PollCancelled
<1>16. CASE PartArrives
  BY <1>16 DEF PartArrives
<1>17. CASE FailureArrives
  BY <1>17 DEF FailureArrives, Fails
<1>18. CASE LateStatus
  BY <1>18 DEF LateStatus
<1>24. CASE ProgressArrives
  BY <1>24 DEF ProgressArrives
<1>19. CASE SilenceTimesOut
  BY <1>19 DEF SilenceTimesOut, Drops, Fails, Shut
<1>20. CASE StorePair
  BY <1>20 DEF StorePair
<1>21. CASE Deliver
  BY <1>21 DEF Deliver
<1>22. CASE SidecarStep \/ SidecarDies \/ SidecarStarts \/ ServerFinishes \/ UNCHANGED vars
  <2> SUFFICES ASSUME TRUE PROVE UNCHANGED <<dpc, job, dconn, cur, pending, want, asked>>
    OBVIOUS
  <2>1. CASE Accept
    BY <2>1 DEF Accept
  <2>2. CASE Hello
    BY <2>2 DEF Hello
  <2>3. CASE JobBegin
    BY <2>3 DEF JobBegin
  <2>4. CASE SkipFrame
    BY <2>4 DEF SkipFrame
  <2>5. CASE ReadPayload
    BY <2>5 DEF ReadPayload
  <2>6. CASE Swallow
    BY <2>6 DEF Swallow
  <2>7. CASE CancelFrame
    BY <2>7 DEF CancelFrame
  <2>8. CASE PullPcm
    BY <2>8 DEF PullPcm
  <2>9. CASE PullEnds
    BY <2>9 DEF PullEnds
  <2>10. CASE PostBreaks
    BY <2>10 DEF PostBreaks
  <2>11. CASE PostAccepted
    BY <2>11 DEF PostAccepted
  <2>12. CASE PostRefused
    BY <2>12 DEF PostRefused
  <2>13. CASE JobEnd
    BY <2>13 DEF JobEnd
  <2>14. CASE PokeCancels
    BY <2>14 DEF PokeCancels
  <2>15. CASE PokeSkips
    BY <2>15 DEF PokeSkips
  <2>16. CASE AwaitFails
    BY <2>16 DEF AwaitFails
  <2>17. CASE AwaitHungUp
    BY <2>17 DEF AwaitHungUp
  <2>28. CASE AwaitPolls
    BY <2>28 DEF AwaitPolls
  <2>29. CASE AwaitTimesOut
    BY <2>29 DEF AwaitTimesOut
  <2>18. CASE AwaitDone
    BY <2>18 DEF AwaitDone
  <2>19. CASE FetchStem
    BY <2>19 DEF FetchStem
  <2>20. CASE FetchFails
    BY <2>20 DEF FetchFails
  <2>21. CASE FetchDone
    BY <2>21 DEF FetchDone
  <2>22. CASE EndSession
    BY <2>22 DEF EndSession
  <2>23. CASE SidecarDies
    BY <2>23 DEF SidecarDies
  <2>24. CASE SidecarStarts
    BY <2>24 DEF SidecarStarts
  <2>25. CASE ServerFinishes
    BY <2>25 DEF ServerFinishes
  <2>26. CASE UNCHANGED vars
    BY <2>26 DEF vars
  <2>27. QED
    BY <1>22, <2>1, <2>2, <2>3, <2>4, <2>5, <2>6, <2>7, <2>8, <2>9, <2>10, <2>11, <2>12, <2>13, <2>14, <2>15, <2>16, <2>17, <2>18, <2>19, <2>20, <2>21, <2>22, <2>23, <2>24, <2>25, <2>26, <2>28, <2>29 DEF SidecarStep
<1>23. QED
  BY <1>1, <1>2, <1>3, <1>4, <1>5, <1>6, <1>7, <1>8, <1>9, <1>10, <1>11, <1>12, <1>13, <1>14, <1>15, <1>16, <1>17, <1>18, <1>19, <1>20, <1>21, <1>22, <1>24 DEF Next, DeckStep, SidecarStep

(* The lines: how a step moves the queues.                                  *)
UpMoves ==
  \/ up' = up
  \/ \E c \in Conns, f \in UpFrames :
       PostsOn(c, f) /\ (f.type = "PCM" => dpc = "pcm" /\ c = dconn /\ f.track = job)
  \/ Takes
  \/ sconn # NoConn /\ up[sconn] # <<>> /\ up' = [up EXCEPT ![sconn] = StrandOf(up[sconn])]
  \/ up' = [c \in Conns |-> <<>>]
DownMoves ==
  \/ down' = down
  \/ \E c \in Conns, f \in DownFrames : down' = [down EXCEPT ![c] = Append(down[c], f)]
  \/ \E c \in Conns : down[c] # <<>> /\ down' = [down EXCEPT ![c] = Tail(down[c])]
  \/ down' = [c \in Conns |-> IF c = dconn THEN <<>> ELSE down[c]]

\* The frames of an upload are frames.
LEMMA FramesAre ==
  /\ \A t \in Tracks : Frame("BEGIN", t) \in UpFrames /\ Frame("BEGIN", t).type = "BEGIN"
                     /\ Frame("PCM", t) \in UpFrames /\ Frame("PCM", t).type = "PCM" /\ Frame("PCM", t).track = t
BY DEF Frame, UpFrames

\* So are the announcements of the parts.
LEMMA PartFrames == \A i \in {1, 2}, b \in BOOLEAN : [type |-> Parts[i], ok |-> b] \in DownFrames
BY DEF Parts, PartSet, DownFrames

\* No step does more to the queues than that.
LEMMA LinesMove == SsTypes /\ JobsAreOfTracks /\ LinkSteps => UpMoves /\ DownMoves
<1> SUFFICES ASSUME SsTypes, JobsAreOfTracks, LinkSteps PROVE UpMoves /\ DownMoves
  OBVIOUS
<1> USE DEF SsTypes, UpMoves, DownMoves, deckVars, wantVars, trackVars, linkVars, sideVars, diskVars
<1>1. CASE Thinks
  BY <1>1 DEF Thinks, SideKept
<1>2. CASE Posts
  BY <1>2 DEF Posts, SideKept
<1>3. CASE SendBegin
  BY <1>3, FramesAre DEF SendBegin, JobsAreOfTracks, JobSteps, Linked, Post, PostsOn
<1>4. CASE SendPcm
  BY <1>4, FramesAre DEF SendPcm, JobsAreOfTracks, JobSteps, Linked, Post, PostsOn
<1>5. CASE Connect
  BY <1>5, SignalIs, SessionAssumption DEF Connect, Conns, Post, PostsOn
<1>6. CASE Hangs
  BY <1>6 DEF Hangs, SideKept
<1>7. CASE Skims
  BY <1>7 DEF Skims, SideKept
<1>8. CASE PartArrives
  BY <1>8 DEF PartArrives, JobsAreOfTracks, Linked, Reads, Take
<1>9. CASE StorePair
  BY <1>9 DEF StorePair
<1>10. CASE Hears
  <2>1. UpMoves /\ sconn \in Conns
    BY <1>10 DEF Hears, Takes
  <2>2. DownMoves
    BY <1>10, <2>1 DEF Hears, Told
  <2>3. QED
    BY <2>1, <2>2
<1>11. CASE Opens
  BY <1>11 DEF Opens, DeckKept
<1>12. CASE Breaks
  BY <1>12 DEF Breaks, DeckKept, Told
<1>13. CASE PullPcm
  BY <1>13 DEF PullPcm, Consume, Takes, Next1, Incoming
<1>14. CASE PostAccepted
  BY <1>14 DEF PostAccepted
<1>15. CASE AwaitDone
  BY <1>15 DEF AwaitDone
<1>16. CASE FetchStem
  <2>1. UpMoves /\ sconn \in Conns /\ (fetched + 1) \in {1, 2}
    BY <1>16 DEF FetchStem, Serving
  <2>2. \E f \in DownFrames : UNCHANGED down \/ down' = [down EXCEPT ![sconn] = Append(down[sconn], f)]
    <3>1. CASE sconn \in deckShut
      <4>1. [type |-> "FAILED", ok |-> FALSE] \in DownFrames
        BY DEF DownFrames
      <4>2. QED
        BY <1>16, <3>1, <4>1 DEF FetchStem, GivesUp, Reply, Answer
    <3>2. CASE sconn \notin deckShut
      <4>1. [type |-> Parts[fetched + 1], ok |-> FALSE] \in DownFrames
        BY <2>1, PartFrames
      <4>2. QED
        BY <1>16, <3>2, <4>1 DEF FetchStem, Reply, Answer
    <3>3. QED
      BY <3>1, <3>2
  <2>3. QED
    BY <2>1, <2>2
<1>17. CASE FetchDone
  BY <1>17 DEF FetchDone
<1>18. CASE Accept
  BY <1>18 DEF Accept
<1>19. CASE Closes
  BY <1>19 DEF Closes, DeckKept
<1>20. CASE SidecarDies
  BY <1>20 DEF SidecarDies
<1>21. CASE SidecarStarts
  BY <1>21 DEF SidecarStarts
<1>22. CASE ServerWorks
  BY <1>22 DEF ServerWorks, DeckKept, Told
<1>23. QED
  BY <1>1, <1>2, <1>3, <1>4, <1>5, <1>6, <1>7, <1>8, <1>9, <1>10, <1>11, <1>12, <1>13, <1>14, <1>15, <1>16, <1>17, <1>18, <1>19, <1>20, <1>21, <1>22 DEF LinkSteps

\* The queues hold frames.
LEMMA LinesAreTyped ==
  ASSUME SsTypes, UpMoves, DownMoves
  PROVE  up' \in [Conns -> Seq(UpFrames)] /\ down' \in [Conns -> Seq(DownFrames)]
<1> USE DEF SsTypes
<1>1. up' \in [Conns -> Seq(UpFrames)]
  <2>1. CASE up' = up \/ up' = [c \in Conns |-> <<>>]
    <3>1. <<>> \in Seq(UpFrames)
      OBVIOUS
    <3>2. QED
      BY <2>1, <3>1
  <2>2. ASSUME NEW c \in Conns, NEW f \in UpFrames, PostsOn(c, f) PROVE up' \in [Conns -> Seq(UpFrames)]
    BY <2>2, AppendIs DEF PostsOn
  <2>3. CASE Takes
    BY <2>3, TailIs DEF Takes
  <2>4. CASE sconn # NoConn /\ up[sconn] # <<>> /\ up' = [up EXCEPT ![sconn] = StrandOf(up[sconn])]
    <3>1. StrandOf(up[sconn]) \in Seq(UpFrames)
      BY <2>4, StrandIs
    <3>2. QED
      BY <2>4, <3>1
  <2>5. QED
    BY <2>1, <2>2, <2>3, <2>4 DEF UpMoves
<1>2. down' \in [Conns -> Seq(DownFrames)]
  <2>1. CASE down' = down \/ down' = [c \in Conns |-> IF c = dconn THEN <<>> ELSE down[c]]
    <3>1. <<>> \in Seq(DownFrames) /\ \A c \in Conns : down[c] \in Seq(DownFrames)
      OBVIOUS
    <3>2. QED
      BY <2>1, <3>1
  <2>2. ASSUME NEW c \in Conns, NEW f \in DownFrames, down' = [down EXCEPT ![c] = Append(down[c], f)]
        PROVE  down' \in [Conns -> Seq(DownFrames)]
    BY <2>2, AppendIs
  <2>3. ASSUME NEW c \in Conns, down[c] # <<>>, down' = [down EXCEPT ![c] = Tail(down[c])]
        PROVE  down' \in [Conns -> Seq(DownFrames)]
    BY <2>3, TailIs
  <2>4. QED
    BY <2>1, <2>2, <2>3 DEF DownMoves
<1>3. QED
  BY <1>1, <1>2

PointsAreTyped ==
  /\ dconn \in Conns \cup {NoConn} /\ sconn \in Conns \cup {NoConn} /\ opened \in 0..MaxConns
  /\ spc \in Serving <=> sconn # NoConn
  /\ jobId \in Jobs \cup {NoJob} /\ fetched \in 0..2 /\ sent \in 0..Chunks
  /\ spool \in [PartSet -> Tracks \cup {NoTrack}]
  /\ server = [j \in Jobs |-> [state |-> server[j].state, body |-> server[j].body]]
  /\ abandoned \in BOOLEAN /\ (jobId # NoJob => server[jobId].state # "none")
  /\ (dpc = "pcm" => sent < Chunks) /\ (spc \in {"await", "fetch"} => jobId # NoJob)

\* The points of control, the handles and the counts keep their types.
LEMMA PointsStayTyped == SsTypes /\ JobsAreOfTracks /\ Links /\ BodyIsOneTrack /\ LinkSteps => PointsAreTyped'
<1> SUFFICES ASSUME SsTypes, JobsAreOfTracks, Links, BodyIsOneTrack, LinkSteps PROVE PointsAreTyped'
  OBVIOUS
<1>a. MaxConns \in Nat /\ Chunks \in Nat \ {0}
  BY SessionAssumption
<1> USE <1>a DEF PointsAreTyped, SsTypes, NoConn, NoJob, Conns, Jobs, Serving, deckVars, wantVars, trackVars, linkVars, sideVars, diskVars
<1>1. CASE Thinks
  BY <1>1 DEF Thinks, SideKept, LeavesNoticed, Offered
<1>2. CASE Posts
  BY <1>2 DEF Posts, SideKept, LeavesNoticed
<1>3. CASE SendBegin
  BY <1>3 DEF SendBegin
<1>4. CASE SendPcm
  BY <1>4 DEF SendPcm
<1>5. CASE Connect
  <2>1. opened' = opened + 1 /\ opened < MaxConns /\ dconn' = opened + 1 /\ dpc' \in {"await", "refresh"}
    BY <1>5 DEF Connect
  <2>2. opened' \in 0..MaxConns /\ dconn' \in 1..MaxConns
    BY <2>1
  <2>3. UNCHANGED <<sideVars, sent, spool, abandoned, server>>
    BY <1>5 DEF Connect
  <2>4. QED
    BY <2>1, <2>2, <2>3
<1>6. CASE Hangs
  BY <1>6 DEF Hangs, SideKept
<1>7. CASE Skims
  BY <1>7 DEF Skims, SideKept, LeavesNoticed
<1>8. CASE PartArrives
  BY <1>8 DEF PartArrives
<1>9. CASE StorePair
  BY <1>9 DEF StorePair
<1>10. CASE Hears
  BY <1>10 DEF Hears, DeckKept, Takes, BodiesKept, Shaped
<1>11. CASE Opens
  BY <1>11 DEF Opens, DeckKept, Takes
<1>12. CASE Breaks
  BY <1>12 DEF Breaks, DeckKept
<1>13. CASE PullPcm
  BY <1>13 DEF PullPcm
<1>14. CASE PostAccepted
  <2>1. PICK j \in Jobs : /\ server[j].state = "none" /\ jobId' = j
                          /\ server' = [server EXCEPT ![j] = [state |-> "running", body |-> body]]
    BY <1>14 DEF PostAccepted
  <2>2. server' = [i \in Jobs |-> IF i = j THEN [state |-> "running", body |-> body] ELSE server[i]]
    BY <2>1
  <2>3. server' = [i \in Jobs |-> [state |-> server'[i].state, body |-> server'[i].body]]
    BY <2>2
  <2>4. server'[jobId'].state = "running"
    BY <2>1, <2>2
  <2>5. QED
    BY <1>14, <2>1, <2>3, <2>4 DEF PostAccepted
<1>15. CASE AwaitDone
  BY <1>15 DEF AwaitDone
<1>16. CASE FetchStem
  <2>1. PICK t \in Tracks : server[jobId].body = [i \in 1..Chunks |-> t]
    BY <1>16 DEF FetchStem, BodyIsOneTrack
  <2>2. Head(server[jobId].body) \in Tracks
    <3>1. PICK b : b = server[jobId].body
      OBVIOUS
    <3>2. b \in [1..Chunks -> Tracks]
      BY <2>1, <3>1
    <3>3. b \in Seq(Tracks) /\ b # <<>>
      BY <1>a, <3>2, FunctionIsStream
    <3>4. QED
      BY <3>1, <3>3, TailIs
  <2>3. spool' \in [PartSet -> Tracks \cup {NoTrack}]
    BY <1>16, <2>2 DEF FetchStem
  <2>4. QED
    BY <1>16, <2>3 DEF FetchStem, GivesUp
<1>17. CASE FetchDone
  BY <1>17 DEF FetchDone
<1>18. CASE Accept
  BY <1>18 DEF Accept
<1>19. CASE Closes
  BY <1>19 DEF Closes, DeckKept, BodiesKept, Shaped
<1>20. CASE SidecarDies
  BY <1>20 DEF SidecarDies
<1>21. CASE SidecarStarts
  BY <1>21 DEF SidecarStarts
<1>22. CASE ServerWorks
  BY <1>22 DEF ServerWorks, DeckKept, BodiesKept, Shaped
<1>23. QED
  BY <1>1, <1>2, <1>3, <1>4, <1>5, <1>6, <1>7, <1>8, <1>9, <1>10, <1>11, <1>12, <1>13, <1>14, <1>15, <1>16, <1>17, <1>18, <1>19, <1>20, <1>21, <1>22 DEF LinkSteps

\* The deck's connection is the newest, the sidecar's the oldest it has not left.
LEMMA LinksStay == SsTypes /\ JobsAreOfTracks /\ Links /\ LinkSteps => Links'
<1> SUFFICES ASSUME SsTypes, JobsAreOfTracks, Links, LinkSteps PROVE Links'
  OBVIOUS
<1>a. MaxConns \in Nat
  BY SessionAssumption
<1> USE <1>a DEF Links, SsTypes, NoConn, Conns, Serving, deckVars, wantVars, trackVars, linkVars, sideVars, diskVars
<1>1. CASE Thinks
  BY <1>1 DEF Thinks, SideKept
<1>2. CASE Posts
  BY <1>2 DEF Posts, SideKept, PostsOn
<1>3. CASE SendBegin
  BY <1>3 DEF SendBegin, JobsAreOfTracks, Linked, Post
<1>4. CASE SendPcm
  BY <1>4 DEF SendPcm, JobsAreOfTracks, Linked, Post
<1>5. CASE Connect
  <2>1. /\ opened' = opened + 1 /\ dconn' = opened + 1 /\ opened + 1 \in Conns
        /\ UNCHANGED <<sconn, sideShut, deckShut, down>>
    BY <1>5 DEF Connect
  <2>2. \A c \in Conns : c > opened' => up'[c] = <<>>
    <3>1. \A c \in Conns : c # opened + 1 => up'[c] = up[c]
      BY <1>5, <2>1 DEF Connect, Post
    <3>2. QED
      BY <2>1, <3>1
  <2>3. QED
    BY <2>1, <2>2
<1>6. CASE Hangs
  <2>1. /\ UNCHANGED <<sconn, sideShut, opened>> /\ dconn' = NoConn
        /\ deckShut' = deckShut \cup ({dconn} \ {NoConn})
        /\ down' = [c \in Conns |-> IF c = dconn THEN <<>> ELSE down[c]]
    BY <1>6 DEF Hangs, SideKept
  <2>2. \A c \in Conns : c # dconn => up'[c] = up[c]
    BY <1>6 DEF Hangs, PostsOn
  <2>3. \A c \in Conns : c > opened => up'[c] = <<>>
    BY <2>2
  <2>4. deckShut' \subseteq 1..opened
    BY <2>1
  <2>5. QED
    BY <2>1, <2>3, <2>4
<1>7. CASE Skims
  BY <1>7 DEF Skims, SideKept
<1>8. CASE PartArrives
  BY <1>8 DEF PartArrives, JobsAreOfTracks, Linked, Reads, Take
<1>9. CASE StorePair
  BY <1>9 DEF StorePair
<1>10. CASE Hears
  BY <1>10 DEF Hears, DeckKept, Takes, Told
<1>11. CASE Opens
  BY <1>11 DEF Opens, DeckKept, Takes
<1>12. CASE Breaks
  BY <1>12 DEF Breaks, DeckKept, Takes, Told
<1>13. CASE PullPcm
  BY <1>13 DEF PullPcm, Consume, Next1, Incoming
<1>14. CASE PostAccepted
  BY <1>14 DEF PostAccepted
<1>15. CASE AwaitDone
  BY <1>15 DEF AwaitDone
<1>16. CASE FetchStem
  BY <1>16 DEF FetchStem, GivesUp, Reply, Answer
<1>17. CASE FetchDone
  BY <1>17 DEF FetchDone
<1>18. CASE Accept
  BY <1>18 DEF Accept
<1>19. CASE Closes
  BY <1>19 DEF Closes, DeckKept
<1>20. CASE SidecarDies
  BY <1>20 DEF SidecarDies
<1>21. CASE SidecarStarts
  BY <1>21 DEF SidecarStarts
<1>22. CASE ServerWorks
  BY <1>22 DEF ServerWorks, DeckKept, Told
<1>23. QED
  BY <1>1, <1>2, <1>3, <1>4, <1>5, <1>6, <1>7, <1>8, <1>9, <1>10, <1>11, <1>12, <1>13, <1>14, <1>15, <1>16, <1>17, <1>18, <1>19, <1>20, <1>21, <1>22 DEF LinkSteps

\* upload_pull: the frame at the head of the queue goes to the end of the body.
LEMMA PullIs ==
  ASSUME SsTypes, StreamsAgree, PullPcm
  PROVE  /\ sconn \in Conns /\ up[sconn] # <<>> /\ up[sconn][1].type = "PCM"
         /\ body' = Append(body, up[sconn][1].track) /\ up[sconn][1].track \in Tracks /\ Len(body) < Chunks
         /\ up' = [up EXCEPT ![sconn] = Tail(up[sconn])] /\ spc = "upload" /\ spc' = spc /\ sconn' = sconn
<1>1. sconn \in Conns /\ up[sconn] # <<>> /\ Head(up[sconn]).type = "PCM" /\ body' = Append(body, Head(up[sconn]).track)
  BY DEF SsTypes, PullPcm, Next1, Incoming
<1>2. Head(up[sconn]) = up[sconn][1] /\ Len(up[sconn]) > 0
  BY <1>1, TailIs DEF SsTypes
<1>3. TracksAreReal(up[sconn]) /\ Len(up[sconn]) \in Nat
  BY <1>1 DEF SsTypes, StreamsAgree, LinesAgree
<1>4. up[sconn][1].track \in Tracks
  BY <1>1, <1>2, <1>3 DEF TracksAreReal
<1>5. QED
  BY <1>1, <1>2, <1>4 DEF PullPcm, Consume

\* Types are kept by every step.
LEMMA TypesStay ==
  SsTypes /\ JobsAreOfTracks /\ Links /\ StreamsAgree /\ BodyIsOneTrack /\ LinkSteps => SsTypes'
<1> SUFFICES ASSUME SsTypes, JobsAreOfTracks, Links, StreamsAgree, BodyIsOneTrack, LinkSteps PROVE SsTypes'
  OBVIOUS
<1>1. body' \in Seq(Tracks) /\ Len(body') <= Chunks
  <2> USE DEF SsTypes, deckVars, wantVars, trackVars, linkVars, sideVars, diskVars
  <2>1. CASE body' = body
    BY <2>1
  <2>2. CASE body' = <<>>
    BY <2>2, SessionAssumption
  <2>3. CASE PullPcm
    <3>1. PICK t \in Tracks : body' = Append(body, t)
      BY <2>3, PullIs
    <3>2. Len(body) < Chunks /\ Len(body') = Len(body) + 1
      BY <2>3, <3>1, AppendIs DEF PullPcm
    <3>3. QED
      BY <3>1, <3>2, SessionAssumption
  <2>4. body' = body \/ body' = <<>> \/ PullPcm
    BY DEF LinkSteps, Thinks, Posts, SendBegin, SendPcm, Connect, Hangs, Skims, PartArrives, StorePair, Hears, Opens, Breaks,
           PostAccepted, AwaitDone, FetchStem, GivesUp, FetchDone, Accept, Closes, SidecarDies, SidecarStarts, ServerWorks, SideKept
  <2>5. QED
    BY <2>1, <2>2, <2>3, <2>4
<1>2. up' \in [Conns -> Seq(UpFrames)] /\ down' \in [Conns -> Seq(DownFrames)]
  BY LinesMove, LinesAreTyped
<1>3. PointsAreTyped'
  BY PointsStayTyped
<1>4. QED
  BY <1>1, <1>2, <1>3 DEF SsTypes, PointsAreTyped

\* Neighbours on a queue stay of one track.
LEMMA LinesStayAgreed ==
  ASSUME SsTypes, JobsAreOfTracks, Links, StreamsAgree, LinkSteps
  PROVE  LinesAgree'
<1>a. UpMoves /\ LinesAgree
  BY LinesMove DEF StreamsAgree
<1>b. up \in [Conns -> Seq(UpFrames)] /\ sconn \in Conns \cup {NoConn}
  BY DEF SsTypes
<1>1. CASE up' = up
  BY <1>a, <1>1 DEF LinesAgree
<1>2. CASE up' = [c \in Conns |-> <<>>]
  BY <1>2 DEF LinesAgree, Smooth, TracksAreReal
<1>3. ASSUME NEW c \in Conns, NEW f \in UpFrames,
             PostsOn(c, f), f.type = "PCM" => dpc = "pcm" /\ c = dconn /\ f.track = job
      PROVE  LinesAgree'
  <2>1. f.type = "PCM" => f.track \in Tracks
    BY <1>3 DEF JobsAreOfTracks, JobSteps
  <2>2. f.type = "PCM" => (Len(up[c]) > 0 /\ up[c][Len(up[c])].type = "PCM" => up[c][Len(up[c])].track = f.track)
    BY <1>3 DEF StreamsAgree, LastAgrees
  <2>3. Smooth(Append(up[c], f)) /\ TracksAreReal(Append(up[c], f))
    BY <2>1, <2>2, <1>a, <1>b, SmoothAppend DEF LinesAgree
  <2>4. \A d \in Conns : up'[d] = IF d = c THEN Append(up[c], f) ELSE up[d]
    BY <1>b, <1>3 DEF PostsOn
  <2>5. QED
    BY <1>a, <2>3, <2>4 DEF LinesAgree
<1>4. CASE Takes
  <2>1. sconn \in Conns /\ up[sconn] # <<>> /\ \A d \in Conns : up'[d] = IF d = sconn THEN Tail(up[sconn]) ELSE up[d]
    BY <1>b, <1>4 DEF Takes
  <2>2. Smooth(Tail(up[sconn])) /\ TracksAreReal(Tail(up[sconn]))
    BY <1>a, <1>b, <2>1, SmoothTail DEF LinesAgree
  <2>3. QED
    BY <1>a, <2>1, <2>2 DEF LinesAgree
<1>5. CASE sconn # NoConn /\ up[sconn] # <<>> /\ up' = [up EXCEPT ![sconn] = StrandOf(up[sconn])]
  <2>1. sconn \in Conns /\ up[sconn] # <<>> /\ \A d \in Conns : up'[d] = IF d = sconn THEN StrandOf(up[sconn]) ELSE up[d]
    BY <1>b, <1>5
  <2>2. Smooth(StrandOf(up[sconn])) /\ TracksAreReal(StrandOf(up[sconn]))
    BY <1>a, <1>b, <2>1, SmoothStrand DEF LinesAgree
  <2>3. QED
    BY <1>a, <2>1, <2>2 DEF LinesAgree
<1>6. QED
  BY <1>a, <1>1, <1>2, <1>3, <1>4, <1>5 DEF UpMoves

\* What a queue may become while the sidecar does not read it.
Grows(c) ==
  \/ up'[c] = up[c]
  \/ \E f \in UpFrames : up'[c] = Append(up[c], f) /\ (f.type = "PCM" => dpc = "pcm" /\ c = dconn /\ f.track = job)

\* While an upload goes on the queue it reads grows, or is read.
LEMMA QueuesGrow ==
  ASSUME SsTypes, JobsAreOfTracks, LinkSteps, spc' = "upload" 
  PROVE  Opens \/ PullPcm \/ (UNCHANGED <<spc, body, sconn>> /\ Grows(sconn))
<1> USE DEF SsTypes, Serving, NoConn, deckVars, wantVars, trackVars, linkVars, sideVars, diskVars
<1>1. CASE Thinks \/ Skims
  BY <1>1 DEF Thinks, Skims, SideKept, Grows
<1>2. CASE Posts
  BY <1>2 DEF Posts, SideKept, Grows, PostsOn
<1>3. CASE SendBegin
  <2>1. PICK f : f = Frame("BEGIN", job)
    OBVIOUS
  <2>2. f \in UpFrames /\ (f.type = "PCM" => f.track = job) /\ dpc = "begin" /\ f.type # "PCM"
    BY <1>3, <2>1, FramesAre DEF SendBegin, JobsAreOfTracks, JobSteps
  <2>3. UNCHANGED <<spc, body, sconn>> /\ up' = [up EXCEPT ![dconn] = Append(up[dconn], f)]
    BY <1>3, <2>1 DEF SendBegin, Post
  <2>4. sconn = dconn \/ up'[sconn] = up[sconn]
    BY <2>3
  <2>5. sconn = dconn => up'[sconn] = Append(up[sconn], f)
    BY <1>3, <2>3 DEF JobsAreOfTracks, Linked, SendBegin
  <2>6. QED
    BY <2>2, <2>3, <2>4, <2>5 DEF Grows
<1>4. CASE SendPcm
  <2>1. PICK f : f = Frame("PCM", job)
    OBVIOUS
  <2>2. f \in UpFrames /\ (f.type = "PCM" => f.track = job) /\ dpc = "pcm" /\ f.type = "PCM"
    BY <1>4, <2>1, FramesAre DEF SendPcm, JobsAreOfTracks, JobSteps
  <2>3. UNCHANGED <<spc, body, sconn>> /\ up' = [up EXCEPT ![dconn] = Append(up[dconn], f)]
    BY <1>4, <2>1 DEF SendPcm, Post
  <2>4. sconn = dconn \/ up'[sconn] = up[sconn]
    BY <2>3
  <2>5. sconn = dconn => up'[sconn] = Append(up[sconn], f)
    BY <1>4, <2>3 DEF JobsAreOfTracks, Linked, SendPcm
  <2>6. QED
    BY <2>2, <2>3, <2>4, <2>5 DEF Grows
<1>5. CASE Connect
  BY <1>5, SignalIs DEF Connect, Grows, Post
<1>6. CASE Hangs
  BY <1>6 DEF Hangs, SideKept, Grows, PostsOn
<1>7. CASE PartArrives \/ StorePair \/ SidecarStarts \/ ServerWorks
  BY <1>7 DEF PartArrives, StorePair, SidecarStarts, ServerWorks, DeckKept, Grows
<1>8. CASE Hears \/ Breaks \/ Accept \/ Closes \/ SidecarDies \/ PostAccepted \/ AwaitDone \/ FetchStem \/ FetchDone
  BY <1>8 DEF Hears, Breaks, Accept, Closes, SidecarDies, PostAccepted, AwaitDone, FetchStem, FetchDone, GivesUp
<1>9. QED
  BY <1>1, <1>2, <1>3, <1>4, <1>5, <1>6, <1>7, <1>8 DEF LinkSteps

\* The body is of one track, and the next frame of the same.
LEMMA BodyStaysAgreed ==
  ASSUME SsTypes, JobsAreOfTracks, Links, StreamsAgree, LinkSteps
  PROVE  BodyAgrees(up[sconn])'
<1> USE DEF SsTypes, Serving, NoConn
<1>a. BodyAgrees(up[sconn])
  BY DEF StreamsAgree
<1> SUFFICES ASSUME spc' = "upload", Len(body') > 0 PROVE BodyAgrees(up[sconn])'
  BY DEF BodyAgrees
<1>1. CASE Opens
  BY <1>1 DEF Opens
<1>2. CASE PullPcm
  <2> DEFINE q == up[sconn]
  <2>1. /\ sconn \in Conns /\ q # <<>> /\ q[1].type = "PCM" /\ q[1].track \in Tracks
        /\ body' = Append(body, q[1].track) /\ up'[sconn'] = Tail(q) /\ spc = "upload"
    BY <1>2, PullIs
  <2>2. Len(body') = Len(body) + 1 /\ body'[Len(body) + 1] = q[1].track /\ \A i \in 1..Len(body) : body'[i] = body[i]
    BY <2>1, AppendIs
  <2>3. body'[1] = q[1].track /\ \A k \in 1..Len(body') : body'[k] = body'[1]
    <3>1. Len(body) \in Nat /\ Len(q) > 0
      BY <2>1, TailIs
    <3>2. Len(body) > 0 => q[1].track = body[1] /\ \A k \in 1..Len(body) : body[k] = body[1]
      BY <1>a, <2>1, <3>1 DEF BodyAgrees
    <3>3. CASE Len(body) = 0
      <4>1. body'[1] = q[1].track /\ Len(body') = 1
        BY <2>2, <3>3
      <4>2. QED
        BY <4>1
    <3>4. CASE Len(body) > 0
      <4>1. body'[1] = body[1] /\ q[1].track = body[1]
        <5>1. 1 \in 1..Len(body) /\ q[1].track = body[1]
          BY <3>1, <3>2, <3>4
        <5>2. QED
          BY <2>2, <5>1
      <4>2. ASSUME NEW k \in 1..Len(body') PROVE body'[k] = body[1]
        <5>1. k \in 1..Len(body) \/ k = Len(body) + 1
          BY <2>2, <3>1
        <5>2. QED
          BY <2>2, <3>2, <3>4, <4>1, <5>1
      <4>3. QED
        BY <4>1, <4>2
    <3>5. QED
      BY <3>1, <3>3, <3>4
  <2>4. Smooth(q)
    BY <2>1 DEF StreamsAgree, LinesAgree
  <2>5. Len(Tail(q)) > 0 /\ Tail(q)[1].type = "PCM" => Tail(q)[1].track = q[1].track
    <3>1. Len(Tail(q)) = Len(q) - 1 /\ Len(q) \in Nat /\ \A i \in 1..Len(Tail(q)) : Tail(q)[i] = q[i + 1]
      BY <2>1, TailIs
    <3>2. CASE Len(Tail(q)) > 0
      <4>1. 1 \in 1..Len(q) /\ 1 + 1 <= Len(q) /\ Tail(q)[1] = q[1 + 1]
        BY <3>1, <3>2
      <4>2. QED
        BY <2>1, <2>4, <4>1 DEF Smooth
    <3>3. QED
      BY <3>2
  <2>6. QED
    BY <2>1, <2>3, <2>5 DEF BodyAgrees
<1>3. CASE UNCHANGED <<spc, body, sconn>> /\ Grows(sconn)
  <2>1. sconn \in Conns /\ up[sconn] \in Seq(UpFrames)
    BY <1>3
  <2>2. CASE up'[sconn] = up[sconn]
    BY <1>a, <1>3, <2>2 DEF BodyAgrees
  <2>3. ASSUME NEW f \in UpFrames, up'[sconn] = Append(up[sconn], f),
               f.type = "PCM" => dpc = "pcm" /\ sconn = dconn /\ f.track = job
        PROVE  BodyAgrees(up[sconn])'
    <3>1. CASE Len(up[sconn]) > 0
      <4>1. up'[sconn'][1] = up[sconn][1] /\ Len(up'[sconn']) > 0
        BY <1>3, <2>1, <2>3, <3>1, AppendIs
      <4>2. QED
        BY <1>a, <1>3, <3>1, <4>1 DEF BodyAgrees
    <3>2. CASE Len(up[sconn]) = 0
      <4>1. up'[sconn'][1] = f
        BY <1>3, <2>1, <2>3, <3>2, AppendIs
      <4>2. f.type = "PCM" => f.track = body[1]
        BY <1>3, <2>3, <3>2 DEF StreamsAgree, LastAgrees
      <4>3. QED
        BY <1>a, <1>3, <4>1, <4>2 DEF BodyAgrees
    <3>3. QED
      BY <2>1, <3>1, <3>2
  <2>4. QED
    BY <1>3, <2>2, <2>3 DEF Grows
<1>4. QED
  BY <1>1, <1>2, <1>3, QueuesGrow

\* The last frame sent is of the job's track.
LEMMA LastStaysAgreed ==
  ASSUME SsTypes, JobsAreOfTracks, Links, StreamsAgree, LinkSteps
  PROVE  LastAgrees(up[dconn])'
<1> USE DEF SsTypes, Serving, NoConn, deckVars, wantVars, trackVars, linkVars, sideVars, diskVars
<1>a. LastAgrees(up[dconn])
  BY DEF StreamsAgree
<1> SUFFICES ASSUME dpc' = "pcm" PROVE LastAgrees(up[dconn])'
  BY DEF LastAgrees
<1>1. CASE Posts \/ Connect \/ Hangs \/ Skims \/ PartArrives \/ StorePair
  BY <1>1 DEF Posts, Connect, Hangs, Skims, PartArrives, StorePair
<1>2. CASE SendBegin
  <2>1. dconn' = dconn /\ dconn \in Conns /\ job \in Tracks
    BY <1>2 DEF SendBegin, JobsAreOfTracks, Linked, JobSteps
  <2>2. up'[dconn] = Append(up[dconn], Frame("BEGIN", job)) /\ Frame("BEGIN", job).type = "BEGIN" /\ Frame("BEGIN", job) \in UpFrames
    BY <1>2, <2>1, FramesAre DEF SendBegin, Post
  <2>3. Len(up'[dconn]) = Len(up[dconn]) + 1 /\ up'[dconn][Len(up[dconn]) + 1] = Frame("BEGIN", job) /\ Len(up[dconn]) \in Nat
    BY <2>1, <2>2, AppendIs
  <2>4. QED
    BY <2>1, <2>2, <2>3 DEF LastAgrees
<1>3. CASE SendPcm
  <2>1. dconn' = dconn /\ dconn \in Conns /\ job \in Tracks /\ job' = job
    BY <1>3 DEF SendPcm, JobsAreOfTracks, Linked, JobSteps
  <2>2. up'[dconn] = Append(up[dconn], Frame("PCM", job)) /\ Frame("PCM", job).track = job /\ Frame("PCM", job) \in UpFrames
    BY <1>3, <2>1, FramesAre DEF SendPcm, Post
  <2>3. Len(up'[dconn]) = Len(up[dconn]) + 1 /\ up'[dconn][Len(up[dconn]) + 1] = Frame("PCM", job) /\ Len(up[dconn]) \in Nat
    BY <2>1, <2>2, AppendIs
  <2>4. QED
    BY <2>1, <2>2, <2>3 DEF LastAgrees
<1>4. CASE Thinks \/ ServerWorks \/ SidecarStarts
  BY <1>a, <1>4 DEF Thinks, ServerWorks, SidecarStarts, SideKept, DeckKept, Offered, LastAgrees
<1>5. CASE /\ UNCHANGED <<dpc, dconn, job, up>> /\ spc' # "upload"
  BY <1>a, <1>5 DEF LastAgrees
<1>6. CASE PostAccepted \/ AwaitDone \/ FetchStem \/ FetchDone \/ Accept \/ Closes
  BY <1>5, <1>6 DEF PostAccepted, AwaitDone, FetchStem, FetchDone, Accept, Closes, DeckKept, GivesUp
<1>7. CASE SidecarDies
  <2>1. dconn' = dconn /\ up'[dconn] = <<>> /\ spc' # "upload"
    BY <1>7 DEF SidecarDies, JobsAreOfTracks, Linked
  <2>2. QED
    BY <2>1 DEF LastAgrees
<1>8. ASSUME UNCHANGED <<dpc, dconn, job>>, Takes,
             spc' = "upload" /\ sconn' = dconn' /\ Len(body') > 0 => PullPcm
      PROVE  LastAgrees(up[dconn])'
  <2>1. CASE sconn # dconn
    <3>1. up'[dconn'] = up[dconn]
      BY <1>8, <2>1 DEF Takes
    <3>2. PullPcm => sconn' = sconn
      BY DEF PullPcm
    <3>3. QED
      BY <1>a, <1>8, <2>1, <3>1, <3>2 DEF LastAgrees
  <2>2. CASE sconn = dconn
    <3> DEFINE q == up[sconn]
    <3>1. sconn \in Conns /\ q \in Seq(UpFrames) /\ q # <<>> /\ up'[dconn'] = Tail(q)
      BY <1>8, <2>2 DEF Takes
    <3>2. Len(q) \in Nat /\ Len(q) > 0 /\ Len(Tail(q)) = Len(q) - 1 /\ \A i \in 1..Len(Tail(q)) : Tail(q)[i] = q[i + 1]
      BY <3>1, TailIs
    <3>3. q[Len(q)].type = "PCM" => q[Len(q)].track = job
      BY <1>8, <1>a, <2>2, <3>2 DEF LastAgrees
    <3>4. CASE Len(Tail(q)) > 0
      <4>1. Tail(q)[Len(Tail(q))] = q[Len(q)]
        <5>1. Len(Tail(q)) \in 1..Len(Tail(q)) /\ Len(Tail(q)) + 1 = Len(q)
          BY <3>2, <3>4
        <5>2. QED
          BY <3>2, <5>1
      <4>2. QED
        BY <1>8, <3>1, <3>3, <3>4, <4>1 DEF LastAgrees
    <3>5. CASE Len(Tail(q)) = 0
      <4>1. PullPcm => /\ q[1].type = "PCM" /\ body' = Append(body, q[1].track) /\ q[1].track \in Tracks
        BY PullIs
      <4>2. PullPcm => body'[1] = job
        <5>1. Len(q) = 1
          BY <3>2, <3>5
        <5>2. PullPcm => q[1].track = job
          BY <3>3, <4>1, <5>1
        <5>3. CASE Len(body) = 0
          BY <4>1, <5>2, <5>3, AppendIs
        <5>4. CASE Len(body) > 0
          <6>1. PullPcm => q[1].track = body[1]
            BY <1>8, <4>1, <5>1, <5>4 DEF StreamsAgree, BodyAgrees, PullPcm
          <6>2. PullPcm => body'[1] = body[1]
            <7>1. 1 \in 1..Len(body)
              BY <5>4
            <7>2. QED
              BY <4>1, <7>1, AppendIs
          <6>3. QED
            BY <5>2, <6>1, <6>2
        <5>5. QED
          BY <5>3, <5>4
      <4>3. Len(up'[dconn']) = 0
        BY <3>1, <3>5
      <4>4. spc' = "upload" /\ sconn' = dconn' /\ Len(body') > 0 => body'[1] = job'
        BY <1>8, <4>2
      <4>5. QED
        BY <4>3, <4>4 DEF LastAgrees
    <3>6. Len(Tail(q)) = 0 \/ Len(Tail(q)) > 0
      <4> DEFINE n == Len(Tail(q))  m == Len(q)
      <4>1. n = m - 1 /\ m \in Nat /\ m > 0
        BY <3>2
      <4> HIDE DEF n, m
      <4>2. n = 0 \/ n > 0
        BY <4>1
      <4>3. QED
        BY <4>2 DEF n
    <3>7. QED
      BY <3>4, <3>5, <3>6
  <2>3. QED
    BY <2>1, <2>2
<1>9. CASE Hears \/ Opens
  BY <1>8, <1>9 DEF Hears, Opens, DeckKept
<1>10. CASE PullPcm
  <2>1. Takes
    BY <1>10 DEF PullPcm, Consume, Takes, Next1, Incoming
  <2>2. QED
    BY <1>8, <1>10, <2>1 DEF PullPcm
<1>11. CASE Breaks
  <2>1. UNCHANGED <<dpc, dconn, job>> /\ spc' = "read"
    BY <1>11 DEF Breaks, DeckKept
  <2>2. CASE up' = up
    BY <1>a, <2>1, <2>2 DEF LastAgrees
  <2>3. CASE Takes
    BY <1>8, <2>1, <2>3
  <2>4. CASE sconn # NoConn /\ up[sconn] # <<>> /\ up' = [up EXCEPT ![sconn] = StrandOf(up[sconn])]
    <3>1. CASE sconn = dconn
      <4>1. sconn \in Conns /\ up'[dconn'] = StrandOf(up[sconn]) /\ Len(up[sconn]) \in Nat
        BY <2>1, <2>4, <3>1
      <4>2. /\ Len(StrandOf(up[sconn])) = Len(up[sconn]) /\ StrandOf(up[sconn])[1].type # "PCM"
            /\ \A i \in 2..Len(up[sconn]) : StrandOf(up[sconn])[i] = up[sconn][i]
        BY <2>4, <4>1, StrandIs, SmoothStrand DEF StreamsAgree, LinesAgree
      <4>a. StrandOf(up[sconn]) \in Seq(UpFrames)
        BY <2>4, <4>1, StrandIs
      <4>3. CASE Len(up[sconn]) = 1
        BY <2>1, <4>1, <4>2, <4>3 DEF LastAgrees
      <4>4. CASE Len(up[sconn]) > 1
        <5>0. Len(up[sconn]) \in 2..Len(up[sconn])
          BY <4>1, <4>4
        <5>1. StrandOf(up[sconn])[Len(up[sconn])] = up[sconn][Len(up[sconn])]
          BY <4>2, <5>0
        <5>2. QED
          BY <1>a, <2>1, <3>1, <4>1, <4>2, <4>4, <5>1 DEF LastAgrees
      <4>5. Len(up[sconn]) > 0
        BY <2>4, <4>1, TailIs
      <4>6. Len(up[sconn]) = 1 \/ Len(up[sconn]) > 1
        <5> DEFINE n == Len(up[sconn])
        <5>1. n \in Nat /\ n > 0
          BY <4>1, <4>5
        <5> HIDE DEF n
        <5>2. n = 1 \/ n > 1
          BY <5>1
        <5>3. QED
          BY <5>2 DEF n
      <4>7. QED
        BY <4>3, <4>4, <4>6
    <3>2. CASE sconn # dconn
      <4>1. up'[dconn'] = up[dconn]
        BY <2>1, <2>4, <3>2
      <4>2. QED
        BY <1>a, <2>1, <4>1 DEF LastAgrees
    <3>3. QED
      BY <3>1, <3>2
  <2>5. QED
    BY <1>11, <2>2, <2>3, <2>4 DEF Breaks
<1>12. QED
  BY <1>1, <1>2, <1>3, <1>4, <1>6, <1>7, <1>9, <1>10, <1>11 DEF LinkSteps

\* A POST is accepted only when the body is whole.
LEMMA BodiesStayOneTrack ==
  ASSUME SsTypes, JobsAreOfTracks, StreamsAgree, BodyIsOneTrack, LinkSteps
  PROVE  BodyIsOneTrack'
<1> USE DEF BodyIsOneTrack, deckVars, wantVars, trackVars, linkVars, sideVars, diskVars
<1>1. CASE UNCHANGED server
  BY <1>1
<1>2. CASE BodiesKept
  BY <1>2 DEF BodiesKept
<1>3. CASE PostAccepted
  <2>1. PICK j \in Jobs : server' = [server EXCEPT ![j] = [state |-> "running", body |-> body]]
    BY <1>3 DEF PostAccepted
  <2>2. server' = [i \in Jobs |-> IF i = j THEN [state |-> "running", body |-> body] ELSE server[i]]
    BY <2>1 DEF SsTypes
  <2>3. Len(body) = Chunks /\ Chunks \in Nat \ {0}
    BY <1>3, SessionAssumption DEF PostAccepted
  <2>4. \A k \in 1..Len(body) : body[k] = body[1]
    BY <1>3, <2>3 DEF PostAccepted, StreamsAgree, BodyAgrees
  <2>5. body[1] \in Tracks /\ body = [i \in 1..Chunks |-> body[1]]
    <3>1. 1 \in 1..Len(body)
      BY <2>3
    <3>2. body[1] \in Tracks
      BY <3>1 DEF SsTypes
    <3>3. body = [i \in 1..Len(body) |-> body[i]]
      BY DEF SsTypes
    <3>4. QED
      BY <2>3, <2>4, <3>2, <3>3
  <2>6. QED
    BY <2>2, <2>5
<1>4. BodiesKept \/ UNCHANGED server \/ PostAccepted
  BY DEF LinkSteps, Thinks, Posts, SendBegin, SendPcm, Connect, Hangs, Skims, PartArrives, StorePair, Hears, Opens, Breaks,
         PullPcm, AwaitDone, FetchStem, FetchDone, Accept, Closes, SidecarDies, SidecarStarts, ServerWorks, SideKept
<1>5. QED
  BY <1>1, <1>2, <1>3, <1>4

(* The first inductive invariant.                                           *)
OneAndLinks == OneIInv /\ Links
(* A link that has just been opened, with nothing sent, satisfies the inductive invariant of the
   upload. *)
LEMMA SsInitIInv == Init => OneAndLinks
<1> SUFFICES ASSUME Init PROVE OneAndLinks
  OBVIOUS
<1> USE SessionAssumption DEF Init
<1>1. SsTypes
  <2>1. up \in [Conns -> Seq(UpFrames)] /\ down \in [Conns -> Seq(DownFrames)] /\ body \in Seq(Tracks) /\ Len(body) = 0
    BY FunctionIsStream
  <2>2. server = [j \in Jobs |-> [state |-> server[j].state, body |-> server[j].body]]
    OBVIOUS
  <2>3. spool \in [PartSet -> Tracks \cup {NoTrack}]
    OBVIOUS
  <2>4. MaxConns \in Nat /\ Chunks \in Nat
    OBVIOUS
  <2>5. /\ Len(body) <= Chunks
        /\ dconn \in Conns \cup {NoConn} /\ sconn \in Conns \cup {NoConn} /\ opened \in 0..MaxConns
        /\ (spc \in Serving <=> sconn # NoConn)
        /\ jobId \in Jobs \cup {NoJob} /\ fetched \in 0..2 /\ sent \in 0..Chunks
        /\ abandoned \in BOOLEAN
    <3>1. spc \notin Serving /\ sconn = NoConn
      BY DEF Serving
    <3>2. opened \in 0..MaxConns /\ sent \in 0..Chunks /\ fetched \in 0..2 /\ Len(body) <= Chunks
      BY <2>1, <2>4
    <3>3. dconn = NoConn /\ jobId = NoJob /\ abandoned \in BOOLEAN
      OBVIOUS
    <3>4. QED
      BY <3>1, <3>2, <3>3
  <2>6. QED
    BY <2>1, <2>2, <2>3, <2>5 DEF SsTypes, NoJob
<1>2. JobsAreOfTracks /\ Links
  BY DEF JobsAreOfTracks, Links, JobSteps, Linked, Conns, NoConn
<1>3. StreamsAgree /\ BodyIsOneTrack
  BY DEF StreamsAgree, LinesAgree, Smooth, TracksAreReal, BodyAgrees, LastAgrees, BodyIsOneTrack
<1>4. QED
  BY <1>1, <1>2, <1>3 DEF OneIInv, OneAndLinks

\* The first invariant is kept by every step.
LEMMA SsStepKeepsIInv == OneAndLinks /\ [Next]_vars => OneAndLinks'
<1> SUFFICES ASSUME OneAndLinks, [Next]_vars PROVE OneAndLinks'
  OBVIOUS
<1>1. SsTypes /\ JobsAreOfTracks /\ Links /\ StreamsAgree /\ BodyIsOneTrack
  BY DEF OneIInv, OneAndLinks
<1>2. LinkSteps
  BY <1>1, StepsOnTheLink
<1>3. SsTypes'
  BY <1>1, <1>2, TypesStay
<1>4. JobsAreOfTracks' /\ Links'
  BY <1>1, <1>2, JobsStayOfTracks, LinksStay
<1>5. StreamsAgree'
  BY <1>1, <1>2, LinesStayAgreed, BodyStaysAgreed, LastStaysAgreed DEF StreamsAgree
<1>6. BodyIsOneTrack'
  BY <1>1, <1>2, BodiesStayOneTrack
<1>7. QED
  BY <1>3, <1>4, <1>5, <1>6 DEF OneIInv, OneAndLinks

\* session.c:223-224, upload_pull stops on the byte boundary: whatever was
\* cancelled, broken or lost before it on the same link, the body of every job
\* the server accepted is the whole upload of one track.
THEOREM WholeTracksOnly == Spec => []BodyIsOneTrack
<1>1. OneAndLinks => BodyIsOneTrack
  BY DEF OneIInv, OneAndLinks
<1>2. QED
  BY <1>1, SsInitIInv, SsStepKeepsIInv, PTL DEF Spec

-----------------------------------------------------------------------------
(* Streams: the frames of an upload in what is left of a queue, or grown.   *)
LEMMA TailKeeps ==
  ASSUME NEW q \in Seq(UpFrames), q # <<>>, NEW i \in Nat, NEW n \in Nat
  PROVE  /\ Follows(Tail(q), i, n) <=> Follows(q, i + 1, n)
         /\ NoBegin(q, i + 1) => NoBegin(Tail(q), i)
<1> DEFINE z == Tail(q)
<1>1. z \in Seq(UpFrames) /\ Len(z) = Len(q) - 1 /\ Len(q) \in Nat /\ Len(q) > 0
      /\ \A k \in 1..Len(z) : z[k] = q[k + 1]
  BY TailIs
<1> HIDE DEF z
<1>2. Follows(z, i, n) <=> Follows(q, i + 1, n)
  <2>1. \A k \in 1..n : i + k <= Len(z) => z[i + k] = q[i + 1 + k]
    BY <1>1
  <2>2. \A k \in 1..n : i + k <= Len(z) <=> i + 1 + k <= Len(q)
    BY <1>1
  <2>3. QED
    BY <2>1, <2>2 DEF Follows
<1>3. NoBegin(q, i + 1) => NoBegin(z, i)
  BY <1>1 DEF NoBegin
<1>4. QED
  BY <1>2, <1>3 DEF z

\* Frames of one track are of one track in what is left of the queue.
LEMMA TailAre ==
  ASSUME NEW q \in Seq(UpFrames), q # <<>>, NEW i \in Nat, NEW n \in Nat, NEW t,
         Follows(q, i + 1, n), AreOf(q, i + 1, n, t)
  PROVE  AreOf(Tail(q), i, n, t)
<1> DEFINE z == Tail(q)
<1>1. Len(z) = Len(q) - 1 /\ Len(q) \in Nat /\ \A k \in 1..Len(z) : z[k] = q[k + 1]
  BY TailIs
<1> HIDE DEF z
<1>2. \A k \in 1..n : i + 1 + k <= Len(q)
  BY DEF Follows
<1>3. ASSUME NEW k \in 1..n PROVE i + k <= Len(z)
  <2>1. i + 1 + k <= Len(q)
    BY <1>2
  <2>2. QED
    BY <1>1, <2>1
<1>4. \A k \in 1..n : i + k <= Len(z) => z[i + k] = q[i + 1 + k]
  BY <1>1
<1>5. QED
  BY <1>3, <1>4 DEF AreOf, z

\* A new frame carries on a run of PCM that reached the end, and no other.
LEMMA AppendKeeps ==
  ASSUME NEW q \in Seq(UpFrames), NEW f \in UpFrames, NEW i \in Nat, NEW n \in Nat
  PROVE  /\ i + n <= Len(q) => (Follows(Append(q, f), i, n) <=> Follows(q, i, n))
         /\ n > 0 /\ i + n = Len(q) + 1 => (Follows(Append(q, f), i, n) <=> f.type = "PCM" /\ Follows(q, i, n - 1))
         /\ n > 0 /\ Follows(Append(q, f), i, n) => i + n <= Len(q) + 1
         /\ f.type # "BEGIN" /\ NoBegin(q, i) => NoBegin(Append(q, f), i)
<1> DEFINE z == Append(q, f)
<1>1. z \in Seq(UpFrames) /\ Len(z) = Len(q) + 1 /\ Len(q) \in Nat /\ z[Len(q) + 1] = f
      /\ \A k \in 1..Len(q) : z[k] = q[k]
  BY AppendIs
<1> HIDE DEF z
<1>2. ASSUME i + n <= Len(q) PROVE Follows(z, i, n) <=> Follows(q, i, n)
  <2>1. \A k \in 1..n : i + k <= Len(q) /\ i + k <= Len(z) /\ z[i + k] = q[i + k]
    BY <1>1, <1>2
  <2>2. QED
    BY <2>1 DEF Follows
<1>3. ASSUME n > 0, i + n = Len(q) + 1
      PROVE  Follows(z, i, n) <=> f.type = "PCM" /\ Follows(q, i, n - 1)
  <2>1. \A k \in 1..(n - 1) : i + k <= Len(q) /\ i + k <= Len(z) /\ z[i + k] = q[i + k]
    BY <1>1, <1>3
  <2>2. z[i + n] = f /\ i + n <= Len(z)
    BY <1>1, <1>3
  <2>3. n \in 1..n /\ 1..n = (1..(n - 1)) \cup {n}
    BY <1>3
  <2>4. QED
    BY <2>1, <2>2, <2>3 DEF Follows
<1>4. n > 0 /\ Follows(z, i, n) => i + n <= Len(q) + 1
  <2>1. n > 0 => n \in 1..n
    OBVIOUS
  <2>2. QED
    BY <1>1, <2>1 DEF Follows
<1>5. f.type # "BEGIN" /\ NoBegin(q, i) => NoBegin(z, i)
  BY <1>1 DEF NoBegin
<1>6. QED
  BY <1>2, <1>3, <1>4, <1>5 DEF z

(* Frames of one track stay so when a frame is appended, and one of theirs appended makes one
   more. *)
LEMMA AppendAre ==
  ASSUME NEW q \in Seq(UpFrames), NEW f \in UpFrames, NEW i \in Nat, NEW n \in Nat, NEW t
  PROVE  /\ i + n <= Len(q) /\ AreOf(q, i, n, t) => AreOf(Append(q, f), i, n, t)
         /\ n > 0 /\ i + n = Len(q) + 1 /\ f.track = t /\ AreOf(q, i, n - 1, t) => AreOf(Append(q, f), i, n, t)
<1> DEFINE z == Append(q, f)
<1>1. Len(z) = Len(q) + 1 /\ Len(q) \in Nat /\ z[Len(q) + 1] = f /\ \A k \in 1..Len(q) : z[k] = q[k]
  BY AppendIs
<1> HIDE DEF z
<1>2. ASSUME i + n <= Len(q), AreOf(q, i, n, t) PROVE AreOf(z, i, n, t)
  <2>1. \A k \in 1..n : z[i + k] = q[i + k]
    BY <1>1, <1>2
  <2>2. QED
    BY <1>2, <2>1 DEF AreOf
<1>3. ASSUME n > 0, i + n = Len(q) + 1, f.track = t, AreOf(q, i, n - 1, t) PROVE AreOf(z, i, n, t)
  <2>1. \A k \in 1..(n - 1) : z[i + k] = q[i + k]
    BY <1>1, <1>3
  <2>2. z[i + n] = f
    BY <1>1, <1>3
  <2>3. 1..n = (1..(n - 1)) \cup {n}
    BY <1>3
  <2>4. QED
    BY <1>3, <2>1, <2>2, <2>3 DEF AreOf
<1>4. QED
  BY <1>2, <1>3 DEF z

\* A stranded header ends the run that began at the head, and no other.
LEMMA StrandKeeps ==
  ASSUME NEW q \in Seq(UpFrames), q # <<>>, NEW i \in Nat, NEW n \in Nat
  PROVE  /\ i > 0 => (Follows(StrandOf(q), i, n) <=> Follows(q, i, n))
         /\ NoBegin(q, i) => NoBegin(StrandOf(q), i)
         /\ StrandOf(q)[1].type \notin {"BEGIN", "PCM"}
<1> DEFINE z == StrandOf(q)
<1>1. z \in Seq(UpFrames) /\ Len(z) = Len(q) /\ Len(q) \in Nat /\ z[1] = BytesFrame
      /\ \A k \in 2..Len(q) : z[k] = q[k]
  BY StrandIs
<1>2. BytesFrame.type \notin {"BEGIN", "PCM"}
  BY DEF BytesFrame, Signal, Frame
<1> HIDE DEF z
<1>3. ASSUME i > 0 PROVE Follows(z, i, n) <=> Follows(q, i, n)
  <2>1. \A k \in 1..n : i + k <= Len(q) => z[i + k] = q[i + k]
    BY <1>1, <1>3
  <2>2. QED
    BY <1>1, <2>1 DEF Follows
<1>4. NoBegin(q, i) => NoBegin(z, i)
  <2>1. \A j \in 1..Len(z) : j = 1 \/ j \in 2..Len(q)
    BY <1>1
  <2>2. QED
    BY <1>1, <1>2, <2>1 DEF NoBegin
<1>5. QED
  BY <1>1, <1>2, <1>3, <1>4 DEF z

(* Frames of one track that follow one another stay so behind stray bytes. *)
LEMMA StrandAre ==
  ASSUME NEW q \in Seq(UpFrames), q # <<>>, NEW i \in Nat \ {0}, NEW n \in Nat, NEW t,
         Follows(q, i, n), AreOf(q, i, n, t)
  PROVE  AreOf(StrandOf(q), i, n, t)
<1>1. \A k \in 1..n : i + k \in 2..Len(q)
  <2>1. Len(q) \in Nat
    OBVIOUS
  <2>2. \A k \in 1..n : i + k <= Len(q)
    BY DEF Follows
  <2>3. ASSUME NEW k \in 1..n PROVE i + k \in 2..Len(q)
    <3>1. i + k \in Nat /\ i + k >= 2
      OBVIOUS
    <3>2. QED
      BY <2>1, <2>2, <3>1
  <2>4. QED
    BY <2>3
<1>2. \A k \in 1..n : StrandOf(q)[i + k] = q[i + k]
  BY <1>1, StrandIs
<1>3. QED
  BY <1>2 DEF AreOf

\* The answers on the way to the deck.
LEMMA TailHas ==
  ASSUME NEW d \in Seq(DownFrames), d # <<>>, NEW p
  PROVE  /\ Has(Tail(d), p) => Has(d, p)
         /\ Once(d, p) => Once(Tail(d), p)
         /\ Head(d).type = p => Has(d, p)
         /\ Head(d).type = p /\ Once(d, p) => ~Has(Tail(d), p)
<1> DEFINE z == Tail(d)
<1>1. z \in Seq(DownFrames) /\ Len(z) = Len(d) - 1 /\ Len(d) \in Nat /\ Len(d) > 0 /\ Head(d) = d[1]
      /\ \A k \in 1..Len(z) : z[k] = d[k + 1]
  BY TailIs
<1> HIDE DEF z
<1>2. \A k \in 1..Len(z) : k + 1 \in 1..Len(d)
  BY <1>1
<1>3. Has(z, p) => Has(d, p)
  BY <1>1, <1>2 DEF Has
<1>4. Once(d, p) => Once(z, p)
  <2> SUFFICES ASSUME Once(d, p), NEW i \in 1..Len(z), NEW j \in 1..Len(z), z[i].type = p, z[j].type = p PROVE i = j
    BY DEF Once
  <2>1. d[i + 1].type = p /\ d[j + 1].type = p
    BY <1>1
  <2>2. i + 1 = j + 1
    BY <1>2, <2>1 DEF Once
  <2>3. QED
    BY <1>1, <2>2
<1>5. 1 \in 1..Len(d)
  BY <1>1
<1>6. Head(d).type = p => Has(d, p)
  BY <1>1, <1>5 DEF Has
<1>7. Head(d).type = p /\ Once(d, p) => ~Has(z, p)
  <2>1. \A k \in 1..Len(z) : k + 1 # 1
    BY <1>1
  <2>2. QED
    BY <1>1, <1>2, <1>5, <2>1 DEF Has, Once
<1>8. QED
  BY <1>3, <1>4, <1>6, <1>7 DEF z

(* What a line holds, and holds once, after a frame is appended. *)
LEMMA AppendHas ==
  ASSUME NEW d \in Seq(DownFrames), NEW f \in DownFrames, NEW p
  PROVE  /\ Has(Append(d, f), p) <=> Has(d, p) \/ f.type = p
         /\ Once(d, p) /\ (f.type = p => ~Has(d, p)) => Once(Append(d, f), p)
<1> DEFINE z == Append(d, f)
<1>1. z \in Seq(DownFrames) /\ Len(z) = Len(d) + 1 /\ Len(d) \in Nat /\ z[Len(d) + 1] = f
      /\ \A k \in 1..Len(d) : z[k] = d[k]
  BY AppendIs
<1> HIDE DEF z
<1>2. 1..Len(z) = (1..Len(d)) \cup {Len(d) + 1}
  BY <1>1
<1>3. Has(z, p) <=> Has(d, p) \/ f.type = p
  BY <1>1, <1>2 DEF Has
<1>4. Once(d, p) /\ (f.type = p => ~Has(d, p)) => Once(z, p)
  BY <1>1, <1>2 DEF Has, Once
<1>5. QED
  BY <1>3, <1>4 DEF z

-----------------------------------------------------------------------------
(* The link has nothing of a job.                                           *)
Clear(q, d) ==
  /\ \A i \in 1..Len(q) : ~WholeQueued(q, i)
  /\ ~WholeTaken(q) /\ ~Owing
  /\ ~Has(d, Parts[1]) /\ ~Has(d, Parts[2])

(* The two parts of a separation, in the order they are fetched. *)
LEMMA PartsAre == Parts[1] = "harmonics" /\ Parts[2] = "vocals" /\ PartSet = {Parts[1], Parts[2]} /\ Parts[1] # Parts[2]
BY DEF Parts, PartSet

\* Before the END the link holds no whole upload, and no part.
LEMMA ClearUnsent == ASSUME dconn # NoConn, LinkIsTheJobs, ~Sent PROVE Clear(up[dconn], down[dconn])
BY DEF Clear, LinkIsTheJobs, LineIsTheJobs, QueuedIsOurs, TakenIsOurs, OwedIsOurs, PartIsOurs

\* A job the sidecar has nothing of left nothing on the link.
LEMMA ClearUnworked == ASSUME SsTypes, dconn # NoConn, ~HasWork(dconn) PROVE Clear(up[dconn], down[dconn])
<1>1. \A i \in 1..Len(up[dconn]) : ~WholeQueued(up[dconn], i)
  BY DEF HasWork, WholeQueued, SsTypes
<1>2. ~Has(down[dconn], Parts[1]) /\ ~Has(down[dconn], Parts[2])
  BY PartsAre DEF HasWork, Has, SsTypes
<1>3. ~WholeTaken(up[dconn]) /\ ~Owing
  BY DEF HasWork, WholeTaken, Owing, Mine
<1>4. QED
  BY <1>1, <1>2, <1>3 DEF Clear

\* A link with nothing of a job on it is the next job's.
LEMMA ClearIsOurs ==
  ASSUME Clear(up[dconn], down[dconn])', dpc' # "poll", UploadIsCounted(up[dconn])'
  PROVE  LinkIsTheJobs'
<1>1. QueuedIsOurs(up[dconn])' /\ TakenIsOurs(up[dconn])' /\ OwedIsOurs(up[dconn])'
  BY DEF Clear, QueuedIsOurs, TakenIsOurs, OwedIsOurs
<1>2. PartIsOurs(up[dconn], down[dconn], 1)' /\ PartIsOurs(up[dconn], down[dconn], 2)'
  BY DEF Clear, PartIsOurs, Has, Once, Came
<1>3. QED
  BY <1>1, <1>2 DEF LinkIsTheJobs, LineIsTheJobs

-----------------------------------------------------------------------------
(* The link stays the job's: the deck's steps.                              *)
LEMMA ThinksKeeps ==
  ASSUME SsTypes, JobsAreOfTracks, LinkIsTheJobs, StoresTheJobs, Thinks, ~abandoned'
  PROVE  StoresTheJobs' /\ (dconn # NoConn => LinkIsTheJobs')
<1> USE DEF Thinks, SideKept
<1>1. StoresTheJobs'
  BY DEF StoresTheJobs, Accepted, Mine, Early, Offered, PartSet
<1>2. ASSUME dconn # NoConn, dpc' \in Offered \cup {"store"} PROVE LinkIsTheJobs'
  <2>1. UNCHANGED <<up, down, dpc, dconn, sent, spc, body, sconn, jobId, fetched, server, sideShut>> /\ job' = job
    BY <1>2
  <2>2. LineIsTheJobs(up[dconn], down[dconn])
    BY <1>2 DEF LinkIsTheJobs
  <2>3. QueuedIsOurs(up[dconn])'
    BY <2>1, <2>2 DEF LineIsTheJobs, QueuedIsOurs, Sent
  <2>4. TakenIsOurs(up[dconn])'
    BY <2>1, <2>2 DEF LineIsTheJobs, TakenIsOurs, Sent, WholeTaken, Mine, BodyOurs
  <2>5. OwedIsOurs(up[dconn])'
    BY <2>1, <2>2 DEF LineIsTheJobs, OwedIsOurs, Sent, Owing, Mine
  <2>6. UploadIsCounted(up[dconn])'
    BY <2>1, <2>2 DEF LineIsTheJobs, UploadIsCounted, Mine, BodyOurs
  <2>7. ASSUME NEW k \in 1..2 PROVE PartIsOurs(up[dconn], down[dconn], k)'
    <3>1. spool'[Parts[k]] \in {spool[Parts[k]], NoTrack} /\ (Came(Parts[k])' => Came(Parts[k]))
      BY <2>1, PartsAre DEF Came
    <3>2. NothingBefore(up[dconn], k)' <=> NothingBefore(up[dconn], k)
      BY <2>1 DEF NothingBefore, WholeTaken, Mine
    <3>3. PartIsOurs(up[dconn], down[dconn], k)
      BY <2>2 DEF LineIsTheJobs
    <3>4. QED
      BY <2>1, <3>1, <3>2, <3>3 DEF PartIsOurs, Sent, Accepted, Mine
  <2>8. QED
    BY <2>3, <2>4, <2>5, <2>6, <2>7 DEF LinkIsTheJobs, LineIsTheJobs
<1>3. ASSUME dconn # NoConn, dpc' \notin Offered \cup {"store"} PROVE LinkIsTheJobs'
  <2>1. Clear(up[dconn], down[dconn])
    BY <1>3, ClearUnsent, ClearUnworked DEF LeavesNoticed, Sent, Offered
  <2>2. Clear(up[dconn], down[dconn])'
    BY <2>1 DEF Clear, WholeTaken, Owing, Mine
  <2>3. QED
    BY <1>3, <2>2, ClearIsOurs DEF UploadIsCounted, Offered
<1>4. QED
  BY <1>1, <1>2, <1>3

\* HELLO, END or CANCEL is sent.
LEMMA PostsKeeps ==
  ASSUME SsTypes, JobsAreOfTracks, LinkIsTheJobs, StoresTheJobs, Posts, ~abandoned'
  PROVE  LinkIsTheJobs' /\ StoresTheJobs'
<1> USE DEF SideKept
<1>1. StoresTheJobs'
  BY DEF StoresTheJobs, Posts
<1>2. PICK f \in UpFrames : f.type \notin {"PCM", "BEGIN"} /\ PostsOn(dconn, f)
  BY DEF Posts
<1>q. PICK q : q = up[dconn]
  OBVIOUS
<1>3. dconn' = dconn /\ dconn # NoConn /\ dconn \in Conns /\ q \in Seq(UpFrames) /\ up'[dconn] = Append(q, f) /\ down' = down
  BY <1>2, <1>q DEF Posts, PostsOn, SsTypes
<1>4. LineIsTheJobs(q, down[dconn]) /\ Len(q) \in Nat /\ Chunks \in Nat \ {0} /\ Chunks - Len(body) \in Nat
  BY <1>3, <1>q, SessionAssumption DEF LinkIsTheJobs, SsTypes
<1>5. \A i \in 1..Len(Append(q, f)) : WholeQueued(Append(q, f), i) => i \in 1..Len(q) /\ i + Chunks <= Len(q) /\ WholeQueued(q, i)
  <2> SUFFICES ASSUME NEW i \in 1..Len(Append(q, f)), WholeQueued(Append(q, f), i)
               PROVE  i \in 1..Len(q) /\ i + Chunks <= Len(q) /\ WholeQueued(q, i)
    OBVIOUS
  <2>1. i \in 1..Len(q) /\ Append(q, f)[i] = q[i]
    BY <1>2, <1>3, AppendIs DEF WholeQueued
  <2>2. Follows(Append(q, f), i, Chunks) /\ i \in Nat
    BY <2>1 DEF WholeQueued
  <2>3. i + Chunks <= Len(q) + 1 /\ i + Chunks # Len(q) + 1
    BY <1>2, <1>3, <1>4, <2>1, <2>2, AppendKeeps
  <2>4. i + Chunks <= Len(q)
    BY <1>4, <2>2, <2>3
  <2>5. Follows(q, i, Chunks)
    BY <1>3, <1>4, <2>2, <2>4, AppendKeeps
  <2>6. QED
    BY <2>1, <2>4, <2>5 DEF WholeQueued
<1>6. Follows(Append(q, f), 0, Chunks - Len(body)) => Chunks - Len(body) <= Len(q) /\ Follows(q, 0, Chunks - Len(body))
  <2> DEFINE n == Chunks - Len(body)
  <2>1. n \in Nat /\ 0 + n = n
    BY <1>4
  <2> HIDE DEF n
  <2>2. CASE n = 0
    BY <1>4, <2>2 DEF n, Follows
  <2>3. CASE n > 0
    <3>1. Follows(Append(q, f), 0, n) => n <= Len(q) + 1 /\ n # Len(q) + 1
      BY <1>2, <1>3, <1>4, <2>1, <2>3, AppendKeeps
    <3>2. n <= Len(q) => (Follows(Append(q, f), 0, n) <=> Follows(q, 0, n))
      BY <1>3, <2>1, AppendKeeps
    <3>3. QED
      BY <1>4, <2>1, <3>1, <3>2 DEF n
  <2>4. QED
    BY <2>1, <2>2, <2>3
<1>7. CASE dpc = "end" /\ dpc' = "poll"
  <2>1. arrived' = {} /\ UNCHANGED <<spc, body, sconn, jobId, fetched, server, sideShut, job, spool>>
    BY <1>7 DEF Posts, StoresTheJobs
  <2>2. QueuedIsOurs(up[dconn])'
    <3> SUFFICES ASSUME NEW i \in 1..Len(Append(q, f)), WholeQueued(Append(q, f), i)
                 PROVE  AreOf(Append(q, f), i, Chunks, job) /\ NoBegin(Append(q, f), i)
      BY <1>3, <1>7, <2>1 DEF QueuedIsOurs, Sent, WholeQueued
    <3>1. i \in Nat /\ i + Chunks <= Len(q) /\ AreOf(q, i, Chunks, job) /\ NoBegin(q, i)
      BY <1>4, <1>5 DEF LineIsTheJobs, QueuedIsOurs
    <3>2. QED
      BY <1>2, <1>3, <1>4, <3>1, AppendKeeps, AppendAre
  <2>3. TakenIsOurs(up[dconn])'
    <3> SUFFICES ASSUME Mine, spc = "upload", Follows(Append(q, f), 0, Chunks - Len(body))
                 PROVE  BodyOurs /\ AreOf(Append(q, f), 0, Chunks - Len(body), job) /\ NoBegin(Append(q, f), 0)
      BY <1>3, <1>7, <2>1 DEF TakenIsOurs, Sent, WholeTaken, Mine, BodyOurs
    <3>1. /\ Chunks - Len(body) <= Len(q) /\ BodyOurs
          /\ AreOf(q, 0, Chunks - Len(body), job) /\ NoBegin(q, 0)
      BY <1>4, <1>6 DEF LineIsTheJobs, TakenIsOurs, WholeTaken
    <3>2. 0 + (Chunks - Len(body)) <= Len(q)
      BY <1>4, <3>1
    <3>3. QED
      BY <1>2, <1>3, <1>4, <3>1, <3>2, AppendKeeps, AppendAre
  <2>4. OwedIsOurs(up[dconn])'
    <3>1. NoBegin(q, 0) => NoBegin(Append(q, f), 0)
      BY <1>2, <1>3, AppendKeeps
    <3>2. QED
      BY <1>3, <1>4, <1>7, <2>1, <3>1 DEF LineIsTheJobs, OwedIsOurs, Sent, Owing, Mine
  <2>5. UploadIsCounted(up[dconn])'
    BY <1>7 DEF UploadIsCounted
  <2>6. ASSUME NEW k \in 1..2 PROVE PartIsOurs(up[dconn], down[dconn], k)'
    <3>1. PartIsOurs(q, down[dconn], k)
      BY <1>4 DEF LineIsTheJobs
    <3>2. NothingBefore(q, k) => NothingBefore(up[dconn], k)'
      BY <1>3, <1>5, <1>6, <2>1 DEF NothingBefore, WholeTaken, WholeQueued, Mine
    <3>3. QED
      BY <1>3, <1>7, <2>1, <3>1, <3>2 DEF PartIsOurs, Came, Sent, Accepted, Mine
  <2>7. QED
    BY <1>1, <2>2, <2>3, <2>4, <2>5, <2>6 DEF LinkIsTheJobs, LineIsTheJobs
<1>8. CASE dpc' \in {"refresh", "idle"}
  <2>1. Clear(q, down[dconn])
    BY <1>3, <1>8, <1>q, ClearUnsent, ClearUnworked DEF LeavesNoticed, Sent, Posts
  <2>2. Clear(up[dconn], down[dconn])'
    BY <1>3, <1>5, <1>6, <2>1 DEF Clear, WholeTaken, WholeQueued, Owing, Mine, Posts
  <2>3. QED
    BY <1>1, <1>8, <2>2, ClearIsOurs DEF UploadIsCounted
<1>9. QED
  BY <1>1, <1>7, <1>8 DEF Posts

\* The job begins its upload, on a link with nothing of another.
LEMMA SendBeginKeeps ==
  ASSUME SsTypes, JobsAreOfTracks, LinkIsTheJobs, StoresTheJobs, SendBegin
  PROVE  LinkIsTheJobs' /\ StoresTheJobs'
<1> USE DEF SendBegin, deckVars, wantVars, trackVars, linkVars, sideVars, diskVars
<1>1. StoresTheJobs'
  BY DEF StoresTheJobs
<1>q. PICK q : q = up[dconn]
  OBVIOUS
<1>f. PICK f : f = Frame("BEGIN", job)
  OBVIOUS
<1>2. /\ dconn' = dconn /\ dconn # NoConn /\ dconn \in Conns /\ q \in Seq(UpFrames) /\ f \in UpFrames /\ f.type = "BEGIN"
      /\ dpc = "begin" /\ dpc' = "pcm" /\ sent' = 0
      /\ UNCHANGED <<down, spc, sconn, body, jobId, fetched, server, job, arrived, spool>>
  BY <1>q, <1>f, FramesAre DEF SsTypes, JobsAreOfTracks, Linked, JobSteps
<1>3. up'[dconn] = Append(q, f)
  BY <1>q, <1>f, <1>2 DEF Post, SsTypes
<1> HIDE DEF SendBegin
<1>4. Clear(q, down[dconn])
  BY <1>q, <1>2, ClearUnsent DEF Sent
<1>5. Len(q) \in Nat /\ Chunks \in Nat \ {0} /\ Chunks - Len(body) \in Nat
  BY <1>2, SessionAssumption DEF SsTypes
<1>6. \A i \in 1..Len(Append(q, f)) : ~WholeQueued(Append(q, f), i)
  <2> SUFFICES ASSUME NEW i \in 1..Len(Append(q, f)), WholeQueued(Append(q, f), i) PROVE FALSE
    OBVIOUS
  <2>1. i \in Nat /\ i <= Len(q) + 1 /\ Follows(Append(q, f), i, Chunks) /\ i > 0
    BY <1>2, AppendIs DEF WholeQueued
  <2>2. i + Chunks <= Len(q) + 1 /\ i + Chunks # Len(q) + 1
    BY <1>2, <1>5, <2>1, AppendKeeps
  <2>3. i + Chunks <= Len(q) /\ i \in 1..Len(q)
    BY <1>5, <2>1, <2>2
  <2>4. WholeQueued(q, i)
    BY <1>2, <1>5, <2>1, <2>3, AppendKeeps, AppendIs DEF WholeQueued
  <2>5. QED
    BY <1>4, <2>3, <2>4 DEF Clear
<1>7. Follows(Append(q, f), 0, Chunks - Len(body)) => Follows(q, 0, Chunks - Len(body))
  <2> DEFINE n == Chunks - Len(body)
  <2>1. n \in Nat /\ 0 + n = n
    BY <1>5
  <2> HIDE DEF n
  <2>2. CASE n = 0
    BY <1>5, <2>2 DEF n, Follows
  <2>3. CASE n > 0
    <3>1. Follows(Append(q, f), 0, n) => n <= Len(q) + 1 /\ n # Len(q) + 1
      BY <1>2, <1>5, <2>1, <2>3, AppendKeeps
    <3>2. n <= Len(q) => (Follows(Append(q, f), 0, n) <=> Follows(q, 0, n))
      BY <1>2, <2>1, AppendKeeps
    <3>3. QED
      BY <1>5, <2>1, <3>1, <3>2 DEF n
  <2>4. QED
    BY <2>1, <2>2, <2>3
<1>8. Clear(up[dconn], down[dconn])'
  BY <1>2, <1>3, <1>4, <1>6, <1>7 DEF Clear, WholeTaken, WholeQueued, Owing, Mine
<1>9. UploadIsCounted(up[dconn])'
  <2>1. /\ Len(Append(q, f)) = Len(q) + 1 /\ Append(q, f)[Len(q) + 1] = f
    BY <1>2, AppendIs
  <2>2. ASSUME NEW i \in 1..Len(Append(q, f)), Follows(Append(q, f), i, Len(Append(q, f)) - i)
        PROVE  i = Len(q) + 1
    <3>0. PICK n : n = Len(q) + 1 - i
      OBVIOUS
    <3>1. i \in Nat /\ n \in Nat /\ i + n = Len(q) + 1 /\ Follows(Append(q, f), i, n)
      BY <1>5, <2>1, <2>2, <3>0
    <3>2. ~(n > 0)
      BY <1>2, <3>1, AppendKeeps
    <3>3. QED
      BY <1>5, <3>1, <3>2
  <2>3. ~Follows(Append(q, f), 0, Len(q) + 1)
    BY <1>2, <1>5, AppendKeeps
  <2>4. AreOf(Append(q, f), Len(q) + 1, 0, job)
    BY DEF AreOf
  <2>5. QED
    BY <1>2, <1>3, <1>5, <2>1, <2>2, <2>3, <2>4 DEF UploadIsCounted
<1>10. QED
  BY <1>1, <1>2, <1>8, <1>9, ClearIsOurs

\* One more PCM frame; with the last of them the upload is whole.
LEMMA SendPcmKeeps ==
  ASSUME SsTypes, JobsAreOfTracks, LinkIsTheJobs, StoresTheJobs, SendPcm
  PROVE  LinkIsTheJobs' /\ StoresTheJobs'
<1> USE DEF SendPcm, deckVars, wantVars, trackVars, linkVars, sideVars, diskVars
<1>1. StoresTheJobs'
  BY DEF StoresTheJobs
<1>q. PICK q : q = up[dconn]
  OBVIOUS
<1>f. PICK f : f = Frame("PCM", job)
  OBVIOUS
<1>2. /\ dconn' = dconn /\ dconn # NoConn /\ dconn \in Conns /\ q \in Seq(UpFrames) /\ f \in UpFrames
      /\ f.type = "PCM" /\ f.track = job /\ dpc = "pcm" /\ sent' = sent + 1 /\ dpc' = IF sent' = Chunks THEN "end" ELSE "pcm"
      /\ UNCHANGED <<down, spc, sconn, body, jobId, fetched, server, job, arrived, spool>>
  BY <1>q, <1>f, FramesAre DEF SsTypes, JobsAreOfTracks, Linked, JobSteps
<1>3. up'[dconn] = Append(q, f)
  BY <1>q, <1>f, <1>2 DEF Post, SsTypes
<1> HIDE DEF SendPcm
<1>4. Clear(q, down[dconn])
  BY <1>q, <1>2, ClearUnsent DEF Sent
<1>5. Len(q) \in Nat /\ Chunks \in Nat \ {0} /\ Chunks - Len(body) \in Nat /\ sent \in Nat /\ Len(body) \in Nat
  BY <1>2, SessionAssumption DEF SsTypes
<1>6. /\ sent < Chunks
      /\ \A i \in 1..Len(q) : q[i].type = "BEGIN" /\ Follows(q, i, Len(q) - i)
           => Len(q) - i = sent /\ AreOf(q, i, Len(q) - i, job)
      /\ Mine /\ spc = "upload" /\ Follows(q, 0, Len(q))
           => Len(body) + Len(q) = sent /\ BodyOurs /\ AreOf(q, 0, Len(q), job)
  BY <1>q, <1>2 DEF LinkIsTheJobs, LineIsTheJobs, UploadIsCounted
<1>7. PICK z : z = Append(q, f)
  OBVIOUS
<1>8. /\ z \in Seq(UpFrames) /\ Len(z) = Len(q) + 1 /\ z[Len(q) + 1] = f /\ up'[dconn] = z
      /\ \A i \in 1..Len(q) : z[i] = q[i]
  BY <1>2, <1>3, <1>7, AppendIs
\* An upload that reaches the end of the queue is the one being sent.
<1>9. ASSUME NEW i \in 1..Len(z), NEW n \in Nat, z[i].type = "BEGIN", Follows(z, i, n), i + n = Len(z)
      PROVE  n = sent' /\ AreOf(z, i, n, job)
  <2>1. i \in 1..Len(q) /\ n > 0 /\ n - 1 \in Nat /\ n - 1 = Len(q) - i
    BY <1>2, <1>5, <1>8, <1>9
  <2>2. Follows(q, i, n - 1)
    BY <1>2, <1>7, <1>8, <1>9, <2>1, AppendKeeps
  <2>3. n - 1 = sent /\ AreOf(q, i, n - 1, job)
    BY <1>6, <1>8, <1>9, <2>1, <2>2
  <2>4. i \in Nat /\ i + n = Len(q) + 1
    BY <1>8, <1>9
  <2>5. AreOf(z, i, n, job)
    BY <1>2, <1>7, <2>1, <2>3, <2>4, AppendAre
  <2>6. QED
    BY <1>2, <1>5, <2>3, <2>5
<1>10. ASSUME NEW n \in Nat, Mine, spc = "upload", Follows(z, 0, n), n = Len(z)
       PROVE  Len(body) + n = sent' /\ AreOf(z, 0, n, job) /\ BodyOurs
  <2>1. n > 0 /\ n - 1 = Len(q) /\ 0 + n = Len(q) + 1
    BY <1>5, <1>8, <1>10
  <2>2. Follows(q, 0, n - 1)
    BY <1>2, <1>7, <1>10, <2>1, AppendKeeps
  <2>3. Len(body) + (n - 1) = sent /\ AreOf(q, 0, n - 1, job) /\ BodyOurs
    BY <1>6, <1>10, <2>1, <2>2
  <2>4. AreOf(z, 0, n, job)
    BY <1>2, <1>7, <2>1, <2>3, AppendAre
  <2>5. QED
    BY <1>2, <1>5, <2>3, <2>4
<1>11. ASSUME NEW i \in 1..Len(z), WholeQueued(z, i)
       PROVE  dpc' = "end" /\ AreOf(z, i, Chunks, job) /\ NoBegin(z, i)
  <2>1. i \in Nat /\ z[i].type = "BEGIN" /\ Follows(z, i, Chunks) /\ i + Chunks <= Len(z)
    <3>1. i \in Nat /\ z[i].type = "BEGIN" /\ Follows(z, i, Chunks)
      BY <1>11 DEF WholeQueued
    <3>2. i + Chunks <= Len(q) + 1
      BY <1>2, <1>5, <1>7, <3>1, AppendKeeps
    <3>3. QED
      BY <1>8, <3>1, <3>2
  <2>2. ~(i + Chunks <= Len(q))
    <3> SUFFICES ASSUME i + Chunks <= Len(q) PROVE FALSE
      OBVIOUS
    <3>1. i \in 1..Len(q) /\ q[i].type = "BEGIN"
      BY <1>5, <1>8, <2>1
    <3>2. Follows(q, i, Chunks)
      BY <1>2, <1>5, <1>7, <2>1, AppendKeeps
    <3>3. QED
      BY <1>4, <3>1, <3>2 DEF Clear, WholeQueued
  <2>3. i + Chunks = Len(z)
    BY <1>5, <1>8, <2>1, <2>2
  <2>4. Chunks = sent' /\ AreOf(z, i, Chunks, job)
    BY <1>5, <1>9, <2>1, <2>3
  <2>5. NoBegin(z, i)
    <3> SUFFICES ASSUME NEW j \in 1..Len(z), j > i PROVE z[j].type = "PCM"
      BY DEF NoBegin
    <3>1. j - i \in 1..Chunks /\ i + (j - i) = j
      BY <1>5, <1>8, <2>1, <2>3
    <3>2. QED
      BY <2>1, <3>1 DEF Follows
  <2>6. QED
    BY <1>2, <2>4, <2>5
<1>12. ASSUME Mine, spc = "upload", Follows(z, 0, Chunks - Len(body))
       PROVE  dpc' = "end" /\ BodyOurs /\ AreOf(z, 0, Chunks - Len(body), job) /\ NoBegin(z, 0)
  <2>1. PICK n : n = Chunks - Len(body)
    OBVIOUS
  <2>2. n \in Nat /\ Follows(z, 0, n) /\ 0 + n = n
    BY <1>5, <1>12, <2>1
  <2>3. ~(n <= Len(q))
    <3> SUFFICES ASSUME n <= Len(q) PROVE FALSE
      OBVIOUS
    <3>1. Follows(q, 0, n)
      BY <1>2, <1>7, <2>2, AppendKeeps
    <3>2. QED
      BY <1>4, <1>12, <2>1, <3>1 DEF Clear, WholeTaken
  <2>4. n > 0 /\ n = Len(z)
    <3>1. n > 0
      BY <1>5, <2>2, <2>3
    <3>2. n <= Len(q) + 1
      <4>1. \A k \in 1..n : 0 + k <= Len(z)
        BY <2>2 DEF Follows
      <4>2. n \in 1..n
        BY <2>2, <3>1
      <4>3. 0 + n <= Len(z)
        BY <4>1, <4>2
      <4>4. QED
        BY <1>8, <2>2, <4>3
    <3>3. QED
      BY <1>5, <1>8, <2>2, <2>3, <3>1, <3>2
  <2>5. Len(body) + n = sent' /\ AreOf(z, 0, n, job) /\ BodyOurs
    BY <1>10, <1>12, <2>2, <2>4
  <2>6. sent' = Chunks
    BY <1>5, <2>1, <2>5
  <2>7. NoBegin(z, 0)
    <3> SUFFICES ASSUME NEW j \in 1..Len(z) PROVE z[j].type = "PCM"
      BY DEF NoBegin
    <3>1. j \in 1..n /\ 0 + j = j
      BY <1>8, <2>4
    <3>2. QED
      BY <2>2, <3>1 DEF Follows
  <2>8. QED
    BY <1>2, <2>1, <2>5, <2>6, <2>7
<1>13. QueuedIsOurs(up[dconn])'
  BY <1>2, <1>8, <1>11 DEF QueuedIsOurs, WholeQueued, Sent
<1>14. TakenIsOurs(up[dconn])'
  BY <1>2, <1>8, <1>12 DEF TakenIsOurs, WholeTaken, Sent, BodyOurs, Mine
<1>15. OwedIsOurs(up[dconn])'
  BY <1>2, <1>4 DEF OwedIsOurs, Clear, Owing, Mine
<1>16. UploadIsCounted(up[dconn])'
  <2> SUFFICES ASSUME dpc' = "pcm" PROVE UploadIsCounted(up[dconn])'
    BY DEF UploadIsCounted
  <2>1. sent' < Chunks
    <3>1. sent' = sent + 1 /\ sent' # Chunks
      BY <1>2
    <3>2. sent < Chunks
      BY <1>2 DEF SsTypes
    <3>3. QED
      BY <1>5, <3>1, <3>2
  <2>2. ASSUME NEW i \in 1..Len(z), z[i].type = "BEGIN", Follows(z, i, Len(z) - i)
        PROVE  Len(z) - i = sent' /\ AreOf(z, i, Len(z) - i, job)
    <3>1. Len(z) - i \in Nat /\ i + (Len(z) - i) = Len(z)
      BY <1>5, <1>8
    <3>2. QED
      BY <1>9, <2>2, <3>1
  <2>3. ASSUME Mine, spc = "upload", Follows(z, 0, Len(z))
        PROVE  Len(body) + Len(z) = sent' /\ BodyOurs /\ AreOf(z, 0, Len(z), job)
    <3>1. Len(z) \in Nat
      BY <1>5, <1>8
    <3>2. QED
      BY <1>10, <2>3, <3>1
  <2>4. QED
    BY <1>2, <1>8, <2>1, <2>2, <2>3 DEF UploadIsCounted, Mine, BodyOurs
<1>17. PartIsOurs(up[dconn], down[dconn], 1)' /\ PartIsOurs(up[dconn], down[dconn], 2)'
  BY <1>2, <1>4 DEF Clear, PartIsOurs, Has, Once, Came
<1>18. QED
  BY <1>1, <1>13, <1>14, <1>15, <1>16, <1>17 DEF LinkIsTheJobs, LineIsTheJobs

\* A new connection holds a HELLO and nothing else.
LEMMA ConnectKeeps ==
  ASSUME SsTypes, Links, StoresTheJobs, Connect
  PROVE  LinkIsTheJobs' /\ StoresTheJobs'
<1> USE DEF Connect, deckVars, wantVars, trackVars, linkVars, sideVars, diskVars
<1>1. StoresTheJobs'
  BY DEF StoresTheJobs
<1>2. PICK c : c = opened + 1
  OBVIOUS
<1>3. /\ c \in Conns /\ c > opened /\ dconn' = c /\ dpc' \in {"await", "refresh"} /\ c # sconn
      /\ UNCHANGED <<down, spc, sconn, body, jobId, fetched, server>>
  <2>1. /\ opened < MaxConns /\ dconn' = c /\ dpc' \in {"await", "refresh"}
        /\ UNCHANGED <<down, spc, sconn, body, jobId, fetched, server>>
    BY <1>2
  <2>2. opened \in 0..MaxConns /\ MaxConns \in Nat /\ (sconn # NoConn => sconn \in 1..opened)
    BY SessionAssumption DEF SsTypes, Links
  <2>3. c \in Conns /\ c > opened /\ c # sconn
    BY <1>2, <2>1, <2>2 DEF Conns, NoConn
  <2>4. QED
    BY <2>1, <2>3
<1>4. up[c] = <<>> /\ down[c] = <<>>
  <2>1. c \notin sideShut
    BY <1>2, <1>3 DEF Links, SsTypes
  <2>2. QED
    BY <1>3, <2>1 DEF Links
<1>5. up'[c] = Append(<<>>, Signal("HELLO"))
  BY <1>2, <1>3, <1>4 DEF Post, SsTypes
<1>6. Len(Append(<<>>, Signal("HELLO"))) = 1 /\ Append(<<>>, Signal("HELLO"))[1].type = "HELLO"
  BY SignalIs
<1>7. Clear(up[dconn], down[dconn])'
  BY <1>3, <1>4, <1>5, <1>6 DEF Clear, WholeQueued, WholeTaken, Owing, Mine, Has
<1>8. QED
  BY <1>1, <1>3, <1>7, ClearIsOurs DEF UploadIsCounted

\* The deck closes its end.
LEMMA HangsKeeps ==
  ASSUME StoresTheJobs, Hangs
  PROVE  LinkIsTheJobs' /\ StoresTheJobs'
BY DEF Hangs, SideKept, LinkIsTheJobs, StoresTheJobs

\* The deck reads a frame that is no part.
LEMMA SkimsKeeps ==
  ASSUME SsTypes, JobsAreOfTracks, LinkIsTheJobs, StoresTheJobs, Skims, ~abandoned'
  PROVE  LinkIsTheJobs' /\ StoresTheJobs'
<1>1. StoresTheJobs'
  BY DEF Skims, StoresTheJobs
<1>d. PICK d : d = down[dconn]
  OBVIOUS
<1>2. /\ dconn' = dconn /\ dconn # NoConn /\ dconn \in Conns /\ d \in Seq(DownFrames) /\ d # <<>> /\ down'[dconn] = Tail(d)
      /\ UNCHANGED <<up, spc, sconn, body, jobId, fetched, server, sideShut, job, arrived, spool>>
  BY <1>d DEF Skims, SideKept, SsTypes
<1>3. \A p : (Has(Tail(d), p) => Has(d, p)) /\ (Once(d, p) => Once(Tail(d), p))
  BY <1>2, TailHas
<1>4. CASE dpc' = "poll"
  <2>1. dpc = "poll" /\ LineIsTheJobs(up[dconn], d)
    BY <1>d, <1>2, <1>4 DEF Skims, LinkIsTheJobs
  <2>2. QueuedIsOurs(up[dconn])' /\ TakenIsOurs(up[dconn])' /\ OwedIsOurs(up[dconn])'
    BY <1>2, <1>4, <2>1 DEF LineIsTheJobs, QueuedIsOurs, TakenIsOurs, OwedIsOurs, Sent, WholeTaken, Owing, Mine, BodyOurs
  <2>3. UploadIsCounted(up[dconn])'
    BY <1>4 DEF UploadIsCounted
  <2>4. ASSUME NEW k \in 1..2 PROVE PartIsOurs(up[dconn], down[dconn], k)'
    <3>1. PartIsOurs(up[dconn], d, k)
      BY <2>1 DEF LineIsTheJobs
    <3>2. NothingBefore(up[dconn], k)' <=> NothingBefore(up[dconn], k)
      BY <1>2 DEF NothingBefore, WholeTaken, Mine
    <3>3. QED
      BY <1>2, <1>3, <1>4, <2>1, <3>1, <3>2 DEF PartIsOurs, Came, Sent, Accepted, Mine
  <2>5. QED
    BY <1>1, <2>2, <2>3, <2>4 DEF LinkIsTheJobs, LineIsTheJobs
<1>5. CASE dpc' # "poll"
  <2>1. Clear(up[dconn], d)
    BY <1>d, <1>2, <1>5, ClearUnsent, ClearUnworked DEF Skims, LeavesNoticed, Sent
  <2>2. Clear(up[dconn], down[dconn])'
    BY <1>2, <1>3, <2>1 DEF Clear, WholeTaken, Owing, Mine
  <2>3. dpc' # "pcm"
    BY DEF Skims
  <2>4. QED
    BY <1>1, <1>5, <2>2, <2>3, ClearIsOurs DEF UploadIsCounted
<1>6. QED
  BY <1>4, <1>5

\* A part is taken: the first of its name, and no other follows.
LEMMA PartArrivesKeeps ==
  ASSUME SsTypes, JobsAreOfTracks, LinkIsTheJobs, StoresTheJobs, PartArrives
  PROVE  LinkIsTheJobs' /\ StoresTheJobs'
<1> USE DEF PartArrives, deckVars, wantVars, trackVars, linkVars, sideVars, diskVars
<1>d. PICK d : d = down[dconn]
  OBVIOUS
<1>2. /\ dconn' = dconn /\ dconn # NoConn /\ dconn \in Conns /\ d \in Seq(DownFrames) /\ d # <<>> /\ down'[dconn] = Tail(d)
      /\ UNCHANGED <<up, spc, sconn, body, jobId, fetched, server, sideShut, job, spool>>
      /\ dpc = "poll" /\ dpc' = IF arrived' = PartSet THEN "store" ELSE "poll"
      /\ Head(d).type \in PartSet /\ arrived' = arrived \cup {Head(d).type}
  BY <1>d DEF Reads, Take, SsTypes, JobsAreOfTracks, Linked
<1> HIDE DEF PartArrives
<1>3. \A p : /\ (Has(Tail(d), p) => Has(d, p)) /\ (Once(d, p) => Once(Tail(d), p))
             /\ (Head(d).type = p => Has(d, p)) /\ (Head(d).type = p /\ Once(d, p) => ~Has(Tail(d), p))
  BY <1>2, TailHas
<1>4. LineIsTheJobs(up[dconn], d)
  BY <1>d, <1>2 DEF LinkIsTheJobs
<1>5. ASSUME NEW k \in 1..2
      PROVE  /\ PartIsOurs(up[dconn], d, k) /\ (NothingBefore(up[dconn], k)' <=> NothingBefore(up[dconn], k))
             /\ Parts[k] \in arrived' => /\ Accepted /\ spool[Parts[k]] \in {job, NoTrack}
                                         /\ NothingBefore(up[dconn], k) /\ ~Has(Tail(d), Parts[k])
  <2>1. PartIsOurs(up[dconn], d, k)
    BY <1>4 DEF LineIsTheJobs
  <2>2. NothingBefore(up[dconn], k)' <=> NothingBefore(up[dconn], k)
    BY <1>2 DEF NothingBefore, WholeTaken, Mine
  <2>3. Parts[k] \in arrived' => Came(Parts[k]) \/ Head(d).type = Parts[k]
    BY <1>2 DEF Came
  <2>4. QED
    BY <1>3, <2>1, <2>2, <2>3 DEF PartIsOurs
<1>6. CASE arrived' # PartSet
  <2>1. StoresTheJobs'
    BY <1>2, <1>6 DEF StoresTheJobs
  <2>2. QueuedIsOurs(up[dconn])' /\ TakenIsOurs(up[dconn])' /\ OwedIsOurs(up[dconn])'
    BY <1>2, <1>4, <1>6 DEF LineIsTheJobs, QueuedIsOurs, TakenIsOurs, OwedIsOurs, Sent, WholeTaken, Owing, Mine, BodyOurs
  <2>3. UploadIsCounted(up[dconn])'
    BY <1>2, <1>6 DEF UploadIsCounted
  <2>4. ASSUME NEW k \in 1..2 PROVE PartIsOurs(up[dconn], down[dconn], k)'
    BY <1>2, <1>3, <1>5, <1>6 DEF PartIsOurs, Came, Sent, Accepted, Mine
  <2>5. QED
    BY <2>1, <2>2, <2>3, <2>4 DEF LinkIsTheJobs, LineIsTheJobs
<1>7. CASE arrived' = PartSet
  <2>1. /\ Accepted /\ spool[Parts[1]] \in {job, NoTrack} /\ spool[Parts[2]] \in {job, NoTrack}
        /\ NothingBefore(up[dconn], 1) /\ NothingBefore(up[dconn], 2)
        /\ ~Has(Tail(d), Parts[1]) /\ ~Has(Tail(d), Parts[2])
    BY <1>5, <1>7, PartsAre
  <2>2. dpc' = "store"
    BY <1>2, <1>7
  <2>3. StoresTheJobs'
    BY <1>2, <2>1, <2>2, PartsAre DEF StoresTheJobs, Accepted, Mine
  <2>4. Clear(up[dconn], down[dconn])'
    <3>1. Mine /\ jobId # NoJob => spc = "fetch" /\ fetched = 2
      BY <2>1 DEF NothingBefore, SsTypes
    <3>2. ~Owing
      BY <3>1 DEF Owing
    <3>3. QED
      BY <1>2, <2>1, <3>2 DEF Clear, NothingBefore, WholeTaken, Owing, Mine
  <2>5. QED
    BY <2>2, <2>3, <2>4, ClearIsOurs DEF UploadIsCounted
<1>8. QED
  BY <1>6, <1>7

\* Both parts are in: what the spool files hold is the job's.
LEMMA StorePairKeeps ==
  ASSUME SsTypes, JobsAreOfTracks, LinkIsTheJobs, StoresTheJobs, EntriesAreOwnNow, StorePair
  PROVE  LinkIsTheJobs' /\ StoresTheJobs' /\ EntriesAreOwnNow'
<1> USE DEF StorePair, deckVars, wantVars, trackVars, linkVars, sideVars, diskVars
<1>1. StoresTheJobs'
  BY DEF StoresTheJobs
<1>2. EntriesAreOwnNow'
  <2>1. \A p \in PartSet : spool[p] \in {job, NoTrack}
    BY DEF StoresTheJobs
  <2>2. CASE NoTrack \in {spool[p] : p \in PartSet}
    BY <2>2 DEF EntriesAreOwnNow, IsOwn
  <2>3. CASE NoTrack \notin {spool[p] : p \in PartSet}
    <3>1. spool["harmonics"] = job /\ spool["vocals"] = job
      BY <2>1, <2>3 DEF PartSet
    <3>2. PICK e : e = [key |-> job, harmonics |-> spool["harmonics"], vocals |-> spool["vocals"]]
      OBVIOUS
    <3>3. IsOwn(e)
      BY <3>1, <3>2 DEF IsOwn
    <3>4. media' = {x \in media : x.key # job} \cup {e}
      BY <2>3, <3>2
    <3>5. QED
      BY <3>3, <3>4 DEF EntriesAreOwnNow, IsOwn
  <2>4. QED
    BY <2>2, <2>3
<1>3. CASE dconn # NoConn
  <2>1. Clear(up[dconn], down[dconn])
    BY <1>3, ClearUnsent DEF Sent
  <2>2. Clear(up[dconn], down[dconn])'
    BY <2>1 DEF Clear, WholeTaken, Owing, Mine
  <2>3. QED
    BY <1>1, <1>2, <2>2, ClearIsOurs DEF UploadIsCounted
<1>4. dconn # NoConn
  BY DEF JobsAreOfTracks, Linked
<1>5. QED
  BY <1>3, <1>4

-----------------------------------------------------------------------------
(* The link stays the job's: the sidecar's steps.                           *)
EndIsCounted(q) == \A i \in 1..Len(q) : q[i].type = "BEGIN" /\ Follows(q, i, Len(q) - i)
                     => Len(q) - i = sent /\ AreOf(q, i, Len(q) - i, job)
NoWhole(q) == \A i \in 1..Len(q) : ~WholeQueued(q, i)
QueueIsOurs(q) == QueuedIsOurs(q) /\ (dpc = "pcm" => EndIsCounted(q))

\* What is left of the job's queue is the job's.
LEMMA TailIsOurs ==
  ASSUME NEW q \in Seq(UpFrames), q # <<>>, QueueIsOurs(q)
  PROVE  /\ QueueIsOurs(Tail(q)) /\ (NoBegin(q, 0) => NoBegin(Tail(q), 0))
         /\ (NoWhole(q) => NoWhole(Tail(q)))
<1>0. Chunks \in Nat \ {0}
  BY SessionAssumption
<1>z. PICK z : z = Tail(q)
  OBVIOUS
<1>1. z \in Seq(UpFrames) /\ Len(z) = Len(q) - 1 /\ Len(q) \in Nat /\ Len(q) > 0 /\ \A k \in 1..Len(z) : z[k] = q[k + 1]
  BY <1>z, TailIs
<1>2. ASSUME NEW i \in 1..Len(z) PROVE i \in Nat /\ i + 1 \in 1..Len(q) /\ z[i] = q[i + 1]
  BY <1>1
<1>3. ASSUME NEW i \in 1..Len(z), WholeQueued(z, i) PROVE WholeQueued(q, i + 1) /\ AreOf(z, i, Chunks, job) /\ NoBegin(z, i) /\ Sent
  <2>1. Follows(q, i + 1, Chunks) /\ q[i + 1].type = "BEGIN"
    BY <1>0, <1>z, <1>2, <1>3, TailKeeps DEF WholeQueued
  <2>2. WholeQueued(q, i + 1)
    BY <2>1 DEF WholeQueued
  <2>3. Sent /\ AreOf(q, i + 1, Chunks, job) /\ NoBegin(q, i + 1)
    BY <1>2, <2>2 DEF QueueIsOurs, QueuedIsOurs
  <2>4. AreOf(z, i, Chunks, job)
    BY <1>0, <1>z, <1>2, <2>1, <2>3, TailAre
  <2>5. NoBegin(z, i)
    BY <1>0, <1>z, <1>2, <2>3, TailKeeps
  <2>6. QED
    BY <2>2, <2>3, <2>4, <2>5
<1>4. ASSUME dpc = "pcm", NEW i \in 1..Len(z), z[i].type = "BEGIN", Follows(z, i, Len(z) - i)
      PROVE  Len(z) - i = sent /\ AreOf(z, i, Len(z) - i, job)
  <2>1. PICK n : n = Len(z) - i
    OBVIOUS
  <2>2. n \in Nat /\ i \in Nat /\ n = Len(q) - (i + 1) /\ i + 1 \in 1..Len(q) /\ q[i + 1].type = "BEGIN"
    BY <1>1, <1>4, <2>1
  <2>3. Follows(q, i + 1, n)
    BY <1>z, <1>4, <2>1, <2>2, TailKeeps
  <2>4. n = sent /\ AreOf(q, i + 1, n, job)
    BY <1>4, <2>2, <2>3 DEF QueueIsOurs, EndIsCounted
  <2>5. AreOf(z, i, n, job)
    BY <1>z, <2>2, <2>3, <2>4, TailAre
  <2>6. QED
    BY <2>1, <2>4, <2>5
<1>5. NoBegin(q, 0) => NoBegin(z, 0)
  BY <1>1, <1>2 DEF NoBegin
<1>6. QueueIsOurs(z)
  BY <1>3, <1>4 DEF QueueIsOurs, QueuedIsOurs, EndIsCounted
<1>7. NoWhole(q) => NoWhole(z)
  BY <1>2, <1>3 DEF NoWhole
<1>8. QED
  BY <1>z, <1>5, <1>6, <1>7

\* So is what a stranded header leaves of it.
LEMMA StrandIsOurs ==
  ASSUME NEW q \in Seq(UpFrames), q # <<>>, QueueIsOurs(q)
  PROVE  /\ QueueIsOurs(StrandOf(q)) /\ (NoBegin(q, 0) => NoBegin(StrandOf(q), 0))
         /\ (NoWhole(q) => NoWhole(StrandOf(q)))
<1>0. Chunks \in Nat \ {0}
  BY SessionAssumption
<1>z. PICK z : z = StrandOf(q)
  OBVIOUS
<1>1. z \in Seq(UpFrames) /\ Len(z) = Len(q) /\ Len(q) \in Nat /\ \A k \in 2..Len(q) : z[k] = q[k]
  BY <1>z, StrandIs
<1>2. ASSUME NEW i \in 1..Len(z), z[i].type = "BEGIN" PROVE i \in Nat \ {0} /\ i \in 1..Len(q) /\ z[i] = q[i]
  <2>1. z[1].type # "BEGIN"
    BY <1>z, StrandKeeps
  <2>2. i \in 2..Len(q)
    BY <1>1, <1>2, <2>1
  <2>3. QED
    BY <1>1, <2>2
<1>3. ASSUME NEW i \in 1..Len(z), WholeQueued(z, i)
      PROVE  i \in 1..Len(q) /\ WholeQueued(q, i) /\ AreOf(z, i, Chunks, job) /\ NoBegin(z, i) /\ Sent
  <2>0. i \in Nat \ {0} /\ i \in 1..Len(q) /\ z[i] = q[i] /\ Follows(z, i, Chunks) /\ q[i].type = "BEGIN"
    BY <1>2, <1>3 DEF WholeQueued
  <2>1. Follows(q, i, Chunks)
    BY <1>0, <1>z, <2>0, StrandKeeps
  <2>2. WholeQueued(q, i)
    BY <2>0, <2>1 DEF WholeQueued
  <2>3. Sent /\ AreOf(q, i, Chunks, job) /\ NoBegin(q, i)
    BY <2>0, <2>2 DEF QueueIsOurs, QueuedIsOurs
  <2>4. AreOf(z, i, Chunks, job)
    BY <1>0, <1>z, <2>0, <2>1, <2>3, StrandAre
  <2>5. NoBegin(z, i)
    BY <1>0, <1>z, <2>0, <2>3, StrandKeeps
  <2>6. QED
    BY <2>0, <2>2, <2>3, <2>4, <2>5
<1>4. ASSUME dpc = "pcm", NEW i \in 1..Len(z), z[i].type = "BEGIN", Follows(z, i, Len(z) - i)
      PROVE  Len(z) - i = sent /\ AreOf(z, i, Len(z) - i, job)
  <2>1. PICK n : n = Len(z) - i
    OBVIOUS
  <2>2. n \in Nat /\ i \in Nat \ {0} /\ n = Len(q) - i /\ i \in 1..Len(q) /\ q[i].type = "BEGIN"
    BY <1>1, <1>2, <1>4, <2>1
  <2>3. Follows(q, i, n)
    BY <1>z, <1>4, <2>1, <2>2, StrandKeeps
  <2>4. n = sent /\ AreOf(q, i, n, job)
    BY <1>4, <2>2, <2>3 DEF QueueIsOurs, EndIsCounted
  <2>5. AreOf(z, i, n, job)
    BY <1>z, <2>2, <2>3, <2>4, StrandAre
  <2>6. QED
    BY <2>1, <2>4, <2>5
<1>5. NoBegin(q, 0) => NoBegin(z, 0)
  BY <1>0, <1>z, StrandKeeps
<1>6. QueueIsOurs(z)
  BY <1>3, <1>4 DEF QueueIsOurs, QueuedIsOurs, EndIsCounted
<1>7. NoWhole(q) => NoWhole(z)
  BY <1>3 DEF NoWhole
<1>8. QED
  BY <1>z, <1>5, <1>6, <1>7

\* What happens on another connection does not matter to the deck's.
LEMMA ElsewhereKeeps ==
  ASSUME LinkIsTheJobs, UNCHANGED <<dpc, dconn, job, sent, arrived>>, dconn # NoConn, sconn # dconn, sconn' # dconn,
         up'[dconn] = up[dconn], down'[dconn] = down[dconn], sideShut \subseteq sideShut',
         spool' = spool \/ dconn \notin sideShut
  PROVE  LinkIsTheJobs'
<1>1. LineIsTheJobs(up[dconn], down[dconn])
  BY DEF LinkIsTheJobs
<1>2. QueuedIsOurs(up[dconn])' /\ TakenIsOurs(up[dconn])' /\ OwedIsOurs(up[dconn])' /\ UploadIsCounted(up[dconn])'
  BY <1>1 DEF LineIsTheJobs, QueuedIsOurs, TakenIsOurs, OwedIsOurs, UploadIsCounted, Sent, WholeTaken, Owing, Mine
<1>3. ASSUME NEW k \in 1..2 PROVE PartIsOurs(up[dconn], down[dconn], k)'
  <2>1. PartIsOurs(up[dconn], down[dconn], k)
    BY <1>1 DEF LineIsTheJobs
  <2>2. NothingBefore(up[dconn], k) => NothingBefore(up[dconn], k)'
    BY DEF NothingBefore, WholeTaken, Mine
  <2>3. Accepted => Accepted' /\ spool' = spool
    BY DEF Accepted, Mine
  <2>4. QED
    BY <2>1, <2>2, <2>3 DEF PartIsOurs, Came, Sent
<1>4. QED
  BY <1>2, <1>3 DEF LinkIsTheJobs, LineIsTheJobs

\* The answers that hand over no part.
LEMMA ToldIs ==
  ASSUME SsTypes, sconn # NoConn, Told, NEW c \in Conns
  PROVE  /\ down'[c] \in Seq(DownFrames) /\ (c # sconn => down'[c] = down[c])
         /\ \A p \in PartSet : (Has(down'[c], p) <=> Has(down[c], p)) /\ (Once(down[c], p) => Once(down'[c], p))
<1>1. CASE down' = down
  BY <1>1 DEF SsTypes
<1>2. ASSUME NEW f \in DownFrames, f.type \notin PartSet, down' = [down EXCEPT ![sconn] = Append(down[sconn], f)]
      PROVE  /\ down'[c] \in Seq(DownFrames) /\ (c # sconn => down'[c] = down[c])
             /\ \A p \in PartSet : (Has(down'[c], p) <=> Has(down[c], p)) /\ (Once(down[c], p) => Once(down'[c], p))
  <2>1. down'[c] = IF c = sconn THEN Append(down[c], f) ELSE down[c]
    BY <1>2 DEF SsTypes
  <2>2. down[c] \in Seq(DownFrames) /\ Append(down[c], f) \in Seq(DownFrames)
    BY AppendIs DEF SsTypes
  <2>3. \A p \in PartSet : (Has(Append(down[c], f), p) <=> Has(down[c], p)) /\ (Once(down[c], p) => Once(Append(down[c], f), p))
    BY <1>2, <2>2, AppendHas
  <2>4. QED
    BY <2>1, <2>2, <2>3
<1>3. QED
  BY <1>1, <1>2 DEF Told

\* The sidecar on the deck's connection, in no upload after the step.
LEMMA HereKeeps ==
  ASSUME LinkIsTheJobs, UNCHANGED <<dpc, dconn, job, sent, arrived, spool, sideShut>>, dconn # NoConn,
         sconn = dconn, sconn' = dconn, spc' # "upload",
         QueueIsOurs(up'[dconn]), NoBegin(up[dconn], 0) => NoBegin(up'[dconn], 0),
         NoWhole(up[dconn]) => NoWhole(up'[dconn]),
         \A p \in PartSet : (Has(down'[dconn], p) => Has(down[dconn], p)) /\ (Once(down[dconn], p) => Once(down'[dconn], p)),
         jobId' # NoJob => jobId' = jobId /\ spc # "fetch" /\ server'[jobId].body = server[jobId].body
  PROVE  LinkIsTheJobs'
<1>q. PICK q : q = up[dconn]
  OBVIOUS
<1>z. PICK z : z = up'[dconn] /\ z = up'[dconn']
  OBVIOUS
<1>1. LineIsTheJobs(q, down[dconn])
  BY <1>q DEF LinkIsTheJobs
<1>2. /\ QueueIsOurs(z) /\ (NoBegin(q, 0) => NoBegin(z, 0)) /\ (NoWhole(q) => NoWhole(z))
  BY <1>q, <1>z
<1>3. QueuedIsOurs(up[dconn])'
  BY <1>z, <1>2 DEF QueueIsOurs, QueuedIsOurs, WholeQueued, Sent
<1>4. TakenIsOurs(up[dconn])'
  BY DEF TakenIsOurs, WholeTaken
<1>5. OwedIsOurs(up[dconn])'
  BY <1>z, <1>1, <1>2 DEF LineIsTheJobs, OwedIsOurs, Owing, Mine, Sent
<1>6. UploadIsCounted(up[dconn])'
  BY <1>z, <1>1, <1>2 DEF LineIsTheJobs, QueueIsOurs, EndIsCounted, UploadIsCounted
<1>7. ASSUME NEW k \in 1..2 PROVE PartIsOurs(up[dconn], down[dconn], k)'
  <2>1. PartIsOurs(q, down[dconn], k) /\ Parts[k] \in PartSet
    BY <1>1, PartsAre DEF LineIsTheJobs
  <2>2. NothingBefore(q, k) => NothingBefore(up[dconn], k)'
    BY <1>z, <1>2 DEF NoWhole, NothingBefore, WholeTaken, WholeQueued, Mine
  <2>3. Accepted'
    BY DEF Accepted, Mine
  <2>4. QED
    BY <2>1, <2>2, <2>3 DEF PartIsOurs, Came, Sent
<1>8. QED
  BY <1>3, <1>4, <1>5, <1>6, <1>7 DEF LinkIsTheJobs, LineIsTheJobs

(* While the deck has a connection its line is the job's: the facts every step of the deck below
   begins from. *)
LEMMA LineOfTheDeck ==
  ASSUME SsTypes, LinkIsTheJobs, dconn # NoConn
  PROVE  /\ dconn \in Conns /\ up[dconn] \in Seq(UpFrames) /\ down[dconn] \in Seq(DownFrames)
         /\ LineIsTheJobs(up[dconn], down[dconn]) /\ QueueIsOurs(up[dconn])
BY DEF SsTypes, LinkIsTheJobs, LineIsTheJobs, QueueIsOurs, UploadIsCounted, EndIsCounted

\* A step that touches neither the deck nor the spool lets the pair be stored.
LEMMA StoresAreKept ==
  ASSUME StoresTheJobs, JobsAreOfTracks, UNCHANGED <<dpc, dconn, job, arrived, spool>>, sideShut \subseteq sideShut',
         sconn = sconn' \/ sconn # dconn \/ dconn \in sideShut'
  PROVE  StoresTheJobs'
BY DEF StoresTheJobs, Accepted, Mine

\* The sidecar reads a frame of no upload.
LEMMA HearsKeeps ==
  ASSUME SsTypes, LinkIsTheJobs, Hears, dconn # NoConn
  PROVE  LinkIsTheJobs'
<1>1. /\ sconn \in Conns /\ up[sconn] \in Seq(UpFrames) /\ up[sconn] # <<>>
      /\ \A c \in Conns : up'[c] = IF c = sconn THEN Tail(up[c]) ELSE up[c]
  BY DEF Hears, Takes, SsTypes
<1>2. UNCHANGED <<dpc, dconn, job, sent, arrived, spool, sideShut, sconn>> /\ Told
  BY DEF Hears, DeckKept
<1>3. LineIsTheJobs(up[dconn], down[dconn]) /\ dconn \in Conns /\ QueueIsOurs(up[dconn])
  BY LineOfTheDeck
<1>4. /\ sconn # dconn => down'[dconn] = down[dconn]
      /\ \A p \in PartSet : (Has(down'[dconn], p) => Has(down[dconn], p)) /\ (Once(down[dconn], p) => Once(down'[dconn], p))
  BY <1>1, <1>2, <1>3, ToldIs DEF Hears, Takes
<1>5. CASE sconn # dconn
  BY <1>1, <1>2, <1>3, <1>4, <1>5, ElsewhereKeeps
<1>6. CASE sconn = dconn
  <2>1. spc' # "upload" /\ (jobId' # NoJob => jobId' = jobId /\ spc # "fetch" /\ server'[jobId].body = server[jobId].body)
    BY DEF Hears, BodiesKept, SsTypes
  <2>2. /\ QueueIsOurs(up'[dconn]) /\ (NoBegin(up[dconn], 0) => NoBegin(up'[dconn], 0))
        /\ (NoWhole(up[dconn]) => NoWhole(up'[dconn]))
    <3>1. up'[dconn] = Tail(up[dconn]) /\ up[dconn] \in Seq(UpFrames) /\ up[dconn] # <<>>
      BY <1>1, <1>6
    <3>2. QED
      BY <1>3, <3>1, TailIsOurs
  <2>3. QED
    BY <1>2, <1>4, <1>6, <2>1, <2>2, HereKeeps
<1>7. QED
  BY <1>5, <1>6

\* A job is given up, with what is left of its frames still on the queue.
LEMMA BreaksKeeps ==
  ASSUME SsTypes, LinkIsTheJobs, Breaks, dconn # NoConn
  PROVE  LinkIsTheJobs'
<1>q. PICK q : q = up[sconn]
  OBVIOUS
<1>1. /\ sconn \in Conns /\ q \in Seq(UpFrames)
      /\ \A c \in Conns : c # sconn => up'[c] = up[c]
      /\ up'[sconn] = q \/ (q # <<>> /\ up'[sconn] \in {Tail(q), StrandOf(q)})
  BY <1>q DEF Breaks, Takes, SsTypes
<1>2. UNCHANGED <<dpc, dconn, job, sent, arrived, spool, sideShut, sconn>> /\ Told /\ sconn # NoConn
  BY DEF Breaks, DeckKept
<1>3. LineIsTheJobs(up[dconn], down[dconn]) /\ dconn \in Conns /\ QueueIsOurs(up[dconn])
  BY LineOfTheDeck
<1>4. /\ sconn # dconn => down'[dconn] = down[dconn]
      /\ \A p \in PartSet : (Has(down'[dconn], p) => Has(down[dconn], p)) /\ (Once(down[dconn], p) => Once(down'[dconn], p))
  BY <1>2, <1>3, ToldIs
<1>5. CASE sconn # dconn
  BY <1>1, <1>2, <1>3, <1>4, <1>5, ElsewhereKeeps
<1>6. CASE sconn = dconn
  <2>1. spc' # "upload" /\ jobId' = NoJob
    BY DEF Breaks
  <2>2. /\ QueueIsOurs(up'[dconn]) /\ (NoBegin(up[dconn], 0) => NoBegin(up'[dconn], 0))
        /\ (NoWhole(up[dconn]) => NoWhole(up'[dconn]))
    <3>1. q = up[dconn] /\ QueueIsOurs(q) /\ q \in Seq(UpFrames)
      BY <1>q, <1>1, <1>3, <1>6
    <3>2. CASE up'[dconn] = q
      BY <3>1, <3>2
    <3>3. CASE q # <<>> /\ up'[dconn] = Tail(q)
      BY <3>1, <3>3, TailIsOurs
    <3>4. CASE q # <<>> /\ up'[dconn] = StrandOf(q)
      BY <3>1, <3>4, StrandIsOurs
    <3>5. QED
      BY <1>1, <1>6, <3>2, <3>3, <3>4
  <2>3. QED
    BY <1>2, <1>4, <1>6, <2>1, <2>2, HereKeeps
<1>7. QED
  BY <1>5, <1>6

\* JOB_BEGIN: what follows a BEGIN in the queue is what the POST will take.
LEMMA OpensKeeps ==
  ASSUME SsTypes, LinkIsTheJobs, Opens, dconn # NoConn
  PROVE  LinkIsTheJobs'
<1>q. PICK q : q = up[sconn]
  OBVIOUS
<1>0. Chunks \in Nat \ {0}
  BY SessionAssumption
<1>1. /\ sconn \in Conns /\ q \in Seq(UpFrames) /\ q # <<>> /\ q[1].type = "BEGIN" /\ Len(q) \in Nat /\ Len(q) > 0
      /\ \A c \in Conns : up'[c] = IF c = sconn THEN Tail(q) ELSE up[c]
  BY <1>q, TailIs DEF Opens, Takes, SsTypes
<1>2. UNCHANGED <<dpc, dconn, job, sent, arrived, spool, sideShut, sconn, down, server, jobId>> /\ spc = "read" /\ spc' = "upload" /\ body' = <<>>
  BY DEF Opens, DeckKept
<1>3. LineIsTheJobs(up[dconn], down[dconn]) /\ dconn \in Conns /\ QueueIsOurs(up[dconn])
  BY LineOfTheDeck
<1>4. CASE sconn # dconn
  BY <1>1, <1>2, <1>3, <1>4, ElsewhereKeeps
<1>5. CASE sconn = dconn
  <2>z. PICK z : z = Tail(q) /\ z = up'[dconn']
    BY <1>1, <1>2, <1>5
  <2>1. LineIsTheJobs(q, down[dconn]) /\ QueueIsOurs(q) /\ 1 \in 1..Len(q) /\ Len(z) = Len(q) - 1
    BY <1>q, <1>1, <1>3, <1>5, <2>z, TailIs
  <2>2. /\ QueueIsOurs(z) /\ (NoWhole(q) => NoWhole(z))
    BY <1>1, <2>z, <2>1, TailIsOurs
  <2>3. \A n \in Nat : Follows(z, 0, n) => Follows(q, 1, n)
    BY <1>1, <2>z, TailKeeps
  <2>4. jobId = NoJob
    <3>1. ~NoBegin(q, 0)
      BY <1>1, <2>1 DEF NoBegin
    <3>2. QED
      BY <1>2, <1>5, <2>1, <3>1 DEF LineIsTheJobs, OwedIsOurs, Owing, Mine
  <2>5. Follows(z, 0, Chunks) => /\ WholeQueued(q, 1) /\ Sent /\ AreOf(z, 0, Chunks, job) /\ NoBegin(z, 0)
    <3> SUFFICES ASSUME Follows(z, 0, Chunks) PROVE WholeQueued(q, 1) /\ Sent /\ AreOf(z, 0, Chunks, job) /\ NoBegin(z, 0)
      OBVIOUS
    <3>1. Follows(q, 0 + 1, Chunks) /\ 0 + 1 = 1
      BY <1>0, <2>3
    <3>2. WholeQueued(q, 1)
      BY <1>1, <3>1 DEF WholeQueued
    <3>3. Sent /\ AreOf(q, 0 + 1, Chunks, job) /\ NoBegin(q, 0 + 1)
      BY <2>1, <3>1, <3>2 DEF QueueIsOurs, QueuedIsOurs
    <3>4. QED
      BY <1>0, <1>1, <2>z, <3>1, <3>2, <3>3, TailAre, TailKeeps
  <2>a. dpc' = dpc /\ job' = job /\ sent' = sent
    BY <1>2
  <2>6. Chunks - Len(body') = Chunks /\ Len(body') = 0
    BY <1>0, <1>2
  <2>7. QueuedIsOurs(up[dconn])'
    BY <1>2, <2>z, <2>2 DEF QueueIsOurs, QueuedIsOurs, WholeQueued, Sent
  <2>b. BodyOurs'
    <3>1. 1..Len(body') = {}
      BY <2>6
    <3>2. QED
      BY <3>1 DEF BodyOurs
  <2>8. TakenIsOurs(up[dconn])'
    <3>1. Follows(z, 0, Chunks - Len(body')) => Sent /\ AreOf(z, 0, Chunks - Len(body'), job) /\ NoBegin(z, 0)
      BY <2>5, <2>6
    <3>2. QED
      BY <2>a, <2>b, <2>z, <3>1 DEF TakenIsOurs, WholeTaken, Sent
  <2>9. OwedIsOurs(up[dconn])'
    BY <1>2, <2>4 DEF OwedIsOurs, Owing
  <2>10. UploadIsCounted(up[dconn])'
    <3>1. dpc = "pcm" => sent < Chunks /\ EndIsCounted(z)
      BY <2>1, <2>2 DEF LineIsTheJobs, UploadIsCounted, QueueIsOurs
    <3>2. ASSUME dpc = "pcm", Follows(z, 0, Len(z)) PROVE Len(z) = sent /\ AreOf(z, 0, Len(z), job)
      <4>1. PICK n : n = Len(z)
        OBVIOUS
      <4>2. n \in Nat /\ n = Len(q) - 1 /\ Follows(q, 0 + 1, n) /\ 0 + 1 = 1
        BY <1>1, <2>1, <2>3, <3>2, <4>1
      <4>3. n = sent /\ AreOf(q, 0 + 1, n, job)
        BY <1>1, <2>1, <3>2, <4>2 DEF QueueIsOurs, EndIsCounted
      <4>4. AreOf(z, 0, n, job)
        BY <1>1, <2>z, <4>2, <4>3, TailAre
      <4>5. QED
        BY <4>1, <4>3, <4>4
    <3>3. Len(body') + Len(z) = Len(z)
      BY <1>1, <2>1, <2>6
    <3>4. QED
      BY <2>a, <2>b, <2>z, <3>1, <3>2, <3>3 DEF UploadIsCounted, EndIsCounted
  <2>11. ASSUME NEW k \in 1..2 PROVE PartIsOurs(up[dconn], down[dconn], k)'
    <3>1. PartIsOurs(q, down[dconn], k)
      BY <2>1 DEF LineIsTheJobs
    <3>2. NothingBefore(q, k) => NothingBefore(up[dconn], k)'
      BY <1>2, <2>z, <2>1, <2>2, <2>4, <2>5, <2>6 DEF NoWhole, NothingBefore, WholeTaken, WholeQueued
    <3>3. Accepted'
      BY <1>2, <1>5 DEF Accepted, Mine
    <3>4. QED
      BY <1>2, <3>1, <3>2, <3>3 DEF PartIsOurs, Came, Sent
  <2>12. QED
    BY <2>7, <2>8, <2>9, <2>10, <2>11 DEF LinkIsTheJobs, LineIsTheJobs
<1>6. QED
  BY <1>4, <1>5

\* One frame leaves the queue and joins the body.
LEMMA PullPcmKeeps ==
  ASSUME SsTypes, StreamsAgree, LinkIsTheJobs, PullPcm, dconn # NoConn
  PROVE  LinkIsTheJobs'
<1>q. PICK q : q = up[sconn]
  OBVIOUS
<1>1. /\ sconn \in Conns /\ q \in Seq(UpFrames) /\ q # <<>> /\ q[1].type = "PCM" /\ Len(q) \in Nat /\ Len(q) > 0
      /\ \A c \in Conns : up'[c] = IF c = sconn THEN Tail(q) ELSE up[c]
      /\ body' = Append(body, q[1].track) /\ q[1].track \in Tracks /\ Len(body) < Chunks
      /\ spc = "upload" /\ spc' = "upload" /\ sconn' = sconn
  <2>1. /\ sconn \in Conns /\ q # <<>> /\ q[1].type = "PCM"
        /\ body' = Append(body, q[1].track) /\ q[1].track \in Tracks /\ Len(body) < Chunks
        /\ up' = [up EXCEPT ![sconn] = Tail(q)] /\ spc = "upload" /\ spc' = "upload" /\ sconn' = sconn
    BY <1>q, PullIs
  <2>2. q \in Seq(UpFrames) /\ up = [c \in Conns |-> up[c]]
    BY <1>q, <2>1 DEF SsTypes
  <2>3. Len(q) \in Nat /\ Len(q) > 0
    BY <2>1, <2>2, TailIs
  <2>4. \A c \in Conns : up'[c] = IF c = sconn THEN Tail(q) ELSE up[c]
    BY <2>1, <2>2
  <2>5. QED
    BY <2>1, <2>2, <2>3, <2>4
<1>2. UNCHANGED <<dpc, dconn, job, sent, arrived, spool, sideShut, sconn, down, server, jobId, fetched>>
  BY DEF PullPcm, deckVars, linkVars, diskVars
<1>3. LineIsTheJobs(up[dconn], down[dconn]) /\ dconn \in Conns /\ QueueIsOurs(up[dconn])
  BY LineOfTheDeck
<1>4. CASE sconn # dconn
  BY <1>1, <1>2, <1>3, <1>4, ElsewhereKeeps
<1>5. CASE sconn = dconn
  <2>z. PICK z : z = Tail(q) /\ z = up'[dconn']
    BY <1>1, <1>2, <1>5
  <2>1. LineIsTheJobs(q, down[dconn]) /\ QueueIsOurs(q) /\ 1 \in 1..Len(q) /\ Len(z) = Len(q) - 1
    BY <1>q, <1>1, <1>3, <1>5, <2>z, TailIs
  <2>2. QueueIsOurs(z) /\ (NoWhole(q) => NoWhole(z)) /\ (NoBegin(q, 0) => NoBegin(z, 0))
    BY <1>1, <2>z, <2>1, TailIsOurs
  <2>3. /\ Len(body') = Len(body) + 1 /\ Len(body) \in Nat /\ Chunks \in Nat \ {0} /\ body'[Len(body) + 1] = q[1].track
        /\ \A k \in 1..Len(body) : body'[k] = body[k]
    <3>1. body \in Seq(Tracks) /\ Chunks \in Nat \ {0}
      BY SessionAssumption DEF SsTypes
    <3>2. QED
      BY <1>1, <3>1, AppendIs
  <2>4. dpc' = dpc /\ job' = job /\ sent' = sent
    BY <1>2
  \* Frames that follow in what is left followed the one that was taken.
  <2>5. ASSUME NEW n \in Nat, Follows(z, 0, n)
        PROVE  /\ Follows(q, 0, n + 1) /\ Follows(q, 0 + 1, n)
               /\ AreOf(q, 0, n + 1, job) => q[1].track = job /\ AreOf(z, 0, n, job)
    <3>1. Follows(q, 0 + 1, n)
      BY <1>1, <2>z, <2>5, TailKeeps
    <3>2. \A k \in 1..(n + 1) : k = 1 \/ (k - 1 \in 1..n /\ 0 + 1 + (k - 1) = k)
      OBVIOUS
    <3>3. Follows(q, 0, n + 1)
      <4> SUFFICES ASSUME NEW k \in 1..(n + 1) PROVE 0 + k <= Len(q) /\ q[0 + k].type = "PCM"
        BY DEF Follows
      <4>1. CASE k = 1
        BY <1>1, <4>1
      <4>2. CASE k - 1 \in 1..n /\ 0 + 1 + (k - 1) = k
        BY <3>1, <4>2 DEF Follows
      <4>3. QED
        BY <3>2, <4>1, <4>2
    <3>4. ASSUME AreOf(q, 0, n + 1, job) PROVE q[1].track = job /\ AreOf(z, 0, n, job)
      <4>1. 1 \in 1..(n + 1) /\ 0 + 1 = 1
        OBVIOUS
      <4>2. q[1].track = job
        BY <3>4, <4>1 DEF AreOf
      <4>3. AreOf(q, 0 + 1, n, job)
        <5>1. \A k \in 1..n : k + 1 \in 1..(n + 1) /\ 0 + (k + 1) = 0 + 1 + k
          OBVIOUS
        <5>2. QED
          BY <3>4, <5>1 DEF AreOf
      <4>4. QED
        BY <1>1, <2>z, <3>1, <4>2, <4>3, TailAre
    <3>5. QED
      BY <3>1, <3>3, <3>4
  <2>6. ASSUME BodyOurs, q[1].track = job PROVE BodyOurs'
    <3>1. 1..Len(body') = (1..Len(body)) \cup {Len(body) + 1}
      BY <2>3
    <3>2. QED
      BY <2>3, <2>4, <2>6, <3>1 DEF BodyOurs
  <2>7. PICK n : n = Chunks - Len(body')
    OBVIOUS
  <2>8. n \in Nat /\ n + 1 = Chunks - Len(body)
    BY <1>1, <2>3, <2>7
  <2>9. Follows(z, 0, n) => WholeTaken(q)
    <3>1. Follows(z, 0, n) => Follows(q, 0, Chunks - Len(body))
      BY <2>5, <2>8
    <3>2. QED
      BY <1>1, <1>5, <3>1 DEF WholeTaken, Mine
  <2>10. QueuedIsOurs(up[dconn])'
    BY <2>4, <2>z, <2>2 DEF QueueIsOurs, QueuedIsOurs, WholeQueued, Sent
  <2>11. TakenIsOurs(up[dconn])'
    <3>1. ASSUME Follows(z, 0, n) PROVE Sent /\ BodyOurs' /\ AreOf(z, 0, n, job) /\ NoBegin(z, 0)
      <4>1. Sent /\ BodyOurs /\ AreOf(q, 0, n + 1, job) /\ NoBegin(q, 0)
        BY <2>1, <2>8, <2>9, <3>1 DEF LineIsTheJobs, TakenIsOurs
      <4>2. QED
        BY <2>2, <2>5, <2>6, <2>8, <3>1, <4>1
    <3>2. QED
      BY <2>4, <2>7, <2>z, <3>1 DEF TakenIsOurs, WholeTaken, Sent
  <2>12. OwedIsOurs(up[dconn])'
    BY <1>1, <1>2, <1>5, <2>1 DEF LineIsTheJobs, OwedIsOurs, Owing, Mine
  <2>13. UploadIsCounted(up[dconn])'
    <3>1. dpc = "pcm" => sent < Chunks /\ EndIsCounted(z)
      BY <2>1, <2>2 DEF LineIsTheJobs, UploadIsCounted, QueueIsOurs
    <3>2. ASSUME dpc = "pcm", Follows(z, 0, Len(z))
          PROVE  Len(body') + Len(z) = sent /\ BodyOurs' /\ AreOf(z, 0, Len(z), job)
      <4>1. Len(z) \in Nat /\ Len(z) + 1 = Len(q)
        BY <1>1, <2>1
      <4>2. Follows(q, 0, Len(q))
        <5>1. Follows(q, 0, Len(z) + 1)
          BY <2>5, <3>2, <4>1
        <5>2. QED
          BY <4>1, <5>1
      <4>3. Len(body) + Len(q) = sent /\ BodyOurs /\ AreOf(q, 0, Len(q), job)
        BY <1>1, <1>5, <2>1, <3>2, <4>2 DEF LineIsTheJobs, UploadIsCounted, Mine
      <4>4. AreOf(q, 0, Len(z) + 1, job)
        BY <4>1, <4>3
      <4>5. Len(body') + Len(z) = sent
        BY <1>1, <2>3, <4>1, <4>3
      <4>6. QED
        BY <2>5, <2>6, <3>2, <4>1, <4>3, <4>4, <4>5
    <3>3. QED
      BY <2>4, <2>z, <3>1, <3>2 DEF UploadIsCounted, EndIsCounted
  <2>14. ASSUME NEW k \in 1..2 PROVE PartIsOurs(up[dconn], down[dconn], k)'
    <3>1. PartIsOurs(q, down[dconn], k)
      BY <2>1 DEF LineIsTheJobs
    <3>2. NothingBefore(q, k) => ~WholeTaken(up[dconn])'
      BY <2>7, <2>9, <2>z DEF NothingBefore, WholeTaken
    <3>3. NothingBefore(q, k) => NothingBefore(up[dconn], k)'
      BY <1>1, <1>2, <1>5, <2>z, <2>2, <3>2 DEF NoWhole, NothingBefore, WholeQueued, Mine
    <3>4. Accepted'
      BY <1>2, <1>5 DEF Accepted, Mine
    <3>5. QED
      BY <1>2, <3>1, <3>3, <3>4 DEF PartIsOurs, Came, Sent
  <2>15. QED
    BY <2>10, <2>11, <2>12, <2>13, <2>14 DEF LinkIsTheJobs, LineIsTheJobs
<1>6. QED
  BY <1>4, <1>5

\* The server's job is made of the body: the deck's own.
LEMMA PostAcceptedKeeps ==
  ASSUME SsTypes, LinkIsTheJobs, PostAccepted, dconn # NoConn
  PROVE  LinkIsTheJobs'
<1>1. /\ UNCHANGED <<dpc, dconn, job, sent, arrived, spool, sideShut, sconn, up, down, fetched>>
      /\ spc = "upload" /\ spc' = "read" /\ Len(body) = Chunks
  BY DEF PostAccepted, deckVars, linkVars, diskVars
<1>2. LineIsTheJobs(up[dconn], down[dconn]) /\ dconn \in Conns
  BY LineOfTheDeck
<1>3. CASE sconn # dconn
  BY <1>1, <1>2, <1>3, ElsewhereKeeps
<1>4. CASE sconn = dconn
  <2>1. WholeTaken(up[dconn])
    <3>1. Chunks - Len(body) = 0
      BY <1>1, SessionAssumption
    <3>2. Follows(up[dconn], 0, 0)
      BY DEF Follows
    <3>3. QED
      BY <1>1, <1>4, <3>1, <3>2 DEF WholeTaken, Mine
  <2>2. Sent /\ BodyOurs /\ NoBegin(up[dconn], 0)
    BY <1>2, <2>1 DEF LineIsTheJobs, TakenIsOurs
  <2>3. body = [k \in 1..Chunks |-> job]
    <3>1. body = [k \in 1..Len(body) |-> body[k]]
      BY DEF SsTypes
    <3>2. QED
      BY <1>1, <2>2, <3>1 DEF BodyOurs
  <2>4. server'[jobId'].body = [k \in 1..Chunks |-> job]
    <3>1. PICK j \in Jobs : jobId' = j /\ server' = [server EXCEPT ![j] = [state |-> "running", body |-> body]]
      BY DEF PostAccepted
    <3>2. PICK r : r = [state |-> "running", body |-> body]
      OBVIOUS
    <3>3. server'[j] = r
      BY <3>1, <3>2 DEF SsTypes
    <3>4. r.body = body
      BY <3>2
    <3>5. server'[jobId'].body = body
      BY <3>1, <3>3, <3>4
    <3>6. QED
      BY <2>3, <3>5
  <2>5. QueuedIsOurs(up[dconn])'
    BY <1>1, <1>2 DEF LineIsTheJobs, QueuedIsOurs, Sent
  <2>6. TakenIsOurs(up[dconn])'
    BY <1>1 DEF TakenIsOurs, WholeTaken
  <2>7. OwedIsOurs(up[dconn])'
    BY <1>1, <2>2, <2>4 DEF OwedIsOurs, Sent
  <2>8. UploadIsCounted(up[dconn])'
    BY <1>1, <2>2 DEF UploadIsCounted, Sent
  <2>9. ASSUME NEW k \in 1..2 PROVE PartIsOurs(up[dconn], down[dconn], k)'
    <3>1. PartIsOurs(up[dconn], down[dconn], k)
      BY <1>2 DEF LineIsTheJobs
    <3>2. ~Has(down[dconn], Parts[k]) /\ ~Came(Parts[k])
      BY <2>1, <3>1 DEF PartIsOurs, NothingBefore
    <3>3. QED
      BY <1>1, <3>1, <3>2 DEF PartIsOurs, Came
  <2>10. QED
    BY <2>5, <2>6, <2>7, <2>8, <2>9 DEF LinkIsTheJobs, LineIsTheJobs
<1>5. QED
  BY <1>3, <1>4

\* Of the other steps of the sidecar none takes a frame.
LEMMA StillKeeps ==
  ASSUME LinkIsTheJobs, UNCHANGED <<dpc, dconn, job, sent, arrived>>, dconn # NoConn,
         up'[dconn] = up[dconn], down'[dconn] = down[dconn], sideShut \subseteq sideShut',
         spool' = spool \/ spool' = [p \in PartSet |-> NoTrack],
         UNCHANGED <<sconn, body>> \/ (sconn = NoConn /\ spc' # "upload" /\ jobId' = NoJob) \/ (sconn # dconn /\ sconn' # dconn),
         sconn = dconn /\ sconn' = dconn /\ spc' # spc => spc' # "upload",
         sconn = dconn /\ sconn' = dconn /\ jobId' # NoJob =>
           /\ jobId' = jobId /\ server'[jobId].body = server[jobId].body
           /\ UNCHANGED <<spc, fetched>> \/ (spc = "await" /\ spc' = "fetch" /\ fetched' = 0)
  PROVE  LinkIsTheJobs'
<1>1. LineIsTheJobs(up[dconn], down[dconn])
  BY DEF LinkIsTheJobs
<1>2. WholeTaken(up[dconn])' => WholeTaken(up[dconn]) /\ UNCHANGED <<sconn, body, spc>>
  BY DEF WholeTaken, Mine
<1>3. Owing' => Owing /\ server'[jobId'].body = server[jobId].body /\ spc' # "upload"
  BY <1>1 DEF Owing, Mine, LineIsTheJobs, OwedIsOurs
<1>4. QueuedIsOurs(up[dconn])'
  BY <1>1 DEF LineIsTheJobs, QueuedIsOurs, Sent
<1>5. TakenIsOurs(up[dconn])'
  BY <1>1, <1>2 DEF LineIsTheJobs, TakenIsOurs, Sent, BodyOurs
<1>6. OwedIsOurs(up[dconn])'
  BY <1>1, <1>3 DEF LineIsTheJobs, OwedIsOurs, Sent
<1>7. UploadIsCounted(up[dconn])'
  BY <1>1 DEF LineIsTheJobs, UploadIsCounted, Mine, BodyOurs
<1>8. ASSUME NEW k \in 1..2 PROVE PartIsOurs(up[dconn], down[dconn], k)'
  <2>1. PartIsOurs(up[dconn], down[dconn], k)
    BY <1>1 DEF LineIsTheJobs
  <2>2. NothingBefore(up[dconn], k) => NothingBefore(up[dconn], k)'
    BY <1>2 DEF NothingBefore, Mine
  <2>3. Accepted => Accepted'
    BY DEF Accepted, Mine
  <2>4. spool'[Parts[k]] \in {spool[Parts[k]], NoTrack}
    BY PartsAre
  <2>5. QED
    BY <2>1, <2>2, <2>3, <2>4 DEF PartIsOurs, Came, Sent
<1>9. QED
  BY <1>4, <1>5, <1>6, <1>7, <1>8 DEF LinkIsTheJobs, LineIsTheJobs

\* The server's own steps, and those of the sidecar that take no frame.
LEMMA ServerWorksKeeps ==
  ASSUME SsTypes, LinkIsTheJobs, ServerWorks, dconn # NoConn
  PROVE  LinkIsTheJobs'
<1>1. jobId # NoJob => server'[jobId].body = server[jobId].body
  BY DEF ServerWorks, BodiesKept, SsTypes
<1>2. UNCHANGED <<dpc, dconn, job, sent, arrived, up, spool, fetched, spc, body, sconn, jobId, sideShut>>
  BY DEF ServerWorks, DeckKept
<1>3. CASE down' = down
  BY <1>1, <1>2, <1>3, StillKeeps
<1>4. CASE sconn # NoConn /\ spc = "await" /\ Told
  <2>1. dconn \in Conns /\ up[dconn] \in Seq(UpFrames) /\ QueueIsOurs(up[dconn])
    BY LineOfTheDeck
  <2>2. /\ sconn # dconn => down'[dconn] = down[dconn]
        /\ \A p \in PartSet : (Has(down'[dconn], p) => Has(down[dconn], p)) /\ (Once(down[dconn], p) => Once(down'[dconn], p))
    BY <1>4, <2>1, ToldIs
  <2>3. CASE sconn # dconn
    BY <1>2, <2>2, <2>3, ElsewhereKeeps
  <2>4. CASE sconn = dconn
    BY <1>1, <1>2, <1>4, <2>1, <2>2, <2>4, HereKeeps
  <2>5. QED
    BY <2>3, <2>4
<1>5. QED
  BY <1>3, <1>4 DEF ServerWorks

(* The deck's reading of DONE (session.c, run_separation) keeps the line the job's. *)
LEMMA AwaitDoneKeeps ==
  ASSUME LinkIsTheJobs, AwaitDone, dconn # NoConn
  PROVE  LinkIsTheJobs'
<1>1. /\ UNCHANGED <<dpc, dconn, job, sent, arrived, up, down, spool, body, sconn, jobId, server, sideShut>>
      /\ spc = "await" /\ spc' = "fetch" /\ fetched' = 0
  BY DEF AwaitDone, deckVars, linkVars, diskVars
<1>2. QED
  BY <1>1, StillKeeps

(* So does the end of a stem's fetch. *)
LEMMA FetchDoneKeeps ==
  ASSUME LinkIsTheJobs, FetchDone, dconn # NoConn
  PROVE  LinkIsTheJobs'
<1>1. /\ UNCHANGED <<dpc, dconn, job, sent, arrived, up, down, spool, body, sconn, sideShut>>
      /\ spc' = "read" /\ jobId' = NoJob
  BY DEF FetchDone, deckVars, linkVars, diskVars
<1>2. QED
  BY <1>1, StillKeeps

(* The sidecar taking a job keeps the line of the deck's connection the job's. *)
LEMMA AcceptKeeps ==
  ASSUME SsTypes, LinkIsTheJobs, Accept, dconn # NoConn
  PROVE  LinkIsTheJobs'
<1>1. UNCHANGED <<dpc, dconn, job, sent, arrived, up, down, spool, body, sideShut>> /\ spc' = "read" /\ jobId' = NoJob
  BY DEF Accept, deckVars, linkVars, diskVars
<1>2. sconn = NoConn
  BY DEF Accept, SsTypes, Serving
<1>3. QED
  BY <1>1, <1>2, StillKeeps

(* So does the closing of a connection by either end. *)
LEMMA ClosesKeeps ==
  ASSUME Links, LinkIsTheJobs, Closes, dconn # NoConn
  PROVE  LinkIsTheJobs'
<1>1. UNCHANGED <<dpc, dconn, job, sent, arrived, up, down, spool>> /\ sideShut \subseteq sideShut' /\ sconn' = NoConn
  BY DEF Closes, DeckKept
<1>2. sconn # dconn
  BY DEF Closes, Links
<1>3. QED
  BY <1>1, <1>2, StillKeeps

(* And so does a sidecar that starts on a job it has queued. *)
LEMMA SidecarStartsKeeps ==
  ASSUME SsTypes, LinkIsTheJobs, SidecarStarts, dconn # NoConn
  PROVE  LinkIsTheJobs'
<1>1. /\ UNCHANGED <<dpc, dconn, job, sent, arrived, up, down, body, sconn, jobId, server, sideShut>>
      /\ spool' = [p \in PartSet |-> NoTrack]
  BY DEF SidecarStarts, deckVars, linkVars
<1>2. sconn = NoConn
  BY DEF SidecarStarts, SsTypes, Serving
<1>3. QED
  BY <1>1, <1>2, StillKeeps

\* A sidecar that dies has closed the deck's link: what it sent is still there.
LEMMA SidecarDiesKeeps ==
  ASSUME SsTypes, Links, LinkIsTheJobs, SidecarDies, dconn # NoConn
  PROVE  LinkIsTheJobs'
<1>1. /\ UNCHANGED <<dpc, dconn, job, sent, arrived, down, spool>> /\ sconn' = NoConn
      /\ up'[dconn] = <<>> /\ dconn \in sideShut'
  <2>1. UNCHANGED <<dpc, dconn, job, sent, arrived, down, spool>> /\ sconn' = NoConn
    BY DEF SidecarDies, deckVars, diskVars
  <2>2. dconn \in Conns /\ up'[dconn] = <<>>
    BY DEF SidecarDies, SsTypes
  <2>3. dconn \in 1..opened
    BY <2>2 DEF Links, Conns
  <2>4. QED
    BY <2>1, <2>2, <2>3 DEF SidecarDies
<1>2. LineIsTheJobs(up[dconn], down[dconn])
  BY DEF LinkIsTheJobs
<1>3. ~Mine' /\ Accepted'
  BY <1>1 DEF Mine, Accepted
<1>z. PICK z : z = up'[dconn] /\ z = up'[dconn']
  BY <1>1
<1>4. Len(z) = 0 /\ 1..Len(z) = {}
  BY <1>1, <1>z
<1>5. QueuedIsOurs(up[dconn])' /\ TakenIsOurs(up[dconn])' /\ OwedIsOurs(up[dconn])'
  BY <1>z, <1>3, <1>4 DEF QueuedIsOurs, TakenIsOurs, OwedIsOurs, WholeTaken, Owing
<1>6. UploadIsCounted(up[dconn])'
  BY <1>1, <1>z, <1>2, <1>3, <1>4 DEF LineIsTheJobs, UploadIsCounted
<1>7. ASSUME NEW k \in 1..2 PROVE PartIsOurs(up[dconn], down[dconn], k)'
  <2>1. PartIsOurs(up[dconn], down[dconn], k)
    BY <1>2 DEF LineIsTheJobs
  <2>2. NothingBefore(up[dconn], k)'
    BY <1>z, <1>3, <1>4 DEF NothingBefore, WholeTaken
  <2>3. QED
    BY <1>1, <1>3, <2>1, <2>2 DEF PartIsOurs, Came, Sent
<1>8. QED
  BY <1>5, <1>6, <1>7 DEF LinkIsTheJobs, LineIsTheJobs

\* A part is announced on the deck's link: it is the job's, and the first of its name.
LEMMA FetchStemKeeps ==
  ASSUME SsTypes, JobsAreOfTracks, Links, LinkIsTheJobs, StoresTheJobs, FetchStem
  PROVE  StoresTheJobs' /\ (dconn # NoConn => LinkIsTheJobs')
<1>p. PICK p : p = Parts[fetched + 1]
  OBVIOUS
<1>f. PICK f : f = [type |-> p, ok |-> FALSE]
  OBVIOUS
<1>0. fetched \in {0, 1} /\ p \in PartSet /\ sconn \in Conns /\ f \in DownFrames /\ f.type = p /\ jobId # NoJob
  <2>1. fetched \in {0, 1} /\ sconn \in Conns /\ jobId # NoJob
    BY DEF FetchStem, SsTypes, Serving, NoConn
  <2>2. p \in PartSet
    BY <1>p, <2>1, PartsAre
  <2>3. QED
    BY <1>f, <2>1, <2>2 DEF DownFrames
<1>1. /\ UNCHANGED <<dpc, dconn, job, sent, arrived, up, sideShut, sconn, server>> /\ spc = "fetch"
      /\ spool' = [spool EXCEPT ![p] = Head(server[jobId].body)]
      /\ sconn \notin deckShut => /\ down' = [down EXCEPT ![sconn] = Append(down[sconn], f)]
                                 /\ fetched' = fetched + 1 /\ UNCHANGED <<spc, jobId, body>>
      /\ sconn \in deckShut => down' = down
  BY <1>p, <1>f DEF FetchStem, GivesUp, Reply, Answer, deckVars
<1>2. CASE dconn = NoConn
  <2>1. dpc # "store"
    BY <1>2 DEF JobsAreOfTracks, Linked
  <2>2. QED
    BY <1>1, <1>2, <2>1 DEF StoresTheJobs
<1>3. CASE dconn # NoConn /\ sconn # dconn
  <2>1. dconn \notin sideShut
    <3>1. sconn \in 1..opened /\ sconn \notin sideShut /\ dconn = opened
      BY <1>0, <1>3 DEF Links, Conns, NoConn
    <3>2. QED
      BY <3>1 DEF Links
  <2>2. StoresTheJobs'
    BY <1>1, <1>3, <2>1 DEF StoresTheJobs, Accepted, Mine
  <2>3. down'[dconn] = down[dconn]
    BY <1>1, <1>3 DEF SsTypes
  <2>4. QED
    BY <1>1, <1>3, <2>1, <2>2, <2>3, ElsewhereKeeps
<1>4. CASE dconn # NoConn /\ sconn = dconn
  <2>q. PICK q : q = up[dconn] /\ q = up'[dconn']
    BY <1>1
  <2>d. PICK d : d = down[dconn]
    OBVIOUS
  <2>1. LineIsTheJobs(q, d) /\ d \in Seq(DownFrames)
    BY <1>4, <2>q, <2>d, LineOfTheDeck
  <2>2. /\ fetched' = fetched + 1 /\ UNCHANGED <<spc, jobId>> /\ dconn' = dconn
        /\ down'[dconn] = Append(d, f)
    BY <1>0, <1>1, <1>4, <2>d DEF Links, SsTypes
  <2>3. Sent /\ NoBegin(q, 0) /\ server[jobId].body = [k \in 1..Chunks |-> job]
    <3>1. Owing
      BY <1>0, <1>1, <1>4 DEF Owing, Mine
    <3>2. QED
      BY <2>1, <3>1 DEF LineIsTheJobs, OwedIsOurs
  <2>4. Head(server[jobId].body) = job
    <3>1. PICK b : b = server[jobId].body
      OBVIOUS
    <3>2. Chunks \in Nat \ {0} /\ job \in Tracks
      BY <2>3, SessionAssumption DEF Sent, JobsAreOfTracks, JobSteps
    <3>3. b \in [1..Chunks -> Tracks] /\ b[1] = job
      BY <2>3, <3>1, <3>2
    <3>4. b \in Seq(Tracks) /\ b # <<>>
      BY <3>2, <3>3, FunctionIsStream
    <3>5. QED
      BY <3>1, <3>3, <3>4, TailIs
  <2>5. spool'[p] = job /\ \A x \in PartSet : x # p => spool'[x] = spool[x]
    BY <1>0, <1>1, <2>4 DEF SsTypes
  <2>6. StoresTheJobs'
    BY <1>1, <2>3 DEF StoresTheJobs, Sent
  <2>7. QueuedIsOurs(up[dconn])' /\ TakenIsOurs(up[dconn])' /\ UploadIsCounted(up[dconn])'
    BY <1>1, <2>q, <2>1, <2>2, <2>3 DEF LineIsTheJobs, QueuedIsOurs, TakenIsOurs, UploadIsCounted, WholeTaken, Sent, Mine
  <2>8. OwedIsOurs(up[dconn])'
    BY <1>1, <2>q, <2>2, <2>3 DEF OwedIsOurs, Sent
  <2>9. ASSUME NEW k \in 1..2 PROVE PartIsOurs(up[dconn], down[dconn], k)'
    <3>1. PartIsOurs(q, d, k)
      BY <2>1 DEF LineIsTheJobs
    <3>2. k <= fetched + 1 => NothingBefore(up[dconn], k)'
      BY <1>0, <1>1, <2>q, <2>2, <2>3 DEF NothingBefore, WholeTaken, WholeQueued, NoBegin
    <3>3. Accepted' /\ Sent'
      BY <1>1, <1>4, <2>3 DEF Accepted, Mine, Sent
    <3>4. Came(Parts[k])' <=> Came(Parts[k])
      BY <1>1 DEF Came
    <3>5. NothingBefore(q, k) => k <= fetched
      BY <1>0, <1>1, <1>4 DEF NothingBefore, Mine
    <3>6. CASE k = fetched + 1
      <4>1. Parts[k] = p /\ ~Has(d, p) /\ ~Came(p)
        BY <1>0, <1>p, <3>1, <3>5, <3>6 DEF PartIsOurs
      <4>2. Once(Append(d, f), p)
        BY <1>0, <2>1, <3>1, <4>1, AppendHas DEF PartIsOurs
      <4>3. NothingBefore(up[dconn], k)'
        BY <1>0, <3>2, <3>6
      <4>4. QED
        BY <1>1, <2>2, <2>5, <3>3, <3>4, <4>1, <4>2, <4>3 DEF PartIsOurs
    <3>7. CASE k # fetched + 1
      <4>1. Parts[k] \in PartSet /\ Parts[k] # p
        BY <1>0, <1>p, <3>7, PartsAre
      <4>2. (Has(Append(d, f), Parts[k]) => Has(d, Parts[k])) /\ (Once(d, Parts[k]) => Once(Append(d, f), Parts[k]))
        BY <1>0, <2>1, <4>1, AppendHas
      <4>3. NothingBefore(q, k) => NothingBefore(up[dconn], k)'
        BY <1>0, <3>2, <3>5
      <4>4. QED
        BY <1>1, <2>2, <2>5, <3>1, <3>3, <3>4, <4>1, <4>2, <4>3 DEF PartIsOurs
    <3>8. QED
      BY <3>6, <3>7
  <2>10. QED
    BY <2>6, <2>7, <2>8, <2>9 DEF LinkIsTheJobs, LineIsTheJobs
<1>5. QED
  BY <1>2, <1>3, <1>4

-----------------------------------------------------------------------------
(* The second inductive invariant: while the deck left no job behind, the    *)
(* line is the job's.                                                        *)
LEMMA SideKeepsTheStores ==
  ASSUME SsTypes, JobsAreOfTracks, Links, StoresTheJobs,
         Hears \/ Opens \/ Breaks \/ PullPcm \/ PostAccepted \/ AwaitDone \/ FetchDone
           \/ Accept \/ Closes \/ SidecarDies \/ SidecarStarts \/ ServerWorks
  PROVE  StoresTheJobs'
<1>1. CASE Hears \/ Opens \/ Breaks \/ ServerWorks
  <2>1. UNCHANGED <<dpc, dconn, job, arrived, spool, sideShut, sconn>>
    BY <1>1 DEF Hears, Opens, Breaks, ServerWorks, DeckKept
  <2>2. QED
    BY <2>1, StoresAreKept
<1>2. CASE PullPcm \/ PostAccepted \/ AwaitDone \/ FetchDone
  <2>1. UNCHANGED <<dpc, dconn, job, arrived, spool, sideShut, sconn>>
    BY <1>2 DEF PullPcm, PostAccepted, AwaitDone, FetchDone, deckVars, linkVars, diskVars
  <2>2. QED
    BY <2>1, StoresAreKept
<1>3. CASE Accept
  <2>1. UNCHANGED <<dpc, dconn, job, arrived, spool, sideShut>>
    BY <1>3 DEF Accept, deckVars, linkVars, diskVars
  <2>2. sconn = NoConn /\ (dpc = "store" => dconn # NoConn)
    BY <1>3 DEF Accept, SsTypes, Serving, JobsAreOfTracks, Linked
  <2>3. QED
    BY <2>1, <2>2 DEF StoresTheJobs, Accepted, Mine
<1>4. CASE Closes
  <2>1. UNCHANGED <<dpc, dconn, job, arrived, spool>> /\ sideShut \subseteq sideShut' /\ sconn \in sideShut'
    BY <1>4 DEF Closes, DeckKept
  <2>2. QED
    BY <2>1, StoresAreKept
<1>5. CASE SidecarDies
  <2>1. UNCHANGED <<dpc, dconn, job, arrived, spool>> /\ sideShut' = sideShut \cup (1..opened)
    BY <1>5 DEF SidecarDies, deckVars, diskVars
  <2>2. dpc = "store" => dconn \in 1..opened
    BY DEF JobsAreOfTracks, Linked, Links, SsTypes, Conns, NoConn
  <2>3. QED
    BY <2>1, <2>2 DEF StoresTheJobs, Accepted, Mine
<1>6. CASE SidecarStarts
  <2>1. UNCHANGED <<dpc, dconn, job, arrived, sideShut, sconn>> /\ spool' = [p \in PartSet |-> NoTrack]
    BY <1>6 DEF SidecarStarts, deckVars, linkVars, sideVars
  <2>2. QED
    BY <2>1 DEF StoresTheJobs, Accepted, Mine
<1>7. QED
  BY <1>1, <1>2, <1>3, <1>4, <1>5, <1>6

\* Entries are made by stem_cache_store alone.
LEMMA EntriesStayOwn == ASSUME EntriesAreOwnNow, LinkSteps, ~StorePair PROVE EntriesAreOwnNow'
<1>1. media' = media
  BY DEF LinkSteps, Thinks, Posts, SendBegin, SendPcm, Connect, Hangs, Skims, PartArrives, Hears, Opens, Breaks, PullPcm,
         PostAccepted, AwaitDone, FetchStem, FetchDone, Accept, Closes, SidecarDies, SidecarStarts, ServerWorks, DeckKept, diskVars
<1>2. QED
  BY <1>1 DEF EntriesAreOwnNow

\* A job left behind stays left behind.
LEMMA AbandonedStays == ASSUME LinkSteps, abandoned PROVE abandoned'
BY DEF LinkSteps, Thinks, Posts, SendBegin, SendPcm, Connect, Hangs, Skims, PartArrives, StorePair, Hears, Opens, Breaks, PullPcm,
       PostAccepted, AwaitDone, FetchStem, FetchDone, Accept, Closes, SidecarDies, SidecarStarts, ServerWorks, DeckKept,
       LeavesNoticed

\* One case for each kind of step.
LEMMA LinkStepKeeps ==
  ASSUME OneAndLinks, LinkSteps, ~abandoned', LinkIsTheJobs, StoresTheJobs, EntriesAreOwnNow
  PROVE  LinkIsTheJobs' /\ StoresTheJobs' /\ EntriesAreOwnNow'
<1> USE DEF OneAndLinks, OneIInv
<1>1. CASE StorePair
  BY <1>1, StorePairKeeps
<1>2. CASE ~StorePair
  <2>1. EntriesAreOwnNow'
    BY <1>2, EntriesStayOwn
  <2>2. CASE SendBegin \/ SendPcm \/ Connect \/ Hangs \/ PartArrives
    BY <2>1, <2>2, SendBeginKeeps, SendPcmKeeps, ConnectKeeps, HangsKeeps, PartArrivesKeeps
  <2>3. CASE Posts \/ Skims
    BY <2>1, <2>3, PostsKeeps, SkimsKeeps
  <2>4. CASE Thinks \/ FetchStem
    <3>1. StoresTheJobs' /\ (dconn # NoConn => LinkIsTheJobs')
      BY <2>4, ThinksKeeps, FetchStemKeeps
    <3>2. dconn' = dconn
      BY <2>4 DEF Thinks, FetchStem, deckVars
    <3>3. QED
      BY <2>1, <3>1, <3>2 DEF LinkIsTheJobs
  <2>5. CASE \/ Hears \/ Opens \/ Breaks \/ PullPcm \/ PostAccepted \/ AwaitDone \/ FetchDone
             \/ Accept \/ Closes \/ SidecarDies \/ SidecarStarts \/ ServerWorks
    <3>1. StoresTheJobs'
      BY <2>5, SideKeepsTheStores
    <3>2. dconn # NoConn => LinkIsTheJobs'
      BY <2>5, HearsKeeps, OpensKeeps, BreaksKeeps, PullPcmKeeps, PostAcceptedKeeps, AwaitDoneKeeps, FetchDoneKeeps,
         AcceptKeeps, ClosesKeeps, SidecarDiesKeeps, SidecarStartsKeeps, ServerWorksKeeps
    <3>3. dconn' = dconn
      BY <2>5 DEF Hears, Opens, Breaks, PullPcm, PostAccepted, AwaitDone, FetchDone, Accept, Closes, SidecarDies,
                  SidecarStarts, ServerWorks, DeckKept, deckVars
    <3>4. QED
      BY <2>1, <3>1, <3>2, <3>3 DEF LinkIsTheJobs
  <2>6. QED
    BY <1>2, <2>2, <2>3, <2>4, <2>5 DEF LinkSteps
<1>3. QED
  BY <1>1, <1>2

(* The first state satisfies the inductive invariant of the pairs. *)
LEMMA SsInitOwn == Init => OwnIInv
<1> SUFFICES ASSUME Init PROVE OwnIInv
  OBVIOUS
<1>1. OneIInv /\ Links
  BY SsInitIInv DEF OneAndLinks
<1>2. LinkIsTheJobs /\ EntriesAreOwnNow
  BY DEF Init, LinkIsTheJobs, EntriesAreOwnNow
<1>3. StoresTheJobs
  BY DEF Init, StoresTheJobs
<1>4. QED
  BY <1>1, <1>2, <1>3 DEF OwnIInv

\* The second invariant is kept by every step.
LEMMA SsStepKeepsOwn == OwnIInv /\ [Next]_vars => OwnIInv'
<1> SUFFICES ASSUME OwnIInv, [Next]_vars PROVE OwnIInv'
  OBVIOUS
<1>1. OneAndLinks /\ OneAndLinks'
  BY SsStepKeepsIInv DEF OwnIInv, OneAndLinks
<1>2. LinkSteps
  BY <1>1, StepsOnTheLink DEF OneIInv, OneAndLinks
<1>3. ASSUME ~abandoned' PROVE LinkIsTheJobs' /\ StoresTheJobs' /\ EntriesAreOwnNow'
  <2>1. LinkIsTheJobs /\ StoresTheJobs /\ EntriesAreOwnNow
    BY <1>2, <1>3, AbandonedStays DEF OwnIInv
  <2>2. QED
    BY <1>1, <1>2, <1>3, <2>1, LinkStepKeeps
<1>4. QED
  BY <1>1, <1>3 DEF OwnIInv, OneAndLinks

\* job.c run_separation and session.c session_run together: unless the deck
\* left a job the sidecar still had, every entry of the stem cache holds the
\* stems of the track it is filed under, over every run of cancels, refusals,
\* lost links, restarts and reused spool names.
THEOREM PairsStayWithTheirTrack == Spec => []EntriesAreOwnUnlessAbandoned
<1>1. OwnIInv => EntriesAreOwnUnlessAbandoned
  BY DEF OwnIInv, EntriesAreOwnNow, EntriesAreOwnUnlessAbandoned
<1>2. QED
  BY <1>1, SsInitOwn, SsStepKeepsOwn, PTL DEF Spec
=============================================================================
