---------------------------- MODULE VideoWorker ----------------------------
(***************************************************************************)
(* The decode worker of an MSE video stream (src/src/videoworker.c): one   *)
(* thread that decodes the coded samples its owner pushes, in push order,  *)
(* a bounded number of wanted pictures ahead of the clock.                 *)
(*                                                                         *)
(* worker->lock makes every call of the owner atomic.  The thread itself   *)
(* lets go of it while the decoder runs, so a call may land between the    *)
(* moment a job is picked, the moment the decoder has run and the moment   *)
(* its picture is queued: those are three actions.  worker->wake is a      *)
(* condition variable with one waiter; "asleep" is that waiter.            *)
(*                                                                         *)
(* A sample is known by id, its place in the order of pushes.  The array   *)
(* of pictures is the set of its entries, ordered by id; an entry whose    *)
(* texture is NULL (the decoder gave no picture, or a take moved it out)   *)
(* has textured = FALSE.  The counts of presented and dropped pictures and *)
(* the decode rate are statistics and left out.                            *)
(***************************************************************************)
EXTENDS Integers, Sequences, FiniteSets

CONSTANTS Pts,          \* presentation times a pushed sample may have
          MaxPushes,    \* bound of the model: samples pushed in one behaviour
          MaxRestarts,  \* bound of the model: restarts in one behaviour
          MaxLimit,     \* largest max_pictures (NS_VIDEO_DECODE_AHEAD_MAX)
          DefaultLimit, \* NS_VIDEO_WORKER_DEFAULT_PICTURES
          MayFail       \* may the decoder give no picture for a wanted sample?

ASSUME WorkerAssumption ==
  /\ Pts \subseteq Nat
  /\ MaxPushes \in Nat
  /\ MaxRestarts \in Nat
  /\ MaxLimit \in Nat
  /\ DefaultLimit \in 1..MaxLimit
  /\ MayFail \in BOOLEAN

VARIABLES jobs,         \* worker->jobs
          pictures,     \* worker->pictures
          epoch,        \* worker->epoch
          flushedEpoch, \* worker->flushed_epoch
          maxPictures,  \* worker->max_pictures
          quit,         \* worker->quit
          thread,       \* where worker_main is
          job,          \* its local job, <<>> when it has none
          flush,        \* its local flush
          texture,      \* decode_job's local texture: non-NULL?
          owner,        \* the owner's use of the worker: live, joining, freed
          pushes,       \* samples pushed so far; the next one's id
          fed,          \* external: what the decoder was given since its flush
          taken         \* what the last ns_video_worker_take returned

shared    == <<jobs, pictures, epoch, flushedEpoch, maxPictures, quit>>
local     == <<job, flush, texture>>
workerVars == <<shared, thread, local, owner, pushes, fed, taken>>

Jobs     == [id : Nat, pts : Pts, want : BOOLEAN, epoch : Nat]
Pictures == [id : Nat, pts : Pts, textured : BOOLEAN, epoch : Nat]
Samples  == [id : Nat, epoch : Nat]

WorkerTypeOK ==
  /\ jobs \in Seq(Jobs)
  /\ pictures \in SUBSET Pictures
  /\ epoch \in Nat
  /\ flushedEpoch \in Nat
  /\ maxPictures \in 1..MaxLimit
  /\ quit \in BOOLEAN
  /\ thread \in {"asleep", "awake", "picked", "decoded", "exited"}
  /\ job \in Jobs \cup {<<>>}
  /\ flush \in BOOLEAN
  /\ texture \in BOOLEAN
  /\ owner \in {"live", "joining", "freed"}
  /\ pushes \in Nat
  /\ fed \in Seq(Samples)
  /\ taken \in Pictures \cup {<<>>}

WorkerInit ==
  /\ jobs = <<>>
  /\ pictures = {}
  /\ epoch = 0
  /\ flushedEpoch = 0
  /\ maxPictures = DefaultLimit
  /\ quit = FALSE
  /\ thread = "awake"
  /\ job = <<>>
  /\ flush = FALSE
  /\ texture = FALSE
  /\ owner = "live"
  /\ pushes = 0
  /\ fed = <<>>
  /\ taken = <<>>

-----------------------------------------------------------------------------
(* The worker's thread *)

Room == Cardinality(pictures) < maxPictures

\* worker_may_decode: the next job can run without exceeding the limit.
MayDecode ==
  /\ jobs # <<>>
  /\ \/ ~Head(jobs).want
     \/ Head(jobs).epoch # epoch
     \/ Room

SignalIfNoPicture ==
  thread' = IF thread = "asleep" /\ pictures = {} THEN "awake" ELSE thread

\* g_cond_signal(&worker->wake)
Signal == thread' = IF thread = "asleep" THEN "awake" ELSE thread

\* The top of worker_main's loop: leave, wait, or take the head of the queue,
\* to drop it if it is stale and to decode it otherwise.
Exit ==
  /\ thread = "awake"
  /\ quit
  /\ thread' = "exited"
  /\ UNCHANGED <<shared, local, owner, pushes, fed, taken>>

WaitFirst ==
  /\ thread = "awake"
  /\ ~quit
  /\ thread' = "asleep"
  /\ UNCHANGED <<shared, local, owner, pushes, fed, taken>>

Wait ==
  /\ thread = "awake"
  /\ ~quit
  /\ ~MayDecode
  /\ thread' = "asleep"
  /\ UNCHANGED <<shared, local, owner, pushes, fed, taken>>

NeverFlush == FALSE

\* gboolean flush = worker->flushed_epoch != worker->epoch
MustFlush == flushedEpoch # epoch

Pick ==
  /\ thread = "awake"
  /\ ~quit
  /\ MayDecode
  /\ jobs' = Tail(jobs)
  /\ IF Head(jobs).epoch # epoch
     THEN UNCHANGED <<job, flush, flushedEpoch, thread>>
     ELSE /\ job' = Head(jobs)
          /\ flush' = MustFlush
          /\ flushedEpoch' = epoch
          /\ thread' = "picked"
  /\ UNCHANGED <<pictures, epoch, maxPictures, quit,
                 texture, owner, pushes, fed, taken>>

\* decode_job before it takes the lock: flush if asked, then decode.  A wanted
\* sample yields a texture or not; an unwanted one never does.
Decode ==
  /\ thread = "picked"
  /\ fed' = Append(IF flush THEN <<>> ELSE fed,
                   [id |-> job.id, epoch |-> job.epoch])
  /\ texture' \in IF ~job.want THEN {FALSE}
                 ELSE IF MayFail THEN BOOLEAN ELSE {TRUE}
  /\ thread' = "decoded"
  /\ UNCHANGED <<shared, job, flush, owner, pushes, taken>>

WasWanted(j) == j.want

\* The picture is wanted, and no restart has come since its sample was pushed.
StillWanted(j) == j.want /\ j.epoch = epoch

\* decode_job once it has the lock again: queue the picture if still current.
Finish ==
  /\ thread = "decoded"
  /\ pictures' = IF StillWanted(job)
                 THEN pictures \cup {[id |-> job.id, pts |-> job.pts,
                                      textured |-> texture,
                                      epoch |-> job.epoch]}
                 ELSE pictures
  /\ job' = <<>>
  /\ texture' = FALSE
  /\ thread' = "awake"
  /\ UNCHANGED <<jobs, epoch, flushedEpoch, maxPictures, quit, flush, owner, pushes, fed, taken>>

\* g_cond_wait may return without a signal.
SpuriousWakeup ==
  /\ thread = "asleep"
  /\ thread' = "awake"
  /\ UNCHANGED <<shared, local, owner, pushes, fed, taken>>

WorkerStep == Exit \/ Wait \/ Pick \/ Decode \/ Finish

-----------------------------------------------------------------------------
(* The calls of its owner and of the layer that presents its pictures *)

\* ns_video_worker_push
Push(pts, want) ==
  /\ pushes < MaxPushes
  /\ jobs' = Append(jobs, [id |-> pushes, pts |-> pts, want |-> want,
                           epoch |-> epoch])
  /\ pushes' = pushes + 1
  /\ Signal
  /\ UNCHANGED <<pictures, epoch, flushedEpoch, maxPictures, quit, local, owner, fed, taken>>

\* ns_video_worker_restart
Restart ==
  /\ epoch < MaxRestarts
  /\ epoch' = epoch + 1
  /\ jobs' = <<>>
  /\ pictures' = {}
  /\ Signal
  /\ UNCHANGED <<flushedEpoch, maxPictures, quit, local,
                 owner, pushes, fed, taken>>

ValidLimit(n) == n >= 1

\* ns_video_worker_set_max_pictures
SetMaxPictures(n) ==
  /\ ValidLimit(n)
  /\ maxPictures' = n
  /\ IF n # maxPictures THEN Signal ELSE UNCHANGED thread
  /\ UNCHANGED <<jobs, pictures, epoch, flushedEpoch, quit, local, owner, pushes, fed, taken>>

Due(t)        == {p \in pictures : p.pts <= t}
Presentable(t) == {p \in Due(t) : p.textured}

IsOldest(p, S) == \A q \in S : p.id <= q.id

\* The newest of a set of pictures; of several with one pts, the first queued.
IsNewest(p, S) ==
  \A q \in S : p.pts > q.pts \/ (p.pts = q.pts /\ p.id <= q.id)

\* ns_video_worker_take: everything due leaves; the newest is the caller's.
Take(t) ==
  /\ \/ Presentable(t) = {} /\ taken' = <<>>
     \/ \E best \in Presentable(t) :
          IsNewest(best, Presentable(t)) /\ taken' = best
  /\ pictures' = pictures \ Due(t)
  /\ Signal
  /\ UNCHANGED <<jobs, epoch, flushedEpoch, maxPictures, quit, local, owner,
                 pushes, fed>>

\* ns_video_worker_free up to g_thread_join, and from its return on.
FreeBegin ==
  /\ owner = "live"
  /\ owner' = "joining"
  /\ quit' = TRUE
  /\ jobs' = <<>>
  /\ Signal
  /\ UNCHANGED <<pictures, epoch, flushedEpoch, maxPictures, local, pushes, fed, taken>>

FreeJoin ==
  /\ owner = "joining"
  /\ thread = "exited"
  /\ owner' = "freed"
  /\ pictures' = {}
  /\ UNCHANGED <<jobs, epoch, flushedEpoch, maxPictures, quit, thread, local, pushes, fed, taken>>

OwnerCall ==
  /\ owner = "live"
  /\ \/ \E pts \in Pts, want \in BOOLEAN : Push(pts, want)
     \/ Restart
     \/ \E n \in 0..MaxLimit : SetMaxPictures(n)
     \/ \E t \in Pts : Take(t)
     \/ FreeBegin

WorkerNext == WorkerStep \/ SpuriousWakeup \/ OwnerCall \/ FreeJoin

\* The thread is scheduled, and a join returns once the thread is gone.
WorkerFairness == WF_workerVars(WorkerStep) /\ WF_workerVars(FreeJoin)

WorkerSpec == WorkerInit /\ [][WorkerNext]_workerVars /\ WorkerFairness

\* ns_video_worker_expects: a picture for pts is decoding, decoded or queued.
Expects(pts) ==
  \/ thread \in {"picked", "decoded"} /\ job.want /\ job.pts = pts
  \/ \E p \in pictures : p.pts = pts
  \/ \E i \in 1..Len(jobs) : jobs[i].want /\ jobs[i].pts = pts

-----------------------------------------------------------------------------
(* Properties *)

\* After a restart nothing decoded or queued for an earlier epoch is left, and
\* a decode that was in flight across it adds nothing: a seek never shows a
\* picture of where playback was (restart, push and decode_job's epoch test).
CurrentEpochOnly ==
  /\ \A p \in pictures : p.epoch = epoch
  /\ \A i \in 1..Len(jobs) : jobs[i].epoch = epoch

\* The decoder is only ever given an unbroken run of one epoch's samples since
\* its last flush.  The flush is decided under the lock and done without it,
\* so a restart may come between.
DecoderCoherent ==
  \A i \in 1..Len(fed) : fed[i].epoch = fed[1].epoch /\ fed[i].id = fed[1].id + i - 1

\* The decode in flight will add a picture.
InFlight ==
  thread \in {"picked", "decoded"} /\ job.want /\ job.epoch = epoch

\* No more pictures wait to be shown, the one in flight counted, than the
\* largest limit the owner may set: what bounds a stream's decoded memory.
PicturesBounded ==
  Cardinality(pictures) + (IF InFlight THEN 1 ELSE 0) <= MaxLimit

\* The thread never waits for a signal while it has something to do: every
\* call that makes a job runnable, or asks it to leave, signals it.
NoLostWakeup == thread = "asleep" => ~MayDecode /\ ~quit

\* A runnable job at the head of the queue is decoded or dropped, unless the
\* owner takes back the room it needs.
HeadJobHandled ==
  \A n \in 0..(MaxPushes - 1) :
     (MayDecode /\ Head(jobs).id = n) ~> (~MayDecode \/ Head(jobs).id # n)

-----------------------------------------------------------------------------
(* What the worker promises *)

Named(p, blank) == [id |-> p.id, pts |-> p.pts, blank |-> blank]

\* The wanted samples of this epoch that may still be delivered.
Owed ==
  IF owner # "live" THEN {}
  ELSE {Named(p, ~p.textured) : p \in pictures}
         \cup {Named(jobs[i], FALSE) : i \in {k \in 1..Len(jobs) : jobs[k].want}}
         \cup (IF InFlight THEN {Named(job, FALSE)} ELSE {})

Feed == INSTANCE PictureFeed
          WITH Times <- Pts,
               owed <- Owed,
               horizon <- pushes,
               delivered <- IF taken = <<>> THEN <<>> ELSE Named(taken, FALSE),
               open <- owner = "live"

\* Decoding is invisible: the worker behaves as a feed that delivers, newest
\* first, what was pushed since the last restart (take, push, restart, free).
ImplementsFeed == Feed!Spec

=============================================================================
