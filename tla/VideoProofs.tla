---------------------------- MODULE VideoProofs ----------------------------
(***************************************************************************)
(* What holds of the decode worker for every set of times, every limit and *)
(* any number of pushes and restarts, and of the pipeline around it for    *)
(* every track and any number of seeks and shifts.                         *)
(***************************************************************************)
EXTENDS VideoPipeline, FiniteSetTheorems, WellFoundedInduction, TLAPS

\* Between picking a job and queueing its picture the thread has that job.
HasJob == thread \in {"picked", "decoded"} => job \in Jobs

\* The queued pictures are finitely many, so that they can be counted.
TypeInv == WorkerTypeOK /\ HasJob /\ IsFiniteSet(pictures)

\* The worker under legal calls, whether or not its thread is scheduled.
WorkerRuns == WorkerInit /\ [][WorkerNext]_workerVars

\* Every step of the worker and every legal call keep the types.
LEMMA TypeStep ==
  ASSUME TypeInv, [WorkerNext]_workerVars
  PROVE  TypeInv'
<1> USE WorkerAssumption
<1> USE DEF TypeInv, WorkerTypeOK, HasJob, shared, local, Signal
<1>1. CASE Exit
  BY <1>1 DEF Exit
<1>2. CASE Wait
  BY <1>2 DEF Wait
<1>3. CASE Pick
  <2>1. jobs # <<>> /\ Head(jobs) \in Jobs /\ Tail(jobs) \in Seq(Jobs)
    BY <1>3 DEF Pick, MayDecode
  <2> QED BY <1>3, <2>1 DEF Pick, MustFlush
<1>4. CASE Decode
  <2>1. job \in Jobs
    BY <1>4 DEF Decode
  <2>2. [id |-> job.id, epoch |-> job.epoch] \in Samples
    BY <2>1 DEF Jobs, Samples
  <2>3. fed' \in Seq(Samples)
    BY <1>4, <2>2 DEF Decode
  <2> QED BY <1>4, <2>1, <2>3 DEF Decode
<1>5. CASE Finish
  <2>1. [id |-> job.id, pts |-> job.pts, textured |-> texture,
         epoch |-> job.epoch] \in Pictures
    BY <1>5 DEF Finish, Jobs, Pictures
  <2>2. PICK p : p \in Pictures /\ (pictures' = pictures \/ pictures' = pictures \cup {p})
    BY <1>5, <2>1 DEF Finish
  <2>3. pictures' \in SUBSET Pictures BY <2>2
  <2>4. IsFiniteSet(pictures \cup {p}) BY FS_AddElement
  <2>5. IsFiniteSet(pictures') BY <2>2, <2>4
  <2> QED BY <1>5, <2>3, <2>5 DEF Finish
<1>6. CASE SpuriousWakeup
  BY <1>6 DEF SpuriousWakeup
<1>7. ASSUME NEW pts \in Pts, NEW want \in BOOLEAN, Push(pts, want)
      PROVE  TypeInv'
  <2>1. jobs' \in Seq(Jobs)
    BY <1>7 DEF Push, Jobs
  <2> QED BY <1>7, <2>1 DEF Push
<1>8. CASE Restart
  BY <1>8, FS_EmptySet DEF Restart
<1>9. ASSUME NEW n \in 0..MaxLimit, SetMaxPictures(n) PROVE TypeInv'
  BY <1>9 DEF SetMaxPictures, ValidLimit
<1>10. ASSUME NEW t \in Pts, Take(t) PROVE TypeInv'
  <2>1. pictures' \in SUBSET pictures /\ IsFiniteSet(pictures')
    BY <1>10, FS_Subset DEF Take
  <2>2. taken' \in Pictures \cup {<<>>}
    BY <1>10 DEF Take, Presentable, Due
  <2> QED BY <1>10, <2>1, <2>2 DEF Take
<1>11. CASE FreeBegin
  BY <1>11 DEF FreeBegin
<1>12. CASE FreeJoin
  BY <1>12, FS_EmptySet DEF FreeJoin
<1>13. CASE UNCHANGED workerVars
  BY <1>13 DEF workerVars
<1> QED
  BY <1>1, <1>2, <1>3, <1>4, <1>5, <1>6, <1>7, <1>8, <1>9, <1>10, <1>11,
     <1>12, <1>13 DEF WorkerNext, WorkerStep, OwnerCall

LEMMA WorkerStarts == ASSUME WorkerInit PROVE TypeInv
<1> USE WorkerAssumption
<1>1. jobs \in Seq(Jobs) /\ fed \in Seq(Samples)
  BY DEF WorkerInit
<1>2. IsFiniteSet(pictures)
  BY FS_EmptySet DEF WorkerInit
<1> QED BY <1>1, <1>2 DEF WorkerInit, TypeInv, WorkerTypeOK, HasJob

\* A worker under legal calls keeps its types.
LEMMA TypeHolds == WorkerRuns => []TypeInv
<1>1. WorkerInit => TypeInv
  BY WorkerStarts
<1>2. TypeInv /\ [WorkerNext]_workerVars => TypeInv'
  BY TypeStep
<1> QED
  BY <1>1, <1>2, PTL DEF WorkerRuns

\* The state of the worker, of its thread and of its caller always has its
\* type, the thread's job included.
THEOREM TypeCorrect == WorkerSpec => []TypeInv
BY TypeHolds, PTL DEF WorkerSpec, WorkerRuns

-----------------------------------------------------------------------------
\* A job or picture of an earlier epoch is nowhere left by a restart.
LEMMA EpochHolds == WorkerRuns => []CurrentEpochOnly
<1>1. WorkerInit => CurrentEpochOnly
  BY DEF WorkerInit, CurrentEpochOnly
<1>2. TypeInv /\ CurrentEpochOnly /\ [WorkerNext]_workerVars
        => CurrentEpochOnly'
  <2> SUFFICES ASSUME TypeInv, CurrentEpochOnly, [WorkerNext]_workerVars
               PROVE  CurrentEpochOnly'
    OBVIOUS
  <2> USE DEF TypeInv, WorkerTypeOK, CurrentEpochOnly, shared, local
  <2>1. CASE Exit
    BY <2>1 DEF Exit
  <2>2. CASE Wait
    BY <2>2 DEF Wait
  <2>3. CASE Pick
    <3>1. /\ Len(jobs') = Len(jobs) - 1
          /\ \A i \in 1..Len(jobs') : jobs'[i] = jobs[i + 1]
      BY <2>3 DEF Pick, MayDecode
    <3>2. \A i \in 1..Len(jobs') : i + 1 \in 1..Len(jobs)
      BY <3>1
    <3> QED BY <2>3, <3>1, <3>2 DEF Pick
  <2>4. CASE Decode
    BY <2>4 DEF Decode
  <2>5. CASE Finish
    BY <2>5 DEF Finish, StillWanted
  <2>6. CASE SpuriousWakeup
    BY <2>6 DEF SpuriousWakeup
  <2>7. ASSUME NEW pts \in Pts, NEW want \in BOOLEAN, Push(pts, want)
        PROVE  CurrentEpochOnly'
    BY <2>7 DEF Push
  <2>8. CASE Restart
    BY <2>8 DEF Restart
  <2>9. ASSUME NEW n \in 0..MaxLimit, SetMaxPictures(n)
        PROVE  CurrentEpochOnly'
    BY <2>9 DEF SetMaxPictures
  <2>10. ASSUME NEW t \in Pts, Take(t) PROVE CurrentEpochOnly'
    BY <2>10 DEF Take
  <2>11. CASE FreeBegin
    BY <2>11 DEF FreeBegin
  <2>12. CASE FreeJoin
    BY <2>12 DEF FreeJoin
  <2>13. CASE UNCHANGED workerVars
    BY <2>13 DEF workerVars
  <2> QED
    BY <2>1, <2>2, <2>3, <2>4, <2>5, <2>6, <2>7, <2>8, <2>9, <2>10, <2>11,
       <2>12, <2>13 DEF WorkerNext, WorkerStep, OwnerCall
<1> QED
  BY <1>1, <1>2, TypeHolds, PTL DEF WorkerRuns

\* A restart leaves no job and no picture of an earlier epoch behind, even
\* when a decode is in flight across it (decode_job's epoch test).
THEOREM EpochSafety == WorkerSpec => []CurrentEpochOnly
BY EpochHolds, PTL DEF WorkerSpec, WorkerRuns

-----------------------------------------------------------------------------
\* The pictures waiting to be shown, the one being decoded included, are never
\* more than the largest limit the owner sets (worker_may_decode): a restart
\* that lands in the middle of a decode does not let one too many in.
THEOREM PictureMemoryBounded == WorkerSpec => []PicturesBounded
<1> USE WorkerAssumption
<1>1. WorkerInit => PicturesBounded
  BY FS_EmptySet DEF WorkerInit, PicturesBounded, InFlight
<1>2. TypeInv /\ PicturesBounded /\ [WorkerNext]_workerVars => PicturesBounded'
  <2> SUFFICES ASSUME TypeInv, PicturesBounded, [WorkerNext]_workerVars
               PROVE  PicturesBounded'
    OBVIOUS
  <2> USE DEF TypeInv, WorkerTypeOK, PicturesBounded, InFlight, shared, local
  <2> DEFINE count == Cardinality(pictures)
  <2>a. count \in Nat
    BY FS_CardinalityType
  <2>1. CASE Exit
    BY <2>1 DEF Exit
  <2>2. CASE Wait
    BY <2>2 DEF Wait
  <2>3. CASE Pick
    <3>1. thread' = "picked" /\ job'.want => count < maxPictures
      BY <2>3 DEF Pick, MayDecode, Room
    <3> QED BY <2>3, <3>1, <2>a DEF Pick
  <2>4. CASE Decode
    BY <2>4 DEF Decode
  <2>5. CASE Finish
    <3>1. CASE StillWanted(job)
      <4> DEFINE p == [id |-> job.id, pts |-> job.pts, textured |-> texture,
                       epoch |-> job.epoch]
      <4>1. pictures' = pictures \cup {p}
        BY <2>5, <3>1 DEF Finish
      <4> HIDE DEF p
      <4>2. Cardinality(pictures \cup {p}) <= count + 1
        <5>1. Cardinality(pictures \cup {p})
                = IF p \in pictures THEN count ELSE count + 1
          BY FS_AddElement
        <5> QED BY <5>1, <2>a
      <4>3. count + 1 <= MaxLimit
        BY <2>5, <3>1 DEF Finish, StillWanted
      <4>4. IsFiniteSet(pictures \cup {p})
        BY FS_AddElement
      <4>5. Cardinality(pictures \cup {p}) \in Nat
        BY <4>4, FS_CardinalityType
      <4>6. ~InFlight'
        BY <2>5 DEF Finish
      <4> HIDE DEF count
      <4> QED BY <4>1, <4>2, <4>3, <4>5, <4>6, <2>a
    <3>2. CASE ~StillWanted(job)
      BY <2>5, <3>2, <2>a DEF Finish, StillWanted
    <3> QED BY <3>1, <3>2
  <2>6. CASE SpuriousWakeup
    BY <2>6 DEF SpuriousWakeup
  <2>7. ASSUME NEW pts \in Pts, NEW want \in BOOLEAN, Push(pts, want)
        PROVE  PicturesBounded'
    BY <2>7, <2>a DEF Push, Signal
  <2>8. CASE Restart
    BY <2>8, FS_EmptySet DEF Restart
  <2>9. ASSUME NEW n \in 0..MaxLimit, SetMaxPictures(n)
        PROVE  PicturesBounded'
    BY <2>9, <2>a DEF SetMaxPictures, Signal
  <2>10. ASSUME NEW t \in Pts, Take(t) PROVE PicturesBounded'
    <3> DEFINE rest == pictures \ Due(t)
    <3>1. rest \in SUBSET pictures
      OBVIOUS
    <3>2. IsFiniteSet(rest) /\ Cardinality(rest) <= count
      BY <3>1, FS_Subset
    <3>3. Cardinality(rest) \in Nat
      BY <3>2, FS_CardinalityType
    <3>4. pictures' = rest
      BY <2>10 DEF Take
    <3>5. InFlight' <=> InFlight
      BY <2>10 DEF Take, Signal
    <3> HIDE DEF rest
    <3> QED BY <3>2, <3>3, <3>4, <3>5, <2>a
  <2>11. CASE FreeBegin
    BY <2>11, <2>a DEF FreeBegin, Signal
  <2>12. CASE FreeJoin
    BY <2>12, FS_EmptySet DEF FreeJoin
  <2>13. CASE UNCHANGED workerVars
    BY <2>13 DEF workerVars
  <2> QED
    BY <2>1, <2>2, <2>3, <2>4, <2>5, <2>6, <2>7, <2>8, <2>9, <2>10, <2>11,
       <2>12, <2>13 DEF WorkerNext, WorkerStep, OwnerCall
<1> QED
  BY <1>1, <1>2, TypeCorrect, PTL DEF WorkerSpec

-----------------------------------------------------------------------------
\* Every call that makes a job runnable, or asks the thread to leave, signals
\* it: the thread never sleeps on work it could do (g_cond_signal, g_cond_wait).
THEOREM WakeupSafety == WorkerSpec => []NoLostWakeup
<1>1. WorkerInit => NoLostWakeup
  BY DEF WorkerInit, NoLostWakeup
<1>2. TypeInv /\ NoLostWakeup /\ [WorkerNext]_workerVars => NoLostWakeup'
  <2> SUFFICES ASSUME TypeInv, NoLostWakeup, [WorkerNext]_workerVars
               PROVE  NoLostWakeup'
    OBVIOUS
  <2> USE DEF NoLostWakeup, shared, local
  <2>1. CASE Exit
    BY <2>1 DEF Exit
  <2>2. CASE Wait
    BY <2>2 DEF Wait, MayDecode, Room
  <2>3. CASE Pick
    BY <2>3 DEF Pick
  <2>4. CASE Decode
    BY <2>4 DEF Decode
  <2>5. CASE Finish
    BY <2>5 DEF Finish
  <2>6. CASE SpuriousWakeup
    BY <2>6 DEF SpuriousWakeup
  <2>7. ASSUME NEW pts \in Pts, NEW want \in BOOLEAN, Push(pts, want)
        PROVE  NoLostWakeup'
    BY <2>7 DEF Push, Signal
  <2>8. CASE Restart
    BY <2>8 DEF Restart, Signal
  <2>9. ASSUME NEW n \in 0..MaxLimit, SetMaxPictures(n) PROVE NoLostWakeup'
    BY <2>9 DEF SetMaxPictures, Signal, MayDecode, Room
  <2>10. ASSUME NEW t \in Pts, Take(t) PROVE NoLostWakeup'
    BY <2>10 DEF Take, Signal
  <2>11. CASE FreeBegin
    BY <2>11 DEF FreeBegin, Signal
  <2>12. CASE FreeJoin
    BY <2>12 DEF FreeJoin
  <2>13. CASE UNCHANGED workerVars
    BY <2>13 DEF workerVars, MayDecode, Room
  <2> QED
    BY <2>1, <2>2, <2>3, <2>4, <2>5, <2>6, <2>7, <2>8, <2>9, <2>10, <2>11,
       <2>12, <2>13 DEF WorkerNext, WorkerStep, OwnerCall
<1> QED
  BY <1>1, <1>2, TypeCorrect, PTL DEF WorkerSpec

-----------------------------------------------------------------------------
(* The decoder is given an unbroken run of samples.  Ids are handed out by  *)
(* push and leave the queue in order, so what matters is that the last      *)
(* sample fed is followed by the one the thread holds, and that one by the  *)
(* head of the queue, as long as no restart has come between.               *)

\* The id of the next sample to leave the queue.
NextId == pushes - Len(jobs)

JobsInOrder == \A i \in 1..Len(jobs) : jobs[i].id = NextId + i - 1

PickedIsNext ==
  thread = "picked" =>
    /\ job.epoch = flushedEpoch
    /\ job.epoch = epoch /\ ~quit => job.id + 1 = NextId

LastFed == fed[Len(fed)]

FedUpToNext ==
  fed # <<>> /\ thread # "picked" =>
    /\ LastFed.epoch = flushedEpoch
    /\ flushedEpoch = epoch /\ ~quit => LastFed.id + 1 = NextId

FedUpToPicked ==
  fed # <<>> /\ thread = "picked" /\ ~flush =>
    LastFed.epoch = job.epoch /\ LastFed.id + 1 = job.id

FeedInv ==
  /\ flushedEpoch <= epoch
  /\ JobsInOrder
  /\ PickedIsNext
  /\ FedUpToNext
  /\ FedUpToPicked
  /\ DecoderCoherent

\* Dropping the first of a run of numbers shifts the run by one.
LEMMA NumberedOn ==
  ASSUME NEW n \in Int, NEW m, m = n + 1, NEW i \in Int,
         NEW x, x = n + (i + 1) - 1
  PROVE  x = m + i - 1
OBVIOUS

\* Every call and every step of the thread leaves the next sample to decode
\* the successor of the last one decoded, or the decoder due for a flush.
LEMMA FeedStep ==
  ASSUME TypeInv, CurrentEpochOnly, FeedInv, [WorkerNext]_workerVars
  PROVE  FeedInv'
<1> USE DEF TypeInv, WorkerTypeOK, HasJob, shared, local
<1> SUFFICES ASSUME WorkerNext \/ UNCHANGED workerVars PROVE FeedInv'
  OBVIOUS
<1>a. NextId \in Int /\ Len(jobs) \in Nat
  BY DEF NextId
<1>same. ASSUME UNCHANGED <<jobs, epoch, flushedEpoch, pushes, fed>>,
                thread' = "picked" =>
                  thread = "picked" /\ UNCHANGED <<job, flush>>,
                thread = "picked" => thread' = "picked",
                UNCHANGED quit
         PROVE  FeedInv'
  BY <1>same DEF FeedInv, JobsInOrder, NextId, PickedIsNext, FedUpToNext,
                 FedUpToPicked, LastFed, DecoderCoherent
<1>1. CASE Exit
  BY <1>1, <1>same DEF Exit
<1>2. CASE Wait
  BY <1>2, <1>same DEF Wait
<1>3. CASE Pick
  <2>1. /\ jobs # <<>>
        /\ Head(jobs) = jobs[1]
        /\ 1 \in 1..Len(jobs)
        /\ Len(jobs') = Len(jobs) - 1
        /\ \A i \in 1..Len(jobs') : jobs'[i] = jobs[i + 1]
        /\ Head(jobs) \in Jobs
    BY <1>3 DEF Pick, MayDecode
  <2>2. Head(jobs).epoch = epoch /\ Head(jobs).id = NextId
    BY <2>1, <1>a DEF CurrentEpochOnly, FeedInv, JobsInOrder
  <2>3. /\ job' = Head(jobs)
        /\ flush' = (flushedEpoch # epoch)
        /\ flushedEpoch' = epoch
        /\ thread = "awake" /\ thread' = "picked"
        /\ ~quit
        /\ UNCHANGED <<epoch, pushes, fed, quit>>
    BY <1>3, <2>2 DEF Pick, MustFlush
  <2>4. NextId' = NextId + 1
    BY <2>1, <2>3 DEF NextId
  <2>5. JobsInOrder'
    <3> SUFFICES ASSUME NEW i \in 1..Len(jobs')
                 PROVE  jobs'[i].id = NextId' + i - 1
      BY DEF JobsInOrder
    <3>1. i + 1 \in 1..Len(jobs)
      BY <2>1, <1>a
    <3>2. jobs[i + 1].id = NextId + (i + 1) - 1
      BY <3>1 DEF FeedInv, JobsInOrder
    <3>3. i \in Int /\ NextId \in Int
      BY <1>a
    <3>4. jobs[i + 1].id = NextId' + i - 1
      BY <3>2, <3>3, <2>4, NumberedOn
    <3>5. jobs'[i] = jobs[i + 1]
      BY <2>1
    <3> QED BY <3>4, <3>5, Zenon
  <2>6. PickedIsNext'
    BY <2>2, <2>3, <2>4, <1>a DEF PickedIsNext
  <2>7. FedUpToPicked'
    BY <2>2, <2>3 DEF FeedInv, FedUpToNext, FedUpToPicked, LastFed
  <2> QED
    BY <2>3, <2>5, <2>6, <2>7 DEF FeedInv, FedUpToNext, DecoderCoherent
<1>4. CASE Decode
  <2> DEFINE next == [id |-> job.id, epoch |-> job.epoch]
             kept == IF flush THEN <<>> ELSE fed
  <2>1. /\ thread = "picked" /\ thread' = "decoded"
        /\ fed' = Append(kept, next)
        /\ UNCHANGED <<jobs, epoch, flushedEpoch, quit, job, pushes>>
    BY <1>4 DEF Decode
  <2>2. job \in Jobs /\ next \in Samples /\ kept \in Seq(Samples)
    BY <2>1 DEF Jobs, Samples
  <2>3. NextId' = NextId
    BY <2>1 DEF NextId
  <2>4. LastFed' = next
    BY <2>1, <2>2 DEF LastFed
  <2>5. FedUpToNext'
    BY <2>1, <2>3, <2>4 DEF FeedInv, PickedIsNext, FedUpToNext
  <2>6. DecoderCoherent'
    <3>1. CASE kept = <<>>
      BY <2>1, <2>2, <3>1 DEF DecoderCoherent, Jobs
    <3>2. CASE kept # <<>>
      <4>1. kept = fed /\ ~flush
        BY <3>2
      <4>2. /\ Len(fed') = Len(fed) + 1 /\ Len(fed) \in Nat /\ Len(fed) >= 1
            /\ fed'[Len(fed) + 1] = next
            /\ \A i \in 1..Len(fed) : fed'[i] = fed[i]
        BY <2>1, <2>2, <3>2, <4>1
      <4>3. LastFed.epoch = job.epoch /\ LastFed.id + 1 = job.id
        BY <2>1, <3>2, <4>1 DEF FeedInv, FedUpToPicked
      <4>4. /\ fed[Len(fed)].epoch = fed[1].epoch
            /\ fed[Len(fed)].id = fed[1].id + Len(fed) - 1
        BY <4>2 DEF FeedInv, DecoderCoherent
      <4>5. fed[1] \in Samples /\ fed'[1] = fed[1]
        BY <4>2
      <4> SUFFICES ASSUME NEW i \in 1..Len(fed')
                   PROVE  /\ fed'[i].epoch = fed'[1].epoch
                          /\ fed'[i].id = fed'[1].id + i - 1
        BY DEF DecoderCoherent
      <4>6. CASE i \in 1..Len(fed)
        BY <4>2, <4>5, <4>6 DEF FeedInv, DecoderCoherent
      <4>7. CASE i = Len(fed) + 1
        BY <4>2, <4>3, <4>4, <4>5, <4>7 DEF LastFed, Samples
      <4> QED BY <4>2, <4>6, <4>7
    <3> QED BY <3>1, <3>2
  <2> QED
    BY <2>1, <2>3, <2>5, <2>6
       DEF FeedInv, JobsInOrder, PickedIsNext, FedUpToPicked
<1>5. CASE Finish
  BY <1>5, <1>same DEF Finish
<1>6. CASE SpuriousWakeup
  BY <1>6, <1>same DEF SpuriousWakeup
<1>7. ASSUME NEW pts \in Pts, NEW want \in BOOLEAN, Push(pts, want)
      PROVE  FeedInv'
  <2> DEFINE new == [id |-> pushes, pts |-> pts, want |-> want,
                     epoch |-> epoch]
  <2>1. /\ Len(jobs') = Len(jobs) + 1
        /\ \A i \in 1..Len(jobs) : jobs'[i] = jobs[i]
        /\ jobs'[Len(jobs) + 1].id = pushes
        /\ pushes' = pushes + 1
    BY <1>7 DEF Push
  <2>2. NextId' = NextId
    BY <2>1, <1>a DEF NextId
  <2>3. JobsInOrder'
    <3> SUFFICES ASSUME NEW i \in 1..Len(jobs')
                 PROVE  jobs'[i].id = NextId + i - 1
      BY <2>2 DEF JobsInOrder
    <3>1. CASE i \in 1..Len(jobs)
      BY <2>1, <3>1 DEF FeedInv, JobsInOrder
    <3>2. CASE i = Len(jobs) + 1
      BY <2>1, <3>2, <1>a DEF NextId
    <3> QED BY <2>1, <3>1, <3>2, <1>a
  <2>4. /\ UNCHANGED <<epoch, flushedEpoch, quit, job, flush, fed>>
        /\ thread' = "picked" <=> thread = "picked"
    BY <1>7 DEF Push, Signal
  <2> QED
    BY <2>2, <2>3, <2>4 DEF FeedInv, PickedIsNext, FedUpToNext,
                            FedUpToPicked, LastFed, DecoderCoherent
<1>8. CASE Restart
  <2>1. /\ epoch' = epoch + 1 /\ jobs' = <<>>
        /\ UNCHANGED <<flushedEpoch, quit, job, flush, fed, pushes>>
        /\ thread' = "picked" <=> thread = "picked"
    BY <1>8 DEF Restart, Signal
  <2>2. flushedEpoch # epoch' /\ flushedEpoch <= epoch'
    BY <2>1 DEF FeedInv
  <2> QED
    BY <2>1, <2>2 DEF FeedInv, JobsInOrder, PickedIsNext, FedUpToNext,
                      FedUpToPicked, LastFed, DecoderCoherent
<1>9. ASSUME NEW n \in 0..MaxLimit, SetMaxPictures(n) PROVE FeedInv'
  BY <1>9, <1>same DEF SetMaxPictures, Signal
<1>10. ASSUME NEW t \in Pts, Take(t) PROVE FeedInv'
  BY <1>10, <1>same DEF Take, Signal
<1>11. CASE FreeBegin
  <2>1. /\ quit' = TRUE /\ jobs' = <<>>
        /\ UNCHANGED <<epoch, flushedEpoch, job, flush, fed, pushes>>
        /\ thread' = "picked" <=> thread = "picked"
    BY <1>11 DEF FreeBegin, Signal
  <2> QED
    BY <2>1 DEF FeedInv, JobsInOrder, PickedIsNext, FedUpToNext,
                FedUpToPicked, LastFed, DecoderCoherent
<1>12. CASE FreeJoin
  BY <1>12, <1>same DEF FreeJoin
<1>13. CASE UNCHANGED workerVars
  BY <1>13, <1>same DEF workerVars
<1> QED
  BY <1>1, <1>2, <1>3, <1>4, <1>5, <1>6, <1>7, <1>8, <1>9, <1>10, <1>11,
     <1>12, <1>13 DEF WorkerNext, WorkerStep, OwnerCall

\* The decoder only ever sees consecutive samples of one epoch since its last
\* flush, whatever restart lands between choosing to flush and decoding.
THEOREM DecoderSafety == WorkerSpec => []DecoderCoherent
<1>1. WorkerInit => FeedInv
  BY DEF WorkerInit, FeedInv, JobsInOrder, PickedIsNext, FedUpToNext,
         FedUpToPicked, DecoderCoherent
<1>2. TypeInv /\ CurrentEpochOnly /\ FeedInv /\ [WorkerNext]_workerVars
        => FeedInv'
  BY FeedStep
<1>3. FeedInv => DecoderCoherent
  BY DEF FeedInv
<1> QED
  BY <1>1, <1>2, <1>3, TypeCorrect, EpochSafety, PTL DEF WorkerSpec

-----------------------------------------------------------------------------
(* The worker is a feed.  What it owes is in three places, and the ids tell *)
(* them apart: pictures come before the job in flight, and that before the  *)
(* jobs of the queue.                                                       *)

IdsInOrder ==
  /\ \A p \in pictures : p.id < NextId
  /\ thread \in {"picked", "decoded"} => job.id < NextId /\ job.epoch <= epoch
  /\ InFlight => \A p \in pictures : p.id < job.id

ReadyInv == TypeInv /\ CurrentEpochOnly /\ FeedInv /\ IdsInOrder

\* Calls and steps that leave the thread's job alone and take pictures at most.
LEMMA IdsKept ==
  ASSUME ReadyInv, pictures' \subseteq pictures, NextId' >= NextId, NextId' \in Int,
         epoch' >= epoch, epoch' > epoch => pictures' = {}, epoch' \in Nat,
         thread' \in {"picked", "decoded"} =>
           thread \in {"picked", "decoded"} /\ job' = job
  PROVE  IdsInOrder'
<1> USE DEF ReadyInv, TypeInv, HasJob, WorkerTypeOK, IdsInOrder, Jobs, Pictures
<1>1. NextId \in Int BY DEF NextId
<1>2. \A p \in pictures' : p.id < NextId' BY <1>1
<1>3. thread' \in {"picked", "decoded"} => job'.id < NextId' /\ job'.epoch <= epoch'
  BY <1>1
<1>4. InFlight' => \A p \in pictures' : p.id < job'.id
  BY DEF InFlight
<1> QED BY <1>2, <1>3, <1>4

\* Every step keeps the ids in this order.
LEMMA IdsStep ==
  ASSUME ReadyInv, [WorkerNext]_workerVars
  PROVE  IdsInOrder'
<1> USE DEF shared, local
<1>a. /\ pushes \in Nat /\ Len(jobs) \in Nat /\ NextId \in Int /\ epoch \in Nat
      /\ pictures \in SUBSET Pictures
  BY DEF ReadyInv, TypeInv, WorkerTypeOK, NextId
<1>same. ASSUME UNCHANGED <<jobs, epoch, pushes>>, pictures' \subseteq pictures,
                thread' \in {"picked", "decoded"} =>
                  thread \in {"picked", "decoded"} /\ job' = job
         PROVE  IdsInOrder'
  BY <1>same, <1>a, IdsKept DEF NextId
<1>1. CASE Exit
  BY <1>1, <1>same DEF Exit
<1>2. CASE Wait
  BY <1>2, <1>same DEF Wait
<1>3. CASE Pick
  <2>1. /\ jobs # <<>> /\ Head(jobs) = jobs[1] /\ 1 \in 1..Len(jobs) /\ Head(jobs) \in Jobs
        /\ Len(jobs') = Len(jobs) - 1
    BY <1>3 DEF Pick, MayDecode, ReadyInv, TypeInv, WorkerTypeOK
  <2>2. Head(jobs).epoch = epoch /\ Head(jobs).id = NextId
    BY <2>1, <1>a DEF ReadyInv, CurrentEpochOnly, FeedInv, JobsInOrder
  <2>3. job' = Head(jobs) /\ UNCHANGED <<pictures, epoch, pushes>>
    BY <1>3, <2>2 DEF Pick
  <2>4. NextId' = NextId + 1
    BY <2>1, <2>3, <1>a DEF NextId
  <2>5. \A p \in pictures : p.id < NextId /\ p.id \in Nat
    BY <1>a DEF ReadyInv, IdsInOrder, Pictures
  <2> QED BY <2>2, <2>3, <2>4, <2>5, <1>a DEF IdsInOrder
<1>4. CASE Decode
  BY <1>4, <1>same DEF Decode
<1>5. CASE Finish
  <2>1. NextId' = NextId /\ epoch' = epoch /\ thread' = "awake" /\ thread = "decoded"
    BY <1>5 DEF Finish, NextId
  <2>2. \A p \in pictures' : p \in pictures \/ p.id = job.id
    BY <1>5 DEF Finish
  <2>3. job.id < NextId /\ \A p \in pictures : p.id < NextId
    BY <2>1 DEF ReadyInv, IdsInOrder
  <2> QED BY <2>1, <2>2, <2>3 DEF IdsInOrder, InFlight
<1>6. CASE SpuriousWakeup
  BY <1>6, <1>same DEF SpuriousWakeup
<1>7. ASSUME NEW pts \in Pts, NEW want \in BOOLEAN, Push(pts, want)
      PROVE  IdsInOrder'
  <2>1. Len(jobs') = Len(jobs) + 1 /\ pushes' = pushes + 1
    BY <1>7 DEF Push, ReadyInv, TypeInv, WorkerTypeOK
  <2>2. NextId' = NextId
    BY <2>1, <1>a DEF NextId
  <2> QED BY <1>7, <1>a, <2>2, IdsKept DEF Push, Signal
<1>8. CASE Restart
  <2>1. NextId' >= NextId /\ NextId' \in Int
    BY <1>8, <1>a DEF Restart, NextId
  <2> QED BY <1>8, <1>a, <2>1, IdsKept DEF Restart, Signal
<1>9. ASSUME NEW n \in 0..MaxLimit, SetMaxPictures(n) PROVE IdsInOrder'
  BY <1>9, <1>same DEF SetMaxPictures, Signal
<1>10. ASSUME NEW t \in Pts, Take(t) PROVE IdsInOrder'
  BY <1>10, <1>same DEF Take, Signal
<1>11. CASE FreeBegin
  <2>1. NextId' >= NextId /\ NextId' \in Int
    BY <1>11, <1>a DEF FreeBegin, NextId
  <2> QED BY <1>11, <1>a, <2>1, IdsKept DEF FreeBegin, Signal
<1>12. CASE FreeJoin
  BY <1>12, <1>same DEF FreeJoin
<1>13. CASE UNCHANGED workerVars
  BY <1>13, <1>same DEF workerVars
<1> QED
  BY <1>1, <1>2, <1>3, <1>4, <1>5, <1>6, <1>7, <1>8, <1>9, <1>10, <1>11,
     <1>12, <1>13 DEF WorkerNext, WorkerStep, OwnerCall

\* The three places of what is owed, while the worker is live.
InPictures == {Named(p, ~p.textured) : p \in pictures}
InJobs     == {Named(jobs[i], FALSE) : i \in {k \in 1..Len(jobs) : jobs[k].want}}
InThread   == IF InFlight THEN {Named(job, FALSE)} ELSE {}

\* Pictures are older than the sample in flight, and that than every job.
LEMMA OwedInOrder ==
  ASSUME ReadyInv
  PROVE  /\ \A x \in InPictures : x.id \in Nat /\ x.id < NextId
         /\ \A x \in InPictures : InFlight => x.id < job.id
         /\ \A x \in InThread : x.id = job.id /\ x.id < NextId
         /\ \A x \in InJobs : x.id \in Nat /\ x.id >= NextId
<1> USE DEF ReadyInv, TypeInv, WorkerTypeOK
<1>1. ASSUME NEW x \in InPictures
      PROVE  x.id \in Nat /\ x.id < NextId /\ (InFlight => x.id < job.id)
  <2>1. PICK p \in pictures : x = Named(p, ~p.textured) BY DEF InPictures
  <2>2. x.id = p.id /\ p.id \in Nat BY <2>1 DEF Named, Pictures
  <2> QED BY <2>1, <2>2 DEF IdsInOrder
<1>2. ASSUME NEW x \in InThread PROVE x.id = job.id /\ x.id < NextId
  BY DEF InThread, InFlight, Named, IdsInOrder
<1>3. ASSUME NEW x \in InJobs PROVE x.id \in Nat /\ x.id >= NextId
  <2>1. PICK i \in 1..Len(jobs) : x = Named(jobs[i], FALSE) BY DEF InJobs
  <2>a. jobs[i] \in Jobs OBVIOUS
  <2>2. x.id = jobs[i].id /\ jobs[i].id \in Nat BY <2>1, <2>a DEF Named, Jobs
  <2>3. jobs[i].id = NextId + i - 1 BY DEF FeedInv, JobsInOrder
  <2>4. NextId \in Int BY DEF NextId
  <2> QED BY <2>2, <2>3, <2>4
<1> QED BY <1>1, <1>2, <1>3

\* Steps that move nothing into or out of the three places show nothing.
LEMMA OwedSame ==
  ASSUME owner' = owner, pushes' = pushes, taken' = taken, Owed' = Owed
  PROVE  UNCHANGED Feed!vars
BY DEF Feed!vars

\* The head of the queue moves from there to the thread.
LEMMA PickShowsNothing ==
  ASSUME ReadyInv, Pick
  PROVE  Owed' = Owed
<1> USE DEF ReadyInv, TypeInv, WorkerTypeOK
<1>1. /\ jobs # <<>> /\ Head(jobs) = jobs[1] /\ 1 \in 1..Len(jobs) /\ Head(jobs) \in Jobs
      /\ Len(jobs') = Len(jobs) - 1 /\ \A i \in 1..Len(jobs') : jobs'[i] = jobs[i + 1]
  BY DEF Pick, MayDecode
<1>2. Head(jobs).epoch = epoch
  BY <1>1 DEF CurrentEpochOnly
<1>3. /\ job' = jobs[1] /\ thread = "awake" /\ thread' = "picked"
      /\ UNCHANGED <<pictures, epoch, owner>>
  BY <1>1, <1>2 DEF Pick
<1>4. InPictures' = InPictures BY <1>3 DEF InPictures
<1>5. InThread = {} BY <1>3 DEF InThread, InFlight
<1>6. InThread' = IF jobs[1].want THEN {Named(jobs[1], FALSE)} ELSE {}
  BY <1>1, <1>2, <1>3 DEF InThread, InFlight
<1>7. InJobs = InJobs' \cup InThread'
  <2>1. ASSUME NEW x \in InJobs PROVE x \in InJobs' \cup InThread'
    <3>1. PICK i \in 1..Len(jobs) : jobs[i].want /\ x = Named(jobs[i], FALSE) BY DEF InJobs
    <3>2. CASE i = 1 BY <1>6, <3>1, <3>2
    <3>3. CASE i # 1
      <4>1. i - 1 \in 1..Len(jobs') BY <1>1, <3>3
      <4>2. jobs'[i - 1] = jobs[i] BY <1>1, <4>1
      <4> QED BY <3>1, <4>1, <4>2 DEF InJobs
    <3> QED BY <3>2, <3>3
  <2>2. ASSUME NEW x \in InJobs' PROVE x \in InJobs
    <3>1. PICK i \in 1..Len(jobs') : jobs'[i].want /\ x = Named(jobs'[i], FALSE) BY DEF InJobs
    <3>2. i + 1 \in 1..Len(jobs) /\ jobs'[i] = jobs[i + 1] BY <1>1
    <3> QED BY <3>1, <3>2 DEF InJobs
  <2>3. ASSUME NEW x \in InThread' PROVE x \in InJobs
    <3>1. jobs[1].want /\ x = Named(jobs[1], FALSE) BY <1>6
    <3> QED BY <1>1, <3>1 DEF InJobs
  <2> QED BY <2>1, <2>2, <2>3
<1>8. InPictures \cup InJobs \cup InThread = InPictures' \cup InJobs' \cup InThread'
  BY <1>4, <1>5, <1>7
<1> QED BY <1>3, <1>8 DEF Owed, InPictures, InJobs, InThread

\* Turning blank changes nothing else of a sample.
LEMMA Blanked == ASSUME NEW p PROVE Named(p, TRUE) = [Named(p, FALSE) EXCEPT !.blank = TRUE]
<1>1. ASSUME NEW u, NEW v PROVE Named(p, u) = [Named(p, v) EXCEPT !.blank = u]
  BY DEF Named
<1> QED BY <1>1, Zenon

\* A decoded sample keeps its place, and turns blank if it gave no picture.
LEMMA FinishMayBlank ==
  ASSUME ReadyInv, Finish, owner = "live"
  PROVE  Owed' = Owed \/ Feed!Blank
<1> USE DEF ReadyInv, TypeInv, WorkerTypeOK, HasJob
<1>1. /\ thread = "decoded" /\ thread' = "awake" /\ job \in Jobs
      /\ UNCHANGED <<jobs, epoch, owner, pushes, taken>>
  BY DEF Finish
<1>2. InJobs' = InJobs BY <1>1 DEF InJobs
<1>3. InThread' = {} BY <1>1 DEF InThread, InFlight
<1>4. InFlight <=> StillWanted(job) BY <1>1 DEF InFlight, StillWanted
<1>5. CASE ~InFlight
  <2>1. pictures' = pictures /\ InThread = {} BY <1>4, <1>5 DEF Finish, InThread
  <2> QED BY <1>1, <1>2, <1>3, <2>1 DEF Owed, InPictures, InJobs, InThread
<1>6. CASE InFlight
  <2> DEFINE s == Named(job, FALSE)
             d == Named(job, ~texture)
             p == [id |-> job.id, pts |-> job.pts, textured |-> texture, epoch |-> job.epoch]
  <2>1. pictures' = pictures \cup {p} BY <1>4, <1>6 DEF Finish
  <2>2. d = Named(p, ~p.textured) BY DEF Named
  <2>3. InPictures' = InPictures \cup {d}
    BY <2>1, <2>2 DEF InPictures
  <2>4. InThread = {s} BY <1>6 DEF InThread
  <2>5. Owed = InPictures \cup InJobs \cup {s} BY <2>4 DEF Owed, InPictures, InJobs, InThread
  <2>6. Owed' = InPictures \cup {d} \cup InJobs
    BY <1>1, <1>2, <1>3, <2>3 DEF Owed, InPictures, InJobs, InThread
  <2>7. CASE texture
    <3>1. d = s BY <2>7
    <3> QED BY <2>5, <2>6, <3>1
  <2>8. CASE ~texture
    <3>1. d = [s EXCEPT !.blank = TRUE]
      <4>1. ~texture = TRUE BY <2>8
      <4>2. d = Named(job, TRUE) BY <4>1, Zenon
      <4>3. Named(job, TRUE) = [Named(job, FALSE) EXCEPT !.blank = TRUE] BY Blanked
      <4> QED BY <4>2, <4>3
    <3>2. s.id = job.id BY DEF Named
    <3>3. s \notin InPictures /\ s \notin InJobs
      <4>1. job.id \in Nat /\ job.id < NextId /\ NextId \in Int
        BY <1>1 DEF IdsInOrder, NextId, Jobs
      <4>2. /\ \A x \in InPictures : x.id < job.id
            /\ \A x \in InJobs : x.id \in Nat /\ x.id >= NextId
        BY <1>6, OwedInOrder
      <4> HIDE DEF s
      <4> QED BY <3>2, <4>1, <4>2
    <3>4. Owed' = (Owed \ {s}) \cup {d} BY <2>5, <2>6, <3>3
    <3>5. s \in Owed BY <2>5
    <3> HIDE DEF s, d, p
    <3>6. \E x \in Owed : Owed' = (Owed \ {x}) \cup {[x EXCEPT !.blank = TRUE]}
      BY <3>1, <3>4, <3>5
    <3> QED BY <1>1, <3>6 DEF Feed!Blank
  <2> QED BY <2>7, <2>8
<1> QED BY <1>5, <1>6

\* A push adds what it pushes if it is wanted, and is a number used up if not.
LEMMA PushAsks ==
  ASSUME ReadyInv, owner = "live", NEW pts \in Pts, NEW want \in BOOLEAN, Push(pts, want)
  PROVE  Feed!Skip \/ Feed!Want
<1> USE DEF ReadyInv, TypeInv, WorkerTypeOK
<1> DEFINE new == [id |-> pushes, pts |-> pts, want |-> want, epoch |-> epoch]
<1>1. /\ Len(jobs') = Len(jobs) + 1 /\ Len(jobs) \in Nat
      /\ \A i \in 1..Len(jobs) : jobs'[i] = jobs[i]
      /\ jobs'[Len(jobs) + 1] = new
      /\ pushes' = pushes + 1
      /\ UNCHANGED <<pictures, epoch, owner, taken, job>>
  BY DEF Push, Jobs, local
<1>2. InPictures' = InPictures BY <1>1 DEF InPictures
<1>3. InThread' = InThread BY <1>1 DEF InThread, InFlight, Push, Signal
<1>4. InJobs' = IF want THEN InJobs \cup {Named(new, FALSE)} ELSE InJobs
  <2>1. ASSUME NEW x \in InJobs PROVE x \in InJobs'
    <3>1. PICK i \in 1..Len(jobs) : jobs[i].want /\ x = Named(jobs[i], FALSE) BY DEF InJobs
    <3>2. i \in 1..Len(jobs') /\ jobs'[i] = jobs[i] BY <1>1
    <3> QED BY <3>1, <3>2 DEF InJobs
  <2>2. ASSUME want PROVE Named(new, FALSE) \in InJobs'
    <3>1. Len(jobs) + 1 \in 1..Len(jobs') BY <1>1
    <3>2. jobs'[Len(jobs) + 1].want BY <1>1, <2>2
    <3> QED BY <1>1, <3>1, <3>2 DEF InJobs
  <2>3. ASSUME NEW x \in InJobs' PROVE x \in InJobs \/ (want /\ x = Named(new, FALSE))
    <3>1. PICK i \in 1..Len(jobs') : jobs'[i].want /\ x = Named(jobs'[i], FALSE) BY DEF InJobs
    <3>2. CASE i \in 1..Len(jobs)
      <4>1. jobs'[i] = jobs[i] BY <1>1, <3>2
      <4> QED BY <3>1, <3>2, <4>1 DEF InJobs
    <3>3. CASE i = Len(jobs) + 1
      <4>1. jobs'[i] = new BY <1>1, <3>3
      <4>2. new.want = want OBVIOUS
      <4> HIDE DEF new
      <4> QED BY <3>1, <4>1, <4>2
    <3>4. i \in 1..Len(jobs) \/ i = Len(jobs) + 1 BY <1>1
    <3> QED BY <3>2, <3>3, <3>4
  <2> QED BY <2>1, <2>2, <2>3
<1>5. Owed = InPictures \cup InJobs \cup InThread BY DEF Owed, InPictures, InJobs, InThread
<1>6. Owed' = InPictures' \cup InJobs' \cup InThread'
  BY <1>1 DEF Owed, InPictures, InJobs, InThread
<1>7. CASE want
  <2> DEFINE s == Named(new, FALSE)
  <2>1. Owed' = Owed \cup {s} BY <1>2, <1>3, <1>4, <1>5, <1>6, <1>7
  <2>2. s.id = pushes /\ ~s.blank BY DEF Named
  <2> HIDE DEF s
  <2> QED BY <1>1, <2>1, <2>2 DEF Feed!Want
<1>8. CASE ~want
  <2>1. Owed' = Owed BY <1>2, <1>3, <1>4, <1>5, <1>6, <1>8
  <2> QED BY <1>1, <2>1 DEF Feed!Skip
<1> QED BY <1>7, <1>8

\* What is ready when a picture is asked for: all that comes before the sample
\* in flight, or before the queue.
FirstOpen == IF InFlight THEN job.id ELSE NextId

LEMMA ReadyArePictures ==
  ASSUME ReadyInv, owner = "live"
  PROVE  /\ FirstOpen \in 0..pushes
         /\ InPictures = {x \in Owed : x.id < FirstOpen}
<1> USE DEF ReadyInv, TypeInv, WorkerTypeOK, HasJob
<1>1. NextId \in 0..pushes
  <2>1. CASE jobs = <<>> BY <2>1 DEF NextId
  <2>2. CASE jobs # <<>>
    <3>1. 1 \in 1..Len(jobs) /\ jobs[1] \in Jobs BY <2>2
    <3>2. jobs[1].id = NextId + 1 - 1 /\ jobs[1].id \in Nat
      BY <3>1 DEF FeedInv, JobsInOrder, Jobs
    <3>3. NextId \in Int /\ NextId <= pushes BY DEF NextId
    <3> QED BY <3>2, <3>3
  <2> QED BY <2>1, <2>2
<1>2. InFlight => job.id \in Nat /\ job.id < NextId
  BY DEF InFlight, IdsInOrder, Jobs
<1>3. FirstOpen \in 0..pushes /\ FirstOpen <= NextId
  BY <1>1, <1>2 DEF FirstOpen
<1>4. Owed = InPictures \cup InJobs \cup InThread BY DEF Owed, InPictures, InJobs, InThread
<1>5. ASSUME NEW x \in InPictures PROVE x.id < FirstOpen
  BY OwedInOrder DEF FirstOpen
<1>6. ASSUME NEW x \in InJobs PROVE ~(x.id < FirstOpen)
  BY <1>1, <1>3, OwedInOrder
<1>7. ASSUME NEW x \in InThread PROVE ~(x.id < FirstOpen)
  <2>1. InFlight BY DEF InThread
  <2> QED BY <1>2, <2>1, OwedInOrder DEF FirstOpen
<1> QED BY <1>3, <1>4, <1>5, <1>6, <1>7

\* A picture is not the empty answer.
LEMMA PictureOrNone == ASSUME NEW p \in Pictures PROVE p # <<>>
<1>1. "id" \in DOMAIN p BY DEF Pictures
<1>2. DOMAIN <<>> = {} OBVIOUS
<1> QED BY <1>1, <1>2, Zenon

\* A take is the delivery of what is ready and due.
LEMMA TakeDelivers ==
  ASSUME ReadyInv, owner = "live", NEW t \in Pts, Take(t)
  PROVE  Feed!Deliver(t)
<1> USE DEF ReadyInv, TypeInv, WorkerTypeOK
<1> DEFINE due    == {x \in InPictures : x.pts <= t}
           usable == {x \in due : ~x.blank}
           answer == IF taken = <<>> THEN <<>> ELSE Named(taken, FALSE)
<1>1. InPictures \in Feed!Prefixes
  BY ReadyArePictures DEF Feed!Prefixes
<1>2. /\ pictures' = pictures \ Due(t)
      /\ UNCHANGED <<jobs, epoch, owner, pushes, job>>
      /\ InFlight' <=> InFlight
  BY DEF Take, local, InFlight, Signal
<1>3. InJobs' = InJobs /\ InThread' = InThread
  BY <1>2 DEF InJobs, InThread
<1>4. InPictures' = InPictures \ due
  <2>1. ASSUME NEW p \in pictures
        PROVE  Named(p, ~p.textured).pts = p.pts
    BY DEF Named
  <2> QED BY <1>2, <2>1 DEF InPictures, Due
<1>5. \A x \in due : x \notin InJobs /\ x \notin InThread
  <2>1. NextId \in Int BY DEF NextId
  <2>2. ASSUME NEW x \in InPictures PROVE x \notin InJobs
    BY <2>1, OwedInOrder
  <2>3. ASSUME NEW x \in InPictures PROVE x \notin InThread
    <3>1. CASE InFlight BY <3>1, OwedInOrder
    <3>2. CASE ~InFlight BY <3>2 DEF InThread
    <3> QED BY <3>1, <3>2
  <2> QED BY <2>2, <2>3
<1>6. Owed = InPictures \cup InJobs \cup InThread BY DEF Owed, InPictures, InJobs, InThread
<1>7. Owed' = InPictures' \cup InJobs' \cup InThread'
  BY <1>2 DEF Owed, InPictures, InJobs, InThread
<1>8. Owed' = Owed \ due
  BY <1>3, <1>4, <1>5, <1>6, <1>7
<1>9. ASSUME NEW p \in Presentable(t)
      PROVE  Named(p, FALSE) \in usable
  <2>1. p \in pictures /\ p.pts <= t /\ p.textured = TRUE
    BY DEF Presentable, Due, Pictures
  <2>2. Named(p, FALSE) = Named(p, ~p.textured) /\ Named(p, FALSE).pts = p.pts /\ ~Named(p, FALSE).blank
    BY <2>1 DEF Named
  <2> QED BY <2>1, <2>2 DEF InPictures
<1>10. ASSUME NEW x \in usable
       PROVE  \E p \in Presentable(t) : x = Named(p, FALSE)
  <2>1. PICK p \in pictures : x = Named(p, ~p.textured) BY DEF InPictures
  <2>2. p.pts <= t /\ p.textured BY <2>1 DEF Named
  <2>3. p.textured = TRUE BY <2>2 DEF Pictures
  <2> QED BY <2>1, <2>2, <2>3 DEF Presentable, Due
<1>11. IF usable = {} THEN answer' = <<>> ELSE answer' \in usable /\ Feed!Newest(answer', usable)
  <2>1. CASE Presentable(t) = {}
    <3>1. usable = {} BY <1>10, <2>1
    <3>2. taken' = <<>> BY <2>1 DEF Take
    <3> QED BY <3>1, <3>2
  <2>2. CASE Presentable(t) # {}
    <3>1. PICK best \in Presentable(t) : IsNewest(best, Presentable(t)) /\ taken' = best
      BY <2>2 DEF Take
    <3>2. best \in Pictures BY DEF Presentable, Due
    <3>3. best # <<>> BY <3>2, PictureOrNone
    <3>4. answer' = Named(best, FALSE) BY <3>1, <3>3
    <3>5. answer' \in usable BY <1>9, <3>4
    <3>6. ASSUME NEW x \in usable
          PROVE  answer'.pts > x.pts \/ (answer'.pts = x.pts /\ answer'.id <= x.id)
      <4>1. PICK p \in Presentable(t) : x = Named(p, FALSE) BY <1>10
      <4>2. best.pts > p.pts \/ (best.pts = p.pts /\ best.id <= p.id)
        BY <3>1 DEF IsNewest
      <4> QED BY <3>4, <4>1, <4>2 DEF Named
    <3> QED BY <3>5, <3>6 DEF Feed!Newest
  <2> QED BY <2>1, <2>2
<1> HIDE DEF answer
<1>12. Owed' = Owed \ {x \in InPictures : x.pts <= t}
  BY <1>8
<1> QED
  BY <1>1, <1>2, <1>11, <1>12 DEF Feed!Deliver, answer

\* A restart and a free leave nothing owed.
LEMMA RestartResets ==
  ASSUME ReadyInv, owner = "live", Restart
  PROVE  Feed!Reset
<1> USE DEF ReadyInv, TypeInv, WorkerTypeOK, HasJob
<1>1. /\ jobs' = <<>> /\ pictures' = {} /\ epoch' = epoch + 1
      /\ UNCHANGED <<owner, pushes, taken, job>>
  BY DEF Restart, local
<1>2. ~InFlight'
  <2>1. thread' \in {"picked", "decoded"} => thread \in {"picked", "decoded"}
    BY DEF Restart, Signal
  <2>2. thread \in {"picked", "decoded"} => job.epoch <= epoch /\ job.epoch \in Nat
    BY DEF IdsInOrder, Jobs
  <2> QED BY <1>1, <2>1, <2>2 DEF InFlight
<1>3. Owed' = {}
  BY <1>1, <1>2 DEF Owed
<1> QED BY <1>1, <1>3 DEF Feed!Reset

\* Every step of the worker is one of the feed or shows nothing.
LEMMA FeedSimulates ==
  ASSUME ReadyInv, [WorkerNext]_workerVars
  PROVE  [Feed!Next]_(Feed!vars)
<1> USE DEF shared, local
<1>same. ASSUME UNCHANGED <<jobs, pictures, epoch, job, owner, pushes, taken>>,
                thread' \in {"picked", "decoded"} <=> thread \in {"picked", "decoded"}
         PROVE  [Feed!Next]_(Feed!vars)
  <2>1. Owed' = Owed BY <1>same DEF Owed, InFlight
  <2> QED BY <1>same, <2>1, OwedSame
<1>1. CASE Exit
  BY <1>1, <1>same DEF Exit
<1>2. CASE Wait
  BY <1>2, <1>same DEF Wait
<1>3. CASE Pick
  <2>1. owner' = owner /\ pushes' = pushes /\ taken' = taken BY <1>3 DEF Pick
  <2> QED BY <1>3, <2>1, PickShowsNothing, OwedSame
<1>4. CASE Decode
  BY <1>4, <1>same DEF Decode
<1>5. CASE Finish
  <2>1. owner' = owner /\ pushes' = pushes /\ taken' = taken BY <1>5 DEF Finish
  <2>2. CASE owner = "live"
    <3>1. Owed' = Owed \/ Feed!Blank BY <1>5, <2>2, FinishMayBlank
    <3> QED BY <2>1, <3>1, OwedSame DEF Feed!Next
  <2>3. CASE owner # "live"
    <3>1. Owed' = Owed BY <2>1, <2>3 DEF Owed
    <3> QED BY <2>1, <3>1, OwedSame
  <2> QED BY <2>2, <2>3
<1>6. CASE SpuriousWakeup
  BY <1>6, <1>same DEF SpuriousWakeup
<1>7. ASSUME owner = "live", NEW pts \in Pts, NEW want \in BOOLEAN, Push(pts, want)
      PROVE  [Feed!Next]_(Feed!vars)
  BY <1>7, PushAsks DEF Feed!Next
<1>8. CASE owner = "live" /\ Restart
  BY <1>8, RestartResets DEF Feed!Next
<1>9. ASSUME NEW n \in 0..MaxLimit, SetMaxPictures(n) PROVE [Feed!Next]_(Feed!vars)
  BY <1>9, <1>same DEF SetMaxPictures, Signal
<1>10. ASSUME owner = "live", NEW t \in Pts, Take(t) PROVE [Feed!Next]_(Feed!vars)
  <2>1. Feed!Deliver(t) BY <1>10, TakeDelivers
  <2> QED BY <2>1 DEF Feed!Next
<1>11. CASE FreeBegin
  <2>1. owner = "live" /\ owner' = "joining" /\ pushes' = pushes /\ taken' = taken
    BY <1>11 DEF FreeBegin
  <2>2. Owed' = {} BY <2>1 DEF Owed
  <2>3. Feed!Close BY <2>1, <2>2 DEF Feed!Close
  <2> QED BY <2>3 DEF Feed!Next
<1>12. CASE FreeJoin
  <2>1. owner = "joining" /\ owner' = "freed" /\ pushes' = pushes /\ taken' = taken
    BY <1>12 DEF FreeJoin
  <2>2. Owed' = Owed BY <2>1 DEF Owed
  <2> QED BY <2>1, <2>2 DEF Feed!vars
<1>13. CASE UNCHANGED workerVars
  BY <1>13, <1>same DEF workerVars
<1> QED
  BY <1>1, <1>2, <1>3, <1>4, <1>5, <1>6, <1>7, <1>8, <1>9, <1>10, <1>11,
     <1>12, <1>13 DEF WorkerNext, WorkerStep, OwnerCall

\* Under legal calls types, epochs and order hold at all times.
LEMMA ReadyHolds == WorkerRuns => []ReadyInv
<1>1. WorkerInit => FeedInv /\ IdsInOrder
  BY DEF WorkerInit, FeedInv, JobsInOrder, PickedIsNext, FedUpToNext,
         FedUpToPicked, DecoderCoherent, IdsInOrder, InFlight
<1>2. TypeInv /\ CurrentEpochOnly /\ FeedInv /\ IdsInOrder /\ [WorkerNext]_workerVars
        => FeedInv' /\ IdsInOrder'
  BY FeedStep, IdsStep DEF ReadyInv
<1> QED
  BY <1>1, <1>2, TypeHolds, EpochHolds, PTL DEF WorkerRuns, ReadyInv

\* A worker under legal calls is a feed.
LEMMA FeedHolds == WorkerRuns => ImplementsFeed
<1>1. WorkerInit => Feed!Init
  <2> SUFFICES ASSUME WorkerInit PROVE Feed!Init
    OBVIOUS
  <2>1. Owed = {} BY DEF WorkerInit, Owed, InFlight
  <2> QED BY <2>1 DEF WorkerInit, Feed!Init
<1>2. ReadyInv /\ [WorkerNext]_workerVars => [Feed!Next]_(Feed!vars)
  BY FeedSimulates
<1> QED
  BY <1>1, <1>2, ReadyHolds, PTL DEF WorkerRuns, ImplementsFeed, Feed!Spec

\* Whatever the interleaving of the thread with push, restart, take and free,
\* the worker is a feed: what is wanted is owed until a restart, is delivered at
\* most once, in order and newest first.
THEOREM WorkerIsFeed == WorkerSpec => ImplementsFeed
BY FeedHolds, PTL DEF WorkerSpec, WorkerRuns

-----------------------------------------------------------------------------
(* The pipeline *)

\* The worker is freed only once the engine thread has detached the layer, and
\* no call of mse_show, which attaches it, begins after that.
Detached ==
  /\ "attached" \in DOMAIN layer
  /\ layer.attached => owner = "live" /\ engine # "freeing"
  /\ owner # "live" => engine = "freeing"

\* No step of the decode thread, and no call but the two of free, ends the
\* ownership of the worker.
LEMMA OwnerKept ==
  /\ WorkerStep => owner' = owner
  /\ Restart => owner' = owner
  /\ \A n : SetMaxPictures(n) => owner' = owner
  /\ \A t : Take(t) => owner' = owner
  /\ \A pts, want : Push(pts, want) => owner' = owner
BY DEF WorkerStep, Exit, Wait, Pick, Decode, Finish, SpuriousWakeup, Restart,
       SetMaxPictures, Take, Push, shared, local

\* Presenting shows another picture and leaves the attachment alone.
LEMMA PresentKeeps ==
  ASSUME NEW t, NEW l, "attached" \in DOMAIN l, PresentLocked(t, l)
  PROVE  owner' = owner /\ "attached" \in DOMAIN layer' /\ layer'.attached = l.attached
<1>1. CASE ~l.attached
  BY <1>1 DEF PresentLocked, workerVars
<1>2. CASE l.attached
  <2>1. Take(t)
    BY <1>2 DEF PresentLocked
  <2>2. PICK g, p : layer' = l \/ layer' = [l EXCEPT !.gen = g, !.picture = p]
    BY <1>2 DEF PresentLocked
  <2> QED BY <2>1, <2>2, OwnerKept
<1> QED BY <1>1, <1>2

\* A tick of the view's clock leaves everything of the engine alone.
LEMMA AnimTickKeeps ==
  ASSUME NEW ask, AnimTick(ask), "attached" \in DOMAIN layer
  PROVE  /\ UNCHANGED <<loaded, clock, stream, engine, call, repaint, shifts>>
         /\ owner' = owner /\ "attached" \in DOMAIN layer' /\ layer'.attached = layer.attached
<1> DEFINE l == [layer EXCEPT !.fresh = TRUE]
<1>1. PresentLocked(clock.pos, l) \/ (layer' = l /\ UNCHANGED workerVars)
  BY DEF AnimTick, PresentNow
<1>2. "attached" \in DOMAIN l /\ l.attached = layer.attached OBVIOUS
<1> HIDE DEF l
<1>3. owner' = owner /\ "attached" \in DOMAIN layer' /\ layer'.attached = l.attached
  BY <1>1, <1>2, PresentKeeps DEF workerVars
<1> QED BY <1>2, <1>3 DEF AnimTick

\* A render, with or without a tick, leaves the worker and the pictures alone.
LEMMA RenderKeeps ==
  ASSUME EndTick \/ RenderUnticked
  PROVE  /\ UNCHANGED <<workerVars, loaded, clock, stream>>
         /\ engine # "freeing"
         /\ engine' = engine \/ engine' = "idle"
         /\ \E b, f : layer' = [layer EXCEPT !.composited = b, !.fresh = f]
         /\ \E b : call' = [call EXCEPT !.behind = b]
<1>1. PICK b \in BOOLEAN : Paint(b) BY DEF EndTick, RenderUnticked
<1>2. UNCHANGED <<workerVars, loaded, clock, stream>> BY <1>1 DEF Paint
<1>3. \E f : layer' = [layer EXCEPT !.composited = b, !.fresh = f] BY <1>1 DEF Paint
<1>4. \E c : call' = [call EXCEPT !.behind = c] BY <1>1 DEF Paint
<1>5. engine # "freeing" /\ (engine' = engine \/ engine' = "idle")
  BY DEF EndTick, RenderUnticked
<1> QED BY <1>2, <1>3, <1>4, <1>5

\* Every step of the three threads keeps that order.
LEMMA DetachedStep ==
  ASSUME Detached, [PipelineNext]_videoVars
  PROVE  Detached'
<1>1. ASSUME owner' = owner, layer' = layer, engine # "freeing", engine' # "freeing"
      PROVE  Detached'
  BY <1>1 DEF Detached
<1>2. ASSUME owner' = owner, "attached" \in DOMAIN layer', layer'.attached = layer.attached, engine' = engine
      PROVE  Detached'
  BY <1>2 DEF Detached
<1>3. CASE DecoderThread
  BY <1>2, <1>3, OwnerKept DEF DecoderThread, Detached
<1>4. CASE Show
  <2>1. CASE ShowBegin
    <3>1. /\ owner' = owner /\ owner = "live" /\ engine' = "sync"
          /\ layer' = [layer EXCEPT !.attached = TRUE]
      BY <2>1 DEF ShowBegin, workerVars
    <3> QED BY <3>1 DEF Detached
  <2>2. CASE ShowSync
    BY <1>1, <2>2 DEF ShowSync, workerVars
  <2>3. CASE ShowPresent
    <3>1. /\ owner' = owner /\ "attached" \in DOMAIN layer' /\ layer'.attached = layer.attached
          /\ engine = "present" /\ engine' = "resync"
      BY <2>3, PresentKeeps DEF ShowPresent, Detached, workerVars
    <3> QED BY <3>1 DEF Detached
  <2>4. CASE ShowResync
    BY <1>1, <2>4 DEF ShowResync, workerVars
  <2>5. CASE ShowExpects
    BY <1>1, <2>5 DEF ShowExpects, workerVars
  <2>6. CASE ShowShownPts
    BY <1>1, <2>6 DEF ShowShownPts, workerVars
  <2>7. CASE ShowRestart
    BY <1>1, <2>7, OwnerKept DEF ShowRestart
  <2>8. CASE ShowLimit
    BY <1>1, <2>8, OwnerKept DEF ShowLimit
  <2>9. CASE ShowFeed
    BY <1>1, <2>9, OwnerKept DEF ShowFeed
  <2>10. CASE ShowEnd
    BY <1>1, <2>10 DEF ShowEnd, workerVars
  <2> QED BY <1>4, <2>1, <2>2, <2>3, <2>4, <2>5, <2>6, <2>7, <2>8, <2>9, <2>10 DEF Show
<1>5. CASE \E ask \in BOOLEAN : AnimTick(ask)
  <2>1. "attached" \in DOMAIN layer BY DEF Detached
  <2> QED BY <1>2, <1>5, <2>1, AnimTickKeeps
<1>6. CASE EndTick \/ RenderUnticked
  <2>1. owner' = owner BY <1>6, RenderKeeps DEF workerVars
  <2>2. engine # "freeing" /\ engine' # "freeing" BY <1>6, RenderKeeps
  <2>3. "attached" \in DOMAIN layer' /\ layer'.attached = layer.attached
    BY <1>6, RenderKeeps DEF Detached
  <2> QED BY <2>1, <2>2, <2>3 DEF Detached
<1>10. CASE GoStale
  <2>1. "attached" \in DOMAIN layer' /\ layer'.attached = layer.attached
    BY <1>10 DEF GoStale, Detached
  <2> QED BY <1>2, <1>10, <2>1 DEF GoStale, workerVars
<1>7. CASE \/ Tick \/ AppendFrames \/ PageRepaint \/ Wake \/ ViewAsks \/ UNCHANGED videoVars
           \/ \E p \in 0..End : Seek(p)
           \/ \E b \in BOOLEAN : SetPaused(b)
           \/ \E d \in {-1, 1} : Shift(d)
  <2>1. owner' = owner /\ layer' = layer /\ engine' = engine
    BY <1>7 DEF Tick, AppendFrames, PageRepaint, Wake, ViewAsks, Seek, SetPaused, Shift,
                videoVars, workerVars
  <2> QED BY <1>2, <2>1 DEF Detached
<1>8. CASE Detach
  <2>1. layer' = [layer EXCEPT !.attached = FALSE, !.detached = TRUE, !.composited = FALSE] /\ engine' = "freeing"
    BY <1>8 DEF Detach
  <2> QED BY <2>1 DEF Detached
<1>9. CASE FreeWorker
  BY <1>9 DEF FreeWorker, Detached
<1> QED
  BY <1>3, <1>4, <1>5, <1>6, <1>7, <1>8, <1>9, <1>10 DEF PipelineNext

\* The view thread never asks a worker that is being freed, for any track and
\* any order of the three threads (ns_video_stream_free, layer_present_locked).
THEOREM LayerSafety == PipelineSpec => []NoUseAfterFree
<1>1. PipelineInit => Detached
  BY DEF PipelineInit, WorkerInit, Detached
<1>2. Detached /\ [PipelineNext]_videoVars => Detached'
  BY DetachedStep
<1>3. Detached => NoUseAfterFree
  BY DEF Detached, NoUseAfterFree
<1> QED BY <1>1, <1>2, <1>3, PTL DEF PipelineSpec

-----------------------------------------------------------------------------
(* The pipeline uses the worker well: its calls are those of WorkerNext, so *)
(* that all that is promised of the worker holds within the pipeline.       *)

\* Sets of numbers have a least one, and a greatest if they are bounded.
LEMMA LeastOf ==
  ASSUME NEW S, S \subseteq Nat, S # {}
  PROVE  \E m \in S : \A x \in S : m <= x
<1>1. PICK R : R = OpToRel(<, Nat) /\ IsWellFoundedOn(R, Nat)
  BY NatLessThanWellFounded
<1>2. PICK m \in S : \A y \in S : ~(<<y, m>> \in R)
  BY <1>1, WFMin
<1>3. ASSUME NEW x \in S PROVE m <= x
  <2>1. <<x, m>> \in Nat \X Nat BY <1>2
  <2>2. x < m => <<x, m>> \in R BY <1>1, <2>1 DEF OpToRel
  <2> QED BY <1>2, <2>2
<1> QED BY <1>2, <1>3

\* Of a set of indices there is one at which a bounded measure is greatest.
LEMMA GreatestBy ==
  ASSUME NEW S, S # {}, NEW t \in Int, NEW f, \A i \in S : f[i] \in Int /\ f[i] <= t
  PROVE  \E m \in S : \A i \in S : f[i] <= f[m]
<1> DEFINE gaps == {t - f[i] : i \in S}
<1>1. gaps \subseteq Nat /\ gaps # {}
  OBVIOUS
<1>2. PICK g \in gaps : \A x \in gaps : g <= x
  <2> HIDE DEF gaps
  <2> QED BY <1>1, LeastOf
<1>3. PICK m \in S : g = t - f[m]
  BY <1>2
<1>4. ASSUME NEW i \in S PROVE f[i] <= f[m]
  <2>1. t - f[i] \in gaps OBVIOUS
  <2>2. t - f[m] <= t - f[i] BY <1>2, <1>3, <2>1
  <2> QED BY <2>2
<1> QED BY <1>4

LEMMA GreatestOf ==
  ASSUME NEW n \in Nat, NEW S, S \subseteq 1..n, S # {}
  PROVE  \E m \in S : \A i \in S : i <= m
<1> DEFINE f == [i \in S |-> i]
<1>1. \A i \in S : f[i] \in Int /\ f[i] <= n /\ f[i] = i
  OBVIOUS
<1> HIDE DEF f
<1>2. n \in Int /\ \A i \in S : f[i] \in Int /\ f[i] <= n
  BY <1>1
<1>3. \E m \in S : \A i \in S : f[i] <= f[m]
  BY <1>2, GreatestBy, Zenon
<1> QED BY <1>1, <1>3

LEMMA ElementOf == ASSUME NEW T, NEW s \in Seq(T), NEW i \in 1..Len(s) PROVE s[i] \in T
OBVIOUS

\* The track, frame by frame.
LEMMA Track ==
  /\ Len(Frames) \in Nat /\ Len(Frames) >= 1 /\ Frames[1].key
  /\ \A i \in 1..Len(Frames) : Frames[i].pts \in Pts /\ Frames[i].pts \in Nat
  /\ End \in Nat /\ 0..End \subseteq Pts
<1>1. Len(Frames) \in Nat /\ Len(Frames) >= 1 /\ Frames[1].key
  BY PipelineAssumption DEF PipelineAssumption
<1>2. ASSUME NEW i \in 1..Len(Frames) PROVE Frames[i].pts \in Pts /\ Frames[i].pts \in Nat
  <2>a. Frames \in Seq([pts : Pts, key : BOOLEAN])
    BY PipelineAssumption DEF PipelineAssumption
  <2>1. Frames[i] \in [pts : Pts, key : BOOLEAN]
    BY <2>a, ElementOf
  <2> QED BY <2>1, WorkerAssumption DEF WorkerAssumption
<1>3. End \in Nat BY <1>1, <1>2 DEF End
<1>4. 0..End \subseteq Pts BY PipelineAssumption DEF PipelineAssumption, End
<1> QED BY <1>1, <1>2, <1>3, <1>4

\* The frame for a time is one of those loaded, if there is one.
LEMMA FrameAtLoaded ==
  ASSUME loaded \in 1..Len(Frames), NEW t \in Int
  PROVE  FrameAt(t) = 0 \/ FrameAt(t) \in 1..loaded
<1> DEFINE by  == {i \in 1..loaded : Frames[i].pts <= t}
           run == {i \in by : \A k \in by : Frames[k].key => k <= i}
           IsBest(i) == i \in run /\ \A j \in run : Frames[j].pts <= Frames[i].pts
<1>0. loaded \in Nat /\ \A i \in 1..loaded : i \in 1..Len(Frames)
  BY Track
<1>1. CASE by = {}
  BY <1>1 DEF FrameAt
<1>2. CASE by # {}
  <2>1. run # {}
    <3>1. by \subseteq 1..loaded OBVIOUS
    <3>2. PICK m \in by : \A i \in by : i <= m
      <4> HIDE DEF by
      <4> QED BY <1>0, <1>2, <3>1, GreatestOf
    <3> QED BY <3>2
  <2>2. \E i : IsBest(i)
    <3> DEFINE f == [i \in run |-> Frames[i].pts]
    <3>1. \A i \in run : f[i] = Frames[i].pts /\ f[i] \in Int /\ f[i] <= t
      BY <1>0, Track
    <3> HIDE DEF f, run
    <3>2. PICK m \in run : \A i \in run : f[i] <= f[m]
      BY <2>1, <3>1, GreatestBy
    <3> QED BY <3>1, <3>2
  <2> DEFINE best == CHOOSE i \in run : \A j \in run : Frames[j].pts <= Frames[i].pts
  <2>3. best \in run BY <2>2
  <2>4. FrameAt(t) = IF by = {} \/ t > Frames[best].pts + 1 THEN 0 ELSE best
    BY Zenon DEF FrameAt
  <2>5. best \in 1..loaded BY <2>3
  <2> HIDE DEF best
  <2> QED BY <2>4, <2>5
<1> QED BY <1>1, <1>2

\* There is a keyframe to begin at for every frame.
LEMMA KeyframeIsFrame ==
  ASSUME NEW i \in 1..Len(Frames)
  PROVE  KeyframeFor(i) \in 1..i
<1> DEFINE keys == {j \in 1..i : Frames[j].key}
<1>1. i \in Nat /\ keys \subseteq 1..i /\ 1 \in keys
  BY Track
<1>2. \E m \in keys : \A j \in keys : j <= m
  <2> HIDE DEF keys
  <2> QED BY <1>1, GreatestOf
<1>3. Last(keys) \in keys
  <2> HIDE DEF keys
  <2> QED BY <1>2 DEF Last
<1> QED BY <1>1, <1>3 DEF KeyframeFor

-----------------------------------------------------------------------------
\* Where the pipeline stands in the track, and what it shows.
Shown == {NoPicture} \cup [id : Nat, pts : Pts]

Placed ==
  /\ loaded \in 1..Len(Frames)
  /\ "pos" \in DOMAIN clock /\ clock.pos \in 0..End
  /\ "picture" \in DOMAIN layer /\ layer.picture \in Shown
  /\ {"picture", "fed"} \subseteq DOMAIN stream
  /\ stream.picture \in Shown /\ stream.fed \in Nat
  /\ {"t", "target", "last"} \subseteq DOMAIN call
  /\ call.t \in Int /\ call.last \in Nat
  /\ engine \notin {"idle", "sync", "tick", "freeing"} => call.target \in 1..loaded

LEMMA ShownAtTime == ASSUME NEW p \in Shown PROVE p.pts \in Int
<1>1. CASE p = NoPicture BY <1>1 DEF NoPicture
<1>2. CASE p \in [id : Nat, pts : Pts]
  <2>1. p.pts \in Pts BY <1>2
  <2>2. Pts \subseteq Nat BY WorkerAssumption DEF WorkerAssumption
  <2>3. PICK n \in Nat : n = p.pts BY <2>1, <2>2
  <2> QED BY <2>3
<1> QED BY <1>1, <1>2 DEF Shown

\* What mse_show aims at is a time of the track.
LEMMA GoalInTrack ==
  ASSUME Placed, engine \notin {"idle", "sync", "tick", "freeing"}
  PROVE  call.target \in 1..Len(Frames) /\ Goal \in Pts
<1>1. call.target \in 1..Len(Frames) BY Track DEF Placed
<1> QED BY <1>1, Track DEF Goal

\* To present is to take a picture from a live worker, or to do nothing.
LEMMA PresentIsLegal ==
  ASSUME TypeInv, Detached, NEW t \in Pts, NEW l, l.attached = layer.attached,
         PresentLocked(t, l)
  PROVE  [WorkerNext]_workerVars
<1>1. CASE ~l.attached BY <1>1 DEF PresentLocked
<1>2. CASE l.attached
  <2>1. owner = "live" /\ Take(t) BY <1>2 DEF PresentLocked, Detached
  <2> QED BY <2>1 DEF WorkerNext, OwnerCall
<1> QED BY <1>1, <1>2

\* Every step of the three threads is a step of the worker, a legal call of
\* it, or none of its business.
LEMMA CallsAreLegal ==
  ASSUME TypeInv, Detached, Placed, [PipelineNext]_videoVars
  PROVE  [WorkerNext]_workerVars
<1>1. CASE DecoderThread
  BY <1>1 DEF DecoderThread, WorkerNext
<1>2. CASE Show
  <2>1. CASE ShowBegin \/ ShowSync \/ ShowResync \/ ShowExpects \/ ShowShownPts \/ ShowEnd
    BY <2>1 DEF ShowBegin, ShowSync, ShowResync, ShowExpects, ShowShownPts, ShowEnd
  <2>2. CASE ShowPresent
    <3>1. Goal \in Pts BY <2>2, GoalInTrack DEF ShowPresent
    <3>2. PresentLocked(Goal, layer) \/ UNCHANGED workerVars BY <2>2 DEF ShowPresent
    <3> QED BY <3>1, <3>2, PresentIsLegal
  <2>3. CASE ShowRestart
    <3>1. owner = "live" BY <2>3 DEF ShowRestart, Detached
    <3> QED BY <2>3, <3>1 DEF ShowRestart, WorkerNext, OwnerCall
  <2>4. CASE ShowLimit
    <3>1. owner = "live" BY <2>4 DEF ShowLimit, Detached
    <3>2. PICK n : (n = DefaultLimit \/ n = MaxLimit) /\ SetMaxPictures(n)
      BY <2>4 DEF ShowLimit
    <3>3. n \in 0..MaxLimit BY <3>2, WorkerAssumption DEF WorkerAssumption
    <3> QED BY <3>1, <3>2, <3>3 DEF WorkerNext, OwnerCall
  <2>5. CASE ShowFeed
    <3>1. owner = "live" BY <2>5 DEF ShowFeed, Detached
    <3>2. PICK i, want : /\ i = call.last + 1 /\ want \in BOOLEAN /\ i <= loaded
                         /\ Push(Frames[i].pts, want)
      BY <2>5 DEF ShowFeed, MustFeed
    <3>3. i \in 1..Len(Frames) BY <3>2, Track DEF Placed
    <3>4. Frames[i].pts \in Pts BY <3>3, Track
    <3> QED BY <3>1, <3>2, <3>4 DEF WorkerNext, OwnerCall
  <2> QED BY <1>2, <2>1, <2>2, <2>3, <2>4, <2>5 DEF Show
<1>3. CASE \E ask \in BOOLEAN : AnimTick(ask)
  <2> DEFINE l == [layer EXCEPT !.fresh = TRUE]
  <2>1. clock.pos \in Pts BY Track DEF Placed
  <2>2. PresentLocked(clock.pos, l) \/ UNCHANGED workerVars BY <1>3 DEF AnimTick, PresentNow
  <2>3. l.attached = layer.attached BY DEF Detached
  <2> HIDE DEF l
  <2> QED BY <2>1, <2>2, <2>3, PresentIsLegal
<1>4. CASE FreeWorker
  <2>1. CASE FreeBegin BY <2>1 DEF FreeBegin, WorkerNext, OwnerCall
  <2>2. CASE FreeJoin BY <2>2 DEF WorkerNext
  <2> QED BY <1>4, <2>1, <2>2 DEF FreeWorker
<1>5. CASE \/ GoStale \/ Tick \/ AppendFrames \/ PageRepaint \/ Detach \/ Wake \/ ViewAsks
           \/ \E p \in 0..End : Seek(p)
           \/ \E b \in BOOLEAN : SetPaused(b)
           \/ \E d \in {-1, 1} : Shift(d)
           \/ UNCHANGED videoVars
  BY <1>5 DEF GoStale, Tick, AppendFrames, PageRepaint, Detach, Wake, ViewAsks, Seek, SetPaused,
              Shift, videoVars
<1>6. CASE EndTick \/ RenderUnticked
  BY <1>6, RenderKeeps
<1> QED BY <1>1, <1>2, <1>3, <1>4, <1>5, <1>6 DEF PipelineNext

\* What a layer shows once it has been presented.
LEMMA PresentShows ==
  ASSUME TypeInv', NEW t, NEW l, "picture" \in DOMAIN l,
         l.picture \in Shown, PresentLocked(t, l)
  PROVE  "picture" \in DOMAIN layer' /\ layer'.picture \in Shown
<1>1. CASE layer' = l BY <1>1
<1>2. CASE layer' # l
  <2>1. /\ taken' # <<>>
        /\ layer' = [l EXCEPT !.gen = clock.gen,
                                  !.picture = [id |-> taken'.id, pts |-> taken'.pts]]
    BY <1>2 DEF PresentLocked
  <2>2. taken' \in Pictures BY <2>1 DEF TypeInv, WorkerTypeOK
  <2>3. [id |-> taken'.id, pts |-> taken'.pts] \in Shown BY <2>2 DEF Pictures, Shown
  <2>4. "picture" \in DOMAIN layer' /\ layer'.picture = [id |-> taken'.id, pts |-> taken'.pts]
    BY <2>1
  <2> QED BY <2>3, <2>4
<1> QED BY <1>1, <1>2

\* What mse_sync_texture adopts is something shown.
LEMMA SyncedShows ==
  ASSUME Placed
  PROVE  LET s == Synced(stream)
         IN  {"picture", "fed"} \subseteq DOMAIN s /\ s.picture \in Shown /\ s.fed = stream.fed
BY DEF Placed, Synced

\* Every step keeps the pipeline within its track.
LEMMA PlacedStep ==
  ASSUME TypeInv', Placed, Detached, [PipelineNext]_videoVars
  PROVE  Placed'
<1>same. ASSUME UNCHANGED <<loaded, clock, layer, stream, call>>,
                engine' \notin {"idle", "sync", "tick", "freeing"} =>
                  engine \notin {"idle", "sync", "tick", "freeing"}
         PROVE  Placed'
  BY <1>same DEF Placed
<1>a. loaded \in Nat BY Track DEF Placed
<1>1. CASE DecoderThread
  BY <1>1, <1>same DEF DecoderThread
<1>2. CASE Show
  <2>1. CASE ShowBegin
    <3>1. PICK c : /\ layer' = [layer EXCEPT !.attached = TRUE]
                   /\ stream' = [stream EXCEPT !.waiting = FALSE]
                   /\ call' = [call EXCEPT !.t = clock.pos, !.behind = FALSE, !.late = FALSE,
                                           !.composited = c]
                   /\ engine' = "sync" /\ UNCHANGED <<loaded, clock>>
      BY <2>1 DEF ShowBegin
    <3>2. clock.pos \in Int BY Track DEF Placed
    <3> QED BY <3>1, <3>2 DEF Placed
  <2>2. CASE ShowSync
    <3> DEFINE s == Synced(stream)
               t == Adjusted(s, call.t)
    <3>1. /\ stream' = s /\ call' = [call EXCEPT !.t = t, !.target = FrameAt(t)]
          /\ engine' = IF FrameAt(t) = 0 THEN "tick" ELSE "present"
          /\ UNCHANGED <<loaded, clock, layer>>
      BY <2>2 DEF ShowSync
    <3>2. {"picture", "fed"} \subseteq DOMAIN s /\ s.picture \in Shown /\ s.fed = stream.fed
      BY SyncedShows
    <3>3. t \in Int
      <4>1. s.picture.pts \in Int BY <3>2, ShownAtTime
      <4>2. call.t \in Int BY DEF Placed
      <4> QED BY <4>1, <4>2 DEF Adjusted
    <3> HIDE DEF s, t
    <3>4. FrameAt(t) = 0 \/ FrameAt(t) \in 1..loaded BY <3>3, FrameAtLoaded DEF Placed
    <3>5. /\ {"t", "target", "last"} \subseteq DOMAIN call'
          /\ call'.t = t /\ call'.target = FrameAt(t) /\ call'.last = call.last
      BY <3>1 DEF Placed
    <3>6. engine' # "tick" => FrameAt(t) \in 1..loaded BY <3>1, <3>4
    <3> QED BY <3>1, <3>2, <3>3, <3>5, <3>6 DEF Placed
  <2>3. CASE ShowPresent
    <3>1. engine' = "resync" /\ engine = "present" /\ UNCHANGED <<loaded, clock, stream, call>>
      BY <2>3 DEF ShowPresent
    <3>2. PresentLocked(Goal, layer) \/ layer' = layer BY <2>3 DEF ShowPresent
    <3>3. "picture" \in DOMAIN layer' /\ layer'.picture \in Shown
      BY <3>2, PresentShows DEF Placed
    <3> QED BY <3>1, <3>3 DEF Placed
  <2>4. CASE ShowResync
    <3>1. PICK a, b, c : call' = [call EXCEPT !.shown = a, !.last = stream.fed, !.stale = b, !.misled = c]
      BY <2>4 DEF ShowResync
    <3>2. /\ stream' = Synced(stream) /\ engine = "resync"
          /\ UNCHANGED <<loaded, clock, layer>>
      BY <2>4 DEF ShowResync
    <3>3. /\ {"t", "target", "last"} \subseteq DOMAIN call'
          /\ call'.t = call.t /\ call'.target = call.target /\ call'.last = stream.fed
      BY <3>1 DEF Placed
    <3> QED BY <3>2, <3>3, SyncedShows DEF Placed
  <2>5. CASE ShowExpects
    <3>1. PICK c : call' = [call EXCEPT !.misled = c]
      BY <2>5 DEF ShowExpects
    <3>2. engine = "expects" /\ UNCHANGED <<loaded, clock, layer, stream>>
      BY <2>5 DEF ShowExpects
    <3> QED BY <3>1, <3>2 DEF Placed
  <2>6. CASE ShowShownPts \/ ShowLimit
    BY <2>6, <1>same DEF ShowShownPts, ShowLimit
  <2>7. CASE ShowRestart
    <3>1. /\ call' = [call EXCEPT !.last = KeyframeFor(call.target) - 1]
          /\ engine = "restart" /\ UNCHANGED <<loaded, clock, layer, stream>>
      BY <2>7 DEF ShowRestart
    <3>2. call.target \in 1..Len(Frames) BY <3>1, GoalInTrack
    <3>3. KeyframeFor(call.target) - 1 \in Nat BY <3>2, KeyframeIsFrame
    <3> HIDE DEF KeyframeFor
    <3> QED BY <3>1, <3>3 DEF Placed
  <2>8. CASE ShowFeed
    <3>1. /\ call' = [call EXCEPT !.last = call.last + 1]
          /\ stream' = [stream EXCEPT !.fed = call.last + 1]
          /\ UNCHANGED <<loaded, clock, layer, engine>>
      BY <2>8 DEF ShowFeed
    <3> QED BY <3>1 DEF Placed
  <2>9. CASE ShowEnd
    <3>1. PICK w : stream' = [stream EXCEPT !.waiting = w]
      BY <2>9 DEF ShowEnd
    <3>2. /\ call' = [call EXCEPT !.t = 0, !.composited = FALSE, !.target = 0, !.last = 0,
                                  !.shown = FALSE]
          /\ engine' = "tick" /\ UNCHANGED <<loaded, clock, layer>>
      BY <2>9 DEF ShowEnd
    <3> QED BY <3>1, <3>2 DEF Placed
  <2> QED BY <1>2, <2>1, <2>2, <2>3, <2>4, <2>5, <2>6, <2>7, <2>8, <2>9 DEF Show
<1>3. CASE \E ask \in BOOLEAN : AnimTick(ask)
  <2> DEFINE l == [layer EXCEPT !.fresh = TRUE]
  <2>1. UNCHANGED <<loaded, clock, stream, engine, call>> BY <1>3 DEF AnimTick
  <2>2. PresentLocked(clock.pos, l) \/ layer' = l BY <1>3 DEF AnimTick, PresentNow
  <2>3. "picture" \in DOMAIN l /\ l.picture \in Shown BY DEF Placed
  <2> HIDE DEF l
  <2>4. "picture" \in DOMAIN layer' /\ layer'.picture \in Shown
    BY <2>2, <2>3, PresentShows
  <2> QED BY <2>1, <2>4 DEF Placed
<1>4. CASE FreeWorker
  BY <1>4, <1>same DEF FreeWorker
<1>5. CASE GoStale \/ Detach
  <2>1. "picture" \in DOMAIN layer' /\ layer'.picture = layer.picture
    BY <1>5 DEF GoStale, Detach, Placed
  <2>2. UNCHANGED <<loaded, clock, stream, call>> /\ (engine' = engine \/ engine' = "freeing")
    BY <1>5 DEF GoStale, Detach
  <2> QED BY <2>1, <2>2 DEF Placed
<1>6. CASE EndTick \/ RenderUnticked
  <2>1. "picture" \in DOMAIN layer' /\ layer'.picture = layer.picture
    BY <1>6, RenderKeeps DEF Placed
  <2>2. /\ {"t", "target", "last"} \subseteq DOMAIN call'
        /\ call'.t = call.t /\ call'.target = call.target /\ call'.last = call.last
    BY <1>6, RenderKeeps DEF Placed
  <2>3. UNCHANGED <<loaded, clock, stream>> /\ (engine' = engine \/ engine' = "idle")
    BY <1>6, RenderKeeps
  <2> QED BY <2>1, <2>2, <2>3 DEF Placed
<1>7. CASE Tick
  <2>1. clock' = [clock EXCEPT !.pos = clock.pos + 1] /\ call' = [call EXCEPT !.behind = TRUE]
        /\ clock.pos < End /\ UNCHANGED <<loaded, layer, stream, engine>>
    BY <1>7 DEF Tick
  <2>2. clock.pos + 1 \in 0..End BY <2>1, Track DEF Placed
  <2> QED BY <2>1, <2>2 DEF Placed
<1>8. ASSUME NEW p \in 0..End, Seek(p) PROVE Placed'
  <2>1. PICK g : clock' = [clock EXCEPT !.pos = p, !.gen = g]
    BY <1>8 DEF Seek
  <2>2. UNCHANGED <<loaded, layer, stream, engine>> BY <1>8 DEF Seek
  <2>3. "pos" \in DOMAIN clock' /\ clock'.pos = p BY <2>1 DEF Placed
  <2>4. PICK b : call' = [call EXCEPT !.behind = b] BY <1>8 DEF Seek
  <2> QED BY <1>8, <2>2, <2>3, <2>4 DEF Placed
<1>9. ASSUME NEW b \in BOOLEAN, SetPaused(b) PROVE Placed'
  BY <1>9 DEF SetPaused, Placed
<1>10. ASSUME NEW d \in {-1, 1}, Shift(d) PROVE Placed'
  <2>1. clock' = [clock EXCEPT !.pos = clock.pos + d] /\ call' = [call EXCEPT !.behind = TRUE]
        /\ clock.pos + d \in 0..End /\ UNCHANGED <<loaded, layer, stream, engine>>
    BY <1>10 DEF Shift
  <2> QED BY <2>1 DEF Placed
<1>11. CASE AppendFrames
  <2>1. /\ loaded' \in (loaded + 1)..Len(Frames) /\ call' = [call EXCEPT !.late = TRUE]
        /\ engine \in {"idle", "tick"} /\ UNCHANGED <<clock, layer, stream, engine>>
    BY <1>11 DEF AppendFrames, Between
  <2>2. loaded' \in 1..Len(Frames) BY <1>a, <2>1, Track
  <2> QED BY <2>1, <2>2 DEF Placed
<1>12. CASE PageRepaint \/ Wake \/ ViewAsks \/ UNCHANGED videoVars
  BY <1>12, <1>same DEF PageRepaint, Wake, ViewAsks, videoVars
<1> QED
  BY <1>1, <1>2, <1>3, <1>4, <1>5, <1>6, <1>7, <1>8, <1>9, <1>10, <1>11, <1>12 DEF PipelineNext

PipelineInv == TypeInv /\ Detached /\ Placed

\* The three threads keep the types of the worker, the life of the layer and
\* the place in the track.
LEMMA PipelineHolds == PipelineSpec => []PipelineInv /\ [][WorkerNext]_workerVars
<1>1. PipelineInit => PipelineInv
  <2> SUFFICES ASSUME PipelineInit PROVE PipelineInv
    OBVIOUS
  <2>1. TypeInv BY WorkerStarts DEF PipelineInit
  <2>2. Detached BY DEF PipelineInit, WorkerInit, Detached
  <2>3. loaded \in 1..Len(Frames) BY Track DEF PipelineInit
  <2>4. 0 \in 0..End BY Track
  <2>5. Placed BY <2>3, <2>4 DEF PipelineInit, Placed, Shown
  <2> QED BY <2>1, <2>2, <2>5 DEF PipelineInv
<1>2. PipelineInv /\ [PipelineNext]_videoVars => [WorkerNext]_workerVars
  BY CallsAreLegal DEF PipelineInv
<1>3. PipelineInv /\ [PipelineNext]_videoVars => PipelineInv'
  <2> SUFFICES ASSUME PipelineInv, [PipelineNext]_videoVars PROVE PipelineInv'
    OBVIOUS
  <2>1. TypeInv' BY <1>2, TypeStep DEF PipelineInv
  <2>2. Detached' BY DetachedStep DEF PipelineInv
  <2>3. Placed' BY <2>1, PlacedStep DEF PipelineInv
  <2> QED BY <2>1, <2>2, <2>3 DEF PipelineInv
<1> QED BY <1>1, <1>2, <1>3, PTL DEF PipelineSpec

\* Within the pipeline the worker is called as its promises need it, and keeps
\* them: what the engine thread wants is owed until the next restart, and comes in
\* order and at most once, to whichever thread presents it.
THEOREM PipelineHasFeed == PipelineSpec => ImplementsFeed
<1>1. PipelineInit => WorkerInit BY DEF PipelineInit
<1> QED BY <1>1, PipelineHolds, FeedHolds, PTL DEF PipelineSpec, WorkerRuns

-----------------------------------------------------------------------------
\* Without a push no time comes to be owed.
LEMMA NothingNewOwed ==
  ASSUME ReadyInv, [WorkerNext]_workerVars, pushes' = pushes
  PROVE  \A o \in Owed' : \E q \in Owed : q.pts = o.pts
<1>1. [Feed!Next]_(Feed!vars) BY FeedSimulates
<1>2. pushes' # pushes + 1 BY DEF ReadyInv, TypeInv, WorkerTypeOK
<1>3. CASE Feed!Skip \/ Feed!Want
  BY <1>2, <1>3 DEF Feed!Skip, Feed!Want
<1>4. CASE Feed!Reset \/ Feed!Close
  BY <1>4 DEF Feed!Reset, Feed!Close
<1>5. CASE Feed!Blank
  <2>1. PICK s \in Owed : Owed' = (Owed \ {s}) \cup {[s EXCEPT !.blank = TRUE]}
    BY <1>5 DEF Feed!Blank
  <2>2. PICK p, b : s = Named(p, b) BY DEF Owed
  <2>3. [s EXCEPT !.blank = TRUE].pts = s.pts BY <2>2 DEF Named
  <2> QED BY <2>1, <2>3
<1>6. CASE \E t \in Pts : Feed!Deliver(t)
  <2>1. Owed' \subseteq Owed BY <1>6 DEF Feed!Deliver
  <2> QED BY <2>1
<1>7. CASE UNCHANGED Feed!vars
  BY <1>7 DEF Feed!vars
<1> QED BY <1>1, <1>3, <1>4, <1>5, <1>6, <1>7 DEF Feed!Next

\* What the worker was asked for and does not expect it does not come to owe
\* while the layer is asked.
NothingMissed == engine = "shownpts" => \A o \in Owed : o.pts # Goal

LEMMA MissedStep ==
  ASSUME PipelineInv, ReadyInv, NothingMissed, [PipelineNext]_videoVars
  PROVE  NothingMissed'
<1>1. SUFFICES ASSUME engine' = "shownpts" PROVE \A o \in Owed' : o.pts # Goal'
  BY DEF NothingMissed
<1>kept. ASSUME engine' = engine, pushes' = pushes, call'.target = call.target
         PROVE  \A o \in Owed' : o.pts # Goal'
  <2>1. [WorkerNext]_workerVars BY CallsAreLegal DEF PipelineInv
  <2>2. Goal' = Goal BY <1>kept DEF Goal
  <2> QED BY <1>1, <1>kept, <2>1, <2>2, NothingNewOwed DEF NothingMissed
<1>2. CASE DecoderThread
  BY <1>2, <1>kept DEF DecoderThread, WorkerStep, Exit, Wait, Pick, Decode, Finish
<1>3. CASE ShowExpects
  <2>1. ~Expects(Goal) /\ UNCHANGED workerVars /\ engine = "expects"
    BY <1>1, <1>3 DEF ShowExpects
  <2>2. ASSUME NEW o \in Owed PROVE o.pts # Goal
    BY <2>1 DEF Owed, Expects, InFlight, Named
  <2>3. Owed' = Owed BY <2>1 DEF Owed, InFlight, workerVars, shared, local
  <2>4. call'.target = call.target
    BY <1>3 DEF ShowExpects, PipelineInv, Placed
  <2>5. Goal' = Goal BY <2>4 DEF Goal
  <2> QED BY <2>2, <2>3, <2>5
<1>4. CASE Show /\ ~ShowExpects
  BY <1>1, <1>4 DEF Show, ShowBegin, ShowSync, ShowPresent, ShowResync, ShowShownPts,
                    ShowRestart, ShowLimit, ShowFeed, ShowEnd
<1>5. CASE \E ask \in BOOLEAN : AnimTick(ask)
  <2>1. pushes' = pushes
    BY <1>5 DEF AnimTick, PresentNow, PresentLocked, Take, workerVars
  <2> QED BY <1>5, <2>1, <1>kept DEF AnimTick
<1>6. CASE GoStale
  BY <1>6, <1>kept DEF GoStale, workerVars
<1>7. CASE Tick
  <2>1. call'.target = call.target BY <1>7 DEF Tick, PipelineInv, Placed
  <2> QED BY <1>7, <2>1, <1>kept DEF Tick, workerVars
<1>8. CASE \/ AppendFrames \/ PageRepaint \/ Detach \/ FreeWorker
           \/ EndTick \/ RenderUnticked
           \/ \E p \in 0..End : Seek(p)
           \/ \E b \in BOOLEAN : SetPaused(b)
           \/ \E d \in {-1, 1} : Shift(d)
  BY <1>1, <1>8 DEF AppendFrames, PageRepaint, Detach, FreeWorker, EndTick, RenderUnticked,
                    Seek, SetPaused, Shift, Between
<1>9. CASE Wake \/ ViewAsks \/ UNCHANGED videoVars
  BY <1>9, <1>kept DEF Wake, ViewAsks, videoVars, workerVars
<1> QED
  BY <1>2, <1>3, <1>4, <1>5, <1>6, <1>7, <1>8, <1>9 DEF PipelineNext

\* For a frame it was already fed the decoder is thrown back to a keyframe only if
\* that frame is lost, whatever the decoder and the view do between the questions
\* to the worker and to the layer (mse_needs_restart).
THEOREM RestartIsNeeded == PipelineSpec => NoNeedlessRestart
<1>1. PipelineInit => NothingMissed
  BY DEF PipelineInit, NothingMissed
<1>2. PipelineInv /\ ReadyInv /\ NothingMissed /\ [PipelineNext]_videoVars => NothingMissed'
  BY MissedStep
<1>3. ASSUME PipelineInv, NothingMissed, [PipelineNext]_videoVars,
             engine = "shownpts", engine' = "restart"
      PROVE  /\ \A o \in Owed : o.pts # Goal
             /\ layer.gen = clock.gen => layer.picture.pts < Goal
  <2>1. Goal > ShownPts
    BY <1>3 DEF PipelineNext, videoVars, DecoderThread, Show, ShowBegin, ShowSync, ShowPresent,
                ShowResync, ShowExpects, ShowShownPts, ShowRestart, ShowLimit, ShowFeed, ShowEnd,
                EndTick, RenderUnticked, AnimTick, Wake, ViewAsks, GoStale, Tick, AppendFrames,
                PageRepaint, Detach, FreeWorker, Seek, SetPaused, Shift, Between
  <2>2. layer.gen = clock.gen => ShownPts = layer.picture.pts
    BY DEF ShownPts
  <2>3. Goal \in Int /\ layer.picture.pts \in Int
    <3>1. Goal \in Nat BY <1>3, GoalInTrack, Track DEF PipelineInv, Goal
    <3>2. layer.picture.pts \in Int BY <1>3, ShownAtTime DEF PipelineInv, Placed
    <3> QED BY <3>1, <3>2
  <2> QED BY <1>3, <2>1, <2>2, <2>3 DEF NothingMissed
<1>4. PipelineInit => WorkerInit BY DEF PipelineInit
<1>5. PipelineInv /\ NothingMissed /\ [PipelineNext]_videoVars
        => [engine = "shownpts" /\ engine' = "restart"
              => /\ \A o \in Owed : o.pts # Goal
                 /\ layer.gen = clock.gen => layer.picture.pts < Goal]_videoVars
  BY <1>3
<1> QED
  BY <1>1, <1>2, <1>4, <1>5, PipelineHolds, ReadyHolds, PTL
     DEF PipelineSpec, WorkerRuns, NoNeedlessRestart

=============================================================================
