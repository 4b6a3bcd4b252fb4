----------------------------- MODULE Jobs_proofs -----------------------------
(***************************************************************************)
(* Safety of the worker pool, for every number of chunks and threads.      *)
(*                                                                         *)
(* None of the three properties is inductive.  Behind them are: the shape  *)
(* of the pool (which threads exist and which are joined, by where         *)
(* run_chunk_jobs is), what a worker's place says of its chunk, and who    *)
(* answers for each chunk that has been taken.                             *)
(***************************************************************************)
EXTENDS Jobs, TLAPS

InPool == {"create", "mark", "join", "return"}

\* Which threads there are, and what run_chunk_jobs knows of them.
PoolShape ==
    /\ returned # "running" <=> mainAt = "done"
    /\ mainAt \in InPool => effective_chunk_jobs > 1 /\ created <= effective_chunk_jobs
    /\ mainAt \in {"enter", "alone"} => created = 0
    /\ joined <= created
    /\ \A w \in Worker : workerAt[w] = "none" <=> w > created
    /\ \A w \in Worker : w <= joined => workerAt[w] = "exit"
    /\ mainAt \in {"enter", "alone", "return", "done"} => joined = created
    /\ mainAt = "mark" => created < effective_chunk_jobs

Busy(w) == workerAt[w] \in {"open", "write", "mark"}

\* A worker's place tells the state of its chunk, which is nobody else's.
ClaimShape ==
    /\ nextJob <= jobCount
    /\ \A w \in Worker : Busy(w) => workerJob[w] \in 1 .. nextJob
    /\ \A v, w \in Worker : Busy(v) /\ Busy(w) /\ workerJob[v] = workerJob[w] => v = w
    /\ \A w \in Worker : workerAt[w] = "open" => chunk[workerJob[w]] = "absent"
    /\ \A w \in Worker : workerAt[w] = "write" => chunk[workerJob[w]] = "open"
    /\ \A w \in Worker : workerAt[w] = "mark" => chunk[workerJob[w]] = "broken"
    /\ \A j \in Job : j > nextJob => chunk[j] = "absent" \/ mainAt = "done"

\* Who answers for a chunk that was taken, and for a failure.
Accounted ==
    /\ \A j \in 1 .. nextJob : chunk[j] = "written" \/ failed \/ \E w \in Worker : Busy(w) /\ workerJob[w] = j
    /\ failed => \/ \E j \in 1 .. jobCount : chunk[j] = "broken"
                 \/ mainAt \notin {"enter", "alone", "create"} /\ created < effective_chunk_jobs
    /\ mainAt \in {"enter", "alone"} => ~failed
    /\ mainAt = "enter" => nextJob = 0
    /\ mainAt \in {"join", "return"} => failed \/ created = effective_chunk_jobs
    /\ \A w \in Worker : workerAt[w] = "exit" => failed \/ nextJob = jobCount

JobsInv == JobsTypeOK /\ PoolShape /\ ClaimShape /\ Accounted /\ VerdictExact

\* Before run_chunk_jobs starts nothing is taken, started or written.
LEMMA InitInv == JobsInit => JobsInv
  <1> SUFFICES ASSUME JobsInit PROVE JobsInv OBVIOUS
  <1>1. JobsTypeOK
    <2>1. workerAt \in [Worker -> WorkerAt] /\ workerJob \in [Worker -> 0 .. MaxJobs] /\ chunk \in [Job -> Chunk]
      BY JobsAssumption DEF JobsInit, WorkerAt, Chunk, NoJob
    <2>2. failed \in BOOLEAN
      BY DEF JobsInit
    <2>3. jobCount \in 0 .. MaxJobs /\ requested \in 0 .. MaxRequested /\ created \in 0 .. MaxRequested
            /\ joined \in 0 .. MaxRequested /\ nextJob \in 0 .. MaxJobs
      BY JobsAssumption DEF JobsInit
    <2> QED BY <2>1, <2>2, <2>3 DEF JobsInit, JobsTypeOK, MainAt, Returned
  <1>2. PoolShape
    BY JobsAssumption DEF JobsInit, PoolShape, InPool, Worker
  <1>3. ClaimShape
    BY JobsAssumption DEF JobsInit, ClaimShape, Busy, Job
  <1>4. Accounted
    BY JobsAssumption DEF JobsInit, Accounted
  <1>5. VerdictExact
    BY DEF JobsInit, VerdictExact
  <1> QED BY <1>1, <1>2, <1>3, <1>4, <1>5 DEF JobsInv

\* The arguments of run_chunk_jobs do not change, nor does what is computed from them.
LEMMA ThreadsFixed ==
  ASSUME JobsNext
  PROVE  jobCount' = jobCount /\ requested' = requested /\ effective_chunk_jobs' = effective_chunk_jobs
  <1>1. jobCount' = jobCount /\ requested' = requested
    BY DEF JobsNext, MainStep, chunk_worker_main, Enter, EmitAlone, Create, MarkUncreated, Join, Finish,
           queue_take_job, OpenChunk, WriteChunk, queue_mark_failed
  <1> QED BY <1>1 DEF effective_chunk_jobs

\* Where there is a pool it has no more threads than there are workers.
LEMMA ThreadsBounded ==
  ASSUME JobsTypeOK
  PROVE  effective_chunk_jobs \in Nat /\ (effective_chunk_jobs > 1 => effective_chunk_jobs <= MaxRequested)
  BY JobsAssumption DEF JobsTypeOK, effective_chunk_jobs

\* What a step does to a worker's place and to its chunk, entry by entry.
LEMMA PlaceUpdate ==
  ASSUME JobsTypeOK, NEW w \in Worker, NEW p \in WorkerAt, workerAt' = [workerAt EXCEPT ![w] = p]
  PROVE  /\ workerAt' \in [Worker -> WorkerAt] /\ workerAt'[w] = p
         /\ \A v \in Worker : v # w => workerAt'[v] = workerAt[v]
  BY DEF JobsTypeOK

\* One chunk changes, the others stay.
LEMMA ChunkUpdate ==
  ASSUME JobsTypeOK, NEW j \in Job, NEW r \in Chunk, chunk' = [chunk EXCEPT ![j] = r]
  PROVE  /\ chunk' \in [Job -> Chunk] /\ chunk'[j] = r
         /\ \A k \in Job : k # j => chunk'[k] = chunk[k]
  BY DEF JobsTypeOK

\* pthread_create: one more thread, or the loop is left.
LEMMA CreateEffect ==
  ASSUME JobsInv, Create
  PROVE  \/ /\ created < effective_chunk_jobs /\ created + 1 \in Worker
            /\ created' = created + 1 /\ mainAt' = mainAt
            /\ workerAt' = [workerAt EXCEPT ![created + 1] = "take"]
         \/ created < effective_chunk_jobs /\ mainAt' = "mark" /\ UNCHANGED <<created, workerAt>>
         \/ created = effective_chunk_jobs /\ mainAt' = "join" /\ UNCHANGED <<created, workerAt>>
  BY JobsAssumption, ThreadsBounded DEF JobsInv, Create, JobsTypeOK, PoolShape, InPool, Worker

\* queue_take_job: the next chunk, or the worker ends.
LEMMA TakeEffect ==
  ASSUME JobsInv, NEW w \in Worker, queue_take_job(w)
  PROVE  \/ /\ ~failed /\ nextJob < jobCount /\ nextJob' = nextJob + 1 /\ nextJob + 1 \in Job
            /\ workerJob' \in [Worker -> 0 .. MaxJobs] /\ workerJob'[w] = nextJob + 1
            /\ \A v \in Worker : v # w => workerJob'[v] = workerJob[v]
            /\ workerAt' = [workerAt EXCEPT ![w] = "open"]
         \/ /\ failed \/ nextJob = jobCount
            /\ workerAt' = [workerAt EXCEPT ![w] = "exit"] /\ UNCHANGED <<nextJob, workerJob>>
  <1> USE JobsAssumption DEF JobsInv, JobsTypeOK
  <1>1. CASE ~failed /\ nextJob < jobCount
    <2>1. nextJob + 1 \in Job /\ nextJob + 1 \in 0 .. MaxJobs
      BY <1>1 DEF Job
    <2>2. workerJob' = [workerJob EXCEPT ![w] = nextJob + 1]
      BY <1>1 DEF queue_take_job
    <2>3. /\ workerJob' \in [Worker -> 0 .. MaxJobs] /\ workerJob'[w] = nextJob + 1
          /\ \A v \in Worker : v # w => workerJob'[v] = workerJob[v]
      BY <2>1, <2>2
    <2> QED BY <1>1, <2>1, <2>3 DEF queue_take_job
  <1>2. CASE ~(~failed /\ nextJob < jobCount)
    BY <1>2 DEF queue_take_job, ClaimShape
  <1> QED BY <1>1, <1>2

\* A busy worker has a chunk.
LEMMA ChunkOf ==
  ASSUME JobsInv, NEW w \in Worker, Busy(w)
  PROVE  workerJob[w] \in Job
  BY JobsAssumption DEF JobsInv, JobsTypeOK, ClaimShape, Job

\* Every step keeps the types.
LEMMA TypeStep ==
  ASSUME JobsInv, JobsNext
  PROVE  JobsTypeOK'
  <1> USE JobsAssumption, ThreadsFixed, ThreadsBounded DEF JobsInv
  <1>1. CASE Enter
    BY <1>1 DEF Enter, JobsTypeOK, MainAt, Returned, Return, queueVars, workerVars
  <1>2. CASE EmitAlone
    <2>1. nextJob < jobCount => nextJob + 1 \in Job
      BY DEF JobsTypeOK, Job
    <2>2. chunk' \in [Job -> Chunk]
      BY <1>2, <2>1, ChunkUpdate DEF EmitAlone, JobsTypeOK, Chunk
    <2>3. nextJob' \in 0 .. MaxJobs
      BY <1>2 DEF EmitAlone, JobsTypeOK
    <2> QED BY <1>2, <2>2, <2>3 DEF EmitAlone, JobsTypeOK, MainAt, Returned, Return, workerVars
  <1>3. CASE Create
    <2>1. workerAt' \in [Worker -> WorkerAt]
      BY <1>3, CreateEffect, PlaceUpdate DEF JobsTypeOK, WorkerAt
    <2>2. created' \in 0 .. MaxRequested
      BY <1>3, CreateEffect DEF JobsTypeOK, Worker
    <2>3. mainAt' \in MainAt
      BY <1>3 DEF Create, JobsTypeOK, MainAt
    <2> QED BY <1>3, <2>1, <2>2, <2>3 DEF Create, JobsTypeOK, queueVars
  <1>4. CASE MarkUncreated
    BY <1>4 DEF MarkUncreated, JobsTypeOK, MainAt, workerVars
  <1>5. CASE Join
    BY <1>5 DEF Join, JobsTypeOK, MainAt, queueVars, workerVars
  <1>6. CASE Finish
    BY <1>6 DEF Finish, JobsTypeOK, MainAt, Returned, Return, queueVars, workerVars
  <1>7. ASSUME NEW w \in Worker, chunk_worker_main(w) PROVE JobsTypeOK'
    <2>1. CASE queue_take_job(w)
      <3>1. workerAt' \in [Worker -> WorkerAt]
        BY <2>1, TakeEffect, PlaceUpdate DEF WorkerAt
      <3>2. workerJob' \in [Worker -> 0 .. MaxJobs] /\ nextJob' \in 0 .. MaxJobs
        BY <2>1, TakeEffect DEF JobsTypeOK, Job
      <3> QED BY <2>1, <3>1, <3>2 DEF queue_take_job, JobsTypeOK
    <2>2. CASE OpenChunk(w)
      <3>1. workerJob[w] \in Job
        BY <2>2, ChunkOf DEF OpenChunk, Busy
      <3>2. chunk' \in [Job -> Chunk] /\ workerAt' \in [Worker -> WorkerAt]
        BY <2>2, <3>1, ChunkUpdate, PlaceUpdate DEF OpenChunk, Chunk, WorkerAt
      <3> QED BY <2>2, <3>2 DEF OpenChunk, JobsTypeOK, queueVars
    <2>3. CASE WriteChunk(w)
      <3>1. workerJob[w] \in Job
        BY <2>3, ChunkOf DEF WriteChunk, Busy
      <3>2. chunk' \in [Job -> Chunk] /\ workerAt' \in [Worker -> WorkerAt]
        BY <2>3, <3>1, ChunkUpdate, PlaceUpdate DEF WriteChunk, Chunk, WorkerAt
      <3> QED BY <2>3, <3>2 DEF WriteChunk, JobsTypeOK, queueVars
    <2>4. CASE queue_mark_failed(w)
      BY <2>4 DEF queue_mark_failed, JobsTypeOK, WorkerAt
    <2> QED BY <1>7, <2>1, <2>2, <2>3, <2>4 DEF chunk_worker_main
  <1> QED BY <1>1, <1>2, <1>3, <1>4, <1>5, <1>6, <1>7 DEF JobsNext, MainStep

\* Every step keeps the shape of the pool.
LEMMA PoolShapeStep ==
  ASSUME JobsInv, JobsNext
  PROVE  PoolShape'
  <1> USE JobsAssumption, ThreadsFixed, ThreadsBounded DEF JobsInv
  <1>1. CASE Enter
    BY <1>1 DEF Enter, Return, workerVars, PoolShape, InPool
  <1>2. CASE EmitAlone
    BY <1>2 DEF EmitAlone, Return, workerVars, PoolShape, InPool
  <1>3. CASE Create
    <2>1. UNCHANGED <<joined, returned>> /\ mainAt = "create"
      BY <1>3 DEF Create
    <2>2. CASE UNCHANGED <<created, workerAt>>
      BY <1>3, <2>1, <2>2, CreateEffect DEF PoolShape, InPool, JobsTypeOK
    <2>3. CASE /\ created + 1 \in Worker /\ created < effective_chunk_jobs
               /\ created' = created + 1 /\ mainAt' = mainAt
               /\ workerAt' = [workerAt EXCEPT ![created + 1] = "take"]
      <3>1. /\ workerAt'[created + 1] = "take"
            /\ \A v \in Worker : v # created + 1 => workerAt'[v] = workerAt[v]
        BY <2>3, PlaceUpdate DEF WorkerAt
      <3> QED BY <2>1, <2>3, <3>1 DEF PoolShape, InPool, JobsTypeOK, Worker
    <2> QED BY <1>3, <2>2, <2>3, CreateEffect
  <1>4. CASE MarkUncreated
    BY <1>4 DEF MarkUncreated, workerVars, PoolShape, InPool
  <1>5. CASE Join
    BY <1>5 DEF Join, JobsTypeOK, Chunk, Worker, workerVars, PoolShape, InPool
  <1>6. CASE Finish
    BY <1>6 DEF Finish, Return, workerVars, PoolShape, InPool
  <1>7. ASSUME NEW w \in Worker, chunk_worker_main(w) PROVE PoolShape'
    <2>1. CASE queue_take_job(w)
      BY <2>1 DEF queue_take_job, JobsTypeOK, PoolShape
    <2>2. CASE OpenChunk(w)
      BY <2>2 DEF OpenChunk, JobsTypeOK, PoolShape
    <2>3. CASE WriteChunk(w)
      BY <2>3 DEF WriteChunk, JobsTypeOK, PoolShape
    <2>4. CASE queue_mark_failed(w)
      BY <2>4 DEF queue_mark_failed, PoolShape
    <2> QED BY <1>7, <2>1, <2>2, <2>3, <2>4 DEF chunk_worker_main
  <1> QED BY <1>1, <1>2, <1>3, <1>4, <1>5, <1>6, <1>7 DEF JobsNext, MainStep

\* Every step keeps the claims: only queue_take_job makes one.
LEMMA ClaimShapeStep ==
  ASSUME JobsInv, JobsNext
  PROVE  ClaimShape'
  <1> USE JobsAssumption, ThreadsFixed, ThreadsBounded DEF JobsInv
  <1>1. CASE Enter
    BY <1>1 DEF Enter, queueVars, workerVars, ClaimShape, Busy
  <1>2. CASE EmitAlone
    BY <1>2 DEF EmitAlone, JobsTypeOK, Job, Return, workerVars, ClaimShape, Busy
  <1>3. CASE Create
    <2>1. UNCHANGED <<nextJob, workerJob, chunk>> /\ mainAt = "create"
      BY <1>3 DEF Create, queueVars
    <2>2. \A w \in Worker : workerAt'[w] = workerAt[w] \/ workerAt'[w] = "take"
      BY <1>3, CreateEffect, PlaceUpdate DEF WorkerAt
    <2> QED BY <2>1, <2>2 DEF ClaimShape, Busy, JobsTypeOK
  <1>4. CASE MarkUncreated
    BY <1>4 DEF MarkUncreated, workerVars, ClaimShape, Busy
  <1>5. CASE Join
    BY <1>5 DEF Join, queueVars, workerVars, ClaimShape, Busy
  <1>6. CASE Finish
    BY <1>6 DEF Finish, queueVars, workerVars, ClaimShape, Busy
  <1>7. ASSUME NEW w \in Worker, chunk_worker_main(w) PROVE ClaimShape'
    <2>1. CASE queue_take_job(w)
      <3>1. UNCHANGED <<chunk, mainAt>>
        BY <2>1 DEF queue_take_job
      <3>2. CASE /\ ~failed /\ nextJob < jobCount /\ nextJob' = nextJob + 1 /\ nextJob + 1 \in Job
                 /\ workerJob' \in [Worker -> 0 .. MaxJobs] /\ workerJob'[w] = nextJob + 1
                 /\ \A v \in Worker : v # w => workerJob'[v] = workerJob[v]
                 /\ workerAt' = [workerAt EXCEPT ![w] = "open"]
        <4>1. workerAt'[w] = "open" /\ \A v \in Worker : v # w => workerAt'[v] = workerAt[v]
          BY <3>2, PlaceUpdate DEF WorkerAt
        <4> HIDE DEF JobsInv
        <4>2. \A v \in Worker : Busy(v)' => v = w \/ (Busy(v) /\ workerJob'[v] = workerJob[v])
          BY <3>2, <4>1 DEF Busy
        <4>3. ClaimShape /\ JobsTypeOK /\ PoolShape
          BY DEF JobsInv
        <4>4. mainAt # "done"
          BY <2>1, <4>3 DEF queue_take_job, PoolShape, JobsTypeOK, Worker
        <4>5. chunk[nextJob + 1] = "absent"
          BY <3>2, <4>3, <4>4 DEF ClaimShape, JobsTypeOK
        <4>6. \A v \in Worker : Busy(v)' => workerJob'[v] \in 1 .. nextJob'
          BY <3>2, <4>2, <4>3 DEF ClaimShape, JobsTypeOK
        <4>7. \A v, u \in Worker : Busy(v)' /\ Busy(u)' /\ workerJob'[v] = workerJob'[u] => v = u
          BY <3>2, <4>2, <4>3 DEF ClaimShape, JobsTypeOK
        <4>8. \A v \in Worker : /\ workerAt'[v] = "open" => chunk'[workerJob'[v]] = "absent"
                                /\ workerAt'[v] = "write" => chunk'[workerJob'[v]] = "open"
                                /\ workerAt'[v] = "mark" => chunk'[workerJob'[v]] = "broken"
          BY <3>1, <3>2, <4>1, <4>3, <4>5 DEF ClaimShape
        <4> QED BY <3>1, <3>2, <4>3, <4>6, <4>7, <4>8 DEF ClaimShape, JobsTypeOK, Job
      <3>3. CASE /\ failed \/ nextJob = jobCount
                 /\ workerAt' = [workerAt EXCEPT ![w] = "exit"] /\ UNCHANGED <<nextJob, workerJob>>
        <4>1. workerAt'[w] = "exit" /\ \A v \in Worker : v # w => workerAt'[v] = workerAt[v]
          BY <3>3, PlaceUpdate DEF WorkerAt
        <4> QED BY <3>1, <3>3, <4>1 DEF ClaimShape, Busy, JobsTypeOK
      <3> QED BY <2>1, <3>2, <3>3, TakeEffect
    <2>2. CASE OpenChunk(w)
      <3>1. UNCHANGED <<nextJob, workerJob, mainAt, failed, created>> /\ Busy(w) /\ workerJob[w] \in Job
        BY <2>2, ChunkOf DEF OpenChunk, queueVars, Busy
      <3>2. PICK r \in Chunk, p \in WorkerAt :
                /\ chunk' = [chunk EXCEPT ![workerJob[w]] = r] /\ workerAt' = [workerAt EXCEPT ![w] = p]
                /\ <<r, p>> \in {<<"open", "write">>, <<"broken", "mark">>}
        BY <2>2 DEF OpenChunk, Chunk, WorkerAt
      <3>3. workerAt'[w] = p /\ \A v \in Worker : v # w => workerAt'[v] = workerAt[v]
        BY <3>2, PlaceUpdate
      <3>4. chunk'[workerJob[w]] = r /\ \A k \in Job : k # workerJob[w] => chunk'[k] = chunk[k]
        BY <3>1, <3>2, ChunkUpdate
      <3>5. \A v \in Worker : Busy(v) => workerJob[v] \in Job /\ (v # w => workerJob[v] # workerJob[w])
        BY <3>1, ChunkOf DEF ClaimShape
      <3>6. \A v \in Worker : Busy(v)' => Busy(v)
        BY <3>1, <3>3 DEF Busy
      <3>7. \A v \in Worker : /\ workerAt'[v] = "open" => chunk'[workerJob[v]] = "absent"
                              /\ workerAt'[v] = "write" => chunk'[workerJob[v]] = "open"
                              /\ workerAt'[v] = "mark" => chunk'[workerJob[v]] = "broken"
        BY <3>2, <3>3, <3>4, <3>5 DEF ClaimShape, Busy
      <3>8. \A j \in Job : j > nextJob => chunk'[j] = chunk[j]
        BY <3>1, <3>4 DEF ClaimShape, JobsTypeOK, Job
      <3> QED BY <3>1, <3>6, <3>7, <3>8 DEF ClaimShape
    <2>3. CASE WriteChunk(w)
      <3>1. UNCHANGED <<nextJob, workerJob, mainAt, failed, created>> /\ Busy(w) /\ workerJob[w] \in Job
        BY <2>3, ChunkOf DEF WriteChunk, queueVars, Busy
      <3>2. PICK r \in Chunk, p \in WorkerAt :
                /\ chunk' = [chunk EXCEPT ![workerJob[w]] = r] /\ workerAt' = [workerAt EXCEPT ![w] = p]
                /\ <<r, p>> \in {<<"written", "take">>, <<"broken", "mark">>}
        BY <2>3 DEF WriteChunk, Chunk, WorkerAt
      <3>3. workerAt'[w] = p /\ \A v \in Worker : v # w => workerAt'[v] = workerAt[v]
        BY <3>2, PlaceUpdate
      <3>4. chunk'[workerJob[w]] = r /\ \A k \in Job : k # workerJob[w] => chunk'[k] = chunk[k]
        BY <3>1, <3>2, ChunkUpdate
      <3>5. \A v \in Worker : Busy(v) => workerJob[v] \in Job /\ (v # w => workerJob[v] # workerJob[w])
        BY <3>1, ChunkOf DEF ClaimShape
      <3>6. \A v \in Worker : Busy(v)' => Busy(v)
        BY <3>1, <3>3 DEF Busy
      <3>7. \A v \in Worker : /\ workerAt'[v] = "open" => chunk'[workerJob[v]] = "absent"
                              /\ workerAt'[v] = "write" => chunk'[workerJob[v]] = "open"
                              /\ workerAt'[v] = "mark" => chunk'[workerJob[v]] = "broken"
        BY <3>2, <3>3, <3>4, <3>5 DEF ClaimShape, Busy
      <3>8. \A j \in Job : j > nextJob => chunk'[j] = chunk[j]
        BY <3>1, <3>4 DEF ClaimShape, JobsTypeOK, Job
      <3> QED BY <3>1, <3>6, <3>7, <3>8 DEF ClaimShape
    <2>4. CASE queue_mark_failed(w)
      BY <2>4 DEF queue_mark_failed, ClaimShape, Busy
    <2> QED BY <1>7, <2>1, <2>2, <2>3, <2>4 DEF chunk_worker_main
  <1> QED BY <1>1, <1>2, <1>3, <1>4, <1>5, <1>6, <1>7 DEF JobsNext, MainStep

\* Every step keeps the account of taken chunks and failures.
LEMMA AccountedStep ==
  ASSUME JobsInv, JobsNext
  PROVE  Accounted'
  <1> USE JobsAssumption, ThreadsFixed, ThreadsBounded DEF JobsInv
  <1>1. CASE Enter
    BY <1>1 DEF Enter, Return, queueVars, workerVars, Accounted
  <1>2. CASE EmitAlone
    <2>1. mainAt = "alone" /\ ~failed /\ UNCHANGED <<failed, created, workerVars>> /\ created = 0
      BY <1>2 DEF EmitAlone, Accounted, PoolShape
    <2>2. \A w \in Worker : workerAt[w] = "none"
      BY <2>1 DEF PoolShape, Worker
    <2>3. \A j \in 1 .. nextJob : j \in Job /\ chunk[j] = "written"
      BY <2>1, <2>2 DEF Accounted, Busy, JobsTypeOK, Job
    <2>4. \A j \in 1 .. nextJob' : chunk'[j] = "written"
      <3>1. CASE UNCHANGED <<nextJob, chunk>>
        BY <2>3, <3>1
      <3>2. CASE /\ nextJob < jobCount /\ nextJob' = nextJob + 1
                 /\ chunk' = [chunk EXCEPT ![nextJob + 1] = "written"]
        <4>1. nextJob + 1 \in Job
          BY <3>2 DEF JobsTypeOK, Job
        <4>2. chunk'[nextJob + 1] = "written" /\ \A k \in Job : k # nextJob + 1 => chunk'[k] = chunk[k]
          BY <3>2, <4>1, ChunkUpdate DEF Chunk
        <4> QED BY <2>3, <3>2, <4>1, <4>2 DEF JobsTypeOK
      <3>3. CASE nextJob < jobCount /\ nextJob' = nextJob /\ chunk' = [chunk EXCEPT ![nextJob + 1] = "broken"]
        <4>1. nextJob + 1 \in Job
          BY <3>3 DEF JobsTypeOK, Job
        <4>2. \A k \in Job : k # nextJob + 1 => chunk'[k] = chunk[k]
          BY <3>3, <4>1, ChunkUpdate DEF Chunk
        <4> QED BY <2>3, <3>3, <4>1, <4>2 DEF JobsTypeOK
      <3> QED BY <1>2, <3>1, <3>2, <3>3 DEF EmitAlone
    <2>5. mainAt' \in {"alone", "done"}
      BY <1>2 DEF EmitAlone, Return
    <2> QED BY <2>1, <2>2, <2>4, <2>5 DEF Accounted, workerVars
  <1>3. CASE Create
    <2>1. UNCHANGED <<nextJob, failed, workerJob, chunk>> /\ mainAt = "create"
      BY <1>3 DEF Create, queueVars
    <2>2. \A w \in Worker : workerAt'[w] = workerAt[w] \/ (workerAt[w] = "none" /\ workerAt'[w] = "take")
      <3>1. created + 1 \in Worker => workerAt[created + 1] = "none"
        BY DEF PoolShape, JobsTypeOK
      <3> QED BY <1>3, <3>1, CreateEffect, PlaceUpdate DEF WorkerAt
    <2>3. \A w \in Worker : Busy(w) => Busy(w)'
      BY <2>2 DEF Busy
    <2>4. \A w \in Worker : workerAt'[w] = "exit" => workerAt[w] = "exit"
      BY <2>2
    <2>5. \/ mainAt' \in {"create", "mark"}
          \/ mainAt' = "join" /\ created' = effective_chunk_jobs
      BY <1>3, <2>1, CreateEffect
    <2> QED BY <2>1, <2>3, <2>4, <2>5 DEF Accounted
  <1>4. CASE MarkUncreated
    BY <1>4 DEF MarkUncreated, Accounted, PoolShape
  <1>5. CASE Join
    BY <1>5 DEF Join, queueVars, workerVars, Accounted, Busy
  <1>6. CASE Finish
    BY <1>6 DEF Finish, Return, queueVars, workerVars, Accounted, Busy
  <1>7. ASSUME NEW w \in Worker, chunk_worker_main(w) PROVE Accounted'
    <2>1. CASE queue_take_job(w)
      <3>1. UNCHANGED <<chunk, mainAt, failed, created>> /\ workerAt[w] = "take"
        BY <2>1 DEF queue_take_job
      <3>2. \A v \in Worker : v # w => workerAt'[v] = workerAt[v] /\ workerJob'[v] = workerJob[v]
        BY <2>1, TakeEffect, PlaceUpdate DEF WorkerAt
      <3>3. \A v \in Worker : Busy(v) => Busy(v)' /\ workerJob'[v] = workerJob[v]
        BY <3>1, <3>2 DEF Busy
      <3>4. mainAt \notin {"enter", "alone"}
        BY <3>1 DEF PoolShape, JobsTypeOK, Worker
      <3>5. CASE nextJob' = nextJob
        <4>1. workerAt'[w] = "exit" /\ (failed \/ nextJob = jobCount)
          BY <2>1, <3>5, TakeEffect, PlaceUpdate DEF WorkerAt, JobsTypeOK
        <4> QED BY <3>1, <3>2, <3>3, <3>5, <4>1 DEF Accounted
      <3>6. CASE nextJob' # nextJob
        <4>1. nextJob' = nextJob + 1 /\ ~failed /\ nextJob < jobCount /\ workerJob'[w] = nextJob + 1
          BY <2>1, <3>6, TakeEffect
        <4>2. workerAt'[w] = "open"
          BY <2>1, <3>6, TakeEffect, PlaceUpdate DEF WorkerAt
        <4>3. \A j \in 1 .. nextJob' :
                chunk'[j] = "written" \/ failed' \/ \E v \in Worker : Busy(v)' /\ workerJob'[v] = j
          BY <3>1, <3>3, <4>1, <4>2 DEF Accounted, Busy, JobsTypeOK
        <4>4. \A v \in Worker : workerAt'[v] # "exit"
          BY <3>2, <4>1, <4>2 DEF Accounted, JobsTypeOK
        <4> QED BY <3>1, <3>4, <4>1, <4>3, <4>4 DEF Accounted
      <3> QED BY <3>5, <3>6
    <2>2. CASE OpenChunk(w)
      <3>1. UNCHANGED <<nextJob, workerJob, mainAt, failed, created>> /\ Busy(w) /\ workerJob[w] \in Job
        BY <2>2, ChunkOf DEF OpenChunk, queueVars, Busy
      <3>2. PICK r \in Chunk, p \in WorkerAt :
                /\ chunk' = [chunk EXCEPT ![workerJob[w]] = r] /\ workerAt' = [workerAt EXCEPT ![w] = p]
                /\ <<r, p>> \in {<<"open", "write">>, <<"broken", "mark">>}
        BY <2>2 DEF OpenChunk, Chunk, WorkerAt
      <3>3. workerAt'[w] = p /\ \A v \in Worker : v # w => workerAt'[v] = workerAt[v]
        BY <3>2, PlaceUpdate
      <3>4. chunk'[workerJob[w]] = r /\ \A k \in Job : k # workerJob[w] => chunk'[k] = chunk[k]
        BY <3>1, <3>2, ChunkUpdate
      <3>5. chunk[workerJob[w]] \notin {"written", "broken"}
        BY <2>2 DEF OpenChunk, ClaimShape
      <3>6. \A k \in Job : chunk[k] \in {"written", "broken"} => chunk'[k] = chunk[k]
        BY <3>4, <3>5
      <3>7. 1 .. jobCount \subseteq Job /\ 1 .. nextJob \subseteq Job
        BY DEF JobsTypeOK, Job
      <3>8. \A v \in Worker : v # w => (Busy(v) <=> Busy(v)')
        BY <3>3 DEF Busy
      <3>9. r = "written" \/ Busy(w)'
        BY <3>2, <3>3 DEF Busy
      <3>10. \A j \in 1 .. nextJob : chunk'[j] = "written" \/ failed \/ \E v \in Worker : Busy(v)' /\ workerJob[v] = j
        BY <3>4, <3>6, <3>7, <3>8, <3>9 DEF Accounted
      <3>11. (\E j \in 1 .. jobCount : chunk[j] = "broken") => \E j \in 1 .. jobCount : chunk'[j] = "broken"
        BY <3>6, <3>7
      <3>12. \A v \in Worker : workerAt'[v] = "exit" => workerAt[v] = "exit"
        BY <3>2, <3>3
      <3> QED BY <3>1, <3>10, <3>11, <3>12 DEF Accounted
    <2>3. CASE WriteChunk(w)
      <3>1. UNCHANGED <<nextJob, workerJob, mainAt, failed, created>> /\ Busy(w) /\ workerJob[w] \in Job
        BY <2>3, ChunkOf DEF WriteChunk, queueVars, Busy
      <3>2. PICK r \in Chunk, p \in WorkerAt :
                /\ chunk' = [chunk EXCEPT ![workerJob[w]] = r] /\ workerAt' = [workerAt EXCEPT ![w] = p]
                /\ <<r, p>> \in {<<"written", "take">>, <<"broken", "mark">>}
        BY <2>3 DEF WriteChunk, Chunk, WorkerAt
      <3>3. workerAt'[w] = p /\ \A v \in Worker : v # w => workerAt'[v] = workerAt[v]
        BY <3>2, PlaceUpdate
      <3>4. chunk'[workerJob[w]] = r /\ \A k \in Job : k # workerJob[w] => chunk'[k] = chunk[k]
        BY <3>1, <3>2, ChunkUpdate
      <3>5. chunk[workerJob[w]] \notin {"written", "broken"}
        BY <2>3 DEF WriteChunk, ClaimShape
      <3>6. \A k \in Job : chunk[k] \in {"written", "broken"} => chunk'[k] = chunk[k]
        BY <3>4, <3>5
      <3>7. 1 .. jobCount \subseteq Job /\ 1 .. nextJob \subseteq Job
        BY DEF JobsTypeOK, Job
      <3>8. \A v \in Worker : v # w => (Busy(v) <=> Busy(v)')
        BY <3>3 DEF Busy
      <3>9. r = "written" \/ Busy(w)'
        BY <3>2, <3>3 DEF Busy
      <3>10. \A j \in 1 .. nextJob : chunk'[j] = "written" \/ failed \/ \E v \in Worker : Busy(v)' /\ workerJob[v] = j
        BY <3>4, <3>6, <3>7, <3>8, <3>9 DEF Accounted
      <3>11. (\E j \in 1 .. jobCount : chunk[j] = "broken") => \E j \in 1 .. jobCount : chunk'[j] = "broken"
        BY <3>6, <3>7
      <3>12. \A v \in Worker : workerAt'[v] = "exit" => workerAt[v] = "exit"
        BY <3>2, <3>3
      <3> QED BY <3>1, <3>10, <3>11, <3>12 DEF Accounted
    <2>4. CASE queue_mark_failed(w)
      BY <2>4 DEF queue_mark_failed, JobsTypeOK, Worker, Accounted, Busy, ClaimShape, PoolShape
    <2> QED BY <1>7, <2>1, <2>2, <2>3, <2>4 DEF chunk_worker_main
  <1> QED BY <1>1, <1>2, <1>3, <1>4, <1>5, <1>6, <1>7 DEF JobsNext, MainStep

\* Every step keeps the verdict: only Enter, EmitAlone and Finish give one.
LEMMA VerdictExactStep ==
  ASSUME JobsInv, JobsNext
  PROVE  VerdictExact'
  <1> USE JobsAssumption, ThreadsFixed, ThreadsBounded DEF JobsInv
  <1>1. CASE Enter
    BY <1>1 DEF Enter, Return, VerdictExact, PoolShape
  <1>2. CASE EmitAlone
    BY <1>2 DEF EmitAlone, JobsTypeOK, Returned, Worker, Job, Return, VerdictExact, Accounted, Busy, PoolShape
  <1>3. CASE Create
    BY <1>3 DEF Create, VerdictExact, PoolShape
  <1>4. CASE MarkUncreated
    BY <1>4 DEF MarkUncreated, VerdictExact
  <1>5. CASE Join
    BY <1>5 DEF Join, VerdictExact
  <1>6. CASE Finish
    <2>1. UNCHANGED <<failed, chunk, created>> /\ mainAt = "return"
      BY <1>6 DEF Finish, queueVars
    <2>2. CASE failed
      BY <1>6, <2>1, <2>2 DEF Finish, Return, Accounted, PoolShape, InPool, VerdictExact
    <2>3. CASE ~failed
      <3>1. created = effective_chunk_jobs /\ created > 1 /\ joined = created
        BY <2>1, <2>3 DEF Accounted, PoolShape, InPool
      <3>2. \A w \in Worker : workerAt[w] \in {"none", "exit"}
        BY <3>1 DEF PoolShape, JobsTypeOK, Worker
      <3>3. 1 \in Worker /\ workerAt[1] = "exit"
        BY <3>1 DEF PoolShape, JobsTypeOK, Worker
      <3>4. nextJob = jobCount
        BY <2>3, <3>3 DEF Accounted
      <3>5. \A j \in 1 .. jobCount : chunk[j] = "written"
        BY <2>3, <3>2, <3>4 DEF Accounted, Busy
      <3> QED BY <1>6, <2>1, <2>3, <3>5 DEF Finish, Return, VerdictExact
    <2> QED BY <2>2, <2>3
  <1>7. ASSUME NEW w \in Worker, chunk_worker_main(w) PROVE VerdictExact'
    <2>1. CASE queue_take_job(w)
      BY <2>1 DEF queue_take_job, VerdictExact
    <2>2. CASE OpenChunk(w)
      BY <2>2 DEF OpenChunk, JobsTypeOK, Job, VerdictExact, ClaimShape, PoolShape
    <2>3. CASE WriteChunk(w)
      BY <2>3 DEF WriteChunk, JobsTypeOK, MainAt, WorkerAt, Chunk, Job, VerdictExact, ClaimShape
    <2>4. CASE queue_mark_failed(w)
      BY <2>4 DEF queue_mark_failed, VerdictExact
    <2> QED BY <1>7, <2>1, <2>2, <2>3, <2>4 DEF chunk_worker_main
  <1> QED BY <1>1, <1>2, <1>3, <1>4, <1>5, <1>6, <1>7 DEF JobsNext, MainStep

\* A step that changes nothing keeps the invariant.
LEMMA StutterInv == JobsInv /\ UNCHANGED jobsVars => JobsInv'
  BY DEF JobsInv, jobsVars, queueVars, workerVars, JobsTypeOK, PoolShape, ClaimShape, Busy, Accounted,
         VerdictExact, effective_chunk_jobs

\* The pool's invariant holds in every behaviour.
THEOREM PoolInvariant == JobsSpec => []JobsInv
  <1>1. JobsInit => JobsInv
    BY InitInv
  <1>2. JobsInv /\ [JobsNext]_jobsVars => JobsInv'
    BY TypeStep, PoolShapeStep, ClaimShapeStep, AccountedStep, VerdictExactStep, StutterInv DEF JobsInv
  <1> QED BY <1>1, <1>2, PTL DEF JobsSpec

\* For every number of chunks and threads, and whatever fails, run_chunk_jobs
\* reports success only when every chunk file was written, and failure only when
\* a chunk or a thread failed.
THEOREM VerdictIsExact == JobsSpec => []VerdictExact
  <1>1. JobsInv => VerdictExact
    BY DEF JobsInv
  <1> QED BY <1>1, PoolInvariant, PTL

\* For every number of chunks and threads, no two workers hold one chunk
\* (queue_take_job), and a chunk is opened once.
THEOREM OneWriter == JobsSpec => []OneWriterPerChunk
  <1>1. JobsInv => OneWriterPerChunk
    BY DEF JobsInv, ClaimShape, Busy, OneWriterPerChunk
  <1> QED BY <1>1, PoolInvariant, PTL

\* For every number of chunks and threads, every worker has ended when
\* run_chunk_jobs returns, also when a thread could not be started.
THEOREM NoneOutlives == JobsSpec => []NoWorkerOutlives
  <1>1. JobsInv => NoWorkerOutlives
    BY JobsAssumption DEF JobsInv, PoolShape, JobsTypeOK, Worker, NoWorkerOutlives
  <1> QED BY <1>1, PoolInvariant, PTL
=============================================================================
