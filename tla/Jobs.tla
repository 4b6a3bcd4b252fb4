--------------------------------- MODULE Jobs ---------------------------------
(***************************************************************************)
(* DolRecomp's worker pool (jobs.c).  run_chunk_jobs puts a WorkerQueue on *)
(* its own stack, starts worker threads that take chunks from it, joins    *)
(* them and returns whether every chunk file was written.  The chunks are  *)
(* 1 .. jobCount; the bodies of queue_take_job and queue_mark_failed run   *)
(* under the queue's lock and are one step each, writing a chunk file is   *)
(* two (open, then write and close), and either may fail.                  *)
(***************************************************************************)
EXTENDS Integers, FiniteSets

CONSTANTS
    MaxJobs,        \* no section has more chunks than this (bound)
    MaxRequested    \* the largest -jN tried (bound)

ASSUME JobsAssumption == MaxJobs \in Nat /\ MaxRequested \in Nat

VARIABLES
    jobCount, requested,    \* run_chunk_jobs' arguments
    mainAt,                 \* where run_chunk_jobs is
    created,                \* threads started so far
    joined,                 \* threads joined so far
    nextJob, failed,        \* the WorkerQueue
    workerAt, workerJob,    \* where each worker is, and its *job
    chunk,                  \* what became of each chunk file
    returned                \* what run_chunk_jobs returned

queueVars == <<nextJob, failed>>
workerVars == <<workerAt, workerJob>>
jobsVars == <<jobCount, requested, mainAt, created, joined, queueVars, workerVars, chunk, returned>>

Job == 1 .. MaxJobs
Worker == 1 .. MaxRequested

NoJob == 0
Chunk == {"absent", "open", "written", "broken"}
MainAt == {"enter", "alone", "create", "mark", "join", "return", "done"}
WorkerAt == {"none", "take", "open", "write", "mark", "exit"}
Returned == {"running", "ok", "failed"}

JobsTypeOK ==
    /\ jobCount \in 0 .. MaxJobs /\ requested \in 0 .. MaxRequested
    /\ mainAt \in MainAt /\ created \in 0 .. MaxRequested /\ joined \in 0 .. MaxRequested
    /\ nextJob \in 0 .. MaxJobs /\ failed \in BOOLEAN
    /\ workerAt \in [Worker -> WorkerAt] /\ workerJob \in [Worker -> 0 .. MaxJobs]
    /\ chunk \in [Job -> Chunk] /\ returned \in Returned

JobsInit ==
    /\ jobCount \in 0 .. MaxJobs /\ requested \in 0 .. MaxRequested
    /\ mainAt = "enter" /\ created = 0 /\ joined = 0
    /\ nextJob = 0 /\ failed = FALSE
    /\ workerAt = [w \in Worker |-> "none"] /\ workerJob = [w \in Worker |-> NoJob]
    /\ chunk = [j \in Job |-> "absent"]
    /\ returned = "running"

-----------------------------------------------------------------------------

Return(r) == mainAt' = "done" /\ returned' = r

\* The number of threads: at least one, at most one a chunk.
effective_chunk_jobs ==
    LET r == IF requested = 0 THEN 1 ELSE requested
    IN  IF r > jobCount THEN jobCount ELSE r

\* No chunks: nothing to do.  One thread: the caller writes them itself.
\* Otherwise the queue is set up and its threads' handles allocated, and both
\* can fail.
Enter ==
    /\ mainAt = "enter"
    /\ \/ jobCount = 0 /\ Return("ok")
       \/ jobCount > 0 /\ effective_chunk_jobs = 1 /\ mainAt' = "alone" /\ UNCHANGED returned
       \/ jobCount > 0 /\ effective_chunk_jobs > 1 /\ mainAt' = "create" /\ UNCHANGED returned
       \/ jobCount > 0 /\ effective_chunk_jobs > 1 /\ Return("failed")
    /\ UNCHANGED <<jobCount, requested, created, joined, queueVars, workerVars, chunk>>

\* The caller's own loop stops at the first chunk it cannot write.  Nobody
\* watches it, so a whole chunk is one step; nextJob stands for the index i.
EmitAlone ==
    /\ mainAt = "alone"
    /\ \/ /\ nextJob = jobCount
          /\ Return("ok")
          /\ UNCHANGED <<nextJob, chunk>>
       \/ /\ nextJob < jobCount
          /\ nextJob' = nextJob + 1
          /\ chunk' = [chunk EXCEPT ![nextJob + 1] = "written"]
          /\ UNCHANGED <<mainAt, returned>>
       \/ /\ nextJob < jobCount
          /\ chunk' = [chunk EXCEPT ![nextJob + 1] = "broken"]
          /\ Return("failed")
          /\ UNCHANGED nextJob
    /\ UNCHANGED <<jobCount, requested, created, joined, failed, workerVars>>

\* pthread_create: one more worker, or none any more.
Create ==
    /\ mainAt = "create"
    /\ \/ /\ created < effective_chunk_jobs
          /\ created' = created + 1
          /\ workerAt' = [workerAt EXCEPT ![created + 1] = "take"]
          /\ UNCHANGED mainAt
       \/ /\ created < effective_chunk_jobs
          /\ mainAt' = "mark"
          /\ UNCHANGED <<created, workerAt>>
       \/ /\ created = effective_chunk_jobs
          /\ mainAt' = "join"
          /\ UNCHANGED <<created, workerAt>>
    /\ UNCHANGED <<jobCount, requested, joined, queueVars, workerJob, chunk, returned>>

\* ReturnUnjoined: a thread that cannot be started ends the call at once.
ReturnUnjoined ==
    /\ mainAt = "mark"
    /\ failed' = TRUE
    /\ Return("failed")
    /\ UNCHANGED <<jobCount, requested, created, joined, nextJob, workerVars, chunk>>

\* StartForgotten: a thread that cannot be started is only done without.
StartForgotten ==
    /\ mainAt = "mark"
    /\ mainAt' = "join"
    /\ UNCHANGED <<jobCount, requested, created, joined, queueVars, workerVars, chunk, returned>>

\* A thread that cannot be started fails the run; the others are still joined.
MarkUncreated ==
    /\ mainAt = "mark"
    /\ failed' = TRUE
    /\ mainAt' = "join"
    /\ UNCHANGED <<jobCount, requested, created, joined, nextJob, workerVars, chunk, returned>>

\* JoinRequested: joins as many threads as were asked for.
JoinRequested ==
    /\ mainAt = "join"
    /\ \/ /\ joined < effective_chunk_jobs
          /\ workerAt[joined + 1] = "exit"
          /\ joined' = joined + 1
          /\ UNCHANGED mainAt
       \/ /\ joined = effective_chunk_jobs
          /\ mainAt' = "return"
          /\ UNCHANGED joined
    /\ UNCHANGED <<jobCount, requested, created, queueVars, workerVars, chunk, returned>>

Join ==
    /\ mainAt = "join"
    /\ \/ /\ joined < created
          /\ workerAt[joined + 1] = "exit"
          /\ joined' = joined + 1
          /\ UNCHANGED mainAt
       \/ /\ joined = created
          /\ mainAt' = "return"
          /\ UNCHANGED joined
    /\ UNCHANGED <<jobCount, requested, created, queueVars, workerVars, chunk, returned>>

\* ok = !queue.failed, then the queue is gone with the stack frame.
Finish ==
    /\ mainAt = "return"
    /\ Return(IF failed THEN "failed" ELSE "ok")
    /\ UNCHANGED <<jobCount, requested, created, joined, queueVars, workerVars, chunk>>

-----------------------------------------------------------------------------

\* TakeUncounted: hands out a chunk and leaves next_job where it is.
TakeUncounted(w) ==
    /\ workerAt[w] = "take"
    /\ IF ~failed /\ nextJob < jobCount
       THEN /\ workerJob' = [workerJob EXCEPT ![w] = nextJob + 1]
            /\ workerAt' = [workerAt EXCEPT ![w] = "open"]
       ELSE workerAt' = [workerAt EXCEPT ![w] = "exit"] /\ UNCHANGED workerJob
    /\ UNCHANGED <<jobCount, requested, mainAt, created, joined, queueVars, chunk, returned>>

queue_take_job(w) ==
    /\ workerAt[w] = "take"
    /\ IF ~failed /\ nextJob < jobCount
       THEN /\ nextJob' = nextJob + 1
            /\ workerJob' = [workerJob EXCEPT ![w] = nextJob + 1]
            /\ workerAt' = [workerAt EXCEPT ![w] = "open"]
       ELSE workerAt' = [workerAt EXCEPT ![w] = "exit"] /\ UNCHANGED <<nextJob, workerJob>>
    /\ UNCHANGED <<jobCount, requested, mainAt, created, joined, failed, chunk, returned>>

\* emit_chunk_file: fopen creates or truncates the file, or fails.
OpenChunk(w) ==
    /\ workerAt[w] = "open"
    /\ \/ /\ chunk' = [chunk EXCEPT ![workerJob[w]] = "open"]
          /\ workerAt' = [workerAt EXCEPT ![w] = "write"]
       \/ /\ chunk' = [chunk EXCEPT ![workerJob[w]] = "broken"]
          /\ workerAt' = [workerAt EXCEPT ![w] = "mark"]
    /\ UNCHANGED <<jobCount, requested, mainAt, created, joined, queueVars, workerJob, returned>>

\* emit_chunk_file, emit_function and fclose: the verdict is fclose's.
WriteChunk(w) ==
    /\ workerAt[w] = "write"
    /\ \/ /\ chunk' = [chunk EXCEPT ![workerJob[w]] = "written"]
          /\ workerAt' = [workerAt EXCEPT ![w] = "take"]
       \/ /\ chunk' = [chunk EXCEPT ![workerJob[w]] = "broken"]
          /\ workerAt' = [workerAt EXCEPT ![w] = "mark"]
    /\ UNCHANGED <<jobCount, requested, mainAt, created, joined, queueVars, workerJob, returned>>

queue_mark_failed(w) ==
    /\ workerAt[w] = "mark"
    /\ failed' = TRUE
    /\ workerAt' = [workerAt EXCEPT ![w] = "exit"]
    /\ UNCHANGED <<jobCount, requested, mainAt, created, joined, nextJob, workerJob, chunk, returned>>

-----------------------------------------------------------------------------

MainStep == Enter \/ EmitAlone \/ Create \/ MarkUncreated \/ Join \/ Finish

chunk_worker_main(w) == queue_take_job(w) \/ OpenChunk(w) \/ WriteChunk(w) \/ queue_mark_failed(w)

JobsNext == MainStep \/ \E w \in Worker : chunk_worker_main(w)

\* The operating system runs every thread that can run.
JobsFairness == WF_jobsVars(MainStep) /\ \A w \in Worker : WF_jobsVars(chunk_worker_main(w))

JobsSpec == JobsInit /\ [][JobsNext]_jobsVars /\ JobsFairness

-----------------------------------------------------------------------------

\* Two workers never hold the same chunk (queue_take_job): no chunk file is
\* opened for writing twice, at once or one after the other.
OneWriterPerChunk ==
    /\ \A v, w \in Worker :
          {workerAt[v], workerAt[w]} \subseteq {"open", "write"} /\ workerJob[v] = workerJob[w] => v = w
    /\ \A w \in Worker : workerAt[w] = "open" => chunk[workerJob[w]] = "absent"

\* run_chunk_jobs tells the truth: 1 only when every chunk was written, 0 only
\* when a chunk could not be written or a thread, or the queue, not be had.
VerdictExact ==
    /\ returned = "ok" => \A j \in 1 .. jobCount : chunk[j] = "written"
    /\ returned = "failed" => \/ \E j \in 1 .. jobCount : chunk[j] = "broken"
                              \/ effective_chunk_jobs > 1 /\ created < effective_chunk_jobs

\* No worker is left when run_chunk_jobs returns: the queue they use lives on
\* its stack, and main.c frees the chunks next.
NoWorkerOutlives ==
    returned # "running" => \A w \in Worker : workerAt[w] \in {"none", "exit"}

\* run_chunk_jobs, once called, returns, whatever fails.
PoolEnds == mainAt # "enter" ~> returned # "running"
=============================================================================
