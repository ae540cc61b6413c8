----------------------------- MODULE QueueWorker -----------------------------
(***************************************************************************)
(* The queue worker (mx-portfolio-pilot-service, apps/queue-worker): a     *)
(* cron adds one job for each identifier to a Bull queue in Redis, one     *)
(* after the other, and the same processes take them out again after the   *)
(* delay. The queue is external: delayed, waiting and active jobs, the     *)
(* lock of an active one, and the stalled check, which takes jobs back     *)
(* from a worker that is gone and gives a job up that stalls too often.    *)
(*                                                                         *)
(* The handler only writes to the log: it ends at once and never throws.   *)
(* An attempt fails all the same when Redis refuses to record the end of a *)
(* job that was handled: Bull tries such a job again, as often as          *)
(* "attempts" allows. The timeout and the loss of a lock under a living    *)
(* worker never come to bear. In which order waiting jobs are taken is     *)
(* left open.                                                              *)
(*                                                                         *)
(* At this commit the app does not import the ScheduleModule, and no cron  *)
(* fires; all that is said of jobs is said of the app with that import.    *)
(***************************************************************************)
EXTENDS Naturals, FiniteSets

CONSTANTS
    Workers,         \* processes of the app
    Imports,         \* modules the app imports
    Identifiers,     \* length of the list of identifiers of one tick
    Concurrency,     \* jobs a process may hold at a time
    Attempts,        \* the option of add
    MaxStalledCount, \* how often a job may stall, a default of Bull
    Ticks,           \* slots for the ticks whose jobs are in the queue
    MaxFaults,       \* bound on stops and refused commands
    NoWorker

ASSUME QueueAssumption ==
    /\ NoWorker \notin Workers
    /\ Identifiers \in Nat \ {0}
    /\ Concurrency \in Nat \ {0}
    /\ Attempts \in Nat \ {0}
    /\ MaxStalledCount \in Nat
    /\ MaxFaults \in Nat

VARIABLES
    up,      \* processes that run
    adding,  \* the tick under way in each slot: process and next identifier
    job,     \* the jobs of the slot's last tick
    faults

vars == <<up, adding, job, faults>>

Jobs == Ticks \X (1..Identifiers)

NotAdding == [by |-> NoWorker, next |-> 1]
NotAdded == [state |-> "none", holder |-> NoWorker, handled |-> 0, attemptsMade |-> 0,
             stalled |-> 0]

Init ==
    /\ up = {}
    /\ adding = [t \in Ticks |-> NotAdding]
    /\ job = [j \in Jobs |-> NotAdded]
    /\ faults = 0

\* The jobs a process holds the lock of.
HeldBy(w) == {j \in Jobs : job[j].holder = w}

-----------------------------------------------------------------------------
\* bootstrap: the app listens, and with it cron and consumers.
Bootstrap(w) ==
    /\ w \notin up
    /\ up' = up \cup {w}
    /\ UNCHANGED <<adding, job, faults>>

\* Crons are found and started by the ScheduleModule.
Scheduled == "ScheduleModule" \in Imports

\* The cron fires, every minute and in every process, whether or not the tick before
\* it has come to its end. A slot is free again when its jobs are removed or given up.
StartJob(w, t) ==
    /\ Scheduled
    /\ w \in up
    /\ adding[t] = NotAdding
    /\ \A i \in 1..Identifiers : job[<<t, i>>].state \in {"none", "failed"}
    /\ adding' = [adding EXCEPT ![t].by = w]
    /\ job' = [j \in Jobs |-> IF j[1] = t THEN NotAdded ELSE job[j]]
    /\ UNCHANGED <<up, faults>>

NextTurn(a) == IF a.next = Identifiers THEN NotAdding ELSE [a EXCEPT !.next = @ + 1]

\* One turn of the loop over the identifiers: the job is in the queue when add returns.
Add(t) ==
    /\ adding[t] # NotAdding
    /\ job' = [job EXCEPT ![<<t, adding[t].next>>].state = "delayed"]
    /\ adding' = [adding EXCEPT ![t] = NextTurn(@)]
    /\ UNCHANGED <<up, faults>>

-----------------------------------------------------------------------------
DelayOver(j) ==
    /\ up # {}
    /\ job[j].state = "delayed"
    /\ job' = [job EXCEPT ![j].state = "waiting"]
    /\ UNCHANGED <<up, adding, faults>>

\* Mutant: the consumer is registered for jobs of another name, and Bull fails these.
FetchUnnamed(w, j) ==
    /\ w \in up
    /\ job[j].state = "waiting"
    /\ job' = [job EXCEPT ![j].state = "failed"]
    /\ UNCHANGED <<up, adding, faults>>

Fetch(w, j) ==
    /\ w \in up
    /\ Cardinality(HeldBy(w)) < Concurrency
    /\ job[j].state = "waiting"
    /\ job' = [job EXCEPT ![j].state = "active", ![j].holder = w]
    /\ UNCHANGED <<up, adding, faults>>

\* An attempt that failed: the job waits for the next, or was tried often enough.
TryAgain(r) ==
    [r EXCEPT !.state = IF r.attemptsMade + 1 < Attempts THEN "waiting" ELSE "failed",
              !.holder = NoWorker,
              !.attemptsMade = @ + 1]

\* Mutant: the handler waits for something that never comes, but for the first identifier.
HandleFirstOnly(w, j) ==
    /\ j[2] = 1
    /\ job[j].state = "active" /\ job[j].holder = w
    /\ job' = [job EXCEPT ![j].state = "handled", ![j].handled = @ + 1]
    /\ UNCHANGED <<up, adding, faults>>

OnNftCreated(w, j) ==
    /\ job[j].state = "active" /\ job[j].holder = w
    /\ job' = [job EXCEPT ![j].state = "handled", ![j].handled = @ + 1]
    /\ UNCHANGED <<up, adding, faults>>

\* Bull records that the job is done, which removes it.
Complete(j) ==
    /\ job[j].state = "handled" /\ job[j].holder # NoWorker
    /\ job' = [job EXCEPT ![j] = NotAdded]
    /\ UNCHANGED <<up, adding, faults>>

\* The stalled check of any process finds a job without a lock among the active ones.
MoveStalled(j) ==
    /\ up # {}
    /\ job[j].state \in {"active", "handled"} /\ job[j].holder = NoWorker
    /\ \/ /\ job[j].stalled < MaxStalledCount
          /\ job' = [job EXCEPT ![j].state = "waiting", ![j].stalled = @ + 1]
       \/ /\ job[j].stalled >= MaxStalledCount
          /\ job' = [job EXCEPT ![j].state = "failed", ![j].stalled = @ + 1]
    /\ UNCHANGED <<up, adding, faults>>

-----------------------------------------------------------------------------
\* Mutant: locks that outlive their process.
StopKeepingLocks(w) ==
    /\ w \in up
    /\ up' = up \ {w}
    /\ adding' = [t \in Ticks |-> IF adding[t].by = w THEN NotAdding ELSE adding[t]]
    /\ UNCHANGED job

\* A process is killed: its tick ends where it is and its locks run out.
Stop(w) ==
    /\ w \in up
    /\ up' = up \ {w}
    /\ adding' = [t \in Ticks |-> IF adding[t].by = w THEN NotAdding ELSE adding[t]]
    /\ job' = [j \in Jobs |-> IF job[j].holder = w
                              THEN [job[j] EXCEPT !.holder = NoWorker] ELSE job[j]]

\* Redis refuses an add: the scheduler logs the error, and the rest of the tick's jobs
\* is not queued.
RefuseAdd(t) ==
    /\ adding[t] # NotAdding
    /\ adding' = [adding EXCEPT ![t] = NotAdding]
    /\ UNCHANGED <<up, job>>

\* Redis refuses to record that a job is done. Bull takes that for a failure of the
\* attempt; if the record of the failure is refused as well, the job's lock runs out.
RefuseComplete(j) ==
    /\ job[j].state = "handled" /\ job[j].holder # NoWorker
    /\ \/ job' = [job EXCEPT ![j] = TryAgain(@)]
       \/ job' = [job EXCEPT ![j].holder = NoWorker]
    /\ UNCHANGED <<up, adding>>

Disturbance ==
    /\ faults < MaxFaults
    /\ faults' = faults + 1
    /\ \/ \E w \in Workers : Stop(w)
       \/ \E t \in Ticks : RefuseAdd(t)
       \/ \E j \in Jobs : RefuseComplete(j)

\* What Bull does with a job by itself, and the handler with one it has been given.
Progress(j) ==
    \/ DelayOver(j) \/ Complete(j) \/ MoveStalled(j)
    \/ \E w \in Workers : OnNftCreated(w, j)

Next ==
    \/ \E w \in Workers : \/ Bootstrap(w)
                          \/ \E t \in Ticks : StartJob(w, t)
                          \/ \E j \in Jobs : Fetch(w, j)
    \/ \E t \in Ticks : Add(t)
    \/ \E j \in Jobs : Progress(j)
    \/ Disturbance

\* Processes are started again, crons fire for ever and Redis answers. Bull takes jobs
\* of the same priority first in, first out, so a waiting job is not overtaken for ever.
Spec ==
    /\ Init /\ [][Next]_vars
    /\ \A w \in Workers : WF_vars(Bootstrap(w)) /\ WF_vars(\E t \in Ticks : StartJob(w, t))
    /\ \A t \in Ticks : WF_vars(Add(t))
    /\ \A j \in Jobs : WF_vars(Progress(j)) /\ SF_vars(\E w \in Workers : Fetch(w, j))

-----------------------------------------------------------------------------
MaxHandlings == MaxStalledCount + Attempts

\* Locks belong to processes that run, and to active jobs.
TypeOK ==
    /\ up \subseteq Workers
    /\ adding \in [Ticks -> {NotAdding} \cup [by : up, next : 1..Identifiers]]
    /\ job \in [Jobs ->
          [state : {"none", "delayed", "waiting", "failed"}, holder : {NoWorker},
           handled : 0..MaxHandlings, attemptsMade : 0..Attempts,
           stalled : 0..(MaxStalledCount + 1)]
          \cup [state : {"active", "handled"}, holder : up \cup {NoWorker},
                handled : 0..MaxHandlings, attemptsMade : 0..(Attempts - 1),
                stalled : 0..MaxStalledCount]]
    /\ faults \in 0..MaxFaults

\* The handler runs once for each time the job is taken out of the queue: nothing in
\* example.queue.service.ts makes a job run twice while everything works. A job is
\* taken out again only after it has stalled, or after an attempt that counts as failed
\* (worker.service.ts:22).
HandledOncePerTaking ==
    \A j \in Jobs :
        job[j].handled <= job[j].stalled + job[j].attemptsMade
                             + (IF job[j].state = "handled" THEN 1 ELSE 0)

\* Stalled as far as the process that held its lock goes, or counted as such already.
Stalls(j) ==
    job[j].stalled
        + (IF job[j].state \in {"active", "handled"} /\ job[j].holder = NoWorker THEN 1 ELSE 0)

\* Each time a job stalls or an attempt fails, a process was stopped or Redis refused to
\* record the job's end; so a job is given up, perhaps without having been handled, only
\* after as many faults as Bull allows stalls and one more, or as many as attempts.
RetriesNeedFaults ==
    \A j \in Jobs :
        /\ Stalls(j) + job[j].attemptsMade <= faults
        /\ job[j].state = "failed" <=> \/ job[j].stalled = MaxStalledCount + 1
                                       \/ job[j].attemptsMade = Attempts

\* What a tick has not come to is not in the queue: a slot is not taken over by a tick
\* while jobs of another are still there.
AddedInTurn ==
    \A t \in Ticks : adding[t] # NotAdding =>
        \A i \in adding[t].next..Identifiers : job[<<t, i>>] = NotAdded

QueueInv == TypeOK /\ AddedInTurn /\ HandledOncePerTaking /\ RetriesNeedFaults

\* What a tick has queued is handled in the end, or given up, whatever stops or restarts
\* in the meantime, and however many ticks of other processes come after it.
QueuedJobsAreHandled ==
    \A j \in Jobs : job[j].state = "delayed" ~> (job[j].handled > 0 \/ job[j].state = "failed")

\* README.md:39 of the service: the app "is used for concurrently processing heavy jobs".
\* If it is, every identifier of the list (worker.service.ts:18) is handled again and
\* again, also after ticks that were cut short.
EveryIdentifierIsServed ==
    \A i \in 1..Identifiers :
        []<><<\E w \in Workers, t \in Ticks : OnNftCreated(w, <<t, i>>)>>_vars
=============================================================================
