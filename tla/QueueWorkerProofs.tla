-------------------------- MODULE QueueWorkerProofs --------------------------
(***************************************************************************)
(* For any number of workers, ticks and identifiers, and for any limits of *)
(* attempts and stalls: a job runs once each time it is taken out of the   *)
(* queue, and it is taken out again, or given up, only because of that     *)
(* many stops and refused commands.                                        *)
(***************************************************************************)
EXTENDS QueueWorker, TLAPS

Unlocked == [state : {"none", "delayed", "waiting", "failed"}, holder : {NoWorker},
             handled : 0..MaxHandlings, attemptsMade : 0..Attempts,
             stalled : 0..(MaxStalledCount + 1)]

Taken(running) == [state : {"active", "handled"}, holder : running \cup {NoWorker},
                   handled : 0..MaxHandlings, attemptsMade : 0..(Attempts - 1),
                   stalled : 0..MaxStalledCount]

\* The invariant of a single job.
JobOK(r, running, n) ==
    /\ r \in Unlocked \cup Taken(running)
    /\ r.handled <= r.stalled + r.attemptsMade + (IF r.state = "handled" THEN 1 ELSE 0)
    /\ r.stalled + (IF r.state \in {"active", "handled"} /\ r.holder = NoWorker THEN 1 ELSE 0)
          + r.attemptsMade <= n
    /\ r.state = "failed" <=> \/ r.stalled = MaxStalledCount + 1
                              \/ r.attemptsMade = Attempts

AddingOK == adding \in [Ticks -> {NotAdding} \cup [by : up, next : 1..Identifiers]]

\* The invariant is that of every job, and the types of the rest.
ByJobs ==
    /\ up \subseteq Workers
    /\ AddingOK /\ AddedInTurn
    /\ job = [j \in Jobs |-> job[j]]
    /\ \A j \in Jobs : JobOK(job[j], up, faults)
    /\ faults \in 0..MaxFaults

LEMMA ByJob == QueueInv <=> ByJobs
<1>1. ASSUME QueueInv
      PROVE  \A j \in Jobs : JobOK(job[j], up, faults)
  BY <1>1 DEF QueueInv, TypeOK, HandledOncePerTaking, RetriesNeedFaults, Stalls, JobOK,
              Unlocked, Taken
<1>2. ASSUME job = [j \in Jobs |-> job[j]], \A j \in Jobs : JobOK(job[j], up, faults)
      PROVE  /\ job \in [Jobs -> Unlocked \cup Taken(up)]
             /\ HandledOncePerTaking /\ RetriesNeedFaults
  BY <1>2 DEF HandledOncePerTaking, RetriesNeedFaults, Stalls, JobOK
<1>. QED BY <1>1, <1>2 DEF QueueInv, TypeOK, ByJobs, AddingOK, Unlocked, Taken

LEMMA ByJobNext == ByJobs' => QueueInv'
BY ByJob, PTL

\* What a tick under way has not come to.
LEMMA ToCome ==
    ASSUME AddingOK, AddedInTurn, NEW t \in Ticks, adding[t] # NotAdding,
           NEW i \in adding[t].next..Identifiers
    PROVE  /\ adding[t].next \in 1..Identifiers /\ i \in 1..Identifiers
           /\ <<t, i>> \in Jobs /\ job[<<t, i>>] = NotAdded
<1>1. adding[t].next \in 1..Identifiers
  BY DEF AddingOK
<1>2. i \in 1..Identifiers
  BY <1>1, QueueAssumption
<1>3. <<t, i>> \in Jobs
  BY <1>2 DEF Jobs
<1>4. job[<<t, i>>] = NotAdded
  BY DEF AddedInTurn
<1>. QED BY <1>1, <1>2, <1>3, <1>4

\* Most steps are of one job that is in the queue, and leave all else alone.
LEMMA OneJob ==
    ASSUME QueueInv, NEW j \in Jobs, NEW r, JobOK(r, up, faults), job[j] # NotAdded,
           job' = [job EXCEPT ![j] = r], UNCHANGED <<up, adding, faults>>
    PROVE  QueueInv'
<1>1. /\ up \subseteq Workers /\ AddingOK /\ AddedInTurn /\ faults \in 0..MaxFaults
      /\ job = [i \in Jobs |-> job[i]]
      /\ \A i \in Jobs : JobOK(job[i], up, faults)
  BY ByJob DEF ByJobs
<1>2. job' = [i \in Jobs |-> job'[i]] /\ \A i \in Jobs : JobOK(job'[i], up, faults)
  BY <1>1
<1>3. AddingOK'
  BY <1>1 DEF AddingOK
<1>4. AddedInTurn'
  BY <1>1 DEF AddedInTurn
<1>. QED BY <1>1, <1>2, <1>3, <1>4, ByJobNext DEF ByJobs

\* With more processes a job is as good as before, and with another fault too.
LEMMA MoreProcesses ==
    ASSUME NEW r, NEW running, NEW more, NEW n, JobOK(r, running, n),
           r.holder \in more \cup {NoWorker}
    PROVE  JobOK(r, more, n)
<1>1. r \in Unlocked \cup Taken(more)
  BY DEF JobOK, Unlocked, Taken
<1>. QED BY <1>1 DEF JobOK

LEMMA AnotherFault ==
    ASSUME NEW r, NEW running, NEW n \in Nat, JobOK(r, running, n)
    PROVE  JobOK(r, running, n + 1)
<1>1. r.stalled \in Nat /\ r.attemptsMade \in Nat
  BY QueueAssumption DEF JobOK, Unlocked, Taken
<1>. QED BY <1>1 DEF JobOK

-----------------------------------------------------------------------------
LEMMA EmptyQueue == \A running, n : n \in Nat => JobOK(NotAdded, running, n)
BY QueueAssumption DEF JobOK, NotAdded, Unlocked, MaxHandlings

LEMMA QueueInit == Init => QueueInv
<1>. SUFFICES ASSUME Init PROVE QueueInv
  OBVIOUS
<1>1. up \subseteq Workers /\ AddingOK /\ AddedInTurn /\ faults \in 0..MaxFaults
  BY QueueAssumption DEF Init, AddingOK, AddedInTurn
<1>2. job = [j \in Jobs |-> job[j]] /\ \A j \in Jobs : JobOK(job[j], up, faults)
  BY EmptyQueue DEF Init
<1>. QED BY <1>1, <1>2, ByJob DEF ByJobs

LEMMA BootstrapStep ==
    ASSUME QueueInv, NEW w \in Workers, Bootstrap(w)
    PROVE  QueueInv'
<1>1. /\ up \subseteq Workers /\ AddingOK /\ AddedInTurn
      /\ faults \in 0..MaxFaults /\ faults \in Nat
      /\ job = [i \in Jobs |-> job[i]]
      /\ \A i \in Jobs : JobOK(job[i], up, faults)
  BY ByJob, QueueAssumption DEF ByJobs
<1>2. up' = up \cup {w} /\ adding' = adding /\ job' = job /\ faults' = faults
  BY DEF Bootstrap
<1>3. ASSUME NEW i \in Jobs
      PROVE  JobOK(job[i], up \cup {w}, faults)
  <2>1. JobOK(job[i], up, faults)
    BY <1>1
  <2>2. job[i].holder \in (up \cup {w}) \cup {NoWorker}
    BY <2>1 DEF JobOK, Unlocked, Taken
  <2>. QED BY <2>1, <2>2, MoreProcesses
<1>4. AddingOK' /\ AddedInTurn'
  BY <1>1, <1>2 DEF AddingOK, AddedInTurn
<1>. QED BY <1>1, <1>2, <1>3, <1>4, ByJobNext DEF ByJobs

LEMMA StartJobStep ==
    ASSUME QueueInv, NEW w \in Workers, NEW t \in Ticks, StartJob(w, t)
    PROVE  QueueInv'
<1>1. /\ up \subseteq Workers /\ AddingOK /\ AddedInTurn
      /\ faults \in 0..MaxFaults /\ faults \in Nat
      /\ job = [i \in Jobs |-> job[i]]
      /\ \A i \in Jobs : JobOK(job[i], up, faults)
  BY ByJob, QueueAssumption DEF ByJobs
<1>2. /\ w \in up /\ adding[t] = NotAdding /\ up' = up /\ faults' = faults
      /\ adding' = [adding EXCEPT ![t].by = w]
      /\ job' = [j \in Jobs |-> IF j[1] = t THEN NotAdded ELSE job[j]]
  BY DEF StartJob
<1>3. [NotAdding EXCEPT !.by = w] \in [by : up, next : 1..Identifiers]
  BY <1>2, QueueAssumption DEF NotAdding
<1>4. AddingOK'
  BY <1>1, <1>2, <1>3 DEF AddingOK
<1>5. AddedInTurn'
  <2>1. ASSUME NEW s \in Ticks, adding'[s] # NotAdding, NEW i \in adding'[s].next..Identifiers
        PROVE  job'[<<s, i>>] = NotAdded
    <3>1. CASE s = t
      <4>1. adding'[s].next = 1
        BY <1>1, <1>2, <3>1 DEF AddingOK, NotAdding
      <4>2. <<s, i>> \in Jobs
        BY <4>1, QueueAssumption DEF Jobs
      <4>. QED BY <1>2, <3>1, <4>2
    <3>2. CASE s # t
      <4>1. adding'[s] = adding[s]
        BY <1>1, <1>2, <3>2 DEF AddingOK
      <4>2. <<s, i>> \in Jobs /\ job[<<s, i>>] = NotAdded
        BY <1>1, <2>1, <4>1, ToCome
      <4>. QED BY <1>2, <3>2, <4>2
    <3>. QED BY <3>1, <3>2
  <2>. QED BY <2>1 DEF AddedInTurn
<1>6. job' = [i \in Jobs |-> job'[i]] /\ \A i \in Jobs : JobOK(job'[i], up, faults)
  BY <1>1, <1>2, EmptyQueue
<1>. QED BY <1>1, <1>2, <1>4, <1>5, <1>6, ByJobNext DEF ByJobs

LEMMA AddStep ==
    ASSUME QueueInv, NEW t \in Ticks, Add(t)
    PROVE  QueueInv'
<1>1. /\ up \subseteq Workers /\ AddingOK /\ AddedInTurn
      /\ faults \in 0..MaxFaults /\ faults \in Nat
      /\ job = [i \in Jobs |-> job[i]]
      /\ \A i \in Jobs : JobOK(job[i], up, faults)
  BY ByJob, QueueAssumption DEF ByJobs
<1>2. /\ adding[t] # NotAdding /\ up' = up /\ faults' = faults
      /\ job' = [job EXCEPT ![<<t, adding[t].next>>].state = "delayed"]
      /\ adding' = [adding EXCEPT ![t] = NextTurn(adding[t])]
  BY DEF Add
<1>3. /\ adding[t] \in [by : up, next : 1..Identifiers]
      /\ adding[t].next \in 1..Identifiers /\ adding[t].next \in Nat
  BY <1>1, <1>2, QueueAssumption DEF AddingOK
<1>4. PICK j \in Jobs : j = <<t, adding[t].next>> /\ job[j] = NotAdded
  <2>1. adding[t].next \in adding[t].next..Identifiers
    BY <1>3, QueueAssumption
  <2>. QED BY <1>1, <1>2, <2>1, ToCome
<1>5. JobOK([NotAdded EXCEPT !.state = "delayed"], up, faults)
  BY <1>1, QueueAssumption DEF JobOK, NotAdded, Unlocked, MaxHandlings
<1>6. job' = [job EXCEPT ![j] = [NotAdded EXCEPT !.state = "delayed"]]
  BY <1>2, <1>4
<1>7. job' = [i \in Jobs |-> job'[i]] /\ \A i \in Jobs : JobOK(job'[i], up, faults)
  BY <1>1, <1>5, <1>6
<1>. DEFINE turn == [adding[t] EXCEPT !.next = adding[t].next + 1]
<1>8. /\ adding[t].next = Identifiers => adding' = [adding EXCEPT ![t] = NotAdding]
      /\ adding[t].next # Identifiers => adding' = [adding EXCEPT ![t] = turn]
  BY <1>2 DEF NextTurn
<1>9. AddingOK'
  <2>1. CASE adding[t].next = Identifiers
    BY <1>1, <1>2, <1>8, <2>1 DEF AddingOK
  <2>2. CASE adding[t].next # Identifiers
    <3>1. turn \in [by : up, next : 1..Identifiers]
      <4>1. adding[t].next + 1 \in 1..Identifiers
        BY <1>3, <2>2, QueueAssumption
      <4>. QED BY <1>3, <4>1
    <3>. HIDE DEF turn
    <3>. QED BY <1>1, <1>2, <1>8, <2>2, <3>1 DEF AddingOK
  <2>. QED BY <2>1, <2>2
<1>10. AddedInTurn'
  <2>1. ASSUME NEW s \in Ticks, adding'[s] # NotAdding, NEW i \in adding'[s].next..Identifiers
        PROVE  job'[<<s, i>>] = NotAdded
    <3>1. CASE s = t
      <4>1. adding'[s] = turn
        <5>. HIDE DEF turn
        <5>1. adding[t].next # Identifiers
          BY <1>1, <1>8, <2>1, <3>1 DEF AddingOK
        <5>. QED BY <1>1, <1>8, <3>1, <5>1 DEF AddingOK
      <4>2. adding'[s].next = adding[t].next + 1
        BY <1>3, <4>1
      <4>3. i \in adding[t].next..Identifiers /\ i # adding[t].next /\ i \in 1..Identifiers
        BY <1>3, <2>1, <4>2, QueueAssumption
      <4>4. job[<<s, i>>] = NotAdded /\ <<s, i>> # j /\ <<s, i>> \in Jobs
        BY <1>1, <1>2, <1>4, <3>1, <4>3, ToCome
      <4>. QED BY <1>1, <1>6, <4>4
    <3>2. CASE s # t
      <4>1. adding'[s] = adding[s]
        BY <1>1, <1>2, <3>2 DEF AddingOK
      <4>2. <<s, i>> \in Jobs /\ job[<<s, i>>] = NotAdded
        BY <1>1, <2>1, <4>1, ToCome
      <4>3. <<s, i>> # j
        BY <1>4, <3>2
      <4>. QED BY <1>1, <1>6, <4>2, <4>3
    <3>. QED BY <3>1, <3>2
  <2>. QED BY <2>1 DEF AddedInTurn
<1>. QED BY <1>1, <1>2, <1>7, <1>9, <1>10, ByJobNext DEF ByJobs

-----------------------------------------------------------------------------
LEMMA DelayOverStep ==
    ASSUME QueueInv, NEW j \in Jobs, DelayOver(j)
    PROVE  QueueInv'
<1>. DEFINE r == [job[j] EXCEPT !.state = "waiting"]
<1>1. JobOK(job[j], up, faults) /\ job = [i \in Jobs |-> job[i]]
  BY ByJob DEF ByJobs
<1>2. job[j].state = "delayed" /\ job' = [job EXCEPT ![j] = r] /\ UNCHANGED <<up, adding, faults>>
  BY DEF DelayOver
<1>3. job[j] # NotAdded
  BY <1>2 DEF NotAdded
<1>4. JobOK(r, up, faults)
  BY <1>1, <1>2, QueueAssumption DEF JobOK, Unlocked, Taken
<1>. QED BY <1>2, <1>3, <1>4, OneJob

LEMMA FetchStep ==
    ASSUME QueueInv, NEW w \in Workers, NEW j \in Jobs, Fetch(w, j)
    PROVE  QueueInv'
<1>. DEFINE r == [job[j] EXCEPT !.state = "active", !.holder = w]
<1>1. JobOK(job[j], up, faults) /\ job = [i \in Jobs |-> job[i]]
  BY ByJob DEF ByJobs
<1>2. /\ w \in up /\ job[j].state = "waiting"
      /\ job' = [job EXCEPT ![j] = r] /\ UNCHANGED <<up, adding, faults>>
  BY <1>1 DEF Fetch
<1>3. job[j] # NotAdded
  BY <1>2 DEF NotAdded
<1>4. /\ job[j] \in Unlocked /\ job[j].stalled \in 0..MaxStalledCount
      /\ job[j].attemptsMade \in 0..(Attempts - 1)
  BY <1>1, <1>2, QueueAssumption DEF JobOK, Unlocked, Taken
<1>5. r \in Taken(up) /\ r.state = "active" /\ r.holder = w
  BY <1>2, <1>4 DEF Unlocked, Taken
<1>6. w # NoWorker
  BY QueueAssumption
<1>7. JobOK(r, up, faults)
  BY <1>1, <1>2, <1>4, <1>5, <1>6, QueueAssumption DEF JobOK, Unlocked
<1>. QED BY <1>2, <1>3, <1>7, OneJob

LEMMA OnNftCreatedStep ==
    ASSUME QueueInv, NEW w \in Workers, NEW j \in Jobs, OnNftCreated(w, j)
    PROVE  QueueInv'
<1>. DEFINE r == [job[j] EXCEPT !.state = "handled", !.handled = job[j].handled + 1]
<1>1. JobOK(job[j], up, faults) /\ job = [i \in Jobs |-> job[i]]
  BY ByJob DEF ByJobs
<1>2. /\ job[j].state = "active" /\ job[j].holder = w
      /\ job' = [job EXCEPT ![j] = r] /\ UNCHANGED <<up, adding, faults>>
  BY <1>1 DEF OnNftCreated
<1>3. job[j] # NotAdded
  BY <1>2 DEF NotAdded
<1>4. w # NoWorker
  BY QueueAssumption
<1>5. job[j] \in Taken(up) /\ job[j].handled \in 0..(MaxHandlings - 1)
  BY <1>1, <1>2, QueueAssumption DEF JobOK, Unlocked, Taken, MaxHandlings
<1>6. r \in Taken(up) /\ r.state = "handled" /\ r.holder = w
  <2>1. job[j].handled + 1 \in 0..MaxHandlings
    BY <1>5, QueueAssumption DEF MaxHandlings
  <2>. QED BY <1>2, <1>5, <2>1 DEF Taken
<1>7. JobOK(r, up, faults)
  BY <1>1, <1>2, <1>4, <1>5, <1>6, QueueAssumption DEF JobOK, Taken
<1>. QED BY <1>2, <1>3, <1>7, OneJob

LEMMA CompleteStep ==
    ASSUME QueueInv, NEW j \in Jobs, Complete(j)
    PROVE  QueueInv'
<1>1. JobOK(NotAdded, up, faults)
  BY EmptyQueue, ByJob, QueueAssumption DEF ByJobs
<1>2. /\ job[j].state = "handled"
      /\ job' = [job EXCEPT ![j] = NotAdded] /\ UNCHANGED <<up, adding, faults>>
  BY DEF Complete
<1>3. job[j] # NotAdded
  BY <1>2 DEF NotAdded
<1>. QED BY <1>1, <1>2, <1>3, OneJob

LEMMA MoveStalledStep ==
    ASSUME QueueInv, NEW j \in Jobs, MoveStalled(j)
    PROVE  QueueInv'
<1>1. JobOK(job[j], up, faults) /\ job = [i \in Jobs |-> job[i]]
  BY ByJob DEF ByJobs
<1>2. /\ job[j].state \in {"active", "handled"} /\ job[j].holder = NoWorker
      /\ UNCHANGED <<up, adding, faults>>
  BY DEF MoveStalled
<1>3. job[j] # NotAdded
  BY <1>2 DEF NotAdded
<1>4. job[j] \in Taken(up) /\ job[j].stalled \in 0..MaxStalledCount
  BY <1>1, <1>2 DEF JobOK, Unlocked, Taken
<1>5. faults \in Nat
  BY ByJob, QueueAssumption DEF ByJobs
<1>6. CASE /\ job[j].stalled < MaxStalledCount
           /\ job' = [job EXCEPT ![j].state = "waiting", ![j].stalled = @ + 1]
  <2>. DEFINE r == [job[j] EXCEPT !.state = "waiting", !.stalled = @ + 1]
  <2>1. job' = [job EXCEPT ![j] = r]
    BY <1>1, <1>6
  <2>2. JobOK(r, up, faults)
    BY <1>1, <1>2, <1>4, <1>5, <1>6, QueueAssumption DEF JobOK, Unlocked, Taken
  <2>. QED BY <1>2, <1>3, <2>1, <2>2, OneJob
<1>7. CASE /\ job[j].stalled >= MaxStalledCount
           /\ job' = [job EXCEPT ![j].state = "failed", ![j].stalled = @ + 1]
  <2>. DEFINE r == [job[j] EXCEPT !.state = "failed", !.stalled = @ + 1]
  <2>1. job' = [job EXCEPT ![j] = r]
    BY <1>1, <1>7
  <2>2. JobOK(r, up, faults)
    BY <1>1, <1>2, <1>4, <1>5, <1>7, QueueAssumption DEF JobOK, Unlocked, Taken
  <2>. QED BY <1>2, <1>3, <2>1, <2>2, OneJob
<1>. QED BY <1>6, <1>7 DEF MoveStalled

-----------------------------------------------------------------------------
\* A killed process leaves its tick and its locks behind.
LEMMA StopStep ==
    ASSUME QueueInv, NEW w \in Workers, Stop(w), faults < MaxFaults, faults' = faults + 1
    PROVE  QueueInv'
<1>1. /\ up \subseteq Workers /\ AddingOK /\ AddedInTurn
      /\ faults \in 0..MaxFaults /\ faults \in Nat /\ faults + 1 \in Nat
      /\ job = [i \in Jobs |-> job[i]]
      /\ \A i \in Jobs : JobOK(job[i], up, faults)
  BY ByJob, QueueAssumption DEF ByJobs
<1>2. /\ up' = up \ {w}
      /\ adding' = [t \in Ticks |-> IF adding[t].by = w THEN NotAdding ELSE adding[t]]
      /\ job' = [j \in Jobs |-> IF job[j].holder = w
                               THEN [job[j] EXCEPT !.holder = NoWorker] ELSE job[j]]
  BY DEF Stop
<1>3. w # NoWorker
  BY QueueAssumption
<1>4. AddingOK'
  <2>1. ASSUME NEW t \in Ticks
        PROVE  adding'[t] \in {NotAdding} \cup [by : up \ {w}, next : 1..Identifiers]
    BY <1>1, <1>2 DEF AddingOK
  <2>. QED BY <1>2, <2>1 DEF AddingOK
<1>5. ASSUME NEW j \in Jobs
      PROVE  JobOK(job'[j], up', faults')
  <2>1. CASE job[j].holder = w
    <3>1. job[j] \in Taken(up)
      BY <1>1, <1>3, <2>1 DEF JobOK, Unlocked
    <3>2. job'[j] = [job[j] EXCEPT !.holder = NoWorker]
      BY <1>2, <2>1
    <3>. QED BY <1>1, <1>2, <1>3, <2>1, <3>1, <3>2, QueueAssumption DEF JobOK, Taken, Unlocked
  <2>2. CASE job[j].holder # w
    <3>1. job'[j] = job[j] /\ job[j].holder \in (up \ {w}) \cup {NoWorker}
      BY <1>1, <1>2, <2>2 DEF JobOK, Taken, Unlocked
    <3>2. JobOK(job[j], up \ {w}, faults)
      BY <1>1, <3>1, MoreProcesses
    <3>3. JobOK(job[j], up \ {w}, faults + 1)
      BY <1>1, <3>2, AnotherFault
    <3>. QED BY <1>2, <3>1, <3>3
  <2>. QED BY <2>1, <2>2
<1>6. AddedInTurn'
  <2>1. ASSUME NEW t \in Ticks, adding'[t] # NotAdding, NEW i \in adding'[t].next..Identifiers
        PROVE  job'[<<t, i>>] = NotAdded
    <3>1. adding'[t] = adding[t]
      BY <1>2, <2>1
    <3>2. <<t, i>> \in Jobs /\ job[<<t, i>>] = NotAdded
      BY <1>1, <2>1, <3>1, ToCome
    <3>. QED BY <1>2, <1>3, <3>2 DEF NotAdded
  <2>. QED BY <2>1 DEF AddedInTurn
<1>7. job' = [j \in Jobs |-> job'[j]] /\ up' \subseteq Workers /\ faults' \in 0..MaxFaults
  BY <1>1, <1>2, QueueAssumption
<1>8. \A j \in Jobs : JobOK(job'[j], up', faults')
  BY <1>5
<1>. QED BY <1>4, <1>6, <1>7, <1>8, ByJobNext DEF ByJobs

LEMMA RefuseAddStep ==
    ASSUME QueueInv, NEW t \in Ticks, RefuseAdd(t), faults < MaxFaults, faults' = faults + 1
    PROVE  QueueInv'
<1>1. /\ up \subseteq Workers /\ AddingOK /\ AddedInTurn
      /\ faults \in 0..MaxFaults /\ faults \in Nat /\ faults + 1 \in Nat
      /\ job = [i \in Jobs |-> job[i]]
      /\ \A i \in Jobs : JobOK(job[i], up, faults)
  BY ByJob, QueueAssumption DEF ByJobs
<1>2. adding' = [adding EXCEPT ![t] = NotAdding] /\ up' = up /\ job' = job
  BY DEF RefuseAdd
<1>3. ASSUME NEW j \in Jobs
      PROVE  JobOK(job[j], up, faults + 1)
  <2>1. JobOK(job[j], up, faults)
    BY <1>1
  <2>. QED BY <1>1, <2>1, AnotherFault
<1>4. AddingOK' /\ AddedInTurn'
  BY <1>1, <1>2 DEF AddingOK, AddedInTurn
<1>. QED BY <1>1, <1>2, <1>3, <1>4, QueueAssumption, ByJobNext DEF ByJobs

\* A failed attempt, and a lock that is left behind, are paid for by the fault.
LEMMA RefusedIsOK ==
    ASSUME NEW r, NEW running, NEW n \in Nat, JobOK(r, running, n),
           r.state = "handled", r.holder # NoWorker,
           NEW q, q = TryAgain(r) \/ q = [r EXCEPT !.holder = NoWorker]
    PROVE  JobOK(q, running, n + 1)
<1>1. r \in Taken(running)
  BY DEF JobOK, Unlocked
<1>2. /\ r.handled <= r.stalled + r.attemptsMade + 1
      /\ r.stalled + r.attemptsMade <= n
      /\ r.stalled \in 0..MaxStalledCount /\ r.attemptsMade \in 0..(Attempts - 1)
      /\ r.handled \in 0..MaxHandlings
  BY <1>1, QueueAssumption DEF JobOK, Taken
<1>3. CASE q = TryAgain(r)
  <2>1. /\ q.state = IF r.attemptsMade + 1 < Attempts THEN "waiting" ELSE "failed"
        /\ q.holder = NoWorker /\ q.attemptsMade = r.attemptsMade + 1
        /\ q.handled = r.handled /\ q.stalled = r.stalled
    BY <1>1, <1>3 DEF TryAgain, Taken
  <2>2. q \in Unlocked
    <3>1. /\ r.attemptsMade + 1 \in 0..Attempts /\ r.stalled \in 0..(MaxStalledCount + 1)
      BY <1>2, QueueAssumption
    <3>. QED BY <1>1, <1>2, <1>3, <3>1 DEF TryAgain, Taken, Unlocked
  <2>3. q.state = "failed" <=> q.attemptsMade = Attempts
    BY <1>2, <2>1, QueueAssumption
  <2>4. q.stalled # MaxStalledCount + 1
    BY <1>2, <2>1, QueueAssumption
  <2>5. /\ q.handled <= q.stalled + q.attemptsMade
        /\ q.stalled + q.attemptsMade <= n + 1
        /\ q.stalled + 0 = q.stalled
        /\ q.stalled + q.attemptsMade + 0 = q.stalled + q.attemptsMade
    BY <1>2, <2>1, QueueAssumption
  <2>6. q.state \notin {"active", "handled"}
    BY <2>1
  <2>. QED BY <2>2, <2>3, <2>4, <2>5, <2>6 DEF JobOK
<1>4. CASE q = [r EXCEPT !.holder = NoWorker]
  <2>1. /\ q \in Taken(running) /\ q.state = "handled" /\ q.holder = NoWorker
        /\ q.attemptsMade = r.attemptsMade /\ q.handled = r.handled /\ q.stalled = r.stalled
    BY <1>1, <1>4 DEF Taken
  <2>. QED BY <1>2, <2>1, QueueAssumption DEF JobOK
<1>. QED BY <1>3, <1>4

LEMMA RefuseCompleteStep ==
    ASSUME QueueInv, NEW j \in Jobs, RefuseComplete(j), faults < MaxFaults,
           faults' = faults + 1
    PROVE  QueueInv'
<1>1. /\ up \subseteq Workers /\ AddingOK /\ AddedInTurn
      /\ faults \in 0..MaxFaults /\ faults \in Nat /\ faults + 1 \in Nat
      /\ job = [i \in Jobs |-> job[i]]
      /\ \A i \in Jobs : JobOK(job[i], up, faults)
  BY ByJob, QueueAssumption DEF ByJobs
<1>2. PICK q, r :
         /\ r = job[j] /\ r.state = "handled" /\ r.holder # NoWorker
         /\ q = TryAgain(r) \/ q = [r EXCEPT !.holder = NoWorker]
         /\ job' = [job EXCEPT ![j] = q]
         /\ up' = up /\ adding' = adding
  BY DEF RefuseComplete
<1>3. JobOK(q, up, faults + 1)
  <2>1. JobOK(r, up, faults)
    BY <1>1, <1>2
  <2>. QED BY <1>1, <1>2, <2>1, RefusedIsOK
<1>4. ASSUME NEW i \in Jobs
      PROVE  JobOK(job[i], up, faults + 1)
  <2>1. JobOK(job[i], up, faults)
    BY <1>1
  <2>. QED BY <1>1, <2>1, AnotherFault
<1>5. job' = [i \in Jobs |-> job'[i]] /\ \A i \in Jobs : JobOK(job'[i], up, faults + 1)
  BY <1>1, <1>2, <1>3, <1>4
<1>6. AddedInTurn'
  <2>1. ASSUME NEW t \in Ticks, adding[t] # NotAdding, NEW i \in adding[t].next..Identifiers
        PROVE  job'[<<t, i>>] = NotAdded
    <3>1. <<t, i>> \in Jobs /\ job[<<t, i>>] = NotAdded
      BY <1>1, <2>1, ToCome
    <3>. QED BY <1>1, <1>2, <3>1 DEF NotAdded
  <2>. QED BY <1>2, <2>1 DEF AddedInTurn
<1>7. AddingOK'
  BY <1>1, <1>2 DEF AddingOK
<1>. QED BY <1>1, <1>2, <1>5, <1>6, <1>7, QueueAssumption, ByJobNext DEF ByJobs

\* example.queue.service.ts handles a job once each time the queue hands it out, and the
\* queue hands it out again, or gives it up, only after that many stops and refusals,
\* whether it stalled or an attempt was counted as failed: for any number of processes,
\* overlapping ticks and identifiers.
THEOREM QueueInvariant == Spec => []QueueInv
<1>1. ASSUME QueueInv, [Next]_vars
      PROVE  QueueInv'
  <2>1. CASE \E w \in Workers : Bootstrap(w)
    BY <1>1, <2>1, BootstrapStep
  <2>2. CASE \E w \in Workers, t \in Ticks : StartJob(w, t)
    BY <1>1, <2>2, StartJobStep
  <2>3. CASE \E w \in Workers, j \in Jobs : Fetch(w, j)
    BY <1>1, <2>3, FetchStep
  <2>4. CASE \E t \in Ticks : Add(t)
    BY <1>1, <2>4, AddStep
  <2>5. CASE \E j \in Jobs : Progress(j)
    BY <1>1, <2>5, DelayOverStep, CompleteStep, MoveStalledStep, OnNftCreatedStep
       DEF Progress
  <2>6. CASE Disturbance
    BY <1>1, <2>6, StopStep, RefuseAddStep, RefuseCompleteStep DEF Disturbance
  <2>7. CASE UNCHANGED vars
    <3>1. UNCHANGED <<up, adding, job, faults>>
      BY <2>7 DEF vars
    <3>2. /\ up \subseteq Workers /\ AddingOK /\ AddedInTurn /\ faults \in 0..MaxFaults
          /\ job = [j \in Jobs |-> job[j]] /\ \A j \in Jobs : JobOK(job[j], up, faults)
      BY <1>1, ByJob DEF ByJobs
    <3>3. AddingOK' /\ AddedInTurn'
      BY <3>1, <3>2 DEF AddingOK, AddedInTurn
    <3>. QED BY <3>1, <3>2, <3>3, ByJobNext DEF ByJobs
  <2>. QED BY <1>1, <2>1, <2>2, <2>3, <2>4, <2>5, <2>6, <2>7 DEF Next
<1>. QED BY QueueInit, <1>1, PTL DEF Spec
=============================================================================
