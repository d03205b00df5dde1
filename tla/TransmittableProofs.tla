------------------------ MODULE TransmittableProofs ------------------------
(***************************************************************************)
(* For any number of workers, flows, failures, exceptions and crashes: a   *)
(* failed record says why, the job is marked before its transmission, a    *)
(* failure a flow returned can be seen, the states of a failed             *)
(* transmission have ended, and the jobs of one message id are bounded.    *)
(***************************************************************************)
EXTENDS Transmittable, FiniteSetTheorems, TLAPS

(* What step h leaves alone of every other worker.                         *)
OthersUnchanged(h) ==
  \A k \in Worker \ {h} :
    /\ pc'[k] = pc[k] /\ flow'[k] = flow[k] /\ query'[k] = query[k] /\ job'[k] = job[k]
    /\ transmission'[k] = transmission[k] /\ left'[k] = left[k] /\ failure'[k] = failure[k]
    /\ target'[k] = target[k] /\ known'[k] = known[k] /\ outcome'[k] = outcome[k]

(* Jobs are never deleted, keep their ids, and stay failed and explained;  *)
(* only its own worker changes a transmission.                             *)
JobsKept ==
  /\ Len(jobs) <= Len(jobs')
  /\ \A j \in 1..Len(jobs) :
       /\ jobs'[j].job_id = jobs[j].job_id /\ jobs'[j].message_id = jobs[j].message_id
       /\ jobs[j].error => jobs'[j].error
       /\ jobs[j].latest = "failed" => jobs'[j].latest = "failed"
       /\ jobs[j].ended => jobs'[j].ended

TransmissionsKept(h) ==
  /\ Len(transmissions) <= Len(transmissions')
  /\ \A t \in 1..Len(transmissions) :
       /\ transmissions'[t].job = transmissions[t].job
       /\ t # transmission[h] => transmissions'[t] = transmissions[t]

Kept(h) ==
  /\ jobs' \in Seq(JobDoc) /\ transmissions' \in Seq(TransmissionDoc)
  /\ JobsKept /\ TransmissionsKept(h)
  /\ used'["raises"] = 0 => used["raises"] = 0

Visible(w) ==
  outcome[w] = "failure" /\ failure[w] \in Recorded =>
    /\ jobs[job[w]].error
    /\ failure[w] = "string" => jobs[job[w]].latest = "failed" /\ jobs[job[w]].ended

Closed(t) ==
  transmissions[t].latest = "failed" =>
    /\ transmissions[t].ended
    /\ \A i \in 1..Len(transmissions[t].states) : transmissions[t].states[i].ended

-----------------------------------------------------------------------------
LEMMA Types ==
  ASSUME IInv, NEW w \in Worker
  PROVE  /\ jobs \in Seq(JobDoc) /\ transmissions \in Seq(TransmissionDoc)
         /\ Len(jobs) \in Nat /\ Len(transmissions) \in Nat
         /\ job[w] \in Nat /\ transmission[w] \in Nat
         /\ job[w] <= Len(jobs) /\ transmission[w] <= Len(transmissions)
         /\ target[w] \in Target
         /\ WorkerConsistent(w)
<1>1. WorkerConsistent(w) /\ TypeOK
  BY DEF IInv, WorkersConsistent
<1>2. job[w] <= Len(jobs) /\ transmission[w] <= Len(transmissions)
  BY <1>1 DEF WorkerConsistent
<1>3. QED
  BY <1>1, <1>2 DEF TypeOK

LEMMA Others ==
  ASSUME IInv, NEW h \in Worker, OthersUnchanged(h), Kept(h)
  PROVE  \A k \in Worker \ {h} : WorkerConsistent(k)' /\ Visible(k)'
<1> SUFFICES ASSUME NEW k \in Worker \ {h}
             PROVE  WorkerConsistent(k)' /\ Visible(k)'
  OBVIOUS
<1>1. /\ jobs \in Seq(JobDoc) /\ transmissions \in Seq(TransmissionDoc)
      /\ Len(jobs) \in Nat /\ Len(transmissions) \in Nat
      /\ jobs' \in Seq(JobDoc) /\ transmissions' \in Seq(TransmissionDoc)
      /\ Len(jobs') \in Nat /\ Len(transmissions') \in Nat
      /\ job[k] \in Nat /\ transmission[k] \in Nat
      /\ job[k] <= Len(jobs) /\ transmission[k] <= Len(transmissions)
      /\ target[k] \in Target
      /\ WorkerConsistent(k)
  BY Types DEF Kept
<1>2. /\ pc'[k] = pc[k] /\ flow'[k] = flow[k] /\ query'[k] = query[k] /\ job'[k] = job[k]
      /\ transmission'[k] = transmission[k] /\ left'[k] = left[k] /\ failure'[k] = failure[k]
      /\ target'[k] = target[k] /\ known'[k] = known[k] /\ outcome'[k] = outcome[k]
  BY DEF OthersUnchanged
<1>3. job[k] # 0 =>
        /\ job[k] \in 1..Len(jobs)
        /\ jobs'[job[k]].job_id = jobs[job[k]].job_id
        /\ jobs[job[k]].error => jobs'[job[k]].error
        /\ jobs[job[k]].latest = "failed" => jobs'[job[k]].latest = "failed"
        /\ jobs[job[k]].ended => jobs'[job[k]].ended
  BY <1>1 DEF Kept, JobsKept
<1>4. transmission[k] # 0 =>
        /\ transmission[k] \in 1..Len(transmissions)
        /\ transmissions'[transmission[k]] = transmissions[transmission[k]]
  <2>1. transmission[k] # 0 => transmission[k] # transmission[h]
    BY DEF IInv, TransmissionsOwned
  <2>2. QED
    BY <1>1, <2>1 DEF Kept, TransmissionsKept
<1>5. Settled(k) => Settled(k)'
  BY <1>2, <1>4 DEF Settled
<1>6. pc[k] = "save_record" => Doc(k)'.latest = "failed"
  <2> SUFFICES ASSUME pc[k] = "save_record" PROVE Doc(k)'.latest = "failed"
    OBVIOUS
  <2>1. Doc(k).latest = "failed" /\ job[k] # 0
        /\ (target[k] = "transmission" => transmission[k] # 0)
    BY <1>1 DEF WorkerConsistent, Updating, IsContact
  <2>2. CASE target[k] = "job"
    BY <1>2, <1>3, <2>1, <2>2 DEF Doc
  <2>3. CASE target[k] = "transmission"
    BY <1>2, <1>4, <2>1, <2>3 DEF Doc
  <2>4. QED
    BY <1>1, <2>2, <2>3 DEF Target
<1>7. Visible(k)'
  <2>1. outcome[k] = "failure" /\ failure[k] \in Recorded => job[k] # 0
    BY <1>1 DEF WorkerConsistent
  <2>2. Visible(k)
    BY DEF IInv, RefusalIsVisible, Visible
  <2>3. QED
    BY <1>2, <1>3, <2>1, <2>2 DEF Visible
<1>8. WorkerConsistent(k)'
  <2>1. job'[k] <= Len(jobs') /\ transmission'[k] <= Len(transmissions')
    BY <1>1, <1>2 DEF Kept, JobsKept, TransmissionsKept
  <2>2. used'["raises"] = 0 => Settled(k)'
    BY <1>1, <1>5 DEF Kept, WorkerConsistent
  <2>3. QED
    BY <1>1, <1>2, <1>3, <1>4, <1>6, <2>1, <2>2 DEF WorkerConsistent, Updating, IsContact
<1>9. QED
  BY <1>7, <1>8

(* A record's failure is explained, and its job's state known, when the    *)
(* step wrote h's own records only.                                        *)
LEMMA Step ==
  ASSUME IInv, NEW h \in Worker, TypeOK', OthersUnchanged(h), Kept(h),
         WorkerConsistent(h)', Visible(h)',
         FailedIsExplained', JobFailsFirst', InsertsBounded',
         \A t \in 1..Len(transmissions') : transmissions'[t].job \in 1..Len(jobs'),
         transmission'[h] \in {0, transmission[h], Len(transmissions) + 1},
         used'["raises"] = 0 =>
           \A t \in 1..Len(transmissions') :
             transmission'[h] # t /\ (t = transmission[h] \/ t \notin 1..Len(transmissions)) =>
               Closed(t)'
  PROVE  IInv'
<1>1. WorkersConsistent'
  BY Others DEF WorkersConsistent
<1>2. RefusalIsVisible'
  <2>1. \A w \in Worker : Visible(w)'
    BY Others
  <2>2. QED
    BY <2>1 DEF RefusalIsVisible, Visible
<1>3. TransmissionsOwned'
  <2> SUFFICES ASSUME NEW v \in Worker, NEW w \in Worker,
                      transmission'[v] = transmission'[w], transmission'[v] # 0
               PROVE  v = w
    BY DEF TransmissionsOwned
  <2>1. \A k \in Worker : transmission[k] <= Len(transmissions) /\ transmission[k] \in Nat
    BY Types
  <2>2. \A k \in Worker \ {h} : transmission'[k] = transmission[k]
    BY DEF OthersUnchanged
  <2>3. \A j, k \in Worker : transmission[j] = transmission[k] /\ transmission[j] # 0 => j = k
    BY DEF IInv, TransmissionsOwned
  <2>4. Len(transmissions) \in Nat
    BY Types
  <2>5. ASSUME NEW k \in Worker \ {h}, transmission'[h] = transmission'[k], transmission'[k] # 0
        PROVE  FALSE
    BY <2>1, <2>2, <2>3, <2>4, <2>5
  <2>6. CASE v = h \/ w = h
    BY <2>5, <2>6
  <2>7. CASE v # h /\ w # h
    BY <2>2, <2>3, <2>7
  <2>8. QED
    BY <2>6, <2>7
<1>4. StatesEnded'
  <2> SUFFICES ASSUME used'["raises"] = 0, NEW t \in 1..Len(transmissions'),
                      \A w \in Worker : transmission'[w] # t
               PROVE  Closed(t)'
    BY DEF StatesEnded, Closed
  <2>1. CASE t = transmission[h] \/ t \notin 1..Len(transmissions)
    BY <2>1
  <2>2. CASE t # transmission[h] /\ t \in 1..Len(transmissions)
    <3>1. \A w \in Worker : transmission[w] # t
      BY <2>2 DEF OthersUnchanged
    <3>2. Closed(t)
      BY <2>2, <3>1 DEF IInv, StatesEnded, Closed, Kept
    <3>3. transmissions'[t] = transmissions[t]
      BY <2>2 DEF Kept, TransmissionsKept
    <3>4. QED
      BY <3>2, <3>3 DEF Closed
  <2>3. QED
    BY <2>1, <2>2
<1>5. QED
  BY <1>1, <1>2, <1>3, <1>4 DEF IInv

(* The ids of the jobs and the workers about to insert one.                *)
LEMMA SameBound ==
  ASSUME IInv, NEW h \in Worker, OthersUnchanged(h), Kept(h), Len(jobs') = Len(jobs),
         pc'[h] = "insert_job" => Asked(h)' = None \/ JobsWith(Asked(h))' = {}
  PROVE  InsertsBounded'
<1> SUFFICES ASSUME NEW m \in MessageId
             PROVE  Cardinality(JobsWith(m)') + Cardinality(Inserting(m)') <= Cardinality(Worker)
  BY DEF InsertsBounded
<1>1. IsFiniteSet(Worker) /\ None # m
  BY ParameterAssumption
<1>2. JobsWith(m)' = JobsWith(m)
  BY DEF JobsWith, Kept, JobsKept
<1>3. Inserting(m)' \ {h} \subseteq Inserting(m) /\ Inserting(m) \subseteq Worker
      /\ Inserting(m)' \subseteq Worker
  BY DEF Inserting, Asked, OthersUnchanged
<1>4. /\ IsFiniteSet(Inserting(m)) /\ IsFiniteSet(Inserting(m)')
      /\ Cardinality(Inserting(m)) \in Nat /\ Cardinality(Inserting(m)') \in Nat
      /\ Cardinality(Inserting(m)') <= Cardinality(Worker) /\ Cardinality(Worker) \in Nat
  BY <1>1, <1>3, FS_Subset, FS_CardinalityType
<1>5. CASE h \in Inserting(m)'
  <2>1. JobsWith(m)' = {}
    BY <1>1, <1>5 DEF Inserting
  <2>2. Cardinality(JobsWith(m)') = 0
    BY <2>1, FS_EmptySet
  <2>3. QED
    BY <1>4, <2>2
<1>6. CASE h \notin Inserting(m)'
  <2>1. Inserting(m)' \subseteq Inserting(m)
    BY <1>3, <1>6
  <2>2. Cardinality(Inserting(m)') <= Cardinality(Inserting(m))
    BY <1>4, <2>1, FS_Subset
  <2>3. JobsWith(m) \subseteq 1..Len(jobs) /\ Len(jobs) \in Nat
    BY Types DEF JobsWith
  <2>4. Cardinality(JobsWith(m)) \in Nat
    <3>1. IsFiniteSet(1..Len(jobs))
      BY <2>3, FS_Interval
    <3>2. IsFiniteSet(JobsWith(m))
      BY <2>3, <3>1, FS_Subset
    <3>3. QED
      BY <3>2, FS_CardinalityType
  <2>5. Cardinality(JobsWith(m)) + Cardinality(Inserting(m)) <= Cardinality(Worker)
    BY DEF IInv, InsertsBounded
  <2>6. QED
    BY <1>2, <1>4, <2>2, <2>4, <2>5
<1>7. QED
  BY <1>5, <1>6

(* A step that writes no record.                                           *)
LEMMA QuietStep ==
  ASSUME IInv, NEW h \in Worker, TypeOK', OthersUnchanged(h), UNCHANGED records,
         used'["raises"] = 0 => used["raises"] = 0,
         WorkerConsistent(h)', Visible(h)',
         transmission'[h] \in {0, transmission[h]},
         pc'[h] = "insert_job" => Asked(h)' = None \/ JobsWith(Asked(h))' = {},
         used'["raises"] = 0 /\ transmission[h] # 0 /\ transmission'[h] = 0 =>
           Closed(transmission[h])
  PROVE  IInv'
<1>1. /\ jobs' = jobs /\ transmissions' = transmissions
      /\ jobs \in Seq(JobDoc) /\ transmissions \in Seq(TransmissionDoc)
      /\ transmission[h] <= Len(transmissions) /\ transmission[h] \in Nat
      /\ Len(jobs) \in Nat /\ Len(transmissions) \in Nat
  BY Types DEF records
<1>2. Kept(h)
  BY <1>1 DEF Kept, JobsKept, TransmissionsKept
<1>3. FailedIsExplained' /\ JobFailsFirst'
  BY <1>1 DEF IInv, FailedIsExplained, JobFailsFirst
<1>4. InsertsBounded'
  BY <1>1, <1>2, SameBound
<1>5. \A t \in 1..Len(transmissions') : transmissions'[t].job \in 1..Len(jobs')
  BY <1>1 DEF IInv, TransmissionsOwned
<1>6. ASSUME used'["raises"] = 0, NEW t \in 1..Len(transmissions'), transmission'[h] # t,
             t = transmission[h] \/ t \notin 1..Len(transmissions)
      PROVE  Closed(t)'
  <2>1. t = transmission[h] /\ transmission[h] # 0 /\ transmission'[h] = 0
    BY <1>1, <1>6
  <2>2. Closed(t)
    BY <1>6, <2>1
  <2>3. QED
    BY <1>1, <2>2 DEF Closed
<1>7. QED
  BY <1>2, <1>3, <1>4, <1>5, <1>6, Step

(* What the end of a flow leaves.                                          *)
LEMMA Ended ==
  ASSUME IInv, NEW h \in Worker, NEW how \in {"success", "failure", "raised", "crashed"},
         End(h, how), UNCHANGED <<job, second>>,
         jobs' \in Seq(JobDoc), transmissions' \in Seq(TransmissionDoc),
         Len(jobs) <= Len(jobs'),
         failure' \in [Worker -> Failure],
         \A k \in Worker \ {h} : failure'[k] = failure[k],
         used' \in [{"flows", "failures", "raises"} -> Nat],
         how = "failure" /\ failure'[h] \in Recorded => job[h] # 0
  PROVE  /\ TypeOK' /\ OthersUnchanged(h) /\ WorkerConsistent(h)'
         /\ pc'[h] = "idle" /\ transmission'[h] = 0 /\ outcome'[h] = how
<1>1. TypeOK /\ job[h] <= Len(jobs) /\ job[h] \in Nat /\ Len(jobs) \in Nat /\ Len(jobs') \in Nat
      /\ Len(transmissions') \in Nat
  BY Types DEF IInv
<1>2. TypeOK'
  <2>1. known' \in [Worker -> [Target -> Nat]]
    BY <1>1 DEF TypeOK, End
  <2>2. target' \in [Worker -> Target]
    BY <1>1 DEF TypeOK, End, Target
  <2>3. /\ pc' \in [Worker -> {"idle", "find_job", "validate_job", "insert_job",
                              "create_transmission", "create_family", "find_subject",
                              "create_transaction", "process", "add_error", "load_status",
                              "push_state", "save_status", "save_record"}]
        /\ flow' \in [Worker -> {"none", "request", "response", "lookup", "find"}]
        /\ query' \in [Worker -> Query \cup {None}]
        /\ transmission' \in [Worker -> Nat]
        /\ left' \in [Worker -> Nat]
        /\ outcome' \in [Worker -> {"none", "success", "failure", "raised", "crashed"}]
    BY <1>1 DEF TypeOK, End, Goto
  <2>4. QED
    BY <1>1, <2>1, <2>2, <2>3 DEF TypeOK
<1>3. OthersUnchanged(h)
  BY <1>1 DEF TypeOK, End, Goto, OthersUnchanged
<1>4. /\ pc'[h] = "idle" /\ transmission'[h] = 0 /\ outcome'[h] = how
      /\ query'[h] = None /\ job'[h] = job[h]
  BY <1>1 DEF TypeOK, End, Goto
<1>5. WorkerConsistent(h)'
  BY <1>1, <1>4 DEF WorkerConsistent, Settled, Updating, IsContact
<1>6. QED
  BY <1>2, <1>3, <1>4, <1>5

LEMMA UseType ==
  ASSUME TypeOK, NEW what \in {"flows", "failures", "raises"}, NEW max, Use(what, max)
  PROVE  /\ used' \in [{"flows", "failures", "raises"} -> Nat]
         /\ used'["raises"] = 0 => used["raises"] = 0
         /\ what = "raises" => used'["raises"] # 0
BY DEF TypeOK, Use

(* Between two updates, a failed transmission has no open state.           *)
LEMMA Closing ==
  ASSUME IInv, NEW w \in Worker, transmission[w] # 0, used["raises"] = 0,
         target[w] = "transmission" => pc[w] \notin {"save_status", "save_record"}
  PROVE  Closed(transmission[w])
<1> DEFINE t == transmissions[transmission[w]]
<1>1. Settled(w) /\ transmission[w] \in 1..Len(transmissions)
      /\ transmissions \in Seq(TransmissionDoc)
  BY Types DEF WorkerConsistent
<1>2. t \in TransmissionDoc
  BY <1>1
<1>3. Len(t.states) \in Nat
  BY <1>2 DEF TransmissionDoc
<1>4. /\ \A i \in 1..Len(t.states) : i < Len(t.states) => t.states[i].ended
      /\ t.latest = "failed" => t.ended /\ t.states[Len(t.states)].ended
  BY <1>1 DEF Settled
<1>5. QED
  BY <1>3, <1>4 DEF Closed

-----------------------------------------------------------------------------
LEMMA InitIInv == Init => IInv
<1> SUFFICES ASSUME Init PROVE IInv
  OBVIOUS
<1>1. jobs \in Seq(JobDoc) /\ \A j \in 1..Len(jobs) : jobs[j].latest = "initial"
  <2>1. ASSUME NEW m \in Earlier
        PROVE  NewJob(0, m) \in JobDoc /\ NewJob(0, m).latest = "initial"
    BY ParameterAssumption DEF NewJob, JobDoc, Initial, StateKey, ProcessState
  <2>2. CASE jobs = <<>>
    BY <2>2
  <2>3. ASSUME NEW m \in Earlier, jobs = <<NewJob(0, m)>>
        PROVE  jobs \in Seq(JobDoc) /\ \A j \in 1..Len(jobs) : jobs[j].latest = "initial"
    BY <2>1, <2>3
  <2>4. QED
    BY <2>2, <2>3 DEF Init
<1>2. Len(jobs) \in {0, 1}
  BY DEF Init
<1>3. TypeOK
  BY <1>1 DEF Init, TypeOK, Target, Failure
<1>4. WorkersConsistent
  BY <1>2 DEF Init, WorkersConsistent, WorkerConsistent, Settled, Updating, IsContact
<1>5. TransmissionsOwned /\ FailedIsExplained /\ JobFailsFirst /\ RefusalIsVisible /\ StatesEnded
  BY <1>1 DEF Init, TransmissionsOwned, FailedIsExplained, JobFailsFirst, RefusalIsVisible,
     StatesEnded
<1>6. InsertsBounded
  <2> SUFFICES ASSUME NEW m \in MessageId
               PROVE  Cardinality(JobsWith(m)) + Cardinality(Inserting(m)) <= Cardinality(Worker)
    BY DEF InsertsBounded
  <2>1. Inserting(m) = {}
    BY DEF Init, Inserting
  <2>2. JobsWith(m) \subseteq {1}
    BY <1>2 DEF JobsWith
  <2>3. IsFiniteSet({1}) /\ Cardinality({1}) = 1
    BY FS_Singleton
  <2>4. Cardinality(JobsWith(m)) <= 1 /\ Cardinality(JobsWith(m)) \in Nat
    BY <2>2, <2>3, FS_Subset, FS_CardinalityType
  <2>5. Cardinality(Inserting(m)) = 0
    BY <2>1, FS_EmptySet
  <2>6. Cardinality(Worker) \in Nat /\ Cardinality(Worker) # 0
    BY ParameterAssumption, FS_CardinalityType, FS_EmptySet
  <2>7. QED
    BY <2>4, <2>5, <2>6
<1>7. QED
  BY <1>3, <1>4, <1>5, <1>6 DEF IInv

LEMMA TickStep ==
  ASSUME IInv, Tick
  PROVE  IInv'
<1>1. TypeOK'
  BY DEF IInv, TypeOK, Tick, records, locals
<1>2. UNCHANGED <<jobs, transmissions, pc, flow, query, job, transmission, left, failure, target,
                  known, outcome, used>>
  BY DEF Tick, records, locals
<1>3. WorkersConsistent'
  <2> SUFFICES ASSUME NEW w \in Worker PROVE WorkerConsistent(w)'
    BY DEF WorkersConsistent
  <2>1. WorkerConsistent(w)
    BY DEF IInv, WorkersConsistent
  <2>2. /\ Settled(w)' <=> Settled(w)
        /\ Doc(w)' = Doc(w)
    BY <1>2 DEF Settled, Doc
  <2>3. QED
    BY <1>2, <2>1, <2>2 DEF WorkerConsistent, IsContact
<1>4. TransmissionsOwned' /\ FailedIsExplained' /\ JobFailsFirst' /\ RefusalIsVisible' /\ StatesEnded'
  BY <1>2 DEF IInv, TransmissionsOwned, FailedIsExplained, JobFailsFirst, RefusalIsVisible,
     StatesEnded
<1>5. InsertsBounded'
  BY <1>2 DEF IInv, InsertsBounded, JobsWith, Inserting, Asked
<1>6. QED
  BY <1>1, <1>3, <1>4, <1>5 DEF IInv

-----------------------------------------------------------------------------
LEMMA Beginning ==
  ASSUME IInv, NEW h \in Worker, NEW kind \in {"request", "lookup", "find"},
         NEW question \in Query \cup {None}, NEW step \in {"find_job", "validate_job"},
         Begin(h, kind, question, step)
  PROVE  IInv'
<1>1. /\ TypeOK /\ WorkerConsistent(h) /\ pc[h] = "idle"
      /\ used' \in [{"flows", "failures", "raises"} -> Nat]
      /\ used'["raises"] = 0 => used["raises"] = 0
      /\ UNCHANGED <<records, second, transmission, target, known>>
  BY Types, UseType DEF IInv, Begin
<1>2. left' \in [Worker -> Nat]
  <2>1. Contacts \in Nat
    BY ParameterAssumption
  <2>2. (IF kind = "lookup" THEN 1 ELSE Contacts + 1) \in Nat
    BY <2>1
  <2>3. QED
    BY <1>1, <2>2 DEF TypeOK, Begin
<1>3. TypeOK'
  <2>1. /\ pc' \in [Worker -> {"idle", "find_job", "validate_job", "insert_job",
                              "create_transmission", "create_family", "find_subject",
                              "create_transaction", "process", "add_error", "load_status",
                              "push_state", "save_status", "save_record"}]
        /\ flow' \in [Worker -> {"none", "request", "response", "lookup", "find"}]
        /\ query' \in [Worker -> Query \cup {None}]
        /\ job' \in [Worker -> Nat]
        /\ failure' \in [Worker -> Failure]
        /\ outcome' \in [Worker -> {"none", "success", "failure", "raised", "crashed"}]
    BY <1>1 DEF TypeOK, Begin, Goto, Failure
  <2>2. QED
    BY <1>1, <1>2, <2>1 DEF TypeOK, records
<1>4. OthersUnchanged(h)
  BY <1>1 DEF TypeOK, Begin, Goto, OthersUnchanged
<1>5. /\ pc'[h] = step /\ query'[h] = question /\ job'[h] = 0 /\ outcome'[h] = "none"
      /\ failure'[h] = "none" /\ jobs' = jobs /\ transmissions' = transmissions /\ transmission'[h] = transmission[h]
      /\ target'[h] = target[h]
  BY <1>1 DEF TypeOK, Begin, Goto, records
<1>6. transmission[h] = 0
  BY <1>1 DEF WorkerConsistent
<1>7. WorkerConsistent(h)'
  <2>1. job'[h] <= Len(jobs') /\ transmission'[h] <= Len(transmissions')
    BY <1>5, <1>6, Types
  <2>2. Settled(h)'
    BY <1>5, <1>6 DEF Settled
  <2>3. ~ IsContact(h)'
    <3>1. Contacts \in Nat
      BY ParameterAssumption
    <3>2. flow'[h] = kind /\ left'[h] = IF kind = "lookup" THEN 1 ELSE Contacts + 1
      BY <1>1 DEF TypeOK, Begin
    <3>3. QED
      BY <3>1, <3>2 DEF IsContact
  <2>4. QED
    BY <1>5, <1>6, <2>1, <2>2, <2>3 DEF WorkerConsistent, Updating
<1>8. Visible(h)'
  BY <1>5 DEF Visible
<1>9. QED
  BY <1>1, <1>3, <1>4, <1>5, <1>6, <1>7, <1>8, QuietStep

LEMMA BeginStep ==
  ASSUME IInv, NEW h \in Worker, BeginRequest(h) \/ BeginLookup(h) \/ BeginFind(h)
  PROVE  IInv'
<1>1. CASE Begin(h, "request", None, "validate_job") \/ Begin(h, "lookup", None, "validate_job")
  BY <1>1, Beginning
<1>2. ASSUME NEW m \in MessageId,
             Begin(h, "find", [by |-> "message_id", message_id |-> m], "find_job")
      PROVE  IInv'
  <2> DEFINE question == [by |-> "message_id", message_id |-> m]
  <2>1. question \in Query
    BY DEF Query
  <2> HIDE DEF question
  <2>2. Begin(h, "find", question, "find_job")
    BY <1>2 DEF question
  <2>3. QED
    BY <2>1, <2>2, Beginning
<1>3. ASSUME NEW j \in 1..Len(jobs),
             Begin(h, "lookup", [by |-> "job_id", job_id |-> jobs[j].job_id], "find_job")
      PROVE  IInv'
  <2> DEFINE question == [by |-> "job_id", job_id |-> jobs[j].job_id]
  <2>1. jobs[j] \in JobDoc
    BY Types
  <2>2. jobs[j].job_id \in Nat
    BY <2>1 DEF JobDoc
  <2>3. question \in Query
    BY <2>2 DEF Query
  <2> HIDE DEF question
  <2>4. Begin(h, "lookup", question, "find_job")
    BY <1>3 DEF question
  <2>5. QED
    BY <2>3, <2>4, Beginning
<1>4. QED
  BY <1>1, <1>2, <1>3 DEF BeginRequest, BeginLookup, BeginFind

LEMMA FindJobStep ==
  ASSUME IInv, NEW h \in Worker, FindJob(h)
  PROVE  IInv'
<1>1. /\ TypeOK /\ WorkerConsistent(h) /\ pc[h] = "find_job"
      /\ UNCHANGED <<records, second, failure, used>>
      /\ jobs \in Seq(JobDoc) /\ transmissions \in Seq(TransmissionDoc)
      /\ Len(jobs) \in Nat
      /\ transmission[h] <= Len(transmissions)
  BY Types DEF IInv, FindJob
<1>2. transmission[h] = 0 /\ outcome[h] = "none" /\ job[h] = 0 /\ failure[h] = "none"
  BY <1>1 DEF WorkerConsistent
<1>3. CASE /\ Goto(h, "validate_job")
           /\ UNCHANGED <<flow, query, job, transmission, left, target, known, outcome>>
  <2>1. TypeOK'
    BY <1>1, <1>3 DEF TypeOK, Goto, records
  <2>2. OthersUnchanged(h) /\ pc'[h] = "validate_job"
    BY <1>1, <1>3 DEF TypeOK, Goto, OthersUnchanged
  <2>3. Settled(h)' /\ Visible(h)'
    BY <1>1, <1>2, <1>3 DEF Settled, Visible
  <2>4. WorkerConsistent(h)'
    BY <1>1, <1>2, <1>3, <2>2, <2>3 DEF WorkerConsistent, Updating, IsContact, records
  <2>5. QED
    BY <1>1, <1>2, <1>3, <2>1, <2>2, <2>3, <2>4, QuietStep
<1>4. ASSUME NEW j \in Newest(Matches(h)),
             job' = [job EXCEPT ![h] = j],
             Goto(h, "create_transmission"),
             UNCHANGED <<flow, query, transmission, left, target, known, outcome>>
      PROVE  IInv'
  <2>1. j \in 1..Len(jobs) /\ j \in Nat
    BY <1>1 DEF Newest, Matches
  <2>2. TypeOK'
    BY <1>1, <1>4, <2>1 DEF TypeOK, Goto, records
  <2>3. OthersUnchanged(h) /\ pc'[h] = "create_transmission" /\ job'[h] = j
    BY <1>1, <1>4 DEF TypeOK, Goto, OthersUnchanged
  <2>4. Settled(h)' /\ Visible(h)'
    BY <1>1, <1>2, <1>4, <2>1, <2>3 DEF Settled, Visible, records
  <2>5. WorkerConsistent(h)'
    BY <1>1, <1>2, <1>4, <2>1, <2>3, <2>4 DEF WorkerConsistent, Updating, IsContact, records
  <2>6. QED
    BY <1>1, <1>2, <1>4, <2>2, <2>3, <2>4, <2>5, QuietStep
<1>5. CASE End(h, "success") /\ UNCHANGED job
  <2>1. /\ failure' \in [Worker -> Failure]
        /\ \A k \in Worker \ {h} : failure'[k] = failure[k]
        /\ used' \in [{"flows", "failures", "raises"} -> Nat]
        /\ jobs' = jobs /\ transmissions' = transmissions
    BY <1>1 DEF TypeOK, records
  <2>2. /\ TypeOK' /\ OthersUnchanged(h) /\ WorkerConsistent(h)'
        /\ pc'[h] = "idle" /\ transmission'[h] = 0 /\ outcome'[h] = "success"
    BY <1>1, <1>5, <2>1, Ended
  <2>3. QED
    BY <1>1, <1>2, <2>2, QuietStep DEF Visible
<1>6. QED
  BY <1>3, <1>4, <1>5 DEF FindJob

LEMMA ValidateJobStep ==
  ASSUME IInv, NEW h \in Worker, ValidateJob(h)
  PROVE  IInv'
<1>1. /\ TypeOK /\ WorkerConsistent(h) /\ pc[h] = "validate_job"
      /\ UNCHANGED <<records, second, job, failure, used>>
      /\ jobs \in Seq(JobDoc) /\ transmissions \in Seq(TransmissionDoc) /\ Len(jobs) \in Nat
      /\ transmission[h] <= Len(transmissions)
  BY Types DEF IInv, ValidateJob
<1>2. transmission[h] = 0 /\ outcome[h] = "none" /\ job[h] = 0
  BY <1>1 DEF WorkerConsistent
<1>3. CASE /\ Asked(h) = None \/ JobsWith(Asked(h)) = {}
           /\ Goto(h, "insert_job")
           /\ UNCHANGED <<flow, query, transmission, left, target, known, outcome>>
  <2>1. TypeOK'
    BY <1>1, <1>3 DEF TypeOK, Goto, records
  <2>2. OthersUnchanged(h) /\ pc'[h] = "insert_job"
    BY <1>1, <1>3 DEF TypeOK, Goto, OthersUnchanged
  <2>3. Settled(h)' /\ Visible(h)'
    BY <1>1, <1>2, <1>3 DEF Settled, Visible
  <2>4. WorkerConsistent(h)'
    BY <1>1, <1>2, <1>3, <2>2, <2>3 DEF WorkerConsistent, Updating, IsContact, records
  <2>5. Asked(h)' = None \/ JobsWith(Asked(h))' = {}
    BY <1>1, <1>3 DEF Asked, JobsWith, records
  <2>6. QED
    BY <1>1, <1>2, <1>3, <2>1, <2>2, <2>3, <2>4, <2>5, QuietStep
<1>4. CASE End(h, "failure") /\ Asked(h) # None
  <2>1. failure[h] = "none"
    BY <1>1 DEF WorkerConsistent
  <2>2. /\ TypeOK' /\ OthersUnchanged(h) /\ WorkerConsistent(h)'
        /\ pc'[h] = "idle" /\ transmission'[h] = 0
    <3>1. /\ failure' \in [Worker -> Failure]
          /\ \A k \in Worker \ {h} : failure'[k] = failure[k]
          /\ failure'[h] = "none"
          /\ used' \in [{"flows", "failures", "raises"} -> Nat]
          /\ jobs' = jobs /\ transmissions' = transmissions
      BY <1>1, <2>1 DEF TypeOK, records
    <3>2. QED
      BY <1>1, <1>4, <3>1, Ended DEF Recorded
  <2>3. Visible(h)'
    BY <1>1, <2>1 DEF Visible, Recorded
  <2>4. QED
    BY <1>1, <1>2, <2>2, <2>3, QuietStep
<1>5. QED
  BY <1>3, <1>4 DEF ValidateJob

(* A job has been inserted by h, which goes on or is done.                 *)
LEMMA InsertedStep ==
  ASSUME IInv, NEW h \in Worker, pc[h] = "insert_job", transmission[h] = 0,
         jobs' = Append(jobs, NewJob(second, Asked(h))), UNCHANGED <<transmissions, used>>,
         TypeOK', OthersUnchanged(h), WorkerConsistent(h)', Visible(h)', Kept(h),
         pc'[h] # "insert_job", transmission'[h] = 0
  PROVE  IInv'
<1> DEFINE new == NewJob(second, Asked(h))
<1>1. /\ TypeOK /\ jobs' = Append(jobs, new) /\ jobs' \in Seq(JobDoc)
      /\ jobs \in Seq(JobDoc) /\ transmissions \in Seq(TransmissionDoc) /\ Len(jobs) \in Nat
      /\ Len(transmissions) \in Nat
  BY Types DEF IInv, Kept
<1>2. new.latest = "initial" /\ new.message_id = Asked(h)
  BY DEF NewJob
<1> HIDE DEF new
<1>3. /\ Len(jobs') = Len(jobs) + 1
      /\ \A j \in 1..Len(jobs) : jobs'[j] = jobs[j]
      /\ jobs'[Len(jobs) + 1] = new
  BY <1>1
<1>4. FailedIsExplained'
  <2>1. \A j \in 1..Len(jobs') : jobs'[j].latest = "failed" => jobs'[j].error
    <3> SUFFICES ASSUME NEW j \in 1..Len(jobs'), jobs'[j].latest = "failed" PROVE jobs'[j].error
      OBVIOUS
    <3>1. j # Len(jobs) + 1
      BY <1>2, <1>3
    <3>2. j \in 1..Len(jobs)
      BY <1>1, <1>3, <3>1
    <3>3. QED
      BY <1>3, <3>2 DEF IInv, FailedIsExplained
  <2>2. QED
    BY <1>1, <2>1 DEF IInv, FailedIsExplained
<1>5. \A t \in 1..Len(transmissions') : /\ transmissions'[t].job \in 1..Len(jobs')
                                         /\ jobs'[transmissions'[t].job] = jobs[transmissions[t].job]
  BY <1>1, <1>3 DEF IInv, TransmissionsOwned
<1>6. JobFailsFirst'
  BY <1>1, <1>5 DEF IInv, JobFailsFirst
<1>7. InsertsBounded'
  <2> SUFFICES ASSUME NEW m \in MessageId
               PROVE  Cardinality(JobsWith(m)') + Cardinality(Inserting(m)') <= Cardinality(Worker)
    BY DEF InsertsBounded
  <2>1. /\ JobsWith(m) \subseteq 1..Len(jobs) /\ Inserting(m) \subseteq Worker
        /\ IsFiniteSet(Worker) /\ IsFiniteSet(1..Len(jobs))
    <3>1. Len(jobs) \in Nat
      BY <1>1
    <3>2. IsFiniteSet(1..Len(jobs))
      BY <3>1, FS_Interval
    <3>3. QED
      BY <3>2, ParameterAssumption DEF JobsWith, Inserting
  <2>2. /\ IsFiniteSet(JobsWith(m)) /\ Cardinality(JobsWith(m)) \in Nat
        /\ IsFiniteSet(Inserting(m)) /\ Cardinality(Inserting(m)) \in Nat
    BY <2>1, FS_Subset, FS_CardinalityType
  <2>3. Inserting(m)' = Inserting(m) \ {h}
    BY <1>1 DEF Inserting, Asked, OthersUnchanged
  <2>4. Cardinality(JobsWith(m)) + Cardinality(Inserting(m)) <= Cardinality(Worker)
    BY DEF IInv, InsertsBounded
  <2>5. CASE Asked(h) = m
    <3>1. JobsWith(m)' = JobsWith(m) \cup {Len(jobs) + 1}
      BY <1>1, <1>2, <1>3, <2>5 DEF JobsWith
    <3>2. Len(jobs) + 1 \notin JobsWith(m)
      BY <1>1, <2>1
    <3>3. Cardinality(JobsWith(m)') = Cardinality(JobsWith(m)) + 1
      BY <2>2, <3>1, <3>2, FS_AddElement
    <3>4. h \in Inserting(m)
      BY <1>1, <2>5 DEF Inserting
    <3>5. Cardinality(Inserting(m)') = Cardinality(Inserting(m)) - 1
      BY <2>2, <2>3, <3>4, FS_RemoveElement
    <3>6. QED
      BY <2>2, <2>4, <3>3, <3>5
  <2>6. CASE Asked(h) # m
    <3>1. JobsWith(m)' = JobsWith(m)
      BY <1>1, <1>2, <1>3, <2>6 DEF JobsWith
    <3>2. Inserting(m)' = Inserting(m)
      BY <2>3, <2>6 DEF Inserting
    <3>3. QED
      BY <2>4, <3>1, <3>2
  <2>7. QED
    BY <2>5, <2>6
<1>8. QED
  BY <1>1, <1>4, <1>5, <1>6, <1>7, Step

LEMMA InsertJobStep ==
  ASSUME IInv, NEW h \in Worker, InsertJob(h)
  PROVE  IInv'
<1> DEFINE new == NewJob(second, Asked(h))
<1>1. /\ TypeOK /\ WorkerConsistent(h) /\ pc[h] = "insert_job"
      /\ jobs' = Append(jobs, new)
      /\ UNCHANGED <<transmissions, second, failure, used>>
      /\ jobs \in Seq(JobDoc) /\ transmissions \in Seq(TransmissionDoc) /\ Len(jobs) \in Nat
      /\ Len(transmissions) \in Nat
  BY Types DEF IInv, InsertJob
<1>2. transmission[h] = 0 /\ outcome[h] = "none" /\ failure[h] = "none"
  BY <1>1 DEF WorkerConsistent
<1>3. Asked(h) \in MessageId \cup {None}
  <2>1. query[h] \in Query \cup {None}
    BY <1>1 DEF TypeOK
  <2>2. query[h] # None /\ query[h].by = "message_id" => query[h].message_id \in MessageId
    BY <2>1 DEF Query
  <2>3. QED
    BY <2>2 DEF Asked
<1>4. new \in JobDoc /\ new.latest = "initial" /\ new.message_id = Asked(h)
  BY <1>1, <1>3 DEF TypeOK, NewJob, JobDoc, Initial, StateKey, ProcessState
<1> HIDE DEF new
<1>5. /\ jobs' \in Seq(JobDoc) /\ Len(jobs') = Len(jobs) + 1
      /\ \A j \in 1..Len(jobs) : jobs'[j] = jobs[j]
      /\ jobs'[Len(jobs) + 1] = new
  BY <1>1, <1>4
<1>6. Kept(h)
  BY <1>1, <1>5 DEF Kept, JobsKept, TransmissionsKept
<1>7. CASE /\ job' = [job EXCEPT ![h] = Len(jobs) + 1]
           /\ known' = [known EXCEPT ![h] = [known[h] EXCEPT !["job"] = 1]]
           /\ Goto(h, "create_transmission")
           /\ UNCHANGED <<flow, query, transmission, left, target, outcome>>
  <2>1. TypeOK'
    <3>1. known' \in [Worker -> [Target -> Nat]]
      BY <1>1, <1>7 DEF TypeOK, Target
    <3>2. job' \in [Worker -> Nat]
      BY <1>1, <1>7 DEF TypeOK
    <3>3. QED
      BY <1>1, <1>5, <1>7, <3>1, <3>2 DEF TypeOK, Goto
  <2>2. OthersUnchanged(h) /\ pc'[h] = "create_transmission" /\ job'[h] = Len(jobs) + 1
    BY <1>1, <1>7 DEF TypeOK, OthersUnchanged, Goto
  <2>3. Settled(h)' /\ Visible(h)'
    BY <1>1, <1>2, <1>7 DEF Settled, Visible
  <2>4. WorkerConsistent(h)'
    BY <1>1, <1>2, <1>5, <1>7, <2>2, <2>3, Types DEF WorkerConsistent, Updating, IsContact
  <2>5. QED
    BY <1>1, <1>2, <1>5, <1>6, <1>7, <2>1, <2>2, <2>3, <2>4, InsertedStep DEF new
<1>8. CASE End(h, "success") /\ UNCHANGED job
  <2>1. /\ failure' \in [Worker -> Failure]
        /\ \A k \in Worker \ {h} : failure'[k] = failure[k]
        /\ used' \in [{"flows", "failures", "raises"} -> Nat]
        /\ transmissions' \in Seq(TransmissionDoc)
        /\ Len(jobs) <= Len(jobs')
    BY <1>1, <1>5 DEF TypeOK
  <2>2. /\ TypeOK' /\ OthersUnchanged(h) /\ WorkerConsistent(h)'
        /\ pc'[h] = "idle" /\ transmission'[h] = 0 /\ outcome'[h] = "success"
    BY <1>1, <1>5, <1>8, <2>1, Ended
  <2>3. Visible(h)'
    BY <2>2 DEF Visible
  <2>4. QED
    BY <1>1, <1>2, <1>6, <2>2, <2>3, InsertedStep DEF new
<1>9. QED
  BY <1>7, <1>8 DEF InsertJob

-----------------------------------------------------------------------------
(* A record that cannot be created: the errors come next.                  *)
LEMMA RefusedStep ==
  ASSUME IInv, NEW h \in Worker, NEW reason \in {"string", "other", "no_subject"},
         Refused(h, reason), pc[h] \in {"create_transmission", "find_subject", "create_transaction"},
         UNCHANGED <<records, second, flow, query, job, transmission, left, known, outcome>>
  PROVE  IInv'
<1>1. /\ TypeOK /\ WorkerConsistent(h)
      /\ used' \in [{"flows", "failures", "raises"} -> Nat]
      /\ used'["raises"] = 0 => used["raises"] = 0
      /\ failure' = [failure EXCEPT ![h] = reason]
      /\ target' = [target EXCEPT ![h] = "job"]
      /\ pc' = [pc EXCEPT ![h] = "add_error"]
      /\ transmission[h] <= Len(transmissions) /\ job[h] <= Len(jobs)
  BY Types, UseType DEF IInv, Refused, Goto
<1>2. TypeOK'
  BY <1>1 DEF TypeOK, Target, records, Failure, Recorded
<1>3. OthersUnchanged(h) /\ pc'[h] = "add_error" /\ target'[h] = "job"
  BY <1>1 DEF TypeOK, OthersUnchanged, Target
<1>4. /\ job[h] # 0 /\ outcome[h] = "none"
      /\ used["raises"] = 0 => Settled(h)
  BY <1>1 DEF WorkerConsistent
<1>5. Visible(h)' /\ (Settled(h) => Settled(h)')
  <2>1. Visible(h)'
    BY <1>3, <1>4 DEF Visible, records
  <2>2. Settled(h) => Settled(h)'
    BY <1>1, <1>3 DEF Settled, records
  <2>3. QED
    BY <2>1, <2>2
<1>6. WorkerConsistent(h)'
  BY <1>1, <1>3, <1>4, <1>5 DEF WorkerConsistent, Updating, IsContact, records
<1>7. QED
  BY <1>1, <1>2, <1>3, <1>5, <1>6, Types, QuietStep

LEMMA CreateTransmissionStep ==
  ASSUME IInv, NEW h \in Worker, CreateTransmission(h)
  PROVE  IInv'
<1> DEFINE state == IF flow[h] = "request" THEN "initial" ELSE "acked"
           new == [job |-> job[h], latest |-> state, states |-> Initial(state),
                   ended |-> FALSE, error |-> FALSE]
           n == Len(transmissions) + 1
<1>1. CASE \E reason \in {"string", "other"} : Refused(h, reason)
  <2>1. PICK reason \in {"string", "other"} : Refused(h, reason)
    BY <1>1
  <2>2. pc[h] = "create_transmission" /\ pc'[h] = "add_error"
    BY <2>1 DEF CreateTransmission, Refused, Goto, IInv, TypeOK
  <2>3. UNCHANGED <<records, second, flow, query, job, transmission, left, known, outcome>>
    BY <2>2 DEF CreateTransmission, records, Goto, IInv, TypeOK
  <2>4. QED
    BY <2>1, <2>2, <2>3, RefusedStep
<1>2. CASE /\ transmissions' = Append(transmissions, new)
           /\ transmission' = [transmission EXCEPT ![h] = n]
           /\ known' = [known EXCEPT ![h] = [known[h] EXCEPT !["transmission"] = 1]]
           /\ \E step \in {"find_subject", "create_family", "create_transaction"} : Goto(h, step)
           /\ UNCHANGED <<failure, target, used>>
  <2>1. /\ TypeOK /\ WorkerConsistent(h) /\ pc[h] = "create_transmission"
        /\ UNCHANGED <<jobs, second, flow, query, job, left, outcome>>
        /\ jobs \in Seq(JobDoc) /\ transmissions \in Seq(TransmissionDoc) /\ Len(jobs) \in Nat
        /\ Len(transmissions) \in Nat /\ job[h] <= Len(jobs) /\ job[h] \in Nat
    BY Types DEF IInv, CreateTransmission
  <2>2. /\ job[h] # 0 /\ transmission[h] = 0 /\ outcome[h] = "none"
    BY <2>1 DEF WorkerConsistent
  <2>3. /\ Initial(state) \in Seq(ProcessState) /\ Len(Initial(state)) = 1
    BY DEF Initial, ProcessState, StateKey
  <2>4. /\ new \in TransmissionDoc /\ new.latest \in {"initial", "acked"} /\ new.job = job[h]
        /\ new.states = Initial(state)
    BY <2>1, <2>3 DEF TransmissionDoc, StateKey
  <2> HIDE DEF new, state
  <2>5. /\ transmissions' \in Seq(TransmissionDoc) /\ Len(transmissions') = n
        /\ \A t \in 1..Len(transmissions) : transmissions'[t] = transmissions[t]
        /\ transmissions'[n] = new
    BY <1>2, <2>1, <2>4
  <2>6. Kept(h)
    BY <1>2, <2>1, <2>5 DEF Kept, JobsKept, TransmissionsKept
  <2>7. TypeOK'
    <3>1. known' \in [Worker -> [Target -> Nat]]
      BY <1>2, <2>1 DEF TypeOK, Target
    <3>2. transmission' \in [Worker -> Nat]
      BY <1>2, <2>1 DEF TypeOK
    <3>3. pc' \in [Worker -> {"idle", "find_job", "validate_job", "insert_job",
                        "create_transmission", "create_family", "find_subject",
                        "create_transaction", "process", "add_error", "load_status",
                        "push_state", "save_status", "save_record"}]
      BY <1>2, <2>1 DEF TypeOK, Goto
    <3>4. QED
      BY <1>2, <2>1, <2>5, <3>1, <3>2, <3>3 DEF TypeOK
  <2>8. /\ OthersUnchanged(h) /\ pc'[h] \in {"find_subject", "create_family", "create_transaction"}
        /\ transmission'[h] = n /\ known'[h]["transmission"] = 1
    BY <1>2, <2>1 DEF TypeOK, Goto, OthersUnchanged, Target
  <2>9. Settled(h)'
    <3>1. transmissions'[transmission'[h]] = new /\ Len(new.states) = 1
      BY <2>3, <2>4, <2>5, <2>8
    <3>2. new.latest # "failed" /\ pc'[h] \notin {"push_state", "save_status", "save_record"}
      BY <2>4, <2>8
    <3> HIDE DEF n
    <3>3. QED
      BY <2>8, <3>1, <3>2 DEF Settled
  <2>10. Visible(h)'
    BY <2>1, <2>2, <2>8 DEF Visible
  <2>11. WorkerConsistent(h)'
    BY <1>2, <2>1, <2>2, <2>4, <2>5, <2>8, <2>9, <2>10 DEF WorkerConsistent, Updating, IsContact
  <2>12. /\ FailedIsExplained' /\ JobFailsFirst'
         /\ \A t \in 1..Len(transmissions') : transmissions'[t].job \in 1..Len(jobs')
    <3> SUFFICES ASSUME NEW t \in 1..Len(transmissions')
                 PROVE  /\ transmissions'[t].latest = "failed" =>
                             transmissions'[t].error /\ jobs[transmissions'[t].job].latest = "failed"
                        /\ transmissions'[t].job \in 1..Len(jobs)
      BY <2>1 DEF IInv, FailedIsExplained, JobFailsFirst
    <3>1. CASE t = n
      BY <2>1, <2>2, <2>4, <2>5, <3>1
    <3>2. CASE t \in 1..Len(transmissions)
      BY <2>5, <3>2 DEF IInv, FailedIsExplained, JobFailsFirst, TransmissionsOwned
    <3>3. QED
      BY <2>1, <2>5, <3>1, <3>2
  <2>13. InsertsBounded'
    BY <2>1, <2>6, <2>8, SameBound
  <2>14. \A t \in 1..Len(transmissions') :
           transmission'[h] # t /\ (t = transmission[h] \/ t \notin 1..Len(transmissions)) => FALSE
    BY <2>1, <2>2, <2>5, <2>8
  <2>15. QED
    BY <2>6, <2>7, <2>8, <2>10, <2>11, <2>12, <2>13, <2>14, Step
<1>3. QED
  BY <1>1, <1>2 DEF CreateTransmission

(* A flow that ends and leaves nothing on its records.                     *)
LEMMA UnrecordedStep ==
  ASSUME IInv, NEW h \in Worker, NEW reason \in {"family", "process"},
         EndUnrecorded(h, reason), pc[h] \in {"create_family", "process"},
         UNCHANGED <<records, second, job>>
  PROVE  IInv'
<1>1. /\ TypeOK /\ WorkerConsistent(h)
      /\ jobs' = jobs /\ transmissions' = transmissions
      /\ jobs \in Seq(JobDoc) /\ transmissions \in Seq(TransmissionDoc)
      /\ Len(jobs) \in Nat /\ Len(transmissions) \in Nat
      /\ used' \in [{"flows", "failures", "raises"} -> Nat]
      /\ used'["raises"] = 0 => used["raises"] = 0
      /\ failure' = [failure EXCEPT ![h] = reason] /\ End(h, "failure")
  BY Types, UseType DEF IInv, EndUnrecorded, records
<1>2. transmission[h] # 0
  BY <1>1 DEF WorkerConsistent
<1>3. /\ failure' \in [Worker -> Failure]
      /\ \A k \in Worker \ {h} : failure'[k] = failure[k]
      /\ failure'[h] = reason /\ reason \notin Recorded
  BY <1>1 DEF TypeOK, Failure, Recorded
<1>4. /\ TypeOK' /\ OthersUnchanged(h) /\ WorkerConsistent(h)'
      /\ pc'[h] = "idle" /\ transmission'[h] = 0
  BY <1>1, <1>3, Ended
<1>5. Visible(h)'
  BY <1>3 DEF Visible
<1>6. used["raises"] = 0 => Closed(transmission[h])
  BY <1>2, Closing
<1>7. QED
  BY <1>1, <1>4, <1>5, <1>6, QuietStep

LEMMA CreateFamilyStep ==
  ASSUME IInv, NEW h \in Worker, CreateFamily(h)
  PROVE  IInv'
<1>1. CASE EndUnrecorded(h, "family")
  BY <1>1, UnrecordedStep DEF CreateFamily
<1>2. CASE /\ Goto(h, "create_transaction")
           /\ UNCHANGED <<flow, query, transmission, left, failure, target, known, outcome, used>>
  <2>1. /\ TypeOK /\ WorkerConsistent(h) /\ pc[h] = "create_family"
        /\ UNCHANGED <<records, second, job>>
    BY Types DEF IInv, CreateFamily
  <2>2. TypeOK'
    BY <1>2, <2>1 DEF TypeOK, Goto, records
  <2>3. OthersUnchanged(h) /\ pc'[h] = "create_transaction"
    BY <1>2, <2>1 DEF TypeOK, Goto, OthersUnchanged
  <2>4. /\ job[h] # 0 /\ transmission[h] # 0 /\ outcome[h] = "none"
        /\ used["raises"] = 0 => Settled(h)
    BY <2>1 DEF WorkerConsistent
  <2>5. Visible(h)' /\ (Settled(h) => Settled(h)')
    BY <1>2, <2>1, <2>3, <2>4 DEF Visible, Settled, records
  <2>6. WorkerConsistent(h)'
    BY <1>2, <2>1, <2>3, <2>4, <2>5 DEF WorkerConsistent, Updating, IsContact, records
  <2>7. QED
    BY <1>2, <2>1, <2>2, <2>3, <2>4, <2>5, <2>6, QuietStep
<1>3. QED
  BY <1>1, <1>2 DEF CreateFamily

LEMMA FindSubjectStep ==
  ASSUME IInv, NEW h \in Worker, FindSubject(h)
  PROVE  IInv'
<1>1. CASE Refused(h, "no_subject")
  BY <1>1, RefusedStep DEF FindSubject
<1>2. CASE Goto(h, "create_transaction") /\ UNCHANGED <<failure, target, used>>
  <2>1. /\ TypeOK /\ WorkerConsistent(h) /\ pc[h] = "find_subject"
        /\ UNCHANGED <<records, second, flow, query, job, transmission, left, known, outcome>>
    BY Types DEF IInv, FindSubject
  <2>2. TypeOK'
    BY <1>2, <2>1 DEF TypeOK, Goto, records
  <2>3. OthersUnchanged(h) /\ pc'[h] = "create_transaction"
    BY <1>2, <2>1 DEF TypeOK, Goto, OthersUnchanged
  <2>4. /\ job[h] # 0 /\ transmission[h] # 0 /\ outcome[h] = "none"
        /\ used["raises"] = 0 => Settled(h)
    BY <2>1 DEF WorkerConsistent
  <2>5. Visible(h)' /\ (Settled(h) => Settled(h)')
    BY <1>2, <2>1, <2>3, <2>4 DEF Visible, Settled, records
  <2>6. WorkerConsistent(h)'
    BY <1>2, <2>1, <2>3, <2>4, <2>5 DEF WorkerConsistent, Updating, IsContact, records
  <2>7. QED
    BY <1>2, <2>1, <2>2, <2>3, <2>4, <2>5, <2>6, QuietStep
<1>3. QED
  BY <1>1, <1>2 DEF FindSubject

-----------------------------------------------------------------------------
(* A transmission nobody is about to update.                               *)
Steady(t, k) ==
  LET n == Len(t.states)
  IN  /\ k \in {0, n} /\ n > 0
      /\ \A i \in 1..n : i < n => t.states[i].ended
      /\ t.latest = "failed" => t.states[n].ended /\ t.ended

LEMMA SteadyCloses ==
  ASSUME NEW t \in TransmissionDoc, NEW k, Steady(t, k), t.latest = "failed"
  PROVE  t.ended /\ \A i \in 1..Len(t.states) : t.states[i].ended
<1>1. Len(t.states) \in Nat
  BY DEF TransmissionDoc
<1>2. QED
  BY <1>1 DEF Steady

LEMMA SettledSteady ==
  ASSUME IInv, NEW h \in Worker, transmission[h] # 0, used["raises"] = 0,
         target[h] = "transmission" => pc[h] \notin {"push_state", "save_status", "save_record"}
  PROVE  Steady(transmissions[transmission[h]], known[h]["transmission"])
<1>1. Settled(h)
  BY Types DEF WorkerConsistent
<1>2. QED
  BY <1>1 DEF Settled, Steady

(* The flow goes on with its next transaction, or is over.                 *)
LEMMA Onward ==
  ASSUME IInv, NEW h \in Worker, NextTransaction(h), UNCHANGED <<job, second>>,
         pc[h] \in {"create_transaction", "add_error", "save_record"},
         transmission[h] # 0, job[h] # 0, Kept(h),
         failure' \in [Worker -> Failure],
         \A k \in Worker \ {h} : failure'[k] = failure[k],
         used' \in [{"flows", "failures", "raises"} -> Nat],
         used'["raises"] = 0 => Steady(transmissions'[transmission[h]], known[h]["transmission"])
  PROVE  /\ TypeOK' /\ OthersUnchanged(h) /\ WorkerConsistent(h)' /\ Visible(h)'
         /\ transmission'[h] \in {0, transmission[h]} /\ pc'[h] # "insert_job"
         /\ used'["raises"] = 0 /\ transmission'[h] # transmission[h] =>
              \A t \in {transmission[h]} : Closed(t)'
<1>1. /\ TypeOK /\ WorkerConsistent(h)
      /\ jobs' \in Seq(JobDoc) /\ transmissions' \in Seq(TransmissionDoc)
      /\ Len(jobs) <= Len(jobs') /\ Len(transmissions) <= Len(transmissions')
      /\ job[h] <= Len(jobs) /\ transmission[h] <= Len(transmissions)
      /\ job[h] \in Nat /\ transmission[h] \in Nat
      /\ transmission[h] \in 1..Len(transmissions)
      /\ Len(jobs) \in Nat /\ Len(transmissions) \in Nat
      /\ Len(jobs') \in Nat /\ Len(transmissions') \in Nat
  BY Types DEF IInv, Kept, JobsKept, TransmissionsKept
<1>2. CASE End(h, "success")
  <2>1. /\ TypeOK' /\ OthersUnchanged(h) /\ WorkerConsistent(h)'
        /\ pc'[h] = "idle" /\ transmission'[h] = 0 /\ outcome'[h] = "success"
    BY <1>1, <1>2, Ended
  <2>2. used'["raises"] = 0 => \A t \in {transmission[h]} : Closed(t)'
    <3>1. transmission[h] \in 1..Len(transmissions')
      BY <1>1
    <3>2. transmissions'[transmission[h]] \in TransmissionDoc
      BY <1>1, <3>1
    <3>3. used'["raises"] = 0 /\ transmissions'[transmission[h]].latest = "failed" =>
            /\ transmissions'[transmission[h]].ended
            /\ \A i \in 1..Len(transmissions'[transmission[h]].states) :
                 transmissions'[transmission[h]].states[i].ended
      BY <3>2, SteadyCloses
    <3>4. QED
      BY <3>3 DEF Closed
  <2>3. QED
    BY <2>1, <2>2 DEF Visible
<1>3. CASE \/ /\ left[h] > 1
              /\ left' = [left EXCEPT ![h] = left[h] - 1]
              /\ pc' = [pc EXCEPT ![h] = "create_transaction"]
              /\ UNCHANGED <<flow, query, transmission, target, known, outcome>>
           \/ /\ left[h] = 1 /\ flow[h] = "request"
              /\ pc' = [pc EXCEPT ![h] = "process"]
              /\ UNCHANGED <<flow, query, transmission, left, target, known, outcome>>
  <2>1. TypeOK'
    <3>1. left' \in [Worker -> Nat]
      <4>1. left[h] \in Nat /\ left \in [Worker -> Nat]
        BY <1>1 DEF TypeOK
      <4>2. left[h] > 1 => left[h] - 1 \in Nat
        BY <4>1
      <4>3. QED
        BY <1>3, <4>1, <4>2
    <3>2. pc' \in [Worker -> {"idle", "find_job", "validate_job", "insert_job",
                        "create_transmission", "create_family", "find_subject",
                        "create_transaction", "process", "add_error", "load_status",
                        "push_state", "save_status", "save_record"}]
      <4>1. CASE pc' = [pc EXCEPT ![h] = "create_transaction"]
        BY <1>1, <4>1 DEF TypeOK
      <4>2. CASE pc' = [pc EXCEPT ![h] = "process"]
        BY <1>1, <4>2 DEF TypeOK
      <4>3. QED
        BY <1>3, <4>1, <4>2
    <3>3. QED
      BY <1>1, <1>3, <3>1, <3>2 DEF TypeOK
  <2>2. OthersUnchanged(h)
    <3>1. \A k \in Worker \ {h} : pc'[k] = pc[k] /\ left'[k] = left[k]
      BY <1>1, <1>3 DEF TypeOK
    <3>2. QED
      BY <1>3, <3>1 DEF OthersUnchanged
  <2>3. pc'[h] \in {"create_transaction", "process"}
    BY <1>1, <1>3 DEF TypeOK
  <2>4. outcome[h] = "none" /\ transmissions[transmission[h]].job = job[h]
    BY <1>1 DEF WorkerConsistent
  <2>5. transmissions'[transmission[h]].job = job[h]
    BY <1>1, <2>4 DEF Kept, TransmissionsKept
  <2>6. used'["raises"] = 0 => Settled(h)'
    BY <1>3, <2>3 DEF Settled, Steady
  <2>7. WorkerConsistent(h)'
    BY <1>1, <1>3, <2>3, <2>4, <2>5, <2>6 DEF WorkerConsistent, Updating, IsContact
  <2>8. QED
    BY <1>3, <2>1, <2>2, <2>3, <2>4, <2>7 DEF Visible
<1>4. QED
  BY <1>2, <1>3 DEF NextTransaction, Goto

LEMMA CreateTransactionStep ==
  ASSUME IInv, NEW h \in Worker, CreateTransaction(h)
  PROVE  IInv'
<1>1. /\ TypeOK /\ WorkerConsistent(h) /\ pc[h] = "create_transaction"
      /\ UNCHANGED <<records, second, job>> /\ jobs' = jobs /\ transmissions' = transmissions
      /\ jobs \in Seq(JobDoc) /\ transmissions \in Seq(TransmissionDoc)
      /\ Len(jobs) \in Nat /\ Len(transmissions) \in Nat
  BY Types DEF IInv, CreateTransaction, records
<1>2. /\ job[h] # 0 /\ transmission[h] # 0
  BY <1>1 DEF WorkerConsistent
<1>3. CASE \E reason \in {"string", "other"} :
             Refused(h, reason) /\ UNCHANGED <<flow, query, transmission, left, known, outcome>>
  BY <1>1, <1>3, RefusedStep
<1>4. CASE NextTransaction(h) /\ UNCHANGED <<failure, used>>
  <2>1. Kept(h)
    BY <1>1, <1>4 DEF Kept, JobsKept, TransmissionsKept
  <2>2. used["raises"] = 0 => Steady(transmissions[transmission[h]], known[h]["transmission"])
    BY <1>1, <1>2, SettledSteady
  <2>3. /\ failure' \in [Worker -> Failure]
        /\ used' \in [{"flows", "failures", "raises"} -> Nat]
        /\ \A k \in Worker \ {h} : failure'[k] = failure[k]
    BY <1>1, <1>4 DEF TypeOK
  <2>4. /\ TypeOK' /\ OthersUnchanged(h) /\ WorkerConsistent(h)' /\ Visible(h)'
        /\ transmission'[h] \in {0, transmission[h]} /\ pc'[h] # "insert_job"
    BY <1>1, <1>2, <1>4, <2>1, <2>2, <2>3, Onward
  <2>5. used'["raises"] = 0 /\ transmission'[h] # transmission[h] => Closed(transmission[h])
    BY <1>1, <1>2, <1>4, Closing
  <2>6. QED
    BY <1>1, <1>2, <1>4, <2>4, <2>5, QuietStep
<1>5. QED
  BY <1>3, <1>4 DEF CreateTransaction

LEMMA ProcessStep ==
  ASSUME IInv, NEW h \in Worker, Process(h)
  PROVE  IInv'
<1>1. /\ TypeOK /\ WorkerConsistent(h) /\ pc[h] = "process"
      /\ UNCHANGED <<records, second, job>> /\ jobs' = jobs /\ transmissions' = transmissions
      /\ jobs \in Seq(JobDoc) /\ transmissions \in Seq(TransmissionDoc)
      /\ Len(jobs) \in Nat /\ Len(transmissions) \in Nat
  BY Types DEF IInv, Process, records
<1>2. /\ job[h] # 0 /\ transmission[h] # 0 /\ outcome[h] = "none"
      /\ job[h] <= Len(jobs)
  BY <1>1 DEF WorkerConsistent
<1>3. used["raises"] = 0 => Closed(transmission[h])
  BY <1>1, <1>2, Closing
<1>4. CASE /\ flow' = [flow EXCEPT ![h] = "response"]
           /\ transmission' = [transmission EXCEPT ![h] = 0]
           /\ left' = [left EXCEPT ![h] = Contacts + 1]
           /\ known' = [known EXCEPT ![h] = [known[h] EXCEPT !["transmission"] = 0]]
           /\ Goto(h, "create_transmission")
           /\ UNCHANGED <<query, target, failure, outcome, used>>
  <2>1. Contacts \in Nat /\ Contacts + 1 \in Nat /\ ~ (Contacts + 1 <= Contacts)
    BY ParameterAssumption
  <2>2. TypeOK'
    <3>1. known' \in [Worker -> [Target -> Nat]]
      BY <1>1, <1>4 DEF TypeOK, Target
    <3>2. /\ pc' \in [Worker -> {"idle", "find_job", "validate_job", "insert_job",
                        "create_transmission", "create_family", "find_subject",
                        "create_transaction", "process", "add_error", "load_status",
                        "push_state", "save_status", "save_record"}]
          /\ flow' \in [Worker -> {"none", "request", "response", "lookup", "find"}]
          /\ transmission' \in [Worker -> Nat] /\ left' \in [Worker -> Nat]
      BY <1>1, <1>4, <2>1 DEF TypeOK, Goto
    <3>3. QED
      BY <1>1, <1>4, <3>1, <3>2 DEF TypeOK
  <2>3. OthersUnchanged(h)
    BY <1>1, <1>4 DEF TypeOK, Goto, OthersUnchanged
  <2>4. /\ pc'[h] = "create_transmission" /\ transmission'[h] = 0
        /\ left'[h] = Contacts + 1
    BY <1>1, <1>4 DEF TypeOK, Goto
  <2>5. Visible(h)' /\ Settled(h)' /\ ~ IsContact(h)'
    BY <1>1, <1>2, <1>4, <2>1, <2>4 DEF Visible, Settled, IsContact
  <2>6. WorkerConsistent(h)'
    BY <1>1, <1>2, <1>4, <2>4, <2>5 DEF WorkerConsistent, Updating
  <2>7. QED
    BY <1>1, <1>3, <1>4, <2>2, <2>3, <2>4, <2>5, <2>6, QuietStep
<1>5. CASE EndUnrecorded(h, "process")
  BY <1>1, <1>5, UnrecordedStep
<1>6. QED
  BY <1>4, <1>5 DEF Process

-----------------------------------------------------------------------------
(* A write to one of h's records that keeps what the record says already.  *)
LEMMA Writing ==
  ASSUME IInv, NEW h \in Worker, pc[h] \in {"add_error"} \cup Updating, NEW STATE doc,
         Write(h, doc),
         target[h] = "job" =>
           /\ doc \in JobDoc
           /\ doc.job_id = Doc(h).job_id /\ doc.message_id = Doc(h).message_id,
         target[h] = "transmission" =>
           /\ doc \in TransmissionDoc
           /\ doc.job = Doc(h).job,
         Doc(h).error => doc.error,
         Doc(h).latest = "failed" => doc.latest = "failed",
         Doc(h).ended => doc.ended,
         doc.latest = "failed" =>
           doc.error /\ (target[h] = "transmission" => jobs[job[h]].latest = "failed"),
         used'["raises"] = 0 => used["raises"] = 0
  PROVE  /\ Kept(h) /\ Len(jobs') = Len(jobs) /\ Len(transmissions') = Len(transmissions)
         /\ FailedIsExplained' /\ JobFailsFirst'
         /\ \A t \in 1..Len(transmissions') : transmissions'[t].job \in 1..Len(jobs')
         /\ target[h] = "job" => jobs'[job[h]] = doc /\ transmissions' = transmissions
         /\ target[h] = "transmission" => transmissions'[transmission[h]] = doc /\ jobs' = jobs
         /\ jobs[job[h]].error => jobs'[job[h]].error
         /\ jobs[job[h]].latest = "failed" => jobs'[job[h]].latest = "failed"
         /\ jobs[job[h]].ended => jobs'[job[h]].ended
<1>1. /\ jobs \in Seq(JobDoc) /\ transmissions \in Seq(TransmissionDoc)
      /\ Len(jobs) \in Nat /\ Len(transmissions) \in Nat
      /\ job[h] \in 1..Len(jobs)
      /\ target[h] = "transmission" => /\ transmission[h] \in 1..Len(transmissions)
                                      /\ transmissions[transmission[h]].job = job[h]
      /\ target[h] \in Target
  BY Types DEF WorkerConsistent, Updating
<1>2. CASE target[h] = "job"
  <2>1. /\ Doc(h) = jobs[job[h]] /\ transmissions' = transmissions
        /\ jobs' = [jobs EXCEPT ![job[h]] = doc] /\ doc \in JobDoc
    BY <1>2 DEF Doc, Write
  <2>2. /\ jobs' \in Seq(JobDoc) /\ Len(jobs') = Len(jobs) /\ jobs'[job[h]] = doc
        /\ \A j \in 1..Len(jobs) : j # job[h] => jobs'[j] = jobs[j]
    BY <1>1, <2>1
  <2>3. Kept(h)
    BY <1>1, <1>2, <2>1, <2>2 DEF Kept, JobsKept, TransmissionsKept
  <2>4. FailedIsExplained' /\ JobFailsFirst'
    <3>1. FailedIsExplained'
      BY <1>1, <2>1, <2>2 DEF IInv, FailedIsExplained
    <3>2. \A t \in 1..Len(transmissions) : transmissions[t].job \in 1..Len(jobs)
      BY DEF IInv, TransmissionsOwned
    <3>3. JobFailsFirst'
      BY <1>1, <2>1, <2>2, <2>3, <3>2 DEF IInv, JobFailsFirst, Kept, JobsKept
    <3>4. QED
      BY <3>1, <3>3
  <2>5. \A t \in 1..Len(transmissions') : transmissions'[t].job \in 1..Len(jobs')
    BY <2>1, <2>2 DEF IInv, TransmissionsOwned
  <2>6. QED
    BY <1>2, <2>1, <2>2, <2>3, <2>4, <2>5
<1>3. CASE target[h] = "transmission"
  <2>1. /\ Doc(h) = transmissions[transmission[h]] /\ jobs' = jobs
        /\ transmissions' = [transmissions EXCEPT ![transmission[h]] = doc]
        /\ doc \in TransmissionDoc
    BY <1>3 DEF Doc, Write
  <2>2. /\ transmissions' \in Seq(TransmissionDoc) /\ Len(transmissions') = Len(transmissions)
        /\ transmissions'[transmission[h]] = doc
        /\ \A t \in 1..Len(transmissions) : t # transmission[h] => transmissions'[t] = transmissions[t]
    BY <1>1, <1>3, <2>1
  <2>3. Kept(h)
    BY <1>1, <1>3, <2>1, <2>2 DEF Kept, JobsKept, TransmissionsKept
  <2>4. FailedIsExplained'
    BY <1>1, <2>1, <2>2 DEF IInv, FailedIsExplained
  <2>5. JobFailsFirst'
    BY <1>1, <1>3, <2>1, <2>2 DEF IInv, JobFailsFirst
  <2>6. \A t \in 1..Len(transmissions') : transmissions'[t].job \in 1..Len(jobs')
    BY <1>1, <1>3, <2>1, <2>2 DEF IInv, TransmissionsOwned
  <2>7. QED
    BY <1>3, <2>1, <2>2, <2>3, <2>4, <2>5, <2>6
<1>4. QED
  BY <1>1, <1>2, <1>3 DEF Target

(* After such a write, what remains to be shown is about h itself.         *)
LEMMA WriteStep ==
  ASSUME IInv, NEW h \in Worker, Kept(h), Len(jobs') = Len(jobs),
         Len(transmissions') = Len(transmissions),
         FailedIsExplained', JobFailsFirst',
         \A t \in 1..Len(transmissions') : transmissions'[t].job \in 1..Len(jobs'),
         TypeOK', OthersUnchanged(h), WorkerConsistent(h)', Visible(h)',
         transmission'[h] \in {0, transmission[h]}, pc'[h] # "insert_job",
         used'["raises"] = 0 /\ transmission'[h] # transmission[h] =>
           \A t \in {transmission[h]} : Closed(t)'
  PROVE  IInv'
<1>1. InsertsBounded'
  BY SameBound
<1>2. ASSUME used'["raises"] = 0, NEW t \in 1..Len(transmissions'), transmission'[h] # t,
             t = transmission[h] \/ t \notin 1..Len(transmissions)
      PROVE  Closed(t)'
  BY <1>2
<1>3. QED
  BY <1>1, <1>2, Step

(* A contact's transaction is left out, anything else ends the flow.       *)
LEMMA GivenUp ==
  ASSUME IInv, NEW h \in Worker, GiveUp(h), UNCHANGED <<job, second, failure, used>>,
         pc[h] \in {"add_error", "save_record"}, Kept(h),
         used["raises"] = 0 /\ transmission[h] # 0 =>
           Steady(transmissions'[transmission[h]], known[h]["transmission"]),
         jobs'[job[h]].error,
         failure[h] = "string" => jobs'[job[h]].latest = "failed" /\ jobs'[job[h]].ended
  PROVE  /\ TypeOK' /\ OthersUnchanged(h) /\ WorkerConsistent(h)' /\ Visible(h)'
         /\ transmission'[h] \in {0, transmission[h]} /\ pc'[h] # "insert_job"
         /\ used'["raises"] = 0 /\ transmission'[h] # transmission[h] =>
              \A t \in {transmission[h]} : Closed(t)'
<1>1. /\ TypeOK /\ WorkerConsistent(h) /\ job[h] # 0
      /\ jobs' \in Seq(JobDoc) /\ transmissions' \in Seq(TransmissionDoc)
      /\ Len(jobs) <= Len(jobs') /\ Len(transmissions) <= Len(transmissions')
      /\ transmission[h] \in Nat /\ transmission[h] <= Len(transmissions)
      /\ Len(transmissions) \in Nat /\ Len(transmissions') \in Nat
      /\ failure' \in [Worker -> Failure]
      /\ used' \in [{"flows", "failures", "raises"} -> Nat]
      /\ \A k \in Worker \ {h} : failure'[k] = failure[k]
  <2>1. /\ TypeOK /\ WorkerConsistent(h)
        /\ transmission[h] \in Nat /\ transmission[h] <= Len(transmissions)
        /\ Len(transmissions) \in Nat
    BY Types DEF IInv
  <2>2. job[h] # 0
    BY <2>1 DEF WorkerConsistent, Updating
  <2>3. /\ failure' \in [Worker -> Failure]
        /\ used' \in [{"flows", "failures", "raises"} -> Nat]
    BY <2>1 DEF TypeOK
  <2>4. QED
    BY <2>1, <2>2, <2>3 DEF Kept, JobsKept, TransmissionsKept
<1>2. CASE IsContact(h) /\ NextTransaction(h)
  <2>1. transmission[h] # 0
    BY <1>1, <1>2 DEF WorkerConsistent
  <2>2. QED
    BY <1>1, <1>2, <2>1, Onward
<1>3. CASE End(h, "failure")
  <2>1. /\ TypeOK' /\ OthersUnchanged(h) /\ WorkerConsistent(h)'
        /\ pc'[h] = "idle" /\ transmission'[h] = 0
    BY <1>1, <1>3, Ended
  <2>2. Visible(h)'
    BY DEF Visible
  <2>3. used'["raises"] = 0 /\ transmission[h] # 0 => \A t \in {transmission[h]} : Closed(t)'
    <3> SUFFICES ASSUME used'["raises"] = 0, transmission[h] # 0,
                        NEW t \in {transmission[h]}
                 PROVE  Closed(t)'
      OBVIOUS
    <3>1. t \in 1..Len(transmissions')
      BY <1>1
    <3>2. transmissions'[t] \in TransmissionDoc
      BY <1>1, <3>1
    <3>3. QED
      BY <3>2, SteadyCloses DEF Closed
  <2>4. QED
    BY <2>1, <2>2, <2>3
<1>4. QED
  BY <1>2, <1>3 DEF GiveUp

-----------------------------------------------------------------------------
LEMMA AddErrorStep ==
  ASSUME IInv, NEW h \in Worker, AddError(h)
  PROVE  IInv'
<1> DEFINE doc == [Doc(h) EXCEPT !.error = TRUE]
<1>1. /\ TypeOK /\ WorkerConsistent(h) /\ pc[h] = "add_error" /\ Write(h, doc)
      /\ UNCHANGED <<second, job, failure, used>>
      /\ jobs \in Seq(JobDoc) /\ transmissions \in Seq(TransmissionDoc)
      /\ Len(jobs) \in Nat /\ Len(transmissions) \in Nat
      /\ target[h] \in Target /\ transmission[h] <= Len(transmissions)
      /\ job[h] <= Len(jobs)
  BY Types DEF IInv, AddError
<1>2. /\ job[h] # 0 /\ job[h] \in 1..Len(jobs) /\ outcome[h] = "none"
      /\ target[h] = "transmission" =>
           transmission[h] # 0 /\ transmission[h] \in 1..Len(transmissions) /\ jobs[job[h]].error
      /\ transmission[h] # 0 => transmissions[transmission[h]].job = job[h]
      /\ used["raises"] = 0 => Settled(h)
      /\ IsContact(h) => transmission[h] # 0
  BY <1>1, Types DEF WorkerConsistent
<1>3. /\ target[h] = "job" => Doc(h) = jobs[job[h]] /\ Doc(h) \in JobDoc
      /\ target[h] = "transmission" =>
           Doc(h) = transmissions[transmission[h]] /\ Doc(h) \in TransmissionDoc
  BY <1>1, <1>2 DEF Doc
<1>4. /\ target[h] = "job" => /\ doc \in JobDoc
                             /\ doc.job_id = Doc(h).job_id /\ doc.message_id = Doc(h).message_id
                             /\ doc.error = TRUE /\ doc.latest = Doc(h).latest
                             /\ doc.ended = Doc(h).ended
      /\ target[h] = "transmission" => /\ doc \in TransmissionDoc /\ doc.job = Doc(h).job
                                      /\ doc.error = TRUE /\ doc.latest = Doc(h).latest
                                      /\ doc.ended = Doc(h).ended /\ doc.states = Doc(h).states
  BY <1>3 DEF JobDoc, TransmissionDoc
<1>5. doc.latest = "failed" => (target[h] = "transmission" => jobs[job[h]].latest = "failed")
  BY <1>2, <1>3, <1>4 DEF IInv, JobFailsFirst
<1> HIDE DEF doc
<1>6. /\ Kept(h) /\ Len(jobs') = Len(jobs) /\ Len(transmissions') = Len(transmissions)
      /\ FailedIsExplained' /\ JobFailsFirst'
      /\ \A t \in 1..Len(transmissions') : transmissions'[t].job \in 1..Len(jobs')
      /\ target[h] = "job" => jobs'[job[h]] = doc /\ transmissions' = transmissions
      /\ target[h] = "transmission" => transmissions'[transmission[h]] = doc /\ jobs' = jobs
      /\ jobs[job[h]].error => jobs'[job[h]].error
  BY <1>1, <1>4, <1>5, Writing DEF Target
<1>7. jobs'[job[h]].error
  BY <1>1, <1>2, <1>4, <1>6 DEF Target
<1>8. used["raises"] = 0 /\ transmission[h] # 0 =>
        Steady(transmissions'[transmission[h]], known[h]["transmission"])
  <2> SUFFICES ASSUME used["raises"] = 0, transmission[h] # 0
               PROVE  Steady(transmissions'[transmission[h]], known[h]["transmission"])
    OBVIOUS
  <2>1. Steady(transmissions[transmission[h]], known[h]["transmission"])
    BY <1>1, SettledSteady
  <2>2. CASE target[h] = "job"
    BY <1>6, <2>1, <2>2
  <2>3. CASE target[h] = "transmission"
    BY <1>3, <1>4, <1>6, <2>1, <2>3 DEF Steady
  <2>4. QED
    BY <1>1, <2>2, <2>3 DEF Target
<1>9. jobs' \in Seq(JobDoc) /\ transmissions' \in Seq(TransmissionDoc)
  BY <1>6 DEF Kept
<1>10. transmission[h] # 0 => transmissions'[transmission[h]].job = job[h]
  <2>1. transmission[h] # 0 => transmission[h] \in 1..Len(transmissions)
    BY <1>1, Types
  <2>2. QED
    BY <1>2, <1>6, <2>1 DEF Kept, TransmissionsKept
<1>11. CASE /\ HasNextTarget(h)
            /\ target' = [target EXCEPT ![h] = "transmission"]
            /\ UNCHANGED <<pc, flow, query, transmission, left, known, outcome>>
  <2>1. TypeOK'
    BY <1>1, <1>9, <1>11 DEF TypeOK, Target
  <2>2. OthersUnchanged(h) /\ target'[h] = "transmission"
    BY <1>1, <1>11 DEF TypeOK, OthersUnchanged
  <2>3. Visible(h)'
    BY <1>1, <1>2, <1>11 DEF Visible
  <2>4. used["raises"] = 0 => Settled(h)'
    BY <1>1, <1>8, <1>11 DEF Settled, Steady
  <2>5. WorkerConsistent(h)'
    BY <1>1, <1>2, <1>6, <1>7, <1>10, <1>11, <2>2, <2>3, <2>4
       DEF WorkerConsistent, Updating, IsContact, HasNextTarget
  <2>6. QED
    BY <1>1, <1>6, <1>11, <2>1, <2>2, <2>3, <2>5, WriteStep
<1>12. CASE /\ ~ HasNextTarget(h) /\ failure[h] = "string"
            /\ target' = [target EXCEPT ![h] = "job"]
            /\ Goto(h, "load_status")
            /\ UNCHANGED <<flow, query, transmission, left, known, outcome>>
  <2>1. TypeOK'
    BY <1>1, <1>9, <1>12 DEF TypeOK, Target, Goto
  <2>2. OthersUnchanged(h) /\ target'[h] = "job" /\ pc'[h] = "load_status"
    BY <1>1, <1>12 DEF TypeOK, OthersUnchanged, Goto
  <2>3. Visible(h)'
    BY <1>1, <1>2, <1>12, <2>2 DEF Visible
  <2>4. used["raises"] = 0 => Settled(h)'
    BY <1>1, <1>8, <1>12, <2>2 DEF Settled, Steady
  <2>5. transmission[h] # 0 => transmissions'[transmission[h]].error
    BY <1>1, <1>4, <1>6, <1>12 DEF HasNextTarget, Target
  <2>6. WorkerConsistent(h)'
    BY <1>1, <1>2, <1>6, <1>7, <1>10, <1>12, <2>2, <2>3, <2>4, <2>5
       DEF WorkerConsistent, Updating, IsContact
  <2>7. QED
    BY <1>1, <1>6, <1>12, <2>1, <2>2, <2>3, <2>6, WriteStep
<1>13. CASE failure[h] # "string" /\ GiveUp(h)
  BY <1>1, <1>6, <1>7, <1>8, <1>13, GivenUp, WriteStep
<1>14. CASE End(h, "raised")
  <2>1. /\ TypeOK' /\ OthersUnchanged(h) /\ WorkerConsistent(h)'
        /\ pc'[h] = "idle" /\ transmission'[h] = 0 /\ outcome'[h] = "raised"
    <3>1. /\ failure' \in [Worker -> Failure]
          /\ \A k \in Worker \ {h} : failure'[k] = failure[k]
          /\ used' \in [{"flows", "failures", "raises"} -> Nat]
          /\ Len(jobs) <= Len(jobs') /\ UNCHANGED <<job, second>>
      BY <1>1, <1>6 DEF TypeOK
    <3>2. QED
      BY <1>9, <1>14, <3>1, Ended
  <2>2. used["raises"] = 0 /\ transmission[h] # 0 => \A t \in {transmission[h]} : Closed(t)'
    <3> SUFFICES ASSUME used["raises"] = 0, transmission[h] # 0, NEW t \in {transmission[h]}
                 PROVE  Closed(t)'
      OBVIOUS
    <3>1. t \in 1..Len(transmissions')
      BY <1>1, <1>6, Types
    <3>2. transmissions'[t] \in TransmissionDoc
      BY <1>9, <3>1
    <3>3. QED
      BY <1>8, <3>2, SteadyCloses DEF Closed
  <2>3. QED
    BY <1>1, <1>6, <2>1, <2>2, WriteStep DEF Visible
<1>15. QED
  BY <1>11, <1>12, <1>13, <1>14 DEF AddError

-----------------------------------------------------------------------------
(* What the four steps of an update rely on, and keep.                     *)
LEMMA UpdatingFacts ==
  ASSUME IInv, NEW h \in Worker, pc[h] \in Updating
  PROVE  /\ TypeOK /\ WorkerConsistent(h)
         /\ jobs \in Seq(JobDoc) /\ transmissions \in Seq(TransmissionDoc)
         /\ Len(jobs) \in Nat /\ Len(transmissions) \in Nat
         /\ job[h] \in 1..Len(jobs) /\ job[h] # 0
         /\ target[h] \in Target
         /\ transmission[h] # 0 => /\ transmission[h] \in 1..Len(transmissions)
                                  /\ transmissions[transmission[h]].job = job[h]
                                  /\ transmissions[transmission[h]].error
         /\ target[h] = "transmission" => /\ transmission[h] # 0
                                         /\ jobs[job[h]].latest = "failed" /\ jobs[job[h]].ended
         /\ outcome[h] = "none" /\ failure[h] = "string"
         /\ jobs[job[h]].error /\ Doc(h).error
         /\ used["raises"] = 0 => Settled(h)
         /\ IsContact(h) => transmission[h] # 0
         /\ target[h] = "job" => Doc(h) = jobs[job[h]] /\ Doc(h) \in JobDoc
         /\ target[h] = "transmission" =>
              Doc(h) = transmissions[transmission[h]] /\ Doc(h) \in TransmissionDoc
         /\ Doc(h).states \in Seq(ProcessState)
         /\ known \in [Worker -> [Target -> Nat]] /\ known[h][target[h]] \in Nat
<1>1. /\ TypeOK /\ WorkerConsistent(h) /\ jobs \in Seq(JobDoc)
      /\ transmissions \in Seq(TransmissionDoc)
      /\ Len(jobs) \in Nat /\ Len(transmissions) \in Nat
      /\ job[h] <= Len(jobs) /\ transmission[h] <= Len(transmissions)
      /\ job[h] \in Nat /\ transmission[h] \in Nat
      /\ target[h] \in Target
  BY Types DEF IInv
<1>2. /\ job[h] # 0 /\ outcome[h] = "none" /\ failure[h] = "string"
      /\ jobs[job[h]].error
      /\ used["raises"] = 0 => Settled(h)
      /\ IsContact(h) => transmission[h] # 0
      /\ transmission[h] # 0 => /\ transmissions[transmission[h]].job = job[h]
                               /\ transmissions[transmission[h]].error
      /\ target[h] = "transmission" => /\ transmission[h] # 0
                                      /\ jobs[job[h]].latest = "failed" /\ jobs[job[h]].ended
  BY <1>1 DEF WorkerConsistent, Updating
<1>3. /\ job[h] \in 1..Len(jobs)
      /\ transmission[h] # 0 => transmission[h] \in 1..Len(transmissions)
  BY <1>1, <1>2
<1>4. /\ target[h] = "job" => Doc(h) = jobs[job[h]] /\ Doc(h) \in JobDoc
      /\ target[h] = "transmission" =>
           Doc(h) = transmissions[transmission[h]] /\ Doc(h) \in TransmissionDoc
  BY <1>1, <1>2, <1>3 DEF Doc
<1>5. Doc(h).states \in Seq(ProcessState) /\ Doc(h).error
  BY <1>1, <1>2, <1>4 DEF Target, JobDoc, TransmissionDoc
<1>6. known \in [Worker -> [Target -> Nat]] /\ known[h][target[h]] \in Nat
  BY <1>1 DEF TypeOK
<1>7. QED
  BY <1>1, <1>2, <1>3, <1>4, <1>5, <1>6

LEMMA LoadStatusStep ==
  ASSUME IInv, NEW h \in Worker, LoadStatus(h)
  PROVE  IInv'
<1> DEFINE n == IF known[h][target[h]] = 0 THEN Len(Doc(h).states) ELSE known[h][target[h]]
<1>1. /\ pc[h] = "load_status" /\ pc[h] \in Updating
      /\ known' = [known EXCEPT ![h] = [known[h] EXCEPT ![target[h]] = n]]
      /\ Goto(h, "push_state")
      /\ UNCHANGED <<records, second, flow, query, job, transmission, left, failure, target,
                     outcome, used>>
      /\ jobs' = jobs /\ transmissions' = transmissions
  BY DEF LoadStatus, Updating, records
<1>2. /\ TypeOK /\ WorkerConsistent(h) /\ target[h] \in Target
      /\ known \in [Worker -> [Target -> Nat]]
      /\ outcome[h] = "none"
      /\ used["raises"] = 0 => Settled(h)
      /\ target[h] = "transmission" => Doc(h) = transmissions[transmission[h]]
      /\ n \in Nat
  BY <1>1, UpdatingFacts
<1> HIDE DEF n
<1>3. /\ known' \in [Worker -> [Target -> Nat]] /\ known'[h][target[h]] = n
      /\ \A s \in Target : s # target[h] => known'[h][s] = known[h][s]
  BY <1>1, <1>2
<1>4. pc' \in [Worker -> {"idle", "find_job", "validate_job", "insert_job",
                        "create_transmission", "create_family", "find_subject",
                        "create_transaction", "process", "add_error", "load_status",
                        "push_state", "save_status", "save_record"}]
      /\ pc'[h] = "push_state"
  BY <1>1, <1>2 DEF TypeOK, Goto
<1>5. TypeOK'
  BY <1>1, <1>2, <1>3, <1>4 DEF TypeOK
<1>6. OthersUnchanged(h)
  BY <1>1, <1>2 DEF TypeOK, OthersUnchanged, Goto
<1>7. Visible(h)'
  BY <1>1, <1>2, <1>4 DEF Visible
<1>8. used["raises"] = 0 => Settled(h)'
  <2> SUFFICES ASSUME used["raises"] = 0, transmission[h] # 0 PROVE Settled(h)'
    BY <1>1 DEF Settled
  <2>1. Settled(h)
    BY <1>2
  <2>2. CASE target[h] = "job"
    <3>1. known'[h]["transmission"] = known[h]["transmission"]
      BY <1>3, <2>2 DEF Target
    <3>2. QED
      BY <1>1, <1>4, <2>1, <2>2, <3>1 DEF Settled
  <2>3. CASE target[h] = "transmission"
    <3>1. n = Len(transmissions[transmission[h]].states)
      BY <1>2, <2>1, <2>3 DEF n, Settled
    <3>2. known'[h]["transmission"] = Len(transmissions[transmission[h]].states)
      BY <1>3, <2>3, <3>1
    <3>3. QED
      BY <1>1, <1>4, <2>1, <2>3, <3>2 DEF Settled
  <2>4. QED
    BY <1>2, <2>2, <2>3 DEF Target
<1>9. WorkerConsistent(h)'
  BY <1>1, <1>2, <1>4, <1>7, <1>8 DEF WorkerConsistent, Updating, IsContact
<1>10. QED
  BY <1>1, <1>4, <1>5, <1>6, <1>7, <1>9, QuietStep

(* One of the two middle steps: a write that goes on with the same record. *)
LEMMA StatusStep ==
  ASSUME IInv, NEW h \in Worker, NEW doc, NEW step, Write(h, doc),
         \/ pc[h] = "push_state" /\ step = "save_status"
         \/ pc[h] = "save_status" /\ step = "save_record",
         Goto(h, step),
         UNCHANGED <<second, flow, query, job, transmission, left, failure, target, outcome, used>>,
         known' \in [Worker -> [Target -> Nat]],
         \A k \in Worker \ {h} : known'[k] = known[k],
         target[h] = "job" => /\ doc \in JobDoc /\ doc.job_id = Doc(h).job_id
                             /\ doc.message_id = Doc(h).message_id,
         target[h] = "transmission" => doc \in TransmissionDoc /\ doc.job = Doc(h).job,
         doc.error, Doc(h).latest = "failed" => doc.latest = "failed", Doc(h).ended => doc.ended,
         step = "save_record" => doc.latest = "failed",
         target[h] = "job" => known'[h]["transmission"] = known[h]["transmission"],
         target[h] = "transmission" /\ used["raises"] = 0 =>
           LET n == Len(doc.states)
           IN  /\ known'[h]["transmission"] = n /\ n > 0
               /\ \A i \in 1..n : i < (IF step = "save_status" THEN n - 1 ELSE n) =>
                    doc.states[i].ended
               /\ doc.latest = "failed" /\ step = "save_record" => doc.states[n].ended
  PROVE  IInv'
<1>1. pc[h] \in Updating /\ step \in {"save_status", "save_record"}
  BY DEF Updating
<1>2. /\ TypeOK /\ WorkerConsistent(h)
      /\ jobs \in Seq(JobDoc) /\ transmissions \in Seq(TransmissionDoc)
      /\ Len(jobs) \in Nat /\ Len(transmissions) \in Nat
      /\ job[h] \in 1..Len(jobs) /\ job[h] # 0
      /\ target[h] \in Target
      /\ transmission[h] # 0 => /\ transmission[h] \in 1..Len(transmissions)
                               /\ transmissions[transmission[h]].job = job[h]
                               /\ transmissions[transmission[h]].error
      /\ target[h] = "transmission" => /\ transmission[h] # 0
                                      /\ jobs[job[h]].latest = "failed" /\ jobs[job[h]].ended
      /\ outcome[h] = "none" /\ failure[h] = "string"
      /\ jobs[job[h]].error /\ Doc(h).error
      /\ used["raises"] = 0 => Settled(h)
      /\ IsContact(h) => transmission[h] # 0
      /\ target[h] = "job" => Doc(h) = jobs[job[h]]
      /\ target[h] = "transmission" => Doc(h) = transmissions[transmission[h]]
  BY <1>1, UpdatingFacts
<1>3. /\ Kept(h) /\ Len(jobs') = Len(jobs) /\ Len(transmissions') = Len(transmissions)
      /\ FailedIsExplained' /\ JobFailsFirst'
      /\ \A t \in 1..Len(transmissions') : transmissions'[t].job \in 1..Len(jobs')
      /\ target[h] = "job" => jobs'[job[h]] = doc /\ transmissions' = transmissions
      /\ target[h] = "transmission" => transmissions'[transmission[h]] = doc /\ jobs' = jobs
      /\ jobs[job[h]].error => jobs'[job[h]].error
      /\ jobs[job[h]].latest = "failed" => jobs'[job[h]].latest = "failed"
      /\ jobs[job[h]].ended => jobs'[job[h]].ended
  BY <1>1, <1>2, Writing
<1>4. /\ jobs' \in Seq(JobDoc) /\ transmissions' \in Seq(TransmissionDoc)
      /\ Len(jobs') \in Nat /\ Len(transmissions') \in Nat
  BY <1>3 DEF Kept
<1>5. pc' \in [Worker -> {"idle", "find_job", "validate_job", "insert_job",
                        "create_transmission", "create_family", "find_subject",
                        "create_transaction", "process", "add_error", "load_status",
                        "push_state", "save_status", "save_record"}]
      /\ pc'[h] = step
  BY <1>1, <1>2 DEF TypeOK, Goto
<1>6. TypeOK'
  BY <1>2, <1>4, <1>5 DEF TypeOK
<1>7. OthersUnchanged(h)
  BY <1>2 DEF TypeOK, OthersUnchanged, Goto
<1>8. Visible(h)' /\ transmission'[h] = transmission[h] /\ pc'[h] # "insert_job"
  BY <1>1, <1>2, <1>5 DEF Visible
<1>9. used["raises"] = 0 => Settled(h)'
  <2> SUFFICES ASSUME used["raises"] = 0, transmission[h] # 0 PROVE Settled(h)'
    BY DEF Settled
  <2>1. CASE target[h] = "job"
    <3>1. /\ known'[h]["transmission"] = known[h]["transmission"]
          /\ transmissions' = transmissions /\ target' = target /\ transmission' = transmission
      BY <1>3, <2>1
    <3>2. QED
      BY <1>2, <2>1, <3>1 DEF Settled
  <2>2. CASE target[h] = "transmission"
    <3>1. /\ transmissions'[transmission[h]] = doc
          /\ target' = target /\ transmission' = transmission
      BY <1>3, <2>2
    <3>2. QED
      BY <1>1, <1>5, <2>2, <3>1 DEF Settled
  <2>3. QED
    BY <1>2, <2>1, <2>2 DEF Target
<1>10. transmission[h] # 0 => /\ transmissions'[transmission[h]].job = job[h]
                             /\ transmissions'[transmission[h]].error
  <2>1. transmission[h] # 0 => transmissions'[transmission[h]].job = job[h]
    BY <1>2, <1>3 DEF Kept, TransmissionsKept
  <2>2. transmission[h] # 0 => transmissions'[transmission[h]].error
    BY <1>2, <1>3 DEF Target
  <2>3. QED
    BY <2>1, <2>2
<1>11. step = "save_record" => Doc(h)'.latest = "failed"
  BY <1>2, <1>3 DEF Doc, Target
<1>12. WorkerConsistent(h)'
  BY <1>1, <1>2, <1>3, <1>5, <1>8, <1>9, <1>10, <1>11
     DEF WorkerConsistent, Updating, IsContact
<1>13. QED
  BY <1>3, <1>6, <1>7, <1>8, <1>12, WriteStep

LEMMA PushStateStep ==
  ASSUME IInv, NEW h \in Worker, PushState(h)
  PROVE  IInv'
<1> DEFINE pushed == [key |-> "failed", ended |-> FALSE]
           doc == [Doc(h) EXCEPT !.states = Append(Doc(h).states, pushed)]
           n == known[h][target[h]] + 1
<1>1. /\ pc[h] = "push_state" /\ pc[h] \in Updating
      /\ Write(h, doc)
      /\ known' = [known EXCEPT ![h] = [known[h] EXCEPT ![target[h]] = n]]
      /\ Goto(h, "save_status")
      /\ UNCHANGED <<second, flow, query, job, transmission, left, failure, target, outcome, used>>
  BY DEF PushState, Updating
<1>2. /\ target[h] \in Target /\ known \in [Worker -> [Target -> Nat]] /\ n \in Nat
      /\ transmissions \in Seq(TransmissionDoc)
      /\ target[h] = "transmission" => transmission[h] # 0
      /\ Doc(h).error /\ Doc(h).states \in Seq(ProcessState)
      /\ used["raises"] = 0 => Settled(h)
      /\ target[h] = "job" => Doc(h) \in JobDoc
      /\ target[h] = "transmission" =>
           Doc(h) = transmissions[transmission[h]] /\ Doc(h) \in TransmissionDoc
  BY <1>1, UpdatingFacts
<1>3. Append(Doc(h).states, pushed) \in Seq(ProcessState)
  BY <1>2 DEF ProcessState, StateKey
<1>4. /\ target[h] = "job" => /\ doc \in JobDoc /\ doc.job_id = Doc(h).job_id
                             /\ doc.message_id = Doc(h).message_id /\ doc.error = Doc(h).error
                             /\ doc.latest = Doc(h).latest /\ doc.ended = Doc(h).ended
      /\ target[h] = "transmission" =>
           /\ doc \in TransmissionDoc /\ doc.job = Doc(h).job /\ doc.error = Doc(h).error
           /\ doc.latest = Doc(h).latest /\ doc.ended = Doc(h).ended
           /\ doc.states = Append(Doc(h).states, pushed)
  BY <1>2, <1>3 DEF JobDoc, TransmissionDoc
<1>5. /\ known' \in [Worker -> [Target -> Nat]] /\ known'[h][target[h]] = n
      /\ \A k \in Worker \ {h} : known'[k] = known[k]
      /\ target[h] = "job" => known'[h]["transmission"] = known[h]["transmission"]
  <2>1. [known[h] EXCEPT ![target[h]] = n] \in [Target -> Nat]
    BY <1>2
  <2>2. target[h] = "job" =>
          [known[h] EXCEPT ![target[h]] = n]["transmission"] = known[h]["transmission"]
    BY <1>2 DEF Target
  <2>3. QED
    BY <1>1, <1>2, <2>1, <2>2
<1>6. ASSUME target[h] = "transmission", used["raises"] = 0
      PROVE  /\ known'[h]["transmission"] = Len(doc.states) /\ Len(doc.states) > 0
             /\ \A i \in 1..Len(doc.states) : i < Len(doc.states) - 1 => doc.states[i].ended
  <2>1. /\ known[h]["transmission"] = Len(Doc(h).states)
        /\ \A i \in 1..Len(Doc(h).states) : i < Len(Doc(h).states) => Doc(h).states[i].ended
    BY <1>1, <1>2, <1>6 DEF Settled
  <2>2. /\ Len(Doc(h).states) \in Nat /\ Len(doc.states) = Len(Doc(h).states) + 1
        /\ \A i \in 1..Len(Doc(h).states) : doc.states[i] = Doc(h).states[i]
    BY <1>2, <1>4, <1>6
  <2> HIDE DEF doc
  <2>3. known'[h]["transmission"] = Len(doc.states) /\ Len(doc.states) > 0
    BY <1>5, <1>6, <2>1, <2>2
  <2>4. ASSUME NEW i \in 1..Len(doc.states), i < Len(doc.states) - 1
        PROVE  doc.states[i].ended
    <3>1. i \in 1..Len(Doc(h).states) /\ i < Len(Doc(h).states)
      BY <2>2, <2>4
    <3>2. QED
      BY <2>1, <2>2, <3>1
  <2>5. QED
    BY <2>3, <2>4
<1>7. doc.error /\ (Doc(h).latest = "failed" => doc.latest = "failed")
      /\ (Doc(h).ended => doc.ended)
  BY <1>2, <1>4 DEF Target
<1> HIDE DEF doc, n
<1>8. QED
  BY <1>1, <1>4, <1>5, <1>6, <1>7, StatusStep

LEMMA SaveStatusStep ==
  ASSUME IInv, NEW h \in Worker, SaveStatus(h)
  PROVE  IInv'
<1> DEFINE n == known[h][target[h]]
           states == [i \in 1..Len(Doc(h).states) |->
                        [key |-> Doc(h).states[i].key,
                         ended |-> Doc(h).states[i].ended \/ i \in {n - 1, n}]]
           doc == [Doc(h) EXCEPT !.latest = "failed", !.states = states]
<1>1. /\ pc[h] = "save_status" /\ pc[h] \in Updating
      /\ Write(h, doc)
      /\ Goto(h, "save_record")
      /\ UNCHANGED <<second, flow, query, job, transmission, left, failure, target, outcome, used>>
      /\ known' = known
  BY DEF SaveStatus, Updating, locals
<1>2. /\ target[h] \in Target /\ known \in [Worker -> [Target -> Nat]] /\ n \in Nat
      /\ transmissions \in Seq(TransmissionDoc)
      /\ target[h] = "transmission" => transmission[h] # 0
      /\ Doc(h).error /\ Doc(h).states \in Seq(ProcessState)
      /\ used["raises"] = 0 => Settled(h)
      /\ target[h] = "job" => Doc(h) \in JobDoc
      /\ target[h] = "transmission" =>
           Doc(h) = transmissions[transmission[h]] /\ Doc(h) \in TransmissionDoc
  BY <1>1, UpdatingFacts
<1>3. /\ Len(Doc(h).states) \in Nat /\ states \in Seq(ProcessState)
      /\ Len(states) = Len(Doc(h).states)
      /\ \A i \in 1..Len(Doc(h).states) : states[i].ended <=>
           Doc(h).states[i].ended \/ i \in {n - 1, n}
  <2>1. /\ Len(Doc(h).states) \in Nat
        /\ \A i \in 1..Len(Doc(h).states) : Doc(h).states[i] \in ProcessState
    BY <1>2
  <2>2. \A i \in 1..Len(Doc(h).states) :
          /\ [key |-> Doc(h).states[i].key,
              ended |-> Doc(h).states[i].ended \/ i \in {n - 1, n}] \in ProcessState
    BY <2>1 DEF ProcessState
  <2>3. states \in [1..Len(Doc(h).states) -> ProcessState]
    BY <2>2
  <2>4. states \in Seq(ProcessState) /\ Len(states) = Len(Doc(h).states)
    BY <2>1, <2>3
  <2>5. QED
    BY <2>1, <2>4
<1> HIDE DEF states, n
<1>4. /\ target[h] = "job" => /\ doc \in JobDoc /\ doc.job_id = Doc(h).job_id
                             /\ doc.message_id = Doc(h).message_id /\ doc.error = Doc(h).error
                             /\ doc.latest = "failed" /\ doc.ended = Doc(h).ended
      /\ target[h] = "transmission" =>
           /\ doc \in TransmissionDoc /\ doc.job = Doc(h).job /\ doc.error = Doc(h).error
           /\ doc.latest = "failed" /\ doc.ended = Doc(h).ended
           /\ doc.states = states
  BY <1>2, <1>3 DEF JobDoc, TransmissionDoc, StateKey
<1>5. ASSUME target[h] = "transmission", used["raises"] = 0
      PROVE  /\ known'[h]["transmission"] = Len(states) /\ Len(states) > 0
             /\ \A i \in 1..Len(states) : states[i].ended
  <2>1. /\ n = Len(Doc(h).states) /\ n > 0 /\ known'[h]["transmission"] = n
        /\ \A i \in 1..Len(Doc(h).states) : i < Len(Doc(h).states) - 1 => Doc(h).states[i].ended
    BY <1>1, <1>2, <1>5 DEF Settled, n
  <2>2. ASSUME NEW i \in 1..Len(states) PROVE states[i].ended
    <3>1. i \in 1..Len(Doc(h).states) /\ (i < n - 1 \/ i \in {n - 1, n})
      BY <1>2, <1>3, <2>1
    <3>2. QED
      BY <1>3, <2>1, <3>1
  <2>3. QED
    BY <1>3, <2>1, <2>2
<1>6. doc.error /\ doc.latest = "failed" /\ (Doc(h).ended => doc.ended)
  BY <1>2, <1>4 DEF Target
<1>7. target[h] = "transmission" /\ used["raises"] = 0 =>
        /\ known'[h]["transmission"] = Len(doc.states) /\ Len(doc.states) > 0
        /\ \A i \in 1..Len(doc.states) : doc.states[i].ended
        /\ doc.states[Len(doc.states)].ended
  BY <1>3, <1>4, <1>5
<1> HIDE DEF doc
<1>8. QED
  BY <1>1, <1>2, <1>4, <1>6, <1>7, StatusStep

LEMMA SaveRecordStep ==
  ASSUME IInv, NEW h \in Worker, SaveRecord(h)
  PROVE  IInv'
<1> DEFINE doc == [Doc(h) EXCEPT !.ended = TRUE]
<1>1. /\ pc[h] = "save_record" /\ pc[h] \in Updating /\ Write(h, doc)
      /\ UNCHANGED <<second, job, failure, used>>
  BY DEF SaveRecord, Updating
<1>2. /\ TypeOK /\ WorkerConsistent(h)
      /\ jobs \in Seq(JobDoc) /\ transmissions \in Seq(TransmissionDoc)
      /\ Len(jobs) \in Nat /\ Len(transmissions) \in Nat
      /\ job[h] \in 1..Len(jobs) /\ job[h] # 0
      /\ target[h] \in Target
      /\ transmission[h] # 0 => /\ transmission[h] \in 1..Len(transmissions)
                               /\ transmissions[transmission[h]].job = job[h]
                               /\ transmissions[transmission[h]].error
      /\ target[h] = "transmission" => /\ transmission[h] # 0
                                      /\ jobs[job[h]].latest = "failed" /\ jobs[job[h]].ended
      /\ outcome[h] = "none" /\ failure[h] = "string"
      /\ jobs[job[h]].error /\ Doc(h).error
      /\ used["raises"] = 0 => Settled(h)
      /\ IsContact(h) => transmission[h] # 0
      /\ target[h] = "job" => Doc(h) = jobs[job[h]] /\ Doc(h) \in JobDoc
      /\ target[h] = "transmission" =>
           Doc(h) = transmissions[transmission[h]] /\ Doc(h) \in TransmissionDoc
  BY <1>1, UpdatingFacts
<1>3. Doc(h).latest = "failed"
  BY <1>1, <1>2 DEF WorkerConsistent
<1>4. /\ target[h] = "job" => /\ doc \in JobDoc /\ doc.job_id = Doc(h).job_id
                             /\ doc.message_id = Doc(h).message_id /\ doc.error = Doc(h).error
                             /\ doc.latest = Doc(h).latest /\ doc.ended = TRUE
      /\ target[h] = "transmission" =>
           /\ doc \in TransmissionDoc /\ doc.job = Doc(h).job /\ doc.error = Doc(h).error
           /\ doc.latest = Doc(h).latest /\ doc.ended = TRUE
           /\ doc.states = Doc(h).states
  BY <1>2 DEF JobDoc, TransmissionDoc
<1>5. doc.error /\ doc.latest = "failed" /\ doc.ended
  BY <1>2, <1>3, <1>4 DEF Target
<1> HIDE DEF doc
<1>6. /\ Kept(h) /\ Len(jobs') = Len(jobs) /\ Len(transmissions') = Len(transmissions)
      /\ FailedIsExplained' /\ JobFailsFirst'
      /\ \A t \in 1..Len(transmissions') : transmissions'[t].job \in 1..Len(jobs')
      /\ target[h] = "job" => jobs'[job[h]] = doc /\ transmissions' = transmissions
      /\ target[h] = "transmission" => transmissions'[transmission[h]] = doc /\ jobs' = jobs
      /\ jobs[job[h]].error => jobs'[job[h]].error
      /\ jobs[job[h]].latest = "failed" => jobs'[job[h]].latest = "failed"
      /\ jobs[job[h]].ended => jobs'[job[h]].ended
  BY <1>1, <1>2, <1>4, <1>5, Writing
<1>7. /\ jobs' \in Seq(JobDoc) /\ transmissions' \in Seq(TransmissionDoc)
      /\ Len(jobs') \in Nat /\ Len(transmissions') \in Nat
  BY <1>6 DEF Kept
<1>8. jobs'[job[h]].error /\ jobs'[job[h]].latest = "failed" /\ jobs'[job[h]].ended
  BY <1>2, <1>5, <1>6 DEF Target
<1>9. transmission[h] # 0 => /\ transmissions'[transmission[h]].job = job[h]
                            /\ transmissions'[transmission[h]].error
  <2>1. transmission[h] # 0 => transmissions'[transmission[h]].job = job[h]
    BY <1>2, <1>6 DEF Kept, TransmissionsKept
  <2>2. transmission[h] # 0 => transmissions'[transmission[h]].error
    BY <1>2, <1>5, <1>6 DEF Target
  <2>3. QED
    BY <2>1, <2>2
<1>10. CASE /\ HasNextTarget(h)
            /\ target' = [target EXCEPT ![h] = "transmission"]
            /\ Goto(h, "load_status")
            /\ UNCHANGED <<flow, query, transmission, left, known, outcome>>
  <2>1. target[h] = "job" /\ transmission[h] # 0 /\ transmissions' = transmissions
    BY <1>6, <1>10 DEF HasNextTarget
  <2>2. /\ pc' \in [Worker -> {"idle", "find_job", "validate_job", "insert_job",
                        "create_transmission", "create_family", "find_subject",
                        "create_transaction", "process", "add_error", "load_status",
                        "push_state", "save_status", "save_record"}]
        /\ target' \in [Worker -> Target]
        /\ pc'[h] = "load_status" /\ target'[h] = "transmission"
    BY <1>2, <1>10 DEF TypeOK, Goto, Target
  <2>3. TypeOK'
    BY <1>1, <1>2, <1>7, <1>10, <2>2 DEF TypeOK
  <2>4. OthersUnchanged(h)
    BY <1>1, <1>2, <1>10 DEF TypeOK, OthersUnchanged, Goto
  <2>5. used["raises"] = 0 => Settled(h)'
    <3>1. used["raises"] = 0 => Steady(transmissions[transmission[h]], known[h]["transmission"])
      BY <1>1, <2>1, SettledSteady
    <3>2. QED
      BY <1>10, <2>1, <2>2, <3>1 DEF Settled, Steady
  <2>6. WorkerConsistent(h)'
    BY <1>1, <1>2, <1>6, <1>8, <1>9, <1>10, <2>1, <2>2, <2>5
       DEF WorkerConsistent, Updating, IsContact
  <2>7. Visible(h)'
    BY <1>2, <1>10 DEF Visible
  <2>8. QED
    BY <1>6, <1>10, <2>2, <2>3, <2>4, <2>6, <2>7, WriteStep
<1>11. CASE ~ HasNextTarget(h) /\ GiveUp(h)
  <2>1. used["raises"] = 0 /\ transmission[h] # 0 =>
          Steady(transmissions'[transmission[h]], known[h]["transmission"])
    <3> SUFFICES ASSUME used["raises"] = 0, transmission[h] # 0
                 PROVE  Steady(transmissions'[transmission[h]], known[h]["transmission"])
      OBVIOUS
    <3>1. target[h] = "transmission" /\ Doc(h) = transmissions[transmission[h]]
      BY <1>2, <1>11 DEF HasNextTarget, Target
    <3>2. transmissions'[transmission[h]] = doc /\ doc.states = Doc(h).states /\ doc.ended
      BY <1>4, <1>5, <1>6, <3>1
    <3>3. Settled(h) /\ Doc(h).latest = "failed"
      BY <1>2, <1>3
    <3>4. QED
      BY <1>1, <3>1, <3>2, <3>3 DEF Settled, Steady
  <2>2. /\ TypeOK' /\ OthersUnchanged(h) /\ WorkerConsistent(h)' /\ Visible(h)'
        /\ transmission'[h] \in {0, transmission[h]} /\ pc'[h] # "insert_job"
        /\ used'["raises"] = 0 /\ transmission'[h] # transmission[h] =>
             \A t \in {transmission[h]} : Closed(t)'
    BY <1>1, <1>6, <1>8, <1>11, <2>1, GivenUp
  <2>3. QED
    BY <1>6, <2>2, WriteStep
<1>12. QED
  BY <1>10, <1>11 DEF SaveRecord

-----------------------------------------------------------------------------
LEMMA RaiseStep ==
  ASSUME IInv, NEW h \in Worker, Raise(h)
  PROVE  IInv'
<1>1. /\ TypeOK /\ WorkerConsistent(h) /\ pc[h] # "idle"
      /\ UNCHANGED <<records, second, job>> /\ jobs' = jobs /\ transmissions' = transmissions
      /\ jobs \in Seq(JobDoc) /\ transmissions \in Seq(TransmissionDoc)
      /\ Len(jobs) \in Nat /\ job[h] <= Len(jobs) /\ transmission[h] <= Len(transmissions)
  BY Types DEF IInv, Raise, records
<1>2. /\ used' \in [{"flows", "failures", "raises"} -> Nat] /\ used'["raises"] # 0
  BY <1>1 DEF Raise, Use, TypeOK
<1>3. CASE /\ pc[h] \in {"load_status", "push_state", "save_status", "save_record"}
           /\ failure' = [failure EXCEPT ![h] = "status"]
           /\ target' = [target EXCEPT ![h] = "job"]
           /\ Goto(h, "add_error")
           /\ UNCHANGED <<flow, query, transmission, left, known, outcome>>
  <2>1. /\ pc[h] \in Updating /\ job[h] # 0 /\ outcome[h] = "none"
        /\ IsContact(h) => transmission[h] # 0
        /\ transmission[h] # 0 => transmissions[transmission[h]].job = job[h]
    BY <1>1, <1>3, UpdatingFacts DEF Updating
  <2>2. TypeOK'
    BY <1>1, <1>2, <1>3 DEF TypeOK, Target, Goto, Failure, Recorded
  <2>3. OthersUnchanged(h) /\ pc'[h] = "add_error" /\ target'[h] = "job"
    BY <1>1, <1>3 DEF TypeOK, OthersUnchanged, Goto
  <2>4. Visible(h)'
    BY <1>1, <1>3, <2>1, <2>3 DEF Visible
  <2>5. WorkerConsistent(h)'
    BY <1>1, <1>2, <1>3, <2>1, <2>3, <2>4 DEF WorkerConsistent, Updating, IsContact
  <2>6. QED
    BY <1>1, <1>2, <1>3, <2>2, <2>3, <2>4, <2>5, QuietStep
<1>4. CASE End(h, "raised") /\ UNCHANGED failure
  <2>1. /\ failure' \in [Worker -> Failure]
        /\ \A k \in Worker \ {h} : failure'[k] = failure[k]
    BY <1>1, <1>4 DEF TypeOK
  <2>2. /\ TypeOK' /\ OthersUnchanged(h) /\ WorkerConsistent(h)'
        /\ pc'[h] = "idle" /\ transmission'[h] = 0 /\ outcome'[h] = "raised"
    BY <1>1, <1>2, <1>4, <2>1, Ended
  <2>3. QED
    BY <1>1, <1>2, <2>2, QuietStep DEF Visible
<1>5. QED
  BY <1>3, <1>4 DEF Raise

LEMMA CrashStep ==
  ASSUME IInv, NEW h \in Worker, Crash(h)
  PROVE  IInv'
<1>1. /\ TypeOK /\ WorkerConsistent(h) /\ End(h, "crashed")
      /\ UNCHANGED <<records, second, job, failure>>
      /\ jobs' = jobs /\ transmissions' = transmissions
      /\ jobs \in Seq(JobDoc) /\ transmissions \in Seq(TransmissionDoc)
      /\ Len(jobs) \in Nat
  BY Types DEF IInv, Crash, records
<1>2. /\ used' \in [{"flows", "failures", "raises"} -> Nat] /\ used'["raises"] # 0
      /\ failure' \in [Worker -> Failure]
      /\ \A k \in Worker \ {h} : failure'[k] = failure[k]
  BY <1>1 DEF Crash, Use, TypeOK
<1>3. /\ TypeOK' /\ OthersUnchanged(h) /\ WorkerConsistent(h)'
      /\ pc'[h] = "idle" /\ transmission'[h] = 0 /\ outcome'[h] = "crashed"
  BY <1>1, <1>2, Ended
<1>4. QED
  BY <1>1, <1>2, <1>3, QuietStep DEF Visible

LEMMA NextIInv == IInv /\ [Next]_vars => IInv'
<1> SUFFICES ASSUME IInv, [Next]_vars PROVE IInv'
  OBVIOUS
<1>1. CASE UNCHANGED vars
  <2>1. UNCHANGED <<jobs, transmissions, second, pc, flow, query, job, transmission, left, failure,
                    target, known, outcome, used>>
    BY <1>1 DEF vars, records, locals
  <2>2. TypeOK'
    BY <2>1 DEF IInv, TypeOK
  <2>3. WorkersConsistent'
    <3> SUFFICES ASSUME NEW w \in Worker PROVE WorkerConsistent(w)'
      BY DEF WorkersConsistent
    <3>1. WorkerConsistent(w)
      BY DEF IInv, WorkersConsistent
    <3>2. /\ Settled(w)' <=> Settled(w)
          /\ Doc(w)' = Doc(w) /\ (IsContact(w)' <=> IsContact(w))
      BY <2>1 DEF Settled, Doc, IsContact
    <3>3. QED
      BY <2>1, <3>1, <3>2 DEF WorkerConsistent
  <2>4. InsertsBounded'
    <3>1. \A m \in MessageId : JobsWith(m)' = JobsWith(m) /\ Inserting(m)' = Inserting(m)
      BY <2>1 DEF JobsWith, Inserting, Asked
    <3>2. QED
      BY <3>1 DEF IInv, InsertsBounded
  <2>5. TransmissionsOwned' /\ FailedIsExplained' /\ JobFailsFirst' /\ RefusalIsVisible'
        /\ StatesEnded'
    BY <2>1 DEF IInv, TransmissionsOwned, FailedIsExplained, JobFailsFirst, RefusalIsVisible,
                StatesEnded
  <2>6. QED
    BY <2>2, <2>3, <2>4, <2>5 DEF IInv
<1>2. CASE Tick
  BY <1>2, TickStep
<1>3. ASSUME NEW w \in Worker, BeginRequest(w) \/ BeginLookup(w) \/ BeginFind(w) \/ Call(w) \/ Crash(w)
      PROVE  IInv'
  <2>1. CASE BeginRequest(w) \/ BeginLookup(w) \/ BeginFind(w)
    BY <2>1, BeginStep
  <2>2. CASE FindJob(w) \/ ValidateJob(w) \/ InsertJob(w)
    BY <2>2, FindJobStep, ValidateJobStep, InsertJobStep
  <2>3. CASE \/ CreateTransmission(w) \/ CreateFamily(w) \/ FindSubject(w)
             \/ CreateTransaction(w) \/ Process(w)
    BY <2>3, CreateTransmissionStep, CreateFamilyStep, FindSubjectStep, CreateTransactionStep,
       ProcessStep
  <2>4. CASE AddError(w)
    BY <2>4, AddErrorStep
  <2>5. CASE LoadStatus(w) \/ PushState(w) \/ SaveStatus(w) \/ SaveRecord(w)
    BY <2>5, LoadStatusStep, PushStateStep, SaveStatusStep, SaveRecordStep
  <2>6. CASE Raise(w) \/ Crash(w)
    BY <2>6, RaiseStep, CrashStep
  <2>7. QED
    BY <1>3, <2>1, <2>2, <2>3, <2>4, <2>5, <2>6 DEF Call
<1>4. QED
  BY <1>1, <1>2, <1>3 DEF Next

-----------------------------------------------------------------------------
(* The records and what every worker knows of them stay consistent.        *)
THEOREM Invariance == Spec => []IInv
<1>1. Init => IInv
  BY InitIInv
<1>2. IInv /\ [Next]_vars => IInv'
  BY NextIInv
<1>3. QED
  BY <1>1, <1>2, PTL DEF Spec

(* A record marked failed has an error: update_status never runs before    *)
(* add_errors has gone through all of a flow's records.                    *)
THEOREM FailuresExplained == Spec => []FailedIsExplained
<1>1. IInv => FailedIsExplained
  BY DEF IInv
<1>2. QED
  BY <1>1, Invariance, PTL

(* The job is marked failed before its transmission is, whatever raises or *)
(* crashes in between and whoever shares the job.                          *)
THEOREM JobMarkedFirst == Spec => []JobFailsFirst
<1>1. IInv => JobFailsFirst
  BY DEF IInv
<1>2. QED
  BY <1>1, Invariance, PTL

(* A flow that returned a failure because a transmission or a transaction  *)
(* could not be created left an error on its job, and marked it failed     *)
(* when the reason was a message.  Other failures leave no such trace.     *)
THEOREM RefusalsVisible == Spec => []RefusalIsVisible
<1>1. IInv => RefusalIsVisible
  BY DEF IInv
<1>2. QED
  BY <1>1, Invariance, PTL

(* UpdateProcessStatus ends the state before the failure and the failure.  *)
THEOREM StatesClosed == Spec => []StatesEnded
<1>1. IInv => StatesEnded
  BY DEF IInv
<1>2. QED
  BY <1>1, Invariance, PTL

(* Find, validate, insert: no more jobs of a message id than workers.      *)
THEOREM JobBound == Spec => []JobsBounded
<1>1. IInv => JobsBounded
  <2> SUFFICES ASSUME IInv, NEW m \in MessageId
               PROVE  Cardinality(JobsWith(m)) <= Cardinality(Worker)
    BY DEF JobsBounded
  <2>1. Len(jobs) \in Nat
    BY DEF IInv, TypeOK
  <2>2. IsFiniteSet(1..Len(jobs))
    BY <2>1, FS_Interval
  <2>3. IsFiniteSet(JobsWith(m)) /\ IsFiniteSet(Inserting(m)) /\ IsFiniteSet(Worker)
    <3>1. JobsWith(m) \subseteq 1..Len(jobs) /\ Inserting(m) \subseteq Worker
      BY DEF JobsWith, Inserting
    <3>2. QED
      BY <2>2, <3>1, FS_Subset, ParameterAssumption
  <2>4. /\ Cardinality(JobsWith(m)) \in Nat /\ Cardinality(Inserting(m)) \in Nat
        /\ Cardinality(Worker) \in Nat
    BY <2>3, FS_CardinalityType
  <2>5. Cardinality(JobsWith(m)) + Cardinality(Inserting(m)) <= Cardinality(Worker)
    BY DEF IInv, InsertsBounded
  <2>6. QED
    BY <2>4, <2>5
<1>2. QED
  BY <1>1, Invariance, PTL
============================================================================
