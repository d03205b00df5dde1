--------------------------- MODULE Transmittable ---------------------------
(***************************************************************************)
(* The records a flow keeps of itself: a Job, its Transmissions and their  *)
(* transactions, each with the states it has gone through and its errors.  *)
(* A request flow creates a job of its own, a transmission, the family,    *)
(* the account's transaction and one for every contact; when the family is *)
(* processed it goes on with the response transmission.  A lookup flow     *)
(* (GenerateResponseObjects) finds its job by job_id, or creates it.       *)
(* FindOrCreateJob also finds a job by its message id; no flow of the      *)
(* application does so, and a find flow is that call alone.                *)
(*                                                                         *)
(* When a transmission or a transaction cannot be created the flow adds an *)
(* error to the records it has and marks them failed, one write after the  *)
(* other.  A record and its process status are taken to be inserted at     *)
(* once.                                                                   *)
(***************************************************************************)
EXTENDS Naturals, Sequences, FiniteSets

CONSTANTS
  Worker, None,
  MessageId,    \* message ids a job may be looked up by
  Earlier,      \* message ids of jobs that may exist from the start
  Contacts,     \* contact transactions of a request or response flow
  MaxFlows,     \* bound on flows
  MaxSecond,    \* bound on the clock
  MaxFailures,  \* bound on records that cannot be created
  MaxRaises     \* bound on database calls that raise and on crashes

ASSUME ParameterAssumption ==
  /\ IsFiniteSet(Worker) /\ Worker # {}
  /\ {Contacts, MaxFlows, MaxSecond, MaxFailures, MaxRaises} \subseteq Nat
  /\ None \notin MessageId /\ Earlier \subseteq MessageId

VARIABLES
  jobs,           \* the jobs collection, in order of creation
  transmissions,  \* the transmissions collection
  second,         \* the clock, in seconds
  pc,             \* pc[w]: the call worker w makes next
  flow,           \* flow[w]: request, response, lookup or find
  query,          \* query[w]: what a lookup or find flow looks for
  job,            \* job[w]: position of its job, 0 for none
  transmission,   \* transmission[w]: position of its transmission, 0 for none
  left,           \* left[w]: transactions it has not tried to create
  failure,        \* failure[w]: what went wrong last
  target,         \* target[w]: the record it updates now
  known,          \* known[w][t]: states its copy of record t has
  outcome,        \* outcome[w]: how its last flow ended
  used            \* how often each bounded thing has happened

records == <<jobs, transmissions>>
locals == <<flow, query, job, transmission, left, failure, target, known>>
vars == <<records, second, pc, locals, outcome, used>>

-----------------------------------------------------------------------------
StateKey == {"initial", "acked", "failed"}
ProcessState == [key : StateKey, ended : BOOLEAN]

(* latest, states: the ProcessStatus; ended: the record's own ended_at.    *)
JobDoc == [job_id : Nat, message_id : MessageId \cup {None}, latest : StateKey,
           states : Seq(ProcessState), ended : BOOLEAN, error : BOOLEAN]
TransmissionDoc == [job : Nat, latest : StateKey, states : Seq(ProcessState),
                    ended : BOOLEAN, error : BOOLEAN]

Target == {"job", "transmission"}

(* job_id is the key and the epoch second; the key is the same for all.    *)
Query == [by : {"job_id"}, job_id : Nat]
         \cup [by : {"message_id"}, message_id : MessageId]

(* The reasons of Refused and of an update that raised, which the records  *)
(* show, and two that leave no trace on them.                              *)
Recorded == {"string", "other", "no_subject", "status"}
Failure == {"none", "family", "process"} \cup Recorded

TypeOK ==
  /\ jobs \in Seq(JobDoc)
  /\ transmissions \in Seq(TransmissionDoc)
  /\ second \in Nat
  /\ pc \in [Worker -> {"idle", "find_job", "validate_job", "insert_job",
                        "create_transmission", "create_family", "find_subject",
                        "create_transaction", "process", "add_error", "load_status",
                        "push_state", "save_status", "save_record"}]
  /\ flow \in [Worker -> {"none", "request", "response", "lookup", "find"}]
  /\ query \in [Worker -> Query \cup {None}]
  /\ job \in [Worker -> Nat]
  /\ transmission \in [Worker -> Nat]
  /\ left \in [Worker -> Nat]
  /\ failure \in [Worker -> Failure]
  /\ target \in [Worker -> Target]
  /\ known \in [Worker -> [Target -> Nat]]
  /\ outcome \in [Worker -> {"none", "success", "failure", "raised", "crashed"}]
  /\ used \in [{"flows", "failures", "raises"} -> Nat]

Initial(state) == <<[key |-> state, ended |-> FALSE]>>

NewJob(id, m) == [job_id |-> id, message_id |-> m, latest |-> "initial",
                  states |-> Initial("initial"), ended |-> FALSE, error |-> FALSE]

Init ==
  /\ jobs \in {<<>>} \cup {<<NewJob(0, m)>> : m \in Earlier}
  /\ transmissions = <<>>
  /\ second = 0
  /\ pc = [w \in Worker |-> "idle"]
  /\ flow = [w \in Worker |-> "none"]
  /\ query = [w \in Worker |-> None]
  /\ job = [w \in Worker |-> 0]
  /\ transmission = [w \in Worker |-> 0]
  /\ left = [w \in Worker |-> 0]
  /\ failure = [w \in Worker |-> "none"]
  /\ target = [w \in Worker |-> "job"]
  /\ known = [w \in Worker |-> [t \in Target |-> 0]]
  /\ outcome = [w \in Worker |-> "none"]
  /\ used = [k \in {"flows", "failures", "raises"} |-> 0]

-----------------------------------------------------------------------------
Goto(w, step) == pc' = [pc EXCEPT ![w] = step]

Use(what, max) ==
  /\ used[what] < max
  /\ used' = [used EXCEPT ![what] = @ + 1]

Tick ==
  /\ second < MaxSecond
  /\ second' = second + 1
  /\ UNCHANGED <<records, pc, locals, outcome, used>>

(* Its job and why it failed outlive a flow, the rest does not.            *)
End(w, how) ==
  /\ Goto(w, "idle")
  /\ outcome' = [outcome EXCEPT ![w] = how]
  /\ flow' = [flow EXCEPT ![w] = "none"]
  /\ query' = [query EXCEPT ![w] = None]
  /\ transmission' = [transmission EXCEPT ![w] = 0]
  /\ left' = [left EXCEPT ![w] = 0]
  /\ target' = [target EXCEPT ![w] = "job"]
  /\ known' = [known EXCEPT ![w] = [t \in Target |-> 0]]

Begin(w, kind, question, step) ==
  /\ pc[w] = "idle"
  /\ Use("flows", MaxFlows)
  /\ Goto(w, step)
  /\ flow' = [flow EXCEPT ![w] = kind]
  /\ query' = [query EXCEPT ![w] = question]
  /\ job' = [job EXCEPT ![w] = 0]
  /\ left' = [left EXCEPT ![w] = IF kind = "lookup" THEN 1 ELSE Contacts + 1]
  /\ failure' = [failure EXCEPT ![w] = "none"]
  /\ outcome' = [outcome EXCEPT ![w] = "none"]
  /\ UNCHANGED <<records, second, transmission, target, known>>

(* GenerateRequestObjects creates its job without looking for one.         *)
BeginRequest(w) == Begin(w, "request", None, "validate_job")

(* GenerateResponseObjects passes the job_id it was given, or none.        *)
BeginLookup(w) ==
  \/ \E j \in 1..Len(jobs) :
       Begin(w, "lookup", [by |-> "job_id", job_id |-> jobs[j].job_id], "find_job")
  \/ Begin(w, "lookup", None, "validate_job")

(* FindOrCreateJob is called with a message id and nothing else.           *)
BeginFind(w) ==
  \E m \in MessageId :
    Begin(w, "find", [by |-> "message_id", message_id |-> m], "find_job")

Asked(w) == IF query[w] # None /\ query[w].by = "message_id" THEN query[w].message_id ELSE None

JobsWith(m) == {j \in 1..Len(jobs) : jobs[j].message_id = m}

Matches(w) ==
  {j \in 1..Len(jobs) : IF query[w].by = "job_id" THEN jobs[j].job_id = query[w].job_id
                        ELSE jobs[j].message_id = query[w].message_id}

(* last sorts by _id, which orders by the second of creation only: of two  *)
(* jobs with the same job_id it finds either.                              *)
Newest(found) == {j \in found : \A i \in found : jobs[i].job_id <= jobs[j].job_id}

(* Faulty variant: the job's message id is neither searched nor validated. *)
FindNoJob(w) ==
  /\ pc[w] = "find_job"
  /\ Goto(w, "insert_job")
  /\ UNCHANGED <<records, second, locals, outcome, used>>

FindJob(w) ==
  /\ pc[w] = "find_job"
  /\ \/ /\ Matches(w) = {}
        /\ Goto(w, "validate_job")
        /\ UNCHANGED <<flow, query, job, transmission, left, target, known, outcome>>
     \/ /\ flow[w] # "find"
        /\ \E j \in Newest(Matches(w)) : job' = [job EXCEPT ![w] = j]
        /\ Goto(w, "create_transmission")
        /\ UNCHANGED <<flow, query, transmission, left, target, known, outcome>>
     \/ /\ flow[w] = "find" /\ Matches(w) # {}
        /\ End(w, "success")
        /\ UNCHANGED job
  /\ UNCHANGED <<records, second, failure, used>>

(* validates :message_id, uniqueness is a query of its own.                *)
ValidateJob(w) ==
  /\ pc[w] = "validate_job"
  /\ \/ /\ Asked(w) = None \/ JobsWith(Asked(w)) = {}
        /\ Goto(w, "insert_job")
        /\ UNCHANGED <<flow, query, transmission, left, target, known, outcome>>
     \/ /\ Asked(w) # None /\ JobsWith(Asked(w)) # {}
        /\ End(w, "failure")
  /\ UNCHANGED <<records, second, job, failure, used>>

(* A job without a message id gets one nobody else has: None stands for it.*)
InsertJob(w) ==
  /\ pc[w] = "insert_job"
  /\ jobs' = Append(jobs, NewJob(second, Asked(w)))
  /\ \/ /\ flow[w] # "find"
        /\ job' = [job EXCEPT ![w] = Len(jobs) + 1]
        /\ known' = [known EXCEPT ![w] = [known[w] EXCEPT !["job"] = 1]]
        /\ Goto(w, "create_transmission")
        /\ UNCHANGED <<flow, query, transmission, left, target, outcome>>
     \/ /\ flow[w] = "find"
        /\ End(w, "success")
        /\ UNCHANGED job
  /\ UNCHANGED <<transmissions, second, failure, used>>

-----------------------------------------------------------------------------
(* Faulty variant: the status is updated before an error is added.         *)
RefusedAtOnce(w, reason) ==
  /\ Use("failures", MaxFailures)
  /\ failure' = [failure EXCEPT ![w] = reason]
  /\ target' = [target EXCEPT ![w] = "job"]
  /\ Goto(w, "load_status")

(* A record cannot be created: the reason is a message, or the result of a *)
(* validation.  Errors are added first, to the job first.                  *)
Refused(w, reason) ==
  /\ Use("failures", MaxFailures)
  /\ failure' = [failure EXCEPT ![w] = reason]
  /\ target' = [target EXCEPT ![w] = "job"]
  /\ Goto(w, "add_error")

CreateTransmission(w) ==
  /\ pc[w] = "create_transmission"
  /\ LET state == IF flow[w] = "request" THEN "initial" ELSE "acked"
     IN  \/ /\ transmissions' = Append(transmissions,
                 [job |-> job[w], latest |-> state, states |-> Initial(state),
                  ended |-> FALSE, error |-> FALSE])
            /\ transmission' = [transmission EXCEPT ![w] = Len(transmissions) + 1]
            /\ known' = [known EXCEPT ![w] = [known[w] EXCEPT !["transmission"] = 1]]
            /\ \/ flow[w] = "lookup" /\ Goto(w, "find_subject")
               \/ flow[w] = "request" /\ Goto(w, "create_family")
               \/ flow[w] = "response" /\ Goto(w, "create_transaction")
            /\ UNCHANGED <<failure, target, used>>
         \/ /\ \E reason \in {"string", "other"} : Refused(w, reason)
            /\ UNCHANGED <<transmissions, transmission, known>>
  /\ UNCHANGED <<jobs, second, flow, query, job, left, outcome>>

(* The flow ends with a failure none of its records shows.                 *)
EndUnrecorded(w, reason) ==
  /\ Use("failures", MaxFailures)
  /\ failure' = [failure EXCEPT ![w] = reason]
  /\ End(w, "failure")

(* The family's row; FamilySync has what it stores.                        *)
CreateFamily(w) ==
  /\ pc[w] = "create_family"
  /\ \/ /\ Goto(w, "create_transaction")
        /\ UNCHANGED <<flow, query, transmission, left, failure, target, known, outcome, used>>
     \/ EndUnrecorded(w, "family")
  /\ UNCHANGED <<records, second, job>>

FindSubject(w) ==
  /\ pc[w] = "find_subject"
  /\ \/ Goto(w, "create_transaction") /\ UNCHANGED <<failure, target, used>>
     \/ Refused(w, "no_subject")
  /\ UNCHANGED <<records, second, flow, query, job, transmission, left, known, outcome>>

(* One transaction less to create; a request flow is followed by the       *)
(* processing of the family, the other flows end.                          *)
NextTransaction(w) ==
  \/ /\ left[w] > 1
     /\ left' = [left EXCEPT ![w] = @ - 1]
     /\ Goto(w, "create_transaction")
     /\ UNCHANGED <<flow, query, transmission, target, known, outcome>>
  \/ /\ left[w] = 1 /\ flow[w] = "request"
     /\ Goto(w, "process")
     /\ UNCHANGED <<flow, query, transmission, left, target, known, outcome>>
  \/ /\ left[w] = 1 /\ flow[w] # "request"
     /\ End(w, "success")

(* The transactions themselves are not kept here: no flow updates one.     *)
CreateTransaction(w) ==
  /\ pc[w] = "create_transaction"
  /\ \/ /\ NextTransaction(w)
        /\ UNCHANGED <<failure, used>>
     \/ /\ \E reason \in {"string", "other"} : Refused(w, reason)
        /\ UNCHANGED <<flow, query, transmission, left, known, outcome>>
  /\ UNCHANGED <<records, second, job>>

(* The family is compared and written to SugarCRM; a failure of that leaves*)
(* the records as they are.                                                *)
Process(w) ==
  /\ pc[w] = "process"
  /\ \/ /\ flow' = [flow EXCEPT ![w] = "response"]
        /\ transmission' = [transmission EXCEPT ![w] = 0]
        /\ left' = [left EXCEPT ![w] = Contacts + 1]
        /\ known' = [known EXCEPT ![w] = [known[w] EXCEPT !["transmission"] = 0]]
        /\ Goto(w, "create_transmission")
        /\ UNCHANGED <<query, target, failure, outcome, used>>
     \/ EndUnrecorded(w, "process")
  /\ UNCHANGED <<records, second, job>>

-----------------------------------------------------------------------------
(* A contact's transaction that cannot be created does not stop the flow.  *)
IsContact(w) == flow[w] # "lookup" /\ left[w] <= Contacts

GiveUp(w) ==
  \/ IsContact(w) /\ NextTransaction(w)
  \/ ~ IsContact(w) /\ End(w, "failure")

Doc(w) == IF target[w] = "job" THEN jobs[job[w]] ELSE transmissions[transmission[w]]

Write(w, doc) ==
  \/ /\ target[w] = "job"
     /\ jobs' = [jobs EXCEPT ![job[w]] = doc]
     /\ UNCHANGED transmissions
  \/ /\ target[w] = "transmission"
     /\ transmissions' = [transmissions EXCEPT ![transmission[w]] = doc]
     /\ UNCHANGED jobs

(* Faulty variant: only the job is updated.                                *)
HasNoOtherTarget(w) == FALSE

HasNextTarget(w) == target[w] = "job" /\ transmission[w] # 0

AddError(w) ==
  /\ pc[w] = "add_error"
  /\ Write(w, [Doc(w) EXCEPT !.error = TRUE])
  /\ \/ /\ HasNextTarget(w)
        /\ target' = [target EXCEPT ![w] = "transmission"]
        /\ UNCHANGED <<pc, flow, query, transmission, left, known, outcome>>
     \/ /\ ~ HasNextTarget(w) /\ failure[w] = "string"
        /\ target' = [target EXCEPT ![w] = "job"]
        /\ Goto(w, "load_status")
        /\ UNCHANGED <<flow, query, transmission, left, known, outcome>>
     \/ /\ ~ HasNextTarget(w) /\ failure[w] \in {"other", "status"}
        /\ GiveUp(w)
     \/ /\ ~ HasNextTarget(w) /\ failure[w] = "no_subject"
        /\ End(w, "raised")
  /\ UNCHANGED <<second, job, failure, used>>

(* The process status is loaded when it is used for the first time.        *)
LoadStatus(w) ==
  /\ pc[w] = "load_status"
  /\ known' = [known EXCEPT ![w] =
       [known[w] EXCEPT ![target[w]] = IF known[w][target[w]] = 0 THEN Len(Doc(w).states)
                                       ELSE known[w][target[w]]]]
  /\ Goto(w, "push_state")
  /\ UNCHANGED <<records, second, flow, query, job, transmission, left, failure, target,
                 outcome, used>>

PushState(w) ==
  /\ pc[w] = "push_state"
  /\ Write(w, [Doc(w) EXCEPT !.states = Append(Doc(w).states, [key |-> "failed", ended |-> FALSE])])
  /\ known' = [known EXCEPT ![w] = [known[w] EXCEPT ![target[w]] = known[w][target[w]] + 1]]
  /\ Goto(w, "save_status")
  /\ UNCHANGED <<second, flow, query, job, transmission, left, failure, target, outcome, used>>

(* Faulty variant: the status is saved for the transmission only.          *)
SaveStatusOnce(w) ==
  /\ pc[w] = "save_status"
  /\ Write(w, IF target[w] = "job" THEN Doc(w) ELSE [Doc(w) EXCEPT !.latest = "failed"])
  /\ Goto(w, "save_record")
  /\ UNCHANGED <<second, locals, outcome, used>>

(* Faulty variant: the state before the failure stays open.                *)
SaveStatusOpen(w) ==
  /\ pc[w] = "save_status"
  /\ LET states == Doc(w).states
     IN  Write(w, [Doc(w) EXCEPT
           !.latest = "failed",
           !.states = [i \in 1..Len(states) |->
             [key |-> states[i].key,
              ended |-> states[i].ended \/ i = known[w][target[w]]]]])
  /\ Goto(w, "save_record")
  /\ UNCHANGED <<second, locals, outcome, used>>

(* The last two states the copy has are ended where it believes they are.  *)
SaveStatus(w) ==
  /\ pc[w] = "save_status"
  /\ LET n == known[w][target[w]]
         states == Doc(w).states
     IN  Write(w, [Doc(w) EXCEPT
           !.latest = "failed",
           !.states = [i \in 1..Len(states) |->
             [key |-> states[i].key, ended |-> states[i].ended \/ i \in {n - 1, n}]]])
  /\ Goto(w, "save_record")
  /\ UNCHANGED <<second, locals, outcome, used>>

(* Faulty variant: only the process status is saved.                       *)
RecordUnsaved(w) ==
  /\ pc[w] = "save_record"
  /\ \/ /\ HasNextTarget(w)
        /\ target' = [target EXCEPT ![w] = "transmission"]
        /\ Goto(w, "load_status")
        /\ UNCHANGED <<flow, query, transmission, left, known, outcome>>
     \/ /\ ~ HasNextTarget(w)
        /\ GiveUp(w)
  /\ UNCHANGED <<records, second, job, failure, used>>

SaveRecord(w) ==
  /\ pc[w] = "save_record"
  /\ Write(w, [Doc(w) EXCEPT !.ended = TRUE])
  /\ \/ /\ HasNextTarget(w)
        /\ target' = [target EXCEPT ![w] = "transmission"]
        /\ Goto(w, "load_status")
        /\ UNCHANGED <<flow, query, transmission, left, known, outcome>>
     \/ /\ ~ HasNextTarget(w)
        /\ GiveUp(w)
  /\ UNCHANGED <<second, job, failure, used>>

(* A database call raises.  Only update_status rescues it, by adding an    *)
(* error to every record.                                                  *)
Raise(w) ==
  /\ pc[w] # "idle"
  /\ Use("raises", MaxRaises)
  /\ \/ /\ pc[w] \in {"load_status", "push_state", "save_status", "save_record"}
        /\ failure' = [failure EXCEPT ![w] = "status"]
        /\ target' = [target EXCEPT ![w] = "job"]
        /\ Goto(w, "add_error")
        /\ UNCHANGED <<flow, query, transmission, left, known, outcome>>
     \/ /\ pc[w] \notin {"load_status", "push_state", "save_status", "save_record"}
        /\ End(w, "raised")
        /\ UNCHANGED failure
  /\ UNCHANGED <<records, second, job>>

Crash(w) ==
  /\ pc[w] # "idle"
  /\ Use("raises", MaxRaises)
  /\ End(w, "crashed")
  /\ UNCHANGED <<records, second, job, failure>>

Call(w) ==
  \/ FindJob(w) \/ ValidateJob(w) \/ InsertJob(w)
  \/ CreateTransmission(w) \/ CreateFamily(w) \/ FindSubject(w) \/ CreateTransaction(w)
  \/ Process(w)
  \/ AddError(w) \/ LoadStatus(w) \/ PushState(w) \/ SaveStatus(w) \/ SaveRecord(w)
  \/ Raise(w)

Next ==
  \/ Tick
  \/ \E w \in Worker : BeginRequest(w) \/ BeginLookup(w) \/ BeginFind(w) \/ Call(w) \/ Crash(w)

Spec == Init /\ [][Next]_vars

-----------------------------------------------------------------------------
Updating == {"load_status", "push_state", "save_status", "save_record"}

(* How far the update of a transmission has come: only the states its      *)
(* worker is about to end are open.                                        *)
Settled(w) ==
  transmission[w] # 0 =>
    LET t == transmissions[transmission[w]]
        n == Len(t.states)
        at == IF target[w] = "transmission" THEN pc[w] ELSE "none"
    IN  /\ known[w]["transmission"] \in {0, n} /\ n > 0
        /\ at \in {"push_state", "save_status", "save_record"} => known[w]["transmission"] = n
        /\ \A i \in 1..n : i < (IF at = "save_status" THEN n - 1 ELSE n) => t.states[i].ended
        /\ t.latest = "failed" /\ at # "save_status" => t.states[n].ended
        /\ t.latest = "failed" /\ at \notin {"save_status", "save_record"} => t.ended

(* What a worker knows about its records.                                  *)
WorkerConsistent(w) ==
  /\ job[w] <= Len(jobs) /\ transmission[w] <= Len(transmissions)
  /\ transmission[w] # 0 => transmissions[transmission[w]].job = job[w]
  /\ pc[w] \in {"create_transmission", "create_family", "find_subject", "create_transaction",
                "process", "add_error"} \cup Updating => job[w] # 0
  /\ pc[w] \in {"add_error"} \cup Updating /\ target[w] = "transmission" => transmission[w] # 0
  /\ pc[w] \in {"create_family", "find_subject", "create_transaction", "process"} =>
       transmission[w] # 0
  /\ pc[w] \in {"idle", "find_job", "validate_job", "insert_job", "create_transmission"} =>
       transmission[w] = 0
  /\ pc[w] # "idle" /\ IsContact(w) => transmission[w] # 0
  /\ pc[w] # "idle" => outcome[w] = "none"
  /\ outcome[w] = "failure" /\ failure[w] \in Recorded => job[w] # 0
  /\ pc[w] \in {"find_job", "validate_job", "insert_job"} => job[w] = 0 /\ failure[w] = "none"
  /\ pc[w] \in Updating => failure[w] = "string"
  /\ pc[w] \in Updating =>
       /\ jobs[job[w]].error
       /\ transmission[w] # 0 => transmissions[transmission[w]].error
  /\ pc[w] = "add_error" /\ target[w] = "transmission" => jobs[job[w]].error
  /\ pc[w] \in Updating /\ target[w] = "transmission" =>
       jobs[job[w]].latest = "failed" /\ jobs[job[w]].ended
  /\ pc[w] = "save_record" => Doc(w).latest = "failed"
  /\ used["raises"] = 0 => Settled(w)

WorkersConsistent == \A w \in Worker : WorkerConsistent(w)

(* A transmission is used by one worker, and belongs to a job that exists. *)
TransmissionsOwned ==
  /\ \A v, w \in Worker : transmission[v] = transmission[w] /\ transmission[v] # 0 => v = w
  /\ \A t \in 1..Len(transmissions) : transmissions[t].job \in 1..Len(jobs)

(* A worker about to insert a job has found none with its message id: what *)
(* exists and what may still be inserted is bounded together.              *)
Inserting(m) == {w \in Worker : pc[w] = "insert_job" /\ Asked(w) = m}

InsertsBounded ==
  \A m \in MessageId :
    Cardinality(JobsWith(m)) + Cardinality(Inserting(m)) <= Cardinality(Worker)

(* A record that is marked failed says why: errors are added before the    *)
(* status is touched, and nothing a flow that shares the job does, no      *)
(* exception and no crash in between takes them away.                      *)
FailedIsExplained ==
  /\ \A j \in 1..Len(jobs) : jobs[j].latest = "failed" => jobs[j].error
  /\ \A t \in 1..Len(transmissions) : transmissions[t].latest = "failed" => transmissions[t].error

(* The job is marked before its transmission, so that a failed transmission*)
(* is never hidden under a job that looks healthy, however far the update  *)
(* has come.                                                               *)
JobFailsFirst ==
  \A t \in 1..Len(transmissions) :
    transmissions[t].latest = "failed" => jobs[transmissions[t].job].latest = "failed"

(* A flow that returned a failure because a transmission or a transaction  *)
(* could not be created has left an error on its job, and has marked it    *)
(* failed when the reason was a message and the update did not raise       *)
(* (transmittable_utils.rb:49-117).  It is no more than that: a flow that  *)
(* fails in create_family (generate_request_objects.rb:18), or after its   *)
(* request objects, in the comparison, the update or the persistence,      *)
(* returns a failure without add_errors, and its records do not show it.   *)
RefusalIsVisible ==
  \A w \in Worker : outcome[w] = "failure" /\ failure[w] \in Recorded =>
    /\ jobs[job[w]].error
    /\ failure[w] = "string" => jobs[job[w]].latest = "failed" /\ jobs[job[w]].ended

(* Two flows that look for a message id at the same time may both create   *)
(* its job; no more jobs carry it than there are workers.                  *)
JobsBounded == \A m \in MessageId : Cardinality(JobsWith(m)) <= Cardinality(Worker)

(* "Jobs are uniquely identified by a message_id" (job.rb:5).              *)
MessageIdIdentifies == \A m \in MessageId : Cardinality(JobsWith(m)) <= 1

(* When its flow is over, every state of a failed transmission has ended,  *)
(* the one before the failure and the failure itself, unless a call raised.*)
StatesEnded ==
  used["raises"] = 0 =>
    \A t \in 1..Len(transmissions) :
      (\A w \in Worker : transmission[w] # t) /\ transmissions[t].latest = "failed" =>
        /\ transmissions[t].ended
        /\ \A i \in 1..Len(transmissions[t].states) : transmissions[t].states[i].ended

(* The inductive invariant: all of the above, for the proofs.              *)
IInv ==
  /\ TypeOK
  /\ WorkersConsistent
  /\ TransmissionsOwned
  /\ InsertsBounded
  /\ FailedIsExplained
  /\ JobFailsFirst
  /\ RefusalIsVisible
  /\ StatesEnded
=============================================================================
