------------------------------ MODULE EventLog ------------------------------
(***************************************************************************)
(* The older pipelines (family_update, primary_subscriber_update): every   *)
(* delivery is logged in an Event, the payload is upserted to SugarCRM,    *)
(* the Event ends successful or failed, and the message is acknowledged or *)
(* given back.  Users may retry and archive Events in the meantime.        *)
(*                                                                         *)
(* A handler works on an Event object of its own (copy): state machine     *)
(* guards look at the copy, and a save writes the fields the copy changed. *)
(* What the upsert does in SugarCRM is not modelled here, only its result; *)
(* LegacyUpsert says what a success of it vouches for.                     *)
(***************************************************************************)
EXTENDS Naturals

CONSTANTS
  Message,      \* messages of both queues
  Handler,      \* consumer and web server threads
  None,
  Requeue,      \* TRUE: the broker delivers a nacked message again
  Failures,     \* results a failing upsert can have: "details", "message"
  MaxEvents,    \* bound on Event documents
  MaxFailures,  \* bound on failing upserts
  MaxRaises,    \* bound on database calls that raise
  MaxRetries,   \* bound on retries requested by users
  MaxCrashes    \* bound on handlers that die

ASSUME BoundAssumption ==
  /\ Requeue \in BOOLEAN
  /\ Failures \subseteq {"details", "message"}
  /\ {MaxEvents, MaxFailures, MaxRaises, MaxRetries, MaxCrashes} \subseteq Nat

VARIABLES
  broker,     \* broker[m]: queued, delivered, acked or dropped
  succeeded,  \* messages of which an upsert has returned Success
  events,     \* the events collection: events[e] is a document or None
  pc,         \* pc[h]: the call handler h makes next
  message,    \* message[h]: the message it will acknowledge, None for a user's retry
  working,    \* working[h]: the Event it works on, 0 for none
  copy,       \* copy[h]: its Event object
  used        \* how often each bounded thing has happened

handlerVars == <<pc, message, working, copy>>
vars == <<broker, succeeded, events, handlerVars, used>>

EventId == 1..MaxEvents

State == {"received", "processing", "successful", "failure"}

(* error stands for the three error fields, which are set and cleared      *)
(* together.                                                               *)
Document == [message : Message, state : State, error : BOOLEAN, archived : BOOLEAN]

ASSUME NoneAssumption == None \notin Message \cup Document

Blank == [state |-> "received", error |-> FALSE, archived |-> FALSE]

TypeOK ==
  /\ broker \in [Message -> {"queued", "delivered", "acked", "dropped"}]
  /\ succeeded \subseteq Message
  /\ events \in [EventId -> Document \cup {None}]
  /\ pc \in [Handler -> {"idle", "create", "process", "publish", "complete", "fail",
                         "retry", "ack", "nack"}]
  /\ message \in [Handler -> Message \cup {None}]
  /\ working \in [Handler -> EventId \cup {0}]
  /\ copy \in [Handler -> [state : State, error : BOOLEAN, archived : BOOLEAN]]
  /\ used \in [{"failures", "raises", "retries", "crashes"} -> Nat]

Init ==
  /\ broker = [m \in Message |-> "queued"]
  /\ succeeded = {}
  /\ events = [e \in EventId |-> None]
  /\ pc = [h \in Handler |-> "idle"]
  /\ message = [h \in Handler |-> None]
  /\ working = [h \in Handler |-> 0]
  /\ copy = [h \in Handler |-> Blank]
  /\ used = [k \in {"failures", "raises", "retries", "crashes"} |-> 0]

-----------------------------------------------------------------------------
Goto(h, step) == pc' = [pc EXCEPT ![h] = step]

Use(what, max) ==
  /\ used[what] < max
  /\ used' = [used EXCEPT ![what] = @ + 1]

(* What a save makes of the document: the fields that changed are written. *)
Written(h, object) ==
  LET document == events[working[h]]
  IN  [message  |-> document.message,
       state    |-> IF object.state # copy[h].state THEN object.state ELSE document.state,
       error    |-> IF object.error # copy[h].error THEN object.error ELSE document.error,
       archived |-> document.archived]

(* Faulty variant: the whole object is written back.                       *)
SaveEverything(h, object) ==
  /\ copy' = [copy EXCEPT ![h] = object]
  /\ events' = [events EXCEPT ![working[h]] =
       [message  |-> events[working[h]].message,
        state    |-> object.state,
        error    |-> object.error,
        archived |-> object.archived]]

(* The object becomes object and is saved.                                 *)
Save(h, object) ==
  /\ copy' = [copy EXCEPT ![h] = object]
  /\ events' = [events EXCEPT ![working[h]] = Written(h, object)]

Deliver(h, m) ==
  /\ pc[h] = "idle"
  /\ broker[m] = "queued"
  /\ broker' = [broker EXCEPT ![m] = "delivered"]
  /\ message' = [message EXCEPT ![h] = m]
  /\ Goto(h, "create")
  /\ UNCHANGED <<succeeded, events, working, copy, used>>

(* Every delivery gets an Event of its own.                                *)
CreateEvent(h) ==
  /\ pc[h] = "create"
  /\ \E e \in EventId :
       /\ events[e] = None /\ \A d \in EventId : d < e => events[d] # None
       /\ events' = [events EXCEPT ![e] =
            [message |-> message[h], state |-> "received", error |-> FALSE, archived |-> FALSE]]
       /\ working' = [working EXCEPT ![h] = e]
  /\ copy' = [copy EXCEPT ![h] = Blank]
  /\ Goto(h, "process")
  /\ UNCHANGED <<broker, succeeded, message, used>>

(* process!  The copy was received a moment ago, by creation or by retry!. *)
Process(h) ==
  /\ pc[h] = "process"
  /\ copy[h].state = "received"
  /\ Save(h, [copy[h] EXCEPT !.state = "processing"])
  /\ Goto(h, "publish")
  /\ UNCHANGED <<broker, succeeded, message, working, used>>

(* An upsert that raises ends in the rescue clause, and so does a failure  *)
(* that is a bare message: taking details out of it raises.                *)
Publish(h) ==
  /\ pc[h] = "publish"
  /\ \/ /\ succeeded' = succeeded \cup {events[working[h]].message}
        /\ Goto(h, "complete")
        /\ UNCHANGED used
     \/ /\ Use("failures", MaxFailures)
        /\ \/ "details" \in Failures /\ Goto(h, "fail")
           \/ "message" \in Failures /\ Goto(h, "nack")
        /\ UNCHANGED succeeded
  /\ UNCHANGED <<broker, events, message, working, copy>>

Complete(h) ==
  /\ pc[h] = "complete"
  /\ Save(h, [copy[h] EXCEPT !.state = "successful"])
  /\ Goto(h, "ack")
  /\ UNCHANGED <<broker, succeeded, message, working, used>>

(* Faulty variant: the error is kept and the state is not.                 *)
FailUnsaved(h) ==
  /\ pc[h] = "fail"
  /\ Save(h, [copy[h] EXCEPT !.error = TRUE])
  /\ Goto(h, "nack")
  /\ UNCHANGED <<broker, succeeded, message, working, used>>

(* The error fields are set on the object; fail! saves them with the state.*)
Fail(h) ==
  /\ pc[h] = "fail"
  /\ Save(h, [copy[h] EXCEPT !.state = "failure", !.error = TRUE])
  /\ Goto(h, "nack")
  /\ UNCHANGED <<broker, succeeded, message, working, used>>

(* A database call of the handler raises.                                  *)
Raise(h) ==
  /\ pc[h] \in {"create", "process", "complete", "fail", "retry"}
  /\ Use("raises", MaxRaises)
  /\ Goto(h, "nack")
  /\ UNCHANGED <<broker, succeeded, events, message, working, copy>>

-----------------------------------------------------------------------------
(* The controller loads Event e for a retry.                               *)
FindEvent(h, e) ==
  /\ pc[h] = "idle"
  /\ events[e] # None
  /\ Use("retries", MaxRetries)
  /\ working' = [working EXCEPT ![h] = e]
  /\ copy' = [copy EXCEPT ![h] =
       [state |-> events[e].state, error |-> events[e].error, archived |-> events[e].archived]]
  /\ Goto(h, "retry")
  /\ UNCHANGED <<broker, succeeded, events, message>>

(* Faulty variant: the hook that clears the error saves it by itself.      *)
RetryCleared(h) ==
  /\ pc[h] = "retry"
  /\ Save(h, [copy[h] EXCEPT !.error = FALSE])
  /\ IF copy[h].state = "received" THEN Goto(h, "nack") ELSE Goto(h, "process")
  /\ UNCHANGED <<broker, succeeded, message, working, used>>

(* retry! clears the error fields; an object that is received raises.      *)
Retry(h) ==
  /\ pc[h] = "retry"
  /\ \/ /\ copy[h].state # "received"
        /\ Save(h, [copy[h] EXCEPT !.state = "received", !.error = FALSE])
        /\ Goto(h, "process")
     \/ /\ copy[h].state = "received"
        /\ Goto(h, "nack")
        /\ UNCHANGED <<events, copy>>
  /\ UNCHANGED <<broker, succeeded, message, working, used>>

(* archive sets the flag of every Event, one document after the other.     *)
Archive(e) ==
  /\ events[e] # None
  /\ ~ events[e].archived
  /\ events' = [events EXCEPT ![e].archived = TRUE]
  /\ UNCHANGED <<broker, succeeded, handlerVars, used>>

(* update writes the flag the user sent.                                   *)
Update(e, flag) ==
  /\ events[e] # None
  /\ events' = [events EXCEPT ![e].archived = flag]
  /\ UNCHANGED <<broker, succeeded, handlerVars, used>>

-----------------------------------------------------------------------------
Leave(h) ==
  /\ Goto(h, "idle")
  /\ message' = [message EXCEPT ![h] = None]
  /\ working' = [working EXCEPT ![h] = 0]
  /\ copy' = [copy EXCEPT ![h] = Blank]

(* Faulty variant: acknowledged whatever the result was.                   *)
NackAcks(h) ==
  /\ pc[h] = "nack"
  /\ broker' = IF message[h] = None THEN broker ELSE [broker EXCEPT ![message[h]] = "acked"]
  /\ Leave(h)
  /\ UNCHANGED <<succeeded, events, used>>

(* Faulty variant: the subscriber forgets to answer after an exception.    *)
NackForgotten(h) ==
  /\ pc[h] = "nack"
  /\ Leave(h)
  /\ UNCHANGED <<broker, succeeded, events, used>>

(* The controller answers its request; a subscriber settles the message.   *)
Ack(h) ==
  /\ pc[h] = "ack"
  /\ broker' = IF message[h] = None THEN broker ELSE [broker EXCEPT ![message[h]] = "acked"]
  /\ Leave(h)
  /\ UNCHANGED <<succeeded, events, used>>

Nack(h) ==
  /\ pc[h] = "nack"
  /\ broker' = IF message[h] = None THEN broker
               ELSE [broker EXCEPT ![message[h]] = IF Requeue THEN "queued" ELSE "dropped"]
  /\ Leave(h)
  /\ UNCHANGED <<succeeded, events, used>>

Crash(h) ==
  /\ pc[h] # "idle"
  /\ Use("crashes", MaxCrashes)
  /\ broker' = IF message[h] = None THEN broker ELSE [broker EXCEPT ![message[h]] = "queued"]
  /\ Leave(h)
  /\ UNCHANGED <<succeeded, events>>

Call(h) ==
  \/ CreateEvent(h)
  \/ Process(h)
  \/ Publish(h)
  \/ Complete(h)
  \/ Fail(h)
  \/ Raise(h)
  \/ Retry(h)
  \/ Ack(h)
  \/ Nack(h)

Next ==
  \/ \E h \in Handler :
       \/ \E m \in Message : Deliver(h, m)
       \/ Call(h)
       \/ \E e \in EventId : FindEvent(h, e)
       \/ Crash(h)
  \/ \E e \in EventId : Archive(e) \/ \E flag \in BOOLEAN : Update(e, flag)

Spec == Init /\ [][Next]_vars

(* Threads keep running and keep taking what is queued.                    *)
FairSpec ==
  /\ Spec
  /\ \A h \in Handler : WF_vars(Call(h))
  /\ \A m \in Message : SF_vars(\E h \in Handler : Deliver(h, m))

-----------------------------------------------------------------------------
(* A message is only acknowledged when an upsert of it returned Success:   *)
(* through every exception, crash and redelivery, and though users retry   *)
(* its Event at the same time (the subscribers' if and rescue).  That its  *)
(* payload is in SugarCRM then is more than this says: an upsert succeeds  *)
(* over an update_account that was not answered (family_upsert.rb:22).     *)
AckedMeansSucceeded == \A m \in Message : broker[m] = "acked" => m \in succeeded

(* A failed Event says why, however the handlers that work on it at the    *)
(* same time interleave: retry! and fail! write error and state in one     *)
(* save.                                                                   *)
FailureIsExplained ==
  \A e \in EventId : events[e] # None /\ events[e].state = "failure" => events[e].error

(* What a handler knows about its object and its Event.                    *)
HandlerConsistent(h) ==
  /\ pc[h] = "create" => message[h] # None
  /\ pc[h] \in {"idle", "retry"} => message[h] = None
  /\ pc[h] \in {"process", "publish", "complete", "fail", "retry"} =>
       /\ working[h] # 0 /\ events[working[h]] # None
       /\ message[h] # None => events[working[h]].message = message[h]
  /\ pc[h] = "process" => copy[h].state = "received"
  /\ pc[h] \in {"publish", "complete", "fail"} => copy[h].state = "processing"
  /\ pc[h] \in {"process", "publish", "complete", "fail"} => ~ copy[h].error
  /\ pc[h] = "complete" => events[working[h]].message \in succeeded
  /\ pc[h] = "ack" /\ message[h] # None => message[h] \in succeeded

HandlersConsistent == \A h \in Handler : HandlerConsistent(h)

(* The inductive invariant: a message is acked by a handler whose own      *)
(* upsert succeeded, and a failure is written by a handler whose copy      *)
(* shows no error, so that state and error are both among the fields saved.*)
IInv == TypeOK /\ HandlersConsistent /\ AckedMeansSucceeded /\ FailureIsExplained

WorkingOn(h) == IF pc[h] \in {"process", "publish", "complete", "fail", "retry"}
                THEN {working[h]} ELSE {}

(* Event is the "Class for recording the outcome of publishing"            *)
(* (event.rb:3): once no handler works on it, it is successful or failed,  *)
(* unless a call to the database raised or a handler died.                 *)
OutcomeRecorded ==
  used["raises"] = 0 /\ used["crashes"] = 0 =>
    \A e \in EventId :
      events[e] # None /\ (\A h \in Handler : e \notin WorkingOn(h)) =>
        events[e].state \in {"successful", "failure"}

(* The inductive form: an Event without an outcome is in the hands of a    *)
(* handler that is going to write it one.                                  *)
OutcomePending ==
  used["raises"] = 0 /\ used["crashes"] = 0 =>
    \A e \in EventId :
      events[e] # None /\ events[e].state \in {"received", "processing"} =>
        \E h \in Handler :
          pc[h] \in {"process", "publish", "complete", "fail"} /\ working[h] = e

(* The outcome on record is one outcome: a successful Event shows no error.*)
OutcomeConsistent ==
  \A e \in EventId : events[e] # None /\ events[e].state = "successful" => ~ events[e].error

(* Only a user takes an Event back out of the archive: a handler that has  *)
(* loaded it before does not (a save writes the changed fields).           *)
ArchivingSticks ==
  [][\A e \in EventId :
       events[e] # None /\ events[e].archived /\ ~ events'[e].archived => Update(e, FALSE)]_vars

(* Every message is acknowledged in the end, if nacked messages come again *)
(* and failures end.                                                       *)
EveryMessageAcked == \A m \in Message : <>(broker[m] = "acked")
=============================================================================
