--------------------------- MODULE EventLogProofs ---------------------------
(***************************************************************************)
(* For any number of handlers, messages, failures, retries and crashes, a  *)
(* message is acknowledged only when an upsert of it returned Success, a   *)
(* failed Event says why, and only a user takes an Event back out of the   *)
(* archive.                                                                *)
(***************************************************************************)
EXTENDS EventLog, TLAPS

(* No step takes a document out of the collection or changes its message.  *)
Kept ==
  \A e \in EventId :
    events[e] # None => events'[e] # None /\ events'[e].message = events[e].message

(* What step h leaves alone of every other handler.                        *)
OthersUnchanged(h) ==
  \A k \in Handler \ {h} :
    /\ pc'[k] = pc[k]
    /\ message'[k] = message[k]
    /\ working'[k] = working[k]
    /\ copy'[k] = copy[k]

(* A step that keeps the documents leaves the other handlers consistent.   *)
LEMMA Others ==
  ASSUME IInv, NEW h \in Handler, OthersUnchanged(h), Kept, succeeded \subseteq succeeded'
  PROVE  \A k \in Handler \ {h} : HandlerConsistent(k)'
<1> SUFFICES ASSUME NEW k \in Handler \ {h}
             PROVE  HandlerConsistent(k)'
  OBVIOUS
<1>1. HandlerConsistent(k) /\ working[k] \in EventId \cup {0}
  BY DEF IInv, TypeOK, HandlersConsistent
<1>2. /\ pc'[k] = pc[k] /\ message'[k] = message[k]
      /\ working'[k] = working[k] /\ copy'[k] = copy[k]
  BY DEF OthersUnchanged
<1>3. working[k] # 0 /\ events[working[k]] # None =>
        events'[working[k]] # None /\ events'[working[k]].message = events[working[k]].message
  BY <1>1 DEF Kept
<1>4. QED
  BY <1>1, <1>2, <1>3 DEF HandlerConsistent

(* A save that moves the object's state writes that state to the document, *)
(* and the error with it when it changed.                                  *)
LEMMA SaveStep ==
  ASSUME IInv, NEW h \in Handler,
         pc[h] \in {"process", "publish", "complete", "fail", "retry"},
         NEW STATE object,
         object \in [state : State, error : BOOLEAN, archived : BOOLEAN],
         object.state # copy[h].state,
         object.state = "failure" => object.error /\ ~ copy[h].error,
         Save(h, object)
  PROVE  /\ events' \in [EventId -> Document \cup {None}]
         /\ copy' \in [Handler -> [state : State, error : BOOLEAN, archived : BOOLEAN]]
         /\ copy'[h] = object
         /\ \A k \in Handler \ {h} : copy'[k] = copy[k]
         /\ Kept
         /\ FailureIsExplained'
<1> DEFINE w == working[h]
           document == Written(h, object)
<1>1. /\ w \in EventId /\ events[w] \in Document
      /\ events \in [EventId -> Document \cup {None}]
      /\ copy \in [Handler -> [state : State, error : BOOLEAN, archived : BOOLEAN]]
  BY DEF IInv, TypeOK, HandlersConsistent, HandlerConsistent
<1>2. /\ document \in Document
      /\ document.message = events[w].message
      /\ document.state = object.state
      /\ object.error # copy[h].error => document.error = object.error
  BY <1>1 DEF Document, Written
<1>3. document # None
  BY <1>2, NoneAssumption
<1>4. events' = [events EXCEPT ![w] = document] /\ copy' = [copy EXCEPT ![h] = object]
  BY DEF Save
<1>5. document.state = "failure" => document.error
  BY <1>1, <1>2
<1>6. FailureIsExplained
  BY DEF IInv
<1> HIDE DEF document, w
<1>7. /\ events' \in [EventId -> Document \cup {None}]
      /\ copy' \in [Handler -> [state : State, error : BOOLEAN, archived : BOOLEAN]]
      /\ copy'[h] = object
      /\ \A k \in Handler \ {h} : copy'[k] = copy[k]
  BY <1>1, <1>2, <1>4
<1>8. Kept
  BY <1>1, <1>2, <1>3, <1>4 DEF Kept
<1>9. FailureIsExplained'
  BY <1>1, <1>4, <1>5, <1>6 DEF FailureIsExplained
<1>10. QED
  BY <1>7, <1>8, <1>9

-----------------------------------------------------------------------------
LEMMA InitIInv == Init => IInv
BY NoneAssumption DEF Init, IInv, TypeOK, HandlersConsistent, HandlerConsistent,
   AckedMeansSucceeded, FailureIsExplained, Blank, State, EventId

LEMMA DeliverStep ==
  ASSUME IInv, NEW h \in Handler, NEW m \in Message, Deliver(h, m)
  PROVE  IInv'
<1>1. TypeOK'
  BY DEF IInv, TypeOK, Deliver, Goto
<1>2. OthersUnchanged(h) /\ Kept
  BY DEF IInv, TypeOK, Deliver, Goto, OthersUnchanged, Kept
<1>3. HandlerConsistent(h)'
  BY NoneAssumption DEF IInv, TypeOK, Deliver, Goto, HandlerConsistent
<1>4. AckedMeansSucceeded' /\ FailureIsExplained'
  BY DEF IInv, TypeOK, Deliver, AckedMeansSucceeded, FailureIsExplained
<1>5. QED
  BY <1>1, <1>2, <1>3, <1>4, Others DEF IInv, HandlersConsistent, Deliver

LEMMA CreateEventStep ==
  ASSUME IInv, NEW h \in Handler, CreateEvent(h)
  PROVE  IInv'
<1> DEFINE document == [message |-> message[h], state |-> "received",
                        error |-> FALSE, archived |-> FALSE]
<1>1. PICK e \in EventId : /\ events[e] = None
                           /\ events' = [events EXCEPT ![e] = document]
                           /\ working' = [working EXCEPT ![h] = e]
  BY DEF CreateEvent
<1>2. message[h] \in Message /\ e # 0
  BY DEF CreateEvent, IInv, TypeOK, HandlersConsistent, HandlerConsistent, EventId
<1>3. document \in Document /\ document # None
  <2>1. document \in Document
    BY <1>2 DEF Document, State
  <2>2. QED
    BY <2>1, NoneAssumption
<1>4. TypeOK'
  BY <1>1, <1>3 DEF IInv, TypeOK, CreateEvent, Goto, Blank, State
<1>5. OthersUnchanged(h) /\ Kept
  BY <1>1, <1>3 DEF IInv, TypeOK, CreateEvent, Goto, OthersUnchanged, Kept
<1>6. HandlerConsistent(h)'
  BY <1>1, <1>2, <1>3 DEF IInv, TypeOK, CreateEvent, Goto, HandlerConsistent, Blank
<1>7. FailureIsExplained'
  BY <1>1 DEF IInv, TypeOK, FailureIsExplained
<1>8. AckedMeansSucceeded'
  BY DEF IInv, CreateEvent, AckedMeansSucceeded
<1>9. QED
  BY <1>4, <1>5, <1>6, <1>7, <1>8, Others DEF IInv, HandlersConsistent, CreateEvent

(* The steps that save: what they have in common.                          *)
LEMMA SavingStep ==
  ASSUME IInv, NEW h \in Handler,
         pc[h] \in {"process", "publish", "complete", "fail", "retry"},
         NEW STATE object,
         object \in [state : State, error : BOOLEAN, archived : BOOLEAN],
         object.state # copy[h].state,
         object.state = "failure" => object.error /\ ~ copy[h].error,
         Save(h, object),
         NEW CONSTANT step \in {"publish", "ack", "nack", "process"}, Goto(h, step),
         UNCHANGED <<broker, succeeded, message, working, used>>,
         step = "publish" => object.state = "processing" /\ ~ object.error,
         step = "process" => object.state = "received" /\ ~ object.error,
         step = "ack" => pc[h] = "complete"
  PROVE  IInv'
<1>1. /\ events' \in [EventId -> Document \cup {None}]
      /\ copy' \in [Handler -> [state : State, error : BOOLEAN, archived : BOOLEAN]]
      /\ copy'[h] = object
      /\ \A k \in Handler \ {h} : copy'[k] = copy[k]
      /\ Kept
      /\ FailureIsExplained'
  BY SaveStep
<1>2. TypeOK'
  BY <1>1 DEF IInv, TypeOK, Goto
<1>3. OthersUnchanged(h)
  BY <1>1 DEF IInv, TypeOK, Goto, OthersUnchanged
<1>4. HandlerConsistent(h) /\ working[h] \in EventId /\ pc'[h] = step
  BY DEF IInv, TypeOK, HandlersConsistent, HandlerConsistent, Goto
<1>5. events'[working[h]] # None /\ events'[working[h]].message = events[working[h]].message
  BY <1>1, <1>4 DEF Kept, HandlerConsistent
<1>6. HandlerConsistent(h)'
  BY <1>1, <1>4, <1>5 DEF HandlerConsistent
<1>7. AckedMeansSucceeded'
  BY DEF IInv, AckedMeansSucceeded
<1>8. QED
  BY <1>1, <1>2, <1>3, <1>6, <1>7, Others DEF IInv, HandlersConsistent

LEMMA ProcessStep ==
  ASSUME IInv, NEW h \in Handler, Process(h)
  PROVE  IInv'
<1> DEFINE object == [copy[h] EXCEPT !.state = "processing"]
<1>1. copy[h] \in [state : State, error : BOOLEAN, archived : BOOLEAN]
  BY DEF IInv, TypeOK
<1>2. ~ copy[h].error
  BY DEF IInv, HandlersConsistent, HandlerConsistent, Process
<1>3. /\ object \in [state : State, error : BOOLEAN, archived : BOOLEAN]
      /\ object.state = "processing" /\ ~ object.error
  BY <1>1, <1>2 DEF State
<1>4. Save(h, object)
  BY DEF Process
<1> HIDE DEF object
<1>5. QED
  BY <1>3, <1>4, SavingStep DEF Process

LEMMA CompleteStep ==
  ASSUME IInv, NEW h \in Handler, Complete(h)
  PROVE  IInv'
<1> DEFINE object == [copy[h] EXCEPT !.state = "successful"]
<1>1. copy[h] \in [state : State, error : BOOLEAN, archived : BOOLEAN]
  BY DEF IInv, TypeOK
<1>2. copy[h].state = "processing"
  BY DEF IInv, HandlersConsistent, HandlerConsistent, Complete
<1>3. /\ object \in [state : State, error : BOOLEAN, archived : BOOLEAN]
      /\ object.state = "successful"
  BY <1>1 DEF State
<1>4. Save(h, object)
  BY DEF Complete
<1> HIDE DEF object
<1>5. QED
  BY <1>2, <1>3, <1>4, SavingStep DEF Complete

LEMMA FailStep ==
  ASSUME IInv, NEW h \in Handler, Fail(h)
  PROVE  IInv'
<1> DEFINE object == [copy[h] EXCEPT !.state = "failure", !.error = TRUE]
<1>1. copy[h] \in [state : State, error : BOOLEAN, archived : BOOLEAN]
  BY DEF IInv, TypeOK
<1>2. copy[h].state = "processing" /\ ~ copy[h].error
  BY DEF IInv, HandlersConsistent, HandlerConsistent, Fail
<1>3. /\ object \in [state : State, error : BOOLEAN, archived : BOOLEAN]
      /\ object.state = "failure" /\ object.error
  BY <1>1 DEF State
<1>4. Save(h, object)
  BY DEF Fail
<1> HIDE DEF object
<1>5. QED
  BY <1>2, <1>3, <1>4, SavingStep DEF Fail

(* Steps that change neither documents nor the broker.                     *)
LEMMA QuietStep ==
  ASSUME IInv, NEW h \in Handler, TypeOK', OthersUnchanged(h), HandlerConsistent(h)',
         UNCHANGED <<broker, events>>, succeeded \subseteq succeeded'
  PROVE  IInv'
<1>1. Kept
  BY DEF Kept
<1>2. AckedMeansSucceeded' /\ FailureIsExplained'
  BY DEF IInv, AckedMeansSucceeded, FailureIsExplained
<1>3. QED
  BY <1>1, <1>2, Others DEF IInv, HandlersConsistent

LEMMA PublishStep ==
  ASSUME IInv, NEW h \in Handler, Publish(h)
  PROVE  IInv'
<1> USE DEF Publish, Goto
<1>1. /\ working[h] \in EventId /\ events[working[h]] \in Document
      /\ HandlerConsistent(h)
      /\ pc' \in [Handler -> {"idle", "create", "process", "publish", "complete", "fail",
                              "retry", "ack", "nack"}]
  <2>1. /\ working[h] \in EventId /\ events[working[h]] \in Document
        /\ HandlerConsistent(h)
    BY DEF IInv, TypeOK, HandlersConsistent, HandlerConsistent
  <2>2. \E step \in {"complete", "fail", "nack"} : pc' = [pc EXCEPT ![h] = step]
    OBVIOUS
  <2>3. QED
    BY <2>1, <2>2 DEF IInv, TypeOK
<1>2. events[working[h]].message \in Message
  BY <1>1 DEF Document
<1>3. used' \in [{"failures", "raises", "retries", "crashes"} -> Nat]
  BY DEF IInv, TypeOK, Use
<1>4. TypeOK' /\ succeeded \subseteq succeeded'
  BY <1>1, <1>2, <1>3 DEF IInv, TypeOK
<1>5. OthersUnchanged(h)
  BY DEF IInv, TypeOK, OthersUnchanged
<1>6. HandlerConsistent(h)'
  <2>1. CASE pc' = [pc EXCEPT ![h] = "complete"] /\
             succeeded' = succeeded \cup {events[working[h]].message}
    BY <1>1, <2>1 DEF HandlerConsistent, IInv, TypeOK
  <2>2. CASE pc' = [pc EXCEPT ![h] = "fail"]
    BY <1>1, <2>2 DEF HandlerConsistent, IInv, TypeOK
  <2>3. CASE pc' = [pc EXCEPT ![h] = "nack"]
    BY <1>1, <2>3 DEF HandlerConsistent, IInv, TypeOK
  <2>4. QED
    BY <2>1, <2>2, <2>3
<1>7. QED
  BY <1>4, <1>5, <1>6, QuietStep

LEMMA RaiseStep ==
  ASSUME IInv, NEW h \in Handler, Raise(h)
  PROVE  IInv'
<1> USE DEF Raise, Goto, Use, IInv, TypeOK
<1>1. TypeOK'
  OBVIOUS
<1>2. OthersUnchanged(h)
  BY DEF OthersUnchanged
<1>3. HandlerConsistent(h)'
  BY DEF HandlerConsistent
<1> USE QuietStep
<1>4. QED
  BY <1>1, <1>2, <1>3

LEMMA FindEventStep ==
  ASSUME IInv, NEW h \in Handler, NEW e \in EventId, FindEvent(h, e)
  PROVE  IInv'
<1>1. events[e] \in Document /\ e # 0
  BY DEF FindEvent, IInv, TypeOK, EventId
<1>2. [state |-> events[e].state, error |-> events[e].error, archived |-> events[e].archived]
        \in [state : State, error : BOOLEAN, archived : BOOLEAN]
  BY <1>1 DEF Document
<1>3. TypeOK'
  BY <1>2 DEF FindEvent, Use, Goto, IInv, TypeOK
<1>4. OthersUnchanged(h)
  BY DEF FindEvent, Goto, IInv, TypeOK, OthersUnchanged
<1>5. HandlerConsistent(h) /\ working'[h] = e /\ pc'[h] = "retry" /\ message' = message
  BY DEF FindEvent, Goto, IInv, TypeOK, HandlersConsistent
<1>6. HandlerConsistent(h)'
  BY <1>1, <1>5 DEF FindEvent, HandlerConsistent
<1>7. QED
  BY <1>3, <1>4, <1>6, QuietStep DEF FindEvent

LEMMA RetryStep ==
  ASSUME IInv, NEW h \in Handler, Retry(h)
  PROVE  IInv'
<1>1. CASE copy[h].state # "received"
  <2> DEFINE object == [copy[h] EXCEPT !.state = "received", !.error = FALSE]
  <2>1. copy[h] \in [state : State, error : BOOLEAN, archived : BOOLEAN]
    BY DEF IInv, TypeOK
  <2>2. /\ object \in [state : State, error : BOOLEAN, archived : BOOLEAN]
        /\ object.state = "received" /\ ~ object.error
    BY <2>1 DEF State
  <2>3. Save(h, object) /\ Goto(h, "process")
    BY <1>1 DEF Retry
  <2> HIDE DEF object
  <2>4. QED
    BY <1>1, <2>2, <2>3, SavingStep DEF Retry
<1>2. CASE copy[h].state = "received"
  <2>1. Goto(h, "nack") /\ UNCHANGED <<broker, succeeded, events, message, working, copy, used>>
    BY <1>2 DEF Retry
  <2>2. TypeOK' /\ OthersUnchanged(h) /\ HandlerConsistent(h)'
    BY <2>1 DEF Goto, IInv, TypeOK, OthersUnchanged, HandlerConsistent
  <2>3. QED
    BY <2>1, <2>2, QuietStep
<1>3. QED
  BY <1>1, <1>2

(* A user's change of the flag changes nothing else of a document.         *)
LEMMA FlagStep ==
  ASSUME IInv, NEW e \in EventId, NEW flag \in BOOLEAN, events[e] # None,
         events' = [events EXCEPT ![e].archived = flag],
         UNCHANGED <<broker, succeeded, handlerVars, used>>
  PROVE  IInv'
<1> DEFINE document == [events[e] EXCEPT !.archived = flag]
<1>1. events[e] \in Document /\ events \in [EventId -> Document \cup {None}]
  BY DEF IInv, TypeOK
<1>2. /\ document \in Document /\ document.message = events[e].message
      /\ document.state = events[e].state /\ document.error = events[e].error
  BY <1>1 DEF Document
<1>3. document # None
  BY <1>2, NoneAssumption
<1>4. events' = [events EXCEPT ![e] = document]
  OBVIOUS
<1> HIDE DEF document
<1>5. events' \in [EventId -> Document \cup {None}] /\ Kept
  BY <1>1, <1>2, <1>3, <1>4 DEF Kept
<1>6. TypeOK'
  BY <1>5 DEF IInv, TypeOK, handlerVars
<1>7. FailureIsExplained'
  BY <1>1, <1>2, <1>4 DEF IInv, FailureIsExplained
<1>8. ASSUME NEW h \in Handler PROVE HandlerConsistent(h)'
  <2>1. HandlerConsistent(h) /\ working[h] \in EventId \cup {0}
    BY DEF IInv, TypeOK, HandlersConsistent
  <2>2. working[h] # 0 /\ events[working[h]] # None =>
          events'[working[h]] # None /\ events'[working[h]].message = events[working[h]].message
    BY <1>5, <2>1 DEF Kept
  <2>3. QED
    BY <2>1, <2>2 DEF HandlerConsistent, handlerVars
<1>9. AckedMeansSucceeded'
  BY DEF IInv, AckedMeansSucceeded
<1>10. QED
  BY <1>6, <1>7, <1>8, <1>9 DEF IInv, HandlersConsistent

(* A handler that leaves may settle its message, as acked only when an     *)
(* upsert of it succeeded.                                                 *)
LEMMA LeaveStep ==
  ASSUME IInv, NEW h \in Handler, Leave(h), UNCHANGED <<succeeded, events>>,
         used' \in [{"failures", "raises", "retries", "crashes"} -> Nat],
         NEW CONSTANT settled \in {"acked", "queued", "dropped"},
         broker' = IF message[h] = None THEN broker ELSE [broker EXCEPT ![message[h]] = settled],
         settled = "acked" /\ message[h] # None => message[h] \in succeeded
  PROVE  IInv'
<1>1. broker' \in [Message -> {"queued", "delivered", "acked", "dropped"}]
  BY DEF IInv, TypeOK
<1>2. TypeOK'
  BY <1>1 DEF IInv, TypeOK, Leave, Goto, Blank, State
<1>3. OthersUnchanged(h) /\ Kept
  BY DEF IInv, TypeOK, Leave, Goto, OthersUnchanged, Kept
<1>4. HandlerConsistent(h)'
  BY DEF IInv, TypeOK, Leave, Goto, HandlerConsistent
<1>5. AckedMeansSucceeded' /\ FailureIsExplained'
  BY DEF IInv, TypeOK, AckedMeansSucceeded, FailureIsExplained
<1>6. QED
  BY <1>2, <1>3, <1>4, <1>5, Others DEF IInv, HandlersConsistent

LEMMA SettleStep ==
  ASSUME IInv, NEW h \in Handler, Ack(h) \/ Nack(h) \/ Crash(h)
  PROVE  IInv'
<1>1. CASE Ack(h)
  <2>1. message[h] # None => message[h] \in succeeded
    BY <1>1 DEF Ack, IInv, HandlersConsistent, HandlerConsistent
  <2>2. used' \in [{"failures", "raises", "retries", "crashes"} -> Nat]
    BY <1>1 DEF Ack, IInv, TypeOK
  <2>3. QED
    BY <1>1, <2>1, <2>2, LeaveStep DEF Ack
<1>2. CASE Nack(h)
  <2> DEFINE settled == IF Requeue THEN "queued" ELSE "dropped"
  <2>1. settled \in {"acked", "queued", "dropped"} /\ settled # "acked"
    OBVIOUS
  <2>2. used' \in [{"failures", "raises", "retries", "crashes"} -> Nat]
    BY <1>2 DEF Nack, IInv, TypeOK
  <2>3. broker' = IF message[h] = None THEN broker ELSE [broker EXCEPT ![message[h]] = settled]
    BY <1>2 DEF Nack
  <2> HIDE DEF settled
  <2>4. QED
    BY <1>2, <2>1, <2>2, <2>3, LeaveStep DEF Nack
<1>3. CASE Crash(h)
  <2>1. used' \in [{"failures", "raises", "retries", "crashes"} -> Nat]
    BY <1>3 DEF Crash, Use, IInv, TypeOK
  <2>2. QED
    BY <1>3, <2>1, LeaveStep DEF Crash
<1>4. QED
  BY <1>1, <1>2, <1>3

LEMMA NextStep ==
  ASSUME IInv, [Next]_vars
  PROVE  IInv'
<1>1. ASSUME NEW h \in Handler, NEW m \in Message, Deliver(h, m) PROVE IInv'
  BY <1>1, DeliverStep
<1>2. ASSUME NEW h \in Handler, Call(h) PROVE IInv'
  BY <1>2, CreateEventStep, ProcessStep, PublishStep, CompleteStep, FailStep, RaiseStep,
     RetryStep, SettleStep DEF Call
<1>3. ASSUME NEW h \in Handler, NEW e \in EventId, FindEvent(h, e) PROVE IInv'
  BY <1>3, FindEventStep
<1>4. ASSUME NEW h \in Handler, Crash(h) PROVE IInv'
  BY <1>4, SettleStep
<1>5. ASSUME NEW e \in EventId, Archive(e) PROVE IInv'
  BY <1>5, FlagStep DEF Archive
<1>6. ASSUME NEW e \in EventId, NEW flag \in BOOLEAN, Update(e, flag) PROVE IInv'
  BY <1>6, FlagStep DEF Update
<1>7. CASE UNCHANGED vars
  BY <1>7 DEF vars, handlerVars, IInv, TypeOK, HandlersConsistent, HandlerConsistent,
     AckedMeansSucceeded, FailureIsExplained
<1>8. QED
  BY <1>1, <1>2, <1>3, <1>4, <1>5, <1>6, <1>7 DEF Next

-----------------------------------------------------------------------------
(* The inductive invariant of the event log holds in every reachable       *)
(* state.                                                                  *)
THEOREM Invariance == Spec => []IInv
<1>1. Init => IInv
  BY InitIInv
<1>2. IInv /\ [Next]_vars => IInv'
  BY NextStep
<1>3. QED
  BY <1>1, <1>2, PTL DEF Spec

(* The subscribers acknowledge only a message of which an upsert returned  *)
(* Success.                                                                *)
THEOREM AckIsEarned == Spec => []AckedMeansSucceeded
<1>1. IInv => AckedMeansSucceeded
  BY DEF IInv
<1>2. QED
  BY <1>1, Invariance, PTL

(* Every Event in state failure carries its error, although retry! clears  *)
(* errors on copies that may be stale.                                     *)
THEOREM FailuresExplained == Spec => []FailureIsExplained
<1>1. IInv => FailureIsExplained
  BY DEF IInv
<1>2. QED
  BY <1>1, Invariance, PTL

-----------------------------------------------------------------------------
(* A save keeps the archived flag of every document.                       *)
LEMMA SaveKeepsArchived ==
  ASSUME IInv, NEW h \in Handler, NEW STATE object, Save(h, object),
         NEW e \in EventId, events[e] \in Document
  PROVE  events'[e].archived = events[e].archived
<1>1. Written(h, object).archived = events[working[h]].archived
  BY DEF Written
<1>2. events' = [events EXCEPT ![working[h]] = Written(h, object)]
  BY DEF Save
<1>3. events \in [EventId -> Document \cup {None}]
  BY DEF IInv, TypeOK
<1>4. QED
  BY <1>1, <1>2, <1>3

(* Among the steps of a handler only saves change documents, and creation  *)
(* adds one.                                                               *)
LEMMA HandlerKeepsArchived ==
  ASSUME IInv, NEW h \in Handler, Call(h) \/ Crash(h),
         NEW e \in EventId, events[e] # None, events[e].archived
  PROVE  events'[e].archived
<1>1. events[e] \in Document /\ events \in [EventId -> Document \cup {None}]
  BY DEF IInv, TypeOK
<1>2. CASE CreateEvent(h)
  BY <1>1, <1>2 DEF CreateEvent
<1>3. CASE Process(h) \/ Complete(h) \/ Fail(h)
  BY <1>1, <1>3, SaveKeepsArchived DEF Process, Complete, Fail
<1>4. CASE Retry(h)
  BY <1>1, <1>4, SaveKeepsArchived DEF Retry
<1>5. CASE Publish(h) \/ Raise(h) \/ Ack(h) \/ Nack(h) \/ Crash(h)
  BY <1>5 DEF Publish, Raise, Ack, Nack, Crash
<1>6. QED
  BY <1>2, <1>3, <1>4, <1>5 DEF Call

(* A handler that loaded an Event before it was archived does not take it  *)
(* out of the archive when it saves.                                       *)
THEOREM ArchiveStays == Spec => ArchivingSticks
<1> DEFINE OnlyByUser ==
      \A e \in EventId :
        events[e] # None /\ events[e].archived /\ ~ events'[e].archived => Update(e, FALSE)
<1>1. IInv /\ [Next]_vars => [OnlyByUser]_vars
  <2> SUFFICES ASSUME IInv, Next, NEW e \in EventId,
                      events[e] # None, events[e].archived, ~ events'[e].archived
               PROVE  Update(e, FALSE)
    OBVIOUS
  <2>1. events \in [EventId -> Document \cup {None}]
    BY DEF IInv, TypeOK
  <2>2. ASSUME NEW h \in Handler, Call(h) \/ Crash(h) PROVE FALSE
    BY <2>2, HandlerKeepsArchived
  <2>3. ASSUME NEW h \in Handler, NEW m \in Message, Deliver(h, m) PROVE FALSE
    BY <2>3 DEF Deliver
  <2>4. ASSUME NEW h \in Handler, NEW d \in EventId, FindEvent(h, d) PROVE FALSE
    BY <2>4 DEF FindEvent
  <2>5. ASSUME NEW d \in EventId, Archive(d) PROVE FALSE
    BY <2>1, <2>5 DEF Archive, Document
  <2>6. ASSUME NEW d \in EventId, NEW flag \in BOOLEAN, Update(d, flag) PROVE Update(e, FALSE)
    <3>1. events' = [events EXCEPT ![d].archived = flag] /\ events[d] \in Document
      BY <2>1, <2>6 DEF Update
    <3>2. d = e /\ flag = FALSE
      BY <2>1, <3>1 DEF Document
    <3>3. QED
      BY <2>6, <3>2
  <2>7. QED
    BY <2>2, <2>3, <2>4, <2>5, <2>6 DEF Next
<1>2. QED
  BY <1>1, Invariance, PTL DEF Spec, ArchivingSticks

-----------------------------------------------------------------------------
(* An Event without an outcome, and a handler that is going to write one.  *)
Undecided(e) == events[e] # None /\ events[e].state \in {"received", "processing"}

InHand(h, e) == pc[h] \in {"process", "publish", "complete", "fail"} /\ working[h] = e

Quiet == used["raises"] = 0 /\ used["crashes"] = 0

LEMMA PendingMeaning ==
  OutcomePending <=>
    (Quiet => \A e \in EventId : Undecided(e) => \E h \in Handler : InHand(h, e))
BY DEF OutcomePending, Quiet, Undecided, InHand

(* A step of handler h leaves an Event undecided only when h keeps or takes*)
(* it in hand, or when h did not have it in hand before.                   *)
LEMMA PendingKept ==
  ASSUME OutcomePending, NEW h \in Handler, OthersUnchanged(h),
         Quiet' => Quiet,
         Quiet' => \A e \in EventId : Undecided(e)' =>
                     InHand(h, e)' \/ (Undecided(e) /\ ~ InHand(h, e))
  PROVE  OutcomePending'
<1> SUFFICES ASSUME Quiet', NEW e \in EventId, Undecided(e)'
             PROVE  \E k \in Handler : InHand(k, e)'
  BY DEF OutcomePending, Quiet, Undecided, InHand
<1>1. CASE InHand(h, e)'
  BY <1>1
<1>2. CASE Undecided(e) /\ ~ InHand(h, e)
  <2>1. PICK k \in Handler : InHand(k, e)
    BY <1>2, PendingMeaning
  <2>2. k \in Handler \ {h}
    BY <1>2, <2>1
  <2>3. InHand(k, e)'
    BY <2>1, <2>2 DEF InHand, OthersUnchanged
  <2>4. QED
    BY <2>3
<1>3. QED
  BY <1>1, <1>2

(* A save decides no Event but the handler's own.                          *)
LEMMA SaveElsewhere ==
  ASSUME IInv, NEW h \in Handler, NEW STATE object, Save(h, object),
         NEW e \in EventId, e # working[h]
  PROVE  Undecided(e)' <=> Undecided(e)
BY DEF IInv, TypeOK, Save, Undecided

(* The last save of a handler writes an outcome: its object was processing.*)
LEMMA SaveDecides ==
  ASSUME IInv, NEW h \in Handler, pc[h] \in {"complete", "fail"},
         NEW STATE object, object.state \in {"successful", "failure"}, Save(h, object),
         NEW e \in EventId, e = working[h]
  PROVE  ~ Undecided(e)'
<1>1. /\ copy[h].state = "processing"
      /\ events \in [EventId -> Document \cup {None}]
  BY DEF IInv, TypeOK, HandlersConsistent, HandlerConsistent
<1>2. events'[e] = Written(h, object)
  BY <1>1 DEF Save
<1>3. Written(h, object).state = object.state
  BY <1>1 DEF Written
<1>4. QED
  BY <1>2, <1>3 DEF Undecided

LEMMA HandlerPending ==
  ASSUME "message" \notin Failures, IInv, OutcomePending, NEW h \in Handler,
         Call(h) \/ Crash(h) \/ (\E m \in Message : Deliver(h, m))
           \/ (\E e \in EventId : FindEvent(h, e))
  PROVE  OutcomePending'
<1>1. OthersUnchanged(h)
  BY DEF IInv, TypeOK, OthersUnchanged, Call, CreateEvent, Process, Publish, Complete, Fail,
         Raise, Retry, Ack, Nack, Crash, Deliver, FindEvent, Goto, Leave, Save
<1>2. Quiet' => Quiet
  BY DEF IInv, TypeOK, Quiet, Use, Call, CreateEvent, Process, Publish, Complete, Fail,
         Raise, Retry, Ack, Nack, Crash, Deliver, FindEvent
<1>3. CASE \/ Ack(h) \/ Nack(h)
           \/ \E m \in Message : Deliver(h, m)
           \/ \E e \in EventId : FindEvent(h, e)
  <2>1. UNCHANGED events /\ pc[h] \in {"idle", "ack", "nack"}
    BY <1>3 DEF Ack, Nack, Deliver, FindEvent
  <2>2. \A e \in EventId : Undecided(e)' => Undecided(e) /\ ~ InHand(h, e)
    BY <2>1 DEF Undecided, InHand
  <2>3. QED
    BY <1>1, <1>2, <2>2, PendingKept
<1>4. CASE Raise(h) \/ Crash(h)
  <2>1. ~ Quiet'
    BY <1>4 DEF IInv, TypeOK, Quiet, Raise, Crash, Use
  <2>2. QED
    BY <1>1, <1>2, <2>1, PendingKept
<1>5. CASE CreateEvent(h)
  <2>1. PICK d \in EventId :
          /\ events' = [events EXCEPT ![d] = [message |-> message[h], state |-> "received",
                                             error |-> FALSE, archived |-> FALSE]]
          /\ working' = [working EXCEPT ![h] = d]
    BY <1>5 DEF CreateEvent
  <2>2. InHand(h, d)' /\ \A e \in EventId : ~ InHand(h, e)
    BY <1>5, <2>1 DEF IInv, TypeOK, CreateEvent, Goto, InHand
  <2>3. \A e \in EventId \ {d} : Undecided(e)' => Undecided(e)
    BY <2>1 DEF IInv, TypeOK, Undecided
  <2>4. QED
    BY <1>1, <1>2, <2>2, <2>3, PendingKept
<1>6. CASE Process(h) \/ (Retry(h) /\ copy[h].state # "received")
  <2>1. PICK object : Save(h, object)
    BY <1>6 DEF Process, Retry
  <2>2. \A e \in EventId :
          (e = working[h] => InHand(h, e)') /\ (InHand(h, e) => e = working[h])
    BY <1>6 DEF IInv, TypeOK, Process, Retry, Goto, InHand
  <2>3. \A e \in EventId : e # working[h] => (Undecided(e)' <=> Undecided(e))
    BY <2>1, SaveElsewhere
  <2>4. \A e \in EventId : Undecided(e)' =>
          InHand(h, e)' \/ (Undecided(e) /\ ~ InHand(h, e))
    BY <2>2, <2>3
  <2>5. QED
    BY <1>1, <1>2, <2>4, PendingKept
<1>7. CASE Retry(h) /\ copy[h].state = "received"
  <2>1. \A e \in EventId : Undecided(e)' => Undecided(e) /\ ~ InHand(h, e)
    BY <1>7 DEF Retry, Undecided, InHand
  <2>2. QED
    BY <1>1, <1>2, <2>1, PendingKept
<1>8. CASE Publish(h)
  <2>1. UNCHANGED <<events, working>> /\ pc'[h] \in {"complete", "fail"}
    BY <1>8 DEF IInv, TypeOK, Publish, Goto
  <2>2. \A e \in EventId : Undecided(e)' => Undecided(e) /\ (InHand(h, e) => InHand(h, e)')
    BY <2>1 DEF Undecided, InHand
  <2>3. QED
    BY <1>1, <1>2, <2>2, PendingKept
<1>9. CASE Complete(h) \/ Fail(h)
  <2>1. PICK object : Save(h, object) /\ object.state \in {"successful", "failure"}
    <3>1. copy[h] \in [state : State, error : BOOLEAN, archived : BOOLEAN]
      BY DEF IInv, TypeOK
    <3>2. /\ [copy[h] EXCEPT !.state = "successful"].state = "successful"
          /\ [copy[h] EXCEPT !.state = "failure", !.error = TRUE].state = "failure"
      BY <3>1
    <3>3. \/ Save(h, [copy[h] EXCEPT !.state = "successful"])
          \/ Save(h, [copy[h] EXCEPT !.state = "failure", !.error = TRUE])
      BY <1>9 DEF Complete, Fail
    <3>4. QED
      BY <3>2, <3>3
  <2>2. \A e \in EventId : e = working[h] => ~ Undecided(e)'
    BY <1>9, <2>1, SaveDecides DEF Complete, Fail
  <2>3. \A e \in EventId : e # working[h] => (Undecided(e)' <=> Undecided(e))
    BY <2>1, SaveElsewhere
  <2>4. working' = working
    BY <1>9 DEF Complete, Fail
  <2>5. \A e \in EventId : Undecided(e)' => Undecided(e) /\ ~ InHand(h, e)
    BY <2>2, <2>3, <2>4 DEF InHand
  <2>6. QED
    BY <1>1, <1>2, <2>5, PendingKept
<1>10. QED
  BY <1>3, <1>4, <1>5, <1>6, <1>7, <1>8, <1>9 DEF Call

(* A user's change of the archived flag.                                   *)
LEMMA FlagPending ==
  ASSUME IInv, OutcomePending, NEW d \in EventId,
         Archive(d) \/ \E flag \in BOOLEAN : Update(d, flag)
  PROVE  OutcomePending'
<1>1. PICK flag \in BOOLEAN : events' = [events EXCEPT ![d].archived = flag]
  BY DEF Archive, Update
<1>2. events[d] \in Document /\ events \in [EventId -> Document \cup {None}]
  BY DEF IInv, TypeOK, Archive, Update
<1>3. \A e \in EventId : Undecided(e)' => Undecided(e)
  <2>1. ASSUME NEW e \in EventId, Undecided(e)' PROVE Undecided(e)
    <3>1. CASE e = d
      BY <1>1, <1>2, <2>1, <3>1, NoneAssumption DEF Undecided, Document
    <3>2. CASE e # d
      BY <1>1, <1>2, <2>1, <3>2 DEF Undecided
    <3>3. QED
      BY <3>1, <3>2
  <2>2. QED
    BY <2>1
<1>4. (Quiet' <=> Quiet) /\ \A h \in Handler, e \in EventId : InHand(h, e) => InHand(h, e)'
  BY DEF Archive, Update, handlerVars, Quiet, InHand
<1>5. QED
  BY <1>3, <1>4 DEF OutcomePending, Quiet, Undecided, InHand

(* Unless a database call raises or a handler dies, an Event nobody works  *)
(* on has an outcome, however users retry it while handlers run (event.rb, *)
(* the state machine and its bang methods).  The hypothesis is what        *)
(* events_stuck is about: a failure that is a bare message sends the       *)
(* handler into its rescue clause.                                         *)
THEOREM OutcomesRecorded ==
  ASSUME "message" \notin Failures
  PROVE  Spec => []OutcomeRecorded
<1>1. Init => OutcomePending
  BY DEF Init, OutcomePending
<1>2. IInv /\ OutcomePending /\ [Next]_vars => OutcomePending'
  <2> SUFFICES ASSUME IInv, OutcomePending, [Next]_vars PROVE OutcomePending'
    OBVIOUS
  <2>1. CASE UNCHANGED vars
    BY <2>1 DEF OutcomePending, vars, handlerVars
  <2>2. CASE Next
    BY <2>2, HandlerPending, FlagPending DEF Next
  <2>3. QED
    BY <2>1, <2>2
<1>3. IInv /\ OutcomePending => OutcomeRecorded
  <2> SUFFICES ASSUME IInv, OutcomePending, Quiet, NEW e \in EventId, events[e] # None,
                      \A h \in Handler : e \notin WorkingOn(h)
               PROVE  events[e].state \in {"successful", "failure"}
    BY DEF OutcomeRecorded, Quiet
  <2>1. ~ Undecided(e)
    BY PendingMeaning DEF InHand, WorkingOn
  <2>2. events[e].state \in State
    BY DEF IInv, TypeOK, Document
  <2>3. QED
    BY <2>1, <2>2 DEF Undecided, State
<1>4. QED
  BY <1>1, <1>2, <1>3, Invariance, PTL DEF Spec
=============================================================================
