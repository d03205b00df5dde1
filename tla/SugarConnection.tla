-------------------------- MODULE SugarConnection --------------------------
(***************************************************************************)
(* SugarCRM::Services::Connection: get, post, put and delete of one        *)
(* gateway process.  Every call asks for a token, sends its request, and   *)
(* after a connection error asks for a token again and sends once more.    *)
(* The threads of the process share the token (@connection) and nothing    *)
(* else.  A request or its answer may be lost, or the answer may be an     *)
(* error status: SugarCRM may have carried out the request in both cases.  *)
(* It does so before the HTTP client gives up on the request, or never.    *)
(***************************************************************************)
EXTENDS Naturals

CONSTANTS Worker  \* threads that call SugarCRM

VARIABLES
  connected,  \* @connection is not nil: some thread has got a token
  pc,         \* pc[w]: where w's call is
  tries,      \* tries[w]: the counter of the call
  applied,    \* applied[w]: how often SugarCRM carried out the request
  result      \* result[w]: outcome of the call, "none" while it runs

vars == <<connected, pc, tries, applied, result>>

TypeOK ==
  /\ connected \in BOOLEAN
  /\ pc \in [Worker -> {"idle", "token", "send", "carried_out", "rescue", "reconnect"}]
  /\ tries \in [Worker -> 1..3]
  /\ applied \in [Worker -> 0..2]
  /\ result \in [Worker -> {"none", "answer", "nil", "raised"}]

Init ==
  /\ connected = FALSE
  /\ pc = [w \in Worker |-> "idle"]
  /\ tries = [w \in Worker |-> 1]
  /\ applied = [w \in Worker |-> 0]
  /\ result = [w \in Worker |-> "nil"]

-----------------------------------------------------------------------------
Goto(w, place) == pc' = [pc EXCEPT ![w] = place]

Finish(w, outcome) ==
  /\ Goto(w, "idle")
  /\ result' = [result EXCEPT ![w] = outcome]

Start(w) ==
  /\ pc[w] = "idle"
  /\ Goto(w, "token")
  /\ tries' = [tries EXCEPT ![w] = 1]
  /\ applied' = [applied EXCEPT ![w] = 0]
  /\ result' = [result EXCEPT ![w] = "none"]
  /\ UNCHANGED connected

(* connection without force always asks for a new token.                   *)
GetToken(w) ==
  /\ pc[w] = "token"
  /\ \/ connected' = TRUE /\ Goto(w, "send") /\ UNCHANGED result
     \/ Goto(w, "rescue") /\ UNCHANGED <<connected, result>>  \* Faraday::Error
     \/ Finish(w, "raised") /\ UNCHANGED connected            \* OAuth2::Error
  /\ UNCHANGED <<tries, applied>>

(* The request arrives and is carried out, is refused with an error        *)
(* status, or never arrives (Faraday::Error).                              *)
Send(w) ==
  /\ pc[w] = "send"
  /\ \/ /\ Goto(w, "carried_out")
        /\ applied' = [applied EXCEPT ![w] = @ + 1]
        /\ UNCHANGED result
     \/ Finish(w, "raised") /\ UNCHANGED applied
     \/ Goto(w, "rescue") /\ UNCHANGED <<applied, result>>
  /\ UNCHANGED <<connected, tries>>

(* An error status raises OAuth2::Error, which no verb rescues.            *)
Answer(w) ==
  /\ pc[w] = "carried_out"
  /\ \/ Finish(w, "answer")
     \/ Finish(w, "raised")
     \/ Goto(w, "rescue") /\ UNCHANGED result  \* the answer is lost
  /\ UNCHANGED <<connected, tries, applied>>

(* Faulty variant: one attempt more.                                       *)
RescueThrice(w) ==
  /\ pc[w] = "rescue"
  /\ tries' = [tries EXCEPT ![w] = @ + 1]
  /\ \/ tries[w] + 1 <= 3 /\ connected /\ Goto(w, "reconnect") /\ UNCHANGED result
     \/ (tries[w] + 1 > 3 \/ ~ connected) /\ Finish(w, "nil")
  /\ UNCHANGED <<connected, applied>>

(* Faulty variant: no second attempt.                                      *)
RescueOnce(w) ==
  /\ pc[w] = "rescue"
  /\ tries' = [tries EXCEPT ![w] = @ + 1]
  /\ Finish(w, "nil")
  /\ UNCHANGED <<connected, applied>>

(* Faulty variant: the method body starts again with tries = 1.            *)
RescueForever(w) ==
  /\ pc[w] = "rescue"
  /\ \/ connected /\ Goto(w, "reconnect") /\ UNCHANGED result
     \/ ~ connected /\ Finish(w, "nil")
  /\ UNCHANGED <<connected, tries, applied>>

(* connection(force: true) answers nil as long as no thread has a token;   *)
(* the method then returns nil, as it does after the second attempt.       *)
Rescue(w) ==
  /\ pc[w] = "rescue"
  /\ tries' = [tries EXCEPT ![w] = @ + 1]
  /\ \/ tries[w] + 1 < 3 /\ connected /\ Goto(w, "reconnect") /\ UNCHANGED result
     \/ (tries[w] + 1 >= 3 \/ ~ connected) /\ Finish(w, "nil")
  /\ UNCHANGED <<connected, applied>>

(* A token before the retry; an error here is raised to the caller.        *)
Reconnect(w) ==
  /\ pc[w] = "reconnect"
  /\ \/ Goto(w, "token") /\ UNCHANGED result
     \/ Finish(w, "raised")
  /\ UNCHANGED <<connected, tries, applied>>

Call(w) == GetToken(w) \/ Send(w) \/ Answer(w) \/ Rescue(w) \/ Reconnect(w)

Next == \E w \in Worker : Start(w) \/ Call(w)

Spec == Init /\ [][Next]_vars

(* Every request is answered, refused, or given up by the HTTP client.     *)
FairSpec == Spec /\ \A w \in Worker : WF_vars(Call(w))

-----------------------------------------------------------------------------
(* The outcome of a call tells the caller how often SugarCRM can have      *)
(* carried it out: at most once for each attempt, and surely when it       *)
(* answers.  An exception tells no more than nil does: the request may     *)
(* have been carried out at both attempts (the verbs' rescue clause).      *)
OutcomeTells ==
  \A w \in Worker :
    /\ pc[w] = "idle" <=> result[w] # "none"
    /\ pc[w] \in {"token", "send", "reconnect"} => tries[w] <= 2 /\ applied[w] < tries[w]
    /\ pc[w] \in {"carried_out", "rescue"} => tries[w] <= 2 /\ applied[w] <= tries[w]
    /\ pc[w] = "carried_out" \/ result[w] = "answer" => applied[w] > 0
    /\ result[w] \in {"answer", "raised"} => tries[w] <= 2 /\ applied[w] <= tries[w]

IInv == TypeOK /\ OutcomeTells

(* What a caller may rely on.                                              *)
Promise == INSTANCE SugarCall

PromiseSpec == Promise!Spec

(* Once the process has a token, a call gives up with nil only after its   *)
(* second attempt, whatever the other threads do.                          *)
RetriedBeforeGivingUp ==
  [][\A w \in Worker :
       result[w] = "none" /\ result'[w] = "nil" /\ connected => tries[w] = 2]_vars

(* However often the connection fails, a call returns or raises: the       *)
(* counter survives the retry (tries ||= 1).                               *)
EveryCallEnds == \A w \in Worker : pc[w] = "token" ~> pc[w] = "idle"
=============================================================================
