----------------------- MODULE SugarConnectionProofs -----------------------
(***************************************************************************)
(* For any number of threads, a call through the connection keeps the      *)
(* promise of SugarCall.                                                   *)
(***************************************************************************)
EXTENDS SugarConnection, TLAPS

LEMMA InitInv == Init => IInv
<1>1. Init => TypeOK
  <2>1. Init => connected \in BOOLEAN
    BY DEF Init
  <2>2. QED
    BY <2>1 DEF Init, TypeOK
<1>2. Init => OutcomeTells
  BY DEF Init, OutcomeTells
<1>3. QED
  BY <1>1, <1>2 DEF IInv

LEMMA StartStep ==
  ASSUME IInv, NEW w \in Worker, Start(w)
  PROVE  IInv'
<1>1. TypeOK'
  BY DEF IInv, TypeOK, Start, Goto
<1>2. OutcomeTells'
  BY DEF IInv, TypeOK, OutcomeTells, Start, Goto
<1>3. QED
  BY <1>1, <1>2 DEF IInv

LEMMA GetTokenStep ==
  ASSUME IInv, NEW w \in Worker, GetToken(w)
  PROVE  IInv'
<1>1. connected' \in BOOLEAN
  BY DEF IInv, TypeOK, GetToken
<1>2. TypeOK'
  BY <1>1 DEF IInv, TypeOK, GetToken, Goto, Finish
<1>3. OutcomeTells'
  BY DEF IInv, TypeOK, OutcomeTells, GetToken, Goto, Finish
<1>4. QED
  BY <1>2, <1>3 DEF IInv

LEMMA SendStep ==
  ASSUME IInv, NEW w \in Worker, Send(w)
  PROVE  IInv'
BY DEF IInv, TypeOK, OutcomeTells, Send, Goto, Finish

LEMMA AnswerStep ==
  ASSUME IInv, NEW w \in Worker, Answer(w)
  PROVE  IInv'
BY DEF IInv, TypeOK, OutcomeTells, Answer, Goto, Finish

(* The second attempt is made with applied = 1 at most, since the first    *)
(* one carried the request out at most once.                               *)
LEMMA RescueStep ==
  ASSUME IInv, NEW w \in Worker, Rescue(w)
  PROVE  IInv'
BY DEF IInv, TypeOK, OutcomeTells, Rescue, Goto, Finish

LEMMA ReconnectStep ==
  ASSUME IInv, NEW w \in Worker, Reconnect(w)
  PROVE  IInv'
BY DEF IInv, TypeOK, OutcomeTells, Reconnect, Goto, Finish

LEMMA NextInv == IInv /\ [Next]_vars => IInv'
<1> SUFFICES ASSUME IInv, [Next]_vars PROVE IInv'
  OBVIOUS
<1>1. CASE UNCHANGED vars
  BY <1>1 DEF IInv, TypeOK, OutcomeTells, vars
<1>2. ASSUME NEW w \in Worker, Start(w) \/ Call(w) PROVE IInv'
  BY <1>2, StartStep, GetTokenStep, SendStep, AnswerStep, RescueStep, ReconnectStep DEF Call
<1>3. QED
  BY <1>1, <1>2 DEF Next

(* The outcome tells how often SugarCRM carried out the request            *)
(* (connection.rb:29-37), for any number of threads sharing the token.     *)
THEOREM OutcomesTell == Spec => []IInv
BY InitInv, NextInv, PTL DEF Spec

LEMMA InitPromise == Init => Promise!Init
BY DEF Init, Promise!Init

LEMMA NextPromise == IInv /\ [Next]_vars => [Promise!Next]_<<result, applied>>
<1> SUFFICES ASSUME IInv, [Next]_vars PROVE [Promise!Next]_<<result, applied>>
  OBVIOUS
<1>1. CASE UNCHANGED vars
  BY <1>1 DEF vars
<1>2. ASSUME NEW w \in Worker, Start(w)
      PROVE  Promise!Begin(w)
  BY <1>2 DEF IInv, OutcomeTells, Start, Promise!Begin
<1>3. ASSUME NEW w \in Worker, NEW o \in {"answer", "nil", "raised"}, Finish(w, o),
             UNCHANGED applied, pc[w] # "idle",
             o = "answer" => applied[w] > 0
      PROVE  \E outcome \in Promise!Outcome : Promise!Return(w, outcome)
  BY <1>3 DEF IInv, TypeOK, OutcomeTells, Finish, Promise!Return, Promise!Outcome
<1>4. ASSUME NEW w \in Worker, Call(w)
      PROVE  \/ UNCHANGED <<result, applied>>
             \/ Promise!CarryOut(w)
             \/ \E outcome \in Promise!Outcome : Promise!Return(w, outcome)
  <2>1. CASE GetToken(w)
    BY <1>3, <2>1 DEF IInv, TypeOK, OutcomeTells, GetToken
  <2>2. CASE Send(w)
    <3>1. CASE applied' = applied
      BY <1>3, <2>2, <3>1 DEF IInv, TypeOK, OutcomeTells, Send
    <3>2. CASE UNCHANGED result /\ applied' = [applied EXCEPT ![w] = @ + 1]
      BY <2>2, <3>2 DEF IInv, TypeOK, OutcomeTells, Send, Promise!CarryOut
    <3>3. QED
      BY <2>2, <3>1, <3>2 DEF Send
  <2>3. CASE Answer(w)
    BY <1>3, <2>3 DEF IInv, TypeOK, OutcomeTells, Answer
  <2>4. CASE Rescue(w)
    BY <1>3, <2>4 DEF IInv, TypeOK, OutcomeTells, Rescue
  <2>5. CASE Reconnect(w)
    BY <1>3, <2>5 DEF IInv, TypeOK, OutcomeTells, Reconnect
  <2>6. QED
    BY <1>4, <2>1, <2>2, <2>3, <2>4, <2>5 DEF Call
<1>5. QED
  BY <1>1, <1>2, <1>4 DEF Next, Promise!Next

(* A caller sees no more than SugarCall allows: at most two deliveries of  *)
(* a request, and one at least when the call is answered                   *)
(* (connection.rb:29-37).                                                  *)
THEOREM KeepsPromise == Spec => PromiseSpec
BY InitPromise, NextPromise, OutcomesTell, PTL DEF Spec, PromiseSpec, Promise!Spec

(* A call gives up with nil in its rescue clause only, and there either    *)
(* because no thread has a token or because tries has reached its bound:   *)
(* IInv says that it has passed one attempt then, and no more than two.    *)
LEMMA GivingUpStep ==
  ASSUME IInv, NEW v \in Worker, Start(v) \/ Call(v),
         NEW w \in Worker, result[w] = "none", result'[w] = "nil", connected
  PROVE  tries[w] = 2
<1>1. result \in [Worker -> {"none", "answer", "nil", "raised"}]
  BY DEF IInv, TypeOK
<1>2. Rescue(v) /\ v = w
  BY <1>1 DEF Start, Call, GetToken, Send, Answer, Rescue, Reconnect, Finish
<1>3. tries[w] + 1 >= 3
  <2>1. CASE Finish(w, "nil") /\ tries[w] + 1 >= 3
    BY <2>1
  <2>2. CASE UNCHANGED result
    BY <2>2
  <2>3. QED
    BY <1>2, <2>1, <2>2 DEF Rescue
<1>4. tries[w] \in 1..3 /\ tries[w] <= 2
  BY <1>2 DEF IInv, TypeOK, OutcomeTells, Rescue
<1>5. QED
  BY <1>3, <1>4

(* A call that returns nil although the process has a token has made its   *)
(* second attempt (connection.rb:29-37), whatever the other threads do.    *)
THEOREM NilMeansRetried == Spec => RetriedBeforeGivingUp
<1> DEFINE Retried ==
      \A w \in Worker : result[w] = "none" /\ result'[w] = "nil" /\ connected => tries[w] = 2
<1>1. IInv /\ [Next]_vars => [Retried]_vars
  BY GivingUpStep DEF Next
<1>2. QED
  BY <1>1, OutcomesTell, PTL DEF Spec, RetriedBeforeGivingUp
=============================================================================
