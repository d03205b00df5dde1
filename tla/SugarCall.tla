---------------------------- MODULE SugarCall ----------------------------
(***************************************************************************)
(* What a call of SugarCRM through the gateway's connection promises its   *)
(* caller: the request is carried out at most twice, and an answer means   *)
(* that it was carried out.  nil and an exception say nothing.             *)
(***************************************************************************)
EXTENDS Naturals

CONSTANTS Worker

VARIABLES
  result,  \* result[w]: outcome of w's call, "none" while it runs
  applied  \* applied[w]: how often SugarCRM carried out the call

Outcome == {"answer", "nil", "raised"}

Init ==
  /\ result = [w \in Worker |-> "nil"]
  /\ applied = [w \in Worker |-> 0]

Begin(w) ==
  /\ result[w] # "none"
  /\ result' = [result EXCEPT ![w] = "none"]
  /\ applied' = [applied EXCEPT ![w] = 0]

CarryOut(w) ==
  /\ result[w] = "none"
  /\ applied[w] < 2
  /\ applied' = [applied EXCEPT ![w] = @ + 1]
  /\ UNCHANGED result

Return(w, outcome) ==
  /\ result[w] = "none"
  /\ outcome = "answer" => applied[w] > 0
  /\ result' = [result EXCEPT ![w] = outcome]
  /\ UNCHANGED applied

Next ==
  \E w \in Worker :
    \/ Begin(w)
    \/ CarryOut(w)
    \/ \E outcome \in Outcome : Return(w, outcome)

Spec == Init /\ [][Next]_<<result, applied>>
==========================================================================
