----------------------------- MODULE UpsertCall -----------------------------
(***************************************************************************)
(* What an upsert of the older pipelines promises its handler: SugarCRM is *)
(* written to while the call runs and never after it, and a success means  *)
(* that every write the message requires was carried out.  A failure says  *)
(* nothing: any of the writes may have been carried out.                   *)
(***************************************************************************)
EXTENDS Naturals

CONSTANTS
  Handler,
  Message,
  Target,    \* what a call may write
  Required,  \* [Message -> SUBSET Target], what a success vouches for
  None

VARIABLES
  message,  \* message[h]: the message of h's call, None before the first
  running,  \* running[h]: h's call has not returned
  success,  \* success[h]: h's last call returned a success
  written   \* written[h]: the writes of h's call SugarCRM carried out

vars == <<message, running, success, written>>

Init ==
  /\ message = [h \in Handler |-> None]
  /\ running = [h \in Handler |-> FALSE]
  /\ success = [h \in Handler |-> FALSE]
  /\ written = [h \in Handler |-> {}]

(* A payload that cannot be used at all is refused at once.                *)
Begin(h, m) ==
  /\ ~ running[h]
  /\ message' = [message EXCEPT ![h] = m]
  /\ running' \in {running, [running EXCEPT ![h] = TRUE]}
  /\ success' = [success EXCEPT ![h] = FALSE]
  /\ written' = [written EXCEPT ![h] = {}]

(* One call to SugarCRM; it may be the last one of the upsert.             *)
Work(h) ==
  /\ running[h]
  /\ \E done \in SUBSET Target : written' = [written EXCEPT ![h] = @ \cup done]
  /\ \/ UNCHANGED <<running, success>>
     \/ /\ running' = [running EXCEPT ![h] = FALSE]
        /\ success' \in {success, [success EXCEPT ![h] = TRUE]}
  /\ success'[h] => Required[message[h]] \subseteq written'[h]
  /\ UNCHANGED message

Next == \E h \in Handler : Work(h) \/ \E m \in Message : Begin(h, m)

Spec == Init /\ [][Next]_vars
=============================================================================
