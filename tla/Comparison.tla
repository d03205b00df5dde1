---------------------------- MODULE Comparison ----------------------------
(***************************************************************************)
(* The comparison that decides what is sent to SugarCRM: the pure part of  *)
(* Operations::SugarCRM::CompareRequest and the entity it produces,        *)
(* Entities::AccountComparison.  An account payload and a contact payload  *)
(* are values of Data; NoData stands for "blank": no account, or a person  *)
(* who is no member of the family.                                         *)
(***************************************************************************)
CONSTANTS
  Data,     \* contents of account and contact payloads
  NoData,   \* nil
  Contact   \* hbx ids of the persons who can be members of the family

ASSUME NoDataAssumption == NoData \notin Data

(* An action of the comparison; "absent" marks a person the payload does   *)
(* not list, for whom the comparison has no entry.                         *)
Action == {"create", "update", "noop", "stale"}

(* What Update records for one object: nothing sent, accepted (2xx), or    *)
(* an error message.                                                       *)
Response == {"none", "ok", "failed"}

ContactComparison == [action : Action \cup {"absent"}, response : Response]

AccountComparison ==
  [account : Action, response : Response, contacts : [Contact -> ContactComparison]]

(* A payload: account data, and the data of each member.                   *)
Members(people) == {c \in Contact : people[c] # NoData}

(* Faulty variant: an object that is known is never updated.               *)
FetchActionKeeps(current, comparable) ==
  IF comparable = NoData THEN "create" ELSE "noop"

FetchAction(current, comparable) ==
  IF comparable = NoData THEN "create"
  ELSE IF current = comparable THEN "noop" ELSE "update"

FetchContactAction(current, comparable) ==
  [action   |-> IF current = NoData THEN "absent" ELSE FetchAction(current, comparable),
   response |-> "none"]

(* The current payload <<account, people>> against a comparable one.       *)
CompareAccountsAndContacts(account, people, comparableAccount, comparablePeople) ==
  [account  |-> FetchAction(account, comparableAccount),
   response |-> "none",
   contacts |-> [c \in Contact |-> FetchContactAction(people[c], comparablePeople[c])]]

StaleComparison(people) ==
  [account  |-> "stale",
   response |-> "none",
   contacts |-> [c \in Contact |->
                  [action   |-> IF people[c] = NoData THEN "absent" ELSE "stale",
                   response |-> "none"]]]

AllActions(cmp, action) ==
  /\ cmp.account = action
  /\ \A c \in Contact : cmp.contacts[c].action \in {action, "absent"}

(* The overall action of a comparison.  A stale comparison carries :stale  *)
(* everywhere, so its overall action is read off in the same way.          *)
ComparisonAction(cmp) ==
  IF \E action \in Action : AllActions(cmp, action)
  THEN cmp.account
  ELSE "create_and_update"

NoopOrStale(cmp) == ComparisonAction(cmp) \in {"noop", "stale"}
=============================================================================
