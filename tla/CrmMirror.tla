---------------------------- MODULE CrmMirror ----------------------------
(***************************************************************************)
(* What the gateway promises for one family: SugarCRM shows the account of *)
(* one message and only ever moves on to a later one; a person changes     *)
(* only to what the message says whose account is shown.                   *)
(***************************************************************************)
EXTENDS Naturals

CONSTANTS Message, Malformed, Timestamp, AccountOf, PeopleOf, Contact, Data, NoData

VARIABLES
  mirror,  \* the account SugarCRM shows, NoData when there is none
  people,  \* people[c]: what it shows of person c, NoData when it has no contact
  upto     \* timestamp of the message the account comes from, 0 before the first

Init ==
  /\ mirror \in Data \cup {NoData}
  /\ people \in [Contact -> Data \cup {NoData}]
  /\ upto = 0

Show(m) ==
  /\ Timestamp[m] >= upto
  /\ mirror' = AccountOf[m]
  /\ upto' = Timestamp[m]
  /\ UNCHANGED people

ShowPerson(m, c) ==
  /\ Timestamp[m] = upto
  /\ mirror = AccountOf[m]
  /\ PeopleOf[m][c] # NoData
  /\ people' = [people EXCEPT ![c] = PeopleOf[m][c]]
  /\ UNCHANGED <<mirror, upto>>

Next ==
  \E m \in Message \ Malformed :
    \/ Show(m)
    \/ \E c \in Contact : ShowPerson(m, c)

Spec == Init /\ [][Next]_<<mirror, people, upto>>
==========================================================================
