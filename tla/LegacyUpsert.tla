---------------------------- MODULE LegacyUpsert ----------------------------
(***************************************************************************)
(* The upserts of the older pipelines, FamilyUpsert and PrimaryUpsert:     *)
(* find the account, update or create it, find the contacts, update or     *)
(* create each.  Both kinds of message arrive for a new family at about    *)
(* the same time and are handled by threads that share nothing but         *)
(* SugarCRM.  One family is modelled; one action is one call to SugarCRM.  *)
(***************************************************************************)
EXTENDS Naturals, Sequences, FiniteSets

CONSTANTS
  Person, Primary,
  FamilyUpdate,   \* messages FamilyUpsert handles
  PrimaryUpdate,  \* messages PrimaryUpsert handles
  MembersOf,      \* [FamilyUpdate -> SUBSET Person], family_members
  Unusable,       \* [FamilyUpdate -> SUBSET Person], members without an hbx id
                  \* or without a relationship to the primary person
  Handler, None,
  Readable,       \* can SugarCRM read a Result sent as a payload: the
                  \* possible answers, a set of BOOLEANs
  MaxCopies,      \* records one create call can leave: 2 when its POST is resent
  MaxCalls,       \* bound on upserts, redeliveries and retries included
  MaxFaults       \* bound on calls that are not answered well and on crashes

Message == FamilyUpdate \cup PrimaryUpdate

ASSUME MessageAssumption ==
  /\ Primary \in Person
  /\ FamilyUpdate \cap PrimaryUpdate = {}
  /\ MembersOf \in [FamilyUpdate -> SUBSET Person]
  /\ Unusable \in [FamilyUpdate -> SUBSET Person]
  /\ None \notin Message \cup Person
  /\ "account" \notin Person

ASSUME BoundAssumption ==
  /\ IsFiniteSet(Handler) /\ Handler # {}
  /\ Readable \subseteq BOOLEAN
  /\ MaxCopies \in {1, 2} /\ MaxCalls \in Nat /\ MaxFaults \in Nat

VARIABLES
  accounts,  \* accounts with the primary's hbx id; the position is the id
  contacts,  \* contacts[p]: contacts with p's hbx id
  pc,        \* pc[h]: the call handler h makes next
  message,   \* message[h]: its payload, or the last one it has handled
  account,   \* account[h]: id of the account it has found or created, 0 before that
  pending,   \* pending[h]: members it has not handled
  current,   \* current[h]: the member it handles
  failed,    \* failed[h]: one of its contacts could not be written
  result,    \* result[h]: what its last upsert returned
  written,   \* written[h]: the writes of its upsert that were answered
  used       \* how often each bounded thing has happened

crmVars == <<accounts, contacts>>
localVars == <<account, pending, current, failed>>
vars == <<crmVars, pc, message, localVars, result, written, used>>

Result == {"none", "success", "details", "message", "crashed"}

(* The account id 0 is the id of a contact that was created without one.   *)
CrmContact == [data : Message, account : Nat]

TypeOK ==
  /\ accounts \in Seq(Message)
  /\ contacts \in [Person -> Seq(CrmContact)]
  /\ pc \in [Handler -> {"idle", "find_account", "create_account", "update_account",
                         "find_contact", "create_contact", "update_contact"}]
  /\ message \in [Handler -> Message \cup {None}]
  /\ account \in [Handler -> Nat]
  /\ pending \in [Handler -> SUBSET Person]
  /\ current \in [Handler -> Person \cup {None}]
  /\ failed \in [Handler -> BOOLEAN]
  /\ result \in [Handler -> Result]
  /\ written \in [Handler -> SUBSET (Person \cup {"account"})]
  /\ used \in [{"calls", "faults"} -> Nat]

Init ==
  /\ accounts = <<>>
  /\ contacts = [p \in Person |-> <<>>]
  /\ pc = [h \in Handler |-> "idle"]
  /\ message = [h \in Handler |-> None]
  /\ account = [h \in Handler |-> 0]
  /\ pending = [h \in Handler |-> {}]
  /\ current = [h \in Handler |-> None]
  /\ failed = [h \in Handler |-> FALSE]
  /\ result = [h \in Handler |-> "none"]
  /\ written = [h \in Handler |-> {}]
  /\ used = [k \in {"calls", "faults"} |-> 0]

-----------------------------------------------------------------------------
Goto(h, step) == pc' = [pc EXCEPT ![h] = step]

Use(what, max) ==
  /\ used[what] < max
  /\ used' = [used EXCEPT ![what] = @ + 1]

IsFamily(h) == message[h] \in FamilyUpdate

Forget(h) ==
  /\ account' = [account EXCEPT ![h] = 0]
  /\ pending' = [pending EXCEPT ![h] = {}]
  /\ current' = [current EXCEPT ![h] = None]
  /\ failed' = [failed EXCEPT ![h] = FALSE]

Return(h, outcome) ==
  /\ Goto(h, "idle")
  /\ result' = [result EXCEPT ![h] = outcome]
  /\ Forget(h)
  /\ UNCHANGED message

(* A handler calls its upsert; a family without a primary person raises.   *)
(* (A primary person without an hbx_id, whom PrimaryUpsert refuses with a  *)
(* bare message and FamilyUpsert looks for in vain, is not told apart.)    *)
Begin(h, m) ==
  /\ pc[h] = "idle"
  /\ Use("calls", MaxCalls)
  /\ message' = [message EXCEPT ![h] = m]
  /\ written' = [written EXCEPT ![h] = {}]
  /\ LET members == IF m \in FamilyUpdate THEN MembersOf[m] ELSE {Primary}
     IN  \/ /\ Primary \in members
            /\ pending' = [pending EXCEPT ![h] = members]
            /\ Goto(h, "find_account")
            /\ result' = [result EXCEPT ![h] = "none"]
         \/ /\ Primary \notin members
            /\ result' = [result EXCEPT ![h] = "details"]
            /\ UNCHANGED <<pc, pending>>
  /\ UNCHANGED <<crmVars, account, current, failed>>

(* Faulty variant: the account is created without a search.                *)
FindNoAccount(h) ==
  /\ pc[h] = "find_account"
  /\ Goto(h, "create_account")
  /\ UNCHANGED <<crmVars, message, localVars, result, written, used>>

FindAccount(h) ==
  /\ pc[h] = "find_account"
  /\ \/ /\ accounts = <<>>
        /\ Goto(h, "create_account")
        /\ UNCHANGED account
     \/ /\ accounts # <<>>
        /\ account' = [account EXCEPT ![h] = 1]
        /\ Goto(h, "update_account")
  /\ UNCHANGED <<crmVars, message, pending, current, failed, result, written, used>>

-----------------------------------------------------------------------------
(* What a create call can make of a list of records: a POST whose answer   *)
(* was lost is sent again and leaves a second record.  A Result SugarCRM   *)
(* cannot read leaves a record without an hbx id, which no query finds.    *)
Created(list, record, readable) ==
  IF readable
  THEN {Append(list, record)} \cup
       (IF MaxCopies = 2 THEN {Append(Append(list, record), record)} ELSE {})
  ELSE {list}

(* PrimaryUpsert sends Results, FamilyUpsert what is in them.              *)
ReadableBy(h) == IF IsFamily(h) THEN {TRUE} ELSE Readable

AccountWrite(h) ==
  \E readable \in ReadableBy(h) :
    \/ /\ pc[h] = "create_account"
       /\ accounts' \in Created(accounts, message[h], readable)
    \/ /\ pc[h] = "update_account"
       /\ accounts' = IF readable THEN [accounts EXCEPT ![account[h]] = message[h]] ELSE accounts

(* The call is answered: the id is in the answer, and contacts are next.   *)
WriteAccount(h) ==
  /\ pc[h] \in {"create_account", "update_account"}
  /\ AccountWrite(h)
  /\ account' = [account EXCEPT ![h] = IF pc[h] = "create_account" THEN Len(accounts') ELSE @]
  /\ written' = [written EXCEPT ![h] = @ \cup {"account"}]
  /\ Goto(h, "find_contact")
  /\ UNCHANGED <<contacts, message, pending, current, failed, result, used>>

(* An empty answer, carried out or not.  FamilyUpsert does not look at     *)
(* what update_account returns, and its failure to create is a bare        *)
(* message; PrimaryUpsert takes the id out of nothing, which raises.       *)
WriteAccountUnanswered(h) ==
  /\ pc[h] \in {"create_account", "update_account"}
  /\ Use("faults", MaxFaults)
  /\ AccountWrite(h) \/ UNCHANGED accounts
  /\ \/ /\ IsFamily(h) /\ pc[h] = "update_account"
        /\ Goto(h, "find_contact")
        /\ UNCHANGED <<message, localVars, result>>
     \/ IsFamily(h) /\ pc[h] = "create_account" /\ Return(h, "message")
     \/ ~ IsFamily(h) /\ Return(h, "details")
  /\ UNCHANGED <<contacts, written>>

-----------------------------------------------------------------------------
(* FamilyUpsert works out the relationship after the search; a member it   *)
(* cannot place raises.                                                    *)
FindContact(h, p) ==
  /\ pc[h] = "find_contact"
  /\ p \in pending[h]
  /\ IF IsFamily(h) /\ p \in Unusable[message[h]]
     THEN Return(h, "details")
     ELSE /\ Goto(h, IF contacts[p] = <<>> THEN "create_contact" ELSE "update_contact")
          /\ current' = [current EXCEPT ![h] = p]
          /\ UNCHANGED <<message, account, pending, failed, result>>
  /\ UNCHANGED <<crmVars, written, used>>

(* Faulty variant: PrimaryUpsert sends an empty account id as well.        *)
ContactWriteUnlinks(h) ==
  LET p == current[h]
      record == [data |-> message[h], account |-> IF IsFamily(h) THEN account[h] ELSE 0]
  IN  \/ /\ pc[h] = "create_contact"
         /\ contacts' = [contacts EXCEPT ![p] = Append(@, record)]
      \/ /\ pc[h] = "update_contact"
         /\ contacts' = [contacts EXCEPT ![p][1] = record]

(* Only FamilyUpsert links a contact to its account.                       *)
ContactWrite(h) ==
  LET p == current[h]
      link == IF IsFamily(h) THEN account[h] ELSE 0
      kept == IF IsFamily(h) THEN account[h] ELSE contacts[p][1].account
  IN  \E readable \in ReadableBy(h) :
        \/ /\ pc[h] = "create_contact"
           /\ \E list \in Created(contacts[p], [data |-> message[h], account |-> link], readable) :
                contacts' = [contacts EXCEPT ![p] = list]
        \/ /\ pc[h] = "update_contact"
           /\ contacts' = IF readable
                          THEN [contacts EXCEPT ![p][1] = [data |-> message[h], account |-> kept]]
                          ELSE contacts

(* Faulty variant: the last result is returned, whatever the others were.  *)
ContactDoneLast(h, failure) ==
  \/ /\ pending[h] # {current[h]}
     /\ pending' = [pending EXCEPT ![h] = @ \ {current[h]}]
     /\ current' = [current EXCEPT ![h] = None]
     /\ Goto(h, "find_contact")
     /\ UNCHANGED <<message, account, failed, result>>
  \/ /\ pending[h] = {current[h]}
     /\ Return(h, IF failure THEN "message" ELSE "success")

(* Faulty variant: the list of members does not get shorter.               *)
ContactDoneAgain(h, failure) ==
  /\ current' = [current EXCEPT ![h] = None]
  /\ failed' = [failed EXCEPT ![h] = @ \/ failure]
  /\ Goto(h, "find_contact")
  /\ UNCHANGED <<message, account, pending, result>>

(* The result of a contact is kept until all of them are handled.          *)
ContactDone(h, failure) ==
  \/ /\ pending[h] # {current[h]}
     /\ pending' = [pending EXCEPT ![h] = @ \ {current[h]}]
     /\ current' = [current EXCEPT ![h] = None]
     /\ failed' = [failed EXCEPT ![h] = @ \/ failure]
     /\ Goto(h, "find_contact")
     /\ UNCHANGED <<message, account, result>>
  \/ /\ pending[h] = {current[h]}
     /\ Return(h, IF failed[h] \/ failure THEN "message" ELSE "success")

WriteContact(h) ==
  /\ pc[h] \in {"create_contact", "update_contact"}
  /\ ContactWrite(h)
  /\ written' = [written EXCEPT ![h] = @ \cup {current[h]}]
  /\ ContactDone(h, FALSE)
  /\ UNCHANGED <<accounts, used>>

(* Faulty variant: FamilyUpsert takes an empty answer for a success, too.  *)
WriteContactUnchecked(h) ==
  /\ pc[h] \in {"create_contact", "update_contact"}
  /\ Use("faults", MaxFaults)
  /\ ContactWrite(h) \/ UNCHANGED contacts
  /\ ContactDone(h, FALSE)
  /\ UNCHANGED <<accounts, written>>

(* An empty answer is a failure for FamilyUpsert and a success, of nil,    *)
(* for PrimaryUpsert.                                                      *)
WriteContactUnanswered(h) ==
  /\ pc[h] \in {"create_contact", "update_contact"}
  /\ Use("faults", MaxFaults)
  /\ ContactWrite(h) \/ UNCHANGED contacts
  /\ ContactDone(h, IsFamily(h))
  /\ UNCHANGED <<accounts, written>>

-----------------------------------------------------------------------------
(* A call raises, before or after SugarCRM has carried it out: the rescue  *)
(* clauses make it a failure with details, and nothing more is written.    *)
Raise(h) ==
  /\ pc[h] # "idle"
  /\ Use("faults", MaxFaults)
  /\ \/ UNCHANGED crmVars
     \/ pc[h] \in {"create_account", "update_account"} /\ AccountWrite(h) /\ UNCHANGED contacts
     \/ pc[h] \in {"create_contact", "update_contact"} /\ ContactWrite(h) /\ UNCHANGED accounts
  /\ Return(h, "details")
  /\ UNCHANGED written

Crash(h) ==
  /\ pc[h] # "idle"
  /\ Use("faults", MaxFaults)
  /\ Return(h, "crashed")
  /\ UNCHANGED <<crmVars, written>>

Call(h) ==
  \/ FindAccount(h)
  \/ WriteAccount(h)
  \/ WriteAccountUnanswered(h)
  \/ \E p \in Person : FindContact(h, p)
  \/ WriteContact(h)
  \/ WriteContactUnanswered(h)
  \/ Raise(h)

Next ==
  \E h \in Handler :
    \/ \E m \in Message : Begin(h, m)
    \/ Call(h)
    \/ Crash(h)

Spec == Init /\ [][Next]_vars

(* A handler that has begun an upsert keeps running.                       *)
FairSpec == Spec /\ \A h \in Handler : WF_vars(Call(h))

-----------------------------------------------------------------------------
(* What a handler knows.                                                   *)
HandlerConsistent(h) ==
  /\ pc[h] # "idle" => message[h] \in Message /\ result[h] = "none" /\ pending[h] # {}
  /\ pc[h] \in {"idle", "find_account", "create_account", "update_account"} => ~ failed[h]
  /\ pc[h] = "update_account" => account[h] = 1
  /\ pc[h] \in {"update_account", "update_contact"} =>
       accounts # <<>> \/ ~ IsFamily(h)
  /\ pc[h] \in {"find_contact", "create_contact", "update_contact"} =>
       /\ ~ IsFamily(h) => "account" \in written[h]
       /\ IsFamily(h) => account[h] \in 1..Len(accounts)
  /\ pc[h] \in {"create_contact", "update_contact"} =>
       current[h] \in pending[h]
  /\ pc[h] = "update_contact" => contacts[current[h]] # <<>>
  /\ pc[h] # "idle" /\ ~ IsFamily(h) => pending[h] = {Primary}
  /\ pc[h] # "idle" /\ IsFamily(h) /\ ~ failed[h] =>
       MembersOf[message[h]] \subseteq pending[h] \cup written[h]

HandlersConsistent == \A h \in Handler : HandlerConsistent(h)

(* A linked contact is linked to an account that exists.                   *)
LinksExist ==
  \A p \in Person : \A i \in 1..Len(contacts[p]) : contacts[p][i].account <= Len(accounts)

(* A member whose contact a handler has written has a linked contact.      *)
WrittenAreLinked ==
  \A h \in Handler : message[h] \in FamilyUpdate =>
    \A p \in written[h] \ {"account"} :
      \E i \in 1..Len(contacts[p]) : contacts[p][i].account # 0

(* A success vouches for every member's contact, or for the account.       *)
Required == [m \in Message |-> IF m \in FamilyUpdate THEN MembersOf[m] ELSE {"account"}]

Vouched == \A h \in Handler : result[h] = "success" => Required[message[h]] \subseteq written[h]

(* A handler about to create has found nothing: what exists and what may   *)
(* still be created is bounded together.                                   *)
CreatingAccount == {h \in Handler : pc[h] = "create_account"}
CreatingContact(p) == {h \in Handler : pc[h] = "create_contact" /\ current[h] = p}

CreatesBounded ==
  LET bound == MaxCopies * Cardinality(Handler)
  IN  /\ Len(accounts) + MaxCopies * Cardinality(CreatingAccount) <= bound
      /\ \A p \in Person :
           Len(contacts[p]) + MaxCopies * Cardinality(CreatingContact(p)) <= bound

IInv ==
  /\ TypeOK
  /\ HandlersConsistent
  /\ LinksExist
  /\ WrittenAreLinked
  /\ Vouched
  /\ CreatesBounded

(* A family update that reports success leaves every member with a contact *)
(* that is linked to an account of the primary person, whatever the other  *)
(* handlers do before, during and after: a primary update creates contacts *)
(* without a link and never takes one away.                                *)
SuccessMeansLinked ==
  \A h \in Handler :
    result[h] = "success" /\ message[h] \in FamilyUpdate =>
      \A p \in MembersOf[message[h]] :
        \E i \in 1..Len(contacts[p]) : contacts[p][i].account \in 1..Len(accounts)

(* Find and create are two calls, so handlers that search before one of    *)
(* them has created each create: the records of one hbx id are bounded by  *)
(* the number of handlers, not by the number of messages.                  *)
RecordsBounded ==
  /\ Len(accounts) <= MaxCopies * Cardinality(Handler)
  /\ \A p \in Person : Len(contacts[p]) <= MaxCopies * Cardinality(Handler)

(* The upserts keep the promise their handlers rely on.                    *)
Promise == INSTANCE UpsertCall WITH
  Target <- Person \cup {"account"},
  running <- [h \in Handler |-> pc[h] # "idle"],
  success <- [h \in Handler |-> result[h] = "success"]

PromiseSpec == Promise!Spec

(* A handler that has begun comes back to its message: no call of it waits *)
(* for another handler.                                                    *)
EveryUpsertReturns == \A h \in Handler : pc[h] # "idle" ~> pc[h] = "idle"
=============================================================================
