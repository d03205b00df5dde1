---------------------------- MODULE FamilySync ----------------------------
(***************************************************************************)
(* The pipeline behind enroll.families.created_or_updated: the subscriber  *)
(* takes a message from the broker, CreatedOrUpdatedProcessor stores a     *)
(* Family row with its transactions, compares it with the row processed    *)
(* before it (or with SugarCRM when there is none), writes the differences *)
(* to SugarCRM, stores the comparison and the response transactions, and   *)
(* the subscriber acknowledges the message whatever the result was.        *)
(*                                                                         *)
(* One family is modelled (one family_hbx_id and primary person): every    *)
(* query of the pipeline is restricted to it.  Workers are the consumer    *)
(* threads of all the gateway's processes; they share MongoDB and SugarCRM *)
(* and nothing else.  One action is one access to a shared store.          *)
(***************************************************************************)
EXTENDS Integers, Sequences, Comparison

CONSTANTS
  Message,      \* the messages published for this family
  Worker,       \* consumer threads
  Timestamp,    \* [Message -> Nat], header after_updated_at
  AccountOf,    \* [Message -> Data], account payload a message transforms to
  PeopleOf,     \* [Message -> [Contact -> Data \cup {NoData}]], its contacts
  Malformed,    \* messages refused before anything is stored
  Preexisting,  \* account contents SugarCRM may hold before the first message
  None,         \* no message, no comparison, no row
  Ordered,      \* TRUE: a message is delivered after all older ones are done
  MaxFamilies,  \* bound on Family rows (messages and redeliveries)
  MaxCopies,    \* records one create call can leave: 2 when its POST is resent
  MaxFaults,    \* bound on failing calls to MongoDB or SugarCRM
  MaxCrashes    \* bound on worker crashes

ASSUME MessageAssumption ==
  /\ Timestamp \in [Message -> Nat]
  /\ AccountOf \in [Message -> Data]
  /\ PeopleOf \in [Message -> [Contact -> Data \cup {NoData}]]
  /\ Malformed \subseteq Message
  /\ Preexisting \subseteq Data
  /\ \A m \in Message : Members(PeopleOf[m]) # {}

ASSUME BoundAssumption ==
  /\ Ordered \in BOOLEAN
  /\ MaxFamilies \in Nat /\ MaxFaults \in Nat /\ MaxCrashes \in Nat
  /\ MaxCopies \in {1, 2}

VARIABLES
  broker,      \* broker[m]: queued, delivered (not yet acknowledged) or acked
  families,    \* the families collection: families[f] is a row or None
  stamp,       \* stamp[f]: creation time of the newest transaction of row f, 0 if none
  clock,       \* time of the newest transaction
  accounts,    \* SugarCRM accounts with the primary's hbx id; the id is the position
  contacts,    \* contacts[c]: SugarCRM contacts with hbx id c
  pc,          \* pc[w]: the call worker w makes next
  message,     \* message[w]: the message worker w processes
  subject,     \* subject[w]: the row it created, 0 before that
  comparison,  \* comparison[w]: its comparison so far
  sugarId,     \* sugarId[w]: id of the SugarCRM account, 0 for nil
  pending,     \* pending[w]: contacts it has not handled yet
  faults, crashes

mongoVars  == <<families, stamp, clock>>
crmVars    == <<accounts, contacts>>
workerVars == <<pc, message, subject, comparison, sugarId, pending>>
vars == <<broker, mongoVars, crmVars, workerVars, faults, crashes>>

-----------------------------------------------------------------------------
FamilyId == 1..MaxFamilies

FamilyRow == [message : Message, comparison : AccountComparison \cup {None}]

ASSUME NoneAssumption == None \notin Message \cup AccountComparison \cup FamilyRow

CrmContact == [data : Data, account : Nat]

Step == {"idle", "create_family", "account_transaction", "contact_transactions",
         "compare", "fetch_account", "fetch_contacts", "find_account",
         "write_account", "write_contacts", "persist", "respond", "ack"}

TypeOK ==
  /\ broker \in [Message -> {"queued", "delivered", "acked"}]
  /\ families \in [FamilyId -> FamilyRow \cup {None}]
  /\ stamp \in [FamilyId -> Nat]
  /\ clock \in Nat
  /\ accounts \in Seq(Data)
  /\ contacts \in [Contact -> Seq(CrmContact)]
  /\ pc \in [Worker -> Step]
  /\ message \in [Worker -> Message \cup {None}]
  /\ subject \in [Worker -> FamilyId \cup {0}]
  /\ comparison \in [Worker -> AccountComparison \cup {None}]
  /\ sugarId \in [Worker -> Nat]
  /\ pending \in [Worker -> SUBSET Contact]
  /\ faults \in Nat
  /\ crashes \in Nat

Init ==
  /\ broker = [m \in Message |-> "queued"]
  /\ families = [f \in FamilyId |-> None]
  /\ stamp = [f \in FamilyId |-> 0]
  /\ clock = 0
  /\ \/ /\ accounts = <<>>
        /\ contacts = [c \in Contact |-> <<>>]
     \/ \E d \in Preexisting, known \in SUBSET Contact :
          /\ accounts = <<d>>
          /\ contacts = [c \in Contact |->
                           IF c \in known THEN <<[data |-> d, account |-> 1]>> ELSE <<>>]
  /\ pc = [w \in Worker |-> "idle"]
  /\ message = [w \in Worker |-> None]
  /\ subject = [w \in Worker |-> 0]
  /\ comparison = [w \in Worker |-> None]
  /\ sugarId = [w \in Worker |-> 0]
  /\ pending = [w \in Worker |-> {}]
  /\ faults = 0
  /\ crashes = 0

-----------------------------------------------------------------------------
Goto(w, step) == pc' = [pc EXCEPT ![w] = step]

(* A call fails; MaxFaults bounds how often.                               *)
Fault ==
  /\ faults < MaxFaults
  /\ faults' = faults + 1

NoFault == UNCHANGED <<faults, crashes>>

(* A transaction of row f is created; it is now the newest of all.         *)
CreateTransaction(f) ==
  /\ clock' = clock + 1
  /\ stamp' = [stamp EXCEPT ![f] = clock + 1]

(* Locals of a worker that holds no message.                               *)
Release(w) ==
  /\ Goto(w, "idle")
  /\ message' = [message EXCEPT ![w] = None]
  /\ subject' = [subject EXCEPT ![w] = 0]
  /\ comparison' = [comparison EXCEPT ![w] = None]
  /\ sugarId' = [sugarId EXCEPT ![w] = 0]
  /\ pending' = [pending EXCEPT ![w] = {}]

(* The broker hands message m to worker w.                                 *)
Deliver(w, m) ==
  /\ pc[w] = "idle"
  /\ broker[m] = "queued"
  /\ Ordered => \A n \in Message : Timestamp[n] < Timestamp[m] => broker[n] = "acked"
  /\ broker' = [broker EXCEPT ![m] = "delivered"]
  /\ message' = [message EXCEPT ![w] = m]
  /\ Goto(w, "create_family")
  /\ UNCHANGED <<mongoVars, crmVars, subject, comparison, sugarId, pending>>
  /\ NoFault

(* validate and transform_timestamp refuse the message: nothing is stored. *)
Refuse(w) ==
  /\ pc[w] = "create_family"
  /\ message[w] \in Malformed
  /\ Goto(w, "ack")
  /\ UNCHANGED <<broker, mongoVars, crmVars, message, subject, comparison, sugarId, pending>>
  /\ NoFault

(* Job and request transmission exist, the Family row is saved.  Object    *)
(* ids grow with time.                                                     *)
CreateFamily(w) ==
  /\ pc[w] = "create_family"
  /\ message[w] \in Message \ Malformed
  /\ \E f \in FamilyId :
       /\ families[f] = None
       /\ \A g \in FamilyId : g < f => families[g] # None
       /\ families' = [families EXCEPT ![f] = [message |-> message[w], comparison |-> None]]
       /\ subject' = [subject EXCEPT ![w] = f]
  /\ Goto(w, "account_transaction")
  /\ UNCHANGED <<broker, stamp, clock, crmVars, message, comparison, sugarId, pending>>
  /\ NoFault

AccountTransaction(w) ==
  /\ pc[w] = "account_transaction"
  /\ CreateTransaction(subject[w])
  /\ Goto(w, "contact_transactions")
  /\ UNCHANGED <<broker, families, crmVars, message, subject, comparison, sugarId, pending>>
  /\ NoFault

(* One transaction per member.  A refused one is collected in the result   *)
(* array like the others and the pipeline goes on.                         *)
ContactTransactions(w) ==
  /\ pc[w] = "contact_transactions"
  /\ \/ CreateTransaction(subject[w]) /\ UNCHANGED faults
     \/ Fault /\ UNCHANGED <<stamp, clock>>
  /\ Goto(w, "compare")
  /\ UNCHANGED <<broker, families, crmVars, message, subject, comparison, sugarId, pending, crashes>>

(* Faulty variant: only rows that have been compared are looked at.        *)
ComparedFamilies(w) ==
  {g \in FamilyId \ {subject[w]} : families[g] # None /\ families[g].comparison # None}

(* Rows of the family, other than the worker's own, with a transaction;    *)
(* the one whose transaction is newest is the eligible subject.            *)
OtherFamilies(w) ==
  {g \in FamilyId \ {subject[w]} : families[g] # None /\ stamp[g] > 0}

NewestOf(rows) == {g \in rows : \A h \in rows : stamp[h] <= stamp[g]}

(* Faulty variant: the comparison of the timestamps is turned round.       *)
IsStaleSwapped(m, eligible) == Timestamp[families[eligible].message] < Timestamp[m]

(* check_stale: the eligible subject is strictly newer than the message.   *)
IsStale(m, eligible) == Timestamp[families[eligible].message] > Timestamp[m]

(* The comparison of message m when a previous row exists: SugarCRM is not *)
(* asked, the previous row's payload stands for it.                        *)
CompareWithPrevious(m, eligible) ==
  IF IsStale(m, eligible)
  THEN StaleComparison(PeopleOf[m])
  ELSE LET previous == families[eligible].message
       IN  CompareAccountsAndContacts(AccountOf[m], PeopleOf[m],
                                      AccountOf[previous], PeopleOf[previous])

(* Faulty variant: only a noop comparison skips Update.                    *)
AfterComparisonStale(cmp) == IF ComparisonAction(cmp) = "noop" THEN "persist" ELSE "find_account"

(* A noop or stale comparison skips Update.                                *)
AfterComparison(cmp) == IF NoopOrStale(cmp) THEN "persist" ELSE "find_account"

Compare(w) ==
  /\ pc[w] = "compare"
  /\ \/ /\ OtherFamilies(w) = {}
        /\ Goto(w, "fetch_account")
        /\ UNCHANGED comparison
     \/ \E eligible \in NewestOf(OtherFamilies(w)) :
          LET cmp == CompareWithPrevious(message[w], eligible)
          IN  /\ comparison' = [comparison EXCEPT ![w] = cmp]
              /\ Goto(w, AfterComparison(cmp))
  /\ UNCHANGED <<broker, mongoVars, crmVars, message, subject, sugarId, pending>>
  /\ NoFault

(* fetch_sugar_account, first request: the account.  Without one there is  *)
(* nothing to compare with and everything is to be created.                *)
FetchAccount(w) ==
  LET m == message[w]
      comparable == IF accounts = <<>> THEN NoData ELSE accounts[1]
  IN
  /\ pc[w] = "fetch_account"
  /\ comparison' = [comparison EXCEPT ![w] =
        CompareAccountsAndContacts(AccountOf[m], PeopleOf[m],
                                   comparable, [c \in Contact |-> NoData])]
  /\ Goto(w, IF comparable = NoData THEN "find_account" ELSE "fetch_contacts")
  /\ UNCHANGED <<broker, mongoVars, crmVars, message, subject, sugarId, pending>>
  /\ NoFault

(* The positions of c's SugarCRM contacts that belong to the first account.*)
LinkedContacts(c) == {i \in DOMAIN contacts[c] : contacts[c][i].account = 1}

FirstLinked(c) ==
  IF LinkedContacts(c) = {} THEN NoData
  ELSE contacts[c][CHOOSE i \in LinkedContacts(c) :
                     \A j \in LinkedContacts(c) : i <= j].data

(* fetch_sugar_account, second request: the contacts of that account.      *)
FetchContacts(w) ==
  LET people == PeopleOf[message[w]]
      cmp    == [comparison[w] EXCEPT !.contacts =
                  [c \in Contact |-> FetchContactAction(people[c], FirstLinked(c))]]
  IN
  /\ pc[w] = "fetch_contacts"
  /\ comparison' = [comparison EXCEPT ![w] = cmp]
  /\ Goto(w, AfterComparison(cmp))
  /\ UNCHANGED <<broker, mongoVars, crmVars, message, subject, sugarId, pending>>
  /\ NoFault

-----------------------------------------------------------------------------
(* find_sugar_account_id: nil is a legal answer.                           *)
FindAccount(w) ==
  /\ pc[w] = "find_account"
  /\ sugarId' = [sugarId EXCEPT ![w] = IF accounts = <<>> THEN 0 ELSE 1]
  /\ Goto(w, "write_account")
  /\ UNCHANGED <<broker, mongoVars, crmVars, message, subject, comparison, pending>>
  /\ NoFault

(* Faulty variant: one attempt too many (tries <= 3).                      *)
CreatedThrice(list, record) ==
  {Append(list, record), Append(Append(Append(list, record), record), record)}

(* What a create call can make of a list of records: a POST whose answer   *)
(* was lost is sent again and leaves a second record.                      *)
Created(list, record) ==
  {Append(list, record)} \cup
  (IF MaxCopies = 2 THEN {Append(Append(list, record), record)} ELSE {})

(* The account call was accepted: contacts are next.                       *)
AccountDone(w, response) ==
  /\ comparison' = [comparison EXCEPT ![w].response = response]
  /\ pending' = [pending EXCEPT ![w] = Members(PeopleOf[message[w]])]
  /\ Goto(w, "write_contacts")

KeepAccount(w) ==
  /\ pc[w] = "write_account"
  /\ comparison[w].account = "noop"
  /\ AccountDone(w, "none")
  /\ UNCHANGED <<broker, mongoVars, crmVars, message, subject, sugarId>>
  /\ NoFault

(* The id is taken from the response; a response that never arrives raises *)
(* and the pipeline stops, with the account created all the same.          *)
CreateAccount(w) ==
  /\ pc[w] = "write_account"
  /\ comparison[w].account = "create"
  /\ accounts' \in Created(accounts, AccountOf[message[w]])
  /\ \/ /\ AccountDone(w, "ok")
        /\ sugarId' = [sugarId EXCEPT ![w] = Len(accounts')]
        /\ UNCHANGED faults
     \/ /\ Fault
        /\ Goto(w, "ack")
        /\ UNCHANGED <<comparison, sugarId, pending>>
  /\ UNCHANGED <<broker, mongoVars, contacts, message, subject, crashes>>

UpdateAccount(w) ==
  /\ pc[w] = "write_account"
  /\ comparison[w].account = "update"
  /\ sugarId[w] # 0
  /\ accounts' = [accounts EXCEPT ![sugarId[w]] = AccountOf[message[w]]]
  /\ \/ AccountDone(w, "ok") /\ UNCHANGED faults
     \/ Fault /\ Goto(w, "ack") /\ UNCHANGED <<comparison, pending>>
  /\ UNCHANGED <<broker, mongoVars, contacts, message, subject, sugarId, crashes>>

(* An update without an account id is a Failure: nothing more is done.     *)
CannotUpdateAccount(w) ==
  /\ pc[w] = "write_account"
  /\ comparison[w].account = "update"
  /\ sugarId[w] = 0
  /\ Goto(w, "ack")
  /\ UNCHANGED <<broker, mongoVars, crmVars, message, subject, comparison, sugarId, pending>>
  /\ NoFault

(* The result of contact c is recorded, whatever it is; after the last one *)
(* Update has succeeded.                                                   *)
ContactDone(w, c, response) ==
  /\ comparison' = [comparison EXCEPT ![w].contacts[c].response = response]
  /\ pending' = [pending EXCEPT ![w] = @ \ {c}]
  /\ Goto(w, IF pending[w] = {c} THEN "persist" ELSE "write_contacts")
  /\ UNCHANGED <<broker, mongoVars, accounts, message, subject, sugarId, crashes>>

PendingContact(w, c, action) ==
  /\ pc[w] = "write_contacts"
  /\ c \in pending[w]
  /\ comparison[w].contacts[c].action = action

CrmRecord(w, c) == [data |-> PeopleOf[message[w]][c], account |-> sugarId[w]]

KeepContact(w, c) ==
  /\ PendingContact(w, c, "noop")
  /\ ContactDone(w, c, "none")
  /\ UNCHANGED <<contacts, faults>>

(* Without an account id nothing is sent; the error is only recorded.      *)
CannotWriteContact(w, c) ==
  /\ \/ PendingContact(w, c, "create")
     \/ PendingContact(w, c, "update")
  /\ sugarId[w] = 0
  /\ ContactDone(w, c, "failed")
  /\ UNCHANGED <<contacts, faults>>

(* Faulty variant: the contact is sent without looking at the account id.  *)
CreateContactUnguarded(w, c) ==
  /\ PendingContact(w, c, "create")
  /\ contacts' = [contacts EXCEPT ![c] = Append(@, CrmRecord(w, c))]
  /\ ContactDone(w, c, "ok")
  /\ UNCHANGED faults

CreateContact(w, c) ==
  /\ PendingContact(w, c, "create")
  /\ sugarId[w] # 0
  /\ \E list \in Created(contacts[c], CrmRecord(w, c)) :
       contacts' = [contacts EXCEPT ![c] = list]
  /\ \/ ContactDone(w, c, "ok") /\ UNCHANGED faults
     \/ ContactDone(w, c, "failed") /\ Fault

(* find_contact_by_hbx_id takes the first match.                           *)
UpdateContact(w, c) ==
  /\ PendingContact(w, c, "update")
  /\ sugarId[w] # 0
  /\ contacts[c] # <<>>
  /\ contacts' = [contacts EXCEPT ![c][1] = CrmRecord(w, c)]
  /\ \/ ContactDone(w, c, "ok") /\ UNCHANGED faults
     \/ ContactDone(w, c, "failed") /\ Fault

(* Faulty variant: a contact that is not found counts as updated.          *)
ContactNotFoundAccepted(w, c) ==
  /\ PendingContact(w, c, "update")
  /\ sugarId[w] # 0
  /\ contacts[c] = <<>>
  /\ ContactDone(w, c, "ok")
  /\ UNCHANGED <<contacts, faults>>

ContactNotFound(w, c) ==
  /\ PendingContact(w, c, "update")
  /\ sugarId[w] # 0
  /\ contacts[c] = <<>>
  /\ ContactDone(w, c, "failed")
  /\ UNCHANGED <<contacts, faults>>

(* SugarCRM refuses the call for contact c or cannot be reached: the error *)
(* is recorded and the next contact is handled.                            *)
ContactCallFails(w, c) ==
  /\ \/ PendingContact(w, c, "create")
     \/ PendingContact(w, c, "update")
  /\ sugarId[w] # 0
  /\ Fault
  /\ ContactDone(w, c, "failed")
  /\ UNCHANGED contacts

WriteContact(w, c) ==
  \/ KeepContact(w, c)
  \/ CannotWriteContact(w, c)
  \/ CreateContact(w, c)
  \/ UpdateContact(w, c)
  \/ ContactNotFound(w, c)
  \/ ContactCallFails(w, c)

-----------------------------------------------------------------------------
(* Faulty variant: the row is changed in memory and never saved.           *)
PersistUnsaved(w) ==
  /\ pc[w] = "persist"
  /\ Goto(w, "respond")
  /\ UNCHANGED <<broker, mongoVars, crmVars, message, subject, comparison, sugarId, pending>>
  /\ NoFault

Persist(w) ==
  /\ pc[w] = "persist"
  /\ families' = [families EXCEPT ![subject[w]].comparison = comparison[w]]
  /\ Goto(w, "respond")
  /\ UNCHANGED <<broker, stamp, clock, crmVars, message, subject, comparison, sugarId, pending>>
  /\ NoFault

(* Response transmission and transactions; they too count as transactions  *)
(* of the row.                                                             *)
Respond(w) ==
  /\ pc[w] = "respond"
  /\ CreateTransaction(subject[w])
  /\ Goto(w, "ack")
  /\ UNCHANGED <<broker, families, crmVars, message, subject, comparison, sugarId, pending>>
  /\ NoFault

(* Faulty variant: the handler leaves without acknowledging.               *)
StepFailsUnacknowledged(w) ==
  /\ pc[w] \notin {"idle", "write_contacts", "ack"}
  /\ Fault
  /\ Release(w)
  /\ UNCHANGED <<broker, mongoVars, crmVars, crashes>>

(* Any other failure, a Failure result or an exception, ends the pipeline  *)
(* without having changed anything; the message is acknowledged all the    *)
(* same.                                                                   *)
StepFails(w) ==
  /\ \/ pc[w] \in {"create_family", "account_transaction", "contact_transactions",
                  "compare", "fetch_account", "fetch_contacts", "find_account",
                  "persist", "respond"}
     \/ pc[w] = "write_account" /\ comparison[w].account # "noop"
  /\ Fault
  /\ Goto(w, "ack")
  /\ UNCHANGED <<broker, mongoVars, crmVars, message, subject, comparison, sugarId, pending, crashes>>

Ack(w) ==
  /\ pc[w] = "ack"
  /\ broker' = [broker EXCEPT ![message[w]] = "acked"]
  /\ Release(w)
  /\ UNCHANGED <<mongoVars, crmVars>>
  /\ NoFault

(* The process dies; the broker redelivers what was not acknowledged.      *)
Crash(w) ==
  /\ pc[w] # "idle"
  /\ crashes < MaxCrashes
  /\ crashes' = crashes + 1
  /\ broker' = [broker EXCEPT ![message[w]] = "queued"]
  /\ Release(w)
  /\ UNCHANGED <<mongoVars, crmVars, faults>>

(* What the code of worker w does once it holds a message.                 *)
Process(w) ==
  \/ Refuse(w)
  \/ CreateFamily(w)
  \/ AccountTransaction(w)
  \/ ContactTransactions(w)
  \/ Compare(w)
  \/ FetchAccount(w)
  \/ FetchContacts(w)
  \/ FindAccount(w)
  \/ KeepAccount(w)
  \/ CreateAccount(w)
  \/ UpdateAccount(w)
  \/ CannotUpdateAccount(w)
  \/ \E c \in Contact : WriteContact(w, c)
  \/ Persist(w)
  \/ Respond(w)
  \/ StepFails(w)
  \/ Ack(w)

Next ==
  \E w \in Worker :
    \/ \E m \in Message : Deliver(w, m)
    \/ Process(w)
    \/ Crash(w)

Spec == Init /\ [][Next]_vars

(* A consumer thread keeps running, and keeps taking what is queued.       *)
FairSpec ==
  /\ Spec
  /\ \A w \in Worker : WF_vars(Process(w))
  /\ WF_vars(\E w \in Worker, m \in Message : Deliver(w, m))

-----------------------------------------------------------------------------
(***************************************************************************)
(* Properties that hold whatever the order of delivery, however workers    *)
(* interleave, fail and crash.                                             *)
(***************************************************************************)

(* However often the message is redelivered and however many workers race, *)
(* SugarCRM gets one account for the primary person (as many as one create *)
(* call leaves): the row and its transactions exist before the comparison, *)
(* so of two racing workers at least one finds the other's row and does    *)
(* not create (CompareRequest#fetch_eligible_subject).                     *)
AtMostOneAccount == Len(accounts) <= MaxCopies

(* A contact written to SugarCRM is attached to an account that exists     *)
(* there (the guards on @sugar_account_id in create_contact and            *)
(* update_contact).                                                        *)
NoOrphanContact ==
  \A c \in Contact : \A i \in DOMAIN contacts[c] :
    contacts[c][i].account \in DOMAIN accounts

(* Where comparison cmp reports an accepted call, the account or the       *)
(* contact is in SugarCRM.                                                 *)
Truthful(cmp) ==
  /\ cmp.response = "ok" => accounts # <<>>
  /\ \A c \in Contact : cmp.contacts[c].response = "ok" => contacts[c] # <<>>

(* A stored comparison never claims a write SugarCRM does not have         *)
(* (Update#call and the responses it puts into the comparison).            *)
ReportedWritesExist ==
  \A f \in FamilyId :
    families[f] # None /\ families[f].comparison # None => Truthful(families[f].comparison)

(* A worker that finds no earlier row, or found nothing in SugarCRM, and   *)
(* may therefore create the account.                                       *)
MayCreate(w) ==
  \/ pc[w] = "fetch_account"
  \/ /\ pc[w] \in {"find_account", "write_account"}
     /\ comparison[w].account = "create"

AfterCreation == Step \ {"idle", "create_family", "ack"}

AfterTransaction == AfterCreation \ {"account_transaction"}

AfterComparing == {"find_account", "write_account", "write_contacts", "persist"}

(* A worker past create_family works on a row of its own, and past its     *)
(* account transaction that row is visible to every other comparison.      *)
OwnSubject ==
  /\ \A w \in Worker :
       /\ pc[w] # "idle" => message[w] \in Message
       /\ pc[w] \in AfterCreation => subject[w] # 0
       /\ subject[w] # 0 => families[subject[w]] # None
       /\ pc[w] \in AfterTransaction => stamp[subject[w]] > 0
       /\ pc[w] \in AfterComparing \cup {"fetch_contacts"} => comparison[w] # None
       /\ pc[w] = "fetch_contacts" => comparison[w].account # "create"
       /\ pc[w] = "write_contacts" => pending[w] \subseteq Members(PeopleOf[message[w]])
  /\ \A v, w \in Worker : v # w /\ subject[v] # 0 => subject[v] # subject[w]

(* No two workers are ever on their way to creating the account, and the   *)
(* one that is going to has seen that there is none, which stays true.     *)
SingleCreator ==
  /\ \A v, w \in Worker : MayCreate(v) /\ MayCreate(w) => v = w
  /\ \A w \in Worker : MayCreate(w) /\ pc[w] # "fetch_account" => accounts = <<>>

(* The inductive invariant behind AtMostOneAccount.                        *)
IInv == TypeOK /\ OwnSubject /\ SingleCreator /\ AtMostOneAccount

(* The account id a worker holds is the id of an account, and what a       *)
(* worker has recorded so far is true.                                     *)
HeldTruthful ==
  \A w \in Worker :
    /\ sugarId[w] # 0 => sugarId[w] \in DOMAIN accounts
    /\ comparison[w] # None => Truthful(comparison[w])

(* The inductive invariant behind NoOrphanContact and ReportedWritesExist. *)
CrmInv == HeldTruthful /\ NoOrphanContact /\ ReportedWritesExist

Handled == {"create", "update", "noop"}

MeetsHandled(w) ==
  /\ pc[w] \in {"fetch_contacts", "find_account", "write_account"} =>
       comparison[w].account \in Handled
  /\ pc[w] \in {"find_account", "write_account"} =>
       \A c \in Members(PeopleOf[message[w]]) : comparison[w].contacts[c].action \in Handled
  /\ pc[w] = "write_contacts" =>
       \A c \in pending[w] : comparison[w].contacts[c].action \in Handled

(* Update meets only actions it has a branch for: a stale comparison is    *)
(* stale as a whole and skips it, and every contact of the payload has an  *)
(* entry (the branches "Unknown action" of update_sugar_for_account and    *)
(* update_sugar_for_contacts, which the model leaves out, are dead).       *)
ActionsKnown == \A w \in Worker : MeetsHandled(w)

(* Every message is acknowledged in the end: failures and refusals are     *)
(* acknowledged too, and a crash gives the message back to the queue.      *)
AllAcknowledged == \A m \in Message : <>(broker[m] = "acked")

-----------------------------------------------------------------------------
(***************************************************************************)
(* Properties of in-order delivery.                                        *)
(***************************************************************************)

(* A message that comes a second time, after a crash, is compared with the *)
(* row its first delivery left behind and sends nothing to SugarCRM again. *)
RedeliveryIsSilent ==
  \A w \in Worker :
    pc[w] \in {"find_account", "write_account", "write_contacts"} =>
      \A f \in FamilyId \ {subject[w]} :
        families[f] # None /\ families[f].message = message[w] => stamp[f] = 0

(* What is proved about in-order delivery needs messages that differ in    *)
(* age: of two of the same age, each may come between the deliveries of    *)
(* the other.                                                              *)
DistinctTimestamps == \A m, n \in Message : Timestamp[m] = Timestamp[n] => m = n

(* One worker is busy at a time, with a message all of whose predecessors  *)
(* are done, and so is every message that has left a row.                  *)
HeldInOrder ==
  /\ \A w \in Worker : pc[w] # "idle" => broker[message[w]] = "delivered"
  /\ \A v, w \in Worker : pc[v] # "idle" /\ pc[w] # "idle" => v = w
  /\ \A w \in Worker : subject[w] # 0 =>
       pc[w] # "idle" /\ families[subject[w]].message = message[w]
  /\ \A m, n \in Message :
       /\ Timestamp[n] < Timestamp[m]
       /\ \/ broker[m] # "queued"
          \/ \E f \in FamilyId : families[f] # None /\ families[f].message = m
       => broker[n] = "acked"

(* Transactions are as old as the messages of their rows: the newest       *)
(* transaction belongs to the newest message.                              *)
StampedInOrder ==
  /\ \A f \in FamilyId : stamp[f] <= clock /\ (stamp[f] > 0 => families[f] # None)
  /\ \A f, g \in FamilyId :
       stamp[f] > 0 /\ stamp[g] > 0
         /\ Timestamp[families[f].message] < Timestamp[families[g].message]
       => stamp[f] < stamp[g]

Calling == {"fetch_account", "fetch_contacts", "find_account", "write_account",
            "write_contacts"}

(* A worker that goes on to SugarCRM has no earlier delivery of its        *)
(* message behind it that got as far as its transactions.                  *)
NoEarlierDelivery ==
  \A w \in Worker :
    pc[w] \in Calling =>
      \A f \in FamilyId \ {subject[w]} :
        families[f] # None /\ families[f].message = message[w] => stamp[f] = 0

(* The inductive invariant behind RedeliveryIsSilent.                      *)
OrderInv == HeldInOrder /\ StampedInOrder /\ NoEarlierDelivery

Processed == {m \in Message \ Malformed : broker[m] = "acked"}

(* m's payload is what SugarCRM shows for the family.                      *)
Mirrors(m) ==
  /\ accounts # <<>> /\ accounts[1] = AccountOf[m]
  /\ \A c \in Members(PeopleOf[m]) :
       contacts[c] # <<>> /\ contacts[c][1] = [data |-> PeopleOf[m][c], account |-> 1]

(* Between two messages SugarCRM shows the payload of the newest message   *)
(* processed, one account, and one contact per person (no call fails and   *)
(* no worker crashes in the runs that check this).                         *)
MirrorsNewest ==
  (\A w \in Worker : pc[w] = "idle") /\ Processed # {} =>
    /\ \E m \in Processed :
         Mirrors(m) /\ \A n \in Processed : Timestamp[n] <= Timestamp[m]
    /\ Len(accounts) = 1
    /\ \A c \in Contact : Len(contacts[c]) <= 1

(* Every well-formed message ends with a row that says what was done       *)
(* for it.                                                                 *)
EveryMessageRecorded ==
  \A m \in Message \ Malformed :
    <>(\E f \in FamilyId :
         families[f] # None /\ families[f].message = m /\ families[f].comparison # None)

(* SugarCRM as a mirror that moves from one message to a later one.        *)
(* A message has reached it once its account call is answered or found     *)
(* unnecessary.                                                            *)
AccountHandled == {"write_contacts", "persist", "respond", "ack"}

Reached ==
  Processed \cup
  {m \in Message : \E w \in Worker :
     /\ message[w] = m /\ m \notin Malformed
     /\ pc[w] \in AccountHandled}

CrmAccount == IF accounts = <<>> THEN NoData ELSE accounts[1]

LastReached ==
  IF Reached = {} THEN 0
  ELSE CHOOSE t \in {Timestamp[m] : m \in Reached} : \A n \in Reached : Timestamp[n] <= t

CrmPerson(c) == IF contacts[c] = <<>> THEN NoData ELSE contacts[c][1].data

CrmPeople == [c \in Contact |-> CrmPerson(c)]

Mirror == INSTANCE CrmMirror
            WITH mirror <- CrmAccount, people <- CrmPeople, upto <- LastReached

(* SugarCRM only ever moves on to a later message: neither the account nor *)
(* a person is overwritten with an older payload, and persons follow the   *)
(* account of their message (CompareRequest#check_stale and the order of   *)
(* Update#call), as long as nothing fails.                                 *)
MirrorSpec == Mirror!Spec

NothingFailed == faults = 0 /\ crashes = 0

Newest(m) == m \in Reached /\ \A n \in Reached : Timestamp[n] <= Timestamp[m]

(* Without failures every well-formed message leaves one row, with a       *)
(* transaction, and the rows are those of the messages processed and of    *)
(* the one in work.                                                        *)
RowsSettled ==
  /\ \A w \in Worker :
       /\ pc[w] \notin {"idle", "create_family", "ack"} => message[w] \notin Malformed
       /\ pc[w] = "create_family" => subject[w] = 0
       /\ pc[w] = "ack" /\ message[w] \notin Malformed =>
            subject[w] # 0 /\ stamp[subject[w]] > 0
  /\ \A m \in Processed : \E f \in FamilyId :
       families[f] # None /\ families[f].message = m /\ stamp[f] > 0
  /\ \A f \in FamilyId : families[f] # None =>
       /\ families[f].message \notin Malformed
       /\ broker[families[f].message] = "acked" \/ \E w \in Worker : subject[w] = f

(* A comparison of accounts, though it was made with a row, is one with    *)
(* SugarCRM.                                                               *)
AccountCompared(w) ==
  /\ pc[w] \in {"fetch_contacts", "find_account", "write_account"} =>
       comparison[w].account = FetchAction(AccountOf[message[w]], CrmAccount)
  /\ pc[w] = "write_account" => sugarId[w] = IF accounts = <<>> THEN 0 ELSE 1
  /\ pc[w] = "write_contacts" => sugarId[w] # 0

(* SugarCRM shows the account of the newest message that reached it.       *)
AccountMirrored ==
  /\ Reached # {} => \E m \in Message : Newest(m)
  /\ \A m \in Message : Newest(m) => CrmAccount = AccountOf[m]
  /\ \A w \in Worker : AccountCompared(w)

(* The inductive invariant behind MirrorSpec.                              *)
MirrorInv == NothingFailed => RowsSettled /\ AccountMirrored

(* Likewise for contact c, as long as it has not been handled.             *)
PersonCompared(w, c) ==
  /\ \/ pc[w] \in {"find_account", "write_account"}
     \/ pc[w] = "write_contacts" /\ c \in pending[w]
  /\ c \in Members(PeopleOf[message[w]])
  => comparison[w].contacts[c].action = FetchAction(PeopleOf[message[w]][c], CrmPerson(c))

(* SugarCRM shows the members of the newest message, except those that are *)
(* still to be written, and has one contact for each.                      *)
ContactsMirrored ==
  /\ \A c \in Contact :
       /\ Len(contacts[c]) <= 1
       /\ contacts[c] # <<>> =>
            Preexisting # {} \/ \E m \in Reached : c \in Members(PeopleOf[m])
  /\ \A m \in Message, c \in Contact :
       /\ Newest(m) /\ c \in Members(PeopleOf[m])
       /\ \A w \in Worker : pc[w] = "write_contacts" => c \notin pending[w]
       => CrmPerson(c) = PeopleOf[m][c]
  /\ \A w \in Worker, c \in Contact : PersonCompared(w, c)

(* The inductive invariant behind MirrorsNewest.                           *)
ContactsInv == NothingFailed => ContactsMirrored

(* A member who has left stays away: the condition without which           *)
(* CreateMeansAbsent fails.  Contacts SugarCRM knows from elsewhere are    *)
(* harmless only if nobody joins at all.                                   *)
NobodyReturns ==
  \A l, m, n \in Message \ Malformed :
    Timestamp[l] < Timestamp[m] /\ Timestamp[m] < Timestamp[n] =>
      Members(PeopleOf[l]) \cap Members(PeopleOf[n]) \subseteq Members(PeopleOf[m])

NobodyJoins ==
  \A m, n \in Message \ Malformed :
    Timestamp[m] < Timestamp[n] => Members(PeopleOf[n]) \subseteq Members(PeopleOf[m])

-----------------------------------------------------------------------------
(***************************************************************************)
(* What comments of the code say, and the code does not do.                *)
(***************************************************************************)

(* created_or_updated_processor.rb:109: for a no-op comparison the update  *)
(* is not needed.  That would mean SugarCRM shows the payload already.     *)
NoopMeansCurrent ==
  \A w \in Worker :
    pc[w] = "persist" /\ comparison[w].account = "noop" /\ NoopOrStale(comparison[w]) =>
      Mirrors(message[w])

(* The same claim once all workers are done: a row recorded as a no-op     *)
(* stands for an account SugarCRM has.                                     *)
NoopHasAccount ==
  (\A w \in Worker : pc[w] = "idle") =>
    \A f \in FamilyId :
      families[f] # None /\ families[f].comparison # None
        /\ families[f].comparison.account = "noop" => accounts # <<>>

(* compare_request.rb:5-6 and 72: the comparison determines whether the    *)
(* payload is stale.  That would mean that no payload older than one on    *)
(* file is sent.                                                           *)
OlderThanOnFileIsStale ==
  \A w \in Worker :
    pc[w] = "find_account" =>
      \A f \in OtherFamilies(w) : Timestamp[families[f].message] <= Timestamp[message[w]]

(* compare_request.rb:178: the action of a contact comes from a comparison *)
(* with CRM contacts.  That would mean that only a contact SugarCRM does   *)
(* not have is created.                                                    *)
CreateMeansAbsent ==
  \A w \in Worker, c \in Contact :
    pc[w] = "find_account" /\ comparison[w].contacts[c].action = "create" =>
      LinkedContacts(c) = {}

=============================================================================
