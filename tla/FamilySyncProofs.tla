------------------------- MODULE FamilySyncProofs -------------------------
(***************************************************************************)
(* Type correctness of FamilySync and, for every number of workers,        *)
(* messages, failures and crashes, the bound on the accounts in SugarCRM.  *)
(***************************************************************************)
EXTENDS FamilySync, TLAPS

People == [Contact -> Data \cup {NoData}]

(***************************************************************************)
(* The comparison operators.                                               *)
(***************************************************************************)

(* A comparison of two payloads is an entity the contract accepts, and it  *)
(* asks for the account to be created only when there is none to compare.  *)
LEMMA CompareType ==
  ASSUME NEW a \in Data, NEW p \in People,
         NEW b \in Data \cup {NoData}, NEW q \in People
  PROVE  /\ CompareAccountsAndContacts(a, p, b, q) \in AccountComparison
         /\ CompareAccountsAndContacts(a, p, b, q).account = "create" <=> b = NoData
<1>1. FetchAction(a, b) \in Action /\ (FetchAction(a, b) = "create" <=> b = NoData)
  BY DEF FetchAction, Action
<1>2. ASSUME NEW c \in Contact
      PROVE  FetchContactAction(p[c], q[c]) \in ContactComparison
  BY DEF FetchContactAction, FetchAction, ContactComparison, Action, Response
<1>3. QED
  BY <1>1, <1>2 DEF CompareAccountsAndContacts, AccountComparison, Response

LEMMA StaleType ==
  ASSUME NEW p \in People
  PROVE  StaleComparison(p) \in AccountComparison /\ StaleComparison(p).account = "stale"
BY DEF StaleComparison, AccountComparison, ContactComparison, Action, Response

(* What a comparison with an earlier row can be.                           *)
LEMMA PreviousType ==
  ASSUME TypeOK, NEW m \in Message, NEW g \in FamilyId, families[g] # None
  PROVE  /\ CompareWithPrevious(m, g) \in AccountComparison
         /\ CompareWithPrevious(m, g).account # "create"
<1> DEFINE n == families[g].message
<1>1. n \in Message
  BY DEF TypeOK, FamilyRow
<1>2. /\ AccountOf[m] \in Data /\ AccountOf[n] \in Data /\ AccountOf[n] # NoData
      /\ PeopleOf[m] \in People /\ PeopleOf[n] \in People
  BY <1>1, MessageAssumption, NoDataAssumption DEF People
<1>3. StaleComparison(PeopleOf[m]) \in AccountComparison
      /\ StaleComparison(PeopleOf[m]).account = "stale"
  BY <1>2, StaleType
<1>4. LET c == CompareAccountsAndContacts(AccountOf[m], PeopleOf[m], AccountOf[n], PeopleOf[n])
      IN  c \in AccountComparison /\ c.account # "create"
  BY <1>2, CompareType
<1>5. QED
  BY <1>3, <1>4 DEF CompareWithPrevious

(***************************************************************************)
(* Type correctness.                                                       *)
(***************************************************************************)

LEMMA InitType == Init => TypeOK
<1> SUFFICES ASSUME Init PROVE TypeOK
  OBVIOUS
<1>1. accounts \in Seq(Data) /\ contacts \in [Contact -> Seq(CrmContact)]
  <2>1. CASE accounts = <<>> /\ contacts = [c \in Contact |-> <<>>]
    BY <2>1
  <2>2. CASE \E d \in Preexisting, known \in SUBSET Contact :
               /\ accounts = <<d>>
               /\ contacts = [c \in Contact |->
                    IF c \in known THEN <<[data |-> d, account |-> 1]>> ELSE <<>>]
    <3>1. PICK d \in Preexisting, known \in SUBSET Contact :
               /\ accounts = <<d>>
               /\ contacts = [c \in Contact |->
                    IF c \in known THEN <<[data |-> d, account |-> 1]>> ELSE <<>>]
      BY <2>2
    <3>2. d \in Data
      BY MessageAssumption
    <3>3. <<[data |-> d, account |-> 1]>> \in Seq(CrmContact)
      BY <3>2 DEF CrmContact
    <3>4. QED
      BY <3>1, <3>2, <3>3
  <2>3. QED
    BY <2>1, <2>2 DEF Init
<1>2. QED
  BY <1>1 DEF Init, TypeOK, FamilyId, Step

(***************************************************************************)
(* The inductive invariant, one lemma per action.                          *)
(***************************************************************************)

(* A new transaction keeps every row with a transaction visible, and makes *)
(* its own row visible.                                                    *)
LEMMA TransactionType ==
  ASSUME TypeOK, NEW f \in FamilyId, CreateTransaction(f)
  PROVE  /\ clock' \in Nat
         /\ stamp' \in [FamilyId -> Nat]
         /\ stamp'[f] > 0
         /\ \A g \in FamilyId : stamp[g] > 0 => stamp'[g] > 0
BY DEF TypeOK, CreateTransaction

(* A new row is not mistaken for a free place.                             *)
LEMMA NewRow ==
  ASSUME NEW m \in Message
  PROVE  [message |-> m, comparison |-> None] # None
BY NoneAssumption DEF FamilyRow

LEMMA DeliverStep ==
  ASSUME IInv, NEW w \in Worker, NEW m \in Message, Deliver(w, m)
  PROVE  IInv'
<1>1. TypeOK'
  BY DEF IInv, TypeOK, OwnSubject, Deliver, Goto, NoFault, crmVars, mongoVars, Step, AfterCreation, AfterTransaction, AfterComparing, FamilyId
<1>2. OwnSubject'
  BY DEF IInv, TypeOK, OwnSubject, Deliver, Goto, NoFault, crmVars, mongoVars, Step, AfterCreation, AfterTransaction, AfterComparing, FamilyId
<1>3. SingleCreator' /\ AtMostOneAccount'
  BY DEF IInv, TypeOK, OwnSubject, SingleCreator, MayCreate, AtMostOneAccount, Deliver, Goto, NoFault, crmVars, mongoVars, Step, AfterCreation, AfterTransaction, AfterComparing, FamilyId
<1>4. QED
  BY <1>1, <1>2, <1>3 DEF IInv

LEMMA RefuseStep ==
  ASSUME IInv, NEW w \in Worker, Refuse(w)
  PROVE  IInv'
<1>1. TypeOK'
  BY DEF IInv, TypeOK, OwnSubject, Refuse, Goto, NoFault, crmVars, mongoVars, Step, AfterCreation, AfterTransaction, AfterComparing, FamilyId
<1>2. OwnSubject'
  BY DEF IInv, TypeOK, OwnSubject, Refuse, Goto, NoFault, crmVars, mongoVars, Step, AfterCreation, AfterTransaction, AfterComparing, FamilyId
<1>3. SingleCreator' /\ AtMostOneAccount'
  BY DEF IInv, TypeOK, OwnSubject, SingleCreator, MayCreate, AtMostOneAccount, Refuse, Goto, NoFault, crmVars, mongoVars, Step, AfterCreation, AfterTransaction, AfterComparing, FamilyId
<1>4. QED
  BY <1>1, <1>2, <1>3 DEF IInv

LEMMA CreateFamilyStep ==
  ASSUME IInv, NEW w \in Worker, CreateFamily(w)
  PROVE  IInv'
<1>1. TypeOK'
  BY DEF IInv, TypeOK, OwnSubject, CreateFamily, FamilyRow, Goto, NoFault, crmVars, mongoVars, Step, AfterCreation, AfterTransaction, AfterComparing, FamilyId
<1>2. OwnSubject'
  <2>1. PICK f \in FamilyId :
          /\ families[f] = None
          /\ families' = [families EXCEPT ![f] = [message |-> message[w], comparison |-> None]]
          /\ subject' = [subject EXCEPT ![w] = f]
    BY DEF CreateFamily
  <2>2. families'[f] # None /\ f # 0
    BY <2>1, NewRow DEF CreateFamily, IInv, TypeOK, FamilyId
  <2>3. \A v \in Worker : subject[v] # f
    BY <2>1, <2>2 DEF IInv, OwnSubject
  <2>4. QED
    BY <2>1, <2>2, <2>3
    DEF IInv, TypeOK, OwnSubject, CreateFamily, Goto, Step, AfterCreation, AfterTransaction,
        AfterComparing, FamilyId
<1>3. SingleCreator' /\ AtMostOneAccount'
  BY DEF IInv, TypeOK, OwnSubject, SingleCreator, MayCreate, AtMostOneAccount, CreateFamily, FamilyRow, Goto, NoFault, crmVars, mongoVars, Step, AfterCreation, AfterTransaction, AfterComparing, FamilyId
<1>4. QED
  BY <1>1, <1>2, <1>3 DEF IInv

LEMMA AccountTransactionStep ==
  ASSUME IInv, NEW w \in Worker, AccountTransaction(w)
  PROVE  IInv'
<1>0. /\ subject[w] \in FamilyId
      /\ CreateTransaction(subject[w]) =>
           /\ clock' \in Nat
           /\ stamp' \in [FamilyId -> Nat]
           /\ stamp'[subject[w]] > 0
           /\ \A g \in FamilyId : stamp[g] > 0 => stamp'[g] > 0
  BY TransactionType DEF IInv, TypeOK, OwnSubject, AccountTransaction, AfterCreation, Step
<1>1. TypeOK'
  BY <1>0 DEF IInv, TypeOK, OwnSubject, AccountTransaction, Goto, NoFault, crmVars, mongoVars, Step, AfterCreation, AfterTransaction, AfterComparing, FamilyId
<1>2. OwnSubject'
  BY <1>0 DEF IInv, TypeOK, OwnSubject, AccountTransaction, Goto, NoFault, crmVars, mongoVars, Step, AfterCreation, AfterTransaction, AfterComparing, FamilyId
<1>3. SingleCreator' /\ AtMostOneAccount'
  BY <1>0 DEF IInv, TypeOK, OwnSubject, SingleCreator, MayCreate, AtMostOneAccount, AccountTransaction, Goto, NoFault, crmVars, mongoVars, Step, AfterCreation, AfterTransaction, AfterComparing, FamilyId
<1>4. QED
  BY <1>1, <1>2, <1>3 DEF IInv

LEMMA ContactTransactionsStep ==
  ASSUME IInv, NEW w \in Worker, ContactTransactions(w)
  PROVE  IInv'
<1>0. /\ subject[w] \in FamilyId
      /\ CreateTransaction(subject[w]) =>
           /\ clock' \in Nat
           /\ stamp' \in [FamilyId -> Nat]
           /\ stamp'[subject[w]] > 0
           /\ \A g \in FamilyId : stamp[g] > 0 => stamp'[g] > 0
  BY TransactionType DEF IInv, TypeOK, OwnSubject, ContactTransactions, AfterCreation, Step
<1>1. TypeOK'
  BY <1>0 DEF IInv, TypeOK, OwnSubject, ContactTransactions, Fault, Goto, NoFault, crmVars, mongoVars, Step, AfterCreation, AfterTransaction, AfterComparing, FamilyId
<1>2. OwnSubject'
  BY <1>0 DEF IInv, TypeOK, OwnSubject, ContactTransactions, Fault, Goto, NoFault, crmVars, mongoVars, Step, AfterCreation, AfterTransaction, AfterComparing, FamilyId
<1>3. SingleCreator' /\ AtMostOneAccount'
  BY <1>0 DEF IInv, TypeOK, OwnSubject, SingleCreator, MayCreate, AtMostOneAccount, ContactTransactions, Fault, Goto, NoFault, crmVars, mongoVars, Step, AfterCreation, AfterTransaction, AfterComparing, FamilyId
<1>4. QED
  BY <1>1, <1>2, <1>3 DEF IInv

LEMMA FindAccountStep ==
  ASSUME IInv, NEW w \in Worker, FindAccount(w)
  PROVE  IInv'
<1>1. TypeOK'
  BY DEF IInv, TypeOK, OwnSubject, FindAccount, Goto, NoFault, crmVars, mongoVars, Step, AfterCreation, AfterTransaction, AfterComparing, FamilyId
<1>2. OwnSubject'
  BY DEF IInv, TypeOK, OwnSubject, FindAccount, Goto, NoFault, crmVars, mongoVars, Step, AfterCreation, AfterTransaction, AfterComparing, FamilyId
<1>3. SingleCreator' /\ AtMostOneAccount'
  BY DEF IInv, TypeOK, OwnSubject, SingleCreator, MayCreate, AtMostOneAccount, FindAccount, Goto, NoFault, crmVars, mongoVars, Step, AfterCreation, AfterTransaction, AfterComparing, FamilyId
<1>4. QED
  BY <1>1, <1>2, <1>3 DEF IInv

LEMMA CannotUpdateAccountStep ==
  ASSUME IInv, NEW w \in Worker, CannotUpdateAccount(w)
  PROVE  IInv'
<1>1. TypeOK'
  BY DEF IInv, TypeOK, OwnSubject, CannotUpdateAccount, Goto, NoFault, crmVars, mongoVars, Step, AfterCreation, AfterTransaction, AfterComparing, FamilyId
<1>2. OwnSubject'
  BY DEF IInv, TypeOK, OwnSubject, CannotUpdateAccount, Goto, NoFault, crmVars, mongoVars, Step, AfterCreation, AfterTransaction, AfterComparing, FamilyId
<1>3. SingleCreator' /\ AtMostOneAccount'
  BY DEF IInv, TypeOK, OwnSubject, SingleCreator, MayCreate, AtMostOneAccount, CannotUpdateAccount, Goto, NoFault, crmVars, mongoVars, Step, AfterCreation, AfterTransaction, AfterComparing, FamilyId
<1>4. QED
  BY <1>1, <1>2, <1>3 DEF IInv

LEMMA PersistStep ==
  ASSUME IInv, NEW w \in Worker, Persist(w)
  PROVE  IInv'
<1>1. TypeOK'
  <2>1. /\ subject[w] \in FamilyId
        /\ families[subject[w]] \in FamilyRow
        /\ comparison[w] \in AccountComparison \cup {None}
    BY DEF IInv, TypeOK, OwnSubject, Persist, AfterCreation, Step
  <2>2. [families[subject[w]] EXCEPT !.comparison = comparison[w]] \in FamilyRow
    BY <2>1 DEF FamilyRow
  <2>3. families' \in [FamilyId -> FamilyRow \cup {None}]
    BY <2>2 DEF IInv, TypeOK, Persist
  <2>4. QED
    BY <2>3 DEF IInv, TypeOK, Persist, Goto, NoFault, crmVars, Step
<1>2. OwnSubject'
  <2>1. families[subject[w]] \in FamilyRow
    BY DEF IInv, TypeOK, OwnSubject, Persist, AfterCreation, Step
  <2>2. [families[subject[w]] EXCEPT !.comparison = comparison[w]] # None
    BY <2>1, NoneAssumption DEF FamilyRow, IInv, TypeOK
  <2>3. \A f \in FamilyId : families[f] # None => families'[f] # None
    BY <2>2 DEF IInv, TypeOK, Persist
  <2>4. QED
    BY <2>3 DEF IInv, TypeOK, OwnSubject, Persist, Goto, NoFault, crmVars, Step, AfterCreation,
                AfterTransaction, AfterComparing, FamilyId
<1>3. SingleCreator' /\ AtMostOneAccount'
  BY DEF IInv, TypeOK, OwnSubject, SingleCreator, MayCreate, AtMostOneAccount, Persist, FamilyRow, Goto, NoFault, crmVars, mongoVars, Step, AfterCreation, AfterTransaction, AfterComparing, FamilyId
<1>4. QED
  BY <1>1, <1>2, <1>3 DEF IInv

LEMMA RespondStep ==
  ASSUME IInv, NEW w \in Worker, Respond(w)
  PROVE  IInv'
<1>0. /\ subject[w] \in FamilyId
      /\ CreateTransaction(subject[w]) =>
           /\ clock' \in Nat
           /\ stamp' \in [FamilyId -> Nat]
           /\ stamp'[subject[w]] > 0
           /\ \A g \in FamilyId : stamp[g] > 0 => stamp'[g] > 0
  BY TransactionType DEF IInv, TypeOK, OwnSubject, Respond, AfterCreation, Step
<1>1. TypeOK'
  BY <1>0 DEF IInv, TypeOK, OwnSubject, Respond, Goto, NoFault, crmVars, mongoVars, Step, AfterCreation, AfterTransaction, AfterComparing, FamilyId
<1>2. OwnSubject'
  BY <1>0 DEF IInv, TypeOK, OwnSubject, Respond, Goto, NoFault, crmVars, mongoVars, Step, AfterCreation, AfterTransaction, AfterComparing, FamilyId
<1>3. SingleCreator' /\ AtMostOneAccount'
  BY <1>0 DEF IInv, TypeOK, OwnSubject, SingleCreator, MayCreate, AtMostOneAccount, Respond, Goto, NoFault, crmVars, mongoVars, Step, AfterCreation, AfterTransaction, AfterComparing, FamilyId
<1>4. QED
  BY <1>1, <1>2, <1>3 DEF IInv

LEMMA StepFailsStep ==
  ASSUME IInv, NEW w \in Worker, StepFails(w)
  PROVE  IInv'
<1>1. TypeOK'
  BY DEF IInv, TypeOK, OwnSubject, StepFails, Fault, Goto, NoFault, crmVars, mongoVars, Step, AfterCreation, AfterTransaction, AfterComparing, FamilyId
<1>2. OwnSubject'
  BY DEF IInv, TypeOK, OwnSubject, StepFails, Fault, Goto, NoFault, crmVars, mongoVars, Step, AfterCreation, AfterTransaction, AfterComparing, FamilyId
<1>3. SingleCreator' /\ AtMostOneAccount'
  BY DEF IInv, TypeOK, OwnSubject, SingleCreator, MayCreate, AtMostOneAccount, StepFails, Fault, Goto, NoFault, crmVars, mongoVars, Step, AfterCreation, AfterTransaction, AfterComparing, FamilyId
<1>4. QED
  BY <1>1, <1>2, <1>3 DEF IInv

LEMMA AckStep ==
  ASSUME IInv, NEW w \in Worker, Ack(w)
  PROVE  IInv'
<1>1. TypeOK'
  BY DEF IInv, TypeOK, OwnSubject, Ack, Release, Goto, NoFault, crmVars, mongoVars, Step, AfterCreation, AfterTransaction, AfterComparing, FamilyId
<1>2. OwnSubject'
  BY DEF IInv, TypeOK, OwnSubject, Ack, Release, Goto, NoFault, crmVars, mongoVars, Step, AfterCreation, AfterTransaction, AfterComparing, FamilyId
<1>3. SingleCreator' /\ AtMostOneAccount'
  BY DEF IInv, TypeOK, OwnSubject, SingleCreator, MayCreate, AtMostOneAccount, Ack, Release, Goto, NoFault, crmVars, mongoVars, Step, AfterCreation, AfterTransaction, AfterComparing, FamilyId
<1>4. QED
  BY <1>1, <1>2, <1>3 DEF IInv

LEMMA CrashStep ==
  ASSUME IInv, NEW w \in Worker, Crash(w)
  PROVE  IInv'
<1>1. TypeOK'
  BY DEF IInv, TypeOK, OwnSubject, Crash, Release, Goto, NoFault, crmVars, mongoVars, Step, AfterCreation, AfterTransaction, AfterComparing, FamilyId
<1>2. OwnSubject'
  BY DEF IInv, TypeOK, OwnSubject, Crash, Release, Goto, NoFault, crmVars, mongoVars, Step, AfterCreation, AfterTransaction, AfterComparing, FamilyId
<1>3. SingleCreator' /\ AtMostOneAccount'
  BY DEF IInv, TypeOK, OwnSubject, SingleCreator, MayCreate, AtMostOneAccount, Crash, Release, Goto, NoFault, crmVars, mongoVars, Step, AfterCreation, AfterTransaction, AfterComparing, FamilyId
<1>4. QED
  BY <1>1, <1>2, <1>3 DEF IInv

(* The comparison is a new value of the worker's own; when it has no       *)
(* earlier row to look at, no other worker can be in the same position:    *)
(* the row of that worker would be visible here.                           *)
LEMMA CompareStep ==
  ASSUME IInv, NEW w \in Worker, Compare(w)
  PROVE  IInv'
<1>1. CASE OtherFamilies(w) = {} /\ Goto(w, "fetch_account") /\ UNCHANGED comparison
  <2>1. TypeOK'
    BY <1>1 DEF IInv, TypeOK, Compare, Goto, NoFault, crmVars, mongoVars, Step
  <2>2. OwnSubject'
    BY <1>1 DEF IInv, TypeOK, OwnSubject, Compare, Goto, NoFault, crmVars, mongoVars, Step,
                AfterCreation, AfterTransaction, AfterComparing, FamilyId
  <2>3. ASSUME NEW v \in Worker, v # w
        PROVE  ~ MayCreate(v)
    <3>1. SUFFICES ASSUME MayCreate(v) PROVE FALSE
      OBVIOUS
    <3>2. pc[v] \in AfterTransaction /\ pc[v] \in AfterCreation
      BY <3>1 DEF MayCreate, AfterTransaction, AfterCreation, Step
    <3>3. /\ subject[v] \in FamilyId
          /\ subject[v] # subject[w]
          /\ families[subject[v]] # None
          /\ stamp[subject[v]] > 0
      BY <2>3, <3>2 DEF IInv, TypeOK, OwnSubject
    <3>4. QED
      BY <1>1, <3>3 DEF OtherFamilies
  <2>4. SingleCreator' /\ AtMostOneAccount'
    BY <1>1, <2>3 DEF IInv, TypeOK, SingleCreator, MayCreate, AtMostOneAccount, Compare, Goto,
                      crmVars, Step
  <2>5. QED
    BY <2>1, <2>2, <2>4 DEF IInv
<1>2. ASSUME NEW e \in NewestOf(OtherFamilies(w)),
             comparison' = [comparison EXCEPT ![w] = CompareWithPrevious(message[w], e)],
             Goto(w, AfterComparison(CompareWithPrevious(message[w], e)))
      PROVE  IInv'
  <2> DEFINE cmp == CompareWithPrevious(message[w], e)
  <2>1. e \in FamilyId /\ families[e] # None
    BY DEF NewestOf, OtherFamilies
  <2>2. message[w] \in Message
    BY DEF IInv, OwnSubject, Compare
  <2>3. cmp \in AccountComparison /\ cmp.account # "create" /\ cmp # None
    BY <2>1, <2>2, PreviousType, NoneAssumption DEF IInv
  <2>4. pc' = [pc EXCEPT ![w] = AfterComparison(cmp)]
        /\ AfterComparison(cmp) \in {"persist", "find_account"}
    BY <1>2 DEF Goto, AfterComparison
  <2> HIDE DEF cmp
  <2>5. TypeOK'
    BY <1>2, <2>3, <2>4 DEF cmp, IInv, TypeOK, Compare, NoFault, crmVars, mongoVars, Step
  <2>6. OwnSubject'
    BY <1>2, <2>3, <2>4 DEF cmp, IInv, TypeOK, OwnSubject, Compare, NoFault, crmVars, mongoVars,
                            Step, AfterCreation, AfterTransaction, AfterComparing, FamilyId
  <2>7. SingleCreator' /\ AtMostOneAccount'
    BY <1>2, <2>3, <2>4 DEF cmp, IInv, TypeOK, SingleCreator, MayCreate, AtMostOneAccount,
                            Compare, crmVars, Step
  <2>8. QED
    BY <2>5, <2>6, <2>7 DEF IInv
<1>3. QED
  BY <1>1, <1>2 DEF Compare

(* A step of w that leaves it unable to create the account, and that       *)
(* leaves an empty SugarCRM empty, keeps SingleCreator.                    *)
LEMMA NotCreating ==
  ASSUME IInv, NEW w \in Worker, ~ MayCreate(w)',
         \A v \in Worker \ {w} : pc'[v] = pc[v] /\ comparison'[v] = comparison[v],
         accounts = <<>> => accounts' = <<>>
  PROVE  SingleCreator'
<1>1. ASSUME NEW v \in Worker, MayCreate(v)'
      PROVE  v # w /\ MayCreate(v)
  BY <1>1 DEF MayCreate
<1>2. ASSUME NEW u \in Worker, NEW v \in Worker, MayCreate(u)', MayCreate(v)'
      PROVE  u = v
  BY <1>1, <1>2 DEF IInv, SingleCreator
<1>3. ASSUME NEW v \in Worker, MayCreate(v)', pc'[v] # "fetch_account"
      PROVE  accounts' = <<>>
  BY <1>1, <1>3 DEF IInv, SingleCreator
<1>4. QED
  BY <1>2, <1>3 DEF SingleCreator

LEMMA FetchAccountStep ==
  ASSUME IInv, NEW w \in Worker, FetchAccount(w)
  PROVE  IInv'
<1> DEFINE m == message[w]
           comparable == IF accounts = <<>> THEN NoData ELSE accounts[1]
           nobody == [c \in Contact |-> NoData]
           cmp == CompareAccountsAndContacts(AccountOf[m], PeopleOf[m], comparable, nobody)
<1>1. comparable \in Data \cup {NoData} /\ (comparable = NoData <=> accounts = <<>>)
  BY NoDataAssumption DEF IInv, TypeOK
<1>2. m \in Message
  BY DEF IInv, OwnSubject, FetchAccount
<1>3. AccountOf[m] \in Data /\ PeopleOf[m] \in People /\ nobody \in People
  BY <1>2, MessageAssumption DEF People
<1> HIDE DEF comparable, nobody, m
<1>4. cmp \in AccountComparison /\ (cmp.account = "create" <=> comparable = NoData)
  BY <1>1, <1>3, CompareType
<1> HIDE DEF cmp
<1>5. (cmp.account = "create" <=> accounts = <<>>) /\ cmp # None
  BY <1>1, <1>4, NoneAssumption
<1>6. /\ comparison' = [comparison EXCEPT ![w] = cmp]
      /\ pc' = [pc EXCEPT ![w] = IF accounts = <<>> THEN "find_account" ELSE "fetch_contacts"]
  BY <1>1 DEF FetchAccount, Goto, cmp, m, comparable, nobody
<1>7. \A v \in Worker : v # w => ~ MayCreate(v)
  BY DEF IInv, SingleCreator, MayCreate, FetchAccount
<1>8. TypeOK'
  BY <1>4, <1>6 DEF IInv, TypeOK, FetchAccount, NoFault, crmVars, mongoVars, Step
<1>9. OwnSubject'
  BY <1>4, <1>5, <1>6 DEF IInv, TypeOK, OwnSubject, FetchAccount, NoFault, crmVars, mongoVars,
                          Step, AfterCreation, AfterTransaction, AfterComparing, FamilyId
<1>10. SingleCreator' /\ AtMostOneAccount'
  BY <1>5, <1>6, <1>7 DEF IInv, TypeOK, SingleCreator, MayCreate, AtMostOneAccount,
                          FetchAccount, crmVars, Step
<1>11. QED
  BY <1>8, <1>9, <1>10 DEF IInv

LEMMA FetchContactsStep ==
  ASSUME IInv, NEW w \in Worker, FetchContacts(w)
  PROVE  IInv'
<1> DEFINE people == PeopleOf[message[w]]
           cmp == [comparison[w] EXCEPT !.contacts =
                    [c \in Contact |-> FetchContactAction(people[c], FirstLinked(c))]]
<1>1. comparison[w] \in AccountComparison /\ comparison[w].account # "create"
  BY DEF IInv, TypeOK, OwnSubject, FetchContacts
<1>2. \A c \in Contact : FetchContactAction(people[c], FirstLinked(c)) \in ContactComparison
  BY DEF FetchContactAction, FetchAction, ContactComparison, Action, Response
<1>3. cmp \in AccountComparison /\ cmp.account # "create" /\ cmp # None
  BY <1>1, <1>2, NoneAssumption DEF AccountComparison
<1>4. /\ comparison' = [comparison EXCEPT ![w] = cmp]
      /\ pc' = [pc EXCEPT ![w] = AfterComparison(cmp)]
      /\ AfterComparison(cmp) \in {"persist", "find_account"}
  BY DEF FetchContacts, Goto, AfterComparison
<1> HIDE DEF cmp
<1>5. TypeOK'
  BY <1>3, <1>4 DEF IInv, TypeOK, FetchContacts, NoFault, crmVars, mongoVars, Step
<1>6. OwnSubject'
  BY <1>3, <1>4 DEF IInv, TypeOK, OwnSubject, FetchContacts, NoFault, crmVars, mongoVars, Step,
                    AfterCreation, AfterTransaction, AfterComparing, FamilyId
<1>7. accounts' = accounts
  BY DEF FetchContacts, crmVars
<1>8. ~ MayCreate(w)'
  BY <1>3, <1>4 DEF IInv, TypeOK, MayCreate
<1>9. \A v \in Worker \ {w} : pc'[v] = pc[v] /\ comparison'[v] = comparison[v]
  BY <1>4 DEF IInv, TypeOK
<1>10. QED
  BY <1>5, <1>6, <1>7, <1>8, <1>9, NotCreating DEF IInv, AtMostOneAccount

(* A worker that is about to call SugarCRM for the account.                *)
LEMMA WritingType ==
  ASSUME IInv, NEW w \in Worker, pc[w] = "write_account"
  PROVE  /\ message[w] \in Message
         /\ AccountOf[message[w]] \in Data
         /\ Members(PeopleOf[message[w]]) \in SUBSET Contact
         /\ comparison[w] \in AccountComparison
         /\ \A r \in Response :
              /\ [comparison[w] EXCEPT !.response = r] \in AccountComparison
              /\ [comparison[w] EXCEPT !.response = r] # None
<1>1. message[w] \in Message /\ comparison[w] \in AccountComparison
  BY DEF IInv, TypeOK, OwnSubject, AfterComparing
<1>2. QED
  BY <1>1, MessageAssumption, NoneAssumption DEF Members, AccountComparison

(* The worker's own variables after the account call was accepted.         *)
LEMMA AccountDoneStep ==
  ASSUME IInv, NEW w \in Worker, pc[w] = "write_account",
         NEW r \in Response, AccountDone(w, r)
  PROVE  /\ pc' = [pc EXCEPT ![w] = "write_contacts"]
         /\ comparison' \in [Worker -> AccountComparison \cup {None}]
         /\ pending' \in [Worker -> SUBSET Contact]
         /\ pending'[w] = Members(PeopleOf[message[w]])
         /\ \A v \in Worker \ {w} : pending'[v] = pending[v]
         /\ comparison'[w] # None
         /\ \A v \in Worker \ {w} : comparison'[v] = comparison[v]
<1>1. comparison \in [Worker -> AccountComparison \cup {None}] /\ pending \in [Worker -> SUBSET Contact]
  BY DEF IInv, TypeOK
<1>2. QED
  BY <1>1, WritingType DEF AccountDone, Goto

LEMMA KeepAccountStep ==
  ASSUME IInv, NEW w \in Worker, KeepAccount(w)
  PROVE  IInv'
<1>1. /\ pc[w] = "write_account" /\ AccountDone(w, "none") /\ "none" \in Response
      /\ UNCHANGED <<broker, families, stamp, clock, accounts, contacts, message, subject,
                     sugarId, faults, crashes>>
  BY DEF KeepAccount, Response, crmVars, mongoVars, NoFault
<1>2. /\ pc' = [pc EXCEPT ![w] = "write_contacts"]
      /\ comparison' \in [Worker -> AccountComparison \cup {None}]
      /\ pending' \in [Worker -> SUBSET Contact]
      /\ pending'[w] = Members(PeopleOf[message[w]])
      /\ \A v \in Worker \ {w} : pending'[v] = pending[v]
      /\ comparison'[w] # None
      /\ \A v \in Worker \ {w} : comparison'[v] = comparison[v]
  BY <1>1, AccountDoneStep
<1>3. TypeOK'
  BY <1>1, <1>2 DEF IInv, TypeOK, Step
<1>4. OwnSubject'
  BY <1>1, <1>2
  DEF IInv, TypeOK, OwnSubject, Step, AfterCreation, AfterTransaction, AfterComparing
<1>5. ~ MayCreate(w)' /\ \A v \in Worker \ {w} : pc'[v] = pc[v]
  BY <1>2 DEF IInv, TypeOK, MayCreate
<1>6. QED
  BY <1>1, <1>2, <1>3, <1>4, <1>5, NotCreating DEF IInv, AtMostOneAccount

(* Overwriting an element leaves a sequence of the same length.            *)
LEMMA Overwrite ==
  ASSUME NEW S, NEW s \in Seq(S), NEW i \in Nat, NEW d \in S
  PROVE  [s EXCEPT ![i] = d] \in Seq(S) /\ Len([s EXCEPT ![i] = d]) = Len(s)
<1>1. CASE i \in 1..Len(s)
  BY <1>1
<1>2. CASE i \notin 1..Len(s)
  <2>1. [s EXCEPT ![i] = d] = s
    BY <1>2
  <2>2. QED
    BY <2>1
<1>3. QED
  BY <1>1, <1>2

(* Both outcomes of a call for the account: answered, or interrupted.      *)
LEMMA CalledAccountType ==
  ASSUME IInv, NEW w \in Worker, pc[w] = "write_account",
         accounts' \in Seq(Data),
         sugarId' \in [Worker -> Nat],
         \/ AccountDone(w, "ok") /\ UNCHANGED faults
         \/ Fault /\ Goto(w, "ack") /\ UNCHANGED <<comparison, pending>>,
         UNCHANGED <<broker, mongoVars, contacts, message, subject, crashes>>
  PROVE  /\ TypeOK' /\ OwnSubject'
         /\ ~ MayCreate(w)'
         /\ \A v \in Worker \ {w} : pc'[v] = pc[v] /\ comparison'[v] = comparison[v]
<1>1. CASE AccountDone(w, "ok") /\ UNCHANGED faults
  <2>1. "ok" \in Response
    BY DEF Response
  <2>2. TypeOK'
    BY <1>1, <2>1, AccountDoneStep DEF IInv, TypeOK, mongoVars, Step
  <2>3. OwnSubject'
    BY <1>1, <2>1, AccountDoneStep
    DEF IInv, TypeOK, OwnSubject, mongoVars, Step, AfterCreation, AfterTransaction,
        AfterComparing, FamilyId
  <2>4. QED
    BY <1>1, <2>1, <2>2, <2>3, AccountDoneStep DEF IInv, TypeOK, MayCreate
<1>2. CASE Fault /\ Goto(w, "ack") /\ UNCHANGED <<comparison, pending>>
  <2>1. TypeOK'
    BY <1>2 DEF IInv, TypeOK, Fault, Goto, mongoVars, Step
  <2>2. OwnSubject'
    BY <1>2 DEF IInv, TypeOK, OwnSubject, Goto, mongoVars, Step, AfterCreation,
                AfterTransaction, AfterComparing, FamilyId
  <2>3. QED
    BY <1>2, <2>1, <2>2 DEF IInv, TypeOK, MayCreate, Goto
<1>3. QED
  BY <1>1, <1>2

LEMMA UpdateAccountStep ==
  ASSUME IInv, NEW w \in Worker, UpdateAccount(w)
  PROVE  IInv'
<1>1. /\ pc[w] = "write_account" /\ AccountOf[message[w]] \in Data
      /\ accounts \in Seq(Data) /\ sugarId[w] \in Nat
  BY WritingType DEF IInv, TypeOK, UpdateAccount
<1>2. accounts' \in Seq(Data) /\ Len(accounts') = Len(accounts)
  BY <1>1, Overwrite DEF UpdateAccount
<1>3. accounts = <<>> => accounts' = <<>>
  BY <1>1, <1>2
<1>4. sugarId' \in [Worker -> Nat]
  BY DEF IInv, TypeOK, UpdateAccount
<1>5. /\ TypeOK' /\ OwnSubject' /\ ~ MayCreate(w)'
      /\ \A v \in Worker \ {w} : pc'[v] = pc[v] /\ comparison'[v] = comparison[v]
  BY <1>1, <1>2, <1>4, CalledAccountType DEF UpdateAccount
<1>6. QED
  BY <1>2, <1>3, <1>5, NotCreating DEF IInv, AtMostOneAccount

(* Records a create call leaves.                                           *)
LEMMA CreatedType ==
  ASSUME NEW S, NEW s \in Seq(S), NEW d \in S, NEW t \in Created(s, d)
  PROVE  /\ t \in Seq(S)
         /\ Len(t) <= Len(s) + MaxCopies /\ Len(t) > Len(s)
         /\ \A i \in DOMAIN s : i \in DOMAIN t
BY BoundAssumption DEF Created

(* The creator is alone, and has seen that there is no account.            *)
LEMMA CreateAccountStep ==
  ASSUME IInv, NEW w \in Worker, CreateAccount(w)
  PROVE  IInv'
<1>1. /\ pc[w] = "write_account" /\ AccountOf[message[w]] \in Data
      /\ accounts \in Seq(Data)
      /\ MayCreate(w)
  BY WritingType DEF IInv, TypeOK, CreateAccount, MayCreate
<1>2. accounts = <<>> /\ \A v \in Worker : v # w => ~ MayCreate(v)
  BY <1>1 DEF IInv, SingleCreator
<1>3. accounts' \in Seq(Data) /\ Len(accounts') <= MaxCopies
  <2>1. accounts' \in Created(accounts, AccountOf[message[w]])
    BY DEF CreateAccount
  <2>2. accounts' \in Seq(Data) /\ Len(accounts') <= Len(accounts) + MaxCopies
    BY <1>1, <2>1, CreatedType
  <2>3. Len(accounts) = 0
    BY <1>2
  <2>4. QED
    BY <2>2, <2>3, BoundAssumption
<1>4. sugarId' \in [Worker -> Nat]
  <2>1. Len(accounts') \in Nat
    BY <1>3
  <2>2. sugarId' = [sugarId EXCEPT ![w] = Len(accounts')] \/ sugarId' = sugarId
    BY DEF CreateAccount
  <2>3. QED
    BY <2>1, <2>2 DEF IInv, TypeOK
<1>5. /\ TypeOK' /\ OwnSubject' /\ ~ MayCreate(w)'
      /\ \A v \in Worker \ {w} : pc'[v] = pc[v] /\ comparison'[v] = comparison[v]
  BY <1>1, <1>3, <1>4, CalledAccountType DEF CreateAccount
<1>6. \A v \in Worker : ~ MayCreate(v)'
  BY <1>2, <1>5 DEF MayCreate
<1>7. QED
  BY <1>3, <1>5, <1>6 DEF IInv, SingleCreator, AtMostOneAccount

(***************************************************************************)
(* The steps for one contact.                                              *)
(***************************************************************************)

(* What ContactDone does, and an invariant that only the list of contacts  *)
(* and the fault counter can still break.                                  *)
LEMMA ContactDoneStep ==
  ASSUME IInv, NEW w \in Worker, NEW c \in Contact, NEW r \in Response,
         pc[w] = "write_contacts",
         ContactDone(w, c, r),
         contacts' \in [Contact -> Seq(CrmContact)],
         faults' \in Nat
  PROVE  IInv'
<1> DEFINE cmp == [comparison[w] EXCEPT !.contacts[c].response = r]
<1>1. comparison[w] \in AccountComparison
  BY DEF IInv, TypeOK, OwnSubject, AfterComparing
<1>2. cmp \in AccountComparison
  BY <1>1 DEF AccountComparison, ContactComparison
<1>3. cmp # None
  BY <1>2, NoneAssumption
<1>4. /\ comparison' = [comparison EXCEPT ![w] = cmp]
      /\ \E step \in {"persist", "write_contacts"} : pc' = [pc EXCEPT ![w] = step]
      /\ pending' = [pending EXCEPT ![w] = @ \ {c}]
      /\ UNCHANGED <<broker, families, stamp, clock, accounts, message, subject, sugarId, crashes>>
  BY DEF ContactDone, Goto, mongoVars
<1> HIDE DEF cmp
<1>5. PICK step \in {"persist", "write_contacts"} : pc' = [pc EXCEPT ![w] = step]
  BY <1>4
<1>6. TypeOK'
  BY <1>2, <1>4, <1>5 DEF IInv, TypeOK, Step
<1>7. OwnSubject'
  BY <1>3, <1>4, <1>5
  DEF IInv, TypeOK, OwnSubject, Step, AfterCreation, AfterTransaction, AfterComparing, FamilyId
<1>8. ~ MayCreate(w)' /\ \A v \in Worker \ {w} : pc'[v] = pc[v] /\ comparison'[v] = comparison[v]
  BY <1>4, <1>5 DEF IInv, TypeOK, MayCreate
<1>9. QED
  BY <1>4, <1>6, <1>7, <1>8, NotCreating DEF IInv, AtMostOneAccount

(* The record sent for a contact.                                          *)
LEMMA CrmRecordType ==
  ASSUME IInv, NEW w \in Worker, NEW c \in Contact, pc[w] = "write_contacts",
         c \in pending[w]
  PROVE  CrmRecord(w, c) \in CrmContact
<1>1. message[w] \in Message /\ sugarId[w] \in Nat
  BY DEF IInv, TypeOK, OwnSubject
<1>2. PeopleOf[message[w]][c] # NoData
  BY DEF IInv, OwnSubject, Members
<1>3. QED
  BY <1>1, <1>2, MessageAssumption DEF CrmRecord, CrmContact

LEMMA WriteContactStep ==
  ASSUME IInv, NEW w \in Worker, NEW c \in Contact, WriteContact(w, c)
  PROVE  IInv'
<1>1. /\ pc[w] = "write_contacts" /\ c \in pending[w]
      /\ \E r \in Response : ContactDone(w, c, r)
  BY DEF WriteContact, KeepContact, CannotWriteContact, CreateContact, UpdateContact,
         ContactNotFound, ContactCallFails, PendingContact, Response
<1>2. faults' \in Nat
  BY DEF IInv, TypeOK, Fault, WriteContact, KeepContact, CannotWriteContact, CreateContact,
         UpdateContact, ContactNotFound, ContactCallFails
<1>3. contacts \in [Contact -> Seq(CrmContact)] /\ CrmRecord(w, c) \in CrmContact
  BY <1>1, CrmRecordType DEF IInv, TypeOK
<1>4. contacts' \in [Contact -> Seq(CrmContact)]
  <2>1. CASE contacts' = contacts
    BY <1>3, <2>1
  <2>2. CASE CreateContact(w, c)
    <3>1. PICK list \in Created(contacts[c], CrmRecord(w, c)) :
            contacts' = [contacts EXCEPT ![c] = list]
      BY <2>2 DEF CreateContact
    <3>2. list \in Seq(CrmContact)
      BY <1>3, <3>1, CreatedType
    <3>3. QED
      BY <1>3, <3>1, <3>2
  <2>3. CASE UpdateContact(w, c)
    <3>1. [contacts[c] EXCEPT ![1] = CrmRecord(w, c)] \in Seq(CrmContact)
      BY <1>3, Overwrite
    <3>2. contacts' = [contacts EXCEPT ![c] = [contacts[c] EXCEPT ![1] = CrmRecord(w, c)]]
      BY <2>3 DEF UpdateContact
    <3>3. QED
      BY <1>3, <3>1, <3>2
  <2>4. QED
    BY <2>1, <2>2, <2>3 DEF WriteContact, KeepContact, CannotWriteContact, ContactNotFound,
                            ContactCallFails
<1>5. QED
  BY <1>1, <1>2, <1>4, ContactDoneStep

(***************************************************************************)
(* The theorems.                                                           *)
(***************************************************************************)

LEMMA InitInv == Init => IInv
<1> SUFFICES ASSUME Init PROVE IInv
  OBVIOUS
<1>1. TypeOK
  BY InitType
<1>2. OwnSubject /\ SingleCreator
  BY DEF Init, OwnSubject, SingleCreator, MayCreate, AfterCreation, AfterTransaction,
         AfterComparing
<1>3. AtMostOneAccount
  <2>1. CASE accounts = <<>>
    BY <2>1, BoundAssumption DEF AtMostOneAccount
  <2>2. ASSUME NEW d \in Preexisting, accounts = <<d>>
        PROVE  AtMostOneAccount
    <3>1. Len(accounts) = 1
      BY <2>2
    <3>2. QED
      BY <3>1, BoundAssumption DEF AtMostOneAccount
  <2>3. QED
    BY <2>1, <2>2 DEF Init
<1>4. QED
  BY <1>1, <1>2, <1>3 DEF IInv

LEMMA NextInv == IInv /\ [Next]_vars => IInv'
<1> SUFFICES ASSUME IInv, [Next]_vars PROVE IInv'
  OBVIOUS
<1>1. ASSUME NEW w \in Worker, NEW m \in Message, Deliver(w, m) PROVE IInv'
  BY <1>1, DeliverStep
<1>2. ASSUME NEW w \in Worker, Process(w) PROVE IInv'
  BY <1>2, RefuseStep, CreateFamilyStep, AccountTransactionStep, ContactTransactionsStep,
     CompareStep, FetchAccountStep, FetchContactsStep, FindAccountStep, KeepAccountStep,
     CreateAccountStep, UpdateAccountStep, CannotUpdateAccountStep, WriteContactStep,
     PersistStep, RespondStep, StepFailsStep, AckStep
  DEF Process
<1>3. ASSUME NEW w \in Worker, Crash(w) PROVE IInv'
  BY <1>3, CrashStep
<1>4. CASE UNCHANGED vars
  BY <1>4 DEF IInv, TypeOK, OwnSubject, SingleCreator, MayCreate, AtMostOneAccount, vars,
              mongoVars, crmVars, workerVars
<1>5. QED
  BY <1>1, <1>2, <1>3, <1>4 DEF Next

(* The inductive invariant: rows are owned by one worker, visible from     *)
(* their first transaction on, and at most one worker is on its way to     *)
(* creating the account (create_account_transaction_for before             *)
(* fetch_eligible_subject in the source).                                  *)
THEOREM Invariance == Spec => []IInv
BY InitInv, NextInv, PTL DEF Spec

(* Every reachable state has the declared types.                           *)
THEOREM TypeCorrect == Spec => []TypeOK
<1>1. IInv => TypeOK
  BY DEF IInv
<1>2. QED
  BY <1>1, Invariance, PTL

(* However many workers race, however often messages are redelivered and   *)
(* calls fail, SugarCRM holds no more accounts for the primary person than *)
(* one create call leaves there.                                           *)
THEOREM AccountBound == Spec => []AtMostOneAccount
<1>1. IInv => AtMostOneAccount
  BY DEF IInv
<1>2. QED
  BY <1>1, Invariance, PTL

(***************************************************************************)
(* The actions Update meets.                                               *)
(***************************************************************************)

(* A comparison that does not skip Update has an action for every member   *)
(* that Update knows: it is not the stale one.                             *)
LEMMA PayloadsHandled ==
  ASSUME NEW a \in Data, NEW p \in People,
         NEW b \in Data \cup {NoData}, NEW q \in People
  PROVE  LET cmp == CompareAccountsAndContacts(a, p, b, q)
         IN  /\ cmp.account \in Handled
             /\ \A c \in Members(p) : cmp.contacts[c].action \in Handled
BY DEF CompareAccountsAndContacts, FetchAction, FetchContactAction, Members, Handled

LEMMA StaleSkips ==
  ASSUME NEW p \in People
  PROVE  AfterComparison(StaleComparison(p)) = "persist"
<1>1. AllActions(StaleComparison(p), "stale")
  BY DEF AllActions, StaleComparison
<1>2. QED
  BY <1>1 DEF AfterComparison, NoopOrStale, ComparisonAction, Action, AllActions

LEMMA PreviousHandled ==
  ASSUME TypeOK, NEW m \in Message, NEW g \in FamilyId, families[g] # None
  PROVE  LET cmp == CompareWithPrevious(m, g)
         IN  \/ AfterComparison(cmp) = "persist"
             \/ /\ cmp.account \in Handled
                /\ \A c \in Members(PeopleOf[m]) : cmp.contacts[c].action \in Handled
<1> DEFINE n == families[g].message
<1>1. n \in Message
  BY DEF TypeOK, FamilyRow
<1>2. /\ AccountOf[m] \in Data /\ AccountOf[n] \in Data
      /\ PeopleOf[m] \in People /\ PeopleOf[n] \in People
  BY <1>1, MessageAssumption DEF People
<1>3. CASE IsStale(m, g)
  BY <1>2, <1>3, StaleSkips DEF CompareWithPrevious
<1>4. CASE ~ IsStale(m, g)
  BY <1>2, <1>4, PayloadsHandled DEF CompareWithPrevious
<1>5. QED
  BY <1>3, <1>4

(* A step of worker w leaves the others as they are.                       *)
LEMMA OthersKeep ==
  ASSUME ActionsKnown, NEW w \in Worker, MeetsHandled(w)',
         \A v \in Worker \ {w} :
           /\ pc'[v] = pc[v] /\ message'[v] = message[v]
           /\ comparison'[v] = comparison[v] /\ pending'[v] = pending[v]
  PROVE  ActionsKnown'
<1>1. ASSUME NEW v \in Worker, v # w PROVE MeetsHandled(v)'
  BY <1>1 DEF ActionsKnown, MeetsHandled
<1>2. QED
  BY <1>1 DEF ActionsKnown

(* Steps after which the worker is not on its way through Update.          *)
LEMMA ElsewhereKnown ==
  ASSUME IInv, ActionsKnown, NEW w \in Worker,
         \/ \E m \in Message : Deliver(w, m)
         \/ Refuse(w)
         \/ CreateFamily(w)
         \/ AccountTransaction(w)
         \/ ContactTransactions(w)
         \/ CannotUpdateAccount(w)
         \/ Persist(w)
         \/ Respond(w)
         \/ StepFails(w)
         \/ Ack(w)
         \/ Crash(w)
  PROVE  ActionsKnown'
<1>1. pc'[w] \in {"idle", "create_family", "account_transaction", "contact_transactions",
                  "compare", "respond", "ack"}
  BY DEF IInv, TypeOK, Deliver, Refuse, CreateFamily, AccountTransaction, ContactTransactions,
         CannotUpdateAccount, Persist, Respond, StepFails, Ack, Crash, Goto, Release
<1>2. MeetsHandled(w)'
  BY <1>1 DEF MeetsHandled
<1>3. \A v \in Worker \ {w} :
        /\ pc'[v] = pc[v] /\ message'[v] = message[v]
        /\ comparison'[v] = comparison[v] /\ pending'[v] = pending[v]
  BY DEF IInv, TypeOK, Deliver, Refuse, CreateFamily, AccountTransaction, ContactTransactions,
         CannotUpdateAccount, Persist, Respond, StepFails, Ack, Crash, Goto, Release
<1>4. QED
  BY <1>2, <1>3, OthersKeep

LEMMA CompareKnown ==
  ASSUME IInv, ActionsKnown, NEW w \in Worker, Compare(w)
  PROVE  ActionsKnown'
<1>1. message[w] \in Message
  BY DEF IInv, OwnSubject, Compare
<1>2. MeetsHandled(w)'
  <2>1. CASE Goto(w, "fetch_account")
    BY <2>1 DEF IInv, TypeOK, Goto, MeetsHandled
  <2>2. ASSUME NEW e \in NewestOf(OtherFamilies(w)),
               comparison' = [comparison EXCEPT ![w] = CompareWithPrevious(message[w], e)],
               Goto(w, AfterComparison(CompareWithPrevious(message[w], e)))
        PROVE  MeetsHandled(w)'
    <3> DEFINE cmp == CompareWithPrevious(message[w], e)
    <3>1. e \in FamilyId /\ families[e] # None
      BY DEF NewestOf, OtherFamilies
    <3>2. \/ AfterComparison(cmp) = "persist"
          \/ /\ cmp.account \in Handled
             /\ \A c \in Members(PeopleOf[message[w]]) : cmp.contacts[c].action \in Handled
      BY <1>1, <3>1, PreviousHandled DEF IInv
    <3>3. AfterComparison(cmp) \in {"persist", "find_account"}
      BY DEF AfterComparison
    <3>4. comparison'[w] = cmp /\ pc'[w] = AfterComparison(cmp) /\ message'[w] = message[w]
      BY <2>2 DEF IInv, TypeOK, Compare, Goto
    <3> HIDE DEF cmp
    <3>5. QED
      BY <3>2, <3>3, <3>4 DEF MeetsHandled
  <2>3. QED
    BY <2>1, <2>2 DEF Compare
<1>3. \A v \in Worker \ {w} :
        /\ pc'[v] = pc[v] /\ message'[v] = message[v]
        /\ comparison'[v] = comparison[v] /\ pending'[v] = pending[v]
  BY DEF IInv, TypeOK, Compare, Goto
<1>4. QED
  BY <1>2, <1>3, OthersKeep

LEMMA FetchAccountKnown ==
  ASSUME IInv, ActionsKnown, NEW w \in Worker, FetchAccount(w)
  PROVE  ActionsKnown'
<1> DEFINE m == message[w]
           b == IF accounts = <<>> THEN NoData ELSE accounts[1]
           nobody == [c \in Contact |-> NoData]
           cmp == CompareAccountsAndContacts(AccountOf[m], PeopleOf[m], b, nobody)
<1>1. m \in Message
  BY DEF IInv, OwnSubject, FetchAccount
<1>2. AccountOf[m] \in Data /\ PeopleOf[m] \in People /\ nobody \in People
  BY <1>1, MessageAssumption DEF People
<1>3. b \in Data \cup {NoData}
  BY DEF IInv, TypeOK
<1>4. cmp.account \in Handled /\ \A c \in Members(PeopleOf[m]) : cmp.contacts[c].action \in Handled
  BY <1>2, <1>3, PayloadsHandled
<1>5. /\ comparison'[w] = cmp /\ message'[w] = m
      /\ pc'[w] \in {"find_account", "fetch_contacts"}
  BY DEF IInv, TypeOK, FetchAccount, Goto
<1> HIDE DEF cmp, m
<1>6. MeetsHandled(w)'
  BY <1>4, <1>5 DEF MeetsHandled
<1>7. \A v \in Worker \ {w} :
        /\ pc'[v] = pc[v] /\ message'[v] = message[v]
        /\ comparison'[v] = comparison[v] /\ pending'[v] = pending[v]
  BY DEF IInv, TypeOK, FetchAccount, Goto
<1>8. QED
  BY <1>6, <1>7, OthersKeep

LEMMA FetchContactsKnown ==
  ASSUME IInv, ActionsKnown, NEW w \in Worker, FetchContacts(w)
  PROVE  ActionsKnown'
<1> DEFINE p == PeopleOf[message[w]]
           cmp == [comparison[w] EXCEPT !.contacts =
                     [c \in Contact |-> FetchContactAction(p[c], FirstLinked(c))]]
<1>1. comparison[w] \in AccountComparison /\ comparison[w].account \in Handled
  BY DEF IInv, TypeOK, OwnSubject, ActionsKnown, MeetsHandled, FetchContacts
<1>2. cmp.account \in Handled
  BY <1>1 DEF AccountComparison
<1>3. cmp.contacts = [c \in Contact |-> FetchContactAction(p[c], FirstLinked(c))]
  BY <1>1 DEF AccountComparison
<1>4. \A c \in Members(p) : cmp.contacts[c].action \in Handled
  BY <1>3 DEF Members, FetchContactAction, FetchAction, Handled
<1>5. AfterComparison(cmp) \in {"persist", "find_account"}
  BY DEF AfterComparison
<1>6. comparison'[w] = cmp /\ message'[w] = message[w] /\ pc'[w] = AfterComparison(cmp)
  BY DEF IInv, TypeOK, FetchContacts, Goto
<1> HIDE DEF cmp
<1>7. MeetsHandled(w)'
  BY <1>2, <1>4, <1>5, <1>6 DEF MeetsHandled
<1>8. \A v \in Worker \ {w} :
        /\ pc'[v] = pc[v] /\ message'[v] = message[v]
        /\ comparison'[v] = comparison[v] /\ pending'[v] = pending[v]
  BY DEF IInv, TypeOK, FetchContacts, Goto
<1>9. QED
  BY <1>7, <1>8, OthersKeep

LEMMA FindAccountKnown ==
  ASSUME IInv, ActionsKnown, NEW w \in Worker, FindAccount(w)
  PROVE  ActionsKnown'
<1>1. MeetsHandled(w)'
  BY DEF IInv, TypeOK, FindAccount, Goto, ActionsKnown, MeetsHandled
<1>2. \A v \in Worker \ {w} :
        /\ pc'[v] = pc[v] /\ message'[v] = message[v]
        /\ comparison'[v] = comparison[v] /\ pending'[v] = pending[v]
  BY DEF IInv, TypeOK, FindAccount, Goto
<1>3. QED
  BY <1>1, <1>2, OthersKeep

(* The response is put beside the actions, which stay.                     *)
LEMMA WriteAccountKnown ==
  ASSUME IInv, ActionsKnown, NEW w \in Worker,
         KeepAccount(w) \/ CreateAccount(w) \/ UpdateAccount(w)
  PROVE  ActionsKnown'
<1>1. /\ pc[w] = "write_account" /\ message' = message
      /\ comparison[w] \in AccountComparison
      /\ \A c \in Members(PeopleOf[message[w]]) : comparison[w].contacts[c].action \in Handled
  BY DEF IInv, TypeOK, OwnSubject, AfterComparing, ActionsKnown, MeetsHandled,
         KeepAccount, CreateAccount, UpdateAccount
<1>2. \/ \E r \in Response : AccountDone(w, r)
      \/ Goto(w, "ack") /\ UNCHANGED <<comparison, pending>>
  BY DEF KeepAccount, CreateAccount, UpdateAccount, Response
<1>3. CASE Goto(w, "ack") /\ UNCHANGED <<comparison, pending>>
  <2>1. MeetsHandled(w)'
    BY <1>3 DEF IInv, TypeOK, Goto, MeetsHandled
  <2>2. QED
    BY <1>1, <1>3, <2>1, OthersKeep DEF IInv, TypeOK, Goto
<1>4. ASSUME NEW r \in Response, AccountDone(w, r)
      PROVE  ActionsKnown'
  <2>1. /\ comparison'[w] = [comparison[w] EXCEPT !.response = r]
        /\ pending'[w] = Members(PeopleOf[message[w]])
        /\ pc'[w] = "write_contacts"
    BY <1>4 DEF IInv, TypeOK, AccountDone, Goto
  <2>2. comparison'[w].contacts = comparison[w].contacts
    BY <1>1, <2>1 DEF AccountComparison
  <2>3. MeetsHandled(w)'
    BY <1>1, <2>1, <2>2 DEF MeetsHandled
  <2>4. \A v \in Worker \ {w} :
          /\ pc'[v] = pc[v] /\ message'[v] = message[v]
          /\ comparison'[v] = comparison[v] /\ pending'[v] = pending[v]
    BY <1>1, <1>4 DEF IInv, TypeOK, AccountDone, Goto
  <2>5. QED
    BY <2>3, <2>4, OthersKeep
<1>5. QED
  BY <1>2, <1>3, <1>4

LEMMA WriteContactKnown ==
  ASSUME IInv, ActionsKnown, NEW w \in Worker, NEW c \in Contact, WriteContact(w, c)
  PROVE  ActionsKnown'
<1>1. /\ pc[w] = "write_contacts" /\ c \in pending[w]
      /\ \E r \in Response : ContactDone(w, c, r)
  BY DEF WriteContact, KeepContact, CannotWriteContact, CreateContact, UpdateContact,
         ContactNotFound, ContactCallFails, PendingContact, Response
<1>2. PICK r \in Response : ContactDone(w, c, r)
  BY <1>1
<1>3. comparison[w] \in AccountComparison
  BY <1>1 DEF IInv, TypeOK, OwnSubject, AfterComparing
<1>4. /\ comparison'[w] = [comparison[w] EXCEPT !.contacts[c].response = r]
      /\ pending'[w] = pending[w] \ {c} /\ message' = message
      /\ pc'[w] \in {"persist", "write_contacts"}
  BY <1>2 DEF IInv, TypeOK, ContactDone, Goto
<1>5. \A d \in Contact : comparison'[w].contacts[d].action = comparison[w].contacts[d].action
  BY <1>3, <1>4 DEF AccountComparison, ContactComparison
<1>6. MeetsHandled(w)'
  BY <1>1, <1>4, <1>5 DEF IInv, TypeOK, ActionsKnown, MeetsHandled
<1>7. \A v \in Worker \ {w} :
        /\ pc'[v] = pc[v] /\ message'[v] = message[v]
        /\ comparison'[v] = comparison[v] /\ pending'[v] = pending[v]
  BY <1>2 DEF IInv, TypeOK, ContactDone, Goto
<1>8. QED
  BY <1>6, <1>7, OthersKeep

(* Whatever the order of messages and whatever fails, Update is entered    *)
(* only with actions it has a branch for (AfterComparison, the condition   *)
(* in created_or_updated_processor.rb), so that no contact and no account  *)
(* falls through to "Unknown action".                                      *)
THEOREM UpdateHandlesAll == Spec => []ActionsKnown
<1>1. Init => ActionsKnown
  BY DEF Init, ActionsKnown, MeetsHandled
<1>2. IInv /\ ActionsKnown /\ [Next]_vars => ActionsKnown'
  <2> SUFFICES ASSUME IInv, ActionsKnown, [Next]_vars PROVE ActionsKnown'
    OBVIOUS
  <2>1. ASSUME NEW w \in Worker, NEW m \in Message, Deliver(w, m) PROVE ActionsKnown'
    BY <2>1, ElsewhereKnown
  <2>2. ASSUME NEW w \in Worker, Process(w) PROVE ActionsKnown'
    BY <2>2, ElsewhereKnown, CompareKnown, FetchAccountKnown, FetchContactsKnown,
       FindAccountKnown, WriteAccountKnown, WriteContactKnown
    DEF Process
  <2>3. ASSUME NEW w \in Worker, Crash(w) PROVE ActionsKnown'
    BY <2>3, ElsewhereKnown
  <2>4. CASE UNCHANGED vars
    BY <2>4 DEF ActionsKnown, MeetsHandled, vars, workerVars
  <2>5. QED
    BY <2>1, <2>2, <2>3, <2>4 DEF Next
<1>3. QED
  BY <1>1, <1>2, Invariance, PTL DEF Spec

=============================================================================
