------------------------- MODULE FamilyCrmProofs -------------------------
(***************************************************************************)
(* What the stored comparisons report about SugarCRM is true, and every    *)
(* contact there belongs to an account there.                              *)
(***************************************************************************)
EXTENDS FamilySyncProofs

(* SugarCRM forgets nothing in a step.                                     *)
Grows ==
  /\ \A i \in DOMAIN accounts : i \in DOMAIN accounts'
  /\ accounts # <<>> => accounts' # <<>>
  /\ \A c \in Contact : contacts[c] # <<>> => contacts'[c] # <<>>

(* Nothing is stored; the account id is dropped or kept, the comparison    *)
(* too.                                                                    *)
LEMMA OthersKept ==
  ASSUME CrmInv, NEW w \in Worker, Grows,
         \A v \in Worker \ {w} : sugarId'[v] = sugarId[v] /\ comparison'[v] = comparison[v],
         sugarId'[w] # 0 => sugarId'[w] \in DOMAIN accounts',
         comparison'[w] # None => Truthful(comparison[w])'
  PROVE  HeldTruthful'
<1>1. ASSUME NEW v \in Worker, v # w
      PROVE  /\ sugarId'[v] # 0 => sugarId'[v] \in DOMAIN accounts'
             /\ comparison'[v] # None => Truthful(comparison[v])'
  <2>1. sugarId'[v] = sugarId[v] /\ comparison'[v] = comparison[v]
    BY <1>1
  <2>2. sugarId'[v] # 0 => sugarId'[v] \in DOMAIN accounts'
    BY <2>1 DEF CrmInv, HeldTruthful, Grows
  <2>3. comparison'[v] # None => Truthful(comparison[v])'
    BY <2>1 DEF CrmInv, HeldTruthful, Grows, Truthful
  <2>4. QED
    BY <2>2, <2>3
<1>2. QED
  BY <1>1 DEF HeldTruthful

(* The rows keep their comparisons.                                        *)
LEMMA RowsKept ==
  ASSUME CrmInv, Grows,
         \A f \in FamilyId : families'[f] # None =>
           \/ families'[f].comparison = None
           \/ families[f] # None /\ families'[f].comparison = families[f].comparison
  PROVE  ReportedWritesExist'
<1>1. ASSUME NEW f \in FamilyId, families'[f] # None, families'[f].comparison # None
      PROVE  Truthful(families[f].comparison)'
  <2>1. families[f] # None /\ families'[f].comparison = families[f].comparison
    BY <1>1
  <2>2. Truthful(families[f].comparison)
    BY <1>1, <2>1 DEF CrmInv, ReportedWritesExist
  <2>3. QED
    BY <2>1, <2>2 DEF Grows, Truthful
<1>2. QED
  BY <1>1 DEF ReportedWritesExist

(***************************************************************************)
(* The steps.                                                              *)
(***************************************************************************)

(* A step that leaves SugarCRM and the rows alone, and at most drops what  *)
(* the worker holds.                                                       *)
LEMMA QuietStep ==
  ASSUME IInv, CrmInv, NEW w \in Worker,
         UNCHANGED <<accounts, contacts, families>>,
         \/ UNCHANGED <<sugarId, comparison>>
         \/ /\ sugarId' = [sugarId EXCEPT ![w] = 0]
            /\ comparison' = [comparison EXCEPT ![w] = None]
  PROVE  CrmInv'
<1>1. Grows
  BY DEF Grows
<1>2. /\ \A v \in Worker \ {w} : sugarId'[v] = sugarId[v] /\ comparison'[v] = comparison[v]
      /\ sugarId'[w] # 0 => sugarId'[w] = sugarId[w]
      /\ comparison'[w] # None => comparison'[w] = comparison[w]
  BY DEF IInv, TypeOK
<1>3. sugarId'[w] # 0 => sugarId'[w] \in DOMAIN accounts'
  BY <1>2 DEF CrmInv, HeldTruthful
<1>4. comparison'[w] # None => Truthful(comparison[w])'
  BY <1>2 DEF CrmInv, HeldTruthful, Truthful
<1>5. HeldTruthful'
  BY <1>1, <1>2, <1>3, <1>4, OthersKept
<1>6. ReportedWritesExist'
  BY <1>1, RowsKept
<1>7. NoOrphanContact'
  BY DEF CrmInv, NoOrphanContact
<1>8. QED
  BY <1>5, <1>6, <1>7 DEF CrmInv

LEMMA CreateFamilyCrm ==
  ASSUME IInv, CrmInv, NEW w \in Worker, CreateFamily(w)
  PROVE  CrmInv'
<1>1. UNCHANGED <<accounts, contacts, sugarId, comparison>>
  BY DEF CreateFamily, crmVars
<1>2. Grows
  BY <1>1 DEF Grows
<1>3. ReportedWritesExist'
  BY <1>2, RowsKept DEF CreateFamily, IInv, TypeOK
<1>4. HeldTruthful' /\ NoOrphanContact'
  BY <1>1 DEF CrmInv, HeldTruthful, NoOrphanContact, Truthful
<1>5. QED
  BY <1>3, <1>4 DEF CrmInv

(* A new comparison reports nothing yet.                                   *)
LEMMA ComparingCrm ==
  ASSUME IInv, CrmInv, NEW w \in Worker, NEW STATE cmp,
         comparison' = [comparison EXCEPT ![w] = cmp],
         cmp.response = "ok" => accounts # <<>>,
         \A c \in Contact : cmp.contacts[c].response # "ok",
         UNCHANGED <<accounts, contacts, families, sugarId>>
  PROVE  CrmInv'
<1>1. Grows
  BY DEF Grows
<1>2. /\ \A v \in Worker \ {w} : comparison'[v] = comparison[v]
      /\ comparison'[w] = cmp
  BY DEF IInv, TypeOK
<1>3. Truthful(comparison[w])'
  BY <1>2 DEF Truthful
<1>4. HeldTruthful'
  BY <1>1, <1>2, <1>3, OthersKept DEF CrmInv, HeldTruthful
<1>5. ReportedWritesExist'
  BY <1>1, RowsKept
<1>6. NoOrphanContact'
  BY DEF CrmInv, NoOrphanContact
<1>7. QED
  BY <1>4, <1>5, <1>6 DEF CrmInv

LEMMA CompareCrm ==
  ASSUME IInv, CrmInv, NEW w \in Worker, Compare(w)
  PROVE  CrmInv'
<1>1. UNCHANGED <<accounts, contacts, families, sugarId>>
  BY DEF Compare, crmVars, mongoVars
<1>2. CASE UNCHANGED comparison
  BY <1>1, <1>2, QuietStep
<1>3. ASSUME NEW e \in NewestOf(OtherFamilies(w)),
             comparison' = [comparison EXCEPT ![w] = CompareWithPrevious(message[w], e)]
      PROVE  CrmInv'
  <2> DEFINE cmp == CompareWithPrevious(message[w], e)
  <2>1. cmp.response = "none" /\ \A c \in Contact : cmp.contacts[c].response = "none"
    BY DEF CompareWithPrevious, StaleComparison, CompareAccountsAndContacts, FetchContactAction
  <2>2. comparison' = [comparison EXCEPT ![w] = cmp]
    BY <1>3
  <2> HIDE DEF cmp
  <2>3. QED
    BY <1>1, <2>1, <2>2, ComparingCrm
<1>4. QED
  BY <1>2, <1>3 DEF Compare

LEMMA FetchAccountCrm ==
  ASSUME IInv, CrmInv, NEW w \in Worker, FetchAccount(w)
  PROVE  CrmInv'
<1> DEFINE m == message[w]
           comparable == IF accounts = <<>> THEN NoData ELSE accounts[1]
           cmp == CompareAccountsAndContacts(AccountOf[m], PeopleOf[m],
                                             comparable, [c \in Contact |-> NoData])
<1>1. cmp.response = "none" /\ \A c \in Contact : cmp.contacts[c].response = "none"
  BY DEF CompareAccountsAndContacts, FetchContactAction
<1>2. /\ comparison' = [comparison EXCEPT ![w] = cmp]
      /\ UNCHANGED <<accounts, contacts, families, sugarId>>
  BY DEF FetchAccount, crmVars, mongoVars
<1> HIDE DEF cmp
<1>3. QED
  BY <1>1, <1>2, ComparingCrm

LEMMA FetchContactsCrm ==
  ASSUME IInv, CrmInv, NEW w \in Worker, FetchContacts(w)
  PROVE  CrmInv'
<1> DEFINE people == PeopleOf[message[w]]
           cmp == [comparison[w] EXCEPT !.contacts =
                    [c \in Contact |-> FetchContactAction(people[c], FirstLinked(c))]]
<1>1. comparison[w] \in AccountComparison /\ comparison[w] # None
  BY DEF IInv, TypeOK, OwnSubject, FetchContacts
<1>2. cmp.response = comparison[w].response /\ \A c \in Contact : cmp.contacts[c].response = "none"
  BY <1>1 DEF AccountComparison, FetchContactAction
<1>3. cmp.response = "ok" => accounts # <<>>
  BY <1>1, <1>2 DEF CrmInv, HeldTruthful, Truthful
<1>4. /\ comparison' = [comparison EXCEPT ![w] = cmp]
      /\ UNCHANGED <<accounts, contacts, families, sugarId>>
  BY DEF FetchContacts, crmVars, mongoVars
<1> HIDE DEF cmp
<1>5. QED
  BY <1>2, <1>3, <1>4, ComparingCrm

LEMMA FindAccountCrm ==
  ASSUME IInv, CrmInv, NEW w \in Worker, FindAccount(w)
  PROVE  CrmInv'
<1>1. UNCHANGED <<accounts, contacts, families, comparison>>
  BY DEF FindAccount, crmVars, mongoVars
<1>2. Grows
  BY <1>1 DEF Grows
<1>3. \A v \in Worker \ {w} : sugarId'[v] = sugarId[v]
  BY DEF FindAccount, IInv, TypeOK
<1>4. sugarId'[w] # 0 => sugarId'[w] \in DOMAIN accounts'
  <2>1. sugarId'[w] = IF accounts = <<>> THEN 0 ELSE 1
    BY DEF FindAccount, IInv, TypeOK
  <2>2. accounts # <<>> => 1 \in DOMAIN accounts
    BY DEF IInv, TypeOK
  <2>3. QED
    BY <1>1, <2>1, <2>2
<1>5. comparison'[w] # None => Truthful(comparison[w])'
  BY <1>1 DEF CrmInv, HeldTruthful, Truthful
<1>6. HeldTruthful'
  BY <1>1, <1>2, <1>3, <1>4, <1>5, OthersKept
<1>7. ReportedWritesExist'
  BY <1>1, <1>2, RowsKept
<1>8. NoOrphanContact'
  BY <1>1 DEF CrmInv, NoOrphanContact
<1>9. QED
  BY <1>6, <1>7, <1>8 DEF CrmInv

LEMMA PersistCrm ==
  ASSUME IInv, CrmInv, NEW w \in Worker, Persist(w)
  PROVE  CrmInv'
<1>1. UNCHANGED <<accounts, contacts, sugarId, comparison>>
  BY DEF Persist, crmVars
<1>2. comparison[w] # None /\ subject[w] \in FamilyId /\ families[subject[w]] \in FamilyRow
  BY DEF Persist, IInv, TypeOK, OwnSubject, AfterComparing, AfterCreation, Step
<1>3. Truthful(comparison[w])
  BY <1>2 DEF CrmInv, HeldTruthful
<1>4. ASSUME NEW f \in FamilyId, families'[f] # None, families'[f].comparison # None
      PROVE  Truthful(families[f].comparison)'
  <2>1. CASE f = subject[w]
    <3>1. families'[f].comparison = comparison[w]
      BY <1>2, <2>1 DEF Persist, IInv, TypeOK, FamilyRow
    <3>2. QED
      BY <1>1, <1>3, <3>1 DEF Truthful
  <2>2. CASE f # subject[w]
    <3>1. families'[f] = families[f]
      BY <2>2 DEF Persist, IInv, TypeOK
    <3>2. Truthful(families[f].comparison)
      BY <1>4, <3>1 DEF CrmInv, ReportedWritesExist
    <3>3. QED
      BY <1>1, <3>1, <3>2 DEF Truthful
  <2>3. QED
    BY <2>1, <2>2
<1>5. ReportedWritesExist'
  BY <1>4 DEF ReportedWritesExist
<1>6. HeldTruthful' /\ NoOrphanContact'
  BY <1>1 DEF CrmInv, HeldTruthful, NoOrphanContact, Truthful
<1>7. QED
  BY <1>5, <1>6 DEF CrmInv

(* A call for the account that left the accounts no fewer.                 *)
LEMMA CalledAccountCrm ==
  ASSUME IInv, CrmInv, NEW w \in Worker, pc[w] = "write_account",
         \A i \in DOMAIN accounts : i \in DOMAIN accounts',
         accounts' # <<>>,
         sugarId' = sugarId \/ \E i \in DOMAIN accounts' : sugarId' = [sugarId EXCEPT ![w] = i],
         \/ comparison' = comparison
         \/ comparison' = [comparison EXCEPT ![w].response = "ok"],
         UNCHANGED <<families, contacts>>
  PROVE  CrmInv'
<1>1. Grows
  BY DEF Grows
<1>2. \A v \in Worker \ {w} : sugarId'[v] = sugarId[v] /\ comparison'[v] = comparison[v]
  BY DEF IInv, TypeOK
<1>3. sugarId'[w] # 0 => sugarId'[w] \in DOMAIN accounts'
  BY DEF CrmInv, HeldTruthful, IInv, TypeOK
<1>4. Truthful(comparison[w])'
  <2>1. comparison[w] \in AccountComparison /\ comparison[w] # None
    BY DEF IInv, TypeOK, OwnSubject, AfterComparing
  <2>2. \A c \in Contact : comparison[w].contacts[c].response = "ok" => contacts[c] # <<>>
    BY <2>1 DEF CrmInv, HeldTruthful, Truthful
  <2>3. comparison'[w].contacts = comparison[w].contacts
    BY <2>1 DEF IInv, TypeOK, AccountComparison
  <2>4. QED
    BY <2>2, <2>3 DEF Truthful
<1>5. HeldTruthful'
  BY <1>1, <1>2, <1>3, <1>4, OthersKept
<1>6. ReportedWritesExist'
  BY <1>1, RowsKept
<1>7. NoOrphanContact'
  BY DEF CrmInv, NoOrphanContact
<1>8. QED
  BY <1>5, <1>6, <1>7 DEF CrmInv

LEMMA KeepAccountCrm ==
  ASSUME IInv, CrmInv, NEW w \in Worker, KeepAccount(w)
  PROVE  CrmInv'
<1> DEFINE cmp == [comparison[w] EXCEPT !.response = "none"]
<1>1. comparison[w] \in AccountComparison /\ comparison[w] # None
  BY DEF IInv, TypeOK, OwnSubject, KeepAccount, AfterComparing
<1>2. cmp.response = "none" /\ cmp.contacts = comparison[w].contacts
  BY <1>1 DEF AccountComparison
<1>3. /\ comparison' = [comparison EXCEPT ![w] = cmp]
      /\ UNCHANGED <<accounts, contacts, families, sugarId>>
  BY DEF KeepAccount, AccountDone, crmVars, mongoVars
<1> HIDE DEF cmp
<1>4. Grows
  BY <1>3 DEF Grows
<1>5. \A v \in Worker \ {w} : comparison'[v] = comparison[v]
  BY <1>3 DEF IInv, TypeOK
<1>6. comparison'[w] = cmp
  BY <1>3 DEF IInv, TypeOK
<1>7. Truthful(comparison[w])'
  BY <1>1, <1>2, <1>3, <1>6 DEF CrmInv, HeldTruthful, Truthful
<1>8. HeldTruthful'
  BY <1>3, <1>4, <1>5, <1>7, OthersKept DEF CrmInv, HeldTruthful
<1>9. ReportedWritesExist' /\ NoOrphanContact'
  BY <1>3, <1>4, RowsKept DEF CrmInv, NoOrphanContact
<1>10. QED
  BY <1>8, <1>9 DEF CrmInv

LEMMA CreateAccountCrm ==
  ASSUME IInv, CrmInv, NEW w \in Worker, CreateAccount(w)
  PROVE  CrmInv'
<1>1. pc[w] = "write_account" /\ AccountOf[message[w]] \in Data /\ accounts \in Seq(Data)
  BY WritingType DEF CreateAccount, IInv, TypeOK
<1>2. accounts' \in Created(accounts, AccountOf[message[w]])
  BY DEF CreateAccount
<1>3. /\ accounts' \in Seq(Data)
      /\ Len(accounts') > Len(accounts)
      /\ \A i \in DOMAIN accounts : i \in DOMAIN accounts'
  BY <1>1, <1>2, CreatedType
<1>4. accounts' # <<>> /\ Len(accounts') \in DOMAIN accounts'
  BY <1>1, <1>3
<1>5. /\ \/ sugarId' = sugarId
         \/ sugarId' = [sugarId EXCEPT ![w] = Len(accounts')]
      /\ \/ comparison' = comparison
         \/ comparison' = [comparison EXCEPT ![w].response = "ok"]
      /\ UNCHANGED <<families, contacts>>
  BY DEF CreateAccount, AccountDone, mongoVars
<1>6. QED
  BY <1>1, <1>3, <1>4, <1>5, CalledAccountCrm

LEMMA UpdateAccountCrm ==
  ASSUME IInv, CrmInv, NEW w \in Worker, UpdateAccount(w)
  PROVE  CrmInv'
<1>1. pc[w] = "write_account" /\ sugarId[w] # 0 /\ sugarId[w] \in DOMAIN accounts
  BY DEF UpdateAccount, CrmInv, HeldTruthful
<1>2. DOMAIN accounts' = DOMAIN accounts
  BY DEF UpdateAccount, IInv, TypeOK
<1>3. accounts' # <<>>
  <2>1. sugarId[w] \in DOMAIN accounts'
    BY <1>1, <1>2
  <2>2. DOMAIN <<>> = {}
    OBVIOUS
  <2>3. QED
    BY <2>1, <2>2
<1>4. /\ sugarId' = sugarId
      /\ \/ comparison' = comparison
         \/ comparison' = [comparison EXCEPT ![w].response = "ok"]
      /\ UNCHANGED <<families, contacts>>
  BY DEF UpdateAccount, AccountDone, mongoVars
<1>5. QED
  BY <1>1, <1>2, <1>3, <1>4, CalledAccountCrm

(* A contact is handled: the list of c does not shrink, every record in it *)
(* belongs to an account, and "ok" is only reported when there is one.     *)
LEMMA ContactDoneCrm ==
  ASSUME IInv, CrmInv, NEW w \in Worker, NEW c \in Contact, NEW r \in Response,
         pc[w] = "write_contacts",
         ContactDone(w, c, r),
         \A d \in Contact : d # c => contacts'[d] = contacts[d],
         contacts[c] # <<>> => contacts'[c] # <<>>,
         r = "ok" => contacts'[c] # <<>>,
         \A i \in DOMAIN contacts'[c] : contacts'[c][i].account \in DOMAIN accounts
  PROVE  CrmInv'
<1> DEFINE cmp == [comparison[w] EXCEPT !.contacts[c].response = r]
<1>1. comparison[w] \in AccountComparison /\ comparison[w] # None
  BY DEF IInv, TypeOK, OwnSubject, AfterComparing
<1>2. /\ cmp.response = comparison[w].response
      /\ cmp.contacts[c].response = r
      /\ \A d \in Contact : d # c => cmp.contacts[d] = comparison[w].contacts[d]
  BY <1>1 DEF AccountComparison, ContactComparison
<1>3. /\ comparison' = [comparison EXCEPT ![w] = cmp]
      /\ UNCHANGED <<accounts, families, sugarId>>
  BY DEF ContactDone, mongoVars
<1> HIDE DEF cmp
<1>4. Grows
  BY <1>3 DEF Grows
<1>5. comparison'[w] = cmp /\ \A v \in Worker \ {w} : comparison'[v] = comparison[v]
  BY <1>3 DEF IInv, TypeOK
<1>6. Truthful(comparison[w])
  BY <1>1 DEF CrmInv, HeldTruthful
<1>7. Truthful(comparison[w])'
  BY <1>2, <1>3, <1>5, <1>6 DEF Truthful
<1>8. HeldTruthful'
  BY <1>3, <1>4, <1>5, <1>7, OthersKept DEF CrmInv, HeldTruthful
<1>9. ReportedWritesExist'
  BY <1>3, <1>4, RowsKept
<1>10. NoOrphanContact'
  BY <1>3 DEF CrmInv, NoOrphanContact
<1>11. QED
  BY <1>8, <1>9, <1>10 DEF CrmInv

(* A created record belongs to the account whose id the worker holds.      *)
LEMMA CreatedRecords ==
  ASSUME NEW S, NEW s \in Seq(S), NEW d \in S, NEW t \in Created(s, d)
  PROVE  t # <<>> /\ \A i \in DOMAIN t : t[i] = d \/ (i \in DOMAIN s /\ t[i] = s[i])
BY DEF Created

LEMMA WriteContactCrm ==
  ASSUME IInv, CrmInv, NEW w \in Worker, NEW c \in Contact, WriteContact(w, c)
  PROVE  CrmInv'
<1>1. pc[w] = "write_contacts" /\ c \in pending[w]
  BY DEF WriteContact, KeepContact, CannotWriteContact, CreateContact, UpdateContact,
         ContactNotFound, ContactCallFails, PendingContact
<1>2. /\ contacts \in [Contact -> Seq(CrmContact)] /\ CrmRecord(w, c) \in CrmContact
      /\ CrmRecord(w, c).account = sugarId[w]
  BY <1>1, CrmRecordType DEF IInv, TypeOK, CrmRecord
<1>3. sugarId[w] # 0 => sugarId[w] \in DOMAIN accounts
  BY DEF CrmInv, HeldTruthful
<1>4. \A i \in DOMAIN contacts[c] : contacts[c][i].account \in DOMAIN accounts
  BY DEF CrmInv, NoOrphanContact
<1>5. {"none", "ok", "failed"} = Response
  BY DEF Response
<1>6. CASE contacts' = contacts /\ \E r \in {"none", "failed"} : ContactDone(w, c, r)
  BY <1>1, <1>4, <1>5, <1>6, ContactDoneCrm
<1>7. CASE CreateContact(w, c)
  <2>1. PICK list \in Created(contacts[c], CrmRecord(w, c)) :
          contacts' = [contacts EXCEPT ![c] = list]
    BY <1>7 DEF CreateContact
  <2>2. /\ list # <<>>
        /\ \A i \in DOMAIN list :
             list[i] = CrmRecord(w, c) \/ (i \in DOMAIN contacts[c] /\ list[i] = contacts[c][i])
    BY <1>2, <2>1, CreatedRecords
  <2>3. \A i \in DOMAIN list : list[i].account \in DOMAIN accounts
    BY <1>2, <1>3, <1>4, <1>7, <2>2 DEF CreateContact
  <2>4. contacts'[c] = list /\ \A d \in Contact : d # c => contacts'[d] = contacts[d]
    BY <1>2, <2>1
  <2>5. \E r \in Response : ContactDone(w, c, r)
    BY <1>5, <1>7 DEF CreateContact
  <2>6. QED
    BY <1>1, <2>2, <2>3, <2>4, <2>5, ContactDoneCrm
<1>8. CASE UpdateContact(w, c)
  <2> DEFINE list == [contacts[c] EXCEPT ![1] = CrmRecord(w, c)]
  <2>1. contacts' = [contacts EXCEPT ![c] = list] /\ contacts[c] # <<>> /\ sugarId[w] # 0
    BY <1>8 DEF UpdateContact
  <2>2. Len(list) = Len(contacts[c]) /\ DOMAIN list = DOMAIN contacts[c]
        /\ list \in Seq(CrmContact)
    BY <1>2, Overwrite
  <2>3. list # <<>>
    BY <1>2, <2>1, <2>2
  <2>4. \A i \in DOMAIN list : list[i].account \in DOMAIN accounts
    BY <1>2, <1>3, <1>4, <2>1, <2>2
  <2> HIDE DEF list
  <2>5. contacts'[c] = list /\ \A d \in Contact : d # c => contacts'[d] = contacts[d]
    BY <1>2, <2>1
  <2>6. \E r \in Response : ContactDone(w, c, r)
    BY <1>5, <1>8 DEF UpdateContact
  <2>7. QED
    BY <1>1, <2>3, <2>4, <2>5, <2>6, ContactDoneCrm
<1>9. QED
  BY <1>6, <1>7, <1>8 DEF WriteContact, KeepContact, CannotWriteContact, ContactNotFound,
                          ContactCallFails

LEMMA InitCrm == Init => CrmInv
<1> SUFFICES ASSUME Init PROVE CrmInv
  OBVIOUS
<1>1. HeldTruthful /\ ReportedWritesExist
  BY DEF Init, HeldTruthful, ReportedWritesExist
<1>2. NoOrphanContact
  <2>1. CASE contacts = [c \in Contact |-> <<>>]
    BY <2>1 DEF NoOrphanContact
  <2>2. ASSUME NEW d \in Preexisting, NEW known \in SUBSET Contact,
               accounts = <<d>>,
               contacts = [c \in Contact |->
                 IF c \in known THEN <<[data |-> d, account |-> 1]>> ELSE <<>>]
        PROVE  NoOrphanContact
    BY <2>2 DEF NoOrphanContact
  <2>3. QED
    BY <2>1, <2>2 DEF Init
<1>3. QED
  BY <1>1, <1>2 DEF CrmInv

LEMMA ProcessCrm ==
  ASSUME IInv, CrmInv, NEW w \in Worker, Process(w)
  PROVE  CrmInv'
<1>1. CASE Refuse(w) \/ AccountTransaction(w) \/ ContactTransactions(w)
           \/ CannotUpdateAccount(w) \/ Respond(w) \/ StepFails(w) \/ Ack(w)
  BY <1>1, QuietStep
  DEF Refuse, AccountTransaction, ContactTransactions, CannotUpdateAccount, Respond, StepFails,
      Ack, Release, crmVars, mongoVars
<1>2. QED
  BY <1>1, CreateFamilyCrm, CompareCrm, FetchAccountCrm, FetchContactsCrm, FindAccountCrm,
     KeepAccountCrm, CreateAccountCrm, UpdateAccountCrm, WriteContactCrm, PersistCrm
  DEF Process

LEMMA NextCrm == IInv /\ CrmInv /\ [Next]_vars => CrmInv'
<1> SUFFICES ASSUME IInv, CrmInv, [Next]_vars PROVE CrmInv'
  OBVIOUS
<1>1. ASSUME NEW w \in Worker, NEW m \in Message, Deliver(w, m) PROVE CrmInv'
  BY <1>1, QuietStep DEF Deliver, crmVars, mongoVars
<1>2. ASSUME NEW w \in Worker, Crash(w) PROVE CrmInv'
  BY <1>2, QuietStep DEF Crash, Release, crmVars, mongoVars
<1>3. CASE UNCHANGED vars
  BY <1>3 DEF CrmInv, HeldTruthful, Truthful, NoOrphanContact, ReportedWritesExist, vars,
              mongoVars, crmVars, workerVars
<1>4. QED
  BY <1>1, <1>2, <1>3, ProcessCrm DEF Next

LEMMA CrmInvariance == Spec => []CrmInv
BY InitCrm, NextCrm, Invariance, PTL DEF Spec

(* Every contact the pipeline leaves in SugarCRM belongs to an account     *)
(* that exists there (Update#create_contact and #update_contact never send *)
(* a contact without an account id).                                       *)
THEOREM ContactsBelong == Spec => []NoOrphanContact
<1>1. CrmInv => NoOrphanContact
  BY DEF CrmInv
<1>2. QED
  BY <1>1, CrmInvariance, PTL

(* A stored comparison that reports an accepted call is right: the account *)
(* or the contact is in SugarCRM (Update#call).                            *)
THEOREM ReportsAreTrue == Spec => []ReportedWritesExist
<1>1. CrmInv => ReportedWritesExist
  BY DEF CrmInv
<1>2. QED
  BY <1>1, CrmInvariance, PTL

=============================================================================
