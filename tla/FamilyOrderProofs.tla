------------------------- MODULE FamilyOrderProofs -------------------------
(***************************************************************************)
(* What in-order delivery of messages of different age gives: a message    *)
(* that comes again sends nothing again and, as long as nothing has        *)
(* failed, SugarCRM shows the newest message processed.                    *)
(***************************************************************************)
EXTENDS FamilyCrmProofs, SequenceTheorems

(***************************************************************************)
(* One worker at a time.                                                   *)
(***************************************************************************)

(* While w is busy nobody else is, or owns a row.                          *)
LEMMA OnlyBusy ==
  ASSUME IInv, OrderInv, NEW w \in Worker, pc[w] # "idle"
  PROVE  \A v \in Worker \ {w} : pc[v] = "idle" /\ subject[v] = 0
BY DEF IInv, TypeOK, OrderInv, HeldInOrder

(* What the busy worker holds, and the messages that have left a row.      *)
LEMMA BusyMessage ==
  ASSUME IInv, OrderInv, NEW w \in Worker, pc[w] # "idle"
  PROVE  /\ message[w] \in Message /\ broker[message[w]] = "delivered"
         /\ \A n \in Message : Timestamp[n] < Timestamp[message[w]] => broker[n] = "acked"
         /\ \A f \in FamilyId : families[f] # None =>
              /\ families[f].message \in Message
              /\ Timestamp[families[f].message] <= Timestamp[message[w]]
<1>1. message[w] \in Message /\ broker[message[w]] = "delivered"
  BY DEF IInv, OwnSubject, OrderInv, HeldInOrder
<1>2. \A n \in Message : Timestamp[n] < Timestamp[message[w]] => broker[n] = "acked"
  BY <1>1 DEF OrderInv, HeldInOrder
<1>3. ASSUME NEW f \in FamilyId, families[f] # None
      PROVE  /\ families[f].message \in Message
             /\ Timestamp[families[f].message] <= Timestamp[message[w]]
  <2>1. families[f].message \in Message
    BY <1>3 DEF IInv, TypeOK, FamilyRow
  <2>2. ~ (Timestamp[message[w]] < Timestamp[families[f].message])
    BY <1>1, <1>3, <2>1 DEF OrderInv, HeldInOrder
  <2>3. Timestamp[message[w]] \in Nat /\ Timestamp[families[f].message] \in Nat
    BY <1>1, <2>1, MessageAssumption
  <2>4. QED
    BY <2>1, <2>2, <2>3
<1>4. QED
  BY <1>1, <1>2, <1>3

(* A step of the busy worker w that leaves the broker, the rows' messages  *)
(* and the transactions alone.                                             *)
LEMMA SameOrder ==
  ASSUME IInv, OrderInv, NEW w \in Worker, pc[w] # "idle", pc'[w] # "idle",
         \A v \in Worker \ {w} : pc'[v] = pc[v],
         UNCHANGED <<broker, message, subject, stamp, clock>>,
         \A f \in FamilyId : /\ families[f] # None <=> families'[f] # None
                             /\ families'[f].message = families[f].message,
         pc'[w] \in Calling => pc[w] \in Calling
  PROVE  OrderInv'
<1>1. HeldInOrder'
  <2>1. \A v \in Worker : pc'[v] # "idle" <=> pc[v] # "idle"
    OBVIOUS
  <2>2. \A v \in Worker : subject[v] # 0 => subject[v] \in FamilyId
    BY DEF IInv, TypeOK
  <2>3. QED
    BY <2>1, <2>2 DEF OrderInv, HeldInOrder
<1>2. StampedInOrder'
  BY DEF OrderInv, StampedInOrder
<1>3. NoEarlierDelivery'
  BY DEF OrderInv, NoEarlierDelivery
<1>4. QED
  BY <1>1, <1>2, <1>3 DEF OrderInv

LEMMA DeliverOrder ==
  ASSUME Ordered, DistinctTimestamps, IInv, OrderInv,
         NEW w \in Worker, NEW m \in Message, Deliver(w, m)
  PROVE  OrderInv'
<1>1. /\ broker[m] = "queued" /\ broker' = [broker EXCEPT ![m] = "delivered"]
      /\ \A n \in Message : Timestamp[n] < Timestamp[m] => broker[n] = "acked"
      /\ message' = [message EXCEPT ![w] = m] /\ pc' = [pc EXCEPT ![w] = "create_family"]
      /\ UNCHANGED <<families, stamp, clock, subject>>
      /\ pc[w] = "idle"
  BY DEF Deliver, Goto, mongoVars
<1>2. \A v \in Worker : pc[v] = "idle"
  <2> SUFFICES ASSUME NEW v \in Worker, pc[v] # "idle" PROVE FALSE
    OBVIOUS
  <2>1. /\ message[v] \in Message /\ broker[message[v]] = "delivered"
        /\ Timestamp[m] < Timestamp[message[v]] => broker[m] = "acked"
    BY BusyMessage
  <2>2. Timestamp[message[v]] < Timestamp[m] => broker[message[v]] = "acked"
    BY <1>1, <2>1
  <2>3. Timestamp[m] \in Nat /\ Timestamp[message[v]] \in Nat
    BY <2>1, MessageAssumption
  <2>4. Timestamp[m] = Timestamp[message[v]]
    BY <1>1, <2>1, <2>2, <2>3
  <2>5. m = message[v]
    BY <2>1, <2>4 DEF DistinctTimestamps
  <2>6. QED
    BY <1>1, <2>1, <2>5
<1>3. HeldInOrder'
  BY <1>1, <1>2 DEF IInv, TypeOK, OrderInv, HeldInOrder
<1>4. StampedInOrder'
  BY <1>1 DEF OrderInv, StampedInOrder
<1>5. NoEarlierDelivery'
  BY <1>1, <1>2 DEF IInv, TypeOK, NoEarlierDelivery, Calling
<1>6. QED
  BY <1>3, <1>4, <1>5 DEF OrderInv

LEMMA CreateFamilyOrder ==
  ASSUME IInv, OrderInv, NEW w \in Worker, CreateFamily(w)
  PROVE  OrderInv'
<1> DEFINE row == [message |-> message[w], comparison |-> None]
<1>1. PICK f \in FamilyId : /\ families[f] = None
                            /\ families' = [families EXCEPT ![f] = row]
                            /\ subject' = [subject EXCEPT ![w] = f]
  BY DEF CreateFamily
<1>2. /\ pc[w] = "create_family" /\ pc' = [pc EXCEPT ![w] = "account_transaction"]
      /\ UNCHANGED <<broker, stamp, clock, message>>
  BY DEF CreateFamily, Goto
<1>3. message[w] \in Message /\ broker[message[w]] = "delivered"
  BY <1>2, BusyMessage
<1>4. row # None /\ row.message = message[w]
  BY <1>3, NewRow
<1>5. \A v \in Worker \ {w} : pc[v] = "idle" /\ subject[v] = 0
  BY <1>2, OnlyBusy
<1>6. /\ families'[f] = row
      /\ \A g \in FamilyId \ {f} : families'[g] = families[g]
      /\ \A v \in Worker \ {w} : pc'[v] = "idle" /\ subject'[v] = 0
      /\ pc'[w] = "account_transaction" /\ subject'[w] = f
  BY <1>1, <1>2, <1>5 DEF IInv, TypeOK
<1> HIDE DEF row
<1>7. HeldInOrder'
  <2>1. ASSUME NEW m \in Message, NEW g \in FamilyId, families'[g] # None, families'[g].message = m
        PROVE  broker[m] # "queued" \/ (families[g] # None /\ families[g].message = m)
    BY <1>3, <1>4, <1>6, <2>1
  <2>2. ASSUME NEW m \in Message, NEW n \in Message, Timestamp[n] < Timestamp[m],
               broker'[m] # "queued"
                 \/ \E g \in FamilyId : families'[g] # None /\ families'[g].message = m
        PROVE  broker'[n] = "acked"
    BY <1>2, <2>1, <2>2 DEF OrderInv, HeldInOrder
  <2>3. QED
    BY <1>2, <1>3, <1>4, <1>6, <2>2 DEF HeldInOrder
<1>8. StampedInOrder'
  <2>1. stamp[f] = 0
    BY <1>1 DEF IInv, TypeOK, OrderInv, StampedInOrder
  <2>2. QED
    BY <1>2, <1>6, <2>1 DEF OrderInv, StampedInOrder
<1>9. NoEarlierDelivery'
  BY <1>6 DEF NoEarlierDelivery, Calling
<1>10. QED
  BY <1>7, <1>8, <1>9 DEF OrderInv

(* A transaction for the busy worker's row, whose message is the newest.   *)
LEMMA TransactionOrder ==
  ASSUME IInv, OrderInv, NEW w \in Worker, pc[w] # "idle", subject[w] # 0,
         CreateTransaction(subject[w]),
         \A v \in Worker \ {w} : pc'[v] = pc[v],
         pc'[w] # "idle", pc'[w] \notin Calling,
         UNCHANGED <<broker, families, message, subject>>
  PROVE  OrderInv'
<1> DEFINE s == subject[w]
<1>1. s \in FamilyId /\ families[s] # None /\ families[s].message = message[w]
  BY DEF IInv, TypeOK, OwnSubject, OrderInv, HeldInOrder
<1>2. /\ clock \in Nat /\ stamp \in [FamilyId -> Nat]
      /\ clock' = clock + 1 /\ stamp' = [stamp EXCEPT ![s] = clock + 1]
  BY DEF IInv, TypeOK, CreateTransaction
<1>3. HeldInOrder'
  BY DEF OrderInv, HeldInOrder
<1>4. StampedInOrder'
  <2>1. \A f \in FamilyId : stamp[f] <= clock /\ (stamp[f] > 0 => families[f] # None)
    BY DEF OrderInv, StampedInOrder
  <2>2. \A f \in FamilyId : stamp'[f] <= clock' /\ (stamp'[f] > 0 => families'[f] # None)
    BY <1>1, <1>2, <2>1
  <2>3. ASSUME NEW f \in FamilyId, NEW g \in FamilyId, stamp'[f] > 0, stamp'[g] > 0,
               Timestamp[families[f].message] < Timestamp[families[g].message]
        PROVE  stamp'[f] < stamp'[g]
    <3>1. CASE g = s
      <4>1. f # s
        BY <1>1, <2>3, <3>1, BusyMessage, MessageAssumption
      <4>2. QED
        BY <1>2, <2>1, <3>1, <4>1
    <3>2. CASE g # s
      <4>1. stamp[g] > 0 /\ families[g] # None
        BY <1>1, <1>2, <2>1, <2>3, <3>2
      <4>2. families[g].message \in Message /\ message[w] \in Message
            /\ Timestamp[families[g].message] <= Timestamp[message[w]]
        BY <4>1, BusyMessage
      <4>3. Timestamp[families[g].message] \in Nat /\ Timestamp[message[w]] \in Nat
        BY <4>2, MessageAssumption
      <4>4. f # s
        BY <1>1, <2>3, <4>2, <4>3
      <4>5. QED
        BY <1>1, <1>2, <2>3, <3>2, <4>1, <4>4 DEF OrderInv, StampedInOrder
    <3>3. QED
      BY <3>1, <3>2
  <2>4. QED
    BY <2>2, <2>3 DEF StampedInOrder
<1>5. NoEarlierDelivery'
  BY OnlyBusy DEF NoEarlierDelivery, Calling
<1>6. QED
  BY <1>3, <1>4, <1>5 DEF OrderInv

(* The message leaves the broker's hands or goes back to it.               *)
LEMMA ReleaseOrder ==
  ASSUME IInv, OrderInv, NEW w \in Worker, pc[w] # "idle", Release(w),
         NEW CONSTANT settled \in {"acked", "queued"},
         broker' = [broker EXCEPT ![message[w]] = settled],
         UNCHANGED mongoVars
  PROVE  OrderInv'
<1>1. message[w] \in Message /\ broker[message[w]] = "delivered"
  BY BusyMessage
<1>2. \A v \in Worker : pc'[v] = "idle" /\ subject'[v] = 0
  BY OnlyBusy DEF IInv, TypeOK, Release, Goto
<1>3. \A m \in Message : /\ broker'[m] # "queued" => broker[m] # "queued"
                         /\ broker[m] = "acked" => broker'[m] = "acked"
  BY <1>1 DEF IInv, TypeOK
<1>4. HeldInOrder'
  BY <1>2, <1>3 DEF OrderInv, HeldInOrder, mongoVars
<1>5. StampedInOrder' /\ NoEarlierDelivery'
  BY <1>2 DEF OrderInv, StampedInOrder, NoEarlierDelivery, Calling, mongoVars
<1>6. QED
  BY <1>4, <1>5 DEF OrderInv

(***************************************************************************)
(* The comparison with the previous row.                                   *)
(***************************************************************************)

(* What a comparison without need for an update says of its parts.         *)
LEMMA NoopMeaning ==
  ASSUME NEW cmp \in AccountComparison, NoopOrStale(cmp)
  PROVE  /\ cmp.account \in {"noop", "stale"}
         /\ \A c \in Contact : cmp.contacts[c].action \in {cmp.account, "absent"}
<1>1. PICK action \in Action : AllActions(cmp, action)
  BY DEF NoopOrStale, ComparisonAction
<1>2. cmp.account \in {"noop", "stale"}
  BY <1>1 DEF NoopOrStale, ComparisonAction
<1>3. QED
  BY <1>1, <1>2 DEF AllActions

(* A payload compared with itself.                                         *)
LEMMA SelfCompare ==
  ASSUME NEW a \in Data, NEW p \in People
  PROVE  NoopOrStale(CompareAccountsAndContacts(a, p, a, p))
<1> DEFINE cmp == CompareAccountsAndContacts(a, p, a, p)
<1>1. cmp.account = "noop"
  BY NoDataAssumption DEF CompareAccountsAndContacts, FetchAction
<1>2. \A c \in Contact : cmp.contacts[c].action \in {"noop", "absent"}
  BY DEF CompareAccountsAndContacts, FetchContactAction, FetchAction
<1>3. AllActions(cmp, "noop") /\ "noop" \in Action
  BY <1>1, <1>2 DEF AllActions, Action
<1>4. QED
  BY <1>1, <1>3 DEF NoopOrStale, ComparisonAction

(* The rows another delivery may be compared with, and the eligible one:   *)
(* its message is as new as that of any row with a transaction, and is not *)
(* newer than the message in work.                                         *)
LEMMA Eligible ==
  ASSUME IInv, OrderInv, NEW w \in Worker, pc[w] # "idle",
         NEW g \in NewestOf(OtherFamilies(w))
  PROVE  /\ g \in FamilyId /\ families[g] # None
         /\ families[g].message \in Message
         /\ ~ IsStale(message[w], g)
         /\ \A f \in OtherFamilies(w) :
              Timestamp[families[f].message] <= Timestamp[families[g].message]
<1>1. g \in OtherFamilies(w) /\ \A f \in OtherFamilies(w) : stamp[f] <= stamp[g]
  BY DEF NewestOf
<1>2. g \in FamilyId /\ families[g] # None /\ stamp[g] > 0
  BY <1>1 DEF OtherFamilies
<1>3. /\ families[g].message \in Message /\ message[w] \in Message
      /\ Timestamp[families[g].message] <= Timestamp[message[w]]
  BY <1>2, BusyMessage
<1>4. ~ IsStale(message[w], g)
  BY <1>3, MessageAssumption DEF IsStale
<1>5. ASSUME NEW f \in OtherFamilies(w)
      PROVE  Timestamp[families[f].message] <= Timestamp[families[g].message]
  <2>1. f \in FamilyId /\ families[f] # None /\ stamp[f] > 0 /\ stamp[f] <= stamp[g]
    BY <1>1, <1>5 DEF OtherFamilies
  <2>2. families[f].message \in Message
    BY <2>1, BusyMessage
  <2>3. stamp[f] \in Nat /\ stamp[g] \in Nat
    BY <1>2, <2>1 DEF IInv, TypeOK
  <2>4. ~ (Timestamp[families[g].message] < Timestamp[families[f].message])
    BY <1>2, <2>1, <2>3 DEF OrderInv, StampedInOrder
  <2>5. QED
    BY <1>3, <2>2, <2>4, MessageAssumption
<1>6. QED
  BY <1>2, <1>3, <1>4, <1>5

LEMMA CompareOrder ==
  ASSUME DistinctTimestamps, IInv, OrderInv, NEW w \in Worker, Compare(w)
  PROVE  OrderInv'
<1> DEFINE m == message[w]
<1>1. /\ pc[w] = "compare"
      /\ UNCHANGED <<broker, families, stamp, clock, message, subject>>
  BY DEF Compare, mongoVars
<1>2. PICK step : pc' = [pc EXCEPT ![w] = step] /\ step \in {"fetch_account", "persist", "find_account"}
  BY DEF Compare, Goto, AfterComparison
<1>3. pc \in [Worker -> Step] /\ \A v \in Worker \ {w} : pc[v] = "idle"
  BY <1>1, OnlyBusy DEF IInv, TypeOK
<1>4. pc'[w] = step /\ \A v \in Worker \ {w} : pc'[v] = "idle"
  BY <1>2, <1>3
<1>5. HeldInOrder' /\ StampedInOrder'
  <2>1. \A v \in Worker : pc'[v] # "idle" <=> pc[v] # "idle"
    BY <1>1, <1>2, <1>3, <1>4
  <2>2. HeldInOrder'
    BY <1>1, <2>1 DEF OrderInv, HeldInOrder
  <2>3. StampedInOrder'
    BY <1>1 DEF OrderInv, StampedInOrder
  <2>4. QED
    BY <2>2, <2>3
<1>6. ASSUME step \in Calling,
             NEW f \in FamilyId \ {subject[w]}, families[f] # None, families[f].message = m
      PROVE  stamp[f] = 0
  <2> SUFFICES ASSUME stamp[f] # 0 PROVE FALSE
    OBVIOUS
  <2>1. f \in OtherFamilies(w)
    BY <1>6 DEF OtherFamilies, IInv, TypeOK
  <2>2. PICK g \in NewestOf(OtherFamilies(w)) :
          pc' = [pc EXCEPT ![w] = AfterComparison(CompareWithPrevious(m, g))]
    BY <2>1 DEF Compare, Goto
  <2>3. /\ g \in FamilyId /\ families[g] # None /\ families[g].message \in Message
        /\ ~ IsStale(m, g)
        /\ Timestamp[m] <= Timestamp[families[g].message]
        /\ m \in Message
    BY <1>1, <1>6, <2>1, Eligible, BusyMessage
  <2>4. families[g].message = m
    <3>1. Timestamp[m] \in Nat /\ Timestamp[families[g].message] \in Nat
      BY <2>3, MessageAssumption
    <3>2. Timestamp[m] = Timestamp[families[g].message]
      BY <2>3, <3>1 DEF IsStale
    <3>3. QED
      BY <2>3, <3>2 DEF DistinctTimestamps
  <2>5. NoopOrStale(CompareWithPrevious(m, g))
    BY <2>3, <2>4, SelfCompare, MessageAssumption DEF CompareWithPrevious, People
  <2>6. step = "persist"
    BY <1>2, <1>3, <2>2, <2>5 DEF AfterComparison
  <2>7. QED
    BY <1>6, <2>6 DEF Calling
<1>7. NoEarlierDelivery'
  BY <1>1, <1>4, <1>6 DEF NoEarlierDelivery, Calling
<1>8. QED
  BY <1>5, <1>7 DEF OrderInv

(***************************************************************************)
(* The remaining steps.                                                    *)
(***************************************************************************)

(* Everything between the comparison and the acknowledgement that neither  *)
(* creates a row nor a transaction.                                        *)
LEMMA WorkOrder ==
  ASSUME IInv, OrderInv, NEW w \in Worker,
         \/ Refuse(w) \/ FetchAccount(w) \/ FetchContacts(w) \/ FindAccount(w)
         \/ KeepAccount(w) \/ CreateAccount(w) \/ UpdateAccount(w) \/ CannotUpdateAccount(w)
         \/ \E c \in Contact : WriteContact(w, c)
         \/ StepFails(w)
  PROVE  OrderInv'
<1>1. pc \in [Worker -> Step]
  BY DEF IInv, TypeOK
<1>2. UNCHANGED <<broker, message, subject, families, stamp, clock>>
  BY DEF Refuse, FetchAccount, FetchContacts, FindAccount, KeepAccount, CreateAccount,
         UpdateAccount, CannotUpdateAccount, WriteContact, KeepContact, CannotWriteContact,
         CreateContact, UpdateContact, ContactNotFound, ContactCallFails, ContactDone,
         StepFails, mongoVars
<1>3. /\ pc[w] # "idle"
      /\ pc'[w] # "idle" /\ (pc'[w] \in Calling => pc[w] \in Calling)
      /\ \A v \in Worker \ {w} : pc'[v] = pc[v]
  <2>1. CASE Refuse(w) \/ StepFails(w) \/ CannotUpdateAccount(w)
    BY <1>1, <2>1 DEF Refuse, StepFails, CannotUpdateAccount, Goto, Calling
  <2>2. CASE FetchAccount(w) \/ FetchContacts(w) \/ FindAccount(w)
    BY <1>1, <2>2 DEF FetchAccount, FetchContacts, FindAccount, AfterComparison, Goto, Calling
  <2>3. CASE KeepAccount(w) \/ CreateAccount(w) \/ UpdateAccount(w)
    BY <1>1, <2>3 DEF KeepAccount, CreateAccount, UpdateAccount, AccountDone, Goto, Calling
  <2>4. CASE \E c \in Contact : WriteContact(w, c)
    BY <1>1, <2>4 DEF WriteContact, KeepContact, CannotWriteContact, CreateContact,
       UpdateContact, ContactNotFound, ContactCallFails, PendingContact, ContactDone, Goto,
       Calling
  <2>5. QED
    BY <2>1, <2>2, <2>3, <2>4
<1>4. QED
  BY <1>2, <1>3, SameOrder

LEMMA PersistOrder ==
  ASSUME IInv, OrderInv, NEW w \in Worker, Persist(w)
  PROVE  OrderInv'
<1> DEFINE row == [families[subject[w]] EXCEPT !.comparison = comparison[w]]
<1>1. /\ pc[w] = "persist" /\ subject[w] \in FamilyId /\ families[subject[w]] # None
      /\ families[subject[w]] \in FamilyRow
      /\ comparison[w] \in AccountComparison \cup {None}
  BY DEF IInv, TypeOK, OwnSubject, AfterCreation, Step, Persist
<1>2. row \in FamilyRow /\ row # None /\ row.message = families[subject[w]].message
  <2>1. row \in FamilyRow /\ row.message = families[subject[w]].message
    BY <1>1 DEF FamilyRow
  <2>2. QED
    BY <2>1, NoneAssumption
<1>3. families' = [families EXCEPT ![subject[w]] = row]
  BY DEF Persist
<1> HIDE DEF row
<1>4. \A f \in FamilyId : /\ families[f] # None <=> families'[f] # None
                          /\ families'[f].message = families[f].message
  BY <1>1, <1>2, <1>3 DEF IInv, TypeOK
<1>5. pc' = [pc EXCEPT ![w] = "respond"] /\ pc \in [Worker -> Step]
  BY DEF Persist, Goto, IInv, TypeOK
<1>6. UNCHANGED <<broker, message, subject, stamp, clock>>
  BY DEF Persist
<1>7. QED
  BY <1>1, <1>4, <1>5, <1>6, SameOrder DEF Calling

LEMMA TransactionsOrder ==
  ASSUME IInv, OrderInv, NEW w \in Worker,
         AccountTransaction(w) \/ ContactTransactions(w) \/ Respond(w)
  PROVE  OrderInv'
<1>1. /\ pc \in [Worker -> Step] /\ pc[w] # "idle" /\ subject[w] # 0
      /\ UNCHANGED <<broker, families, message, subject>>
  BY DEF IInv, TypeOK, OwnSubject, AfterCreation, Step, AccountTransaction,
         ContactTransactions, Respond
<1>2. /\ \A v \in Worker \ {w} : pc'[v] = pc[v]
      /\ pc'[w] # "idle" /\ pc'[w] \notin Calling
  BY <1>1 DEF AccountTransaction, ContactTransactions, Respond, Goto, Calling
<1>3. CreateTransaction(subject[w]) \/ UNCHANGED <<stamp, clock>>
  BY DEF AccountTransaction, ContactTransactions, Respond
<1>4. QED
  BY <1>1, <1>2, <1>3, TransactionOrder, SameOrder

LEMMA ReleasesOrder ==
  ASSUME IInv, OrderInv, NEW w \in Worker, Ack(w) \/ Crash(w)
  PROVE  OrderInv'
<1>1. pc[w] # "idle" /\ Release(w) /\ UNCHANGED mongoVars
  BY DEF Ack, Crash
<1>2. \/ broker' = [broker EXCEPT ![message[w]] = "acked"]
      \/ broker' = [broker EXCEPT ![message[w]] = "queued"]
  BY DEF Ack, Crash
<1>3. QED
  BY <1>1, <1>2, ReleaseOrder

LEMMA InitOrder == Init => OrderInv
<1> SUFFICES ASSUME Init PROVE OrderInv
  OBVIOUS
<1>1. /\ broker = [m \in Message |-> "queued"] /\ families = [f \in FamilyId |-> None]
      /\ stamp = [f \in FamilyId |-> 0] /\ clock = 0
      /\ pc = [w \in Worker |-> "idle"] /\ subject = [w \in Worker |-> 0]
  BY DEF Init
<1>2. HeldInOrder /\ StampedInOrder /\ NoEarlierDelivery
  BY <1>1 DEF HeldInOrder, StampedInOrder, NoEarlierDelivery, Calling
<1>3. QED
  BY <1>2 DEF OrderInv

LEMMA NextOrder ==
  ASSUME Ordered, DistinctTimestamps
  PROVE  IInv /\ OrderInv /\ [Next]_vars => OrderInv'
<1> SUFFICES ASSUME IInv, OrderInv, [Next]_vars PROVE OrderInv'
  OBVIOUS
<1>1. ASSUME NEW w \in Worker, NEW m \in Message, Deliver(w, m) PROVE OrderInv'
  BY <1>1, DeliverOrder
<1>2. ASSUME NEW w \in Worker, Process(w) PROVE OrderInv'
  BY <1>2, CreateFamilyOrder, CompareOrder, WorkOrder, PersistOrder, TransactionsOrder,
     ReleasesOrder DEF Process
<1>3. ASSUME NEW w \in Worker, Crash(w) PROVE OrderInv'
  BY <1>3, ReleasesOrder
<1>4. CASE UNCHANGED vars
  BY <1>4 DEF OrderInv, HeldInOrder, StampedInOrder, NoEarlierDelivery, vars, mongoVars,
              workerVars
<1>5. QED
  BY <1>1, <1>2, <1>3, <1>4 DEF Next

(* The invariant of in-order delivery: one message in work, older ones     *)
(* done, transactions in the order of their messages' age.                 *)
THEOREM OrderInvariance ==
  ASSUME Ordered, DistinctTimestamps
  PROVE  Spec => []OrderInv
BY InitOrder, NextOrder, Invariance, PTL DEF Spec

(* However often workers die, and whatever calls fail, a message that is   *)
(* delivered again after its transactions were created is compared with    *)
(* the row of its earlier delivery (fetch_eligible_subject) and sends      *)
(* nothing to SugarCRM.  Both hypotheses are needed: a message of the same *)
(* age, or a newer one, can come between two deliveries.                   *)
THEOREM RedeliverySilent ==
  ASSUME Ordered, DistinctTimestamps
  PROVE  Spec => []RedeliveryIsSilent
<1>1. OrderInv => RedeliveryIsSilent
  BY DEF OrderInv, NoEarlierDelivery, RedeliveryIsSilent, Calling
<1>2. QED
  BY <1>1, OrderInvariance, PTL

(***************************************************************************)
(* The rows, as long as nothing fails.                                     *)
(***************************************************************************)

Orderly == IInv /\ OrderInv

(* A step of the busy worker w that leaves the rows' messages alone and    *)
(* drops no transaction.                                                   *)
LEMMA RowsKeptSettled ==
  ASSUME Orderly, RowsSettled, NEW w \in Worker,
         pc[w] \notin {"idle", "create_family"}, pc'[w] \notin {"idle", "create_family"},
         pc[w] # "ack",
         pc'[w] = "ack" => subject[w] # 0 /\ stamp'[subject[w]] > 0,
         \A v \in Worker \ {w} : pc'[v] = pc[v],
         UNCHANGED <<broker, message, subject>>,
         \A f \in FamilyId : /\ families[f] # None <=> families'[f] # None
                             /\ families'[f].message = families[f].message
                             /\ stamp[f] > 0 => stamp'[f] > 0
  PROVE  RowsSettled'
<1>1. /\ message[w] \notin Malformed
      /\ \A v \in Worker \ {w} : pc[v] = "idle"
  BY OnlyBusy DEF Orderly, RowsSettled
<1>2. \A v \in Worker :
        /\ pc'[v] \notin {"idle", "create_family", "ack"} => message'[v] \notin Malformed
        /\ pc'[v] = "create_family" => subject'[v] = 0
        /\ pc'[v] = "ack" /\ message'[v] \notin Malformed =>
             subject'[v] # 0 /\ stamp'[subject'[v]] > 0
  BY <1>1
<1>3. \A m \in Processed' : \E f \in FamilyId :
        families'[f] # None /\ families'[f].message = m /\ stamp'[f] > 0
  BY DEF RowsSettled, Processed
<1>4. \A f \in FamilyId : families'[f] # None =>
        /\ families'[f].message \notin Malformed
        /\ broker'[families'[f].message] = "acked" \/ \E v \in Worker : subject'[v] = f
  BY DEF RowsSettled
<1>5. QED
  BY <1>2, <1>3, <1>4 DEF RowsSettled

LEMMA DeliverSettled ==
  ASSUME Orderly, RowsSettled, NEW w \in Worker, NEW m \in Message, Deliver(w, m)
  PROVE  RowsSettled'
<1>1. /\ pc[w] = "idle" /\ subject[w] = 0 /\ broker[m] = "queued"
      /\ broker' = [broker EXCEPT ![m] = "delivered"]
      /\ pc' = [pc EXCEPT ![w] = "create_family"] /\ message' = [message EXCEPT ![w] = m]
      /\ UNCHANGED <<families, stamp, subject>>
  BY DEF Deliver, Goto, mongoVars, Orderly, OrderInv, HeldInOrder
<1>2. \A n \in Message : broker'[n] = "acked" <=> broker[n] = "acked"
  BY <1>1 DEF Orderly, IInv, TypeOK
<1>3. Processed' = Processed
  BY <1>2 DEF Processed
<1>4. \A v \in Worker :
        /\ pc'[v] \notin {"idle", "create_family", "ack"} => message'[v] \notin Malformed
        /\ pc'[v] = "create_family" => subject'[v] = 0
        /\ pc'[v] = "ack" /\ message'[v] \notin Malformed =>
             subject'[v] # 0 /\ stamp'[subject'[v]] > 0
  BY <1>1 DEF Orderly, IInv, TypeOK, RowsSettled
<1>5. \A f \in FamilyId : families[f] # None => families[f].message \in Message
  BY DEF Orderly, IInv, TypeOK, FamilyRow
<1>6. QED
  BY <1>1, <1>2, <1>3, <1>4, <1>5 DEF RowsSettled

LEMMA RefuseSettled ==
  ASSUME Orderly, RowsSettled, NEW w \in Worker, Refuse(w)
  PROVE  RowsSettled'
<1>1. /\ message[w] \in Malformed /\ pc' = [pc EXCEPT ![w] = "ack"]
      /\ UNCHANGED <<broker, families, stamp, message, subject>>
  BY DEF Refuse, Goto, mongoVars
<1>2. QED
  BY <1>1 DEF Orderly, IInv, TypeOK, RowsSettled, Processed

LEMMA CreateFamilySettled ==
  ASSUME Orderly, RowsSettled, NEW w \in Worker, CreateFamily(w)
  PROVE  RowsSettled'
<1> DEFINE row == [message |-> message[w], comparison |-> None]
<1>1. PICK f \in FamilyId : /\ families[f] = None
                            /\ families' = [families EXCEPT ![f] = row]
                            /\ subject' = [subject EXCEPT ![w] = f]
  BY DEF CreateFamily
<1>2. /\ pc[w] = "create_family" /\ pc' = [pc EXCEPT ![w] = "account_transaction"]
      /\ message[w] \in Message \ Malformed
      /\ UNCHANGED <<broker, stamp, message>>
  BY DEF CreateFamily, Goto
<1>3. row # None /\ row.message = message[w]
  BY <1>2, NewRow
<1>4. /\ families'[f] = row /\ \A g \in FamilyId \ {f} : families'[g] = families[g]
      /\ subject'[w] = f /\ \A v \in Worker \ {w} : subject'[v] = subject[v]
      /\ pc'[w] = "account_transaction" /\ \A v \in Worker \ {w} : pc'[v] = pc[v]
  BY <1>1, <1>2 DEF Orderly, IInv, TypeOK
<1> HIDE DEF row
<1>5. subject[w] = 0 /\ 0 \notin FamilyId
  BY <1>2 DEF RowsSettled, FamilyId
<1>6. \A v \in Worker :
        /\ pc'[v] \notin {"idle", "create_family", "ack"} => message'[v] \notin Malformed
        /\ pc'[v] = "create_family" => subject'[v] = 0
        /\ pc'[v] = "ack" /\ message'[v] \notin Malformed =>
             subject'[v] # 0 /\ stamp'[subject'[v]] > 0
  BY <1>2, <1>4 DEF RowsSettled
<1>7. \A m \in Processed' : \E g \in FamilyId :
        families'[g] # None /\ families'[g].message = m /\ stamp'[g] > 0
  <2> SUFFICES ASSUME NEW m \in Processed
               PROVE  \E g \in FamilyId :
                        families'[g] # None /\ families'[g].message = m /\ stamp'[g] > 0
    BY <1>2 DEF Processed
  <2>1. PICK g \in FamilyId : families[g] # None /\ families[g].message = m /\ stamp[g] > 0
    BY DEF RowsSettled
  <2>2. g # f
    BY <1>1, <2>1
  <2>3. QED
    BY <1>2, <1>4, <2>1, <2>2
<1>8. ASSUME NEW g \in FamilyId, families'[g] # None
      PROVE  /\ families'[g].message \notin Malformed
             /\ broker'[families'[g].message] = "acked" \/ \E v \in Worker : subject'[v] = g
  <2>1. CASE g = f
    BY <1>2, <1>3, <1>4, <2>1
  <2>2. CASE g # f
    BY <1>2, <1>4, <1>5, <1>8, <2>2 DEF RowsSettled
  <2>3. QED
    BY <2>1, <2>2
<1>9. QED
  BY <1>6, <1>7, <1>8 DEF RowsSettled

LEMMA AckSettled ==
  ASSUME Orderly, RowsSettled, NEW w \in Worker, Ack(w)
  PROVE  RowsSettled'
<1>1. /\ pc[w] = "ack" /\ broker' = [broker EXCEPT ![message[w]] = "acked"]
      /\ UNCHANGED <<families, stamp>>
  BY DEF Ack, mongoVars
<1>2. /\ message[w] \in Message /\ \A v \in Worker \ {w} : pc[v] = "idle" /\ subject[v] = 0
      /\ subject[w] # 0 => subject[w] \in FamilyId /\ families[subject[w]].message = message[w]
                           /\ families[subject[w]] # None
  BY <1>1, OnlyBusy, BusyMessage
     DEF Orderly, OrderInv, HeldInOrder, IInv, TypeOK, OwnSubject
<1>3. \A v \in Worker : pc'[v] = "idle" /\ subject'[v] = 0
  BY <1>2 DEF Orderly, IInv, TypeOK, Ack, Release, Goto
<1>4. \A m \in Message : broker'[m] = "acked" <=> broker[m] = "acked" \/ m = message[w]
  BY <1>1 DEF Orderly, IInv, TypeOK
<1>5. \A f \in FamilyId : families[f] # None => families[f].message \in Message
  BY DEF Orderly, IInv, TypeOK, FamilyRow
<1>6. ASSUME NEW m \in Processed'
      PROVE  \E f \in FamilyId :
               families'[f] # None /\ families'[f].message = m /\ stamp'[f] > 0
  <2>1. CASE m = message[w]
    BY <1>1, <1>2, <1>6, <2>1 DEF RowsSettled, Processed
  <2>2. CASE m # message[w]
    BY <1>1, <1>4, <1>6, <2>2 DEF RowsSettled, Processed
  <2>3. QED
    BY <2>1, <2>2
<1>7. ASSUME NEW f \in FamilyId, families'[f] # None
      PROVE  /\ families'[f].message \notin Malformed
             /\ broker'[families'[f].message] = "acked"
  <2>1. f # 0
    BY DEF FamilyId
  <2>2. QED
    BY <1>1, <1>2, <1>4, <1>5, <1>7, <2>1 DEF RowsSettled
<1>8. QED
  BY <1>3, <1>6, <1>7 DEF RowsSettled

(* The steps a worker takes when nothing fails, other than those above.    *)
LEMMA WorkSettled ==
  ASSUME Orderly, RowsSettled, NEW w \in Worker,
         \/ AccountTransaction(w) \/ ContactTransactions(w) \/ Compare(w) \/ FetchAccount(w)
         \/ FetchContacts(w) \/ FindAccount(w) \/ KeepAccount(w) \/ CreateAccount(w)
         \/ UpdateAccount(w) \/ \E c \in Contact : WriteContact(w, c)
         \/ Respond(w),
         faults' = faults
  PROVE  RowsSettled'
<1>1. pc \in [Worker -> Step] /\ stamp \in [FamilyId -> Nat] /\ clock \in Nat
      /\ faults \in Nat
  BY DEF Orderly, IInv, TypeOK
<1>2. UNCHANGED <<broker, message, subject, families>>
  BY DEF AccountTransaction, ContactTransactions, Compare, FetchAccount, FetchContacts,
         FindAccount, KeepAccount, CreateAccount,
         UpdateAccount, WriteContact, KeepContact, CannotWriteContact,
         CreateContact, UpdateContact, ContactNotFound, ContactCallFails, ContactDone,
         Respond, mongoVars
<1>3. /\ pc[w] \in Step \ {"idle", "create_family", "ack"}
      /\ \A v \in Worker \ {w} : pc'[v] = pc[v]
      /\ pc'[w] \notin {"idle", "create_family"}
      /\ pc'[w] = "ack" => Respond(w)
  <2>0. ~ Fault
    BY <1>1 DEF Fault
  <2>1. CASE AccountTransaction(w) \/ ContactTransactions(w) \/ Compare(w) \/ Respond(w)
    BY <1>1, <2>1 DEF AccountTransaction, ContactTransactions, Compare, AfterComparison,
       Respond, Goto, Step
  <2>2. CASE FetchAccount(w) \/ FetchContacts(w) \/ FindAccount(w)
    BY <1>1, <2>2 DEF FetchAccount, FetchContacts, FindAccount, AfterComparison, Goto, Step
  <2>3. CASE KeepAccount(w) \/ CreateAccount(w) \/ UpdateAccount(w)
    BY <1>1, <2>0, <2>3 DEF KeepAccount, CreateAccount, UpdateAccount, AccountDone, Goto, Step
  <2>4. CASE \E c \in Contact : WriteContact(w, c)
    BY <1>1, <2>4 DEF WriteContact, KeepContact, CannotWriteContact, CreateContact,
       UpdateContact, ContactNotFound, ContactCallFails, PendingContact, ContactDone, Goto,
       Step
  <2>5. QED
    BY <2>1, <2>2, <2>3, <2>4
<1>4. subject[w] # 0 /\ subject[w] \in FamilyId
  BY <1>3 DEF Orderly, IInv, TypeOK, OwnSubject, AfterCreation
<1>5. \/ UNCHANGED stamp
      \/ stamp' = [stamp EXCEPT ![subject[w]] = clock + 1]
  BY DEF AccountTransaction, ContactTransactions, Compare, FetchAccount, FetchContacts,
         FindAccount, KeepAccount, CreateAccount,
         UpdateAccount, WriteContact, KeepContact, CannotWriteContact,
         CreateContact, UpdateContact, ContactNotFound, ContactCallFails, ContactDone,
         Respond, CreateTransaction, mongoVars
<1>6. \A f \in FamilyId : stamp[f] > 0 => stamp'[f] > 0
  BY <1>1, <1>5
<1>7. Respond(w) => stamp'[subject[w]] > 0
  BY <1>1, <1>4 DEF Respond, CreateTransaction
<1>8. QED
  BY <1>2, <1>3, <1>4, <1>6, <1>7, RowsKeptSettled

LEMMA PersistSettled ==
  ASSUME Orderly, RowsSettled, NEW w \in Worker, Persist(w)
  PROVE  RowsSettled'
<1> DEFINE row == [families[subject[w]] EXCEPT !.comparison = comparison[w]]
<1>1. /\ pc[w] = "persist" /\ subject[w] \in FamilyId /\ families[subject[w]] # None
      /\ families[subject[w]] \in FamilyRow
      /\ comparison[w] \in AccountComparison \cup {None}
  BY DEF Orderly, IInv, TypeOK, OwnSubject, AfterCreation, Step, Persist
<1>2. row \in FamilyRow /\ row # None /\ row.message = families[subject[w]].message
  <2>1. row \in FamilyRow /\ row.message = families[subject[w]].message
    BY <1>1 DEF FamilyRow
  <2>2. QED
    BY <2>1, NoneAssumption
<1>3. families' = [families EXCEPT ![subject[w]] = row]
  BY DEF Persist
<1> HIDE DEF row
<1>4. \A f \in FamilyId : /\ families[f] # None <=> families'[f] # None
                          /\ families'[f].message = families[f].message
  BY <1>1, <1>2, <1>3 DEF Orderly, IInv, TypeOK
<1>5. pc' = [pc EXCEPT ![w] = "respond"] /\ pc \in [Worker -> Step]
  BY DEF Persist, Goto, Orderly, IInv, TypeOK
<1>6. UNCHANGED <<broker, message, subject, stamp>>
  BY DEF Persist
<1>7. QED
  BY <1>1, <1>4, <1>5, <1>6, RowsKeptSettled

(***************************************************************************)
(* The messages that have reached SugarCRM.                                *)
(***************************************************************************)

(* They are older than the message in work, if they are not that message.  *)
LEMMA ReachedOlder ==
  ASSUME DistinctTimestamps, Orderly, NEW w \in Worker, pc[w] # "idle", NEW n \in Reached
  PROVE  /\ n \in Message \ Malformed
         /\ n # message[w] => n \in Processed /\ Timestamp[n] < Timestamp[message[w]]
<1>1. /\ message[w] \in Message /\ broker[message[w]] = "delivered"
      /\ \A v \in Worker \ {w} : pc[v] = "idle"
  BY OnlyBusy, BusyMessage DEF Orderly
<1>2. n \in Processed \/ (n = message[w] /\ n \notin Malformed)
  BY <1>1 DEF Reached, AccountHandled
<1>3. ASSUME n \in Processed, n # message[w]
      PROVE  Timestamp[n] < Timestamp[message[w]]
  <2>1. n \in Message /\ broker[n] = "acked"
    BY <1>3 DEF Processed
  <2>2. ~ (Timestamp[message[w]] < Timestamp[n])
    BY <1>1, <2>1 DEF Orderly, OrderInv, HeldInOrder
  <2>3. Timestamp[message[w]] # Timestamp[n]
    BY <1>1, <1>3, <2>1 DEF DistinctTimestamps
  <2>4. Timestamp[message[w]] \in Nat /\ Timestamp[n] \in Nat
    BY <1>1, <2>1, MessageAssumption
  <2>5. QED
    BY <2>2, <2>3, <2>4
<1>4. QED
  BY <1>1, <1>2, <1>3 DEF Processed

(* A step of the busy worker w that acknowledges nothing.                  *)
LEMMA ReachedStep ==
  ASSUME Orderly, NEW w \in Worker, pc[w] # "idle",
         \A v \in Worker \ {w} : pc'[v] = pc[v],
         UNCHANGED <<broker, message>>
  PROVE  /\ message[w] \in Malformed \/ (pc'[w] \in AccountHandled <=> pc[w] \in AccountHandled)
            => Reached' = Reached
         /\ message[w] \notin Malformed /\ pc'[w] \in AccountHandled
            => Reached' = Reached \cup {message[w]}
<1>1. message[w] \in Message /\ \A v \in Worker \ {w} : pc[v] = "idle"
  BY OnlyBusy, BusyMessage DEF Orderly
<1>2. Processed' = Processed
  BY DEF Processed
<1>3. Reached = Processed \cup
        {m \in Message : m = message[w] /\ m \notin Malformed /\ pc[w] \in AccountHandled}
  BY <1>1 DEF Reached, AccountHandled
<1>4. Reached' = Processed \cup
        {m \in Message : m = message[w] /\ m \notin Malformed /\ pc'[w] \in AccountHandled}
  BY <1>1, <1>2 DEF Reached, AccountHandled
<1>5. QED
  BY <1>1, <1>3, <1>4

LEMMA BusyNewest ==
  ASSUME DistinctTimestamps, Orderly, NEW w \in Worker, pc[w] \in AccountHandled,
         message[w] \notin Malformed
  PROVE  Newest(message[w]) /\ message[w] \in Message
<1>1. pc[w] # "idle"
  BY DEF AccountHandled
<1>2. message[w] \in Message /\ message[w] \in Reached
  BY <1>1, BusyMessage DEF Orderly, Reached
<1>3. \A n \in Reached : Timestamp[n] <= Timestamp[message[w]]
  BY <1>1, <1>2, ReachedOlder, MessageAssumption
<1>4. QED
  BY <1>2, <1>3 DEF Newest

LEMMA ReachedDeliver ==
  ASSUME Orderly, NEW w \in Worker, NEW m \in Message, Deliver(w, m)
  PROVE  Reached' = Reached
<1>1. /\ pc[w] = "idle" /\ broker[m] = "queued"
      /\ broker' = [broker EXCEPT ![m] = "delivered"]
      /\ pc' = [pc EXCEPT ![w] = "create_family"] /\ message' = [message EXCEPT ![w] = m]
  BY DEF Deliver, Goto
<1>2. Processed' = Processed
  BY <1>1 DEF Orderly, IInv, TypeOK, Processed
<1>3. \A v \in Worker : /\ pc'[v] \in AccountHandled <=> pc[v] \in AccountHandled
                        /\ pc[v] \in AccountHandled => message'[v] = message[v]
  BY <1>1 DEF Orderly, IInv, TypeOK, AccountHandled
<1>4. QED
  BY <1>2, <1>3 DEF Reached

LEMMA ReachedAck ==
  ASSUME Orderly, NEW w \in Worker, Ack(w)
  PROVE  Reached' = Reached
<1>1. /\ pc[w] = "ack" /\ broker' = [broker EXCEPT ![message[w]] = "acked"]
  BY DEF Ack
<1>2. /\ message[w] \in Message /\ \A v \in Worker \ {w} : pc[v] = "idle"
  BY <1>1, OnlyBusy, BusyMessage DEF Orderly
<1>3. \A v \in Worker : pc'[v] = "idle"
  BY <1>2 DEF Orderly, IInv, TypeOK, Ack, Release, Goto
<1>4. Processed' = Processed \cup ({message[w]} \ Malformed)
  BY <1>1, <1>2 DEF Orderly, IInv, TypeOK, Processed
<1>5. Reached = Processed \cup ({message[w]} \ Malformed)
  BY <1>1, <1>2 DEF Reached, AccountHandled
<1>6. Reached' = Processed'
  BY <1>3 DEF Reached, AccountHandled
<1>7. QED
  BY <1>4, <1>5, <1>6

(***************************************************************************)
(* What a step does to the mirror: nothing, or it moves on to message m.   *)
(***************************************************************************)

Stays == CrmAccount' = CrmAccount /\ Reached' = Reached

Moves(m) ==
  /\ m \in Message \ Malformed
  /\ CrmAccount' = AccountOf[m]
  /\ Reached' = Reached \cup {m}
  /\ \A n \in Reached : n \in Message /\ Timestamp[n] <= Timestamp[m]

LEMMA MirrorStays ==
  ASSUME AccountMirrored, Stays, \A v \in Worker : AccountCompared(v)'
  PROVE  AccountMirrored'
<1>1. \A m \in Message : Newest(m)' <=> Newest(m)
  BY DEF Stays, Newest
<1>2. QED
  BY <1>1 DEF AccountMirrored, Stays

LEMMA MirrorMoves ==
  ASSUME DistinctTimestamps, NEW m, Moves(m), \A v \in Worker : AccountCompared(v)'
  PROVE  /\ AccountMirrored'
         /\ Newest(m)' /\ \A n \in Message : Newest(n)' => n = m
<1>1. \A n \in Reached' : Timestamp[n] <= Timestamp[m] /\ Timestamp[n] \in Nat /\ n \in Message
  BY MessageAssumption DEF Moves
<1>2. Newest(m)' /\ m \in Message
  BY <1>1 DEF Newest, Moves
<1>3. ASSUME NEW n \in Message, Newest(n)' PROVE n = m
  <2>1. Timestamp[m] <= Timestamp[n] /\ n \in Reached' /\ m \in Reached'
    BY <1>2, <1>3 DEF Newest
  <2>2. Timestamp[m] = Timestamp[n]
    BY <1>1, <2>1
  <2>3. QED
    BY <1>2, <2>2 DEF DistinctTimestamps
<1>4. QED
  BY <1>2, <1>3 DEF AccountMirrored, Moves

(* The account calls of w are answered, or were found unnecessary.         *)
LEMMA WorkerMoves ==
  ASSUME DistinctTimestamps, Orderly, NEW w \in Worker, pc[w] # "idle",
         message[w] \notin Malformed, pc'[w] \in AccountHandled,
         \A v \in Worker \ {w} : pc'[v] = pc[v],
         UNCHANGED <<broker, message>>,
         CrmAccount' = AccountOf[message[w]]
  PROVE  Moves(message[w])
<1>1. Reached' = Reached \cup {message[w]}
  BY ReachedStep
<1>2. message[w] \in Message
  BY BusyMessage DEF Orderly
<1>3. \A n \in Reached : n \in Message /\ Timestamp[n] <= Timestamp[message[w]]
  BY <1>2, ReachedOlder, MessageAssumption
<1>4. QED
  BY <1>1, <1>2, <1>3 DEF Moves

(* Of the other workers nothing is asked while one is busy.                *)
LEMMA OthersCompared ==
  ASSUME Orderly, NEW w \in Worker, pc[w] # "idle",
         \A v \in Worker \ {w} : pc'[v] = pc[v]
  PROVE  \A v \in Worker \ {w} : AccountCompared(v)'
<1>1. \A v \in Worker \ {w} : pc'[v] = "idle"
  BY OnlyBusy DEF Orderly
<1>2. QED
  BY <1>1 DEF AccountCompared

LEMMA AccountData ==
  ASSUME IInv
  PROVE  /\ CrmAccount \in Data \cup {NoData}
         /\ CrmAccount = NoData <=> accounts = <<>>
         /\ accounts # <<>> => CrmAccount = accounts[1] /\ 1 \in DOMAIN accounts
<1>1. accounts # <<>> => accounts[1] \in Data /\ 1 \in DOMAIN accounts
  BY DEF IInv, TypeOK
<1>2. QED
  BY <1>1, NoDataAssumption DEF CrmAccount

(* The eligible row is that of the newest message that reached SugarCRM.   *)
LEMMA EligibleNewest ==
  ASSUME DistinctTimestamps, Orderly, RowsSettled,
         NEW w \in Worker, pc[w] = "compare", NEW g \in NewestOf(OtherFamilies(w))
  PROVE  Newest(families[g].message) /\ families[g].message \in Message
<1> DEFINE l == families[g].message
<1>1. /\ g \in FamilyId /\ families[g] # None /\ l \in Message
      /\ g # subject[w]
  BY Eligible DEF Orderly, NewestOf, OtherFamilies
<1>2. broker[message[w]] = "delivered" /\ \A v \in Worker \ {w} : pc[v] = "idle" /\ subject[v] = 0
  BY OnlyBusy, BusyMessage DEF Orderly
<1>3. l \in Processed
  BY <1>1, <1>2 DEF RowsSettled, Processed, FamilyId
<1>4. ASSUME NEW n \in Reached PROVE Timestamp[n] <= Timestamp[l]
  <2>1. n \in Processed
    BY <1>2 DEF Reached, AccountHandled
  <2>2. PICK f \in FamilyId : families[f] # None /\ families[f].message = n /\ stamp[f] > 0
    BY <2>1 DEF RowsSettled
  <2>3. f # subject[w]
    BY <1>2, <2>1, <2>2 DEF Processed, Orderly, OrderInv, HeldInOrder, FamilyId
  <2>4. f \in OtherFamilies(w)
    BY <2>2, <2>3 DEF OtherFamilies
  <2>5. QED
    BY <2>2, <2>4, Eligible DEF Orderly
<1>5. QED
  BY <1>1, <1>3, <1>4 DEF Newest, Reached

(***************************************************************************)
(* The steps, as long as nothing fails.                                    *)
(***************************************************************************)

MirrorStep ==
  /\ Stays \/ \E m \in Message : Moves(m)
  /\ \A v \in Worker : AccountCompared(v)'

Settled == RowsSettled /\ AccountMirrored

LEMMA WorkerStays ==
  ASSUME Orderly, NEW w \in Worker, pc[w] # "idle",
         \A v \in Worker \ {w} : pc'[v] = pc[v],
         UNCHANGED <<broker, message, accounts>>,
         message[w] \in Malformed \/ (pc'[w] \in AccountHandled <=> pc[w] \in AccountHandled),
         AccountCompared(w)'
  PROVE  MirrorStep
<1>1. Reached' = Reached
  BY ReachedStep
<1>2. Stays
  BY <1>1 DEF Stays, CrmAccount
<1>3. QED
  BY <1>2, OthersCompared DEF MirrorStep

LEMMA DeliverMirrors ==
  ASSUME Orderly, Settled, NEW w \in Worker, NEW m \in Message, Deliver(w, m)
  PROVE  MirrorStep
<1>1. Stays
  BY ReachedDeliver DEF Stays, CrmAccount, Deliver, crmVars
<1>2. ASSUME NEW v \in Worker PROVE AccountCompared(v)'
  <2>1. /\ pc'[v] = "create_family" \/ (pc'[v] = pc[v] /\ message'[v] = message[v])
        /\ UNCHANGED <<accounts, comparison, sugarId>>
    BY DEF Orderly, IInv, TypeOK, Deliver, Goto, crmVars
  <2>2. QED
    BY <2>1 DEF Settled, AccountMirrored, AccountCompared, CrmAccount
<1>3. QED
  BY <1>1, <1>2 DEF MirrorStep

LEMMA AckMirrors ==
  ASSUME Orderly, Settled, NEW w \in Worker, Ack(w)
  PROVE  MirrorStep
<1>1. Stays
  BY ReachedAck DEF Stays, CrmAccount, Ack, crmVars
<1>2. \A v \in Worker : pc'[v] = "idle"
  BY OnlyBusy DEF Orderly, IInv, TypeOK, Ack, Release, Goto
<1>3. QED
  BY <1>1, <1>2 DEF MirrorStep, AccountCompared

(* Before and after the steps that make or use a comparison of accounts.   *)
LEMMA ElsewhereMirrors ==
  ASSUME Orderly, Settled, NEW w \in Worker,
         \/ Refuse(w) \/ CreateFamily(w) \/ AccountTransaction(w) \/ ContactTransactions(w)
         \/ Persist(w) \/ Respond(w)
  PROVE  MirrorStep
<1>1. /\ UNCHANGED <<broker, message, accounts>>
      /\ pc[w] # "idle" /\ \A v \in Worker \ {w} : pc'[v] = pc[v]
      /\ message[w] \in Malformed \/ (pc'[w] \in AccountHandled <=> pc[w] \in AccountHandled)
      /\ pc'[w] \in {"account_transaction", "contact_transactions", "compare", "respond", "ack"}
  BY DEF Orderly, IInv, TypeOK, Refuse, CreateFamily, AccountTransaction,
         ContactTransactions, Persist, Respond, Goto, crmVars, AccountHandled
<1>2. AccountCompared(w)'
  BY <1>1 DEF AccountCompared
<1>3. QED
  BY <1>1, <1>2, WorkerStays

LEMMA WriteContactMirrors ==
  ASSUME Orderly, Settled, NEW w \in Worker, NEW c \in Contact, WriteContact(w, c)
  PROVE  MirrorStep
<1>1. /\ pc[w] = "write_contacts"
      /\ ContactDone(w, c, "none") \/ ContactDone(w, c, "ok") \/ ContactDone(w, c, "failed")
  BY DEF WriteContact, KeepContact, CannotWriteContact, CreateContact, UpdateContact,
         ContactNotFound, ContactCallFails, PendingContact
<1>2. /\ UNCHANGED <<broker, message, accounts, sugarId>>
      /\ pc'[w] \in {"persist", "write_contacts"} /\ \A v \in Worker \ {w} : pc'[v] = pc[v]
  BY <1>1 DEF Orderly, IInv, TypeOK, ContactDone, Goto
<1>3. AccountCompared(w)'
  BY <1>1, <1>2 DEF Settled, AccountMirrored, AccountCompared
<1>4. QED
  BY <1>1, <1>2, <1>3, WorkerStays DEF AccountHandled

(* The action a comparison with a value stands for.                        *)
LEMMA ActionMeaning ==
  ASSUME NEW a, NEW b
  PROVE  /\ FetchAction(a, b) = "noop" => a = b /\ b # NoData
         /\ FetchAction(a, b) = "create" <=> b = NoData
         /\ FetchAction(a, b) = "update" => b # NoData
         /\ FetchAction(a, b) \in {"create", "noop", "update"}
BY DEF FetchAction

LEMMA CompareMirrors ==
  ASSUME DistinctTimestamps, Orderly, Settled, NEW w \in Worker, Compare(w)
  PROVE  MirrorStep
<1> DEFINE m == message[w]
<1>1. /\ pc[w] = "compare" /\ m \in Message \ Malformed
      /\ UNCHANGED <<broker, message, accounts, sugarId>>
      /\ pc \in [Worker -> Step] /\ comparison \in [Worker -> AccountComparison \cup {None}]
  BY BusyMessage DEF Compare, crmVars, Orderly, Settled, RowsSettled, IInv, TypeOK
<1>2. CASE OtherFamilies(w) = {} /\ Goto(w, "fetch_account")
  <2>1. pc'[w] = "fetch_account" /\ \A v \in Worker \ {w} : pc'[v] = pc[v]
    BY <1>1, <1>2 DEF Goto
  <2>2. AccountCompared(w)'
    BY <2>1 DEF AccountCompared
  <2>3. QED
    BY <1>1, <2>1, <2>2, WorkerStays DEF AccountHandled
<1>3. ASSUME NEW g \in NewestOf(OtherFamilies(w)),
             comparison' = [comparison EXCEPT ![w] = CompareWithPrevious(m, g)],
             Goto(w, AfterComparison(CompareWithPrevious(m, g)))
      PROVE  MirrorStep
  <2> DEFINE l == families[g].message
             cmp == CompareWithPrevious(m, g)
  <2>1. /\ l \in Message /\ Newest(l) /\ ~ IsStale(m, g)
        /\ g \in FamilyId /\ families[g] # None
    BY <1>1, EligibleNewest, Eligible DEF Settled, Orderly
  <2>2. CrmAccount = AccountOf[l]
    BY <2>1 DEF Settled, AccountMirrored
  <2>3. cmp \in AccountComparison
    BY <1>1, <2>1, PreviousType DEF Orderly, IInv
  <2>4. cmp.account = FetchAction(AccountOf[m], CrmAccount)
    BY <2>1, <2>2 DEF CompareWithPrevious, CompareAccountsAndContacts
  <2>5. /\ pc'[w] = AfterComparison(cmp) /\ \A v \in Worker \ {w} : pc'[v] = pc[v]
        /\ comparison'[w] = cmp
    BY <1>1, <1>3 DEF Goto
  <2> HIDE DEF cmp
  <2>6. CASE NoopOrStale(cmp)
    <3>1. cmp.account = "noop"
      BY <2>3, <2>4, <2>6, NoopMeaning, ActionMeaning
    <3>2. AccountOf[m] = CrmAccount
      BY <2>4, <3>1, ActionMeaning
    <3>3. pc'[w] = "persist"
      BY <2>5, <2>6 DEF AfterComparison
    <3>4. CrmAccount' = AccountOf[m]
      BY <1>1, <3>2 DEF CrmAccount
    <3>5. Moves(m)
      BY <1>1, <2>5, <3>3, <3>4, WorkerMoves DEF AccountHandled
    <3>6. AccountCompared(w)'
      BY <3>3 DEF AccountCompared
    <3>7. QED
      BY <1>1, <2>5, <3>5, <3>6, OthersCompared DEF MirrorStep
  <2>7. CASE ~ NoopOrStale(cmp)
    <3>1. pc'[w] = "find_account"
      BY <2>5, <2>7 DEF AfterComparison
    <3>2. AccountCompared(w)'
      BY <1>1, <2>4, <2>5, <3>1 DEF AccountCompared, CrmAccount
    <3>3. QED
      BY <1>1, <2>5, <3>1, <3>2, WorkerStays DEF AccountHandled
  <2>8. QED
    BY <2>6, <2>7
<1>4. QED
  BY <1>2, <1>3 DEF Compare

LEMMA FetchAccountMirrors ==
  ASSUME Orderly, Settled, NEW w \in Worker, FetchAccount(w)
  PROVE  MirrorStep
<1> DEFINE m == message[w]
<1>1. /\ pc[w] = "fetch_account"
      /\ comparison'[w] = CompareAccountsAndContacts(AccountOf[m], PeopleOf[m], CrmAccount,
                                                     [c \in Contact |-> NoData])
      /\ pc'[w] \in {"find_account", "fetch_contacts"}
      /\ \A v \in Worker \ {w} : pc'[v] = pc[v]
      /\ UNCHANGED <<broker, message, accounts>>
  BY DEF Orderly, IInv, TypeOK, FetchAccount, CrmAccount, Goto, crmVars
<1>2. comparison'[w].account = FetchAction(AccountOf[m], CrmAccount)
  BY <1>1 DEF CompareAccountsAndContacts
<1>3. AccountCompared(w)'
  BY <1>1, <1>2 DEF AccountCompared, CrmAccount
<1>4. QED
  BY <1>1, <1>3, WorkerStays DEF AccountHandled

LEMMA FetchContactsMirrors ==
  ASSUME DistinctTimestamps, Orderly, Settled, NEW w \in Worker, FetchContacts(w)
  PROVE  MirrorStep
<1> DEFINE m == message[w]
           cmp == [comparison[w] EXCEPT !.contacts =
                    [c \in Contact |-> FetchContactAction(PeopleOf[m][c], FirstLinked(c))]]
<1>0. pc[w] = "fetch_contacts"
  BY DEF FetchContacts
<1>1. /\ pc[w] = "fetch_contacts" /\ m \in Message \ Malformed
      /\ comparison[w] \in AccountComparison
      /\ comparison[w].account = FetchAction(AccountOf[m], CrmAccount)
  <2>1. m \in Message \ Malformed
    BY <1>0, BusyMessage DEF Orderly, Settled, RowsSettled
  <2>2. comparison[w] \in AccountComparison
    BY <1>0 DEF Orderly, IInv, TypeOK, OwnSubject
  <2>3. comparison[w].account = FetchAction(AccountOf[m], CrmAccount)
    BY <1>0 DEF Settled, AccountMirrored, AccountCompared
  <2>4. QED
    BY <1>0, <2>1, <2>2, <2>3
<1>2. /\ comparison'[w] = cmp /\ pc'[w] = AfterComparison(cmp)
      /\ \A v \in Worker \ {w} : pc'[v] = pc[v]
      /\ UNCHANGED <<broker, message, accounts>>
  BY DEF Orderly, IInv, TypeOK, FetchContacts, Goto, crmVars
<1>3. cmp \in AccountComparison /\ cmp.account = comparison[w].account
  <2>1. PeopleOf[m] \in [Contact -> Data \cup {NoData}]
    BY <1>1, MessageAssumption
  <2>2. \A c \in Contact : FetchContactAction(PeopleOf[m][c], FirstLinked(c)) \in ContactComparison
    BY DEF FetchContactAction, FetchAction, ContactComparison, Action, Response
  <2>3. QED
    BY <1>1, <2>2 DEF AccountComparison
<1> HIDE DEF cmp
<1>4. CASE NoopOrStale(cmp)
  <2>1. cmp.account = "noop"
    BY <1>1, <1>3, <1>4, NoopMeaning, ActionMeaning
  <2>2. AccountOf[m] = CrmAccount
    BY <1>1, <1>3, <2>1, ActionMeaning
  <2>3. pc'[w] = "persist"
    BY <1>2, <1>4 DEF AfterComparison
  <2>4. CrmAccount' = AccountOf[m]
    BY <1>2, <2>2 DEF CrmAccount
  <2>5. Moves(m)
    BY <1>1, <1>2, <2>3, <2>4, WorkerMoves DEF AccountHandled
  <2>6. AccountCompared(w)'
    BY <2>3 DEF AccountCompared
  <2>7. QED
    BY <1>1, <1>2, <2>5, <2>6, OthersCompared DEF MirrorStep
<1>5. CASE ~ NoopOrStale(cmp)
  <2>1. pc'[w] = "find_account"
    BY <1>2, <1>5 DEF AfterComparison
  <2>2. AccountCompared(w)'
    BY <1>1, <1>2, <1>3, <2>1 DEF AccountCompared, CrmAccount
  <2>3. QED
    BY <1>1, <1>2, <2>1, <2>2, WorkerStays DEF AccountHandled
<1>6. QED
  BY <1>4, <1>5

LEMMA FindAccountMirrors ==
  ASSUME Orderly, Settled, NEW w \in Worker, FindAccount(w)
  PROVE  MirrorStep
<1>1. /\ pc[w] = "find_account" /\ pc'[w] = "write_account"
      /\ sugarId'[w] = IF accounts = <<>> THEN 0 ELSE 1
      /\ \A v \in Worker \ {w} : pc'[v] = pc[v]
      /\ UNCHANGED <<broker, message, accounts, comparison>>
  BY DEF Orderly, IInv, TypeOK, FindAccount, Goto, crmVars
<1>2. AccountCompared(w)'
  BY <1>1 DEF Settled, AccountMirrored, AccountCompared, CrmAccount
<1>3. QED
  BY <1>1, <1>2, WorkerStays DEF AccountHandled

(* What the worker that is about to send the account knows.                *)
LEMMA Writing ==
  ASSUME Orderly, Settled, NEW w \in Worker, pc[w] = "write_account"
  PROVE  /\ message[w] \in Message \ Malformed
         /\ comparison[w].account = FetchAction(AccountOf[message[w]], CrmAccount)
         /\ sugarId[w] = IF accounts = <<>> THEN 0 ELSE 1
BY BusyMessage DEF Orderly, Settled, RowsSettled, AccountMirrored, AccountCompared

(* An update always has an account to go to.                               *)
LEMMA UpdateHasAccount ==
  ASSUME Orderly, Settled, NEW w \in Worker
  PROVE  ~ CannotUpdateAccount(w)
<1> SUFFICES ASSUME CannotUpdateAccount(w) PROVE FALSE
  OBVIOUS
<1>1. accounts # <<>>
  BY Writing, ActionMeaning, AccountData DEF CannotUpdateAccount, Orderly
<1>2. QED
  BY <1>1, Writing DEF CannotUpdateAccount

LEMMA WriteAccountMirrors ==
  ASSUME DistinctTimestamps, Orderly, Settled, NEW w \in Worker,
         KeepAccount(w) \/ CreateAccount(w) \/ UpdateAccount(w), faults' = faults
  PROVE  MirrorStep
<1> DEFINE m == message[w]
<1>1. /\ pc[w] = "write_account" /\ m \in Message \ Malformed
      /\ comparison[w].account = FetchAction(AccountOf[m], CrmAccount)
      /\ sugarId[w] = IF accounts = <<>> THEN 0 ELSE 1
      /\ pc \in [Worker -> Step] /\ sugarId \in [Worker -> Nat] /\ accounts \in Seq(Data)
      /\ AccountOf[m] \in Data /\ faults \in Nat
  BY Writing, MessageAssumption
     DEF KeepAccount, CreateAccount, UpdateAccount, Orderly, IInv, TypeOK
<1>2. ~ Fault
  BY <1>1 DEF Fault
<1>3. /\ pc' = [pc EXCEPT ![w] = "write_contacts"]
      /\ UNCHANGED <<broker, message>>
  BY <1>1, <1>2 DEF KeepAccount, CreateAccount, UpdateAccount, AccountDone, Goto
<1>4. CrmAccount' = AccountOf[m] /\ sugarId'[w] # 0
  <2>1. CASE KeepAccount(w)
    <3>0. FetchAction(AccountOf[m], CrmAccount) = "noop"
      BY <1>1, <2>1 DEF KeepAccount
    <3>1. CrmAccount = AccountOf[m] /\ CrmAccount # NoData
      BY <3>0, ActionMeaning
    <3>2. UNCHANGED <<accounts, sugarId>>
      BY <2>1 DEF KeepAccount, crmVars
    <3>3. QED
      BY <1>1, <3>1, <3>2, AccountData DEF CrmAccount, Orderly
  <2>2. CASE CreateAccount(w)
    <3>1. CrmAccount = NoData
      BY <1>1, <2>2, ActionMeaning DEF CreateAccount
    <3>2. accounts = <<>>
      BY <3>1, AccountData DEF Orderly
    <3>3. accounts' \in Created(<<>>, AccountOf[m]) /\ sugarId' = [sugarId EXCEPT ![w] = Len(accounts')]
      BY <1>2, <2>2, <3>2 DEF CreateAccount
    <3>4. accounts' # <<>> /\ accounts'[1] = AccountOf[m] /\ Len(accounts') # 0
      BY <1>1, <3>3 DEF Created
    <3>5. QED
      BY <1>1, <3>3, <3>4 DEF CrmAccount
  <2>3. CASE UpdateAccount(w)
    <3>1. /\ sugarId[w] # 0 /\ UNCHANGED sugarId
          /\ accounts' = [accounts EXCEPT ![sugarId[w]] = AccountOf[m]]
      BY <2>3 DEF UpdateAccount
    <3>2. accounts # <<>> /\ sugarId[w] = 1
      BY <1>1, <3>1
    <3>3. accounts' # <<>> /\ accounts'[1] = AccountOf[m]
      BY <1>1, <3>1, <3>2
    <3>4. QED
      BY <3>1, <3>3 DEF CrmAccount
  <2>4. QED
    BY <2>1, <2>2, <2>3
<1>5. Moves(m)
  BY <1>1, <1>3, <1>4, WorkerMoves DEF AccountHandled
<1>6. AccountCompared(w)'
  BY <1>1, <1>3, <1>4 DEF AccountCompared
<1>7. QED
  BY <1>1, <1>3, <1>5, <1>6, OthersCompared DEF MirrorStep

(* A step after which nothing has failed is a step of these kinds.         *)
LEMMA QuietNext ==
  ASSUME IInv, Next, NothingFailed'
  PROVE  /\ NothingFailed /\ faults' = faults
         /\ \E w \in Worker :
              \/ \E m \in Message : Deliver(w, m)
              \/ Process(w) /\ ~ StepFails(w)
<1>1. faults \in Nat /\ crashes \in Nat /\ faults' = 0 /\ crashes' = 0
  BY DEF IInv, TypeOK, NothingFailed
<1>2. ~ Fault
  BY <1>1 DEF Fault
<1>3. ASSUME NEW w \in Worker, NEW m \in Message, Deliver(w, m)
      PROVE  UNCHANGED <<faults, crashes>>
  BY <1>3 DEF Deliver, NoFault
<1>4. ASSUME NEW w \in Worker, Process(w)
      PROVE  ~ StepFails(w) /\ UNCHANGED <<faults, crashes>>
  <2>1. ~ StepFails(w)
    BY <1>2 DEF StepFails
  <2>2. CASE Refuse(w) \/ CreateFamily(w) \/ AccountTransaction(w) \/ ContactTransactions(w)
    BY <1>2, <2>1, <2>2 DEF Refuse, CreateFamily, AccountTransaction, ContactTransactions, NoFault
  <2>3. CASE Compare(w) \/ FetchAccount(w) \/ FetchContacts(w) \/ FindAccount(w)
    BY <2>1, <2>3 DEF Compare, FetchAccount, FetchContacts, FindAccount, NoFault
  <2>4. CASE KeepAccount(w) \/ CreateAccount(w) \/ UpdateAccount(w) \/ CannotUpdateAccount(w)
    BY <1>2, <2>1, <2>4 DEF KeepAccount, CreateAccount, UpdateAccount, CannotUpdateAccount, NoFault
  <2>5. CASE \E c \in Contact : WriteContact(w, c)
    BY <1>2, <2>1, <2>5 DEF WriteContact, KeepContact, CannotWriteContact, CreateContact,
       UpdateContact, ContactNotFound, ContactCallFails, ContactDone
  <2>6. CASE Persist(w) \/ Respond(w) \/ Ack(w)
    BY <2>1, <2>6 DEF Persist, Respond, Ack, NoFault
  <2>7. QED
    BY <1>4, <2>1, <2>2, <2>3, <2>4, <2>5, <2>6 DEF Process
<1>5. ASSUME NEW w \in Worker, Crash(w) PROVE FALSE
  BY <1>1, <1>5 DEF Crash
<1>6. QED
  BY <1>1, <1>3, <1>4, <1>5 DEF Next, NothingFailed

LEMMA SettledStep ==
  ASSUME DistinctTimestamps, Orderly, Settled, Next, NothingFailed'
  PROVE  MirrorStep /\ RowsSettled'
<1>1. ASSUME NEW w \in Worker, NEW m \in Message, Deliver(w, m)
      PROVE  MirrorStep /\ RowsSettled'
  BY <1>1, DeliverMirrors, DeliverSettled DEF Settled
<1>2. ASSUME NEW w \in Worker, Process(w), ~ StepFails(w), faults' = faults
      PROVE  MirrorStep /\ RowsSettled'
  <2>1. CASE Refuse(w) \/ CreateFamily(w) \/ Ack(w) \/ Persist(w)
    BY <2>1, ElsewhereMirrors, AckMirrors, RefuseSettled, CreateFamilySettled, AckSettled,
       PersistSettled DEF Settled
  <2>2. CASE AccountTransaction(w) \/ ContactTransactions(w) \/ Respond(w)
    BY <1>2, <2>2, ElsewhereMirrors, WorkSettled DEF Settled
  <2>3. CASE Compare(w) \/ FetchAccount(w) \/ FetchContacts(w) \/ FindAccount(w)
    BY <1>2, <2>3, CompareMirrors, FetchAccountMirrors, FetchContactsMirrors,
       FindAccountMirrors, WorkSettled DEF Settled
  <2>4. CASE KeepAccount(w) \/ CreateAccount(w) \/ UpdateAccount(w)
    BY <1>2, <2>4, WriteAccountMirrors, WorkSettled DEF Settled
  <2>5. CASE \E c \in Contact : WriteContact(w, c)
    BY <1>2, <2>5, WriteContactMirrors, WorkSettled DEF Settled
  <2>6. QED
    BY <1>2, <2>1, <2>2, <2>3, <2>4, <2>5, UpdateHasAccount DEF Process
<1>3. QED
  BY <1>1, <1>2, QuietNext DEF Orderly

LEMMA InitMirror ==
  ASSUME Init
  PROVE  MirrorInv /\ Reached = {}
<1>1. /\ broker = [m \in Message |-> "queued"] /\ families = [f \in FamilyId |-> None]
      /\ pc = [w \in Worker |-> "idle"] /\ subject = [w \in Worker |-> 0]
  BY DEF Init
<1>2. Processed = {}
  BY <1>1 DEF Processed
<1>3. Reached = {}
  BY <1>1, <1>2 DEF Reached, AccountHandled
<1>4. RowsSettled
  BY <1>1, <1>2 DEF RowsSettled
<1>5. AccountMirrored
  BY <1>1, <1>3 DEF AccountMirrored, Newest, AccountCompared
<1>6. QED
  BY <1>3, <1>4, <1>5 DEF MirrorInv

LEMMA NextMirror ==
  ASSUME DistinctTimestamps, IInv, OrderInv, MirrorInv, [Next]_vars
  PROVE  MirrorInv'
<1> SUFFICES ASSUME NothingFailed' PROVE RowsSettled' /\ AccountMirrored'
  BY DEF MirrorInv
<1>1. CASE Next
  <2>1. Orderly /\ Settled
    BY <1>1, QuietNext DEF Orderly, Settled, MirrorInv
  <2>2. MirrorStep /\ RowsSettled'
    BY <1>1, <2>1, SettledStep
  <2>3. AccountMirrored'
    BY <2>1, <2>2, MirrorStays, MirrorMoves DEF MirrorStep, Settled
  <2>4. QED
    BY <2>2, <2>3
<1>2. CASE UNCHANGED vars
  <2>1. Processed' = Processed /\ Reached' = Reached /\ CrmAccount' = CrmAccount
    BY <1>2 DEF Processed, Reached, CrmAccount, vars, mongoVars, crmVars, workerVars
  <2>2. RowsSettled /\ AccountMirrored
    BY <1>2 DEF MirrorInv, NothingFailed, vars
  <2>3. RowsSettled'
    BY <1>2, <2>1, <2>2 DEF RowsSettled, vars, mongoVars, workerVars
  <2>4. \A v \in Worker : AccountCompared(v)'
    BY <1>2, <2>1, <2>2 DEF AccountMirrored, AccountCompared, vars, crmVars, workerVars
  <2>5. QED
    BY <2>1, <2>2, <2>3, <2>4, MirrorStays DEF Stays
<1>3. QED
  BY <1>1, <1>2

(* As long as nothing has failed, the rows of the messages processed are   *)
(* all there, and the comparison with one of them (fetch_eligible_subject) *)
(* is the comparison with SugarCRM it stands for.                          *)
THEOREM MirrorInvariance ==
  ASSUME Ordered, DistinctTimestamps
  PROVE  Spec => []MirrorInv
<1>1. Init => MirrorInv
  BY InitMirror
<1>2. IInv /\ OrderInv /\ MirrorInv /\ [Next]_vars => MirrorInv'
  BY NextMirror
<1>3. QED
  BY <1>1, <1>2, Invariance, OrderInvariance, PTL DEF Spec

(***************************************************************************)
(* The refinement.                                                         *)
(***************************************************************************)

LEMMA NewestTime ==
  ASSUME NEW R \in SUBSET Message, NEW m \in R, \A n \in R : Timestamp[n] <= Timestamp[m]
  PROVE  (CHOOSE t \in {Timestamp[n] : n \in R} : \A n \in R : Timestamp[n] <= t) = Timestamp[m]
<1> DEFINE Last(t) == t \in {Timestamp[n] : n \in R} /\ \A n \in R : Timestamp[n] <= t
           last == CHOOSE t : Last(t)
<1>1. Last(Timestamp[m])
  OBVIOUS
<1>2. Last(last)
  <2> HIDE DEF Last
  <2> QED
    BY <1>1
<1>3. last \in Nat /\ Timestamp[m] \in Nat /\ Timestamp[m] <= last /\ last <= Timestamp[m]
  BY <1>2, MessageAssumption
<1>4. QED
  BY <1>3

LEMMA LastReachedMoves ==
  ASSUME IInv, Settled, NEW m, Moves(m)
  PROVE  LastReached' = Timestamp[m] /\ LastReached <= Timestamp[m]
<1>1. /\ m \in Message /\ Reached' \in SUBSET Message /\ m \in Reached'
      /\ \A n \in Reached' : Timestamp[n] <= Timestamp[m]
  BY MessageAssumption DEF Moves
<1>2. LastReached' = Timestamp[m]
  BY <1>1, NewestTime DEF LastReached
<1>3. CASE Reached = {}
  BY <1>1, <1>2, <1>3, MessageAssumption DEF LastReached
<1>4. CASE Reached # {}
  <2>1. PICK n \in Message : Newest(n)
    BY <1>4 DEF Settled, AccountMirrored
  <2>2. Reached \in SUBSET Message /\ n \in Reached /\ Timestamp[n] <= Timestamp[m]
    BY <2>1 DEF Newest, Moves
  <2>3. LastReached = Timestamp[n]
    BY <2>1, <2>2, NewestTime DEF LastReached, Newest
  <2>4. QED
    BY <1>2, <2>2, <2>3
<1>5. QED
  BY <1>3, <1>4

(* The first of a person's records is the only one that changes, and only  *)
(* to what the message says.                                               *)
LEMMA CreatedFirst ==
  ASSUME NEW S, NEW s \in Seq(S), NEW r \in S, NEW list \in Created(s, r)
  PROVE  list # <<>> /\ list[1] = IF s = <<>> THEN r ELSE s[1]
<1>1. CASE s = <<>>
  BY <1>1 DEF Created
<1>2. CASE s # <<>>
  <2>1. Len(s) \in Nat \ {0}
    BY <1>2, EmptySeq
  <2>2. QED
    BY <1>2, <2>1 DEF Created
<1>3. QED
  BY <1>1, <1>2

LEMMA UpdatedFirst ==
  ASSUME NEW S, NEW s \in Seq(S), s # <<>>, NEW r \in S
  PROVE  [s EXCEPT ![1] = r] # <<>> /\ [s EXCEPT ![1] = r][1] = r
<1>1. Len(s) \in Nat \ {0}
  BY EmptySeq
<1>2. 1 \in DOMAIN s
  BY <1>1
<1>3. QED
  BY <1>2

LEMMA PersonSent ==
  ASSUME IInv, NEW w \in Worker, NEW c \in Contact, WriteContact(w, c)
  PROVE  /\ c \in Members(PeopleOf[message[w]])
         /\ \/ CrmPeople' = CrmPeople
            \/ CrmPeople' = [CrmPeople EXCEPT ![c] = PeopleOf[message[w]][c]]
<1> DEFINE m == message[w]
<1>1. pc[w] = "write_contacts" /\ c \in pending[w]
  BY DEF WriteContact, KeepContact, CannotWriteContact, CreateContact, UpdateContact,
         ContactNotFound, ContactCallFails, PendingContact
<1>2. c \in Members(PeopleOf[m]) /\ m \in Message
  BY <1>1 DEF IInv, OwnSubject
<1>3. contacts \in [Contact -> Seq(CrmContact)] /\ CrmRecord(w, c) \in CrmContact
  <2>1. PeopleOf[m][c] \in Data
    BY <1>2, MessageAssumption DEF Members
  <2>2. QED
    BY <2>1 DEF IInv, TypeOK, CrmRecord, CrmContact
<1>4. ASSUME NEW list, contacts' = [contacts EXCEPT ![c] = list],
             list # <<>>, list[1] = CrmRecord(w, c) \/ (contacts[c] # <<>> /\ list[1] = contacts[c][1])
      PROVE  \/ CrmPeople' = CrmPeople
             \/ CrmPeople' = [CrmPeople EXCEPT ![c] = PeopleOf[m][c]]
  <2>1. contacts'[c] = list /\ \A d \in Contact \ {c} : contacts'[d] = contacts[d]
    BY <1>3, <1>4
  <2>2. CrmPerson(c)' = list[1].data /\ \A d \in Contact \ {c} : CrmPerson(d)' = CrmPerson(d)
    BY <1>4, <2>1 DEF CrmPerson
  <2>3. CASE list[1] = CrmRecord(w, c)
    <3>1. CrmPerson(c)' = PeopleOf[m][c]
      BY <2>2, <2>3 DEF CrmRecord
    <3> DEFINE new == [CrmPeople EXCEPT ![c] = PeopleOf[m][c]]
    <3>2. new = [d \in Contact |-> IF d = c THEN PeopleOf[m][c] ELSE CrmPerson(d)]
      BY DEF CrmPeople
    <3>3. CrmPeople' = [d \in Contact |-> CrmPerson(d)']
      BY DEF CrmPeople
    <3>4. \A d \in Contact : CrmPerson(d)' = IF d = c THEN PeopleOf[m][c] ELSE CrmPerson(d)
      BY <2>2, <3>1
    <3>5. QED
      BY <3>2, <3>3, <3>4
  <2>4. CASE contacts[c] # <<>> /\ list[1] = contacts[c][1]
    <3>1. CrmPerson(c)' = CrmPerson(c)
      BY <2>2, <2>4 DEF CrmPerson
    <3>2. QED
      BY <2>2, <3>1 DEF CrmPeople
  <2>5. QED
    BY <1>4, <2>3, <2>4
<1>5. CASE UNCHANGED contacts
  BY <1>2, <1>5 DEF CrmPeople, CrmPerson
<1>6. CASE CreateContact(w, c)
  <2>1. PICK list \in Created(contacts[c], CrmRecord(w, c)) : contacts' = [contacts EXCEPT ![c] = list]
    BY <1>6 DEF CreateContact
  <2>2. list # <<>> /\ list[1] = IF contacts[c] = <<>> THEN CrmRecord(w, c) ELSE contacts[c][1]
    BY <1>3, CreatedFirst
  <2>3. QED
    BY <1>2, <1>4, <2>1, <2>2
<1>7. CASE UpdateContact(w, c)
  <2> DEFINE list == [contacts[c] EXCEPT ![1] = CrmRecord(w, c)]
  <2>1. contacts[c] # <<>> /\ contacts' = [contacts EXCEPT ![c] = list]
    BY <1>7 DEF UpdateContact
  <2>2. list # <<>> /\ list[1] = CrmRecord(w, c)
    BY <1>3, <2>1, UpdatedFirst
  <2> HIDE DEF list
  <2>3. QED
    BY <1>2, <1>4, <2>1, <2>2
<1>8. QED
  BY <1>5, <1>6, <1>7 DEF WriteContact, KeepContact, CannotWriteContact, ContactNotFound,
     ContactCallFails

(* No other step touches the contacts.                                     *)
LEMMA OtherwiseUntouched ==
  ASSUME Next, ~ \E w \in Worker, c \in Contact : WriteContact(w, c)
  PROVE  UNCHANGED contacts
BY DEF Next, Process, Deliver, Refuse, CreateFamily, AccountTransaction, ContactTransactions,
       Compare, FetchAccount, FetchContacts, FindAccount, KeepAccount, CreateAccount,
       UpdateAccount, CannotUpdateAccount, Persist, Respond, StepFails, Ack, Crash, crmVars

LEMMA PersonMirrors ==
  ASSUME DistinctTimestamps, Orderly, Settled, NEW w \in Worker, NEW c \in Contact,
         WriteContact(w, c)
  PROVE  Mirror!Next \/ UNCHANGED <<CrmAccount, CrmPeople, LastReached>>
<1> DEFINE m == message[w]
<1>1. /\ pc[w] = "write_contacts"
      /\ ContactDone(w, c, "none") \/ ContactDone(w, c, "ok") \/ ContactDone(w, c, "failed")
  BY DEF WriteContact, KeepContact, CannotWriteContact, CreateContact, UpdateContact,
         ContactNotFound, ContactCallFails, PendingContact
<1>2. /\ UNCHANGED <<broker, message, accounts>>
      /\ pc'[w] \in {"persist", "write_contacts"} /\ \A v \in Worker \ {w} : pc'[v] = pc[v]
  BY <1>1 DEF Orderly, IInv, TypeOK, ContactDone, Goto
<1>3. Reached' = Reached
  BY <1>1, <1>2, ReachedStep DEF AccountHandled
<1>4. CrmAccount' = CrmAccount /\ LastReached' = LastReached
  BY <1>2, <1>3 DEF CrmAccount, LastReached
<1>5. Newest(m) /\ m \in Message \ Malformed
  BY <1>1, BusyNewest DEF AccountHandled, Settled, RowsSettled
<1>6. CrmAccount = AccountOf[m]
  BY <1>5 DEF Settled, AccountMirrored
<1>7. LastReached = Timestamp[m]
  <2>1. Reached \in SUBSET Message /\ m \in Reached
        /\ \A n \in Reached : Timestamp[n] <= Timestamp[m]
    BY <1>5 DEF Newest, Reached, Processed
  <2>2. QED
    BY <2>1, NewestTime DEF LastReached
<1>8. /\ PeopleOf[m][c] # NoData
      /\ \/ CrmPeople' = CrmPeople
         \/ CrmPeople' = [CrmPeople EXCEPT ![c] = PeopleOf[m][c]]
  BY PersonSent DEF Orderly, Members
<1>9. QED
  BY <1>4, <1>5, <1>6, <1>7, <1>8 DEF Mirror!Next, Mirror!ShowPerson

(* In-order delivery makes of the comparison with stored rows what it is   *)
(* meant to be: as long as no call fails and no worker crashes, the        *)
(* account SugarCRM shows is that of one message, a step of the pipeline   *)
(* only ever replaces it by that of a later one, and a person is only ever *)
(* overwritten with what the same message says.                            *)
THEOREM MirrorsInOrder ==
  ASSUME Ordered, DistinctTimestamps
  PROVE  Spec /\ []NothingFailed => MirrorSpec
<1>1. Init => Mirror!Init
  <2> SUFFICES ASSUME Init PROVE Mirror!Init
    OBVIOUS
  <2>1. IInv
    BY InitInv
  <2>2. CrmPeople \in [Contact -> Data \cup {NoData}]
    <3>1. ASSUME NEW c \in Contact PROVE CrmPerson(c) \in Data \cup {NoData}
      <4>1. contacts[c] \in Seq(CrmContact)
        BY <2>1 DEF IInv, TypeOK
      <4>2. contacts[c] # <<>> => contacts[c][1] \in CrmContact
        BY <4>1
      <4>3. QED
        BY <4>2 DEF CrmPerson, CrmContact
    <3>2. QED
      BY <3>1 DEF CrmPeople
  <2>3. QED
    BY <2>1, <2>2, InitMirror, AccountData DEF Mirror!Init, LastReached
<1>2. IInv /\ OrderInv /\ MirrorInv /\ NothingFailed /\ NothingFailed' /\ [Next]_vars
        => [Mirror!Next]_<<CrmAccount, CrmPeople, LastReached>>
  <2> SUFFICES ASSUME IInv, OrderInv, MirrorInv, NothingFailed, NothingFailed', [Next]_vars
               PROVE  Mirror!Next \/ UNCHANGED <<CrmAccount, CrmPeople, LastReached>>
    OBVIOUS
  <2>1. Orderly /\ Settled
    BY DEF Orderly, Settled, MirrorInv
  <2>2. UNCHANGED contacts => UNCHANGED CrmPeople
    BY DEF CrmPeople, CrmPerson
  <2>3. CASE UNCHANGED vars
    <3>1. UNCHANGED contacts
      BY <2>3 DEF vars, crmVars
    <3>2. UNCHANGED <<CrmAccount, LastReached>>
      BY <2>3 DEF vars, mongoVars, crmVars, workerVars, CrmAccount, LastReached, Reached, Processed
    <3>3. QED
      BY <2>2, <3>1, <3>2
  <2>4. ASSUME NEW m \in Message, Moves(m), UNCHANGED CrmPeople PROVE Mirror!Next
    BY <2>1, <2>4, LastReachedMoves DEF Moves, Mirror!Next, Mirror!Show
  <2>5. Stays => UNCHANGED <<CrmAccount, LastReached>>
    BY DEF Stays, LastReached
  <2>6. CASE Next /\ ~ \E w \in Worker, c \in Contact : WriteContact(w, c)
    <3>1. UNCHANGED CrmPeople
      BY <2>2, <2>6, OtherwiseUntouched
    <3>2. Stays \/ \E m \in Message : Moves(m)
      BY <2>1, <2>6, SettledStep DEF MirrorStep
    <3>3. QED
      BY <2>4, <2>5, <3>1, <3>2
  <2>7. CASE \E w \in Worker, c \in Contact : WriteContact(w, c)
    BY <2>1, <2>7, PersonMirrors
  <2>8. QED
    BY <2>3, <2>6, <2>7
<1>3. QED
  BY <1>1, <1>2, Invariance, OrderInvariance, MirrorInvariance, PTL DEF Spec, MirrorSpec, Mirror!Spec

(***************************************************************************)
(* The contacts, as long as nothing fails.                                 *)
(***************************************************************************)

LEMMA Single ==
  ASSUME NEW S, NEW s \in Seq(S), Len(s) <= 1, s # <<>>
  PROVE  Len(s) = 1 /\ s[1] \in S /\ DOMAIN s = {1}
<1>1. Len(s) \in Nat \ {0}
  BY EmptySeq
<1>2. Len(s) = 1
  BY <1>1
<1>3. QED
  BY <1>2

(* With one record for each person, it is the first one that is linked to  *)
(* the account.                                                            *)
LEMMA OneRecord ==
  ASSUME IInv, CrmInv, ContactsMirrored, MaxCopies = 1, NEW c \in Contact
  PROVE  /\ contacts[c] \in Seq(CrmContact)
         /\ contacts[c] # <<>> => /\ Len(contacts[c]) = 1 /\ accounts # <<>>
                                  /\ contacts[c][1].data \in Data /\ contacts[c][1].account = 1
                                  /\ contacts[c][1] \in CrmContact
         /\ CrmPerson(c) = NoData <=> contacts[c] = <<>>
         /\ FirstLinked(c) = CrmPerson(c)
<1>1. contacts[c] \in Seq(CrmContact) /\ Len(contacts[c]) <= 1
  BY DEF IInv, TypeOK, ContactsMirrored
<1>2. CASE contacts[c] = <<>>
  <2>1. LinkedContacts(c) = {}
    BY <1>2 DEF LinkedContacts
  <2>2. QED
    BY <1>1, <1>2, <2>1 DEF CrmPerson, FirstLinked
<1>3. CASE contacts[c] # <<>>
  <2>1. Len(contacts[c]) = 1 /\ contacts[c][1] \in CrmContact /\ DOMAIN contacts[c] = {1}
    BY <1>1, <1>3, Single
  <2>2. contacts[c][1].account \in DOMAIN accounts
    BY <2>1 DEF CrmInv, NoOrphanContact
  <2>3. accounts # <<>> /\ contacts[c][1].account = 1
    BY <2>2 DEF IInv, TypeOK, AtMostOneAccount
  <2>4. LinkedContacts(c) = {1}
    BY <2>1, <2>3 DEF LinkedContacts
  <2>5. FirstLinked(c) = contacts[c][1].data
    BY <2>4 DEF FirstLinked
  <2>6. contacts[c][1].data \in Data
    BY <2>1 DEF CrmContact
  <2>7. QED
    BY <1>1, <1>3, <2>1, <2>3, <2>5, <2>6, NoDataAssumption DEF CrmPerson
<1>4. QED
  BY <1>2, <1>3

(* Nothing is written, and no message reaches SugarCRM.                    *)
LEMMA ContactsStay ==
  ASSUME ContactsMirrored, Reached' = Reached, UNCHANGED contacts,
         \A v \in Worker : pc[v] = "write_contacts" =>
           pc'[v] = "write_contacts" /\ pending'[v] = pending[v],
         \A v \in Worker, c \in Contact : PersonCompared(v, c)'
  PROVE  ContactsMirrored'
<1>1. \A m \in Message : Newest(m)' <=> Newest(m)
  BY DEF Newest
<1>2. \A c \in Contact :
        /\ Len(contacts'[c]) <= 1
        /\ contacts'[c] # <<>> =>
             Preexisting # {} \/ \E m \in Reached' : c \in Members(PeopleOf[m])
  BY DEF ContactsMirrored
<1>3. ASSUME NEW m \in Message, NEW c \in Contact, Newest(m)', c \in Members(PeopleOf[m]),
             \A v \in Worker : pc'[v] = "write_contacts" => c \notin pending'[v]
      PROVE  CrmPerson(c)' = PeopleOf[m][c]
  <2>1. CrmPerson(c) = PeopleOf[m][c]
    BY <1>1, <1>3 DEF ContactsMirrored
  <2>2. QED
    BY <2>1 DEF CrmPerson
<1>4. QED
  BY <1>2, <1>3 DEF ContactsMirrored

(* The message of w has reached SugarCRM.                                  *)
LEMMA ContactsReached ==
  ASSUME DistinctTimestamps, Orderly, NEW w \in Worker, pc[w] # "idle",
         message[w] \notin Malformed, pc'[w] \in AccountHandled,
         \A v \in Worker \ {w} : pc'[v] = pc[v],
         UNCHANGED <<broker, message>>,
         \A c \in Contact :
           /\ Len(contacts'[c]) <= 1
           /\ contacts'[c] # <<>> =>
                Preexisting # {} \/ \E m \in Reached' : c \in Members(PeopleOf[m]),
         \A c \in Members(PeopleOf[message[w]]) :
           \/ CrmPerson(c)' = PeopleOf[message[w]][c]
           \/ pc'[w] = "write_contacts" /\ c \in pending'[w],
         \A c \in Contact : PersonCompared(w, c)'
  PROVE  ContactsMirrored'
<1>1. message[w] \in Message /\ \A v \in Worker \ {w} : pc'[v] = "idle"
  BY OnlyBusy, BusyMessage DEF Orderly
<1>2. Reached' = Reached \cup {message[w]}
  BY ReachedStep
<1>3. ASSUME NEW m \in Message, Newest(m)' PROVE m = message[w]
  <2>1. m \in Reached' /\ Timestamp[message[w]] <= Timestamp[m]
    BY <1>2, <1>3 DEF Newest
  <2>2. m # message[w] => Timestamp[m] < Timestamp[message[w]]
    BY <1>2, <2>1, ReachedOlder
  <2>3. QED
    BY <1>1, <2>1, <2>2, MessageAssumption
<1>4. \A v \in Worker, c \in Contact : PersonCompared(v, c)'
  BY <1>1 DEF PersonCompared
<1>5. \A m \in Message, c \in Contact :
        /\ Newest(m)' /\ c \in Members(PeopleOf[m])
        /\ \A v \in Worker : pc'[v] = "write_contacts" => c \notin pending'[v]
        => CrmPerson(c)' = PeopleOf[m][c]
  BY <1>3
<1>6. QED
  BY <1>4, <1>5 DEF ContactsMirrored

LEMMA OthersPersons ==
  ASSUME Orderly, NEW w \in Worker, pc[w] # "idle",
         \A v \in Worker \ {w} : pc'[v] = pc[v]
  PROVE  \A v \in Worker \ {w}, c \in Contact : PersonCompared(v, c)'
<1>1. \A v \in Worker \ {w} : pc'[v] = "idle"
  BY OnlyBusy DEF Orderly
<1>2. QED
  BY <1>1 DEF PersonCompared

(* A step of w before its message reaches SugarCRM, or after its contacts  *)
(* have been handled.                                                      *)
LEMMA ContactsElsewhere ==
  ASSUME Orderly, ContactsMirrored, NEW w \in Worker,
         pc[w] \notin {"idle", "write_contacts"}, pc'[w] # "write_contacts",
         \A v \in Worker \ {w} : pc'[v] = pc[v],
         UNCHANGED <<broker, message, contacts>>,
         message[w] \in Malformed \/ (pc'[w] \in AccountHandled <=> pc[w] \in AccountHandled),
         \A c \in Contact : PersonCompared(w, c)'
  PROVE  ContactsMirrored'
<1>1. Reached' = Reached
  BY ReachedStep
<1>2. \A v \in Worker : pc[v] # "write_contacts"
  BY OnlyBusy DEF Orderly
<1>3. QED
  BY <1>1, <1>2, OthersPersons, ContactsStay

LEMMA DeliverContacts ==
  ASSUME Orderly, ContactsMirrored, NEW w \in Worker, NEW m \in Message, Deliver(w, m)
  PROVE  ContactsMirrored'
<1>1. /\ pc[w] = "idle" /\ pc' = [pc EXCEPT ![w] = "create_family"] /\ pc \in [Worker -> Step]
      /\ message' = [message EXCEPT ![w] = m] /\ message \in [Worker -> Message \cup {None}]
      /\ UNCHANGED <<contacts, comparison, pending>>
  BY DEF Orderly, IInv, TypeOK, Deliver, Goto, crmVars
<1>2. ASSUME NEW v \in Worker, NEW c \in Contact PROVE PersonCompared(v, c)'
  <2>1. pc'[v] = "create_family" \/ (pc'[v] = pc[v] /\ message'[v] = message[v])
    BY <1>1
  <2>2. QED
    BY <1>1, <2>1 DEF ContactsMirrored, PersonCompared, CrmPerson
<1>3. \A v \in Worker : pc[v] = "write_contacts" => pc'[v] = "write_contacts" /\ pending'[v] = pending[v]
  BY <1>1
<1>4. QED
  BY <1>1, <1>2, <1>3, ReachedDeliver, ContactsStay

LEMMA AckContacts ==
  ASSUME Orderly, ContactsMirrored, NEW w \in Worker, Ack(w)
  PROVE  ContactsMirrored'
<1>1. pc[w] = "ack" /\ UNCHANGED contacts
  BY DEF Ack, crmVars
<1>2. \A v \in Worker : pc'[v] = "idle" /\ pc[v] # "write_contacts"
  BY <1>1, OnlyBusy DEF Orderly, IInv, TypeOK, Ack, Release, Goto
<1>3. \A v \in Worker, c \in Contact : PersonCompared(v, c)'
  BY <1>2 DEF PersonCompared
<1>4. QED
  BY <1>1, <1>2, <1>3, ReachedAck, ContactsStay

LEMMA ElsewhereContacts ==
  ASSUME Orderly, ContactsMirrored, NEW w \in Worker,
         \/ Refuse(w) \/ CreateFamily(w) \/ AccountTransaction(w) \/ ContactTransactions(w)
         \/ Persist(w) \/ Respond(w)
  PROVE  ContactsMirrored'
<1>1. /\ UNCHANGED <<broker, message, contacts>>
      /\ pc[w] \notin {"idle", "write_contacts"} /\ \A v \in Worker \ {w} : pc'[v] = pc[v]
      /\ message[w] \in Malformed \/ (pc'[w] \in AccountHandled <=> pc[w] \in AccountHandled)
      /\ pc'[w] \in {"account_transaction", "contact_transactions", "compare", "respond", "ack"}
  BY DEF Orderly, IInv, TypeOK, Refuse, CreateFamily, AccountTransaction,
         ContactTransactions, Persist, Respond, Goto, crmVars, AccountHandled
<1>2. \A c \in Contact : PersonCompared(w, c)'
  BY <1>1 DEF PersonCompared
<1>3. QED
  BY <1>1, <1>2, ContactsElsewhere

LEMMA FindAccountContacts ==
  ASSUME Orderly, ContactsMirrored, NEW w \in Worker, FindAccount(w)
  PROVE  ContactsMirrored'
<1>1. /\ pc[w] = "find_account" /\ pc'[w] = "write_account"
      /\ \A v \in Worker \ {w} : pc'[v] = pc[v]
      /\ UNCHANGED <<broker, message, contacts, comparison>>
  BY DEF Orderly, IInv, TypeOK, FindAccount, Goto, crmVars
<1>2. \A c \in Contact : PersonCompared(w, c)'
  BY <1>1 DEF ContactsMirrored, PersonCompared, CrmPerson
<1>3. QED
  BY <1>1, <1>2, ContactsElsewhere DEF AccountHandled

(* The eligible row shows of every member of the new payload what SugarCRM *)
(* has: a person SugarCRM knows who is no member of the previous payload   *)
(* has left, or was there before the first message.                        *)
LEMMA PreviousShown ==
  ASSUME DistinctTimestamps, NobodyReturns, Preexisting = {} \/ NobodyJoins,
         Orderly, Settled, ContactsMirrored,
         NEW w \in Worker, pc[w] = "compare", NEW g \in NewestOf(OtherFamilies(w)),
         NEW c \in Members(PeopleOf[message[w]])
  PROVE  PeopleOf[families[g].message][c] = CrmPerson(c)
<1> DEFINE l == families[g].message
           m == message[w]
<1>1. /\ l \in Message /\ Newest(l) /\ c \in Contact
      /\ m \in Message \ Malformed /\ broker[m] = "delivered"
      /\ \A v \in Worker \ {w} : pc[v] = "idle"
  BY EligibleNewest, BusyMessage, OnlyBusy DEF Settled, Orderly, RowsSettled, Members
<1>2. l \in Reached /\ \A n \in Reached : Timestamp[n] <= Timestamp[l]
  BY <1>1 DEF Newest
<1>3. m \notin Reached
  BY <1>1 DEF Reached, Processed, AccountHandled
<1>4. l \in Message \ Malformed /\ Timestamp[l] < Timestamp[m]
  BY <1>1, <1>2, <1>3, ReachedOlder
<1>5. CASE c \in Members(PeopleOf[l])
  BY <1>1, <1>5 DEF ContactsMirrored
<1>6. CASE c \notin Members(PeopleOf[l])
  <2>1. PeopleOf[l][c] = NoData
    BY <1>1, <1>6 DEF Members
  <2>2. ~ NobodyJoins
    BY <1>1, <1>4, <1>6 DEF NobodyJoins
  <2>3. contacts[c] = <<>>
    <3> SUFFICES ASSUME contacts[c] # <<>> PROVE FALSE
      OBVIOUS
    <3>1. PICK n \in Reached : c \in Members(PeopleOf[n])
      BY <1>1, <2>2 DEF ContactsMirrored
    <3>2. n \in Message \ Malformed /\ n # l
      BY <1>1, <1>6, <3>1, ReachedOlder
    <3>3. Timestamp[n] < Timestamp[l]
      <4>1. Timestamp[n] <= Timestamp[l] /\ Timestamp[n] # Timestamp[l]
        BY <1>1, <1>2, <3>1, <3>2 DEF DistinctTimestamps
      <4>2. QED
        BY <1>1, <3>2, <4>1, MessageAssumption
    <3>4. QED
      BY <1>1, <1>4, <1>6, <3>1, <3>2, <3>3 DEF NobodyReturns
  <2>4. QED
    BY <2>1, <2>3 DEF CrmPerson
<1>7. QED
  BY <1>5, <1>6

(* A comparison that finds nothing to send has found every member as the   *)
(* payload has it.                                                         *)
LEMMA NoopPersons ==
  ASSUME NEW cmp \in AccountComparison, NoopOrStale(cmp), cmp.account = "noop",
         NEW c \in Contact, NEW a, NEW b, a # NoData,
         cmp.contacts[c].action = FetchAction(a, b)
  PROVE  a = b
<1>1. cmp.contacts[c].action \in {"noop", "absent"}
  BY NoopMeaning
<1>2. FetchAction(a, b) = "noop"
  BY <1>1, ActionMeaning
<1>3. QED
  BY <1>2, ActionMeaning

(* A comparison of every member with what SugarCRM shows of him, made by   *)
(* whichever step.                                                         *)
LEMMA ComparisonContacts ==
  ASSUME DistinctTimestamps, Orderly, Settled, ContactsMirrored, NEW w \in Worker,
         pc[w] \in {"compare", "fetch_account", "fetch_contacts"},
         \A v \in Worker \ {w} : pc'[v] = pc[v],
         UNCHANGED <<broker, message, contacts>>,
         NEW cmp \in AccountComparison, comparison'[w] = cmp,
         \A c \in Members(PeopleOf[message[w]]) :
           cmp.contacts[c].action = FetchAction(PeopleOf[message[w]][c], CrmPerson(c)),
         \/ pc'[w] \in {"find_account", "fetch_contacts"}
         \/ pc'[w] = "persist" /\ NoopOrStale(cmp) /\ cmp.account = "noop"
  PROVE  ContactsMirrored'
<1> DEFINE m == message[w]
<1>1. m \in Message \ Malformed
  BY BusyMessage DEF Settled, Orderly, RowsSettled
<1>2. CASE pc'[w] \in {"find_account", "fetch_contacts"}
  <2>1. \A c \in Contact : PersonCompared(w, c)'
    BY <1>2 DEF PersonCompared, CrmPerson
  <2>2. QED
    BY <1>2, <2>1, ContactsElsewhere DEF AccountHandled
<1>3. CASE pc'[w] = "persist" /\ NoopOrStale(cmp) /\ cmp.account = "noop"
  <2>1. ASSUME NEW c \in Members(PeopleOf[m])
        PROVE  CrmPerson(c)' = PeopleOf[m][c]
    <3>1. c \in Contact /\ PeopleOf[m][c] # NoData
      BY <2>1 DEF Members
    <3>2. PeopleOf[m][c] = CrmPerson(c)
      BY <1>3, <3>1, NoopPersons
    <3>3. QED
      BY <3>2 DEF CrmPerson
  <2>2. \A c \in Contact : PersonCompared(w, c)'
    BY <1>3 DEF PersonCompared
  <2>3. Reached' = Reached \cup {m}
    BY <1>1, <1>3, ReachedStep DEF AccountHandled
  <2>4. \A c \in Contact :
          /\ Len(contacts'[c]) <= 1
          /\ contacts'[c] # <<>> =>
               Preexisting # {} \/ \E n \in Reached' : c \in Members(PeopleOf[n])
    BY <2>3 DEF ContactsMirrored
  <2>5. QED
    BY <1>1, <1>3, <2>1, <2>2, <2>4, ContactsReached DEF AccountHandled
<1>4. QED
  BY <1>2, <1>3

LEMMA CompareContacts ==
  ASSUME DistinctTimestamps, NobodyReturns, Preexisting = {} \/ NobodyJoins,
         Orderly, Settled, ContactsMirrored, NEW w \in Worker, Compare(w)
  PROVE  ContactsMirrored'
<1> DEFINE m == message[w]
<1>1. /\ pc[w] = "compare" /\ m \in Message \ Malformed
      /\ UNCHANGED <<broker, message, contacts>>
      /\ pc \in [Worker -> Step] /\ comparison \in [Worker -> AccountComparison \cup {None}]
  BY BusyMessage DEF Compare, crmVars, Orderly, Settled, RowsSettled, IInv, TypeOK
<1>2. CASE OtherFamilies(w) = {} /\ Goto(w, "fetch_account")
  <2>1. pc'[w] = "fetch_account" /\ \A v \in Worker \ {w} : pc'[v] = pc[v]
    BY <1>1, <1>2 DEF Goto
  <2>2. \A c \in Contact : PersonCompared(w, c)'
    BY <2>1 DEF PersonCompared
  <2>3. QED
    BY <1>1, <2>1, <2>2, ContactsElsewhere DEF AccountHandled
<1>3. ASSUME NEW g \in NewestOf(OtherFamilies(w)),
             comparison' = [comparison EXCEPT ![w] = CompareWithPrevious(m, g)],
             Goto(w, AfterComparison(CompareWithPrevious(m, g)))
      PROVE  ContactsMirrored'
  <2> DEFINE l == families[g].message
             cmp == CompareWithPrevious(m, g)
  <2>1. /\ l \in Message /\ ~ IsStale(m, g) /\ g \in FamilyId /\ families[g] # None
    BY <1>1, Eligible DEF Orderly
  <2>2. cmp \in AccountComparison
    BY <1>1, <2>1, PreviousType DEF Orderly, IInv
  <2>3. /\ cmp = CompareAccountsAndContacts(AccountOf[m], PeopleOf[m], AccountOf[l], PeopleOf[l])
        /\ cmp.account = FetchAction(AccountOf[m], AccountOf[l])
    BY <2>1 DEF CompareWithPrevious, CompareAccountsAndContacts
  <2>4. \A c \in Members(PeopleOf[m]) :
          cmp.contacts[c].action = FetchAction(PeopleOf[m][c], CrmPerson(c))
    <3> SUFFICES ASSUME NEW c \in Members(PeopleOf[m])
                 PROVE  cmp.contacts[c].action = FetchAction(PeopleOf[m][c], CrmPerson(c))
      OBVIOUS
    <3>1. c \in Contact /\ PeopleOf[m][c] # NoData
      BY DEF Members
    <3>2. cmp.contacts[c].action = FetchAction(PeopleOf[m][c], PeopleOf[l][c])
      BY <2>3, <3>1 DEF CompareAccountsAndContacts, FetchContactAction
    <3>3. PeopleOf[l][c] = CrmPerson(c)
      BY <1>1, PreviousShown
    <3>4. QED
      BY <3>2, <3>3
  <2>5. /\ pc'[w] = AfterComparison(cmp) /\ \A v \in Worker \ {w} : pc'[v] = pc[v]
        /\ comparison'[w] = cmp
    BY <1>1, <1>3 DEF Goto
  <2> HIDE DEF cmp
  <2>6. \/ pc'[w] = "find_account"
        \/ pc'[w] = "persist" /\ NoopOrStale(cmp) /\ cmp.account = "noop"
    BY <2>2, <2>3, <2>5, NoopMeaning, ActionMeaning DEF AfterComparison
  <2>7. QED
    BY <1>1, <2>2, <2>4, <2>5, <2>6, ComparisonContacts
<1>4. QED
  BY <1>2, <1>3 DEF Compare

(* SugarCRM has no account, hence no contacts, or these are looked at in   *)
(* the next request.                                                       *)
LEMMA FetchAccountContacts ==
  ASSUME MaxCopies = 1, CrmInv,
         Orderly, ContactsMirrored, NEW w \in Worker, FetchAccount(w)
  PROVE  ContactsMirrored'
<1> DEFINE m == message[w]
           nobody == [c \in Contact |-> NoData]
<1>1. /\ pc[w] = "fetch_account"
      /\ comparison'[w] = CompareAccountsAndContacts(AccountOf[m], PeopleOf[m], CrmAccount, nobody)
      /\ pc'[w] = IF CrmAccount = NoData THEN "find_account" ELSE "fetch_contacts"
      /\ \A v \in Worker \ {w} : pc'[v] = pc[v]
      /\ UNCHANGED <<broker, message, contacts>>
  BY DEF Orderly, IInv, TypeOK, FetchAccount, CrmAccount, Goto, crmVars
<1>2. ASSUME NEW c \in Contact PROVE PersonCompared(w, c)'
  <2>1. CASE CrmAccount = NoData
    <3>1. CrmPerson(c) = NoData
      BY <2>1, AccountData, OneRecord DEF Orderly
    <3>2. c \in Members(PeopleOf[m]) =>
            comparison'[w].contacts[c].action = FetchAction(PeopleOf[m][c], NoData)
      BY <1>1 DEF CompareAccountsAndContacts, FetchContactAction, Members
    <3>3. CrmPerson(c)' = NoData
      BY <1>1, <3>1 DEF CrmPerson
    <3>4. QED
      BY <1>1, <3>2, <3>3 DEF PersonCompared
  <2>2. CASE CrmAccount # NoData
    BY <1>1, <2>2 DEF PersonCompared
  <2>3. QED
    BY <2>1, <2>2
<1>3. pc'[w] \in {"find_account", "fetch_contacts"}
  BY <1>1
<1>4. QED
  BY <1>1, <1>2, <1>3, ContactsElsewhere DEF AccountHandled

LEMMA FetchContactsContacts ==
  ASSUME DistinctTimestamps, MaxCopies = 1, CrmInv,
         Orderly, Settled, ContactsMirrored, NEW w \in Worker, FetchContacts(w)
  PROVE  ContactsMirrored'
<1> DEFINE m == message[w]
           cmp == [comparison[w] EXCEPT !.contacts =
                    [c \in Contact |-> FetchContactAction(PeopleOf[m][c], FirstLinked(c))]]
<1>1. /\ pc[w] = "fetch_contacts"
      /\ comparison'[w] = cmp /\ pc'[w] = AfterComparison(cmp)
      /\ \A v \in Worker \ {w} : pc'[v] = pc[v]
      /\ UNCHANGED <<broker, message, contacts>>
  BY DEF Orderly, IInv, TypeOK, FetchContacts, Goto, crmVars
<1>2. comparison[w] \in AccountComparison
  BY <1>1 DEF Orderly, IInv, TypeOK, OwnSubject
<1>3. comparison[w].account = FetchAction(AccountOf[m], CrmAccount)
  BY <1>1 DEF Settled, AccountMirrored, AccountCompared
<1>4. /\ cmp \in AccountComparison /\ cmp.account = comparison[w].account
      /\ \A c \in Contact : cmp.contacts[c] = FetchContactAction(PeopleOf[m][c], FirstLinked(c))
  <2>1. \A c \in Contact : FetchContactAction(PeopleOf[m][c], FirstLinked(c)) \in ContactComparison
    BY DEF FetchContactAction, FetchAction, ContactComparison, Action, Response
  <2>2. QED
    BY <1>2, <2>1 DEF AccountComparison
<1> HIDE DEF cmp
<1>5. ASSUME NEW c \in Members(PeopleOf[m])
      PROVE  cmp.contacts[c].action = FetchAction(PeopleOf[m][c], CrmPerson(c))
  <2>1. c \in Contact /\ PeopleOf[m][c] # NoData
    BY <1>5 DEF Members
  <2>2. FirstLinked(c) = CrmPerson(c)
    BY <2>1, OneRecord DEF Orderly
  <2>3. cmp.contacts[c] = FetchContactAction(PeopleOf[m][c], CrmPerson(c))
    BY <1>4, <2>1, <2>2
  <2>4. QED
    BY <2>1, <2>3 DEF FetchContactAction
<1>6. \/ pc'[w] = "find_account"
      \/ pc'[w] = "persist" /\ NoopOrStale(cmp) /\ cmp.account = "noop"
  BY <1>1, <1>3, <1>4, NoopMeaning, ActionMeaning DEF AfterComparison
<1>7. QED
  BY <1>1, <1>4, <1>5, <1>6, ComparisonContacts

LEMMA WriteAccountContacts ==
  ASSUME DistinctTimestamps, Orderly, Settled, ContactsMirrored, NEW w \in Worker,
         KeepAccount(w) \/ CreateAccount(w) \/ UpdateAccount(w), faults' = faults
  PROVE  ContactsMirrored'
<1> DEFINE m == message[w]
<1>1. /\ pc[w] = "write_account" /\ m \in Message \ Malformed
      /\ comparison[w] \in AccountComparison
      /\ pc \in [Worker -> Step] /\ faults \in Nat /\ pending \in [Worker -> SUBSET Contact]
      /\ comparison \in [Worker -> AccountComparison \cup {None}]
  BY Writing, WritingType DEF KeepAccount, CreateAccount, UpdateAccount, Orderly, IInv, TypeOK
<1>2. ~ Fault
  BY <1>1 DEF Fault
<1>3. /\ pc' = [pc EXCEPT ![w] = "write_contacts"]
      /\ pending' = [pending EXCEPT ![w] = Members(PeopleOf[m])]
      /\ \E r \in Response : comparison' = [comparison EXCEPT ![w].response = r]
      /\ UNCHANGED <<broker, message, contacts>>
  BY <1>2 DEF KeepAccount, CreateAccount, UpdateAccount, AccountDone, Goto, crmVars, Response
<1>4. /\ pc'[w] = "write_contacts" /\ \A v \in Worker \ {w} : pc'[v] = pc[v]
      /\ pending'[w] = Members(PeopleOf[m])
  BY <1>1, <1>3
<1>5. comparison'[w].contacts = comparison[w].contacts
  BY <1>1, <1>3 DEF AccountComparison
<1>6. \A c \in Contact : PersonCompared(w, c)'
  BY <1>1, <1>3, <1>4, <1>5 DEF ContactsMirrored, PersonCompared, CrmPerson
<1>7. Reached' = Reached \cup {m}
  BY <1>1, <1>3, <1>4, ReachedStep DEF AccountHandled
<1>8. \A c \in Contact :
        /\ Len(contacts'[c]) <= 1
        /\ contacts'[c] # <<>> =>
             Preexisting # {} \/ \E n \in Reached' : c \in Members(PeopleOf[n])
  BY <1>3, <1>7 DEF ContactsMirrored
<1>9. QED
  BY <1>1, <1>3, <1>4, <1>6, <1>8, ContactsReached DEF AccountHandled

(* Person c as he is after his call, or without one.                       *)
LEMMA PersonWritten ==
  ASSUME MaxCopies = 1, CrmInv, Orderly, Settled, ContactsMirrored,
         NEW w \in Worker, NEW c \in Contact, WriteContact(w, c), faults' = faults
  PROVE  /\ CrmPerson(c)' = PeopleOf[message[w]][c]
         /\ Len(contacts'[c]) <= 1
         /\ \A d \in Contact \ {c} : contacts'[d] = contacts[d]
<1> DEFINE m == message[w]
<1>1. pc[w] = "write_contacts" /\ c \in pending[w]
  BY DEF WriteContact, KeepContact, CannotWriteContact, CreateContact, UpdateContact,
         ContactNotFound, ContactCallFails, PendingContact
<1>2. c \in Members(PeopleOf[m]) /\ sugarId[w] # 0
  BY <1>1 DEF Orderly, IInv, OwnSubject, Settled, AccountMirrored, AccountCompared
<1>3. comparison[w].contacts[c].action = FetchAction(PeopleOf[m][c], CrmPerson(c))
  BY <1>1, <1>2 DEF ContactsMirrored, PersonCompared
<1>4. /\ contacts \in [Contact -> Seq(CrmContact)] /\ faults \in Nat
      /\ Len(contacts[c]) <= 1
  BY DEF Orderly, IInv, TypeOK, ContactsMirrored
<1>5. ~ Fault
  BY <1>4 DEF Fault
<1>6. CASE KeepContact(w, c)
  <2>1. FetchAction(PeopleOf[m][c], CrmPerson(c)) = "noop" /\ UNCHANGED contacts
    BY <1>3, <1>6 DEF KeepContact, PendingContact
  <2>2. CrmPerson(c) = PeopleOf[m][c]
    BY <2>1, ActionMeaning
  <2>3. QED
    BY <1>4, <2>1, <2>2 DEF CrmPerson
<1>7. CASE CreateContact(w, c)
  <2>1. FetchAction(PeopleOf[m][c], CrmPerson(c)) = "create"
    BY <1>3, <1>7 DEF CreateContact, PendingContact
  <2>2. contacts[c] = <<>>
    BY <2>1, ActionMeaning, OneRecord DEF Orderly
  <2>3. PICK list \in Created(<<>>, CrmRecord(w, c)) : contacts' = [contacts EXCEPT ![c] = list]
    BY <1>7, <2>2 DEF CreateContact
  <2>4. list = <<CrmRecord(w, c)>>
    BY <2>3 DEF Created
  <2>5. contacts'[c] = <<CrmRecord(w, c)>> /\ \A d \in Contact \ {c} : contacts'[d] = contacts[d]
    BY <1>4, <2>3, <2>4
  <2>6. QED
    BY <2>5 DEF CrmPerson, CrmRecord
<1>8. CASE UpdateContact(w, c)
  <2>1. contacts[c] # <<>> /\ contacts' = [contacts EXCEPT ![c][1] = CrmRecord(w, c)]
    BY <1>8 DEF UpdateContact
  <2>2. Len(contacts[c]) = 1 /\ DOMAIN contacts[c] = {1}
    BY <1>4, <2>1, Single
  <2>3. /\ contacts'[c] = [contacts[c] EXCEPT ![1] = CrmRecord(w, c)]
        /\ \A d \in Contact \ {c} : contacts'[d] = contacts[d]
    BY <1>4, <2>1
  <2>4. contacts'[c] # <<>> /\ Len(contacts'[c]) = 1 /\ contacts'[c][1] = CrmRecord(w, c)
    BY <1>4, <2>2, <2>3
  <2>5. CrmPerson(c)' = PeopleOf[m][c]
    <3>1. CrmPerson(c)' = contacts'[c][1].data
      BY <2>4 DEF CrmPerson
    <3>2. contacts'[c][1].data = PeopleOf[m][c]
      BY <2>4 DEF CrmRecord
    <3>3. QED
      BY <3>1, <3>2
  <2>6. Len(contacts'[c]) <= 1
    BY <2>4
  <2>7. QED
    BY <2>3, <2>5, <2>6
<1>9. ~ CannotWriteContact(w, c) /\ ~ ContactCallFails(w, c)
  BY <1>2, <1>5 DEF CannotWriteContact, ContactCallFails
<1>10. ~ ContactNotFound(w, c)
  <2> SUFFICES ASSUME ContactNotFound(w, c) PROVE FALSE
    OBVIOUS
  <2>1. FetchAction(PeopleOf[m][c], CrmPerson(c)) = "update" /\ contacts[c] = <<>>
    BY <1>3 DEF ContactNotFound, PendingContact
  <2>2. QED
    BY <2>1, ActionMeaning DEF CrmPerson
<1>11. QED
  BY <1>6, <1>7, <1>8, <1>9, <1>10 DEF WriteContact

LEMMA WriteContactContacts ==
  ASSUME DistinctTimestamps, MaxCopies = 1, CrmInv, Orderly, Settled, ContactsMirrored,
         NEW w \in Worker, NEW c \in Contact, WriteContact(w, c), faults' = faults
  PROVE  ContactsMirrored'
<1> DEFINE m == message[w]
<1>1. /\ pc[w] = "write_contacts" /\ c \in pending[w]
      /\ \E r \in Response : ContactDone(w, c, r)
  BY DEF WriteContact, KeepContact, CannotWriteContact, CreateContact, UpdateContact,
         ContactNotFound, ContactCallFails, PendingContact, Response
<1>2. /\ UNCHANGED <<broker, message>>
      /\ pc'[w] = IF pending[w] = {c} THEN "persist" ELSE "write_contacts"
      /\ \A v \in Worker \ {w} : pc'[v] = pc[v]
      /\ pending'[w] = pending[w] \ {c}
      /\ \E r \in Response : comparison' = [comparison EXCEPT ![w].contacts[c].response = r]
  BY <1>1 DEF Orderly, IInv, TypeOK, ContactDone, Goto
<1>3. /\ m \notin Malformed /\ m \in Message /\ Newest(m)
      /\ \A v \in Worker \ {w} : pc[v] = "idle"
      /\ pending[w] \subseteq Members(PeopleOf[m])
      /\ comparison \in [Worker -> AccountComparison \cup {None}]
  BY <1>1, BusyNewest, OnlyBusy
     DEF Settled, RowsSettled, AccountHandled, Orderly, IInv, TypeOK, OwnSubject
<1>4. comparison[w] \in AccountComparison \/ comparison[w] = None
  BY <1>3
<1>5. comparison[w] # None
  BY <1>1 DEF Orderly, IInv, OwnSubject, AfterComparing
<1>6. ASSUME NEW d \in Contact
      PROVE  comparison'[w].contacts[d].action = comparison[w].contacts[d].action
  <2>1. PICK r : comparison' = [comparison EXCEPT ![w].contacts[c].response = r]
    BY <1>2
  <2>2. /\ comparison[w].contacts \in [Contact -> ContactComparison]
        /\ comparison'[w] = [comparison[w] EXCEPT !.contacts[c].response = r]
        /\ comparison[w] \in AccountComparison
    BY <1>3, <1>4, <1>5, <2>1 DEF AccountComparison
  <2>3. comparison'[w].contacts = [comparison[w].contacts EXCEPT ![c].response = r]
    BY <2>2 DEF AccountComparison
  <2>4. QED
    BY <2>2, <2>3 DEF ContactComparison
<1>7. /\ CrmPerson(c)' = PeopleOf[m][c] /\ Len(contacts'[c]) <= 1
      /\ \A d \in Contact \ {c} : contacts'[d] = contacts[d]
  BY PersonWritten
<1>8. Reached' = Reached \cup {m}
  BY <1>1, <1>2, <1>3, ReachedStep DEF AccountHandled
<1>9. \A d \in Contact :
        /\ Len(contacts'[d]) <= 1
        /\ contacts'[d] # <<>> =>
             Preexisting # {} \/ \E n \in Reached' : d \in Members(PeopleOf[n])
  <2> SUFFICES ASSUME NEW d \in Contact
               PROVE  /\ Len(contacts'[d]) <= 1
                      /\ contacts'[d] # <<>> =>
                           Preexisting # {} \/ \E n \in Reached' : d \in Members(PeopleOf[n])
    OBVIOUS
  <2>1. CASE d = c
    BY <1>1, <1>3, <1>7, <1>8, <2>1
  <2>2. CASE d # c
    BY <1>7, <1>8, <2>2 DEF ContactsMirrored
  <2>3. QED
    BY <2>1, <2>2
<1>10. ASSUME NEW d \in Members(PeopleOf[m])
       PROVE  \/ CrmPerson(d)' = PeopleOf[m][d]
              \/ pc'[w] = "write_contacts" /\ d \in pending'[w]
  <2>1. d \in Contact
    BY DEF Members
  <2>2. CASE d = c
    BY <1>7, <2>2
  <2>3. CASE d # c /\ d \in pending[w]
    BY <1>2, <2>3
  <2>4. CASE d # c /\ d \notin pending[w]
    <3>1. CrmPerson(d) = PeopleOf[m][d]
      BY <1>3, <2>1, <2>4 DEF ContactsMirrored
    <3>2. QED
      BY <1>7, <2>1, <2>4, <3>1 DEF CrmPerson
  <2>5. QED
    BY <2>2, <2>3, <2>4
<1>11. ASSUME NEW d \in Contact PROVE PersonCompared(w, d)'
  <2>1. CASE pc'[w] = "write_contacts" /\ d \in pending'[w]
    <3>1. d # c /\ d \in pending[w]
      BY <1>2, <2>1
    <3>2. PersonCompared(w, d) /\ contacts'[d] = contacts[d]
      BY <1>7, <3>1 DEF ContactsMirrored
    <3>3. QED
      BY <1>1, <1>2, <1>6, <3>1, <3>2 DEF PersonCompared, CrmPerson
  <2>2. CASE ~ (pc'[w] = "write_contacts" /\ d \in pending'[w])
    BY <1>2, <2>2 DEF PersonCompared
  <2>3. QED
    BY <2>1, <2>2
<1>12. QED
  BY <1>1, <1>2, <1>3, <1>9, <1>10, <1>11, ContactsReached DEF AccountHandled

LEMMA ContactsStep ==
  ASSUME DistinctTimestamps, NobodyReturns, Preexisting = {} \/ NobodyJoins, MaxCopies = 1,
         CrmInv, Orderly, Settled, ContactsMirrored, Next, NothingFailed'
  PROVE  ContactsMirrored'
<1>1. ASSUME NEW w \in Worker, NEW m \in Message, Deliver(w, m)
      PROVE  ContactsMirrored'
  BY <1>1, DeliverContacts
<1>2. ASSUME NEW w \in Worker, Process(w), ~ StepFails(w), faults' = faults
      PROVE  ContactsMirrored'
  <2>1. CASE \/ Refuse(w) \/ CreateFamily(w) \/ AccountTransaction(w) \/ ContactTransactions(w)
             \/ Persist(w) \/ Respond(w) \/ Ack(w)
    BY <2>1, ElsewhereContacts, AckContacts
  <2>2. CASE Compare(w) \/ FetchAccount(w) \/ FetchContacts(w) \/ FindAccount(w)
    BY <2>2, CompareContacts, FetchAccountContacts, FetchContactsContacts, FindAccountContacts
  <2>3. CASE KeepAccount(w) \/ CreateAccount(w) \/ UpdateAccount(w)
    BY <1>2, <2>3, WriteAccountContacts
  <2>4. CASE \E c \in Contact : WriteContact(w, c)
    BY <1>2, <2>4, WriteContactContacts
  <2>5. QED
    BY <1>2, <2>1, <2>2, <2>3, <2>4, UpdateHasAccount DEF Process
<1>3. QED
  BY <1>1, <1>2, QuietNext DEF Orderly

LEMMA InitContacts == Init => ContactsInv
<1> SUFFICES ASSUME Init PROVE ContactsMirrored
  BY DEF ContactsInv
<1>1. \A c \in Contact : Len(contacts[c]) <= 1 /\ (contacts[c] # <<>> => Preexisting # {})
  <2>1. CASE contacts = [c \in Contact |-> <<>>]
    BY <2>1
  <2>2. ASSUME NEW d \in Preexisting, NEW known \in SUBSET Contact,
               contacts = [c \in Contact |->
                            IF c \in known THEN <<[data |-> d, account |-> 1]>> ELSE <<>>]
        PROVE  \A c \in Contact : Len(contacts[c]) <= 1 /\ Preexisting # {}
    BY <2>2
  <2>3. QED
    BY <2>1, <2>2 DEF Init
<1>2. \A w \in Worker : pc[w] = "idle"
  BY DEF Init
<1>3. QED
  BY <1>1, <1>2, InitMirror DEF ContactsMirrored, Newest, PersonCompared

LEMMA NextContacts ==
  ASSUME DistinctTimestamps, NobodyReturns, Preexisting = {} \/ NobodyJoins, MaxCopies = 1,
         IInv, CrmInv, OrderInv, MirrorInv, ContactsInv, [Next]_vars
  PROVE  ContactsInv'
<1> SUFFICES ASSUME NothingFailed' PROVE ContactsMirrored'
  BY DEF ContactsInv
<1>1. CASE Next
  <2>1. Orderly /\ Settled /\ ContactsMirrored
    BY <1>1, QuietNext DEF Orderly, Settled, MirrorInv, ContactsInv
  <2>2. QED
    BY <1>1, <2>1, ContactsStep
<1>2. CASE UNCHANGED vars
  <2>1. Reached' = Reached /\ ContactsMirrored
    BY <1>2 DEF ContactsInv, NothingFailed, Processed, Reached, vars, mongoVars, crmVars, workerVars
  <2>2. \A v \in Worker, c \in Contact : PersonCompared(v, c)'
    BY <1>2, <2>1 DEF ContactsMirrored, PersonCompared, CrmPerson, vars, crmVars, workerVars
  <2>3. UNCHANGED <<contacts, pc, pending>>
    BY <1>2 DEF vars, crmVars, workerVars
  <2>4. QED
    BY <2>1, <2>2, <2>3, ContactsStay
<1>3. QED
  BY <1>1, <1>2

(* As long as nothing has failed, what the comparison says of a member is  *)
(* what a comparison with SugarCRM would say, until his contact is written.*)
THEOREM ContactsInvariance ==
  ASSUME Ordered, DistinctTimestamps, MaxCopies = 1,
         NobodyReturns, Preexisting = {} \/ NobodyJoins
  PROVE  Spec => []ContactsInv
<1>1. IInv /\ OrderInv /\ CrmInv /\ MirrorInv /\ ContactsInv /\ [Next]_vars => ContactsInv'
  BY NextContacts
<1>2. QED
  BY <1>1, InitContacts, Invariance, CrmInvariance, OrderInvariance, MirrorInvariance, PTL
     DEF Spec

(* Between two messages SugarCRM shows the whole payload of the newest one *)
(* processed, with one account and one contact per person, as long as no   *)
(* call fails, no worker crashes and no create is sent twice.  The         *)
(* hypotheses on the messages are what the comparison with the previous    *)
(* row (fetch_eligible_subject, in place of SugarCRM) takes for granted: a *)
(* member who has left and returns, or joins and is known to SugarCRM      *)
(* already, is created a second time.                                      *)
THEOREM PayloadMirrored ==
  ASSUME Ordered, DistinctTimestamps, MaxCopies = 1,
         NobodyReturns, Preexisting = {} \/ NobodyJoins
  PROVE  Spec /\ []NothingFailed => []MirrorsNewest
<1>1. IInv /\ CrmInv /\ MirrorInv /\ ContactsInv /\ NothingFailed => MirrorsNewest
  <2> SUFFICES ASSUME IInv, CrmInv, AccountMirrored, ContactsMirrored,
                      \A w \in Worker : pc[w] = "idle", Processed # {}
               PROVE  /\ \E m \in Processed :
                           Mirrors(m) /\ \A n \in Processed : Timestamp[n] <= Timestamp[m]
                      /\ Len(accounts) = 1
                      /\ \A c \in Contact : Len(contacts[c]) <= 1
    BY DEF MirrorInv, ContactsInv, MirrorsNewest
  <2>1. Reached = Processed
    BY DEF Reached, AccountHandled
  <2>2. PICK m \in Message : Newest(m)
    BY <2>1 DEF AccountMirrored
  <2>3. m \in Processed /\ \A n \in Processed : Timestamp[n] <= Timestamp[m]
    BY <2>1, <2>2 DEF Newest
  <2>4. CrmAccount = AccountOf[m] /\ AccountOf[m] \in Data
    BY <2>2, MessageAssumption DEF AccountMirrored
  <2>5. accounts # <<>> /\ accounts[1] = AccountOf[m]
    BY <2>4, AccountData, NoDataAssumption
  <2>6. Len(accounts) = 1
    BY <2>5, Single DEF IInv, TypeOK, AtMostOneAccount
  <2>7. ASSUME NEW c \in Members(PeopleOf[m])
        PROVE  /\ contacts[c] # <<>>
               /\ contacts[c][1] = [data |-> PeopleOf[m][c], account |-> 1]
    <3>1. c \in Contact /\ PeopleOf[m][c] # NoData
      BY DEF Members
    <3>2. CrmPerson(c) = PeopleOf[m][c]
      BY <2>2, <3>1 DEF ContactsMirrored
    <3>3. /\ contacts[c] # <<>> /\ contacts[c][1] \in CrmContact
          /\ contacts[c][1].account = 1
      BY <3>1, <3>2, OneRecord
    <3>4. contacts[c][1].data = PeopleOf[m][c]
      BY <3>2, <3>3 DEF CrmPerson
    <3>5. QED
      BY <3>3, <3>4 DEF CrmContact
  <2>8. Mirrors(m)
    BY <2>5, <2>7 DEF Mirrors
  <2>9. QED
    BY <2>3, <2>6, <2>8 DEF ContactsMirrored
<1>2. QED
  BY <1>1, Invariance, CrmInvariance, MirrorInvariance, ContactsInvariance, PTL

=============================================================================
