------------------------ MODULE LegacyUpsertProofs ------------------------
(***************************************************************************)
(* For any number of handlers, messages, members and faults: a successful  *)
(* family update leaves every member linked, the records of one hbx id are *)
(* bounded by the handlers, and an upsert keeps the promise of UpsertCall. *)
(***************************************************************************)
EXTENDS LegacyUpsert, FiniteSetTheorems, TLAPS

(* What step h leaves alone of every other handler.                        *)
OthersUnchanged(h) ==
  \A k \in Handler \ {h} :
    /\ pc'[k] = pc[k] /\ message'[k] = message[k] /\ account'[k] = account[k]
    /\ pending'[k] = pending[k] /\ current'[k] = current[k] /\ failed'[k] = failed[k]
    /\ result'[k] = result[k] /\ written'[k] = written[k]

(* Nothing is taken out of SugarCRM, and no link is lost.                  *)
Grown ==
  /\ Len(accounts) <= Len(accounts')
  /\ \A p \in Person :
       /\ Len(contacts[p]) <= Len(contacts'[p])
       /\ \A i \in 1..Len(contacts[p]) :
            contacts[p][i].account # 0 => contacts'[p][i].account # 0

(* What a step does to SugarCRM: it grows, at most by what h may create.   *)
Room(h) ==
  /\ accounts' \in Seq(Message)
  /\ contacts' \in [Person -> Seq(CrmContact)]
  /\ Grown
  /\ Len(accounts') <= Len(accounts) + (IF pc[h] = "create_account" THEN MaxCopies ELSE 0)
  /\ \A p \in Person :
       Len(contacts'[p]) <= Len(contacts[p]) +
         (IF pc[h] = "create_contact" /\ current[h] = p THEN MaxCopies ELSE 0)
  /\ LinksExist'

-----------------------------------------------------------------------------
LEMMA Others ==
  ASSUME IInv, NEW h \in Handler, OthersUnchanged(h), Grown,
         accounts' \in Seq(Message), contacts' \in [Person -> Seq(CrmContact)]
  PROVE  \A k \in Handler \ {h} : HandlerConsistent(k)'
<1> SUFFICES ASSUME NEW k \in Handler \ {h}
             PROVE  HandlerConsistent(k)'
  OBVIOUS
<1>1. /\ HandlerConsistent(k) /\ accounts \in Seq(Message) /\ account[k] \in Nat
      /\ contacts \in [Person -> Seq(CrmContact)]
      /\ pending[k] \subseteq Person
  BY DEF IInv, TypeOK, HandlersConsistent
<1>2. /\ pc'[k] = pc[k] /\ message'[k] = message[k] /\ account'[k] = account[k]
      /\ pending'[k] = pending[k] /\ current'[k] = current[k] /\ failed'[k] = failed[k]
      /\ result'[k] = result[k] /\ written'[k] = written[k]
  BY DEF OthersUnchanged
<1>3. IsFamily(k)' <=> IsFamily(k)
  BY <1>2 DEF IsFamily
<1>4. accounts # <<>> => accounts' # <<>>
  BY <1>1 DEF Grown
<1>5. account[k] \in 1..Len(accounts) => account[k] \in 1..Len(accounts')
  BY <1>1 DEF Grown
<1>6. pc[k] = "update_contact" /\ contacts[current[k]] # <<>> => contacts'[current[k]] # <<>>
  <2> SUFFICES ASSUME pc[k] = "update_contact", contacts[current[k]] # <<>>
               PROVE  contacts'[current[k]] # <<>>
    OBVIOUS
  <2>1. current[k] \in Person
    BY <1>1 DEF HandlerConsistent
  <2>2. Len(contacts[current[k]]) <= Len(contacts'[current[k]])
    BY <2>1 DEF Grown
  <2>3. QED
    BY <1>1, <2>1, <2>2
<1>7. QED
  BY <1>1, <1>2, <1>3, <1>4, <1>5, <1>6 DEF HandlerConsistent

(* Members written before stay linked.                                     *)
LEMMA StillLinked ==
  ASSUME IInv, NEW h \in Handler, OthersUnchanged(h), Grown,
         contacts' \in [Person -> Seq(CrmContact)],
         message'[h] \in FamilyUpdate =>
           \A p \in written'[h] \ {"account"} :
             \/ message[h] \in FamilyUpdate /\ p \in written[h]
             \/ \E i \in 1..Len(contacts'[p]) : contacts'[p][i].account # 0
  PROVE  WrittenAreLinked'
<1> SUFFICES ASSUME NEW k \in Handler, message'[k] \in FamilyUpdate,
                    NEW p \in written'[k] \ {"account"}
             PROVE  \E i \in 1..Len(contacts'[p]) : contacts'[p][i].account # 0
  BY DEF WrittenAreLinked
<1>1. CASE message[k] \in FamilyUpdate /\ p \in written[k]
  <2>1. /\ WrittenAreLinked /\ written[k] \subseteq Person \cup {"account"}
        /\ contacts \in [Person -> Seq(CrmContact)]
    BY DEF IInv, TypeOK
  <2>2. PICK i \in 1..Len(contacts[p]) : contacts[p][i].account # 0
    BY <1>1, <2>1 DEF WrittenAreLinked
  <2>3. p \in Person
    BY <1>1, <2>1
  <2>4. i \in 1..Len(contacts'[p]) /\ contacts'[p][i].account # 0
    BY <2>1, <2>2, <2>3 DEF Grown
  <2>5. QED
    BY <2>4
<1>2. CASE k = h /\ ~ (message[h] \in FamilyUpdate /\ p \in written[h])
  BY <1>2
<1>3. CASE k # h
  BY <1>1, <1>3 DEF OthersUnchanged
<1>4. QED
  BY <1>1, <1>2, <1>3

LEMMA StillVouched ==
  ASSUME IInv, NEW h \in Handler, OthersUnchanged(h),
         result'[h] = "success" => Required[message'[h]] \subseteq written'[h]
  PROVE  Vouched'
<1> SUFFICES ASSUME NEW k \in Handler, result'[k] = "success"
             PROVE  Required[message'[k]] \subseteq written'[k]
  BY DEF Vouched, Required
<1>1. CASE k = h
  BY <1>1
<1>2. CASE k # h
  <2>1. result[k] = "success" => Required[message[k]] \subseteq written[k]
    BY DEF IInv, Vouched
  <2>2. QED
    BY <1>2, <2>1 DEF OthersUnchanged
<1>3. QED
  BY <1>1, <1>2

(* A handler that creates turns at most one create into records; one that  *)
(* starts to create has found none.                                        *)
LEMMA Counting ==
  ASSUME NEW S, NEW T, NEW x, IsFiniteSet(Handler), S \subseteq Handler, T \subseteq Handler,
         NEW n \in Nat, NEW m \in Nat, MaxCopies \in {1, 2},
         n + MaxCopies * Cardinality(S) <= MaxCopies * Cardinality(Handler),
         T \ {x} \subseteq S,
         m <= n + (IF x \in S THEN MaxCopies ELSE 0),
         x \in T => m = 0
  PROVE  m + MaxCopies * Cardinality(T) <= MaxCopies * Cardinality(Handler)
<1>1. /\ IsFiniteSet(S) /\ IsFiniteSet(T)
      /\ Cardinality(S) \in Nat /\ Cardinality(T) \in Nat /\ Cardinality(Handler) \in Nat
      /\ Cardinality(T) <= Cardinality(Handler)
  BY FS_Subset, FS_CardinalityType
<1>2. CASE x \in T
  <2>1. CASE MaxCopies = 1
    BY <1>1, <1>2, <2>1
  <2>2. CASE MaxCopies = 2
    BY <1>1, <1>2, <2>2
  <2>3. QED
    BY <2>1, <2>2
<1>3. CASE x \notin T
  <2>1. T \subseteq S \ {x}
    BY <1>3
  <2>2. /\ Cardinality(S \ {x}) = IF x \in S THEN Cardinality(S) - 1 ELSE Cardinality(S)
        /\ IsFiniteSet(S \ {x})
    BY <1>1, FS_RemoveElement
  <2>3. Cardinality(T) <= Cardinality(S \ {x})
    BY <2>1, <2>2, FS_Subset
  <2>4. Cardinality(T) <= IF x \in S THEN Cardinality(S) - 1 ELSE Cardinality(S)
    BY <2>2, <2>3
  <2>5. CASE MaxCopies = 1
    BY <1>1, <2>4, <2>5
  <2>6. CASE MaxCopies = 2
    BY <1>1, <2>4, <2>6
  <2>7. QED
    BY <2>5, <2>6
<1>4. QED
  BY <1>2, <1>3

LEMMA StillBounded ==
  ASSUME IInv, NEW h \in Handler, OthersUnchanged(h), Room(h),
         pc'[h] = "create_account" => accounts' = <<>>,
         pc'[h] = "create_contact" => contacts'[current'[h]] = <<>>
  PROVE  CreatesBounded'
<1>1. /\ IsFiniteSet(Handler) /\ MaxCopies \in {1, 2}
      /\ accounts \in Seq(Message) /\ contacts \in [Person -> Seq(CrmContact)]
      /\ accounts' \in Seq(Message) /\ contacts' \in [Person -> Seq(CrmContact)]
      /\ CreatesBounded
  BY BoundAssumption DEF IInv, TypeOK, Room
<1>2. Len(accounts') + MaxCopies * Cardinality(CreatingAccount')
        <= MaxCopies * Cardinality(Handler)
  <2>1. CreatingAccount' \ {h} \subseteq CreatingAccount
    BY DEF CreatingAccount, OthersUnchanged
  <2>2. /\ CreatingAccount \subseteq Handler /\ CreatingAccount' \subseteq Handler
        /\ h \in CreatingAccount <=> pc[h] = "create_account"
        /\ h \in CreatingAccount' => Len(accounts') = 0
    BY DEF CreatingAccount
  <2>3. Len(accounts') <= Len(accounts) + (IF h \in CreatingAccount THEN MaxCopies ELSE 0)
    BY <2>2 DEF Room
  <2>4. /\ Len(accounts) \in Nat /\ Len(accounts') \in Nat
        /\ Len(accounts) + MaxCopies * Cardinality(CreatingAccount)
             <= MaxCopies * Cardinality(Handler)
    BY <1>1 DEF CreatesBounded
  <2>5. QED
    BY <1>1, <2>1, <2>2, <2>3, <2>4, Counting
<1>3. ASSUME NEW p \in Person
      PROVE  Len(contacts'[p]) + MaxCopies * Cardinality(CreatingContact(p)')
               <= MaxCopies * Cardinality(Handler)
  <2>1. CreatingContact(p)' \ {h} \subseteq CreatingContact(p)
    BY DEF CreatingContact, OthersUnchanged
  <2>2. /\ CreatingContact(p) \subseteq Handler /\ CreatingContact(p)' \subseteq Handler
        /\ h \in CreatingContact(p) <=> pc[h] = "create_contact" /\ current[h] = p
        /\ h \in CreatingContact(p)' => Len(contacts'[p]) = 0
    BY DEF CreatingContact
  <2>3. Len(contacts'[p]) <= Len(contacts[p]) + (IF h \in CreatingContact(p) THEN MaxCopies ELSE 0)
    BY <2>2 DEF Room
  <2>4. /\ Len(contacts[p]) \in Nat /\ Len(contacts'[p]) \in Nat
        /\ Len(contacts[p]) + MaxCopies * Cardinality(CreatingContact(p))
             <= MaxCopies * Cardinality(Handler)
    BY <1>1 DEF CreatesBounded
  <2>5. QED
    BY <1>1, <2>1, <2>2, <2>3, <2>4, Counting
<1>4. QED
  BY <1>2, <1>3 DEF CreatesBounded

-----------------------------------------------------------------------------
(* What a step must show, and IInv follows.                                *)
LEMMA Step ==
  ASSUME IInv, NEW h \in Handler, TypeOK', OthersUnchanged(h), Room(h), HandlerConsistent(h)',
         pc'[h] = "create_account" => accounts' = <<>>,
         pc'[h] = "create_contact" => contacts'[current'[h]] = <<>>,
         message'[h] \in FamilyUpdate =>
           \A p \in written'[h] \ {"account"} :
             \/ message[h] \in FamilyUpdate /\ p \in written[h]
             \/ \E i \in 1..Len(contacts'[p]) : contacts'[p][i].account # 0,
         result'[h] = "success" => Required[message'[h]] \subseteq written'[h]
  PROVE  IInv'
<1>1. Grown /\ LinksExist' /\ accounts' \in Seq(Message) /\ contacts' \in [Person -> Seq(CrmContact)]
  BY DEF Room
<1>2. HandlersConsistent'
  BY <1>1, Others DEF HandlersConsistent
<1>3. WrittenAreLinked'
  BY <1>1, StillLinked
<1>4. Vouched'
  BY StillVouched
<1>5. CreatesBounded'
  BY StillBounded
<1>6. QED
  BY <1>1, <1>2, <1>3, <1>4, <1>5 DEF IInv

(* A create call appends one or two records, or none when it is unreadable.*)
LEMMA CreatedList ==
  ASSUME NEW S, NEW list \in Seq(S), NEW record \in S, NEW readable \in BOOLEAN,
         NEW new \in Created(list, record, readable)
  PROVE  /\ new \in Seq(S)
         /\ Len(list) <= Len(new)
         /\ MaxCopies \in {1, 2} => Len(new) <= Len(list) + MaxCopies
         /\ readable => Len(new) > Len(list)
         /\ \A i \in 1..Len(list) : new[i] = list[i]
         /\ \A i \in 1..Len(new) : i \notin 1..Len(list) => new[i] = record
<1>1. CASE new = list /\ ~ readable
  BY <1>1
<1>2. CASE new = Append(list, record)
  BY <1>2
<1>3. CASE new = Append(Append(list, record), record) /\ MaxCopies = 2
  <2>1. Append(list, record) \in Seq(S) /\ Len(Append(list, record)) = Len(list) + 1
    OBVIOUS
  <2>2. Len(new) = Len(list) + 2 /\ new \in Seq(S)
    BY <1>3, <2>1
  <2>3. \A i \in 1..Len(new) : new[i] = IF i <= Len(list) THEN list[i] ELSE record
    BY <1>3, <2>1, <2>2
  <2>4. QED
    BY <1>3, <2>2, <2>3
<1>4. QED
  BY <1>1, <1>2, <1>3 DEF Created

LEMMA QuietRoom ==
  ASSUME IInv, NEW h \in Handler, UNCHANGED crmVars
  PROVE  Room(h)
<1>1. /\ accounts \in Seq(Message) /\ contacts \in [Person -> Seq(CrmContact)]
      /\ LinksExist /\ accounts' = accounts /\ contacts' = contacts
      /\ MaxCopies \in {1, 2}
  BY BoundAssumption DEF IInv, TypeOK, crmVars
<1>2. Grown /\ LinksExist'
  BY <1>1 DEF Grown, LinksExist
<1>3. QED
  BY <1>1, <1>2 DEF Room

LEMMA AccountRoom ==
  ASSUME IInv, NEW h \in Handler, AccountWrite(h), UNCHANGED contacts
  PROVE  Room(h) /\ (IsFamily(h) => accounts' # <<>>)
<1>1. /\ accounts \in Seq(Message) /\ contacts \in [Person -> Seq(CrmContact)]
      /\ contacts' = contacts /\ LinksExist /\ MaxCopies \in {1, 2}
      /\ message[h] \in Message
      /\ pc[h] = "update_account" => account[h] = 1
      /\ pc[h] = "update_account" /\ IsFamily(h) => accounts # <<>>
  BY BoundAssumption DEF IInv, TypeOK, HandlersConsistent, HandlerConsistent, AccountWrite
<1>2. PICK readable \in ReadableBy(h) :
        \/ /\ pc[h] = "create_account"
           /\ accounts' \in Created(accounts, message[h], readable)
        \/ /\ pc[h] = "update_account"
           /\ accounts' = IF readable THEN [accounts EXCEPT ![account[h]] = message[h]] ELSE accounts
  BY DEF AccountWrite
<1>3. readable \in BOOLEAN /\ (IsFamily(h) => readable)
  BY BoundAssumption DEF ReadableBy
<1>4. /\ accounts' \in Seq(Message)
      /\ Len(accounts) <= Len(accounts')
      /\ Len(accounts') <= Len(accounts) + (IF pc[h] = "create_account" THEN MaxCopies ELSE 0)
      /\ IsFamily(h) => accounts' # <<>>
  <2>1. CASE pc[h] = "create_account"
    BY <1>1, <1>2, <1>3, <2>1, CreatedList
  <2>2. CASE pc[h] = "update_account"
    <3>1. CASE readable
      <4>1. accounts' = [accounts EXCEPT ![account[h]] = message[h]]
        BY <1>2, <2>2, <3>1
      <4>2. accounts' = [i \in 1..Len(accounts) |-> IF i = 1 THEN message[h] ELSE accounts[i]]
        <5>1. DOMAIN accounts = 1..Len(accounts) /\ account[h] = 1
          BY <1>1, <2>2
        <5>2. accounts = [i \in 1..Len(accounts) |-> accounts[i]]
          BY <1>1
        <5>3. QED
          BY <4>1, <5>1, <5>2
      <4>3. Len(accounts) \in Nat
        BY <1>1
      <4>4. accounts' \in Seq(Message) /\ Len(accounts') = Len(accounts)
        <5>1. \A i \in 1..Len(accounts) : accounts[i] \in Message
          BY <1>1
        <5>2. QED
          BY <1>1, <4>2, <4>3, <5>1
      <4>5. QED
        BY <1>1, <2>2, <4>3, <4>4
    <3>2. CASE ~ readable
      BY <1>1, <1>2, <1>3, <2>2, <3>2
    <3>3. QED
      BY <3>1, <3>2
  <2>3. QED
    BY <1>2, <2>1, <2>2
<1>5. LinksExist'
  <2> SUFFICES ASSUME NEW p \in Person, NEW i \in 1..Len(contacts[p])
               PROVE  contacts[p][i].account <= Len(accounts')
    BY <1>1 DEF LinksExist
  <2>1. contacts[p] \in Seq(CrmContact) /\ contacts[p][i].account <= Len(accounts)
    BY <1>1 DEF LinksExist
  <2>2. contacts[p][i] \in CrmContact
    BY <2>1
  <2>3. contacts[p][i].account \in Nat
    BY <2>2 DEF CrmContact
  <2>4. QED
    BY <1>1, <1>4, <2>1, <2>3
<1>6. Grown
  BY <1>1, <1>4 DEF Grown
<1>7. QED
  BY <1>1, <1>4, <1>5, <1>6 DEF Room

(* A contact FamilyUpsert writes is linked afterwards.                     *)
LEMMA ContactRoom ==
  ASSUME IInv, NEW h \in Handler, ContactWrite(h), UNCHANGED accounts
  PROVE  /\ Room(h)
         /\ IsFamily(h) => \E i \in 1..Len(contacts'[current[h]]) :
                             contacts'[current[h]][i].account # 0
<1> DEFINE p == current[h]
           link == IF IsFamily(h) THEN account[h] ELSE 0
           kept == IF IsFamily(h) THEN account[h] ELSE contacts[p][1].account
<1>1. /\ accounts \in Seq(Message) /\ contacts \in [Person -> Seq(CrmContact)]
      /\ accounts' = accounts /\ LinksExist /\ MaxCopies \in {1, 2}
      /\ message[h] \in Message
      /\ pc[h] \in {"create_contact", "update_contact"}
      /\ p \in Person
      /\ pc[h] = "update_contact" => contacts[p] # <<>>
      /\ account[h] \in Nat
      /\ IsFamily(h) => account[h] \in 1..Len(accounts)
  BY BoundAssumption DEF IInv, TypeOK, HandlersConsistent, HandlerConsistent, ContactWrite
<1>2. PICK readable \in ReadableBy(h) :
        \/ /\ pc[h] = "create_contact"
           /\ \E list \in Created(contacts[p], [data |-> message[h], account |-> link], readable) :
                contacts' = [contacts EXCEPT ![p] = list]
        \/ /\ pc[h] = "update_contact"
           /\ contacts' = IF readable
                          THEN [contacts EXCEPT ![p][1] = [data |-> message[h], account |-> kept]]
                          ELSE contacts
  BY DEF ContactWrite
<1>3. readable \in BOOLEAN /\ (IsFamily(h) => readable)
  BY BoundAssumption DEF ReadableBy
<1>4. link \in Nat /\ link <= Len(accounts) /\ (IsFamily(h) => link # 0)
  BY <1>1
<1>5. PICK list : /\ contacts' = [contacts EXCEPT ![p] = list]
                  /\ list \in Seq(CrmContact)
                  /\ Len(contacts[p]) <= Len(list)
                  /\ Len(list) <= Len(contacts[p]) + (IF pc[h] = "create_contact" THEN MaxCopies ELSE 0)
                  /\ \A i \in 1..Len(contacts[p]) :
                       contacts[p][i].account # 0 => list[i].account # 0
                  /\ \A i \in 1..Len(list) : list[i].account <= Len(accounts)
                  /\ IsFamily(h) => \E i \in 1..Len(list) : list[i].account # 0
  <2>1. contacts[p] \in Seq(CrmContact)
        /\ \A i \in 1..Len(contacts[p]) :
             contacts[p][i] \in CrmContact /\ contacts[p][i].account <= Len(accounts)
    BY <1>1 DEF LinksExist
  <2>2. CASE pc[h] = "create_contact"
    <3> DEFINE record == [data |-> message[h], account |-> link]
    <3>1. PICK list \in Created(contacts[p], record, readable) :
            contacts' = [contacts EXCEPT ![p] = list]
      BY <1>2, <2>2
    <3>2. record \in CrmContact
      BY <1>1, <1>4 DEF CrmContact
    <3>3. /\ list \in Seq(CrmContact)
          /\ Len(contacts[p]) <= Len(list)
          /\ Len(list) <= Len(contacts[p]) + MaxCopies
          /\ readable => Len(list) > Len(contacts[p])
          /\ \A i \in 1..Len(contacts[p]) : list[i] = contacts[p][i]
          /\ \A i \in 1..Len(list) : i \notin 1..Len(contacts[p]) => list[i] = record
      BY <1>1, <1>3, <2>1, <3>1, <3>2, CreatedList
    <3>4. record.account = link
      OBVIOUS
    <3>5. \A i \in 1..Len(list) : list[i].account <= Len(accounts)
      BY <1>4, <2>1, <3>3, <3>4
    <3>6. IsFamily(h) => list[Len(list)].account # 0 /\ Len(list) \in 1..Len(list)
      BY <1>3, <1>4, <2>1, <3>3, <3>4
    <3>7. QED
      BY <2>2, <3>1, <3>3, <3>5, <3>6
  <2>3. CASE pc[h] = "update_contact"
    <3> DEFINE record == [data |-> message[h], account |-> kept]
               new == IF readable THEN [contacts[p] EXCEPT ![1] = record] ELSE contacts[p]
    <3>1. Len(contacts[p]) >= 1 /\ 1 \in 1..Len(contacts[p])
      BY <1>1, <2>1, <2>3
    <3>2. kept \in Nat /\ kept <= Len(accounts) /\ (contacts[p][1].account # 0 => kept # 0)
          /\ (IsFamily(h) => kept # 0)
      BY <1>1, <2>1, <3>1 DEF CrmContact
    <3>3. record \in CrmContact /\ record.account = kept
      BY <1>1, <3>2 DEF CrmContact
    <3> HIDE DEF record, kept
    <3>4. /\ new \in Seq(CrmContact) /\ Len(new) = Len(contacts[p])
          /\ \A i \in 1..Len(new) :
               new[i] = IF readable /\ i = 1 THEN record ELSE contacts[p][i]
      BY <2>1, <3>1, <3>3
    <3>5. contacts' = [contacts EXCEPT ![p] = new]
      BY <1>1, <1>2, <2>3 DEF record, kept
    <3> HIDE DEF new
    <3>6. /\ \A i \in 1..Len(contacts[p]) :
               contacts[p][i].account # 0 => new[i].account # 0
          /\ \A i \in 1..Len(new) : new[i].account <= Len(accounts)
          /\ IsFamily(h) => new[1].account # 0
      BY <1>3, <2>1, <3>1, <3>2, <3>3, <3>4
    <3>7. Len(contacts[p]) \in Nat /\ 1 \in 1..Len(new)
      BY <2>1, <3>1, <3>4
    <3> WITNESS new
    <3>8. QED
      BY <1>1, <2>3, <3>4, <3>5, <3>6, <3>7
  <2>4. QED
    BY <1>1, <2>2, <2>3
<1> HIDE DEF p, link, kept
<1>6. /\ contacts' \in [Person -> Seq(CrmContact)]
      /\ \A q \in Person : contacts'[q] = IF q = p THEN list ELSE contacts[q]
  BY <1>1, <1>5
<1>7. Grown
  BY <1>1, <1>5, <1>6 DEF Grown
<1>8. LinksExist'
  BY <1>1, <1>5, <1>6 DEF LinksExist
<1>9. \A q \in Person :
        Len(contacts'[q]) <= Len(contacts[q]) +
          (IF pc[h] = "create_contact" /\ p = q THEN MaxCopies ELSE 0)
  BY <1>1, <1>5, <1>6
<1>10. Room(h)
  BY <1>1, <1>6, <1>7, <1>8, <1>9 DEF Room, p
<1>11. QED
  BY <1>1, <1>5, <1>6, <1>10 DEF p

-----------------------------------------------------------------------------
LEMMA InitIInv == Init => IInv
<1> SUFFICES ASSUME Init PROVE IInv
  OBVIOUS
<1>1. TypeOK
  BY DEF Init, TypeOK, Result
<1>2. HandlersConsistent
  BY DEF Init, HandlersConsistent, HandlerConsistent
<1>3. LinksExist /\ WrittenAreLinked /\ Vouched
  BY DEF Init, LinksExist, WrittenAreLinked, Vouched
<1>4. CreatesBounded
  <2>1. CreatingAccount = {} /\ \A p \in Person : CreatingContact(p) = {}
    BY DEF Init, CreatingAccount, CreatingContact
  <2>2. Cardinality({}) = 0 /\ Cardinality(Handler) \in Nat /\ MaxCopies \in {1, 2}
    BY BoundAssumption, FS_EmptySet, FS_CardinalityType
  <2>3. Len(accounts) = 0 /\ \A p \in Person : Len(contacts[p]) = 0
    BY DEF Init
  <2>4. 0 + MaxCopies * 0 <= MaxCopies * Cardinality(Handler)
    <3>1. CASE MaxCopies = 1
      BY <2>2, <3>1
    <3>2. CASE MaxCopies = 2
      BY <2>2, <3>2
    <3>3. QED
      BY <2>2, <3>1, <3>2
  <2>5. QED
    BY <2>1, <2>2, <2>3, <2>4 DEF CreatesBounded
<1>5. QED
  BY <1>1, <1>2, <1>3, <1>4 DEF IInv

LEMMA UseType ==
  ASSUME TypeOK, NEW what \in {"calls", "faults"}, NEW max, Use(what, max)
  PROVE  used' \in [{"calls", "faults"} -> Nat]
BY DEF TypeOK, Use

(* An upsert that returns forgets everything but its message and writes.   *)
LEMMA Returned ==
  ASSUME IInv, NEW h \in Handler, NEW outcome \in Result, Return(h, outcome), Room(h),
         pc[h] # "idle",
         written' \in [Handler -> SUBSET (Person \cup {"account"})],
         \A k \in Handler \ {h} : written'[k] = written[k],
         used' \in [{"calls", "faults"} -> Nat],
         message[h] \in FamilyUpdate =>
           \A p \in written'[h] \ {"account"} :
             \/ p \in written[h]
             \/ \E i \in 1..Len(contacts'[p]) : contacts'[p][i].account # 0,
         outcome = "success" => Required[message[h]] \subseteq written'[h]
  PROVE  IInv'
<1>1. TypeOK
  BY DEF IInv
<1>2. TypeOK'
  BY <1>1 DEF TypeOK, Return, Goto, Forget, Room
<1>3. OthersUnchanged(h)
  BY <1>1 DEF TypeOK, OthersUnchanged, Return, Goto, Forget
<1>4. pc'[h] = "idle" /\ message' = message /\ result'[h] = outcome /\ ~ failed'[h]
  BY <1>1 DEF TypeOK, Return, Goto, Forget
<1>5. HandlerConsistent(h)'
  BY <1>4 DEF HandlerConsistent
<1>6. QED
  BY <1>2, <1>3, <1>4, <1>5, Step

LEMMA BeginStep ==
  ASSUME IInv, NEW h \in Handler, NEW m \in Message, Begin(h, m)
  PROVE  IInv'
<1> DEFINE members == IF m \in FamilyUpdate THEN MembersOf[m] ELSE {Primary}
<1>1. /\ TypeOK /\ pc[h] = "idle" /\ members \in SUBSET Person
      /\ used' \in [{"calls", "faults"} -> Nat]
      /\ message' = [message EXCEPT ![h] = m]
      /\ written' = [written EXCEPT ![h] = {}]
      /\ UNCHANGED crmVars /\ UNCHANGED <<account, current, failed>>
      /\ \/ /\ Primary \in members
            /\ pending' = [pending EXCEPT ![h] = members]
            /\ pc' = [pc EXCEPT ![h] = "find_account"]
            /\ result' = [result EXCEPT ![h] = "none"]
         \/ /\ Primary \notin members
            /\ result' = [result EXCEPT ![h] = "details"]
            /\ UNCHANGED <<pc, pending>>
  BY MessageAssumption, UseType DEF IInv, Begin, Goto
<1>2. Room(h)
  BY <1>1, QuietRoom
<1> HIDE DEF members
<1>3. TypeOK'
  BY <1>1 DEF TypeOK, crmVars, Result
<1>4. OthersUnchanged(h)
  BY <1>1 DEF TypeOK, OthersUnchanged
<1>5. /\ message'[h] = m /\ written'[h] = {} /\ result'[h] # "success"
      /\ pc'[h] \in {"idle", "find_account"} /\ account'[h] = account[h]
      /\ failed'[h] = failed[h]
  BY <1>1 DEF TypeOK
<1>6. ~ failed[h]
  BY <1>1 DEF IInv, HandlersConsistent, HandlerConsistent
<1>7. HandlerConsistent(h)'
  <2>1. pc'[h] = "find_account" =>
          result'[h] = "none" /\ pending'[h] = members /\ pending'[h] # {}
    BY <1>1 DEF TypeOK
  <2>2. m \in FamilyUpdate => members = MembersOf[m]
    BY DEF members
  <2>3. m \notin FamilyUpdate => members = {Primary}
    BY DEF members
  <2>4. QED
    BY <1>5, <1>6, <2>1, <2>2, <2>3 DEF HandlerConsistent, IsFamily
<1>8. QED
  BY <1>2, <1>3, <1>4, <1>5, <1>7, Step

LEMMA FindAccountStep ==
  ASSUME IInv, NEW h \in Handler, FindAccount(h)
  PROVE  IInv'
<1>1. TypeOK /\ HandlerConsistent(h) /\ UNCHANGED crmVars
  BY DEF IInv, HandlersConsistent, FindAccount
<1>2. Room(h)
  BY <1>1, QuietRoom
<1>3. TypeOK'
  <2>1. /\ pc' \in [Handler -> {"idle", "find_account", "create_account", "update_account",
                               "find_contact", "create_contact", "update_contact"}]
        /\ account' \in [Handler -> Nat]
    <3>1. \/ pc' = [pc EXCEPT ![h] = "create_account"] /\ account' = account
          \/ pc' = [pc EXCEPT ![h] = "update_account"] /\ account' = [account EXCEPT ![h] = 1]
      BY DEF FindAccount, Goto
    <3>2. /\ pc \in [Handler -> {"idle", "find_account", "create_account", "update_account",
                                "find_contact", "create_contact", "update_contact"}]
          /\ account \in [Handler -> Nat]
      BY <1>1 DEF TypeOK
    <3>3. QED
      BY <3>1, <3>2
  <2>2. UNCHANGED <<crmVars, message, pending, current, failed, result, written, used>>
    BY DEF FindAccount
  <2>3. QED
    BY <1>1, <2>1, <2>2 DEF TypeOK, crmVars
<1>4. OthersUnchanged(h)
  BY <1>1 DEF TypeOK, OthersUnchanged, FindAccount, Goto
<1>5. /\ UNCHANGED <<message, pending, current, failed, result, written>>
      /\ pc[h] = "find_account"
      /\ \/ pc'[h] = "create_account" /\ accounts = <<>>
         \/ pc'[h] = "update_account" /\ accounts # <<>> /\ account'[h] = 1
  BY <1>1 DEF TypeOK, FindAccount, Goto
<1>6. HandlerConsistent(h)'
  BY <1>1, <1>5 DEF HandlerConsistent, IsFamily, crmVars
<1>7. result'[h] # "success"
  BY <1>1, <1>5 DEF HandlerConsistent
<1>8. QED
  BY <1>1, <1>2, <1>3, <1>4, <1>5, <1>6, <1>7, Step DEF crmVars

LEMMA WriteAccountStep ==
  ASSUME IInv, NEW h \in Handler, WriteAccount(h)
  PROVE  IInv'
<1>1. /\ TypeOK /\ HandlerConsistent(h)
      /\ pc[h] \in {"create_account", "update_account"}
      /\ AccountWrite(h) /\ UNCHANGED contacts
      /\ account' = [account EXCEPT ![h] = IF pc[h] = "create_account" THEN Len(accounts')
                                           ELSE account[h]]
      /\ written' = [written EXCEPT ![h] = written[h] \cup {"account"}]
      /\ pc' = [pc EXCEPT ![h] = "find_contact"]
      /\ UNCHANGED <<contacts, message, pending, current, failed, result, used>>
  BY DEF IInv, HandlersConsistent, WriteAccount, Goto
<1>2. Room(h) /\ (IsFamily(h) => accounts' # <<>>)
  BY <1>1, AccountRoom
<1>3. accounts' \in Seq(Message) /\ Len(accounts') \in Nat
      /\ (IsFamily(h) => Len(accounts') >= 1)
  BY <1>2 DEF Room
<1>4. TypeOK'
  <2>1. account' \in [Handler -> Nat]
    BY <1>1, <1>3 DEF TypeOK
  <2>2. QED
    BY <1>1, <1>3, <2>1 DEF TypeOK
<1>5. OthersUnchanged(h)
  BY <1>1 DEF TypeOK, OthersUnchanged
<1>6. /\ pc'[h] = "find_contact" /\ "account" \in written'[h]
      /\ written[h] \subseteq written'[h] /\ written'[h] \ {"account"} \subseteq written[h]
      /\ UNCHANGED <<message, pending, current, failed, result>>
      /\ IsFamily(h) => account'[h] \in 1..Len(accounts')
  <2>1. IsFamily(h) => account'[h] \in 1..Len(accounts')
    BY <1>1, <1>3 DEF TypeOK, HandlerConsistent
  <2>2. QED
    BY <1>1, <2>1 DEF TypeOK
<1>7. pending[h] # {} /\ result[h] = "none"
  BY <1>1 DEF HandlerConsistent
<1>8. HandlerConsistent(h)'
  <2>1. IsFamily(h)' <=> IsFamily(h)
    BY <1>6 DEF IsFamily
  <2>2. QED
    BY <1>1, <1>6, <1>7, <2>1 DEF HandlerConsistent
<1>9. QED
  BY <1>2, <1>4, <1>5, <1>6, <1>7, <1>8, Step

LEMMA WriteAccountUnansweredStep ==
  ASSUME IInv, NEW h \in Handler, WriteAccountUnanswered(h)
  PROVE  IInv'
<1>1. /\ TypeOK /\ HandlerConsistent(h) /\ used' \in [{"calls", "faults"} -> Nat]
      /\ pc[h] \in {"create_account", "update_account"}
      /\ AccountWrite(h) \/ UNCHANGED accounts
      /\ UNCHANGED <<contacts, written>>
  BY UseType DEF IInv, HandlersConsistent, WriteAccountUnanswered
<1>2. Room(h)
  BY <1>1, AccountRoom, QuietRoom DEF crmVars
<1>3. ASSUME NEW outcome \in {"message", "details"}, Return(h, outcome)
      PROVE  IInv'
  <2>1. outcome \in Result /\ outcome # "success" /\ pc[h] # "idle"
    BY <1>1 DEF Result
  <2>2. /\ written' \in [Handler -> SUBSET (Person \cup {"account"})]
        /\ \A k \in Handler \ {h} : written'[k] = written[k]
        /\ written'[h] = written[h]
    BY <1>1 DEF TypeOK
  <2>3. QED
    BY <1>1, <1>2, <1>3, <2>1, <2>2, Returned
<1>4. CASE /\ IsFamily(h) /\ pc[h] = "update_account"
           /\ Goto(h, "find_contact")
           /\ UNCHANGED <<message, localVars, result>>
  <2>1. accounts' \in Seq(Message)
    BY <1>2 DEF Room
  <2>2. TypeOK'
    BY <1>1, <1>4, <2>1 DEF TypeOK, Goto, localVars
  <2>3. OthersUnchanged(h)
    BY <1>1, <1>4 DEF TypeOK, Goto, localVars, OthersUnchanged
  <2>4. pc'[h] = "find_contact" /\ pending[h] # {} /\ result[h] = "none"
    BY <1>1, <1>4 DEF TypeOK, Goto, HandlerConsistent
  <2>5. account[h] \in 1..Len(accounts')
    <3>1. account[h] = 1 /\ accounts # <<>> /\ accounts \in Seq(Message)
      BY <1>1, <1>4 DEF TypeOK, HandlerConsistent
    <3>2. Len(accounts) >= 1 /\ Len(accounts) <= Len(accounts')
      BY <1>2, <3>1 DEF Room, Grown
    <3>3. QED
      BY <2>1, <3>1, <3>2
  <2>6. HandlerConsistent(h)'
    BY <1>1, <1>4, <2>4, <2>5 DEF HandlerConsistent, IsFamily, localVars
  <2>7. QED
    BY <1>1, <1>2, <1>4, <2>2, <2>3, <2>4, <2>6, Step DEF localVars
<1>5. QED
  BY <1>3, <1>4 DEF WriteAccountUnanswered

LEMMA FindContactStep ==
  ASSUME IInv, NEW h \in Handler, NEW p \in Person, FindContact(h, p)
  PROVE  IInv'
<1>1. /\ TypeOK /\ HandlerConsistent(h) /\ pc[h] = "find_contact" /\ p \in pending[h]
      /\ UNCHANGED <<crmVars, written, used>>
  BY DEF IInv, HandlersConsistent, FindContact
<1>2. Room(h)
  BY <1>1, QuietRoom
<1>3. CASE Return(h, "details")
  BY <1>1, <1>2, <1>3, Returned DEF Result, TypeOK
<1>4. CASE /\ Goto(h, IF contacts[p] = <<>> THEN "create_contact" ELSE "update_contact")
           /\ current' = [current EXCEPT ![h] = p]
           /\ UNCHANGED <<message, account, pending, failed, result>>
  <2>1. TypeOK'
    BY <1>1, <1>4 DEF TypeOK, Goto, crmVars
  <2>2. OthersUnchanged(h)
    BY <1>1, <1>4 DEF TypeOK, Goto, OthersUnchanged
  <2>3. /\ current'[h] = p
        /\ pc'[h] = IF contacts[p] = <<>> THEN "create_contact" ELSE "update_contact"
        /\ result[h] # "success"
    BY <1>1, <1>4 DEF TypeOK, Goto, HandlerConsistent
  <2>4. HandlerConsistent(h)'
    <3>1. account[h] \in 1..Len(accounts) => accounts # <<>>
      BY <1>1 DEF TypeOK
    <3>2. QED
      BY <1>1, <1>4, <2>3, <3>1 DEF HandlerConsistent, IsFamily, crmVars
  <2>5. QED
    BY <1>1, <1>2, <1>4, <2>1, <2>2, <2>3, <2>4, Step DEF crmVars
<1>5. QED
  BY <1>3, <1>4 DEF FindContact

(* What WriteContact and WriteContactUnanswered have in common: a write    *)
(* that counts was answered and is linked when FamilyUpsert made it.       *)
LEMMA ContactStep ==
  ASSUME IInv, NEW h \in Handler, pc[h] \in {"create_contact", "update_contact"},
         Room(h), NEW failure \in BOOLEAN, ContactDone(h, failure),
         used' \in [{"calls", "faults"} -> Nat],
         \/ /\ written' = [written EXCEPT ![h] = written[h] \cup {current[h]}]
            /\ IsFamily(h) => \E i \in 1..Len(contacts'[current[h]]) :
                                contacts'[current[h]][i].account # 0
         \/ UNCHANGED written /\ (IsFamily(h) => failure)
  PROVE  IInv'
<1> DEFINE p == current[h]
<1>1. /\ TypeOK /\ HandlerConsistent(h) /\ p \in Person /\ p \in pending[h]
      /\ p # "account" /\ "account" \notin Person
      /\ accounts' \in Seq(Message) /\ contacts' \in [Person -> Seq(CrmContact)]
      /\ Len(accounts) <= Len(accounts') /\ accounts \in Seq(Message)
  BY MessageAssumption
     DEF IInv, TypeOK, HandlersConsistent, HandlerConsistent, Room, Grown
<1>2. /\ written' \in [Handler -> SUBSET (Person \cup {"account"})]
      /\ \A k \in Handler \ {h} : written'[k] = written[k]
      /\ written[h] \subseteq written'[h]
      /\ written'[h] \subseteq written[h] \cup {p}
      /\ IsFamily(h) /\ ~ failure => p \in written'[h]
      /\ IsFamily(h) => \A q \in written'[h] :
           q \in written[h] \/ \E i \in 1..Len(contacts'[q]) : contacts'[q][i].account # 0
  <2>1. \/ /\ written'[h] = written[h] \cup {p}
           /\ IsFamily(h) => \E i \in 1..Len(contacts'[p]) : contacts'[p][i].account # 0
        \/ written'[h] = written[h] /\ (IsFamily(h) => failure)
    BY <1>1 DEF TypeOK
  <2>2. /\ written' \in [Handler -> SUBSET (Person \cup {"account"})]
        /\ \A k \in Handler \ {h} : written'[k] = written[k]
    <3>1. written \in [Handler -> SUBSET (Person \cup {"account"})]
      BY <1>1 DEF TypeOK
    <3>2. CASE written' = [written EXCEPT ![h] = written[h] \cup {p}]
      BY <1>1, <3>1, <3>2
    <3>3. CASE UNCHANGED written
      BY <3>1, <3>3
    <3>4. QED
      BY <3>2, <3>3
  <2>3. QED
    BY <2>1, <2>2
<1>3. CASE /\ pending[h] # {current[h]}
           /\ pending' = [pending EXCEPT ![h] = pending[h] \ {current[h]}]
           /\ current' = [current EXCEPT ![h] = None]
           /\ failed' = [failed EXCEPT ![h] = failed[h] \/ failure]
           /\ Goto(h, "find_contact")
           /\ UNCHANGED <<message, account, result>>
  <2>1. TypeOK'
    <3>1. failed' \in [Handler -> BOOLEAN]
      BY <1>1, <1>3 DEF TypeOK
    <3>2. /\ pending' \in [Handler -> SUBSET Person]
          /\ current' \in [Handler -> Person \cup {None}]
      BY <1>1, <1>3 DEF TypeOK
    <3>3. QED
      BY <1>1, <1>2, <1>3, <3>1, <3>2 DEF TypeOK, Goto
  <2>2. OthersUnchanged(h)
    BY <1>1, <1>2, <1>3 DEF TypeOK, Goto, OthersUnchanged
  <2>3. /\ pc'[h] = "find_contact" /\ pending'[h] = pending[h] \ {p}
        /\ (failed'[h] <=> failed[h] \/ failure) /\ result[h] = "none"
    BY <1>1, <1>3 DEF TypeOK, Goto, HandlerConsistent
  <2>4. HandlerConsistent(h)'
    <3>1. IsFamily(h)' <=> IsFamily(h)
      BY <1>3 DEF IsFamily
    <3>2. IsFamily(h)
      BY <1>1, <1>3 DEF HandlerConsistent
    <3>3. account'[h] \in 1..Len(accounts')
      BY <1>1, <1>3, <3>2 DEF HandlerConsistent
    <3>4. pending'[h] # {}
      BY <1>1, <1>3, <2>3
    <3>5. ~ failed'[h] => MembersOf[message'[h]] \subseteq pending'[h] \cup written'[h]
      BY <1>1, <1>2, <1>3, <2>3, <3>2 DEF HandlerConsistent
    <3>6. QED
      BY <1>1, <1>3, <2>3, <3>1, <3>2, <3>3, <3>4, <3>5 DEF HandlerConsistent
  <2>5. message'[h] \in FamilyUpdate =>
          \A q \in written'[h] \ {"account"} :
            \/ message[h] \in FamilyUpdate /\ q \in written[h]
            \/ \E i \in 1..Len(contacts'[q]) : contacts'[q][i].account # 0
    BY <1>2, <1>3 DEF IsFamily
  <2>6. QED
    BY <1>3, <2>1, <2>2, <2>3, <2>4, <2>5, Step
<1>4. CASE /\ pending[h] = {current[h]}
           /\ Return(h, IF failed[h] \/ failure THEN "message" ELSE "success")
  <2> DEFINE outcome == IF failed[h] \/ failure THEN "message" ELSE "success"
  <2>1. outcome \in Result /\ (outcome = "success" => ~ failed[h] /\ ~ failure)
    BY DEF Result
  <2>2. ~ failed[h] /\ ~ failure => Required[message[h]] \subseteq written'[h]
    <3> SUFFICES ASSUME ~ failed[h], ~ failure
                 PROVE  Required[message[h]] \subseteq written'[h]
      OBVIOUS
    <3>1. CASE IsFamily(h)
      <4>1. Required[message[h]] = MembersOf[message[h]]
        BY <3>1 DEF Required, IsFamily, Message
      <4>2. MembersOf[message[h]] \subseteq {p} \cup written[h]
        BY <1>1, <1>4, <3>1 DEF HandlerConsistent
      <4>3. QED
        BY <1>2, <3>1, <4>1, <4>2
    <3>2. CASE ~ IsFamily(h)
      <4>1. message[h] \in Message /\ "account" \in written[h]
        BY <1>1, <3>2 DEF HandlerConsistent
      <4>2. Required[message[h]] = {"account"}
        BY <3>2, <4>1 DEF Required, IsFamily
      <4>3. QED
        BY <1>2, <4>1, <4>2
    <3>3. QED
      BY <3>1, <3>2
  <2>3. message[h] \in FamilyUpdate =>
           \A q \in written'[h] \ {"account"} :
             \/ q \in written[h]
             \/ \E i \in 1..Len(contacts'[q]) : contacts'[q][i].account # 0
    BY <1>2 DEF IsFamily
  <2>4. Return(h, outcome) /\ pc[h] # "idle"
    BY <1>4
  <2> HIDE DEF outcome
  <2>5. QED
    BY <1>2, <2>1, <2>2, <2>3, <2>4, Returned
<1>5. QED
  BY <1>3, <1>4 DEF ContactDone

LEMMA WriteContactStep ==
  ASSUME IInv, NEW h \in Handler, WriteContact(h)
  PROVE  IInv'
<1>1. /\ Room(h)
      /\ IsFamily(h) => \E i \in 1..Len(contacts'[current[h]]) :
                          contacts'[current[h]][i].account # 0
  BY ContactRoom DEF WriteContact
<1>2. used' \in [{"calls", "faults"} -> Nat]
  BY DEF IInv, TypeOK, WriteContact
<1>3. QED
  BY <1>1, <1>2, ContactStep DEF WriteContact

LEMMA WriteContactUnansweredStep ==
  ASSUME IInv, NEW h \in Handler, WriteContactUnanswered(h)
  PROVE  IInv'
<1>1. Room(h)
  BY ContactRoom, QuietRoom DEF WriteContactUnanswered, crmVars
<1>2. used' \in [{"calls", "faults"} -> Nat]
  BY UseType DEF IInv, WriteContactUnanswered
<1>3. IsFamily(h) \in BOOLEAN
  BY DEF IsFamily
<1>4. QED
  BY <1>1, <1>2, <1>3, ContactStep DEF WriteContactUnanswered

LEMMA StopStep ==
  ASSUME IInv, NEW h \in Handler, Raise(h) \/ Crash(h)
  PROVE  IInv'
<1>1. /\ Room(h) /\ pc[h] # "idle" /\ UNCHANGED written
      /\ used' \in [{"calls", "faults"} -> Nat]
  BY AccountRoom, ContactRoom, QuietRoom, UseType DEF IInv, Raise, Crash, crmVars
<1>2. Return(h, "details") \/ Return(h, "crashed")
  BY DEF Raise, Crash
<1>3. QED
  BY <1>1, <1>2, Returned DEF IInv, TypeOK, Result

LEMMA NextIInv == IInv /\ [Next]_vars => IInv'
<1> SUFFICES ASSUME IInv, [Next]_vars PROVE IInv'
  OBVIOUS
<1>1. CASE UNCHANGED vars
  <2> USE <1>1 DEF vars, crmVars, localVars, IInv
  <2>1. TypeOK'
    BY DEF TypeOK
  <2>2. HandlersConsistent'
    BY DEF HandlersConsistent, HandlerConsistent, IsFamily
  <2>3. LinksExist' /\ WrittenAreLinked' /\ Vouched'
    BY DEF LinksExist, WrittenAreLinked, Vouched, Required
  <2>4. CreatesBounded'
    BY DEF CreatesBounded, CreatingAccount, CreatingContact
  <2>5. QED
    BY <2>1, <2>2, <2>3, <2>4
<1>2. ASSUME NEW h \in Handler, NEW m \in Message, Begin(h, m) PROVE IInv'
  BY <1>2, BeginStep
<1>3. ASSUME NEW h \in Handler, Call(h) \/ Crash(h) PROVE IInv'
  BY <1>3, FindAccountStep, WriteAccountStep, WriteAccountUnansweredStep, FindContactStep,
     WriteContactStep, WriteContactUnansweredStep, StopStep DEF Call
<1>4. QED
  BY <1>1, <1>2, <1>3 DEF Next

(* The inductive invariant of the older upserts.                           *)
THEOREM Invariance == Spec => []IInv
BY InitIInv, NextIInv, PTL DEF Spec

(* A family update that reports success leaves every member with a linked  *)
(* contact (family_upsert.rb:27-45), whatever the other handlers do.       *)
THEOREM SuccessLinks == Spec => []SuccessMeansLinked
<1>1. IInv => SuccessMeansLinked
  <2> SUFFICES ASSUME IInv, NEW h \in Handler, result[h] = "success",
                      message[h] \in FamilyUpdate, NEW p \in MembersOf[message[h]]
               PROVE  \E i \in 1..Len(contacts[p]) : contacts[p][i].account \in 1..Len(accounts)
    BY DEF SuccessMeansLinked
  <2>1. p \in Person /\ p # "account" /\ Required[message[h]] = MembersOf[message[h]]
    BY MessageAssumption DEF Required, Message
  <2>2. p \in written[h] \ {"account"}
    BY <2>1 DEF IInv, Vouched
  <2>3. PICK i \in 1..Len(contacts[p]) : contacts[p][i].account # 0
    BY <2>2 DEF IInv, WrittenAreLinked
  <2>4. contacts[p] \in Seq(CrmContact) /\ accounts \in Seq(Message)
    BY <2>1 DEF IInv, TypeOK
  <2>5. contacts[p][i] \in CrmContact /\ contacts[p][i].account <= Len(accounts)
    BY <2>1, <2>4 DEF IInv, LinksExist
  <2>6. contacts[p][i].account \in Nat
    BY <2>5 DEF CrmContact
  <2>7. contacts[p][i].account \in 1..Len(accounts)
    BY <2>3, <2>4, <2>5, <2>6
  <2>8. QED
    BY <2>7
<1>2. QED
  BY <1>1, Invariance, PTL

(* However many messages are delivered, the accounts of the family and the *)
(* contacts of a member are no more than the handlers can create at once.  *)
THEOREM RecordBound == Spec => []RecordsBounded
<1>1. IInv => RecordsBounded
  <2> SUFFICES ASSUME IInv PROVE RecordsBounded
    OBVIOUS
  <2>1. /\ IsFiniteSet(Handler) /\ MaxCopies \in {1, 2} /\ CreatesBounded
        /\ accounts \in Seq(Message) /\ contacts \in [Person -> Seq(CrmContact)]
    BY BoundAssumption DEF IInv, TypeOK
  <2>2. ASSUME NEW n \in Nat, NEW S \in SUBSET Handler,
               n + MaxCopies * Cardinality(S) <= MaxCopies * Cardinality(Handler)
        PROVE  n <= MaxCopies * Cardinality(Handler)
    <3>1. Cardinality(S) \in Nat /\ Cardinality(Handler) \in Nat
      BY <2>1, FS_Subset, FS_CardinalityType
    <3>2. CASE MaxCopies = 1
      BY <2>2, <3>1, <3>2
    <3>3. CASE MaxCopies = 2
      BY <2>2, <3>1, <3>3
    <3>4. QED
      BY <2>1, <3>2, <3>3
  <2>3. CreatingAccount \in SUBSET Handler /\ \A p \in Person : CreatingContact(p) \in SUBSET Handler
    BY DEF CreatingAccount, CreatingContact
  <2>4. Len(accounts) \in Nat /\ \A p \in Person : Len(contacts[p]) \in Nat
    BY <2>1
  <2>5. QED
    BY <2>1, <2>2, <2>3, <2>4 DEF CreatesBounded, RecordsBounded
<1>2. QED
  BY <1>1, Invariance, PTL

-----------------------------------------------------------------------------
running == [h \in Handler |-> pc[h] # "idle"]
success == [h \in Handler |-> result[h] = "success"]
promised == <<message, running, success, written>>

LEMMA InitPromise == Init => Promise!Init
BY DEF Init, Promise!Init

(* One call to SugarCRM, the last of its upsert or not.                    *)
LEMMA Worked ==
  ASSUME IInv, IInv', NEW h \in Handler, pc[h] # "idle", OthersUnchanged(h),
         UNCHANGED message,
         NEW done \in SUBSET (Person \cup {"account"}),
         written' = [written EXCEPT ![h] = written[h] \cup done]
  PROVE  Promise!Work(h)
<1>1. /\ TypeOK /\ result[h] = "none" /\ message[h] = message'[h]
      /\ pc'[h] # "idle" => result'[h] = "none"
      /\ result'[h] = "success" => Required[message'[h]] \subseteq written'[h]
  BY DEF IInv, HandlersConsistent, HandlerConsistent, Vouched
<1>2. written' = [written EXCEPT ![h] = @ \cup done]
  OBVIOUS
<1>3. /\ running' = [running EXCEPT ![h] = pc'[h] # "idle"]
      /\ success' = [success EXCEPT ![h] = result'[h] = "success"]
  BY DEF OthersUnchanged, running, success
<1>4. /\ running[h] = TRUE /\ success[h] = FALSE
      /\ success'[h] = (result'[h] = "success")
  BY <1>1 DEF running, success
<1>5. \/ UNCHANGED <<running, success>>
      \/ /\ running' = [running EXCEPT ![h] = FALSE]
         /\ success' \in {success, [success EXCEPT ![h] = TRUE]}
  <2>1. success = [success EXCEPT ![h] = FALSE] /\ running = [running EXCEPT ![h] = TRUE]
    BY <1>4 DEF success, running
  <2>2. CASE pc'[h] # "idle"
    BY <1>1, <1>3, <2>1, <2>2
  <2>3. CASE pc'[h] = "idle"
    BY <1>3, <2>1, <2>3
  <2>4. QED
    BY <2>2, <2>3
<1>6. QED
  BY <1>1, <1>2, <1>4, <1>5 DEF Promise!Work, running, success

LEMMA ReturnShape ==
  ASSUME IInv, NEW h \in Handler, NEW outcome, Return(h, outcome)
  PROVE  \A k \in Handler \ {h} :
           /\ pc'[k] = pc[k] /\ message'[k] = message[k] /\ account'[k] = account[k]
           /\ pending'[k] = pending[k] /\ current'[k] = current[k] /\ failed'[k] = failed[k]
           /\ result'[k] = result[k]
BY DEF IInv, TypeOK, Return, Goto, Forget

LEMMA CallShape ==
  ASSUME IInv, NEW h \in Handler, Call(h) \/ Crash(h)
  PROVE  /\ pc[h] # "idle" /\ UNCHANGED message /\ OthersUnchanged(h)
         /\ \E done \in SUBSET (Person \cup {"account"}) :
              written' = [written EXCEPT ![h] = written[h] \cup done]
<1>1. TypeOK /\ HandlerConsistent(h)
  BY DEF IInv, HandlersConsistent
<1>2. UNCHANGED written =>
        \E done \in SUBSET (Person \cup {"account"}) :
          written' = [written EXCEPT ![h] = written[h] \cup done]
  <2> HAVE UNCHANGED written
  <2>1. written' = [written EXCEPT ![h] = written[h] \cup {}]
    BY <1>1 DEF TypeOK
  <2>2. QED
    BY <2>1
<1>3. CASE FindAccount(h)
  BY <1>1, <1>2, <1>3 DEF FindAccount, Goto, OthersUnchanged, TypeOK
<1>4. CASE WriteAccount(h)
  <2>1. written' = [written EXCEPT ![h] = written[h] \cup {"account"}]
    BY <1>4 DEF WriteAccount
  <2>2. OthersUnchanged(h)
    BY <1>1, <1>4 DEF WriteAccount, Goto, OthersUnchanged, TypeOK
  <2>3. QED
    BY <1>4, <2>1, <2>2 DEF WriteAccount
<1>5. CASE WriteAccountUnanswered(h)
  <2>1. UNCHANGED written /\ pc[h] # "idle"
    BY <1>5 DEF WriteAccountUnanswered
  <2>2. CASE \E outcome : Return(h, outcome)
    BY <1>2, <2>1, <2>2, ReturnShape DEF Return, OthersUnchanged
  <2>3. CASE Goto(h, "find_contact") /\ UNCHANGED <<message, localVars, result>>
    BY <1>1, <1>2, <2>1, <2>3 DEF Goto, localVars, OthersUnchanged, TypeOK
  <2>4. QED
    BY <1>5, <2>2, <2>3 DEF WriteAccountUnanswered
<1>6. ASSUME NEW p \in Person, FindContact(h, p)
      PROVE  /\ pc[h] # "idle" /\ UNCHANGED <<message, written>> /\ OthersUnchanged(h)
  <2>1. UNCHANGED written /\ pc[h] # "idle"
    BY <1>6 DEF FindContact
  <2>2. CASE Return(h, "details")
    BY <2>1, <2>2, ReturnShape DEF Return, OthersUnchanged
  <2>3. CASE ~ Return(h, "details")
    BY <1>1, <1>6, <2>1, <2>3 DEF FindContact, Goto, OthersUnchanged, TypeOK
  <2>4. QED
    BY <2>2, <2>3
<1>7. ASSUME NEW failure, ContactDone(h, failure),
             \A k \in Handler \ {h} : written'[k] = written[k]
      PROVE  UNCHANGED message /\ OthersUnchanged(h)
  <2>1. CASE \E outcome : Return(h, outcome)
    BY <1>7, <2>1, ReturnShape DEF Return, OthersUnchanged
  <2>2. CASE ~ \E outcome : Return(h, outcome)
    BY <1>1, <1>7, <2>2 DEF ContactDone, Goto, OthersUnchanged, TypeOK
  <2>3. QED
    BY <2>1, <2>2
<1>8. CASE WriteContact(h)
  <2>1. /\ written' = [written EXCEPT ![h] = written[h] \cup {current[h]}]
        /\ pc[h] \in {"create_contact", "update_contact"} /\ ContactDone(h, FALSE)
    BY <1>8 DEF WriteContact
  <2>2. {current[h]} \in SUBSET (Person \cup {"account"})
    BY <1>1, <2>1 DEF TypeOK, HandlerConsistent
  <2>3. \A k \in Handler \ {h} : written'[k] = written[k]
    BY <1>1, <2>1 DEF TypeOK
  <2>4. QED
    BY <1>7, <2>1, <2>2, <2>3
<1>9. CASE WriteContactUnanswered(h)
  BY <1>2, <1>7, <1>9 DEF WriteContactUnanswered
<1>10. CASE Raise(h) \/ Crash(h)
  BY <1>2, <1>10, ReturnShape DEF Raise, Crash, Return, OthersUnchanged
<1>11. QED
  BY <1>2, <1>3, <1>4, <1>5, <1>6, <1>8, <1>9, <1>10 DEF Call

LEMMA BeginPromise ==
  ASSUME IInv, NEW h \in Handler, NEW m \in Message, Begin(h, m)
  PROVE  Promise!Begin(h, m)
<1>1. /\ TypeOK /\ pc[h] = "idle"
      /\ message' = [message EXCEPT ![h] = m]
      /\ written' = [written EXCEPT ![h] = {}]
      /\ \/ /\ pc' = [pc EXCEPT ![h] = "find_account"]
            /\ result' = [result EXCEPT ![h] = "none"]
         \/ /\ result' = [result EXCEPT ![h] = "details"]
            /\ UNCHANGED pc
  BY DEF IInv, Begin, Goto
<1>2. success' = [success EXCEPT ![h] = FALSE]
  BY <1>1 DEF TypeOK, success
<1>3. running' \in {running, [running EXCEPT ![h] = TRUE]}
  BY <1>1 DEF TypeOK, running
<1>4. ~ running[h]
  BY <1>1 DEF running
<1>5. QED
  BY <1>1, <1>2, <1>3, <1>4 DEF Promise!Begin, running, success

LEMMA NextPromise == IInv /\ IInv' /\ [Next]_vars => [Promise!Next]_promised
<1> SUFFICES ASSUME IInv, IInv', [Next]_vars PROVE [Promise!Next]_promised
  OBVIOUS
<1>1. CASE UNCHANGED vars
  BY <1>1 DEF vars, promised, running, success
<1>2. ASSUME NEW h \in Handler, NEW m \in Message, Begin(h, m)
      PROVE  Promise!Next
  BY <1>2, BeginPromise DEF Promise!Next
<1>3. ASSUME NEW h \in Handler, Call(h) \/ Crash(h)
      PROVE  Promise!Next
  BY <1>3, CallShape, Worked DEF Promise!Next
<1>4. QED
  BY <1>1, <1>2, <1>3 DEF Next

(* Both upserts keep UpsertCall's promise: nothing is written after the    *)
(* call has returned, and a success vouches for every required write.      *)
THEOREM KeepsPromise == Spec => PromiseSpec
<1>1. [][Promise!Next]_promised <=>
      [][Promise!Next]_<<message, [h \in Handler |-> pc[h] # "idle"],
                         [h \in Handler |-> result[h] = "success"], written>>
  BY DEF promised, running, success
<1>2. QED
  BY <1>1, InitPromise, NextPromise, Invariance, PTL DEF Spec, PromiseSpec, Promise!Spec, Promise!vars
===========================================================================
