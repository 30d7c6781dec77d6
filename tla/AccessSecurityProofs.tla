----------------------- MODULE AccessSecurityProofs -----------------------
(* Theorems about AccessSecurity.                                          *)
EXTENDS AccessSecurity, FiniteSetTheorems, WellFoundedInduction, TLAPS

-----------------------------------------------------------------------------
(* Sequences and lists.                                                    *)

\* A list of one id.
LEMMA One == \A x : ElementsOf(<<x>>) = {x} /\ Head(<<x>>) = x /\ <<x>> # <<>>
  BY DEF ElementsOf

\* The empty list has no elements.
LEMMA Empty == ElementsOf(<<>>) = {}
  BY DEF ElementsOf

\* A list of ids is its head and its tail.
LEMMA HeadTail ==
    ASSUME NEW s \in Seq(Id), s # <<>>
    PROVE  /\ Head(s) \in Id /\ Head(s) \in ElementsOf(s)
           /\ ElementsOf(s) \subseteq Id
           /\ Tail(s) \in Seq(Id)
           /\ ElementsOf(s) = {Head(s)} \cup ElementsOf(Tail(s))
           /\ Len(s) > 1 => Tail(s) # <<>>
           /\ ~(Len(s) > 1) => ElementsOf(s) = {Head(s)}
<1>1. Head(s) = s[1] /\ 1 \in DOMAIN s /\ DOMAIN s = 1..Len(s) /\ Len(s) \in Nat
  OBVIOUS
<1>2. /\ Tail(s) \in Seq(Id) /\ Len(Tail(s)) = Len(s) - 1
      /\ \A k \in 1..(Len(s) - 1) : Tail(s)[k] = s[k + 1]
  OBVIOUS
<1>3. ASSUME NEW x \in ElementsOf(s) PROVE x \in {Head(s)} \cup ElementsOf(Tail(s))
  <2>1. PICK k \in 1..Len(s) : x = s[k]
    BY <1>1, <1>3 DEF ElementsOf
  <2>2. CASE k = 1
    BY <2>1, <2>2, <1>1
  <2>3. CASE k # 1
    <3>1. k - 1 \in 1..(Len(s) - 1) /\ Tail(s)[k - 1] = s[k]
      BY <2>3, <1>2, <1>1
    <3>2. k - 1 \in DOMAIN Tail(s)
      BY <3>1, <1>2
    <3> QED
      BY <3>1, <3>2, <2>1 DEF ElementsOf
  <2> QED
    BY <2>2, <2>3
<1>4. ASSUME NEW x \in ElementsOf(Tail(s)) PROVE x \in ElementsOf(s)
  <2>1. PICK k \in 1..(Len(s) - 1) : x = Tail(s)[k]
    BY <1>2, <1>4 DEF ElementsOf
  <2>2. k + 1 \in DOMAIN s /\ x = s[k + 1]
    BY <2>1, <1>2, <1>1
  <2> QED
    BY <2>2 DEF ElementsOf
<1>5. Head(s) \in ElementsOf(s) /\ Head(s) \in Id
  BY <1>1 DEF ElementsOf
<1>6. ElementsOf(s) \subseteq Id
  BY <1>1 DEF ElementsOf
<1>7. Len(s) > 1 => Tail(s) # <<>>
  <2> SUFFICES ASSUME Len(s) > 1 PROVE ElementsOf(Tail(s)) # {}
    BY Empty
  <2>1. 1 \in DOMAIN Tail(s)
    BY <1>1, <1>2
  <2> QED
    BY <2>1 DEF ElementsOf
<1>8. ~(Len(s) > 1) => ElementsOf(s) = {Head(s)}
  BY <1>1 DEF ElementsOf
<1> QED
  BY <1>2, <1>3, <1>4, <1>5, <1>6, <1>7, <1>8

\* LoadData makes a sorted list of the rules of the map.
LEMMA SortedIs ==
    ASSUME NEW table \in Table, NEW s \in Sorted(table)
    PROVE  s \in Seq(Rule) /\ ElementsOf(s) = RulesOf(table) /\ Ascends(s)
<1> DEFINE held == RulesOf(table)
<1>1. held \subseteq Rule
  BY DEF RulesOf, ElementsOf, Table
<1>2. IsFiniteSet(ElementsOf(table))
  <2>1. table \in Surjection(Id, ElementsOf(table))
    BY DEF Surjection, ElementsOf, Table
  <2> QED
    BY <2>1, FS_Surjection, AccessSecurityAssumption
<1>3. Cardinality(held) \in Nat
  <2>1. IsFiniteSet(held)
    BY <1>2, FS_RemoveElement DEF RulesOf
  <2> QED
    BY <2>1, FS_CardinalityType
<1>4. s \in [1..Cardinality(held) -> held]
  BY DEF Sorted
<1>5. s \in Seq(held)
  BY <1>3, <1>4
<1>6. s \in Seq(Rule)
  BY <1>1, <1>5
<1> QED
  BY <1>6 DEF Sorted

\* What a rule is made of.
LEMMA RuleIs ==
    ASSUME NEW s \in Rule
    PROVE  s.id \in Id /\ s # None /\ s.priority \in Int
  BY AccessSecurityAssumption DEF Rule

\* The invariant holds when the server has started with no rules.
LEMMA InitInv == Init => SecurityInv
<1> SUFFICES ASSUME Init PROVE SecurityInv
  OBVIOUS
<1> USE DEF Init
<1>1. TypeOK
  BY DEF TypeOK, Table, Request, NoRequest
<1>2. Shape /\ Progress /\ Overlaps /\ Alone
  BY Empty DEF Shape, Progress, Overlaps, Alone, Idle, NoRequest, Handles
<1>3. Keyed /\ MapFollowsRows
  BY DEF Keyed, MapFollowsRows, Agreed
<1>4. Lists
  <2>1. Ascends(<<>>)
    BY DEF Ascends
  <2>2. \A i \in Id : InList(i) = {securities[i]} \ {None}
    BY Empty DEF InList
  <2> QED
    BY <2>1, <2>2 DEF Lists, NoRequest
<1> QED
  BY <1>1, <1>2, <1>3, <1>4 DEF SecurityInv

-----------------------------------------------------------------------------
(* A request that goes on: it keeps what it handles.                       *)

\* The step of a request that changes where it is and what it has seen.
Step(a, r) ==
    /\ ~Idle(a)
    /\ r \in Request
    /\ req' = [req EXCEPT ![a] = r]
    /\ r.at \notin {"idle", "end"} /\ req[a].at # "end"
    /\ r.ids = req[a].ids /\ r.op = req[a].op /\ r.rule = req[a].rule
    /\ r.alone = req[a].alone
    /\ UNCHANGED memory

\* Such a step leaves what is in hand, the overlaps and who is alone as they were.
LEMMA StepKeeps ==
    ASSUME SecurityInv, NEW a \in Admin, NEW r, Step(a, r)
    PROVE  /\ req' \in [Admin -> Request]
           /\ req'[a] = r /\ \A b \in Admin \ {a} : req'[b] = req[b]
           /\ InHand' = InHand /\ Pending' = Pending
           /\ Overlaps' /\ Alone'
<1> USE DEF SecurityInv, Step
<1>1. /\ req' \in [Admin -> Request]
      /\ req'[a] = r /\ \A b \in Admin \ {a} : req'[b] = req[b]
  BY DEF TypeOK
<1>2. \A b \in Admin : Handles(b)' = Handles(b) /\ (Idle(b)' <=> Idle(b))
  BY <1>1 DEF Handles, Idle
<1>3. InHand' = InHand
  BY <1>2 DEF InHand
<1>4. Pending' = Pending
  <2>1. {b \in Admin : req'[b].at # "end"} = {b \in Admin : req[b].at # "end"}
    BY <1>1
  <2> QED
    BY <1>2, <2>1 DEF Pending
<1>5. Overlaps'
  BY <1>2 DEF Overlaps, memory
<1>6. Alone'
  <2>1. \A b \in Admin : req'[b].alone = req[b].alone
    BY <1>1
  <2> QED
    BY <1>2, <2>1 DEF Alone, OthersIdle, memory
<1> QED
  BY <1>1, <1>3, <1>4, <1>5, <1>6

\* What a request holds while it is at work.
LEMMA AtWork ==
    ASSUME SecurityInv, NEW a \in Admin, ~Idle(a)
    PROVE  /\ req[a] \in Request /\ Head(req[a].ids) \in Id
           /\ Head(req[a].ids) \in Handles(a) /\ Handles(a) \subseteq InHand
           /\ \A b \in Admin \ {a} : Head(req[a].ids) \in Handles(b) =>
                Head(req[a].ids) \in contested
<1>1. req[a] \in Request /\ req[a].ids \in Seq(Id) /\ req[a].ids # <<>>
  BY DEF SecurityInv, TypeOK, Shape, Request
<1>2. Head(req[a].ids) \in Id /\ Head(req[a].ids) \in Handles(a)
  BY <1>1, HeadTail DEF Handles
<1>3. Handles(a) \subseteq InHand
  BY DEF InHand
<1>4. \A b \in Admin \ {a} : Handles(a) \cap Handles(b) \subseteq contested
  BY DEF SecurityInv, Overlaps
<1> QED
  BY <1>1, <1>2, <1>3, <1>4

\* The rule another request is at is not this one's, unless they contest it.
LEMMA Apart ==
    ASSUME SecurityInv, NEW a \in Admin, NEW b \in Admin \ {a}, ~Idle(a), ~Idle(b),
           Head(req[b].ids) \notin contested
    PROVE  Head(req[b].ids) # Head(req[a].ids)
  BY AtWork DEF SecurityInv

\* Manager.Del: the map loses the rule of the request that asked.
LEMMA DropInv ==
    ASSUME SecurityInv, NEW a \in Admin, Drop(a)
    PROVE  SecurityInv'
<1> DEFINE i == Head(req[a].ids)
           r == [req[a] EXCEPT !.at = "load"]
<1>1. ~Idle(a) /\ req[a].at = "drop" /\ req[a] \in Request
  BY AtWork DEF Drop, Idle
<1>2. i \in Id /\ i \in Handles(a) /\ i \in InHand
  BY <1>1, AtWork
<1>3. r \in Request
  BY <1>1 DEF Request
<1>4. req' = [req EXCEPT ![a] = r]
  BY DEF Drop, Goes
<1>5. Step(a, r)
  BY <1>1, <1>3, <1>4 DEF Step, Drop, Request
<1>6. /\ req' \in [Admin -> Request]
      /\ req'[a] = r /\ \A b \in Admin \ {a} : req'[b] = req[b]
      /\ InHand' = InHand /\ Pending' = Pending
      /\ Overlaps' /\ Alone'
  BY <1>5, StepKeeps
<1>7. /\ r.at = "load" /\ r.op = req[a].op /\ r.rule = req[a].rule /\ r.ids = req[a].ids
      /\ r.stored = req[a].stored /\ r.seen = req[a].seen /\ r.alone = req[a].alone
  BY <1>1 DEF Request
<1> HIDE DEF r
<1>8. /\ securities' \in Table /\ securities'[i] = None
      /\ \A j \in Id \ {i} : securities'[j] = securities[j]
  BY <1>2 DEF Drop, SecurityInv, TypeOK, Table
<1> USE DEF SecurityInv
<1>9. UNCHANGED <<rows, values, settled, contested, orphans>>
  BY DEF Drop, memory
<1>10. TypeOK'
  BY <1>6, <1>8, <1>9 DEF TypeOK
<1>11. Shape'
  BY <1>1, <1>6, <1>7 DEF Shape, Idle
<1>12. Progress'
  <2>1. \A b \in Admin \ {a} : ~Idle(b) /\ Head(req[b].ids) \notin contested =>
          Head(req[b].ids) # i /\ Head(req[b].ids) \in Id
    BY <1>1, Apart, AtWork
  <2> QED
    BY <1>1, <1>6, <1>7, <1>8, <1>9, <2>1 DEF Progress, Shape, Idle
<1>13. Keyed'
  BY <1>8, <1>9 DEF Keyed
<1>14. Lists'
  <2>1. i \in Pending
    BY <1>1, <1>2 DEF Pending
  <2>2. \A j \in Id : InList(j)' = InList(j)
    BY <1>9 DEF InList
  <2>3. ASSUME NEW b \in Admin, req'[b].at = "assign", req'[b].alone
        PROVE  FALSE
    <3>1. b # a /\ ~Idle(b) /\ req[b].alone
      BY <2>3, <1>6, <1>7 DEF Idle
    <3> QED
      BY <3>1, <1>1 DEF Alone, OthersIdle
  <2> QED
    BY <1>6, <1>7, <1>8, <1>9, <2>1, <2>2, <2>3 DEF Lists
<1>15. MapFollowsRows'
  BY <1>2, <1>6, <1>8, <1>9 DEF MapFollowsRows, Agreed
<1> QED
  BY <1>6, <1>10, <1>11, <1>12, <1>13, <1>14, <1>15

\* Manager.Add: the map gets the rule of the request.
LEMMA StoreInv ==
    ASSUME SecurityInv, NEW a \in Admin, Store(a)
    PROVE  SecurityInv'
<1> DEFINE i == Head(req[a].ids)
           r == [req[a] EXCEPT !.at = "load", !.stored = TRUE]
<1>1. ~Idle(a) /\ req[a].at = "store" /\ req[a] \in Request
  BY AtWork DEF Store, Idle
<1>2. i \in Id /\ i \in Handles(a) /\ i \in InHand
  BY <1>1, AtWork
<1>3. r \in Request
  BY <1>1 DEF Request
<1>4. req' = [req EXCEPT ![a] = r]
  BY DEF Store
<1>5. Step(a, r)
  BY <1>1, <1>3, <1>4 DEF Step, Store, Request
<1>6. /\ req' \in [Admin -> Request]
      /\ req'[a] = r /\ \A b \in Admin \ {a} : req'[b] = req[b]
      /\ InHand' = InHand /\ Pending' = Pending
      /\ Overlaps' /\ Alone'
  BY <1>5, StepKeeps
<1>7. /\ r.at = "load" /\ r.op = req[a].op /\ r.rule = req[a].rule /\ r.ids = req[a].ids
      /\ r.stored /\ r.seen = req[a].seen /\ r.alone = req[a].alone
  BY <1>1 DEF Request
<1> HIDE DEF r
<1>8. req[a].op # "delete" /\ req[a].rule \in Rule /\ req[a].rule.id = i
  <2>1. req[a].op \in {"create", "update", "restore"}
    BY <1>1 DEF SecurityInv, Shape, Request
  <2> QED
    BY <1>1, <2>1, One DEF SecurityInv, Shape
<1>9. /\ securities' \in Table /\ securities'[i] = req[a].rule
      /\ \A j \in Id \ {i} : securities'[j] = securities[j]
  BY <1>2, <1>8 DEF Store, SecurityInv, TypeOK, Table
<1> USE DEF SecurityInv
<1>10. UNCHANGED <<rows, values, settled, contested, orphans>>
  BY DEF Store, memory
<1>11. TypeOK'
  BY <1>6, <1>9, <1>10 DEF TypeOK
<1>12. Shape'
  BY <1>1, <1>6, <1>7, <1>8 DEF Shape, Idle
<1>13. Progress'
  <2>1. \A b \in Admin \ {a} : ~Idle(b) /\ Head(req[b].ids) \notin contested =>
          Head(req[b].ids) # i /\ Head(req[b].ids) \in Id
    BY <1>1, Apart, AtWork
  <2> QED
    BY <1>1, <1>6, <1>7, <1>8, <1>9, <1>10, <2>1 DEF Progress, Idle
<1>14. Keyed'
  BY <1>8, <1>9, <1>10 DEF Keyed
<1>15. Lists'
  <2>1. i \in Pending
    BY <1>1, <1>2 DEF Pending
  <2>2. \A j \in Id : InList(j)' = InList(j)
    BY <1>10 DEF InList
  <2>3. ASSUME NEW b \in Admin, req'[b].at = "assign", req'[b].alone
        PROVE  FALSE
    <3>1. b # a /\ ~Idle(b) /\ req[b].alone
      BY <2>3, <1>6, <1>7 DEF Idle
    <3> QED
      BY <3>1, <1>1 DEF Alone, OthersIdle
  <2> QED
    BY <1>6, <1>7, <1>9, <1>10, <2>1, <2>2, <2>3 DEF Lists
<1>16. MapFollowsRows'
  BY <1>2, <1>6, <1>9, <1>10 DEF MapFollowsRows, Agreed
<1> QED
  BY <1>6, <1>11, <1>12, <1>13, <1>14, <1>15, <1>16

\* A request sorts what the map holds at that moment.
LEMMA LoadInv ==
    ASSUME SecurityInv, NEW a \in Admin, Load(a)
    PROVE  SecurityInv'
<1>1. ~Idle(a) /\ req[a].at = "load" /\ req[a] \in Request
  BY AtWork DEF Load, Idle
<1>2. PICK s \in Sorted(securities) : req' = [req EXCEPT ![a].at = "assign", ![a].seen = s]
  BY DEF Load
<1>3. s \in Seq(Rule) /\ ElementsOf(s) = RulesOf(securities) /\ Ascends(s)
  BY SortedIs DEF SecurityInv, TypeOK
<1> DEFINE r == [req[a] EXCEPT !.at = "assign", !.seen = s]
<1>4. r \in Request
  BY <1>1, <1>3 DEF Request
<1>5. req' = [req EXCEPT ![a] = r]
  BY <1>2
<1>6. Step(a, r)
  BY <1>1, <1>4, <1>5 DEF Step, Load, Request
<1>7. /\ req' \in [Admin -> Request]
      /\ req'[a] = r /\ \A b \in Admin \ {a} : req'[b] = req[b]
      /\ InHand' = InHand /\ Pending' = Pending
      /\ Overlaps' /\ Alone'
  BY <1>6, StepKeeps
<1>8. /\ r.at = "assign" /\ r.op = req[a].op /\ r.rule = req[a].rule /\ r.ids = req[a].ids
      /\ r.stored = req[a].stored /\ r.seen = s /\ r.alone = req[a].alone
  BY <1>1 DEF Request
<1> HIDE DEF r
<1> USE DEF SecurityInv
<1>9. UNCHANGED <<rows, securities, values, settled, contested, orphans>>
  BY DEF Load, memory, manager
<1>10. TypeOK'
  BY <1>7, <1>9 DEF TypeOK
<1>11. Shape'
  BY <1>1, <1>7, <1>8 DEF Shape, Idle
<1>12. Progress'
  BY <1>1, <1>7, <1>8, <1>9 DEF Progress, Idle
<1>13. Keyed' /\ MapFollowsRows'
  BY <1>7, <1>9 DEF Keyed, MapFollowsRows, Agreed
<1>14. Lists'
  <2>1. \A j \in Id : InList(j)' = InList(j)
    BY <1>9 DEF InList
  <2>2. RulesOf(securities)' = RulesOf(securities)
    BY <1>9
  <2>3. Ascends(values)'
    BY <1>9 DEF Lists
  <2>4. ASSUME NEW b \in Admin
        PROVE  /\ Ascends(req'[b].seen)
               /\ req'[b].at = "assign" /\ req'[b].alone =>
                    ElementsOf(req'[b].seen) = RulesOf(securities)
    <3>1. CASE b = a
      BY <3>1, <1>3, <1>7, <1>8
    <3>2. CASE b # a
      BY <3>2, <1>7 DEF Lists
    <3> QED
      BY <3>1, <3>2
  <2> QED
    BY <1>7, <1>9, <2>1, <2>2, <2>3, <2>4 DEF Lists
<1> QED
  BY <1>7, <1>10, <1>11, <1>12, <1>13, <1>14

\* A request of several ids deletes the row of the next.
LEMMA DeleteNextInv ==
    ASSUME SecurityInv, NEW a \in Admin, DeleteNext(a)
    PROVE  SecurityInv'
<1> DEFINE i == Head(req[a].ids)
           r == [req[a] EXCEPT !.at = "drop"]
<1>1. ~Idle(a) /\ req[a].at = "row" /\ req[a] \in Request
  BY AtWork DEF DeleteNext, Idle
<1>2. i \in Id /\ i \in Handles(a) /\ i \in InHand
  BY <1>1, AtWork
<1>3. r \in Request
  BY <1>1 DEF Request
<1>4. req' = [req EXCEPT ![a] = r]
  BY DEF DeleteNext, Goes
<1>5. Step(a, r)
  BY <1>1, <1>3, <1>4 DEF Step, DeleteNext, Request
<1>6. /\ req' \in [Admin -> Request]
      /\ req'[a] = r /\ \A b \in Admin \ {a} : req'[b] = req[b]
      /\ InHand' = InHand /\ Pending' = Pending
      /\ Overlaps' /\ Alone'
  BY <1>5, StepKeeps
<1>7. /\ r.at = "drop" /\ r.op = req[a].op /\ r.rule = req[a].rule /\ r.ids = req[a].ids
      /\ r.stored = req[a].stored /\ r.seen = req[a].seen /\ r.alone = req[a].alone
  BY <1>1 DEF Request
<1> HIDE DEF r
<1>8. /\ rows' \in Table /\ rows'[i] = None
      /\ \A j \in Id \ {i} : rows'[j] = rows[j]
  BY <1>2 DEF DeleteNext, SecurityInv, TypeOK, Table
<1> USE DEF SecurityInv
<1>9. UNCHANGED <<securities, values, settled, contested, orphans>>
  BY DEF DeleteNext, memory, manager
<1>10. TypeOK'
  BY <1>6, <1>8, <1>9 DEF TypeOK
<1>11. Shape' /\ req[a].op = "delete"
  BY <1>1, <1>6, <1>7 DEF Shape, Idle
<1>12. Progress'
  <2>1. \A b \in Admin \ {a} : ~Idle(b) /\ Head(req[b].ids) \notin contested =>
          Head(req[b].ids) # i /\ Head(req[b].ids) \in Id
    BY <1>1, Apart, AtWork
  <2> QED
    BY <1>1, <1>6, <1>7, <1>8, <1>9, <1>11, <2>1 DEF Progress, Idle
<1>13. Keyed'
  BY <1>8, <1>9 DEF Keyed
<1>14. Lists'
  <2>1. \A j \in Id : InList(j)' = InList(j)
    BY <1>9 DEF InList
  <2>2. RulesOf(securities)' = RulesOf(securities)
    BY <1>9
  <2> QED
    BY <1>6, <1>7, <1>9, <2>1, <2>2 DEF Lists
<1>15. MapFollowsRows'
  BY <1>2, <1>6, <1>8, <1>9 DEF MapFollowsRows, Agreed
<1> QED
  BY <1>6, <1>10, <1>11, <1>12, <1>13, <1>14, <1>15

\* The list is assigned: a request that ran alone settles it, another does not.
LEMMA AssignInv ==
    ASSUME SecurityInv, NEW a \in Admin, Assign(a)
    PROVE  SecurityInv'
<1> DEFINE i == Head(req[a].ids)
           r == Onward(req[a])
<1> USE DEF SecurityInv
<1>1. /\ ~Idle(a) /\ req[a].at = "assign" /\ req[a] \in Request
      /\ req[a].ids \in Seq(Id) /\ req[a].ids # <<>>
  BY AtWork DEF Assign, Idle, Shape, Request
<1>2. i \in Id /\ i \in Handles(a) /\ i \in InHand
  BY <1>1, AtWork
<1>3. /\ UNCHANGED <<rows, securities, contested, orphans>>
      /\ values' = req[a].seen /\ settled' = req[a].alone
      /\ req' = [req EXCEPT ![a] = r]
  BY DEF Assign
<1>4. /\ r \in Request
      /\ \/ /\ req[a].op = "update" /\ ~req[a].stored
            /\ r.at = "store" /\ r.ids = req[a].ids
         \/ /\ req[a].op = "delete" /\ Len(req[a].ids) > 1
            /\ r.at = "row" /\ r.ids = Tail(req[a].ids) /\ r.ids # <<>>
         \/ /\ req[a].op = "restore"
            /\ r.at = "end" /\ r.ids = req[a].ids
         \/ /\ ~(req[a].op = "update" /\ ~req[a].stored)
            /\ ~(req[a].op = "delete" /\ Len(req[a].ids) > 1)
            /\ req[a].op # "restore"
            /\ r = NoRequest
      /\ r = NoRequest \/ /\ r.op = req[a].op /\ r.rule = req[a].rule
                          /\ r.stored = req[a].stored /\ r.alone = req[a].alone
                          /\ r.at # "idle"
      /\ r.seen = <<>> /\ r.at # "assign"
  <2>0. <<>> \in Seq(Rule)
    OBVIOUS
  <2>1. CASE req[a].op = "update" /\ ~req[a].stored
    <3>1. r = [req[a] EXCEPT !.at = "store", !.seen = <<>>]
      BY <2>1 DEF Onward
    <3>2. r \in Request
      BY <1>1, <2>0, <3>1 DEF Request
    <3>3. /\ r.at = "store" /\ r.ids = req[a].ids /\ r.seen = <<>>
          /\ r.op = req[a].op /\ r.rule = req[a].rule
          /\ r.stored = req[a].stored /\ r.alone = req[a].alone
      BY <1>1, <3>1 DEF Request
    <3> QED
      BY <2>1, <3>2, <3>3
  <2>2. CASE req[a].op = "delete" /\ Len(req[a].ids) > 1
    <3>1. Tail(req[a].ids) \in Seq(Id) /\ Tail(req[a].ids) # <<>>
      BY <1>1, <2>2, HeadTail
    <3>2. r = [req[a] EXCEPT !.at = "row", !.seen = <<>>, !.ids = Tail(req[a].ids)]
      BY <2>2 DEF Onward
    <3>3. r \in Request
      BY <1>1, <2>0, <3>1, <3>2 DEF Request
    <3>4. /\ r.at = "row" /\ r.ids = Tail(req[a].ids) /\ r.seen = <<>>
          /\ r.op = req[a].op /\ r.rule = req[a].rule
          /\ r.stored = req[a].stored /\ r.alone = req[a].alone
      BY <1>1, <3>2 DEF Request
    <3> QED
      BY <2>2, <3>1, <3>3, <3>4
  <2>3. CASE req[a].op = "restore"
    <3>1. r = [req[a] EXCEPT !.at = "end", !.seen = <<>>]
      BY <2>3 DEF Onward
    <3>2. r \in Request
      BY <1>1, <2>0, <3>1 DEF Request
    <3>3. /\ r.at = "end" /\ r.ids = req[a].ids /\ r.seen = <<>>
          /\ r.op = req[a].op /\ r.rule = req[a].rule
          /\ r.stored = req[a].stored /\ r.alone = req[a].alone
      BY <1>1, <3>1 DEF Request
    <3> QED
      BY <2>3, <3>2, <3>3
  <2>4. CASE /\ ~(req[a].op = "update" /\ ~req[a].stored)
             /\ ~(req[a].op = "delete" /\ Len(req[a].ids) > 1)
             /\ req[a].op # "restore"
    <3>1. r = NoRequest
      BY <2>4 DEF Onward
    <3>2. r \in Request /\ r.seen = <<>> /\ r.at # "assign"
      BY <3>1, <2>0 DEF NoRequest, Request
    <3> QED
      BY <2>4, <3>1, <3>2
  <2> QED
    BY <2>1, <2>2, <2>3, <2>4
<1> HIDE DEF r
<1>5. /\ req' \in [Admin -> Request]
      /\ req'[a] = r /\ \A b \in Admin \ {a} : req'[b] = req[b]
  BY <1>3, <1>4 DEF TypeOK
<1>6. /\ Handles(a)' \subseteq Handles(a)
      /\ Handles(a) \ Handles(a)' \subseteq {i}
      /\ \A b \in Admin \ {a} : Handles(b)' = Handles(b)
  <2>1. Handles(a)' = ElementsOf(r.ids) /\ Handles(a) = ElementsOf(req[a].ids)
    BY <1>5 DEF Handles
  <2>2. Handles(a) = {i} \cup ElementsOf(Tail(req[a].ids))
    BY <1>1, <2>1, HeadTail
  <2>6. \A b \in Admin \ {a} : Handles(b)' = Handles(b)
    BY <1>5 DEF Handles
  <2>3. CASE r.ids = req[a].ids
    BY <2>1, <2>3, <2>6
  <2>4. CASE r.ids = Tail(req[a].ids)
    BY <2>1, <2>2, <2>4, <2>6
  <2>5. CASE r = NoRequest /\ r.ids # Tail(req[a].ids)
    <3>1. ElementsOf(req[a].ids) = {i}
      <4>1. CASE req[a].op = "delete"
        BY <1>1, <1>4, <2>5, <4>1, HeadTail DEF NoRequest
      <4>2. CASE req[a].op # "delete"
        <5>1. req[a].op \in {"create", "update", "restore"}
          BY <1>1, <4>2 DEF Shape, Request
        <5>2. req[a].ids = <<req[a].rule.id>>
          BY <5>1 DEF Shape
        <5> QED
          BY <5>2, One
      <4> QED
        BY <4>1, <4>2
    <3>2. ElementsOf(r.ids) = {}
      BY <2>5, Empty DEF NoRequest
    <3> QED
      BY <2>1, <2>6, <3>1, <3>2
  <2> QED
    BY <1>4, <2>3, <2>4, <2>5, <2>6
<1>7. TypeOK'
  BY <1>1, <1>3, <1>5 DEF TypeOK, Request
<1>8. Shape'
  <2>1. ASSUME NEW b \in Admin PROVE Shape!(b)'
    <3>1. CASE b # a
      BY <1>5, <3>1 DEF Shape, Idle
    <3>2. CASE b = a /\ r = NoRequest
      BY <1>5, <3>2 DEF Shape, Idle, NoRequest
    <3>3. CASE b = a /\ r # NoRequest
      BY <1>1, <1>4, <1>5, <3>3 DEF Shape, Idle
    <3> QED
      BY <3>1, <3>2, <3>3
  <2> QED
    BY <2>1 DEF Shape
<1>9. Progress'
  <2>1. ASSUME NEW b \in Admin PROVE Progress!(b)'
    <3>1. CASE b # a
      BY <1>3, <1>5, <3>1 DEF Progress, Idle
    <3>2. CASE b = a /\ r = NoRequest
      BY <1>5, <3>2 DEF Idle, NoRequest
    <3>3. CASE b = a /\ r.ids = req[a].ids /\ r # NoRequest
      BY <1>1, <1>3, <1>4, <1>5, <3>3 DEF Progress, Idle
    <3>4. CASE b = a /\ r.at = "row" /\ r # NoRequest
      BY <1>1, <1>4, <1>5, <3>4 DEF Shape, Idle
    <3> QED
      BY <1>4, <3>1, <3>2, <3>3, <3>4
  <2> QED
    BY <2>1 DEF Progress
<1>10. Overlaps'
  BY <1>3, <1>6 DEF Overlaps
<1>11. Alone'
  BY <1>1, <1>3, <1>4, <1>5 DEF Alone, OthersIdle, Idle, NoRequest
<1>12. Keyed'
  BY <1>3 DEF Keyed
<1>13. Lists'
  <2>1. Ascends(values)' /\ \A b \in Admin : Ascends(req'[b].seen)
    BY <1>3, <1>4, <1>5 DEF Lists, Ascends
  <2>2. ASSUME settled', NEW j \in Id PROVE InList(j)' = {securities[j]} \ {None}
    <3>1. ElementsOf(values)' = RulesOf(securities)
      BY <1>1, <1>3, <2>2 DEF Lists
    <3>2. InList(j)' = {s \in RulesOf(securities) : s.id = j}
      BY <3>1 DEF InList
    <3>3. RulesOf(securities) = {securities[k] : k \in Id} \ {None}
      BY DEF RulesOf, ElementsOf, TypeOK, Table
    <3> QED
      BY <3>2, <3>3 DEF Keyed
  <2>3. RulesOf(securities)' = RulesOf(securities)
    BY <1>3
  <2>4. ASSUME NEW b \in Admin, req'[b].at = "assign", req'[b].alone
        PROVE  ElementsOf(req'[b].seen) = RulesOf(securities)
    BY <1>4, <1>5, <2>4 DEF Lists
  <2> QED
    BY <1>3, <2>1, <2>2, <2>3, <2>4 DEF Lists
<1>14. MapFollowsRows'
  <2> SUFFICES ASSUME NEW j \in Id, j \notin InHand', j \notin contested, j \notin orphans
               PROVE  securities[j] = rows[j]
    BY <1>3 DEF MapFollowsRows, Agreed
  <2>1. CASE j \notin InHand
    BY <2>1 DEF MapFollowsRows, Agreed
  <2>2. CASE j \in InHand
    <3>1. j = i /\ r.ids # req[a].ids
      BY <1>5, <1>6, <2>2 DEF InHand, Handles
    <3>2. ~Idle(a) /\ i \notin contested
      BY <1>1, <3>1
    <3>3. CASE req[a].op = "delete"
      BY <1>1, <3>1, <3>2, <3>3 DEF Progress
    <3>4. CASE req[a].op # "delete"
      <4>1. req[a].op \in {"create", "update"} /\ req[a].stored
        BY <1>1, <1>4, <3>1, <3>4 DEF Shape, Request
      <4> QED
        BY <3>1, <3>2, <4>1 DEF Progress
    <3> QED
      BY <3>3, <3>4
  <2> QED
    BY <2>1, <2>2
<1> QED
  BY <1>7, <1>8, <1>9, <1>10, <1>11, <1>12, <1>13, <1>14

-----------------------------------------------------------------------------
(* The end of an import.                                                   *)

\* An import commits or rolls back: what is rolled back is an orphan.
LEMMA EndInv ==
    ASSUME SecurityInv, NEW a \in Admin, Commit(a) \/ RollBack(a)
    PROVE  SecurityInv'
<1> DEFINE i == Head(req[a].ids)
<1> USE DEF SecurityInv
<1>1. /\ ~Idle(a) /\ req[a].at = "end" /\ req[a] \in Request
      /\ req[a].op = "restore" /\ req[a].stored
      /\ req[a].rule \in Rule /\ req[a].ids = <<req[a].rule.id>>
  BY AtWork DEF Commit, RollBack, Idle, Shape
<1>2. i \in Id /\ i \in InHand /\ Handles(a) = {i} /\ i = req[a].rule.id
  BY <1>1, AtWork, One DEF Handles
<1>3. /\ UNCHANGED <<securities, values, settled, contested>>
      /\ req' = [req EXCEPT ![a] = NoRequest]
  BY DEF Commit, RollBack, manager, memory
<1>4. NoRequest \in Request
  BY DEF NoRequest, Request
<1>5. /\ req' \in [Admin -> Request]
      /\ req'[a] = NoRequest /\ \A b \in Admin \ {a} : req'[b] = req[b]
  BY <1>3, <1>4 DEF TypeOK
<1>6. Handles(a)' = {} /\ \A b \in Admin \ {a} : Handles(b)' = Handles(b)
  <2>1. ElementsOf(req'[a].ids) = {}
    BY <1>5, Empty DEF NoRequest
  <2> QED
    BY <1>5, <2>1 DEF Handles
<1>7. /\ rows' \in Table /\ rows'[i] \in {rows[i], req[a].rule}
      /\ \A j \in Id \ {i} : rows'[j] = rows[j]
      /\ orphans' \subseteq Id /\ orphans \subseteq orphans' /\ orphans' \subseteq orphans \cup {i}
      /\ i \in orphans' \/ rows'[i] = req[a].rule
  <2>1. CASE Commit(a)
    BY <1>1, <1>2, <2>1 DEF Commit, TypeOK, Table, memory
  <2>2. CASE RollBack(a)
    BY <1>1, <1>2, <2>2 DEF RollBack, TypeOK, Table
  <2> QED
    BY <2>1, <2>2
<1>8. TypeOK'
  BY <1>3, <1>5, <1>7 DEF TypeOK
<1>9. Shape'
  <2>1. ASSUME NEW b \in Admin PROVE Shape!(b)'
    <3>1. CASE b # a
      BY <1>5, <3>1 DEF Shape, Idle
    <3>2. CASE b = a
      BY <1>5, <3>2 DEF Idle, NoRequest
    <3> QED
      BY <3>1, <3>2
  <2> QED
    BY <2>1 DEF Shape
<1>10. Progress'
  <2>1. ASSUME NEW b \in Admin PROVE Progress!(b)'
    <3>1. CASE b # a /\ ~Idle(b) /\ Head(req[b].ids) \notin contested
      <4>1. Head(req[b].ids) # i /\ Head(req[b].ids) \in Id
        BY <1>1, <3>1, Apart, AtWork
      <4> QED
        BY <1>3, <1>5, <1>7, <3>1, <4>1 DEF Progress, Idle
    <3>2. CASE b # a /\ (Idle(b) \/ Head(req[b].ids) \in contested)
      BY <1>3, <1>5, <3>2 DEF Idle
    <3>3. CASE b = a
      BY <1>5, <3>3 DEF Idle, NoRequest
    <3> QED
      BY <3>1, <3>2, <3>3
  <2> QED
    BY <2>1 DEF Progress
<1>11. Overlaps'
  BY <1>3, <1>6 DEF Overlaps
<1>12. Alone'
  BY <1>1, <1>3, <1>5 DEF Alone, OthersIdle, Idle, NoRequest
<1>13. Keyed'
  BY <1>2, <1>3, <1>7 DEF Keyed
<1>14. Lists'
  <2>1. Pending \subseteq Pending'
    <3>1. ASSUME NEW b \in Admin, req[b].at # "end"
          PROVE  b # a /\ req'[b].at # "end" /\ Handles(b)' = Handles(b)
      BY <1>1, <1>5, <1>6, <3>1
    <3> QED
      BY <3>1 DEF Pending
  <2>2. \A j \in Id : InList(j)' = InList(j)
    BY <1>3 DEF InList
  <2>3. RulesOf(securities)' = RulesOf(securities)
    BY <1>3
  <2>4. Ascends(values)'
    BY <1>3 DEF Lists
  <2>5. ASSUME NEW b \in Admin
        PROVE  /\ Ascends(req'[b].seen)
               /\ req'[b].at = "assign" /\ req'[b].alone =>
                    ElementsOf(req'[b].seen) = RulesOf(securities)
    <3>1. CASE b = a
      BY <1>5, <3>1 DEF NoRequest, Ascends
    <3>2. CASE b # a
      BY <1>5, <3>2 DEF Lists
    <3> QED
      BY <3>1, <3>2
  <2> QED
    BY <1>3, <2>1, <2>2, <2>3, <2>4, <2>5 DEF Lists
<1>15. MapFollowsRows'
  <2> SUFFICES ASSUME NEW j \in Id, j \notin InHand', j \notin contested, j \notin orphans'
               PROVE  securities[j] = rows'[j]
    BY <1>3 DEF MapFollowsRows, Agreed
  <2>1. CASE j = i
    BY <1>1, <1>7, <2>1 DEF Progress
  <2>2. CASE j # i
    <3>1. j \notin InHand
      BY <1>2, <1>6, <2>2 DEF InHand
    <3> QED
      BY <1>7, <2>2, <3>1 DEF MapFollowsRows, Agreed
  <2> QED
    BY <2>1, <2>2
<1> QED
  BY <1>8, <1>9, <1>10, <1>11, <1>12, <1>13, <1>14, <1>15

-----------------------------------------------------------------------------
(* A restart.                                                              *)

\* After a restart the map and the list are those of the table.
LEMMA RestartInv ==
    ASSUME SecurityInv, Restart
    PROVE  SecurityInv'
<1> USE DEF SecurityInv
<1>1. /\ rows' = rows /\ securities' = rows /\ settled' = TRUE
      /\ contested' = {} /\ orphans' = {}
      /\ req' = [a \in Admin |-> NoRequest]
  BY DEF Restart
<1>2. values' \in Seq(Rule) /\ ElementsOf(values') = RulesOf(rows) /\ Ascends(values')
  <2>1. PICK s \in Sorted(rows) : values' = s
    BY DEF Restart
  <2>2. s \in Seq(Rule) /\ ElementsOf(s) = RulesOf(rows) /\ Ascends(s)
    BY SortedIs DEF TypeOK
  <2> QED
    BY <2>1, <2>2
<1>3. TypeOK'
  <2>1. NoRequest \in Request
    BY DEF NoRequest, Request
  <2> QED
    BY <1>1, <1>2, <2>1 DEF TypeOK
<1>4. \A a \in Admin : req'[a] = NoRequest /\ Handles(a)' = {} /\ Idle(a)'
  <2>1. \A a \in Admin : req'[a] = NoRequest
    BY <1>1
  <2>2. ElementsOf(NoRequest.ids) = {} /\ NoRequest.at = "idle"
    BY Empty DEF NoRequest
  <2> QED
    BY <2>1, <2>2 DEF Handles, Idle
<1>5. Shape' /\ Progress' /\ Overlaps' /\ Alone'
  <2>1. Shape'
    <3>1. /\ NoRequest.at = "idle" /\ NoRequest.op = "none"
      BY DEF NoRequest
    <3>2. ASSUME NEW a \in Admin PROVE Shape!(a)'
      BY <1>4, <3>1 DEF Idle
    <3> QED
      BY <3>2 DEF Shape
  <2> QED
    BY <1>4, <2>1 DEF Progress, Overlaps, Alone
<1>6. Keyed' /\ MapFollowsRows'
  BY <1>1 DEF Keyed, MapFollowsRows, Agreed
<1>7. Lists'
  <2>1. Ascends(values)'
    BY <1>2
  <2>2. RulesOf(securities)' = RulesOf(rows)
    BY <1>1
  <2>3. ASSUME NEW j \in Id PROVE InList(j)' = {securities[j]' } \ {None}
    <3>1. InList(j)' = {s \in RulesOf(rows) : s.id = j}
      BY <1>2 DEF InList
    <3>2. RulesOf(rows) = {rows[k] : k \in Id} \ {None}
      BY DEF RulesOf, ElementsOf, TypeOK, Table
    <3> QED
      BY <1>1, <3>1, <3>2 DEF Keyed
  <2>4. \A a \in Admin : Ascends(req'[a].seen) /\ req'[a].at # "assign"
    BY <1>4 DEF NoRequest, Ascends
  <2> QED
    BY <1>1, <2>1, <2>3, <2>4 DEF Lists
<1> QED
  BY <1>3, <1>5, <1>6, <1>7

-----------------------------------------------------------------------------
(* An arrival.                                                             *)

\* A request arrives; its first call changes rows that only it handles, or that are contested.
LEMMA ArrivesInv ==
    ASSUME SecurityInv, NEW a \in Admin,
           NEW op \in {"create", "update", "delete", "restore"},
           NEW at \in {"drop", "store"}, NEW rule \in Rule \cup {None},
           NEW ids \in Seq(Id), ids # <<>>,
           Arrives(a, op, at, rule, ids),
           op # "delete" => rule \in Rule /\ ids = <<rule.id>>,
           at = "drop" <=> op \in {"update", "delete"},
           rows' \in Table, orphans' \subseteq Id,
           \A j \in Id : rows'[j] # None => rows'[j].id = j,
           \A j \in Id \ ElementsOf(ids) :
              rows'[j] = rows[j] /\ (j \in orphans' <=> j \in orphans),
           op = "create" => rows'[Head(ids)] = rule,
           op = "update" => rows'[Head(ids)] = rule \/ Head(ids) \in orphans',
           op = "delete" => rows'[Head(ids)] = None
    PROVE  SecurityInv'
<1> DEFINE r == [at |-> at, op |-> op, rule |-> rule, ids |-> ids, stored |-> FALSE,
                 seen |-> <<>>, alone |-> OthersIdle(a)]
<1> USE DEF SecurityInv
<1>1. /\ Idle(a) /\ req[a] = NoRequest /\ Handles(a) = {}
      /\ UNCHANGED <<securities, values>>
      /\ settled' = (settled /\ OthersIdle(a))
      /\ contested' = (contested \ ElementsOf(ids)) \cup (ElementsOf(ids) \cap InHand)
  <2>1. Idle(a) /\ req[a] = NoRequest
    BY DEF Arrives, Shape
  <2>2. Handles(a) = {}
    BY <2>1, Empty DEF Handles, NoRequest
  <2> QED
    BY <2>1, <2>2 DEF Arrives, manager
<1>2. OthersIdle(a) \in BOOLEAN
  BY DEF OthersIdle, Idle
<1>3. r \in Request
  <2>1. <<>> \in Seq(Rule)
    OBVIOUS
  <2> QED
    BY <1>2, <2>1 DEF Request
<1>4. /\ r.at = at /\ r.op = op /\ r.rule = rule /\ r.ids = ids /\ r.stored = FALSE
      /\ r.seen = <<>> /\ r.alone = OthersIdle(a)
  OBVIOUS
<1>5. req' = [b \in Admin |-> IF b = a THEN r
                             ELSE IF Idle(b) THEN req[b]
                                             ELSE [req[b] EXCEPT !.alone = FALSE]]
  BY DEF Arrives
<1> HIDE DEF r
<1>6. /\ req' \in [Admin -> Request] /\ req'[a] = r
      /\ \A b \in Admin \ {a} :
           /\ req'[b].at = req[b].at /\ req'[b].op = req[b].op
           /\ req'[b].rule = req[b].rule /\ req'[b].ids = req[b].ids
           /\ req'[b].stored = req[b].stored /\ req'[b].seen = req[b].seen
           /\ IF Idle(b) THEN req'[b] = req[b] ELSE req'[b].alone = FALSE
  <2>1. req'[a] = r
    BY <1>5
  <2>2. ASSUME NEW b \in Admin \ {a}
        PROVE  /\ req'[b] \in Request
               /\ req'[b].at = req[b].at /\ req'[b].op = req[b].op
               /\ req'[b].rule = req[b].rule /\ req'[b].ids = req[b].ids
               /\ req'[b].stored = req[b].stored /\ req'[b].seen = req[b].seen
               /\ IF Idle(b) THEN req'[b] = req[b] ELSE req'[b].alone = FALSE
    <3>1. req[b] \in Request
      BY DEF TypeOK
    <3>2. CASE Idle(b)
      BY <1>5, <3>1, <3>2
    <3>3. CASE ~Idle(b)
      <4>1. req'[b] = [req[b] EXCEPT !.alone = FALSE]
        BY <1>5, <3>3
      <4> QED
        BY <3>1, <3>3, <4>1 DEF Request
    <3> QED
      BY <3>2, <3>3
  <2>3. req' \in [Admin -> Request]
    <3>1. \A b \in Admin : req'[b] \in Request
      BY <1>3, <2>1, <2>2
    <3>2. req' = [b \in Admin |-> req'[b]]
      BY <1>5
    <3> QED
      BY <3>1, <3>2
  <2> QED
    BY <2>1, <2>2, <2>3
<1>7. /\ Handles(a)' = ElementsOf(ids) /\ ElementsOf(ids) \subseteq Id
      /\ Head(ids) \in ElementsOf(ids)
      /\ \A b \in Admin \ {a} : Handles(b)' = Handles(b) /\ (Idle(b)' <=> Idle(b))
      /\ ~Idle(a)'
  <2>1. Handles(a)' = ElementsOf(ids) /\ ~Idle(a)'
    BY <1>4, <1>6 DEF Handles, Idle
  <2>2. ElementsOf(ids) \subseteq Id /\ Head(ids) \in ElementsOf(ids)
    BY HeadTail
  <2>3. \A b \in Admin \ {a} : Handles(b)' = Handles(b) /\ (Idle(b)' <=> Idle(b))
    BY <1>6 DEF Handles, Idle
  <2> QED
    BY <2>1, <2>2, <2>3
<1>8. InHand' = InHand \cup ElementsOf(ids)
  BY <1>1, <1>7 DEF InHand
<1>9. InHand \subseteq Id
  <2>1. ASSUME NEW b \in Admin PROVE Handles(b) \subseteq Id
    <3>1. req[b].ids \in Seq(Id)
      BY DEF TypeOK, Request
    <3>2. CASE req[b].ids = <<>>
      BY <3>2, Empty DEF Handles
    <3>3. CASE req[b].ids # <<>>
      BY <3>1, <3>3, HeadTail DEF Handles
    <3> QED
      BY <3>2, <3>3
  <2> QED
    BY <2>1 DEF InHand
<1>10. TypeOK'
  BY <1>1, <1>2, <1>6, <1>7, <1>9 DEF TypeOK
<1>11. Shape'
  <2>1. ASSUME NEW b \in Admin PROVE Shape!(b)'
    <3>1. CASE b # a
      BY <1>6, <3>1 DEF Shape, Idle
    <3>2. CASE b = a
      BY <1>4, <1>6, <1>7, <3>2 DEF Idle
    <3> QED
      BY <3>1, <3>2
  <2> QED
    BY <2>1 DEF Shape
<1>12. Progress'
  <2>1. ASSUME NEW b \in Admin, NEW h, h = Head(req'[b].ids), ~(req'[b].at = "idle"),
               h \notin contested'
        PROVE  /\ req'[b].op = "create" => rows'[h] = req'[b].rule
               /\ req'[b].op = "update" => rows'[h] = req'[b].rule \/ h \in orphans'
               /\ req'[b].stored => securities'[h] = req'[b].rule
               /\ req'[b].op = "delete" /\ req'[b].at # "row" => rows'[h] = None
               /\ req'[b].op = "delete" /\ req'[b].at \in {"load", "assign"} =>
                    securities'[h] = None
    <3>1. CASE b = a
      BY <1>4, <1>6, <2>1, <3>1
    <3>2. CASE b # a
      <4>1. ~Idle(b) /\ h = Head(req[b].ids)
        BY <1>6, <2>1, <3>2 DEF Idle
      <4>2. h \in Id /\ h \in InHand
        BY <4>1, AtWork
      <4>3. h \notin ElementsOf(ids) /\ h \notin contested
        BY <1>1, <2>1, <4>2
      <4> QED
        BY <1>1, <1>6, <3>2, <4>1, <4>2, <4>3 DEF Progress
    <3> QED
      BY <3>1, <3>2
  <2> QED
    BY <2>1 DEF Progress, Idle
<1>13. Overlaps'
  <2>1. ASSUME NEW b \in Admin, NEW c \in Admin, b # c,
               NEW x, x \in Handles(b)', x \in Handles(c)'
        PROVE  x \in contested'
    <3>1. CASE b # a /\ c # a
      BY <1>1, <1>7, <2>1, <3>1 DEF Overlaps, InHand
    <3>2. CASE b = a \/ c = a
      BY <1>1, <1>7, <2>1, <3>2 DEF InHand
    <3> QED
      BY <3>1, <3>2
  <2> QED
    BY <2>1 DEF Overlaps
<1>14. Alone'
  BY <1>1, <1>4, <1>6, <1>7 DEF Alone, OthersIdle
<1>15. Keyed'
  BY <1>1 DEF Keyed
<1>16. Lists'
  <2>1. Pending \subseteq Pending'
    <3>1. ASSUME NEW b \in Admin, req[b].at # "end", Handles(b) # {}
          PROVE  req'[b].at # "end" /\ Handles(b)' = Handles(b)
      BY <1>1, <1>6, <1>7, <3>1
    <3> QED
      BY <3>1 DEF Pending
  <2>2. \A j \in Id : InList(j)' = InList(j)
    BY <1>1 DEF InList
  <2>3. Ascends(values)'
    BY <1>1 DEF Lists
  <2>4. ASSUME NEW b \in Admin
        PROVE  /\ Ascends(req'[b].seen)
               /\ ~(req'[b].at = "assign" /\ req'[b].alone)
    <3>1. CASE b = a
      BY <1>4, <1>6, <3>1 DEF Ascends
    <3>2. CASE b # a
      <4>1. Ascends(req'[b].seen)
        BY <1>6, <3>2 DEF Lists
      <4> QED
        BY <1>6, <3>2, <4>1 DEF Idle
    <3> QED
      BY <3>1, <3>2
  <2> QED
    BY <1>1, <2>1, <2>2, <2>3, <2>4 DEF Lists
<1>17. MapFollowsRows'
  BY <1>1, <1>7, <1>8 DEF MapFollowsRows, Agreed
<1> QED
  BY <1>10, <1>11, <1>12, <1>13, <1>14, <1>15, <1>16, <1>17

\* A creation arrives with an id that nothing refers to.
LEMMA CreateInv ==
    ASSUME SecurityInv, NEW a \in Admin, NEW s \in Rule, Create(a, s)
    PROVE  SecurityInv'
<1>1. s.id \in Id /\ s # None
  BY RuleIs
<1>2. /\ <<s.id>> \in Seq(Id) /\ <<s.id>> # <<>>
      /\ ElementsOf(<<s.id>>) = {s.id} /\ Head(<<s.id>>) = s.id
  BY <1>1, One
<1>3. /\ Arrives(a, "create", "store", s, <<s.id>>)
      /\ rows' = [rows EXCEPT ![s.id] = s] /\ orphans' = orphans \ {s.id}
  BY DEF Create
<1>4. rows' \in Table /\ orphans' \subseteq Id
  BY <1>1, <1>3 DEF SecurityInv, TypeOK, Table
<1>5. /\ \A j \in Id : rows'[j] # None => rows'[j].id = j
      /\ \A j \in Id \ {s.id} : rows'[j] = rows[j] /\ (j \in orphans' <=> j \in orphans)
      /\ rows'[s.id] = s
  BY <1>1, <1>3 DEF SecurityInv, TypeOK, Table, Keyed
<1> QED
  BY <1>1, <1>2, <1>3, <1>4, <1>5, ArrivesInv

\* So does an import, and its row is not seen yet.
LEMMA ImportInv ==
    ASSUME SecurityInv, NEW a \in Admin, NEW s \in Rule, Import(a, s)
    PROVE  SecurityInv'
<1>1. s.id \in Id /\ s # None
  BY RuleIs
<1>2. /\ <<s.id>> \in Seq(Id) /\ <<s.id>> # <<>>
      /\ ElementsOf(<<s.id>>) = {s.id} /\ Head(<<s.id>>) = s.id
  BY <1>1, One
<1>3. /\ Arrives(a, "restore", "store", s, <<s.id>>)
      /\ rows' = rows /\ orphans' = orphans \ {s.id}
  BY DEF Import
<1>4. rows' \in Table /\ orphans' \subseteq Id
  BY <1>1, <1>3 DEF SecurityInv, TypeOK
<1>5. /\ \A j \in Id : rows'[j] # None => rows'[j].id = j
      /\ \A j \in Id \ {s.id} : rows'[j] = rows[j] /\ (j \in orphans' <=> j \in orphans)
  BY <1>1, <1>3 DEF SecurityInv, Keyed
<1> QED
  BY <1>1, <1>2, <1>3, <1>4, <1>5, ArrivesInv

\* An update arrives and finds its row or leaves an orphan.
LEMMA UpdateInv ==
    ASSUME SecurityInv, NEW a \in Admin, NEW s \in Rule, Update(a, s)
    PROVE  SecurityInv'
<1>1. s.id \in Id /\ s # None
  BY RuleIs
<1>2. /\ <<s.id>> \in Seq(Id) /\ <<s.id>> # <<>>
      /\ ElementsOf(<<s.id>>) = {s.id} /\ Head(<<s.id>>) = s.id
  BY <1>1, One
<1>3. Arrives(a, "update", "drop", s, <<s.id>>)
  BY DEF Update
<1>4. /\ rows' \in Table /\ orphans' \subseteq Id
      /\ \A j \in Id : rows'[j] # None => rows'[j].id = j
      /\ \A j \in Id \ {s.id} : rows'[j] = rows[j] /\ (j \in orphans' <=> j \in orphans)
      /\ rows'[s.id] = s \/ s.id \in orphans'
  <2>1. CASE rows' = [rows EXCEPT ![s.id] = s] /\ orphans' = orphans \ {s.id}
    BY <1>1, <2>1 DEF SecurityInv, TypeOK, Table, Keyed
  <2>2. CASE rows' = rows /\ orphans' = orphans \cup {s.id}
    BY <1>1, <2>2 DEF SecurityInv, TypeOK, Table, Keyed
  <2> QED
    BY <2>1, <2>2 DEF Update
<1> QED
  BY <1>1, <1>2, <1>3, <1>4, ArrivesInv

\* A deletion arrives and deletes its first row.
LEMMA DeleteInv ==
    ASSUME SecurityInv, NEW a \in Admin, NEW ids \in Batch, Delete(a, ids)
    PROVE  SecurityInv'
<1>1. ids \in Seq(Id) /\ ids # <<>>
  <2>1. CASE ids \in {<<i>> : i \in Id}
    <3>1. PICK i \in Id : ids = <<i>>
      BY <2>1
    <3> QED
      BY <3>1, One
  <2>2. CASE ids \in Id \X Id
    <3>1. PICK i \in Id, j \in Id : ids = <<i, j>>
      BY <2>2
    <3> QED
      BY <3>1
  <2> QED
    BY <2>1, <2>2 DEF Batch
<1>2. Head(ids) \in Id /\ Head(ids) \in ElementsOf(ids)
  BY <1>1, HeadTail
<1>3. /\ Arrives(a, "delete", "drop", None, ids)
      /\ rows' = [rows EXCEPT ![Head(ids)] = None] /\ orphans' = orphans \ ElementsOf(ids)
  BY DEF Delete
<1>4. rows' \in Table /\ orphans' \subseteq Id
  BY <1>2, <1>3 DEF SecurityInv, TypeOK, Table
<1>5. /\ \A j \in Id : rows'[j] # None => rows'[j].id = j
      /\ \A j \in Id \ ElementsOf(ids) :
            rows'[j] = rows[j] /\ (j \in orphans' <=> j \in orphans)
      /\ rows'[Head(ids)] = None
  BY <1>2, <1>3 DEF SecurityInv, TypeOK, Table, Keyed
<1> QED
  BY <1>1, <1>3, <1>4, <1>5, ArrivesInv

-----------------------------------------------------------------------------
(* The theorems.                                                           *)

\* The invariant is inductive.
LEMMA NextInv == SecurityInv /\ [Next]_vars => SecurityInv'
<1> SUFFICES ASSUME SecurityInv, [Next]_vars PROVE SecurityInv'
  OBVIOUS
<1>1. CASE UNCHANGED vars
  <2>1. UNCHANGED <<rows, securities, values, req, settled, contested, orphans>>
    BY <1>1 DEF vars, manager, memory
  <2>2. \A a \in Admin : Handles(a)' = Handles(a) /\ (Idle(a)' <=> Idle(a))
    BY <2>1 DEF Handles, Idle
  <2>3. InHand' = InHand /\ Pending' = Pending
    BY <2>1, <2>2 DEF InHand, Pending
  <2>4. (\A j \in Id : InList(j)' = InList(j)) /\ RulesOf(securities)' = RulesOf(securities)
    BY <2>1 DEF InList
  <2>5. TypeOK' /\ Shape' /\ Progress'
    <3>1. TypeOK'
      BY <2>1 DEF SecurityInv, TypeOK
    <3>2. Shape'
      BY <2>1 DEF SecurityInv, Shape, Idle
    <3>3. Progress'
      BY <2>1 DEF SecurityInv, Progress, Idle
    <3> QED
      BY <3>1, <3>2, <3>3
  <2>6. Overlaps' /\ Alone' /\ Keyed'
    BY <2>1, <2>2 DEF SecurityInv, Overlaps, Alone, OthersIdle, Keyed
  <2>7. Lists' /\ MapFollowsRows'
    BY <2>1, <2>3, <2>4 DEF SecurityInv, Lists, MapFollowsRows, Agreed
  <2> QED
    BY <2>5, <2>6, <2>7 DEF SecurityInv
<1>2. ASSUME NEW a \in Admin, NEW s \in Rule, Create(a, s) \/ Update(a, s) \/ Import(a, s)
      PROVE  SecurityInv'
  BY <1>2, CreateInv, UpdateInv, ImportInv
<1>3. ASSUME NEW a \in Admin, NEW ids \in Batch, Delete(a, ids) PROVE SecurityInv'
  BY <1>3, DeleteInv
<1>4. ASSUME NEW a \in Admin, DeleteNext(a) \/ Drop(a) \/ Store(a) PROVE SecurityInv'
  BY <1>4, DeleteNextInv, DropInv, StoreInv
<1>5. ASSUME NEW a \in Admin, Load(a) \/ Assign(a) PROVE SecurityInv'
  BY <1>5, LoadInv, AssignInv
<1>6. ASSUME NEW a \in Admin, Commit(a) \/ RollBack(a) PROVE SecurityInv'
  BY <1>6, EndInv
<1>7. CASE Restart
  BY <1>7, RestartInv
<1> QED
  BY <1>1, <1>2, <1>3, <1>4, <1>5, <1>6, <1>7 DEF Next

\* What every request of the access rules has done, and what the manager and
\* its list hold meanwhile, for any rules, ids and number of requests.
THEOREM SecurityIsCoherent == Spec => []SecurityInv
  BY InitInv, NextInv, PTL DEF Spec

\* The map of the manager has the rules of the table, except for those that
\* requests are changing, have contested or have left without a row.
THEOREM MapHoldsTheRules == Spec => []MapFollowsRows
<1>1. SecurityInv => MapFollowsRows
  BY DEF SecurityInv
<1> QED
  BY <1>1, SecurityIsCoherent, PTL

\* The invariant says so: the list the doors read has the rules of the table at
\* every step of every request that runs alone.
LEMMA ListFollows == SecurityInv => InForce
<1> SUFFICES ASSUME SecurityInv, settled, NEW i \in Agreed
             PROVE  InList(i) = {rows[i]} \ {None}
  BY DEF InForce
<1>1. i \in Id \ Pending
  BY DEF Agreed, Pending, InHand
<1>2. InList(i) = {securities[i]} \ {None}
  BY <1>1 DEF SecurityInv, Lists
<1>3. securities[i] = rows[i]
  BY DEF SecurityInv, MapFollowsRows
<1> QED
  BY <1>2, <1>3

\* The list in force has exactly the rules of the table unless requests overlapped
\* since: LoadData of a request that runs alone leaves nothing out.
THEOREM ListHoldsTheRules == Spec => []InForce
  BY ListFollows, SecurityIsCoherent, PTL

\* A set of positions has a first one.
LEMMA SmallestIs ==
    ASSUME NEW ks, ks \subseteq Nat, ks # {}
    PROVE  Smallest(ks) \in ks /\ \A l \in ks : Smallest(ks) <= l
<1> DEFINE R == {p \in Nat \X Nat : p[1] < p[2]}
<1>1. IsWellFoundedOn(R, Nat)
  BY NatLessThanWellFounded DEF OpToRel
<1>2. \E k \in ks : \A l \in ks : k <= l
  <2>1. \A k, l \in Nat : <<l, k>> \in R <=> l < k
    OBVIOUS
  <2> HIDE DEF R
  <2>2. PICK k \in ks : \A l \in ks : ~(<<l, k>> \in R)
    BY <1>1, WFMin
  <2>3. \A l \in ks : ~(l < k)
    BY <2>1, <2>2
  <2>4. \A l \in ks : k \in Nat /\ l \in Nat
    OBVIOUS
  <2> QED
    BY <2>3, <2>4
<1> QED
  BY <1>2 DEF Smallest

\* A finite set of positions has a last one.
LEMMA LargestIs ==
    ASSUME NEW n \in Nat, NEW ks, ks \subseteq 1..n, ks # {}
    PROVE  Largest(ks) \in ks /\ \A l \in ks : l <= Largest(ks)
<1> DEFINE D == {n - k : k \in ks}
<1>1. \A k \in ks : n - k \in D /\ n - k \in Nat /\ k \in Int
  OBVIOUS
<1>2. \A d \in D : \E k \in ks : d = n - k
  OBVIOUS
<1> HIDE DEF D
<1>3. D \subseteq Nat /\ D # {}
  BY <1>1, <1>2
<1>4. Smallest(D) \in D /\ \A l \in D : Smallest(D) <= l
  BY <1>3, SmallestIs
<1>5. PICK k \in ks : Smallest(D) = n - k
  BY <1>2, <1>4
<1>6. \A l \in ks : l <= k
  <2> TAKE l \in ks
  <2>1. n - k <= n - l
    BY <1>1, <1>4, <1>5
  <2> QED
    BY <1>1, <2>1
<1> QED
  BY <1>6 DEF Largest

\* When no request is under way the list has the rules of the table, in order.
LEMMA ListIsTheTable ==
    ASSUME SecurityInv, settled, Agreed = Id
    PROVE  /\ values \in Seq(Rule) /\ DOMAIN values = 1..Len(values)
           /\ ElementsOf(values) = RulesOf(rows)
           /\ \A j, k \in DOMAIN values : j <= k => values[j].priority <= values[k].priority
<1>1. values \in Seq(Rule) /\ DOMAIN values = 1..Len(values) /\ Ascends(values)
  BY DEF SecurityInv, TypeOK, Lists
<1>2. ElementsOf(values) = RulesOf(rows)
  <2>1. \A i \in Id : InList(i) = {rows[i]} \ {None}
    BY ListFollows DEF InForce
  <2>2. RulesOf(rows) = {rows[i] : i \in Id} \ {None}
    BY DEF RulesOf, ElementsOf, SecurityInv, TypeOK, Table
  <2>3. \A s \in ElementsOf(values) : s.id \in Id
    BY <1>1, RuleIs DEF ElementsOf
  <2> QED
    BY <2>1, <2>2, <2>3 DEF InList
<1>3. ASSUME NEW j \in DOMAIN values, NEW k \in DOMAIN values, j <= k
      PROVE  values[j].priority <= values[k].priority
  <2>1. values[j] \in Rule /\ values[k] \in Rule
    BY <1>1
  <2>2. j \in 1..Len(values) /\ k \in 1..Len(values)
    BY <1>1
  <2>3. CASE j = k
    BY <2>1, <2>3, RuleIs
  <2>4. CASE j < k
    BY <1>1, <2>2, <2>4 DEF Ascends
  <2> QED
    BY <1>3, <2>2, <2>3, <2>4
<1> QED
  BY <1>1, <1>2, <1>3

\* The SSH server finds a row of the smallest number among those that cover.
LEMMA SshDecides ==
    ASSUME SecurityInv, settled, Agreed = Id, NEW ip \in Ip
    PROVE  SshPasses(values, ip) \in
             Verdicts(Foremost({s \in RulesOf(rows) : CoversWhole(s, ip)}))
<1> DEFINE K == {k \in DOMAIN values : CoversWhole(values[k], ip)}
           H == {s \in RulesOf(rows) : CoversWhole(s, ip)}
           m == Smallest(K)
<1>1. H = {values[k] : k \in K}
  BY ListIsTheTable DEF ElementsOf
<1>2. CASE K = {}
  <2>1. H = {} /\ SshPasses(values, ip) = TRUE
    BY <1>1, <1>2 DEF SshPasses
  <2> QED
    BY <2>1 DEF Verdicts, Foremost
<1>3. CASE K # {}
  <2>1. m \in K /\ \A k \in K : m <= k
    <3>1. K \subseteq Nat
      BY ListIsTheTable
    <3> HIDE DEF K
    <3> QED
      BY <1>3, <3>1, SmallestIs
  <2>2. SshPasses(values, ip) = (values[m].rule = "allow")
    BY <1>3 DEF SshPasses
  <2> HIDE DEF m
  <2>3. values[m] \in H /\ \A u \in H : values[m].priority <= u.priority
    BY <1>1, <2>1, ListIsTheTable
  <2>4. values[m] \in Foremost(H)
    BY <2>3 DEF Foremost
  <2> HIDE DEF H
  <2>5. (values[m].rule = "allow") \in Verdicts(Foremost(H))
    BY <2>4 DEF Verdicts
  <2> QED
    BY <2>2, <2>5 DEF H
<1> QED
  BY <1>2, <1>3

\* The last match of the wall is one of the rows that cover.
LEMMA HttpDecides ==
    ASSUME SecurityInv, settled, Agreed = Id, NEW ip \in Ip
    PROVE  HttpPasses(values, ip) \in Verdicts({s \in RulesOf(rows) : Covers(s, ip)})
<1> DEFINE K == {k \in DOMAIN values : Covers(values[k], ip)}
           H == {s \in RulesOf(rows) : Covers(s, ip)}
           m == Largest(K)
<1>1. H = {values[k] : k \in K}
  BY ListIsTheTable DEF ElementsOf
<1>2. CASE K = {}
  <2>1. H = {} /\ HttpPasses(values, ip) = TRUE
    BY <1>1, <1>2 DEF HttpPasses
  <2> QED
    BY <2>1 DEF Verdicts
<1>3. CASE K # {}
  <2>1. m \in K
    <3>1. K \subseteq 1..Len(values) /\ Len(values) \in Nat
      BY ListIsTheTable
    <3> HIDE DEF K
    <3> QED
      BY <1>3, <3>1, LargestIs
  <2>2. HttpPasses(values, ip) = (values[m].rule = "allow")
    BY <1>3 DEF HttpPasses
  <2> HIDE DEF m
  <2>3. values[m] \in H
    BY <1>1, <2>1
  <2> HIDE DEF H
  <2>4. (values[m].rule = "allow") \in Verdicts(H)
    BY <2>3 DEF Verdicts
  <2> QED
    BY <2>2, <2>4 DEF H
<1> QED
  BY <1>2, <1>3

\* The SSH server decides as a row of the smallest number that covers the client,
\* and the HTTP wall as one of the rows that cover it, for any rules, addresses and
\* number of requests.
THEOREM DoorsAreDecided == Spec => []DoorsDecide
<1>1. SecurityInv => DoorsDecide
  BY SshDecides, HttpDecides DEF DoorsDecide
<1> QED
  BY <1>1, SecurityIsCoherent, PTL
=============================================================================
