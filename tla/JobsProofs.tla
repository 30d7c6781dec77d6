----------------------------- MODULE JobsProofs -----------------------------
(* Theorems about Jobs and about JobRun.                                    *)
EXTENDS Jobs, JobRun, FiniteSetTheorems, TLAPS

\* An entry a job owns stays its own, or goes, when the scheduler gets another
\* one or loses one.
LEMMA OwnKept ==
    ASSUME TypeOK, OwnEntry, NEW j \in Jobs, NEW e \in 0..MaxEntries, Own(j, e),
           \/ \E k \in Jobs, d \in Defs \cup {None} : NewEntry(k, d)
           \/ \E id \in 0..MaxEntries : RemoveEntry(id) /\ UNCHANGED given
           \/ UNCHANGED sched
    PROVE  Own(j, e)'
<1> USE JobsAssumption DEF TypeOK, Own, Entries
<1>1. ASSUME NEW k \in Jobs, NEW d \in Defs \cup {None}, NewEntry(k, d) PROVE Own(j, e)'
  BY <1>1 DEF NewEntry
<1>2. ASSUME NEW id \in 0..MaxEntries, RemoveEntry(id), UNCHANGED given
      PROVE  Own(j, e)'
  BY <1>2 DEF RemoveEntry
<1>3. CASE UNCHANGED sched
  BY <1>3 DEF sched
<1> QED
  BY <1>1, <1>2, <1>3

\* The id a request is given is its job's, and no entry lies beyond it.
LEMMA NewOwn ==
    ASSUME TypeOK, OwnEntry, NEW j \in Jobs, NEW d \in Defs \cup {None}, NewEntry(j, d)
    PROVE  /\ given + 1 \in 1..MaxEntries
           /\ given' = given + 1
           /\ entries' \in [Entries -> [job : Jobs, def : Defs \cup {None}] \cup {None}]
           /\ Own(j, given)'
           /\ \A e \in Entries : e > given' => entries'[e] = None
<1> USE JobsAssumption DEF TypeOK, Entries, NewEntry
<1>1. given + 1 \in 1..MaxEntries /\ given' = given + 1
  OBVIOUS
<1>2. entries' \in [Entries -> [job : Jobs, def : Defs \cup {None}] \cup {None}]
  BY <1>1
<1>3. Own(j, given)'
  BY <1>1 DEF Own
<1>4. \A e \in Entries : e > given' => entries'[e] = None
  BY <1>1 DEF OwnEntry
<1> QED
  BY <1>1, <1>2, <1>3, <1>4

\* The invariant holds before the first start.
LEMMA InitInv == Init => JobsInv
<1> SUFFICES ASSUME Init PROVE JobsInv
  OBVIOUS
<1> USE JobsAssumption DEF Init
<1>1. TypeOK
  BY DEF TypeOK, Row, NoRow, NewRow, Request, NoRequest
<1>2. OwnEntry
  BY DEF OwnEntry
<1>3. OwnRead
  BY DEF OwnRead, NoRequest, Idle
<1> QED
  BY <1>1, <1>2, <1>3 DEF JobsInv

\* A call that leaves the scheduler alone and gives no row an entry it does
\* not own.
LEMMA Quiet ==
    ASSUME JobsInv, UNCHANGED <<sched, boot>>, phase = "up", TypeOK', OwnRead',
           \A j \in Jobs : row'[j].status = "running" => Own(j, row'[j].cronId)
    PROVE  JobsInv'
<1>1. \A j \in Jobs : row'[j].status = "running" => Own(j, row[j].cronId)'
  BY OwnKept DEF JobsInv, TypeOK, Row, Own, sched
<1>2. OwnEntry'
  BY <1>1 DEF JobsInv, OwnEntry, sched, boot
<1> QED
  BY <1>2 DEF JobsInv

\* A request that arrives keeps the invariant: it reads a row that owns its entry.
LEMMA AskInv ==
    ASSUME JobsInv, NEW a \in Admins, NEW j \in Jobs, Asks(a, j)
    PROVE  JobsInv'
<1> USE JobsAssumption DEF JobsInv
<1>1. ASSUME NEW what \in {"start", "stop", "update", "delete", "restore"},
             NEW call \in {"find", "look", "add"}, NEW d \in Defs \cup {None},
             Ask(a, j, what, call, d)
      PROVE  JobsInv'
  <2>0. [NoRow EXCEPT !.def = d] \in Row
    BY DEF Row, NoRow, NewRow
  <2>1. TypeOK'
    BY <1>1, <2>0 DEF Ask, TypeOK, Request, sched, boot
  <2>2. OwnRead'
    BY <1>1 DEF Ask, TypeOK, Request, NoRequest, OwnRead, Own, Idle, sched, boot
  <2>3. \A k \in Jobs : row'[k].status = "running" => Own(k, row'[k].cronId)
    BY <1>1 DEF Ask, OwnEntry, TypeOK, OwnRead
  <2> QED
    BY <1>1, <2>1, <2>2, <2>3, Quiet DEF Ask
<1>2. CASE Create(a, j)
  <2>1. PICK d \in Defs, id \in 0..MaxEntries :
          row' = [row EXCEPT ![j] = [status |-> "stopped", cronId |-> id, def |-> d]]
    BY <1>2 DEF Create
  <2>2. [status |-> "stopped", cronId |-> id, def |-> d] \in Row
    BY DEF Row
  <2>3. TypeOK'
    BY <1>2, <2>1, <2>2 DEF Create, TypeOK, sched, boot
  <2>4. \A k \in Jobs : row'[k].status = "running" => Own(k, row'[k].cronId)
    BY <1>2, <2>1, <2>2 DEF Create, TypeOK, OwnEntry
  <2>5. OwnRead'
    BY <1>2 DEF Create, OwnRead, Own, Idle, sched, boot
  <2> QED
    BY <1>2, <2>3, <2>4, <2>5, Quiet DEF Create
<1> QED
  BY <1>1, <1>2 DEF Asks, AskStart, AskStop, AskUpdate, AskDelete, Restore

\* So does each call of a request.
LEMMA CallInv ==
    ASSUME JobsInv, NEW a \in Admins, Call(a)
    PROVE  JobsInv'
<1> USE JobsAssumption DEF JobsInv
<1>a. phase = "up" /\ toStart = {} /\ req[a].job \in Jobs
  BY DEF Call, Look, Save, Erase, Find, AddFails, Add, Mark, Insert, Remove, Halt,
         At, OwnEntry, OwnRead, Idle
<1>j. PICK j \in Jobs : j = req[a].job
  BY <1>a
<1> USE <1>j
<1>b. /\ row[j] \in Row /\ req[a] \in Request /\ NoRequest \in Request
      /\ NoRequest.at = "idle"
  BY <1>a DEF TypeOK, Request, NoRequest, NoRow, NewRow, Row
\* a call that only goes on
<1>c. ASSUME NEW new \in Request, req' = [req EXCEPT ![a] = new],
             UNCHANGED <<sched, boot>>, row' \in [Jobs -> Row],
             new.job = req[a].job \/ new = NoRequest,
             new.at = "remove" /\ new.read.status = "running"
                => Own(j, new.read.cronId),
             new.at \in {"mark", "insert"} => Own(j, new.newId),
             \A k \in Jobs : row'[k].status = "running" => Own(k, row'[k].cronId)
      PROVE  JobsInv'
  <2>1. TypeOK'
    BY <1>c DEF TypeOK, sched, boot
  <2>2. OwnRead'
    BY <1>a, <1>b, <1>c DEF TypeOK, OwnRead, Own, Idle, sched, boot
  <2> QED
    BY <1>a, <1>c, <2>1, <2>2, Quiet
<1>d. \A k \in Jobs : row[k].status = "running" => Own(k, row[k].cronId)
  BY <1>a DEF OwnEntry
<1>e. ASSUME NEW new \in Row, Write(j, new),
             new.status = "running" => Own(j, new.cronId)
      PROVE  /\ row' \in [Jobs -> Row]
             /\ \A k \in Jobs : row'[k].status = "running" => Own(k, row'[k].cronId)
  BY <1>a, <1>d, <1>e DEF Write, TypeOK
<1>f. ASSUME Over(a), UNCHANGED <<sched, boot>>, row' \in [Jobs -> Row],
             \A k \in Jobs : row'[k].status = "running" => Own(k, row'[k].cronId)
      PROVE  JobsInv'
  BY <1>b, <1>c, <1>f DEF Over
<1>g. ASSUME NEW to \in {"save", "find", "erase", "halt"}, Goto(a, to),
             UNCHANGED <<sched, boot>>, row' \in [Jobs -> Row],
             \A k \in Jobs : row'[k].status = "running" => Own(k, row'[k].cronId)
      PROVE  JobsInv'
  <2>1. [req[a] EXCEPT !.at = to] \in Request
    BY <1>b DEF Request
  <2> QED
    BY <1>b, <1>c, <1>g, <2>1 DEF Goto, Request
<1>1. CASE Look(a)
  <2>1. CASE Over(a)
    BY <1>1, <1>d, <1>f, <2>1 DEF Look, TypeOK
  <2>2. CASE \E op \in {"update", "edit"} :
               req' = [req EXCEPT ![a] = [@ EXCEPT !.at = "save", !.op = op]]
    <3>1. PICK op \in {"update", "edit"} :
               req' = [req EXCEPT ![a] = [@ EXCEPT !.at = "save", !.op = op]]
      BY <2>2
    <3>2. [req[a] EXCEPT !.at = "save", !.op = op] \in Request
      BY <1>b DEF Request
    <3> QED
      BY <1>1, <1>b, <1>c, <1>d, <3>1, <3>2 DEF Look, TypeOK, Request
  <2>3. CASE \E to \in {"find", "erase"} : Goto(a, to)
    BY <1>1, <1>d, <1>g, <2>3 DEF Look, TypeOK
  <2> QED
    BY <1>1, <2>1, <2>2, <2>3 DEF Look
<1>2. CASE Save(a)
  <2>1. PICK d \in Defs : Write(j, [row[j] EXCEPT !.def = d])
    BY <1>2 DEF Save
  <2>2. /\ row' \in [Jobs -> Row]
        /\ \A k \in Jobs : row'[k].status = "running" => Own(k, row'[k].cronId)
    BY <1>a, <1>b, <1>d, <1>e, <2>1 DEF Row
  <2>3. CASE Over(a)
    BY <1>2, <1>f, <2>2, <2>3 DEF Save
  <2>4. CASE Goto(a, "find")
    BY <1>2, <1>g, <2>2, <2>4 DEF Save
  <2> QED
    BY <1>2, <2>3, <2>4 DEF Save
<1>3. CASE Erase(a)
  BY <1>3, <1>b, <1>e, <1>f DEF Erase, Row
<1>4. CASE Find(a)
  <2>1. CASE Over(a)
    BY <1>4, <1>d, <1>f, <2>1 DEF Find, TypeOK
  <2>2. CASE \E to \in {"add", "remove"} :
               req' = [req EXCEPT ![a] = [@ EXCEPT !.read = row[j], !.at = to]]
    <3>1. PICK to \in {"add", "remove"} :
               req' = [req EXCEPT ![a] = [@ EXCEPT !.read = row[j], !.at = to]]
      BY <2>2
    <3>2. [req[a] EXCEPT !.read = row[j], !.at = to] \in Request
      BY <1>b DEF Request
    <3> QED
      BY <1>4, <1>a, <1>b, <1>c, <1>d, <3>1, <3>2 DEF Find, TypeOK, Request
  <2> QED
    BY <1>4, <1>b, <2>1, <2>2 DEF Find, TypeOK, Request
<1>5. CASE AddFails(a)
  BY <1>5, <1>d, <1>f DEF AddFails, TypeOK
<1>6. CASE Mark(a)
  <2>1. Own(j, req[a].newId)
    BY <1>6, <1>a DEF Mark, At, OwnRead
  <2>2. Running(a, row[j].def) \in Row
    BY <1>b DEF Running, Row, Request
  <2> QED
    BY <1>6, <1>e, <1>f, <2>1, <2>2 DEF Mark, Running
<1>7. CASE Halt(a)
  <2>1. /\ row' \in [Jobs -> Row]
        /\ \A k \in Jobs : row'[k].status = "running" => Own(k, row'[k].cronId)
    BY <1>7, <1>b, <1>e DEF Halt, Row
  <2>2. CASE Over(a)
    BY <1>7, <1>f, <2>1, <2>2 DEF Halt
  <2>3. CASE req' = [req EXCEPT ![a] = [@ EXCEPT !.at = "find", !.op = "start"]]
    <3>1. [req[a] EXCEPT !.at = "find", !.op = "start"] \in Request
      BY <1>b DEF Request
    <3> QED
      BY <1>7, <1>b, <1>c, <2>1, <2>3, <3>1 DEF Halt, Request
  <2>4. CASE Goto(a, "erase")
    BY <1>7, <1>g, <2>1, <2>4 DEF Halt
  <2> QED
    BY <1>7, <2>2, <2>3, <2>4 DEF Halt
<1>8. CASE Insert(a)
  <2>1. Own(j, req[a].newId)
    BY <1>8, <1>a DEF Insert, At, OwnRead
  <2>2. Running(a, req[a].read.def) \in Row
    BY <1>b DEF Running, Row, Request
  <2>3. /\ row' \in [Jobs -> Row]
        /\ \A k \in Jobs : row'[k].status = "running" => Own(k, row'[k].cronId)
    BY <1>8, <1>a, <1>d, <2>1, <2>2 DEF Insert, TypeOK, Running
  <2> QED
    BY <1>8, <1>f, <2>3 DEF Insert
<1>9. ASSUME NEW new \in Request, req' = [req EXCEPT ![a] = new],
             UNCHANGED <<row, boot>>, TypeOK', OwnEntry',
             \/ \E d \in Defs \cup {None} : NewEntry(j, d)
             \/ RemoveEntry(req[a].read.cronId) /\ UNCHANGED given,
             new.job = j, new.at # "remove",
             new.at \in {"mark", "insert"} => Own(j, new.newId)'
      PROVE  JobsInv'
  <2>1. \A k \in Jobs, e \in 0..MaxEntries : Own(k, e) => Own(k, e)'
    BY <1>a, <1>b, <1>9, OwnKept DEF Request, Row
  <2>2. OwnRead'
    BY <1>a, <1>b, <1>9, <2>1 DEF TypeOK, OwnRead, Idle, Request, Row, boot
  <2> QED
    BY <1>9, <2>2
<1>10. CASE Add(a)
  <2>1. PICK d \in Defs \cup {None} : d = req[a].read.def
    BY <1>b DEF Request, Row
  <2>2. NewEntry(j, d) /\ UNCHANGED <<row, boot>>
    BY <1>10, <2>1 DEF Add
  <2>3. PICK to \in {"mark", "insert"} :
          req' = [req EXCEPT ![a] = [@ EXCEPT !.newId = given + 1, !.at = to]]
    BY <1>10 DEF Add
  <2>4. PICK n \in 0..MaxEntries : n = given + 1 /\ n = given'
    BY <1>a, <2>2, NewOwn
  <2>5. [req[a] EXCEPT !.newId = n, !.at = to] \in Request
    BY <1>b DEF Request
  <2>6. Own(j, n)'
    BY <1>a, <2>2, <2>4, NewOwn DEF Own
  <2>7. TypeOK'
    BY <1>a, <2>2, <2>3, <2>4, <2>5, NewOwn DEF TypeOK, boot
  <2>8. OwnEntry'
    <3>1. ASSUME NEW k \in Jobs, row'[k].status = "running"
          PROVE  Own(k, row[k].cronId)'
      BY <1>a, <1>d, <2>2, <3>1, OwnKept DEF TypeOK, Row
    <3> QED
      BY <1>a, <2>2, <3>1, NewOwn DEF OwnEntry, boot
  <2> QED
    BY <1>9, <1>b, <2>2, <2>3, <2>4, <2>5, <2>6, <2>7, <2>8 DEF Request
<1>11. CASE Remove(a)
  <2>1. PICK id \in 0..MaxEntries : id = req[a].read.cronId
    BY <1>b DEF Request, Row
  <2>2. RemoveEntry(id) /\ UNCHANGED given /\ UNCHANGED <<row, boot>>
    BY <1>11, <2>1 DEF Remove
  <2>3. req' = [req EXCEPT ![a] = [@ EXCEPT !.at = "halt"]]
    BY <1>11 DEF Remove, Goto
  <2>4. [req[a] EXCEPT !.at = "halt"] \in Request
    BY <1>b DEF Request
  <2>5. TypeOK'
    BY <2>2, <2>3, <2>4 DEF TypeOK, boot, RemoveEntry
  <2>6. OwnEntry'
    <3>1. ASSUME NEW k \in Jobs, row'[k].status = "running"
          PROVE  Own(k, row[k].cronId)'
      BY <1>a, <1>d, <2>2, <3>1, OwnKept DEF TypeOK, Row
    <3> QED
      BY <1>a, <2>2, <3>1 DEF OwnEntry, boot, RemoveEntry
  <2> QED
    BY <1>9, <1>b, <2>1, <2>2, <2>3, <2>4, <2>5, <2>6 DEF Request
<1> QED
  BY <1>1, <1>2, <1>3, <1>4, <1>5, <1>6, <1>7, <1>8, <1>10, <1>11 DEF Call

\* So do crashes and the steps of a start.
LEMMA ServerInv == ASSUME JobsInv, Server PROVE JobsInv'
<1> USE JobsAssumption DEF JobsInv
<1>1. ASSUME Stop, crashes' \in 0..MaxCrashes PROVE JobsInv'
  <2>1. NoRequest \in Request
    BY DEF NoRequest, Request, NoRow, NewRow, Row
  <2>2. TypeOK'
    BY <1>1, <2>1 DEF Stop, TypeOK
  <2>3. OwnEntry' /\ OwnRead'
    BY <1>1 DEF Stop, OwnEntry, OwnRead, NoRequest, Idle
  <2> QED
    BY <2>2, <2>3
<1>2. CASE Crash
  BY <1>1, <1>2 DEF Crash, TypeOK
<1>3. CASE BootFails
  BY <1>1, <1>3 DEF BootFails, TypeOK
<1>4. CASE Boot
  <2>1. CASE \E j \in Jobs : Exists(j)
    BY <1>4, <2>1 DEF Boot, TypeOK, OwnEntry, OwnRead, Own, Idle, NoRequest, sched
  <2>2. CASE ~\E j \in Jobs : Exists(j)
    <3>1. PICK j \in Jobs, d \in Defs :
             /\ row[j].status = "absent"
             /\ row' = [row EXCEPT ![j] = NewRow("running", d)]
      BY <1>4, <2>2 DEF Boot
    <3>2. NewRow("running", d) \in Row
      BY DEF NewRow, Row
    <3>3. TypeOK'
      BY <1>4, <2>2, <3>1, <3>2 DEF Boot, TypeOK, sched
    <3> QED
      BY <1>4, <2>2, <3>1, <3>3
      DEF Boot, TypeOK, OwnEntry, OwnRead, Own, Exists, Idle, NoRequest, NewRow, sched
  <2> QED
    BY <2>1, <2>2
<1>5. ASSUME NEW j \in Jobs, BootJob(j) PROVE JobsInv'
  <2>1. PICK d \in Defs \cup {None} : d = row[j].def
    BY DEF TypeOK, Row
  <2>2. /\ NewEntry(j, d) /\ phase = "boot" /\ j \in toStart
        /\ row' = [row EXCEPT ![j].cronId = given + 1]
        /\ toStart' = toStart \ {j} /\ UNCHANGED <<phase, crashes, req>>
    BY <1>5, <2>1 DEF BootJob, BootMark
  <2>3. PICK n \in 0..MaxEntries : n = given + 1 /\ n = given' /\ Own(j, n)'
    BY <2>2, NewOwn DEF Own
  <2>4. TypeOK'
    <3>1. [row[j] EXCEPT !.cronId = n] \in Row
      BY DEF TypeOK, Row
    <3>2. row' \in [Jobs -> Row]
      BY <2>2, <2>3, <3>1 DEF TypeOK
    <3> QED
      BY <2>2, <2>3, <3>2, NewOwn DEF TypeOK
  <2>5. OwnEntry'
    <3>1. ASSUME NEW k \in Jobs \ toStart, row[k].status = "running"
          PROVE  Own(k, row[k].cronId)' /\ k # j
      <4>1. row'[k] = row[k] /\ row[k].cronId \in 0..MaxEntries
        BY <2>2, <3>1 DEF TypeOK, Row
      <4>2. PICK e \in 0..MaxEntries : e = row[k].cronId
        BY <4>1
      <4>3. Own(k, e)'
        BY <2>2, <3>1, <4>2, OwnKept DEF OwnEntry
      <4> QED
        BY <2>2, <4>1, <4>2, <4>3 DEF Own
    <3>2. row'[j].cronId = n
      BY <2>2, <2>3 DEF TypeOK, Row
    <3>3. Own(j, row[j].cronId)'
      BY <2>3, <3>2 DEF Own
    <3>4. \A k \in Jobs : k # j => row'[k] = row[k]
      BY <2>2 DEF TypeOK
    <3> QED
      BY <2>2, <3>1, <3>3, <3>4, NewOwn DEF OwnEntry
  <2>6. OwnRead'
    BY <2>2 DEF OwnRead, NoRequest, Idle
  <2> QED
    BY <2>4, <2>5, <2>6
<1>6. CASE BootDone
  <2>1. TypeOK' /\ OwnRead'
    BY <1>6 DEF BootDone, TypeOK, OwnRead, Own, Idle, NoRequest, sched
  <2>2. OwnEntry'
    BY <1>6 DEF BootDone, OwnEntry, Own, sched
  <2> QED
    BY <2>1, <2>2
<1> QED
  BY <1>2, <1>3, <1>4, <1>5, <1>6 DEF Server

\* The invariant is inductive.
LEMMA NextInv == JobsInv /\ [Next]_vars => JobsInv'
<1>1. ASSUME JobsInv, UNCHANGED vars PROVE JobsInv'
  BY <1>1 DEF JobsInv, TypeOK, OwnEntry, OwnRead, Own, Idle, vars, sched, boot
<1> QED
  BY <1>1, AskInv, CallInv, ServerInv DEF Next

\* Every row that is running names an entry of its own or none, in whatever
\* order requests, crashes and restarts come.
THEOREM RunningOwnsEntry == Spec => []JobsInv
BY InitInv, NextInv, PTL DEF Spec

\* No request that read a running row takes another job off the scheduler, for
\* any number of jobs and requests, careful or not.
THEOREM StopsOwnOnly == Spec => RemovesOwn
<1> DEFINE A == \A a \in Admins, e \in Entries :
                  /\ Remove(a) /\ req[a].read.status = "running"
                  /\ entries[e] # None /\ entries'[e] = None
                  => entries[e].job = req[a].job
<1>1. JobsInv => A
  <2> SUFFICES ASSUME JobsInv, NEW a \in Admins, NEW e \in Entries, Remove(a),
                      req[a].read.status = "running",
                      entries[e] # None, entries'[e] = None
               PROVE  entries[e].job = req[a].job
    OBVIOUS
  <2>1. e = req[a].read.cronId
    BY DEF Remove, RemoveEntry
  <2>2. Own(req[a].job, e)
    BY <2>1 DEF JobsInv, OwnRead, Remove, At
  <2> QED
    BY <2>2, JobsAssumption DEF Own, Entries
<1>2. JobsInv /\ [Next]_vars => [A]_vars
  BY <1>1
<1> QED
  BY <1>2, RunningOwnsEntry, PTL DEF Spec, RemovesOwn

-----------------------------------------------------------------------------
(* Careful jobs run as their rows say, when no switch is clicked on a page  *)
(* that is out of date and no backup rolls back.                           *)

InDate == Stale = FALSE /\ RestoreFails = FALSE

\* a request that will remove an entry removes one of this life
OwnStop ==
    \A a \in Admins :
        /\ Idle(a) => req[a] = NoRequest
        /\ \/ req[a].at = "find" /\ req[a].op # "start"
           \/ req[a].at = "save" /\ req[a].op = "update"
           => Own(req[a].job, row[req[a].job].cronId)
        /\ req[a].at = "remove" => Own(req[a].job, req[a].read.cronId)

\* the scheduler has the entry the row names, and no other, for the job
Named(j) == EntriesOf(j) = IF row[j].cronId = 0 THEN {} ELSE {row[j].cronId}

\* it has nothing for the job
Off(j) == EntriesOf(j) = {}

\* what Scheduled says of a job at rest
Synced(j) ==
    IF row[j].status = "running" /\ row[j].cronId # 0
    THEN EntriesOf(j) = {row[j].cronId} /\ entries[row[j].cronId].def = row[j].def
    ELSE Off(j)

\* what holds of the job of a request between two of its calls
Between(a, j) ==
    LET call == req[a].at
        op   == req[a].op
        new  == req[a].newId
    IN  /\ call = "look" => Synced(j)
        /\ call = "save" =>
              \/ op = "update" /\ row[j].status = "running" /\ Named(j)
              \/ op = "edit" /\ row[j].status = "stopped" /\ Off(j)
        /\ call = "erase" => row[j].status # "running" /\ Off(j)
        /\ call = "find" =>
              \/ op = "start" /\ row[j].status = "stopped" /\ Off(j)
              \/ /\ op \in {"stop", "update", "delete"}
                 /\ row[j].status = "running" /\ Named(j)
        /\ call = "add" =>
              /\ Off(j)
              /\ \/ /\ op = "start" /\ row[j].status = "stopped"
                    /\ req[a].read.def = row[j].def
                 \/ op = "restore" /\ row[j].status = "absent"
        /\ call = "mark" =>
              /\ row[j].status = "stopped"
              /\ new # 0 /\ EntriesOf(j) = {new} /\ entries[new].def = row[j].def
        /\ call = "insert" =>
              new # 0 /\ EntriesOf(j) = {new} /\ entries[new].def = req[a].read.def
        /\ call = "remove" =>
              /\ op \in {"stop", "update", "delete"}
              /\ row[j].status = "running" /\ Named(j)
              /\ req[a].read.cronId = row[j].cronId
        /\ call = "halt" =>
              /\ op \in {"stop", "update", "delete"}
              /\ row[j].status = "running" /\ Off(j)

\* a careful job has one request at most, and is at rest without one
InStep(j) ==
    /\ \A a, b \in Admins : req[a].job = j /\ req[b].job = j => a = b
    /\ phase # "down" /\ (\A a \in Admins : req[a].job # j) =>
          IF j \in toStart THEN row[j].status = "running" /\ Off(j) ELSE Synced(j)
    /\ \A a \in Admins : req[a].job = j => Between(a, j)

SchedInv == JobsInv /\ OwnStop /\ \A j \in Careful : InStep(j)

\* What a request, a row and the empty request are.
LEMMA Shapes ==
    /\ NoRequest.at = "idle" /\ NoRequest.job = None
    /\ \A j \in Careful : j \in Jobs /\ j # None
BY JobsAssumption DEF NoRequest

\* An entry that is made for another job, or removed from another job, is none
\* of this one's.
LEMMA ElsesEntries ==
    ASSUME JobsInv, NEW j \in Jobs, NEW k \in Jobs, j # k,
           \/ \E d \in Defs \cup {None} : NewEntry(k, d)
           \/ \E id \in 0..MaxEntries : RemoveEntry(id) /\ Own(k, id)
    PROVE  /\ EntriesOf(j)' = EntriesOf(j)
           /\ \A e \in EntriesOf(j) : entries'[e] = entries[e]
<1> USE JobsAssumption DEF JobsInv, TypeOK, EntriesOf, Entries
<1>1. ASSUME NEW d \in Defs \cup {None}, NewEntry(k, d)
      PROVE  \A e \in Entries :
               IF e \in EntriesOf(j) THEN entries'[e] = entries[e]
               ELSE ~(entries'[e] # None /\ entries'[e].job = j)
  <2>1. given + 1 \in Entries /\ entries[given + 1] = None
    BY <1>1 DEF NewEntry, OwnEntry
  <2> QED
    BY <1>1, <2>1 DEF NewEntry
<1>2. ASSUME NEW id \in 0..MaxEntries, RemoveEntry(id), Own(k, id)
      PROVE  \A e \in Entries :
               IF e \in EntriesOf(j) THEN entries'[e] = entries[e]
               ELSE ~(entries'[e] # None /\ entries'[e].job = j)
  BY <1>2 DEF RemoveEntry, Own
<1>3. \A e \in Entries :
         IF e \in EntriesOf(j) THEN entries'[e] = entries[e]
         ELSE ~(entries'[e] # None /\ entries'[e].job = j)
  BY <1>1, <1>2
<1> QED
  BY <1>3

\* A job gets one entry more, with the definition that was added.
LEMMA OneMore ==
    ASSUME JobsInv, NEW j \in Jobs, NEW d \in Defs \cup {None}, NewEntry(j, d),
           Off(j)
    PROVE  /\ given + 1 # 0
           /\ EntriesOf(j)' = {given + 1}
           /\ entries'[given + 1].def = d
<1> USE JobsAssumption DEF JobsInv, TypeOK, Entries
<1>1. given + 1 \in Entries /\ entries' = [entries EXCEPT ![given + 1] = [job |-> j, def |-> d]]
  BY DEF NewEntry
<1>2. entries'[given + 1] = [job |-> j, def |-> d]
  BY <1>1
<1>3. [job |-> j, def |-> d] # None
  OBVIOUS
<1>4. \A e \in Entries : e # given + 1 => entries'[e] = entries[e]
  BY <1>1
<1> QED
  BY <1>1, <1>2, <1>3, <1>4 DEF Off, EntriesOf

\* A job loses the entry that its row names.
LEMMA OneLess ==
    ASSUME JobsInv, NEW j \in Jobs, Named(j), RemoveEntry(row[j].cronId)
    PROVE  Off(j)'
<1> USE JobsAssumption DEF JobsInv, TypeOK, Entries
<1>1. \A e \in Entries : e # row[j].cronId => e \notin EntriesOf(j)
  BY DEF Named
<1>2. \A e \in Entries : entries'[e] # None => entries'[e] = entries[e] /\ e # row[j].cronId
  BY DEF RemoveEntry
<1> QED
  BY <1>1, <1>2 DEF Off, EntriesOf

\* A step that leaves a job, its entries and its requests alone.
LEMMA Still ==
    ASSUME NEW j \in Careful, InStep(j),
           row'[j] = row[j],
           EntriesOf(j)' = EntriesOf(j),
           \A e \in EntriesOf(j) : entries'[e] = entries[e],
           phase' = phase, j \in toStart <=> j \in toStart',
           \A a \in Admins : req[a].job = j \/ req'[a].job = j => req'[a] = req[a]
    PROVE  InStep(j)'
<1>1. Synced(j)' <=> Synced(j)
  BY DEF Synced, Off
<1>2. (Named(j)' <=> Named(j)) /\ (Off(j)' <=> Off(j))
  BY DEF Named, Off
<1>3. ASSUME NEW a \in Admins, req'[a].job = j PROVE Between(a, j)'
  <2>1. req'[a] = req[a] /\ Between(a, j)
    BY <1>3 DEF InStep
  <2> QED
    BY <1>1, <1>2, <2>1 DEF Between
<1>4. (\A a \in Admins : req'[a].job # j) <=> (\A a \in Admins : req[a].job # j)
  OBVIOUS
<1>5. \A a, b \in Admins : req'[a].job = j /\ req'[b].job = j => a = b
  BY DEF InStep
<1>6. phase' # "down" /\ (\A a \in Admins : req'[a].job # j) =>
         IF j \in toStart' THEN row'[j].status = "running" /\ Off(j)' ELSE Synced(j)'
  BY <1>1, <1>2, <1>4 DEF InStep
<1> QED
  BY <1>3, <1>5, <1>6 DEF InStep

\* A step of the one request that is at work on a job.
LEMMA Onward ==
    ASSUME NEW j \in Careful, NEW a \in Admins,
           \A b \in Admins : b # a => req[b].job # j /\ req'[b] = req[b],
           j \notin toStart',
           \/ req'[a].job = j /\ Between(a, j)'
           \/ req'[a].job # j /\ Synced(j)'
    PROVE  InStep(j)'
<1>1. \A b \in Admins : req'[b].job = j => b = a
  OBVIOUS
<1>2. ASSUME NEW b \in Admins, req'[b].job = j PROVE Between(b, j)'
  BY <1>1, <1>2
<1>3. phase' # "down" /\ (\A b \in Admins : req'[b].job # j) => Synced(j)'
  OBVIOUS
<1> QED
  BY <1>1, <1>2, <1>3 DEF InStep

\* Requests go on to remove entries of this life when rows keep theirs.
LEMMA StopKept ==
    ASSUME JobsInv, OwnStop, NEW a \in Admins,
           \A b \in Admins : b # a => req'[b] = req[b],
           \A k \in Jobs, e \in 0..MaxEntries : Own(k, e) => Own(k, e)',
           \A k \in Jobs : row'[k] \in Row /\
              (Own(k, row[k].cronId) => Own(k, row[k].cronId)'),
           Idle(a)' => req'[a] = NoRequest,
           \/ req'[a].at = "find" /\ req'[a].op # "start"
           \/ req'[a].at = "save" /\ req'[a].op = "update"
           => Own(req[a].job, row[req[a].job].cronId)',
           req'[a].at = "remove" => Own(req[a].job, req[a].read.cronId)'
    PROVE  OwnStop'
<1> SUFFICES ASSUME NEW b \in Admins, b # a
             PROVE  /\ (Idle(b) => req[b] = NoRequest)'
                    /\ (\/ req[b].at = "find" /\ req[b].op # "start"
                        \/ req[b].at = "save" /\ req[b].op = "update"
                        => Own(req[b].job, row[req[b].job].cronId))'
                    /\ (req[b].at = "remove" => Own(req[b].job, req[b].read.cronId))'
  BY DEF OwnStop
<1>1. req'[b] = req[b] /\ req[b] \in Request
  BY DEF JobsInv, TypeOK
<1>2. ~Idle(b) => req[b].job \in Jobs
  BY DEF JobsInv, OwnRead
<1>3. req[b].read.cronId \in 0..MaxEntries
  BY <1>1 DEF Request, Row
<1> QED
  BY <1>1, <1>2, <1>3 DEF OwnStop, Idle

\* Every start finds the scheduler empty.
LEMMA SchedInit == Init => SchedInv
<1> SUFFICES ASSUME Init PROVE SchedInv
  OBVIOUS
<1>1. OwnStop
  BY Shapes DEF Init, OwnStop, Idle
<1>2. \A j \in Careful : InStep(j)
  BY Shapes DEF Init, InStep
<1> QED
  BY <1>1, <1>2, InitInv DEF SchedInv

\* A request that arrives finds a careful job at rest.
LEMMA SchedAsk ==
    ASSUME InDate, SchedInv, JobsInv', NEW a \in Admins, NEW j \in Jobs, Asks(a, j)
    PROVE  SchedInv'
<1> USE DEF SchedInv
<1>0. phase = "up" /\ toStart = {} /\ Idle(a) /\ req[a] = NoRequest /\ Free(j)
  BY DEF Asks, AskStart, AskStop, AskUpdate, AskDelete, Create, Restore, Ask, Free,
         OwnStop, JobsInv, OwnEntry
<1>1. ASSUME NEW what \in {"start", "stop", "update", "delete", "restore"},
             NEW call \in {"find", "look", "add"}, NEW d \in Defs \cup {None},
             Ask(a, j, what, call, d),
             call = "find" /\ what # "start" => Own(j, row[j].cronId),
             j \in Careful /\ Synced(j) => Between(a, j)'
      PROVE  SchedInv'
  <2>1. /\ req' = [req EXCEPT ![a] = [at |-> call, op |-> what, job |-> j,
                     read |-> [NoRow EXCEPT !.def = d], newId |-> 0]]
        /\ UNCHANGED <<row, entries, given, phase, toStart>>
    BY <1>1 DEF Ask, sched, boot
  <2>2. /\ req'[a].at = call /\ req'[a].op = what /\ req'[a].job = j
        /\ \A b \in Admins : b # a => req'[b] = req[b]
    BY <2>1 DEF JobsInv, TypeOK
  <2>3. OwnStop'
    BY <1>0, <1>1, <2>1, <2>2 DEF OwnStop, Own, Idle
  <2>4. ASSUME NEW k \in Careful, k # j PROVE InStep(k)'
    <3>1. \A b \in Admins : req[b].job = k \/ req'[b].job = k => req'[b] = req[b]
      BY <1>0, <2>2, <2>4, Shapes
    <3>2. EntriesOf(k)' = EntriesOf(k)
      BY <2>1 DEF EntriesOf
    <3> QED
      BY <2>1, <3>1, <3>2, Still
  <2>5. ASSUME j \in Careful PROVE InStep(j)'
    <3>1. \A b \in Admins : req[b].job # j
      BY <1>0, <2>5 DEF Free
    <3>2. Synced(j)
      BY <1>0, <2>5, <3>1 DEF InStep
    <3> QED
      BY <1>0, <1>1, <2>1, <2>2, <2>5, <3>1, <3>2, Onward
  <2> QED
    BY <2>3, <2>4, <2>5
<1>2. ASSUME NEW what \in {"start", "stop", "update", "delete", "restore"},
             NEW call \in {"find", "look", "add"}, NEW d \in Defs \cup {None},
             Ask(a, j, what, call, d)
      PROVE  /\ req'[a].at = call /\ req'[a].op = what
             /\ row' = row
             /\ EntriesOf(j)' = EntriesOf(j) /\ entries' = entries
  BY <1>2 DEF Ask, EntriesOf, JobsInv, TypeOK, sched
<1>3. CASE AskStart(a, j)
  <2>1. Ask(a, j, "start", "find", None) /\ row[j].status = "stopped"
    BY <1>3 DEF AskStart, InDate
  <2>2. Synced(j) => Between(a, j)'
    BY <1>2, <2>1 DEF Synced, Between, Off
  <2> QED
    BY <1>1, <2>1, <2>2
<1>4. CASE AskStop(a, j)
  <2>1. Ask(a, j, "stop", "find", None) /\ row[j].status = "running"
    BY <1>4 DEF AskStop, InDate
  <2>2. Synced(j) => Between(a, j)'
    BY <1>2, <2>1 DEF Synced, Between, Off, Named
  <2>3. Own(j, row[j].cronId)
    BY <1>0, <2>1 DEF JobsInv, OwnEntry
  <2> QED
    BY <1>1, <2>1, <2>2, <2>3
<1>5. ASSUME NEW what \in {"update", "delete"}, Ask(a, j, what, "look", None)
      PROVE  SchedInv'
  <2>1. Synced(j) => Between(a, j)'
    BY <1>2, <1>5 DEF Synced, Between, Off
  <2> QED
    BY <1>1, <1>5, <2>1
<1>6. CASE Restore(a, j)
  <2>1. PICK d \in Defs : Ask(a, j, "restore", "add", d)
    BY <1>6 DEF Restore
  <2>2. Synced(j) => Between(a, j)'
    BY <1>2, <1>6, <2>1 DEF Restore, Synced, Between, Off
  <2> QED
    BY <1>1, <2>1, <2>2
<1>7. CASE Create(a, j)
  <2>1. PICK d \in Defs, id \in 0..MaxEntries :
          row' = [row EXCEPT ![j] = [status |-> "stopped", cronId |-> id, def |-> d]]
    BY <1>7 DEF Create
  <2>2. UNCHANGED <<entries, given, phase, toStart, req>>
    BY <1>7 DEF Create, sched, boot
  <2>3. \A k \in Jobs : EntriesOf(k)' = EntriesOf(k)
    BY <2>2 DEF EntriesOf
  <2>4. OwnStop'
    <3>1. \A b \in Admins : ~Idle(b) => req[b].job \in Jobs
      BY DEF JobsInv, OwnRead
    <3>2. \A k \in Jobs \ {j} : row'[k] = row[k]
      BY <2>1 DEF JobsInv, TypeOK
    <3>3. \A b \in Admins : req[b].job # j
      BY <1>7 DEF Create
    <3> QED
      BY <2>2, <3>1, <3>2, <3>3 DEF OwnStop, Own, Idle
  <2>5. ASSUME NEW k \in Careful, k # j PROVE InStep(k)'
    <3>1. row'[k] = row[k]
      BY <2>1, <2>5, Shapes DEF JobsInv, TypeOK
    <3> QED
      BY <2>2, <2>3, <3>1, Still, Shapes
  <2>6. ASSUME j \in Careful PROVE InStep(j)'
    <3>1. \A b \in Admins : req[b].job # j
      BY <1>0, <2>6 DEF Free
    <3>2. Synced(j)
      BY <1>0, <2>6, <3>1 DEF InStep
    <3>3. Off(j)
      BY <1>7, <3>2 DEF Create, Synced
    <3>4. row'[j].status = "stopped"
      BY <2>1 DEF NewRow, JobsInv, TypeOK
    <3>5. Synced(j)'
      BY <2>3, <3>3, <3>4 DEF Synced, Off
    <3> QED
      BY <1>0, <2>2, <3>1, <3>5 DEF InStep
  <2> QED
    BY <2>4, <2>5, <2>6
<1> QED
  BY <1>3, <1>4, <1>5, <1>6, <1>7 DEF Asks, AskUpdate, AskDelete

\* Each call takes the job of its request one step on.
LEMMA SchedCall ==
    ASSUME InDate, SchedInv, JobsInv', NEW a \in Admins, Call(a)
    PROVE  SchedInv'
<1> USE DEF SchedInv
<1>a. phase = "up" /\ toStart = {} /\ req[a].job \in Jobs
  BY DEF Call, Look, Save, Erase, Find, AddFails, Add, Mark, Insert, Remove, Halt,
         At, JobsInv, OwnEntry, OwnRead, Idle
<1>j. PICK j \in Jobs : j = req[a].job
  BY <1>a
<1> USE <1>j
<1>b. /\ row \in [Jobs -> Row] /\ row[j] \in Row /\ row' \in [Jobs -> Row]
      /\ req \in [Admins -> Request] /\ req[a] \in Request /\ req[a].read \in Row
      /\ TypeOK /\ OwnEntry
  BY DEF JobsInv, TypeOK, Request
<1>c. j \in Careful => Between(a, j) /\ \A b \in Admins : b # a => req[b].job # j
  BY DEF InStep
\* what is common to every call
<1>d. ASSUME NEW new, req' = [req EXCEPT ![a] = new], UNCHANGED boot,
             new = NoRequest \/ (new.job = j /\ new.at # "idle"),
             \A k \in Jobs : k # j => row'[k] = row[k],
             Own(j, row[j].cronId) => Own(j, row[j].cronId)',
             \/ UNCHANGED sched
             \/ \E d \in Defs \cup {None} : NewEntry(j, d)
             \/ /\ RemoveEntry(req[a].read.cronId) /\ UNCHANGED given
                /\ req[a].at = "remove",
             \/ new.at = "find" /\ new.op # "start"
             \/ new.at = "save" /\ new.op = "update"
             => Own(j, row[j].cronId)',
             new.at = "remove" => Own(j, new.read.cronId)',
             j \in Careful => IF new = NoRequest THEN Synced(j)' ELSE Between(a, j)'
      PROVE  SchedInv'
  <2>1. /\ req'[a] = new /\ phase' = phase /\ toStart' = toStart
        /\ \A b \in Admins : b # a => req'[b] = req[b]
    BY <1>b, <1>d DEF boot
  <2>2. ASSUME NEW k \in Jobs, NEW e \in 0..MaxEntries, Own(k, e)
        PROVE  Own(k, e)'
    <3>1. req[a].read.cronId \in 0..MaxEntries
      BY <1>b DEF Row
    <3> QED
      BY <1>b, <1>d, <2>2, <3>1, OwnKept
  <2>3. OwnStop'
    <3>1. ASSUME NEW k \in Jobs, Own(k, row[k].cronId)
          PROVE  Own(k, row[k].cronId)'
      <4>1. CASE k = j
        BY <1>d, <3>1, <4>1
      <4>2. CASE k # j
        <5>1. row'[k] = row[k] /\ row[k].cronId \in 0..MaxEntries
          BY <1>b, <1>d, <4>2 DEF Row
        <5> QED
          BY <2>2, <3>1, <5>1 DEF Own
      <4> QED
        BY <4>1, <4>2
    <3>2. \A k \in Jobs : row'[k] \in Row
      BY <1>b
    <3>3. /\ Idle(a)' => req'[a] = NoRequest
          /\ \/ req'[a].at = "find" /\ req'[a].op # "start"
             \/ req'[a].at = "save" /\ req'[a].op = "update"
             => Own(req[a].job, row[req[a].job].cronId)'
          /\ req'[a].at = "remove" => Own(req[a].job, req[a].read.cronId)'
      BY <1>d, <2>1, Shapes DEF Idle, Own
    <3> QED
      BY <2>1, <2>2, <3>1, <3>2, <3>3, StopKept
  <2>4. ASSUME NEW k \in Careful, k # j PROVE InStep(k)'
    <3>1. /\ EntriesOf(k)' = EntriesOf(k)
          /\ \A e \in EntriesOf(k) : entries'[e] = entries[e]
      <4>1. CASE UNCHANGED sched
        BY <4>1 DEF sched, EntriesOf
      <4>2. CASE \E d \in Defs \cup {None} : NewEntry(j, d)
        BY <2>4, <4>2, ElsesEntries, Shapes
      <4>3. CASE RemoveEntry(req[a].read.cronId) /\ req[a].at = "remove"
        <5>1. PICK id \in 0..MaxEntries : id = req[a].read.cronId
          BY <1>b DEF Row
        <5>2. RemoveEntry(id) /\ Own(j, id)
          BY <4>3, <5>1 DEF OwnStop
        <5> QED
          BY <2>4, <5>2, ElsesEntries, Shapes
      <4> QED
        BY <1>d, <4>1, <4>2, <4>3
    <3>2. \A b \in Admins : req[b].job = k \/ req'[b].job = k => req'[b] = req[b]
      BY <1>d, <2>1, <2>4, Shapes
    <3>3. row'[k] = row[k]
      BY <1>d, <2>4, Shapes
    <3> QED
      BY <2>1, <3>1, <3>2, <3>3, Still
  <2>5. ASSUME j \in Careful PROVE InStep(j)'
    <3>1. \/ req'[a].job = j /\ Between(a, j)'
          \/ req'[a].job # j /\ Synced(j)'
      BY <1>d, <2>1, <2>5, Shapes
    <3> QED
      BY <1>a, <1>c, <2>1, <2>5, <3>1, Onward
  <2> QED
    BY <2>3, <2>4, <2>5
\* what is common to the calls that leave the scheduler alone
<1>e. ASSUME NEW new, req' = [req EXCEPT ![a] = new], UNCHANGED <<sched, boot>>,
             new = NoRequest \/ (new.job = j /\ new.at # "idle"),
             \A k \in Jobs : k # j => row'[k] = row[k],
             row'[j].cronId = row[j].cronId \/ Own(j, row'[j].cronId),
             \/ new.at = "find" /\ new.op # "start"
             \/ new.at = "save" /\ new.op = "update"
             => Own(j, row[j].cronId)',
             new.at = "remove" => Own(j, new.read.cronId),
             j \in Careful => IF new = NoRequest THEN Synced(j)' ELSE Between(a, j)'
      PROVE  SchedInv'
  <2>1. given' = given /\ entries' = entries
    BY <1>e DEF sched
  <2>2. Own(j, row[j].cronId) => Own(j, row[j].cronId)'
    BY <1>e, <2>1 DEF Own
  <2>3. new.at = "remove" => Own(j, new.read.cronId)'
    BY <1>e, <2>1 DEF Own
  <2> QED
    BY <1>d, <1>e, <2>2, <2>3
<1>f. ASSUME UNCHANGED sched
      PROVE  EntriesOf(j)' = EntriesOf(j) /\ entries' = entries /\ given' = given
  BY <1>f DEF sched, EntriesOf
<1>g. ASSUME NEW new \in Row, Write(j, new)
      PROVE  /\ \A k \in Jobs : k # j => row'[k] = row[k]
             /\ row'[j] = IF Exists(j) THEN new ELSE row[j]
  BY <1>b, <1>g DEF Write
<1>1. CASE Look(a)
  <2>1. CASE ~Exists(j)
    <3>1. /\ UNCHANGED <<row, sched, boot>> /\ req[a].at = "look"
          /\ req' = [req EXCEPT ![a] = NoRequest]
      BY <1>1, <2>1 DEF Look, At, Over
    <3>2. j \in Careful => Synced(j)'
      BY <1>c, <1>f, <3>1 DEF Between, Synced, Off
    <3> QED
      BY <1>e, <3>1, <3>2, Shapes
  <2>2. CASE Exists(j) /\ req[a].op = "update"
    <3>1. PICK op \in {"update", "edit"} :
            /\ op = IF row[j].status = "running" THEN "update" ELSE "edit"
            /\ req' = [req EXCEPT ![a] = [@ EXCEPT !.at = "save", !.op = op]]
      BY <1>1, <2>2 DEF Look
    <3>2. UNCHANGED <<row, sched, boot>> /\ req[a].at = "look"
      BY <1>1 DEF Look, At
    <3>3. PICK new : new = [req[a] EXCEPT !.at = "save", !.op = op]
      OBVIOUS
    <3>4. new.at = "save" /\ new.op = op /\ new.job = j
      BY <1>b, <3>3 DEF Request
    <3>5. req' = [req EXCEPT ![a] = new]
      BY <3>1, <3>3
    <3>6. op = "update" => Own(j, row[j].cronId)'
      BY <1>a, <1>b, <1>f, <3>1, <3>2 DEF OwnEntry, Own
    <3>7. j \in Careful => Between(a, j)'
      BY <1>b, <1>c, <1>f, <2>2, <3>1, <3>2, <3>4, <3>5
         DEF Between, Synced, Off, Named, Exists
    <3> QED
      BY <1>b, <1>e, <3>2, <3>4, <3>5, <3>6, <3>7, Shapes
  <2>3. CASE Exists(j) /\ req[a].op = "delete"
    <3>1. PICK to \in {"find", "erase"} :
            /\ to = IF row[j].status = "running" THEN "find" ELSE "erase"
            /\ Goto(a, to)
      BY <1>1, <2>3 DEF Look
    <3>2. UNCHANGED <<row, sched, boot>> /\ req[a].at = "look"
      BY <1>1, <2>3 DEF Look, At
    <3>3. PICK new : new = [req[a] EXCEPT !.at = to]
      OBVIOUS
    <3>4. new.at = to /\ new.op = "delete" /\ new.job = j
      BY <1>b, <2>3, <3>3 DEF Request
    <3>5. req' = [req EXCEPT ![a] = new]
      BY <3>1, <3>3 DEF Goto
    <3>6. to = "find" => Own(j, row[j].cronId)'
      BY <1>a, <1>b, <1>f, <3>1, <3>2 DEF OwnEntry, Own
    <3>7. j \in Careful => Between(a, j)'
      BY <1>b, <1>c, <1>f, <2>3, <3>1, <3>2, <3>4, <3>5
         DEF Between, Synced, Off, Named, Exists
    <3> QED
      BY <1>b, <1>e, <3>2, <3>4, <3>5, <3>6, <3>7, Shapes
  <2> QED
    BY <1>1, <2>1, <2>2, <2>3 DEF Look
<1>2. CASE Save(a)
  <2>1. PICK d \in Defs : Write(j, [row[j] EXCEPT !.def = d])
    BY <1>2 DEF Save
  <2>2. [row[j] EXCEPT !.def = d] \in Row
    BY <1>b DEF Row
  <2>3. /\ \A k \in Jobs : k # j => row'[k] = row[k]
        /\ row'[j].status = row[j].status /\ row'[j].cronId = row[j].cronId
    BY <1>b, <1>g, <2>1, <2>2 DEF Row
  <2>4. UNCHANGED <<sched, boot>> /\ req[a].at = "save"
    BY <1>2 DEF Save, At
  <2>5. CASE req[a].op = "update"
    <3>1. PICK new : new = [req[a] EXCEPT !.at = "find"]
      OBVIOUS
    <3>2. new.at = "find" /\ new.op = "update" /\ new.job = j
      BY <1>b, <2>5, <3>1 DEF Request
    <3>3. req' = [req EXCEPT ![a] = new]
      BY <1>2, <2>5, <3>1 DEF Save, Goto
    <3>4. Own(j, row[j].cronId)'
      BY <1>f, <2>3, <2>4, <2>5 DEF OwnStop, Own
    <3>5. j \in Careful => Between(a, j)'
      BY <1>b, <1>c, <1>f, <2>3, <2>4, <2>5, <3>2, <3>3 DEF Between, Named, Off
    <3> QED
      BY <1>b, <1>e, <2>3, <2>4, <3>2, <3>3, <3>4, <3>5, Shapes
  <2>6. CASE req[a].op # "update"
    <3>1. req' = [req EXCEPT ![a] = NoRequest]
      BY <1>2, <2>6 DEF Save, Over
    <3>2. j \in Careful => Synced(j)'
      BY <1>c, <1>f, <2>3, <2>4, <2>6 DEF Between, Synced, Off
    <3> QED
      BY <1>e, <2>3, <2>4, <3>1, <3>2, Shapes
  <2> QED
    BY <2>5, <2>6
<1>3. CASE Erase(a)
  <2>1. [row[j] EXCEPT !.status = "deleted"] \in Row
    BY <1>b DEF Row
  <2>2. /\ \A k \in Jobs : k # j => row'[k] = row[k]
        /\ row'[j].cronId = row[j].cronId
        /\ row[j].status # "running" => row'[j].status # "running"
    BY <1>3, <1>b, <1>g, <2>1 DEF Erase, Row
  <2>3. /\ UNCHANGED <<sched, boot>> /\ req[a].at = "erase"
        /\ req' = [req EXCEPT ![a] = NoRequest]
    BY <1>3 DEF Erase, At, Over
  <2>4. j \in Careful => Synced(j)'
    BY <1>c, <1>f, <2>2, <2>3 DEF Between, Synced, Off
  <2> QED
    BY <1>e, <2>2, <2>3, <2>4, Shapes
<1>4. CASE Find(a)
  <2>1. UNCHANGED <<row, sched, boot>> /\ req[a].at = "find"
    BY <1>4 DEF Find, At
  <2>2. CASE ~Exists(j)
    <3>1. req' = [req EXCEPT ![a] = NoRequest]
      BY <1>4, <2>2 DEF Find, Over
    <3>2. j \in Careful => Synced(j)'
      BY <1>c, <2>1, <2>2 DEF Between, Exists
    <3> QED
      BY <1>e, <2>1, <3>1, <3>2, Shapes
  <2>3. CASE Exists(j)
    <3>1. PICK to \in {"add", "remove"} :
            /\ to = IF req[a].op = "start" THEN "add" ELSE "remove"
            /\ req' = [req EXCEPT ![a] = [@ EXCEPT !.read = row[j], !.at = to]]
      BY <1>4, <2>3 DEF Find
    <3>2. PICK new : new = [req[a] EXCEPT !.read = row[j], !.at = to]
      OBVIOUS
    <3>3. /\ new.at = to /\ new.op = req[a].op /\ new.job = j
          /\ new.read = row[j]
      BY <1>b, <3>2 DEF Request
    <3>4. req' = [req EXCEPT ![a] = new]
      BY <3>1, <3>2
    <3>5. to = "remove" => Own(j, new.read.cronId)
      BY <2>1, <3>1, <3>3 DEF OwnStop
    <3>6. j \in Careful => Between(a, j)'
      BY <1>b, <1>c, <1>f, <2>1, <3>1, <3>3, <3>4 DEF Between, Named, Off
    <3> QED
      BY <1>b, <1>e, <2>1, <3>3, <3>4, <3>5, <3>6, Shapes
  <2> QED
    BY <2>2, <2>3
<1>5. CASE AddFails(a)
  <2>1. /\ UNCHANGED <<row, sched, boot>> /\ req[a].at = "add"
        /\ req' = [req EXCEPT ![a] = NoRequest]
    BY <1>5 DEF AddFails, At, Over
  <2>2. j \in Careful => Synced(j)'
    BY <1>c, <1>f, <2>1 DEF Between, Synced, Off
  <2> QED
    BY <1>e, <2>1, <2>2, Shapes
<1>6. CASE Add(a)
  <2>1. PICK d \in Defs \cup {None} : d = req[a].read.def
    BY <1>b DEF Row
  <2>2. NewEntry(j, d) /\ UNCHANGED <<row, boot>> /\ req[a].at = "add"
    BY <1>6, <2>1 DEF Add, At
  <2>3. PICK to \in {"mark", "insert"} :
          /\ to = IF req[a].op = "restore" THEN "insert" ELSE "mark"
          /\ req' = [req EXCEPT ![a] = [@ EXCEPT !.newId = given + 1, !.at = to]]
    BY <1>6 DEF Add
  <2>4. PICK new : new = [req[a] EXCEPT !.newId = given + 1, !.at = to]
    OBVIOUS
  <2>5. /\ new.at = to /\ new.op = req[a].op /\ new.job = j
        /\ new.read = req[a].read /\ new.newId = given + 1
    BY <1>b, <2>4 DEF Request
  <2>6. req' = [req EXCEPT ![a] = new]
    BY <2>3, <2>4
  <2>7. j \in Careful => Between(a, j)'
    <3>1. ASSUME j \in Careful PROVE Between(a, j)'
      <4>1. Off(j)
        BY <1>c, <2>2, <3>1 DEF Between
      <4>2. /\ given + 1 # 0 /\ EntriesOf(j)' = {given + 1}
            /\ entries'[given + 1].def = d
        BY <2>2, <4>1, OneMore
      <4>3. req'[a] = new
        BY <1>b, <2>6
      <4> QED
        BY <1>c, <2>1, <2>2, <2>3, <2>5, <3>1, <4>2, <4>3 DEF Between
    <3> QED
      BY <3>1
  <2>8. Own(j, row[j].cronId) => Own(j, row[j].cronId)'
    <3>1. PICK e \in 0..MaxEntries : e = row[j].cronId
      BY <1>b DEF Row
    <3>2. Own(j, e) => Own(j, e)'
      BY <1>b, <2>2, OwnKept
    <3> QED
      BY <2>2, <3>1, <3>2 DEF Own
  <2> QED
    BY <1>d, <2>2, <2>5, <2>6, <2>7, <2>8, Shapes
<1>7. CASE Mark(a)
  <2>1. Running(a, row[j].def) \in Row
    BY <1>b DEF Running, Row, Request
  <2>2. /\ \A k \in Jobs : k # j => row'[k] = row[k]
        /\ row'[j] = IF Exists(j) THEN Running(a, row[j].def) ELSE row[j]
    BY <1>7, <1>g, <2>1 DEF Mark
  <2>3. /\ UNCHANGED <<sched, boot>> /\ req[a].at = "mark"
        /\ req' = [req EXCEPT ![a] = NoRequest]
    BY <1>7 DEF Mark, At, Over
  <2>4. Own(j, req[a].newId)
    BY <2>3 DEF JobsInv, OwnRead
  <2>5. j \in Careful => Synced(j)'
    BY <1>c, <1>f, <2>2, <2>3 DEF Between, Synced, Exists, Running
  <2>6. row'[j].cronId = row[j].cronId \/ Own(j, row'[j].cronId)
    BY <2>2, <2>4 DEF Running
  <2> QED
    BY <1>e, <2>2, <2>3, <2>5, <2>6, Shapes
<1>8. CASE Insert(a)
  <2>1. /\ UNCHANGED <<sched, boot>> /\ req[a].at = "insert"
        /\ req' = [req EXCEPT ![a] = NoRequest]
        /\ row' = [row EXCEPT ![j] = Running(a, req[a].read.def)]
    BY <1>8 DEF Insert, At, Over, InDate
  <2>2. /\ \A k \in Jobs : k # j => row'[k] = row[k]
        /\ row'[j] = Running(a, req[a].read.def)
    BY <1>b, <2>1
  <2>3. Own(j, req[a].newId)
    BY <2>1 DEF JobsInv, OwnRead
  <2>4. j \in Careful => Synced(j)'
    BY <1>c, <1>f, <2>1, <2>2 DEF Between, Synced, Running
  <2>5. Own(j, row'[j].cronId)
    BY <2>2, <2>3 DEF Running
  <2> QED
    BY <1>e, <2>1, <2>2, <2>4, <2>5, Shapes
<1>9. CASE Remove(a)
  <2>1. /\ RemoveEntry(req[a].read.cronId) /\ UNCHANGED <<row, given, boot>>
        /\ req[a].at = "remove"
    BY <1>9 DEF Remove, At
  <2>2. PICK new : new = [req[a] EXCEPT !.at = "halt"]
    OBVIOUS
  <2>3. new.at = "halt" /\ new.op = req[a].op /\ new.job = j
    BY <1>b, <2>2 DEF Request
  <2>4. req' = [req EXCEPT ![a] = new]
    BY <1>9, <2>2 DEF Remove, Goto
  <2>5. j \in Careful => Between(a, j)'
    <3>1. ASSUME j \in Careful PROVE Between(a, j)'
      <4>1. Off(j)'
        BY <1>c, <2>1, <3>1, OneLess DEF Between
      <4>2. req'[a] = new
        BY <1>b, <2>4
      <4> QED
        BY <1>c, <2>1, <2>3, <3>1, <4>1, <4>2 DEF Between
    <3> QED
      BY <3>1
  <2>6. Own(j, row[j].cronId) => Own(j, row[j].cronId)'
    <3>1. PICK e \in 0..MaxEntries : e = row[j].cronId
      BY <1>b DEF Row
    <3>2. PICK id \in 0..MaxEntries : id = req[a].read.cronId
      BY <1>b DEF Row
    <3>3. Own(j, e) => Own(j, e)'
      BY <1>b, <2>1, <3>2, OwnKept
    <3> QED
      BY <2>1, <3>1, <3>3 DEF Own
  <2> QED
    BY <1>d, <2>1, <2>3, <2>4, <2>5, <2>6, Shapes
<1>10. CASE Halt(a)
  <2>1. [row[j] EXCEPT !.status = "stopped"] \in Row
    BY <1>b DEF Row
  <2>2. /\ \A k \in Jobs : k # j => row'[k] = row[k]
        /\ row'[j].cronId = row[j].cronId
        /\ row[j].status = "running" => row'[j].status = "stopped"
    BY <1>10, <1>b, <1>g, <2>1 DEF Halt, Row, Exists
  <2>3. UNCHANGED <<sched, boot>> /\ req[a].at = "halt"
    BY <1>10 DEF Halt, At
  <2>4. CASE req[a].op = "update"
    <3>1. PICK new : new = [req[a] EXCEPT !.at = "find", !.op = "start"]
      OBVIOUS
    <3>2. new.at = "find" /\ new.op = "start" /\ new.job = j
      BY <1>b, <3>1 DEF Request
    <3>3. req' = [req EXCEPT ![a] = new]
      BY <1>10, <2>4, <3>1 DEF Halt
    <3>4. j \in Careful => Between(a, j)'
      BY <1>b, <1>c, <1>f, <2>2, <2>3, <3>2, <3>3 DEF Between, Off
    <3> QED
      BY <1>b, <1>e, <2>2, <2>3, <3>2, <3>3, <3>4, Shapes
  <2>5. CASE req[a].op = "delete"
    <3>1. PICK new : new = [req[a] EXCEPT !.at = "erase"]
      OBVIOUS
    <3>2. new.at = "erase" /\ new.op = "delete" /\ new.job = j
      BY <1>b, <2>5, <3>1 DEF Request
    <3>3. req' = [req EXCEPT ![a] = new]
      BY <1>10, <2>5, <3>1 DEF Halt, Goto
    <3>4. j \in Careful => Between(a, j)'
      BY <1>b, <1>c, <1>f, <2>2, <2>3, <3>2, <3>3 DEF Between, Off
    <3> QED
      BY <1>b, <1>e, <2>2, <2>3, <3>2, <3>3, <3>4, Shapes
  <2>6. CASE req[a].op \notin {"update", "delete"}
    <3>1. req' = [req EXCEPT ![a] = NoRequest]
      BY <1>10, <2>6 DEF Halt, Over
    <3>2. j \in Careful => Synced(j)'
      BY <1>c, <1>f, <2>2, <2>3 DEF Between, Synced, Off
    <3> QED
      BY <1>e, <2>2, <2>3, <3>1, <3>2, Shapes
  <2> QED
    BY <2>4, <2>5, <2>6
<1> QED
  BY <1>1, <1>2, <1>3, <1>4, <1>5, <1>6, <1>7, <1>8, <1>9, <1>10 DEF Call


\* A start adds the running jobs one after the other, to an empty scheduler.
LEMMA SchedServer ==
    ASSUME SchedInv, JobsInv', Server
    PROVE  SchedInv'
<1> USE DEF SchedInv
<1>a. row \in [Jobs -> Row] /\ \A b \in Admins : phase # "up" => req[b] = NoRequest
  BY DEF JobsInv, TypeOK, OwnRead
<1>1. ASSUME Stop PROVE SchedInv'
  <2>1. phase' = "down" /\ \A b \in Admins : req'[b] = NoRequest
    BY <1>1 DEF Stop
  <2> QED
    BY <2>1, Shapes DEF OwnStop, InStep, Idle
<1>2. ASSUME phase # "up", UNCHANGED req PROVE OwnStop'
  BY <1>2, <1>a, Shapes DEF OwnStop, Idle
<1>3. CASE Boot
  <2>1. /\ phase = "down" /\ UNCHANGED <<entries, given, req>>
        /\ \A j \in Careful : j \in Jobs /\ \A b \in Admins : req'[b].job # j
    BY <1>3, <1>a, Shapes DEF Boot, sched
  <2>2. \A e \in Entries : entries'[e] = None
    BY <2>1, JobsAssumption DEF JobsInv, OwnEntry, Entries
  <2>3. \A j \in Careful : Off(j)'
    BY <2>2 DEF Off, EntriesOf
  <2>4. CASE \E j \in Jobs : Exists(j)
    <3>1. toStart' = {j \in Jobs : row[j].status = "running"} /\ row' = row
      BY <1>3, <2>4 DEF Boot
    <3>2. \A j \in Careful :
            IF j \in toStart' THEN row'[j].status = "running" ELSE row'[j].status # "running"
      BY <2>1, <3>1
    <3>3. \A j \in Careful : InStep(j)'
      BY <2>1, <2>3, <3>2 DEF InStep, Synced
    <3> QED
      BY <1>2, <2>1, <3>3
  <2>5. CASE ~\E j \in Jobs : Exists(j)
    <3>1. PICK k \in Jobs, d \in Defs : row' = [row EXCEPT ![k] = NewRow("running", d)]
      BY <1>3, <2>5 DEF Boot
    <3>2. toStart' = {}
      BY <1>3, <2>1, <2>5 DEF Boot, JobsInv, OwnEntry
    <3>3. \A j \in Careful : row'[j].status = "running" => row'[j].cronId = 0
      BY <1>a, <2>1, <2>5, <3>1 DEF Exists, NewRow
    <3>4. \A j \in Careful : InStep(j)'
      BY <2>1, <2>3, <3>2, <3>3 DEF InStep, Synced
    <3> QED
      BY <1>2, <2>1, <3>4
  <2> QED
    BY <2>4, <2>5
<1>4. ASSUME NEW j \in Jobs, BootJob(j) PROVE SchedInv'
  <2>1. PICK d \in Defs \cup {None} : d = row[j].def
    BY <1>a DEF Row
  <2>2. /\ NewEntry(j, d) /\ phase = "boot" /\ j \in toStart
        /\ row' = [row EXCEPT ![j].cronId = given + 1]
        /\ toStart' = toStart \ {j} /\ UNCHANGED <<phase, crashes, req>>
    BY <1>4, <2>1 DEF BootJob, BootMark
  <2>3. ASSUME NEW k \in Careful, k # j PROVE InStep(k)'
    <3>1. /\ EntriesOf(k)' = EntriesOf(k)
          /\ \A e \in EntriesOf(k) : entries'[e] = entries[e]
      BY <2>2, <2>3, ElsesEntries, Shapes
    <3>2. row'[k] = row[k] /\ (k \in toStart <=> k \in toStart')
      BY <1>a, <2>2, <2>3
    <3> QED
      BY <2>2, <3>1, <3>2, Still
  <2>4. ASSUME j \in Careful PROVE InStep(j)'
    <3>1. \A b \in Admins : req[b].job # j /\ req'[b].job # j
      BY <1>a, <2>2, <2>4, Shapes
    <3>2. row[j].status = "running" /\ Off(j)
      BY <2>2, <2>4, <3>1 DEF InStep
    <3>3. /\ row'[j].status = "running" /\ row'[j].cronId = given + 1
          /\ row'[j].def = d
      BY <1>a, <2>1, <2>2, <3>2 DEF Row
    <3>4. Synced(j)'
      BY <2>2, <3>2, <3>3, OneMore DEF Synced
    <3>5. j \notin toStart'
      BY <2>2
    <3> QED
      BY <3>1, <3>4, <3>5 DEF InStep
  <2> QED
    BY <1>2, <2>2, <2>3, <2>4
<1>5. CASE BootDone
  <2>1. /\ phase = "boot" /\ phase' = "up"
        /\ UNCHANGED <<row, entries, given, toStart, req>>
    BY <1>5 DEF BootDone, sched
  <2>2. \A j \in Careful : /\ Synced(j)' <=> Synced(j)
                           /\ Off(j)' <=> Off(j)
    BY <2>1 DEF Synced, Off, EntriesOf
  <2>3. \A j \in Careful, b \in Admins : req'[b].job # j
    BY <1>a, <2>1, Shapes
  <2>4. \A j \in Careful : InStep(j)'
    BY <2>1, <2>2, <2>3 DEF InStep
  <2> QED
    BY <1>2, <2>1, <2>4
<1> QED
  BY <1>1, <1>3, <1>4, <1>5 DEF Server, Crash, BootFails

\* What the requests, the scheduler and the rows agree on is inductive.
LEMMA SchedNext == ASSUME InDate, SchedInv, [Next]_vars PROVE SchedInv'
<1>1. JobsInv'
  BY NextInv DEF SchedInv
<1>2. CASE UNCHANGED vars
  <2>1. UNCHANGED <<row, entries, given, phase, toStart, req>>
    BY <1>2 DEF vars, sched, boot
  <2>2. OwnStop'
    BY <2>1 DEF SchedInv, OwnStop, Own, Idle
  <2>3. \A j \in Careful : InStep(j)'
    <3>1. \A j \in Careful : EntriesOf(j)' = EntriesOf(j)
      BY <2>1 DEF EntriesOf
    <3> QED
      BY <2>1, <3>1, Still DEF SchedInv
  <2> QED
    BY <1>1, <2>2, <2>3 DEF SchedInv
<1> QED
  BY <1>1, <1>2, SchedAsk, SchedCall, SchedServer DEF Next

\* A careful job at rest is on the scheduler exactly when its row says so, once,
\* with the definition the row has, for any number of jobs and requests, crashes
\* and restarts: when switches are clicked on pages in date and no backup rolls
\* back.
THEOREM CarefulScheduled ==
    ASSUME InDate
    PROVE  Spec => []Scheduled
<1>1. Init => SchedInv
  BY SchedInit
<1>2. SchedInv /\ [Next]_vars => SchedInv'
  BY SchedNext
<1>3. SchedInv => Scheduled
  <2> SUFFICES ASSUME SchedInv, NEW j \in Careful, phase = "up",
                      \A a \in Admins : req[a].job # j
               PROVE  Synced(j)
    BY DEF Scheduled, Synced, Off
  <2>1. toStart = {}
    BY DEF SchedInv, JobsInv, OwnEntry
  <2> QED
    BY <2>1 DEF SchedInv, InStep
<1> QED
  BY <1>1, <1>2, <1>3, PTL DEF Spec

-----------------------------------------------------------------------------
(* The runs of the jobs.                                                   *)

\* What RunInv says of one run.
RunOK(r) ==
    /\ left[r] \subseteq listed[r]
    /\ count[r] = Cardinality(told[r])
    /\ told[r] \subseteq listed[r] \ left[r]
    /\ at[r] \in {"idle", "exec"} => listed[r] = {} /\ told[r] = {}
    /\ at[r] = "idle" => log[r] = {}
    /\ at[r] = "unread" => left[r] = listed[r]
    /\ at[r] = "receive" => left[r] = {}
    /\ at[r] \in {"touch", "log"} => told[r] = listed[r]
    /\ up => \A x \in Assets :
         /\ worker[r][x] # "none" <=> x \in listed[r] \ left[r]
         /\ worker[r][x] = "sent" <=> x \in told[r]
    /\ ~up => /\ at[r] \in {"idle", "done", "unread", "lost"}
              /\ \A x \in Assets : worker[r][x] = "none"
    /\ at[r] = "done" =>
         /\ log[r] = listed[r]
         /\ \A x \in Assets : worker[r][x] \in {"none", "sent"}
    /\ at[r] = "unread" => \A x \in Assets : worker[r][x] = "none"

\* RunInv says it of every run.
LEMMA RunIs == RunInv <=> RunsTypeOK /\ \A r \in Runs : RunOK(r)
  BY DEF RunInv, RunOK, LogIsComplete

\* No run has begun.
LEMMA RunInit == ASSUME RunsInit PROVE RunInv
<1>1. RunsTypeOK
  BY DEF RunsInit, RunsTypeOK
<1>2. ASSUME NEW r \in Runs PROVE RunOK(r)
  BY FS_EmptySet DEF RunsInit, RunOK
<1> QED
  BY <1>1, <1>2, RunIs

\* A run stays as it is while another one gets on, or rows are deleted.
LEMMA RunRests ==
    ASSUME NEW r \in Runs, RunOK(r), up' = up,
           at'[r] = at[r], listed'[r] = listed[r], left'[r] = left[r],
           worker'[r] = worker[r], count'[r] = count[r], told'[r] = told[r], log'[r] = log[r]
    PROVE  RunOK(r)'
  BY DEF RunOK

\* What another run is doing.
LEMMA OthersRest ==
    ASSUME RunsTypeOK, NEW r \in Runs, NEW q \in Runs, q # r, RunOK(q),
           \/ List(r) \/ Exec(r) \/ ExecReturns(r) \/ Step(r)
           \/ \E x \in Assets : Checked(r, x) \/ Executed(r, x)
    PROVE  RunOK(q)'
<1>1. /\ up' = up /\ at'[q] = at[q] /\ listed'[q] = listed[q] /\ left'[q] = left[q]
      /\ count'[q] = count[q] /\ told'[q] = told[q] /\ log'[q] = log[q]
  BY DEF RunsTypeOK, List, Exec, ExecReturns, Step, Checked, Executed,
     Move, Start, LookupFails, Receive, Started, Received, Touch, WriteLog
<1>2. worker'[q] = worker[q]
  BY DEF RunsTypeOK, List, Exec, ExecReturns, Step, Checked, Executed,
     Start, LookupFails, Receive, Started, Received, Touch, WriteLog
<1> QED
  BY <1>1, <1>2, RunRests

\* A goroutine gets on.
LEMMA WorkerIs ==
    ASSUME RunsTypeOK, NEW r \in Runs, NEW x \in Assets,
           NEW w \in {"none", "busy", "sending", "sent"},
           worker' = [worker EXCEPT ![r][x] = w]
    PROVE  /\ worker' \in [Runs -> [Assets -> {"none", "busy", "sending", "sent"}]]
           /\ worker'[r][x] = w
           /\ \A y \in Assets \ {x} : worker'[r][y] = worker[r][y]
  BY DEF RunsTypeOK

\* Each call of a run keeps its own state right.
LEMMA RunSteps ==
    ASSUME RunsTypeOK, NEW r \in Runs, RunOK(r),
           List(r) \/ Exec(r) \/ ExecReturns(r) \/ Step(r)
    PROVE  RunsTypeOK' /\ RunOK(r)'
<1>t. /\ listed[r] \subseteq Assets /\ left[r] \subseteq Assets
      /\ told[r] \subseteq Assets /\ count[r] \in Nat
      /\ IsFiniteSet(told[r]) /\ IsFiniteSet(listed[r])
  <2>1. listed[r] \in SUBSET Assets /\ told[r] \in SUBSET Assets
    BY DEF RunsTypeOK
  <2>2. IsFiniteSet(Assets)
    BY RunsAssumption
  <2>3. \A S \in SUBSET Assets : IsFiniteSet(S)
    BY <2>2, FS_Subset
  <2> QED
    BY <2>1, <2>3 DEF RunsTypeOK
<1>1. CASE List(r)
  <2>1. PICK S \in SUBSET there, to \in {"done", "start", "unread"} :
          /\ listed' = [listed EXCEPT ![r] = S]
          /\ left' = [left EXCEPT ![r] = S]
          /\ at' = [at EXCEPT ![r] = to]
          /\ to = "done" => S = {}
    <3>1. PICK S \in SUBSET there :
            /\ listed' = [listed EXCEPT ![r] = S]
            /\ left' = [left EXCEPT ![r] = S]
            /\ \E to \in IF S = {} THEN {"done"} ELSE Begins(r) :
                 at' = [at EXCEPT ![r] = to]
      BY <1>1 DEF List, Move
    <3>2. CASE S = {}
      BY <3>1, <3>2
    <3>3. CASE S # {}
      BY <3>1, <3>3 DEF Begins
    <3> QED
      BY <3>2, <3>3
  <2>2. /\ up /\ at[r] = "idle" /\ UNCHANGED <<rows, worker, count, told, log, up>>
    BY <1>1 DEF List
  <2>3. RunsTypeOK'
    BY <2>1, <2>2 DEF RunsTypeOK, rows
  <2>4. listed[r] = {} /\ told[r] = {} /\ left[r] = {} /\ log[r] = {}
        /\ count[r] = Cardinality(told[r])
    BY <2>2 DEF RunOK
  <2>5. \A x \in Assets : worker[r][x] = "none"
    BY <2>2, <2>4 DEF RunOK
  <2>6. /\ listed'[r] = S /\ left'[r] = S /\ at'[r] = to
    BY <2>1 DEF RunsTypeOK
  <2> QED
    BY <2>1, <2>2, <2>3, <2>4, <2>5, <2>6 DEF RunOK
<1>2. CASE Exec(r)
  <2>1. PICK to \in {"exec", "unread"} : at' = [at EXCEPT ![r] = to]
    BY <1>2 DEF Exec, Move
  <2>2. /\ up /\ at[r] = "idle"
        /\ UNCHANGED <<rows, listed, left, worker, count, told, log, up>>
    BY <1>2 DEF Exec
  <2>3. RunsTypeOK' /\ at'[r] = to
    BY <2>1, <2>2 DEF RunsTypeOK, rows
  <2>4. listed[r] = {} /\ left[r] = {} /\ \A x \in Assets : worker[r][x] = "none"
    BY <2>2 DEF RunOK
  <2> QED
    BY <2>1, <2>2, <2>3, <2>4 DEF RunOK
<1>3. CASE ExecReturns(r)
  <2>1. /\ at' = [at EXCEPT ![r] = "touch"] /\ at[r] = "exec"
        /\ UNCHANGED <<rows, listed, left, worker, count, told, log, up>>
    BY <1>3 DEF ExecReturns, Move
  <2>2. RunsTypeOK' /\ at'[r] = "touch"
    BY <2>1 DEF RunsTypeOK, rows
  <2> QED
    BY <2>1, <2>2 DEF RunOK
<1>4. ASSUME NEW x \in Assets, Start(r, x) PROVE RunsTypeOK' /\ RunOK(r)'
  <2>1. /\ at[r] = "start" /\ x \in left[r]
        /\ left' = [left EXCEPT ![r] = @ \ {x}]
        /\ worker' = [worker EXCEPT ![r][x] = "busy"]
        /\ UNCHANGED <<rows, at, listed, count, told, log, up>>
    BY <1>4 DEF Start
  <2>2. /\ worker' \in [Runs -> [Assets -> {"none", "busy", "sending", "sent"}]]
        /\ worker'[r][x] = "busy"
        /\ \A y \in Assets \ {x} : worker'[r][y] = worker[r][y]
    BY <2>1, WorkerIs
  <2>3. left' \in [Runs -> SUBSET Assets] /\ left'[r] = left[r] \ {x}
    BY <2>1 DEF RunsTypeOK
  <2>4. RunsTypeOK'
    BY <2>1, <2>2, <2>3 DEF RunsTypeOK, rows
  <2>5. up /\ x \in listed[r] /\ x \notin told[r]
    BY <2>1 DEF RunOK
  <2>6. \A y \in Assets :
          /\ worker'[r][y] # "none" <=> y \in listed[r] \ left'[r]
          /\ worker'[r][y] = "sent" <=> y \in told[r]
    BY <2>2, <2>3, <2>5 DEF RunOK
  <2> QED
    BY <2>1, <2>3, <2>4, <2>5, <2>6 DEF RunOK
<1>5. ASSUME NEW x \in Assets, LookupFails(r, x) PROVE RunsTypeOK' /\ RunOK(r)'
  <2>1. /\ at' = [at EXCEPT ![r] = "stuck"] /\ at[r] = "start"
        /\ UNCHANGED <<rows, listed, left, worker, count, told, log, up>>
    BY <1>5 DEF LookupFails, Move
  <2>2. RunsTypeOK' /\ at'[r] = "stuck"
    BY <2>1 DEF RunsTypeOK, rows
  <2> QED
    BY <2>1, <2>2 DEF RunOK
<1>6. ASSUME NEW x \in Assets, Receive(r, x) PROVE RunsTypeOK' /\ RunOK(r)'
  <2>1. /\ at[r] = "receive" /\ worker[r][x] = "sending"
        /\ worker' = [worker EXCEPT ![r][x] = "sent"]
        /\ count' = [count EXCEPT ![r] = @ + 1]
        /\ told' = [told EXCEPT ![r] = @ \cup {x}]
        /\ UNCHANGED <<rows, at, listed, left, log, up>>
    BY <1>6 DEF Receive
  <2>2. /\ worker' \in [Runs -> [Assets -> {"none", "busy", "sending", "sent"}]]
        /\ worker'[r][x] = "sent"
        /\ \A y \in Assets \ {x} : worker'[r][y] = worker[r][y]
    BY <2>1, WorkerIs
  <2>3. /\ told' \in [Runs -> SUBSET Assets] /\ told'[r] = told[r] \cup {x}
        /\ count' \in [Runs -> Nat] /\ count'[r] = count[r] + 1
    BY <2>1 DEF RunsTypeOK
  <2>4. RunsTypeOK'
    BY <2>1, <2>2, <2>3 DEF RunsTypeOK, rows
  <2>5. up /\ x \in listed[r] \ left[r] /\ x \notin told[r]
    BY <2>1 DEF RunOK
  <2>6. Cardinality(told[r] \cup {x}) = Cardinality(told[r]) + 1
    BY <1>t, <2>5, FS_AddElement
  <2>7. \A y \in Assets :
          /\ worker'[r][y] # "none" <=> y \in listed[r] \ left[r]
          /\ worker'[r][y] = "sent" <=> y \in told'[r]
    BY <2>2, <2>3, <2>5 DEF RunOK
  <2> QED
    BY <2>1, <2>3, <2>4, <2>5, <2>6, <2>7 DEF RunOK
<1>7. CASE Started(r)
  <2>1. /\ at' = [at EXCEPT ![r] = "receive"] /\ at[r] = "start" /\ left[r] = {}
        /\ UNCHANGED <<rows, listed, left, worker, count, told, log, up>>
    BY <1>7 DEF Started, Move
  <2>2. RunsTypeOK' /\ at'[r] = "receive"
    BY <2>1 DEF RunsTypeOK, rows
  <2> QED
    BY <2>1, <2>2 DEF RunOK
<1>8. CASE Received(r)
  <2>1. /\ at' = [at EXCEPT ![r] = "touch"] /\ at[r] = "receive" /\ Enough(r)
        /\ UNCHANGED <<rows, listed, left, worker, count, told, log, up>>
    BY <1>8 DEF Received, Move
  <2>2. RunsTypeOK' /\ at'[r] = "touch"
    BY <2>1 DEF RunsTypeOK, rows
  <2>3. told[r] = listed[r]
    <3>1. /\ told[r] \subseteq listed[r]
          /\ Cardinality(told[r]) >= Cardinality(listed[r])
      BY <2>1 DEF RunOK, Enough
    <3> QED
      BY <1>t, <3>1, FS_Subset, FS_CardinalityType
  <2> QED
    BY <2>1, <2>2, <2>3 DEF RunOK
<1>9. CASE Touch(r)
  <2>1. /\ at' = [at EXCEPT ![r] = "log"] /\ at[r] = "touch"
        /\ UNCHANGED <<rows, listed, left, worker, count, told, log, up>>
    BY <1>9 DEF Touch, Move
  <2>2. RunsTypeOK' /\ at'[r] = "log"
    BY <2>1 DEF RunsTypeOK, rows
  <2> QED
    BY <2>1, <2>2 DEF RunOK
<1>10. CASE WriteLog(r)
  <2>1. /\ at' = [at EXCEPT ![r] = "done"] /\ at[r] = "log"
        /\ log' = [log EXCEPT ![r] = told[r]]
        /\ UNCHANGED <<rows, listed, left, worker, count, told, up>>
    BY <1>10 DEF WriteLog, Move
  <2>2. RunsTypeOK' /\ at'[r] = "done" /\ log'[r] = told[r]
    BY <2>1 DEF RunsTypeOK, rows
  <2>3. up /\ told[r] = listed[r]
    BY <2>1 DEF RunOK
  <2>4. \A x \in Assets : worker[r][x] \in {"none", "sent"}
    BY <2>3 DEF RunOK
  <2> QED
    BY <2>1, <2>2, <2>3, <2>4 DEF RunOK
<1> QED
  BY <1>1, <1>2, <1>3, <1>4, <1>5, <1>6, <1>7, <1>8, <1>9, <1>10 DEF Step

\* A goroutine that is done waits to be heard.
LEMMA WorkerSteps ==
    ASSUME RunsTypeOK, NEW r \in Runs, RunOK(r), NEW x \in Assets,
           Checked(r, x) \/ Executed(r, x)
    PROVE  RunsTypeOK' /\ RunOK(r)'
<1>1. /\ worker[r][x] = "busy" /\ worker' = [worker EXCEPT ![r][x] = "sending"]
      /\ UNCHANGED <<there, known, at, listed, left, count, told, log, up>>
      /\ active' \in SUBSET Assets
  BY DEF Checked, Executed, After, rows, RunsTypeOK
<1>2. /\ worker' \in [Runs -> [Assets -> {"none", "busy", "sending", "sent"}]]
      /\ worker'[r][x] = "sending"
      /\ \A y \in Assets \ {x} : worker'[r][y] = worker[r][y]
  BY <1>1, WorkerIs
<1>3. RunsTypeOK'
  BY <1>1, <1>2 DEF RunsTypeOK
<1>4. up /\ at[r] \notin {"done", "unread"}
  BY <1>1 DEF RunOK
<1>5. \A y \in Assets :
        /\ worker'[r][y] # "none" <=> y \in listed[r] \ left[r]
        /\ worker'[r][y] = "sent" <=> y \in told[r]
  BY <1>1, <1>2, <1>4 DEF RunOK
<1> QED
  BY <1>1, <1>3, <1>4, <1>5 DEF RunOK

\* Every step keeps every run right.
LEMMA RunNext ==
    ASSUME RunInv, [RunsNext]_runsVars
    PROVE  RunInv'
<1>i. RunsTypeOK /\ \A r \in Runs : RunOK(r)
  BY RunIs
<1> SUFFICES RunsTypeOK' /\ \A r \in Runs : RunOK(r)'
  BY DEF RunInv, RunOK, LogIsComplete
<1>1. ASSUME NEW r \in Runs, List(r) \/ Exec(r) \/ ExecReturns(r) \/ Step(r)
      PROVE  RunsTypeOK' /\ \A q \in Runs : RunOK(q)'
  BY <1>1, <1>i, RunSteps, OthersRest
<1>2. ASSUME NEW r \in Runs, NEW x \in Assets, Checked(r, x) \/ Executed(r, x)
      PROVE  RunsTypeOK' /\ \A q \in Runs : RunOK(q)'
  BY <1>2, <1>i, WorkerSteps, OthersRest
<1>3. ASSUME NEW x \in Assets, DeleteAsset(x) \/ DeleteCredential(x)
      PROVE  RunsTypeOK' /\ \A q \in Runs : RunOK(q)'
  <2>1. UNCHANGED <<run, up>> /\ RunsTypeOK'
    BY <1>3, <1>i DEF DeleteAsset, DeleteCredential, run, RunsTypeOK
  <2> QED
    BY <1>i, <2>1, RunRests DEF run
<1>4. CASE LoseRuns
  <2>1. /\ up /\ up' = FALSE
        /\ \A r \in Runs : at'[r] = IF at[r] \in {"idle", "done", "unread"} THEN at[r]
                                 ELSE "lost"
        /\ \A r \in Runs, x \in Assets : worker'[r][x] = "none"
        /\ UNCHANGED <<listed, left, count, told, log>>
    BY <1>4 DEF LoseRuns
  <2>2. RunsTypeOK'
    BY <1>4, <1>i DEF LoseRuns, RunsTypeOK, rows
  <2> QED
    BY <1>i, <2>1, <2>2 DEF RunOK
<1>5. CASE UNCHANGED runsVars
  BY <1>5, <1>i, RunRests DEF runsVars, rows, run, RunsTypeOK
<1> QED
  BY <1>1, <1>2, <1>3, <1>4, <1>5 DEF RunsNext

\* JobRun: a run counts each of its assets once, and either could not read what to
\* do and started nothing, or its log tells of every asset it found, whatever is
\* deleted meanwhile and wherever a crash comes.
THEOREM RunsAreSound == RunsSpec => []RunInv
<1> QED
  BY RunInit, RunNext, PTL DEF RunsSpec
=============================================================================
