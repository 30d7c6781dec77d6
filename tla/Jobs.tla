-------------------------------- MODULE Jobs --------------------------------
(***************************************************************************)
(* The jobs table and the cron scheduler it must agree with.               *)
(*                                                                         *)
(* A row keeps the id of its cron entry.  Entries live in the process:     *)
(* they are gone after a restart, and the ids start again at 1.  A request *)
(* is a sequence of calls on the two; nothing holds them together, so      *)
(* requests interleave between any two calls.                              *)
(***************************************************************************)
EXTENDS Naturals

CONSTANTS
    Jobs,         \* ids of jobs
    Admins,       \* requests of administrators
    Defs,         \* definitions a job can have
    BadDefs,      \* those with a cron expression that does not parse
    Careful,      \* jobs that are administered by one request at a time
    Stale,        \* may a switch be clicked on a page that is out of date?
    RestoreFails, \* may a restored backup roll back after it made a job?
    MaxEntries,   \* bound on the entries made in one life of the server
    MaxCrashes,   \* bound on crashes
    None          \* no entry

Entries == 1..MaxEntries

ASSUME JobsAssumption ==
    /\ BadDefs \subseteq Defs
    /\ Careful \subseteq Jobs
    /\ Stale \in BOOLEAN /\ RestoreFails \in BOOLEAN
    /\ MaxEntries \in Nat /\ MaxCrashes \in Nat
    /\ None \notin Jobs
    /\ None \notin [job : Jobs, def : Defs \cup {None}]

VARIABLES
    row,     \* status, cron entry and definition of each job
    entries, \* the cron entries: a job and the definition it had
    given,   \* how many ids the scheduler has given in this life
    phase,   \* of the server
    toStart, \* the running jobs InitJob has still to add
    req,     \* the requests: the call each makes next, what was asked of which
             \* job, the row it read last and the id AddJob returned to it
    crashes

sched == <<entries, given>>
boot  == <<phase, toStart, crashes>>
vars  == <<row, sched, boot, req>>

NewRow(status, def) == [status |-> status, cronId |-> 0, def |-> def]

NoRow == NewRow("absent", None)

Row == [status : {"absent", "stopped", "running", "deleted"},
        cronId : 0..MaxEntries, def : Defs \cup {None}]

Request ==
    [at    : {"idle", "look", "save", "erase", "find", "add", "mark", "remove",
              "halt", "insert"},
     op    : {"none", "start", "stop", "update", "edit", "delete", "restore"},
     job   : Jobs \cup {None},
     read  : Row,
     newId : 0..MaxEntries]

NoRequest ==
    [at |-> "idle", op |-> "none", job |-> None, read |-> NoRow, newId |-> 0]

Exists(j) == row[j].status \in {"stopped", "running"}
Idle(a)   == req[a].at = "idle"

TypeOK ==
    /\ row \in [Jobs -> Row]
    /\ entries \in [Entries -> [job : Jobs, def : Defs \cup {None}] \cup {None}]
    /\ given \in 0..MaxEntries
    /\ phase \in {"down", "boot", "up"}
    /\ toStart \in SUBSET Jobs
    /\ req \in [Admins -> Request]
    /\ crashes \in 0..MaxCrashes

Init ==
    /\ row = [j \in Jobs |-> NoRow]
    /\ entries = [e \in Entries |-> None]
    /\ given = 0
    /\ phase = "down"
    /\ toStart = {}
    /\ req = [a \in Admins |-> NoRequest]
    /\ crashes = 0

-----------------------------------------------------------------------------
(* Requests.                                                               *)

\* who else is at work on a job
Free(j) == j \in Careful => \A a \in Admins : req[a].job # j

Ask(a, j, what, call, def) ==
    /\ phase = "up" /\ Idle(a) /\ Free(j)
    /\ req' = [req EXCEPT ![a] =
                 [at |-> call, op |-> what, job |-> j,
                  read |-> [NoRow EXCEPT !.def = def], newId |-> 0]]
    /\ UNCHANGED <<row, sched, boot>>

\* ChangeStatusById, from the switch of the list
AskStart(a, j) ==
    /\ row[j].status # "absent"
    /\ Stale \/ row[j].status = "stopped"
    /\ Ask(a, j, "start", "find", None)

AskStop(a, j) ==
    /\ row[j].status # "absent"
    /\ Stale \/ row[j].status = "running"
    /\ Ask(a, j, "stop", "find", None)

\* UpdateById and DeleteJobById
AskUpdate(a, j) ==
    row[j].status # "absent" /\ Ask(a, j, "update", "look", None)

AskDelete(a, j) ==
    row[j].status # "absent" /\ Ask(a, j, "delete", "look", None)

\* Create: from the form or from a backup a job that does not run; that of a
\* backup has the cron id it had where it was exported
Create(a, j) ==
    /\ phase = "up" /\ Idle(a)
    /\ row[j].status = "absent"
    /\ \A b \in Admins : req[b].job # j
    /\ \E d \in Defs, id \in 0..MaxEntries :
         row' = [row EXCEPT ![j] = [status |-> "stopped", cronId |-> id, def |-> d]]
    /\ UNCHANGED <<sched, boot, req>>

\* and from a backup one that runs
Restore(a, j) ==
    /\ row[j].status = "absent"
    /\ \A b \in Admins : req[b].job # j
    /\ \E d \in Defs : Ask(a, j, "restore", "add", d)

-----------------------------------------------------------------------------
(* The calls.                                                              *)

At(a, call) == phase = "up" /\ req[a].at = call

Goto(a, call) == req' = [req EXCEPT ![a] = [@ EXCEPT !.at = call]]

Over(a) == req' = [req EXCEPT ![a] = NoRequest]

\* a row that is not there is not updated
Write(j, new) == row' = IF Exists(j) THEN [row EXCEPT ![j] = new] ELSE row

Look(a) ==
    /\ At(a, "look")
    /\ LET j == req[a].job
           running == row[j].status = "running"
       IN  \/ ~Exists(j) /\ Over(a)
           \/ /\ Exists(j) /\ req[a].op = "update"
              /\ req' = [req EXCEPT ![a] =
                           [@ EXCEPT !.at = "save",
                                     !.op = IF running THEN "update" ELSE "edit"]]
           \/ /\ Exists(j) /\ req[a].op = "delete"
              /\ Goto(a, IF running THEN "find" ELSE "erase")
    /\ UNCHANGED <<row, sched, boot>>

\* the definition and what else the form holds, neither status nor cron id; a
\* job that was running is then stopped and started
Save(a) ==
    /\ At(a, "save")
    /\ \E d \in Defs : Write(req[a].job, [row[req[a].job] EXCEPT !.def = d])
    /\ IF req[a].op = "update" THEN Goto(a, "find") ELSE Over(a)
    /\ UNCHANGED <<sched, boot>>

Erase(a) ==
    /\ At(a, "erase")
    /\ Write(req[a].job, [row[req[a].job] EXCEPT !.status = "deleted"])
    /\ Over(a)
    /\ UNCHANGED <<sched, boot>>

Find(a) ==
    /\ At(a, "find")
    /\ IF Exists(req[a].job)
       THEN req' = [req EXCEPT ![a] =
                      [@ EXCEPT !.read = row[req[a].job],
                                !.at = IF req[a].op = "start" THEN "add" ELSE "remove"]]
       ELSE Over(a)
    /\ UNCHANGED <<row, sched, boot>>

\* GlobalCron.AddJob refuses an expression it cannot parse
AddFails(a) ==
    /\ At(a, "add")
    /\ req[a].read.def \in BadDefs
    /\ Over(a)
    /\ UNCHANGED <<row, sched, boot>>

NewEntry(j, d) ==
    /\ given < MaxEntries
    /\ d \notin BadDefs
    /\ given' = given + 1
    /\ entries' = [entries EXCEPT ![given + 1] = [job |-> j, def |-> d]]

Add(a) ==
    /\ At(a, "add")
    /\ NewEntry(req[a].job, req[a].read.def)
    /\ req' = [req EXCEPT ![a] =
                 [@ EXCEPT !.newId = given + 1,
                           !.at = IF req[a].op = "restore" THEN "insert" ELSE "mark"]]
    /\ UNCHANGED <<row, boot>>

Running(a, def) == [status |-> "running", cronId |-> req[a].newId, def |-> def]

Mark(a) ==
    /\ At(a, "mark")
    /\ Write(req[a].job, Running(a, row[req[a].job].def))
    /\ Over(a)
    /\ UNCHANGED <<sched, boot>>

\* Mutant: the entry is left to run out.
RemoveNone(id) == UNCHANGED entries

\* Mutant: the scheduler counts from 0.
RemoveNext(id) ==
    entries' = [e \in Entries |-> IF e = id + 1 THEN None ELSE entries[e]]

RemoveEntry(id) ==
    entries' = [e \in Entries |-> IF e = id THEN None ELSE entries[e]]

Remove(a) ==
    /\ At(a, "remove")
    /\ RemoveEntry(req[a].read.cronId)
    /\ Goto(a, "halt")
    /\ UNCHANGED <<row, given, boot>>

\* the cron id stays: zero fields are not written; an update starts the job
\* again, a deletion goes on
Halt(a) ==
    /\ At(a, "halt")
    /\ Write(req[a].job, [row[req[a].job] EXCEPT !.status = "stopped"])
    /\ CASE req[a].op = "update" ->
              req' = [req EXCEPT ![a] = [@ EXCEPT !.at = "find", !.op = "start"]]
         [] req[a].op = "delete" -> Goto(a, "erase")
         [] OTHER                -> Over(a)
    /\ UNCHANGED <<sched, boot>>

\* the rows of a backup are there when all of it is; the entry is there anyway
Insert(a) ==
    /\ At(a, "insert")
    /\ \/ row' = [row EXCEPT ![req[a].job] = Running(a, req[a].read.def)]
       \/ RestoreFails /\ UNCHANGED row
    /\ Over(a)
    /\ UNCHANGED <<sched, boot>>

-----------------------------------------------------------------------------
(* The life of the server.                                                 *)

Stop ==
    /\ phase' = "down"
    /\ entries' = [e \in Entries |-> None]
    /\ given' = 0
    /\ toStart' = {}
    /\ req' = [a \in Admins |-> NoRequest]
    /\ UNCHANGED row

Crash ==
    /\ phase # "down" /\ crashes < MaxCrashes
    /\ crashes' = crashes + 1
    /\ Stop

\* InitJob: the first job of an empty table is running, but nothing is added
Boot ==
    /\ phase = "down"
    /\ IF \E j \in Jobs : Exists(j)
       THEN /\ toStart' = {j \in Jobs : row[j].status = "running"}
            /\ phase' = "boot"
            /\ UNCHANGED row
       ELSE /\ \E j \in Jobs :
                 /\ row[j].status = "absent"
                 /\ \E d \in Defs \ BadDefs :
                      row' = [row EXCEPT ![j] = NewRow("running", d)]
            /\ phase' = "up"
            /\ UNCHANGED toStart
    /\ UNCHANGED <<sched, req, crashes>>

\* Mutant: the row keeps the id of its last life.
BootRow(j) == UNCHANGED row

BootMark(j) == row' = [row EXCEPT ![j].cronId = given + 1]

BootJob(j) ==
    /\ phase = "boot" /\ j \in toStart
    /\ NewEntry(j, row[j].def)
    /\ BootMark(j)
    /\ toStart' = toStart \ {j}
    /\ UNCHANGED <<phase, crashes, req>>

\* an expression that does not parse stops the server
BootFails ==
    /\ phase = "boot"
    /\ \E j \in toStart : row[j].def \in BadDefs
    /\ Stop
    /\ UNCHANGED crashes

BootDone ==
    /\ phase = "boot" /\ toStart = {}
    /\ phase' = "up"
    /\ UNCHANGED <<row, sched, toStart, crashes, req>>

-----------------------------------------------------------------------------
Asks(a, j) ==
    \/ AskStart(a, j) \/ AskStop(a, j) \/ AskUpdate(a, j) \/ AskDelete(a, j)
    \/ Create(a, j) \/ Restore(a, j)

Call(a) ==
    \/ Look(a) \/ Save(a) \/ Erase(a) \/ Find(a)
    \/ AddFails(a) \/ Add(a) \/ Mark(a) \/ Insert(a)
    \/ Remove(a) \/ Halt(a)

Server == Crash \/ Boot \/ (\E j \in Jobs : BootJob(j)) \/ BootFails \/ BootDone

Next ==
    \/ \E a \in Admins, j \in Jobs : Asks(a, j)
    \/ \E a \in Admins : Call(a)
    \/ Server

Spec == Init /\ [][Next]_vars

-----------------------------------------------------------------------------
(* Properties.                                                             *)

EntriesOf(j) == {e \in Entries : entries[e] # None /\ entries[e].job = j}

\* A job that one request at a time administers runs as its row says, with the
\* definition the row has now: once, on the entry the row names, or not at all.
\* (The job that the first start makes has no entry until the next.)
Scheduled ==
    \A j \in Careful :
        phase = "up" /\ (\A a \in Admins : req[a].job # j) =>
           IF row[j].status = "running" /\ row[j].cronId # 0
           THEN /\ EntriesOf(j) = {row[j].cronId}
                /\ entries[row[j].cronId].def = row[j].def
           ELSE EntriesOf(j) = {}

\* Whatever requests overlap and however often the server restarts, to stop a
\* job that is running takes no other job off the scheduler.
RemovesOwn ==
    [][\A a \in Admins, e \in Entries :
         /\ Remove(a) /\ req[a].read.status = "running"
         /\ entries[e] # None /\ entries'[e] = None
         => entries[e].job = req[a].job]_vars

-----------------------------------------------------------------------------
(* The inductive invariant.                                                *)

\* the entry e was given in this life, and is the job's or is gone
Own(j, e) ==
    e # 0 => e <= given /\ (entries[e] = None \/ entries[e].job = j)

\* a row that is running names an entry of its own, of this life
OwnEntry ==
    /\ phase = "down" => given = 0
    /\ phase # "boot" => toStart = {}
    /\ \A e \in Entries : e > given => entries[e] = None
    /\ phase # "down" => \A j \in Jobs \ toStart :
          row[j].status = "running" => Own(j, row[j].cronId)

\* and so does the row a request read, and the id it was given
OwnRead ==
    \A a \in Admins :
        /\ phase # "up" => req[a] = NoRequest
        /\ ~Idle(a) => req[a].job \in Jobs
        /\ req[a].at = "remove" /\ req[a].read.status = "running"
              => Own(req[a].job, req[a].read.cronId)
        /\ req[a].at \in {"mark", "insert"} => Own(req[a].job, req[a].newId)

JobsInv == TypeOK /\ OwnEntry /\ OwnRead
=============================================================================
