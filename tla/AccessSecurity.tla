--------------------------- MODULE AccessSecurity ---------------------------
(***************************************************************************)
(* The access rules: a table, the map the security manager keeps of it in  *)
(* memory, and the sorted list the two doors read, the wall before every   *)
(* HTTP request and the callback of the SSH server.                        *)
(*                                                                         *)
(* Nothing locks the three together.  A request writes the row, changes    *)
(* the map, ranges over it and assigns the list it made of what it saw, so *)
(* requests interleave between any two of these.                           *)
(***************************************************************************)
EXTENDS Integers, FiniteSets, Sequences

CONSTANTS
    Id,       \* ids of rules
    Ip,       \* addresses of clients
    Form,     \* what an administrator can enter: allow or reject, an IP field
              \* and a number.  Of the field, ip is the addresses that the groups
              \* between its commas cover, and whole those it covers when it is
              \* read as one group
    Admin,    \* requests of administrators
    None

Rule ==
    {[id |-> i, rule |-> f.rule, ip |-> f.ip, whole |-> f.whole,
      priority |-> f.priority] : i \in Id, f \in Form}

ASSUME AccessSecurityAssumption ==
    /\ Form \subseteq [rule : {"allow", "reject"}, ip : SUBSET Ip, whole : SUBSET Ip,
                     priority : Int]
    /\ IsFiniteSet(Id)
    /\ None \notin Rule

VARIABLES
    rows,       \* the table
    securities, \* the map of the manager
    values,     \* its list
    req,        \* the requests
    (* What the properties remember. *)
    settled,    \* did the last request to assign the list run alone?
    contested,  \* ids that two requests handled at a time
    orphans     \* ids that were given to the manager and are in no row: a stale
                \* page updated a deleted rule, or an import rolled back

manager == <<securities, values>>
memory  == <<settled, contested, orphans>>
vars    == <<rows, manager, req, memory>>

Table == [Id -> Rule \cup {None}]

\* seen: what LoadData made of the map before it assigns it
Request ==
    [at     : {"idle", "row", "drop", "store", "load", "assign", "end"},
     op     : {"none", "create", "update", "delete", "restore"},
     rule   : Rule \cup {None},
     ids    : Seq(Id),
     stored : BOOLEAN,
     seen   : Seq(Rule),
     alone  : BOOLEAN]

NoRequest ==
    [at |-> "idle", op |-> "none", rule |-> None, ids |-> <<>>,
     stored |-> FALSE, seen |-> <<>>, alone |-> TRUE]

ElementsOf(s)   == {s[k] : k \in DOMAIN s}
RulesOf(table)  == ElementsOf(table) \ {None}
Handles(a)      == ElementsOf(req[a].ids)
InHand          == UNION {Handles(a) : a \in Admin}
Idle(a)         == req[a].at = "idle"
OthersIdle(a)   == \A b \in Admin \ {a} : Idle(b)

TypeOK ==
    /\ rows \in Table
    /\ securities \in Table
    /\ values \in Seq(Rule)
    /\ req \in [Admin -> Request]
    /\ settled \in BOOLEAN
    /\ contested \subseteq Id
    /\ orphans \subseteq Id

Ascends(s) ==
    \A k, l \in DOMAIN s : k < l => s[k].priority <= s[l].priority

\* Mutant: the largest number first.
SortedDown(table) ==
    LET held == RulesOf(table)
    IN  {s \in [1..Cardinality(held) -> held] :
           /\ ElementsOf(s) = held
           /\ \A k, l \in DOMAIN s : k < l => s[k].priority >= s[l].priority}

\* LoadData: the rules of the map by ascending priority.  sync.Map.Range and
\* sort.Slice leave rules of equal priority in any order.
Sorted(table) ==
    LET held == RulesOf(table)
    IN  {s \in [1..Cardinality(held) -> held] :
           /\ ElementsOf(s) = held
           /\ Ascends(s)}

Init ==
    /\ rows = [i \in Id |-> None]
    /\ securities = [i \in Id |-> None]
    /\ values = <<>>
    /\ req = [a \in Admin |-> NoRequest]
    /\ settled = TRUE
    /\ contested = {}
    /\ orphans = {}

-----------------------------------------------------------------------------
(* A request arrives and makes its first call.                             *)

\* utils.UUID: an id nothing refers to
Fresh(i) ==
    /\ rows[i] = None /\ securities[i] = None
    /\ i \notin InHand
    /\ \A s \in ElementsOf(values) : s.id # i
    /\ \A a \in Admin : \A s \in ElementsOf(req[a].seen) : s.id # i

\* An id a client can name, also after its rule was deleted: nobody knows the
\* id of a rule before its row can be read.
Listed(i) ==
    ~\E a \in Admin : /\ req[a].op \in {"create", "restore"}
                      /\ i \in Handles(a) /\ rows[i] = None

Arrives(a, op, at, rule, ids) ==
    /\ Idle(a)
    /\ req' = [b \in Admin |->
                 IF b = a
                 THEN [at |-> at, op |-> op, rule |-> rule, ids |-> ids,
                       stored |-> FALSE, seen |-> <<>>, alone |-> OthersIdle(a)]
                 ELSE IF Idle(b) THEN req[b]
                                 ELSE [req[b] EXCEPT !.alone = FALSE]]
    /\ settled' = (settled /\ OthersIdle(a))
    /\ contested' = (contested \ ElementsOf(ids)) \cup (ElementsOf(ids) \cap InHand)
    /\ UNCHANGED manager

\* SecurityRepository.Create is the first call of a creation
Create(a, s) ==
    /\ Fresh(s.id)
    /\ Arrives(a, "create", "store", s, <<s.id>>)
    /\ rows' = [rows EXCEPT ![s.id] = s]
    /\ orphans' = orphans \ {s.id}

\* SecurityRepository.UpdateById: no error when no row has the id
Update(a, s) ==
    /\ Listed(s.id)
    /\ Arrives(a, "update", "drop", s, <<s.id>>)
    /\ \/ rows[s.id] # None
          /\ rows' = [rows EXCEPT ![s.id] = s]
          /\ orphans' = orphans \ {s.id}
       \/ rows[s.id] = None
          /\ orphans' = orphans \cup {s.id}
          /\ UNCHANGED rows

\* SecurityRepository.DeleteById, of the first id of the list
Delete(a, ids) ==
    /\ \A i \in ElementsOf(ids) : Listed(i)
    /\ Arrives(a, "delete", "drop", None, ids)
    /\ rows' = [rows EXCEPT ![Head(ids)] = None]
    /\ orphans' = orphans \ ElementsOf(ids)

\* An import creates its row in a transaction, where nobody sees it yet.
Import(a, s) ==
    /\ Fresh(s.id)
    /\ Arrives(a, "restore", "store", s, <<s.id>>)
    /\ orphans' = orphans \ {s.id}
    /\ UNCHANGED rows

-----------------------------------------------------------------------------
(* The calls that follow.                                                  *)

Goes(a, at) == req' = [req EXCEPT ![a].at = at]

\* DeleteById of the next id
DeleteNext(a) ==
    /\ req[a].at = "row"
    /\ rows' = [rows EXCEPT ![Head(req[a].ids)] = None]
    /\ Goes(a, "drop")
    /\ UNCHANGED <<manager, memory>>

\* Mutant: the list is made again, but of the same rules.
DropNothing(a) ==
    /\ req[a].at = "drop"
    /\ Goes(a, "load")
    /\ UNCHANGED <<rows, manager, memory>>

\* Manager.Del
Drop(a) ==
    /\ req[a].at = "drop"
    /\ securities' = [securities EXCEPT ![Head(req[a].ids)] = None]
    /\ Goes(a, "load")
    /\ UNCHANGED <<rows, values, memory>>

\* Manager.Add
Store(a) ==
    /\ req[a].at = "store"
    /\ securities' = [securities EXCEPT ![Head(req[a].ids)] = req[a].rule]
    /\ req' = [req EXCEPT ![a].at = "load", ![a].stored = TRUE]
    /\ UNCHANGED <<rows, values, memory>>

\* LoadData up to the assignment
Load(a) ==
    /\ req[a].at = "load"
    /\ \E s \in Sorted(securities) :
          req' = [req EXCEPT ![a].at = "assign", ![a].seen = s]
    /\ UNCHANGED <<rows, manager, memory>>

\* Mutant: an update ends when the old rule is out.
OnwardHalf(r) ==
    CASE r.op = "delete" /\ Len(r.ids) > 1 -> [r EXCEPT !.at = "row", !.seen = <<>>,
                                                        !.ids = Tail(r.ids)]
      [] r.op = "restore"                  -> [r EXCEPT !.at = "end", !.seen = <<>>]
      [] OTHER                             -> NoRequest

\* what a request does once its list is in place
Onward(r) ==
    CASE r.op = "update" /\ ~r.stored      -> [r EXCEPT !.at = "store", !.seen = <<>>]
      [] r.op = "delete" /\ Len(r.ids) > 1 -> [r EXCEPT !.at = "row", !.seen = <<>>,
                                                        !.ids = Tail(r.ids)]
      [] r.op = "restore"                  -> [r EXCEPT !.at = "end", !.seen = <<>>]
      [] OTHER                             -> NoRequest

\* m.values = values
Assign(a) ==
    /\ req[a].at = "assign"
    /\ values' = req[a].seen
    /\ settled' = req[a].alone
    /\ req' = [req EXCEPT ![a] = Onward(req[a])]
    /\ UNCHANGED <<rows, securities, contested, orphans>>

\* the transaction of the import
Commit(a) ==
    /\ req[a].at = "end"
    /\ rows' = [rows EXCEPT ![Head(req[a].ids)] = req[a].rule]
    /\ req' = [req EXCEPT ![a] = NoRequest]
    /\ UNCHANGED <<manager, memory>>

\* a later item of the import failed: the manager keeps the rule
RollBack(a) ==
    /\ req[a].at = "end"
    /\ orphans' = orphans \cup Handles(a)
    /\ req' = [req EXCEPT ![a] = NoRequest]
    /\ UNCHANGED <<rows, manager, settled, contested>>

\* Mutant: the rules are in the map, the list is made by the next change.
RestartLazy ==
    /\ securities' = rows
    /\ values' = <<>>
    /\ req' = [a \in Admin |-> NoRequest]
    /\ settled' = TRUE
    /\ contested' = {}
    /\ orphans' = {}
    /\ UNCHANGED rows

\* The server stops at any point and starts again: ReloadAccessSecurity adds
\* the rows one by one before the doors open.
Restart ==
    /\ securities' = rows
    /\ values' \in Sorted(rows)
    /\ req' = [a \in Admin |-> NoRequest]
    /\ settled' = TRUE
    /\ contested' = {}
    /\ orphans' = {}
    /\ UNCHANGED rows

\* the ids of one DELETE
Batch == {<<i>> : i \in Id} \cup {b \in Id \X Id : b[1] # b[2]}

Next ==
    \/ \E a \in Admin :
         \/ \E s \in Rule : Create(a, s) \/ Update(a, s) \/ Import(a, s)
         \/ \E ids \in Batch : Delete(a, ids)
         \/ DeleteNext(a)
         \/ Drop(a) \/ Store(a) \/ Load(a) \/ Assign(a)
         \/ Commit(a) \/ RollBack(a)
    \/ Restart

Spec == Init /\ [][Next]_vars

-----------------------------------------------------------------------------
(* The inductive invariant.                                                *)

\* Ids whose rule in the list may be about to change: a request at work on
\* them has still to assign.
Pending == UNION {Handles(a) : a \in {b \in Admin : req[b].at # "end"}}

InList(i) == {s \in ElementsOf(values) : s.id = i}

\* Which calls which requests are at.
Shape ==
    \A a \in Admin :
      LET r == req[a]
      IN  /\ Idle(a) => r = NoRequest
          /\ ~Idle(a) => r.ids # <<>> /\ r.op # "none"
          /\ r.op \in {"create", "update", "restore"} =>
               r.rule \in Rule /\ r.ids = <<r.rule.id>>
          /\ r.at = "row" => r.op = "delete" /\ ~r.stored
          /\ r.at = "drop" => r.op \in {"update", "delete"} /\ ~r.stored
          /\ r.at = "store" => r.op # "delete" /\ ~r.stored
          /\ r.at = "end" => r.op = "restore" /\ r.stored
          /\ r.at \in {"load", "assign"} =>
               IF r.op = "delete" THEN ~r.stored ELSE r.op = "update" \/ r.stored

\* What a request has done to the rule it is at.
Progress ==
    \A a \in Admin :
      LET r == req[a]
          i == Head(r.ids)
      IN  ~Idle(a) /\ i \notin contested =>
            /\ r.op = "create" => rows[i] = r.rule
            /\ r.op = "update" => rows[i] = r.rule \/ i \in orphans
            /\ r.stored => securities[i] = r.rule
            /\ r.op = "delete" /\ r.at # "row" => rows[i] = None
            /\ r.op = "delete" /\ r.at \in {"load", "assign"} => securities[i] = None

Overlaps ==
    \A a, b \in Admin : a # b => Handles(a) \cap Handles(b) \subseteq contested

\* A request that runs alone is the only one, and until an overlap is repaired
\* the list is not relied on.
Alone ==
    \A a \in Admin :
      ~Idle(a) => IF req[a].alone THEN OthersIdle(a) ELSE ~settled

Keyed == \A i \in Id : /\ rows[i] # None => rows[i].id = i
                       /\ securities[i] # None => securities[i].id = i

\* What the lists hold.
Lists ==
    /\ Ascends(values)
    /\ settled => \A i \in Id \ Pending : InList(i) = {securities[i]} \ {None}
    /\ \A a \in Admin :
         /\ Ascends(req[a].seen)
         /\ req[a].at = "assign" /\ req[a].alone =>
              ElementsOf(req[a].seen) = RulesOf(securities)

-----------------------------------------------------------------------------
(* The doors.  Both walk the list they read once.                          *)

Largest(ks)  == CHOOSE k \in ks : \A l \in ks : l <= k
Smallest(ks) == CHOOSE k \in ks : \A l \in ks : k <= l

\* TcpWall splits the field at its commas.  connCallback does not: of several
\* groups it makes none if one has a "/", and if one has a "-" the range from what
\* stands before the first "-" to what follows up to the next, where a part that
\* is no number counts as 0.
Covers(s, ip)      == ip \in s.ip
CoversWhole(s, ip) == ip \in s.whole

\* TcpWall: each match overrides the one before
HttpPasses(list, ip) ==
    LET hits == {k \in DOMAIN list : Covers(list[k], ip)}
    IN  hits = {} \/ list[Largest(hits)].rule = "allow"

\* connCallback: returns at the first match
SshPasses(list, ip) ==
    LET hits == {k \in DOMAIN list : CoversWhole(list[k], ip)}
    IN  hits = {} \/ list[Smallest(hits)].rule = "allow"

-----------------------------------------------------------------------------
(* Properties.                                                             *)

\* The ids whose rows and memory must agree: no request is at work on them,
\* none overlapped with another on them and none left them without a row.
Agreed == Id \ (InHand \cup contested \cup orphans)

\* The manager holds what the table holds, rule by rule, whatever requests do
\* to other rules meanwhile (Create, Update, Delete and the import each change
\* both, in several steps).
MapFollowsRows == \A i \in Agreed : securities[i] = rows[i]

\* The inductive invariant: what each request has done so far to the rules it
\* handles, which requests overlap, and what the list holds meanwhile.
SecurityInv ==
    /\ TypeOK /\ Shape /\ Progress /\ Overlaps /\ Alone /\ Keyed /\ Lists
    /\ MapFollowsRows

\* Unless requests overlapped since, the list in force has exactly the rules of
\* the table, also between the two loads of an update and in the middle of a
\* deletion: changing a rule never lifts another.  The first request that runs
\* alone repairs what an overlap has done to the list.
InForce ==
    settled => \A i \in Agreed : InList(i) = {rows[i]} \ {None}

\* what rules say of a client they cover; where none does a door is open
Verdicts(hits) == IF hits = {} THEN {TRUE} ELSE {s.rule = "allow" : s \in hits}

\* those that go first: the smaller the number, the higher the priority
Foremost(hits) == {s \in hits : \A t \in hits : s.priority <= t.priority}

\* When no request is under way each door decides as the table says.  The SSH
\* server lets a client in as a row of the smallest number says that covers its
\* address.  The wall before the HTTP server says nothing that no covering row
\* says, so it follows the rows wherever they agree; where they do not it lets the
\* largest number decide, against the comments of the code, and nothing is
\* promised here.
DoorsDecide ==
    settled /\ Agreed = Id =>
      \A ip \in Ip :
        /\ SshPasses(values, ip) \in
             Verdicts(Foremost({s \in RulesOf(rows) : CoversWhole(s, ip)}))
        /\ HttpPasses(values, ip) \in Verdicts({s \in RulesOf(rows) : Covers(s, ip)})
=============================================================================
