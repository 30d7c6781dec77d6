------------------------------- MODULE Login -------------------------------
(***************************************************************************)
(* Who is logged in: the users table, the login logs and the token cache.  *)
(*                                                                         *)
(* A login puts a token in the cache, marks its user online and writes a   *)
(* log whose id is the token.  Whatever takes the token out of the cache   *)
(* (a logout, an administrator, the janitor of the cache) thereby calls    *)
(* OnEvicted, which closes the log and, if no log of that name is alive,   *)
(* marks the user offline.  The cache is lost with the process and made    *)
(* again from the logs.                                                    *)
(*                                                                         *)
(* A request is a sequence of calls on the three, and requests interleave  *)
(* between any two.  Passwords, second factors and policies only decide    *)
(* whether a login goes on; the count of failures is not modelled.         *)
(***************************************************************************)
CONSTANTS
    Users,      \* ids of users, never used twice
    Names,      \* the names they log in with
    Tokens,     \* ids of logs, never used twice
    Actors,     \* requests under way, the janitor of the cache among them
    Renames,    \* may the form of a user change its name?
    None

VARIABLES
    user,   \* rows of users
    log,    \* rows of login logs
    cache,  \* the token cache
    phase,  \* of the server
    req,    \* the requests
    mixed,  \* history: the names about which requests have overlapped, with
            \* others or with changes of users
    moved,  \* history: the names users have given up or taken
    restored \* history: the users a backup brought marked online, until they
            \* log in or the server is started

history == <<mixed, moved, restored>>
vars    == <<user, log, cache, phase, req, history>>

User  == [status : {"absent", "enabled", "disabled", "deleted"},
          name : Names \cup {None}, online : BOOLEAN]
Log   == [state : {"none", "alive", "closed", "deleted"},
          name : Names \cup {None}, kind : {"web", "terminal"}]
Entry == [user : Users, fresh : BOOLEAN]

ASSUME LoginAssumption ==
    /\ Renames \in BOOLEAN
    /\ None \notin Users /\ None \notin Names /\ None \notin Tokens
    /\ None \notin Entry

\* where a request is, what it is, about whom, the token it is at work on,
\* those it has still to end, and where it goes when the log is closed
Request ==
    [at    : {"idle", "token", "log", "refresh", "each", "close",
              "count", "offline", "drop", "row", "erase", "status"},
     op    : {"none", "login", "call", "logout", "disable", "delete", "purge",
              "sweep"},
     user  : Users \cup {None},
     name  : Names \cup {None},
     token : Tokens \cup {None},
     todo  : SUBSET Tokens,
     back  : {"each", "drop", "row"}]

NoRequest == [at |-> "idle", op |-> "none", user |-> None, name |-> None,
              token |-> None, todo |-> {}, back |-> "each"]

Exists(u) == user[u].status \in {"enabled", "disabled"}
Free(n)   == \A u \in Users : Exists(u) => user[u].name # n
Alive(n)  == {t \in Tokens : log[t].state = "alive" /\ log[t].name = n}

TypeOK ==
    /\ user \in [Users -> User]
    /\ log \in [Tokens -> Log]
    /\ cache \in [Tokens -> Entry \cup {None}]
    /\ phase \in {"down", "boot", "up"}
    /\ req \in [Actors -> Request]
    /\ mixed \in SUBSET Names /\ moved \in SUBSET (Names \cup {None})
    /\ restored \in SUBSET Users

Init ==
    /\ user = [u \in Users |-> [status |-> "absent", name |-> None, online |-> FALSE]]
    /\ log = [t \in Tokens |-> [state |-> "none", name |-> None, kind |-> "web"]]
    /\ cache = [t \in Tokens |-> None]
    /\ phase = "down"
    /\ req = [a \in Actors |-> NoRequest]
    /\ mixed = {} /\ moved = {} /\ restored = {}

-----------------------------------------------------------------------------
\* the names a request is about
About(a) ==
    {req[a].name} \cup {log[t].name : t \in req[a].todo \cup ({req[a].token} \ {None})}

Mix(S) ==
    LET N == S \ {None} IN
    mixed' = IF \E n \in N : n \in mixed \/ \E a \in Actors : n \in About(a)
             THEN mixed \cup N ELSE mixed

Idle(a) == phase = "up" /\ req[a].at = "idle"

At(a, call) == phase = "up" /\ req[a].at = call

Begin(a, what, call, u, n, t, S) ==
    /\ Idle(a)
    /\ Mix({n} \cup {log[x].name : x \in S}) /\ UNCHANGED <<moved, restored>>
    /\ req' = [req EXCEPT ![a] =
                 [at |-> call, op |-> what, user |-> u, name |-> n,
                  token |-> t, todo |-> S, back |-> "each"]]

Goto(a, call) == req' = [req EXCEPT ![a] = [@ EXCEPT !.at = call]]

Over(a) == req' = [req EXCEPT ![a] = NoRequest]

-----------------------------------------------------------------------------
(* LoginEndpoint.                                                          *)

Unused(t) ==
    log[t].state = "none" /\ cache[t] = None /\ \A a \in Actors : req[a].token # t

FindUser(a, u, t) ==
    /\ user[u].status = "enabled" /\ Unused(t)
    /\ Begin(a, "login", "token", u, user[u].name, t, {})
    /\ UNCHANGED <<user, log, cache, phase>>

\* the password, the second factor or a policy
Refused(a) ==
    /\ At(a, "token")
    /\ Over(a)
    /\ UNCHANGED <<user, log, cache, phase, history>>

Fresh(t, u) == cache' = [cache EXCEPT ![t] = [user |-> u, fresh |-> TRUE]]

\* nobody has seen the token yet when the user is marked online
LoginSuccess(a) ==
    /\ At(a, "token")
    /\ Fresh(req[a].token, req[a].user)
    /\ user' = IF Exists(req[a].user)
               THEN [user EXCEPT ![req[a].user] = [@ EXCEPT !.online = TRUE]]
               ELSE user
    /\ restored' = restored \ {req[a].user}
    /\ Goto(a, "log")
    /\ UNCHANGED <<log, phase, mixed, moved>>

Logged(n, k) == [state |-> "alive", name |-> n, kind |-> k]

SaveLoginLog(a) ==
    /\ At(a, "log")
    /\ log' = [log EXCEPT ![req[a].token] = Logged(req[a].name, "web")]
    /\ Over(a)
    /\ UNCHANGED <<user, cache, phase, history>>

\* a session of the SSH server: a log, but no token, and nobody is told
TerminalLogin(u, t) ==
    /\ phase = "up" /\ Exists(u) /\ Unused(t)
    /\ log' = [log EXCEPT ![t] = Logged(user[u].name, "terminal")]
    /\ UNCHANGED <<user, cache, phase, req, history>>

-----------------------------------------------------------------------------
(* The Auth middleware, and the logout behind it.                          *)

Known(t) == log[t].state # "none" /\ log[t].kind = "web"

Call(a, t) ==
    /\ Known(t) /\ cache[t] # None /\ cache[t].fresh
    /\ \E what \in {"call", "logout"} :
         Begin(a, what, "refresh", cache[t].user, log[t].name, t, {})
    /\ UNCHANGED <<user, log, cache, phase>>

Refresh(a) ==
    /\ At(a, "refresh")
    /\ Fresh(req[a].token, req[a].user)
    /\ IF req[a].op = "call" THEN Over(a)
       ELSE req' = [req EXCEPT ![a] =
                      [@ EXCEPT !.at = "each", !.todo = {req[a].token}]]
    /\ UNCHANGED <<user, log, phase, history>>

-----------------------------------------------------------------------------
(* The users.                                                              *)

NewUser(u, n, status, online) ==
    /\ phase = "up" /\ user[u].status = "absent" /\ Free(n)
    /\ user' = [user EXCEPT ![u] =
                  [status |-> status, name |-> n, online |-> online]]
    /\ restored' = IF online THEN restored \cup {u} ELSE restored
    /\ Mix({n}) /\ UNCHANGED moved
    /\ UNCHANGED <<log, cache, phase, req>>

CreateUser(u, n) == NewUser(u, n, "enabled", FALSE)

\* a backup keeps the status and the mark of where it was exported, and whoever
\* exports is online
RestoreUser(u, n) ==
    \E status \in {"enabled", "disabled"}, online \in BOOLEAN :
        NewUser(u, n, status, online)

\* the logs keep the name
UpdateUser(u, n) ==
    /\ phase = "up" /\ Exists(u)
    /\ n = user[u].name \/ (Renames /\ Free(n))
    /\ user' = [user EXCEPT ![u] = [@ EXCEPT !.name = n]]
    /\ moved' = IF n = user[u].name THEN moved ELSE moved \cup {n, user[u].name}
    /\ Mix({n, user[u].name})
    /\ UNCHANGED <<log, cache, phase, req, restored>>

Enable(u) ==
    /\ phase = "up" /\ user[u].status = "disabled"
    /\ user' = [user EXCEPT ![u] = [@ EXCEPT !.status = "enabled"]]
    /\ UNCHANGED <<log, cache, phase, req, history>>

\* the tokens of a user are the logs of its name that are alive
Disable(a, u) ==
    /\ Exists(u)
    /\ Begin(a, "disable", "each", u, user[u].name, None, Alive(user[u].name))
    /\ UNCHANGED <<user, log, cache, phase>>

DeleteUser(a, u) ==
    /\ Exists(u)
    /\ Begin(a, "delete", "erase", u, user[u].name, None, Alive(user[u].name))
    /\ UNCHANGED <<user, log, cache, phase>>

SetStatus(a, status) ==
    /\ user' = IF Exists(req[a].user)
               THEN [user EXCEPT ![req[a].user] = [@ EXCEPT !.status = status]]
               ELSE user
    /\ UNCHANGED <<log, cache, phase, history>>

Erase(a) ==
    /\ At(a, "erase")
    /\ SetStatus(a, "deleted")
    /\ Goto(a, "each")

Status(a) ==
    /\ At(a, "status")
    /\ SetStatus(a, "disabled")
    /\ Over(a)

-----------------------------------------------------------------------------
(* The end of a token.                                                     *)

\* DeleteLoginLogs: a list of logs is one request after the other
DeleteLoginLogs(a, t) ==
    /\ log[t].state \in {"alive", "closed"}
    /\ Begin(a, "purge", "each", None, None, None, {t})
    /\ UNCHANGED <<user, log, cache, phase>>

\* Mutant: the entry stays until its time is over.
KeepIn(S) == UNCHANGED cache

\* out of the cache
TakeOut(S) == cache' = [t \in Tokens |-> IF t \in S THEN None ELSE cache[t]]

Expired == {t \in Tokens : cache[t] # None /\ ~cache[t].fresh}

\* a login is over long before its token is
Expire(t) ==
    /\ phase = "up" /\ cache[t] # None /\ cache[t].fresh
    /\ log[t].state # "none"
    /\ cache' = [cache EXCEPT ![t] = [@ EXCEPT !.fresh = FALSE]]
    /\ UNCHANGED <<user, log, phase, req, history>>

\* DeleteExpired takes all of them out before it tells of the first
Sweep(a) ==
    /\ Expired # {} /\ \A b \in Actors : req[b].op # "sweep"
    /\ Begin(a, "sweep", "each", None, None, None, Expired)
    /\ TakeOut(Expired)
    /\ UNCHANGED <<user, log, phase>>

Work(a, call, t, x, back) ==
    req' = [req EXCEPT ![a] =
              [@ EXCEPT !.at = call, !.token = x, !.back = back,
                        !.todo = req[a].todo \ {t}]]

\* Mutant: what has expired is not there.
EvictsFresh(t) == cache[t] # None /\ cache[t].fresh

\* OnEvicted is called for what was there, expired or not
Evicts(t) == cache[t] # None

\* Logout, for each of the tokens
Each(a, t) ==
    /\ At(a, "each") /\ t \in req[a].todo
    /\ CASE req[a].op = "sweep" -> Work(a, "close", t, t, "each") /\ UNCHANGED cache
         [] req[a].op = "purge" -> Work(a, "close", t, t, "drop") /\ UNCHANGED cache
         [] OTHER ->
              /\ IF Evicts(t) THEN Work(a, "close", t, t, "each")
                 ELSE Work(a, "each", t, None, "each")
              /\ TakeOut({t})
    /\ UNCHANGED <<user, log, phase, history>>

EachDone(a) ==
    /\ At(a, "each") /\ req[a].todo = {}
    /\ IF req[a].op = "disable" THEN Goto(a, "status") ELSE Over(a)
    /\ UNCHANGED <<user, log, cache, phase, history>>

\* the name in the log a request has closed
Closed(a) == log[req[a].token].name

\* to the next token, or to what is left to do for this one
GoBack(a) ==
    IF req[a].back = "each"
    THEN req' = [req EXCEPT ![a] = [@ EXCEPT !.at = "each", !.token = None]]
    ELSE Goto(a, req[a].back)

\* LogoutByToken; a log that is gone ends the request that asked for it, not
\* the eviction
Close(a) ==
    /\ At(a, "close")
    /\ LET t == req[a].token IN
       IF log[t].state \in {"alive", "closed"}
       THEN /\ log' = [log EXCEPT ![t] = [@ EXCEPT !.state = "closed"]]
            /\ Goto(a, "count")
       ELSE /\ IF req[a].back = "drop" THEN Over(a) ELSE GoBack(a)
            /\ UNCHANGED log
    /\ UNCHANGED <<user, cache, phase, history>>

\* Mutant: the log that was just closed is counted.
NoneLeftEarly(a) == Alive(Closed(a)) \cup {req[a].token} = {}

\* Mutant: whoever logs out goes offline.
NoneLeftAny(a) == TRUE

NoneLeft(a) == Alive(Closed(a)) = {}

Count(a) ==
    /\ At(a, "count")
    /\ IF NoneLeft(a) THEN Goto(a, "offline") ELSE GoBack(a)
    /\ UNCHANGED <<user, log, cache, phase, history>>

\* UpdateOnlineByUsername
Offline(a) ==
    /\ At(a, "offline")
    /\ user' = [u \in Users |->
                  IF Exists(u) /\ user[u].name = Closed(a)
                  THEN [user[u] EXCEPT !.online = FALSE] ELSE user[u]]
    /\ GoBack(a)
    /\ UNCHANGED <<log, cache, phase, history>>

Drop(a) ==
    /\ At(a, "drop")
    /\ LET t == req[a].token IN
         /\ TakeOut({t})
         /\ IF Evicts(t)
            THEN req' = [req EXCEPT ![a] = [@ EXCEPT !.at = "close", !.back = "row"]]
            ELSE Goto(a, "row")
    /\ UNCHANGED <<user, log, phase, history>>

DeleteRow(t) == log' = [log EXCEPT ![t] = [@ EXCEPT !.state = "deleted"]]

Row(a) ==
    /\ At(a, "row")
    /\ DeleteRow(req[a].token)
    /\ req' = [req EXCEPT ![a] = [@ EXCEPT !.at = "each", !.token = None, !.back = "each"]]
    /\ UNCHANGED <<user, cache, phase, history>>

\* the ticker deletes old logs that are closed
DeleteOutTime(t) ==
    /\ phase = "up" /\ log[t].state = "closed"
    /\ DeleteRow(t)
    /\ UNCHANGED <<user, cache, phase, req, history>>

-----------------------------------------------------------------------------
(* The life of the server.                                                 *)

Crash ==
    /\ phase # "down"
    /\ phase' = "down"
    /\ cache' = [t \in Tokens |-> None]
    /\ req' = [a \in Actors |-> NoRequest]
    /\ UNCHANGED <<user, log, history>>

FixUserOnlineState ==
    /\ phase = "down"
    /\ phase' = "boot"
    /\ user' = [u \in Users |->
                  IF Exists(u) /\ Alive(user[u].name) = {}
                  THEN [user[u] EXCEPT !.online = FALSE] ELSE user[u]]
    /\ restored' = {}
    /\ UNCHANGED <<log, cache, req, mixed, moved>>

Named(n) == {u \in Users : Exists(u) /\ user[u].name = n}

ReloadToken ==
    /\ phase = "boot"
    /\ phase' = "up"
    /\ log' = [t \in Tokens |->
                 IF log[t].state = "alive" /\ Named(log[t].name) = {}
                 THEN [log[t] EXCEPT !.state = "deleted"] ELSE log[t]]
    /\ cache' = [t \in Tokens |->
                   IF log[t].state = "alive" /\ Named(log[t].name) # {}
                   THEN [user |-> CHOOSE u \in Named(log[t].name) : TRUE, fresh |-> TRUE]
                   ELSE None]
    /\ UNCHANGED <<user, req, history>>

-----------------------------------------------------------------------------
Asks(a) ==
    \/ \E u \in Users : Disable(a, u) \/ DeleteUser(a, u)
    \/ \E u \in Users, t \in Tokens : FindUser(a, u, t)
    \/ \E t \in Tokens : Call(a, t) \/ DeleteLoginLogs(a, t)
    \/ Sweep(a)

Step(a) ==
    \/ LoginSuccess(a) \/ SaveLoginLog(a) \/ Refresh(a)
    \/ \E t \in Tokens : Each(a, t)
    \/ EachDone(a) \/ Status(a) \/ Erase(a)
    \/ Close(a) \/ Count(a) \/ Offline(a) \/ Drop(a) \/ Row(a)

Others ==
    \/ \E u \in Users : Enable(u)
    \/ \E u \in Users, n \in Names :
         CreateUser(u, n) \/ RestoreUser(u, n) \/ UpdateUser(u, n)
    \/ \E u \in Users, t \in Tokens : TerminalLogin(u, t)
    \/ \E t \in Tokens : Expire(t) \/ DeleteOutTime(t)

Server == Crash \/ FixUserOnlineState \/ ReloadToken

Next ==
    \/ \E a \in Actors : Asks(a) \/ Refused(a) \/ Step(a)
    \/ Others
    \/ Server

Spec == Init /\ [][Next]_vars

-----------------------------------------------------------------------------
(* Properties.                                                             *)

Web(t) == log[t].state = "alive" /\ log[t].kind = "web"

Closing(a, t) ==
    \/ req[a].at = "close" /\ req[a].token = t
    \/ req[a].op = "sweep" /\ t \in req[a].todo

\* Every login of a browser that the login logs show as alive has its token in
\* the cache, so that it can be ended or runs out, or it is just being ended:
\* however logins, calls, logouts, the janitor, administrators and restarts
\* overlap.
LiveLogHasToken ==
    phase = "up" => \A t \in Tokens :
        Web(t) => cache[t] # None \/ \E a \in Actors : Closing(a, t)

Settles(a, n) ==
    \/ req[a].at = "log" /\ req[a].name = n
    \/ req[a].at \in {"count", "offline"} /\ Closed(a) = n

Backed(n) == Alive(n) # {} \/ \E a \in Actors : Settles(a, n)

\* A user who is shown as online has a login that is alive, or a request is
\* just about to make one or to mark the user offline; only a user whom a backup
\* brought marked online may have none, and a login or the next start of the
\* server ends that.
OnlineHasLog ==
    phase # "down" => \A u \in Users \ restored :
        Exists(u) /\ user[u].online /\ user[u].name \notin moved =>
            Backed(user[u].name)

\* If no two requests about a user have ever overlapped, a user with a login of
\* a browser that is alive is shown as online.
LoggedInIsOnline ==
    phase = "up" => \A u \in Users :
        /\ Exists(u) /\ user[u].name \notin mixed \cup moved
        /\ \A a \in Actors : user[u].name \notin About(a)
        /\ \E t \in Alive(user[u].name) : Web(t)
        => user[u].online

Works(t) == cache[t] # None /\ Known(t)

Out(u) == \A t \in Tokens : Works(t) => cache[t].user # u

EndedAlone(u) ==
    /\ user[u].status \in {"disabled", "deleted"} /\ user[u].name \notin mixed
    /\ \A a \in Actors : user[u].name \notin About(a)

\* If no two requests about a user have ever overlapped, a user who has been
\* disabled or deleted and kept the name has no token of a login that works,
\* whatever happened between, restarts included.
DisabledIsOffline ==
    phase = "up" => \A u \in Users :
        EndedAlone(u) /\ user[u].name \notin moved => Out(u)

-----------------------------------------------------------------------------
(* Where the code and what the repository says of it part.                 *)

\* "take this user offline": a user who has been disabled or deleted has no
\* token of a login that works.
DisabledTakesOffline ==
    phase = "up" => \A u \in Users : EndedAlone(u) => Out(u)

-----------------------------------------------------------------------------
(* The inductive invariant.                                                *)

Saved(t) == log[t].state # "none"

\* what a request holds at each of its calls
RequestOK(a) ==
    LET r == req[a] IN
    /\ phase # "up" => r = NoRequest
    /\ r.at = "idle" => r = NoRequest
    /\ \A t \in r.todo : Saved(t)
    /\ r.at \in {"token", "log"} =>
         /\ r.op = "login" /\ r.token # None /\ r.user # None /\ ~Saved(r.token)
         /\ \A b \in Actors \ {a} : req[b].token # r.token
         /\ user[r.user].status # "absent"
         /\ Exists(r.user) /\ user[r.user].name \notin moved
               => user[r.user].name = r.name
    /\ r.at = "log" => cache[r.token] # None
    /\ r.at = "refresh" => r.user # None
    /\ r.at \in {"refresh", "close", "count", "offline", "drop", "row"} =>
         r.token # None /\ Saved(r.token)
    /\ r.at \in {"count", "offline", "drop", "row"} => log[r.token].state # "alive"
    /\ r.op = "sweep" =>
         r.back = "each" /\ r.at \in {"each", "close", "count", "offline"}

\* Every call of a request finds what the one before it left; a token that has
\* expired has a log; and logs, tokens and users agree.
LoginInv ==
    /\ TypeOK
    /\ \A a \in Actors : RequestOK(a)
    /\ \A t \in Tokens : cache[t] # None /\ ~cache[t].fresh => Saved(t)
    /\ LiveLogHasToken
    /\ OnlineHasLog
=============================================================================
