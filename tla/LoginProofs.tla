---------------------------- MODULE LoginProofs ----------------------------
(* Theorems about Login.                                                   *)
EXTENDS Login, TLAPS

\* The invariant holds before the first start.
LEMMA InitInv == Init => LoginInv
<1> SUFFICES ASSUME Init PROVE LoginInv
  OBVIOUS
<1> USE LoginAssumption DEF Init
<1>1. TypeOK
  BY DEF TypeOK, User, Log, Entry, Request, NoRequest
<1>2. \A a \in Actors : RequestOK(a)
  BY DEF RequestOK, NoRequest
<1>3. LiveLogHasToken /\ OnlineHasLog
  BY DEF LiveLogHasToken, OnlineHasLog
<1> QED
  BY <1>1, <1>2, <1>3 DEF LoginInv

-----------------------------------------------------------------------------
(* Types.                                                                  *)

\* Work makes a request of a request.
LEMMA Reworked ==
    ASSUME NEW r \in Request, NEW t, NEW x \in Tokens \cup {None}, NEW c \in {"each", "close"},
           NEW b \in {"each", "drop"}
    PROVE  [r EXCEPT !.at = c, !.token = x, !.back = b, !.todo = r.todo \ {t}] \in Request
<1> DEFINE T == r.todo \ {t}
<1>1. T \in SUBSET Tokens
  BY DEF Request
<1> HIDE DEF T
<1>2. [r EXCEPT !.at = c, !.token = x, !.back = b, !.todo = T] \in Request
  BY <1>1 DEF Request
<1> QED
  BY <1>2 DEF T

\* what a request becomes
LEMMA RequestTypes ==
    ASSUME TypeOK, NEW a \in Actors,
           \/ \E c \in {"idle", "token", "log", "refresh", "each", "close",
                        "count", "offline", "drop", "row", "erase", "status"} :
                Goto(a, c)
           \/ Over(a)
           \/ \E t \in Tokens, x \in Tokens \cup {None}, c \in {"each", "close"},
                 b \in {"each", "drop"} : Work(a, c, t, x, b)
           \/ \E w \in {"login", "call", "logout", "disable", "delete", "purge", "sweep"},
                 c \in {"token", "refresh", "each", "erase"},
                 u \in Users \cup {None}, n \in Names \cup {None},
                 t \in Tokens \cup {None}, S \in SUBSET Tokens :
                Begin(a, w, c, u, n, t, S)
           \/ UNCHANGED req
    PROVE  req' \in [Actors -> Request]
<1> USE DEF TypeOK
<1>1. ASSUME NEW r \in Request, req' = [req EXCEPT ![a] = r] PROVE req' \in [Actors -> Request]
  BY <1>1
<1>2. CASE \E c \in {"idle", "token", "log", "refresh", "each", "close",
                        "count", "offline", "drop", "row", "erase", "status"} :
                Goto(a, c)
  <2> PICK c \in {"idle", "token", "log", "refresh", "each", "close",
                        "count", "offline", "drop", "row", "erase", "status"} :
                Goto(a, c)
    BY <1>2
  <2>1. [req[a] EXCEPT !.at = c] \in Request
    BY DEF Request
  <2> QED
    BY <1>1, <2>1 DEF Goto
<1>3. CASE Over(a)
  BY <1>3 DEF Over, Request, NoRequest
<1>4. CASE \E t \in Tokens, x \in Tokens \cup {None}, c \in {"each", "close"},
                 b \in {"each", "drop"} : Work(a, c, t, x, b)
  <2> PICK t \in Tokens, x \in Tokens \cup {None}, c \in {"each", "close"},
                 b \in {"each", "drop"} : Work(a, c, t, x, b)
    BY <1>4
  <2>1. [req[a] EXCEPT !.at = c, !.token = x, !.back = b,
                        !.todo = req[a].todo \ {t}] \in Request
    BY Reworked
  <2> QED
    BY <1>1, <2>1 DEF Work
<1>5. CASE \E w \in {"login", "call", "logout", "disable", "delete", "purge", "sweep"},
                 c \in {"token", "refresh", "each", "erase"},
                 u \in Users \cup {None}, n \in Names \cup {None},
                 t \in Tokens \cup {None}, S \in SUBSET Tokens :
                Begin(a, w, c, u, n, t, S)
  <2> PICK w \in {"login", "call", "logout", "disable", "delete", "purge", "sweep"},
           c \in {"token", "refresh", "each", "erase"},
           u \in Users \cup {None}, n \in Names \cup {None},
           t \in Tokens \cup {None}, S \in SUBSET Tokens :
                Begin(a, w, c, u, n, t, S)
    BY <1>5
  <2>1. [at |-> c, op |-> w, user |-> u, name |-> n, token |-> t, todo |-> S,
         back |-> "each"] \in Request
    BY DEF Request
  <2> QED
    BY <1>1, <2>1 DEF Begin
<1>6. CASE UNCHANGED req
  BY <1>6
<1> QED
  BY <1>2, <1>3, <1>4, <1>5, <1>6

\* A request whose log is closed goes back to a call there is.
LEMMA GoBackTypes ==
    ASSUME TypeOK, NEW a \in Actors, GoBack(a)
    PROVE  req' \in [Actors -> Request]
<1>1. [req[a] EXCEPT !.at = "each", !.token = None] \in Request
  BY ZenonT(40) DEF TypeOK, Request
<1>2. CASE req[a].back = "each"
  BY <1>1, <1>2 DEF GoBack, TypeOK
<1>3. CASE req[a].back # "each"
  <2>1. Goto(a, "drop") \/ Goto(a, "row")
    BY <1>3 DEF GoBack, TypeOK, Request
  <2> QED
    BY <2>1, RequestTypes
<1> QED
  BY <1>2, <1>3

\* the rows of users and logs, and the cache
LEMMA RowTypes ==
    ASSUME TypeOK
    PROVE  /\ \A u \in Users, o \in BOOLEAN : [user[u] EXCEPT !.online = o] \in User
           /\ \A u \in Users, n \in Names : [user[u] EXCEPT !.name = n] \in User
           /\ \A u \in Users, st \in {"enabled", "disabled", "deleted"} :
                [user[u] EXCEPT !.status = st] \in User
           /\ \A t \in Tokens, st \in {"closed", "deleted"} :
                [log[t] EXCEPT !.state = st] \in Log
           /\ \A n \in Names \cup {None}, k \in {"web", "terminal"} : Logged(n, k) \in Log
           /\ \A S \in SUBSET Tokens : TakeOut(S) => cache' \in [Tokens -> Entry \cup {None}]
           /\ \A t \in Tokens, u \in Users :
                Fresh(t, u) => cache' \in [Tokens -> Entry \cup {None}]
<1> USE DEF TypeOK
<1>1. \A u \in Users, o \in BOOLEAN : [user[u] EXCEPT !.online = o] \in User
  BY DEF User
<1>2. \A u \in Users, n \in Names : [user[u] EXCEPT !.name = n] \in User
  BY DEF User
<1>3. \A u \in Users, st \in {"enabled", "disabled", "deleted"} :
                [user[u] EXCEPT !.status = st] \in User
  BY DEF User
<1>4. \A t \in Tokens, st \in {"closed", "deleted"} : [log[t] EXCEPT !.state = st] \in Log
  BY DEF Log
<1>5. \A n \in Names \cup {None}, k \in {"web", "terminal"} : Logged(n, k) \in Log
  BY DEF Log, Logged
<1>6. \A S \in SUBSET Tokens : TakeOut(S) => cache' \in [Tokens -> Entry \cup {None}]
  BY DEF TakeOut
<1>7. \A t \in Tokens, u \in Users :
                Fresh(t, u) => cache' \in [Tokens -> Entry \cup {None}]
  BY DEF Fresh, Entry
<1> QED
  BY <1>1, <1>2, <1>3, <1>4, <1>5, <1>6, <1>7

\* Each call of a request keeps the types.
LEMMA StepTypes ==
    ASSUME TypeOK, NEW a \in Actors, RequestOK(a), Step(a)
    PROVE  TypeOK'
<1> USE LoginAssumption
<1>r. req[a] \in Request
  BY DEF TypeOK
<1>1. CASE LoginSuccess(a)
  <2>1. req' \in [Actors -> Request]
    BY <1>1, RequestTypes DEF LoginSuccess
  <2>2. user' \in [Users -> User]
    BY <1>1, RowTypes DEF LoginSuccess, TypeOK
  <2>3. req[a].token \in Tokens /\ req[a].user \in Users
    BY <1>1, <1>r DEF LoginSuccess, At, RequestOK, Request
  <2>4. cache' \in [Tokens -> Entry \cup {None}]
    BY <1>1, <2>3, RowTypes DEF LoginSuccess
  <2> QED
    BY <1>1, <2>1, <2>2, <2>4 DEF LoginSuccess, TypeOK, history
<1>2. CASE SaveLoginLog(a)
  <2>1. req' \in [Actors -> Request]
    BY <1>2, RequestTypes DEF SaveLoginLog
  <2>2. log' \in [Tokens -> Log]
    BY <1>2, <1>r, RowTypes DEF SaveLoginLog, TypeOK, Request
  <2> QED
    BY <1>2, <2>1, <2>2 DEF SaveLoginLog, TypeOK, history
<1>3. CASE Refresh(a)
  <2>1. [req[a] EXCEPT !.at = "each", !.todo = {req[a].token}] \in Request
    BY <1>3, <1>r DEF Refresh, At, RequestOK, Request
  <2>2. req' \in [Actors -> Request]
    BY <1>3, <2>1, RequestTypes DEF Refresh, TypeOK
  <2>3. req[a].token \in Tokens /\ req[a].user \in Users
    BY <1>3, <1>r DEF Refresh, At, RequestOK, Request
  <2>4. cache' \in [Tokens -> Entry \cup {None}]
    BY <1>3, <2>3, RowTypes DEF Refresh
  <2> QED
    BY <1>3, <2>2, <2>4 DEF Refresh, TypeOK, history
<1>4. ASSUME NEW t \in Tokens, Each(a, t) PROVE TypeOK'
  <2>1. req' \in [Actors -> Request]
    BY <1>4, RequestTypes DEF Each
  <2>2. cache' \in [Tokens -> Entry \cup {None}]
    BY <1>4, RowTypes DEF Each, TypeOK
  <2> QED
    BY <1>4, <2>1, <2>2 DEF Each, TypeOK, history
<1>5. CASE EachDone(a)
  <2>1. req' \in [Actors -> Request]
    BY <1>5, RequestTypes DEF EachDone
  <2> QED
    BY <1>5, <2>1 DEF EachDone, TypeOK, history
<1>6. CASE Status(a)
  <2>1. req' \in [Actors -> Request]
    BY <1>6, RequestTypes DEF Status
  <2>2. user' \in [Users -> User]
    BY <1>6, RowTypes DEF Status, SetStatus, TypeOK
  <2> QED
    BY <1>6, <2>1, <2>2 DEF Status, SetStatus, TypeOK, history
<1>7. CASE Erase(a)
  <2>1. req' \in [Actors -> Request]
    BY <1>7, RequestTypes DEF Erase
  <2>2. user' \in [Users -> User]
    BY <1>7, RowTypes DEF Erase, SetStatus, TypeOK
  <2> QED
    BY <1>7, <2>1, <2>2 DEF Erase, SetStatus, TypeOK, history
<1>8. CASE Close(a)
  <2>1. req' \in [Actors -> Request]
    BY <1>8, RequestTypes, GoBackTypes DEF Close
  <2>2. req[a].token \in Tokens
    BY <1>8, <1>r DEF Close, At, RequestOK, Request
  <2>3. log' \in [Tokens -> Log]
    <3>1. \/ log' = [log EXCEPT ![req[a].token] = [@ EXCEPT !.state = "closed"]]
          \/ log' = log
      BY <1>8 DEF Close
    <3>2. [log[req[a].token] EXCEPT !.state = "closed"] \in Log
      BY <2>2, RowTypes
    <3> QED
      BY <2>2, <3>1, <3>2 DEF TypeOK
  <2> QED
    BY <1>8, <2>1, <2>3 DEF Close, TypeOK, history
<1>9. CASE Count(a)
  <2>1. req' \in [Actors -> Request]
    BY <1>9, RequestTypes, GoBackTypes DEF Count
  <2> QED
    BY <1>9, <2>1 DEF Count, TypeOK, history
<1>10. CASE Offline(a)
  <2>1. req' \in [Actors -> Request]
    BY <1>10, GoBackTypes DEF Offline
  <2>2. user' \in [Users -> User]
    BY <1>10, RowTypes DEF Offline, TypeOK
  <2> QED
    BY <1>10, <2>1, <2>2 DEF Offline, TypeOK, history
<1>11. CASE Drop(a)
  <2>1. [req[a] EXCEPT !.at = "close", !.back = "row"] \in Request
    BY <1>r DEF Request
  <2>2. req' \in [Actors -> Request]
    BY <1>11, <2>1, RequestTypes DEF Drop, TypeOK
  <2>3. req[a].token \in Tokens
    BY <1>11, <1>r DEF Drop, At, RequestOK, Request
  <2>4. cache' \in [Tokens -> Entry \cup {None}]
    BY <1>11, <2>3, RowTypes DEF Drop
  <2> QED
    BY <1>11, <2>2, <2>4 DEF Drop, TypeOK, history
<1>12. CASE Row(a)
  <2>1. [req[a] EXCEPT !.at = "each", !.token = None, !.back = "each"] \in Request
    BY <1>r DEF Request
  <2>2. req' \in [Actors -> Request]
    BY <1>12, <2>1 DEF Row, TypeOK
  <2>3. log' \in [Tokens -> Log]
    BY <1>12, RowTypes DEF Row, DeleteRow, TypeOK
  <2> QED
    BY <1>12, <2>2, <2>3 DEF Row, TypeOK, history
<1> QED
  BY <1>1, <1>2, <1>3, <1>4, <1>5, <1>6, <1>7, <1>8, <1>9, <1>10, <1>11, <1>12 DEF Step

\* So does whatever else happens.
LEMMA OtherTypes ==
    ASSUME TypeOK, \/ \E a \in Actors : Asks(a) \/ Refused(a)
                   \/ Others
                   \/ Server
    PROVE  TypeOK'
<1> USE LoginAssumption
<1>0. ASSUME NEW a \in Actors, NEW w \in {"login", "call", "logout", "disable",
                                         "delete", "purge", "sweep"},
             NEW c \in {"token", "refresh", "each", "erase"},
             NEW u \in Users \cup {None}, NEW n \in Names \cup {None},
             NEW t \in Tokens \cup {None}, NEW S \in SUBSET Tokens,
             Begin(a, w, c, u, n, t, S), UNCHANGED <<user, log, phase>>,
             cache' \in [Tokens -> Entry \cup {None}]
      PROVE  TypeOK'
  <2>1. req' \in [Actors -> Request]
    BY <1>0, RequestTypes
  <2>2. \A x \in Tokens : log[x].name \in Names \cup {None}
    BY DEF TypeOK, Log
  <2>3. ({n} \cup {log[x].name : x \in S}) \ {None} \in SUBSET Names
    BY <2>2
  <2>4. mixed' \in SUBSET Names /\ moved' = moved /\ restored' = restored
    BY <1>0, <2>3 DEF Begin, Mix, TypeOK
  <2> QED
    BY <1>0, <2>1, <2>4 DEF TypeOK
<1>1. ASSUME NEW a \in Actors, Asks(a) PROVE TypeOK'
  <2>u. \A u \in Users : user[u].name \in Names \cup {None} /\ Alive(user[u].name) \in SUBSET Tokens
    BY DEF TypeOK, User, Alive
  <2>t. \A t \in Tokens : /\ log[t].name \in Names \cup {None}
                          /\ cache[t] # None => cache[t].user \in Users
    BY DEF TypeOK, Log, Entry
  <2>c. cache \in [Tokens -> Entry \cup {None}]
    BY DEF TypeOK
  <2>1. ASSUME NEW u \in Users, Disable(a, u) PROVE TypeOK'
    BY <1>0, <2>1, <2>u, <2>c DEF Disable
  <2>2. ASSUME NEW u \in Users, DeleteUser(a, u) PROVE TypeOK'
    BY <1>0, <2>2, <2>u, <2>c DEF DeleteUser
  <2>3. ASSUME NEW u \in Users, NEW t \in Tokens, FindUser(a, u, t) PROVE TypeOK'
    BY <1>0, <2>3, <2>u, <2>c DEF FindUser
  <2>4. ASSUME NEW t \in Tokens, Call(a, t) PROVE TypeOK'
    BY <1>0, <2>4, <2>t, <2>c DEF Call
  <2>5. ASSUME NEW t \in Tokens, DeleteLoginLogs(a, t) PROVE TypeOK'
    BY <1>0, <2>5, <2>t, <2>c DEF DeleteLoginLogs
  <2>6. CASE Sweep(a)
    <3>1. Expired \in SUBSET Tokens
      BY DEF Expired
    <3>2. cache' \in [Tokens -> Entry \cup {None}]
      BY <2>6, <3>1, RowTypes DEF Sweep
    <3> QED
      BY <1>0, <2>6, <3>1, <3>2 DEF Sweep
  <2> QED
    BY <1>1, <2>1, <2>2, <2>3, <2>4, <2>5, <2>6 DEF Asks
<1>2. ASSUME NEW a \in Actors, Refused(a) PROVE TypeOK'
  <2>1. req' \in [Actors -> Request]
    BY <1>2, RequestTypes DEF Refused
  <2> QED
    BY <1>2, <2>1 DEF Refused, TypeOK, history
<1>3. CASE Others
  <2>1. ASSUME NEW u \in Users, Enable(u) PROVE TypeOK'
    BY <2>1, RowTypes DEF Enable, TypeOK, history
  <2>2. ASSUME NEW u \in Users, NEW n \in Names,
             NEW st \in {"enabled", "disabled"}, NEW on \in BOOLEAN, NewUser(u, n, st, on)
      PROVE  TypeOK'
    BY <2>2 DEF NewUser, Mix, TypeOK, User
  <2>3. ASSUME NEW u \in Users, NEW n \in Names, UpdateUser(u, n) PROVE TypeOK'
    <3>1. user' \in [Users -> User]
      BY <2>3, RowTypes DEF UpdateUser, TypeOK
    <3>2. user[u].name \in Names \cup {None}
      BY DEF TypeOK, User
    <3>3. mixed' \in SUBSET Names /\ moved' \in SUBSET (Names \cup {None})
      BY <2>3, <3>2 DEF UpdateUser, Mix, TypeOK
    <3> QED
      BY <2>3, <3>1, <3>3 DEF UpdateUser, TypeOK
  <2>4. ASSUME NEW u \in Users, NEW t \in Tokens, TerminalLogin(u, t) PROVE TypeOK'
    <3>1. user[u].name \in Names \cup {None}
      BY DEF TypeOK, User
    <3>2. log' \in [Tokens -> Log]
      BY <2>4, <3>1, RowTypes DEF TerminalLogin, TypeOK
    <3> QED
      BY <2>4, <3>2 DEF TerminalLogin, TypeOK, history
  <2>5. ASSUME NEW t \in Tokens, Expire(t) PROVE TypeOK'
    BY <2>5 DEF Expire, TypeOK, Entry, history
  <2>6. ASSUME NEW t \in Tokens, DeleteOutTime(t) PROVE TypeOK'
    BY <2>6, RowTypes DEF DeleteOutTime, DeleteRow, TypeOK, history
  <2> QED
    BY <1>3, <2>1, <2>2, <2>3, <2>4, <2>5, <2>6 DEF Others, CreateUser, RestoreUser
<1>4. CASE Server
  <2>1. CASE Crash
    BY <2>1 DEF Crash, TypeOK, Request, NoRequest, history
  <2>2. CASE FixUserOnlineState
    BY <2>2, RowTypes DEF FixUserOnlineState, TypeOK, history
  <2>3. CASE ReloadToken
    <3>1. log' \in [Tokens -> Log]
      BY <2>3, RowTypes DEF ReloadToken, TypeOK
    <3>2. \A n : Named(n) # {} => (CHOOSE u \in Named(n) : TRUE) \in Users
      BY DEF Named
    <3>3. cache' \in [Tokens -> Entry \cup {None}]
      BY <2>3, <3>2 DEF ReloadToken, Entry
    <3> QED
      BY <2>3, <3>1, <3>3 DEF ReloadToken, TypeOK, history
  <2> QED
    BY <1>4, <2>1, <2>2, <2>3 DEF Server
<1> QED
  BY <1>1, <1>2, <1>3, <1>4

-----------------------------------------------------------------------------
(* What requests hold.                                                     *)

\* users go on, and keep their names or move
UsersKept ==
    \A u \in Users :
        /\ user[u].status # "absent" => user'[u].status # "absent"
        /\ user[u].status # "absent" /\ user'[u].status \in {"enabled", "disabled"}
           /\ user'[u].name \notin moved'
             => Exists(u) /\ user[u].name \notin moved /\ user'[u].name = user[u].name

\* what is saved stays so, and what is over stays over
LogsKept ==
    \A t \in Tokens :
        Saved(t) => /\ log'[t].state # "none"
                    /\ log[t].state # "alive" => log'[t].state # "alive"

\* nobody touches a token that only the request b knows
TokenKept(b) ==
    req[b].at \in {"token", "log"} =>
        /\ log'[req[b].token].state = "none"
        /\ cache[req[b].token] # None => cache'[req[b].token] # None
        /\ \A a \in Actors \ {b} : req'[a].token # req[b].token

\* What a request holds is kept by a step of another that keeps users, logs and its token.
LEMMA Frame ==
    ASSUME TypeOK, NEW b \in Actors, RequestOK(b), req'[b] = req[b],
           phase = "up", phase' = "up", UsersKept, LogsKept, TokenKept(b)
    PROVE  RequestOK(b)'
<1>1. req[b] \in Request
  BY DEF TypeOK
<1>2. /\ req[b].todo \subseteq Tokens
      /\ req[b].token \in Tokens \cup {None}
      /\ req[b].user \in Users \cup {None}
  BY <1>1 DEF Request
<1>3. \A t \in req[b].todo : Saved(t)'
  BY <1>2 DEF RequestOK, LogsKept, Saved
<1>4. ASSUME req[b].at \in {"token", "log"}
      PROVE  /\ req[b].op = "login" /\ req[b].token # None /\ req[b].user # None
             /\ ~Saved(req[b].token)'
             /\ \A a \in Actors \ {b} : req'[a].token # req[b].token
             /\ user'[req[b].user].status # "absent"
             /\ user'[req[b].user].status \in {"enabled", "disabled"}
                /\ user'[req[b].user].name \notin moved'
                  => user'[req[b].user].name = req[b].name
  BY <1>2, <1>4 DEF RequestOK, UsersKept, TokenKept, Saved
<1>5. req[b].at = "log" => cache'[req[b].token] # None
  BY DEF RequestOK, TokenKept
<1>6. req[b].at \in {"refresh", "close", "count", "offline", "drop", "row"} =>
         req[b].token # None /\ Saved(req[b].token)'
  BY <1>2 DEF RequestOK, LogsKept, Saved
<1>7. req[b].at \in {"count", "offline", "drop", "row"} => log'[req[b].token].state # "alive"
  BY <1>2 DEF RequestOK, LogsKept
<1> QED
  BY <1>3, <1>4, <1>5, <1>6, <1>7 DEF RequestOK, Exists, Saved

\* Users and logs that do not change are kept.
LEMMA NoChange ==
    /\ UNCHANGED <<user, moved>> => UsersKept
    /\ UNCHANGED log => LogsKept
  BY DEF UsersKept, LogsKept, Saved, Exists

\* a user who gets another status, or another mark, is the same user
LEMMA StatusKept ==
    ASSUME TypeOK, UNCHANGED moved,
           \A u \in Users : \/ user'[u] = user[u]
                            \/ Exists(u) /\ \E st \in {"enabled", "disabled", "deleted"} :
                                   user'[u] = [user[u] EXCEPT !.status = st]
                            \/ \E o \in BOOLEAN : user'[u] = [user[u] EXCEPT !.online = o]
    PROVE  UsersKept
<1> SUFFICES ASSUME NEW u \in Users
             PROVE  /\ user[u].status # "absent" => user'[u].status # "absent"
                    /\ user[u].status # "absent" /\ user'[u].status \in {"enabled", "disabled"}
                       /\ user'[u].name \notin moved'
                         => Exists(u) /\ user[u].name \notin moved /\ user'[u].name = user[u].name
  BY DEF UsersKept
<1>1. user[u] \in User
  BY DEF TypeOK
<1> QED
  BY <1>1 DEF User, Exists

\* A call of a request keeps what every request holds.
LEMMA StepRequests ==
    ASSUME LoginInv, NEW a \in Actors, Step(a)
    PROVE  \A b \in Actors : RequestOK(b)'
<1> USE LoginAssumption
<1>t. TypeOK /\ req[a] \in Request
  BY DEF LoginInv, TypeOK
<1>r. \A b \in Actors : RequestOK(b)
  BY DEF LoginInv
<1>u. phase = "up" /\ phase' = "up" /\ \A b \in Actors \ {a} : req'[b] = req[b]
  BY <1>t DEF Step, LoginSuccess, SaveLoginLog, Refresh, Each, EachDone, Status, Erase, Close,
          Count, Offline, Drop, Row, At, Goto, Over, Work, GoBack, SetStatus, TypeOK
<1>f. \A b \in Actors : req[b] \in Request
  BY <1>t DEF TypeOK
<1>k. ASSUME UNCHANGED <<log, cache>>, req'[a].token \in {req[a].token, None}
      PROVE  \A b \in Actors \ {a} : TokenKept(b)
  BY <1>k, <1>r, <1>u, <1>f DEF RequestOK, TokenKept, Saved, Request
<1>1. CASE LoginSuccess(a)
  <2>1. req'[a] = [req[a] EXCEPT !.at = "log"]
    BY <1>1, <1>t DEF LoginSuccess, Goto, TypeOK
  <2>2. UsersKept /\ LogsKept
    <3>1. UsersKept
      BY <1>1, <1>t, StatusKept DEF LoginSuccess, history, TypeOK
    <3> QED
      BY <1>1, <3>1, NoChange DEF LoginSuccess
  <2>3. req[a].token \in Tokens /\ req[a].user \in Users
    BY <1>1, <1>r, <1>f DEF LoginSuccess, At, RequestOK, Request
  <2>4. \A b \in Actors \ {a} : TokenKept(b)
    BY <1>1, <2>1, <2>3, <1>t, <1>r, <1>u, <1>f
    DEF LoginSuccess, Fresh, RequestOK, TokenKept, Saved, Request, TypeOK
  <2>5. \A b \in Actors \ {a} : RequestOK(b)'
    BY <2>2, <2>4, <1>t, <1>r, <1>u, Frame
  <2>6. /\ req[a].at = "token" /\ log' = log
        /\ cache'[req[a].token] # None
    <3>1. [user |-> req[a].user, fresh |-> TRUE] \in Entry
      BY <2>3 DEF Entry
    <3> QED
      BY <1>1, <2>3, <3>1, <1>t DEF LoginSuccess, At, Fresh, TypeOK
  <2>7. RequestOK(a)'
    BY <2>1, <2>2, <2>3, <2>6, <1>t, <1>r, <1>u, <1>f
    DEF RequestOK, UsersKept, Exists, Saved, Request
  <2> QED
    BY <2>5, <2>7
<1>2. CASE SaveLoginLog(a)
  <2>1. req'[a] = NoRequest
    BY <1>2, <1>t DEF SaveLoginLog, Over, TypeOK
  <2>2. req[a].token \in Tokens /\ ~Saved(req[a].token)
    BY <1>2, <1>r, <1>f DEF SaveLoginLog, At, RequestOK, Request
  <2>3. UsersKept
    BY <1>2, NoChange DEF SaveLoginLog, history
  <2>4. LogsKept
    BY <1>2, <2>2, <1>t DEF SaveLoginLog, LogsKept, Saved, TypeOK, Log, Logged
  <2>a. req'[a].token = None /\ None \notin Tokens /\ cache' = cache
    BY <1>2, <2>1 DEF SaveLoginLog, NoRequest
  <2>b. \A t \in Tokens \ {req[a].token} : log'[t] = log[t]
    BY <1>2, <2>2, <1>t DEF SaveLoginLog, TypeOK
  <2>5. ASSUME NEW b \in Actors \ {a}
        PROVE  TokenKept(b)
    <3>1. SUFFICES ASSUME req[b].at \in {"token", "log"}
                   PROVE  /\ log'[req[b].token].state = "none"
                          /\ cache[req[b].token] # None => cache'[req[b].token] # None
                          /\ \A c \in Actors \ {b} : req'[c].token # req[b].token
      BY DEF TokenKept
    <3>2. /\ req[b].token \in Tokens /\ log[req[b].token].state = "none"
          /\ \A c \in Actors \ {b} : req[c].token # req[b].token
      BY <3>1, <1>r, <1>f DEF RequestOK, Saved, Request
    <3>3. req[b].token \in Tokens \ {req[a].token}
      BY <3>2
    <3>4. \A c \in Actors \ {b} : req'[c].token # req[b].token
      BY <2>a, <3>2, <1>u
    <3> QED
      BY <2>a, <2>b, <3>2, <3>3, <3>4
  <2>6. \A b \in Actors \ {a} : RequestOK(b)'
    BY <2>3, <2>4, <2>5, <1>t, <1>r, <1>u, Frame
  <2>7. RequestOK(a)'
    BY <2>1, <1>u DEF RequestOK, NoRequest
  <2> QED
    BY <2>6, <2>7
<1>3. CASE Refresh(a)
  <2>1. \/ req'[a] = NoRequest
        \/ req'[a] = [req[a] EXCEPT !.at = "each", !.todo = {req[a].token}]
    BY <1>3, <1>t DEF Refresh, Over, TypeOK
  <2>2. req[a].token \in Tokens /\ Saved(req[a].token) /\ req[a].op # "sweep"
    BY <1>3, <1>r, <1>f DEF Refresh, At, RequestOK, Request
  <2>3. UsersKept /\ LogsKept
    BY <1>3, NoChange DEF Refresh, history
  <2>4. \/ req'[a] = NoRequest /\ req'[a].token = None
        \/ /\ req'[a].at = "each" /\ req'[a].op = req[a].op
           /\ req'[a].token = req[a].token /\ req'[a].todo = {req[a].token}
    <3>1. CASE req'[a] = NoRequest
      BY <3>1 DEF NoRequest
    <3>2. CASE req'[a] = [req[a] EXCEPT !.at = "each", !.todo = {req[a].token}]
      BY <3>2, <1>t DEF Request
    <3> QED
      BY <2>1, <3>1, <3>2
  <2>5. \A b \in Actors \ {a} : TokenKept(b)
    BY <1>3, <2>2, <2>4, <1>t, <1>r, <1>u, <1>f
    DEF Refresh, Fresh, RequestOK, TokenKept, Saved, Request, TypeOK
  <2>6. \A b \in Actors \ {a} : RequestOK(b)'
    BY <2>3, <2>5, <1>t, <1>r, <1>u, Frame
  <2>7. RequestOK(a)'
    BY <1>3, <2>2, <2>4, <1>u DEF Refresh, RequestOK, NoRequest, Saved
  <2> QED
    BY <2>6, <2>7
<1>4. ASSUME NEW t \in Tokens, Each(a, t) PROVE \A b \in Actors : RequestOK(b)'
  <2>1. PICK c \in {"each", "close"}, x \in {t, None}, k \in {"each", "drop"} :
          /\ req'[a] = [req[a] EXCEPT !.at = c, !.token = x, !.back = k,
                                      !.todo = req[a].todo \ {t}]
          /\ c = "close" => x = t
          /\ req[a].op = "sweep" => k = "each"
    BY <1>4, <1>t DEF Each, Work, TypeOK
  <2>0. /\ req'[a].at = c /\ req'[a].token = x /\ req'[a].back = k
        /\ req'[a].todo = req[a].todo \ {t} /\ req'[a].op = req[a].op
    BY <2>1, <1>f DEF Request
  <2>2. Saved(t) /\ req[a].at = "each"
    BY <1>4, <1>r, <1>f DEF Each, At, RequestOK, Request
  <2>3. UsersKept /\ LogsKept
    BY <1>4, NoChange DEF Each, history
  <2>4. \A y \in Tokens \ {t} : cache'[y] = cache[y]
    BY <1>4 DEF Each, TakeOut
  <2>5. \A b \in Actors \ {a} : TokenKept(b)
    <3> SUFFICES ASSUME NEW b \in Actors \ {a}, req[b].at \in {"token", "log"}
                 PROVE  /\ log'[req[b].token].state = "none"
                        /\ cache[req[b].token] # None => cache'[req[b].token] # None
                        /\ \A d \in Actors \ {b} : req'[d].token # req[b].token
      BY DEF TokenKept
    <3>1. /\ req[b].token # None /\ ~Saved(req[b].token)
          /\ \A d \in Actors \ {b} : req[d].token # req[b].token
      BY <1>r DEF RequestOK
    <3>2. req[b].token \in Tokens
      BY <3>1, <1>f DEF Request
    <3>3. req[b].token # t /\ log' = log
      BY <1>4, <2>2, <3>1 DEF Each
    <3> QED
      BY <2>0, <2>4, <3>1, <3>2, <3>3, <1>u DEF Saved
  <2>6. \A b \in Actors \ {a} : RequestOK(b)'
    BY <2>3, <2>5, <1>t, <1>r, <1>u, Frame
  <2>7. RequestOK(a)'
    <3>1. log' = log /\ \A y \in req[a].todo : Saved(y)
      BY <1>4, <1>r DEF Each, RequestOK
    <3>2. \A y \in req'[a].todo : Saved(y)'
      BY <2>0, <3>1 DEF Saved
    <3> QED
      BY <2>0, <2>1, <2>2, <3>1, <3>2, <1>u DEF RequestOK, Saved
  <2> QED
    BY <2>6, <2>7
<1>5. CASE EachDone(a)
  <2>1. req'[a] = NoRequest \/ req'[a] = [req[a] EXCEPT !.at = "status"]
    BY <1>5, <1>t DEF EachDone, Goto, Over, TypeOK
  <2>2. UsersKept /\ LogsKept
    BY <1>5, NoChange DEF EachDone, history
  <2>3. req'[a].token \in {req[a].token, None}
    BY <2>1, <1>f DEF NoRequest, Request
  <2>4. \A b \in Actors \ {a} : RequestOK(b)'
    BY <1>5, <1>k, <2>2, <2>3, <1>t, <1>r, <1>u, Frame DEF EachDone
  <2>5. RequestOK(a)'
    <3>1. CASE req'[a] = NoRequest
      BY <3>1, <1>u DEF RequestOK, NoRequest
    <3>2. CASE req'[a] # NoRequest
      <4>1. /\ req'[a].at = "status" /\ req'[a].op = req[a].op
            /\ req'[a].todo = req[a].todo
        BY <2>1, <3>2, <1>f DEF Request
      <4>2. req[a].op = "disable" /\ log' = log
        BY <1>5, <3>2, <1>t DEF EachDone, Over, TypeOK
      <4> QED
        BY <4>1, <4>2, <1>r, <1>u DEF RequestOK, Saved
    <3> QED
      BY <3>1, <3>2
  <2> QED
    BY <2>4, <2>5
<1>6. CASE Status(a)
  <2>1. req'[a] = NoRequest
    BY <1>6, <1>t DEF Status, Over, TypeOK
  <2>2. UsersKept /\ LogsKept
    <3>1. UsersKept
      BY <1>6, <1>t, StatusKept DEF Status, SetStatus, history, TypeOK
    <3> QED
      BY <1>6, <3>1, NoChange DEF Status, SetStatus
  <2>3. \A b \in Actors \ {a} : RequestOK(b)'
    BY <1>6, <1>k, <2>1, <2>2, <1>t, <1>r, <1>u, Frame DEF Status, SetStatus, NoRequest
  <2>4. RequestOK(a)'
    BY <2>1, <1>u DEF RequestOK, NoRequest
  <2> QED
    BY <2>3, <2>4
<1>7. CASE Erase(a)
  <2>1. req'[a] = [req[a] EXCEPT !.at = "each"] /\ req[a].op # "sweep"
    BY <1>7, <1>t, <1>r DEF Erase, At, Goto, RequestOK, TypeOK
  <2>2. UsersKept /\ LogsKept
    <3>1. UsersKept
      BY <1>7, <1>t, StatusKept DEF Erase, SetStatus, history, TypeOK
    <3> QED
      BY <1>7, <3>1, NoChange DEF Erase, SetStatus
  <2>3. req'[a].token \in {req[a].token, None}
    BY <2>1, <1>f DEF Request
  <2>4. \A b \in Actors \ {a} : RequestOK(b)'
    BY <1>7, <1>k, <2>2, <2>3, <1>t, <1>r, <1>u, Frame DEF Erase, SetStatus
  <2>5. RequestOK(a)'
    BY <1>7, <2>1, <1>r, <1>u, <1>f DEF Erase, SetStatus, RequestOK, Saved, Request
  <2> QED
    BY <2>4, <2>5
<1>g. ASSUME GoBack(a), req[a].at \in {"close", "count", "offline"},
             log'[req[a].token].state \notin {"alive", "none"}, LogsKept, phase' = "up"
      PROVE  /\ RequestOK(a)'
             /\ req'[a].token \in {req[a].token, None}
  <2>1. CASE req[a].back = "each"
    <3>1. req'[a] = [req[a] EXCEPT !.at = "each", !.token = None]
      BY <1>g, <2>1, <1>t DEF GoBack, TypeOK
    <3> QED
      BY <1>g, <3>1, <1>r, <1>f DEF RequestOK, LogsKept, Saved, Request
  <2>2. CASE req[a].back # "each"
    <3>1. req'[a] = [req[a] EXCEPT !.at = req[a].back] /\ req[a].back \in {"drop", "row"}
      BY <1>g, <2>2, <1>f, <1>t DEF GoBack, Goto, Request, TypeOK
    <3> QED
      BY <1>g, <3>1, <1>r, <1>f DEF RequestOK, LogsKept, Saved, Request
  <2> QED
    BY <2>1, <2>2
<1>8. CASE Close(a)
  <2>1. req[a].token \in Tokens /\ Saved(req[a].token) /\ req[a].at = "close"
    BY <1>8, <1>r, <1>f DEF Close, At, RequestOK, Request
  <2>2. log[req[a].token] \in Log
    BY <2>1, <1>t DEF TypeOK
  <2>3. /\ log'[req[a].token].state \in {"closed", "deleted"}
        /\ \A t \in Tokens \ {req[a].token} : log'[t] = log[t]
    BY <1>8, <2>1, <2>2, <1>t DEF Close, Saved, Log, TypeOK
  <2>4. UsersKept
    BY <1>8, NoChange DEF Close, history
  <2>5. LogsKept
    BY <2>3 DEF LogsKept, Saved
  <2>6. RequestOK(a)' /\ req'[a].token \in {req[a].token, None}
    <3>1. CASE Goto(a, "count")
      <4>1. req'[a] = [req[a] EXCEPT !.at = "count"]
        BY <3>1, <1>t DEF Goto, TypeOK
      <4> QED
        BY <4>1, <2>1, <2>3, <2>5, <1>r, <1>f, <1>u DEF RequestOK, LogsKept, Saved, Request
    <3>2. CASE Over(a)
      <4>1. req'[a] = NoRequest
        BY <3>2, <1>t DEF Over, TypeOK
      <4> QED
        BY <4>1, <1>u DEF RequestOK, NoRequest
    <3>3. CASE GoBack(a)
      BY <3>3, <2>1, <2>3, <2>5, <1>g, <1>u
    <3> QED
      BY <1>8, <3>1, <3>2, <3>3 DEF Close
  <2>7. \A b \in Actors \ {a} : TokenKept(b)
    BY <1>8, <2>1, <2>3, <2>6, <1>r, <1>u, <1>f
    DEF Close, RequestOK, TokenKept, Saved, Request
  <2>8. \A b \in Actors \ {a} : RequestOK(b)'
    BY <2>4, <2>5, <2>7, <1>t, <1>r, <1>u, Frame
  <2> QED
    BY <2>6, <2>8
<1>9. CASE Count(a)
  <2>1. UsersKept /\ LogsKept
    BY <1>9, NoChange DEF Count, history
  <2>2. /\ req[a].token \in Tokens /\ req[a].at = "count"
        /\ log'[req[a].token].state \notin {"alive", "none"}
    BY <1>9, <1>r, <1>f DEF Count, At, RequestOK, Saved, Request
  <2>3. RequestOK(a)' /\ req'[a].token \in {req[a].token, None}
    <3>1. CASE Goto(a, "offline")
      <4>1. req'[a] = [req[a] EXCEPT !.at = "offline"]
        BY <3>1, <1>t DEF Goto, TypeOK
      <4> QED
        BY <4>1, <2>1, <2>2, <1>r, <1>f, <1>u DEF RequestOK, LogsKept, Saved, Request
    <3>2. CASE GoBack(a)
      BY <3>2, <2>1, <2>2, <1>g, <1>u
    <3> QED
      BY <1>9, <3>1, <3>2 DEF Count
  <2>4. \A b \in Actors \ {a} : RequestOK(b)'
    BY <1>9, <1>k, <2>1, <2>3, <1>t, <1>r, <1>u, Frame DEF Count
  <2> QED
    BY <2>3, <2>4
<1>10. CASE Offline(a)
  <2>1. UsersKept /\ LogsKept
    <3>1. UsersKept
      BY <1>10, <1>t, StatusKept DEF Offline, history, TypeOK
    <3> QED
      BY <1>10, <3>1, NoChange DEF Offline
  <2>2. /\ req[a].token \in Tokens /\ req[a].at = "offline"
        /\ log'[req[a].token].state \notin {"alive", "none"}
    BY <1>10, <1>r, <1>f DEF Offline, At, RequestOK, Saved, Request
  <2>3. RequestOK(a)' /\ req'[a].token \in {req[a].token, None}
    BY <1>10, <2>1, <2>2, <1>g, <1>u DEF Offline
  <2>4. \A b \in Actors \ {a} : RequestOK(b)'
    BY <1>10, <1>k, <2>1, <2>3, <1>t, <1>r, <1>u, Frame DEF Offline
  <2> QED
    BY <2>3, <2>4
<1>11. CASE Drop(a)
  <2>1. \/ req'[a] = [req[a] EXCEPT !.at = "row"]
        \/ req'[a] = [req[a] EXCEPT !.at = "close", !.back = "row"]
    BY <1>11, <1>t DEF Drop, Goto, TypeOK
  <2>0. /\ req'[a].at \in {"row", "close"} /\ req'[a].op = req[a].op
        /\ req'[a].token = req[a].token /\ req'[a].todo = req[a].todo
    BY <2>1, <1>f DEF Request
  <2>2. /\ req[a].token \in Tokens /\ Saved(req[a].token) /\ req[a].op # "sweep"
        /\ log[req[a].token].state # "alive"
    BY <1>11, <1>r, <1>f DEF Drop, At, RequestOK, Request
  <2>3. UsersKept /\ LogsKept
    BY <1>11, NoChange DEF Drop, history
  <2>4. \A b \in Actors \ {a} : TokenKept(b)
    BY <1>11, <2>0, <2>2, <1>r, <1>u, <1>f
    DEF Drop, TakeOut, RequestOK, TokenKept, Saved, Request
  <2>5. \A b \in Actors \ {a} : RequestOK(b)'
    BY <2>3, <2>4, <1>t, <1>r, <1>u, Frame
  <2>6. RequestOK(a)'
    BY <1>11, <2>0, <2>2, <1>r, <1>u DEF Drop, RequestOK, Saved
  <2> QED
    BY <2>5, <2>6
<1>12. CASE Row(a)
  <2>1. req'[a] = [req[a] EXCEPT !.at = "each", !.token = None, !.back = "each"]
    BY <1>12, <1>t DEF Row, TypeOK
  <2>2. req[a].token \in Tokens /\ Saved(req[a].token) /\ req[a].op # "sweep"
    BY <1>12, <1>r, <1>f DEF Row, At, RequestOK, Request
  <2>3. log[req[a].token] \in Log
    BY <2>2, <1>t DEF TypeOK
  <2>4. /\ log'[req[a].token].state = "deleted"
        /\ \A t \in Tokens \ {req[a].token} : log'[t] = log[t]
    BY <1>12, <2>2, <2>3, <1>t DEF Row, DeleteRow, Log, TypeOK
  <2>5. UsersKept
    BY <1>12, NoChange DEF Row, history
  <2>6. LogsKept
    BY <2>4 DEF LogsKept, Saved
  <2>7. \A b \in Actors \ {a} : TokenKept(b)
    BY <1>12, <2>1, <2>2, <2>4, <1>r, <1>u, <1>f
    DEF Row, RequestOK, TokenKept, Saved, Request
  <2>8. \A b \in Actors \ {a} : RequestOK(b)'
    BY <2>5, <2>6, <2>7, <1>t, <1>r, <1>u, Frame
  <2>9. RequestOK(a)'
    BY <2>1, <2>2, <2>6, <1>r, <1>u, <1>f DEF RequestOK, LogsKept, Saved, Request
  <2> QED
    BY <2>8, <2>9
<1> QED
  BY <1>1, <1>2, <1>3, <1>4, <1>5, <1>6, <1>7, <1>8, <1>9, <1>10, <1>11, <1>12 DEF Step

\* a request that starts
LEMMA BeginRequests ==
    ASSUME LoginInv, NEW a \in Actors, NEW w, NEW c, NEW u, NEW n,
           NEW t \in Tokens \cup {None}, NEW S \in SUBSET Tokens,
           Begin(a, w, c, u, n, t, S), UNCHANGED <<user, log, phase>>,
           \A y \in Tokens : cache[y] # None /\ ~Saved(y) => cache'[y] # None,
           \/ t = None \/ Saved(t)
           \/ \A b \in Actors : req[b].token # t
    PROVE  /\ \A b \in Actors \ {a} : RequestOK(b)'
           /\ req'[a] = [at |-> c, op |-> w, user |-> u, name |-> n,
                         token |-> t, todo |-> S, back |-> "each"]
           /\ phase' = "up"
<1>t. TypeOK
  BY DEF LoginInv
<1>1. req'[a] = [at |-> c, op |-> w, user |-> u, name |-> n,
                         token |-> t, todo |-> S, back |-> "each"]
  BY <1>t DEF Begin, TypeOK
<1>2. phase = "up" /\ phase' = "up" /\ \A b \in Actors \ {a} : req'[b] = req[b]
  BY <1>t DEF Begin, Idle, TypeOK
<1>3. UsersKept /\ LogsKept
  BY NoChange DEF Begin
<1>4. ASSUME NEW b \in Actors \ {a} PROVE RequestOK(b) /\ TokenKept(b)
  <2>1. RequestOK(b) /\ req[b] \in Request
    BY <1>t DEF LoginInv, TypeOK
  <2> SUFFICES ASSUME req[b].at \in {"token", "log"}
               PROVE  /\ log'[req[b].token].state = "none"
                      /\ cache[req[b].token] # None => cache'[req[b].token] # None
                      /\ \A d \in Actors \ {b} : req'[d].token # req[b].token
    BY <2>1 DEF TokenKept
  <2>2. /\ req[b].token # None /\ ~Saved(req[b].token)
        /\ \A d \in Actors \ {b} : req[d].token # req[b].token
    BY <2>1 DEF RequestOK
  <2>3. req[b].token \in Tokens
    BY <2>1, <2>2 DEF Request
  <2>4. req'[a].token = t /\ t # req[b].token
    BY <1>1, <2>2
  <2> QED
    BY <2>2, <2>3, <2>4, <1>2 DEF Saved
<1> QED
  BY <1>t, <1>1, <1>2, <1>3, <1>4, Frame

\* So does a request that arrives.
LEMMA AskRequests ==
    ASSUME LoginInv, NEW a \in Actors, Asks(a)
    PROVE  \A b \in Actors : RequestOK(b)'
<1> USE LoginAssumption
<1>t. TypeOK
  BY DEF LoginInv
<1>a. \A n : Alive(n) \in SUBSET Tokens /\ \A t \in Alive(n) : Saved(t)
  BY DEF Alive, Saved
<1>0. ASSUME NEW w \in {"call", "logout", "disable", "delete", "purge", "sweep"},
             NEW c \in {"refresh", "each", "erase"}, NEW u, NEW n,
             NEW t \in Tokens \cup {None}, NEW S \in SUBSET Tokens,
             Begin(a, w, c, u, n, t, S), UNCHANGED <<user, log, phase>>,
             \A y \in Tokens : cache[y] # None /\ ~Saved(y) => cache'[y] # None,
             t = None \/ Saved(t), \A y \in S : Saved(y),
             c = "refresh" => u # None /\ t # None,
             w = "sweep" => c = "each"
      PROVE  \A b \in Actors : RequestOK(b)'
  <2>1. /\ \A b \in Actors \ {a} : RequestOK(b)'
        /\ req'[a] = [at |-> c, op |-> w, user |-> u, name |-> n,
                         token |-> t, todo |-> S, back |-> "each"]
        /\ phase' = "up"
    BY <1>0, BeginRequests
  <2>2. /\ req'[a].at = c /\ req'[a].op = w /\ req'[a].user = u
        /\ req'[a].token = t /\ req'[a].todo = S /\ req'[a].back = "each"
    BY <2>1
  <2>3. RequestOK(a)'
    BY <1>0, <2>1, <2>2 DEF RequestOK, Saved
  <2> QED
    BY <2>1, <2>3
<1>1. ASSUME NEW u \in Users, Disable(a, u) PROVE \A b \in Actors : RequestOK(b)'
  BY <1>0, <1>1, <1>a DEF Disable
<1>2. ASSUME NEW u \in Users, DeleteUser(a, u) PROVE \A b \in Actors : RequestOK(b)'
  BY <1>0, <1>2, <1>a DEF DeleteUser
<1>3. ASSUME NEW u \in Users, NEW t \in Tokens, FindUser(a, u, t)
      PROVE  \A b \in Actors : RequestOK(b)'
  <2>1. /\ \A b \in Actors \ {a} : RequestOK(b)'
        /\ req'[a] = [at |-> "token", op |-> "login", user |-> u, name |-> user[u].name,
                         token |-> t, todo |-> {}, back |-> "each"]
        /\ phase' = "up"
    <3>1. /\ Begin(a, "login", "token", u, user[u].name, t, {})
          /\ UNCHANGED <<user, log, phase>> /\ UNCHANGED cache
          /\ \A b \in Actors : req[b].token # t
      BY <1>3 DEF FindUser, Unused
    <3>2. {} \in SUBSET Tokens /\ t \in Tokens \cup {None}
      OBVIOUS
    <3>3. \A y \in Tokens : cache[y] # None /\ ~Saved(y) => cache'[y] # None
      BY <3>1
    <3> QED
      BY <3>1, <3>2, <3>3, BeginRequests
  <2>2. /\ req'[a].at = "token" /\ req'[a].op = "login" /\ req'[a].user = u
        /\ req'[a].name = user[u].name /\ req'[a].token = t /\ req'[a].todo = {}
    BY <2>1
  <2>3. /\ log'[t].state = "none" /\ user' = user /\ user[u].status = "enabled"
        /\ \A b \in Actors : req[b].token # t
    BY <1>3 DEF FindUser, Unused
  <2>4. \A b \in Actors \ {a} : req'[b].token # t
    BY <1>3, <2>3, <1>t DEF FindUser, Begin, TypeOK
  <2>5. t # None /\ u # None
    OBVIOUS
  <2>6. RequestOK(a)'
    BY <2>1, <2>2, <2>3, <2>4, <2>5 DEF RequestOK, Saved, Exists
  <2> QED
    BY <2>1, <2>6
<1>4. ASSUME NEW t \in Tokens, Call(a, t) PROVE \A b \in Actors : RequestOK(b)'
  <2>1. Saved(t) /\ t # None
    BY <1>4 DEF Call, Known, Saved
  <2>2. cache[t].user \in Users
    BY <1>4, <1>t DEF Call, TypeOK, Entry
  <2>3. cache[t].user # None
    BY <2>2
  <2> QED
    BY <1>0, <1>4, <2>1, <2>3 DEF Call
<1>5. ASSUME NEW t \in Tokens, DeleteLoginLogs(a, t) PROVE \A b \in Actors : RequestOK(b)'
  <2>1. Saved(t)
    BY <1>5 DEF DeleteLoginLogs, Saved
  <2> QED
    BY <1>0, <1>5, <2>1 DEF DeleteLoginLogs
<1>6. CASE Sweep(a)
  <2>1. Expired \in SUBSET Tokens /\ \A y \in Expired : Saved(y)
    BY DEF Expired, LoginInv
  <2>2. \A y \in Tokens : cache[y] # None /\ ~Saved(y) => cache'[y] # None
    BY <1>6, <2>1 DEF Sweep, TakeOut
  <2> QED
    BY <1>0, <1>6, <2>1, <2>2 DEF Sweep
<1> QED
  BY <1>1, <1>2, <1>3, <1>4, <1>5, <1>6 DEF Asks

\* So does whatever else happens.
LEMMA OtherRequests ==
    ASSUME LoginInv, (\E a \in Actors : Refused(a)) \/ Others \/ Server
    PROVE  \A b \in Actors : RequestOK(b)'
<1> USE LoginAssumption
<1>t. TypeOK
  BY DEF LoginInv
<1>r. \A b \in Actors : RequestOK(b) /\ req[b] \in Request
  BY <1>t DEF LoginInv, TypeOK
<1>0. ASSUME UNCHANGED req, phase = "up", phase' = "up", UsersKept, LogsKept,
             \A y \in Tokens : ~Saved(y) /\ (\E b \in Actors : req[b].token = y)
                => log'[y].state = "none" /\ (cache[y] # None => cache'[y] # None)
      PROVE  \A b \in Actors : RequestOK(b)'
  <2> SUFFICES ASSUME NEW b \in Actors PROVE RequestOK(b)'
    OBVIOUS
  <2>1. TokenKept(b)
    <3>1. CASE req[b].at \in {"token", "log"}
      <4>1. /\ req[b].token # None /\ ~Saved(req[b].token)
            /\ \A d \in Actors \ {b} : req[d].token # req[b].token
        BY <1>r, <3>1 DEF RequestOK
      <4>2. req[b].token \in Tokens
        BY <1>r, <4>1 DEF Request
      <4> QED
        BY <1>0, <4>1, <4>2 DEF TokenKept
    <3> QED
      BY <3>1 DEF TokenKept
  <2> QED
    BY <1>0, <1>t, <1>r, <2>1, Frame
<1>n. ASSUME \A b \in Actors : req'[b] = NoRequest PROVE \A b \in Actors : RequestOK(b)'
  BY <1>n DEF RequestOK, NoRequest
<1>1. ASSUME NEW a \in Actors, Refused(a) PROVE \A b \in Actors : RequestOK(b)'
  <2>1. /\ req'[a] = NoRequest /\ phase = "up" /\ phase' = "up"
        /\ \A b \in Actors \ {a} : req'[b] = req[b]
    BY <1>1, <1>t DEF Refused, Over, At, TypeOK
  <2>2. UsersKept /\ LogsKept
    BY <1>1, NoChange DEF Refused, history
  <2>3. \A b \in Actors \ {a} : TokenKept(b)
    <3> SUFFICES ASSUME NEW b \in Actors \ {a}, req[b].at \in {"token", "log"}
                 PROVE  /\ log'[req[b].token].state = "none"
                        /\ cache[req[b].token] # None => cache'[req[b].token] # None
                        /\ \A d \in Actors \ {b} : req'[d].token # req[b].token
      BY DEF TokenKept
    <3>1. req'[a].token = None
      BY <2>1 DEF NoRequest
    <3> QED
      BY <1>1, <1>r, <2>1, <3>1 DEF Refused, RequestOK, Saved
  <2>4. \A b \in Actors \ {a} : RequestOK(b)'
    BY <2>1, <2>2, <2>3, <1>t, <1>r, Frame
  <2>5. RequestOK(a)'
    BY <2>1 DEF RequestOK, NoRequest
  <2> QED
    BY <2>4, <2>5
<1>2. CASE Others
  <2>1. ASSUME NEW u \in Users, Enable(u) PROVE \A b \in Actors : RequestOK(b)'
    <3>1. UsersKept
      BY <2>1, <1>t, StatusKept DEF Enable, history, TypeOK, Exists
    <3> QED
      BY <2>1, <1>0, <3>1, NoChange DEF Enable, Saved
  <2>2. ASSUME NEW u \in Users, NEW n \in Names,
             NEW st \in {"enabled", "disabled"}, NEW on \in BOOLEAN, NewUser(u, n, st, on)
        PROVE  \A b \in Actors : RequestOK(b)'
    <3>1. UsersKept
      BY <2>2, <1>t DEF NewUser, UsersKept, TypeOK, Exists
    <3> QED
      BY <2>2, <1>0, <3>1, NoChange DEF NewUser, Saved
  <2>3. ASSUME NEW u \in Users, NEW n \in Names, UpdateUser(u, n)
        PROVE  \A b \in Actors : RequestOK(b)'
    <3>1. user[u] \in User
      BY <1>t DEF TypeOK
    <3>2. /\ user'[u].status = user[u].status /\ user'[u].name = n
          /\ Exists(u) /\ \A v \in Users \ {u} : user'[v] = user[v]
      BY <2>3, <3>1, <1>t DEF UpdateUser, TypeOK, User
    <3>3. moved \subseteq moved' /\ (n = user[u].name \/ n \in moved')
      BY <2>3 DEF UpdateUser
    <3>4. UsersKept
      BY <3>2, <3>3 DEF UsersKept, Exists
    <3> QED
      BY <2>3, <1>0, <3>4, NoChange DEF UpdateUser, Saved
  <2>4. ASSUME NEW u \in Users, NEW t \in Tokens, TerminalLogin(u, t)
        PROVE  \A b \in Actors : RequestOK(b)'
    <3>1. UsersKept
      BY <2>4, NoChange DEF TerminalLogin, history
    <3>2. /\ \A y \in Tokens \ {t} : log'[y] = log[y]
          /\ log[t].state = "none" /\ log'[t].state = "alive"
          /\ \A b \in Actors : req[b].token # t
      BY <2>4, <1>t DEF TerminalLogin, Unused, Logged, TypeOK
    <3>3. LogsKept
      BY <3>2 DEF LogsKept, Saved
    <3> QED
      BY <2>4, <1>0, <3>1, <3>2, <3>3 DEF TerminalLogin, Saved
  <2>5. ASSUME NEW t \in Tokens, Expire(t) PROVE \A b \in Actors : RequestOK(b)'
    <3>1. UsersKept /\ LogsKept
      BY <2>5, NoChange DEF Expire, history
    <3>2. Saved(t) /\ \A y \in Tokens \ {t} : cache'[y] = cache[y]
      BY <2>5, <1>t DEF Expire, Saved, TypeOK
    <3> QED
      BY <2>5, <1>0, <3>1, <3>2 DEF Expire, Saved
  <2>6. ASSUME NEW t \in Tokens, DeleteOutTime(t) PROVE \A b \in Actors : RequestOK(b)'
    <3>1. UsersKept
      BY <2>6, NoChange DEF DeleteOutTime, history
    <3>2. log[t] \in Log
      BY <1>t DEF TypeOK
    <3>3. /\ \A y \in Tokens \ {t} : log'[y] = log[y]
          /\ Saved(t) /\ log'[t].state = "deleted"
      BY <2>6, <3>2, <1>t DEF DeleteOutTime, DeleteRow, Saved, TypeOK, Log
    <3>4. LogsKept
      BY <3>3 DEF LogsKept, Saved
    <3> QED
      BY <2>6, <1>0, <3>1, <3>3, <3>4 DEF DeleteOutTime, Saved
  <2> QED
    BY <1>2, <2>1, <2>2, <2>3, <2>4, <2>5, <2>6 DEF Others, CreateUser, RestoreUser
<1>3. CASE Server
  <2>1. CASE Crash
    BY <2>1, <1>n DEF Crash
  <2>2. CASE FixUserOnlineState \/ ReloadToken
    <3>1. phase # "up" /\ req' = req
      BY <2>2 DEF FixUserOnlineState, ReloadToken
    <3> QED
      BY <3>1, <1>r, <1>n DEF RequestOK
  <2> QED
    BY <1>3, <2>1, <2>2 DEF Server
<1> QED
  BY <1>1, <1>2, <1>3

\* Types and requests are kept by every step.
LEMMA RequestsKept ==
    ASSUME LoginInv, Next PROVE TypeOK' /\ \A b \in Actors : RequestOK(b)'
<1>1. TypeOK /\ \A a \in Actors : RequestOK(a)
  BY DEF LoginInv
<1> QED
  BY <1>1, StepTypes, OtherTypes, StepRequests, AskRequests, OtherRequests DEF Next

-----------------------------------------------------------------------------
(* Tokens and logs.                                                        *)

\* a log keeps its name and its kind; one that is alive was so before, or its
\* user has just logged in
LEMMA LogSteps ==
    ASSUME LoginInv, Next, NEW t \in Tokens
    PROVE  /\ Saved(t) => Saved(t)' /\ log'[t].name = log[t].name
           /\ log'[t].state = "alive" =>
                \/ log'[t] = log[t]
                \/ log'[t].kind = "terminal"
                \/ \E a \in Actors : SaveLoginLog(a) /\ t = req[a].token
<1>t. TypeOK /\ log[t] \in Log
  BY DEF LoginInv, TypeOK
<1>1. CASE UNCHANGED log
  BY <1>1 DEF Saved
<1>2. ASSUME NEW a \in Actors, SaveLoginLog(a) PROVE
           /\ Saved(t) => Saved(t)' /\ log'[t].name = log[t].name
           /\ log'[t].state = "alive" => log'[t] = log[t] \/ t = req[a].token
  <2>1. t # req[a].token => log'[t] = log[t]
    BY <1>2, <1>t DEF SaveLoginLog, TypeOK
  <2>2. ~Saved(req[a].token)
    BY <1>2 DEF SaveLoginLog, At, LoginInv, RequestOK
  <2> QED
    BY <2>1, <2>2 DEF Saved
<1>3. ASSUME NEW u \in Users, NEW x \in Tokens, TerminalLogin(u, x) PROVE
           /\ Saved(t) => Saved(t)' /\ log'[t].name = log[t].name
           /\ log'[t].state = "alive" => log'[t] = log[t] \/ log'[t].kind = "terminal"
  BY <1>3, <1>t DEF TerminalLogin, Unused, Logged, Saved, TypeOK
<1>4. ASSUME NEW x, NEW st \in {"closed", "deleted"}, log[x].state # "none",
             log' = [log EXCEPT ![x] = [@ EXCEPT !.state = st]] PROVE
           /\ Saved(t) => Saved(t)' /\ log'[t].name = log[t].name
           /\ log'[t].state = "alive" => log'[t] = log[t]
  <2>1. CASE t = x
    BY <1>4, <2>1, <1>t DEF Log, Saved, TypeOK
  <2>2. CASE t # x
    BY <1>4, <2>2, <1>t DEF Saved, TypeOK
  <2> QED
    BY <2>1, <2>2
<1>5. CASE ReloadToken
  BY <1>5, <1>t DEF ReloadToken, Saved, Log
<1>6. ASSUME NEW a \in Actors, Row(a) PROVE Saved(req[a].token)
  BY <1>6 DEF Row, At, LoginInv, RequestOK
<1>7. \/ UNCHANGED log \/ ReloadToken
      \/ \E a \in Actors : SaveLoginLog(a) \/ Close(a) \/ Row(a)
      \/ \E u \in Users, x \in Tokens : TerminalLogin(u, x)
      \/ \E x \in Tokens : DeleteOutTime(x)
  BY DEF Next, Asks, Step, Others, Server, Disable, DeleteUser, FindUser, Call,
     DeleteLoginLogs, Sweep, Refused, LoginSuccess, Refresh, Each, EachDone, Status,
     Erase, Count, Offline, Drop, SetStatus, Enable,
     CreateUser, RestoreUser, NewUser, UpdateUser, Expire,
     Crash, FixUserOnlineState
<1>8. ASSUME NEW a \in Actors, Close(a) \/ Row(a) PROVE
        \/ UNCHANGED log
        \/ \E st \in {"closed", "deleted"} : log[req[a].token].state # "none"
             /\ log' = [log EXCEPT ![req[a].token] = [@ EXCEPT !.state = st]]
  BY <1>6, <1>8 DEF Close, Row, DeleteRow, Saved
<1>9. ASSUME NEW x \in Tokens, DeleteOutTime(x) PROVE
        /\ log[x].state # "none"
        /\ log' = [log EXCEPT ![x] = [@ EXCEPT !.state = "deleted"]]
  BY <1>9 DEF DeleteOutTime, DeleteRow
<1> QED
  BY <1>1, <1>2, <1>3, <1>4, <1>5, <1>7, <1>8, <1>9

\* what expires has its log
LEMMA ExpiredKept ==
    ASSUME LoginInv, Next
    PROVE  (\A t \in Tokens : cache[t] # None /\ ~cache[t].fresh => Saved(t))'
<1> SUFFICES ASSUME NEW t \in Tokens, cache'[t] # None, ~cache'[t].fresh
             PROVE  Saved(t)'
  BY DEF Saved
<1>t. TypeOK
  BY DEF LoginInv
<1>1. Saved(t) => Saved(t)'
  BY LogSteps
<1>2. CASE cache'[t] = cache[t] \/ cache'[t] = None
  BY <1>1, <1>2 DEF LoginInv
<1>3. ASSUME NEW x, NEW u, Fresh(x, u) PROVE cache'[t] = cache[t] \/ cache'[t].fresh
  BY <1>3, <1>t DEF Fresh, TypeOK
<1>4. ASSUME NEW x \in Tokens, Expire(x) PROVE cache'[t] = cache[t] \/ Saved(t)
  BY <1>4, <1>t DEF Expire, Saved, TypeOK
<1>5. ASSUME NEW S, TakeOut(S) PROVE cache'[t] = cache[t] \/ cache'[t] = None
  BY <1>5 DEF TakeOut
<1>6. CASE Crash \/ ReloadToken
  <2>1. cache'[t] = None \/ \E v : cache'[t] = [user |-> v, fresh |-> TRUE]
    <3>1. CASE Crash
      BY <3>1 DEF Crash
    <3>2. CASE ReloadToken
      <4> DEFINE v == CHOOSE u \in Named(log[t].name) : TRUE
      <4>1. cache'[t] = None \/ cache'[t] = [user |-> v, fresh |-> TRUE]
        BY <3>2 DEF ReloadToken
      <4> QED
        BY <4>1
    <3> QED
      BY <1>6, <3>1, <3>2
  <2>2. ASSUME NEW v, cache'[t] = [user |-> v, fresh |-> TRUE] PROVE FALSE
    <3>1. cache'[t].fresh
      BY <2>2
    <3> QED
      BY <3>1
  <2> QED
    BY <2>1, <2>2
<1>7. \/ UNCHANGED cache \/ Crash \/ ReloadToken
      \/ \E x \in Tokens : Expire(x)
      \/ \E S : TakeOut(S)
      \/ \E x, u : Fresh(x, u)
  <2>1. ASSUME NEW a \in Actors, Asks(a)
        PROVE  UNCHANGED cache \/ \E S : TakeOut(S)
    BY <2>1 DEF Asks, Disable, DeleteUser, FindUser, Call, DeleteLoginLogs, Sweep
  <2>2. ASSUME NEW a \in Actors, Refused(a) \/ Step(a)
        PROVE  UNCHANGED cache \/ (\E S : TakeOut(S)) \/ \E x, u : Fresh(x, u)
    <3>1. CASE LoginSuccess(a) \/ Refresh(a)
      BY <3>1 DEF LoginSuccess, Refresh
    <3>2. CASE Drop(a) \/ \E k \in Tokens : Each(a, k)
      BY <3>2 DEF Drop, Each
    <3> QED
      BY <2>2, <3>1, <3>2 DEF Refused, Step, SaveLoginLog, EachDone, Status, Erase, Close, Count,
         Offline, Row, SetStatus
  <2>3. CASE Others \/ Server
    BY <2>3 DEF Others, Server, Enable,
       CreateUser, RestoreUser, NewUser, UpdateUser, TerminalLogin, DeleteOutTime,
       FixUserOnlineState
  <2> QED
    BY <2>1, <2>2, <2>3 DEF Next
<1> QED
  BY <1>1, <1>2, <1>3, <1>4, <1>5, <1>6, <1>7

\* a login that is alive keeps its token, or is just being ended
LEMMA LiveKept ==
    ASSUME LoginInv, Next
    PROVE  LiveLogHasToken'
<1> USE LoginAssumption
<1> SUFFICES ASSUME NEW t \in Tokens, phase' = "up", Web(t)'
             PROVE  cache'[t] # None \/ \E b \in Actors : Closing(b, t)'
  BY DEF LiveLogHasToken
<1>t. TypeOK /\ \A b \in Actors : RequestOK(b) /\ req[b] \in Request
  BY DEF LoginInv, TypeOK
<1>1. CASE ReloadToken
  <2>1. log[t].state = "alive" /\ Named(log[t].name) # {}
    BY <1>1, <1>t DEF ReloadToken, Web, TypeOK, Log
  <2>2. PICK v \in Users : v = CHOOSE u \in Named(log[t].name) : TRUE
    BY <2>1 DEF Named
  <2>3. cache'[t] = [user |-> v, fresh |-> TRUE]
    BY <1>1, <2>1, <2>2 DEF ReloadToken
  <2>4. [user |-> v, fresh |-> TRUE] \in Entry
    BY DEF Entry
  <2> QED
    BY <2>3, <2>4
<1>2. ASSUME NEW a \in Actors, SaveLoginLog(a), t = req[a].token PROVE cache'[t] # None
  BY <1>2, <1>t DEF SaveLoginLog, At, RequestOK
<1> SUFFICES ASSUME ~ReloadToken, \A a \in Actors : SaveLoginLog(a) => t # req[a].token
             PROVE  cache'[t] # None \/ \E b \in Actors : Closing(b, t)'
  BY <1>1, <1>2
<1>3. log'[t] = log[t] /\ Web(t)
  BY LogSteps DEF Web
<1>4. phase = "up"
  BY <1>t, ZenonT(40)
  DEF TypeOK, Next, Asks, Step, Others, Server, Disable, DeleteUser, FindUser, Call,
     DeleteLoginLogs, Sweep, Refused, LoginSuccess, SaveLoginLog, Refresh, Each, EachDone, Status,
     Erase, Close, Count, Offline, Drop, Row, Begin, Idle, At, SetStatus, Enable,
     CreateUser, RestoreUser, NewUser,
     UpdateUser, TerminalLogin, Expire, DeleteOutTime, Crash, FixUserOnlineState
<1>5. cache[t] # None \/ \E b \in Actors : Closing(b, t)
  BY <1>3, <1>4 DEF LoginInv, LiveLogHasToken
\* what takes the token out goes on to close its log
<1>6. ASSUME cache[t] # None, cache'[t] = None PROVE \E b \in Actors : Closing(b, t)'
  <2>1. ASSUME NEW a \in Actors, Sweep(a) PROVE Closing(a, t)'
    <3>1. t \in Expired
      BY <1>6, <2>1 DEF Sweep, TakeOut
    <3>2. req'[a].op = "sweep" /\ req'[a].todo = Expired
      BY <2>1, <1>t DEF Sweep, Begin, TypeOK
    <3> QED
      BY <3>1, <3>2 DEF Closing
  <2>2. ASSUME NEW a \in Actors, NEW x \in Tokens, Each(a, x) PROVE Closing(a, t)'
    <3>1. t = x /\ Evicts(t) /\ Work(a, "close", t, t, "each")
      BY <1>6, <2>2 DEF Each, TakeOut, Evicts
    <3>2. req'[a] = [req[a] EXCEPT !.at = "close", !.token = t, !.back = "each",
                        !.todo = req[a].todo \ {t}]
      BY <3>1, <1>t DEF Work, TypeOK
    <3>3. req'[a].at = "close" /\ req'[a].token = t
      BY <3>2, <1>t DEF Request
    <3> QED
      BY <3>3 DEF Closing
  <2>3. ASSUME NEW a \in Actors, Drop(a) PROVE FALSE
    BY <1>3, <1>6, <2>3, <1>t DEF Drop, At, TakeOut, RequestOK, Web
  <2>4. ASSUME NEW x \in Tokens, NEW u \in Users, Fresh(x, u) PROVE FALSE
    <3>1. [user |-> u, fresh |-> TRUE] \in Entry
      BY DEF Entry
    <3> QED
      BY <1>6, <2>4, <3>1, <1>t DEF Fresh, TypeOK
  <2>5. ASSUME NEW x \in Tokens, Expire(x) PROVE FALSE
    <3>1. x = t => cache[x] \in Entry
      BY <1>6, <1>t DEF TypeOK
    <3>2. x = t => [cache[x] EXCEPT !.fresh = FALSE] \in Entry
      BY <3>1 DEF Entry
    <3> QED
      BY <1>6, <2>5, <3>2, <1>t DEF Expire, TypeOK
  <2>6. ASSUME NEW a \in Actors, LoginSuccess(a) \/ Refresh(a)
        PROVE  req[a].token \in Tokens /\ req[a].user \in Users
    BY <2>6, <1>t DEF LoginSuccess, Refresh, At, RequestOK, Request
  <2>7. \/ \E a \in Actors : \/ Sweep(a) \/ Drop(a) \/ \E x \in Tokens : Each(a, x)
                             \/ LoginSuccess(a) \/ Refresh(a)
        \/ \E x \in Tokens : Expire(x)
    BY <1>6 DEF Next, Asks, Step, Others, Server, Disable, DeleteUser, FindUser, Call,
     DeleteLoginLogs, Refused, SaveLoginLog, EachDone, Status,
     Erase, Close, Count, Offline, Row, SetStatus, Enable, CreateUser, RestoreUser, NewUser,
     UpdateUser, TerminalLogin, DeleteOutTime, Crash, FixUserOnlineState
  <2> QED
    BY <2>1, <2>2, <2>3, <2>4, <2>5, <2>6, <2>7 DEF LoginSuccess, Refresh
\* who is closing it has not closed it yet
<1>7. ASSUME NEW b \in Actors, Closing(b, t) PROVE Closing(b, t)'
  <2> DEFINE Swept == req[b].op = "sweep" /\ t \in req[b].todo
  <2>0. t # None /\ (req[b].at = "close" \/ req[b].op = "sweep" => req[b].at # "idle")
    BY <1>t DEF RequestOK, NoRequest
  <2>1. CASE req'[b] = req[b]
    BY <1>7, <2>1 DEF Closing
  <2>2. ASSUME NEW x \in Tokens, Each(b, x) PROVE Closing(b, t)'
    <3>1. Swept
      BY <1>7, <2>2 DEF Each, At, Closing
    <3>2. req'[b] = [req[b] EXCEPT !.at = "close", !.token = x, !.back = "each",
                        !.todo = req[b].todo \ {x}]
      BY <2>2, <3>1, <1>t DEF Each, Work, TypeOK
    <3>3. /\ req'[b].at = "close" /\ req'[b].token = x
          /\ req'[b].op = "sweep" /\ req'[b].todo = req[b].todo \ {x}
      BY <3>1, <3>2, <1>t DEF Request
    <3> QED
      BY <3>1, <3>3 DEF Closing
  <2>3. ASSUME req[b].at \in {"close", "count", "offline"}, Swept,
               GoBack(b) \/ Goto(b, "count") \/ Goto(b, "offline")
        PROVE  Closing(b, t)'
    <3>1. req[b].back = "each"
      BY <2>3, <1>t DEF RequestOK
    <3>2. /\ req'[b].op = "sweep" /\ req'[b].todo = req[b].todo
      <4>1. \/ req'[b] = [req[b] EXCEPT !.at = "each", !.token = None]
            \/ req'[b] = [req[b] EXCEPT !.at = "count"]
            \/ req'[b] = [req[b] EXCEPT !.at = "offline"]
        BY <2>3, <3>1, <1>t DEF GoBack, Goto, TypeOK
      <4>2. ASSUME req'[b] = [req[b] EXCEPT !.at = "each", !.token = None]
            PROVE  req'[b].op = req[b].op /\ req'[b].todo = req[b].todo
        BY <4>2, <1>t DEF Request
      <4>3. ASSUME NEW at, req'[b] = [req[b] EXCEPT !.at = at]
            PROVE  req'[b].op = req[b].op /\ req'[b].todo = req[b].todo
        BY <4>3, <1>t DEF Request
      <4> QED
        BY <2>3, <4>1, <4>2, <4>3
    <3> QED
      BY <2>3, <3>2 DEF Closing
  <2>4. CASE Close(b)
    <3>1. Swept /\ req[b].at = "close"
      <4>1. req[b].token # t
        BY <1>3, <2>4, <1>t DEF Close, Web, TypeOK, Log
      <4> QED
        BY <1>7, <2>4, <4>1 DEF Close, At, Closing
    <3>2. req[b].back = "each"
      BY <3>1, <1>t DEF RequestOK
    <3> QED
      BY <2>3, <2>4, <3>1, <3>2 DEF Close
  <2>5. CASE Count(b) \/ Offline(b)
    BY <1>7, <2>3, <2>5 DEF Count, Offline, At, Closing
  <2>6. CASE EachDone(b)
    BY <1>7, <2>6 DEF EachDone, At, Closing
  <2>7. CASE \/ LoginSuccess(b) \/ SaveLoginLog(b) \/ Refresh(b) \/ Refused(b)
             \/ Status(b) \/ Erase(b) \/ Drop(b) \/ Row(b)
    BY <1>7, <2>7, <1>t DEF LoginSuccess, SaveLoginLog, Refresh, Refused, Status, Erase, Drop,
       Row, At, Closing, RequestOK
  <2>8. CASE Asks(b)
    BY <1>7, <2>0, <2>8 DEF Asks, Disable, DeleteUser, FindUser, Call, DeleteLoginLogs, Sweep,
       Begin, Idle, Closing
  <2>9. ASSUME NEW a \in Actors, a # b, Asks(a) \/ Refused(a) \/ Step(a) PROVE req'[b] = req[b]
    BY <2>9, <1>t DEF Asks, Step, Disable, DeleteUser, FindUser, Call, DeleteLoginLogs, Sweep,
       Refused, Begin, LoginSuccess, SaveLoginLog, Refresh, Each, EachDone, Status, Erase, Close,
       Count, Offline, Drop, Row, Goto, Over, Work, GoBack, TypeOK
  <2>10. CASE Others \/ Server
    BY <2>10, <2>1, <1>4 DEF Others, Server, Enable,
       CreateUser, RestoreUser, NewUser, UpdateUser, TerminalLogin,
       Expire, DeleteOutTime, Crash, FixUserOnlineState
  <2> QED
    BY <2>1, <2>2, <2>4, <2>5, <2>6, <2>7, <2>8, <2>9, <2>10 DEF Next, Step
<1> QED
  BY <1>5, <1>6, <1>7

-----------------------------------------------------------------------------
(* Who is online.                                                          *)

\* what a step must not do to a name that is backed
LEMMA BackedKept ==
    ASSUME LoginInv, Next, NEW n, Backed(n), NEW B \in SUBSET Actors,
           \A b \in Actors \ B : req'[b] = req[b],
           \A b \in B : Settles(b, n) => Backed(n)',
           Alive(n) # {} => Backed(n)'
    PROVE  Backed(n)'
<1>1. CASE Alive(n) # {}
  BY <1>1
<1>2. ASSUME NEW b \in B, Settles(b, n) PROVE Backed(n)'
  BY <1>2
<1>3. ASSUME NEW b \in Actors \ B, Settles(b, n) PROVE Backed(n)'
  <2>1. req[b].at \in {"count", "offline"} =>
          req[b].token \in Tokens /\ Saved(req[b].token)
    BY DEF LoginInv, TypeOK, RequestOK, Request
  <2>2. Settles(b, n)'
    BY <1>3, <2>1, LogSteps DEF Settles, Closed
  <2> QED
    BY <2>2 DEF Backed
<1> QED
  BY <1>1, <1>2, <1>3 DEF Backed

\* A name stays backed when only one request moves on and that one keeps it.
LEMMA BackedKeptBy ==
    ASSUME LoginInv, Next, NEW n, Backed(n), NEW a \in Actors,
           \A b \in Actors \ {a} : req'[b] = req[b],
           Settles(a, n) => Backed(n)',
           Alive(n) # {} => Backed(n)'
    PROVE  Backed(n)'
<1>1. {a} \in SUBSET Actors /\ \A b \in {a} : Settles(b, n) => Backed(n)'
  OBVIOUS
<1> QED
  BY <1>1, BackedKept

\* To show OnlineHasLog after a step, show that the names of users online are backed.
LEMMA OnlineGoal ==
    ASSUME \A u \in Users \ restored' : \A n :
             Exists(u)' /\ user'[u].online /\ user'[u].name = n /\ n \notin moved'
               => Backed(n)'
    PROVE  OnlineHasLog'
  BY DEF OnlineHasLog, Exists, Backed, Settles, Closed, Alive

\* A user online has a name that is backed.
LEMMA OnlineBacked ==
    ASSUME LoginInv, phase # "down", NEW u \in Users \ restored, NEW n, Exists(u), user[u].online,
           user[u].name = n, n \notin moved
    PROVE  Backed(n)
  BY DEF LoginInv, OnlineHasLog

\* a user who is online and keeps the name was so before
OnlineSame ==
    \A u \in Users \ restored' :
        user'[u].status \in {"enabled", "disabled"} /\ user'[u].online
        /\ user'[u].name \notin moved'
          => /\ u \notin restored /\ Exists(u) /\ user[u].online /\ user[u].name \notin moved
             /\ user'[u].name = user[u].name

\* A step that marks nobody online and keeps names backed keeps OnlineHasLog.
LEMMA OnlineFrame ==
    ASSUME LoginInv, Next, phase # "down", OnlineSame,
           \A n : Backed(n) => Backed(n)'
    PROVE  OnlineHasLog'
<1> SUFFICES ASSUME NEW u \in Users \ restored', NEW n, Exists(u)', user'[u].online,
                    user'[u].name = n, n \notin moved'
             PROVE  Backed(n)'
  BY OnlineGoal
<1>1. /\ Exists(u) /\ user[u].online /\ n \notin moved /\ user[u].name = n
      /\ u \notin restored
  BY DEF OnlineSame, Exists
<1>2. Backed(n)
  BY <1>1, OnlineBacked
<1> QED
  BY <1>2

\* the logs that are alive stay so
LEMMA AliveKept ==
    ASSUME LoginInv, NEW n, Alive(n) # {},
           \A t \in Tokens : log[t].state = "alive" =>
              log'[t].state = "alive" /\ log'[t].name = log[t].name
    PROVE  Backed(n)'
  BY DEF Alive, Backed

\* Every step keeps OnlineHasLog.
LEMMA OnlineKept ==
    ASSUME LoginInv, Next
    PROVE  OnlineHasLog'
<1> USE LoginAssumption
<1>t. TypeOK /\ \A b \in Actors : RequestOK(b) /\ req[b] \in Request
  BY DEF LoginInv, TypeOK
<1>s. UNCHANGED <<user, moved, restored>> => OnlineSame
  BY DEF OnlineSame, Exists
<1>l. ASSUME UNCHANGED log, NEW n, Alive(n) # {} PROVE Backed(n)'
  BY <1>l, AliveKept
\* a request which neither was about to settle nor closes a log
<1>q. ASSUME NEW a \in Actors, req[a].at \notin {"log", "count", "offline"},
             phase = "up", OnlineSame, \A b \in Actors \ {a} : req'[b] = req[b],
             \A t \in Tokens : log[t].state = "alive" =>
               log'[t].state = "alive" /\ log'[t].name = log[t].name
      PROVE  OnlineHasLog'
  <2>1. ASSUME NEW n, Backed(n) PROVE Backed(n)'
    <3>1. ~Settles(a, n)
      BY <1>q DEF Settles
    <3>2. Alive(n) # {} => Backed(n)'
      BY <1>q, AliveKept
    <3> QED
      BY <1>q, <2>1, <3>1, <3>2, BackedKeptBy
  <2> QED
    BY <1>q, <2>1, OnlineFrame
<1>1. ASSUME NEW a \in Actors, Asks(a) PROVE OnlineHasLog'
  <2>1. /\ phase = "up" /\ req[a].at = "idle" /\ UNCHANGED <<user, log, moved, restored>>
        /\ \A b \in Actors \ {a} : req'[b] = req[b]
    BY <1>1, <1>t DEF Asks, Disable, DeleteUser, FindUser, Call, DeleteLoginLogs, Sweep, Begin,
       Idle, TypeOK
  <2> QED
    BY <1>q, <1>s, <2>1
<1>2. ASSUME NEW a \in Actors, \/ Refused(a) \/ Refresh(a) \/ EachDone(a) \/ Drop(a)
                               \/ \E t \in Tokens : Each(a, t)
      PROVE  OnlineHasLog'
  <2>1. /\ phase = "up" /\ req[a].at \in {"token", "refresh", "each", "drop"}
        /\ UNCHANGED <<user, log, moved, restored>>
        /\ \A b \in Actors \ {a} : req'[b] = req[b]
    BY <1>2, <1>t DEF Refused, Refresh, EachDone, Drop, Each, At, Over, Goto, Work, history,
       TypeOK
  <2> QED
    BY <1>q, <1>s, <2>1
<1>3. ASSUME NEW a \in Actors, Status(a) \/ Erase(a) PROVE OnlineHasLog'
  <2>1. /\ phase = "up" /\ req[a].at \in {"status", "erase"} /\ UNCHANGED <<log, moved, restored>>
        /\ \A b \in Actors \ {a} : req'[b] = req[b]
    BY <1>3, <1>t DEF Status, Erase, SetStatus, At, Over, Goto, history, TypeOK
  <2>2. PICK v \in {req[a].user}, st \in {"deleted", "disabled"} :
          \/ user' = user
          \/ Exists(v) /\ user' = [user EXCEPT ![v] = [user[v] EXCEPT !.status = st]]
    BY <1>3 DEF Status, Erase, SetStatus, Exists
  <2>3. OnlineSame
    <3> SUFFICES ASSUME NEW u \in Users
                 PROVE  /\ user'[u].name = user[u].name /\ user'[u].online = user[u].online
                        /\ user'[u].status \in {"enabled", "disabled"} => Exists(u)
      BY <2>1 DEF OnlineSame
    <3>1. user[u] \in User
      BY <1>t DEF TypeOK
    <3>2. \/ user'[u] = user[u]
          \/ Exists(u) /\ user'[u] = [user[u] EXCEPT !.status = st]
      BY <2>2, <1>t DEF TypeOK, Exists
    <3> QED
      BY <3>1, <3>2 DEF User, Exists
  <2> QED
    BY <1>q, <2>1, <2>3
\* the user is marked online before the log is written
<1>4. ASSUME NEW a \in Actors, LoginSuccess(a) PROVE OnlineHasLog'
  <2>1. /\ phase = "up" /\ req[a].at = "token" /\ UNCHANGED <<log, moved>>
        /\ restored' = restored \ {req[a].user}
        /\ \A b \in Actors \ {a} : req'[b] = req[b]
        /\ req'[a] = [req[a] EXCEPT !.at = "log"]
    BY <1>4, <1>t DEF LoginSuccess, At, Goto, history, TypeOK
  <2>2. ASSUME NEW n, Backed(n) PROVE Backed(n)'
    <3>1. ~Settles(a, n)
      BY <2>1 DEF Settles
    <3>2. Alive(n) # {} => Backed(n)'
      BY <1>l, <2>1
    <3> QED
      BY <2>1, <2>2, <3>1, <3>2, BackedKeptBy
  <2>3. ASSUME NEW n, n = req[a].name PROVE Backed(n)'
    <3>1. req'[a].at = "log" /\ req'[a].name = req[a].name
      BY <2>1, <1>t DEF Request
    <3> QED
      BY <2>3, <3>1 DEF Backed, Settles
  <2> SUFFICES ASSUME NEW u \in Users \ restored', NEW n, Exists(u)', user'[u].online,
                      user'[u].name = n, n \notin moved'
               PROVE  Backed(n)'
    BY OnlineGoal
  <2>4. /\ user'[u].name = user[u].name /\ user'[u].status = user[u].status
        /\ u # req[a].user => user'[u] = user[u]
    <3>1. user[u] \in User
      BY <1>t DEF TypeOK
    <3>2. user'[u] = user[u] \/ u = req[a].user
      BY <1>4, <1>t DEF LoginSuccess, TypeOK
    <3>3. user'[u] = user[u] \/ user'[u] = [user[u] EXCEPT !.online = TRUE]
      BY <1>4, <1>t DEF LoginSuccess, TypeOK
    <3> QED
      BY <3>1, <3>2, <3>3 DEF User
  <2>5. Exists(u) /\ n \notin moved /\ (u # req[a].user => u \notin restored)
    BY <2>1, <2>4 DEF Exists
  <2>6. CASE u = req[a].user
    <3>1. user[u].name = req[a].name
      BY <2>1, <2>4, <2>5, <2>6, <1>t DEF RequestOK
    <3> QED
      BY <2>3, <2>4, <3>1
  <2>7. CASE u # req[a].user
    <3>1. Backed(n)
      BY <2>1, <2>4, <2>5, <2>7, OnlineBacked
    <3> QED
      BY <2>2, <3>1
  <2> QED
    BY <2>6, <2>7
<1>5. ASSUME NEW a \in Actors, SaveLoginLog(a) PROVE OnlineHasLog'
  <2>1. /\ phase = "up" /\ req[a].at = "log" /\ UNCHANGED <<user, moved, restored>>
        /\ \A b \in Actors \ {a} : req'[b] = req[b]
    BY <1>5, <1>t DEF SaveLoginLog, At, Over, history, TypeOK
  <2>2. req[a].token \in Tokens /\ ~Saved(req[a].token)
    BY <2>1, <1>t DEF RequestOK, Request
  <2>3. /\ \A t \in Tokens \ {req[a].token} : log'[t] = log[t]
        /\ log'[req[a].token].state = "alive" /\ log'[req[a].token].name = req[a].name
    BY <1>5, <2>2, <1>t DEF SaveLoginLog, Logged, TypeOK
  <2>4. ASSUME NEW n, Backed(n) PROVE Backed(n)'
    <3>1. Alive(n) # {} => Backed(n)'
      BY <2>2, <2>3, AliveKept DEF Saved
    <3>2. Settles(a, n) => Backed(n)'
      BY <2>1, <2>2, <2>3 DEF Settles, Backed, Alive
    <3> QED
      BY <2>1, <2>4, <3>1, <3>2, BackedKeptBy
  <2> QED
    BY <1>s, <2>1, <2>4, OnlineFrame
<1>6. ASSUME NEW a \in Actors, Close(a) PROVE OnlineHasLog'
  <2>1. /\ phase = "up" /\ req[a].at = "close" /\ UNCHANGED <<user, moved, restored>>
        /\ \A b \in Actors \ {a} : req'[b] = req[b]
    BY <1>6, <1>t DEF Close, At, Goto, Over, GoBack, history, TypeOK
  <2>2. req[a].token \in Tokens
    BY <2>1, <1>t DEF RequestOK, Request
  <2>3. \/ UNCHANGED log
        \/ /\ \A t \in Tokens \ {req[a].token} : log'[t] = log[t]
           /\ log'[req[a].token].name = log[req[a].token].name
           /\ req'[a].at = "count" /\ req'[a].token = req[a].token
    <3>1. log[req[a].token] \in Log
      BY <2>2, <1>t DEF TypeOK
    <3> QED
      BY <1>6, <2>2, <3>1, <1>t DEF Close, Goto, TypeOK, Log, Request
  <2>4. ASSUME NEW n, Backed(n) PROVE Backed(n)'
    <3>1. ~Settles(a, n)
      BY <2>1 DEF Settles
    <3>2. ASSUME Alive(n) # {} PROVE Backed(n)'
      <4>1. CASE UNCHANGED log
        BY <1>l, <3>2, <4>1
      <4>2. CASE ~UNCHANGED log
        <5>1. PICK t \in Tokens : log[t].state = "alive" /\ log[t].name = n
          BY <3>2 DEF Alive
        <5>2. CASE t = req[a].token
          BY <2>3, <4>2, <5>1, <5>2 DEF Backed, Settles, Closed
        <5>3. CASE t # req[a].token
          BY <2>3, <4>2, <5>1, <5>3 DEF Backed, Alive
        <5> QED
          BY <5>2, <5>3
      <4> QED
        BY <4>1, <4>2
    <3> QED
      BY <2>1, <2>4, <3>1, <3>2, BackedKeptBy
  <2> QED
    BY <1>s, <2>1, <2>4, OnlineFrame
<1>7. ASSUME NEW a \in Actors, Count(a) PROVE OnlineHasLog'
  <2>1. /\ phase = "up" /\ req[a].at = "count" /\ UNCHANGED <<user, log, moved, restored>>
        /\ \A b \in Actors \ {a} : req'[b] = req[b]
    BY <1>7, <1>t DEF Count, At, Goto, GoBack, history, TypeOK
  <2>2. ASSUME NEW n, Backed(n) PROVE Backed(n)'
    <3>1. ASSUME Settles(a, n) PROVE Backed(n)'
      <4>1. Closed(a) = n
        BY <2>1, <3>1 DEF Settles
      <4>2. CASE NoneLeft(a)
        <5>1. req'[a] = [req[a] EXCEPT !.at = "offline"]
          BY <1>7, <4>2, <1>t DEF Count, Goto, TypeOK
        <5>2. req'[a].at = "offline" /\ req'[a].token = req[a].token
          BY <5>1, <1>t DEF Request
        <5> QED
          BY <2>1, <4>1, <5>2 DEF Backed, Settles, Closed
      <4>3. CASE ~NoneLeft(a)
        BY <1>l, <2>1, <4>1, <4>3 DEF NoneLeft
      <4> QED
        BY <4>2, <4>3
    <3>2. Alive(n) # {} => Backed(n)'
      BY <1>l, <2>1
    <3> QED
      BY <2>1, <2>2, <3>1, <3>2, BackedKeptBy
  <2> QED
    BY <1>s, <2>1, <2>2, OnlineFrame
<1>8. ASSUME NEW a \in Actors, Offline(a) PROVE OnlineHasLog'
  <2>1. /\ phase = "up" /\ req[a].at = "offline" /\ UNCHANGED <<log, moved, restored>>
        /\ \A b \in Actors \ {a} : req'[b] = req[b]
    BY <1>8, <1>t DEF Offline, At, Goto, GoBack, history, TypeOK
  <2>2. ASSUME NEW n, Backed(n), n # Closed(a) PROVE Backed(n)'
    <3>1. ~Settles(a, n)
      BY <2>1, <2>2 DEF Settles
    <3>2. Alive(n) # {} => Backed(n)'
      BY <1>l, <2>1
    <3> QED
      BY <2>1, <2>2, <3>1, <3>2, BackedKeptBy
  <2> SUFFICES ASSUME NEW u \in Users \ restored', NEW n, Exists(u)', user'[u].online,
                      user'[u].name = n, n \notin moved'
               PROVE  Backed(n)'
    BY OnlineGoal
  <2>3. user'[u] = user[u] /\ user[u].name # Closed(a)
    <3>1. user[u] \in User
      BY <1>t DEF TypeOK
    <3>2. user'[u] = IF Exists(u) /\ user[u].name = Closed(a)
                     THEN [user[u] EXCEPT !.online = FALSE] ELSE user[u]
      BY <1>8 DEF Offline
    <3> QED
      BY <3>1, <3>2 DEF User, Exists
  <2>4. Backed(n)
    BY <2>1, <2>3, OnlineBacked DEF Exists
  <2> QED
    BY <2>2, <2>3, <2>4
<1>9. ASSUME NEW a \in Actors, Row(a) PROVE OnlineHasLog'
  <2>1. /\ phase = "up" /\ req[a].at = "row" /\ UNCHANGED <<user, moved, restored>>
        /\ \A b \in Actors \ {a} : req'[b] = req[b]
    BY <1>9, <1>t DEF Row, At, history, TypeOK
  <2>2. log[req[a].token].state # "alive"
    BY <2>1, <1>t DEF RequestOK
  <2>3. \A t \in Tokens : log[t].state = "alive" => log'[t] = log[t]
    BY <1>9, <2>2, <1>t DEF Row, DeleteRow, TypeOK
  <2> QED
    BY <1>q, <1>s, <2>1, <2>3
\* no request is at work
<1>o. ASSUME OnlineSame, req' = req, phase # "down",
             \A t \in Tokens : log[t].state = "alive" =>
               log'[t].state = "alive" /\ log'[t].name = log[t].name
      PROVE  OnlineHasLog'
  <2>1. ASSUME NEW n, Backed(n) PROVE Backed(n)'
    <3>1. Alive(n) # {} => Backed(n)'
      BY <1>o, AliveKept
    <3>2. {} \in SUBSET Actors
      OBVIOUS
    <3> QED
      BY <1>o, <2>1, <3>1, <3>2, BackedKept
  <2> QED
    BY <1>o, <2>1, OnlineFrame
<1>10. CASE Others
  <2>1. ASSUME NEW u \in Users, Enable(u) PROVE OnlineHasLog'
    <3>1. user[u] \in User
      BY <1>t DEF TypeOK
    <3>2. OnlineSame
      BY <2>1, <3>1, <1>t DEF Enable, OnlineSame, Exists, history, TypeOK, User
    <3> QED
      BY <2>1, <3>2, <1>o DEF Enable
  <2>2. ASSUME NEW u \in Users, NEW n \in Names,
             NEW st \in {"enabled", "disabled"}, NEW on \in BOOLEAN, NewUser(u, n, st, on)
      PROVE  OnlineHasLog'
    <3>1. OnlineSame
      BY <2>2, <1>t DEF NewUser, OnlineSame, Exists, TypeOK
    <3> QED
      BY <2>2, <3>1, <1>o DEF NewUser
  <2>3. ASSUME NEW u \in Users, NEW n \in Names, UpdateUser(u, n) PROVE OnlineHasLog'
    <3>1. user[u] \in User
      BY <1>t DEF TypeOK
    <3>2. /\ user'[u].status = user[u].status /\ user'[u].name = n
          /\ user'[u].online = user[u].online
          /\ Exists(u) /\ \A v \in Users \ {u} : user'[v] = user[v]
      BY <2>3, <3>1, <1>t DEF UpdateUser, TypeOK, User
    <3>3. /\ moved \subseteq moved' /\ (n = user[u].name \/ n \in moved')
          /\ restored' = restored
      BY <2>3 DEF UpdateUser
    <3>4. OnlineSame
      BY <3>2, <3>3 DEF OnlineSame, Exists
    <3> QED
      BY <2>3, <3>4, <1>o DEF UpdateUser
  <2>4. ASSUME NEW u \in Users, NEW t \in Tokens, TerminalLogin(u, t) PROVE OnlineHasLog'
    <3>1. /\ \A y \in Tokens \ {t} : log'[y] = log[y]
          /\ log[t].state = "none"
      BY <2>4, <1>t DEF TerminalLogin, Unused, TypeOK
    <3> QED
      BY <2>4, <3>1, <1>o, <1>s DEF TerminalLogin, history
  <2>5. ASSUME NEW t \in Tokens, Expire(t) PROVE OnlineHasLog'
    BY <2>5, <1>o, <1>s DEF Expire, history
  <2>6. ASSUME NEW t \in Tokens, DeleteOutTime(t) PROVE OnlineHasLog'
    <3>1. /\ \A y \in Tokens \ {t} : log'[y] = log[y]
          /\ log[t].state = "closed"
      BY <2>6, <1>t DEF DeleteOutTime, DeleteRow, TypeOK
    <3> QED
      BY <2>6, <3>1, <1>o, <1>s DEF DeleteOutTime, history
  <2> QED
    BY <1>10, <2>1, <2>2, <2>3, <2>4, <2>5, <2>6 DEF Others, CreateUser, RestoreUser
<1>11. CASE Crash
  BY <1>11 DEF Crash, OnlineHasLog
<1>12. CASE FixUserOnlineState
  <2> SUFFICES ASSUME NEW u \in Users \ restored', NEW n, Exists(u)', user'[u].online,
                      user'[u].name = n, n \notin moved'
               PROVE  Backed(n)'
    BY OnlineGoal
  <2>1. user[u] \in User
    BY <1>t DEF TypeOK
  <2>2. user'[u] = IF Exists(u) /\ Alive(user[u].name) = {}
                   THEN [user[u] EXCEPT !.online = FALSE] ELSE user[u]
    BY <1>12 DEF FixUserOnlineState
  <2>3. user[u].name = n /\ Alive(n) # {}
    BY <2>1, <2>2 DEF User, Exists
  <2>4. log' = log
    BY <1>12 DEF FixUserOnlineState
  <2> QED
    BY <1>l, <2>3, <2>4
<1>13. CASE ReloadToken
  <2>1. phase = "boot" /\ UNCHANGED <<user, moved, restored>>
    BY <1>13 DEF ReloadToken, history
  <2> SUFFICES ASSUME NEW u \in Users \ restored', NEW n, Exists(u)', user'[u].online,
                      user'[u].name = n, n \notin moved'
               PROVE  Backed(n)'
    BY OnlineGoal
  <2>2. Exists(u) /\ user[u].name = n /\ Backed(n)
    BY <2>1, OnlineBacked DEF Exists
  <2>3. \A b \in Actors : ~Settles(b, n)
    BY <2>1, <1>t DEF RequestOK, NoRequest, Settles
  <2>4. PICK t \in Tokens : log[t].state = "alive" /\ log[t].name = n
    BY <2>2, <2>3 DEF Backed, Alive
  <2>5. u \in Named(log[t].name)
    BY <2>2, <2>4 DEF Named
  <2>6. log'[t] = log[t]
    BY <1>13, <2>4, <2>5 DEF ReloadToken
  <2> QED
    BY <2>4, <2>6 DEF Backed, Alive
<1> QED
  BY <1>1, <1>2, <1>3, <1>4, <1>5, <1>6, <1>7, <1>8, <1>9, <1>10, <1>11, <1>12, <1>13
  DEF Next, Step, Server

-----------------------------------------------------------------------------
(* The theorems.                                                           *)

\* The invariant is inductive.
LEMMA NextInv == LoginInv /\ [Next]_vars => LoginInv'
<1> SUFFICES ASSUME LoginInv, [Next]_vars PROVE LoginInv'
  OBVIOUS
<1>1. CASE Next
  BY <1>1, RequestsKept, ExpiredKept, LiveKept, OnlineKept DEF LoginInv
<1>2. CASE UNCHANGED vars
  BY <1>2 DEF vars, history, LoginInv, TypeOK, RequestOK, NoRequest, Exists, Saved,
     LiveLogHasToken, Web, Closing, OnlineHasLog, Backed, Settles, Closed, Alive
<1> QED
  BY <1>1, <1>2

\* Every call of a request finds what the one before it left, and logs, tokens
\* and users agree, however many users, names, tokens and requests there are.
THEOREM RequestsAreSound == Spec => []LoginInv
<1> QED
  BY InitInv, NextInv, PTL DEF Spec

\* Every login of a browser that the logs show as alive has its token in the
\* cache, or is just being ended: logouts, calls, the janitor, administrators
\* and restarts may overlap as they like.
THEOREM LiveLogsHaveTokens == Spec => []LiveLogHasToken
<1>1. LoginInv => LiveLogHasToken
  BY DEF LoginInv
<1> QED
  BY <1>1, RequestsAreSound, PTL

\* A user who is shown as online, under a name that no user gave up or took,
\* has a login that is alive, or a request is about to put that right, or a backup
\* brought the mark and no login and no start of the server came since.
THEOREM OnlineUsersHaveLogs == Spec => []OnlineHasLog
<1>1. LoginInv => OnlineHasLog
  BY DEF LoginInv
<1> QED
  BY <1>1, RequestsAreSound, PTL

-----------------------------------------------------------------------------
(* What is true of a name while no two requests about it have overlapped    *)
(* and no user has given it up or taken it.                                *)

Plain(n) == n \in Names /\ n \notin mixed /\ n \notin moved

\* the logins of browsers that are alive, and those whose token works
WebOf(n)   == {t \in Tokens : Web(t) /\ log[t].name = n}
WorksOf(n) == {t \in Tokens : Works(t) /\ log[t].name = n}

\* the user of a name, if one of the two was never given up or taken
Matches(u, n) ==
    /\ user[u].status # "absent"
    /\ n \notin moved \/ user[u].name \notin moved => user[u].name = n

\* the name about which a request was made is its user's
Asked(a) ==
    LET r == req[a] IN
    /\ r.op \in {"login", "disable", "delete"} => r.user # None /\ Matches(r.user, r.name)
    /\ r.op = "login" => r.at \in {"token", "log"}
    /\ r.at = "log" => cache[r.token] # None /\ cache[r.token].user = r.user
    /\ r.back # "each" \/ r.at \in {"drop", "row"} => r.op = "purge"
    /\ r.at = "refresh" =>
         r.op \in {"call", "logout"} /\ Known(r.token) /\ Matches(r.user, log[r.token].name)
    /\ r.at = "erase" => r.op = "delete"
    /\ r.at = "status" => r.op = "disable" /\ r.todo = {}

\* tokens are of the user whose name the log has
Honest ==
    /\ \A u \in Users : user[u].status # "absent" => user[u].name \in Names
    /\ \A t \in Tokens : /\ ~Saved(t) => log[t].name = None
                         /\ Works(t) => Matches(cache[t].user, log[t].name)

Single ==
    \A n \in Names \ mixed, a, b \in Actors :
        n \in About(a) /\ n \in About(b) => a = b

\* it takes a token out of the cache before it closes the log, or after
Ending(a)      == \/ req[a].at \in {"close", "count", "offline"} /\ req[a].back # "drop"
                  \/ req[a].at = "row"
Dropping(a, t) == /\ req[a].token = t /\ req[a].back = "drop"
                  /\ req[a].at \in {"count", "offline", "drop"}

Deletes(a) == req[a].op = "delete"
Ends(a)    == req[a].op \in {"disable", "delete"}

\* what a request about the name holds
Holds(a, n) ==
    LET r == req[a] IN
    /\ r.op = "login" /\ r.name = n =>
         user[r.user].status = "enabled" /\ (r.at = "log" => user[r.user].online)
    /\ r.at = "refresh" /\ log[r.token].name = n =>
         r.token \in WebOf(n) /\ user[r.user].status = "enabled"
    /\ Ends(a) /\ r.name = n =>
         /\ \A t \in WorksOf(n) : cache[t].user = r.user => t \in r.todo
         /\ \A t \in WebOf(n) : t \in r.todo \/ Closing(a, t)
    /\ Ending(a) => r.token \notin WorksOf(n)
    /\ r.op = "sweep" => r.todo \cap WorksOf(n) = {}
    /\ r.at = "offline" /\ Closed(a) = n => WebOf(n) = {}

\* what its users and tokens are
UsersOf(n) ==
    /\ \A u, v \in Named(n) : u = v
    /\ \A u \in Users : user[u].name = n /\ user[u].status = "disabled" => WebOf(n) = {}
    /\ \A u \in Named(n) : WebOf(n) # {} => user[u].online
    /\ phase = "up" /\ Named(n) = {} /\ WebOf(n) # {} =>
         \E a \in Actors : Deletes(a) /\ req[a].name = n

TokensOf(n) ==
    \A t \in WorksOf(n) :
        /\ t \in WebOf(n) \/ \E a \in Actors : Dropping(a, t)
        /\ \/ user[cache[t].user].status = "enabled"
           \/ /\ user[cache[t].user].status = "deleted"
              /\ \E a \in Actors : Deletes(a) /\ req[a].user = cache[t].user

InOrder(n) == UsersOf(n) /\ TokensOf(n) /\ \A a \in Actors : Holds(a, n)

AloneInv ==
    /\ LoginInv
    /\ Honest
    /\ \A a \in Actors : Asked(a)
    /\ Single
    /\ \A n \in Names : Plain(n) => InOrder(n)

\* A token that no request has taken stays one of its user while users only move
\* to names that are remembered.
UsersMove ==
    /\ moved \subseteq moved'
    /\ \A u \in Users : user[u].status # "absent" =>
         /\ user'[u].status # "absent"
         /\ \/ user'[u].name = user[u].name
            \/ user[u].name \in moved' /\ user'[u].name \in moved'

\* A request holds nothing of a name it is not about.
LEMMA AboutHolds ==
    ASSUME TypeOK', NEW a \in Actors, RequestOK(a)', NEW n \in Names, n \notin About(a)'
    PROVE  Holds(a, n)'
<1> USE LoginAssumption
<1>1. /\ req'[a].name # n
      /\ req'[a].token # None => log'[req'[a].token].name # n
      /\ \A t \in req'[a].todo : log'[t].name # n
  BY DEF About
<1>2. req'[a] \in Request /\ req'[a].token \in Tokens \cup {None}
  BY DEF TypeOK, Request
<1>3. req'[a].token \notin WorksOf(n)'
  BY <1>1, <1>2 DEF WorksOf
<1>4. req'[a].todo \cap WorksOf(n)' = {}
  BY <1>1 DEF WorksOf
<1>5. req'[a].at \in {"refresh", "offline"} => req'[a].token # None
  BY DEF RequestOK
<1> QED
  BY <1>1, <1>3, <1>4, <1>5 DEF Holds, Closed

\* what the calls of a request can touch
Touches(a) ==
    /\ phase = "up" /\ phase' = "up" /\ UNCHANGED <<mixed, moved>>
    /\ \A b \in Actors \ {a} : req'[b] = req[b]
    /\ \A t \in Tokens :
         \/ log'[t] = log[t]
         \/ /\ req[a].token = t /\ Saved(t) /\ log'[t].state \notin {"none", "alive"}
            /\ log'[t].name = log[t].name /\ log'[t].kind = log[t].kind
         \/ /\ req[a].token = t /\ req[a].at = "log" /\ req'[a] = NoRequest
            /\ log'[t] = Logged(req[a].name, "web")
    /\ \A t \in Tokens :
         \/ cache'[t] = cache[t]
         \/ cache'[t] = None /\ t \in {req[a].token} \cup req[a].todo
         \/ /\ req[a].token = t /\ req[a].at \in {"token", "refresh"}
            /\ cache'[t] = [user |-> req[a].user, fresh |-> TRUE]
    /\ \A u \in Users :
         /\ user'[u].name = user[u].name
         /\ user'[u].status = "absent" <=> user[u].status = "absent"
         /\ \/ user'[u] = user[u]
            \/ u = req[a].user /\ req[a].op \in {"login", "disable", "delete"}
            \/ req[a].at = "offline" /\ user[u].name = Closed(a)
    /\ req'[a].name \in {req[a].name, None}
    /\ req'[a].token \in {req[a].token, None} \cup req[a].todo
    /\ req'[a].todo \subseteq req[a].todo \cup ({req[a].token} \ {None})

\* A call touches what its request is about.
LEMMA StepTouches ==
    ASSUME TypeOK, NEW a \in Actors, RequestOK(a), Asked(a), Step(a) \/ Refused(a)
    PROVE  Touches(a)
<1> USE LoginAssumption
<1>r. req[a] \in Request /\ \A u \in Users : user[u] \in User
  BY DEF TypeOK
<1>0. /\ phase = "up" /\ phase' = "up" /\ UNCHANGED <<mixed, moved>>
      /\ \A b \in Actors \ {a} : req'[b] = req[b]
  BY DEF Step, Refused, LoginSuccess, SaveLoginLog, Refresh, Each, EachDone, Status, Erase,
         Close, Count, Offline, Drop, Row, At, Goto, Over, Work, GoBack, SetStatus, TypeOK,
         history
<1>l. ASSUME NEW t \in Tokens
      PROVE  \/ log'[t] = log[t]
             \/ /\ req[a].token = t /\ Saved(t) /\ log'[t].state \notin {"none", "alive"}
                /\ log'[t].name = log[t].name /\ log'[t].kind = log[t].kind
             \/ /\ req[a].token = t /\ req[a].at = "log" /\ req'[a] = NoRequest
                /\ log'[t] = Logged(req[a].name, "web")
  <2>1. log[t] \in Log
    BY DEF TypeOK
  <2>2. CASE SaveLoginLog(a)
    BY <2>2 DEF SaveLoginLog, At, Over, TypeOK
  <2>3. CASE Close(a)
    BY <2>1, <2>3 DEF Close, At, RequestOK, TypeOK, Log
  <2>4. CASE Row(a)
    BY <2>1, <2>4 DEF Row, DeleteRow, At, RequestOK, TypeOK, Log
  <2>5. CASE UNCHANGED log
    BY <2>5
  <2> QED
    BY <2>2, <2>3, <2>4, <2>5
    DEF Step, Refused, LoginSuccess, Refresh, Each, EachDone, Status, Erase, SetStatus, Count,
        Offline, Drop
<1>c. ASSUME NEW t \in Tokens
      PROVE  \/ cache'[t] = cache[t]
             \/ cache'[t] = None /\ t \in {req[a].token} \cup req[a].todo
             \/ /\ req[a].token = t /\ req[a].at \in {"token", "refresh"}
                /\ cache'[t] = [user |-> req[a].user, fresh |-> TRUE]
  <2>1. CASE LoginSuccess(a) \/ Refresh(a)
    BY <2>1 DEF LoginSuccess, Refresh, At, Fresh, TypeOK
  <2>2. ASSUME NEW x \in Tokens, Each(a, x)
        PROVE  cache'[t] = cache[t] \/ (cache'[t] = None /\ t \in req[a].todo)
    BY <2>2 DEF Each, TakeOut
  <2>3. CASE Drop(a)
    BY <2>3 DEF Drop, TakeOut
  <2>4. CASE UNCHANGED cache
    BY <2>4
  <2> QED
    BY <2>1, <2>2, <2>3, <2>4
    DEF Step, Refused, SaveLoginLog, EachDone, Status, Erase, SetStatus, Close, Count, Offline,
        Row
<1>u. ASSUME NEW u \in Users
      PROVE  /\ user'[u].name = user[u].name
             /\ user'[u].status = "absent" <=> user[u].status = "absent"
             /\ \/ user'[u] = user[u]
                \/ u = req[a].user /\ req[a].op \in {"login", "disable", "delete"}
                \/ req[a].at = "offline" /\ user[u].name = Closed(a)
  <2>1. CASE LoginSuccess(a)
    BY <2>1, <1>r DEF LoginSuccess, At, RequestOK, Exists, TypeOK, User
  <2>2. CASE Status(a) \/ Erase(a)
    <3>1. req[a].op \in {"disable", "delete"}
      BY <2>2 DEF Status, Erase, At, Asked
    <3>2. PICK st \in {"disabled", "deleted"} : SetStatus(a, st)
      BY <2>2 DEF Status, Erase
    <3> QED
      BY <3>1, <3>2, <1>r DEF SetStatus, Exists, TypeOK, User
  <2>3. CASE Offline(a)
    BY <2>3, <1>r DEF Offline, At, Exists, User
  <2>4. CASE UNCHANGED user
    BY <2>4
  <2> QED
    BY <2>1, <2>2, <2>3, <2>4
    DEF Step, Refused, SaveLoginLog, Refresh, Each, EachDone, Close, Count, Drop, Row
<1>q. /\ req'[a].name \in {req[a].name, None}
      /\ req'[a].token \in {req[a].token, None} \cup req[a].todo
      /\ req'[a].todo \subseteq req[a].todo \cup ({req[a].token} \ {None})
  <2>1. CASE Over(a)
    BY <2>1 DEF Over, NoRequest, TypeOK
  <2>2. ASSUME NEW c, Goto(a, c) PROVE <1>q!:
    BY <2>2, <1>r DEF Goto, TypeOK, Request
  <2>3. CASE GoBack(a)
    <3>1. CASE req[a].back = "each"
      <4>1. req' = [req EXCEPT ![a] = [@ EXCEPT !.at = "each", !.token = None]]
        BY <2>3, <3>1 DEF GoBack
      <4>2. req'[a] = [req[a] EXCEPT !.at = "each", !.token = None]
        BY <4>1 DEF TypeOK
      <4> QED
        BY <4>2, <1>r DEF Request
    <3>2. CASE req[a].back # "each"
      BY <2>2, <2>3, <3>2 DEF GoBack
    <3> QED
      BY <3>1, <3>2
  <2>4. CASE Refresh(a)
    <3>1. req[a].token # None
      BY <2>4 DEF Refresh, At, RequestOK
    <3>2. CASE req' = [req EXCEPT ![a] = [@ EXCEPT !.at = "each", !.todo = {req[a].token}]]
      <4>1. req'[a] = [req[a] EXCEPT !.at = "each", !.todo = {req[a].token}]
        BY <3>2 DEF TypeOK
      <4> QED
        BY <3>1, <4>1, <1>r DEF Request
    <3> QED
      BY <2>1, <2>4, <3>2 DEF Refresh
  <2>5. ASSUME NEW t \in Tokens, Each(a, t) PROVE <1>q!:
    <3>1. PICK c \in {"each", "close"}, x \in {t, None}, k \in {"each", "drop"} :
            Work(a, c, t, x, k)
      BY <2>5 DEF Each
    <3>2. t \in req[a].todo
      BY <2>5 DEF Each
    <3>3. req'[a] = [req[a] EXCEPT !.at = c, !.token = x, !.back = k, !.todo = req[a].todo \ {t}]
      BY <3>1 DEF Work, TypeOK
    <3>4. /\ req'[a].name = req[a].name /\ req'[a].token = x
          /\ req'[a].todo = req[a].todo \ {t}
      BY <3>3, <1>r DEF Request
    <3> QED
      BY <3>2, <3>4
  <2>6. CASE Drop(a)
    <3>1. CASE req' = [req EXCEPT ![a] = [@ EXCEPT !.at = "close", !.back = "row"]]
      <4>1. req'[a] = [req[a] EXCEPT !.at = "close", !.back = "row"]
        BY <3>1 DEF TypeOK
      <4> QED
        BY <4>1, <1>r DEF Request
    <3> QED
      BY <2>2, <2>6, <3>1 DEF Drop
  <2>7. CASE Row(a)
    BY <2>7, <1>r DEF Row, TypeOK, Request
  <2> QED
    BY <2>1, <2>2, <2>3, <2>4, <2>5, <2>6, <2>7
    DEF Step, Refused, LoginSuccess, SaveLoginLog, EachDone, Status, Erase, Close, Count, Offline
<1> QED
  BY <1>0, <1>l, <1>c, <1>u, <1>q DEF Touches

\* A call makes no request be about another name.
LEMMA StepAbout ==
    ASSUME TypeOK, NEW a \in Actors, Touches(a), NEW b \in Actors, NEW n \in Names,
           RequestOK(a), RequestOK(b), n \in About(b)'
    PROVE  n \in About(b)
<1> USE LoginAssumption
<1>r. \A c \in Actors : /\ req[c].token \in Tokens \cup {None} /\ req[c].todo \subseteq Tokens
                        /\ req[c] \in Request
  BY DEF TypeOK, Request
<1>1. CASE b = a
  <2>1. CASE req'[a] = NoRequest
    BY <1>1, <2>1 DEF About, NoRequest
  <2>2. CASE req'[a] # NoRequest
    <3>1. \A t \in Tokens : log'[t].name = log[t].name
      BY <2>2 DEF Touches
    <3>2. /\ req'[a].name \in {req[a].name, None}
          /\ req'[a].token \in {req[a].token, None} \cup req[a].todo
          /\ req'[a].todo \subseteq req[a].todo \cup ({req[a].token} \ {None})
      BY DEF Touches
    <3>3. CASE n = req'[a].name
      BY <1>1, <3>2, <3>3 DEF About
    <3>4. ASSUME NEW t \in req'[a].todo \cup ({req'[a].token} \ {None}), n = log'[t].name
          PROVE  n \in About(b)
      <4>1. t \in req[a].todo \cup ({req[a].token} \ {None}) /\ t \in Tokens
        BY <1>r, <3>2
      <4> QED
        BY <1>1, <3>1, <3>4, <4>1 DEF About
    <3> QED
      BY <1>1, <3>3, <3>4 DEF About
  <2> QED
    BY <2>1, <2>2
<1>2. CASE b # a
  <2>1. req'[b] = req[b]
    BY <1>2 DEF Touches
  <2>2. ASSUME NEW t \in req[b].todo \cup ({req[b].token} \ {None})
        PROVE  log'[t].name = log[t].name
    <3>1. t \in Tokens
      BY <1>r
    <3>2. req[a].at = "log" => t # req[a].token
      BY <1>2 DEF RequestOK
    <3> QED
      BY <3>1, <3>2 DEF Touches
  <2> QED
    BY <2>1, <2>2 DEF About
<1> QED
  BY <1>1, <1>2

\* Users stay who they are.
LEMMA TouchesUsers == ASSUME NEW a \in Actors, Touches(a) PROVE UsersMove
  BY DEF Touches, UsersMove, history

\* A log that is there keeps its name and kind.
LEMMA TouchesLogs ==
    ASSUME TypeOK, NEW a \in Actors, Touches(a), RequestOK(a), NEW t \in Tokens, Saved(t)
    PROVE  Saved(t)' /\ log'[t].name = log[t].name /\ log'[t].kind = log[t].kind
  BY DEF Touches, RequestOK, Saved

\* Tokens keep to their users.
LEMMA StepHonest ==
    ASSUME TypeOK, NEW a \in Actors, RequestOK(a), Asked(a), Touches(a), Honest
    PROVE  Honest'
<1>m. UsersMove
  BY TouchesUsers
<1>1. \A u \in Users : user'[u].status # "absent" => user'[u].name \in Names
  BY DEF Touches, Honest
<1>2. \A t \in Tokens : ~Saved(t)' => log'[t].name = None
  BY DEF Touches, Honest, Saved, Logged
<1>3. ASSUME NEW t \in Tokens, Works(t)' PROVE Matches(cache[t].user, log[t].name)'
  <2>1. cache'[t] # None /\ Known(t)'
    BY <1>3 DEF Works
  <2>2. CASE cache'[t] = cache[t] /\ Known(t)
    <3>1. log'[t].name = log[t].name
      BY <2>2, TouchesLogs DEF Known, Saved
    <3>2. cache[t].user \in Users
      BY <2>1, <2>2 DEF TypeOK, Entry
    <3>3. Matches(cache[t].user, log[t].name)
      BY <2>1, <2>2 DEF Honest, Works
    <3>4. Matches(cache[t].user, log[t].name)' <=>
             user'[cache[t].user].status # "absent" /\
             (log[t].name \notin moved' \/ user'[cache[t].user].name \notin moved'
                => user'[cache[t].user].name = log[t].name)
      BY <2>2, <3>1 DEF Matches
    <3> QED
      BY <1>m, <3>2, <3>3, <3>4 DEF UsersMove, Matches
  <2>3. CASE /\ req[a].token = t /\ req[a].at \in {"token", "refresh"}
             /\ cache'[t] = [user |-> req[a].user, fresh |-> TRUE]
    <3>1. req[a].at = "refresh" /\ Known(t) /\ log'[t].name = log[t].name
      BY <2>1, <2>3, TouchesLogs DEF Touches, RequestOK, Known, Saved
    <3>2. Matches(req[a].user, log[t].name) /\ req[a].user \in Users
      BY <2>3, <3>1 DEF Asked, RequestOK, TypeOK, Request
    <3>3. cache'[t].user = req[a].user
      BY <2>3
    <3> QED
      BY <1>m, <3>1, <3>2, <3>3 DEF UsersMove, Matches
  <2>4. CASE ~Known(t)
    <3>1. /\ req[a].token = t /\ req[a].at = "log"
          /\ log'[t] = Logged(req[a].name, "web") /\ cache'[t] = cache[t]
      BY <2>1, <2>4 DEF Touches, Known, Saved, RequestOK
    <3>2. /\ Matches(req[a].user, req[a].name) /\ req[a].user \in Users
          /\ cache[t].user = req[a].user
      BY <3>1 DEF Asked, RequestOK, TypeOK, Request
    <3>3. log'[t].name = req[a].name /\ cache'[t].user = req[a].user
      BY <3>1, <3>2 DEF Logged
    <3> QED
      BY <1>m, <3>2, <3>3 DEF UsersMove, Matches
  <2>5. \/ cache'[t] = cache[t]
        \/ /\ req[a].token = t /\ req[a].at \in {"token", "refresh"}
           /\ cache'[t] = [user |-> req[a].user, fresh |-> TRUE]
    BY <2>1 DEF Touches
  <2> QED
    BY <2>2, <2>3, <2>4, <2>5
<1> QED
  BY <1>1, <1>2, <1>3 DEF Honest

\* A request that did not move was asked the same.
LEMMA AskedKept ==
    ASSUME TypeOK, NEW b \in Actors, RequestOK(b), Asked(b), UsersMove, req'[b] = req[b],
           \A t \in Tokens : Saved(t) => /\ Saved(t)' /\ log'[t].name = log[t].name
                                         /\ log'[t].kind = log[t].kind,
           req[b].at = "log" => cache'[req[b].token] = cache[req[b].token]
    PROVE  Asked(b)'
<1> USE LoginAssumption
<1>1. req[b].user \in Users \cup {None} /\ req[b].token \in Tokens \cup {None}
  BY DEF TypeOK, Request
<1>2. req[b].op \in {"login", "disable", "delete"} =>
         req[b].user # None /\ Matches(req[b].user, req[b].name)'
  <2> SUFFICES ASSUME req[b].op \in {"login", "disable", "delete"}
               PROVE  req[b].user # None /\ Matches(req[b].user, req[b].name)'
    OBVIOUS
  <2>1. req[b].user \in Users /\ Matches(req[b].user, req[b].name)
    BY <1>1 DEF Asked
  <2> QED
    BY <2>1 DEF UsersMove, Matches
<1>3. req[b].at = "refresh" => Known(req[b].token)' /\ Matches(req[b].user, log[req[b].token].name)'
  <2> SUFFICES ASSUME req[b].at = "refresh"
               PROVE  Known(req[b].token)' /\ Matches(req[b].user, log[req[b].token].name)'
    OBVIOUS
  <2>1. /\ req[b].user \in Users /\ req[b].token \in Tokens
        /\ Known(req[b].token) /\ Matches(req[b].user, log[req[b].token].name)
    BY <1>1 DEF Asked, RequestOK
  <2>2. Saved(req[b].token)' /\ log'[req[b].token].name = log[req[b].token].name
        /\ log'[req[b].token].kind = log[req[b].token].kind
    BY <2>1 DEF Known, Saved
  <2>3. Known(req[b].token)'
    BY <2>1, <2>2 DEF Known, Saved
  <2> QED
    BY <2>1, <2>2, <2>3 DEF UsersMove, Matches
<1> QED
  BY <1>2, <1>3 DEF Asked


\* Each call leaves its request asked the same, or at its end.
LEMMA StepAsked ==
    ASSUME TypeOK, NEW a \in Actors, RequestOK(a), Asked(a), Touches(a), Step(a) \/ Refused(a)
    PROVE  Asked(a)'
<1> USE LoginAssumption
<1>r. req[a] \in Request /\ UsersMove
  BY TouchesUsers DEF TypeOK
<1>n. ASSUME req'[a] = NoRequest PROVE Asked(a)'
  BY <1>n DEF NoRequest, Asked
<1>m. ASSUME req[a].op \in {"login", "disable", "delete"},
             req'[a].user = req[a].user, req'[a].name = req[a].name
      PROVE  req'[a].user # None /\ Matches(req[a].user, req[a].name)'
  <2>1. req[a].user \in Users /\ Matches(req[a].user, req[a].name)
    BY <1>r, <1>m DEF Asked, Request
  <2> QED
    BY <1>r, <1>m, <2>1 DEF UsersMove, Matches
\* a call that keeps who asked for what
<1>k. ASSUME /\ req'[a].op = req[a].op /\ req'[a].user = req[a].user
             /\ req'[a].name = req[a].name,
             req[a].op # "login", req'[a].at \notin {"log", "refresh", "erase"},
             req'[a].back # "each" \/ req'[a].at \in {"drop", "row"} => req[a].op = "purge",
             req'[a].at = "status" => req[a].op = "disable" /\ req'[a].todo = {}
      PROVE  Asked(a)'
  BY <1>k, <1>m DEF Asked
<1>o. req[a].at \notin {"token", "log"} => req[a].op # "login"
  BY DEF Asked
<1>1. CASE LoginSuccess(a)
  <2>1. req'[a] = [req[a] EXCEPT !.at = "log"] /\ req[a].at = "token" /\ req[a].op = "login"
    BY <1>1 DEF LoginSuccess, At, Goto, RequestOK, TypeOK
  <2>2. /\ req'[a].at = "log" /\ req'[a].op = "login" /\ req'[a].user = req[a].user
        /\ req'[a].name = req[a].name /\ req'[a].token = req[a].token
        /\ req'[a].back = req[a].back
    BY <2>1, <1>r DEF Request
  <2>3. cache'[req[a].token] = [user |-> req[a].user, fresh |-> TRUE]
        /\ req[a].token \in Tokens /\ req[a].user \in Users
    BY <1>1, <2>1, <1>r DEF LoginSuccess, Fresh, TypeOK, RequestOK, Request
  <2>4. [user |-> req[a].user, fresh |-> TRUE] \in Entry
    BY <2>3 DEF Entry
  <2> QED
    BY <1>m, <2>1, <2>2, <2>3, <2>4 DEF Asked
<1>2. CASE SaveLoginLog(a) \/ Refused(a)
  BY <1>2, <1>n DEF SaveLoginLog, Refused, Over, TypeOK
<1>3. CASE Refresh(a)
  <2>1. CASE req[a].op = "call"
    BY <1>3, <1>n, <2>1 DEF Refresh, Over, TypeOK
  <2>2. CASE req[a].op # "call"
    <3>1. req'[a] = [req[a] EXCEPT !.at = "each", !.todo = {req[a].token}]
      BY <1>3, <2>2 DEF Refresh, TypeOK
    <3>2. /\ req'[a].op = req[a].op /\ req'[a].user = req[a].user
          /\ req'[a].name = req[a].name /\ req'[a].at = "each" /\ req'[a].back = req[a].back
      BY <3>1, <1>r DEF Request
    <3> QED
      BY <1>3, <1>k, <1>o, <3>2 DEF Refresh, At, Asked
  <2> QED
    BY <2>1, <2>2
<1>4. ASSUME NEW t \in Tokens, Each(a, t) PROVE Asked(a)'
  <2>1. PICK c \in {"each", "close"}, x \in {t, None}, k \in {"each", "drop"} :
          Work(a, c, t, x, k) /\ (k = "drop" => req[a].op = "purge")
    BY <1>4 DEF Each
  <2>2. req'[a] = [req[a] EXCEPT !.at = c, !.token = x, !.back = k, !.todo = req[a].todo \ {t}]
    BY <2>1 DEF Work, TypeOK
  <2>3. /\ req'[a].op = req[a].op /\ req'[a].user = req[a].user
        /\ req'[a].name = req[a].name /\ req'[a].at = c /\ req'[a].back = k
    BY <2>2, <1>r DEF Request
  <2> QED
    BY <1>4, <1>k, <1>o, <2>1, <2>3 DEF Each, At
\* a call that only goes on
<1>g. ASSUME NEW c \in {"each", "status", "count", "offline", "drop", "row"}, Goto(a, c),
             req[a].at \notin {"token", "log"},
             c = "status" => req[a].op = "disable" /\ req[a].todo = {},
             c \in {"drop", "row"} => req[a].op = "purge"
      PROVE  Asked(a)'
  <2>1. req'[a] = [req[a] EXCEPT !.at = c]
    BY <1>g DEF Goto, TypeOK
  <2>2. /\ req'[a].op = req[a].op /\ req'[a].user = req[a].user /\ req'[a].todo = req[a].todo
        /\ req'[a].name = req[a].name /\ req'[a].at = c /\ req'[a].back = req[a].back
    BY <2>1, <1>r DEF Request
  <2> QED
    BY <1>g, <1>k, <1>o, <2>2 DEF Asked
<1>b. ASSUME GoBack(a), req[a].at \notin {"token", "log"} PROVE Asked(a)'
  <2>1. CASE req[a].back = "each"
    <3>1. req'[a] = [req[a] EXCEPT !.at = "each", !.token = None]
      BY <1>b, <2>1 DEF GoBack, TypeOK
    <3>2. /\ req'[a].op = req[a].op /\ req'[a].user = req[a].user
          /\ req'[a].name = req[a].name /\ req'[a].at = "each" /\ req'[a].back = "each"
      BY <2>1, <3>1, <1>r DEF Request
    <3> QED
      BY <1>b, <1>k, <1>o, <3>2
  <2>2. CASE req[a].back \in {"drop", "row"}
    BY <1>b, <1>g, <2>2 DEF GoBack, Asked
  <2> QED
    BY <2>1, <2>2, <1>r DEF Request
<1>5. CASE EachDone(a)
  BY <1>5, <1>n, <1>g DEF EachDone, At, Over, TypeOK
<1>6. CASE Status(a)
  BY <1>6, <1>n DEF Status, Over, TypeOK
<1>7. CASE Erase(a)
  BY <1>7, <1>g DEF Erase, At
<1>8. CASE Close(a)
  BY <1>8, <1>n, <1>g, <1>b DEF Close, At, Over, TypeOK
<1>9. CASE Count(a)
  BY <1>9, <1>g, <1>b DEF Count, At
<1>10. CASE Offline(a)
  BY <1>10, <1>b DEF Offline, At
<1>11. CASE Drop(a)
  <2>1. CASE req' = [req EXCEPT ![a] = [@ EXCEPT !.at = "close", !.back = "row"]]
    <3>1. req'[a] = [req[a] EXCEPT !.at = "close", !.back = "row"]
      BY <2>1 DEF TypeOK
    <3>2. /\ req'[a].op = req[a].op /\ req'[a].user = req[a].user
          /\ req'[a].name = req[a].name /\ req'[a].at = "close"
      BY <3>1, <1>r DEF Request
    <3> QED
      BY <1>11, <1>k, <1>o, <3>2 DEF Drop, At, Asked
  <2> QED
    BY <1>11, <1>g, <2>1 DEF Drop, At, Asked
<1>12. CASE Row(a)
  <2>1. req'[a] = [req[a] EXCEPT !.at = "each", !.token = None, !.back = "each"]
    BY <1>12 DEF Row, TypeOK
  <2>2. /\ req'[a].op = req[a].op /\ req'[a].user = req[a].user
        /\ req'[a].name = req[a].name /\ req'[a].at = "each" /\ req'[a].back = "each"
    BY <2>1, <1>r DEF Request
  <2> QED
    BY <1>12, <1>k, <1>o, <2>2 DEF Row, At
<1> QED
  BY <1>1, <1>2, <1>3, <1>4, <1>5, <1>6, <1>7, <1>8, <1>9, <1>10, <1>11, <1>12 DEF Step

\* what a request that arrives can touch
Begins(a) ==
    /\ phase = "up" /\ phase' = "up" /\ UNCHANGED <<user, log, moved>>
    /\ mixed \subseteq mixed'
    /\ req[a] = NoRequest
    /\ \A b \in Actors \ {a} : req'[b] = req[b]
    /\ \A t \in Tokens :
         \/ cache'[t] = cache[t]
         \/ cache'[t] = None /\ req'[a].op = "sweep" /\ t \in req'[a].todo
    /\ req'[a].back = "each" /\ req'[a].at \in {"token", "refresh", "each", "erase"}
    /\ \A n \in Names \ mixed' : n \in About(a)' => \A b \in Actors : n \notin About(b)

\* A request that arrives is about names no other is about, or they are mixed.
LEMMA AskBegins ==
    ASSUME TypeOK, NEW a \in Actors, RequestOK(a), Honest, Asks(a)
    PROVE  Begins(a) /\ Asked(a)'
<1> USE LoginAssumption
<1>1. ASSUME NEW what \in {"login", "call", "disable", "delete", "purge", "sweep"},
             NEW call \in {"token", "refresh", "each", "erase"},
             NEW u \in Users \cup {None}, NEW n \in Names \cup {None},
             NEW t \in Tokens \cup {None}, NEW S \in SUBSET Tokens,
             Begin(a, what, call, u, n, t, S), UNCHANGED <<user, log, phase>>,
             \/ UNCHANGED cache
             \/ what = "sweep" /\ TakeOut(S),
             t # None => log[t].name \in {n, None}
      PROVE  Begins(a)
  <2>1. req' = [req EXCEPT ![a] = [at |-> call, op |-> what, user |-> u, name |-> n,
                                   token |-> t, todo |-> S, back |-> "each"]]
    BY <1>1 DEF Begin
  <2>2. /\ req'[a].at = call /\ req'[a].op = what /\ req'[a].name = n
        /\ req'[a].token = t /\ req'[a].todo = S /\ req'[a].back = "each"
        /\ \A b \in Actors \ {a} : req'[b] = req[b]
    BY <2>1 DEF TypeOK
  <2>3. phase = "up" /\ phase' = "up" /\ req[a] = NoRequest /\ moved' = moved
    BY <1>1 DEF Begin, Idle, RequestOK
  <2>4. \A x \in Tokens : \/ cache'[x] = cache[x]
                          \/ cache'[x] = None /\ what = "sweep" /\ x \in S
    BY <1>1 DEF TakeOut
  <2>5. About(a)' \subseteq {n, None} \cup {log[x].name : x \in S}
    BY <1>1, <2>2 DEF About
  <2>6. Mix({n} \cup {log[x].name : x \in S})
    BY <1>1 DEF Begin
  <2>7. mixed \subseteq mixed' /\ \A m \in Names \ mixed' : m \in About(a)' =>
                                    \A b \in Actors : m \notin About(b)
    BY <2>5, <2>6 DEF Mix
  <2> QED
    BY <1>1, <2>2, <2>3, <2>4, <2>7 DEF Begins
<1>u. \A u \in Users : /\ user[u].name \in Names \cup {None}
                       /\ Alive(user[u].name) \in SUBSET Tokens
  BY DEF TypeOK, User, Alive
<1>2. ASSUME NEW u \in Users, Disable(a, u) PROVE Begins(a) /\ Asked(a)'
  <2>1. Begins(a)
    BY <1>1, <1>2, <1>u DEF Disable
  <2>2. /\ req'[a].at = "each" /\ req'[a].op = "disable" /\ req'[a].user = u
        /\ req'[a].name = user[u].name /\ user[u].status # "absent"
    BY <1>2 DEF Disable, Begin, Exists, TypeOK
  <2> QED
    BY <2>1, <2>2 DEF Begins, Asked, Matches
<1>3. ASSUME NEW u \in Users, DeleteUser(a, u) PROVE Begins(a) /\ Asked(a)'
  <2>1. Begins(a)
    BY <1>1, <1>3, <1>u DEF DeleteUser
  <2>2. /\ req'[a].at = "erase" /\ req'[a].op = "delete" /\ req'[a].user = u
        /\ req'[a].name = user[u].name /\ user[u].status # "absent"
    BY <1>3 DEF DeleteUser, Begin, Exists, TypeOK
  <2> QED
    BY <2>1, <2>2 DEF Begins, Asked, Matches
<1>4. ASSUME NEW u \in Users, NEW t \in Tokens, FindUser(a, u, t)
      PROVE  Begins(a) /\ Asked(a)'
  <2>1. log[t].name = None
    BY <1>4 DEF FindUser, Unused, Honest, Saved
  <2>2. Begins(a)
    BY <1>1, <1>4, <1>u, <2>1 DEF FindUser
  <2>3. /\ req'[a].at = "token" /\ req'[a].op = "login" /\ req'[a].user = u
        /\ req'[a].name = user[u].name /\ user[u].status # "absent"
    BY <1>4 DEF FindUser, Begin, TypeOK
  <2> QED
    BY <2>2, <2>3 DEF Begins, Asked, Matches
<1>5. ASSUME NEW t \in Tokens, Call(a, t) PROVE Begins(a) /\ Asked(a)'
  <2>1. PICK what \in {"call", "logout"} :
          Begin(a, what, "refresh", cache[t].user, log[t].name, t, {})
    BY <1>5 DEF Call
  <2>2. /\ req'[a].at = "refresh" /\ req'[a].op = what /\ req'[a].user = cache[t].user
        /\ req'[a].token = t /\ req'[a].name = log[t].name /\ req'[a].todo = {}
        /\ req'[a].back = "each" /\ \A b \in Actors \ {a} : req'[b] = req[b]
    BY <2>1 DEF Begin, TypeOK
  <2>3. Works(t) /\ UNCHANGED <<user, log, cache, phase>>
    BY <1>5 DEF Call, Works
  <2>4. Known(t)' /\ Matches(req[a].user, log[req[a].token].name)'
    <3>1. Matches(cache[t].user, log[t].name)
      BY <2>3 DEF Honest
    <3> QED
      BY <2>1, <2>2, <2>3, <3>1 DEF Matches, Begin, Works, Known
  <2>5. Begins(a)
    <3>1. About(a)' \subseteq {log[t].name, None}
      BY <2>2, <2>3 DEF About
    <3>2. Mix({log[t].name}) /\ moved' = moved
      BY <2>1 DEF Begin
    <3>3. mixed \subseteq mixed' /\ \A m \in Names \ mixed' : m \in About(a)' =>
                                      \A b \in Actors : m \notin About(b)
      BY <3>1, <3>2 DEF Mix
    <3>4. phase = "up" /\ req[a] = NoRequest
      BY <2>1 DEF Begin, Idle, RequestOK
    <3> QED
      BY <2>2, <2>3, <3>2, <3>3, <3>4 DEF Begins
  <2> QED
    BY <2>2, <2>4, <2>5 DEF Asked
<1>6. ASSUME NEW t \in Tokens, DeleteLoginLogs(a, t) PROVE Begins(a) /\ Asked(a)'
  <2>1. Begins(a)
    BY <1>1, <1>6 DEF DeleteLoginLogs
  <2>2. req'[a].at = "each" /\ req'[a].op = "purge"
    BY <1>6 DEF DeleteLoginLogs, Begin, TypeOK
  <2> QED
    BY <2>1, <2>2 DEF Asked, Begins
<1>7. CASE Sweep(a)
  <2>1. Expired \in SUBSET Tokens
    BY DEF Expired
  <2>2. Begins(a)
    BY <1>1, <1>7, <2>1 DEF Sweep
  <2>3. req'[a].at = "each" /\ req'[a].op = "sweep"
    BY <1>7 DEF Sweep, Begin, TypeOK
  <2> QED
    BY <2>2, <2>3 DEF Asked, Begins
<1> QED
  BY <1>2, <1>3, <1>4, <1>5, <1>6, <1>7 DEF Asks


\* what users and the ticker can touch
Apart ==
    /\ phase = "up" /\ phase' = "up" /\ UNCHANGED req
    /\ UsersMove /\ mixed \subseteq mixed'
    /\ \A t \in Tokens :
         /\ \/ log'[t].name = log[t].name
            \/ ~Saved(t) /\ \A a \in Actors : req[a].token # t
         /\ Saved(t) => /\ Saved(t)' /\ log'[t].name = log[t].name
                        /\ log'[t].kind = log[t].kind
         /\ cache'[t] = None <=> cache[t] = None
         /\ cache[t] # None => cache'[t].user = cache[t].user

\* Users and the ticker keep to themselves, and tokens to their users.
LEMMA OtherGlobals ==
    ASSUME TypeOK, Honest, Others
    PROVE  Apart /\ Honest'
<1> USE LoginAssumption
<1>r. /\ \A u \in Users : user[u] \in User
      /\ \A t \in Tokens : log[t] \in Log /\ cache[t] \in Entry \cup {None}
  BY DEF TypeOK
<1>e. \A t \in Tokens : cache[t] # None => cache[t].user \in Users
  BY <1>r DEF Entry
\* users who move keep tokens honest
<1>h. ASSUME Apart, UNCHANGED log,
             \A u \in Users : user'[u].status # "absent" => user'[u].name \in Names
      PROVE  Honest'
  <2>1. \A t \in Tokens : ~Saved(t)' => log'[t].name = None
    BY <1>h DEF Honest, Saved
  <2>2. ASSUME NEW t \in Tokens, Works(t)' PROVE Matches(cache[t].user, log[t].name)'
    <3>1. /\ cache[t] # None /\ Works(t) /\ cache'[t].user = cache[t].user
          /\ cache[t].user \in Users
      BY <1>e, <1>h, <2>2 DEF Apart, Works, Known
    <3>2. Matches(cache[t].user, log[t].name)
      BY <3>1 DEF Honest
    <3> QED
      BY <1>h, <3>1, <3>2 DEF Apart, UsersMove, Matches
  <2> QED
    BY <1>h, <2>1, <2>2 DEF Honest
<1>n. \A u \in Users : user[u].status # "absent" => user[u].name \in Names
  BY DEF Honest
<1>1. ASSUME NEW u \in Users, Enable(u) PROVE Apart /\ Honest'
  <2>1. user' = [user EXCEPT ![u] = [@ EXCEPT !.status = "enabled"]] /\ user[u].status = "disabled"
    BY <1>1 DEF Enable
  <2>2. \A v \in Users : /\ user'[v].name = user[v].name
                         /\ user'[v].status = "absent" <=> user[v].status = "absent"
    BY <2>1, <1>r DEF TypeOK, User
  <2>3. Apart
    BY <1>1, <2>2 DEF Apart, UsersMove, Enable, history, Saved
  <2> QED
    BY <1>1, <1>h, <1>n, <2>2, <2>3 DEF Enable
<1>2. ASSUME NEW u \in Users, NEW n \in Names,
             NEW st \in {"enabled", "disabled"}, NEW on \in BOOLEAN, NewUser(u, n, st, on)
      PROVE  Apart /\ Honest'
  <2>1. /\ user[u].status = "absent" /\ \A v \in Users \ {u} : user'[v] = user[v]
        /\ user'[u].name = n
    BY <1>2 DEF NewUser, TypeOK
  <2>2. UsersMove
    BY <1>2, <2>1 DEF NewUser, UsersMove
  <2>3. Apart
    BY <1>2, <2>2 DEF Apart, NewUser, Mix, Saved
  <2> QED
    BY <1>2, <1>h, <1>n, <2>1, <2>3 DEF NewUser
<1>3. ASSUME NEW u \in Users, NEW n \in Names, UpdateUser(u, n) PROVE Apart /\ Honest'
  <2>1. /\ Exists(u) /\ \A v \in Users \ {u} : user'[v] = user[v]
        /\ user'[u].name = n /\ user'[u].status = user[u].status
    BY <1>3, <1>r DEF UpdateUser, TypeOK, User
  <2>2. UsersMove
    BY <1>3, <2>1 DEF UpdateUser, UsersMove
  <2>3. Apart
    BY <1>3, <2>2 DEF Apart, UpdateUser, Mix, Saved
  <2> QED
    BY <1>3, <1>h, <1>n, <2>1, <2>3 DEF UpdateUser
<1>4. ASSUME NEW u \in Users, NEW x \in Tokens, TerminalLogin(u, x) PROVE Apart /\ Honest'
  <2>1. /\ \A t \in Tokens \ {x} : log'[t] = log[t]
        /\ log'[x] = Logged(user[u].name, "terminal")
        /\ ~Saved(x) /\ \A a \in Actors : req[a].token # x
        /\ cache[x] = None /\ phase = "up" /\ UNCHANGED <<user, cache, phase, req, history>>
    BY <1>4 DEF TerminalLogin, Unused, Saved, TypeOK
  <2>2. UsersMove
    BY <2>1 DEF UsersMove, history
  <2>3. Apart
    BY <2>1, <2>2 DEF Apart, history, Saved
  <2>4. \A t \in Tokens : ~Saved(t)' => log'[t].name = None
    BY <2>1 DEF Honest, Saved, Logged
  <2>5. ASSUME NEW t \in Tokens, Works(t)' PROVE Matches(cache[t].user, log[t].name)'
    <3>1. t # x /\ Works(t)
      BY <2>1, <2>5 DEF Works, Known
    <3>2. Matches(cache[t].user, log[t].name)
      BY <3>1 DEF Honest
    <3> QED
      BY <2>1, <3>1, <3>2 DEF Matches, history
  <2> QED
    BY <1>n, <2>1, <2>3, <2>4, <2>5 DEF Honest
<1>5. ASSUME NEW x \in Tokens, Expire(x) PROVE Apart /\ Honest'
  <2>1. cache' = [cache EXCEPT ![x] = [@ EXCEPT !.fresh = FALSE]] /\ cache[x] \in Entry
    BY <1>5, <1>r DEF Expire
  <2>2. \A t \in Tokens : /\ cache'[t] = None <=> cache[t] = None
                          /\ cache[t] # None => cache'[t].user = cache[t].user
    <3>1. [cache[x] EXCEPT !.fresh = FALSE] \in Entry
          /\ [cache[x] EXCEPT !.fresh = FALSE].user = cache[x].user
      BY <2>1 DEF Entry
    <3> QED
      BY <2>1, <3>1 DEF TypeOK
  <2>3. UsersMove
    BY <1>5 DEF Expire, UsersMove, history
  <2>4. Apart
    BY <1>5, <2>2, <2>3 DEF Apart, Expire, history, Saved
  <2> QED
    BY <1>5, <1>h, <1>n, <2>4 DEF Expire
<1>6. ASSUME NEW x \in Tokens, DeleteOutTime(x) PROVE Apart /\ Honest'
  <2>1. /\ UNCHANGED <<user, cache, phase, req, history>> /\ phase = "up"
        /\ \A t \in Tokens : /\ log'[t].name = log[t].name /\ log'[t].kind = log[t].kind
                             /\ log'[t].state = "none" <=> log[t].state = "none"
    BY <1>6, <1>r DEF DeleteOutTime, DeleteRow, Log, TypeOK
  <2>2. UsersMove
    BY <2>1 DEF UsersMove, history
  <2>3. Apart
    BY <2>1, <2>2 DEF Apart, history, Saved
  <2>4. \A t \in Tokens : ~Saved(t)' => log'[t].name = None
    BY <2>1 DEF Honest, Saved
  <2>5. ASSUME NEW t \in Tokens, Works(t)' PROVE Matches(cache[t].user, log[t].name)'
    <3>1. Works(t)
      BY <2>1, <2>5 DEF Works, Known
    <3>2. Matches(cache[t].user, log[t].name)
      BY <3>1 DEF Honest
    <3> QED
      BY <2>1, <3>2 DEF Matches, history
  <2> QED
    BY <1>n, <2>1, <2>3, <2>4, <2>5 DEF Honest
<1> QED
  BY <1>1, <1>2, <1>3, <1>4, <1>5, <1>6 DEF Others, CreateUser, RestoreUser

\* A start gives tokens to the users of their names.
LEMMA ServerHonest ==
    ASSUME TypeOK, Honest, Server
    PROVE  Honest'
<1> USE LoginAssumption
<1>r. /\ \A u \in Users : user[u] \in User
      /\ \A t \in Tokens : log[t] \in Log
  BY DEF TypeOK
<1>1. CASE Crash
  BY <1>1 DEF Crash, Honest, Works, Saved
<1>2. CASE FixUserOnlineState
  <2>1. \A u \in Users : /\ user'[u].name = user[u].name /\ user'[u].status = user[u].status
    BY <1>2, <1>r DEF FixUserOnlineState, User
  <2>2. UNCHANGED <<log, cache, mixed, moved>>
    BY <1>2 DEF FixUserOnlineState
  <2>3. ASSUME NEW t \in Tokens, Works(t)' PROVE Matches(cache[t].user, log[t].name)'
    <3>1. Works(t) /\ cache[t].user \in Users
      BY <2>2, <2>3 DEF Works, Known, TypeOK, Entry
    <3>2. Matches(cache[t].user, log[t].name)
      BY <3>1 DEF Honest
    <3> QED
      BY <2>1, <2>2, <3>1, <3>2 DEF Matches, history
  <2> QED
    BY <2>1, <2>2, <2>3 DEF Honest, Saved
<1>3. CASE ReloadToken
  <2>1. \A t \in Tokens : /\ log'[t].name = log[t].name
                          /\ log'[t].state = "none" <=> log[t].state = "none"
    BY <1>3, <1>r DEF ReloadToken, Log
  <2>2. ASSUME NEW t \in Tokens, Works(t)' PROVE Matches(cache[t].user, log[t].name)'
    <3>1. /\ Named(log[t].name) # {}
          /\ cache'[t] = [user |-> CHOOSE u \in Named(log[t].name) : TRUE, fresh |-> TRUE]
      BY <1>3, <2>2 DEF ReloadToken, Works
    <3>2. cache'[t].user \in Named(log[t].name)
      BY <3>1
    <3>3. UNCHANGED <<user, history>>
      BY <1>3 DEF ReloadToken
    <3> QED
      BY <2>1, <3>2, <3>3 DEF Matches, Named, Exists
  <2>3. UNCHANGED user
    BY <1>3 DEF ReloadToken
  <2> QED
    BY <2>1, <2>2, <2>3 DEF Honest, Saved
<1> QED
  BY <1>1, <1>2, <1>3 DEF Server


\* Users and the ticker change nothing a request is about.
LEMMA ApartAbout ==
    ASSUME TypeOK, Apart, NEW b \in Actors, RequestOK(b)
    PROVE  About(b)' = About(b)
<1>1. req'[b] = req[b] /\ req[b].token \in Tokens \cup {None} /\ req[b].todo \subseteq Tokens
  BY DEF Apart, TypeOK, Request
<1>2. ASSUME NEW t \in req[b].todo \cup ({req[b].token} \ {None})
      PROVE  log'[t].name = log[t].name
  BY <1>1 DEF Apart, RequestOK
<1> QED
  BY <1>1, <1>2 DEF About

\* what every step keeps of users, tokens and requests
Orderly == LoginInv /\ Honest /\ Single /\ \A a \in Actors : Asked(a)

\* Every step keeps it.
LEMMA OrderlyKept ==
    ASSUME Orderly, LoginInv', Next
    PROVE  Orderly'
<1> USE LoginAssumption
<1>i. TypeOK /\ (\A b \in Actors : RequestOK(b) /\ Asked(b)) /\ Honest /\ Single
  BY DEF Orderly, LoginInv
<1>n. ASSUME \A b \in Actors : req'[b] = NoRequest
      PROVE  Single' /\ \A b \in Actors : Asked(b)'
  BY <1>n DEF Single, About, Asked, NoRequest
<1>1. ASSUME NEW a \in Actors, Step(a) \/ Refused(a) PROVE Orderly'
  <2>1. Touches(a)
    BY <1>1, <1>i, StepTouches
  <2>2. Honest'
    BY <1>i, <2>1, StepHonest
  <2>3. Single'
    <3>1. \A b \in Actors, n \in Names : n \in About(b)' => n \in About(b)
      BY <1>i, <2>1, StepAbout
    <3>2. mixed' = mixed
      BY <2>1 DEF Touches, history
    <3> QED
      BY <1>i, <3>1, <3>2 DEF Single
  <2>4. ASSUME NEW b \in Actors PROVE Asked(b)'
    <3>1. CASE b = a
      BY <1>1, <1>i, <2>1, <3>1, StepAsked
    <3>2. CASE b # a
      <4>1. UsersMove /\ req'[b] = req[b]
        BY <2>1, <3>2, TouchesUsers DEF Touches
      <4>2. \A t \in Tokens : Saved(t) => /\ Saved(t)' /\ log'[t].name = log[t].name
                                          /\ log'[t].kind = log[t].kind
        BY <1>i, <2>1, TouchesLogs
      <4>3. ASSUME req[b].at = "log" PROVE cache'[req[b].token] = cache[req[b].token]
        <5>1. req[b].token \in Tokens /\ ~Saved(req[b].token) /\ req[a].token # req[b].token
          BY <1>i, <3>2, <4>3 DEF RequestOK, TypeOK, Request
        <5>2. req[b].token \notin req[a].todo
          BY <1>i, <5>1 DEF RequestOK
        <5> QED
          BY <2>1, <5>1, <5>2 DEF Touches
      <4> QED
        BY <1>i, <4>1, <4>2, <4>3, AskedKept
    <3> QED
      BY <3>1, <3>2
  <2> QED
    BY <2>2, <2>3, <2>4 DEF Orderly
<1>2. ASSUME NEW a \in Actors, Asks(a) PROVE Orderly'
  <2>1. Begins(a) /\ Asked(a)'
    BY <1>2, <1>i, AskBegins
  <2>2. \A b \in Actors \ {a} : About(b)' = About(b)
    BY <2>1 DEF Begins, About
  <2>3. Single'
    BY <1>i, <2>1, <2>2 DEF Single, Begins
  <2>4. UsersMove
    BY <2>1 DEF Begins, UsersMove
  <2>5. Honest'
    <3>1. ASSUME NEW t \in Tokens, Works(t)' PROVE Matches(cache[t].user, log[t].name)'
      <4>1. Works(t) /\ cache'[t] = cache[t]
        BY <2>1, <3>1 DEF Begins, Works, Known
      <4> QED
        BY <1>i, <2>1, <4>1 DEF Honest, Matches, Begins
    <3> QED
      BY <1>i, <2>1, <3>1 DEF Honest, Begins, Saved
  <2>6. ASSUME NEW b \in Actors, b # a PROVE Asked(b)'
    <3>1. req'[b] = req[b] /\ log' = log
      BY <2>1, <2>6 DEF Begins
    <3>2. ASSUME req[b].at = "log" PROVE cache'[req[b].token] = cache[req[b].token]
      <4>1. /\ req[b].token \in Tokens /\ ~Saved(req[b].token)
            /\ \A t \in req'[a].todo : Saved(t)'
        BY <1>i, <3>2 DEF RequestOK, TypeOK, Request, Orderly, LoginInv
      <4> QED
        BY <2>1, <3>1, <4>1 DEF Begins, Saved
    <3> QED
      BY <1>i, <2>4, <3>1, <3>2, AskedKept DEF Saved
  <2> QED
    BY <2>1, <2>3, <2>5, <2>6 DEF Orderly
<1>3. CASE Others
  <2>1. Apart /\ Honest'
    BY <1>3, <1>i, OtherGlobals
  <2>2. Single'
    <3>1. \A b \in Actors : About(b)' = About(b)
      BY <1>i, <2>1, ApartAbout
    <3> QED
      BY <1>i, <2>1, <3>1 DEF Single, Apart
  <2>3. ASSUME NEW b \in Actors PROVE Asked(b)'
    <3>1. req[b].at = "log" => cache'[req[b].token] = cache[req[b].token]
      <4>1. ASSUME NEW x \in Tokens, Expire(x), req[b].at = "log"
            PROVE  cache'[req[b].token] = cache[req[b].token]
        <5>1. req[b].token \in Tokens /\ req[b].token # x
          BY <1>i, <4>1 DEF Expire, RequestOK, Saved, TypeOK, Request
        <5> QED
          BY <1>i, <4>1, <5>1 DEF Expire, TypeOK
      <4>2. UNCHANGED cache \/ \E x \in Tokens : Expire(x)
        BY <1>3 DEF Others, Enable,
           CreateUser, RestoreUser, NewUser, UpdateUser, TerminalLogin, DeleteOutTime
      <4> QED
        BY <4>1, <4>2
    <3> QED
      BY <1>i, <2>1, <3>1, AskedKept DEF Apart
  <2> QED
    BY <2>1, <2>2, <2>3 DEF Orderly
<1>4. CASE Server
  <2>1. \A b \in Actors : req'[b] = NoRequest
    BY <1>4, <1>i DEF Server, Crash, FixUserOnlineState, ReloadToken, RequestOK
  <2>2. Honest'
    BY <1>4, <1>i, ServerHonest
  <2> QED
    BY <1>n, <2>1, <2>2 DEF Orderly
<1> QED
  BY <1>1, <1>2, <1>3, <1>4 DEF Next

\* a step that leaves alone all that is of a name
Spares(n) ==
    /\ WebOf(n)' = WebOf(n) /\ WorksOf(n)' = WorksOf(n)
    /\ \A t \in WorksOf(n) : cache'[t].user = cache[t].user
    /\ \A u \in Users :
         (user[u].status # "absent" /\ user[u].name = n) \/ user'[u].name = n =>
            user'[u] = user[u]
    /\ phase' = "up" => phase = "up"
    /\ \A a \in Actors : n \in About(a) \cup About(a)' =>
         /\ req'[a] = req[a]
         /\ req[a].token # None => log'[req[a].token].name = log[req[a].token].name

\* Who has a name that nobody took is the one its tokens and requests are of.
LEMMA Owners ==
    ASSUME Orderly, NEW n \in Names, n \notin moved
    PROVE  /\ \A t \in WorksOf(n) : /\ cache[t].user \in Users
                                    /\ user[cache[t].user].name = n
                                    /\ user[cache[t].user].status # "absent"
           /\ \A a \in Actors : req[a].op \in {"login", "disable", "delete"} =>
                /\ req[a].user \in Users /\ user[req[a].user].status # "absent"
                /\ req[a].name = n <=> user[req[a].user].name = n
<1>1. TypeOK /\ Honest /\ \A a \in Actors : Asked(a)
  BY DEF Orderly, LoginInv
<1>2. ASSUME NEW t \in WorksOf(n)
      PROVE  /\ cache[t].user \in Users /\ user[cache[t].user].name = n
             /\ user[cache[t].user].status # "absent"
  <2>1. t \in Tokens /\ Works(t) /\ log[t].name = n
    BY DEF WorksOf
  <2>2. cache[t].user \in Users
    BY <1>1, <2>1 DEF Works, TypeOK, Entry
  <2> QED
    BY <1>1, <2>1, <2>2 DEF Honest, Matches
<1>3. ASSUME NEW a \in Actors, req[a].op \in {"login", "disable", "delete"}
      PROVE  /\ req[a].user \in Users /\ user[req[a].user].status # "absent"
             /\ req[a].name = n <=> user[req[a].user].name = n
  <2>1. req[a].user # None /\ Matches(req[a].user, req[a].name)
    BY <1>1, <1>3 DEF Asked
  <2>2. req[a].user \in Users
    BY <1>1, <2>1 DEF TypeOK, Request
  <2> QED
    BY <2>1, <2>2 DEF Matches
<1> QED
  BY <1>2, <1>3

\* A step that spares a name keeps it in order.
LEMMA SparesKept ==
    ASSUME Orderly, Orderly', NEW n \in Names, Plain(n), InOrder(n), Spares(n)
    PROVE  InOrder(n)'
<1> USE LoginAssumption
<1>1. /\ n \notin moved /\ UsersOf(n) /\ TokensOf(n) /\ \A a \in Actors : Holds(a, n)
  BY DEF Plain, InOrder
<1>o. /\ \A t \in WorksOf(n) : /\ cache[t].user \in Users
                               /\ user[cache[t].user].name = n
                               /\ user[cache[t].user].status # "absent"
      /\ \A a \in Actors : req[a].op \in {"login", "disable", "delete"} =>
                /\ req[a].user \in Users /\ user[req[a].user].status # "absent"
                /\ req[a].name = n <=> user[req[a].user].name = n
  BY <1>1, Owners
<1>2. Named(n)' = Named(n)
  BY DEF Spares, Named, Exists
<1>3. \A a \in Actors : req[a].name = n => n \in About(a)
  BY DEF About
<1>4. UsersOf(n)'
  <2>1. \A u \in Users : user'[u].name = n => user'[u] = user[u]
    BY DEF Spares
  <2>2. \A u, v \in Named(n)' : u = v
    BY <1>1, <1>2 DEF UsersOf
  <2>3. \A u \in Users : user'[u].name = n /\ user'[u].status = "disabled" => WebOf(n)' = {}
    BY <1>1, <2>1 DEF UsersOf, Spares
  <2>4. \A u \in Named(n)' : WebOf(n)' # {} => user'[u].online
    BY <1>1, <1>2, <2>1 DEF UsersOf, Spares, Named
  <2>5. ASSUME phase' = "up", Named(n)' = {}, WebOf(n)' # {}
        PROVE  \E a \in Actors : Deletes(a)' /\ req'[a].name = n
    <3>1. PICK a \in Actors : Deletes(a) /\ req[a].name = n
      BY <1>1, <1>2, <2>5 DEF UsersOf, Spares
    <3>2. req'[a] = req[a]
      BY <1>3, <3>1 DEF Spares
    <3> QED
      BY <3>1, <3>2 DEF Deletes
  <2> QED
    BY <2>2, <2>3, <2>4, <2>5 DEF UsersOf
<1>5. TokensOf(n)'
  <2> SUFFICES ASSUME NEW t \in WorksOf(n)
               PROVE  /\ t \in WebOf(n)' \/ \E a \in Actors : Dropping(a, t)'
                      /\ \/ user'[cache'[t].user].status = "enabled"
                         \/ /\ user'[cache'[t].user].status = "deleted"
                            /\ \E a \in Actors : Deletes(a)' /\ req'[a].user = cache'[t].user
    BY DEF TokensOf, Spares
  <2>1. /\ cache'[t].user = cache[t].user
        /\ user'[cache[t].user] = user[cache[t].user]
        /\ t \in Tokens /\ log[t].name = n
    BY <1>o DEF Spares, WorksOf
  <2>2. t \in WebOf(n)' \/ \E a \in Actors : Dropping(a, t)'
    <3>1. CASE t \in WebOf(n)
      BY <3>1 DEF Spares
    <3>2. ASSUME NEW a \in Actors, Dropping(a, t) PROVE Dropping(a, t)'
      <4>1. n \in About(a)
        BY <2>1, <3>2 DEF About, Dropping
      <4> QED
        BY <3>2, <4>1 DEF Dropping, Spares
    <3> QED
      BY <1>1, <3>1, <3>2 DEF TokensOf
  <2>3. ASSUME NEW a \in Actors, Deletes(a), req[a].user = cache[t].user
        PROVE  Deletes(a)' /\ req'[a].user = cache'[t].user
    <3>1. req'[a] = req[a]
      BY <1>3, <1>o, <2>3 DEF Deletes, Spares
    <3> QED
      BY <2>1, <2>3, <3>1 DEF Deletes
  <2> QED
    BY <1>1, <2>1, <2>2, <2>3 DEF TokensOf
<1>6. ASSUME NEW a \in Actors PROVE Holds(a, n)'
  <2>t. TypeOK' /\ RequestOK(a)'
    BY DEF Orderly, LoginInv
  <2>1. CASE n \notin About(a)'
    BY <2>1, <2>t, AboutHolds
  <2>2. CASE n \in About(a)'
    <3>1. /\ req'[a] = req[a]
          /\ req[a].token # None => log'[req[a].token].name = log[req[a].token].name
      BY <2>2 DEF Spares
    <3>2. Holds(a, n) /\ RequestOK(a)
      BY <1>1 DEF Orderly, LoginInv
    <3>3. req[a].op = "login" /\ req[a].name = n => user'[req[a].user] = user[req[a].user]
      BY <1>o DEF Spares
    <3>4. req[a].at \in {"refresh", "offline"} => req[a].token # None
      BY <3>2 DEF RequestOK
    <3>5. req[a].at = "refresh" /\ log[req[a].token].name = n =>
            /\ user'[req[a].user] = user[req[a].user]
      <4> SUFFICES ASSUME req[a].at = "refresh", log[req[a].token].name = n
                   PROVE  user'[req[a].user] = user[req[a].user]
        OBVIOUS
      <4>1. Matches(req[a].user, n) /\ req[a].user \in Users
        BY <3>2 DEF Orderly, LoginInv, TypeOK, Request, Asked, RequestOK
      <4> QED
        BY <1>1, <4>1 DEF Matches, Spares
    <3>6. \A t : Closing(a, t)' <=> Closing(a, t)
      BY <3>1 DEF Closing
    <3>7. Closed(a)' = Closed(a) \/ req[a].at # "offline"
      BY <3>1, <3>4 DEF Closed
    <3>8. /\ WebOf(n)' = WebOf(n) /\ WorksOf(n)' = WorksOf(n)
          /\ \A t \in WorksOf(n) : cache'[t].user = cache[t].user
      BY DEF Spares
    <3>9. req'[a].op = "login" /\ req'[a].name = n =>
            user'[req'[a].user].status = "enabled"
            /\ (req'[a].at = "log" => user'[req'[a].user].online)
      BY <3>1, <3>2, <3>3 DEF Holds
    <3>10. req'[a].at = "refresh" /\ log'[req'[a].token].name = n =>
             req'[a].token \in WebOf(n)' /\ user'[req'[a].user].status = "enabled"
      BY <3>1, <3>2, <3>4, <3>5, <3>8 DEF Holds
    <3>11. Ends(a)' /\ req'[a].name = n =>
             /\ \A t \in WorksOf(n)' : cache'[t].user = req'[a].user => t \in req'[a].todo
             /\ \A t \in WebOf(n)' : t \in req'[a].todo \/ Closing(a, t)'
      BY <3>1, <3>2, <3>6, <3>8 DEF Holds, Ends
    <3>12. /\ Ending(a)' => req'[a].token \notin WorksOf(n)'
           /\ req'[a].op = "sweep" => req'[a].todo \cap WorksOf(n)' = {}
           /\ req'[a].at = "offline" /\ Closed(a)' = n => WebOf(n)' = {}
      BY <3>1, <3>2, <3>7, <3>8 DEF Holds, Ending
    <3> QED
      BY <3>9, <3>10, <3>11, <3>12 DEF Holds
  <2> QED
    BY <2>1, <2>2
<1> QED
  BY <1>4, <1>5, <1>6 DEF InOrder

\* A call spares a name its request is not about.
LEMMA TouchesSpares ==
    ASSUME Orderly, NEW a \in Actors, Touches(a), NEW n \in Names, n \notin moved,
           n \notin About(a)
    PROVE  Spares(n)
<1> USE LoginAssumption
<1>i. TypeOK /\ Honest /\ \A b \in Actors : RequestOK(b) /\ Asked(b)
  BY DEF Orderly, LoginInv
<1>r. \A b \in Actors : req[b].token \in Tokens \cup {None} /\ req[b].todo \subseteq Tokens
  BY <1>i DEF TypeOK, Request
<1>1. /\ req[a].name # n /\ \A t \in req[a].todo : log[t].name # n
      /\ req[a].token # None => log[req[a].token].name # n
  BY DEF About
<1>2. \A t \in Tokens : log[t].name = n => log'[t] = log[t] /\ cache'[t] = cache[t]
  <2> SUFFICES ASSUME NEW t \in Tokens, log[t].name = n
               PROVE  log'[t] = log[t] /\ cache'[t] = cache[t]
    OBVIOUS
  <2>1. req[a].token # t /\ t \notin req[a].todo
    BY <1>1
  <2> QED
    BY <2>1 DEF Touches
<1>3. \A t \in Tokens : log'[t].name = n => log[t].name = n
  BY <1>1 DEF Touches, Logged
<1>4. WebOf(n)' = WebOf(n)
  BY <1>2, <1>3 DEF WebOf, Web
<1>5. WorksOf(n)' = WorksOf(n) /\ \A t \in WorksOf(n) : cache'[t] = cache[t]
  BY <1>2, <1>3 DEF WorksOf, Works, Known
<1>6. \A u \in Users : n \in {user[u].name, user'[u].name} => user'[u] = user[u]
  <2> SUFFICES ASSUME NEW u \in Users, user[u].name = n PROVE user'[u] = user[u]
    BY DEF Touches
  <2>1. ASSUME u = req[a].user, req[a].op \in {"login", "disable", "delete"} PROVE FALSE
    BY <1>1, <2>1, Owners
  <2>2. ASSUME req[a].at = "offline", user[u].name = Closed(a) PROVE FALSE
    BY <1>1, <1>i, <2>2 DEF Closed, RequestOK
  <2> QED
    BY <2>1, <2>2 DEF Touches
<1>7. ASSUME NEW b \in Actors, n \in About(b) \cup About(b)'
      PROVE  /\ req'[b] = req[b]
             /\ req[b].token # None => log'[req[b].token].name = log[req[b].token].name
  <2>1. n \in About(b)
    BY <1>7, <1>i, StepAbout
  <2>2. b # a
    BY <2>1
  <2>3. req[a].at = "log" => req[b].token # req[a].token
    BY <2>2, <1>i DEF RequestOK
  <2> QED
    BY <1>r, <2>2, <2>3 DEF Touches
<1> QED
  BY <1>4, <1>5, <1>6, <1>7 DEF Spares, Touches

\* A request that arrives spares a name it is not about.
LEMMA BeginsSpares ==
    ASSUME Orderly, NEW a \in Actors, Begins(a), NEW n \in Names, n \notin About(a)'
    PROVE  Spares(n)
<1> USE LoginAssumption
<1>1. \A t \in Tokens : log[t].name = n => cache'[t] = cache[t]
  BY DEF Begins, About
<1>2. UNCHANGED <<user, log>> /\ phase = "up"
  BY DEF Begins
<1>3. WebOf(n)' = WebOf(n) /\ WorksOf(n)' = WorksOf(n)
      /\ \A t \in WorksOf(n) : cache'[t] = cache[t]
  BY <1>1, <1>2 DEF WebOf, Web, WorksOf, Works, Known
<1>4. ASSUME NEW b \in Actors, n \in About(b) \cup About(b)' PROVE req'[b] = req[b]
  BY <1>4 DEF Begins, About, NoRequest
<1> QED
  BY <1>2, <1>3, <1>4 DEF Spares

\* With no request about a name, its tokens are of logins that are alive.
LEMMA Resting ==
    ASSUME Orderly, NEW n \in Names, n \notin moved, InOrder(n), phase = "up",
           \A b \in Actors : n \notin About(b)
    PROVE  /\ WorksOf(n) \subseteq WebOf(n)
           /\ \A t \in WorksOf(n) : user[cache[t].user].status = "enabled"
           /\ WebOf(n) # {} => Named(n) # {}
<1> USE LoginAssumption
<1>1. UsersOf(n) /\ TokensOf(n)
  BY DEF InOrder
<1>2. \A b \in Actors : req[b].name # n
  BY DEF About
<1>3. ASSUME NEW t \in WorksOf(n)
      PROVE  t \in WebOf(n) /\ user[cache[t].user].status = "enabled"
  <2>1. \A b \in Actors : ~Dropping(b, t)
    BY DEF WorksOf, Dropping, About
  <2>2. \A b \in Actors : ~(Deletes(b) /\ req[b].user = cache[t].user)
    BY <1>2, Owners DEF Deletes
  <2> QED
    BY <1>1, <2>1, <2>2 DEF TokensOf
<1> QED
  BY <1>1, <1>2, <1>3 DEF UsersOf

\* A request that arrives about a name finds it at rest.
LEMMA BeginsInOrder ==
    ASSUME Orderly, Orderly', NEW a \in Actors, Asks(a), Begins(a), NEW n \in Names,
           Plain(n), Plain(n)', InOrder(n), n \in About(a)'
    PROVE  InOrder(n)'
<1> USE LoginAssumption
<1>0. /\ UNCHANGED <<user, log, moved>> /\ phase = "up" /\ n \notin moved
      /\ \A b \in Actors : n \notin About(b)
      /\ \A b \in Actors \ {a} : req'[b] = req[b]
  BY DEF Begins, Plain
<1>1. /\ WorksOf(n) \subseteq WebOf(n)
      /\ \A t \in WorksOf(n) : user[cache[t].user].status = "enabled"
      /\ WebOf(n) # {} => Named(n) # {}
  BY <1>0, Resting
<1>2. /\ WebOf(n)' = WebOf(n) /\ Named(n)' = Named(n)
      /\ WorksOf(n)' \subseteq WorksOf(n)
      /\ \A t \in WorksOf(n)' : cache'[t] = cache[t]
  BY <1>0 DEF Begins, WebOf, Web, WorksOf, Works, Known, Named, Exists
<1>3. UsersOf(n)'
  BY <1>0, <1>1, <1>2 DEF InOrder, UsersOf
<1>4. TokensOf(n)'
  BY <1>0, <1>1, <1>2 DEF TokensOf
<1>t. /\ TypeOK /\ TypeOK' /\ \A b \in Actors : RequestOK(b) /\ RequestOK(b)'
  BY DEF Orderly, LoginInv
<1>5. ASSUME NEW b \in Actors, b # a PROVE Holds(b, n)'
  <2>1. n \notin About(b)'
    BY <1>0, <1>5 DEF About
  <2> QED
    BY <1>t, <2>1, AboutHolds
<1>6. Holds(a, n)'
  <2>1. ASSUME NEW u \in Users, Disable(a, u) \/ DeleteUser(a, u) PROVE Holds(a, n)'
    <3>1. /\ req'[a].at \in {"each", "erase"} /\ req'[a].op \in {"disable", "delete"}
          /\ req'[a].todo = Alive(req'[a].name)
      BY <2>1, <1>t DEF Disable, DeleteUser, Begin, TypeOK
    <3>2. WebOf(n) \subseteq Alive(n)
      BY DEF WebOf, Web, Alive
    <3> QED
      BY <1>1, <1>2, <3>1, <3>2 DEF Holds, Ends, Ending
  <2>2. ASSUME NEW u \in Users, NEW t \in Tokens, FindUser(a, u, t) PROVE Holds(a, n)'
    <3>1. /\ req'[a].at = "token" /\ req'[a].op = "login" /\ req'[a].user = u
          /\ user[u].status = "enabled"
      BY <2>2, <1>t DEF FindUser, Begin, TypeOK
    <3> QED
      BY <1>0, <3>1 DEF Holds, Ends, Ending
  <2>3. ASSUME NEW t \in Tokens, Call(a, t) PROVE Holds(a, n)'
    <3>1. PICK what \in {"call", "logout"} :
            Begin(a, what, "refresh", cache[t].user, log[t].name, t, {})
      BY <2>3 DEF Call
    <3>2. /\ req'[a].at = "refresh" /\ req'[a].op = what /\ req'[a].user = cache[t].user
          /\ req'[a].token = t
      BY <3>1, <1>t DEF Begin, TypeOK
    <3>3. log[t].name = n => t \in WorksOf(n)
      BY <2>3 DEF Call, WorksOf, Works
    <3> QED
      BY <1>0, <1>1, <1>2, <3>2, <3>3 DEF Holds, Ends, Ending
  <2>4. ASSUME NEW t \in Tokens, DeleteLoginLogs(a, t) PROVE Holds(a, n)'
    <3>1. req'[a].at = "each" /\ req'[a].op = "purge"
      BY <2>4, <1>t DEF DeleteLoginLogs, Begin, TypeOK
    <3> QED
      BY <3>1 DEF Holds, Ends, Ending
  <2>5. CASE Sweep(a)
    <3>1. /\ req'[a].at = "each" /\ req'[a].op = "sweep" /\ req'[a].todo = Expired
          /\ cache' = [t \in Tokens |-> IF t \in Expired THEN None ELSE cache[t]]
      BY <2>5, <1>t DEF Sweep, Begin, TakeOut, TypeOK
    <3>2. Expired \cap WorksOf(n)' = {}
      BY <3>1 DEF WorksOf, Works
    <3> QED
      BY <3>1, <3>2 DEF Holds, Ends, Ending
  <2> QED
    BY <2>1, <2>2, <2>3, <2>4, <2>5 DEF Asks
<1> QED
  BY <1>3, <1>4, <1>5, <1>6 DEF InOrder
\* What users and the ticker do to others spares a name.
LEMMA ApartSpares ==
    ASSUME Orderly, Apart, NEW n \in Names,
           \A t \in Tokens : (Web(t)' <=> Web(t)) /\ (Known(t)' <=> Known(t)),
           \A u \in Users :
             (user[u].status # "absent" /\ user[u].name = n) \/ user'[u].name = n =>
                user'[u] = user[u]
    PROVE  Spares(n)
<1> USE LoginAssumption
<1>i. TypeOK /\ \A b \in Actors : RequestOK(b)
  BY DEF Orderly, LoginInv
<1>1. \A t \in Tokens : Web(t) \/ Known(t) => log'[t].name = log[t].name
  BY DEF Apart, Web, Known, Saved
<1>2. WebOf(n)' = WebOf(n)
  BY <1>1 DEF WebOf
<1>3. WorksOf(n)' = WorksOf(n) /\ \A t \in WorksOf(n) : cache'[t].user = cache[t].user
  BY <1>1 DEF WorksOf, Works, Apart
<1>4. ASSUME NEW b \in Actors, req[b].token # None
      PROVE  log'[req[b].token].name = log[req[b].token].name
  <2>1. req[b].token \in Tokens
    BY <1>4, <1>i DEF TypeOK, Request
  <2> QED
    BY <2>1 DEF Apart
<1> QED
  BY <1>2, <1>3, <1>4 DEF Spares, Apart

\* Users and the ticker keep a name in order.
LEMMA OthersInOrder ==
    ASSUME Orderly, Orderly', Others, Apart, NEW n \in Names,
           Plain(n), Plain(n)', InOrder(n)
    PROVE  InOrder(n)'
<1> USE LoginAssumption
<1>t. /\ TypeOK /\ TypeOK' /\ \A b \in Actors : RequestOK(b) /\ RequestOK(b)'
  BY DEF Orderly, LoginInv
<1>r. /\ \A u \in Users : user[u] \in User
      /\ \A t \in Tokens : log[t] \in Log
  BY <1>t DEF TypeOK
<1>0. n \notin moved /\ n \notin moved' /\ n \notin mixed'
  BY DEF Plain
<1>s. ASSUME Spares(n) PROVE InOrder(n)'
  BY <1>s, SparesKept
<1>w. ASSUME UNCHANGED log
      PROVE  /\ \A t \in Tokens : (Web(t)' <=> Web(t)) /\ (Known(t)' <=> Known(t))
             /\ WebOf(n)' = WebOf(n)
  BY <1>w DEF Web, Known, WebOf
<1>1. ASSUME NEW u \in Users, Enable(u) PROVE InOrder(n)'
  <2>1. /\ user[u].status = "disabled" /\ user'[u] = [user[u] EXCEPT !.status = "enabled"]
        /\ \A v \in Users \ {u} : user'[v] = user[v]
        /\ UNCHANGED <<log, cache, req, phase>>
    BY <1>1, <1>t DEF Enable, TypeOK
  <2>2. /\ user'[u].name = user[u].name /\ user'[u].status = "enabled"
        /\ user'[u].online = user[u].online
    BY <2>1, <1>r DEF User
  <2>3. CASE user[u].name # n
    <3>1. \A v \in Users : user[v].name = n \/ user'[v].name = n => user'[v] = user[v]
      BY <2>1, <2>2, <2>3
    <3>2. Spares(n)
      BY <1>w, <2>1, <3>1, ApartSpares
    <3> QED
      BY <1>s, <3>2
  <2>4. CASE user[u].name = n
    <3>0. UsersOf(n) /\ TokensOf(n) /\ \A a \in Actors : Holds(a, n)
      BY DEF InOrder
    <3>w. WebOf(n) = {} /\ WebOf(n)' = WebOf(n)
      BY <1>w, <2>1, <2>4, <3>0 DEF UsersOf
    <3>1. WebOf(n) = {} /\ WebOf(n)' = {} /\ UsersOf(n) /\ TokensOf(n)
          /\ \A a \in Actors : Holds(a, n)
      BY <3>0, <3>w
    <3>e. \A v \in Users : (Exists(v)' <=> Exists(v)) /\ user'[v].name = user[v].name
      BY <2>1, <2>2 DEF Exists
    <3>2. Named(n)' = Named(n)
      BY <3>e DEF Named
    <3>3. UsersOf(n)'
      BY <3>1, <3>2 DEF UsersOf
    <3>4. WorksOf(n)' = WorksOf(n)
      BY <2>1 DEF WorksOf, Works, Known
    <3>5. TokensOf(n)'
      <4>1. ASSUME NEW t \in WorksOf(n) PROVE cache[t].user \in Users
        BY <1>t, <4>1 DEF WorksOf, Works, TypeOK, Entry
      <4> QED
        BY <2>1, <2>2, <3>1, <3>4, <4>1 DEF TokensOf, Dropping, Deletes
    <3>6. ASSUME NEW a \in Actors PROVE Holds(a, n)'
      <4>1. /\ req[a].op = "login" => req[a].user \in Users
            /\ req[a].at = "refresh" => req[a].user \in Users
        BY <1>t DEF Orderly, Asked, RequestOK, TypeOK, Request
      <4>2. \A v \in Users : user[v].status = "enabled" =>
              user'[v].status = "enabled" /\ user'[v].online = user[v].online
        BY <2>1, <2>2
      <4> QED
        BY <2>1, <3>1, <3>4, <4>1, <4>2 DEF Holds, Ends, Ending, Closing, Closed
    <3> QED
      BY <3>3, <3>5, <3>6 DEF InOrder
  <2> QED
    BY <2>3, <2>4
<1>2. ASSUME NEW u \in Users, NEW m \in Names,
             NEW st \in {"enabled", "disabled"}, NEW on \in BOOLEAN, NewUser(u, m, st, on)
      PROVE  InOrder(n)'
  <2>1. /\ user[u].status = "absent"
        /\ user'[u] = [status |-> st, name |-> m, online |-> on]
        /\ \A v \in Users \ {u} : user'[v] = user[v]
        /\ UNCHANGED <<log, cache, req, phase>> /\ Free(m) /\ phase = "up"
    BY <1>2, <1>t DEF NewUser, TypeOK
  <2>2. CASE m # n
    BY <1>s, <1>w, <2>1, <2>2, ApartSpares
  <2>3. CASE m = n
    <3>1. \A b \in Actors : n \notin About(b)
      BY <1>0, <1>2, <2>3 DEF NewUser, Mix
    <3>2. Named(n) = {}
      BY <2>1, <2>3 DEF Free, Named
    <3>3. WebOf(n) = {} /\ WorksOf(n) = {}
      BY <1>0, <2>1, <3>1, <3>2, Resting
    <3>4. WebOf(n)' = {} /\ WorksOf(n)' = {}
      BY <2>1, <3>3 DEF WebOf, Web, WorksOf, Works, Known
    <3>5. Named(n)' = {u}
      BY <2>1, <2>3, <3>2 DEF Named, Exists
    <3>6. UsersOf(n)' /\ TokensOf(n)'
      BY <3>4, <3>5 DEF UsersOf, TokensOf
    <3>7. \A b \in Actors : n \notin About(b)'
      BY <1>t, <3>1, ApartAbout
    <3> QED
      BY <1>t, <3>6, <3>7, AboutHolds DEF InOrder
  <2> QED
    BY <2>2, <2>3
<1>3. ASSUME NEW u \in Users, NEW m \in Names, UpdateUser(u, m) PROVE InOrder(n)'
  <2>1. /\ user'[u] = [user[u] EXCEPT !.name = m] /\ Exists(u)
        /\ \A v \in Users \ {u} : user'[v] = user[v]
        /\ UNCHANGED log
        /\ moved' = IF m = user[u].name THEN moved ELSE moved \cup {m, user[u].name}
    BY <1>3, <1>t DEF UpdateUser, TypeOK
  <2>2. user'[u].name = m /\ (m = user[u].name => user'[u] = user[u])
    BY <2>1, <1>r DEF User
  <2>3. \A v \in Users : user[v].name = n \/ user'[v].name = n => user'[v] = user[v]
    BY <1>0, <2>1, <2>2
  <2> QED
    BY <1>s, <1>w, <2>1, <2>3, ApartSpares
<1>4. ASSUME NEW u \in Users, NEW x \in Tokens, TerminalLogin(u, x) PROVE InOrder(n)'
  <2>1. /\ \A t \in Tokens \ {x} : log'[t] = log[t]
        /\ log'[x] = Logged(user[u].name, "terminal") /\ log[x].state = "none"
        /\ UNCHANGED user
    BY <1>4, <1>t DEF TerminalLogin, Unused, TypeOK
  <2>2. \A t \in Tokens : (Web(t)' <=> Web(t)) /\ (Known(t)' <=> Known(t))
    BY <2>1 DEF Web, Known, Logged
  <2> QED
    BY <1>s, <2>1, <2>2, ApartSpares
<1>5. ASSUME NEW x \in Tokens, Expire(x) PROVE InOrder(n)'
  <2>1. UNCHANGED <<user, log>>
    BY <1>5 DEF Expire
  <2> QED
    BY <1>s, <1>w, <2>1, ApartSpares
<1>6. ASSUME NEW x \in Tokens, DeleteOutTime(x) PROVE InOrder(n)'
  <2>1. /\ UNCHANGED user /\ log[x].state = "closed"
        /\ \A t \in Tokens \ {x} : log'[t] = log[t]
        /\ log'[x] = [log[x] EXCEPT !.state = "deleted"]
    BY <1>6, <1>t DEF DeleteOutTime, DeleteRow, TypeOK
  <2>2. log'[x].state = "deleted" /\ log'[x].kind = log[x].kind
    BY <2>1, <1>r DEF Log
  <2>3. \A t \in Tokens : (Web(t)' <=> Web(t)) /\ (Known(t)' <=> Known(t))
    BY <2>1, <2>2 DEF Web, Known
  <2> QED
    BY <1>s, <2>1, <2>3, ApartSpares
<1> QED
  BY <1>1, <1>2, <1>3, <1>4, <1>5, <1>6 DEF Others, CreateUser, RestoreUser

\* A start keeps a name in order: its tokens are those of the logins that are alive.
LEMMA ServerInOrder ==
    ASSUME Orderly, Orderly', Server, NEW n \in Names, Plain(n), InOrder(n)
    PROVE  InOrder(n)'
<1> USE LoginAssumption
<1>t. /\ TypeOK /\ TypeOK' /\ \A b \in Actors : RequestOK(b) /\ RequestOK(b)'
  BY DEF Orderly, LoginInv
<1>r. \A u \in Users : user[u] \in User
  BY <1>t DEF TypeOK
<1>l. \A t \in Tokens : log[t] \in Log
  BY <1>t DEF TypeOK
<1>u. UsersOf(n)
  BY DEF InOrder
<1>h. ASSUME \A a \in Actors : req'[a] = NoRequest PROVE \A a \in Actors : Holds(a, n)'
  <2>1. \A a \in Actors : n \notin About(a)'
    BY <1>h DEF About, NoRequest
  <2> QED
    BY <1>t, <2>1, AboutHolds
<1>1. CASE Crash
  <2>1. /\ UNCHANGED <<user, log>> /\ phase' = "down"
        /\ \A a \in Actors : req'[a] = NoRequest
    BY <1>1 DEF Crash
  <2>2. WorksOf(n)' = {}
    BY <1>1 DEF Crash, WorksOf, Works
  <2>3. TokensOf(n)'
    BY <2>2 DEF TokensOf
  <2>4. UsersOf(n)'
    BY <1>u, <2>1 DEF UsersOf, WebOf, Web, Named, Exists
  <2> QED
    BY <1>h, <2>1, <2>3, <2>4 DEF InOrder
<1>2. CASE FixUserOnlineState
  <2>1. /\ UNCHANGED <<log, cache>> /\ phase # "up" /\ phase' # "up"
        /\ \A a \in Actors : req'[a] = NoRequest /\ req[a] = NoRequest
    BY <1>2, <1>t DEF FixUserOnlineState, RequestOK
  <2>2. \A u \in Users : /\ user'[u].name = user[u].name /\ user'[u].status = user[u].status
                         /\ user'[u].online = user[u].online \/ Alive(user[u].name) = {}
    BY <1>2, <1>r DEF FixUserOnlineState, User
  <2>3. WebOf(n)' = WebOf(n) /\ WorksOf(n)' = WorksOf(n) /\ Named(n)' = Named(n)
    BY <2>1, <2>2 DEF WebOf, Web, WorksOf, Works, Known, Named, Exists
  <2>4. WebOf(n) \subseteq Alive(n)
    BY DEF WebOf, Web, Alive
  <2>5. UsersOf(n)'
    BY <1>u, <2>1, <2>2, <2>3, <2>4 DEF UsersOf, Named
  <2>6. TokensOf(n)'
    <3>1. ASSUME NEW t \in WorksOf(n) PROVE cache[t].user \in Users
      BY <1>t DEF WorksOf, Works, TypeOK, Entry
    <3> QED
      BY <2>1, <2>2, <2>3, <3>1 DEF InOrder, TokensOf, Dropping, Deletes
  <2> QED
    BY <1>h, <2>1, <2>5, <2>6 DEF InOrder
<1>3. CASE ReloadToken
  <2>1. /\ UNCHANGED user /\ \A a \in Actors : req'[a] = NoRequest
    BY <1>3, <1>t DEF ReloadToken, RequestOK
  <2>2. ASSUME NEW t \in Tokens
        PROVE  /\ log'[t].name = log[t].name /\ log'[t].kind = log[t].kind
               /\ Web(t)' <=> Web(t) /\ Named(log[t].name) # {}
    BY <1>3, <1>l DEF ReloadToken, Web, Log
  <2>3. WebOf(n)' = IF Named(n) = {} THEN {} ELSE WebOf(n)
    BY <2>2 DEF WebOf
  <2>4. Named(n)' = Named(n)
    BY <2>1 DEF Named, Exists
  <2>5. UsersOf(n)'
    BY <1>u, <2>1, <2>3, <2>4 DEF UsersOf
  <2>6. ASSUME NEW t \in WorksOf(n)'
        PROVE  /\ t \in WebOf(n)'
               /\ cache'[t].user \in Named(n)
    <3>1. t \in Tokens /\ cache'[t] # None /\ Known(t)' /\ log'[t].name = n
      BY DEF WorksOf, Works
    <3>2. /\ log[t].state = "alive" /\ Named(log[t].name) # {}
          /\ cache'[t] = [user |-> CHOOSE u \in Named(log[t].name) : TRUE, fresh |-> TRUE]
      BY <1>3, <3>1 DEF ReloadToken
    <3>3. cache'[t].user \in Named(log[t].name)
      BY <3>2
    <3>4. Web(t)
      BY <2>2, <3>1, <3>2 DEF Web, Known
    <3> QED
      BY <2>2, <2>3, <3>1, <3>3, <3>4 DEF WebOf
  <2>7. TokensOf(n)'
    <3>1. ASSUME NEW t \in WorksOf(n)'
          PROVE  t \in WebOf(n)' /\ user'[cache'[t].user].status = "enabled"
      <4>1. cache'[t].user \in Named(n) /\ t \in WebOf(n)' /\ WebOf(n) # {}
        BY <2>3, <2>6
      <4> QED
        BY <1>u, <2>1, <4>1 DEF Named, Exists, UsersOf
    <3> QED
      BY <3>1 DEF TokensOf
  <2> QED
    BY <1>h, <2>1, <2>5, <2>7 DEF InOrder
<1> QED
  BY <1>1, <1>2, <1>3 DEF Server
\* a request all of a name depends on
Sole(a, n) ==
    /\ \A b \in Actors \ {a} : Holds(b, n)'
    /\ \A t \in WorksOf(n) : t \in WebOf(n) \/ Dropping(a, t)
    /\ \A t \in WorksOf(n) :
         \/ user[cache[t].user].status = "enabled"
         \/ /\ user[cache[t].user].status = "deleted"
            /\ Deletes(a) /\ req[a].name = n /\ req[a].user = cache[t].user
    /\ Named(n) = {} /\ WebOf(n) # {} => Deletes(a) /\ req[a].name = n

\* a call of it
Own(a, n) ==
    /\ Orderly /\ Touches(a) /\ Plain(n)
    /\ UsersOf(n) /\ Holds(a, n) /\ Sole(a, n)

\* No other request is about a name.
LEMMA SoleOwn ==
    ASSUME Orderly, Orderly', NEW a \in Actors, Touches(a), NEW n \in Names,
           Plain(n), InOrder(n), n \in About(a)
    PROVE  Own(a, n)
<1> USE LoginAssumption
<1>1. /\ n \notin moved /\ UsersOf(n) /\ TokensOf(n) /\ Holds(a, n) /\ phase = "up"
  BY DEF Plain, InOrder, Touches
<1>2. \A b \in Actors \ {a} : n \notin About(b)
  BY DEF Orderly, Single, Plain
<1>t. /\ TypeOK /\ TypeOK' /\ \A b \in Actors : RequestOK(b) /\ RequestOK(b)'
  BY DEF Orderly, LoginInv
<1>3. ASSUME NEW b \in Actors \ {a} PROVE Holds(b, n)'
  <2>1. n \notin About(b)'
    BY <1>2, <1>t, StepAbout
  <2> QED
    BY <1>t, <2>1, AboutHolds
<1>4. \A b \in Actors \ {a} : req[b].name # n
  BY <1>2 DEF About
<1>5. ASSUME NEW t \in WorksOf(n)
      PROVE  /\ t \in WebOf(n) \/ Dropping(a, t)
             /\ \/ user[cache[t].user].status = "enabled"
                \/ /\ user[cache[t].user].status = "deleted"
                   /\ Deletes(a) /\ req[a].name = n /\ req[a].user = cache[t].user
  <2>1. \A b \in Actors : Dropping(b, t) => b = a
    BY <1>2 DEF WorksOf, Dropping, About
  <2>2. \A b \in Actors : Deletes(b) /\ req[b].user = cache[t].user => req[b].name = n
    BY <1>1, Owners DEF Deletes
  <2> QED
    BY <1>1, <1>4, <2>1, <2>2 DEF TokensOf
<1>6. Named(n) = {} /\ WebOf(n) # {} => Deletes(a) /\ req[a].name = n
  BY <1>1, <1>4 DEF UsersOf
<1> QED
  BY <1>1, <1>3, <1>5, <1>6 DEF Own, Sole

\* A call keeps the users of a name in order.
LEMMA OwnUsers ==
    ASSUME NEW a \in Actors, NEW n \in Names, Own(a, n),
           \A u \in Users : user'[u].status = user[u].status,
           WebOf(n)' \subseteq WebOf(n),
           \A u \in Named(n) : user'[u].online \in {user[u].online, TRUE} \/ WebOf(n)' = {},
           Deletes(a) /\ req[a].name = n =>
              (Deletes(a)' /\ req'[a].name = n) \/ WebOf(n)' = {}
    PROVE  UsersOf(n)'
<1>1. \A u \in Users : user'[u].name = user[u].name
  BY DEF Own, Touches
<1>2. Named(n)' = Named(n)
  BY <1>1 DEF Named, Exists
<1>3. UsersOf(n)
  BY DEF Own
<1>4. \A u \in Users : user'[u].name = n /\ user'[u].status = "disabled" => WebOf(n)' = {}
  BY <1>1, <1>3 DEF UsersOf
<1>5. \A u \in Named(n) : WebOf(n)' # {} => user'[u].online
  BY <1>3 DEF UsersOf
<1>6. Named(n) = {} /\ WebOf(n)' # {} => Deletes(a)' /\ req'[a].name = n
  BY DEF Own, Sole
<1>7. \A u, v \in Named(n) : u = v
  BY <1>3 DEF UsersOf
<1> QED
  BY <1>2, <1>4, <1>5, <1>6, <1>7 DEF UsersOf

\* A call keeps the tokens of a name in order.
LEMMA OwnTokens ==
    ASSUME NEW a \in Actors, NEW n \in Names, Own(a, n),
           \A u \in Users : user'[u].status = user[u].status,
           WorksOf(n)' \subseteq WorksOf(n),
           \A t \in WorksOf(n)' :
             /\ cache'[t].user = cache[t].user
             /\ t \in WebOf(n) \/ Dropping(a, t) => t \in WebOf(n)' \/ Dropping(a, t)',
           Deletes(a) /\ req[a].name = n =>
              \/ Deletes(a)' /\ req'[a].user = req[a].user
              \/ \A t \in WorksOf(n)' : cache[t].user # req[a].user
    PROVE  TokensOf(n)'
<1>1. Orderly /\ n \notin moved
  BY DEF Own, Plain
<1>2. \A t \in WorksOf(n) : cache[t].user \in Users
  BY <1>1, Owners
<1> QED
  BY <1>2 DEF Own, Sole, TokensOf

\* A call whose request holds what it should keeps the name in order.
LEMMA OwnKept ==
    ASSUME NEW a \in Actors, NEW n \in Names, Own(a, n),
           UsersOf(n)', TokensOf(n)', Holds(a, n)'
    PROVE  InOrder(n)'
  BY DEF Own, Sole, InOrder

\* A request that is over holds nothing.
LEMMA OverHolds ==
    ASSUME TypeOK, Orderly', NEW a \in Actors, NEW n \in Names, Over(a)
    PROVE  /\ req'[a] = NoRequest /\ Holds(a, n)'
           /\ ~Deletes(a)' /\ \A t : ~Dropping(a, t)'
<1> USE LoginAssumption
<1>1. req'[a] = NoRequest
  BY DEF Over, TypeOK
<1>2. n \notin About(a)'
  BY <1>1 DEF About, NoRequest
<1>3. TypeOK' /\ RequestOK(a)'
  BY DEF Orderly, LoginInv
<1> QED
  BY <1>1, <1>2, <1>3, AboutHolds DEF NoRequest, Deletes, Dropping

\* What is to be done next is all that changes of a request that goes on.
LEMMA GotoFields ==
    ASSUME TypeOK, NEW a \in Actors, NEW c, Goto(a, c)
    PROVE  /\ req'[a].at = c /\ req'[a].op = req[a].op /\ req'[a].user = req[a].user
           /\ req'[a].name = req[a].name /\ req'[a].token = req[a].token
           /\ req'[a].todo = req[a].todo /\ req'[a].back = req[a].back
<1>1. req'[a] = [req[a] EXCEPT !.at = c] /\ req[a] \in Request
  BY DEF Goto, TypeOK
<1> QED
  BY <1>1 DEF Request

\* A request that goes back goes to the next token or on with this one.
LEMMA BackFields ==
    ASSUME TypeOK, NEW a \in Actors, GoBack(a)
    PROVE  /\ req'[a].op = req[a].op /\ req'[a].user = req[a].user
           /\ req'[a].name = req[a].name /\ req'[a].todo = req[a].todo
           /\ req'[a].back = req[a].back /\ req'[a].at = req[a].back
           /\ req[a].back # "each" => req'[a].token = req[a].token
<1>1. CASE req[a].back = "each"
  <2>1. /\ req'[a] = [req[a] EXCEPT !.at = "each", !.token = None]
        /\ req[a] \in Request
    BY <1>1 DEF GoBack, TypeOK
  <2> QED
    BY <1>1, <2>1 DEF Request
<1>2. CASE req[a].back # "each"
  BY <1>2, GotoFields DEF GoBack
<1> QED
  BY <1>1, <1>2

\* Logins and calls keep a name in order.
LEMMA OwnLogin ==
    ASSUME Orderly', NEW a \in Actors, NEW n \in Names, Own(a, n),
           LoginSuccess(a) \/ SaveLoginLog(a) \/ Refused(a) \/ Refresh(a)
    PROVE  InOrder(n)'
<1> USE LoginAssumption
<1>i. /\ Orderly /\ n \notin moved /\ Holds(a, n) /\ UsersOf(n) /\ Sole(a, n)
      /\ TypeOK /\ RequestOK(a) /\ Asked(a) /\ Honest
  BY DEF Own, Plain, Orderly, LoginInv
<1>r. /\ req[a] \in Request /\ \A u \in Users : user[u] \in User
  BY <1>i DEF TypeOK
<1>o. /\ \A t \in WorksOf(n) : cache[t].user \in Users /\ user[cache[t].user].name = n
      /\ req[a].op = "login" => /\ req[a].user \in Users
                                /\ req[a].name = n <=> user[req[a].user].name = n
  BY <1>i, Owners
<1>1. CASE LoginSuccess(a)
  <2>1. /\ req[a].at = "token" /\ req[a].op = "login" /\ UNCHANGED log
        /\ req[a].token \in Tokens /\ ~Saved(req[a].token) /\ req[a].user \in Users
        /\ \A t \in Tokens : t # req[a].token => cache'[t] = cache[t]
    BY <1>1, <1>i, <1>r DEF LoginSuccess, Fresh, At, RequestOK, TypeOK, Request
  <2>2. WebOf(n)' = WebOf(n)
    BY <2>1 DEF WebOf, Web
  <2>3. WorksOf(n)' = WorksOf(n) /\ \A t \in WorksOf(n) : cache'[t] = cache[t]
    BY <2>1 DEF WorksOf, Works, Known, Saved
  <2>4. /\ req'[a].at = "log" /\ req'[a].op = req[a].op /\ req'[a].user = req[a].user
        /\ req'[a].name = req[a].name /\ req'[a].back = req[a].back
    BY <1>1, <1>i, GotoFields DEF LoginSuccess
  <2>5. \A u \in Users : /\ user'[u].status = user[u].status
                         /\ user'[u].online \in {user[u].online, TRUE}
                         /\ Exists(u) /\ u = req[a].user => user'[u].online
    BY <1>1, <1>r, <1>i DEF LoginSuccess, TypeOK, User
  <2>6. ~Deletes(a) /\ \A t : ~Dropping(a, t)
    BY <2>1 DEF Deletes, Dropping
  <2>7. UsersOf(n)'
    BY <2>2, <2>5, <2>6, OwnUsers DEF Named
  <2>8. TokensOf(n)'
    BY <2>2, <2>3, <2>5, <2>6, OwnTokens
  <2>9. Holds(a, n)'
    <3>1. req[a].name = n => user[req[a].user].status = "enabled"
      BY <1>i, <2>1 DEF Holds
    <3> QED
      BY <2>1, <2>4, <2>5, <3>1 DEF Holds, Ends, Ending, Exists
  <2> QED
    BY <2>7, <2>8, <2>9, OwnKept
<1>2. CASE SaveLoginLog(a)
  <2>1. /\ req[a].at = "log" /\ req[a].op = "login" /\ UNCHANGED <<user, cache>> /\ Over(a)
        /\ req[a].token \in Tokens /\ ~Saved(req[a].token) /\ req[a].user \in Users
        /\ cache[req[a].token] # None /\ cache[req[a].token].user = req[a].user
        /\ log'[req[a].token] = Logged(req[a].name, "web")
        /\ \A t \in Tokens : t # req[a].token => log'[t] = log[t]
    BY <1>2, <1>i, <1>r DEF SaveLoginLog, At, RequestOK, Asked, TypeOK, Request
  <2>2. Holds(a, n)' /\ ~Deletes(a)' /\ \A t : ~Dropping(a, t)'
    BY <1>i, <2>1, OverHolds
  <2>3. ~Deletes(a) /\ \A t : ~Dropping(a, t)
    BY <2>1 DEF Deletes, Dropping
  <2>4. CASE req[a].name # n
    <3>1. WebOf(n)' = WebOf(n) /\ WorksOf(n)' = WorksOf(n)
      BY <2>1, <2>4 DEF WebOf, Web, WorksOf, Works, Known, Saved, Logged
    <3>2. UsersOf(n)'
      BY <2>1, <2>3, <3>1, OwnUsers
    <3>3. TokensOf(n)'
      BY <2>1, <2>3, <3>1, OwnTokens
    <3> QED
      BY <2>2, <3>2, <3>3, OwnKept
  <2>5. CASE req[a].name = n
    <3>1. /\ WebOf(n)' = WebOf(n) \cup {req[a].token}
          /\ WorksOf(n)' = WorksOf(n) \cup {req[a].token}
      BY <2>1, <2>5 DEF WebOf, Web, WorksOf, Works, Known, Saved, Logged
    <3>2. /\ user[req[a].user].status = "enabled" /\ user[req[a].user].online
          /\ user[req[a].user].name = n
      BY <1>i, <1>o, <2>1, <2>5 DEF Holds
    <3>3. Named(n) = {req[a].user} /\ Named(n)' = Named(n)
      BY <1>i, <2>1, <3>2 DEF UsersOf, Named, Exists
    <3>4. \A u \in Users : user[u].name = n => user[u].status # "disabled"
      BY <3>2, <3>3 DEF Named, Exists
    <3>5. UsersOf(n)'
      BY <2>1, <3>2, <3>3, <3>4 DEF UsersOf
    <3>6. TokensOf(n)'
      BY <1>i, <2>1, <2>3, <3>1, <3>2 DEF TokensOf, Sole
    <3> QED
      BY <2>2, <3>5, <3>6, OwnKept
  <2> QED
    BY <2>4, <2>5
<1>3. CASE Refused(a)
  <2>1. /\ req[a].at = "token" /\ req[a].op = "login" /\ UNCHANGED <<user, log, cache>>
        /\ Over(a)
    BY <1>3, <1>i DEF Refused, At, RequestOK
  <2>2. Holds(a, n)'
    BY <1>i, <2>1, OverHolds
  <2>3. ~Deletes(a) /\ \A t : ~Dropping(a, t)
    BY <2>1 DEF Deletes, Dropping
  <2>4. WebOf(n)' = WebOf(n) /\ WorksOf(n)' = WorksOf(n)
    BY <2>1 DEF WebOf, Web, WorksOf, Works, Known
  <2>5. UsersOf(n)'
    BY <2>1, <2>3, <2>4, OwnUsers
  <2>6. TokensOf(n)'
    BY <2>1, <2>3, <2>4, OwnTokens
  <2> QED
    BY <2>2, <2>5, <2>6, OwnKept
<1>4. CASE Refresh(a)
  <2>1. /\ req[a].at = "refresh" /\ req[a].op \in {"call", "logout"} /\ UNCHANGED <<user, log>>
        /\ req[a].token \in Tokens /\ Known(req[a].token) /\ req[a].user \in Users
        /\ cache'[req[a].token] = [user |-> req[a].user, fresh |-> TRUE]
        /\ \A t \in Tokens : t # req[a].token => cache'[t] = cache[t]
    BY <1>4, <1>i, <1>r DEF Refresh, Fresh, At, RequestOK, Asked, TypeOK, Request
  <2>2. ~Deletes(a) /\ \A t : ~Dropping(a, t)
    BY <2>1 DEF Deletes, Dropping
  <2>3. WebOf(n)' = WebOf(n)
    BY <2>1 DEF WebOf, Web
  <2>4. UsersOf(n)'
    BY <2>1, <2>2, <2>3, OwnUsers
  <2>5. TokensOf(n)'
    <3> SUFFICES ASSUME NEW t \in WorksOf(n)'
                 PROVE  t \in WebOf(n) /\ user[cache'[t].user].status = "enabled"
      BY <2>1, <2>3 DEF TokensOf
    <3>1. CASE t = req[a].token
      <4>1. log[req[a].token].name = n
        BY <2>1, <3>1 DEF WorksOf
      <4>2. req[a].token \in WebOf(n) /\ user[req[a].user].status = "enabled"
        BY <1>i, <2>1, <4>1 DEF Holds
      <4> QED
        BY <2>1, <3>1, <4>2
    <3>2. CASE t # req[a].token
      <4>1. t \in WorksOf(n) /\ cache'[t] = cache[t]
        BY <2>1, <3>2 DEF WorksOf, Works, Known
      <4> QED
        BY <1>i, <2>2, <4>1 DEF Sole
    <3> QED
      BY <3>1, <3>2
  <2>6. Holds(a, n)'
    <3>1. CASE Over(a)
      BY <1>i, <3>1, OverHolds
    <3>2. CASE req' = [req EXCEPT ![a] = [@ EXCEPT !.at = "each", !.todo = {req[a].token}]]
      <4>1. req'[a] = [req[a] EXCEPT !.at = "each", !.todo = {req[a].token}]
        BY <1>i, <3>2 DEF TypeOK
      <4>2. req'[a].at = "each" /\ req'[a].op = req[a].op
        BY <1>r, <4>1 DEF Request
      <4> QED
        BY <2>1, <4>2 DEF Holds, Ends, Ending
    <3> QED
      BY <1>4, <3>1, <3>2 DEF Refresh
  <2> QED
    BY <2>4, <2>5, <2>6, OwnKept
<1> QED
  BY <1>1, <1>2, <1>3, <1>4
\* What takes tokens out one after the other keeps a name in order.
LEMMA OwnEach ==
    ASSUME Orderly', NEW a \in Actors, NEW n \in Names, Own(a, n),
           (\E t \in Tokens : Each(a, t)) \/ EachDone(a)
    PROVE  InOrder(n)'
<1> USE LoginAssumption
<1>i. /\ Orderly /\ n \notin moved /\ Holds(a, n) /\ UsersOf(n) /\ Sole(a, n)
      /\ TypeOK /\ RequestOK(a) /\ Asked(a) /\ LiveLogHasToken
  BY DEF Own, Plain, Orderly, LoginInv
<1>r. req[a] \in Request
  BY <1>i DEF TypeOK
<1>d. /\ UNCHANGED <<user, log, phase>> /\ phase = "up" /\ req[a].at = "each"
      /\ \A t : ~Dropping(a, t)
  BY DEF Each, EachDone, At, Dropping
<1>w. WebOf(n)' = WebOf(n)
  BY <1>d DEF WebOf, Web
<1>k. WorksOf(n) \subseteq WebOf(n)
  BY <1>i, <1>d DEF Sole
<1>1. ASSUME NEW t \in Tokens, Each(a, t) PROVE InOrder(n)'
  <2>1. t \in req[a].todo /\ req'[a].op = req[a].op /\ req'[a].user = req[a].user
        /\ req'[a].name = req[a].name /\ req'[a].todo = req[a].todo \ {t}
        /\ \/ /\ req'[a].at = "close" /\ req'[a].token = t
              /\ req'[a].back = IF req[a].op = "purge" THEN "drop" ELSE "each"
           \/ /\ req'[a].at = "each" /\ req[a].op \notin {"sweep", "purge"} /\ ~Evicts(t)
    <3>1. PICK c \in {"each", "close"}, x \in {t, None}, k \in {"each", "drop"} :
            /\ Work(a, c, t, x, k)
            /\ \/ c = "close" /\ x = t /\ k = IF req[a].op = "purge" THEN "drop" ELSE "each"
               \/ c = "each" /\ req[a].op \notin {"sweep", "purge"} /\ ~Evicts(t)
      BY <1>1 DEF Each
    <3>2. req'[a] = [req[a] EXCEPT !.at = c, !.token = x, !.back = k,
                                   !.todo = req[a].todo \ {t}]
      BY <3>1, <1>i DEF Work, TypeOK
    <3>3. /\ req'[a].op = req[a].op /\ req'[a].user = req[a].user
          /\ req'[a].name = req[a].name /\ req'[a].todo = req[a].todo \ {t}
          /\ req'[a].at = c /\ req'[a].token = x /\ req'[a].back = k
      BY <3>2, <1>r DEF Request
    <3> QED
      BY <1>1, <3>1, <3>3 DEF Each
  <2>2. \/ UNCHANGED cache /\ req[a].op \in {"sweep", "purge"}
        \/ /\ cache' = [x \in Tokens |-> IF x \in {t} THEN None ELSE cache[x]]
           /\ req[a].op \notin {"sweep", "purge"}
    BY <1>1 DEF Each, TakeOut
  <2>3. /\ WorksOf(n)' \subseteq WorksOf(n)
        /\ \A x \in WorksOf(n)' : cache'[x] = cache[x]
        /\ req[a].op \notin {"sweep", "purge"} => t \notin WorksOf(n)'
    BY <1>d, <2>2 DEF WorksOf, Works, Known
  <2>4. UsersOf(n)'
    BY <1>d, <1>w, <2>1, OwnUsers DEF Deletes
  <2>5. TokensOf(n)'
    BY <1>d, <1>w, <2>1, <2>3, OwnTokens DEF Deletes
  <2>6. Holds(a, n)'
    <3>1. CASE req[a].op = "sweep"
      BY <1>i, <2>1, <2>3, <3>1 DEF Holds, Ends, Ending
    <3>2. CASE req[a].op = "purge"
      BY <2>1, <3>2 DEF Holds, Ends, Ending
    <3>3. CASE req[a].op \notin {"sweep", "purge"}
      <4>1. Ending(a)' => req'[a].token \notin WorksOf(n)'
        BY <2>1, <2>3, <3>3 DEF Ending
      <4>2. ASSUME Ends(a), req[a].name = n
            PROVE  /\ \A x \in WorksOf(n) : cache[x].user = req[a].user => x \in req[a].todo
                   /\ WebOf(n) \subseteq req[a].todo
        BY <1>i, <1>d, <3>3, <4>2 DEF Holds, Closing
      <4>3. ASSUME ~Evicts(t) PROVE t \notin WebOf(n)
        <5> SUFFICES ASSUME t \in WebOf(n) PROVE FALSE
          OBVIOUS
        <5>1. PICK b \in Actors : Closing(b, t)
          BY <1>i, <1>d, <4>3 DEF LiveLogHasToken, WebOf, Evicts
        <5>2. n \in About(b)
          BY <5>1 DEF Closing, About, WebOf
        <5>3. b # a
          BY <1>d, <3>3, <5>1 DEF Closing
        <5>4. n \notin mixed /\ n \in About(a)
          BY <2>1 DEF About, WebOf, Own, Plain
        <5> QED
          BY <1>i, <5>2, <5>3, <5>4 DEF Orderly, Single
      <4>4. Ends(a)' /\ req'[a].name = n =>
              /\ \A x \in WorksOf(n)' : cache'[x].user = req'[a].user => x \in req'[a].todo
              /\ \A x \in WebOf(n)' : x \in req'[a].todo \/ Closing(a, x)'
        BY <1>w, <2>1, <2>3, <3>3, <4>2, <4>3 DEF Ends, Closing
      <4> QED
        BY <1>d, <1>i, <2>1, <3>3, <4>1, <4>4 DEF Holds, Asked
    <3> QED
      BY <3>1, <3>2, <3>3
  <2> QED
    BY <2>4, <2>5, <2>6, OwnKept
<1>2. CASE EachDone(a)
  <2>1. /\ req[a].todo = {} /\ UNCHANGED cache
        /\ \/ req[a].op = "disable" /\ Goto(a, "status")
           \/ req[a].op # "disable" /\ Over(a)
    BY <1>2 DEF EachDone
  <2>2. WorksOf(n)' = WorksOf(n)
    BY <1>d, <2>1 DEF WorksOf, Works, Known
  <2>3. Deletes(a) /\ req[a].name = n =>
           WebOf(n) = {} /\ \A t \in WorksOf(n) : cache[t].user # req[a].user
    BY <1>i, <1>d, <2>1 DEF Holds, Deletes, Ends, Closing
  <2>4. UsersOf(n)'
    BY <1>d, <1>w, <2>3, OwnUsers
  <2>5. TokensOf(n)'
    BY <1>d, <1>w, <2>1, <2>2, <2>3, OwnTokens
  <2>6. Holds(a, n)'
    <3>1. CASE Over(a)
      BY <1>i, <3>1, OverHolds
    <3>2. CASE Goto(a, "status") /\ req[a].op = "disable"
      <4>1. /\ req'[a].at = "status" /\ req'[a].op = "disable" /\ req'[a].user = req[a].user
            /\ req'[a].name = req[a].name /\ req'[a].todo = req[a].todo
        BY <1>i, <3>2, GotoFields
      <4> QED
        BY <1>i, <1>d, <1>w, <2>1, <2>2, <3>2, <4>1 DEF Holds, Ends, Ending, Closing
    <3> QED
      BY <2>1, <3>1, <3>2
  <2> QED
    BY <2>4, <2>5, <2>6, OwnKept
<1> QED
  BY <1>1, <1>2

\* Who disables or deletes a user keeps its name in order.
LEMMA OwnStatus ==
    ASSUME Orderly', NEW a \in Actors, NEW n \in Names, Own(a, n), Status(a) \/ Erase(a)
    PROVE  InOrder(n)'
<1> USE LoginAssumption
<1>i. /\ Orderly /\ n \notin moved /\ Holds(a, n) /\ UsersOf(n) /\ Sole(a, n)
      /\ TypeOK /\ RequestOK(a) /\ Asked(a)
  BY DEF Own, Plain, Orderly, LoginInv
<1>r. \A u \in Users : user[u] \in User
  BY <1>i DEF TypeOK
<1>o. /\ \A t \in WorksOf(n) : cache[t].user \in Users
      /\ req[a].op \in {"disable", "delete"}
      /\ req[a].user \in Users /\ (req[a].name = n <=> user[req[a].user].name = n)
  <2>1. req[a].op \in {"disable", "delete"}
    BY <1>i DEF Status, Erase, At, Asked
  <2> QED
    BY <1>i, <2>1, Owners
<1>d. /\ UNCHANGED <<log, cache, phase>> /\ phase = "up" /\ req[a].at \in {"erase", "status"}
      /\ \A t : ~Dropping(a, t)
  BY DEF Status, Erase, SetStatus, At, Dropping
<1>w. WebOf(n)' = WebOf(n) /\ WorksOf(n)' = WorksOf(n)
  BY <1>d DEF WebOf, Web, WorksOf, Works, Known
<1>k. WorksOf(n) \subseteq WebOf(n)
  BY <1>i, <1>d DEF Sole
<1>n. \A u \in Users : u # req[a].user => user'[u] = user[u]
  BY <1>i DEF Status, Erase, SetStatus, TypeOK
<1>1. CASE Status(a)
  <2>1. /\ req[a].at = "status" /\ req[a].op = "disable" /\ req[a].todo = {} /\ Over(a)
    BY <1>1, <1>i DEF Status, At, Asked
  <2>2. Holds(a, n)' /\ ~Deletes(a)
    BY <1>i, <2>1, OverHolds DEF Deletes
  <2>3. req[a].name = n => WebOf(n) = {}
    BY <1>i, <2>1 DEF Holds, Ends, Closing
  <2>4. \A u \in Users : /\ user'[u].name = user[u].name /\ user'[u].online = user[u].online
                         /\ Exists(u)' <=> Exists(u)
    BY <1>1, <1>r DEF Status, SetStatus, Exists, TypeOK, User
  <2>5. Named(n)' = Named(n)
    BY <2>4 DEF Named
  <2>6. UsersOf(n)'
    <3>1. ASSUME NEW u \in Users, user'[u].name = n, user'[u].status = "disabled"
          PROVE  WebOf(n) = {}
      <4>1. CASE u = req[a].user
        BY <1>o, <2>3, <2>4, <3>1, <4>1
      <4>2. CASE u # req[a].user
        BY <1>i, <1>n, <3>1, <4>2 DEF UsersOf
      <4> QED
        BY <4>1, <4>2
    <3>2. ~(Named(n) = {} /\ WebOf(n) # {})
      BY <1>i, <2>2 DEF Sole
    <3> QED
      BY <1>i, <1>w, <2>4, <2>5, <3>1, <3>2 DEF UsersOf, Named
  <2>7. TokensOf(n)'
    <3>1. ASSUME NEW t \in WorksOf(n)
          PROVE  t \in WebOf(n)' /\ user'[cache[t].user].status = "enabled"
      <4>1. user[cache[t].user].status = "enabled" /\ t \in WebOf(n)
        BY <1>i, <1>k, <2>2, <3>1 DEF Sole
      <4>2. cache[t].user # req[a].user
        BY <1>i, <1>o, <2>3, <3>1, <4>1, Owners
      <4> QED
        BY <1>n, <1>o, <1>w, <4>1, <4>2
    <3> QED
      BY <1>d, <1>w, <3>1 DEF TokensOf
  <2> QED
    BY <2>2, <2>6, <2>7, OwnKept
<1>2. CASE Erase(a)
  <2>1. /\ req[a].at = "erase" /\ req[a].op = "delete"
        /\ req'[a].at = "each" /\ req'[a].op = "delete" /\ req'[a].user = req[a].user
        /\ req'[a].name = req[a].name /\ req'[a].todo = req[a].todo
    BY <1>2, <1>i, GotoFields DEF Erase, At, Asked
  <2>2. Deletes(a) /\ Deletes(a)'
    BY <2>1 DEF Deletes
  <2>3. Holds(a, n)'
    BY <1>i, <1>d, <1>w, <2>1 DEF Holds, Ends, Ending, Closing
  <2>4. /\ user'[req[a].user].name = user[req[a].user].name
        /\ Exists(req[a].user) => user'[req[a].user].status = "deleted"
        /\ ~Exists(req[a].user) => user'[req[a].user] = user[req[a].user]
    BY <1>2, <1>r, <1>o, <1>i DEF Erase, SetStatus, TypeOK, User
  <2>5. Named(n)' = Named(n) \ {req[a].user}
    BY <1>n, <1>o, <2>4 DEF Named, Exists
  <2>6. UsersOf(n)'
    <3>1. ASSUME NEW u \in Users, user'[u].name = n, user'[u].status = "disabled"
          PROVE  WebOf(n) = {}
      <4>1. user'[u] = user[u]
        BY <1>n, <2>4, <3>1
      <4> QED
        BY <1>i, <3>1, <4>1 DEF UsersOf
    <3>2. ASSUME Named(n)' = {}, WebOf(n) # {} PROVE req[a].name = n
      <4>1. CASE Named(n) = {}
        BY <1>i, <3>2, <4>1 DEF Sole
      <4>2. CASE req[a].user \in Named(n)
        BY <1>o, <4>2 DEF Named
      <4> QED
        BY <2>5, <3>2, <4>1, <4>2
    <3>3. \A u \in Named(n)' : u \in Named(n) /\ user'[u] = user[u]
      BY <1>n, <2>5 DEF Named
    <3> QED
      BY <1>i, <1>w, <2>1, <2>2, <3>1, <3>2, <3>3 DEF UsersOf
  <2>7. TokensOf(n)'
    <3>1. ASSUME NEW t \in WorksOf(n)
          PROVE  /\ t \in WebOf(n)'
                 /\ \/ user'[cache[t].user].status = "enabled"
                    \/ /\ user'[cache[t].user].status = "deleted"
                       /\ req[a].user = cache[t].user
      <4>1. /\ \/ user[cache[t].user].status = "enabled"
               \/ user[cache[t].user].status = "deleted" /\ req[a].user = cache[t].user
            /\ cache[t].user \in Users /\ t \in WebOf(n)'
        BY <1>i, <1>o, <1>k, <1>w, <3>1 DEF Sole
      <4> QED
        BY <1>n, <2>4, <4>1 DEF Exists
    <3> QED
      BY <1>d, <1>w, <2>1, <2>2, <3>1 DEF TokensOf
  <2> QED
    BY <2>3, <2>6, <2>7, OwnKept
<1> QED
  BY <1>1, <1>2
\* A request that goes back holds what it did.
LEMMA BackHolds ==
    ASSUME NEW a \in Actors, NEW n \in Names, Own(a, n), GoBack(a), UNCHANGED <<log, cache>>,
           req[a].at \in {"close", "count", "offline"},
           req[a].at = "close" => req[a].back # "drop" /\ req[a].token \notin WebOf(n)
    PROVE  Holds(a, n)' /\ \A t : Dropping(a, t) => Dropping(a, t)'
<1>i. Holds(a, n) /\ TypeOK /\ RequestOK(a) /\ Asked(a)
  BY DEF Own, Orderly, LoginInv
<1>1. /\ req'[a].op = req[a].op /\ req'[a].user = req[a].user
      /\ req'[a].name = req[a].name /\ req'[a].todo = req[a].todo
      /\ req'[a].back = req[a].back /\ req'[a].at = req[a].back
      /\ req[a].back # "each" => req'[a].token = req[a].token
  BY <1>i, BackFields
<1>2. req[a].back \in {"each", "drop", "row"}
  BY <1>i DEF TypeOK, Request
<1>3. WebOf(n)' = WebOf(n) /\ WorksOf(n)' = WorksOf(n)
  BY DEF WebOf, Web, WorksOf, Works, Known
<1>4. req[a].op # "login" /\ (req[a].back # "each" => req[a].op = "purge")
  BY <1>i DEF Asked
<1>5. Ending(a)' => req'[a].token \notin WorksOf(n)'
  BY <1>i, <1>1, <1>2, <1>3 DEF Holds, Ending
<1>6. Ends(a)' /\ req'[a].name = n =>
         /\ \A t \in WorksOf(n)' : cache'[t].user = req'[a].user => t \in req'[a].todo
         /\ \A t \in WebOf(n)' : t \in req'[a].todo \/ Closing(a, t)'
  BY <1>i, <1>1, <1>3 DEF Holds, Ends, Closing
<1>7. req'[a].op = "sweep" => req'[a].todo \cap WorksOf(n)' = {}
  BY <1>i, <1>1, <1>3 DEF Holds
<1>8. Holds(a, n)'
  BY <1>1, <1>2, <1>4, <1>5, <1>6, <1>7 DEF Holds
<1> QED
  BY <1>1, <1>8 DEF Dropping

\* The end of a token keeps the name of its log in order.
LEMMA OwnClose ==
    ASSUME Orderly', NEW a \in Actors, NEW n \in Names, Own(a, n), Close(a)
    PROVE  InOrder(n)'
<1> USE LoginAssumption
<1>i. /\ Holds(a, n) /\ UsersOf(n) /\ Sole(a, n) /\ TypeOK /\ RequestOK(a) /\ Asked(a)
  BY DEF Own, Plain, Orderly, LoginInv
<1>r. /\ req[a] \in Request /\ \A t \in Tokens : log[t] \in Log
  BY <1>i DEF TypeOK
<1>d. /\ UNCHANGED <<user, cache>> /\ req[a].at = "close" /\ req[a].op # "login"
      /\ req[a].token \in Tokens /\ \A t : ~Dropping(a, t)
  BY <1>i, <1>r DEF Close, At, RequestOK, Asked, Dropping, Request
<1>e. req[a].back # "drop" => req[a].token \notin WorksOf(n)
  BY <1>i, <1>d DEF Holds, Ending
<1>1. CASE log[req[a].token].state \in {"alive", "closed"}
  <2>1. /\ log'[req[a].token] = [log[req[a].token] EXCEPT !.state = "closed"]
        /\ \A t \in Tokens : t # req[a].token => log'[t] = log[t]
        /\ Goto(a, "count")
    BY <1>1, <1>d, <1>i DEF Close, TypeOK
  <2>2. /\ log'[req[a].token].state = "closed"
        /\ \A t \in Tokens : log'[t].name = log[t].name /\ log'[t].kind = log[t].kind
    BY <2>1, <1>d, <1>r DEF Log
  <2>3. WebOf(n)' = WebOf(n) \ {req[a].token}
    BY <2>1, <2>2 DEF WebOf, Web
  <2>4. WorksOf(n)' = WorksOf(n)
    BY <1>1, <1>d, <2>1, <2>2 DEF WorksOf, Works, Known
  <2>5. /\ req'[a].at = "count" /\ req'[a].op = req[a].op /\ req'[a].user = req[a].user
        /\ req'[a].name = req[a].name /\ req'[a].token = req[a].token
        /\ req'[a].todo = req[a].todo /\ req'[a].back = req[a].back
    BY <1>i, <2>1, GotoFields
  <2>6. UsersOf(n)'
    BY <1>d, <2>3, <2>5, OwnUsers DEF Deletes
  <2>7. \A t \in WorksOf(n) : t \in WebOf(n) => t \in WebOf(n)' \/ Dropping(a, t)'
    BY <1>e, <2>3, <2>5 DEF Dropping
  <2>8. TokensOf(n)'
    BY <1>d, <2>4, <2>5, <2>7, OwnTokens DEF Deletes
  <2>9. Holds(a, n)'
    <3>1. Ending(a)' => req'[a].token \notin WorksOf(n)'
      BY <1>e, <2>4, <2>5 DEF Ending
    <3>2. Ends(a)' /\ req'[a].name = n =>
            /\ \A t \in WorksOf(n)' : cache'[t].user = req'[a].user => t \in req'[a].todo
            /\ \A t \in WebOf(n)' : t \in req'[a].todo \/ Closing(a, t)'
      BY <1>i, <1>d, <2>3, <2>4, <2>5 DEF Holds, Ends, Closing
    <3>3. req'[a].op = "sweep" => req'[a].todo \cap WorksOf(n)' = {}
      BY <1>i, <2>4, <2>5 DEF Holds
    <3> QED
      BY <1>d, <2>5, <3>1, <3>2, <3>3 DEF Holds
  <2> QED
    BY <2>6, <2>8, <2>9, OwnKept
<1>2. CASE log[req[a].token].state \notin {"alive", "closed"}
  <2>1. /\ UNCHANGED log
        /\ \/ req[a].back = "drop" /\ Over(a)
           \/ req[a].back # "drop" /\ GoBack(a)
    BY <1>2 DEF Close
  <2>2. WebOf(n)' = WebOf(n) /\ WorksOf(n)' = WorksOf(n)
    BY <1>d, <2>1 DEF WebOf, Web, WorksOf, Works, Known
  <2>3. req[a].token \notin WebOf(n)
    BY <1>2 DEF WebOf, Web
  <2>4. CASE req[a].back = "drop" /\ Over(a)
    <3>1. ~Deletes(a) /\ Holds(a, n)'
      BY <1>i, <2>4, OverHolds DEF Asked, Deletes, Own
    <3>2. UsersOf(n)' /\ TokensOf(n)'
      BY <1>d, <2>2, <3>1, OwnUsers, OwnTokens
    <3> QED
      BY <3>1, <3>2, OwnKept
  <2>5. CASE req[a].back # "drop" /\ GoBack(a)
    <3>1. Holds(a, n)'
      BY <1>d, <2>1, <2>3, <2>5, BackHolds
    <3>2. req'[a].op = req[a].op /\ req'[a].user = req[a].user /\ req'[a].name = req[a].name
      BY <1>i, <2>5, BackFields
    <3>3. UsersOf(n)'
      BY <1>d, <2>2, <3>2, OwnUsers DEF Deletes
    <3>4. TokensOf(n)'
      BY <1>d, <2>2, <3>2, OwnTokens DEF Deletes
    <3> QED
      BY <3>1, <3>3, <3>4, OwnKept
  <2> QED
    BY <2>1, <2>4, <2>5
<1> QED
  BY <1>1, <1>2

\* Who counts the logs that are left, and marks the user offline if none is, keeps the
\* name in order.
LEMMA OwnOffline ==
    ASSUME Orderly', NEW a \in Actors, NEW n \in Names, Own(a, n), Count(a) \/ Offline(a)
    PROVE  InOrder(n)'
<1> USE LoginAssumption
<1>i. /\ Holds(a, n) /\ UsersOf(n) /\ Sole(a, n) /\ TypeOK /\ RequestOK(a) /\ Asked(a)
  BY DEF Own, Plain, Orderly, LoginInv
<1>r. /\ req[a] \in Request /\ \A u \in Users : user[u] \in User
  BY <1>i DEF TypeOK
<1>d. /\ UNCHANGED <<log, cache>> /\ req[a].at \in {"count", "offline"}
      /\ req[a].op # "login"
  BY <1>i DEF Count, Offline, At, Asked
<1>w. WebOf(n)' = WebOf(n) /\ WorksOf(n)' = WorksOf(n)
  BY <1>d DEF WebOf, Web, WorksOf, Works, Known
<1>u. \A u \in Users :
         /\ user'[u].status = user[u].status
         /\ user[u].name = n => user'[u].online = user[u].online \/ WebOf(n) = {}
  <2>1. CASE Count(a)
    BY <2>1 DEF Count
  <2>2. CASE Offline(a)
    <3>1. req[a].at = "offline"
      BY <2>2 DEF Offline, At
    <3>2. Closed(a) = n => WebOf(n) = {}
      BY <1>i, <3>1 DEF Holds
    <3> QED
      BY <1>r, <2>2, <3>2 DEF Offline, User
  <2> QED
    BY <2>1, <2>2
<1>1. ASSUME req'[a].op = req[a].op, req'[a].user = req[a].user, req'[a].name = req[a].name,
             Holds(a, n)', \A t : Dropping(a, t) => Dropping(a, t)'
      PROVE  InOrder(n)'
  <2>1. UsersOf(n)'
    BY <1>u, <1>w, <1>1, OwnUsers DEF Deletes, Named
  <2>2. TokensOf(n)'
    BY <1>d, <1>u, <1>w, <1>1, OwnTokens DEF Deletes
  <2> QED
    BY <1>1, <2>1, <2>2, OwnKept
<1>2. CASE GoBack(a)
  <2>1. Holds(a, n)' /\ \A t : Dropping(a, t) => Dropping(a, t)'
    BY <1>d, <1>2, BackHolds
  <2>2. req'[a].op = req[a].op /\ req'[a].user = req[a].user /\ req'[a].name = req[a].name
    BY <1>i, <1>2, BackFields
  <2> QED
    BY <1>1, <2>1, <2>2
<1>3. CASE Goto(a, "offline") /\ NoneLeft(a) /\ req[a].at = "count"
  <2>1. /\ req'[a].at = "offline" /\ req'[a].op = req[a].op /\ req'[a].user = req[a].user
        /\ req'[a].name = req[a].name /\ req'[a].token = req[a].token
        /\ req'[a].todo = req[a].todo /\ req'[a].back = req[a].back
    BY <1>i, <1>3, GotoFields
  <2>2. Closed(a)' = n => WebOf(n)' = {}
    <3>1. Closed(a)' = Closed(a)
      BY <1>d, <2>1 DEF Closed
    <3>2. WebOf(n) \subseteq Alive(n)
      BY DEF WebOf, Web, Alive
    <3> QED
      BY <1>3, <1>w, <3>1, <3>2 DEF NoneLeft
  <2>3. Ending(a)' => req'[a].token \notin WorksOf(n)'
    BY <1>i, <1>3, <1>w, <2>1 DEF Holds, Ending
  <2>4. Ends(a)' /\ req'[a].name = n =>
          /\ \A t \in WorksOf(n)' : cache'[t].user = req'[a].user => t \in req'[a].todo
          /\ \A t \in WebOf(n)' : t \in req'[a].todo \/ Closing(a, t)'
    BY <1>i, <1>3, <1>d, <1>w, <2>1 DEF Holds, Ends, Closing
  <2>5. req'[a].op = "sweep" => req'[a].todo \cap WorksOf(n)' = {}
    BY <1>i, <1>w, <2>1 DEF Holds
  <2>6. Holds(a, n)'
    BY <1>d, <2>1, <2>2, <2>3, <2>4, <2>5 DEF Holds
  <2>7. \A t : Dropping(a, t) => Dropping(a, t)'
    BY <2>1 DEF Dropping
  <2> QED
    BY <1>1, <2>1, <2>6, <2>7
<1> QED
  BY <1>2, <1>3 DEF Count, Offline, At

\* Who deletes a log keeps its name in order.
LEMMA OwnDrop ==
    ASSUME Orderly', NEW a \in Actors, NEW n \in Names, Own(a, n), Drop(a) \/ Row(a)
    PROVE  InOrder(n)'
<1> USE LoginAssumption
<1>i. /\ Holds(a, n) /\ UsersOf(n) /\ Sole(a, n) /\ TypeOK /\ RequestOK(a) /\ Asked(a)
  BY DEF Own, Plain, Orderly, LoginInv
<1>r. /\ req[a] \in Request /\ \A t \in Tokens : log[t] \in Log
  BY <1>i DEF TypeOK
<1>d. /\ UNCHANGED user /\ req[a].op = "purge" /\ ~Deletes(a) /\ req[a].token \in Tokens
      /\ log[req[a].token].state \notin {"alive", "none"}
  BY <1>i, <1>r DEF Drop, Row, At, Asked, Deletes, RequestOK, Request, Saved
<1>1. CASE Drop(a)
  <2>1. /\ UNCHANGED log /\ req[a].at = "drop"
        /\ cache' = [x \in Tokens |-> IF x \in {req[a].token} THEN None ELSE cache[x]]
    BY <1>1 DEF Drop, At, TakeOut
  <2>2. WebOf(n)' = WebOf(n)
    BY <2>1 DEF WebOf, Web
  <2>3. /\ WorksOf(n)' \subseteq WorksOf(n) /\ req[a].token \notin WorksOf(n)'
        /\ \A t \in WorksOf(n)' : cache'[t] = cache[t] /\ ~Dropping(a, t)
    BY <2>1 DEF WorksOf, Works, Known, Dropping
  <2>4. req'[a].op = req[a].op /\ req'[a].token = req[a].token /\ req'[a].at \in {"close", "row"}
    <3>1. CASE req' = [req EXCEPT ![a] = [@ EXCEPT !.at = "close", !.back = "row"]]
      <4>1. req'[a] = [req[a] EXCEPT !.at = "close", !.back = "row"]
        BY <1>i, <3>1 DEF TypeOK
      <4> QED
        BY <1>r, <4>1 DEF Request
    <3>2. CASE Goto(a, "row")
      BY <1>i, <3>2, GotoFields
    <3> QED
      BY <1>1, <3>1, <3>2 DEF Drop
  <2>5. UsersOf(n)'
    BY <1>d, <2>2, OwnUsers
  <2>6. TokensOf(n)'
    BY <1>d, <2>2, <2>3, OwnTokens
  <2>7. Holds(a, n)'
    BY <1>d, <2>3, <2>4 DEF Holds, Ends, Ending
  <2> QED
    BY <2>5, <2>6, <2>7, OwnKept
<1>2. CASE Row(a)
  <2>1. /\ UNCHANGED cache /\ req[a].at = "row"
        /\ log'[req[a].token] = [log[req[a].token] EXCEPT !.state = "deleted"]
        /\ \A t \in Tokens : t # req[a].token => log'[t] = log[t]
    BY <1>2, <1>d, <1>i DEF Row, DeleteRow, At, TypeOK
  <2>2. /\ log'[req[a].token].state = "deleted"
        /\ log'[req[a].token].name = log[req[a].token].name
        /\ log'[req[a].token].kind = log[req[a].token].kind
    BY <1>d, <1>r, <2>1 DEF Log
  <2>3. WebOf(n)' = WebOf(n) /\ WorksOf(n)' = WorksOf(n)
    <3>1. \A t \in Tokens : /\ (Web(t)' <=> Web(t)) /\ (Known(t)' <=> Known(t))
                            /\ log'[t].name = log[t].name
      BY <1>d, <2>1, <2>2 DEF Web, Known
    <3> QED
      BY <2>1, <3>1 DEF WebOf, WorksOf, Works
  <2>4. \A t : ~Dropping(a, t)
    BY <2>1 DEF Dropping
  <2>5. req'[a].op = req[a].op /\ req'[a].at = "each"
    <3>1. req'[a] = [req[a] EXCEPT !.at = "each", !.token = None, !.back = "each"]
      BY <1>2, <1>i DEF Row, TypeOK
    <3> QED
      BY <1>r, <3>1 DEF Request
  <2>6. UsersOf(n)'
    BY <1>d, <2>3, OwnUsers
  <2>7. TokensOf(n)'
    BY <1>d, <2>1, <2>3, <2>4, OwnTokens
  <2>8. Holds(a, n)'
    BY <1>d, <2>5 DEF Holds, Ends, Ending
  <2> QED
    BY <2>6, <2>7, <2>8, OwnKept
<1> QED
  BY <1>1, <1>2

\* What names are mixed or moved is never forgotten.
LEMMA Remembered ==
    ASSUME TypeOK, Next
    PROVE  mixed \subseteq mixed' /\ moved \subseteq moved'
<1>1. ASSUME NEW a \in Actors, Asks(a) \/ Refused(a) \/ Step(a)
      PROVE  mixed \subseteq mixed' /\ moved \subseteq moved'
  BY <1>1 DEF Asks, Disable, DeleteUser, FindUser, Call, DeleteLoginLogs, Sweep, Begin, Mix,
     Refused, Step, LoginSuccess, SaveLoginLog, Refresh, Each, EachDone, Status, Erase,
     SetStatus, Close, Count, Offline, Drop, Row, history
<1>2. CASE Others \/ Server
  BY <1>2 DEF Others, Server, Enable,
     CreateUser, RestoreUser, NewUser, UpdateUser, TerminalLogin, Expire,
     DeleteOutTime, Crash, FixUserOnlineState, ReloadToken, Mix, history
<1> QED
  BY <1>1, <1>2 DEF Next

\* A name no two requests about which have overlapped, and no user gave up, is in order.
LEMMA AloneKept == AloneInv /\ [Next]_vars => AloneInv'
<1> SUFFICES ASSUME AloneInv, [Next]_vars PROVE AloneInv'
  OBVIOUS
<1>1. Orderly /\ LoginInv'
  BY NextInv DEF AloneInv, Orderly
<1>2. CASE UNCHANGED vars
  <2> USE DEF vars, history
  <2>1. \A a \in Actors : (Asked(a)' <=> Asked(a)) /\ About(a)' = About(a)
    BY <1>2 DEF Asked, About, Matches, Known
  <2>2. Honest' <=> Honest
    BY <1>2 DEF Honest, Matches, Works, Known, Saved
  <2>3. Single'
    BY <1>2, <2>1 DEF AloneInv, Single
  <2>4. ASSUME NEW n \in Names, Plain(n)' PROVE InOrder(n)'
    <3>1. Plain(n) /\ Spares(n)
      BY <1>2, <2>1, <2>4 DEF Plain, Spares, WebOf, Web, WorksOf, Works, Known
    <3>2. Orderly'
      BY <1>1, <2>1, <2>2, <2>3 DEF Orderly
    <3> QED
      BY <1>1, <3>1, <3>2, SparesKept DEF AloneInv
  <2> QED
    BY <1>1, <2>1, <2>2, <2>3, <2>4 DEF AloneInv
<1>3. CASE Next
  <2>1. Orderly'
    BY <1>1, <1>3, OrderlyKept
  <2>t. TypeOK /\ Honest /\ \A a \in Actors : RequestOK(a) /\ Asked(a)
    BY <1>1 DEF Orderly, LoginInv
  <2>2. ASSUME NEW n \in Names, Plain(n)' PROVE InOrder(n)'
    <3>1. Plain(n) /\ InOrder(n)
      BY <1>3, <2>2, <2>t, Remembered DEF Plain, AloneInv
    <3>2. ASSUME NEW a \in Actors, Asks(a) PROVE InOrder(n)'
      <4>1. Begins(a)
        BY <2>t, <3>2, AskBegins
      <4>2. CASE n \in About(a)'
        BY <1>1, <2>1, <2>2, <3>1, <3>2, <4>1, <4>2, BeginsInOrder
      <4>3. CASE n \notin About(a)'
        BY <1>1, <2>1, <3>1, <4>1, <4>3, BeginsSpares, SparesKept
      <4> QED
        BY <4>2, <4>3
    <3>3. ASSUME NEW a \in Actors, Step(a) \/ Refused(a) PROVE InOrder(n)'
      <4>1. Touches(a)
        BY <2>t, <3>3, StepTouches
      <4>2. CASE n \in About(a)
        <5>1. Own(a, n)
          BY <1>1, <2>1, <3>1, <4>1, <4>2, SoleOwn
        <5> QED
          BY <2>1, <3>3, <5>1, OwnLogin, OwnEach, OwnStatus, OwnClose, OwnOffline, OwnDrop
          DEF Step
      <4>3. CASE n \notin About(a)
        BY <1>1, <2>1, <3>1, <4>1, <4>3, TouchesSpares, SparesKept DEF Plain
      <4> QED
        BY <4>2, <4>3
    <3>4. CASE Others
      <4>1. Apart
        BY <2>t, <3>4, OtherGlobals
      <4> QED
        BY <1>1, <2>1, <2>2, <3>1, <3>4, <4>1, OthersInOrder
    <3>5. CASE Server
      BY <1>1, <2>1, <3>1, <3>5, ServerInOrder
    <3> QED
      BY <1>3, <3>2, <3>3, <3>4, <3>5 DEF Next
  <2> QED
    BY <2>1, <2>2 DEF Orderly, AloneInv
<1> QED
  BY <1>2, <1>3

\* At first there is nobody and nothing.
LEMMA AloneAtFirst == Init => AloneInv
<1> SUFFICES ASSUME Init PROVE AloneInv
  OBVIOUS
<1> USE LoginAssumption
<1>1. LoginInv
  BY InitInv
<1>2. /\ \A u \in Users : user[u].status = "absent" /\ user[u].name = None
      /\ \A t \in Tokens : log[t].state = "none" /\ log[t].name = None /\ cache[t] = None
      /\ \A a \in Actors : req[a] = NoRequest
  BY DEF Init
<1>3. Honest /\ \A a \in Actors : Asked(a) /\ About(a) = {None}
  BY <1>2 DEF Honest, Saved, Works, Asked, About, NoRequest
<1>4. Single
  BY <1>3 DEF Single
<1>5. ASSUME NEW n \in Names PROVE InOrder(n)
  <2>1. Named(n) = {} /\ WebOf(n) = {} /\ WorksOf(n) = {}
    BY <1>2 DEF Named, Exists, WebOf, Web, WorksOf, Works
  <2>2. UsersOf(n) /\ TokensOf(n)
    BY <2>1 DEF UsersOf, TokensOf
  <2>3. \A a \in Actors : Holds(a, n)
    BY <1>2, <2>1 DEF Holds, Ends, Ending, NoRequest
  <2> QED
    BY <2>2, <2>3 DEF InOrder
<1> QED
  BY <1>1, <1>3, <1>4, <1>5 DEF AloneInv

\* The name of a login is in order as long as it is plain.
THEOREM NamesInOrder == Spec => []AloneInv
<1> QED
  BY AloneAtFirst, AloneKept, PTL DEF Spec

\* A user who is logged in with a browser is shown as online, if no two requests about the
\* user have ever overlapped: the count of the logs that are alive, made by each logout on
\* its own, marks nobody offline who has another login.
THEOREM LoggedInOnline == Spec => []LoggedInIsOnline
<1>1. AloneInv => LoggedInIsOnline
  <2> SUFFICES ASSUME AloneInv, NEW u \in Users, Exists(u),
                      user[u].name \notin mixed \cup moved,
                      \E t \in Alive(user[u].name) : Web(t)
               PROVE  user[u].online
    BY DEF LoggedInIsOnline
  <2>1. user[u].name \in Names
    BY DEF AloneInv, Honest, Exists
  <2>2. UsersOf(user[u].name)
    BY <2>1 DEF AloneInv, Plain, InOrder
  <2>3. u \in Named(user[u].name) /\ WebOf(user[u].name) # {}
    BY DEF Named, WebOf, Alive
  <2> QED
    BY <2>2, <2>3 DEF UsersOf
<1> QED
  BY <1>1, NamesInOrder, PTL

\* A user who was disabled or deleted alone, and kept the name, has no token that works:
\* the tokens of a user are looked for in the logs of its name, and none escapes.
THEOREM DisabledOffline == Spec => []DisabledIsOffline
<1>1. AloneInv => DisabledIsOffline
  <2> SUFFICES ASSUME AloneInv, phase = "up", NEW u \in Users, EndedAlone(u),
                      user[u].name \notin moved,
                      NEW t \in Tokens, Works(t), cache[t].user = u
               PROVE  FALSE
    BY DEF DisabledIsOffline, Out
  <2> DEFINE n == user[u].name
  <2>1. n \in Names /\ n \notin mixed /\ \A a \in Actors : n \notin About(a)
    BY DEF AloneInv, Honest, EndedAlone
  <2>2. Orderly /\ InOrder(n)
    BY <2>1 DEF AloneInv, Orderly, Plain
  <2>3. log[t].name = n
    BY DEF AloneInv, Honest, Matches
  <2>4. t \in WorksOf(n)
    BY <2>3 DEF WorksOf
  <2>5. user[cache[t].user].status = "enabled"
    BY <2>1, <2>2, <2>4, Resting
  <2> QED
    BY <2>5 DEF EndedAlone
<1> QED
  BY <1>1, NamesInOrder, PTL
=============================================================================
