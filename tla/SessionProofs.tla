--------------------------- MODULE SessionProofs ---------------------------
(* Theorems about Session.                                                 *)
EXTENDS Session, TLAPS

-----------------------------------------------------------------------------
(* Type correctness, for every instance.                                   *)

TypeInv == TypeOK /\ Engaged

\* The invariant holds at first.
LEMMA TypeInit == Init => TypeInv
BY BoundsAssumption DEF Init, TypeInv, TypeOK, Engaged, Statuses

\* Taking the mutex leaves everything well typed.
LEMMA TypeTake ==
    ASSUME TypeInv, NEW k \in {"main", "winCh", "admin", "monitor"},
           NEW id, NEW s \in Sessions, Take(k, id, s),
           k = "main" => id \in Conns /\ pc[id] # "idle",
           k = "winCh" => id \in Conns /\ winCh[id] # "off",
           k = "admin" => id \in Admins /\ adm[id] # "idle",
           k = "monitor" => id \in Monitors /\ mon[id] # "idle"
    PROVE  TypeInv'
<1> USE DEF Take, Close, TypeInv, TypeOK, Engaged, db, conn, force, clean, host
<1>1. /\ mon' \in [Monitors -> {"idle", "checked", "holding", "watching",
                                "closing", "done", "failed"}]
      /\ \A m \in Monitors : mon'[m] = "idle" <=> mon[m] = "idle"
  BY DEF Kick
<1>2. /\ backend' \in [Conns -> {"none", "open", "closed"}]
      /\ peer' \in [Conns -> {"open", "closed"}]
  <2>1. CASE entry[s] = NoOne
    BY <2>1
  <2>2. CASE entry[s] # NoOne
    <3>1. /\ backend' = [backend EXCEPT ![entry[s]] = "closed"]
          /\ peer' = IF entry[s] \in Web
                     THEN [peer EXCEPT ![entry[s]] = "closed"] ELSE peer
      BY <2>2
    <3> QED
      BY <3>1
  <2> QED
    BY <2>1, <2>2
<1> QED
  BY <1>1, <1>2

\* A close message or a pong that panics: one caller is lost, which was on its
\* way to close a session or had one that another is about to close.  The mutex is
\* free, and neither the manager, a backend nor a row has changed.
LEMMA Panics ==
    ASSUME TypeInv, CloseMessagePanics \/ \E c \in Conns : PongPanics(c)
    PROVE  /\ UNCHANGED <<row, dated, secret, entry, sess, backend, post, winCh,
                          admS, admSaw, monS, monOf, display, lock, doomed,
                          sweeps, up, crashes>>
           /\ peer' \in [Conns -> {"open", "closed"}]
           /\ mutex = "free"
           /\ \/ /\ \E c \in Web :
                       /\ pc[c] \in {"serving", "breaking", "closing"}
                       /\ entry[sess[c]] # NoOne
                       /\ pc' = [pc EXCEPT ![c] = "panicked"]
                 /\ UNCHANGED <<adm, mon>>
              \/ /\ \E a \in Admins :
                       adm[a] = "asked" /\ adm' = [adm EXCEPT ![a] = "failed"]
                 /\ UNCHANGED <<pc, mon>>
              \/ /\ \E m \in Monitors :
                       mon[m] = "closing" /\ mon' = [mon EXCEPT ![m] = "failed"]
                 /\ UNCHANGED <<pc, adm>>
<1> USE DEF TypeInv, TypeOK, GiveUp, Goto, db, clean, host
<1>1. CASE CloseMessagePanics
  <2>1. /\ UNCHANGED <<row, dated, secret, entry, sess, backend, post, winCh,
                       admS, admSaw, monS, monOf, display, lock, doomed, sweeps,
                       up, crashes>>
        /\ mutex = "free"
    BY <1>1 DEF CloseMessagePanics
  <2>2. ASSUME NEW c \in Web, pc[c] \in {"breaking", "closing"}, Busy(sess[c])
        PROVE  entry[sess[c]] # NoOne
    BY <2>2, KindsAssumption DEF Busy, Web, Conns
  <2>3. peer' \in [Conns -> {"open", "closed"}]
    BY <1>1 DEF CloseMessagePanics
  <2>4. CASE /\ \E c \in Web : /\ pc[c] \in {"breaking", "closing"}
                             /\ Busy(sess[c])
                             /\ GiveUp(c, "panicked")
             /\ UNCHANGED <<adm, mon>>
    BY <2>1, <2>2, <2>3, <2>4
  <2>5. CASE /\ \E a \in Admins : /\ adm[a] = "asked"
                                /\ Busy(admS[a])
                                /\ adm' = [adm EXCEPT ![a] = "failed"]
             /\ UNCHANGED <<pc, peer, mon>>
    BY <2>1, <2>3, <2>5
  <2>6. CASE /\ \E m \in Monitors : /\ mon[m] = "closing"
                                  /\ Busy(monS[m])
                                  /\ mon' = [mon EXCEPT ![m] = "failed"]
             /\ UNCHANGED <<pc, peer, adm>>
    BY <2>1, <2>3, <2>6
  <2> QED
    BY <1>1, <2>4, <2>5, <2>6 DEF CloseMessagePanics
<1>2. ASSUME NEW c \in Conns, PongPanics(c)
      PROVE  /\ UNCHANGED <<row, dated, secret, entry, sess, backend, post, winCh,
                            adm, admS, admSaw, mon, monS, monOf, display, lock,
                            doomed, sweeps, up, crashes>>
             /\ peer' \in [Conns -> {"open", "closed"}]
             /\ mutex = "free"
             /\ c \in Web /\ pc[c] = "serving" /\ entry[sess[c]] # NoOne
             /\ pc' = [pc EXCEPT ![c] = "panicked"]
  BY <1>2, KindsAssumption DEF PongPanics, Web, Conns, force, watch
<1> QED
  BY <1>1, <1>2

\* The invariant is inductive.
LEMMA TypeNext == TypeInv /\ [Next]_vars => TypeInv'
<1> SUFFICES ASSUME TypeInv, [Next]_vars PROVE TypeInv'
  OBVIOUS
<1> USE DEF TypeInv, TypeOK, Engaged, db, conn, force, watch, lock, clean, host
<1>1. ASSUME NEW s \in Sessions, Create(s) \/ DeleteByIds(s) PROVE TypeInv'
  <2>1. CASE Create(s)
    BY <2>1 DEF Create, Statuses
  <2>2. CASE DeleteByIds(s)
    BY <2>2 DEF DeleteByIds, DeleteRow
  <2> QED
    BY <1>1, <2>1, <2>2
<1>2. ASSUME NEW c \in Conns, NEW s \in Sessions, Attach(c, s) PROVE TypeInv'
  BY <1>2 DEF Attach, Goto
<1>3. ASSUME NEW c \in Conns, NEW s \in Sessions, OpenShell(c, s) PROVE TypeInv'
  <2>1. /\ row' \in [Sessions -> Statuses \cup {"absent", "deleted"}]
        /\ secret' \in [Sessions -> BOOLEAN]
    BY <1>3 DEF OpenShell, Statuses
  <2>2. /\ pc' \in [Conns -> {"idle", "dialing", "opened", "stored",
                              "announced", "serving", "breaking", "closing",
                              "done", "failed", "panicked"}]
        /\ sess' \in [Conns -> Sessions \cup {NoOne}]
        /\ \A d \in Conns : pc[d] # "idle" => pc'[d] # "idle"
        /\ \A d \in Conns : pc'[d] # "idle" => sess'[d] \in Sessions
    BY <1>3 DEF OpenShell, Goto
  <2> QED
    BY <1>3, <2>1, <2>2 DEF OpenShell
<1>4. ASSUME NEW c \in Conns, Dial(c) PROVE TypeInv'
  BY <1>4 DEF Dial, Goto
<1>5. ASSUME NEW c \in Conns, DialFails(c) PROVE TypeInv'
  BY <1>5 DEF DialFails, GiveUp, Goto
<1>6. ASSUME NEW c \in Conns, Store(c) PROVE TypeInv'
  <2>1. /\ row' \in [Sessions -> Statuses \cup {"absent", "deleted"}]
        /\ dated' \in [Sessions -> BOOLEAN]
    BY <1>6, ZenonT(40) DEF Store, SetStatus, SetDated, Statuses
  <2>2. /\ pc' \in [Conns -> {"idle", "dialing", "opened", "stored",
                              "announced", "serving", "breaking", "closing",
                              "done", "failed", "panicked"}]
        /\ post' \in [Conns -> {"none", "due", "sent"}]
        /\ \A d \in Conns : pc'[d] = "idle" <=> pc[d] = "idle"
    BY <1>6 DEF Store, Goto, Tell
  <2> QED
    BY <1>6, <2>1, <2>2 DEF Store
<1>7. ASSUME NEW c \in Conns, StoreFails(c) PROVE TypeInv'
  BY <1>7 DEF StoreFails, GiveUp, Goto
<1>8. ASSUME NEW c \in Conns, Announce(c) PROVE TypeInv'
  BY <1>8 DEF Announce, GiveUp, Goto, Tell
<1>9. ASSUME NEW c \in Conns, Register(c) PROVE TypeInv'
  BY <1>9 DEF Register, Add, Goto
<1>10. ASSUME NEW c \in Conns, ReadFails(c) PROVE TypeInv'
  BY <1>10 DEF ReadFails, Goto
<1>11. ASSUME NEW c \in Conns, WriteFails(c) PROVE TypeInv'
  BY <1>11 DEF WriteFails, Goto
<1>12. ASSUME NEW c \in Conns, WaitReturns(c) PROVE TypeInv'
  BY <1>12 DEF WaitReturns, Goto
<1>13. ASSUME NEW c \in Conns, WinChCloses(c) PROVE TypeInv'
  BY <1>13 DEF WinChCloses
<1>14. ASSUME NEW c \in Conns, Leave(c) PROVE TypeInv'
  BY <1>14 DEF Leave
<1>15. ASSUME NEW c \in Conns, Connect(c) PROVE TypeInv'
  BY <1>15, ZenonT(40) DEF Connect, SetStatus, SetDated, Statuses
<1>16. ASSUME NEW a \in Admins, NEW s \in Sessions, AskDisconnect(a, s)
       PROVE TypeInv'
  BY <1>16 DEF AskDisconnect
<1>17. CASE CloseTake
  <2>1. ASSUME NEW c \in Conns, pc[c] \in {"breaking", "closing"},
               Take("main", c, sess[c])
        PROVE  TypeInv'
    BY <2>1, TypeTake
  <2>2. ASSUME NEW c \in Shells, winCh[c] = "closing",
               Take("winCh", c, sess[c])
        PROVE  TypeInv'
    <3>1. c \in Conns /\ sess[c] \in Sessions
      BY <2>2 DEF Conns
    <3> QED
      BY <2>2, <3>1, TypeTake
  <2>3. ASSUME NEW a \in Admins, adm[a] = "asked", Take("admin", a, admS[a])
        PROVE  TypeInv'
    BY <2>3, TypeTake
  <2>4. ASSUME NEW m \in Monitors, mon[m] = "closing",
               Take("monitor", m, monS[m])
        PROVE  TypeInv'
    BY <2>4, TypeTake
  <2> QED
    BY <1>17, <2>1, <2>2, <2>3, <2>4 DEF CloseTake
<1>18. CASE CloseForget
  BY <1>18 DEF CloseForget
<1>19. CASE CloseRead
  BY <1>19 DEF CloseRead
<1>20. CASE CloseWrite
  <2>1. /\ row' \in [Sessions -> Statuses \cup {"absent", "deleted"}]
        /\ secret' \in [Sessions -> BOOLEAN]
    <3>1. DisDBSess
      BY <1>20 DEF CloseWrite
    <3>2. CASE UNCHANGED <<row, secret>>
      BY <3>2
    <3>3. CASE DeleteRow(target)
      BY <3>3 DEF DeleteRow
    <3>4. CASE /\ SetStatus(target, "disconnected")
               /\ secret' = [secret EXCEPT ![target] = FALSE]
      BY <3>4 DEF SetStatus, Statuses
    <3> QED
      BY <3>1, <3>2, <3>3, <3>4 DEF DisDBSess
  <2>2. /\ pc' \in [Conns -> {"idle", "dialing", "opened", "stored",
                              "announced", "serving", "breaking", "closing",
                              "done", "failed", "panicked"}]
        /\ \A c \in Conns : pc'[c] = "idle" <=> pc[c] = "idle"
    BY <1>20 DEF CloseWrite, Return
  <2>3. /\ winCh' \in [Conns -> {"off", "on", "closing", "done"}]
        /\ \A c \in Conns : winCh'[c] = "off" <=> winCh[c] = "off"
    BY <1>20 DEF CloseWrite, Return
  <2>4. /\ adm' \in [Admins -> {"idle", "asked", "done", "failed"}]
        /\ \A a \in Admins : adm'[a] = "idle" <=> adm[a] = "idle"
    BY <1>20 DEF CloseWrite, Return
  <2>5. /\ mon' \in [Monitors -> {"idle", "checked", "holding", "watching",
                                  "closing", "done", "failed"}]
        /\ \A m \in Monitors : mon'[m] = "idle" <=> mon[m] = "idle"
    BY <1>20 DEF CloseWrite, Return
  <2> QED
    BY <1>20, <2>1, <2>2, <2>3, <2>4, <2>5 DEF CloseWrite, Return, Release
<1>21. ASSUME NEW m \in Monitors, NEW s \in Sessions, NEW d \in BOOLEAN,
              MonitorCheck(m, s, d)
       PROVE TypeInv'
  BY <1>21 DEF MonitorCheck
<1>22. ASSUME NEW m \in Monitors, MonitorLoad(m) PROVE TypeInv'
  BY <1>22 DEF MonitorLoad
<1>23. ASSUME NEW m \in Monitors, MonitorJoin(m) PROVE TypeInv'
  BY <1>23 DEF MonitorJoin
<1>24. ASSUME NEW m \in Monitors, MonitorLeave(m) PROVE TypeInv'
  BY <1>24 DEF MonitorLeave
<1>25. CASE SweepUnused
  BY <1>25, BoundsAssumption DEF SweepUnused
<1>26. CASE SweepOffline
  BY <1>26, BoundsAssumption DEF SweepOffline
<1>27. ASSUME NEW s \in Sessions, NEW why \in {"unused", "offline"},
              SweepDelete(s, why)
       PROVE TypeInv'
  BY <1>27 DEF SweepDelete, DeleteRow
<1>28. CASE Crash
  <2>1. /\ pc' \in [Conns -> {"idle", "dialing", "opened", "stored",
                              "announced", "serving", "breaking", "closing",
                              "done", "failed", "panicked"}]
        /\ \A c \in Conns : pc'[c] = "idle" <=> pc[c] = "idle"
        /\ winCh' \in [Conns -> {"off", "on", "closing", "done"}]
        /\ \A c \in Conns : winCh'[c] = "off" <=> winCh[c] = "off"
    BY <1>28 DEF Crash
  <2>2. /\ entry' \in [Sessions -> Conns \cup {NoOne}]
        /\ backend' \in [Conns -> {"none", "open", "closed"}]
        /\ peer' \in [Conns -> {"open", "closed"}]
        /\ post' \in [Conns -> {"none", "due", "sent"}]
    BY <1>28 DEF Crash
  <2>3. /\ adm' \in [Admins -> {"idle", "asked", "done", "failed"}]
        /\ \A a \in Admins : adm'[a] = "idle" <=> adm[a] = "idle"
        /\ mon' \in [Monitors -> {"idle", "checked", "holding", "watching",
                                  "closing", "done", "failed"}]
        /\ \A m \in Monitors : mon'[m] = "idle" <=> mon[m] = "idle"
    BY <1>28 DEF Crash
  <2>4. crashes' \in 0..MaxCrashes
    BY <1>28, BoundsAssumption DEF Crash
  <2>5. /\ UNCHANGED <<row, dated, secret, sess, admS, admSaw, monS, monOf,
                       display, sweeps>>
        /\ mutex' = "free" /\ kind' = "main" /\ caller' = NoOne
        /\ target' = NoOne /\ seen' = "absent"
        /\ doomed' = {} /\ up' = FALSE
    BY <1>28 DEF Crash, Release
  <2>6. TypeOK'
    BY <2>1, <2>2, <2>3, <2>4, <2>5
  <2>7. Engaged'
    BY <2>1, <2>3, <2>5
  <2> QED
    BY <2>6, <2>7
<1>29. CASE Boot
  BY <1>29 DEF Boot, Statuses
<1>30. CASE UNCHANGED vars
  BY <1>30 DEF vars
<1>31. CASE CloseMessagePanics \/ \E c \in Conns : PongPanics(c)
  <2>1. TypeOK'
    BY <1>31, Panics
  <2>2. Engaged'
    BY <1>31, Panics
  <2> QED
    BY <2>1, <2>2
<1> HIDE DEF TypeInv, TypeOK, Engaged, db, conn, force, watch, lock, clean, host
<1> QED
  BY <1>1, <1>2, <1>3, <1>4, <1>5, <1>6, <1>7, <1>8, <1>9, <1>10, <1>11, <1>12,
     <1>13, <1>14, <1>15, <1>16, <1>17, <1>18, <1>19, <1>20, <1>21, <1>22,
     <1>23, <1>24, <1>25, <1>26, <1>27, <1>28, <1>29, <1>30, <1>31
     DEF Next, Endpoint, CloseSession

\* Every reachable state is well typed.
THEOREM TypeCorrect == Spec => []TypeOK
<1>1. TypeInv => TypeOK
  BY DEF TypeInv
<1> QED
  BY <1>1, TypeInit, TypeNext, PTL DEF Spec
-----------------------------------------------------------------------------
(* What happens to a row, for every instance.                              *)

\* The steps that touch the status or the credentials of a row.
LEMMA RowSteps ==
    ASSUME [Next]_vars
    PROVE  \/ UNCHANGED <<row, secret>>
           \/ \E s \in Sessions : Create(s) \/ DeleteByIds(s)
           \/ \E c \in Conns, s \in Sessions : OpenShell(c, s)
           \/ \E c \in Conns : Store(c) \/ Connect(c)
           \/ CloseWrite
           \/ \E s \in Sessions, why \in {"unused", "offline"} : SweepDelete(s, why)
           \/ Boot
<1> USE DEF db
<1>1. ASSUME NEW c \in Conns, Endpoint(c)
      PROVE  UNCHANGED <<row, secret>> \/ Store(c)
  BY <1>1 DEF Endpoint, Dial, DialFails, StoreFails, Announce, Register,
              ReadFails, WriteFails, WaitReturns, WinChCloses, PongPanics
<1>2. ASSUME NEW c \in Conns, NEW s \in Sessions, Attach(c, s)
      PROVE  UNCHANGED <<row, secret>>
  BY <1>2 DEF Attach
<1>3. ASSUME NEW c \in Conns, Leave(c)
      PROVE  UNCHANGED <<row, secret>>
  BY <1>3 DEF Leave
<1>4. ASSUME NEW a \in Admins, NEW s \in Sessions, AskDisconnect(a, s)
      PROVE  UNCHANGED <<row, secret>>
  BY <1>4 DEF AskDisconnect
<1>5. ASSUME CloseTake \/ CloseForget \/ CloseRead \/ CloseMessagePanics
      PROVE  UNCHANGED <<row, secret>>
  BY <1>5 DEF CloseTake, Take, CloseForget, CloseRead, CloseMessagePanics
<1>6. ASSUME NEW m \in Monitors, NEW s \in Sessions, NEW d \in BOOLEAN,
             MonitorCheck(m, s, d)
      PROVE  UNCHANGED <<row, secret>>
  BY <1>6 DEF MonitorCheck
<1>7. ASSUME NEW m \in Monitors, MonitorLoad(m) \/ MonitorJoin(m) \/ MonitorLeave(m)
      PROVE  UNCHANGED <<row, secret>>
  BY <1>7 DEF MonitorLoad, MonitorJoin, MonitorLeave
<1>8. ASSUME SweepUnused \/ SweepOffline \/ Crash
      PROVE  UNCHANGED <<row, secret>>
  BY <1>8 DEF SweepUnused, SweepOffline, Crash
<1>9. ASSUME UNCHANGED vars
      PROVE  UNCHANGED <<row, secret>>
  BY <1>9 DEF vars
<1> QED
  BY <1>1, <1>2, <1>3, <1>4, <1>5, <1>6, <1>7, <1>8, <1>9 DEF Next, CloseSession

\* No row that ended or was deleted holds credentials, whoever closes it,
\* however often it is attached and whatever the cleaners and crashes do.
THEOREM ErasedAtEnd == Spec => []EndedIsErased
<1>1. Init => EndedIsErased
  BY DEF Init, EndedIsErased
<1>2. TypeInv /\ EndedIsErased /\ [Next]_vars => EndedIsErased'
  <2> SUFFICES ASSUME TypeInv, EndedIsErased, [Next]_vars PROVE EndedIsErased'
    OBVIOUS
  <2> USE DEF TypeInv, TypeOK, EndedIsErased
  <2>1. ASSUME NEW s \in Sessions, Create(s) \/ DeleteByIds(s)
        PROVE  EndedIsErased'
    BY <2>1 DEF Create, DeleteByIds, DeleteRow
  <2>2. ASSUME NEW c \in Conns, NEW s \in Sessions, OpenShell(c, s)
        PROVE  EndedIsErased'
    BY <2>2 DEF OpenShell
  <2>3. ASSUME NEW c \in Conns, Store(c) PROVE EndedIsErased'
    BY <2>3 DEF Store, SetStatus, Exists, Statuses
  <2>4. ASSUME NEW c \in Conns, Connect(c) PROVE EndedIsErased'
    BY <2>4 DEF Connect, SetStatus, Exists, Statuses
  <2>5. CASE CloseWrite
    BY <2>5 DEF CloseWrite, DisDBSess, DeleteRow, SetStatus, Engaged
  <2>6. ASSUME NEW s \in Sessions, NEW why \in {"unused", "offline"},
               SweepDelete(s, why)
        PROVE  EndedIsErased'
    BY <2>6 DEF SweepDelete, DeleteRow
  <2>7. CASE Boot
    BY <2>7 DEF Boot
  <2> QED
    BY <2>1, <2>2, <2>3, <2>4, <2>5, <2>6, <2>7, RowSteps
<1> QED
  BY <1>1, <1>2, TypeInit, TypeNext, PTL DEF Spec

\* No late write brings a deleted row back, in any instance.
THEOREM NeverUndeleted == Spec => DeletedIsFinal
<1>1. TypeInv /\ [Next]_vars =>
        [\A s \in Sessions : row[s] = "deleted" => row'[s] = "deleted"]_vars
  <2> SUFFICES ASSUME TypeInv, [Next]_vars, NEW s \in Sessions,
                      row[s] = "deleted"
               PROVE  row'[s] = "deleted"
    OBVIOUS
  <2> USE DEF TypeInv, TypeOK
  <2>1. ASSUME NEW t \in Sessions, NEW status \in Statuses, SetStatus(t, status)
        PROVE  row'[s] = "deleted"
    BY <2>1 DEF SetStatus, Exists, Statuses
  <2>2. ASSUME NEW t \in Sessions, DeleteRow(t) PROVE row'[s] = "deleted"
    BY <2>2 DEF DeleteRow
  <2>3. ASSUME NEW t \in Sessions, Create(t) \/ DeleteByIds(t)
        PROVE  row'[s] = "deleted"
    BY <2>2, <2>3 DEF Create, DeleteByIds
  <2>4. ASSUME NEW c \in Conns, NEW t \in Sessions, OpenShell(c, t)
        PROVE  row'[s] = "deleted"
    BY <2>4 DEF OpenShell
  <2>5. ASSUME NEW c \in Conns, Store(c) \/ Connect(c)
        PROVE  row'[s] = "deleted"
    BY <2>5 DEF Store, Connect, SetStatus, Exists, Statuses
  <2>6. CASE CloseWrite
    BY <2>1, <2>2, <2>6 DEF CloseWrite, DisDBSess, Engaged, Statuses
  <2>7. ASSUME NEW t \in Sessions, NEW why \in {"unused", "offline"},
               SweepDelete(t, why)
        PROVE  row'[s] = "deleted"
    BY <2>2, <2>7 DEF SweepDelete
  <2>8. CASE Boot
    BY <2>8 DEF Boot
  <2> QED
    BY <2>3, <2>4, <2>5, <2>6, <2>7, <2>8, RowSteps
<1> QED
  BY <1>1, TypeInit, TypeNext, PTL DEF Spec, DeletedIsFinal

-----------------------------------------------------------------------------
(* What a caller does when it takes the mutex, for every instance.         *)

\* whom the mutex goes to
Taken ==
    \/ /\ kind' = "main"
       /\ caller' \in Conns
       /\ pc[caller'] \in {"breaking", "closing"}
       /\ sess[caller'] = target'
    \/ /\ kind' = "winCh"
       /\ caller' \in Shells
       /\ sess[caller'] = target'
    \/ /\ kind' = "admin"
       /\ caller' \in Admins
       /\ adm[caller'] = "asked"
       /\ admS[caller'] = target'
    \/ /\ kind' = "monitor"
       /\ caller' \in Monitors
       /\ mon[caller'] = "closing"
       /\ monS[caller'] = target'

\* One caller gets the mutex; the connection that is registered for its session
\* is closed, and the monitors that watch that connection are kicked.
LEMMA CloseTakes ==
    ASSUME TypeInv, CloseTake
    PROVE  /\ UNCHANGED <<row, dated, secret, entry, pc, sess, post, winCh, adm,
                          admS, admSaw, monS, monOf, display, seen, doomed,
                          sweeps, up, crashes>>
           /\ mutex = "free" /\ mutex' = "taken"
           /\ target' \in Sessions
           /\ Taken
           /\ \A c \in Conns :
                 backend'[c] = IF c = entry[target'] THEN "closed" ELSE backend[c]
           /\ \A m \in Monitors :
                 mon'[m] = IF /\ entry[target'] # NoOne
                              /\ mon[m] = "watching"
                              /\ monOf[m] = entry[target']
                           THEN "done" ELSE mon[m]
<1> DEFINE Effect(s) ==
      /\ mutex = "free" /\ mutex' = "taken"
      /\ target' = s
      /\ \A c \in Conns :
            backend'[c] = IF c = entry[s] THEN "closed" ELSE backend[c]
      /\ \A m \in Monitors :
            mon'[m] = IF /\ entry[s] # NoOne
                         /\ mon[m] = "watching"
                         /\ monOf[m] = entry[s]
                      THEN "done" ELSE mon[m]
      /\ UNCHANGED <<row, dated, secret, entry, pc, sess, post, winCh, adm, admS,
                     admSaw, monS, monOf, display, seen, doomed, sweeps, up,
                     crashes>>
<1>1. ASSUME NEW k, NEW id, NEW s \in Sessions, Take(k, id, s)
      PROVE  Effect(s) /\ kind' = k /\ caller' = id
  <2>1. /\ mutex = "free" /\ mutex' = "taken"
        /\ target' = s /\ kind' = k /\ caller' = id
        /\ UNCHANGED <<row, dated, secret, entry, pc, sess, post, winCh, adm,
                       admS, admSaw, monS, monOf, display, seen, doomed, sweeps,
                       up, crashes>>
    BY <1>1 DEF Take, db, force, clean, host
  <2>2. CASE entry[s] = NoOne
    <3>1. UNCHANGED <<backend, mon>>
      BY <1>1, <2>2 DEF Take
    <3> QED
      BY <2>1, <2>2, <3>1, KindsAssumption
  <2>3. CASE entry[s] # NoOne
    <3>1. Close(entry[s]) /\ Kick(entry[s])
      BY <1>1, <2>3 DEF Take
    <3> QED
      BY <2>1, <2>3, <3>1 DEF Close, Kick, TypeInv, TypeOK
  <2> QED
    BY <2>2, <2>3
<1> HIDE DEF Effect
<1>2. \E s \in Sessions : Effect(s) /\ Taken /\ target' = s
  <2>1. ASSUME NEW c \in Conns, pc[c] \in {"breaking", "closing"},
               Take("main", c, sess[c])
        PROVE  \E s \in Sessions : Effect(s) /\ Taken /\ target' = s
    <3>1. sess[c] \in Sessions
      BY <2>1 DEF TypeInv, Engaged
    <3>2. Effect(sess[c]) /\ kind' = "main" /\ caller' = c
      BY <1>1, <2>1, <3>1
    <3> QED
      BY <2>1, <3>1, <3>2 DEF Effect, Taken
  <2>2. ASSUME NEW c \in Shells, winCh[c] = "closing",
               Take("winCh", c, sess[c])
        PROVE  \E s \in Sessions : Effect(s) /\ Taken /\ target' = s
    <3>1. sess[c] \in Sessions
      BY <2>2 DEF TypeInv, Engaged, Conns
    <3>2. Effect(sess[c]) /\ kind' = "winCh" /\ caller' = c
      BY <1>1, <2>2, <3>1
    <3> QED
      BY <2>2, <3>1, <3>2 DEF Effect, Taken
  <2>3. ASSUME NEW a \in Admins, adm[a] = "asked", Take("admin", a, admS[a])
        PROVE  \E s \in Sessions : Effect(s) /\ Taken /\ target' = s
    <3>1. admS[a] \in Sessions
      BY <2>3 DEF TypeInv, Engaged
    <3>2. Effect(admS[a]) /\ kind' = "admin" /\ caller' = a
      BY <1>1, <2>3, <3>1
    <3> QED
      BY <2>3, <3>1, <3>2 DEF Effect, Taken
  <2>4. ASSUME NEW m \in Monitors, mon[m] = "closing",
               Take("monitor", m, monS[m])
        PROVE  \E s \in Sessions : Effect(s) /\ Taken /\ target' = s
    <3>1. monS[m] \in Sessions
      BY <2>4 DEF TypeInv, Engaged
    <3>2. Effect(monS[m]) /\ kind' = "monitor" /\ caller' = m
      BY <1>1, <2>4, <3>1
    <3> QED
      BY <2>4, <3>1, <3>2 DEF Effect, Taken
  <2> QED
    BY <2>1, <2>2, <2>3, <2>4 DEF CloseTake
<1>3. PICK s \in Sessions : Effect(s) /\ Taken /\ target' = s
  BY <1>2
<1> QED
  BY <1>3 DEF Effect

-----------------------------------------------------------------------------
(* Sessions that browsers attach to once and no administrator disconnects. *)

\* what the rest of this module assumes of an instance
Browsers == Shells = {} /\ Admins = {} /\ Reattach = FALSE

\* A connection that has gone through its close left no entry at all.
LEMMA DoneReleased ==
    ASSUME TypeInv', Managed'
    PROVE  DoneIsReleased'
BY KindsAssumption
   DEF TypeInv, TypeOK, Engaged, Managed, DoneIsReleased, Conns

\* The invariant holds at first.
LEMMA BrowserInit == Init => BrowserInv
<1> SUFFICES ASSUME Init PROVE BrowserInv
  OBVIOUS
<1>1. TypeOK /\ Engaged
  BY TypeInit DEF TypeInv
<1>2. OneToOne /\ Managed /\ DoneIsReleased
  BY KindsAssumption DEF Init, OneToOne, Managed, DoneIsReleased, Past
<1>3. RowFollows
  BY DEF Init, RowFollows, BeforeStore, AfterStore
<1>4. Watched /\ Closing /\ Erased /\ Down
  BY DEF Init, Watched, Closing, Erased, EndedIsErased, Down
<1> QED
  BY <1>1, <1>2, <1>3, <1>4 DEF BrowserInv

\* The invariant is inductive: one step per action, and under it one per
\* conjunct that the action disturbs.
LEMMA BrowserNext ==
    ASSUME Browsers, BrowserInv, [Next]_vars
    PROVE  BrowserInv'
<1>0. TypeInv'
  BY TypeNext DEF BrowserInv, TypeInv
<1> USE <1>0, KindsAssumption
    DEF Browsers, BrowserInv, TypeInv, TypeOK, Engaged, Conns, Web, Exists,
        Statuses, db, conn, force, watch, lock, clean, host
<1>1. ASSUME NEW s \in Sessions, Create(s) PROVE BrowserInv'
  <2>1. Managed' /\ Watched' /\ Down'
    BY <1>1 DEF Create, Managed, Reachable, Past, Watched, Down
  <2>2. OneToOne'
    BY <1>1 DEF Create, OneToOne
  <2>3. RowFollows'
    BY <1>1 DEF Create, RowFollows, OneToOne, Past, BeforeStore, AfterStore
  <2>4. Closing'
    BY <1>1 DEF Create, Closing, OneToOne, Past
  <2>5. Erased'
    BY <1>1 DEF Create, Erased, EndedIsErased
  <2> QED
    BY <2>1, <2>2, <2>3, <2>4, <2>5, DoneReleased DEF BrowserInv, TypeInv
<1>2. ASSUME NEW s \in Sessions, DeleteByIds(s) PROVE BrowserInv'
  <2>1. Managed' /\ Watched' /\ Down'
    BY <1>2 DEF DeleteByIds, DeleteRow, Managed, Reachable, Past, Watched, Down
  <2>2. OneToOne'
    BY <1>2 DEF DeleteByIds, DeleteRow, OneToOne
  <2>3. RowFollows'
    BY <1>2 DEF DeleteByIds, DeleteRow, RowFollows, OneToOne, Past,
       BeforeStore, AfterStore
  <2>4. Closing'
    BY <1>2 DEF DeleteByIds, DeleteRow, Closing, OneToOne, Past
  <2>5. Erased'
    BY <1>2 DEF DeleteByIds, DeleteRow, Erased, EndedIsErased
  <2> QED
    BY <2>1, <2>2, <2>3, <2>4, <2>5, DoneReleased DEF BrowserInv, TypeInv
<1>3. ASSUME NEW c \in Conns, NEW s \in Sessions, Attach(c, s)
      PROVE  BrowserInv'
  <2>1. Erased'
    BY <1>3 DEF Attach, Goto, Erased, EndedIsErased
  <2>2. OneToOne'
    BY <1>3 DEF Attach, Goto, OneToOne
  <2>3. Managed'
    BY <1>3 DEF Attach, Goto, Managed, Reachable, OneToOne, Past
  <2>4. RowFollows'
    BY <1>3 DEF Attach, Goto, RowFollows, OneToOne, Past, BeforeStore,
       AfterStore
  <2>5. Watched'
    BY <1>3 DEF Attach, Goto, Watched, OneToOne, Past
  <2>6. Closing'
    BY <1>3 DEF Attach, Goto, Closing, OneToOne, Watched, Past
  <2>7. Down'
    BY <1>3 DEF Attach, Goto, Down
  <2> QED
    BY <2>1, <2>2, <2>3, <2>4, <2>5, <2>6, <2>7, DoneReleased DEF BrowserInv,
       TypeInv
<1>4. ASSUME NEW c \in Conns, Dial(c) PROVE BrowserInv'
  <2>1. Erased'
    BY <1>4 DEF Dial, Goto, Erased, EndedIsErased
  <2>2. OneToOne'
    BY <1>4 DEF Dial, Goto, OneToOne
  <2>3. Managed'
    BY <1>4 DEF Dial, Goto, Managed, Reachable, OneToOne, Past
  <2>4. RowFollows'
    BY <1>4 DEF Dial, Goto, RowFollows, OneToOne, Past, BeforeStore, AfterStore
  <2>5. Watched'
    BY <1>4 DEF Dial, Goto, Watched, OneToOne, Past
  <2>6. Closing'
    BY <1>4 DEF Dial, Goto, Closing, OneToOne, Past
  <2>7. Down'
    BY <1>4 DEF Dial, Goto, Down
  <2> QED
    BY <2>1, <2>2, <2>3, <2>4, <2>5, <2>6, <2>7, DoneReleased DEF BrowserInv,
       TypeInv
<1>5. ASSUME NEW c \in Conns, DialFails(c) PROVE BrowserInv'
  <2>1. Erased'
    BY <1>5 DEF DialFails, GiveUp, Goto, Erased, EndedIsErased
  <2>2. OneToOne'
    BY <1>5 DEF DialFails, GiveUp, Goto, OneToOne
  <2>3. Managed'
    BY <1>5 DEF DialFails, GiveUp, Goto, Managed, Reachable, OneToOne, Past
  <2>4. RowFollows'
    BY <1>5 DEF DialFails, GiveUp, Goto, RowFollows, OneToOne, Past,
       BeforeStore, AfterStore
  <2>5. Watched'
    BY <1>5 DEF DialFails, GiveUp, Goto, Watched, OneToOne, Past
  <2>6. Closing'
    BY <1>5 DEF DialFails, GiveUp, Goto, Closing, OneToOne, Past
  <2>7. Down'
    BY <1>5 DEF DialFails, GiveUp, Goto, Down
  <2> QED
    BY <2>1, <2>2, <2>3, <2>4, <2>5, <2>6, <2>7, DoneReleased DEF BrowserInv,
       TypeInv
<1>6. ASSUME NEW c \in Conns, Store(c) PROVE BrowserInv'
  <2>1. OneToOne'
    BY <1>6 DEF Store, SetStatus, Tell, Goto, OneToOne
  <2>2. Managed'
    BY <1>6 DEF Store, SetStatus, Tell, Goto, Managed, Reachable, OneToOne, Past
  <2>3. RowFollows'
    BY <1>6 DEF Store, SetStatus, Tell, Goto, RowFollows, OneToOne, Past,
       BeforeStore, AfterStore
  <2>4. Watched'
    BY <1>6 DEF Store, SetStatus, Tell, Goto, Watched, OneToOne, Past
  <2>5. Closing'
    BY <1>6 DEF Store, SetStatus, Tell, Goto, Closing, OneToOne, Past
  <2>6. Erased'
    BY <1>6 DEF Store, SetStatus, Tell, Goto, Erased, EndedIsErased
  <2>7. Down'
    BY <1>6 DEF Store, SetStatus, Tell, Goto, Down
  <2> QED
    BY <2>1, <2>2, <2>3, <2>4, <2>5, <2>6, <2>7, DoneReleased DEF BrowserInv,
       TypeInv
<1>7. ASSUME NEW c \in Conns, StoreFails(c) PROVE BrowserInv'
  <2>1. Erased'
    BY <1>7 DEF StoreFails, GiveUp, Goto, Erased, EndedIsErased
  <2>2. OneToOne'
    BY <1>7 DEF StoreFails, GiveUp, Goto, OneToOne
  <2>3. Managed'
    BY <1>7 DEF StoreFails, GiveUp, Goto, Managed, Reachable, OneToOne, Past
  <2>4. RowFollows'
    BY <1>7 DEF StoreFails, GiveUp, Goto, RowFollows, OneToOne, Past,
       BeforeStore, AfterStore
  <2>5. Watched'
    BY <1>7 DEF StoreFails, GiveUp, Goto, Watched, OneToOne, Past
  <2>6. Closing'
    BY <1>7 DEF StoreFails, GiveUp, Goto, Closing, OneToOne, Past
  <2>7. Down'
    BY <1>7 DEF StoreFails, GiveUp, Goto, Down
  <2> QED
    BY <2>1, <2>2, <2>3, <2>4, <2>5, <2>6, <2>7, DoneReleased DEF BrowserInv,
       TypeInv
<1>8. ASSUME NEW c \in Conns, Announce(c) PROVE BrowserInv'
  <2>1. Erased'
    BY <1>8 DEF Announce, GiveUp, Tell, Goto, Erased, EndedIsErased
  <2>2. OneToOne'
    BY <1>8 DEF Announce, GiveUp, Tell, Goto, OneToOne
  <2>3. Managed'
    BY <1>8 DEF Announce, GiveUp, Tell, Goto, Managed, Reachable, OneToOne, Past
  <2>4. RowFollows'
    BY <1>8 DEF Announce, GiveUp, Tell, Goto, RowFollows, OneToOne, Past,
       BeforeStore, AfterStore
  <2>5. Watched'
    BY <1>8 DEF Announce, GiveUp, Tell, Goto, Watched, OneToOne, Past
  <2>6. Closing'
    BY <1>8 DEF Announce, GiveUp, Tell, Goto, Closing, OneToOne, Past
  <2>7. Down'
    BY <1>8 DEF Announce, GiveUp, Tell, Goto, Down
  <2> QED
    BY <2>1, <2>2, <2>3, <2>4, <2>5, <2>6, <2>7, DoneReleased DEF BrowserInv,
       TypeInv
<1>9. ASSUME NEW c \in Conns, Register(c) PROVE BrowserInv'
  <2>1. Erased'
    BY <1>9 DEF Register, Add, Goto, Erased, EndedIsErased
  <2>2. OneToOne'
    BY <1>9 DEF Register, Add, Goto, OneToOne
  <2>3. Managed'
    BY <1>9 DEF Register, Add, Goto, Managed, Reachable, OneToOne, Past
  <2>4. RowFollows'
    BY <1>9 DEF Register, Add, Goto, RowFollows, OneToOne, Past, BeforeStore,
       AfterStore
  <2>5. Watched'
    BY <1>9 DEF Register, Add, Goto, Watched, OneToOne, Past
  <2>6. Closing'
    BY <1>9 DEF Register, Add, Goto, Closing, OneToOne, Past
  <2>7. Down'
    BY <1>9 DEF Register, Add, Goto, Down
  <2> QED
    BY <2>1, <2>2, <2>3, <2>4, <2>5, <2>6, <2>7, DoneReleased DEF BrowserInv,
       TypeInv
<1>10. ASSUME NEW c \in Conns, ReadFails(c) PROVE BrowserInv'
  <2>1. Erased'
    BY <1>10 DEF ReadFails, Goto, Erased, EndedIsErased
  <2>2. OneToOne'
    BY <1>10 DEF ReadFails, Goto, OneToOne
  <2>3. Managed'
    BY <1>10 DEF ReadFails, Goto, Managed, Reachable, OneToOne, Past
  <2>4. RowFollows'
    BY <1>10 DEF ReadFails, Goto, RowFollows, OneToOne, Past, BeforeStore,
       AfterStore
  <2>5. Watched'
    BY <1>10 DEF ReadFails, Goto, Watched, OneToOne, Past
  <2>6. Closing'
    BY <1>10 DEF ReadFails, Goto, Closing, OneToOne, Past
  <2>7. Down'
    BY <1>10 DEF ReadFails, Goto, Down
  <2> QED
    BY <2>1, <2>2, <2>3, <2>4, <2>5, <2>6, <2>7, DoneReleased DEF BrowserInv,
       TypeInv
<1>11. ASSUME NEW c \in Conns, WriteFails(c) PROVE BrowserInv'
  <2>1. Erased'
    BY <1>11 DEF WriteFails, Goto, Erased, EndedIsErased
  <2>2. OneToOne'
    BY <1>11 DEF WriteFails, Goto, OneToOne
  <2>3. Managed'
    BY <1>11 DEF WriteFails, Goto, Managed, Reachable, OneToOne, Past
  <2>4. RowFollows'
    BY <1>11 DEF WriteFails, Goto, RowFollows, OneToOne, Past, BeforeStore,
       AfterStore
  <2>5. Watched'
    BY <1>11 DEF WriteFails, Goto, Watched, OneToOne, Past
  <2>6. Closing'
    BY <1>11 DEF WriteFails, Goto, Closing, OneToOne, Past
  <2>7. Down'
    BY <1>11 DEF WriteFails, Goto, Down
  <2> QED
    BY <2>1, <2>2, <2>3, <2>4, <2>5, <2>6, <2>7, DoneReleased DEF BrowserInv,
       TypeInv
<1>12. ASSUME NEW c \in Conns, WinChCloses(c) PROVE BrowserInv'
  <2>1. OneToOne' /\ Managed' /\ RowFollows'
    BY <1>12 DEF WinChCloses, OneToOne, Managed, Reachable, Past, RowFollows,
       BeforeStore, AfterStore
  <2>2. Watched' /\ Closing' /\ Erased' /\ Down'
    BY <1>12 DEF WinChCloses, Watched, Past, Closing, Erased, EndedIsErased,
       Down
  <2> QED
    BY <2>1, <2>2, DoneReleased DEF BrowserInv, TypeInv
<1>13. ASSUME NEW c \in Conns, Leave(c) PROVE BrowserInv'
  <2>1. OneToOne' /\ Managed' /\ RowFollows'
    BY <1>13 DEF Leave, OneToOne, Managed, Reachable, Past, RowFollows,
       BeforeStore, AfterStore
  <2>2. Watched' /\ Closing' /\ Erased' /\ Down'
    BY <1>13 DEF Leave, Watched, Past, Closing, Erased, EndedIsErased, Down
  <2> QED
    BY <2>1, <2>2, DoneReleased DEF BrowserInv, TypeInv
<1>14. ASSUME NEW c \in Conns, Connect(c) PROVE BrowserInv'
  <2>1. Managed'
    <3>1. row[sess[c]] \in {"connecting", "deleted"}
      BY <1>14 DEF Connect, RowFollows, AfterStore
    <3>2. \A d \in Conns : d # c /\ sess[d] # NoOne => sess[d] # sess[c]
      BY DEF OneToOne
    <3>3. \A d \in Conns :
            row[sess[d]] \in {"disconnected", "deleted"} /\ pc[d] # "idle" =>
                row'[sess[d]] \in {"disconnected", "deleted"}
      BY <1>14, <3>1, <3>2 DEF Connect, SetStatus, OneToOne
    <3> QED
      BY <1>14, <3>3 DEF Connect, Managed, Reachable, Past
  <2>6. Watched' /\ Down'
    BY <1>14 DEF Connect, Past, Watched, Down
  <2>2. OneToOne'
    BY <1>14 DEF Connect, SetStatus, OneToOne, RowFollows, AfterStore
  <2>3. RowFollows'
    BY <1>14 DEF Connect, SetStatus, RowFollows, OneToOne, Past, BeforeStore,
       AfterStore
  <2>4. Closing'
    BY <1>14 DEF Connect, SetStatus, Closing, OneToOne, RowFollows, AfterStore,
       Past
  <2>5. Erased'
    BY <1>14 DEF Connect, SetStatus, Erased, EndedIsErased
  <2> QED
    BY <2>1, <2>2, <2>3, <2>4, <2>5, <2>6, DoneReleased DEF BrowserInv, TypeInv
<1>15. CASE CloseTake
  <2>1. OneToOne' /\ RowFollows' /\ Erased'
    BY <1>15, CloseTakes DEF OneToOne, RowFollows, BeforeStore, AfterStore,
       Erased, EndedIsErased
  <2>2. Managed'
    BY <1>15, CloseTakes DEF Managed, Reachable, OneToOne, Past
  <2>3. Watched'
    BY <1>15, CloseTakes DEF Watched, OneToOne, Past
  <2>4. Closing'
    BY <1>15, CloseTakes DEF Closing, Taken, OneToOne, Managed, Watched,
       Down, Past
  <2>5. Down'
    BY <1>15, CloseTakes DEF Down
  <2> QED
    BY <2>1, <2>2, <2>3, <2>4, <2>5, DoneReleased DEF BrowserInv, TypeInv
<1>16. CASE CloseForget
  <2>1. OneToOne' /\ RowFollows'
    BY <1>16 DEF CloseForget, OneToOne, RowFollows, BeforeStore, AfterStore
  <2>2. Watched' /\ Erased' /\ Down'
    BY <1>16 DEF CloseForget, Watched, Past, Erased, EndedIsErased, Down
  <2>3. Managed'
    BY <1>16 DEF CloseForget, Managed, Reachable, OneToOne, Closing, Past
  <2>4. Closing'
    BY <1>16 DEF CloseForget, Closing, OneToOne, Past
  <2> QED
    BY <2>1, <2>2, <2>3, <2>4, DoneReleased DEF BrowserInv, TypeInv
<1>17. CASE CloseRead
  <2>1. OneToOne' /\ Managed' /\ RowFollows'
    BY <1>17 DEF CloseRead, OneToOne, Managed, Reachable, Past, RowFollows,
       BeforeStore, AfterStore
  <2>2. Watched' /\ Erased' /\ Down'
    BY <1>17 DEF CloseRead, Watched, Past, Erased, EndedIsErased, Down
  <2>3. Closing'
    BY <1>17 DEF CloseRead, Closing, OneToOne, Watched, RowFollows, AfterStore,
       Past
  <2> QED
    BY <2>1, <2>2, <2>3, DoneReleased DEF BrowserInv, TypeInv
<1>18. CASE CloseWrite
  <2>1. OneToOne'
    BY <1>18, SMTT(30) DEF CloseWrite, DisDBSess, SetStatus, DeleteRow, Return,
       Release, OneToOne, Watched, Closing
  <2>2. Managed'
    BY <1>18, SMTT(30) DEF CloseWrite, DisDBSess, SetStatus, DeleteRow, Return,
       Release, Managed, Reachable, OneToOne, Closing, Past
  <2>3. RowFollows'
    BY <1>18, SMTT(30) DEF CloseWrite, DisDBSess, SetStatus, DeleteRow, Return,
       Release, RowFollows, OneToOne, Closing, Past, BeforeStore, AfterStore
  <2>4. Watched'
    BY <1>18, SMTT(30) DEF CloseWrite, DisDBSess, SetStatus, DeleteRow, Return,
       Release, Watched, OneToOne, Closing, Past
  <2>5. Closing'
    BY <1>18, SMTT(30) DEF CloseWrite, DisDBSess, SetStatus, DeleteRow, Return,
       Release, Closing, OneToOne, Past
  <2>6. Erased'
    BY <1>18, SMTT(30) DEF CloseWrite, DisDBSess, SetStatus, DeleteRow, Return,
       Release, Erased, EndedIsErased, Closing
  <2>7. Down'
    BY <1>18, SMTT(30) DEF CloseWrite, DisDBSess, SetStatus, DeleteRow, Return,
       Release, Down, Closing
  <2> QED
    BY <2>1, <2>2, <2>3, <2>4, <2>5, <2>6, <2>7, DoneReleased DEF BrowserInv,
       TypeInv
<1>19. ASSUME NEW m \in Monitors, NEW s \in Sessions, NEW d \in BOOLEAN,
              MonitorCheck(m, s, d)
      PROVE  BrowserInv'
  <2>1. OneToOne'
    BY <1>19, SMTT(30) DEF MonitorCheck, OneToOne
  <2>2. Managed'
    BY <1>19, SMTT(30) DEF MonitorCheck, Managed, Reachable, Past
  <2>3. RowFollows' /\ Erased'
    BY <1>19, SMTT(30) DEF MonitorCheck, RowFollows, BeforeStore, AfterStore,
       Erased, EndedIsErased
  <2>4. Watched'
    BY <1>19, SMTT(30) DEF MonitorCheck, Watched, OneToOne, RowFollows, Past,
       BeforeStore, AfterStore
  <2>5. Closing'
    BY <1>19, SMTT(30) DEF MonitorCheck, Closing, OneToOne, Past
  <2>6. Down'
    BY <1>19, SMTT(30) DEF MonitorCheck, Down
  <2> QED
    BY <2>1, <2>2, <2>3, <2>4, <2>5, <2>6, DoneReleased DEF BrowserInv, TypeInv
<1>20. ASSUME NEW m \in Monitors, MonitorLoad(m) PROVE BrowserInv'
  <2>1. OneToOne' /\ Managed' /\ RowFollows' /\ Erased'
    BY <1>20 DEF MonitorLoad, OneToOne, Managed, Reachable, Past, RowFollows,
       BeforeStore, AfterStore, Erased, EndedIsErased
  <2>2. Watched'
    BY <1>20 DEF MonitorLoad, Watched, OneToOne, Managed, Reachable, Past
  <2>3. Closing'
    BY <1>20 DEF MonitorLoad, Closing, OneToOne, Past
  <2>4. Down'
    BY <1>20 DEF MonitorLoad, Down
  <2> QED
    BY <2>1, <2>2, <2>3, <2>4, DoneReleased DEF BrowserInv, TypeInv
<1>21. ASSUME NEW m \in Monitors, MonitorJoin(m) PROVE BrowserInv'
  <2>1. OneToOne' /\ Managed' /\ RowFollows' /\ Erased'
    BY <1>21 DEF MonitorJoin, OneToOne, Managed, Reachable, Past, RowFollows,
       BeforeStore, AfterStore, Erased, EndedIsErased
  <2>2. Watched'
    BY <1>21 DEF MonitorJoin, Watched, OneToOne, Past
  <2>3. Closing'
    BY <1>21 DEF MonitorJoin, Closing, OneToOne, Past
  <2>4. Down'
    BY <1>21 DEF MonitorJoin, Down
  <2> QED
    BY <2>1, <2>2, <2>3, <2>4, DoneReleased DEF BrowserInv, TypeInv
<1>22. ASSUME NEW m \in Monitors, MonitorLeave(m) PROVE BrowserInv'
  <2>1. OneToOne' /\ Managed' /\ RowFollows' /\ Erased'
    BY <1>22 DEF MonitorLeave, OneToOne, Managed, Reachable, Past, RowFollows,
       BeforeStore, AfterStore, Erased, EndedIsErased
  <2>2. Watched'
    BY <1>22 DEF MonitorLeave, Watched, OneToOne, Past
  <2>3. Closing'
    BY <1>22 DEF MonitorLeave, Closing, OneToOne, Past
  <2>4. Down'
    BY <1>22 DEF MonitorLeave, Down
  <2> QED
    BY <2>1, <2>2, <2>3, <2>4, DoneReleased DEF BrowserInv, TypeInv
<1>23. CASE SweepUnused
  <2>1. OneToOne' /\ Managed' /\ RowFollows'
    BY <1>23 DEF SweepUnused, OneToOne, Managed, Reachable, Past, RowFollows,
       BeforeStore, AfterStore
  <2>2. Watched' /\ Closing'
    BY <1>23 DEF SweepUnused, Watched, Past, Closing
  <2>3. Erased'
    BY <1>23 DEF SweepUnused, Erased, EndedIsErased
  <2>4. Down'
    BY <1>23 DEF SweepUnused, Down
  <2> QED
    BY <2>1, <2>2, <2>3, <2>4, DoneReleased DEF BrowserInv, TypeInv
<1>24. CASE SweepOffline
  <2>1. OneToOne' /\ Managed' /\ RowFollows'
    BY <1>24 DEF SweepOffline, OneToOne, Managed, Reachable, Past, RowFollows,
       BeforeStore, AfterStore
  <2>2. Watched' /\ Closing'
    BY <1>24 DEF SweepOffline, Watched, Past, Closing
  <2>3. Erased'
    BY <1>24 DEF SweepOffline, Erased, EndedIsErased
  <2>4. Down'
    BY <1>24 DEF SweepOffline, Down
  <2> QED
    BY <2>1, <2>2, <2>3, <2>4, DoneReleased DEF BrowserInv, TypeInv
<1>25. ASSUME NEW s \in Sessions, NEW why \in {"unused", "offline"},
              SweepDelete(s, why)
      PROVE  BrowserInv'
  <2>1. Managed' /\ Watched'
    BY <1>25 DEF SweepDelete, DeleteRow, Managed, Reachable, Past, Watched
  <2>2. OneToOne'
    BY <1>25 DEF SweepDelete, DeleteRow, OneToOne
  <2>3. RowFollows'
    BY <1>25 DEF SweepDelete, DeleteRow, RowFollows, OneToOne, Past,
       BeforeStore, AfterStore
  <2>4. Closing'
    BY <1>25 DEF SweepDelete, DeleteRow, Closing, OneToOne, Past
  <2>5. Erased'
    BY <1>25 DEF SweepDelete, DeleteRow, Erased, EndedIsErased
  <2>6. Down'
    BY <1>25 DEF SweepDelete, DeleteRow, Down
  <2> QED
    BY <2>1, <2>2, <2>3, <2>4, <2>5, <2>6, DoneReleased DEF BrowserInv, TypeInv
<1>26. CASE Crash
  <2>1. OneToOne'
    BY <1>26 DEF Crash, Release, OneToOne
  <2>2. Managed'
    BY <1>26 DEF Crash, Release, Managed, Reachable, OneToOne, Past
  <2>3. RowFollows'
    BY <1>26 DEF Crash, Release, RowFollows, OneToOne, Past, BeforeStore,
       AfterStore
  <2>4. Watched'
    BY <1>26 DEF Crash, Release, Watched, OneToOne, Past
  <2>5. Closing'
    BY <1>26 DEF Crash, Release, Closing, OneToOne, Past
  <2>6. Erased'
    BY <1>26 DEF Crash, Release, Erased, EndedIsErased
  <2>7. Down'
    BY <1>26 DEF Crash, Release, Down
  <2> QED
    BY <2>1, <2>2, <2>3, <2>4, <2>5, <2>6, <2>7, DoneReleased DEF BrowserInv,
       TypeInv
<1>27. CASE Boot
  <2>1. Managed' /\ Watched'
    BY <1>27 DEF Boot, Managed, Reachable, Past, Watched
  <2>2. OneToOne'
    BY <1>27 DEF Boot, OneToOne
  <2>3. RowFollows'
    BY <1>27 DEF Boot, RowFollows, OneToOne, Past, BeforeStore, AfterStore
  <2>4. Closing'
    BY <1>27 DEF Boot, Closing
  <2>5. Erased'
    BY <1>27 DEF Boot, Erased, EndedIsErased
  <2>6. Down'
    BY <1>27 DEF Boot, Down
  <2> QED
    BY <2>1, <2>2, <2>3, <2>4, <2>5, <2>6, DoneReleased DEF BrowserInv, TypeInv
<1>28. CASE UNCHANGED vars
  <2>1. OneToOne' /\ Managed' /\ RowFollows'
    BY <1>28 DEF vars, OneToOne, Managed, Reachable, Past, RowFollows, BeforeStore,
       AfterStore
  <2>2. Watched' /\ Closing' /\ Erased' /\ Down'
    BY <1>28 DEF vars, Watched, Past, Closing, Erased, EndedIsErased, Down
  <2> QED
    BY <2>1, <2>2, DoneReleased DEF BrowserInv, TypeInv
<1>29. ASSUME NEW c \in Conns, NEW s \in Sessions, OpenShell(c, s) PROVE FALSE
  BY <1>29 DEF OpenShell
<1>30. ASSUME NEW c \in Conns, WaitReturns(c) PROVE FALSE
  BY <1>30 DEF WaitReturns
<1>31. CASE CloseMessagePanics \/ \E c \in Conns : PongPanics(c)
  <2>1. OneToOne' /\ RowFollows' /\ Erased'
    BY <1>31, Panics DEF OneToOne, RowFollows, BeforeStore, AfterStore, Erased,
       EndedIsErased
  <2>2. Managed'
    BY <1>31, Panics DEF Managed, Reachable, OneToOne, Past
  <2>3. Watched'
    BY <1>31, Panics DEF Watched, Past
  <2>4. Closing'
    BY <1>31, Panics DEF Closing
  <2>5. Down'
    BY <1>31, Panics DEF Down
  <2> QED
    BY <2>1, <2>2, <2>3, <2>4, <2>5, DoneReleased DEF BrowserInv, TypeInv
<1> HIDE <1>0 DEF BrowserInv, TypeInv, TypeOK, Engaged, Conns, Web, Exists,
         Statuses, db, conn, force, watch, lock, clean, host
<1> QED
  BY <1>1, <1>2, <1>3, <1>4, <1>5, <1>6, <1>7, <1>8, <1>9, <1>10, <1>11, <1>12,
     <1>13, <1>14, <1>15, <1>16, <1>17, <1>18, <1>19, <1>20, <1>21, <1>22,
     <1>23, <1>24, <1>25, <1>26, <1>27, <1>28, <1>29, <1>30, <1>31 DEF Next,
     Endpoint, CloseSession

\* A browser session goes through nothing but the states of BrowserInv.
THEOREM BrowserCorrect == ASSUME Browsers PROVE Spec => []BrowserInv
<1>1. BrowserInv /\ [Next]_vars => BrowserInv'
  BY BrowserNext
<1> QED
  BY <1>1, BrowserInit, PTL DEF Spec

\* Every connection served over a live backend is the one the manager knows.
THEOREM ServedRegistered == ASSUME Browsers PROVE Spec => []ServedIsRegistered
<1>1. BrowserInv => ServedIsRegistered
  BY DEF BrowserInv, Managed, ServedIsRegistered, Past
<1> QED
  BY <1>1, BrowserCorrect, PTL

\* A row that says connected has a goroutine that will end it, or a connection
\* that a panic left in the manager, as long as the server runs.
THEOREM ConnectedServed == ASSUME Browsers PROVE Spec => []ConnectedIsServed
<1>1. BrowserInv => ConnectedIsServed
  <2> SUFFICES ASSUME BrowserInv, NEW s \in Sessions, up, row[s] = "connected"
               PROVE  \E c \in Conns :
                        /\ sess[c] = s
                        /\ \/ pc[c] \in {"stored", "announced", "serving",
                                       "breaking", "closing"}
                           \/ pc[c] = "panicked" /\ Reachable(c)
    BY DEF ConnectedIsServed
  <2>1. PICK c \in Conns : sess[c] = s
    BY DEF BrowserInv, OneToOne
  <2>2. pc[c] \notin {"idle", "dialing", "opened", "done", "failed"}
    BY <2>1, KindsAssumption
       DEF BrowserInv, OneToOne, RowFollows, BeforeStore
  <2>3. pc[c] = "panicked" => Reachable(c)
    BY <2>1 DEF BrowserInv, Managed
  <2> QED
    BY <2>1, <2>2, <2>3 DEF BrowserInv, TypeOK
<1> QED
  BY <1>1, BrowserCorrect, PTL

-----------------------------------------------------------------------------
(* Session implements SessionRecord.                                       *)

Rec  == [s \in Sessions |-> Stage(row[s])]
Cred == {s \in Sessions : secret[s]}

\* The stage of every status.
LEMMA Stages ==
    /\ Stage("absent") = "absent"
    /\ Stage("no_connect") = "pending" /\ Stage("connecting") = "pending"
    /\ Stage("connected") = "live"
    /\ Stage("disconnected") = "ended"
    /\ Stage("deleted") = "gone"
BY DEF Stage

\* A row that is updated is a record that changes its stage.
LEMMA Staged ==
    ASSUME TypeInv, NEW s \in Sessions, NEW status,
           row' = [row EXCEPT ![s] = status]
    PROVE  Rec' = [Rec EXCEPT ![s] = Stage(status)]
BY DEF TypeInv, TypeOK, Rec

\* Deleting a row drops the record, or finds it dropped.
LEMMA Dropped ==
    ASSUME TypeInv, Erased, NEW s \in Sessions, row[s] # "absent", DeleteRow(s)
    PROVE  Record!Drop(s) \/ UNCHANGED <<Rec, Cred>>
<1>1. CASE Exists(s)
  <2>1. Rec[s] \in {"pending", "live", "ended"}
    BY <1>1, Stages DEF Rec, Exists, Statuses
  <2>2. Rec' = [Rec EXCEPT ![s] = "gone"]
    <3>1. row' = [row EXCEPT ![s] = "deleted"]
      BY <1>1 DEF DeleteRow
    <3>2. Rec' = [Rec EXCEPT ![s] = Stage("deleted")]
      BY <3>1, Staged
    <3> QED
      BY <3>2, Stages
  <2>3. Cred' = Cred \ {s}
    BY DEF DeleteRow, Cred, TypeInv, TypeOK
  <2> QED
    BY <2>1, <2>2, <2>3 DEF Record!Drop, Rec, Cred
<1>2. CASE ~Exists(s)
  <2>1. row' = row /\ secret' = secret
    BY <1>2 DEF DeleteRow, Erased, EndedIsErased, Exists, TypeInv, TypeOK
  <2> QED
    BY <2>1 DEF Rec, Cred
<1> QED
  BY <1>1, <1>2

\* The first state of a session is the first state of its record.
LEMMA RecordInit == Init => Record!Init
BY Stages DEF Init, Record!Init

\* Every step is a step of the record, or changes nothing in it.
LEMMA RecordNext ==
    ASSUME Browsers, BrowserInv, [Next]_vars
    PROVE  [Record!Next]_<<Rec, Cred>>
<1> DEFINE Recorded == Record!Next \/ UNCHANGED <<Rec, Cred>>
<1>0. TypeInv /\ Erased /\ OneToOne /\ RowFollows /\ Closing
  BY DEF BrowserInv, TypeInv
<1>a. ASSUME NEW s \in Sessions, row[s] # "absent", DeleteRow(s) PROVE Recorded
  BY <1>0, <1>a, Dropped DEF Record!Next
<1>b. ASSUME UNCHANGED <<row, secret>> PROVE Recorded
  BY <1>b DEF Rec, Cred
<1>1. ASSUME NEW s \in Sessions, Create(s) PROVE Recorded
  <2>0. row[s] = "absent" /\ row' = [row EXCEPT ![s] = "no_connect"]
    BY <1>1 DEF Create
  <2>1. Rec[s] = "absent" /\ Rec' = [Rec EXCEPT ![s] = "pending"]
    <3>1. Rec[s] = "absent"
      BY <2>0, Stages DEF Rec
    <3>2. Rec' = [Rec EXCEPT ![s] = "pending"]
      <4>1. Rec' = [Rec EXCEPT ![s] = Stage("no_connect")]
        BY <1>0, <2>0, Staged
      <4> QED
        BY <4>1, Stages
    <3> QED
      BY <3>1, <3>2
  <2>2. Cred' = Cred \cup {s}
    BY <1>0, <1>1 DEF Create, Cred, TypeInv, TypeOK
  <2> QED
    BY <2>1, <2>2 DEF Record!Next, Record!Open, Rec, Cred
<1>2. ASSUME NEW s \in Sessions, DeleteByIds(s) PROVE Recorded
  BY <1>2, <1>a DEF DeleteByIds, Exists, Statuses
<1>3. ASSUME NEW c \in Conns, NEW s \in Sessions, OpenShell(c, s) PROVE Recorded
  BY <1>3 DEF OpenShell, Browsers
<1>4. ASSUME NEW c \in Conns, Store(c) PROVE Recorded
  <2>1. sess[c] \in Sessions
    BY <1>0, <1>4, KindsAssumption DEF TypeInv, Engaged, Store
  <2>2. row[sess[c]] \in {"no_connect", "deleted"}
    BY <1>0, <1>4, KindsAssumption
       DEF RowFollows, BeforeStore, Store, Browsers
  <2>3. secret' = secret /\ SetStatus(sess[c], "connecting")
    BY <1>4 DEF Store, Browsers
  <2>4. CASE row[sess[c]] = "no_connect"
    <3>0. row' = [row EXCEPT ![sess[c]] = "connecting"]
      BY <2>3, <2>4 DEF SetStatus, Exists, Statuses
    <3>1. Rec' = [Rec EXCEPT ![sess[c]] = "pending"]
      <4>1. Rec' = [Rec EXCEPT ![sess[c]] = Stage("connecting")]
        BY <1>0, <2>1, <3>0, Staged
      <4> QED
        BY <4>1, Stages
    <3>2. Rec[sess[c]] = "pending"
      BY <2>1, <2>4, Stages DEF Rec
    <3> QED
      BY <2>3, <3>1, <3>2 DEF Rec, Cred
  <2>5. CASE row[sess[c]] = "deleted"
    BY <1>b, <2>3, <2>5 DEF SetStatus, Exists, Statuses
  <2> QED
    BY <2>2, <2>4, <2>5
<1>5. ASSUME NEW c \in Conns, Connect(c) PROVE Recorded
  <2>1. /\ sess[c] \in Sessions
        /\ row[sess[c]] \in {"connecting", "deleted"}
    BY <1>0, <1>5 DEF RowFollows, AfterStore, Connect, TypeInv, TypeOK, Engaged
  <2>2. secret' = secret /\ SetStatus(sess[c], "connected")
    BY <1>5 DEF Connect
  <2>3. CASE row[sess[c]] = "connecting"
    <3>0. row' = [row EXCEPT ![sess[c]] = "connected"]
      BY <2>2, <2>3 DEF SetStatus, Exists, Statuses
    <3>1. Rec' = [Rec EXCEPT ![sess[c]] = "live"]
      <4>1. Rec' = [Rec EXCEPT ![sess[c]] = Stage("connected")]
        BY <1>0, <2>1, <3>0, Staged
      <4> QED
        BY <4>1, Stages
    <3>2. Rec[sess[c]] = "pending"
      BY <2>1, <2>3, Stages DEF Rec
    <3>3. UNCHANGED Cred
      BY <2>2 DEF Cred
    <3>4. Record!Establish(sess[c])
      BY <3>1, <3>2, <3>3 DEF Record!Establish, Rec, Cred
    <3> QED
      BY <2>1, <3>4 DEF Record!Next
  <2>4. CASE row[sess[c]] = "deleted"
    BY <1>b, <2>2, <2>4 DEF SetStatus, Exists, Statuses
  <2> QED
    BY <2>1, <2>3, <2>4
<1>6. CASE CloseWrite
  <2>1. /\ target \in Sessions
        /\ row[target] # "absent"
        /\ DisDBSess
        /\ mutex = "read"
    BY <1>0, <1>6 DEF CloseWrite, Closing, TypeInv, Engaged, OneToOne,
       BrowserInv, Watched
  <2>2. CASE UNCHANGED <<row, secret>>
    BY <1>b, <2>2
  <2>3. CASE seen = "connecting" /\ DeleteRow(target)
    BY <1>a, <2>1, <2>3
  <2>4. CASE /\ seen \in {"no_connect", "connected"}
             /\ SetStatus(target, "disconnected")
             /\ secret' = [secret EXCEPT ![target] = FALSE]
    <3>1. row[target] \in {"connected", "disconnected", "deleted"}
      BY <1>0, <2>1, <2>4 DEF Closing
    <3>2. CASE row[target] = "connected"
      <4>0. row' = [row EXCEPT ![target] = "disconnected"]
        BY <2>4, <3>2 DEF SetStatus, Exists, Statuses
      <4>1. Rec' = [Rec EXCEPT ![target] = "ended"]
        <5>1. Rec' = [Rec EXCEPT ![target] = Stage("disconnected")]
          BY <1>0, <2>1, <4>0, Staged
        <5> QED
          BY <5>1, Stages
      <4>2. Rec[target] = "live"
        BY <2>1, <3>2, Stages DEF Rec
      <4>3. Cred' = Cred \ {target}
        BY <1>0, <2>4 DEF Cred, TypeInv, TypeOK
      <4> QED
        BY <2>1, <4>1, <4>2, <4>3 DEF Record!Next, Record!End, Rec, Cred
    <3>3. CASE row[target] \in {"disconnected", "deleted"}
      BY <1>0, <1>b, <2>1, <2>4, <3>3
         DEF SetStatus, Exists, Statuses, Erased, EndedIsErased, TypeInv, TypeOK
    <3> QED
      BY <3>1, <3>2, <3>3
  <2> QED
    BY <2>1, <2>2, <2>3, <2>4 DEF DisDBSess
<1>7. ASSUME NEW s \in Sessions, NEW why \in {"unused", "offline"},
             SweepDelete(s, why)
      PROVE  Recorded
  BY <1>0, <1>7, <1>a DEF SweepDelete, Erased
<1>8. CASE Boot
  <2>1. Rec' = [s \in Sessions |-> IF Rec[s] = "live" THEN "ended" ELSE Rec[s]]
    <3>1. ASSUME NEW s \in Sessions
          PROVE  Stage(row'[s]) =
                   IF Stage(row[s]) = "live" THEN "ended" ELSE Stage(row[s])
      BY <1>0, <1>8, Stages DEF Boot, TypeInv, TypeOK, Statuses
    <3> QED
      BY <3>1 DEF Rec
  <2>2. Cred' = {}
    BY <1>8 DEF Boot, Cred
  <2> QED
    BY <2>1, <2>2 DEF Record!Next, Record!Restart, Rec, Cred
<1> QED
  BY <1>b, <1>1, <1>2, <1>3, <1>4, <1>5, <1>6, <1>7, <1>8, RowSteps

\* The rows of browser sessions are an audit trail: SessionRecord, implemented
\* step by step by the endpoints, the closes, the cleaners and a restart.
THEOREM AuditTrailKept == ASSUME Browsers PROVE Spec => AuditTrail
<1>1. BrowserInv /\ [Next]_vars =>
         [Record!Next]_<<[s \in Sessions |-> Stage(row[s])],
                         {s \in Sessions : secret[s]}>>
  BY RecordNext DEF Rec, Cred
<1> QED
  BY <1>1, RecordInit, BrowserCorrect, PTL DEF Spec, AuditTrail, Record!Spec

-----------------------------------------------------------------------------
(* One forced disconnect, of sessions that are attached once.              *)

\* what the proof assumes of an instance: with two requests one of them can
\* forget a connection that registered after it looked
OneForced == Reattach = FALSE /\ \A a, b \in Admins : a = b

\* the connection has been handed to the manager, or will never be
Registered(c) ==
    \/ pc[c] \in {"serving", "breaking", "closing", "done", "failed", "panicked"}
    \/ c \in Guacs /\ pc[c] = "stored"

\* a session has one connection, whose row was there before it
Alone ==
    /\ \A c \in Conns : pc[c] = "idle" <=> sess[c] = NoOne
    /\ \A c, d \in Conns : sess[c] = sess[d] /\ sess[c] # NoOne => c = d
    /\ \A c \in Conns : sess[c] # NoOne => row[sess[c]] # "absent"

\* the manager knows a connection by its session
Known ==
    \A s \in Sessions :
        entry[s] # NoOne => sess[entry[s]] = s /\ Registered(entry[s])

\* a monitor holds a connection that was registered for its session
Held ==
    \A m \in Monitors :
        mon[m] \in {"holding", "watching", "closing"} =>
            /\ monOf[m] \in Conns
            /\ sess[monOf[m]] = monS[m]
            /\ Registered(monOf[m])

\* the connection a request saw is still registered, or has been closed
Asked ==
    \A a \in Admins :
        adm[a] # "idle" /\ admSaw[a] \in Web =>
            /\ Registered(admSaw[a])
            /\ sess[admSaw[a]] = admS[a]
            /\ entry[admS[a]] = admSaw[a] \/ backend[admSaw[a]] # "open"
            /\ adm[a] = "done" => backend[admSaw[a]] # "open"

\* whom the mutex belongs to, and what its holder has already closed
Holder ==
    mutex # "free" =>
        /\ \/ /\ kind = "main"
              /\ caller \in Conns
              /\ pc[caller] \in {"breaking", "closing"}
              /\ sess[caller] = target
           \/ /\ kind = "winCh"
              /\ caller \in Shells
              /\ sess[caller] = target
           \/ /\ kind = "monitor"
              /\ caller \in Monitors
              /\ mon[caller] = "closing"
              /\ monS[caller] = target
           \/ /\ kind = "admin"
              /\ caller \in Admins
              /\ adm[caller] = "asked"
              /\ admS[caller] = target
              /\ admSaw[caller] \in Web => backend[admSaw[caller]] # "open"
        /\ kind # "admin" /\ entry[target] \in Web =>
              backend[entry[target]] # "open"

ForcedInv == TypeInv /\ Alone /\ Known /\ Held /\ Asked /\ Holder

\* The invariant holds at first.
LEMMA ForcedInit == Init => ForcedInv
<1> SUFFICES ASSUME Init PROVE ForcedInv
  OBVIOUS
<1>1. Alone /\ Known
  BY KindsAssumption DEF Init, Alone, Known
<1>2. Held /\ Asked /\ Holder
  BY DEF Init, Held, Asked, Holder
<1> QED
  BY <1>1, <1>2, TypeInit DEF ForcedInv

\* The invariant is inductive.
LEMMA ForcedNext ==
    ASSUME OneForced, ForcedInv, [Next]_vars
    PROVE  ForcedInv'
<1>0. TypeInv /\ TypeInv' /\ Alone /\ Known /\ Held /\ Asked /\ Holder
  BY TypeNext DEF ForcedInv
<1> USE <1>0, KindsAssumption
    DEF OneForced, TypeInv, TypeOK, Engaged, Conns, Web, Exists, Statuses,
        db, conn, force, watch, lock, clean, host
<1>1. ASSUME NEW s \in Sessions, Create(s) PROVE ForcedInv'
  <2>1. Known' /\ Held' /\ Asked' /\ Holder'
    BY <1>1 DEF Create, Known, Registered, Held, Asked, Holder
  <2>2. Alone'
    BY <1>1 DEF Create, Alone
  <2> QED
    BY <2>1, <2>2 DEF ForcedInv
<1>2. ASSUME NEW s \in Sessions, DeleteByIds(s) PROVE ForcedInv'
  <2>1. Known' /\ Held' /\ Asked' /\ Holder'
    BY <1>2 DEF DeleteByIds, DeleteRow, Known, Registered, Held, Asked, Holder
  <2>2. Alone'
    BY <1>2 DEF DeleteByIds, DeleteRow, Alone
  <2> QED
    BY <2>1, <2>2 DEF ForcedInv
<1>3. ASSUME NEW c \in Conns, NEW s \in Sessions, Attach(c, s)
      PROVE  ForcedInv'
  <2>1. Alone'
    BY <1>3 DEF Attach, Goto, Alone
  <2>2. Known'
    BY <1>3 DEF Attach, Goto, Known, Alone, Registered
  <2>3. Held'
    BY <1>3 DEF Attach, Goto, Held, Alone, Registered
  <2>4. Asked'
    BY <1>3 DEF Attach, Goto, Asked, Alone, Known, Registered
  <2>5. Holder'
    BY <1>3 DEF Attach, Goto, Holder, Alone
  <2> QED
    BY <2>1, <2>2, <2>3, <2>4, <2>5 DEF ForcedInv
<1>4. ASSUME NEW c \in Conns, NEW s \in Sessions, OpenShell(c, s)
      PROVE  ForcedInv'
  <2>1. Alone'
    BY <1>4 DEF OpenShell, Goto, Alone
  <2>2. Known'
    BY <1>4 DEF OpenShell, Goto, Known, Alone, Registered
  <2>3. Held'
    BY <1>4 DEF OpenShell, Goto, Held, Alone, Registered
  <2>4. Asked'
    BY <1>4 DEF OpenShell, Goto, Asked, Alone, Known, Registered
  <2>5. Holder'
    BY <1>4 DEF OpenShell, Goto, Holder, Alone
  <2> QED
    BY <2>1, <2>2, <2>3, <2>4, <2>5 DEF ForcedInv
<1>5. ASSUME NEW c \in Conns, Dial(c) PROVE ForcedInv'
  <2>1. Alone'
    BY <1>5 DEF Dial, Goto, Alone
  <2>2. Known'
    BY <1>5 DEF Dial, Goto, Known, Alone, Registered
  <2>3. Held'
    BY <1>5 DEF Dial, Goto, Held, Alone, Registered
  <2>4. Asked'
    BY <1>5 DEF Dial, Goto, Asked, Alone, Known, Registered
  <2>5. Holder'
    BY <1>5 DEF Dial, Goto, Holder, Alone, Known, Asked, Registered
  <2> QED
    BY <2>1, <2>2, <2>3, <2>4, <2>5 DEF ForcedInv
<1>6. ASSUME NEW c \in Conns, DialFails(c) PROVE ForcedInv'
  <2>1. Alone'
    BY <1>6 DEF DialFails, GiveUp, Goto, Alone
  <2>2. Known'
    BY <1>6 DEF DialFails, GiveUp, Goto, Known, Alone, Registered
  <2>3. Held'
    BY <1>6 DEF DialFails, GiveUp, Goto, Held, Alone, Registered
  <2>4. Asked'
    BY <1>6 DEF DialFails, GiveUp, Goto, Asked, Alone, Known, Registered
  <2>5. Holder'
    BY <1>6, SMTT(30) DEF DialFails, GiveUp, Goto, Holder, Alone, Known, Asked,
       Registered
  <2> QED
    BY <2>1, <2>2, <2>3, <2>4, <2>5 DEF ForcedInv
<1>7. ASSUME NEW c \in Conns, Store(c) PROVE ForcedInv'
  <2>1. Alone'
    BY <1>7 DEF Store, SetStatus, Goto, Alone
  <2>2. Known'
    BY <1>7 DEF Store, SetStatus, Goto, Known, Alone, Registered
  <2>3. Held'
    BY <1>7 DEF Store, SetStatus, Goto, Held, Alone, Registered
  <2>4. Asked'
    BY <1>7 DEF Store, SetStatus, Goto, Asked, Alone, Known, Registered
  <2>5. Holder'
    BY <1>7 DEF Store, SetStatus, Goto, Holder, Alone
  <2> QED
    BY <2>1, <2>2, <2>3, <2>4, <2>5 DEF ForcedInv
<1>8. ASSUME NEW c \in Conns, StoreFails(c) PROVE ForcedInv'
  <2>1. Alone'
    BY <1>8 DEF StoreFails, GiveUp, Goto, Alone
  <2>2. Known'
    BY <1>8 DEF StoreFails, GiveUp, Goto, Known, Alone, Registered
  <2>3. Held'
    BY <1>8 DEF StoreFails, GiveUp, Goto, Held, Alone, Registered
  <2>4. Asked'
    BY <1>8 DEF StoreFails, GiveUp, Goto, Asked, Alone, Known, Registered
  <2>5. Holder'
    BY <1>8 DEF StoreFails, GiveUp, Goto, Holder, Alone
  <2> QED
    BY <2>1, <2>2, <2>3, <2>4, <2>5 DEF ForcedInv
<1>9. ASSUME NEW c \in Conns, Announce(c) PROVE ForcedInv'
  <2>1. Alone'
    BY <1>9 DEF Announce, GiveUp, Goto, Alone
  <2>2. Known'
    BY <1>9 DEF Announce, GiveUp, Goto, Known, Alone, Registered
  <2>3. Held'
    BY <1>9 DEF Announce, GiveUp, Goto, Held, Alone, Registered
  <2>4. Asked'
    BY <1>9 DEF Announce, GiveUp, Goto, Asked, Alone, Known, Registered
  <2>5. Holder'
    BY <1>9 DEF Announce, GiveUp, Goto, Holder, Alone
  <2> QED
    BY <2>1, <2>2, <2>3, <2>4, <2>5 DEF ForcedInv
<1>10. ASSUME NEW c \in Conns, Register(c) PROVE ForcedInv'
  <2>1. Alone'
    BY <1>10 DEF Register, Add, Goto, Alone
  <2>2. Known'
    BY <1>10 DEF Register, Add, Goto, Known, Alone, Registered
  <2>3. Held'
    BY <1>10 DEF Register, Add, Goto, Held, Alone, Registered
  <2>4. Asked'
    BY <1>10 DEF Register, Add, Goto, Asked, Alone, Known, Registered
  <2>5. Holder'
    BY <1>10 DEF Register, Add, Goto, Holder, Alone, Held, Registered
  <2> QED
    BY <2>1, <2>2, <2>3, <2>4, <2>5 DEF ForcedInv
<1>11. ASSUME NEW c \in Conns, ReadFails(c) PROVE ForcedInv'
  <2>1. Alone'
    BY <1>11 DEF ReadFails, Goto, Alone
  <2>2. Known'
    BY <1>11 DEF ReadFails, Goto, Known, Alone, Registered
  <2>3. Held'
    BY <1>11 DEF ReadFails, Goto, Held, Alone, Registered
  <2>4. Asked'
    BY <1>11 DEF ReadFails, Goto, Asked, Alone, Known, Registered
  <2>5. Holder'
    BY <1>11 DEF ReadFails, Goto, Holder, Alone
  <2> QED
    BY <2>1, <2>2, <2>3, <2>4, <2>5 DEF ForcedInv
<1>12. ASSUME NEW c \in Conns, WriteFails(c) PROVE ForcedInv'
  <2>1. Alone'
    BY <1>12 DEF WriteFails, Goto, Alone
  <2>2. Known'
    BY <1>12 DEF WriteFails, Goto, Known, Alone, Registered
  <2>3. Held'
    BY <1>12 DEF WriteFails, Goto, Held, Alone, Registered
  <2>4. Asked'
    BY <1>12 DEF WriteFails, Goto, Asked, Alone, Known, Registered
  <2>5. Holder'
    BY <1>12 DEF WriteFails, Goto, Holder, Alone
  <2> QED
    BY <2>1, <2>2, <2>3, <2>4, <2>5 DEF ForcedInv
<1>13. ASSUME NEW c \in Conns, WaitReturns(c) PROVE ForcedInv'
  <2>1. Alone'
    BY <1>13 DEF WaitReturns, Goto, Alone
  <2>2. Known'
    BY <1>13 DEF WaitReturns, Goto, Known, Alone, Registered
  <2>3. Held'
    BY <1>13 DEF WaitReturns, Goto, Held, Alone, Registered
  <2>4. Asked'
    BY <1>13 DEF WaitReturns, Goto, Asked, Alone, Known, Registered
  <2>5. Holder'
    BY <1>13 DEF WaitReturns, Goto, Holder, Alone
  <2> QED
    BY <2>1, <2>2, <2>3, <2>4, <2>5 DEF ForcedInv
<1>14. ASSUME NEW c \in Conns, WinChCloses(c) \/ Leave(c) PROVE ForcedInv'
  <2>1. Alone' /\ Known' /\ Held' /\ Asked' /\ Holder'
    BY <1>14 DEF WinChCloses, Leave, Alone, Known, Registered, Held, Asked,
       Holder
  <2> QED
    BY <2>1 DEF ForcedInv
<1>15. ASSUME NEW c \in Conns, Connect(c) PROVE ForcedInv'
  <2>1. Known' /\ Held' /\ Asked' /\ Holder'
    BY <1>15 DEF Connect, SetStatus, Known, Registered, Held, Asked, Holder
  <2>2. Alone'
    BY <1>15 DEF Connect, SetStatus, Alone
  <2> QED
    BY <2>1, <2>2 DEF ForcedInv
<1>16. ASSUME NEW a \in Admins, NEW s \in Sessions, AskDisconnect(a, s)
      PROVE  ForcedInv'
  <2>1. Alone' /\ Known' /\ Held'
    BY <1>16 DEF AskDisconnect, Alone, Known, Registered, Held
  <2>2. Asked'
    BY <1>16 DEF AskDisconnect, Asked, Alone, Known, Registered
  <2>3. Holder'
    BY <1>16 DEF AskDisconnect, Holder, Alone
  <2> QED
    BY <2>1, <2>2, <2>3 DEF ForcedInv
<1>17. CASE CloseTake
  <2>1. Alone' /\ Known'
    BY <1>17, CloseTakes DEF Alone, Known, Registered
  <2>2. Held'
    BY <1>17, CloseTakes DEF Held, Alone, Registered
  <2>3. Asked'
    BY <1>17, CloseTakes DEF Asked, Alone, Known, Registered
  <2>4. Holder'
    BY <1>17, CloseTakes DEF Holder, Taken, Asked, Alone, Known
  <2> QED
    BY <2>1, <2>2, <2>3, <2>4 DEF ForcedInv
<1>18. CASE CloseForget
  <2>1. Alone' /\ Held'
    BY <1>18 DEF CloseForget, Alone, Held, Registered
  <2>2. Known'
    BY <1>18 DEF CloseForget, Known, Registered
  <2>3. Asked'
    BY <1>18 DEF CloseForget, Asked, Holder, Registered, OneForced
  <2>4. Holder'
    BY <1>18 DEF CloseForget, Holder, Alone
  <2> QED
    BY <2>1, <2>2, <2>3, <2>4 DEF ForcedInv
<1>19. CASE CloseRead
  <2>1. Alone' /\ Known' /\ Held' /\ Asked'
    BY <1>19 DEF CloseRead, Alone, Known, Registered, Held, Asked
  <2>2. Holder'
    BY <1>19 DEF CloseRead, Holder, Alone
  <2> QED
    BY <2>1, <2>2 DEF ForcedInv
<1>20. CASE CloseWrite
  <2>1. Alone'
    BY <1>20, SMTT(30) DEF CloseWrite, DisDBSess, SetStatus, DeleteRow, Return,
       Release, Alone, Holder
  <2>2. Known'
    BY <1>20, SMTT(30) DEF CloseWrite, DisDBSess, SetStatus, DeleteRow, Return,
       Release, Known, Holder, Registered
  <2>3. Held'
    BY <1>20, SMTT(30) DEF CloseWrite, DisDBSess, SetStatus, DeleteRow, Return,
       Release, Held, Holder, Registered
  <2>4. Asked'
    BY <1>20, SMTT(30) DEF CloseWrite, DisDBSess, SetStatus, DeleteRow, Return,
       Release, Asked, Holder, Registered
  <2>5. Holder'
    BY <1>20, SMTT(30) DEF CloseWrite, DisDBSess, SetStatus, DeleteRow, Return,
       Release, Holder
  <2> QED
    BY <2>1, <2>2, <2>3, <2>4, <2>5 DEF ForcedInv
<1>21. ASSUME NEW m \in Monitors, NEW s \in Sessions, NEW d \in BOOLEAN,
              MonitorCheck(m, s, d)
      PROVE  ForcedInv'
  <2>1. Alone' /\ Known' /\ Asked'
    BY <1>21 DEF MonitorCheck, Alone, Known, Registered, Asked
  <2>2. Held'
    BY <1>21 DEF MonitorCheck, Held, Alone, Registered
  <2>3. Holder'
    BY <1>21 DEF MonitorCheck, Holder, Alone
  <2> QED
    BY <2>1, <2>2, <2>3 DEF ForcedInv
<1>22. ASSUME NEW m \in Monitors, MonitorLoad(m) PROVE ForcedInv'
  <2>1. Alone' /\ Known' /\ Asked'
    BY <1>22 DEF MonitorLoad, Alone, Known, Registered, Asked
  <2>2. Held'
    BY <1>22 DEF MonitorLoad, Held, Known, Registered
  <2>3. Holder'
    BY <1>22 DEF MonitorLoad, Holder, Alone
  <2> QED
    BY <2>1, <2>2, <2>3 DEF ForcedInv
<1>23. ASSUME NEW m \in Monitors, MonitorJoin(m) PROVE ForcedInv'
  <2>1. Alone' /\ Known' /\ Asked'
    BY <1>23 DEF MonitorJoin, Alone, Known, Registered, Asked
  <2>2. Held'
    BY <1>23 DEF MonitorJoin, Held, Alone, Registered
  <2>3. Holder'
    BY <1>23 DEF MonitorJoin, Holder, Alone
  <2> QED
    BY <2>1, <2>2, <2>3 DEF ForcedInv
<1>24. ASSUME NEW m \in Monitors, MonitorLeave(m) PROVE ForcedInv'
  <2>1. Alone' /\ Known' /\ Asked'
    BY <1>24 DEF MonitorLeave, Alone, Known, Registered, Asked
  <2>2. Held'
    BY <1>24 DEF MonitorLeave, Held, Alone, Registered
  <2>3. Holder'
    BY <1>24 DEF MonitorLeave, Holder, Alone
  <2> QED
    BY <2>1, <2>2, <2>3 DEF ForcedInv
<1>25. CASE SweepUnused \/ SweepOffline
  <2>1. Alone' /\ Known' /\ Held' /\ Asked' /\ Holder'
    BY <1>25 DEF SweepUnused, SweepOffline, Alone, Known, Registered, Held,
       Asked, Holder
  <2> QED
    BY <2>1 DEF ForcedInv
<1>26. ASSUME NEW s \in Sessions, NEW why \in {"unused", "offline"},
              SweepDelete(s, why)
      PROVE  ForcedInv'
  <2>1. Known' /\ Held' /\ Asked' /\ Holder'
    BY <1>26 DEF SweepDelete, DeleteRow, Known, Registered, Held, Asked, Holder
  <2>2. Alone'
    BY <1>26 DEF SweepDelete, DeleteRow, Alone
  <2> QED
    BY <2>1, <2>2 DEF ForcedInv
<1>27. CASE Crash
  <2>1. Alone'
    BY <1>27 DEF Crash, Release, Alone
  <2>2. Known'
    BY <1>27 DEF Crash, Release, Known, Alone, Registered
  <2>3. Held'
    BY <1>27 DEF Crash, Release, Held, Alone, Registered
  <2>4. Asked'
    BY <1>27 DEF Crash, Release, Asked, Alone, Known, Registered
  <2>5. Holder'
    BY <1>27 DEF Crash, Release, Holder, Alone
  <2> QED
    BY <2>1, <2>2, <2>3, <2>4, <2>5 DEF ForcedInv
<1>28. CASE Boot
  <2>1. Known' /\ Held' /\ Asked' /\ Holder'
    BY <1>28 DEF Boot, Known, Registered, Held, Asked, Holder
  <2>2. Alone'
    BY <1>28 DEF Boot, Alone
  <2> QED
    BY <2>1, <2>2 DEF ForcedInv
<1>29. CASE UNCHANGED vars
  <2>1. Alone' /\ Known' /\ Held' /\ Asked' /\ Holder'
    BY <1>29 DEF vars, Alone, Known, Registered, Held, Asked, Holder
  <2> QED
    BY <2>1 DEF ForcedInv
<1>30. CASE CloseMessagePanics \/ \E c \in Conns : PongPanics(c)
  <2>1. Alone'
    BY <1>30, Panics DEF Alone
  <2>2. Known'
    BY <1>30, Panics DEF Known, Registered
  <2>3. Held'
    BY <1>30, Panics DEF Held, Registered
  <2>4. Asked'
    BY <1>30, Panics DEF Asked, Registered
  <2>5. Holder'
    BY <1>30, Panics DEF Holder
  <2> QED
    BY <2>1, <2>2, <2>3, <2>4, <2>5 DEF ForcedInv
<1> HIDE <1>0 DEF TypeInv, TypeOK, Engaged, Conns, Web, Exists, Statuses,
         db, conn, force, watch, lock, clean, host
<1> QED
  BY <1>1, <1>2, <1>3, <1>4, <1>5, <1>6, <1>7, <1>8, <1>9, <1>10, <1>11, <1>12,
     <1>13, <1>14, <1>15, <1>16, <1>17, <1>18, <1>19, <1>20, <1>21, <1>22,
     <1>23, <1>24, <1>25, <1>26, <1>27, <1>28, <1>29, <1>30 DEF Next, Endpoint,
     CloseSession

\* When a forced disconnect has returned, the connection of a browser that it
\* was asked for has lost its backend, whoever else closed it meanwhile.
THEOREM ForcedCloses ==
    ASSUME OneForced PROVE Spec => []ForcedDisconnectCloses
<1>1. ForcedInv /\ [Next]_vars => ForcedInv'
  BY ForcedNext
<1>2. ForcedInv => ForcedDisconnectCloses
  BY DEF ForcedInv, Asked, ForcedDisconnectCloses
<1> QED
  BY <1>1, <1>2, ForcedInit, PTL DEF Spec

=============================================================================
