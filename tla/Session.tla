------------------------------ MODULE Session ------------------------------
(***************************************************************************)
(* The life of a remote session: the sessions table, the in-memory         *)
(* GlobalSessionManager, the goroutines that serve a session (the web      *)
(* terminal, the guacd display and the SSH terminal server), the requests  *)
(* of administrators and of monitors, the hourly cleaner and a restart of  *)
(* the server.                                                             *)
(*                                                                         *)
(* One connection is one run of SshEndpoint, Guacamole or                  *)
(* handleAccessAsset.  CloseSessionById runs under a global mutex; nothing *)
(* else does, so a close is four steps that every other action may         *)
(* interleave with.                                                        *)
(***************************************************************************)
EXTENDS Naturals

CONSTANTS
    Sessions,   \* ids of the rows of the sessions table
    Terms,      \* connections served by WebTerminalApi.SshEndpoint
    Guacs,      \* connections served by GuacamoleApi.Guacamole
    Shells,     \* connections served by the SSH server, Gui.handleAccessAsset
    Admins,     \* forced disconnect requests
    Monitors,   \* monitoring requests
    Reattach,   \* may a session be attached more than once?
    MaxSweeps,  \* bound on the runs of the cleaners
    MaxCrashes, \* bound on the restarts of the server
    NoOne       \* not a connection, a session or an administrator

Conns == Terms \cup Guacs \cup Shells
Web   == Terms \cup Guacs

ASSUME KindsAssumption ==
    /\ Terms \cap Guacs = {}
    /\ Terms \cap Shells = {}
    /\ Guacs \cap Shells = {}
    /\ NoOne \notin Conns \cup Sessions \cup Admins \cup Monitors
ASSUME BoundsAssumption ==
    /\ Reattach \in BOOLEAN
    /\ MaxSweeps \in Nat
    /\ MaxCrashes \in Nat

VARIABLES
    row,      \* status column of each session, or that there is no such row
    dated,    \* connected_time is set
    secret,   \* the row holds the credentials of the asset
    entry,    \* GlobalSessionManager: the connection registered for a session
    pc,       \* where the goroutine of a connection is
    sess,     \* the session a connection serves
    backend,  \* its SSH client or guacd tunnel
    peer,     \* its websocket (Terms, Guacs) or SSH channel (Shells)
    post,     \* the browser's POST /sessions/:id/connect
    winCh,    \* the goroutine of a Shell that waits for winCh to close
    adm,      \* where a forced disconnect request is
    admS,     \* the session it names
    admSaw,   \* the connection that was registered when it came
    mon,      \* where a monitoring request is
    monS,     \* the session it names
    monOf,    \* the connection it found registered
    display,  \* is it for a display (GuacamoleMonitor)?
    mutex,    \* the mutex of CloseSessionById: free, or what its holder has done
    kind,     \* what kind of caller holds it,
    caller,   \* which one,
    target,   \* the session it closes
    seen,     \* and the status it read
    doomed,   \* rows a cleaner has listed and not yet deleted
    sweeps,   \* runs of the cleaners so far
    up,       \* is the server running?
    crashes   \* restarts so far

db    == <<row, dated, secret>>
conn  == <<pc, sess, backend, peer, post, winCh>>
clean == <<doomed, sweeps>>
host  == <<up, crashes>>
force == <<adm, admS, admSaw>>
watch == <<mon, monS, monOf, display>>
lock  == <<mutex, kind, caller, target, seen>>
vars  == <<db, entry, conn, force, watch, lock, clean, host>>

Statuses == {"no_connect", "connecting", "connected", "disconnected"}
Exists(s) == row[s] \in Statuses

TypeOK ==
    /\ row \in [Sessions -> Statuses \cup {"absent", "deleted"}]
    /\ dated \in [Sessions -> BOOLEAN]
    /\ secret \in [Sessions -> BOOLEAN]
    /\ entry \in [Sessions -> Conns \cup {NoOne}]
    /\ pc \in [Conns -> {"idle", "dialing", "opened", "stored", "announced",
                         "serving", "breaking", "closing", "done", "failed",
                         "panicked"}]
    /\ sess \in [Conns -> Sessions \cup {NoOne}]
    /\ backend \in [Conns -> {"none", "open", "closed"}]
    /\ peer \in [Conns -> {"open", "closed"}]
    /\ post \in [Conns -> {"none", "due", "sent"}]
    /\ winCh \in [Conns -> {"off", "on", "closing", "done"}]
    /\ adm \in [Admins -> {"idle", "asked", "done", "failed"}]
    /\ admS \in [Admins -> Sessions \cup {NoOne}]
    /\ admSaw \in [Admins -> Conns \cup {NoOne}]
    /\ mon \in [Monitors -> {"idle", "checked", "holding", "watching",
                             "closing", "done", "failed"}]
    /\ monS \in [Monitors -> Sessions \cup {NoOne}]
    /\ monOf \in [Monitors -> Conns \cup {NoOne}]
    /\ display \in [Monitors -> BOOLEAN]
    /\ mutex \in {"free", "taken", "forgotten", "read"}
    /\ kind \in {"main", "winCh", "admin", "monitor"}
    /\ caller \in Conns \cup Admins \cup Monitors \cup {NoOne}
    /\ target \in Sessions \cup {NoOne}
    /\ seen \in Statuses \cup {"absent", "deleted"}
    /\ doomed \in SUBSET (Sessions \X {"unused", "offline"})
    /\ sweeps \in 0..MaxSweeps
    /\ up \in BOOLEAN
    /\ crashes \in 0..MaxCrashes

Init ==
    /\ row = [s \in Sessions |-> "absent"]
    /\ dated = [s \in Sessions |-> FALSE]
    /\ secret = [s \in Sessions |-> FALSE]
    /\ entry = [s \in Sessions |-> NoOne]
    /\ pc = [c \in Conns |-> "idle"]
    /\ sess = [c \in Conns |-> NoOne]
    /\ backend = [c \in Conns |-> "none"]
    /\ peer = [c \in Conns |-> "open"]
    /\ post = [c \in Conns |-> "none"]
    /\ winCh = [c \in Conns |-> "off"]
    /\ adm = [a \in Admins |-> "idle"]
    /\ admS = [a \in Admins |-> NoOne]
    /\ admSaw = [a \in Admins |-> NoOne]
    /\ mon = [m \in Monitors |-> "idle"]
    /\ monS = [m \in Monitors |-> NoOne]
    /\ monOf = [m \in Monitors |-> NoOne]
    /\ display = [m \in Monitors |-> FALSE]
    /\ mutex = "free"
    /\ kind = "main"
    /\ caller = NoOne
    /\ target = NoOne
    /\ seen = "absent"
    /\ doomed = {}
    /\ sweeps = 0
    /\ up = TRUE
    /\ crashes = 0

-----------------------------------------------------------------------------
(* The sessions table.                                                     *)

\* Mutant: gorm's Save, which inserts the row it does not find.
SaveStatus(s, status) == row' = [row EXCEPT ![s] = status]

\* gorm's Updates: no row, no update and no error
SetStatus(s, status) ==
    row' = IF Exists(s) THEN [row EXCEPT ![s] = status] ELSE row

SetDated(s) ==
    dated' = IF Exists(s) THEN [dated EXCEPT ![s] = TRUE] ELSE dated

DeleteRow(s) ==
    /\ row' = IF Exists(s) THEN [row EXCEPT ![s] = "deleted"] ELSE row
    /\ secret' = [secret EXCEPT ![s] = FALSE]

\* sessionService.Create, once the asset and the permission were found
Create(s) ==
    /\ up
    /\ row[s] = "absent"
    /\ row' = [row EXCEPT ![s] = "no_connect"]
    /\ secret' = [secret EXCEPT ![s] = TRUE]
    /\ UNCHANGED <<dated, entry, conn, force, watch, lock, clean, host>>

-----------------------------------------------------------------------------
(* The goroutine that serves a connection.                                 *)

Goto(c, at) == pc' = [pc EXCEPT ![c] = at]

\* an early return or a panic that echo recovers; SshEndpoint has deferred
\* ws.Close, Guacamole has not
GiveUp(c, as) ==
    /\ Goto(c, as)
    /\ peer' = IF c \in Terms THEN [peer EXCEPT ![c] = "closed"] ELSE peer

\* the row is read and decrypted; its status is not looked at.  Browsers do
\* not know the sessions of the SSH server
Attach(c, s) ==
    /\ up
    /\ c \in Web
    /\ pc[c] = "idle"
    /\ \A d \in Conns : sess[d] = s => Reattach /\ d \in Web
    /\ Exists(s)
    /\ Goto(c, "dialing")
    /\ sess' = [sess EXCEPT ![c] = s]
    /\ UNCHANGED <<db, entry, backend, peer, post, winCh, force, watch, lock,
                   clean, host>>

\* Gui.createSession: the SSH server creates the row and serves it at once
OpenShell(c, s) ==
    /\ up
    /\ c \in Shells
    /\ pc[c] = "idle"
    /\ row[s] = "absent"
    /\ row' = [row EXCEPT ![s] = "no_connect"]
    /\ secret' = [secret EXCEPT ![s] = TRUE]
    /\ Goto(c, "dialing")
    /\ sess' = [sess EXCEPT ![c] = s]
    /\ UNCHANGED <<dated, entry, backend, peer, post, winCh, force, watch, lock,
                   clean, host>>

\* NewNextTerminal or guacamole.NewTunnel
Dial(c) ==
    /\ pc[c] = "dialing"
    /\ Goto(c, "opened")
    /\ backend' = [backend EXCEPT ![c] = "open"]
    /\ winCh' = IF c \in Shells THEN [winCh EXCEPT ![c] = "on"] ELSE winCh
    /\ UNCHANGED <<db, entry, sess, peer, post, force, watch, lock, clean, host>>

\* an early return: nothing was opened, or RequestPty or Shell failed and the
\* SSH client that was opened is left as it is; before the window goroutine
DialFails(c) ==
    /\ pc[c] = "dialing"
    /\ GiveUp(c, "failed")
    /\ \E b \in {"none", "open"} : backend' = [backend EXCEPT ![c] = b]
    /\ UNCHANGED <<db, entry, sess, post, winCh, force, watch, lock, clean, host>>

\* Mutant: the id is stored where the session belongs.
AddId(c) == entry' = [entry EXCEPT ![sess[c]] = sess[c]]

\* GlobalSessionManager.Add: a registered session is overwritten
Add(c) == entry' = [entry EXCEPT ![sess[c]] = c]

Register(c) ==
    /\ \/ c \in Terms /\ pc[c] = "announced" /\ Goto(c, "serving")
       \/ c \in Guacs /\ pc[c] = "opened" /\ Goto(c, "stored")
       \/ c \in Shells /\ pc[c] = "stored" /\ Goto(c, "serving")
    /\ Add(c)
    /\ UNCHANGED <<db, sess, backend, peer, post, winCh, force, watch, lock,
                   clean, host>>

\* a browser that is still there will report that it is connected
Tell(c) == post' = IF peer[c] = "open" THEN [post EXCEPT ![c] = "due"] ELSE post

\* SshEndpoint and handleAccessAsset write the row before they register,
\* Guacamole after it; Guacamole's display then starts, which tells the browser
Store(c) ==
    \/ /\ c \in Terms /\ pc[c] = "opened"
       /\ Goto(c, "stored")
       /\ SetStatus(sess[c], "connecting")
       /\ UNCHANGED <<dated, secret, entry, sess, backend, peer, post, winCh,
                      force, watch, lock, clean, host>>
    \/ /\ c \in Guacs /\ pc[c] = "stored"
       /\ Goto(c, "serving")
       /\ SetStatus(sess[c], "connecting")
       /\ Tell(c)
       /\ UNCHANGED <<dated, secret, entry, sess, backend, peer, winCh, force,
                      watch, lock, clean, host>>
    \/ /\ c \in Shells /\ pc[c] = "opened"
       /\ Goto(c, "stored")
       /\ SetStatus(sess[c], "connected")
       /\ SetDated(sess[c])
       /\ UNCHANGED <<secret, entry, sess, backend, peer, post, winCh, force,
                      watch, lock, clean, host>>

\* UpdateById returns an error: the endpoint returns and closes nothing
StoreFails(c) ==
    /\ \/ c \in Terms \cup Shells /\ pc[c] = "opened"
       \/ c \in Guacs /\ pc[c] = "stored"
    /\ GiveUp(c, "failed")
    /\ UNCHANGED <<db, entry, sess, backend, post, winCh, force, watch, lock,
                   clean, host>>

\* the Connected message of SshEndpoint: on an error the endpoint returns
Announce(c) ==
    /\ c \in Terms
    /\ pc[c] = "stored"
    /\ \/ /\ Goto(c, "announced")
          /\ Tell(c)
          /\ UNCHANGED peer
       \/ /\ peer[c] = "closed"
          /\ GiveUp(c, "failed")
          /\ UNCHANGED post
    /\ UNCHANGED <<db, entry, sess, backend, winCh, force, watch, lock, clean,
                   host>>

\* the browser's tab or the user's SSH client goes away
Leave(c) ==
    /\ up
    /\ peer[c] = "open"
    /\ pc[c] # "idle"
    /\ peer' = [peer EXCEPT ![c] = "closed"]
    /\ UNCHANGED <<db, entry, pc, sess, backend, post, winCh, force, watch, lock,
                   clean, host>>

\* ReadMessage fails once the websocket is closed, by the browser or by Close;
\* Guacamole closes its own tunnel before it asks for the session to be closed
ReadFails(c) ==
    /\ c \in Web
    /\ pc[c] = "serving"
    /\ peer[c] = "closed"
    /\ Goto(c, "closing")
    /\ backend' = IF c \in Guacs THEN [backend EXCEPT ![c] = "closed"]
                                 ELSE backend
    /\ UNCHANGED <<db, entry, sess, peer, post, winCh, force, watch, lock, clean,
                   host>>

\* the asset is gone: input or a ping cannot be written.  SshEndpoint closes
\* the session and reads on, Guacamole closes it and returns
WriteFails(c) ==
    /\ c \in Web
    /\ pc[c] = "serving"
    /\ peer[c] = "open"
    /\ Goto(c, IF c \in Terms THEN "breaking" ELSE "closing")
    /\ UNCHANGED <<db, entry, sess, backend, peer, post, winCh, force, watch,
                   lock, clean, host>>

\* sshSession.Wait: without an error the session is closed, with one (the
\* remote shell's exit status is not zero) handleAccessAsset just returns
WaitReturns(c) ==
    /\ c \in Shells
    /\ pc[c] = "serving"
    /\ \E at \in {"closing", "failed"} : Goto(c, at)
    /\ UNCHANGED <<db, entry, sess, backend, peer, post, winCh, force, watch,
                   lock, clean, host>>

\* the window goroutine of a Shell asks for the close when winCh is closed
WinChCloses(c) ==
    /\ winCh[c] = "on"
    /\ peer[c] = "closed"
    /\ winCh' = [winCh EXCEPT ![c] = "closing"]
    /\ UNCHANGED <<db, entry, pc, sess, backend, peer, post, force, watch, lock,
                   clean, host>>

\* SessionConnectEndpoint, which the browser calls once it is told
Connect(c) ==
    /\ up
    /\ post[c] = "due"
    /\ post' = [post EXCEPT ![c] = "sent"]
    /\ SetStatus(sess[c], "connected")
    /\ SetDated(sess[c])
    /\ UNCHANGED <<secret, entry, pc, sess, backend, peer, winCh, force, watch,
                   lock, clean, host>>

-----------------------------------------------------------------------------
(* CloseSessionById.  Each caller waits for the mutex.                     *)

\* SessionDisconnectEndpoint; admSaw is for the properties
AskDisconnect(a, s) ==
    /\ up
    /\ adm[a] = "idle"
    /\ Exists(s)
    /\ adm' = [adm EXCEPT ![a] = "asked"]
    /\ admS' = [admS EXCEPT ![a] = s]
    /\ admSaw' = [admSaw EXCEPT ![a] = entry[s]]
    /\ UNCHANGED <<db, entry, conn, watch, lock, clean, host>>

\* a connection's monitors are kicked: Observer.Clear.  A display whose tunnel
\* is closed while it writes asks for a close too: MonitorLeave just before
Kick(c) ==
    mon' = [m \in Monitors |->
                IF mon[m] = "watching" /\ monOf[m] = c THEN "done" ELSE mon[m]]

\* Mutant: only the websocket is closed.
CloseSocket(e) ==
    /\ peer' = IF e \in Web THEN [peer EXCEPT ![e] = "closed"] ELSE peer
    /\ UNCHANGED backend

\* Session.Close; a Shell has no websocket
Close(e) ==
    /\ backend' = [backend EXCEPT ![e] = "closed"]
    /\ peer' = IF e \in Web THEN [peer EXCEPT ![e] = "closed"] ELSE peer

\* the registered session is told, closed, and its observers with it
Take(k, id, s) ==
    /\ mutex = "free"
    /\ mutex' = "taken"
    /\ kind' = k
    /\ caller' = id
    /\ target' = s
    /\ LET e == entry[s] IN
       IF e = NoOne THEN UNCHANGED <<backend, peer, mon>>
       ELSE Close(e) /\ Kick(e)
    /\ UNCHANGED <<db, entry, pc, sess, post, winCh, force, monS, monOf, display,
                   seen, clean, host>>

CloseTake ==
    \/ \E c \in Conns : /\ pc[c] \in {"breaking", "closing"}
                        /\ Take("main", c, sess[c])
    \/ \E c \in Shells : winCh[c] = "closing" /\ Take("winCh", c, sess[c])
    \/ \E a \in Admins : adm[a] = "asked" /\ Take("admin", a, admS[a])
    \/ \E m \in Monitors : mon[m] = "closing" /\ Take("monitor", m, monS[m])

\* another goroutine may be in the middle of a write to a websocket the close
\* message goes to, the session's or that of a display that watches it: their
\* handlers and Session.WriteString have no mutex in common
Busy(s) ==
    \/ /\ entry[s] \in Web
       /\ pc[entry[s]] \in {"serving", "breaking", "closing", "panicked"}
    \/ /\ entry[s] # NoOne
       /\ \E m \in Monitors :
            /\ display[m] /\ monOf[m] = entry[s]
            /\ mon[m] \in {"watching", "closing", "failed"}

\* gorilla panics on the second of two writes at a time, here the close message:
\* the mutex is released, and nothing was closed, forgotten or written.  Echo
\* recovers the panic of a request; that of a Shell's goroutine is a Crash
CloseMessagePanics ==
    /\ mutex = "free"
    /\ \/ /\ \E c \in Web : /\ pc[c] \in {"breaking", "closing"}
                           /\ Busy(sess[c])
                           /\ GiveUp(c, "panicked")
          /\ UNCHANGED <<adm, mon>>
       \/ /\ \E a \in Admins : /\ adm[a] = "asked"
                              /\ Busy(admS[a])
                              /\ adm' = [adm EXCEPT ![a] = "failed"]
          /\ UNCHANGED <<pc, peer, mon>>
       \/ /\ \E m \in Monitors : /\ mon[m] = "closing"
                                /\ Busy(monS[m])
                                /\ mon' = [mon EXCEPT ![m] = "failed"]
          /\ UNCHANGED <<pc, peer, adm>>
    /\ UNCHANGED <<db, entry, sess, backend, post, winCh, admS, admSaw, monS,
                   monOf, display, lock, clean, host>>

\* ... or the endpoint's answer to a ping, while another goroutine writes the
\* close message of its session.  A handler's goroutine that panics is a Crash
PongPanics(c) ==
    /\ c \in Terms
    /\ pc[c] = "serving"
    /\ entry[sess[c]] = c
    /\ mutex = "free"
    /\ \/ \E d \in Conns : pc[d] \in {"breaking", "closing"} /\ sess[d] = sess[c]
       \/ \E a \in Admins : adm[a] = "asked" /\ admS[a] = sess[c]
       \/ \E m \in Monitors : mon[m] = "closing" /\ monS[m] = sess[c]
    /\ GiveUp(c, "panicked")
    /\ UNCHANGED <<db, entry, sess, backend, post, winCh, force, watch, lock,
                   clean, host>>

\* Mutant: the entry stays.
CloseKeeps ==
    /\ mutex = "taken"
    /\ mutex' = "forgotten"
    /\ UNCHANGED <<db, entry, conn, force, watch, kind, caller, target, seen,
                   clean, host>>

\* sessions.Delete, whatever is registered by now
CloseForget ==
    /\ mutex = "taken"
    /\ mutex' = "forgotten"
    /\ entry' = [entry EXCEPT ![target] = NoOne]
    /\ UNCHANGED <<db, conn, force, watch, kind, caller, target, seen, clean,
                   host>>

\* DisDBSess reads the row ...
CloseRead ==
    /\ mutex = "forgotten"
    /\ mutex' = "read"
    /\ seen' = row[target]
    /\ UNCHANGED <<db, entry, conn, force, watch, kind, caller, target, clean,
                   host>>

\* Mutant: the transaction is rolled back, and its error is dropped.
DisRollsBack == UNCHANGED <<row, secret>>

\* Mutant: a session that was never established is kept as disconnected.
DisKeeps ==
    \/ seen \in {"absent", "deleted", "disconnected"} /\ UNCHANGED <<row, secret>>
    \/ /\ seen \in {"no_connect", "connecting", "connected"}
       /\ SetStatus(target, "disconnected")
       /\ secret' = [secret EXCEPT ![target] = FALSE]

\* Mutant: "" for the credentials instead of "-", which Updates skips.
DisBlanks ==
    \/ seen \in {"absent", "deleted", "disconnected"} /\ UNCHANGED <<row, secret>>
    \/ seen = "connecting" /\ DeleteRow(target)
    \/ /\ seen \in {"no_connect", "connected"}
       /\ SetStatus(target, "disconnected")
       /\ UNCHANGED secret

\* ... and writes what the status it read calls for
DisDBSess ==
    \/ seen \in {"absent", "deleted", "disconnected"} /\ UNCHANGED <<row, secret>>
    \/ seen = "connecting" /\ DeleteRow(target)
    \/ /\ seen \in {"no_connect", "connected"}
       /\ SetStatus(target, "disconnected")
       /\ secret' = [secret EXCEPT ![target] = FALSE]

\* Mutant: an early return for a row that is gone, without Unlock.
ReleaseForgets ==
    IF seen = "deleted" THEN UNCHANGED lock
    ELSE /\ mutex' = "free"
         /\ kind' = "main"
         /\ caller' = NoOne
         /\ target' = NoOne
         /\ seen' = "absent"

\* what its holder knew is of no use to the next one
Release ==
    /\ mutex' = "free"
    /\ kind' = "main"
    /\ caller' = NoOne
    /\ target' = NoOne
    /\ seen' = "absent"

\* the caller goes on, and the mutex is released
Return ==
    /\ pc' = IF kind = "main"
             THEN [pc EXCEPT ![caller] =
                     IF pc[caller] = "breaking" THEN "serving" ELSE "done"]
             ELSE pc
    /\ winCh' = IF kind = "winCh" THEN [winCh EXCEPT ![caller] = "done"] ELSE winCh
    /\ adm' = IF kind = "admin" THEN [adm EXCEPT ![caller] = "done"] ELSE adm
    /\ mon' = IF kind = "monitor" THEN [mon EXCEPT ![caller] = "done"] ELSE mon
    /\ Release

CloseWrite ==
    /\ mutex = "read"
    /\ DisDBSess
    /\ Return
    /\ UNCHANGED <<dated, entry, sess, backend, peer, post, admS, admSaw, monS,
                   monOf, display, clean, host>>

-----------------------------------------------------------------------------
(* Monitors: SshMonitorEndpoint and GuacamoleMonitor.                      *)

\* the row is found; a display must also be connected, and opens a guacd
\* tunnel of its own that joins the session's
MonitorCheck(m, s, d) ==
    /\ up
    /\ mon[m] = "idle"
    /\ Exists(s)
    /\ d => row[s] = "connected"
    /\ mon' = [mon EXCEPT ![m] = "checked"]
    /\ monS' = [monS EXCEPT ![m] = s]
    /\ display' = [display EXCEPT ![m] = d]
    /\ UNCHANGED <<db, entry, conn, force, monOf, lock, clean, host>>

\* the registered session is looked up
MonitorLoad(m) ==
    /\ mon[m] = "checked"
    /\ mon' = [mon EXCEPT ![m] =
                 IF entry[monS[m]] = NoOne THEN "done" ELSE "holding"]
    /\ monOf' = [monOf EXCEPT ![m] = entry[monS[m]]]
    /\ UNCHANGED <<db, entry, conn, force, monS, display, lock, clean, host>>

\* Observer.Add on the session that was looked up
MonitorJoin(m) ==
    /\ mon[m] = "holding"
    /\ mon' = [mon EXCEPT ![m] = "watching"]
    /\ UNCHANGED <<db, entry, conn, force, monS, monOf, display, lock, clean,
                   host>>

\* the monitor's own browser leaves: Observer.Del.  When what it sends cannot
\* be written to its tunnel, GuacamoleMonitor closes the session it watches
MonitorLeave(m) ==
    /\ mon[m] = "watching"
    /\ \/ mon' = [mon EXCEPT ![m] = "done"]
       \/ display[m] /\ mon' = [mon EXCEPT ![m] = "closing"]
    /\ UNCHANGED <<db, entry, conn, force, monS, monOf, display, lock, clean,
                   host>>

-----------------------------------------------------------------------------
(* The cleaners: deleteUnUsedSession (hourly), and deleteOutTimeSession and *)
(* SessionClearEndpoint, which delete rows they found disconnected.        *)

\* connected_time is more than an hour ago: always so when it was never set
SweepUnused ==
    /\ up
    /\ sweeps < MaxSweeps
    /\ sweeps' = sweeps + 1
    /\ \E old \in SUBSET {s \in Sessions : dated[s]} :
         doomed' = doomed \cup
            ({s \in Sessions : /\ row[s] \in {"no_connect", "connecting"}
                               /\ ~dated[s] \/ s \in old} \X {"unused"})
    /\ UNCHANGED <<db, entry, conn, force, watch, lock, host>>

SweepOffline ==
    /\ up
    /\ sweeps < MaxSweeps
    /\ sweeps' = sweeps + 1
    /\ \E some \in SUBSET {s \in Sessions : row[s] = "disconnected"} :
         doomed' = doomed \cup (some \X {"offline"})
    /\ UNCHANGED <<db, entry, conn, force, watch, lock, host>>

SweepDelete(s, why) ==
    /\ <<s, why>> \in doomed
    /\ doomed' = doomed \ {<<s, why>>}
    /\ DeleteRow(s)
    /\ UNCHANGED <<dated, entry, conn, force, watch, lock, sweeps, host>>

\* SessionDeleteEndpoint: whatever the status of the row
DeleteByIds(s) ==
    /\ up
    /\ Exists(s)
    /\ DeleteRow(s)
    /\ UNCHANGED <<dated, entry, conn, force, watch, lock, clean, host>>

-----------------------------------------------------------------------------
(* A crash loses everything but the table; the start repairs the table.    *)

Crash ==
    /\ up
    /\ crashes < MaxCrashes
    /\ crashes' = crashes + 1
    /\ up' = FALSE
    /\ entry' = [s \in Sessions |-> NoOne]
    /\ pc' = [c \in Conns |-> IF pc[c] = "idle" THEN "idle" ELSE "failed"]
    /\ backend' = [c \in Conns |->
                     IF backend[c] = "open" THEN "closed" ELSE backend[c]]
    /\ peer' = [c \in Conns |-> IF pc[c] = "idle" THEN peer[c] ELSE "closed"]
    /\ post' = [c \in Conns |-> IF post[c] = "due" THEN "sent" ELSE post[c]]
    /\ winCh' = [c \in Conns |-> IF winCh[c] = "off" THEN "off" ELSE "done"]
    /\ adm' = [a \in Admins |-> IF adm[a] = "idle" THEN "idle" ELSE "done"]
    /\ mon' = [m \in Monitors |-> IF mon[m] = "idle" THEN "idle" ELSE "done"]
    /\ Release
    /\ doomed' = {}
    /\ UNCHANGED <<db, sess, admS, admSaw, monS, monOf, display, sweeps>>

\* InitDBData: FixSessionState, then EmptyPassword on every row
Boot ==
    /\ ~up
    /\ up' = TRUE
    /\ row' = [s \in Sessions |->
                 IF row[s] = "connected" THEN "disconnected" ELSE row[s]]
    /\ secret' = [s \in Sessions |-> FALSE]
    /\ UNCHANGED <<dated, entry, conn, force, watch, lock, clean, crashes>>

-----------------------------------------------------------------------------
Endpoint(c) ==
    \/ Dial(c) \/ DialFails(c)
    \/ Store(c) \/ StoreFails(c)
    \/ Announce(c)
    \/ Register(c)
    \/ ReadFails(c) \/ WriteFails(c) \/ WaitReturns(c)
    \/ WinChCloses(c)
    \/ PongPanics(c)

CloseSession == CloseTake \/ CloseForget \/ CloseRead \/ CloseWrite

Next ==
    \/ \E s \in Sessions : Create(s) \/ DeleteByIds(s)
    \/ \E c \in Conns, s \in Sessions : Attach(c, s) \/ OpenShell(c, s)
    \/ \E c \in Conns : Endpoint(c) \/ Leave(c) \/ Connect(c)
    \/ \E a \in Admins, s \in Sessions : AskDisconnect(a, s)
    \/ CloseSession \/ CloseMessagePanics
    \/ \E m \in Monitors, s \in Sessions, d \in BOOLEAN :
          MonitorCheck(m, s, d)
    \/ \E m \in Monitors : MonitorLoad(m) \/ MonitorJoin(m) \/ MonitorLeave(m)
    \/ SweepUnused \/ SweepOffline
    \/ \E s \in Sessions, why \in {"unused", "offline"} : SweepDelete(s, why)
    \/ Crash \/ Boot

Spec == Init /\ [][Next]_vars

\* A free mutex is given to a waiter and what its holder does ends: a write to
\* a websocket returns and the table answers.  A read of a closed websocket
\* fails.  Nothing is assumed of dials, browsers, administrators, monitors,
\* cleaners or crashes.
Fairness ==
    /\ WF_vars(CloseSession)
    /\ \A c \in Conns : WF_vars(ReadFails(c))

FairSpec == Spec /\ Fairness

-----------------------------------------------------------------------------
(* Properties.                                                             *)

\* a close of the session finds the connection, or is under way
Reachable(c) == entry[sess[c]] = c \/ (mutex # "free" /\ target = sess[c])

\* Every connection that is being served over a live backend, or that was when
\* a panic ended its endpoint, is the one the manager knows for its session: a
\* forced disconnect, a monitor and the file browser all reach a session through
\* GlobalSessionManager only.
ServedIsRegistered ==
    \A c \in Conns :
        pc[c] \in {"serving", "panicked"} /\ backend[c] = "open" =>
            entry[sess[c]] = c

\* A row that says connected belongs to a connection whose goroutine is still
\* there to end it, or, when a panic has taken that goroutine, to one that is
\* still registered, so that a forced disconnect can end it, or is being closed;
\* or it died with the server that is down.
ConnectedIsServed ==
    \A s \in Sessions :
        up /\ row[s] = "connected" =>
            \E c \in Conns :
                /\ sess[c] = s
                /\ \/ pc[c] \in {"stored", "announced", "serving", "breaking",
                               "closing"}
                   \/ pc[c] = "panicked" /\ Reachable(c)

\* Once a connection has gone through its close, its SSH client or guacd
\* tunnel is closed and the manager no longer holds it.
DoneIsReleased ==
    \A c \in Conns :
        pc[c] = "done" => backend[c] = "closed" /\ entry[sess[c]] # c

\* A row that ended keeps no credentials: DisDBSess and EmptyPassword blank
\* them, and no later update of the row brings them back.
EndedIsErased ==
    \A s \in Sessions : row[s] \in {"disconnected", "deleted"} => ~secret[s]

\* A deleted row stays deleted: the updates of an endpoint that is still
\* running, of the browser or of a close that read the row before never
\* bring it back.
DeletedIsFinal ==
    [][\A s \in Sessions : row[s] = "deleted" => row'[s] = "deleted"]_vars

\* When a forced disconnect has returned (one that panicked has not), the browser
\* connection that was registered when it was asked for has lost its backend.
ForcedDisconnectCloses ==
    \A a \in Admins :
        adm[a] = "done" /\ admSaw[a] \in Web => backend[admSaw[a]] # "open"

\* A connection the browser has left ends, with its backend closed and its row
\* ended, whatever else happens to the session, unless its endpoint panics.
LeftSettles ==
    \A c \in Web :
        (pc[c] = "serving" /\ peer[c] = "closed") ~>
            \/ /\ pc[c] \in {"done", "failed"}
               /\ backend[c] = "closed"
               /\ row[sess[c]] \in {"disconnected", "deleted"} \/ ~up
            \/ pc[c] = "panicked"

\* Every forced disconnect returns or panics: no other close, one that panicked
\* included, keeps the mutex for ever.
DisconnectReturns ==
    \A a \in Admins : adm[a] = "asked" ~> adm[a] \in {"done", "failed"}

\* The rows are an audit trail: SessionRecord, with the stage of a record read
\* off the status of its row.
Stage(status) ==
    CASE status = "absent" -> "absent"
      [] status \in {"no_connect", "connecting"} -> "pending"
      [] status = "connected" -> "live"
      [] status = "disconnected" -> "ended"
      [] status = "deleted" -> "gone"

Record == INSTANCE SessionRecord
            WITH rec <- [s \in Sessions |-> Stage(row[s])],
                 cred <- {s \in Sessions : secret[s]}

AuditTrail == Record!Spec

-----------------------------------------------------------------------------
(* The inductive invariant of sessions that browsers attach to once and no *)
(* administrator disconnects.                                              *)

BeforeStore(c) ==
    pc[c] \in {"dialing", "opened"} \/ (c \in Guacs /\ pc[c] = "stored")

AfterStore(c) ==
    \/ c \in Terms /\ pc[c] = "stored"
    \/ pc[c] \in {"announced", "serving", "breaking", "closing", "done",
                 "panicked"}

Past == {"serving", "breaking", "closing", "done", "panicked"}

\* whoever is under way has a session
Engaged ==
    /\ \A c \in Conns : pc[c] # "idle" => sess[c] \in Sessions
    /\ \A c \in Conns : winCh[c] # "off" => pc[c] # "idle"
    /\ \A a \in Admins : adm[a] # "idle" => admS[a] \in Sessions
    /\ \A m \in Monitors : mon[m] # "idle" => monS[m] \in Sessions
    /\ mutex # "free" =>
         /\ target \in Sessions
         /\ kind = "main" => caller \in Conns /\ pc[caller] # "idle"
         /\ kind = "winCh" => caller \in Conns /\ winCh[caller] # "off"
         /\ kind = "admin" => caller \in Admins /\ adm[caller] # "idle"
         /\ kind = "monitor" => caller \in Monitors /\ mon[caller] # "idle"

\* each connection has a session of its own, and a session that none has
\* was never served
OneToOne ==
    /\ \A c \in Conns : pc[c] = "idle" <=> sess[c] = NoOne
    /\ \A c, d \in Conns : sess[c] = sess[d] /\ sess[c] # NoOne => c = d
    /\ \A s \in Sessions :
         (\A c \in Conns : sess[c] # s) =>
            row[s] \in {"absent", "no_connect", "deleted"}
    /\ \A s \in Sessions : row[s] = "absent" => \A c \in Conns : sess[c] # s

\* the manager's entries, and the backends behind them
Managed ==
    /\ \A s \in Sessions : entry[s] # NoOne =>
         /\ sess[entry[s]] = s
         /\ \/ pc[entry[s]] \in {"serving", "breaking", "closing", "panicked"}
            \/ entry[s] \in Guacs /\ pc[entry[s]] \in {"stored", "failed"}
    /\ \A c \in Conns :
         /\ pc[c] \in Past => backend[c] # "none"
         /\ pc[c] \in Past /\ backend[c] = "open" => entry[sess[c]] = c
         /\ pc[c] = "done" => backend[c] = "closed" /\ entry[sess[c]] = NoOne
         /\ pc[c] = "panicked" =>
               Reachable(c) \/ row[sess[c]] \in {"disconnected", "deleted"}
         /\ pc[c] \in {"opened", "stored", "announced"} => backend[c] # "none"
         /\ c \in Guacs /\ pc[c] = "stored" => entry[sess[c]] = c

\* how far the row of a connection has got
RowFollows ==
    \A c \in Conns :
        /\ BeforeStore(c) => row[sess[c]] \in {"no_connect", "deleted"}
        /\ pc[c] = "stored" => post[c] = "none"
        /\ post[c] # "none" => AfterStore(c) \/ pc[c] = "failed"
        /\ post[c] = "due" => AfterStore(c)
        /\ AfterStore(c) /\ post[c] # "sent" =>
              row[sess[c]] \in {"connecting", "deleted"}
        /\ AfterStore(c) /\ post[c] = "sent" =>
              row[sess[c]] \in {"connected", "disconnected", "deleted"}
        /\ pc[c] = "done" => row[sess[c]] \in {"disconnected", "deleted"}
        /\ up /\ pc[c] = "failed" => row[sess[c]] # "connected"

\* a display looks at a session that was connected and that it found registered
Watched ==
    \A m \in Monitors :
        /\ mon[m] = "closing" => display[m]
        /\ display[m] /\ mon[m] \notin {"idle", "done"} =>
              \E c \in Conns :
                  sess[c] = monS[m] /\ pc[c] \in Past \cup {"announced"}
        /\ mon[m] \in {"holding", "watching", "closing"} =>
              /\ monOf[m] \in Conns
              /\ sess[monOf[m]] = monS[m]
              /\ display[m] => pc[monOf[m]] \in Past

\* what the holder of the mutex has read, and what it can find when it writes
Closing ==
    mutex # "free" =>
        /\ up
        /\ \/ /\ kind = "main"
              /\ caller \in Conns
              /\ pc[caller] \in {"breaking", "closing"}
              /\ sess[caller] = target
           \/ /\ kind = "monitor"
              /\ caller \in Monitors
              /\ mon[caller] = "closing"
              /\ monS[caller] = target
        /\ \A c \in Conns : sess[c] = target => pc[c] \in Past
        /\ \A c \in Conns : sess[c] = target => backend[c] = "closed"
        /\ mutex \in {"forgotten", "read"} => entry[target] = NoOne
        /\ mutex = "read" =>
              /\ seen \in {"connecting", "connected", "disconnected", "deleted"}
              /\ seen = "connected" =>
                    row[target] \in {"connected", "disconnected", "deleted"}
              /\ seen = "disconnected" =>
                    row[target] \in {"disconnected", "deleted"}
              /\ seen = "deleted" => row[target] = "deleted"

\* credentials belong to rows that are pending or live
Erased ==
    /\ EndedIsErased
    /\ \A s \in Sessions : row[s] = "absent" => ~secret[s]
    /\ \A d \in doomed : row[d[1]] # "absent"

\* nothing runs while the server is down
Down ==
    ~up => /\ \A c \in Conns : pc[c] \in {"idle", "failed"}
           /\ \A m \in Monitors : mon[m] \in {"idle", "done"}
           /\ doomed = {}

BrowserInv ==
    /\ TypeOK
    /\ Engaged
    /\ OneToOne
    /\ Managed
    /\ RowFollows
    /\ Watched
    /\ Closing
    /\ Erased
    /\ Down
    /\ DoneIsReleased
=============================================================================
