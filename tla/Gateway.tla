------------------------------ MODULE Gateway ------------------------------
(***************************************************************************)
(* One access gateway: its row, GlobalGatewayManager, the Gateway objects  *)
(* that were made for it, the SSH connection each object shares among its  *)
(* tunnels, and the requests that open a tunnel: web terminals, displays,  *)
(* shells and shell jobs, and the status checks of assets.                 *)
(*                                                                         *)
(* OpenSshTunnel and CloseSshTunnel run under the mutex of the object.     *)
(* The lookup, the reload and Gateway.Close do not: they are as many steps *)
(* as they make calls.  A request keeps the object it was given, whatever  *)
(* becomes of it in the manager.                                           *)
(***************************************************************************)
EXTENDS Naturals

CONSTANTS
    Clients,    \* requests that work through a tunnel
    Checks,     \* requests of AssetService.CheckStatus
    Admins,     \* requests that create, update or delete the gateway
    Ids,        \* ids of tunnels
    IdOf,       \* the id each request gives its tunnel
    MaxObjects, \* bound on the Gateway objects made
    None        \* not an object and not a request

Users   == Clients \cup Checks
Objects == 1..MaxObjects

ASSUME UsersAssumption ==
    /\ Clients \cap Checks = {}
    /\ Users \cap Admins = {}
    /\ IdOf \in [Users -> Ids]
    /\ MaxObjects \in Nat \ {0}
    /\ None \notin Users \cup Objects

VARIABLES
    table,     \* the row
    managed,   \* GlobalGatewayManager: the object of the gateway
    made,      \* how many objects were made
    connected, \* Connected of each object
    client,    \* SshClient of each object
    tunnels,   \* tunnels of each object: the request whose tunnel an id names
    pc,        \* where each request is
    gw,        \* the object a request holds, or is closing
    todo,      \* the tunnels Gateway.Close has still to visit
    again,     \* does the request add the gateway again?
    listener,  \* the listener of a request's tunnel
    link       \* what lies behind it

row    == <<table, managed, made>>
object == <<connected, client, tunnels>>
proc   == <<pc, gw, todo, again>>
net    == <<listener, link>>
vars   == <<row, object, proc, net>>

Procs == Users \cup Admins

TypeOK ==
    /\ table \in {"absent", "present", "deleted"}
    /\ managed \in Objects \cup {None}
    /\ made \in 0..MaxObjects
    /\ connected \in [Objects -> BOOLEAN]
    /\ client \in [Objects -> {"none", "open", "dead", "closed"}]
    /\ tunnels \in [Objects -> [Ids -> Users \cup {None}]]
    /\ pc \in [Procs -> {"idle", "missing", "reload", "closing", "forget", "add",
                         "found", "opened", "working", "hung", "leaving",
                         "done"}]
    /\ gw \in [Procs -> Objects \cup {None}]
    /\ todo \in [Procs -> SUBSET Ids]
    /\ again \in [Procs -> BOOLEAN]
    /\ listener \in [Users -> {"none", "open", "closed"}]
    /\ link \in [Users -> {"none", "up", "down"}]

\* LoadAll has made an object of the row, if there is one
Init ==
    /\ table \in {"absent", "present"}
    /\ managed = IF table = "present" THEN 1 ELSE None
    /\ made = IF table = "present" THEN 1 ELSE 0
    /\ connected = [o \in Objects |-> FALSE]
    /\ client = [o \in Objects |-> "none"]
    /\ tunnels = [o \in Objects |-> [i \in Ids |-> None]]
    /\ pc = [p \in Procs |-> "idle"]
    /\ gw = [p \in Procs |-> None]
    /\ todo = [p \in Procs |-> {}]
    /\ again = [p \in Procs |-> TRUE]
    /\ listener = [u \in Users |-> "none"]
    /\ link = [u \in Users |-> "none"]

Goto(p, at) == pc' = [pc EXCEPT ![p] = at]

-----------------------------------------------------------------------------
(* GetGatewayById.                                                         *)

\* an asset names the gateway, so its row was once there
Lookup(u) ==
    /\ pc[u] = "idle"
    /\ table # "absent"
    /\ Goto(u, IF managed = None THEN "missing" ELSE "found")
    /\ gw' = [gw EXCEPT ![u] = managed]
    /\ UNCHANGED <<row, object, todo, again, net>>

ReadRow(u) ==
    /\ pc[u] = "missing"
    /\ Goto(u, IF table = "present" THEN "reload" ELSE "done")
    /\ UNCHANGED <<row, object, gw, todo, again, net>>

-----------------------------------------------------------------------------
(* The requests of administrators: the row, and then the manager.          *)

Edit(a, to, keep) ==
    /\ pc[a] = "idle"
    /\ table' = to
    /\ Goto(a, "reload")
    /\ again' = [again EXCEPT ![a] = keep]
    /\ UNCHANGED <<managed, made, object, gw, todo, net>>

Create(a) == table = "absent" /\ Edit(a, "present", TRUE)

\* from a page that may be old: no row is updated or deleted then, without an
\* error, and the manager is told all the same
Update(a) == table # "absent" /\ Edit(a, table, TRUE)
Delete(a) == table # "absent" /\ Edit(a, "deleted", FALSE)

-----------------------------------------------------------------------------
(* CloseSshTunnel, under the mutex of the object.                          *)

Held(o) == {i \in Ids : tunnels[o][i] # None}

\* Mutant: Tunnel.Close closes the connections only.
KeepListening(t) == UNCHANGED listener

StopListening(t) ==
    listener' = [u \in Users |-> IF u = t THEN "closed" ELSE listener[u]]

\* the tunnel's connections and its listener are closed and it is forgotten;
\* with the last one the SSH connection is closed too
CloseTunnel(o, i, last) ==
    LET t == tunnels[o][i] IN
    /\ tunnels' = [tunnels EXCEPT ![o][i] = None]
    /\ StopListening(t)
    /\ client' = [client EXCEPT ![o] = IF last /\ @ # "none" THEN "closed" ELSE @]
    /\ connected' = [connected EXCEPT ![o] = @ /\ ~last]
    /\ link' = [u \in Users |->
                  IF link[u] = "up" /\ (u = t \/ (last /\ gw[u] = o))
                  THEN "down" ELSE link[u]]

\* Mutant: the connection goes with the first tunnel.
CloseAll(o, i) == CloseTunnel(o, i, TRUE)

\* Mutant: nothing more is done for a tunnel that is not there.
CloseFound(o, i) == CloseTunnel(o, i, Held(o) = {i})

CloseSshTunnel(o, i) == CloseTunnel(o, i, Held(o) \subseteq {i})

-----------------------------------------------------------------------------
(* ReLoad, and the DisconnectById it starts with.                          *)

\* manager.Del finds the object and starts to range over its tunnels
DelFind(p) ==
    /\ pc[p] = "reload"
    /\ Goto(p, IF managed = None THEN "forget" ELSE "closing")
    /\ gw' = [gw EXCEPT ![p] = managed]
    /\ todo' = [todo EXCEPT ![p] = IF managed = None THEN {} ELSE Held(managed)]
    /\ UNCHANGED <<row, object, again, net>>

\* Gateway.Close ranges without the mutex: what is removed meanwhile is not
\* visited, what is added meanwhile may be
DelClose(p, i) ==
    /\ pc[p] = "closing"
    /\ i \in Held(gw[p])
    /\ CloseSshTunnel(gw[p], i)
    /\ todo' = [todo EXCEPT ![p] = @ \ {i}]
    /\ UNCHANGED <<row, pc, gw, again>>

DelForget(p) ==
    /\ \/ pc[p] = "forget"
       \/ pc[p] = "closing" /\ todo[p] \cap Held(gw[p]) = {}
    /\ managed' = None
    /\ Goto(p, IF again[p] THEN "add" ELSE "idle")
    /\ gw' = [gw EXCEPT ![p] = None]
    /\ todo' = [todo EXCEPT ![p] = {}]
    /\ UNCHANGED <<table, made, object, again, net>>

\* manager.Add; a lookup goes on with the object it made
AddNew(p) ==
    /\ pc[p] = "add"
    /\ made < MaxObjects
    /\ made' = made + 1
    /\ managed' = made + 1
    /\ IF p \in Users
       THEN Goto(p, "found") /\ gw' = [gw EXCEPT ![p] = made + 1]
       ELSE Goto(p, "idle") /\ UNCHANGED gw
    /\ UNCHANGED <<table, object, todo, again, net>>

-----------------------------------------------------------------------------
(* A request that has its object.                                          *)

\* the gateway answers: it is connected, unless it says that it is
Dialed(o) ==
    /\ connected' = [connected EXCEPT ![o] = TRUE]
    /\ client' = [client EXCEPT ![o] = IF connected[o] THEN @ ELSE "open"]

OpenSshTunnel(u) ==
    /\ pc[u] = "found"
    /\ Dialed(gw[u])
    /\ tunnels' = [tunnels EXCEPT ![gw[u]][IdOf[u]] = u]
    /\ listener' = [listener EXCEPT ![u] = "open"]
    /\ link' = [link EXCEPT ![u] =
                  IF client'[gw[u]] = "open" THEN "up" ELSE "down"]
    /\ Goto(u, "opened")
    /\ UNCHANGED <<row, gw, todo, again>>

\* the gateway does not answer, or there is no port to listen on
OpenFails(u) ==
    /\ pc[u] = "found"
    /\ \/ ~connected[gw[u]] /\ UNCHANGED <<connected, client>>
       \/ Dialed(gw[u])
    /\ Goto(u, "leaving")
    /\ UNCHANGED <<row, tunnels, gw, todo, again, net>>

\* what the request opens on the tunnel: refused without a listener; a terminal
\* waits for ever in its handshake when Tunnel.Open cannot dial the asset, for
\* it returns and leaves the connection it accepted open
Through(u) ==
    /\ u \in Clients
    /\ pc[u] = "opened"
    /\ \/ listener[u] = "closed" /\ Goto(u, "leaving")
       \/ listener[u] = "open" /\ \E at \in {"working", "hung"} : Goto(u, at)
    /\ UNCHANGED <<row, object, gw, todo, again, net>>

\* Tcping asks the listener, which accepts whether the asset can be dialed or not
Check(u) ==
    /\ u \in Checks
    /\ pc[u] = "opened"
    /\ Goto(u, "leaving")
    /\ UNCHANGED <<row, object, gw, todo, again, net>>

\* who works leaves when it wants, who hangs when its tunnel is closed
Leave(u) ==
    /\ \/ pc[u] = "working"
       \/ pc[u] = "hung" /\ listener[u] = "closed"
    /\ Goto(u, "leaving")
    /\ UNCHANGED <<row, object, gw, todo, again, net>>

\* the deferred CloseSshTunnel
Close(u) ==
    /\ pc[u] = "leaving"
    /\ CloseSshTunnel(gw[u], IdOf[u])
    /\ Goto(u, "done")
    /\ UNCHANGED <<row, gw, todo, again>>

-----------------------------------------------------------------------------
(* What nobody asked for.                                                  *)

\* the SSH connection to the gateway breaks: no code notices
Breaks(o) ==
    /\ client[o] = "open"
    /\ client' = [client EXCEPT ![o] = "dead"]
    /\ link' = [u \in Users |-> IF link[u] = "up" /\ gw[u] = o
                                THEN "down" ELSE link[u]]
    /\ UNCHANGED <<row, connected, tunnels, proc, listener>>

\* the server stops, perhaps because Gateway.Close ranges over a map that
\* another goroutine writes, and starts again with LoadAll
Restart ==
    /\ made < MaxObjects
    /\ IF table = "present" THEN managed' = made + 1 /\ made' = made + 1
                            ELSE managed' = None /\ UNCHANGED made
    /\ connected' = [o \in Objects |-> FALSE]
    /\ client' = [o \in Objects |->
                    IF client[o] = "none" THEN "none" ELSE "closed"]
    /\ tunnels' = [o \in Objects |-> [i \in Ids |-> None]]
    /\ pc' = [p \in Procs |->
                IF p \in Admins \/ pc[p] = "idle" THEN "idle" ELSE "done"]
    /\ gw' = [p \in Procs |-> None]
    /\ todo' = [p \in Procs |-> {}]
    /\ listener' = [u \in Users |->
                      IF listener[u] = "none" THEN "none" ELSE "closed"]
    /\ link' = [u \in Users |-> IF link[u] = "none" THEN "none" ELSE "down"]
    /\ UNCHANGED <<table, again>>

-----------------------------------------------------------------------------
ReLoad(p) == DelFind(p) \/ (\E i \in Ids : DelClose(p, i)) \/ DelForget(p) \/ AddNew(p)

Request(u) ==
    \/ Lookup(u) \/ ReadRow(u)
    \/ OpenSshTunnel(u) \/ OpenFails(u)
    \/ Through(u) \/ Check(u) \/ Leave(u)
    \/ Close(u)

Next ==
    \/ \E u \in Users : Request(u)
    \/ \E a \in Admins : Create(a) \/ Update(a) \/ Delete(a)
    \/ \E p \in Procs : ReLoad(p)
    \/ \E o \in Objects : Breaks(o)
    \/ Restart

Spec == Init /\ [][Next]_vars

-----------------------------------------------------------------------------
(* Properties.                                                             *)

\* the request is between its OpenSshTunnel and its CloseSshTunnel
InUse(u, o) ==
    gw[u] = o /\ pc[u] \in {"opened", "working", "hung", "leaving"}

\* A gateway nobody uses holds no SSH connection, also the objects that were
\* replaced in the manager while requests still held them.
UnusedIsDisconnected ==
    \A o \in Objects :
        client[o] \in {"open", "dead"} => \E u \in Users : InUse(u, o)

\* no other request takes the id of this one (a session attached twice does)
OwnId(u) == \A v \in Users : IdOf[v] = IdOf[u] => v = u

\* A request that is over has left no listener behind, if its id is its own.
NoLeftovers ==
    \A u \in Users : pc[u] = "done" /\ OwnId(u) => listener[u] # "open"

\* The end of a request does not cut another's tunnel if that one's id is its
\* own: the connection they share is closed with the last tunnel only.
OthersKeepTheirs ==
    [][\A u, v \in Users :
         /\ Close(u)
         /\ u # v /\ OwnId(v)
         /\ link[v] = "up"
         => link'[v] = "up"]_vars

-----------------------------------------------------------------------------
(* The inductive invariant.                                                *)

\* what an object says of itself
Coherent ==
    \A o \in Objects :
        /\ connected[o] <=> client[o] \in {"open", "dead"}
        /\ Held(o) # {} => connected[o]
        /\ connected[o] => \E u \in Users : InUse(u, o)

\* a tunnel belongs to the request that opened it last under its id
Owned ==
    \A o \in Objects : \A i \in Held(o) :
        InUse(tunnels[o][i], o) /\ IdOf[tunnels[o][i]] = i

\* a listener is reached through its id, or its id was taken by another
Reached ==
    \A u \in Users :
        /\ link[u] = "up" => listener[u] = "open"
        /\ listener[u] = "open" => gw[u] \in Objects
        /\ listener[u] = "open" /\ OwnId(u) => tunnels[gw[u]][IdOf[u]] = u

\* who has no tunnel yet has no listener; who has an object names it
Engaged ==
    /\ \A u \in Users :
         pc[u] \in {"idle", "missing", "reload", "closing", "forget", "add",
                   "found"} => listener[u] = "none"
    /\ \A p \in Procs :
         pc[p] \in {"closing", "found", "opened", "working", "hung", "leaving"}
            => gw[p] \in Objects

GatewayInv == TypeOK /\ Coherent /\ Owned /\ Reached /\ Engaged
=============================================================================
