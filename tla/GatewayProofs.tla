--------------------------- MODULE GatewayProofs ---------------------------
(* Theorems about Gateway.                                                 *)
EXTENDS Gateway, TLAPS

\* The invariant holds with the objects LoadAll has made.
LEMMA InitInv == Init => GatewayInv
<1> SUFFICES ASSUME Init PROVE GatewayInv
  OBVIOUS
<1> USE UsersAssumption DEF Init
<1>1. TypeOK
  <2>1. 1 \in Objects /\ 1 \in 0..MaxObjects /\ 0 \in 0..MaxObjects
    BY DEF Objects
  <2> QED
    BY <2>1 DEF TypeOK, Procs, Users
<1>2. Coherent /\ Owned
  BY DEF Coherent, Owned, Held
<1>3. Reached /\ Engaged
  BY DEF Reached, Engaged, Procs, Users
<1> QED
  BY <1>1, <1>2, <1>3 DEF GatewayInv

\* Whoever closes it, a tunnel is forgotten with its listener, and the object
\* keeps its SSH connection as long as another of its tunnels is there.
LEMMA CloseKeeps ==
    ASSUME GatewayInv, NEW o \in Objects, NEW i \in Ids, CloseSshTunnel(o, i)
    PROVE  /\ connected' \in [Objects -> BOOLEAN]
           /\ client' \in [Objects -> {"none", "open", "dead", "closed"}]
           /\ tunnels' \in [Objects -> [Ids -> Users \cup {None}]]
           /\ listener' \in [Users -> {"none", "open", "closed"}]
           /\ link' \in [Users -> {"none", "up", "down"}]
           /\ \A p \in Objects : connected'[p] <=> client'[p] \in {"open", "dead"}
           /\ \A p \in Objects : \A j \in Ids :
                tunnels'[p][j] # None =>
                   /\ tunnels'[p][j] = tunnels[p][j]
                   /\ connected'[p]
                   /\ ~(p = o /\ j = i)
           /\ \A p \in Objects : connected'[p] =>
                /\ connected[p]
                /\ p = o => \E j \in Ids \ {i} : tunnels[p][j] # None
           /\ \A u \in Users : link'[u] = "up" => link[u] = "up"
           /\ \A u \in Users : listener'[u] = "open" =>
                listener[u] = "open" /\ u # tunnels[o][i]
           /\ \A u \in Users : listener[u] = "open" /\ u # tunnels[o][i] =>
                listener'[u] = "open"
           /\ \A u \in Users : link'[u] = "up" => u # tunnels[o][i]
<1> USE DEF GatewayInv, TypeOK
<1>1. CloseTunnel(o, i, Held(o) \subseteq {i})
  BY DEF CloseSshTunnel
<1>2. /\ connected' \in [Objects -> BOOLEAN]
      /\ client' \in [Objects -> {"none", "open", "dead", "closed"}]
      /\ tunnels' \in [Objects -> [Ids -> Users \cup {None}]]
      /\ listener' \in [Users -> {"none", "open", "closed"}]
      /\ link' \in [Users -> {"none", "up", "down"}]
  BY <1>1 DEF CloseTunnel, StopListening
<1>3. \A p \in Objects : connected'[p] <=> client'[p] \in {"open", "dead"}
  BY <1>1 DEF CloseTunnel, Coherent
<1>4. \A p \in Objects : \A j \in Ids :
         tunnels'[p][j] # None =>
            /\ tunnels'[p][j] = tunnels[p][j]
            /\ ~(p = o /\ j = i)
  BY <1>1 DEF CloseTunnel
<1>5. \A p \in Objects : \A j \in Ids : tunnels'[p][j] # None => connected'[p]
  <2> SUFFICES ASSUME NEW p \in Objects, NEW j \in Ids, tunnels'[p][j] # None
               PROVE  connected'[p]
    OBVIOUS
  <2>1. tunnels[p][j] # None /\ ~(p = o /\ j = i)
    BY <1>4
  <2>2. connected[p]
    BY <2>1 DEF Coherent, Held
  <2>3. p = o => ~(Held(o) \subseteq {i})
    BY <2>1 DEF Held
  <2> QED
    BY <1>1, <2>2, <2>3 DEF CloseTunnel
<1>6. \A p \in Objects : connected'[p] =>
         /\ connected[p]
         /\ p = o => \E j \in Ids \ {i} : tunnels[p][j] # None
  BY <1>1 DEF CloseTunnel, Held
<1>7. /\ \A u \in Users : link'[u] = "up" => link[u] = "up" /\ u # tunnels[o][i]
      /\ \A u \in Users : listener'[u] = "open" =>
            listener[u] = "open" /\ u # tunnels[o][i]
      /\ \A u \in Users : listener[u] = "open" /\ u # tunnels[o][i] =>
            listener'[u] = "open"
  BY <1>1 DEF CloseTunnel, StopListening
<1> QED
  BY <1>2, <1>3, <1>4, <1>5, <1>6, <1>7

\* A request without a tunnel yet gets no listener when another is closed.
LEMMA Unlistened ==
    ASSUME GatewayInv, NEW o \in Objects, NEW i \in Ids, CloseSshTunnel(o, i),
           NEW u \in Users,
           pc[u] \in {"idle", "missing", "reload", "closing", "forget", "add",
                     "found"}
    PROVE  listener'[u] = "none"
<1>1. listener[u] = "none"
  BY DEF GatewayInv, Engaged
<1>2. u # tunnels[o][i]
  <2>1. CASE tunnels[o][i] = None
    BY <2>1, UsersAssumption
  <2>2. CASE tunnels[o][i] # None
    BY <2>2 DEF GatewayInv, Owned, Held, InUse
  <2> QED
    BY <2>1, <2>2
<1> QED
  BY <1>1, <1>2 DEF CloseSshTunnel, CloseTunnel, StopListening

\* A step that leaves the objects and what hangs on them alone.
LEMMA Unmoved ==
    ASSUME GatewayInv, TypeOK', Engaged', UNCHANGED <<object, listener, link>>,
           \A u \in Users : listener[u] = "open" => gw'[u] = gw[u],
           \A u \in Users, o \in Objects : InUse(u, o) => InUse(u, o)'
    PROVE  GatewayInv'
<1> USE DEF GatewayInv, TypeOK, object
<1>1. Coherent'
  BY DEF Coherent, Held
<1>2. Owned'
  BY DEF Owned, Held
<1>3. Reached'
  BY DEF Reached
<1> QED
  BY <1>1, <1>2, <1>3

\* The invariant is inductive.
LEMMA NextInv == GatewayInv /\ [Next]_vars => GatewayInv'
<1> SUFFICES ASSUME GatewayInv, [Next]_vars PROVE GatewayInv'
  OBVIOUS
<1>a. Users \subseteq Procs /\ Admins \subseteq Procs
  BY DEF Procs
<1> USE UsersAssumption DEF GatewayInv, TypeOK, row, object, proc, net, Goto
<1>1. ASSUME NEW u \in Users, Lookup(u) PROVE GatewayInv'
  <2>1. u \in Procs /\ TypeOK'
    BY <1>1, <1>a DEF Lookup
  <2>2. Engaged'
    BY <1>1, <2>1, <1>a DEF Lookup, Engaged
  <2>3. \A v \in Users, o \in Objects : InUse(v, o) => InUse(v, o)'
    BY <1>1, <1>a DEF Lookup, InUse
  <2>4. \A v \in Users : listener[v] = "open" => gw'[v] = gw[v]
    BY <1>1, <1>a DEF Lookup, Engaged
  <2> QED
    BY <1>1, <2>1, <2>2, <2>3, <2>4, Unmoved DEF Lookup
<1>2. ASSUME NEW u \in Users, ReadRow(u) PROVE GatewayInv'
  <2>1. u \in Procs /\ TypeOK' /\ Engaged'
    BY <1>2, <1>a DEF ReadRow, Engaged
  <2>2. \A v \in Users, o \in Objects : InUse(v, o) => InUse(v, o)'
    BY <1>2, <1>a DEF ReadRow, InUse
  <2> QED
    BY <1>2, <2>1, <2>2, Unmoved DEF ReadRow
<1>3. ASSUME NEW a \in Admins, Create(a) \/ Update(a) \/ Delete(a)
      PROVE  GatewayInv'
  <2>1. PICK to \in {"present", "deleted"}, keep \in BOOLEAN : Edit(a, to, keep)
    BY <1>3 DEF Create, Update, Delete
  <2>2. a \in Procs /\ TypeOK' /\ Engaged'
    BY <2>1, <1>a DEF Edit, Engaged
  <2>3. \A v \in Users, o \in Objects : InUse(v, o) => InUse(v, o)'
    BY <2>1, <1>a DEF Edit, InUse
  <2> QED
    BY <2>1, <2>2, <2>3, Unmoved DEF Edit
<1>4. ASSUME NEW p \in Procs, DelFind(p) PROVE GatewayInv'
  <2>1. TypeOK' /\ Engaged'
    BY <1>4, <1>a DEF DelFind, Engaged, Held
  <2>2. \A v \in Users, o \in Objects : InUse(v, o) => InUse(v, o)'
    BY <1>4, <1>a DEF DelFind, InUse
  <2>3. \A v \in Users : listener[v] = "open" => gw'[v] = gw[v]
    BY <1>4, <1>a DEF DelFind, Engaged
  <2> QED
    BY <1>4, <2>1, <2>2, <2>3, Unmoved DEF DelFind
<1>5. ASSUME NEW p \in Procs, NEW i \in Ids, DelClose(p, i) PROVE GatewayInv'
  <2>1. gw[p] \in Objects /\ CloseSshTunnel(gw[p], i)
    BY <1>5 DEF DelClose, Engaged
  <2>2. \A v \in Users, o \in Objects : InUse(v, o) => InUse(v, o)'
    BY <1>5 DEF DelClose, InUse
  <2>3. TypeOK'
    BY <1>5, <2>1, CloseKeeps DEF DelClose
  <2>4. Coherent'
    <3>1. ASSUME NEW o \in Objects, connected'[o]
          PROVE  \E u \in Users : InUse(u, o)'
      <4>1. connected[o]
        BY <2>1, <3>1, CloseKeeps
      <4> QED
        BY <4>1, <2>2 DEF Coherent
    <3> QED
      BY <2>1, <3>1, CloseKeeps DEF Coherent, Held
  <2>5. Owned'
    BY <2>1, <2>2, CloseKeeps DEF Owned, Held
  <2>6. Reached'
    <3>1. gw' = gw
      BY <1>5 DEF DelClose
    <3>2. ASSUME NEW u \in Users, listener'[u] = "open",
                 OwnId(u)
          PROVE  tunnels'[gw[u]][IdOf[u]] = u
      <4>1. listener[u] = "open" /\ u # tunnels[gw[p]][i] /\ gw[u] \in Objects
        BY <2>1, <3>2, CloseKeeps DEF Reached
      <4>2. tunnels[gw[u]][IdOf[u]] = u
        BY <3>2, <4>1 DEF Reached
      <4> QED
        BY <2>1, <4>1, <4>2 DEF CloseSshTunnel, CloseTunnel
    <3>3. ASSUME NEW v \in Users
          PROVE  /\ link'[v] = "up" => listener'[v] = "open"
                 /\ listener'[v] = "open" => gw[v] \in Objects
      BY <2>1, CloseKeeps DEF Reached
    <3> QED
      BY <3>1, <3>2, <3>3 DEF Reached
  <2>7. Engaged'
    BY <1>5, <2>1, Unlistened DEF DelClose, Engaged
  <2> QED
    BY <2>3, <2>4, <2>5, <2>6, <2>7
<1>6. ASSUME NEW p \in Procs, DelForget(p) PROVE GatewayInv'
  <2>1. TypeOK' /\ Engaged'
    BY <1>6, <1>a DEF DelForget, Engaged
  <2>2. \A v \in Users, o \in Objects : InUse(v, o) => InUse(v, o)'
    BY <1>6, <1>a DEF DelForget, InUse
  <2>3. \A v \in Users : listener[v] = "open" => gw'[v] = gw[v]
    BY <1>6, <1>a DEF DelForget, Engaged
  <2> QED
    BY <1>6, <2>1, <2>2, <2>3, Unmoved DEF DelForget
<1>7. ASSUME NEW p \in Procs, AddNew(p) PROVE GatewayInv'
  <2>1. made + 1 \in Objects
    BY <1>7 DEF AddNew, Objects
  <2>2. TypeOK'
    <3>1. made' \in 0..MaxObjects /\ managed' \in Objects
      BY <1>7, <2>1 DEF AddNew
    <3>2. /\ pc' \in [Procs -> {"idle", "missing", "reload", "closing", "forget",
                               "add", "found", "opened", "working", "hung",
                               "leaving", "done"}]
          /\ gw' \in [Procs -> Objects \cup {None}]
      <4>1. CASE p \in Users
        BY <1>7, <2>1, <4>1 DEF AddNew
      <4>2. CASE p \notin Users
        BY <1>7, <4>2 DEF AddNew
      <4> QED
        BY <4>1, <4>2
    <3> QED
      BY <1>7, <3>1, <3>2 DEF AddNew
  <2>5. Engaged'
    BY <1>7, <1>a, <2>1 DEF AddNew, Engaged
  <2>3. \A v \in Users, o \in Objects : InUse(v, o) => InUse(v, o)'
    BY <1>7, <1>a DEF AddNew, InUse
  <2>4. \A v \in Users : listener[v] = "open" => gw'[v] = gw[v]
    BY <1>7, <1>a DEF AddNew, Engaged
  <2> QED
    BY <1>7, <2>2, <2>3, <2>4, <2>5, Unmoved DEF AddNew
<1>8. ASSUME NEW u \in Users, OpenSshTunnel(u) PROVE GatewayInv'
  <2>0. u \in Procs /\ gw[u] \in Objects /\ IdOf[u] \in Ids
    BY <1>8, <1>a DEF OpenSshTunnel, Engaged
  <2>1. PICK g \in Objects : g = gw[u]
    BY <2>0
  <2>2. TypeOK'
    BY <1>8, <2>0, <2>1 DEF OpenSshTunnel, Dialed
  <2>3. /\ InUse(u, g)'
        /\ \A v \in Users, o \in Objects : InUse(v, o) => InUse(v, o)'
    BY <1>8, <2>0, <2>1, <1>a DEF OpenSshTunnel, InUse
  <2>4. \A o \in Objects : o # g => connected'[o] = connected[o] /\ client'[o] = client[o]
    BY <1>8, <2>0, <2>1 DEF OpenSshTunnel, Dialed
  <2>5. connected'[g] /\ client'[g] \in {"open", "dead"}
    BY <1>8, <2>0, <2>1 DEF OpenSshTunnel, Dialed, Coherent
  <2>6. Coherent'
    <3>1. \A o \in Objects : o # g => Held(o)' = Held(o)
      BY <1>8, <2>0, <2>1 DEF OpenSshTunnel, Held
    <3> QED
      BY <2>3, <2>4, <2>5, <3>1 DEF Coherent
  <2>7. Owned'
    <3> SUFFICES ASSUME NEW o \in Objects, NEW i \in Ids, tunnels'[o][i] # None
                 PROVE  (InUse(tunnels[o][i], o) /\ IdOf[tunnels[o][i]] = i)'
      BY DEF Owned, Held
    <3>1. CASE o = g /\ i = IdOf[u]
      <4>1. tunnels'[o][i] = u
        BY <1>8, <2>0, <2>1, <3>1 DEF OpenSshTunnel
      <4> QED
        BY <2>3, <3>1, <4>1 DEF InUse
    <3>2. CASE ~(o = g /\ i = IdOf[u])
      <4>1. tunnels'[o][i] = tunnels[o][i]
        BY <1>8, <2>0, <2>1, <3>2 DEF OpenSshTunnel
      <4> QED
        BY <2>3, <4>1, SMTT(30) DEF Owned, Held, InUse
    <3> QED
      BY <3>1, <3>2
  <2>8. Reached'
    BY <1>8, <2>0, <2>1, <1>a, SMTT(30) DEF OpenSshTunnel, Reached, OwnId
  <2>9. Engaged'
    BY <1>8, <2>0, <2>1, <1>a DEF OpenSshTunnel, Engaged
  <2> QED
    BY <2>2, <2>6, <2>7, <2>8, <2>9
<1>9. ASSUME NEW u \in Users, OpenFails(u) PROVE GatewayInv'
  <2>0. u \in Procs /\ gw[u] \in Objects
    BY <1>9, <1>a DEF OpenFails, Engaged
  <2>1. PICK g \in Objects : g = gw[u]
    BY <2>0
  <2>2. TypeOK' /\ Engaged'
    <3>1. /\ connected' \in [Objects -> BOOLEAN]
          /\ client' \in [Objects -> {"none", "open", "dead", "closed"}]
      BY <1>9, <2>1, <1>a DEF OpenFails, Dialed
    <3>2. Goto(u, "leaving") /\ UNCHANGED <<row, tunnels, gw, todo, again, net>>
      BY <1>9 DEF OpenFails
    <3> QED
      BY <2>0, <3>1, <3>2, <1>a DEF Engaged
  <2>3. /\ InUse(u, g)'
        /\ \A v \in Users, o \in Objects : InUse(v, o) => InUse(v, o)'
    BY <1>9, <2>0, <2>1, <1>a DEF OpenFails, InUse
  <2>4. /\ \A o \in Objects : o # g => connected'[o] = connected[o] /\ client'[o] = client[o]
        /\ connected[g] => connected'[g]
        /\ connected'[g] <=> client'[g] \in {"open", "dead"}
    BY <1>9, <2>0, <2>1 DEF OpenFails, Dialed, Coherent
  <2>5. Coherent'
    BY <1>9, <2>3, <2>4 DEF OpenFails, Coherent, Held
  <2>6. Owned' /\ Reached'
    BY <1>9, <2>3 DEF OpenFails, Owned, Reached, Held
  <2> QED
    BY <2>2, <2>5, <2>6
<1>10. ASSUME NEW u \in Users, Through(u) \/ Check(u) \/ Leave(u)
       PROVE  GatewayInv'
  <2>1. u \in Procs /\ UNCHANGED <<object, gw, listener, link>>
    BY <1>10, <1>a DEF Through, Check, Leave
  <2>2. \E at \in {"leaving", "working", "hung"} : Goto(u, at)
    BY <1>10 DEF Through, Check, Leave
  <2>3. pc[u] \in {"opened", "working", "hung"}
    BY <1>10 DEF Through, Check, Leave
  <2>4. TypeOK'
    <3>1. UNCHANGED <<row, todo, again>>
      BY <1>10 DEF Through, Check, Leave
    <3> QED
      BY <2>1, <2>2, <3>1
  <2>5. Engaged'
    BY <2>1, <2>2, <2>3, <1>a DEF Engaged
  <2>6. \A v \in Users, o \in Objects : InUse(v, o) => InUse(v, o)'
    BY <2>1, <2>2, <2>3, <1>a DEF InUse
  <2> QED
    BY <2>1, <2>4, <2>5, <2>6, Unmoved
<1>11. ASSUME NEW u \in Users, Close(u) PROVE GatewayInv'
  <2>0. gw[u] \in Objects /\ IdOf[u] \in Ids
    BY <1>11, <1>a DEF Close, Engaged
  <2>1. PICK g \in Objects, i \in Ids :
            g = gw[u] /\ i = IdOf[u] /\ CloseSshTunnel(g, i)
    BY <1>11, <2>0 DEF Close
  <2>2. \A v \in Users, o \in Objects : InUse(v, o) /\ v # u => InUse(v, o)'
    BY <1>11, <1>a DEF Close, InUse
  <2>3. TypeOK'
    BY <1>11, <1>a, <2>1, CloseKeeps DEF Close
  <2>4. ASSUME NEW o \in Objects, NEW j \in Ids, tunnels[o][j] # None,
               ~(o = g /\ j = i)
        PROVE  \E v \in Users : v = tunnels[o][j] /\ InUse(v, o)' /\ IdOf[v] = j
    <3>1. tunnels[o][j] \in Users /\ InUse(tunnels[o][j], o) /\ IdOf[tunnels[o][j]] = j
      BY <2>4 DEF Owned, Held
    <3>2. PICK v \in Users : v = tunnels[o][j]
      BY <3>1
    <3>3. v # u
      BY <2>1, <2>4, <3>1, <3>2 DEF InUse
    <3> QED
      BY <2>2, <3>1, <3>2, <3>3
  <2>5. Coherent'
    <3>1. ASSUME NEW o \in Objects, connected'[o]
          PROVE  \E v \in Users : InUse(v, o)'
      <4>1. connected[o] /\ (o = g => \E j \in Ids \ {i} : tunnels[o][j] # None)
        BY <2>1, <3>1, CloseKeeps
      <4>2. CASE o = g
        <5>1. PICK j \in Ids \ {i} : tunnels[o][j] # None
          BY <4>1, <4>2
        <5> QED
          BY <2>4, <4>2, <5>1
      <4>3. CASE o # g
        <5>1. PICK v \in Users : InUse(v, o)
          BY <4>1 DEF Coherent
        <5>2. v # u
          BY <2>1, <4>3, <5>1 DEF InUse
        <5> QED
          BY <2>2, <5>1, <5>2
      <4> QED
        BY <4>2, <4>3
    <3> QED
      BY <2>1, <3>1, CloseKeeps DEF Coherent, Held
  <2>6. Owned'
    <3> SUFFICES ASSUME NEW o \in Objects, NEW j \in Ids, tunnels'[o][j] # None
                 PROVE  (InUse(tunnels[o][j], o) /\ IdOf[tunnels[o][j]] = j)'
      BY DEF Owned, Held
    <3>1. tunnels'[o][j] = tunnels[o][j] /\ ~(o = g /\ j = i)
      BY <2>1, CloseKeeps
    <3> QED
      BY <2>4, <3>1 DEF InUse
  <2>7. Reached'
    <3>1. gw' = gw
      BY <1>11 DEF Close
    <3>2. ASSUME NEW v \in Users, listener'[v] = "open",
                 OwnId(v)
          PROVE  tunnels'[gw[v]][IdOf[v]] = v
      <4>1. listener[v] = "open" /\ v # tunnels[g][i] /\ gw[v] \in Objects
        BY <2>1, <3>2, CloseKeeps DEF Reached
      <4>2. tunnels[gw[v]][IdOf[v]] = v
        BY <3>2, <4>1 DEF Reached
      <4> QED
        BY <2>1, <4>1, <4>2 DEF CloseSshTunnel, CloseTunnel
    <3>3. ASSUME NEW v \in Users
          PROVE  /\ link'[v] = "up" => listener'[v] = "open"
                 /\ listener'[v] = "open" => gw[v] \in Objects
      BY <2>1, CloseKeeps DEF Reached
    <3> QED
      BY <3>1, <3>2, <3>3 DEF Reached
  <2>8. Engaged'
    BY <1>11, <1>a, <2>1, Unlistened DEF Close, Engaged
  <2> QED
    BY <2>3, <2>5, <2>6, <2>7, <2>8
<1>12. ASSUME NEW o \in Objects, Breaks(o) PROVE GatewayInv'
  <2>1. TypeOK' /\ Engaged'
    BY <1>12 DEF Breaks, Engaged
  <2>2. \A v \in Users, q \in Objects : InUse(v, q) => InUse(v, q)'
    BY <1>12 DEF Breaks, InUse
  <2>3. Coherent'
    BY <1>12, <2>2 DEF Breaks, Coherent, Held
  <2>4. Owned' /\ Reached'
    BY <1>12, <2>2 DEF Breaks, Owned, Reached, Held
  <2> QED
    BY <2>1, <2>3, <2>4
<1>13. CASE Restart
  <2>1. TypeOK'
    <3>1. table = "present" => made + 1 \in Objects /\ made + 1 \in 0..MaxObjects
      BY <1>13 DEF Restart, Objects
    <3>2. managed' \in Objects \cup {None} /\ made' \in 0..MaxObjects
      BY <1>13, <3>1 DEF Restart
    <3>3. pc' \in [Procs -> {"idle", "done"}] /\ gw' \in [Procs -> {None}]
          /\ todo' \in [Procs -> SUBSET Ids]
      BY <1>13 DEF Restart
    <3> QED
      BY <1>13, <3>2, <3>3 DEF Restart
  <2>2. Engaged'
    BY <1>13, <1>a DEF Restart, Engaged
  <2>3. Coherent'
    BY <1>13 DEF Restart, Coherent, Held
  <2>4. Owned' /\ Reached'
    BY <1>13, <1>a DEF Restart, Owned, Reached, Held
  <2> QED
    BY <2>1, <2>2, <2>3, <2>4
<1>14. CASE UNCHANGED vars
  <2>1. TypeOK' /\ Engaged'
    BY <1>14 DEF vars, Engaged
  <2> QED
    BY <1>14, <2>1, Unmoved DEF vars, InUse
<1> QED
  BY <1>1, <1>2, <1>3, <1>4, <1>5, <1>6, <1>7, <1>8, <1>9, <1>10, <1>11, <1>12,
     <1>13, <1>14 DEF Next, Request, ReLoad

\* Every object of the gateway is coherent, whatever the ids of the requests.
THEOREM AlwaysCoherent == Spec => []GatewayInv
BY InitInv, NextInv, PTL DEF Spec

\* No SSH connection outlives the requests that use it, for any number of
\* requests, administrators, objects and restarts, shared ids included.
THEOREM ReleasedWithLast == Spec => []UnusedIsDisconnected
<1>1. GatewayInv => UnusedIsDisconnected
  BY DEF GatewayInv, Coherent, UnusedIsDisconnected
<1> QED
  BY <1>1, AlwaysCoherent, PTL

\* A request whose id is its own leaves no listener behind, whatever object it
\* was given and whoever reloaded the gateway meanwhile.
THEOREM NothingLeft == Spec => []NoLeftovers
<1>1. GatewayInv => NoLeftovers
  <2> SUFFICES ASSUME GatewayInv, NEW u \in Users, pc[u] = "done", OwnId(u),
                      listener[u] = "open"
               PROVE  FALSE
    BY DEF NoLeftovers
  <2>1. /\ gw[u] \in Objects
        /\ IdOf[u] \in Ids
        /\ tunnels[gw[u]][IdOf[u]] = u
    BY UsersAssumption DEF GatewayInv, Reached
  <2>2. IdOf[u] \in Held(gw[u])
    BY <2>1, UsersAssumption DEF Held
  <2>3. InUse(u, gw[u])
    BY <2>1, <2>2 DEF GatewayInv, Owned
  <2> QED
    BY <2>3 DEF InUse
<1> QED
  BY <1>1, AlwaysCoherent, PTL

\* A request that closes its tunnel cuts no tunnel of another whose id is its
\* own, although the two may share one SSH connection.
THEOREM TunnelsKept == Spec => OthersKeepTheirs
<1>1. GatewayInv /\ [Next]_vars =>
        [\A u, v \in Users :
           /\ Close(u)
           /\ u # v /\ OwnId(v)
           /\ link[v] = "up"
           => link'[v] = "up"]_vars
  <2> SUFFICES ASSUME GatewayInv, NEW u \in Users, NEW v \in Users, Close(u),
                      u # v, OwnId(v), link[v] = "up"
               PROVE  link'[v] = "up"
    OBVIOUS
  <2>1. IdOf[u] \in Ids /\ IdOf[v] \in Ids /\ IdOf[u] # IdOf[v]
    BY UsersAssumption DEF OwnId
  <2>2. gw[v] \in Objects /\ tunnels[gw[v]][IdOf[v]] = v
    BY DEF GatewayInv, Reached
  <2>3. IdOf[v] \in Held(gw[v])
    BY <2>1, <2>2, UsersAssumption DEF Held
  <2>4. gw[u] \in Objects /\ CloseSshTunnel(gw[u], IdOf[u])
    BY DEF Close, GatewayInv, Engaged, Procs
  <2>5. v # tunnels[gw[u]][IdOf[u]]
    <3> SUFFICES ASSUME v = tunnels[gw[u]][IdOf[u]] PROVE FALSE
      OBVIOUS
    <3>1. IdOf[u] \in Held(gw[u])
      BY <2>1, UsersAssumption DEF Held
    <3> QED
      BY <2>1, <2>4, <3>1 DEF GatewayInv, Owned
  <2>6. gw[v] = gw[u] => ~(Held(gw[u]) \subseteq {IdOf[u]})
    BY <2>1, <2>3
  <2> QED
    BY <2>4, <2>5, <2>6 DEF CloseSshTunnel, CloseTunnel, GatewayInv, TypeOK
<1> QED
  BY <1>1, AlwaysCoherent, PTL DEF Spec, OthersKeepTheirs
=============================================================================
