--------------------------- MODULE McpBrokerProofs ---------------------------
(***************************************************************************)
(* No caller of the broker waits for an answer that cannot come, routes    *)
(* and registrations belong to attached devices, scopes stay exclusive and *)
(* generations fresh, for any devices, sessions, calls and bounds.         *)
(***************************************************************************)
EXTENDS McpBroker, FiniteSetTheorems, TLAPS

-----------------------------------------------------------------------------
(* The inductive invariant *)

Link == [device : Devices, conn : Conns]
SocketState == [device : Devices \cup {None}, st : {"unused", "open", "ending", "closed"}]
RegEntry == [scope : Scopes, reg : Registration]

\* A connection that is attached was opened by its device and has not been closed.
SocketInv ==
  /\ \A c \in Conns : socket[c].st # "unused" => socket[c].device # None
  /\ \A d \in Devices : devices[d] # None =>
       socket[devices[d]].device = d /\ socket[devices[d]].st \in {"open", "ending"}

\* The call has got its route.
Started(r) == call[r].pc \notin {"idle", "queued"}

\* What a task holds at each of its points; it is pending exactly while it has no answer.
CallInv(r) ==
  /\ call[r].pc \in {"idle", "queued"} => call[r].route = None
  /\ Started(r) => call[r].route \in Route
  /\ call[r].pc = "queued" => call[r].kind = "resume" /\ call[r].conn # None /\ call[r].reg \in RegEntry
  /\ call[r].pc = "sending" => call[r].conn # None
  /\ call[r].pc = "undo" => call[r].kind \in Activating
  /\ call[r].pc = "routed" => call[r].answer = None
  /\ pending[r] # None => call[r].pc \in {"sending", "waiting"}
  /\ call[r].pc \in {"sending", "waiting"} => (pending[r] # None) = (call[r].answer = None)

\* The call holds a route that it created itself.
Holds(r) == call[r].kind \in Activating /\ Started(r)

\* A project selection or resume that ended in failure.
Failed(r) == call[r].pc = "done" /\ call[r].result = "failed" /\ call[r].kind \in {"project", "resume"}

\* The route of a session was made for it by the call it is named after.
SessInv(s) ==
  sessions[s] # None =>
    /\ sessions[s].session = s
    /\ devices[sessions[s].device] # None
    /\ Holds(sessions[s].sid) /\ call[sessions[s].sid].route.session = s
    /\ ~Failed(sessions[s].sid)

ProjInv ==
  /\ \A p \in Scopes : projects[p] # None => devices[projects[p].owner] # None
  /\ \A p, q \in Scopes :
       (/\ projects[p] # None /\ projects[q] # None
        /\ projects[p].owner = projects[q].owner /\ projects[p].thread = projects[q].thread) => p = q

DormInv == \A k \in Keys : dormant[k] # None => dormant[k].route.device = k[1]

ExclInv ==
  \A k \in Keys, p \in Scopes :
    (LiveDormant[k] # None /\ LiveDormant[k].scope = p /\ LiveProjects[p] # None) =>
      LiveProjects[p].owner = k[1]

KeyOf(a) == <<a.device, a.thread>>

GenInv ==
  /\ \A r \in Calls : Holds(r) => call[r].route.generation <= generations[KeyOf(call[r].route)]
  /\ \A r, q \in Calls :
       (r # q /\ Holds(r) /\ Holds(q) /\ KeyOf(call[r].route) = KeyOf(call[q].route)) =>
         call[r].route.generation # call[q].route.generation

BrokerInv ==
  /\ TypeOK /\ SocketInv /\ PendingOnAttached
  /\ \A r \in Calls : CallInv(r)
  /\ \A s \in Sessions : SessInv(s)
  /\ ProjInv /\ DormInv /\ ExclInv /\ GenInv

-----------------------------------------------------------------------------
(* Values *)

LEMMA Nones ==
  /\ None \notin Devices /\ None \notin Calls /\ None \notin Conns /\ None \notin Link
  /\ None # "ok" /\ None # "refused" /\ None # "dropped"
<1>1. Conns \subseteq Nat BY BrokerAssumption DEF Conns
<1>2. Link \subseteq [device : Devices, conn : Nat] BY <1>1 DEF Link
<1>3. QED BY <1>1, <1>2, BrokerAssumption

LEMMA Clock ==
  ASSUME TypeOK
  PROVE  /\ now \in Nat /\ Times \subseteq Nat /\ Expiries \subseteq Times
         /\ now + Grace \in Times /\ now + DeviceTtl \in Times
         /\ \A a, b \in Times : MinOf(a, b) \in Times /\ MaxOf(a, b) \in Times
<1>1. now \in 0..MaxTime /\ MaxTime \in Nat /\ Grace \in Nat \ {0} /\ DeviceTtl \in Nat \ {0}
  BY BrokerAssumption DEF TypeOK
<1>2. now \in Nat /\ Times \subseteq Nat /\ now + Grace \in Times /\ now + DeviceTtl \in Times
  BY <1>1 DEF Times
<1>3. 0..(MaxTime + 1) \subseteq Times BY <1>1 DEF Times
<1>4. \A a, b \in Times : MinOf(a, b) \in Times /\ MaxOf(a, b) \in Times
  BY DEF MinOf, MaxOf
<1>5. QED BY <1>2, <1>3, <1>4, BrokerAssumption

LEMMA IdleIsTask ==
  /\ IdleTask \in Task /\ IdleTask.pc = "idle" /\ IdleTask.route = None /\ IdleTask.answer = None
  /\ IdleTask.conn = None /\ IdleTask.reg = None /\ IdleTask.kind = None /\ IdleTask.result = None
  BY DEF IdleTask, Task

\* What is left of the maps is what was there.
LEMMA Live ==
  ASSUME TypeOK
  PROVE  /\ LiveProjects \in [Scopes -> Registration \cup {None}]
         /\ LiveSessions \in [Sessions -> Route \cup {None}]
         /\ LiveDormant \in [Keys -> DormantRoute \cup {None}]
         /\ \A p \in Scopes : LiveProjects[p] # None => LiveProjects[p] = projects[p]
         /\ \A s \in Sessions : LiveSessions[s] # None => LiveSessions[s] = sessions[s]
         /\ \A k \in Keys : LiveDormant[k] # None => LiveDormant[k] = dormant[k]
<1>1. projects \in [Scopes -> Registration \cup {None}] /\ sessions \in [Sessions -> Route \cup {None}]
      /\ dormant \in [Keys -> DormantRoute \cup {None}]
  BY DEF TypeOK
<1>2. \A p \in Scopes : LiveProjects[p] \in Registration \cup {None} /\ LiveProjects[p] \in {projects[p], None}
  BY <1>1 DEF LiveProjects
<1>3. \A s \in Sessions : LiveSessions[s] \in Route \cup {None} /\ LiveSessions[s] \in {sessions[s], None}
  BY <1>1 DEF LiveSessions
<1>4. \A k \in Keys : LiveDormant[k] \in DormantRoute \cup {None} /\ LiveDormant[k] \in {dormant[k], None}
  BY <1>1 DEF LiveDormant
<1>5. /\ LiveProjects = [p \in Scopes |-> LiveProjects[p]] /\ LiveSessions = [s \in Sessions |-> LiveSessions[s]]
      /\ LiveDormant = [k \in Keys |-> LiveDormant[k]]
  BY DEF LiveProjects, LiveSessions, LiveDormant
<1>6. /\ LiveProjects \in [Scopes -> Registration \cup {None}]
      /\ LiveSessions \in [Sessions -> Route \cup {None}]
      /\ LiveDormant \in [Keys -> DormantRoute \cup {None}]
  BY <1>2, <1>3, <1>4, <1>5, Zenon
<1>7. QED BY <1>2, <1>3, <1>4, <1>6

-----------------------------------------------------------------------------
(* What keeps each part of the invariant *)

\* The tables of the broker, the sockets and the tasks, as far as types go.
LEMMA Types ==
  ASSUME TypeOK
  PROVE  /\ devices \in [Devices -> Conns \cup {None}] /\ socket \in [Conns -> SocketState]
         /\ queue \in [Conns -> Seq(Calls)] /\ atDevice \in [Conns -> SUBSET Calls]
         /\ projects \in [Scopes -> Registration \cup {None}] /\ sessions \in [Sessions -> Route \cup {None}]
         /\ generations \in [Keys -> Nat] /\ pending \in [Calls -> Link \cup {None}]
         /\ dormant \in [Keys -> DormantRoute \cup {None}] /\ selection \in Calls \cup {None}
         /\ call \in [Calls -> Task]
  BY DEF TypeOK, Link, SocketState

\* The next state's routes are routes of this state, perhaps with another expiry.
RoutesStay ==
  \A s \in Sessions : sessions'[s] # None =>
    /\ sessions[s] # None
    /\ sessions'[s].session = sessions[s].session /\ sessions'[s].device = sessions[s].device
    /\ sessions'[s].sid = sessions[s].sid

\* A call keeps the route it holds, and does not end in failure with it.
HoldersStay ==
  \A r \in Calls : Holds(r) =>
    /\ Holds(r)' /\ call'[r].kind = call[r].kind /\ call'[r].route = call[r].route
    /\ Failed(r)' => Failed(r)

LEMMA SessStay ==
  ASSUME TypeOK, NEW s \in Sessions, SessInv(s), RoutesStay, HoldersStay,
         sessions'[s] # None => devices'[sessions[s].device] # None
  PROVE  SessInv(s)'
<1> SUFFICES ASSUME sessions'[s] # None PROVE SessInv(s)'
  BY DEF SessInv
<1>1. /\ sessions[s] # None /\ sessions'[s].session = sessions[s].session
      /\ sessions'[s].device = sessions[s].device
  BY DEF RoutesStay
<1>2. PICK q \in Calls : q = sessions[s].sid BY <1>1, Types DEF Route
<1>3. sessions'[s].sid = q BY <1>1, <1>2 DEF RoutesStay
<1>4. Holds(q) /\ call[q].route.session = s /\ ~Failed(q) /\ sessions[s].session = s
  BY <1>1, <1>2 DEF SessInv
<1>5. call'[q].kind = call[q].kind /\ call'[q].route = call[q].route /\ ~Failed(q)' BY <1>4 DEF HoldersStay
<1>6. Holds(q)' BY <1>4 DEF HoldersStay
<1>7. /\ sessions'[s].session = s /\ devices'[sessions'[s].device] # None
      /\ call'[q].route.session = s
  BY <1>1, <1>4, <1>5
<1>8. QED BY <1>3, <1>5, <1>6, <1>7 DEF SessInv, Holds, Started, Failed

LEMMA GenStay ==
  ASSUME GenInv, generations' = generations,
         \A r \in Calls : Holds(r)' => Holds(r) /\ call'[r].route = call[r].route
  PROVE  GenInv'
<1>1. \A r \in Calls : Holds(r)' => call'[r].route.generation <= generations'[KeyOf(call'[r].route)]
  BY DEF GenInv, KeyOf
<1>2. ASSUME NEW r \in Calls, NEW q \in Calls, r # q, Holds(r)', Holds(q)',
             KeyOf(call'[r].route) = KeyOf(call'[q].route)
      PROVE  call'[r].route.generation # call'[q].route.generation
  <2>1. Holds(r) /\ Holds(q) /\ call'[r].route = call[r].route /\ call'[q].route = call[q].route BY <1>2
  <2>2. KeyOf(call[r].route) = KeyOf(call[q].route) BY <1>2, <2>1
  <2>3. QED BY <1>2, <2>1, <2>2 DEF GenInv
<1>3. QED BY <1>1, <1>2 DEF GenInv, KeyOf

\* Registrations are dropped, or kept as they are.
ProjectsStay == \A p \in Scopes : projects'[p] # None => projects'[p] = projects[p]

LEMMA ProjStay ==
  ASSUME ProjInv, ProjectsStay,
         \A p \in Scopes : projects'[p] # None => devices'[projects[p].owner] # None
  PROVE  ProjInv'
  BY DEF ProjInv, ProjectsStay

LEMMA SomeProject ==
  \A p \in Scopes :
    /\ LiveProjects[p] # None => projects[p] # None /\ projects[p].expires > now /\ LiveProjects[p] = projects[p]
    /\ projects[p] # None /\ projects[p].expires > now => LiveProjects[p] = projects[p]
  BY DEF LiveProjects

LEMMA SomeDormant ==
  \A k \in Keys :
    /\ LiveDormant[k] # None => /\ dormant[k] # None /\ LiveDormant[k] = dormant[k]
                                /\ dormant[k].until > now /\ dormant[k].route.expires > now
    /\ dormant[k] # None /\ dormant[k].until > now /\ dormant[k].route.expires > now => LiveDormant[k] = dormant[k]
  BY DEF LiveDormant

\* A dormant entry is one of before, or its scope is registered by no other device.
LEMMA ExclStay ==
  ASSUME TypeOK, ExclInv, now \in Nat, now' \in Nat, now <= now', ProjectsStay,
         \A k \in Keys : dormant'[k] # None =>
           \/ dormant'[k] = dormant[k]
           \/ \A p \in Scopes : dormant'[k].scope = p /\ projects'[p] # None => projects'[p].owner = k[1]
  PROVE  ExclInv'
<1> SUFFICES ASSUME NEW k \in Keys, NEW p \in Scopes, LiveDormant'[k] # None, LiveDormant'[k].scope = p,
                    LiveProjects'[p] # None
             PROVE  LiveProjects'[p].owner = k[1]
  BY DEF ExclInv
<1>1. /\ projects'[p] # None /\ projects'[p].expires > now' /\ LiveProjects'[p] = projects'[p]
      /\ dormant'[k] # None /\ LiveDormant'[k] = dormant'[k]
      /\ dormant'[k].until > now' /\ dormant'[k].route.expires > now'
  BY DEF LiveProjects, LiveDormant
<1>2. projects'[p] = projects[p] BY <1>1 DEF ProjectsStay
<1>3. CASE dormant'[k] = dormant[k]
  <2>1. projects[p] \in Registration /\ dormant[k] \in DormantRoute BY <1>1, <1>2, <1>3, Types
  <2>2. projects[p].expires \in Nat /\ dormant[k].until \in Nat /\ dormant[k].route.expires \in Nat
    BY <2>1, Clock DEF Registration, DormantRoute, Route
  <2>3. projects[p].expires > now /\ dormant[k].until > now /\ dormant[k].route.expires > now
    BY <1>1, <1>2, <1>3, <2>2
  <2>4. LiveProjects[p] = projects[p] /\ LiveDormant[k] = dormant[k]
    BY <1>1, <1>2, <1>3, <2>3, SomeProject, SomeDormant
  <2>5. QED BY <1>1, <1>2, <1>3, <2>4 DEF ExclInv
<1>4. CASE dormant'[k] # dormant[k] BY <1>1, <1>4
<1>5. QED BY <1>3, <1>4

LEMMA DormStay ==
  ASSUME DormInv, \A k \in Keys : dormant'[k] # None => dormant'[k] = dormant[k] \/ dormant'[k].route.device = k[1]
  PROVE  DormInv'
  BY DEF DormInv

-----------------------------------------------------------------------------
(* A device disconnects *)

\* The call loses its pending entry and the sender of its answer with it.
Dropped(r) ==
  /\ pending[r] # None /\ pending'[r] = None
  /\ call'[r] \in Task /\ call'[r].answer = "dropped"
  /\ call'[r].kind = call[r].kind /\ call'[r].pc = call[r].pc /\ call'[r].route = call[r].route
  /\ call'[r].conn = call[r].conn /\ call'[r].reg = call[r].reg /\ call'[r].result = call[r].result

LEMMA CutCalls ==
  ASSUME TypeOK, NEW d \in Devices, NEW c \in Conns, Disconnect(d, c)
  PROVE  /\ pending' \in [Calls -> Link \cup {None}] /\ call' \in [Calls -> Task]
         /\ \A r \in Calls : pending'[r] # None => pending'[r] = pending[r] /\ pending[r] # [device |-> d, conn |-> c]
         /\ \A r \in Calls : (pending'[r] = pending[r] /\ call'[r] = call[r]) \/ Dropped(r)
<1>1. pending \in [Calls -> Link \cup {None}] /\ call \in [Calls -> Task] BY Types
<1>2. PICK l \in Link : l = [device |-> d, conn |-> c] BY DEF Link
<1>3. /\ pending' = [r \in Calls |-> IF pending[r] = l THEN None ELSE pending[r]]
      /\ call' = [r \in Calls |-> IF pending[r] = l THEN [call[r] EXCEPT !.answer = "dropped"] ELSE call[r]]
  BY <1>2 DEF Disconnect
<1>4. \A r \in Calls : /\ pending'[r] = IF pending[r] = l THEN None ELSE pending[r]
                       /\ call'[r] = IF pending[r] = l THEN [call[r] EXCEPT !.answer = "dropped"] ELSE call[r]
  BY <1>3
<1>5. ASSUME NEW r \in Calls
      PROVE  /\ pending'[r] \in Link \cup {None} /\ call'[r] \in Task
             /\ pending'[r] # None => pending'[r] = pending[r] /\ pending[r] # [device |-> d, conn |-> c]
             /\ (pending'[r] = pending[r] /\ call'[r] = call[r]) \/ Dropped(r)
  <2>1. CASE pending[r] = l
    <3>1. pending'[r] = None /\ pending[r] # None BY <1>4, <2>1, Nones
    <3>2. PICK t \in Task : t = call[r] BY <1>1
    <3>3. PICK u \in Task : u = [t EXCEPT !.answer = "dropped"] BY DEF Task
    <3>4. /\ u.answer = "dropped" /\ u.kind = t.kind /\ u.pc = t.pc /\ u.route = t.route
          /\ u.conn = t.conn /\ u.reg = t.reg /\ u.result = t.result
      BY <3>3 DEF Task
    <3>5. call'[r] = u BY <1>4, <2>1, <3>2, <3>3
    <3>6. Dropped(r) BY <3>1, <3>2, <3>4, <3>5 DEF Dropped
    <3>7. QED BY <3>1, <3>5, <3>6
  <2>2. CASE pending[r] # l
    <3>1. pending'[r] = pending[r] /\ call'[r] = call[r] BY <1>4, <2>2
    <3>2. QED BY <1>1, <1>2, <2>2, <3>1
  <2>3. QED BY <2>1, <2>2
<1>6. pending' \in [Calls -> Link \cup {None}] /\ call' \in [Calls -> Task]
  <2>1. pending' = [r \in Calls |-> pending'[r]] /\ call' = [r \in Calls |-> call'[r]] BY <1>3
  <2>2. QED BY <1>5, <2>1, Zenon
<1>7. QED BY <1>5, <1>6

LEMMA CutMaps ==
  ASSUME TypeOK, NEW d \in Devices, NEW c \in Conns, Disconnect(d, c)
  PROVE  /\ projects' \in [Scopes -> Registration \cup {None}]
         /\ sessions' \in [Sessions -> Route \cup {None}]
         /\ \A p \in Scopes : projects'[p] # None => projects'[p] = projects[p] /\ projects[p].owner # d
         /\ \A s \in Sessions : sessions'[s] # None => sessions'[s] = sessions[s] /\ sessions[s].device # d
<1>1. projects \in [Scopes -> Registration \cup {None}] /\ sessions \in [Sessions -> Route \cup {None}] BY Types
<1>2. /\ projects' = [p \in Scopes |-> IF projects[p] # None /\ projects[p].owner = d THEN None ELSE projects[p]]
      /\ sessions' = [s \in Sessions |-> IF sessions[s] # None /\ sessions[s].device = d THEN None ELSE sessions[s]]
  BY DEF Disconnect, SessionsWithout
<1>3. QED BY <1>1, <1>2

\* An entry that a disconnect leaves dormant is for a project the device had registered.
LEMMA ParkedEntry ==
  ASSUME TypeOK, NEW d \in Devices, NEW k \in Keys, NEW e \in Parked(d, k)
  PROVE  /\ e \in DormantRoute /\ e.route.device = d /\ k[1] = d
         /\ e.scope \in Scopes /\ projects[e.scope] # None /\ projects[e.scope].owner = d
<1>1. PICK x \in Sessions \X Scopes :
        /\ sessions[x[1]] # None /\ sessions[x[1]].device = d /\ k = <<d, sessions[x[1]].thread>>
        /\ x[2] \in OwnedScopes(d, sessions[x[1]].thread)
        /\ e = [route |-> sessions[x[1]], scope |-> x[2], binding |-> projects[x[2]].binding,
                until |-> MinOf(sessions[x[1]].expires, now + Grace)]
  BY DEF Parked
<1>2. PICK s \in Sessions, p \in Scopes : s = x[1] /\ p = x[2] OBVIOUS
<1>3. sessions[s] \in Route /\ projects[p] \in Registration /\ projects[p] # None /\ projects[p].owner = d
  BY <1>1, <1>2, Types DEF OwnedScopes
<1>4. MinOf(sessions[s].expires, now + Grace) \in Times BY <1>3, Clock DEF Route
<1>5. projects[p].binding \in Bindings BY <1>3 DEF Registration
<1>6. e = [route |-> sessions[s], scope |-> p, binding |-> projects[p].binding,
           until |-> MinOf(sessions[s].expires, now + Grace)]
  BY <1>1, <1>2
<1>7. e \in DormantRoute /\ e.route = sessions[s] /\ e.scope = p
  BY <1>3, <1>4, <1>5, <1>6 DEF DormantRoute
<1>8. QED BY <1>1, <1>2, <1>3, <1>7

LEMMA CutDormant ==
  ASSUME TypeOK, NEW d \in Devices, NEW c \in Conns, Disconnect(d, c)
  PROVE  /\ dormant' \in [Keys -> DormantRoute \cup {None}]
         /\ \A k \in Keys : \/ dormant'[k] = dormant[k]
                            \/ /\ dormant'[k].route.device = k[1] /\ dormant'[k].scope \in Scopes
                               /\ projects[dormant'[k].scope] # None /\ projects[dormant'[k].scope].owner = d
<1>1. PICK kept \in [Keys -> UNION {Parked(d, k) : k \in Keys} \cup {None}] :
        /\ \A k \in Keys : kept[k] \in IF Parked(d, k) = {} THEN {None} ELSE Parked(d, k)
        /\ dormant' = [k \in Keys |-> IF kept[k] # None THEN kept[k] ELSE dormant[k]]
  BY DEF Disconnect
<1>2. dormant \in [Keys -> DormantRoute \cup {None}] BY Types
<1>3. ASSUME NEW k \in Keys
      PROVE  /\ dormant'[k] \in DormantRoute \cup {None}
             /\ \/ dormant'[k] = dormant[k]
                \/ /\ dormant'[k].route.device = k[1] /\ dormant'[k].scope \in Scopes
                   /\ projects[dormant'[k].scope] # None /\ projects[dormant'[k].scope].owner = d
  <2>1. dormant'[k] = IF kept[k] # None THEN kept[k] ELSE dormant[k] BY <1>1
  <2>2. CASE kept[k] = None BY <1>2, <2>1, <2>2
  <2>3. CASE kept[k] # None
    <3>1. kept[k] \in Parked(d, k) BY <1>1, <2>3
    <3>2. dormant'[k] = kept[k] BY <2>1, <2>3
    <3>3. QED BY <3>1, <3>2, ParkedEntry
  <2>4. QED BY <2>2, <2>3
<1>4. dormant' = [k \in Keys |-> dormant'[k]] BY <1>1
<1>5. QED BY <1>3, <1>4, Zenon

\* The attached connection c of device d is gone, or replaced by another one.
LEMMA CutStep ==
  ASSUME BrokerInv, NEW d \in Devices, NEW c \in Conns, devices[d] = c, Disconnect(d, c),
         now' = now, generations' = generations,
         \A e \in Devices : e # d => devices'[e] = devices[e]
  PROVE  /\ projects' \in [Scopes -> Registration \cup {None}] /\ sessions' \in [Sessions -> Route \cup {None}]
         /\ pending' \in [Calls -> Link \cup {None}] /\ dormant' \in [Keys -> DormantRoute \cup {None}]
         /\ call' \in [Calls -> Task]
         /\ \A r \in Calls : CallInv(r)'
         /\ \A s \in Sessions : SessInv(s)'
         /\ ProjInv' /\ DormInv' /\ ExclInv' /\ GenInv'
         /\ \A r \in Calls : pending'[r] # None => pending'[r] = pending[r] /\ pending[r].device # d
<1>0. TypeOK BY DEF BrokerInv
<1>1. /\ projects' \in [Scopes -> Registration \cup {None}] /\ sessions' \in [Sessions -> Route \cup {None}]
      /\ pending' \in [Calls -> Link \cup {None}] /\ dormant' \in [Keys -> DormantRoute \cup {None}]
      /\ call' \in [Calls -> Task]
  BY <1>0, CutCalls, CutMaps, CutDormant
<1>2. /\ \A r \in Calls : pending'[r] # None => pending'[r] = pending[r] /\ pending[r] # [device |-> d, conn |-> c]
      /\ \A r \in Calls : (pending'[r] = pending[r] /\ call'[r] = call[r]) \/ Dropped(r)
  BY <1>0, CutCalls
<1>3. /\ \A p \in Scopes : projects'[p] # None => projects'[p] = projects[p] /\ projects[p].owner # d
      /\ \A s \in Sessions : sessions'[s] # None => sessions'[s] = sessions[s] /\ sessions[s].device # d
  BY <1>0, CutMaps
<1>4. ASSUME NEW r \in Calls PROVE CallInv(r)'
  <2>1. CallInv(r) BY DEF BrokerInv
  <2>2. CASE pending'[r] = pending[r] /\ call'[r] = call[r] BY <2>1, <2>2 DEF CallInv, Started
  <2>3. CASE Dropped(r)
    <3>1. call'[r].pc \in {"sending", "waiting"} /\ call[r].pc \in {"sending", "waiting"} BY <2>1, <2>3 DEF Dropped, CallInv, Started
    <3>2. pending'[r] = None /\ call'[r].answer # None BY <2>3, Nones DEF Dropped
    <3>3. (pending'[r] # None) = (call'[r].answer = None) BY <3>2
    <3>4. call'[r].route \in Route /\ (call'[r].pc = "sending" => call'[r].conn # None)
      BY <2>1, <2>3, <3>1 DEF CallInv, Started, Dropped
    <3>5. QED BY <3>1, <3>2, <3>3, <3>4 DEF CallInv, Started
  <2>4. QED BY <1>2, <2>2, <2>3
<1>5. RoutesStay BY <1>3 DEF RoutesStay
<1>6. /\ HoldersStay
      /\ \A r \in Calls : Holds(r)' => Holds(r) /\ call'[r].route = call[r].route
  BY <1>2 DEF HoldersStay, Holds, Started, Failed, Dropped
<1>7. ASSUME NEW s \in Sessions PROVE SessInv(s)'
  <2>1. SessInv(s) BY DEF BrokerInv
  <2>2. ASSUME sessions'[s] # None PROVE devices'[sessions[s].device] # None
    <3>1. sessions[s] # None /\ sessions[s].device # d /\ sessions[s].device \in Devices
      BY <1>0, <1>3, <2>2, Types DEF Route
    <3>2. devices[sessions[s].device] # None BY <2>1, <3>1 DEF SessInv
    <3>3. QED BY <3>1, <3>2
  <2>3. QED BY <1>0, <1>5, <1>6, <2>1, <2>2, SessStay
<1>8. ProjectsStay BY <1>3 DEF ProjectsStay
<1>9. ProjInv'
  <2>1. ASSUME NEW p \in Scopes, projects'[p] # None PROVE devices'[projects[p].owner] # None
    <3>1. projects[p] # None /\ projects[p].owner # d /\ projects[p].owner \in Devices
      BY <1>0, <1>3, <2>1, Types DEF Registration
    <3>2. QED BY <3>1 DEF BrokerInv, ProjInv
  <2>2. QED BY <1>8, <2>1, ProjStay DEF BrokerInv
<1>10. \A k \in Keys : \/ dormant'[k] = dormant[k]
                       \/ /\ dormant'[k].route.device = k[1] /\ dormant'[k].scope \in Scopes
                          /\ projects[dormant'[k].scope] # None /\ projects[dormant'[k].scope].owner = d
  BY <1>0, CutDormant
<1>11. DormInv' BY <1>10, DormStay DEF BrokerInv
<1>12. ExclInv'
  <2>1. \A k \in Keys : dormant'[k] # None =>
           \/ dormant'[k] = dormant[k]
           \/ \A p \in Scopes : dormant'[k].scope = p /\ projects'[p] # None => projects'[p].owner = k[1]
    BY <1>3, <1>10
  <2>2. now \in Nat /\ now' \in Nat /\ now <= now' BY <1>0, Clock
  <2>3. QED BY <1>0, <1>8, <2>1, <2>2, ExclStay DEF BrokerInv
<1>13. GenInv' BY <1>6, GenStay DEF BrokerInv
<1>14. ASSUME NEW r \in Calls, pending'[r] # None PROVE pending'[r] = pending[r] /\ pending[r].device # d
  <2>1. pending'[r] = pending[r] /\ pending[r] # [device |-> d, conn |-> c] BY <1>2, <1>14
  <2>2. pending[r] \in Link BY <1>0, <1>14, <2>1, Types
  <2>3. devices[pending[r].device] = pending[r].conn BY <1>14, <2>1 DEF BrokerInv, PendingOnAttached
  <2>4. pending[r] = [device |-> pending[r].device, conn |-> pending[r].conn] BY <2>2 DEF Link
  <2>5. QED BY <2>1, <2>3, <2>4
<1>15. QED BY <1>1, <1>4, <1>7, <1>9, <1>11, <1>12, <1>13, <1>14

-----------------------------------------------------------------------------
(* The steps of a socket *)

LEMMA AttachStep ==
  ASSUME BrokerInv, NEW d \in Devices, NEW c \in Conns, Attach(d, c)
  PROVE  BrokerInv'
<1>0. TypeOK /\ SocketInv BY DEF BrokerInv
<1>1. /\ socket[c].st = "unused"
      /\ socket' = [socket EXCEPT ![c] = [device |-> d, st |-> "open"]]
      /\ devices' = [devices EXCEPT ![d] = c]
      /\ UNCHANGED <<now, queue, atDevice, generations, selection>>
  BY DEF Attach
<1>2. /\ devices' \in [Devices -> Conns \cup {None}] /\ devices'[d] = c
      /\ \A e \in Devices : e # d => devices'[e] = devices[e]
  BY <1>0, <1>1, Types
<1>3. /\ socket' \in [Conns -> SocketState] /\ socket'[c].device = d /\ socket'[c].st = "open"
      /\ \A b \in Conns : b # c => socket'[b] = socket[b]
  BY <1>0, <1>1, Types DEF SocketState
<1>4. \A e \in Devices : devices[e] # None => devices[e] \in Conns /\ devices[e] # c
  BY <1>0, <1>1, Types DEF SocketInv
<1>5. SocketInv'
  <2>1. \A b \in Conns : socket'[b].st # "unused" => socket'[b].device # None
    BY <1>0, <1>3, Nones DEF SocketInv
  <2>2. ASSUME NEW e \in Devices, devices'[e] # None
        PROVE  socket'[devices'[e]].device = e /\ socket'[devices'[e]].st \in {"open", "ending"}
    <3>1. CASE e = d BY <1>2, <1>3, <3>1
    <3>2. CASE e # d
      <4>1. devices'[e] = devices[e] /\ devices[e] # None BY <1>2, <2>2, <3>2
      <4>2. socket'[devices[e]] = socket[devices[e]] BY <1>3, <1>4, <4>1
      <4>3. QED BY <1>0, <4>1, <4>2 DEF SocketInv
    <3>3. QED BY <3>1, <3>2
  <2>3. QED BY <2>1, <2>2 DEF SocketInv
<1>6. /\ projects' \in [Scopes -> Registration \cup {None}] /\ sessions' \in [Sessions -> Route \cup {None}]
      /\ pending' \in [Calls -> Link \cup {None}] /\ dormant' \in [Keys -> DormantRoute \cup {None}]
      /\ call' \in [Calls -> Task]
      /\ \A r \in Calls : CallInv(r)'
      /\ \A s \in Sessions : SessInv(s)'
      /\ ProjInv' /\ DormInv' /\ ExclInv' /\ GenInv'
      /\ \A r \in Calls : pending'[r] # None => pending'[r] = pending[r] /\ pending[r].device # d
  <2>1. CASE devices[d] # None
    <3>1. PICK b \in Conns : b = devices[d] BY <1>4, <2>1
    <3>2. Disconnect(d, b) BY <2>1, <3>1 DEF Attach
    <3>3. QED BY <1>1, <1>2, <3>1, <3>2, CutStep
  <2>2. CASE devices[d] = None
    <3>1. UNCHANGED <<projects, sessions, pending, dormant, call>> BY <2>2 DEF Attach
    <3>2. \A r \in Calls : CallInv(r)' BY <3>1 DEF BrokerInv, CallInv, Started
    <3>3. RoutesStay /\ HoldersStay /\ ProjectsStay BY <3>1 DEF RoutesStay, HoldersStay, ProjectsStay, Failed, Holds, Started
    <3>4. \A e \in Devices : devices[e] # None => devices'[e] # None BY <1>2, <2>2
    <3>5. ASSUME NEW s \in Sessions PROVE SessInv(s)'
      <4>1. SessInv(s) BY DEF BrokerInv
      <4>2. sessions'[s] # None => devices'[sessions[s].device] # None
        BY <1>0, <3>1, <3>4, <4>1, Types DEF SessInv, Route
      <4>3. QED BY <1>0, <3>3, <4>1, <4>2, SessStay
    <3>6. ProjInv'
      <4>1. \A p \in Scopes : projects'[p] # None => devices'[projects[p].owner] # None
        BY <1>0, <3>1, <3>4, Types DEF BrokerInv, ProjInv, Registration
      <4>2. QED BY <3>3, <4>1, ProjStay DEF BrokerInv
    <3>7. DormInv' BY <3>1 DEF BrokerInv, DormInv
    <3>8. ExclInv' BY <1>1, <3>1 DEF BrokerInv, ExclInv, LiveDormant, LiveProjects
    <3>9. GenInv' BY <1>1, <3>1, GenStay DEF BrokerInv, Holds, Started
    <3>10. ASSUME NEW r \in Calls, pending'[r] # None PROVE pending[r].device # d
      <4>1. pending[r] # None /\ pending[r] \in Link BY <1>0, <3>1, <3>10, Types
      <4>2. devices[pending[r].device] = pending[r].conn /\ pending[r].conn \in Conns
        BY <4>1 DEF BrokerInv, PendingOnAttached, Link
      <4>3. QED BY <2>2, <4>2, Nones
    <3>11. QED BY <1>0, <3>1, <3>2, <3>5, <3>6, <3>7, <3>8, <3>9, <3>10, Types
  <2>3. QED BY <2>1, <2>2
<1>7. PendingOnAttached'
  <2> SUFFICES ASSUME NEW r \in Calls, pending'[r] # None
               PROVE  devices'[pending'[r].device] = pending'[r].conn /\ socket'[pending'[r].conn].device = pending'[r].device
    BY DEF PendingOnAttached
  <2>1. pending'[r] = pending[r] /\ pending[r] # None /\ pending[r] \in Link /\ pending[r].device # d
    BY <1>0, <1>6, Types
  <2>2. pending[r].device \in Devices /\ pending[r].conn \in Conns BY <2>1 DEF Link
  <2>3. devices[pending[r].device] = pending[r].conn /\ socket[pending[r].conn].device = pending[r].device
    BY <2>1 DEF BrokerInv, PendingOnAttached
  <2>4. pending[r].conn # c BY <1>4, <2>2, <2>3, Nones
  <2>5. QED BY <1>2, <1>3, <2>1, <2>2, <2>3, <2>4
<1>8. TypeOK' BY <1>0, <1>1, <1>2, <1>3, <1>6 DEF TypeOK, Link, SocketState
<1>9. QED BY <1>5, <1>6, <1>7, <1>8 DEF BrokerInv

LEMMA DetachStep ==
  ASSUME BrokerInv, NEW c \in Conns, Detach(c)
  PROVE  BrokerInv'
<1>0. TypeOK /\ SocketInv BY DEF BrokerInv
<1>1. /\ socket[c].st \in {"open", "ending"} /\ socket' = [socket EXCEPT ![c].st = "closed"]
      /\ queue' = [queue EXCEPT ![c] = << >>] /\ atDevice' = [atDevice EXCEPT ![c] = {}]
      /\ UNCHANGED <<now, generations, selection>>
  BY DEF Detach
<1>2. PICK d \in Devices : d = socket[c].device BY <1>0, <1>1, Types DEF SocketInv, SocketState
<1>3. /\ socket' \in [Conns -> SocketState]
      /\ \A b \in Conns : socket'[b].device = socket[b].device /\ (b # c => socket'[b] = socket[b])
  BY <1>0, <1>1, Types DEF SocketState
<1>4. queue' \in [Conns -> Seq(Calls)] /\ atDevice' \in [Conns -> SUBSET Calls]
  <2>1. << >> \in Seq(Calls) OBVIOUS
  <2>2. QED BY <1>0, <1>1, <2>1, Types
<1>5. /\ devices' \in [Devices -> Conns \cup {None}]
      /\ \A e \in Devices : devices'[e] # None => devices'[e] = devices[e] /\ devices[e] # c
      /\ \A e \in Devices : e # d => devices'[e] = devices[e]
      /\ devices[d] # c => devices'[d] = devices[d]
  <2>1. \A e \in Devices : devices[e] # None /\ devices[e] = c => e = d BY <1>0, <1>2 DEF SocketInv
  <2>2. CASE devices[d] = c
    <3>1. devices' = [devices EXCEPT ![d] = None] BY <1>2, <2>2 DEF Detach, IsCurrent
    <3>2. QED BY <1>0, <2>1, <2>2, <3>1, Types
  <2>3. CASE devices[d] # c
    <3>1. devices' = devices BY <1>2, <2>3 DEF Detach, IsCurrent
    <3>2. QED BY <1>0, <2>1, <2>3, <3>1, Types
  <2>4. QED BY <2>2, <2>3
<1>6. SocketInv'
  <2>1. \A b \in Conns : socket'[b].st # "unused" => socket'[b].device # None
    BY <1>0, <1>1, <1>3 DEF SocketInv
  <2>2. ASSUME NEW e \in Devices, devices'[e] # None
        PROVE  socket'[devices'[e]].device = e /\ socket'[devices'[e]].st \in {"open", "ending"}
    <3>1. devices'[e] = devices[e] /\ devices[e] # c /\ devices[e] \in Conns BY <1>0, <1>5, <2>2, Types
    <3>2. socket'[devices[e]] = socket[devices[e]] BY <1>3, <3>1
    <3>3. QED BY <1>0, <2>2, <3>1, <3>2 DEF SocketInv
  <2>3. QED BY <2>1, <2>2 DEF SocketInv
<1>7. /\ projects' \in [Scopes -> Registration \cup {None}] /\ sessions' \in [Sessions -> Route \cup {None}]
      /\ pending' \in [Calls -> Link \cup {None}] /\ dormant' \in [Keys -> DormantRoute \cup {None}]
      /\ call' \in [Calls -> Task]
      /\ \A r \in Calls : CallInv(r)'
      /\ \A s \in Sessions : SessInv(s)'
      /\ ProjInv' /\ DormInv' /\ ExclInv' /\ GenInv'
      /\ \A r \in Calls : pending'[r] # None => pending'[r] = pending[r] /\ (devices[d] = c => pending[r].device # d)
  <2>1. CASE devices[d] = c
    <3>1. Disconnect(d, c) BY <1>2, <2>1 DEF Detach, IsCurrent
    <3>2. QED BY <1>1, <1>5, <2>1, <3>1, CutStep
  <2>2. CASE devices[d] # c
    <3>1. UNCHANGED <<devices, projects, sessions, pending, dormant, call>> BY <1>2, <2>2 DEF Detach, IsCurrent
    <3>2. \A r \in Calls : CallInv(r)' BY <3>1 DEF BrokerInv, CallInv, Started
    <3>3. \A s \in Sessions : SessInv(s)' BY <3>1 DEF BrokerInv, SessInv, Holds, Started, Failed
    <3>4. ProjInv' /\ DormInv' BY <3>1 DEF BrokerInv, ProjInv, DormInv
    <3>5. ExclInv' BY <1>1, <3>1 DEF BrokerInv, ExclInv, LiveDormant, LiveProjects
    <3>6. GenInv' BY <1>1, <3>1, GenStay DEF BrokerInv, Holds, Started
    <3>7. QED BY <1>0, <2>2, <3>1, <3>2, <3>3, <3>4, <3>5, <3>6, Types
  <2>3. QED BY <2>1, <2>2
<1>8. PendingOnAttached'
  <2> SUFFICES ASSUME NEW r \in Calls, pending'[r] # None
               PROVE  devices'[pending'[r].device] = pending'[r].conn /\ socket'[pending'[r].conn].device = pending'[r].device
    BY DEF PendingOnAttached
  <2>1. pending'[r] = pending[r] /\ pending[r] # None /\ pending[r] \in Link BY <1>0, <1>7, Types
  <2>2. pending[r].device \in Devices /\ pending[r].conn \in Conns BY <2>1 DEF Link
  <2>3. devices[pending[r].device] = pending[r].conn /\ socket[pending[r].conn].device = pending[r].device
    BY <2>1 DEF BrokerInv, PendingOnAttached
  <2>4. devices'[pending[r].device] = devices[pending[r].device] BY <1>5, <1>7, <2>2
  <2>5. QED BY <1>3, <2>1, <2>2, <2>3, <2>4
<1>9. TypeOK' BY <1>0, <1>1, <1>3, <1>4, <1>5, <1>7 DEF TypeOK, Link, SocketState
<1>10. QED BY <1>6, <1>7, <1>8, <1>9 DEF BrokerInv

LEMMA TickStep ==
  ASSUME BrokerInv, Tick
  PROVE  BrokerInv'
<1>0. TypeOK BY DEF BrokerInv
<1>1. /\ now < MaxTime /\ now' = now + 1
      /\ UNCHANGED <<devices, socket, queue, atDevice, projects, sessions, generations, pending, dormant, selection, call>>
  BY DEF Tick
<1>2. now \in Nat /\ now' \in Nat /\ now <= now' /\ now' \in 0..MaxTime BY <1>0, <1>1, Clock, BrokerAssumption DEF TypeOK
<1>3. ProjectsStay BY <1>1 DEF ProjectsStay
<1>4. ExclInv' BY <1>0, <1>1, <1>2, <1>3, ExclStay DEF BrokerInv
<1>5. TypeOK' BY <1>0, <1>1, <1>2 DEF TypeOK
<1>6. SocketInv' /\ PendingOnAttached' /\ (\A r \in Calls : CallInv(r)')
  BY <1>1 DEF BrokerInv, SocketInv, PendingOnAttached, CallInv, Started
<1>7. (\A s \in Sessions : SessInv(s)') /\ ProjInv' /\ DormInv'
  BY <1>1 DEF BrokerInv, SessInv, Holds, Started, Failed, ProjInv, DormInv
<1>8. GenInv' BY <1>1, GenStay DEF BrokerInv, Holds, Started
<1>9. QED BY <1>4, <1>5, <1>6, <1>7, <1>8 DEF BrokerInv

\* The parts of the invariant that a step leaves alone with the tables it leaves alone.
LEMMA SameMaps ==
  ASSUME BrokerInv, UNCHANGED <<now, devices, projects, dormant>>
  PROVE  ProjInv' /\ DormInv' /\ ExclInv'
  BY DEF BrokerInv, ProjInv, DormInv, ExclInv, LiveDormant, LiveProjects

LEMMA SameLinks ==
  ASSUME BrokerInv, UNCHANGED <<devices, pending>>,
         \A c \in Conns : /\ socket'[c].device = socket[c].device
                          /\ socket'[c].st = socket[c].st \/ (socket[c].st = "open" /\ socket'[c].st = "ending")
  PROVE  SocketInv' /\ PendingOnAttached'
<1>0. TypeOK /\ SocketInv BY DEF BrokerInv
<1>1. \A c \in Conns : socket'[c].st # "unused" => socket'[c].device # None BY <1>0 DEF SocketInv
<1>2. ASSUME NEW d \in Devices, devices'[d] # None
      PROVE  socket'[devices'[d]].device = d /\ socket'[devices'[d]].st \in {"open", "ending"}
  <2>1. devices'[d] = devices[d] /\ devices[d] \in Conns BY <1>0, <1>2, Types
  <2>2. QED BY <1>0, <1>2, <2>1 DEF SocketInv
<1>3. SocketInv' BY <1>1, <1>2 DEF SocketInv
<1>4. ASSUME NEW r \in Calls, pending'[r] # None
      PROVE  devices'[pending'[r].device] = pending'[r].conn /\ socket'[pending'[r].conn].device = pending'[r].device
  <2>1. pending'[r] = pending[r] /\ pending[r] \in Link BY <1>0, <1>4, Types
  <2>2. pending[r].conn \in Conns BY <2>1 DEF Link
  <2>3. QED BY <1>4, <2>1, <2>2 DEF BrokerInv, PendingOnAttached
<1>5. QED BY <1>3, <1>4 DEF PendingOnAttached

LEMMA SameSessions ==
  ASSUME BrokerInv, UNCHANGED devices, RoutesStay, HoldersStay
  PROVE  \A s \in Sessions : SessInv(s)'
<1> SUFFICES ASSUME NEW s \in Sessions PROVE SessInv(s)' OBVIOUS
<1>1. TypeOK /\ SessInv(s) BY DEF BrokerInv
<1>2. sessions'[s] # None => devices'[sessions[s].device] # None BY <1>1 DEF SessInv, RoutesStay
<1>3. QED BY <1>1, <1>2, SessStay

LEMMA ForwardStep ==
  ASSUME BrokerInv, NEW c \in Conns, ForwardCommand(c)
  PROVE  BrokerInv'
<1>0. TypeOK BY DEF BrokerInv
<1>1. /\ queue[c] # << >> /\ atDevice' = [atDevice EXCEPT ![c] = @ \cup {Head(queue[c])}]
      /\ queue' = [queue EXCEPT ![c] = Tail(@)]
      /\ UNCHANGED <<now, devices, socket, projects, sessions, generations, pending, dormant, selection, call>>
  BY DEF ForwardCommand
<1>2. PICK q \in Seq(Calls) : q = queue[c] BY <1>0, Types
<1>3. Head(q) \in Calls /\ Tail(q) \in Seq(Calls) BY <1>1, <1>2
<1>4. queue' \in [Conns -> Seq(Calls)] /\ atDevice' \in [Conns -> SUBSET Calls]
  BY <1>0, <1>1, <1>2, <1>3, Types
<1>5. TypeOK' BY <1>0, <1>1, <1>4 DEF TypeOK
<1>6. \A r \in Calls : CallInv(r)' BY <1>1 DEF BrokerInv, CallInv, Started
<1>7. RoutesStay /\ HoldersStay BY <1>1 DEF RoutesStay, HoldersStay, Failed, Holds, Started
<1>8. GenInv' BY <1>1, GenStay DEF BrokerInv, Holds, Started
<1>9. SocketInv' /\ PendingOnAttached' BY <1>1, SameLinks
<1>10. \A s \in Sessions : SessInv(s)' BY <1>1, <1>7, SameSessions
<1>11. ProjInv' /\ DormInv' /\ ExclInv' BY <1>1, SameMaps
<1>12. QED BY <1>5, <1>6, <1>8, <1>9, <1>10, <1>11 DEF BrokerInv

\* A call moves on and keeps the route it holds.
LEMMA CallMoves ==
  ASSUME TypeOK, NEW r \in Calls, NEW t \in Task, call' = [call EXCEPT ![r] = t],
         Started(r), t.pc \notin {"idle", "queued"}, t.kind = call[r].kind, t.route = call[r].route,
         ~(t.pc = "done" /\ t.result = "failed" /\ t.kind \in {"project", "resume"})
  PROVE  /\ call' \in [Calls -> Task] /\ call'[r] = t
         /\ \A q \in Calls : q # r => call'[q] = call[q]
         /\ HoldersStay /\ \A q \in Calls : Holds(q)' => Holds(q) /\ call'[q].route = call[q].route
<1>1. /\ call' \in [Calls -> Task] /\ call'[r] = t
      /\ \A q \in Calls : q # r => call'[q] = call[q]
  BY Types
<1>2. \A q \in Calls : call'[q].kind = call[q].kind /\ call'[q].route = call[q].route BY <1>1
<1>3. \A q \in Calls : Failed(q)' => Failed(q) BY <1>1 DEF Failed
<1>4. \A q \in Calls : Started(q)' <=> Started(q) BY <1>1 DEF Started
<1>5. \A q \in Calls : Holds(q)' <=> Holds(q) BY <1>2, <1>4 DEF Holds
<1>6. HoldersStay BY <1>2, <1>3, <1>5 DEF HoldersStay
<1>7. QED BY <1>1, <1>2, <1>5, <1>6

LEMMA CompleteStep ==
  ASSUME BrokerInv, NEW c \in Conns, NEW r \in Calls, NEW a \in {"ok", "refused"}, Complete(c, r, a)
  PROVE  BrokerInv'
<1>0. TypeOK BY DEF BrokerInv
<1>1. /\ atDevice' = [atDevice EXCEPT ![c] = @ \ {r}]
      /\ UNCHANGED <<now, devices, socket, queue, projects, sessions, generations, dormant, selection>>
  BY DEF Complete
<1>2. atDevice' \in [Conns -> SUBSET Calls] BY <1>0, <1>1, Types
<1>3. ProjInv' /\ DormInv' /\ ExclInv' BY <1>1, SameMaps
<1>4. RoutesStay BY <1>1 DEF RoutesStay
<1>5. CASE UNCHANGED <<pending, call>>
  <2>1. TypeOK' BY <1>0, <1>1, <1>2, <1>5 DEF TypeOK
  <2>2. \A q \in Calls : CallInv(q)' BY <1>5 DEF BrokerInv, CallInv, Started
  <2>3. HoldersStay BY <1>5 DEF HoldersStay, Failed, Holds, Started
  <2>4. GenInv' BY <1>1, <1>5, GenStay DEF BrokerInv, Holds, Started
  <2>5. SocketInv' /\ PendingOnAttached' BY <1>1, <1>5, SameLinks
  <2>6. \A s \in Sessions : SessInv(s)' BY <1>1, <1>4, <2>3, SameSessions
  <2>7. QED BY <1>3, <2>1, <2>2, <2>4, <2>5, <2>6 DEF BrokerInv
<1>6. CASE ~UNCHANGED <<pending, call>>
  <2>1. /\ pending[r] = [device |-> socket[c].device, conn |-> c]
        /\ IsCurrent(c) /\ pending' = [pending EXCEPT ![r] = None] /\ call' = [call EXCEPT ![r].answer = a]
    BY <1>6 DEF Complete
  <2>2. pending[r] # None
    <3>1. CASE socket[c].device \in Devices
      <4>1. pending[r] \in Link BY <2>1, <3>1 DEF Link
      <4>2. QED BY <4>1, Nones
    <3>2. CASE socket[c].device \notin Devices
      <4>1. socket[c].st = "open" BY DEF Complete
      <4>2. socket[c].device \in Devices BY <1>0, <4>1, Types DEF SocketState, BrokerInv, SocketInv
      <4>3. QED BY <3>2, <4>2
    <3>3. QED BY <3>1, <3>2
  <2>3. PICK t \in Task : t = call[r] BY <1>0, Types
  <2>4. PICK u \in Task : u = [t EXCEPT !.answer = a] BY DEF Task
  <2>5. /\ u.answer = a /\ u.kind = t.kind /\ u.pc = t.pc /\ u.route = t.route /\ u.conn = t.conn
        /\ u.reg = t.reg /\ u.result = t.result
    BY <2>4 DEF Task
  <2>6. call' = [call EXCEPT ![r] = u] BY <1>0, <2>1, <2>3, <2>4, Types
  <2>7. CallInv(r) BY DEF BrokerInv
  <2>8. t.pc \in {"sending", "waiting"} BY <2>2, <2>3, <2>7 DEF CallInv, Started
  <2>9. /\ call' \in [Calls -> Task] /\ call'[r] = u
        /\ \A q \in Calls : q # r => call'[q] = call[q]
        /\ HoldersStay /\ \A q \in Calls : Holds(q)' => Holds(q) /\ call'[q].route = call[q].route
    BY <1>0, <2>3, <2>5, <2>6, <2>8, CallMoves DEF Started
  <2>10. /\ pending' \in [Calls -> Link \cup {None}] /\ pending'[r] = None
         /\ \A q \in Calls : q # r => pending'[q] = pending[q]
    BY <1>0, <2>1, Types
  <2>11. CallInv(r)'
    <3>1. u.answer # None BY <2>5, Nones
    <3>2. u.route \in Route /\ (u.pc = "sending" => u.conn # None) BY <2>3, <2>5, <2>7, <2>8 DEF CallInv, Started
    <3>3. QED BY <2>5, <2>8, <2>9, <2>10, <3>1, <3>2 DEF CallInv, Started
  <2>12. ASSUME NEW q \in Calls, q # r PROVE CallInv(q)'
    BY <2>9, <2>10, <2>12 DEF BrokerInv, CallInv, Started
  <2>13. SocketInv' BY <1>1 DEF BrokerInv, SocketInv
  <2>14. PendingOnAttached' BY <1>1, <2>10 DEF BrokerInv, PendingOnAttached
  <2>15. GenInv' BY <1>1, <2>9, GenStay DEF BrokerInv
  <2>16. \A s \in Sessions : SessInv(s)' BY <1>1, <1>4, <2>9, SameSessions
  <2>17. TypeOK' BY <1>0, <1>1, <1>2, <2>9, <2>10 DEF TypeOK, Link
  <2>18. QED BY <1>3, <2>11, <2>12, <2>13, <2>14, <2>15, <2>16, <2>17 DEF BrokerInv
<1>7. QED BY <1>5, <1>6

\* The maps are pruned, or left as they are.
LEMMA Pruned ==
  ASSUME BrokerInv, UNCHANGED <<now, devices>>, HoldersStay,
         projects' \in {projects, LiveProjects}, sessions' \in {sessions, LiveSessions},
         dormant' \in {dormant, LiveDormant}
  PROVE  /\ projects' \in [Scopes -> Registration \cup {None}] /\ sessions' \in [Sessions -> Route \cup {None}]
         /\ dormant' \in [Keys -> DormantRoute \cup {None}]
         /\ (\A s \in Sessions : SessInv(s)') /\ ProjInv' /\ DormInv' /\ ExclInv'
<1>0. TypeOK BY DEF BrokerInv
<1>1. /\ projects' \in [Scopes -> Registration \cup {None}] /\ sessions' \in [Sessions -> Route \cup {None}]
      /\ dormant' \in [Keys -> DormantRoute \cup {None}]
  BY <1>0, Types, Live
<1>2. ProjectsStay BY <1>0, Live DEF ProjectsStay
<1>3. RoutesStay BY <1>0, Live DEF RoutesStay
<1>4. \A k \in Keys : dormant'[k] # None => dormant'[k] = dormant[k] BY <1>0, Live
<1>5. now \in Nat /\ now' \in Nat /\ now <= now' BY <1>0, Clock
<1>6. ExclInv' BY <1>0, <1>2, <1>4, <1>5, ExclStay DEF BrokerInv
<1>7. DormInv' BY <1>4, DormStay DEF BrokerInv
<1>8. ProjInv'
  <2>1. \A p \in Scopes : projects'[p] # None => devices'[projects[p].owner] # None
    BY <1>2 DEF ProjectsStay, BrokerInv, ProjInv
  <2>2. QED BY <1>2, <2>1, ProjStay DEF BrokerInv
<1>9. \A s \in Sessions : SessInv(s)' BY <1>3, SameSessions
<1>10. QED BY <1>1, <1>6, <1>7, <1>8, <1>9

LEMMA RefuseStep ==
  ASSUME BrokerInv, NEW c \in Conns, NEW p \in Scopes, NEW exp \in Expiries, RefuseUpsert(c, p, exp)
  PROVE  BrokerInv'
<1>0. TypeOK BY DEF BrokerInv
<1>1. /\ socket[c].st = "open" /\ socket' = [socket EXCEPT ![c].st = "ending"]
      /\ projects' \in {projects, LiveProjects} /\ sessions' \in {sessions, LiveSessions}
      /\ dormant' \in {dormant, LiveDormant}
      /\ UNCHANGED <<now, devices, queue, atDevice, generations, pending, selection, call>>
  BY DEF RefuseUpsert
<1>2. /\ socket' \in [Conns -> SocketState]
      /\ \A b \in Conns : /\ socket'[b].device = socket[b].device
                          /\ socket'[b].st = socket[b].st \/ (socket[b].st = "open" /\ socket'[b].st = "ending")
  BY <1>0, <1>1, Types DEF SocketState
<1>3. HoldersStay BY <1>1 DEF HoldersStay, Failed, Holds, Started
<1>4. /\ projects' \in [Scopes -> Registration \cup {None}] /\ sessions' \in [Sessions -> Route \cup {None}]
      /\ dormant' \in [Keys -> DormantRoute \cup {None}]
      /\ (\A s \in Sessions : SessInv(s)') /\ ProjInv' /\ DormInv' /\ ExclInv'
  BY <1>1, <1>3, Pruned
<1>5. SocketInv' /\ PendingOnAttached' BY <1>1, <1>2, SameLinks
<1>6. \A r \in Calls : CallInv(r)' BY <1>1 DEF BrokerInv, CallInv, Started
<1>7. GenInv' BY <1>1, GenStay DEF BrokerInv, Holds, Started
<1>8. TypeOK' BY <1>0, <1>1, <1>2, <1>4 DEF TypeOK, SocketState
<1>9. QED BY <1>4, <1>5, <1>6, <1>7, <1>8 DEF BrokerInv

-----------------------------------------------------------------------------
(* A registration is accepted *)

\* A renewal is for the registration that is there.
LEMMA Renewal ==
  ASSUME TypeOK, NEW p \in Scopes, NEW reg \in Registration, Renews(p, reg)
  PROVE  projects[p] # None /\ projects[p].owner = reg.owner /\ projects[p].thread = reg.thread
<1>1. LiveProjects[p] # None /\ LiveProjects[p] = projects[p] BY Live DEF Renews
<1>2. projects[p] \in Registration BY <1>1, Types
<1>3. projects[p] = [reg EXCEPT !.expires = projects[p].expires] BY <1>1 DEF Renews
<1>4. PICK e \in Times : e = projects[p].expires BY <1>2 DEF Registration
<1>5. [reg EXCEPT !.expires = e].owner = reg.owner /\ [reg EXCEPT !.expires = e].thread = reg.thread
  BY DEF Registration
<1>6. QED BY <1>1, <1>3, <1>4, <1>5

LEMMA UpsertedProjects ==
  ASSUME BrokerInv, NEW d \in Devices, NEW p \in Scopes, NEW reg \in Registration, reg.owner = d,
         devices[d] # None, devices' = devices, projects' = UpsertProjects(d, p, reg)
  PROVE  /\ projects' \in [Scopes -> Registration \cup {None}] /\ projects'[p] = reg
         /\ \A q \in Scopes : q # p /\ projects'[q] # None => projects'[q] = LiveProjects[q]
         /\ ProjInv'
<1>0. TypeOK /\ ProjInv BY DEF BrokerInv
<1>1. \A q \in Scopes : projects'[q] =
        IF q = p THEN reg
        ELSE IF /\ ~ Renews(p, reg) /\ LiveProjects[q] # None /\ LiveProjects[q].owner = d
                /\ LiveProjects[q].thread = reg.thread
             THEN None ELSE LiveProjects[q]
  BY DEF UpsertProjects
<1>2. \A q \in Scopes : projects'[q] \in Registration \cup {None} BY <1>0, <1>1, Live
<1>3. projects' = [q \in Scopes |-> projects'[q]] BY DEF UpsertProjects
<1>4. projects' \in [Scopes -> Registration \cup {None}] BY <1>2, <1>3, Zenon
<1>5. /\ projects'[p] = reg
      /\ \A q \in Scopes : q # p /\ projects'[q] # None =>
           /\ projects'[q] = LiveProjects[q] /\ LiveProjects[q] = projects[q] /\ projects[q] # None
           /\ projects[q].owner = d /\ projects[q].thread = reg.thread => Renews(p, reg)
  BY <1>0, <1>1, Live
<1>6. ASSUME NEW q \in Scopes, q # p, projects'[q] # None, projects'[q].owner = d, projects'[q].thread = reg.thread
      PROVE  FALSE
  <2>1. projects'[q] = projects[q] /\ projects[q] # None BY <1>5, <1>6
  <2>2. Renews(p, reg) BY <1>5, <1>6, <2>1
  <2>3. projects[p] # None /\ projects[p].owner = d /\ projects[p].thread = reg.thread BY <1>0, <2>2, Renewal
  <2>4. p = q BY <1>0, <1>6, <2>1, <2>3 DEF ProjInv
  <2>5. QED BY <1>6, <2>4
<1>7. \A q \in Scopes : projects'[q] # None => devices'[projects'[q].owner] # None
  BY <1>0, <1>5 DEF ProjInv
<1>8. ASSUME NEW q \in Scopes, NEW n \in Scopes, projects'[q] # None, projects'[n] # None,
             projects'[q].owner = projects'[n].owner, projects'[q].thread = projects'[n].thread
      PROVE  q = n
  <2>1. CASE q = p BY <1>5, <1>6, <1>8, <2>1
  <2>2. CASE n = p BY <1>5, <1>6, <1>8, <2>2
  <2>3. CASE q # p /\ n # p
    <3>1. projects'[q] = projects[q] /\ projects'[n] = projects[n] BY <1>5, <1>8, <2>3
    <3>2. QED BY <1>0, <1>8, <3>1 DEF ProjInv
  <2>4. QED BY <2>1, <2>2, <2>3
<1>9. ProjInv' BY <1>7, <1>8 DEF ProjInv
<1>10. QED BY <1>4, <1>5, <1>9

LEMMA UpsertedSessions ==
  ASSUME TypeOK, NEW d \in Devices, NEW p \in Scopes, NEW reg \in Registration,
         sessions' = UpsertSessions(d, p, reg)
  PROVE  sessions' \in [Sessions -> Route \cup {None}] /\ RoutesStay
<1>1. ASSUME NEW s \in Sessions
      PROVE  /\ sessions'[s] \in Route \cup {None}
             /\ sessions'[s] # None =>
                  /\ sessions[s] # None /\ sessions'[s].session = sessions[s].session
                  /\ sessions'[s].device = sessions[s].device /\ sessions'[s].sid = sessions[s].sid
  <2>1. sessions'[s] =
          IF LiveSessions[s] = None \/ LiveSessions[s].device # d \/ LiveSessions[s].thread # reg.thread
          THEN LiveSessions[s]
          ELSE IF Renews(p, reg)
               THEN [LiveSessions[s] EXCEPT !.expires = MaxOf(@, reg.expires)] ELSE None
    BY DEF UpsertSessions
  <2>2. CASE sessions'[s] = LiveSessions[s] BY <2>2, Live
  <2>3. CASE sessions'[s] = None BY <2>3
  <2>4. CASE LiveSessions[s] # None /\ sessions'[s] = [LiveSessions[s] EXCEPT !.expires = MaxOf(@, reg.expires)]
    <3>1. PICK a \in Route : a = sessions[s] BY <2>4, Live
    <3>2. PICK e \in Times : e = MaxOf(a.expires, reg.expires) BY Clock DEF Route, Registration
    <3>3. LiveSessions[s] = a /\ a # None BY <2>4, <3>1, Live
    <3>4. sessions'[s] = [a EXCEPT !.expires = e] BY <2>4, <3>2, <3>3
    <3>5. PICK b \in Route : b = [a EXCEPT !.expires = e] BY DEF Route
    <3>6. b.session = a.session /\ b.device = a.device /\ b.sid = a.sid BY <3>5 DEF Route
    <3>7. QED BY <3>1, <3>3, <3>4, <3>5, <3>6
  <2>5. QED BY <2>1, <2>2, <2>3, <2>4
<1>2. sessions' = [s \in Sessions |-> sessions'[s]] BY DEF UpsertSessions
<1>3. sessions' \in [Sessions -> Route \cup {None}] BY <1>1, <1>2, Zenon
<1>4. QED BY <1>1, <1>3 DEF RoutesStay

LEMMA UpsertedDormant ==
  ASSUME TypeOK, NEW d \in Devices, NEW p \in Scopes, NEW reg \in Registration,
         dormant' = UpsertDormant(d, p, reg)
  PROVE  /\ dormant' \in [Keys -> DormantRoute \cup {None}]
         /\ \A k \in Keys : dormant'[k] # None =>
              /\ LiveDormant[k] # None /\ dormant'[k].scope = LiveDormant[k].scope
              /\ dormant'[k].route.device = LiveDormant[k].route.device
<1>1. ASSUME NEW k \in Keys
      PROVE  /\ dormant'[k] \in DormantRoute \cup {None}
             /\ dormant'[k] # None =>
                  /\ LiveDormant[k] # None /\ dormant'[k].scope = LiveDormant[k].scope
                  /\ dormant'[k].route.device = LiveDormant[k].route.device
  <2>1. \/ dormant'[k] = LiveDormant[k] \/ dormant'[k] = None
        \/ LiveDormant[k] # None /\ dormant'[k] = [LiveDormant[k] EXCEPT !.route.expires = MaxOf(@, reg.expires)]
    BY DEF UpsertDormant
  <2>2. CASE dormant'[k] = LiveDormant[k] BY <2>2, Live
  <2>3. CASE dormant'[k] = None BY <2>3
  <2>4. CASE LiveDormant[k] # None /\ dormant'[k] = [LiveDormant[k] EXCEPT !.route.expires = MaxOf(@, reg.expires)]
    <3>1. PICK a \in DormantRoute : a = LiveDormant[k] BY <2>4, Live
    <3>2. PICK w \in Route : w = a.route BY DEF DormantRoute
    <3>3. PICK e \in Times : e = MaxOf(w.expires, reg.expires) BY Clock DEF Route, Registration
    <3>4. PICK v \in Route : v = [w EXCEPT !.expires = e] BY DEF Route
    <3>5. v.device = w.device BY <3>4 DEF Route
    <3>6. PICK b \in DormantRoute : b = [a EXCEPT !.route = v] BY DEF DormantRoute
    <3>7. b.route = v /\ b.scope = a.scope BY <3>6 DEF DormantRoute
    <3>8. dormant'[k] = b
      <4>1. dormant'[k] = [a EXCEPT !.route.expires = MaxOf(@, reg.expires)] BY <2>4, <3>1
      <4>2. QED BY <3>2, <3>3, <3>4, <3>6, <4>1 DEF DormantRoute
    <3>9. QED BY <2>4, <3>1, <3>2, <3>5, <3>7, <3>8
  <2>5. QED BY <2>1, <2>2, <2>3, <2>4
<1>2. dormant' = [k \in Keys |-> dormant'[k]] BY DEF UpsertDormant
<1>3. dormant' \in [Keys -> DormantRoute \cup {None}] BY <1>1, <1>2, Zenon
<1>4. QED BY <1>1, <1>3

LEMMA AcceptStep ==
  ASSUME BrokerInv, NEW c \in Conns, NEW p \in Scopes, NEW b \in Bindings, NEW t \in Threads,
         NEW exp \in Expiries, NEW r \in Calls, AcceptUpsert(c, p, b, t, exp, r)
  PROVE  BrokerInv'
<1>0. TypeOK BY DEF BrokerInv
<1>1. PICK d \in Devices : d = socket[c].device
  <2>1. socket[c].st = "open" BY DEF AcceptUpsert
  <2>2. QED BY <1>0, <2>1, Types DEF SocketState, BrokerInv, SocketInv
<1>2. PICK reg \in Registration : reg = [owner |-> d, binding |-> b, thread |-> t, expires |-> exp]
  BY <1>0, Clock DEF Registration
<1>3. reg.owner = d /\ reg.thread = t BY <1>2
<1>4. /\ socket[c].st = "open" /\ ~UpsertRefused(c, p, exp) /\ call[r].pc = "idle"
      /\ projects' = UpsertProjects(d, p, reg) /\ sessions' = UpsertSessions(d, p, reg)
      /\ dormant' = UpsertDormant(d, p, reg)
      /\ UNCHANGED <<now, devices, queue, atDevice, generations, pending, selection>>
  BY <1>1, <1>2 DEF AcceptUpsert
<1>5. devices[d] = c /\ devices[d] # None BY <1>1, <1>4, Nones DEF UpsertRefused, IsCurrent
<1>6. /\ projects' \in [Scopes -> Registration \cup {None}] /\ projects'[p] = reg
      /\ \A q \in Scopes : q # p /\ projects'[q] # None => projects'[q] = LiveProjects[q]
      /\ ProjInv'
  BY <1>3, <1>4, <1>5, UpsertedProjects
<1>7. sessions' \in [Sessions -> Route \cup {None}] /\ RoutesStay BY <1>0, <1>4, UpsertedSessions
<1>8. /\ dormant' \in [Keys -> DormantRoute \cup {None}]
      /\ \A k \in Keys : dormant'[k] # None =>
              /\ LiveDormant[k] # None /\ dormant'[k].scope = LiveDormant[k].scope
              /\ dormant'[k].route.device = LiveDormant[k].route.device
  BY <1>0, <1>4, UpsertedDormant
<1>9. \A k \in Keys : LiveDormant[k] # None => LiveDormant[k].route.device = k[1]
  BY <1>0, Live DEF BrokerInv, DormInv
<1>10. DormInv' BY <1>8, <1>9 DEF DormInv
<1>11. ExclInv'
  <2> SUFFICES ASSUME NEW k \in Keys, NEW q \in Scopes, LiveDormant'[k] # None, LiveDormant'[k].scope = q,
                      LiveProjects'[q] # None
               PROVE  LiveProjects'[q].owner = k[1]
    BY DEF ExclInv
  <2>1. /\ projects'[q] # None /\ LiveProjects'[q] = projects'[q] /\ dormant'[k] # None /\ LiveDormant'[k] = dormant'[k]
    BY DEF LiveProjects, LiveDormant
  <2>2. LiveDormant[k] # None /\ LiveDormant[k].scope = q BY <1>8, <2>1
  <2>3. CASE q = p
    <3>1. LiveDormant[k].route.device = d BY <1>1, <1>4, <2>2, <2>3 DEF UpsertRefused
    <3>2. QED BY <1>3, <1>6, <1>9, <2>1, <2>2, <2>3, <3>1
  <2>4. CASE q # p
    <3>1. projects'[q] = LiveProjects[q] /\ LiveProjects[q] # None BY <1>6, <2>1, <2>4
    <3>2. QED BY <2>1, <2>2, <3>1 DEF BrokerInv, ExclInv
  <2>5. QED BY <2>3, <2>4
<1>12. CallInv(r) /\ call[r].route = None /\ pending[r] = None BY <1>4 DEF BrokerInv, CallInv, Started
<1>13. /\ call' \in [Calls -> Task] /\ HoldersStay
       /\ \A q \in Calls : Holds(q)' => Holds(q) /\ call'[q].route = call[q].route
       /\ \A q \in Calls : CallInv(q)'
  <2>1. CASE UNCHANGED call
    <3>1. \A q \in Calls : CallInv(q)' BY <1>4, <2>1 DEF BrokerInv, CallInv, Started
    <3>2. QED BY <1>0, <2>1, <3>1, Types DEF HoldersStay, Holds, Started, Failed
  <2>2. CASE ~UNCHANGED call
    <3>1. PICK e \in RegEntry : e = [scope |-> p, reg |-> reg] BY DEF RegEntry
    <3>2. PICK u : u = [IdleTask EXCEPT !.kind = "resume", !.pc = "queued", !.conn = c, !.reg = e] OBVIOUS
    <3>3. u \in Task BY <3>2, IdleIsTask DEF Task, Kinds, Activating, RegEntry
    <3>4. /\ u.kind = "resume" /\ u.pc = "queued" /\ u.conn = c /\ u.reg = e /\ u.route = None
          /\ u.answer = None
      BY <3>2, IdleIsTask DEF Task
    <3>5. call' = [call EXCEPT ![r] = u] BY <1>1, <1>2, <2>2, <3>1, <3>2 DEF AcceptUpsert
    <3>6. /\ call' \in [Calls -> Task] /\ call'[r] = u
          /\ \A q \in Calls : q # r => call'[q] = call[q]
      BY <1>0, <3>3, <3>5, Types
    <3>7. ~Holds(r) /\ ~Holds(r)' BY <1>4, <3>4, <3>6 DEF Holds, Started
    <3>8. HoldersStay /\ \A q \in Calls : Holds(q)' => Holds(q) /\ call'[q].route = call[q].route
      <4>1. ASSUME NEW q \in Calls, q # r PROVE call'[q] = call[q] /\ (Holds(q)' <=> Holds(q)) /\ (Failed(q)' <=> Failed(q))
        BY <3>6, <4>1 DEF Holds, Started, Failed
      <4>2. QED BY <3>7, <4>1 DEF HoldersStay
    <3>9. CallInv(r)'
      <4>1. u.conn # None /\ u.reg \in RegEntry BY <3>4, Nones
      <4>2. QED BY <1>4, <1>12, <3>4, <3>6, <4>1 DEF CallInv, Started
    <3>10. ASSUME NEW q \in Calls, q # r PROVE CallInv(q)'
      BY <1>4, <3>6, <3>10 DEF BrokerInv, CallInv, Started
    <3>11. QED BY <3>6, <3>8, <3>9, <3>10
  <2>3. QED BY <2>1, <2>2
<1>14. /\ socket' \in [Conns -> SocketState]
       /\ \A x \in Conns : /\ socket'[x].device = socket[x].device
                           /\ socket'[x].st = socket[x].st \/ (socket[x].st = "open" /\ socket'[x].st = "ending")
  <2>1. socket' = socket \/ socket' = [socket EXCEPT ![c].st = "ending"] BY DEF AcceptUpsert
  <2>2. CASE socket' = socket BY <1>0, <2>2, Types
  <2>3. CASE socket' = [socket EXCEPT ![c].st = "ending"] BY <1>0, <1>4, <2>3, Types DEF SocketState
  <2>4. QED BY <2>1, <2>2, <2>3
<1>15. SocketInv' /\ PendingOnAttached' BY <1>4, <1>14, SameLinks
<1>16. \A s \in Sessions : SessInv(s)' BY <1>4, <1>7, <1>13, SameSessions
<1>17. GenInv' BY <1>4, <1>13, GenStay DEF BrokerInv
<1>18. TypeOK' BY <1>0, <1>4, <1>6, <1>7, <1>8, <1>13, <1>14 DEF TypeOK, SocketState
<1>19. QED BY <1>6, <1>10, <1>11, <1>13, <1>15, <1>16, <1>17, <1>18 DEF BrokerInv

-----------------------------------------------------------------------------
(* The steps of a call *)

\* A call gets the route it made, the newest of its thread.
LEMMA ActivateStep ==
  ASSUME BrokerInv, NEW r \in Calls, ~Started(r), NEW kind \in Activating, NEW a \in Route, a.sid = r,
         devices[a.device] # None, a.generation > generations[KeyOf(a)],
         NEW S \in {sessions, LiveSessions}, sessions' = [S EXCEPT ![a.session] = a],
         Activate(r, kind, a), UNCHANGED <<devices, pending>>
  PROVE  /\ call' \in [Calls -> Task] /\ generations' \in [Keys -> Nat] /\ selection' \in Calls \cup {None}
         /\ sessions' \in [Sessions -> Route \cup {None}]
         /\ (\A q \in Calls : CallInv(q)') /\ (\A s \in Sessions : SessInv(s)') /\ GenInv'
<1>0. TypeOK BY DEF BrokerInv
<1>1. /\ a.session \in Sessions /\ a.device \in Devices /\ a.generation \in Nat /\ KeyOf(a) \in Keys
  BY DEF Route, KeyOf, Keys
<1>2. /\ S \in [Sessions -> Route \cup {None}]
      /\ \A s \in Sessions : S[s] # None => S[s] = sessions[s]
  BY <1>0, Types, Live
<1>3. /\ sessions' \in [Sessions -> Route \cup {None}] /\ sessions'[a.session] = a
      /\ \A s \in Sessions : s # a.session => sessions'[s] = S[s]
  BY <1>1, <1>2
<1>4. PICK u : u = [IdleTask EXCEPT !.kind = kind, !.pc = "routed", !.route = a] OBVIOUS
<1>5. u \in Task BY <1>4, IdleIsTask DEF Task, Kinds
<1>6. u.kind = kind /\ u.pc = "routed" /\ u.route = a /\ u.answer = None BY <1>4, IdleIsTask DEF Task
<1>7. /\ call' \in [Calls -> Task] /\ call'[r] = u /\ \A q \in Calls : q # r => call'[q] = call[q]
  BY <1>0, <1>4, <1>5, Types DEF Activate
<1>8. generations' = [generations EXCEPT ![KeyOf(a)] = a.generation] /\ selection' = r BY DEF Activate, KeyOf
<1>9. /\ generations' \in [Keys -> Nat] /\ generations'[KeyOf(a)] = a.generation
      /\ \A k \in Keys : k # KeyOf(a) => generations'[k] = generations[k]
  BY <1>0, <1>1, <1>8, Types
<1>10. pending[r] = None /\ ~Holds(r)
  <2>1. CallInv(r) BY DEF BrokerInv
  <2>2. QED BY <2>1 DEF CallInv, Started, Holds
<1>11. ASSUME NEW q \in Calls PROVE CallInv(q)'
  <2>1. CASE q = r BY <1>6, <1>7, <1>10, <2>1 DEF CallInv, Started
  <2>2. CASE q # r BY <1>7, <2>2 DEF BrokerInv, CallInv, Started
  <2>3. QED BY <2>1, <2>2
<1>12. Holds(r)' /\ ~Failed(r)' BY <1>6, <1>7 DEF Holds, Started, Failed
<1>13. ASSUME NEW q \in Calls, q # r
       PROVE  (Holds(q)' <=> Holds(q)) /\ (Failed(q)' <=> Failed(q)) /\ call'[q] = call[q]
  BY <1>7, <1>13 DEF Holds, Started, Failed
<1>14. ASSUME NEW s \in Sessions PROVE SessInv(s)'
  <2>1. CASE s = a.session
    <3>1. sessions'[s] = a /\ a.session = s /\ call'[r].route = a BY <1>3, <1>6, <1>7, <2>1
    <3>2. QED BY <1>12, <3>1 DEF SessInv, Holds, Started, Failed
  <2>2. CASE s # a.session
    <3> SUFFICES ASSUME sessions'[s] # None PROVE SessInv(s)' BY DEF SessInv
    <3>1. sessions'[s] = sessions[s] /\ sessions[s] # None BY <1>2, <1>3, <2>2
    <3>2. PICK q \in Calls : q = sessions[s].sid BY <1>0, <3>1, Types DEF Route
    <3>3. /\ Holds(q) /\ call[q].route.session = s /\ ~Failed(q) /\ sessions[s].session = s
          /\ devices[sessions[s].device] # None
      BY <3>1, <3>2 DEF BrokerInv, SessInv
    <3>4. q # r BY <1>10, <3>3
    <3>5. Holds(q)' /\ ~Failed(q)' /\ call'[q].route.session = s BY <1>13, <3>3, <3>4
    <3>6. QED BY <3>1, <3>2, <3>3, <3>5 DEF SessInv, Holds, Started, Failed
  <2>3. QED BY <2>1, <2>2
<1>15. GenInv'
  <2>1. \A q \in Calls : q # r /\ Holds(q)' =>
          /\ Holds(q) /\ call[q].route \in Route /\ KeyOf(call[q].route) \in Keys
          /\ call[q].route.generation \in Nat
          /\ call[q].route.generation <= generations[KeyOf(call[q].route)]
    <3> SUFFICES ASSUME NEW q \in Calls, q # r, Holds(q)'
                 PROVE  /\ Holds(q) /\ call[q].route \in Route /\ KeyOf(call[q].route) \in Keys
                        /\ call[q].route.generation \in Nat
                        /\ call[q].route.generation <= generations[KeyOf(call[q].route)]
      OBVIOUS
    <3>1. Holds(q) BY <1>13
    <3>2. call[q].route \in Route BY <3>1 DEF BrokerInv, CallInv, Holds
    <3>3. QED BY <3>1, <3>2 DEF BrokerInv, GenInv, Route, KeyOf, Keys
  <2>2. \A k \in Keys : generations[k] \in Nat BY <1>0, Types
  <2>3. ASSUME NEW q \in Calls, q # r, Holds(q)', KeyOf(call[q].route) = KeyOf(a)
        PROVE  call[q].route.generation < a.generation
    BY <1>1, <2>1, <2>2, <2>3
  <2>4. ASSUME NEW q \in Calls, Holds(q)'
        PROVE  call'[q].route.generation <= generations'[KeyOf(call'[q].route)]
    <3>1. CASE q = r BY <1>1, <1>6, <1>7, <1>9, <3>1
    <3>2. CASE q # r
      <4>1. call'[q] = call[q] BY <1>7, <3>2
      <4>2. CASE KeyOf(call[q].route) = KeyOf(a) BY <1>1, <1>9, <2>1, <2>3, <2>4, <3>2, <4>1, <4>2
      <4>3. CASE KeyOf(call[q].route) # KeyOf(a) BY <1>9, <2>1, <2>4, <3>2, <4>1, <4>3
      <4>4. QED BY <4>2, <4>3
    <3>3. QED BY <3>1, <3>2
  <2>5. ASSUME NEW q \in Calls, NEW n \in Calls, q # n, Holds(q)', Holds(n)',
               KeyOf(call'[q].route) = KeyOf(call'[n].route)
        PROVE  call'[q].route.generation # call'[n].route.generation
    <3>1. CASE q = r
      <4>1. call'[n] = call[n] /\ call'[q].route = a BY <1>6, <1>7, <2>5, <3>1
      <4>2. call[n].route.generation < a.generation /\ call[n].route.generation \in Nat
        BY <2>1, <2>3, <2>5, <3>1, <4>1
      <4>3. QED BY <1>1, <4>1, <4>2
    <3>2. CASE n = r
      <4>1. call'[q] = call[q] /\ call'[n].route = a BY <1>6, <1>7, <2>5, <3>2
      <4>2. call[q].route.generation < a.generation /\ call[q].route.generation \in Nat
        BY <2>1, <2>3, <2>5, <3>2, <4>1
      <4>3. QED BY <1>1, <4>1, <4>2
    <3>3. CASE q # r /\ n # r
      <4>1. call'[q] = call[q] /\ call'[n] = call[n] /\ Holds(q) /\ Holds(n) BY <1>13, <2>5, <3>3
      <4>2. KeyOf(call[q].route) = KeyOf(call[n].route) BY <2>5, <4>1
      <4>3. QED BY <2>5, <4>1, <4>2 DEF BrokerInv, GenInv
    <3>4. QED BY <3>1, <3>2, <3>3
  <2>6. QED BY <2>4, <2>5 DEF GenInv, KeyOf
<1>16. QED BY <1>3, <1>7, <1>8, <1>9, <1>11, <1>14, <1>15

\* The route a call makes.
LEMMA MadeRoute ==
  ASSUME NEW r \in Calls, NEW s \in Sessions, NEW u \in Subjects, NEW d \in Devices, NEW t \in AllThreads,
         NEW g \in Nat, NEW e \in Times
  PROVE  /\ NewRoute(r, s, u, d, t, g, e) \in Route /\ NewRoute(r, s, u, d, t, g, e).sid = r
         /\ NewRoute(r, s, u, d, t, g, e).session = s /\ NewRoute(r, s, u, d, t, g, e).device = d
         /\ NewRoute(r, s, u, d, t, g, e).generation = g /\ KeyOf(NewRoute(r, s, u, d, t, g, e)) = <<d, t>>
  BY DEF NewRoute, Route, KeyOf

LEMMA SelectProjectStep ==
  ASSUME BrokerInv, NEW r \in Calls, NEW s \in Sessions, NEW u \in Subjects, NEW p \in Scopes,
         SelectProject(r, s, u, p)
  PROVE  BrokerInv'
<1>0. TypeOK BY DEF BrokerInv
<1>1. PICK reg \in Registration : reg = projects[p] BY <1>0, Types DEF SelectProject
<1>2. reg.owner \in Devices /\ reg.thread \in AllThreads /\ reg.expires \in Times /\ <<reg.owner, reg.thread>> \in Keys
  BY DEF Registration, AllThreads, Keys
<1>3. PICK g \in Nat : g = generations[<<reg.owner, reg.thread>>] BY <1>0, <1>2, Types
<1>4. PICK a \in Route : a = NewRoute(r, s, u, reg.owner, reg.thread, g + 1, reg.expires)
  BY <1>2, MadeRoute
<1>5. a.sid = r /\ a.session = s /\ a.device = reg.owner /\ a.generation = g + 1
      /\ KeyOf(a) = <<reg.owner, reg.thread>>
  BY <1>2, <1>4, MadeRoute
<1>6. /\ call[r].pc = "idle" /\ devices[reg.owner] # None
      /\ Activate(r, "project", a) /\ sessions' = [sessions EXCEPT ![s] = a]
      /\ UNCHANGED <<now, devices, socket, queue, atDevice, projects, pending, dormant>>
  BY <1>1, <1>3, <1>4 DEF SelectProject
<1>7. ~Started(r) /\ "project" \in Activating /\ a.generation > generations[KeyOf(a)]
  BY <1>3, <1>5, <1>6 DEF Started, Activating
<1>8. PICK S \in {sessions, LiveSessions} : S = sessions OBVIOUS
<1>9. sessions' = [S EXCEPT ![a.session] = a] BY <1>5, <1>6, <1>8
<1>10. /\ call' \in [Calls -> Task] /\ generations' \in [Keys -> Nat] /\ selection' \in Calls \cup {None}
       /\ sessions' \in [Sessions -> Route \cup {None}]
       /\ (\A q \in Calls : CallInv(q)') /\ (\A x \in Sessions : SessInv(x)') /\ GenInv'
  BY <1>5, <1>6, <1>7, <1>9, ActivateStep
<1>11. SocketInv' /\ PendingOnAttached' BY <1>6, SameLinks
<1>12. ProjInv' /\ DormInv' /\ ExclInv' BY <1>6, SameMaps
<1>13. TypeOK' BY <1>0, <1>6, <1>10 DEF TypeOK
<1>14. QED BY <1>10, <1>11, <1>12, <1>13 DEF BrokerInv

\* The route of a device, for a selection or another working directory.
LEMMA DeviceRouteStep ==
  ASSUME BrokerInv, NEW r \in Calls, NEW s \in Sessions, NEW u \in Subjects, NEW d \in Devices,
         call[r].pc = "idle", devices[d] # None, NEW kind \in Activating,
         Activate(r, kind, DeviceRoute(r, s, u, d)), NEW S \in {sessions, LiveSessions},
         sessions' = [S EXCEPT ![s] = DeviceRoute(r, s, u, d)],
         UNCHANGED <<now, devices, socket, queue, atDevice, projects, pending, dormant>>
  PROVE  BrokerInv'
<1>0. TypeOK BY DEF BrokerInv
<1>1. DeviceThread \in AllThreads /\ <<d, DeviceThread>> \in Keys /\ now + DeviceTtl \in Times
  BY <1>0, Clock DEF AllThreads, Keys
<1>2. PICK g \in Nat : g = generations[<<d, DeviceThread>>] BY <1>0, <1>1, Types
<1>3. DeviceRoute(r, s, u, d) = NewRoute(r, s, u, d, DeviceThread, g + 1, now + DeviceTtl) BY <1>2 DEF DeviceRoute
<1>4. PICK a \in Route : a = DeviceRoute(r, s, u, d) BY <1>1, <1>3, MadeRoute
<1>5. a.sid = r /\ a.session = s /\ a.device = d /\ a.generation = g + 1 /\ KeyOf(a) = <<d, DeviceThread>>
  BY <1>1, <1>3, <1>4, MadeRoute
<1>6. ~Started(r) /\ a.generation > generations[KeyOf(a)] BY <1>2, <1>5 DEF Started
<1>7. sessions' = [S EXCEPT ![a.session] = a] /\ Activate(r, kind, a) BY <1>4, <1>5
<1>8. /\ call' \in [Calls -> Task] /\ generations' \in [Keys -> Nat] /\ selection' \in Calls \cup {None}
      /\ sessions' \in [Sessions -> Route \cup {None}]
      /\ (\A q \in Calls : CallInv(q)') /\ (\A x \in Sessions : SessInv(x)') /\ GenInv'
  BY <1>5, <1>6, <1>7, ActivateStep
<1>9. SocketInv' /\ PendingOnAttached' BY SameLinks
<1>10. ProjInv' /\ DormInv' /\ ExclInv' BY SameMaps
<1>11. TypeOK' BY <1>0, <1>8 DEF TypeOK
<1>12. QED BY <1>8, <1>9, <1>10, <1>11 DEF BrokerInv

LEMMA SelectDeviceStep ==
  ASSUME BrokerInv, NEW r \in Calls, NEW s \in Sessions, NEW u \in Subjects, NEW d \in Devices,
         SelectDevice(r, s, u, d)
  PROVE  BrokerInv'
<1>1. PICK S \in {sessions, LiveSessions} : S = sessions OBVIOUS
<1>2. "device" \in Activating BY DEF Activating
<1>3. QED BY <1>1, <1>2, DeviceRouteStep DEF SelectDevice

LEMMA Active ==
  ASSUME TypeOK, NEW s \in Sessions, NEW u \in Subjects, ActiveRoute(s, u) # None
  PROVE  ActiveRoute(s, u) \in Route /\ ActiveRoute(s, u).device \in Devices /\ devices[ActiveRoute(s, u).device] # None
<1>1. LiveSessions[s] # None /\ ActiveRoute(s, u) = LiveSessions[s] /\ devices[LiveSessions[s].device] # None
  BY DEF ActiveRoute
<1>2. LiveSessions[s] \in Route BY <1>1, Live
<1>3. QED BY <1>1, <1>2 DEF Route

\* The sessions are pruned and nothing else happens to the tables of the broker.
LEMMA PruneStep ==
  ASSUME BrokerInv, sessions' = LiveSessions, HoldersStay, call' \in [Calls -> Task],
         \A q \in Calls : CallInv(q)',
         \A q \in Calls : Holds(q)' => Holds(q) /\ call'[q].route = call[q].route,
         UNCHANGED <<now, devices, socket, queue, atDevice, projects, generations, pending, dormant, selection>>
  PROVE  BrokerInv'
<1>0. TypeOK BY DEF BrokerInv
<1>1. /\ sessions' \in [Sessions -> Route \cup {None}]
      /\ (\A s \in Sessions : SessInv(s)') /\ ProjInv' /\ DormInv' /\ ExclInv'
  BY Pruned
<1>2. SocketInv' /\ PendingOnAttached' BY SameLinks
<1>3. GenInv' BY GenStay DEF BrokerInv
<1>4. TypeOK' BY <1>0, <1>1 DEF TypeOK
<1>5. QED BY <1>1, <1>2, <1>3, <1>4 DEF BrokerInv

LEMMA SetWorkingDirectoryStep ==
  ASSUME BrokerInv, NEW r \in Calls, NEW s \in Sessions, NEW u \in Subjects, SetWorkingDirectory(r, s, u)
  PROVE  BrokerInv'
<1>0. TypeOK BY DEF BrokerInv
<1>1. /\ call[r].pc = "idle"
      /\ UNCHANGED <<now, devices, socket, queue, atDevice, projects, pending, dormant>>
  BY DEF SetWorkingDirectory
<1>2. CASE ActiveRoute(s, u) # None /\ ActiveRoute(s, u).thread = DeviceThread
  <2>1. PICK d \in Devices : d = ActiveRoute(s, u).device BY <1>0, <1>2, Active
  <2>2. devices[d] # None BY <1>0, <1>2, <2>1, Active
  <2>3. /\ Activate(r, "workdir", DeviceRoute(r, s, u, d))
        /\ sessions' = [LiveSessions EXCEPT ![s] = DeviceRoute(r, s, u, d)]
    BY <1>2, <2>1 DEF SetWorkingDirectory
  <2>4. PICK S \in {sessions, LiveSessions} : S = LiveSessions OBVIOUS
  <2>5. "workdir" \in Activating BY DEF Activating
  <2>6. QED BY <1>1, <2>2, <2>3, <2>4, <2>5, DeviceRouteStep
<1>3. CASE ~(ActiveRoute(s, u) # None /\ ActiveRoute(s, u).thread = DeviceThread)
  <2>1. sessions' = LiveSessions /\ UNCHANGED <<selection, generations, call>>
    BY <1>3 DEF SetWorkingDirectory
  <2>2. \A q \in Calls : CallInv(q)' BY <1>1, <2>1 DEF BrokerInv, CallInv, Started
  <2>3. HoldersStay /\ \A q \in Calls : Holds(q)' => Holds(q) /\ call'[q].route = call[q].route
    BY <2>1 DEF HoldersStay, Failed, Holds, Started
  <2>4. call' \in [Calls -> Task] BY <1>0, <2>1, Types
  <2>5. QED BY <1>1, <2>1, <2>2, <2>3, <2>4, PruneStep
<1>4. QED BY <1>2, <1>3

\* A call that has no route yet starts another task, or ends, without one of its own.
LEMMA FreshTask ==
  ASSUME BrokerInv, NEW r \in Calls, ~Started(r), NEW u \in Task, call' = [call EXCEPT ![r] = u],
         pending' = pending, u.answer = None,
         \/ u.pc = "idle" /\ u.route = None
         \/ u.pc = "routed" /\ u.route \in Route /\ u.kind = "operation"
  PROVE  /\ call' \in [Calls -> Task] /\ HoldersStay /\ \A q \in Calls : CallInv(q)'
         /\ \A q \in Calls : Holds(q)' => Holds(q) /\ call'[q].route = call[q].route
<1>0. TypeOK BY DEF BrokerInv
<1>1. /\ call' \in [Calls -> Task] /\ call'[r] = u /\ \A q \in Calls : q # r => call'[q] = call[q] BY <1>0, Types
<1>2. pending[r] = None BY DEF BrokerInv, CallInv, Started
<1>3. ~Holds(r) /\ ~Holds(r)' BY <1>1 DEF Holds, Started, Activating
<1>4. ASSUME NEW q \in Calls, q # r PROVE call'[q] = call[q] /\ (Holds(q)' <=> Holds(q)) /\ (Failed(q)' <=> Failed(q))
  BY <1>1, <1>4 DEF Holds, Started, Failed
<1>5. CallInv(r)' BY <1>1, <1>2 DEF CallInv, Started
<1>6. ASSUME NEW q \in Calls, q # r PROVE CallInv(q)' BY <1>1, <1>6 DEF BrokerInv, CallInv, Started
<1>7. HoldersStay BY <1>3, <1>4 DEF HoldersStay
<1>8. QED BY <1>1, <1>3, <1>4, <1>5, <1>6, <1>7

LEMMA StartOperationStep ==
  ASSUME BrokerInv, NEW r \in Calls, NEW s \in Sessions, NEW v \in Subjects, StartOperation(r, s, v)
  PROVE  BrokerInv'
<1>0. TypeOK BY DEF BrokerInv
<1>1. /\ call[r].pc = "idle" /\ sessions' = LiveSessions
      /\ UNCHANGED <<now, devices, socket, queue, atDevice, projects, generations, pending, dormant, selection>>
  BY DEF StartOperation
<1>2. CASE ActiveRoute(s, v) = None
  <2>1. UNCHANGED call BY <1>2 DEF StartOperation
  <2>2. \A q \in Calls : CallInv(q)' BY <1>1, <2>1 DEF BrokerInv, CallInv, Started
  <2>3. HoldersStay /\ \A q \in Calls : Holds(q)' => Holds(q) /\ call'[q].route = call[q].route
    BY <2>1 DEF HoldersStay, Failed, Holds, Started
  <2>4. call' \in [Calls -> Task] BY <1>0, <2>1, Types
  <2>5. QED BY <1>1, <2>2, <2>3, <2>4, PruneStep
<1>3. CASE ActiveRoute(s, v) # None
  <2>1. PICK a \in Route : a = ActiveRoute(s, v) BY <1>0, <1>3, Active
  <2>2. PICK u : u = [IdleTask EXCEPT !.kind = "operation", !.pc = "routed", !.route = a] OBVIOUS
  <2>3. u \in Task BY <2>2, IdleIsTask DEF Task, Kinds
  <2>4. u.kind = "operation" /\ u.pc = "routed" /\ u.route = a /\ u.answer = None BY <2>2, IdleIsTask DEF Task
  <2>5. call' = [call EXCEPT ![r] = u] BY <1>3, <2>1, <2>2 DEF StartOperation
  <2>6. ~Started(r) BY <1>1 DEF Started
  <2>7. /\ call' \in [Calls -> Task] /\ HoldersStay /\ \A q \in Calls : CallInv(q)'
        /\ \A q \in Calls : Holds(q)' => Holds(q) /\ call'[q].route = call[q].route
    BY <1>1, <2>3, <2>4, <2>5, <2>6, FreshTask
  <2>8. QED BY <1>1, <2>7, PruneStep
<1>4. QED BY <1>2, <1>3

\* A dormant route is resumed for the registration it was left with, or stays or goes.
LEMMA ResumeStep ==
  ASSUME BrokerInv, NEW r \in Calls, ResumeProject(r)
  PROVE  BrokerInv'
<1>0. TypeOK BY DEF BrokerInv
<1>1. /\ call[r].pc = "queued" /\ ~Started(r)
      /\ UNCHANGED <<now, devices, socket, queue, atDevice, projects, pending>>
  BY DEF ResumeProject, Started
<1>2. PICK ent \in RegEntry : ent = call[r].reg BY <1>1 DEF BrokerInv, CallInv
<1>3. PICK p \in Scopes, reg \in Registration : p = ent.scope /\ reg = ent.reg BY DEF RegEntry
<1>4. PICK c : c = call[r].conn OBVIOUS
<1>5. PICK key \in Keys : key = <<reg.owner, reg.thread>> BY DEF Keys, Registration, AllThreads
<1>6. PICK b \in BOOLEAN : b = (IsCurrent(c) /\ projects[p] = reg /\ LiveDormant[key] # None
                                /\ LiveDormant[key].scope = p /\ LiveDormant[key].binding = reg.binding)
  OBVIOUS
<1>7. dormant' \in {dormant, LiveDormant, [LiveDormant EXCEPT ![key] = None]}
  BY <1>2, <1>3, <1>5 DEF ResumeProject
<1>8. /\ dormant' \in [Keys -> DormantRoute \cup {None}]
      /\ \A k \in Keys : dormant'[k] # None => dormant'[k] = dormant[k]
  <2>1. CASE dormant' = dormant BY <1>0, <2>1, Types
  <2>2. CASE dormant' = LiveDormant BY <1>0, <2>2, Live
  <2>3. CASE dormant' = [LiveDormant EXCEPT ![key] = None] BY <1>0, <2>3, Live
  <2>4. QED BY <1>7, <2>1, <2>2, <2>3
<1>9. ProjInv' /\ DormInv' /\ ExclInv'
  <2>1. ProjectsStay /\ now \in Nat /\ now' \in Nat /\ now <= now' BY <1>0, <1>1, Clock DEF ProjectsStay
  <2>2. ExclInv' BY <1>0, <1>8, <2>1, ExclStay DEF BrokerInv
  <2>3. DormInv' BY <1>8, DormStay DEF BrokerInv
  <2>4. ProjInv' BY <1>1 DEF BrokerInv, ProjInv
  <2>5. QED BY <2>2, <2>3, <2>4
<1>10. SocketInv' /\ PendingOnAttached' BY <1>1, SameLinks
<1>11. CASE b
  <2>1. projects[p] = reg /\ LiveDormant[key] # None BY <1>6, <1>11
  <2>2. PICK old \in Route : old = LiveDormant[key].route BY <1>0, <2>1, Live DEF DormantRoute
  <2>3. PICK g \in Nat : g = MaxOf(generations[key], old.generation)
    <3>1. generations[key] \in Nat /\ old.generation \in Nat BY <1>0, Types DEF Route
    <3>2. QED BY <3>1 DEF MaxOf
  <2>4. g >= generations[key] /\ generations[key] \in Nat
    <3>1. generations[key] \in Nat /\ old.generation \in Nat BY <1>0, Types DEF Route
    <3>2. QED BY <2>3, <3>1 DEF MaxOf
  <2>5. /\ old.session \in Sessions /\ old.subject \in Subjects /\ reg.owner \in Devices
        /\ reg.thread \in AllThreads /\ reg.expires \in Times
    BY DEF Route, Registration, AllThreads
  <2>6. PICK a \in Route : a = NewRoute(r, old.session, old.subject, reg.owner, reg.thread, g + 1, reg.expires)
    BY <2>5, MadeRoute
  <2>7. a.sid = r /\ a.session = old.session /\ a.device = reg.owner /\ a.generation = g + 1 /\ KeyOf(a) = key
    BY <1>5, <2>5, <2>6, MadeRoute
  <2>8. Activate(r, "resume", a) /\ sessions' = [sessions EXCEPT ![a.session] = a]
    BY <1>2, <1>3, <1>4, <1>5, <1>6, <1>11, <2>2, <2>3, <2>6 DEF ResumeProject
  <2>9. devices[a.device] # None
    <3>1. reg # None
      <4>1. reg \in [owner : Devices, binding : Bindings, thread : Threads, expires : Nat]
        BY <1>0, Clock DEF Registration
      <4>2. QED BY <4>1, BrokerAssumption
    <3>2. QED BY <2>1, <2>7, <3>1 DEF BrokerInv, ProjInv
  <2>10. a.generation > generations[KeyOf(a)] BY <2>4, <2>7
  <2>11. PICK S \in {sessions, LiveSessions} : S = sessions OBVIOUS
  <2>12. sessions' = [S EXCEPT ![a.session] = a] /\ "resume" \in Activating BY <2>8, <2>11 DEF Activating
  <2>13. /\ call' \in [Calls -> Task] /\ generations' \in [Keys -> Nat] /\ selection' \in Calls \cup {None}
         /\ sessions' \in [Sessions -> Route \cup {None}]
         /\ (\A q \in Calls : CallInv(q)') /\ (\A x \in Sessions : SessInv(x)') /\ GenInv'
    BY <1>1, <2>7, <2>8, <2>9, <2>10, <2>12, ActivateStep
  <2>14. TypeOK' BY <1>0, <1>1, <1>8, <2>13 DEF TypeOK
  <2>15. QED BY <1>9, <1>10, <2>13, <2>14 DEF BrokerInv
<1>12. CASE ~b
  <2>1. call' = [call EXCEPT ![r] = IdleTask] /\ UNCHANGED <<sessions, selection, generations>>
    BY <1>2, <1>3, <1>4, <1>5, <1>6, <1>12 DEF ResumeProject
  <2>2. /\ call' \in [Calls -> Task] /\ HoldersStay /\ \A q \in Calls : CallInv(q)'
        /\ \A q \in Calls : Holds(q)' => Holds(q) /\ call'[q].route = call[q].route
    BY <1>1, <2>1, IdleIsTask, FreshTask
  <2>3. RoutesStay BY <2>1 DEF RoutesStay
  <2>4. \A s \in Sessions : SessInv(s)' BY <1>1, <2>2, <2>3, SameSessions
  <2>5. GenInv' BY <2>1, <2>2, GenStay DEF BrokerInv
  <2>6. TypeOK' BY <1>0, <1>1, <1>8, <2>1, <2>2 DEF TypeOK
  <2>7. QED BY <1>9, <1>10, <2>2, <2>4, <2>5, <2>6 DEF BrokerInv
<1>13. QED BY <1>11, <1>12

\* A call takes its next step with the route it has.
LEMMA MoveStep ==
  ASSUME BrokerInv, NEW r \in Calls, Started(r), NEW u \in Task, call' = [call EXCEPT ![r] = u],
         u.pc \notin {"idle", "queued"}, u.kind = call[r].kind, u.route = call[r].route,
         ~(u.pc = "done" /\ u.result = "failed" /\ u.kind \in {"project", "resume"}),
         u.pc = "sending" => u.conn # None, u.pc = "undo" => u.kind \in Activating,
         u.pc # "routed", NEW l \in Link \cup {None}, pending' = [pending EXCEPT ![r] = l],
         l # None => u.pc \in {"sending", "waiting"},
         u.pc \in {"sending", "waiting"} => ((l # None) = (u.answer = None)),
         l # None => devices[l.device] = l.conn /\ socket[l.conn].device = l.device,
         queue' \in [Conns -> Seq(Calls)], selection' \in Calls \cup {None},
         UNCHANGED <<now, devices, socket, atDevice, projects, sessions, generations, dormant>>
  PROVE  BrokerInv'
<1>0. TypeOK BY DEF BrokerInv
<1>1. /\ call' \in [Calls -> Task] /\ call'[r] = u
      /\ \A q \in Calls : q # r => call'[q] = call[q]
      /\ HoldersStay /\ \A q \in Calls : Holds(q)' => Holds(q) /\ call'[q].route = call[q].route
  BY <1>0, CallMoves
<1>2. /\ pending' \in [Calls -> Link \cup {None}] /\ pending'[r] = l
      /\ \A q \in Calls : q # r => pending'[q] = pending[q]
  BY <1>0, Types
<1>3. CallInv(r)'
  <2>1. u.route \in Route BY DEF BrokerInv, CallInv
  <2>2. QED BY <1>1, <1>2, <2>1 DEF CallInv, Started
<1>4. ASSUME NEW q \in Calls, q # r PROVE CallInv(q)' BY <1>1, <1>2, <1>4 DEF BrokerInv, CallInv, Started
<1>5. SocketInv' BY DEF BrokerInv, SocketInv
<1>6. PendingOnAttached'
  <2> SUFFICES ASSUME NEW q \in Calls, pending'[q] # None
               PROVE  devices'[pending'[q].device] = pending'[q].conn /\ socket'[pending'[q].conn].device = pending'[q].device
    BY DEF PendingOnAttached
  <2>1. CASE q = r BY <1>2, <2>1
  <2>2. CASE q # r BY <1>2, <2>2 DEF BrokerInv, PendingOnAttached
  <2>3. QED BY <2>1, <2>2
<1>7. RoutesStay BY DEF RoutesStay
<1>8. \A s \in Sessions : SessInv(s)' BY <1>1, <1>7, SameSessions
<1>9. ProjInv' /\ DormInv' /\ ExclInv' BY SameMaps
<1>10. GenInv' BY <1>1, GenStay DEF BrokerInv
<1>11. TypeOK' BY <1>0, <1>1, <1>2 DEF TypeOK, Link
<1>12. QED BY <1>3, <1>4, <1>5, <1>6, <1>8, <1>9, <1>10, <1>11 DEF BrokerInv

\* A call ends: an activation that failed has its route to remove first.
LEMMA EndStep ==
  ASSUME BrokerInv, NEW r \in Calls, Started(r), NEW undo \in BOOLEAN, NEW result \in {"ok", "failed"},
         call' = Ended(r, undo, result), pending' = [pending EXCEPT ![r] = None],
         undo => call[r].kind \in Activating,
         result = "failed" /\ call[r].kind \in {"project", "resume"} => undo,
         selection' \in Calls \cup {None},
         UNCHANGED <<now, devices, socket, queue, atDevice, projects, sessions, generations, dormant>>
  PROVE  BrokerInv'
<1>0. TypeOK BY DEF BrokerInv
<1>1. PICK t \in Task : t = call[r] BY <1>0, Types
<1>2. PICK pc \in {"undo", "done"} : pc = IF undo THEN "undo" ELSE "done" OBVIOUS
<1>3. PICK u : u = [t EXCEPT !.pc = pc, !.conn = None, !.answer = None, !.result = result] OBVIOUS
<1>4. u \in Task BY <1>3 DEF Task
<1>5. u.kind = t.kind /\ u.route = t.route /\ u.pc = pc /\ u.result = result BY <1>3 DEF Task
<1>6. call' = [call EXCEPT ![r] = u] BY <1>0, <1>1, <1>2, <1>3, Types DEF Ended
<1>7. PICK l \in Link \cup {None} : l = None OBVIOUS
<1>8. /\ u.pc \notin {"idle", "queued", "routed", "sending", "waiting"} /\ (u.pc = "undo" => u.kind \in Activating)
      /\ ~(u.pc = "done" /\ u.result = "failed" /\ u.kind \in {"project", "resume"})
  BY <1>1, <1>2, <1>5
<1>9. queue' \in [Conns -> Seq(Calls)] BY <1>0, Types
<1>10. QED BY <1>1, <1>4, <1>5, <1>6, <1>7, <1>8, <1>9, MoveStep

LEMMA FailStep ==
  ASSUME BrokerInv, NEW r \in Calls, Started(r), call' = Fails(r), pending' = [pending EXCEPT ![r] = None],
         UNCHANGED <<now, devices, socket, queue, atDevice, projects, sessions, generations, dormant, selection>>
  PROVE  BrokerInv'
<1>1. selection' \in Calls \cup {None} BY Types DEF BrokerInv
<1>2. CASE call[r].kind \in Activating
  <2>1. call' = Ended(r, TRUE, "failed") BY <1>2 DEF Fails, Ended
  <2>2. QED BY <1>1, <1>2, <2>1, EndStep
<1>3. CASE call[r].kind \notin Activating
  <2>1. call' = Ended(r, FALSE, "failed") BY <1>3 DEF Fails, Ended
  <2>2. call[r].kind \notin {"project", "resume"} BY <1>3 DEF Activating
  <2>3. QED BY <1>1, <2>1, <2>2, EndStep
<1>4. QED BY <1>2, <1>3

LEMMA DispatchStep ==
  ASSUME BrokerInv, NEW r \in Calls, Dispatch(r)
  PROVE  BrokerInv'
<1>0. TypeOK BY DEF BrokerInv
<1>1. /\ call[r].pc = "routed" /\ Started(r)
      /\ UNCHANGED <<now, devices, socket, queue, atDevice, projects, sessions, generations, dormant, selection>>
  BY DEF Dispatch, Started
<1>2. CallInv(r) BY DEF BrokerInv
<1>3. pending[r] = None /\ call[r].answer = None /\ call[r].route \in Route BY <1>1, <1>2 DEF CallInv
<1>4. PICK route \in Route : route = call[r].route BY <1>3
<1>5. PICK d \in Devices : d = route.device BY DEF Route
<1>6. CASE call' = Fails(r) /\ UNCHANGED pending
  <2>1. pending' = [pending EXCEPT ![r] = None] BY <1>0, <1>3, <1>6, Types
  <2>2. QED BY <1>1, <1>6, <2>1, FailStep
<1>7. CASE ~(call' = Fails(r) /\ UNCHANGED pending)
  <2>1. PICK c \in Conns : c = devices[d]
    <3>1. devices[d] # None BY <1>4, <1>5, <1>7 DEF Dispatch
    <3>2. QED BY <1>0, <3>1, Types
  <2>2. PICK l \in Link : l = [device |-> d, conn |-> c] BY DEF Link
  <2>3. pending' = [pending EXCEPT ![r] = l] /\ call' = [call EXCEPT ![r].pc = "sending", ![r].conn = c]
    BY <1>4, <1>5, <1>7, <2>1, <2>2 DEF Dispatch
  <2>4. PICK t \in Task : t = call[r] BY <1>0, Types
  <2>5. PICK u \in Task : u = [t EXCEPT !.pc = "sending", !.conn = c] BY DEF Task
  <2>6. u.kind = t.kind /\ u.route = t.route /\ u.pc = "sending" /\ u.conn = c /\ u.answer = t.answer
    BY <2>5 DEF Task
  <2>7. call' = [call EXCEPT ![r] = u] BY <1>0, <2>3, <2>4, <2>5, Types
  <2>8. c # None /\ l # None BY Nones
  <2>9. devices[l.device] = l.conn /\ socket[l.conn].device = l.device
    <3>1. l.device = d /\ l.conn = c BY <2>2
    <3>2. QED BY <2>1, <2>8, <3>1 DEF BrokerInv, SocketInv
  <2>10. (l # None) = (u.answer = None) BY <1>3, <2>4, <2>6, <2>8
  <2>11. queue' \in [Conns -> Seq(Calls)] /\ selection' \in Calls \cup {None} BY <1>0, <1>1, Types
  <2>12. QED BY <1>1, <2>3, <2>4, <2>6, <2>7, <2>8, <2>9, <2>10, <2>11, MoveStep
<1>8. QED BY <1>6, <1>7

LEMMA SendStep ==
  ASSUME BrokerInv, NEW r \in Calls, SendCommand(r)
  PROVE  BrokerInv'
<1>0. TypeOK BY DEF BrokerInv
<1>1. /\ call[r].pc = "sending" /\ Started(r) /\ call' = [call EXCEPT ![r].pc = "waiting"]
      /\ queue' = [queue EXCEPT ![call[r].conn] = Append(@, r)]
      /\ UNCHANGED <<now, devices, socket, atDevice, projects, sessions, generations, pending, dormant, selection>>
  BY DEF SendCommand, Started
<1>2. PICK t \in Task : t = call[r] BY <1>0, Types
<1>3. PICK u \in Task : u = [t EXCEPT !.pc = "waiting"] BY DEF Task
<1>4. u.kind = t.kind /\ u.route = t.route /\ u.pc = "waiting" /\ u.answer = t.answer BY <1>3 DEF Task
<1>5. call' = [call EXCEPT ![r] = u] BY <1>0, <1>1, <1>2, <1>3, Types
<1>6. PICK l \in Link \cup {None} : l = pending[r] BY <1>0, Types
<1>7. pending' = [pending EXCEPT ![r] = l] BY <1>0, <1>1, <1>6, Types
<1>8. (l # None) = (u.answer = None) BY <1>1, <1>2, <1>4, <1>6 DEF BrokerInv, CallInv
<1>9. l # None => devices[l.device] = l.conn /\ socket[l.conn].device = l.device
  BY <1>6 DEF BrokerInv, PendingOnAttached
<1>10. queue' \in [Conns -> Seq(Calls)]
  <2>1. PICK c \in Conns : c = call[r].conn BY <1>0, <1>1, Types DEF BrokerInv, CallInv, Task
  <2>2. PICK old \in Seq(Calls) : old = queue[c] BY <1>0, Types
  <2>3. Append(old, r) \in Seq(Calls) OBVIOUS
  <2>4. queue' = [queue EXCEPT ![c] = Append(old, r)] BY <1>1, <2>1, <2>2
  <2>5. QED BY <1>0, <2>3, <2>4, Types
<1>11. selection' \in Calls \cup {None} BY <1>0, <1>1, Types
<1>12. /\ u.pc \notin {"idle", "queued"} /\ u.pc # "routed" /\ u.pc # "sending" /\ u.pc # "undo" /\ u.pc # "done"
       /\ u.pc \in {"sending", "waiting"}
  BY <1>4
<1>13. u.kind = call[r].kind /\ u.route = call[r].route BY <1>2, <1>4
<1>14. /\ ~(u.pc = "done" /\ u.result = "failed" /\ u.kind \in {"project", "resume"})
       /\ (u.pc = "sending" => u.conn # None) /\ (u.pc = "undo" => u.kind \in Activating)
  BY <1>12
<1>15. UNCHANGED <<now, devices, socket, atDevice, projects, sessions, generations, dormant>> BY <1>1
<1>16. (l # None => u.pc \in {"sending", "waiting"}) /\ (u.pc \in {"sending", "waiting"} => ((l # None) = (u.answer = None)))
  BY <1>8, <1>12
<1>17. QED
  <2>1. Started(r) BY <1>1
  <2>2. CASE l = None BY <1>5, <1>7, <1>10, <1>11, <1>12, <1>13, <1>14, <1>15, <1>16, <2>1, <2>2, MoveStep
  <2>3. CASE l # None
    <3>1. devices[l.device] = l.conn /\ socket[l.conn].device = l.device BY <1>9, <2>3
    <3>2. QED BY <1>5, <1>7, <1>10, <1>11, <1>12, <1>13, <1>14, <1>15, <1>16, <2>1, <2>3, <3>1, MoveStep
  <2>4. QED BY <2>2, <2>3

LEMMA ReceiveStep ==
  ASSUME BrokerInv, NEW r \in Calls, Receive(r)
  PROVE  BrokerInv'
<1>0. TypeOK BY DEF BrokerInv
<1>1. /\ call[r].pc = "waiting" /\ call[r].answer # None /\ Started(r)
      /\ UNCHANGED <<now, devices, socket, queue, atDevice, projects, sessions, generations, pending, dormant>>
  BY DEF Receive, Started
<1>2. PICK failed \in BOOLEAN : failed = (call[r].answer # "ok") OBVIOUS
<1>3. PICK undo \in BOOLEAN : undo = (/\ call[r].kind \in Activating
                                      /\ \/ call[r].answer = "dropped"
                                         \/ failed /\ call[r].kind \in {"project", "resume"})
  OBVIOUS
<1>4. PICK result \in {"ok", "failed"} : result = IF failed THEN "failed" ELSE "ok" OBVIOUS
<1>5. call' = Ended(r, undo, result) BY <1>2, <1>3, <1>4 DEF Receive
<1>6. undo => call[r].kind \in Activating BY <1>3
<1>7. result = "failed" /\ call[r].kind \in {"project", "resume"} => undo BY <1>3, <1>4 DEF Activating
<1>8. selection' \in {None, selection} BY DEF Receive
<1>9. selection' \in Calls \cup {None} BY <1>0, <1>8, Types
<1>10. pending[r] = None
  <2>1. (pending[r] # None) = (call[r].answer = None) BY <1>1 DEF BrokerInv, CallInv
  <2>2. QED BY <1>1, <2>1
<1>11. pending' = [pending EXCEPT ![r] = None] BY <1>0, <1>1, <1>10, Types
<1>12. QED BY <1>1, <1>5, <1>6, <1>7, <1>9, <1>11, EndStep

LEMMA GiveUpStep ==
  ASSUME BrokerInv, NEW r \in Calls, GiveUp(r)
  PROVE  BrokerInv'
<1>1. Started(r) BY DEF GiveUp, Started
<1>2. QED BY <1>1, FailStep DEF GiveUp

\* The route that a failed activation made goes with it.
LEMMA RemoveRouteStep ==
  ASSUME BrokerInv, NEW r \in Calls, RemoveRoute(r)
  PROVE  BrokerInv'
<1>0. TypeOK BY DEF BrokerInv
<1>1. /\ call[r].pc = "undo" /\ Started(r) /\ call' = [call EXCEPT ![r].pc = "done"] /\ selection' = None
      /\ UNCHANGED <<now, devices, socket, queue, atDevice, projects, generations, pending, dormant>>
  BY DEF RemoveRoute, Started
<1>2. CallInv(r) BY DEF BrokerInv
<1>3. call[r].route \in Route /\ call[r].kind \in Activating /\ pending[r] = None BY <1>1, <1>2 DEF CallInv
<1>4. PICK s \in Sessions : s = call[r].route.session BY <1>3 DEF Route
<1>5. sessions' = IF sessions[s] # None /\ sessions[s].sid = r THEN [sessions EXCEPT ![s] = None] ELSE sessions
  BY <1>4 DEF RemoveRoute
<1>6. /\ sessions' \in [Sessions -> Route \cup {None}]
      /\ \A x \in Sessions : sessions'[x] # None => sessions'[x] = sessions[x]
      /\ sessions'[s] # None => sessions'[s].sid # r
  BY <1>0, <1>5, Types
<1>7. PICK t \in Task : t = call[r] BY <1>0, Types
<1>8. PICK u \in Task : u = [t EXCEPT !.pc = "done"] BY DEF Task
<1>9. u.kind = t.kind /\ u.route = t.route /\ u.pc = "done" BY <1>8 DEF Task
<1>10. /\ call' \in [Calls -> Task] /\ call'[r] = u /\ \A q \in Calls : q # r => call'[q] = call[q]
  BY <1>0, <1>1, <1>7, <1>8, Types
<1>11. CallInv(r)' BY <1>1, <1>3, <1>7, <1>9, <1>10 DEF CallInv, Started
<1>12. ASSUME NEW q \in Calls, q # r
       PROVE  CallInv(q)' /\ (Holds(q)' <=> Holds(q)) /\ (Failed(q)' <=> Failed(q)) /\ call'[q] = call[q]
  BY <1>1, <1>10, <1>12 DEF BrokerInv, CallInv, Started, Holds, Failed
<1>13. ASSUME NEW x \in Sessions PROVE SessInv(x)'
  <2> SUFFICES ASSUME sessions'[x] # None PROVE SessInv(x)' BY DEF SessInv
  <2>1. sessions'[x] = sessions[x] /\ sessions[x] # None BY <1>6
  <2>2. PICK q \in Calls : q = sessions[x].sid BY <1>0, <2>1, Types DEF Route
  <2>3. /\ Holds(q) /\ call[q].route.session = x /\ ~Failed(q) /\ sessions[x].session = x
        /\ devices[sessions[x].device] # None
    BY <2>1, <2>2 DEF BrokerInv, SessInv
  <2>4. q # r
    <3>1. ASSUME q = r PROVE FALSE
      <4>1. x = s BY <1>4, <2>3, <3>1
      <4>2. QED BY <1>6, <2>1, <2>2, <3>1, <4>1
    <3>2. QED BY <3>1
  <2>5. Holds(q)' /\ ~Failed(q)' /\ call'[q].route.session = x BY <1>12, <2>3, <2>4
  <2>6. QED BY <1>1, <2>1, <2>2, <2>3, <2>5 DEF SessInv, Holds, Started, Failed
<1>14. \A q \in Calls : Holds(q)' => Holds(q) /\ call'[q].route = call[q].route
  <2>1. Holds(r) /\ call'[r].route = call[r].route BY <1>1, <1>3, <1>7, <1>9, <1>10 DEF Holds
  <2>2. QED BY <1>12, <2>1
<1>15. GenInv' BY <1>1, <1>14, GenStay DEF BrokerInv
<1>16. SocketInv' /\ PendingOnAttached' BY <1>1, SameLinks
<1>17. ProjInv' /\ DormInv' /\ ExclInv' BY <1>1, SameMaps
<1>18. TypeOK' BY <1>0, <1>1, <1>6, <1>10 DEF TypeOK
<1>19. QED BY <1>11, <1>12, <1>13, <1>15, <1>16, <1>17, <1>18 DEF BrokerInv

-----------------------------------------------------------------------------
(* The theorems *)

LEMMA BrokerInit == Init => BrokerInv
<1> SUFFICES ASSUME Init PROVE BrokerInv OBVIOUS
<1>1. TypeOK
  <2>1. << >> \in Seq(Calls) OBVIOUS
  <2>2. 0 \in 0..MaxTime BY BrokerAssumption
  <2>3. QED BY <2>1, <2>2, IdleIsTask DEF Init, TypeOK
<1>2. /\ \A c \in Conns : socket[c].st = "unused" /\ \A d \in Devices : devices[d] = None
      /\ \A r \in Calls : pending[r] = None /\ call[r] = IdleTask
      /\ \A s \in Sessions : sessions[s] = None /\ \A p \in Scopes : projects[p] = None
      /\ \A k \in Keys : dormant[k] = None
  <2>1. /\ \A c \in Conns : socket[c].st = "unused"
        /\ \A d \in Devices : devices[d] = None
    BY DEF Init
  <2>2. /\ \A r \in Calls : pending[r] = None /\ call[r] = IdleTask
        /\ \A s \in Sessions : sessions[s] = None
    BY DEF Init
  <2>3. /\ \A p \in Scopes : projects[p] = None
        /\ \A k \in Keys : dormant[k] = None
    BY DEF Init
  <2>4. QED BY <2>1, <2>2, <2>3
<1>3. SocketInv /\ PendingOnAttached
  <2>1. \A d \in Devices : devices[d] = None BY DEF Init
  <2>2. QED BY <1>2, <2>1 DEF SocketInv, PendingOnAttached
<1>4. \A r \in Calls : CallInv(r) BY <1>2, IdleIsTask DEF CallInv, Started
<1>5. \A s \in Sessions : SessInv(s) BY DEF Init, SessInv
<1>6. ProjInv BY DEF Init, ProjInv
<1>7. DormInv BY <1>2 DEF DormInv
<1>8. ExclInv BY <1>2 DEF ExclInv, LiveDormant
<1>9. \A r \in Calls : ~Holds(r) BY <1>2, IdleIsTask DEF Holds, Started
<1>10. GenInv BY <1>9 DEF GenInv
<1>11. QED BY <1>1, <1>3, <1>4, <1>5, <1>6, <1>7, <1>8, <1>10 DEF BrokerInv

LEMMA BrokerStep == BrokerInv /\ [Next]_vars => BrokerInv'
<1> SUFFICES ASSUME BrokerInv, [Next]_vars PROVE BrokerInv' OBVIOUS
<1>1. CASE UNCHANGED vars
  <2>1. UNCHANGED <<now, devices, socket, queue, atDevice, projects, sessions, generations, pending, dormant,
                    selection, call>>
    BY <1>1 DEF vars
  <2>2. TypeOK' BY <2>1 DEF BrokerInv, TypeOK
  <2>3. \A r \in Calls : CallInv(r)' BY <2>1 DEF BrokerInv, CallInv, Started
  <2>4. RoutesStay /\ HoldersStay BY <2>1 DEF RoutesStay, HoldersStay, Holds, Started, Failed
  <2>5. \A s \in Sessions : SessInv(s)' BY <2>1, <2>4, SameSessions
  <2>6. GenInv' BY <2>1, GenStay DEF BrokerInv, Holds, Started
  <2>7. SocketInv' /\ PendingOnAttached' BY <2>1, SameLinks
  <2>8. ProjInv' /\ DormInv' /\ ExclInv' BY <2>1, SameMaps
  <2>9. QED BY <2>2, <2>3, <2>5, <2>6, <2>7, <2>8 DEF BrokerInv
<1>2. CASE Tick BY <1>2, TickStep
<1>3. ASSUME NEW c \in Conns, SocketStep(c) PROVE BrokerInv'
  BY <1>3, AttachStep, DetachStep, ForwardStep, CompleteStep, RefuseStep, AcceptStep DEF SocketStep
<1>4. ASSUME NEW r \in Calls, CallStarts(r) PROVE BrokerInv'
  BY <1>4, SelectProjectStep, SelectDeviceStep, SetWorkingDirectoryStep, StartOperationStep DEF CallStarts
<1>5. ASSUME NEW r \in Calls, CallRuns(r) PROVE BrokerInv'
  BY <1>5, ResumeStep, DispatchStep, SendStep, ReceiveStep, GiveUpStep, RemoveRouteStep DEF CallRuns
<1>6. QED BY <1>1, <1>2, <1>3, <1>4, <1>5 DEF Next

LEMMA BrokerInvariant == Spec => []BrokerInv
  BY BrokerInit, BrokerStep, PTL DEF Spec

\* A call that waits is pending on the connection attached now, or has its answer: a
\* replaced or detached connection drops the sender of every request it had, and a late
\* detach of an old socket takes none of the new connection's.
THEOREM NobodyWaitsInVain == Spec => []NoLostWaiter
<1>1. BrokerInv => NoLostWaiter BY DEF BrokerInv, CallInv, NoLostWaiter
<1>2. QED BY BrokerInvariant, <1>1, PTL

\* Routes and registrations belong to attached devices, and remove_route_if_current finds the
\* route of a project selection or resume that failed wherever it is.
THEOREM RoutesStayLive == Spec => []RoutesAreLive
<1>1. BrokerInv => RoutesAreLive
  <2> SUFFICES ASSUME BrokerInv PROVE RoutesAreLive OBVIOUS
  <2>1. /\ \A s \in Sessions : sessions[s] # None => devices[sessions[s].device] # None
        /\ \A p \in Scopes : projects[p] # None => devices[projects[p].owner] # None
    BY DEF BrokerInv, SessInv, ProjInv
  <2>2. ASSUME NEW r \in Calls, NEW s \in Sessions, call[r].pc = "done", call[r].result = "failed",
               call[r].kind \in {"project", "resume"}, sessions[s] # None
        PROVE  sessions[s].sid # r
    <3>1. ~Failed(sessions[s].sid) BY <2>2 DEF BrokerInv, SessInv
    <3>2. QED BY <2>2, <3>1 DEF Failed
  <2>3. QED BY <2>1, <2>2 DEF RoutesAreLive
<1>2. QED BY BrokerInvariant, <1>1, PTL

\* upsert_project keeps the scope of a dormant, resumable route for its own device, and one
\* scope per device and thread.
THEOREM ScopesStayExclusive == Spec => []ScopesAreExclusive
<1>1. BrokerInv => ScopesAreExclusive
  <2> SUFFICES ASSUME BrokerInv PROVE ScopesAreExclusive OBVIOUS
  <2>1. ASSUME NEW d \in Devices, NEW t \in Threads PROVE Cardinality(OwnedScopes(d, t)) <= 1
    <3>1. \A p, q \in OwnedScopes(d, t) : p = q BY DEF OwnedScopes, BrokerInv, ProjInv
    <3>2. CASE OwnedScopes(d, t) = {} BY <3>2, FS_EmptySet
    <3>3. CASE OwnedScopes(d, t) # {}
      <4>1. PICK p : p \in OwnedScopes(d, t) BY <3>3
      <4>2. OwnedScopes(d, t) = {p} BY <3>1, <4>1
      <4>3. QED BY <4>2, FS_Singleton
    <3>4. QED BY <3>2, <3>3
  <2>2. QED BY <2>1 DEF BrokerInv, ExclInv, ScopesAreExclusive
<1>2. QED BY BrokerInvariant, <1>1, PTL

\* Selections, other working directories and resumes give every route of a thread a
\* generation of its own, at most the broker's counter.
THEOREM GenerationsStayFresh == Spec => []GenerationsFresh
<1>1. BrokerInv => GenerationsFresh
  <2> SUFFICES ASSUME BrokerInv PROVE GenerationsFresh OBVIOUS
  <2>1. ASSUME NEW r \in Calls, call[r].kind \in Activating, call[r].route # None PROVE Holds(r)
    BY <2>1 DEF BrokerInv, CallInv, Holds, Started
  <2>2. QED BY <2>1 DEF BrokerInv, GenInv, KeyOf, GenerationsFresh
<1>2. QED BY BrokerInvariant, <1>1, PTL
=============================================================================
