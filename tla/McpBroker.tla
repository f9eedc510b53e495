---------------------------- MODULE McpBroker ----------------------------
(***************************************************************************)
(* The bridge broker of the remote MCP server: devices attach over web     *)
(* sockets and register projects; chat sessions select a project or a      *)
(* device and send it commands; the broker routes every answer back to the *)
(* call that asked.  A device that reconnects takes its projects with it:  *)
(* its routes stay dormant for a grace period and are resumed on the new   *)
(* connection.                                                             *)
(*                                                                         *)
(* One action is one critical section of the broker's state mutex, or one  *)
(* step of a socket task between two awaits.  Connection ids, request ids  *)
(* and computer session ids are fresh numbers (UUIDs in the code).         *)
(***************************************************************************)
EXTENDS Integers, Sequences, FiniteSets

CONSTANTS
    Devices,        \* device ids with a credential
    Sessions,       \* ChatGPT conversation ids
    Subjects,       \* OAuth principals
    Scopes,         \* project scopes
    Bindings,       \* binding ids of registrations
    Threads,        \* Codex thread ids of registered projects
    DeviceThread,   \* DEVICE_THREAD_ID, the thread of device routes
    Calls,          \* request slots: every call and resume task uses one once
    MaxConns,       \* bound: sockets that are ever accepted
    MaxTime,        \* bound: the last instant of the clock
    Expiries,       \* expires_at values that devices put in registrations
    Grace,          \* RESTART_ROUTE_GRACE_SECONDS, in ticks
    DeviceTtl,      \* DEVICE_ROUTE_TTL_SECONDS, in ticks
    Capacity,       \* COMMAND_QUEUE_CAPACITY
    None            \* no connection, no route, no holder, ...

ASSUME BrokerAssumption ==
    /\ DeviceThread \notin Threads
    /\ {MaxConns, MaxTime, Grace, DeviceTtl, Capacity} \subseteq Nat \ {0}
    /\ Expiries \subseteq 0 .. MaxTime + 1
    /\ None \notin Devices \cup Calls \cup Nat \cup {"ok", "refused", "dropped"}
    /\ None \notin [device : Devices, conn : Nat]
    /\ None \notin [owner : Devices, binding : Bindings, thread : Threads, expires : Nat]

VARIABLES
    now,            \* Utc::now()
    devices,        \* device -> attached connection id, or None
    socket,         \* connection id -> its serve task
    queue,          \* connection id -> commands channel, a sequence of calls
    atDevice,       \* connection id -> commands sent and not answered yet
    projects,       \* scope -> registration with its owner, or None
    sessions,       \* chat session -> route, or None
    generations,    \* <<device, thread>> -> last generation given out
    pending,        \* call -> [device, conn], or None
    dormant,        \* <<device, thread>> -> dormant route, or None
    selection,      \* holder of the selection mutex, or None
    call            \* call -> its task

vars == <<now, devices, socket, queue, atDevice, projects, sessions,
          generations, pending, dormant, selection, call>>

Conns == 1 .. MaxConns
AllThreads == Threads \cup {DeviceThread}
Keys == Devices \X AllThreads
Times == 0 .. (MaxTime + Grace + DeviceTtl + 1)

\* A route's computer_session_id is the id of the call that created it: every
\* call creates at most one route.
Route == [session : Sessions, subject : Subjects, device : Devices,
          thread : AllThreads, sid : Calls, generation : Nat, expires : Times]

Registration == [owner : Devices, binding : Bindings, thread : Threads,
                 expires : Times]

DormantRoute == [route : Route, scope : Scopes, binding : Bindings,
                 until : Times]

Activating == {"project", "device", "workdir", "resume"}
Kinds == Activating \cup {"operation"}

Task == [kind : Kinds \cup {None},
         pc : {"idle", "queued", "routed", "sending", "waiting", "undo",
               "done"},
         route : Route \cup {None},
         conn : Conns \cup {None},
         reg : [scope : Scopes, reg : Registration] \cup {None},
         answer : {None, "ok", "refused", "dropped"},
         result : {None, "ok", "failed"}]

IdleTask == [kind |-> None, pc |-> "idle", route |-> None, conn |-> None,
             reg |-> None, answer |-> None, result |-> None]

TypeOK ==
    /\ now \in 0 .. MaxTime
    /\ devices \in [Devices -> Conns \cup {None}]
    /\ socket \in [Conns -> [device : Devices \cup {None},
                             st : {"unused", "open", "ending", "closed"}]]
    /\ queue \in [Conns -> Seq(Calls)]
    /\ atDevice \in [Conns -> SUBSET Calls]
    /\ projects \in [Scopes -> Registration \cup {None}]
    /\ sessions \in [Sessions -> Route \cup {None}]
    /\ generations \in [Keys -> Nat]
    /\ pending \in [Calls -> [device : Devices, conn : Conns] \cup {None}]
    /\ dormant \in [Keys -> DormantRoute \cup {None}]
    /\ selection \in Calls \cup {None}
    /\ call \in [Calls -> Task]

Init ==
    /\ now = 0
    /\ devices = [d \in Devices |-> None]
    /\ socket = [c \in Conns |-> [device |-> None, st |-> "unused"]]
    /\ queue = [c \in Conns |-> << >>]
    /\ atDevice = [c \in Conns |-> {}]
    /\ projects = [p \in Scopes |-> None]
    /\ sessions = [s \in Sessions |-> None]
    /\ generations = [k \in Keys |-> 0]
    /\ pending = [r \in Calls |-> None]
    /\ dormant = [k \in Keys |-> None]
    /\ selection = None
    /\ call = [r \in Calls |-> IdleTask]

---------------------------------------------------------------------------
(* The three retain calls: what is left of a map once the expired entries  *)
(* are dropped.                                                            *)

LiveProjects == [p \in Scopes |->
    IF projects[p] # None /\ projects[p].expires > now
    THEN projects[p] ELSE None]

LiveSessions == [s \in Sessions |->
    IF sessions[s] # None /\ sessions[s].expires > now
    THEN sessions[s] ELSE None]

LiveDormant == [k \in Keys |->
    IF dormant[k] # None /\ dormant[k].until > now /\ dormant[k].route.expires > now
    THEN dormant[k] ELSE None]

MinOf(a, b) == IF a < b THEN a ELSE b
MaxOf(a, b) == IF a > b THEN a ELSE b

\* Mutant of IsCurrent: the device is attached, on whatever connection.
IsCurrentDevice(c) == devices[socket[c].device] # None

\* require_connection: the identity is the device's attached connection.
IsCurrent(c) == devices[socket[c].device] = c

\* The project owned by device d on thread t that disconnect finds for a route.
OwnedScopes(d, t) == {p \in Scopes :
    projects[p] # None /\ projects[p].owner = d /\ projects[p].thread = t}

\* The dormant entries a disconnect of d at this instant can leave under a key:
\* one per live project route, the last one inserted wins.
Parked(d, k) ==
    {[route |-> sessions[y[1]], scope |-> y[2], binding |-> projects[y[2]].binding,
      until |-> MinOf(sessions[y[1]].expires, now + Grace)] :
        y \in {x \in Sessions \X Scopes :
            /\ sessions[x[1]] # None
            /\ sessions[x[1]].device = d
            /\ k = <<d, sessions[x[1]].thread>>
            /\ sessions[x[1]].thread # DeviceThread
            /\ sessions[x[1]].expires > now
            /\ x[2] \in OwnedScopes(d, sessions[x[1]].thread)}}

\* Mutant of SessionsWithout: device routes are kept with the dormant ones.
SessionsWithoutProjects(d) == [s \in Sessions |->
    IF sessions[s] # None /\ sessions[s].device = d
       /\ sessions[s].thread # DeviceThread
    THEN None ELSE sessions[s]]

\* The routes that are left when device d disconnects.
SessionsWithout(d) == [s \in Sessions |->
    IF sessions[s] # None /\ sessions[s].device = d THEN None ELSE sessions[s]]

\* BrokerState::disconnect for the attached connection c of device d.  The
\* caller sets devices.  Dropping a pending entry drops the sender the call
\* waits on.
Disconnect(d, c) ==
    /\ \E kept \in [Keys -> UNION {Parked(d, k) : k \in Keys} \cup {None}] :
         /\ \A k \in Keys : kept[k] \in IF Parked(d, k) = {} THEN {None}
                                        ELSE Parked(d, k)
         /\ dormant' = [k \in Keys |-> IF kept[k] # None THEN kept[k]
                                       ELSE dormant[k]]
    /\ projects' = [p \in Scopes |->
         IF projects[p] # None /\ projects[p].owner = d THEN None
         ELSE projects[p]]
    /\ sessions' = SessionsWithout(d)
    /\ pending' = [r \in Calls |->
         IF pending[r] = [device |-> d, conn |-> c] THEN None ELSE pending[r]]
    /\ call' = [r \in Calls |->
         IF pending[r] = [device |-> d, conn |-> c]
         THEN [call[r] EXCEPT !.answer = "dropped"] ELSE call[r]]

---------------------------------------------------------------------------
(* Sockets.                                                                *)

\* A device says hello on a new socket; attach disconnects the previous one.
Attach(d, c) ==
    /\ socket[c].st = "unused"
    /\ \A b \in Conns : b < c => socket[b].st # "unused"
    /\ socket' = [socket EXCEPT ![c] = [device |-> d, st |-> "open"]]
    /\ devices' = [devices EXCEPT ![d] = c]
    /\ IF devices[d] # None
       THEN Disconnect(d, devices[d])
       ELSE UNCHANGED <<projects, sessions, pending, dormant, call>>
    /\ UNCHANGED <<now, queue, atDevice, generations, selection>>

\* The serve loop breaks (peer gone, cancelled token seen, bad message, failed
\* send) and detaches; then the receiver is dropped.  A connection that was
\* replaced detaches without any effect on the broker.  A socket whose loop is
\* broken and not detached yet behaves as an open one nothing happens on.
Detach(c) ==
    /\ socket[c].st \in {"open", "ending"}
    /\ socket' = [socket EXCEPT ![c].st = "closed"]
    /\ queue' = [queue EXCEPT ![c] = << >>]
    /\ atDevice' = [atDevice EXCEPT ![c] = {}]
    /\ IF IsCurrent(c)
       THEN /\ devices' = [devices EXCEPT ![socket[c].device] = None]
            /\ Disconnect(socket[c].device, c)
       ELSE UNCHANGED <<devices, projects, sessions, pending, dormant, call>>
    /\ UNCHANGED <<now, generations, selection>>

\* The serve loop takes a command from the channel and writes it to the socket.
ForwardCommand(c) ==
    /\ socket[c].st = "open"
    /\ queue[c] # << >>
    /\ atDevice' = [atDevice EXCEPT ![c] = @ \cup {Head(queue[c])}]
    /\ queue' = [queue EXCEPT ![c] = Tail(@)]
    /\ UNCHANGED <<now, devices, socket, projects, sessions, generations,
                   pending, dormant, selection, call>>

\* A result for request r arrives on connection c, and complete hands it to
\* the waiting call when the identity is attached and the entry is its own.
Complete(c, r, answer) ==
    /\ socket[c].st = "open"
    /\ r \in atDevice[c]
    /\ atDevice' = [atDevice EXCEPT ![c] = @ \ {r}]
    /\ IF /\ IsCurrent(c)
          /\ pending[r] = [device |-> socket[c].device, conn |-> c]
       THEN /\ pending' = [pending EXCEPT ![r] = None]
            /\ call' = [call EXCEPT ![r].answer = answer]
       ELSE UNCHANGED <<pending, call>>
    /\ UNCHANGED <<now, devices, socket, queue, projects, sessions,
                   generations, dormant, selection>>

\* Mutant of UpsertRefused: dormant routes reserve nothing.
UpsertRefusedByOwner(c, p, exp) ==
    \/ ~ IsCurrent(c)
    \/ exp <= now
    \/ LiveProjects[p] # None /\ LiveProjects[p].owner # socket[c].device

\* The project is refused: the sender is not attached, the project is expired,
\* or the scope belongs to another device, attached or dormant.
UpsertRefused(c, p, exp) ==
    LET d == socket[c].device IN
    \/ ~ IsCurrent(c)
    \/ exp <= now
    \/ LiveProjects[p] # None /\ LiveProjects[p].owner # d
    \/ \E k \in Keys : LiveDormant[k] # None /\ LiveDormant[k].scope = p
                       /\ LiveDormant[k].route.device # d

\* ProjectUpsert is refused.  The maps are pruned when the sender was attached;
\* the socket is closed with 1008.
RefuseUpsert(c, p, exp) ==
    /\ socket[c].st = "open"
    /\ UpsertRefused(c, p, exp)
    /\ socket' = [socket EXCEPT ![c].st = "ending"]
    /\ projects' = IF IsCurrent(c) THEN LiveProjects ELSE projects
    /\ sessions' = IF IsCurrent(c) THEN LiveSessions ELSE sessions
    /\ dormant' = IF IsCurrent(c) THEN LiveDormant ELSE dormant
    /\ UNCHANGED <<now, devices, queue, atDevice, generations, pending,
                   selection, call>>

\* A registration that only renews its expiry: its live routes are extended.
Renews(p, reg) ==
    /\ LiveProjects[p] # None
    /\ LiveProjects[p] = [reg EXCEPT !.expires = LiveProjects[p].expires]

\* sessions after an accepted upsert: routes of the thread are extended by a
\* renewal and dropped by any other registration.
UpsertSessions(d, p, reg) == [s \in Sessions |->
    LET route == LiveSessions[s] IN
    IF route = None \/ route.device # d \/ route.thread # reg.thread THEN route
    ELSE IF Renews(p, reg)
         THEN [route EXCEPT !.expires = MaxOf(@, reg.expires)]
         ELSE None]

UpsertDormant(d, p, reg) == [k \in Keys |->
    LET entry == LiveDormant[k] IN
    IF entry = None \/ k # <<d, reg.thread>> THEN entry
    ELSE IF Renews(p, reg)
         THEN [entry EXCEPT !.route.expires = MaxOf(@, reg.expires)]
         ELSE IF entry.scope = p /\ entry.binding = reg.binding THEN entry
         ELSE None]

UpsertProjects(d, p, reg) == [q \in Scopes |->
    IF q = p THEN reg
    ELSE IF /\ ~ Renews(p, reg)
            /\ LiveProjects[q] # None
            /\ LiveProjects[q].owner = d
            /\ LiveProjects[q].thread = reg.thread
         THEN None ELSE LiveProjects[q]]

\* ProjectUpsert is accepted.  When the acknowledgement is written a task r is
\* spawned to resume the project's dormant route; when it is not, the loop ends.
AcceptUpsert(c, p, binding, t, exp, r) ==
    LET d == socket[c].device
        reg == [owner |-> d, binding |-> binding, thread |-> t, expires |-> exp]
    IN  /\ socket[c].st = "open"
        /\ ~ UpsertRefused(c, p, exp)
        /\ call[r].pc = "idle"
        /\ projects' = UpsertProjects(d, p, reg)
        /\ sessions' = UpsertSessions(d, p, reg)
        /\ dormant' = UpsertDormant(d, p, reg)
        /\ \/ /\ call' = [call EXCEPT ![r] = [IdleTask EXCEPT
                    !.kind = "resume", !.pc = "queued", !.conn = c,
                    !.reg = [scope |-> p, reg |-> reg]]]
              /\ UNCHANGED socket
           \/ /\ socket' = [socket EXCEPT ![c].st = "ending"]
              /\ UNCHANGED call
        /\ UNCHANGED <<now, devices, queue, atDevice, generations, pending,
                       selection>>

---------------------------------------------------------------------------
(* Calls.  Every call that gets a route runs once and keeps its slot;      *)
(* early returns that change nothing are calls that never start.           *)

\* The route a selection creates: a fresh session id and the next generation.
NewRoute(r, s, u, d, t, generation, exp) ==
    [session |-> s, subject |-> u, device |-> d, thread |-> t, sid |-> r,
     generation |-> generation, expires |-> exp]

\* Mutant of Activate: a resumed route does not advance the counter.
ActivateUncounted(r, kind, route) ==
    /\ selection' = r
    /\ generations' = IF kind = "resume" THEN generations
         ELSE [generations EXCEPT
                 ![<<route.device, route.thread>>] = route.generation]
    /\ call' = [call EXCEPT ![r] = [IdleTask EXCEPT
                  !.kind = kind, !.pc = "routed", !.route = route]]

\* Insert the route of an activating call under the selection mutex, which the
\* call holds until it ends.
Activate(r, kind, route) ==
    /\ selection' = r
    /\ generations' = [generations EXCEPT
         ![<<route.device, route.thread>>] = route.generation]
    /\ call' = [call EXCEPT ![r] = [IdleTask EXCEPT
                  !.kind = kind, !.pc = "routed", !.route = route]]

\* An existing route of another principal stops a selection.
Admits(s, u) == sessions[s] # None => sessions[s].subject = u

\* select_project up to its dispatch (prepare_project_route).
SelectProject(r, s, u, p) ==
    LET reg == projects[p]
        key == <<reg.owner, reg.thread>>
        route == NewRoute(r, s, u, reg.owner, reg.thread,
                          generations[key] + 1, reg.expires)
    IN  /\ call[r].pc = "idle"
        /\ selection = None
        /\ reg # None
        /\ reg.expires > now
        /\ devices[reg.owner] # None
        /\ Admits(s, u)
        /\ Activate(r, "project", route)
        /\ sessions' = [sessions EXCEPT ![s] = route]
        /\ UNCHANGED <<now, devices, socket, queue, atDevice, projects,
                       pending, dormant>>

DeviceRoute(r, s, u, d) ==
    NewRoute(r, s, u, d, DeviceThread, generations[<<d, DeviceThread>>] + 1,
             now + DeviceTtl)

\* select_device up to its dispatch (prepare_device_route).
SelectDevice(r, s, u, d) ==
    /\ call[r].pc = "idle"
    /\ selection = None
    /\ devices[d] # None
    /\ Admits(s, u)
    /\ Activate(r, "device", DeviceRoute(r, s, u, d))
    /\ sessions' = [sessions EXCEPT ![s] = DeviceRoute(r, s, u, d)]
    /\ UNCHANGED <<now, devices, socket, queue, atDevice, projects, pending,
                   dormant>>

\* active_route: the live route of the session, for its own principal.
ActiveRoute(s, u) ==
    IF LiveSessions[s] # None /\ LiveSessions[s].subject = u
       /\ devices[LiveSessions[s].device] # None
    THEN LiveSessions[s] ELSE None

\* set_working_directory: the active device route is replaced by a new one.
\* active_route prunes the sessions whether or not it finds a route.
SetWorkingDirectory(r, s, u) ==
    LET active == ActiveRoute(s, u) IN
    /\ call[r].pc = "idle"
    /\ selection = None
    /\ IF active # None /\ active.thread = DeviceThread
       THEN /\ Activate(r, "workdir", DeviceRoute(r, s, u, active.device))
            /\ sessions' = [LiveSessions EXCEPT
                              ![s] = DeviceRoute(r, s, u, active.device)]
       ELSE /\ sessions' = LiveSessions
            /\ UNCHANGED <<selection, generations, call>>
    /\ UNCHANGED <<now, devices, socket, queue, atDevice, projects, pending,
                   dormant>>

\* list_files, read_file, write_file, project_operation and project_info up to
\* their dispatch.
StartOperation(r, s, u) ==
    /\ call[r].pc = "idle"
    /\ sessions' = LiveSessions
    /\ call' = IF ActiveRoute(s, u) = None THEN call
               ELSE [call EXCEPT ![r] = [IdleTask EXCEPT
                      !.kind = "operation", !.pc = "routed",
                      !.route = ActiveRoute(s, u)]]
    /\ UNCHANGED <<now, devices, socket, queue, atDevice, projects,
                   generations, pending, dormant, selection>>

\* resume_project up to its dispatch.  The task ends without a route (and frees
\* its slot) when its connection was replaced, its registration changed, or
\* nothing is dormant; a dormant entry of another registration is dropped.
ResumeProject(r) ==
    LET c == call[r].conn
        p == call[r].reg.scope
        reg == call[r].reg.reg
        key == <<reg.owner, reg.thread>>
        entry == LiveDormant[key]
        found == IsCurrent(c) /\ projects[p] = reg /\ entry # None
        route == NewRoute(r, entry.route.session, entry.route.subject,
                          reg.owner, reg.thread,
                          MaxOf(generations[key], entry.route.generation) + 1,
                          reg.expires)
    IN  /\ call[r].kind = "resume"
        /\ call[r].pc = "queued"
        /\ selection = None
        /\ dormant' = IF ~ IsCurrent(c) THEN dormant
                      ELSE IF found THEN [LiveDormant EXCEPT ![key] = None]
                      ELSE LiveDormant
        /\ IF found /\ entry.scope = p /\ entry.binding = reg.binding
           THEN /\ Activate(r, "resume", route)
                /\ sessions' = [sessions EXCEPT ![route.session] = route]
           ELSE /\ call' = [call EXCEPT ![r] = IdleTask]
                /\ UNCHANGED <<sessions, selection, generations>>
        /\ UNCHANGED <<now, devices, socket, queue, atDevice, projects,
                       pending>>

\* Where a call goes when its dispatch fails: an activating call removes its
\* route first, an operation returns.
Ended(r, undo, result) == [call EXCEPT ![r] = [@ EXCEPT
    !.pc = IF undo THEN "undo" ELSE "done", !.conn = None, !.answer = None,
    !.result = result]]

Fails(r) == Ended(r, call[r].kind \in Activating, "failed")

\* dispatch_on_route: the route must still be the session's; the request is
\* entered as pending on the connection attached now.
Dispatch(r) ==
    LET route == call[r].route
        current == sessions[route.session]
        c == devices[route.device]
    IN  /\ call[r].pc = "routed"
        /\ IF current = None \/ current.sid # route.sid \/ c = None
           THEN call' = Fails(r) /\ UNCHANGED pending
           ELSE /\ pending' = [pending EXCEPT
                     ![r] = [device |-> route.device, conn |-> c]]
                /\ call' = [call EXCEPT ![r].pc = "sending", ![r].conn = c]
        /\ UNCHANGED <<now, devices, socket, queue, atDevice, projects,
                       sessions, generations, dormant, selection>>

\* commands.send: room in the channel and a receiver.
SendCommand(r) ==
    LET c == call[r].conn IN
    /\ call[r].pc = "sending"
    /\ socket[c].st # "closed"
    /\ Len(queue[c]) < Capacity
    /\ queue' = [queue EXCEPT ![c] = Append(@, r)]
    /\ call' = [call EXCEPT ![r].pc = "waiting"]
    /\ UNCHANGED <<now, devices, socket, atDevice, projects, sessions,
                   generations, pending, dormant, selection>>

\* Mutant of GiveUp: sending into the channel has no timeout.
GiveUpWaiting(r) ==
    /\ call[r].pc = "waiting"
    /\ call[r].answer = None
    /\ pending' = [pending EXCEPT ![r] = None]
    /\ call' = Fails(r)
    /\ UNCHANGED <<now, devices, socket, queue, atDevice, projects, sessions,
                   generations, dormant, selection>>

\* The request timeout while the channel is full or no answer came, a closed
\* channel, or the caller's cancellation.
GiveUp(r) ==
    /\ call[r].pc \in {"sending", "waiting"}
    /\ \/ call[r].answer = None
       \/ call[r].pc = "sending"
       \/ call[r].kind = "operation"
    /\ pending' = [pending EXCEPT ![r] = None]
    /\ call' = Fails(r)
    /\ UNCHANGED <<now, devices, socket, queue, atDevice, projects, sessions,
                   generations, dormant, selection>>

\* The oneshot resolves: an answer, or a dropped sender (MissingResult).  A
\* refused activation of a project removes its route; one of a device does not.
Receive(r) ==
    LET failed == call[r].answer # "ok"
        undo == /\ call[r].kind \in Activating
                /\ \/ call[r].answer = "dropped"
                   \/ failed /\ call[r].kind \in {"project", "resume"}
    IN  /\ call[r].pc = "waiting"
        /\ call[r].answer # None
        /\ call' = Ended(r, undo, IF failed THEN "failed" ELSE "ok")
        /\ selection' = IF ~ undo /\ selection = r THEN None ELSE selection
        /\ UNCHANGED <<now, devices, socket, queue, atDevice, projects,
                       sessions, generations, pending, dormant>>

\* remove_route_if_current, then the selection mutex is released.
RemoveRoute(r) ==
    LET s == call[r].route.session IN
    /\ call[r].pc = "undo"
    /\ sessions' = IF sessions[s] # None /\ sessions[s].sid = r
                   THEN [sessions EXCEPT ![s] = None] ELSE sessions
    /\ call' = [call EXCEPT ![r].pc = "done"]
    /\ selection' = None
    /\ UNCHANGED <<now, devices, socket, queue, atDevice, projects,
                   generations, pending, dormant>>

Tick ==
    /\ now < MaxTime
    /\ now' = now + 1
    /\ UNCHANGED <<devices, socket, queue, atDevice, projects, sessions,
                   generations, pending, dormant, selection, call>>

---------------------------------------------------------------------------
SocketStep(c) ==
    \/ \E d \in Devices : Attach(d, c)
    \/ Detach(c)
    \/ ForwardCommand(c)
    \/ \E r \in Calls, answer \in {"ok", "refused"} : Complete(c, r, answer)
    \/ \E p \in Scopes, exp \in Expiries : RefuseUpsert(c, p, exp)
    \/ \E p \in Scopes, b \in Bindings, t \in Threads, r \in Calls,
          exp \in Expiries : AcceptUpsert(c, p, b, t, exp, r)

CallStarts(r) ==
    \/ \E s \in Sessions, u \in Subjects, p \in Scopes : SelectProject(r, s, u, p)
    \/ \E s \in Sessions, u \in Subjects, d \in Devices : SelectDevice(r, s, u, d)
    \/ \E s \in Sessions, u \in Subjects : SetWorkingDirectory(r, s, u)
    \/ \E s \in Sessions, u \in Subjects : StartOperation(r, s, u)

CallRuns(r) ==
    \/ ResumeProject(r) \/ Dispatch(r) \/ SendCommand(r) \/ Receive(r)
    \/ GiveUp(r) \/ RemoveRoute(r)

Next ==
    \/ Tick
    \/ \E c \in Conns : SocketStep(c)
    \/ \E r \in Calls : CallStarts(r) \/ CallRuns(r)

Spec == Init /\ [][Next]_vars

\* Tasks are polled: a started call takes its next step, and its timers fire.
FairSpec == Spec /\ \A r \in Calls : WF_vars(CallRuns(r))

---------------------------------------------------------------------------
(* Properties.                                                             *)

\* A pending request waits on the connection that is attached now: nobody is
\* left waiting on a connection that was replaced or detached, and a late
\* detach of an old socket does not take the new connection's requests.
PendingOnAttached ==
    \A r \in Calls : pending[r] # None =>
        /\ devices[pending[r].device] = pending[r].conn
        /\ socket[pending[r].conn].device = pending[r].device

\* No caller waits for an answer that can no longer come: the request of a
\* call that still waits is pending on the attached connection, or answered.
NoLostWaiter ==
    /\ TypeOK
    /\ PendingOnAttached
    /\ \A r \in Calls : call[r].pc \in {"sending", "waiting"} =>
          (pending[r] # None) = (call[r].answer = None)

\* Every route and every registration belongs to an attached device, and a
\* project selection or resume that failed leaves its route nowhere.
RoutesAreLive ==
    /\ \A s \in Sessions : sessions[s] # None =>
          devices[sessions[s].device] # None
    /\ \A p \in Scopes : projects[p] # None =>
          devices[projects[p].owner] # None
    /\ \A r \in Calls, s \in Sessions :
          (call[r].pc = "done" /\ call[r].result = "failed"
             /\ call[r].kind \in {"project", "resume"} /\ sessions[s] # None)
              => sessions[s].sid # r

\* While a device's route is dormant and resumable, no other device registers
\* its project scope; and a device registers one scope per thread, because
\* disconnect finds the project of a route by its thread alone.
ScopesAreExclusive ==
    /\ \A k \in Keys, p \in Scopes :
          (LiveDormant[k] # None /\ LiveDormant[k].scope = p /\ LiveProjects[p] # None)
              => LiveProjects[p].owner = k[1]
    /\ \A d \in Devices, t \in Threads : Cardinality(OwnedScopes(d, t)) <= 1

\* Generations order the activations of a thread: two routes to one thread,
\* live, dormant or held by a call, never share a generation, and none is newer
\* than the broker's counter.  The agent refuses all but the newest.
GenerationsFresh ==
    LET routes == {call[r].route : r \in {q \in Calls :
                      call[q].kind \in Activating /\ call[q].route # None}}
    IN  \A a \in routes :
          /\ a.generation <= generations[<<a.device, a.thread>>]
          /\ \A b \in routes :
               (a # b /\ a.device = b.device /\ a.thread = b.thread)
                   => a.generation # b.generation

\* Every call ends, whatever the device does, and gives the selection mutex
\* back: a device that never answers does not block the other selections.
EveryCallEnds ==
    \A r \in Calls :
        call[r].pc \notin {"idle", "done"} ~> call[r].pc \in {"idle", "done"}

=============================================================================
