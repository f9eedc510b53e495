--------------------------- MODULE RemoteAgent ---------------------------
(***************************************************************************)
(* The agent on a device: one bridge connection at a time, commands from   *)
(* the gateway run by a bounded set of concurrent workers, and the local   *)
(* dispatcher that binds a thread to a project, keeps the project's active *)
(* session, and runs mutations one at a time with a cache of their         *)
(* results.                                                                *)
(*                                                                         *)
(* A project binding is an object of its own (Arc<ActiveProject>): a       *)
(* worker that fetched one keeps it after the thread is bound to another.  *)
(* Deadlines and expiries are sets that only grow.                         *)
(***************************************************************************)
EXTENDS Integers, Sequences, FiniteSets, SequencesExt

CONSTANTS
    Cmds,           \* the commands the gateway sends
    Threads,        \* thread ids
    Sids,           \* computer session ids
    Reqs,           \* request ids
    Body,           \* contents of mutations
    CmdOf,          \* command -> its fields
    MaxConns,       \* bound: connections of the process
    MaxObjs,        \* bound: project bindings ever opened
    MaxWorkers,     \* MAX_WORKERS
    MaxPending,     \* MAX_PENDING
    CacheSize,      \* MAX_CACHED_RESULTS
    None

Command == [kind : {"project", "device", "mutate", "read"},
            thread : Threads, sid : Sids, generation : Nat,
            req : Reqs, body : Body]

ASSUME AgentAssumption ==
    /\ CmdOf \in [Cmds -> Command]
    /\ IsFiniteSet(Cmds) /\ IsFiniteSet(Threads)
    /\ {MaxConns, MaxWorkers, CacheSize} \subseteq Nat \ {0}
    /\ MaxPending \in Nat /\ MaxPending >= MaxWorkers
    /\ MaxObjs \in Nat /\ MaxObjs >= Cardinality(Threads)
    /\ None \notin Cmds /\ None \notin Nat
    /\ None \notin [conn : Nat, generation : Nat, sid : Sids]

VARIABLES
    link,           \* of the bridge: down, serving, closing
    conn,           \* the runner's generation counter
    live,           \* DispatchState.connection_generation, or None
    bound,          \* DispatchState.projects: thread -> binding, or None
    opened,         \* bindings opened so far
    session,        \* binding -> active session, or None
    cache,          \* binding -> MutationCache, oldest first
    holder,         \* binding -> worker that holds its mutation lock, or None
    worker,         \* command -> its worker
    late,           \* commands whose deadline passed
    expired,        \* bindings whose expires_at passed
    executed,       \* mutations that ended in a result (history)
    newest          \* thread -> newest generation acknowledged on this connection (history)

vars == <<link, conn, live, bound, opened, session, cache, holder, worker,
          late, expired, executed, newest>>

Objs == 1 .. MaxObjs
Session == [conn : Nat, generation : Nat, sid : Sids]
CacheKey == [sid : Sids, req : Reqs]
CacheEntry == [key : CacheKey, body : Body]

\* new: not sent yet.  queued: waits for a permit.  started: has one.
\* replacing: has rebound its thread and closes the old session; then rebound.
\* bound: has fetched its project.  checked: its session was the active one.  running:
\* holds the mutation lock.  over: joined, answered or dropped.
Worker == [pc : {"new", "queued", "started", "replacing", "rebound", "bound",
                 "checked", "running", "over"},
           conn : 0 .. MaxConns,
           obj : Objs \cup {None}]

TypeOK ==
    /\ link \in {"down", "serving", "closing"}
    /\ conn \in 0 .. MaxConns
    /\ live \in 1 .. MaxConns \cup {None}
    /\ bound \in [Threads -> Objs \cup {None}]
    /\ opened \in 0 .. MaxObjs
    /\ session \in [Objs -> Session \cup {None}]
    /\ cache \in [Objs -> Seq(CacheEntry)]
    /\ \A o \in Objs : Len(cache[o]) <= CacheSize
    /\ holder \in [Objs -> Cmds \cup {None}]
    /\ worker \in [Cmds -> Worker]
    /\ late \in SUBSET Cmds
    /\ expired \in SUBSET Objs
    /\ executed \in SUBSET Cmds
    /\ newest \in [Threads -> Nat]

\* Every thread is bound when the process starts (the restart handoff, or
\* LocalProjectDispatcher::upsert by the runtime).
Init ==
    /\ link = "down"
    /\ conn = 0
    /\ live = None
    /\ \E f \in [Threads -> 1 .. Cardinality(Threads)] :
         /\ \A s, t \in Threads : f[s] = f[t] => s = t
         /\ bound = f
    /\ opened = Cardinality(Threads)
    /\ session = [o \in Objs |-> None]
    /\ cache = [o \in Objs |-> << >>]
    /\ holder = [o \in Objs |-> None]
    /\ worker = [c \in Cmds |-> [pc |-> "new", conn |-> 0, obj |-> None]]
    /\ late = {}
    /\ expired = {}
    /\ executed = {}
    /\ newest = [t \in Threads |-> 0]

---------------------------------------------------------------------------
Active(c) == worker[c].pc \notin {"new", "over"}
\* The cancellation flag of the connection that brought the command.
IsCancelled(c) == link = "closing" \/ worker[c].conn # conn
HasPermit(c) == Active(c) /\ worker[c].pc # "queued"
Bound(o) == o \in {bound[t] : t \in Threads}

\* The worker ends, with a result or an error.  The reply is sent while the
\* connection serves and dropped by the join loop when it closes.
Ends(c) == worker' = [worker EXCEPT ![c] = [pc |-> "over", conn |-> 0, obj |-> None]]

\* close_project_sessions of the projects that are bound now.
WithoutBoundSessions == [o \in Objs |-> IF Bound(o) THEN None ELSE session[o]]

\* run_loop counts its connections from 1.
NextGeneration == conn + 1

\* The runner connects: begin_connection advances the generation and closes
\* every project's session, then hello and its acknowledgement.
Connect ==
    /\ link = "down"
    /\ conn < MaxConns
    /\ link' = "serving"
    /\ conn' = NextGeneration
    /\ live' = NextGeneration
    /\ session' = WithoutBoundSessions
    /\ newest' = [t \in Threads |-> 0]
    /\ UNCHANGED <<bound, opened, cache, holder, worker, late, expired,
                   executed>>

\* serve_commands returns (closed, liveness timeout, shutdown, failed send) and
\* the cancellation flag is raised; the workers are still running.
LinkCloses ==
    /\ link = "serving"
    /\ link' = "closing"
    /\ UNCHANGED <<conn, live, bound, opened, session, cache, holder, worker,
                   late, expired, executed, newest>>

\* Mutant of Joined: only workers with a permit are joined.
JoinedRunning == \A c \in Cmds : ~ HasPermit(c)

\* Every worker of the connection was joined.
Joined == \A c \in Cmds : ~ Active(c)

\* After the join loop, retire_sessions.
Retire ==
    /\ link = "closing"
    /\ Joined
    /\ link' = "down"
    /\ live' = None
    /\ session' = WithoutBoundSessions
    /\ UNCHANGED <<conn, bound, opened, cache, holder, worker, late, expired,
                   executed, newest>>

\* submit_command: a worker, or bridge_busy at MAX_PENDING.
Submit(c) ==
    /\ link = "serving"
    /\ worker[c].pc = "new"
    /\ IF Cardinality({d \in Cmds : Active(d)}) < MaxPending
       THEN worker' = [worker EXCEPT ![c].pc = "queued", ![c].conn = conn]
       ELSE Ends(c)
    /\ UNCHANGED <<link, conn, live, bound, opened, session, cache, holder,
                   late, expired, executed, newest>>

\* Mutant of Permit: the semaphore is closed with the connection.
PermitServing(c) ==
    /\ worker[c].pc = "queued"
    /\ link = "serving"
    /\ Cardinality({d \in Cmds : HasPermit(d)}) < MaxWorkers
    /\ worker' = [worker EXCEPT ![c].pc = "started"]
    /\ UNCHANGED <<link, conn, live, bound, opened, session, cache, holder,
                   late, expired, executed, newest>>

\* The semaphore gives a permit.
Permit(c) ==
    /\ worker[c].pc = "queued"
    /\ Cardinality({d \in Cmds : HasPermit(d)}) < MaxWorkers
    /\ worker' = [worker EXCEPT ![c].pc = "started"]
    /\ UNCHANGED <<link, conn, live, bound, opened, session, cache, holder,
                   late, expired, executed, newest>>

\* The command's first check.
Cancelled(c) ==
    /\ worker[c].pc = "started"
    /\ IsCancelled(c)
    /\ Ends(c)
    /\ UNCHANGED <<link, conn, live, bound, opened, session, cache, holder,
                   late, expired, executed, newest>>

\* A device session binds the thread to a new project; the directory may be
\* unusable.
BindDevice(c) ==
    LET t == CmdOf[c].thread IN
    /\ worker[c].pc = "started"
    /\ ~ IsCancelled(c)
    /\ CmdOf[c].kind = "device"
    /\ \/ /\ Ends(c)
          /\ UNCHANGED <<bound, opened>>
       \/ /\ opened < MaxObjs
          /\ opened' = opened + 1
          /\ bound' = [bound EXCEPT ![t] = opened + 1]
          /\ worker' = [worker EXCEPT ![c].pc = "replacing",
                                      ![c].obj = bound[t]]
    /\ UNCHANGED <<link, conn, live, session, cache, holder, late, expired,
                   executed, newest>>

\* The previous project's session is taken and closed; closing may fail.
CloseReplaced(c) ==
    LET old == worker[c].obj IN
    /\ worker[c].pc = "replacing"
    /\ session' = IF old = None THEN session
                  ELSE [session EXCEPT ![old] = None]
    /\ \/ worker' = [worker EXCEPT ![c].pc = "rebound"]
       \/ Ends(c)
    /\ UNCHANGED <<link, conn, live, bound, opened, cache, holder, late,
                   expired, executed, newest>>

\* The project of the thread is fetched; it must be bound, and neither the
\* request nor the binding may have expired.
FetchProject(c) ==
    LET o == bound[CmdOf[c].thread] IN
    /\ \/ worker[c].pc = "rebound"
       \/ worker[c].pc = "started" /\ CmdOf[c].kind # "device" /\ ~ IsCancelled(c)
    /\ IF o = None \/ c \in late \/ o \in expired
       THEN Ends(c)
       ELSE worker' = [worker EXCEPT ![c].pc = "bound", ![c].obj = o]
    /\ UNCHANGED <<link, conn, live, bound, opened, session, cache, holder,
                   late, expired, executed, newest>>

\* Mutant of Newer: the newest command wins, whatever its generation.
NewerAlways(cmd, generation, active) == TRUE

\* An activation is in order: nothing is active, or something older of the
\* same connection.
Newer(cmd, generation, active) ==
    active # None => /\ active.conn = generation
                     /\ cmd.generation > active.generation

\* activate: the session of a newer generation replaces the active one, which
\* is closed.  It is refused out of order, and may fail to open its terminals;
\* when closing the previous session fails it stays without an acknowledgement.
Activate(c) ==
    LET o == worker[c].obj
        cmd == CmdOf[c]
        mine == worker[c].conn
        fresh == [conn |-> mine, generation |-> cmd.generation, sid |-> cmd.sid]
    IN  /\ worker[c].pc = "bound"
        /\ cmd.kind \in {"project", "device"}
        /\ Ends(c)
        /\ \/ UNCHANGED <<session, newest>>
           \/ /\ live = mine /\ session[o] # fresh /\ Newer(cmd, mine, session[o])
              /\ session' = [session EXCEPT ![o] = fresh]
              /\ \/ newest' = [newest EXCEPT ![cmd.thread] =
                       IF @ > cmd.generation THEN @ ELSE cmd.generation]
                 \/ session[o] # None /\ UNCHANGED newest
        /\ UNCHANGED <<link, conn, live, bound, opened, cache, holder, late,
                       expired, executed>>

\* require_session: the command names the active session.
RequireSession(c) ==
    LET active == session[worker[c].obj]
        mine == worker[c].conn
    IN
    /\ worker[c].pc = "bound"
    /\ CmdOf[c].kind \in {"mutate", "read"}
    /\ IF live = mine /\ active # None /\ active.sid = CmdOf[c].sid
          /\ active.conn = mine
       THEN worker' = [worker EXCEPT ![c].pc = "checked"]
       ELSE Ends(c)
    /\ UNCHANGED <<link, conn, live, bound, opened, session, cache, holder,
                   late, expired, executed, newest>>

Read(c) ==
    /\ worker[c].pc = "checked"
    /\ CmdOf[c].kind = "read"
    /\ Ends(c)
    /\ UNCHANGED <<link, conn, live, bound, opened, session, cache, holder,
                   late, expired, executed, newest>>

KeyOf(c) == [sid |-> CmdOf[c].sid, req |-> CmdOf[c].req]

\* Where the cache has the command's key: at one place at most.
Cached(o, c) == {i \in DOMAIN cache[o] : cache[o][i].key = KeyOf(c)}

Others(o, c) ==
    LET hit == Cached(o, c) IN
    IF hit = {} THEN cache[o] ELSE RemoveAt(cache[o], CHOOSE i \in hit : TRUE)

\* The cache with one entry moved to, or put at, its young end; the oldest one
\* goes when there are too many.
Refreshed(o, c) == Append(Others(o, c),
    [key |-> KeyOf(c), body |-> CmdOf[c].body])

\* Mutant of Remembered: the result is not kept.
RememberedNever(o, c) == cache[o]

Remembered(o, c) ==
    LET grown == Refreshed(o, c) IN
    IF Len(grown) > CacheSize THEN Tail(grown) ELSE grown

\* The deadline holds when the mutation lock was got, not only before.
InTime(c) == c \notin late

\* The mutation lock is got.  A late command, a repeated request and one whose
\* id was used for another content do not run.
LockMutation(c) ==
    LET o == worker[c].obj
        hit == Cached(o, c)
    IN  /\ worker[c].pc = "checked"
        /\ CmdOf[c].kind = "mutate"
        /\ holder[o] = None
        /\ cache' = IF InTime(c) /\ \E i \in hit : cache[o][i].body = CmdOf[c].body
                    THEN [cache EXCEPT ![o] = Refreshed(o, c)] ELSE cache
        /\ IF InTime(c) /\ hit = {}
           THEN /\ worker' = [worker EXCEPT ![c].pc = "running"]
                /\ holder' = [holder EXCEPT ![o] = c]
           ELSE Ends(c) /\ UNCHANGED holder
        /\ UNCHANGED <<link, conn, live, bound, opened, session, late,
                       expired, executed, newest>>

\* Cancellation is seen while the worker waits for the lock.
CancelledInLine(c) ==
    /\ worker[c].pc = "checked"
    /\ CmdOf[c].kind = "mutate"
    /\ IsCancelled(c)
    /\ Ends(c)
    /\ UNCHANGED <<link, conn, live, bound, opened, session, cache, holder,
                   late, expired, executed, newest>>

\* The mutation ends: in a result, which is remembered, or in an error, which is
\* not.  An error does not say that nothing was done: a command that was
\* cancelled or timed out has run, and its repetition runs again.
FinishMutation(c) ==
    LET o == worker[c].obj IN
    /\ worker[c].pc = "running"
    /\ holder' = [holder EXCEPT ![o] = None]
    /\ \/ /\ Ends(c)
          /\ executed' = executed \cup {c}
          /\ cache' = [cache EXCEPT ![o] = Remembered(o, c)]
       \/ /\ Ends(c)
          /\ UNCHANGED <<executed, cache>>
    /\ UNCHANGED <<link, conn, live, bound, opened, session, late, expired,
                   newest>>

\* A command that arrives after its deadline is one whose deadline passes before
\* it gets a permit: nothing looks at it earlier.
DeadlinePasses(c) ==
    /\ c \notin late
    /\ Active(c)
    /\ late' = late \cup {c}
    /\ UNCHANGED <<link, conn, live, bound, opened, session, cache, holder,
                   worker, expired, executed, newest>>

BindingExpires(o) ==
    /\ o <= opened
    /\ o \notin expired
    /\ expired' = expired \cup {o}
    /\ UNCHANGED <<link, conn, live, bound, opened, session, cache, holder,
                   worker, late, executed, newest>>

---------------------------------------------------------------------------
WorkerStep(c) ==
    \/ Permit(c) \/ Cancelled(c) \/ BindDevice(c) \/ CloseReplaced(c)
    \/ FetchProject(c) \/ Activate(c) \/ RequireSession(c) \/ Read(c)
    \/ LockMutation(c) \/ CancelledInLine(c) \/ FinishMutation(c)

Next ==
    \/ Connect \/ LinkCloses \/ Retire
    \/ \E c \in Cmds : Submit(c) \/ WorkerStep(c) \/ DeadlinePasses(c)
    \/ \E o \in Objs : BindingExpires(o)

Spec == Init /\ [][Next]_vars

FairSpec ==
    /\ Spec
    /\ WF_vars(Retire)
    /\ \A c \in Cmds : WF_vars(WorkerStep(c))

---------------------------------------------------------------------------
(* Properties.                                                             *)

\* Between connections nothing of the old one is left: no worker runs, no lock
\* is held, and no bound project has a session the next connection could meet.
\* Under a connection the sessions of bound projects are its own.
NothingOutlivesItsConnection ==
    /\ TypeOK
    /\ link = "down" =>
          /\ \A c \in Cmds : ~ Active(c)
          /\ \A o \in Objs : holder[o] = None
          /\ \A t \in Threads : bound[t] # None => session[bound[t]] = None
    /\ \A t \in Threads :
          (bound[t] # None /\ session[bound[t]] # None) =>
              session[bound[t]].conn = live

\* Once a request had a result, no repetition of it on its session runs, wherever
\* the thread is bound by then: it gets the remembered result.  (A request that
\* ended in an error may run again.)
SuccessIsNotRepeated ==
    \A c \in executed : \A d \in Cmds \ {c} :
        (CmdOf[c].thread = CmdOf[d].thread /\ KeyOf(c) = KeyOf(d)) =>
            d \notin executed /\ worker[d].pc # "running"

\* A thread's active session is never older than the newest activation that was
\* acknowledged on the connection: workers run concurrently, so activations can
\* be carried out in another order than they were sent.
NewestSession(t) ==
    (link = "serving" /\ bound[t] # None /\ session[bound[t]] # None) =>
        session[bound[t]].generation >= newest[t]

NewestSessionStays == \A t \in Threads : NewestSession(t)

\* A request that expired before its worker looked at it changes nothing: its
\* answer says that it expired before it could run.
ExpiredRunsNothing ==
    [][\A c \in late : worker[c].pc = "started" /\ worker'[c].pc # "started" =>
            UNCHANGED <<bound, session>>]_vars

\* A connection that closes is closed in the end: every worker is joined.
LinkGoesDown == link = "closing" ~> link = "down"

=============================================================================
