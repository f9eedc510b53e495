------------------------- MODULE ResidentServerProofs -------------------------
(***************************************************************************)
(* Through faults, forced restarts, a close and dropped futures, one       *)
(* app-server runs at most, work that a dead one had is fenced before its  *)
(* generation is replaced, and no restart hits a server that serves.       *)
(***************************************************************************)
EXTENDS ResidentServer, FiniteSetTheorems, TLAPS

-----------------------------------------------------------------------------
(* The inductive invariant *)

ResidentState ==
    [client : Clients \cup {None}, debt : Clients \cup {None}, generation : Clients,
     quarantined : BOOLEAN, pending : BOOLEAN, accepting : BOOLEAN, open : BOOLEAN,
     authorized : BOOLEAN, forwarding : 0..MaxClients, forwarders : BOOLEAN, forced : BOOLEAN]
ClientState ==
    [proc : {"unborn", "alive", "exited"}, gen : 0..MaxClients, handle : BOOLEAN,
     sealed : BOOLEAN, closed : BOOLEAN, turn : BOOLEAN,
     ask : {"none", "open", "claimed", "stuck"},
     unread : {"none", "started", "ended", "asked"}, abandoned : BOOLEAN,
     monitor : BOOLEAN, suspect : BOOLEAN, cut : BOOLEAN, lost : SUBSET {"turn", "request"}]
OpState == [step : {"idle", "admitted", "writing", "written"}, client : Clients \cup {None},
            kind : {"request", "reply"}]
FenceState == [gen : Clients, work : SUBSET {"turn", "request"}]
LockPcs == {"free", "debt", "fence", "candidate", "join", "kill", "spawn", "initialize",
            "install", "close_join", "close_debt", "close_current"}
LockState == [holder : {None, "supervisor", "force", "close"}, pc : LockPcs]
SupervisorState == [pc : {"look", "attempt", "wait", "retry"}, generation : 0..MaxClients,
                    settled : 0..MaxClients, unseen : BOOLEAN]

Born(c) == clients[c].proc # "unborn"
Alive(c) == clients[c].proc = "alive"

\* No turn and no server request is known, and none is left to be read.
Quiet(r) == ~r.turn /\ r.ask = "none"
Silent(r) == Quiet(r) /\ r.unread = "none"

\* The row has the turn, or the request, or will have it once its reader has taken the
\* last message.
TurnLeft(r) == IF r.sealed THEN r.turn
               ELSE (r.turn \/ r.unread = "started") /\ r.unread # "ended"
AskLeft(r) == r.ask # "none" \/ (~r.sealed /\ r.unread = "asked")

\* What the process left is in its row or, once it is sealed, with the fence.
LostKept(r, F) ==
    \/ ("turn" \in r.lost => TurnLeft(r)) /\ ("request" \in r.lost => AskLeft(r))
    \/ r.sealed /\ \E f \in F : f.gen = r.gen /\ r.lost \subseteq f.work

\* A process: spawned in order and in no later generation than its number; not cut at
\* work; what it lost is kept; only the current client has work or operations.
RowInv(c) ==
    /\ ~Born(c) => /\ Silent(clients[c]) /\ ~clients[c].abandoned /\ ~InFlight(c)
                   /\ c \notin {resident.client, resident.debt}
    /\ Born(c) => clients[c].gen <= c /\ \A d \in Clients : d < c => Born(d)
    /\ ~clients[c].cut
    /\ clients[c].closed => clients[c].sealed
    /\ Alive(c) => clients[c].lost = {}
    /\ LostKept(clients[c], fenced)
    /\ c # resident.client /\ resident.open => Quiet(clients[c])
    /\ InFlight(c) => resident.client \in {None, c}

\* The current client: once its replacement is authorized nothing can begin at it, and
\* a debt is spawned only after it is gone.
CurrentInv(c) == c = resident.client =>
    /\ clients[c].gen = resident.generation
    /\ resident.authorized => clients[c].sealed /\ Quiet(clients[c]) /\ ~InFlight(c)
    /\ resident.debt # None => ~Alive(c)
    /\ resident.pending => resident.forced \/ clients[c].suspect \/ clients[c].closed

\* The debt was never installed, so nothing was ever sent to it.
DebtInv(c) == c = resident.debt =>
    /\ clients[c].gen = resident.generation + 1
    /\ Silent(clients[c]) /\ ~clients[c].abandoned /\ ~InFlight(c)
    /\ c # resident.client

\* Every other process has exited and is sealed.
GoneInv(c) == c \notin {resident.client, resident.debt} =>
    ~Alive(c) /\ (Born(c) => clients[c].sealed)

ResidentInv ==
    /\ resident.open => resident.client # None
    /\ resident.accepting \/ resident.pending => resident.open
    /\ \A o \in Ops : ops[o].step # "idle" => ops[o].client # None

\* What the holder of restart_lock knows.
LockInv ==
    /\ lock.pc \in {"debt", "fence", "candidate", "join", "kill", "spawn", "initialize", "install"}
         => resident.open
    /\ lock.pc \in {"close_join", "close_debt", "close_current"} => ~resident.open
    /\ lock.pc \in {"join", "kill", "spawn", "initialize", "install"} => resident.authorized
    /\ lock.pc = "spawn" => \A c \in Clients : c = resident.client => ~Alive(c)
    /\ lock.pc \in {"debt", "initialize", "install", "close_debt"} => resident.debt # None

ServerInv ==
    /\ ResidentInv
    /\ \A c \in Clients : RowInv(c) /\ CurrentInv(c) /\ DebtInv(c) /\ GoneInv(c)

AllInv == TypeOK /\ ServerInv /\ LockInv

-----------------------------------------------------------------------------
(* Types *)

LEMMA Numbers == Clients \subseteq Nat /\ 1 \in Clients /\ None \notin Clients
                 /\ Clients \subseteq 0..MaxClients /\ 0 \in 0..MaxClients
  BY ResidentAssumption DEF Clients

\* The variables, by the names used here.
Types ==
    /\ resident \in ResidentState /\ clients \in [Clients -> ClientState]
    /\ ops \in [Ops -> OpState]
    /\ lock \in LockState /\ supervisor \in SupervisorState /\ force \in Clients \cup {None}
    /\ fenced \subseteq FenceState /\ faults \in 0..MaxFaults

LEMMA SameTypes == TypeOK <=> Types
  BY DEF TypeOK, Types, ResidentState, ClientState, OpState, FenceState, LockState, LockPcs, SupervisorState

\* What the control of the replacement may do to its own variables.
ControlTypes == lock \in LockState /\ supervisor \in SupervisorState /\ force \in Clients \cup {None}

LEMMA FaultType == ASSUME Types, Fault PROVE faults' \in 0..MaxFaults
  BY ResidentAssumption DEF Fault, Types

LEMMA NotifyType == ASSUME Types, Notify PROVE supervisor' \in SupervisorState
<1>1. supervisor \in SupervisorState BY DEF Types
<1>2. [supervisor EXCEPT !.unseen = TRUE] \in SupervisorState BY <1>1 DEF SupervisorState
<1>3. QED BY <1>2 DEF Notify

LEMMA FreeType == Free \in LockState /\ Free.pc = "free"
  BY DEF Free, LockState, LockPcs

LEMMA GoToType == ASSUME Types, NEW pc \in LockPcs, GoTo(pc)
                  PROVE  lock' \in LockState /\ lock'.pc = pc
<1>1. lock \in LockState BY DEF Types
<1>2. [lock EXCEPT !.pc = pc] \in LockState /\ [lock EXCEPT !.pc = pc].pc = pc
  BY <1>1 DEF LockState
<1>3. QED BY <1>2 DEF GoTo

LEMMA ReturnType == ASSUME Types, Return PROVE ControlTypes' /\ lock' = Free
<1>1. supervisor \in SupervisorState BY DEF Types
<1>2. [supervisor EXCEPT !.pc = "retry"] \in SupervisorState BY <1>1 DEF SupervisorState
<1>3. QED BY <1>2, FreeType DEF Return, ControlTypes, Types

LEMMA KnownOf ==
  ASSUME NEW r \in ClientState
  PROVE  /\ Known(r) \subseteq {"turn", "request"}
         /\ "turn" \in Known(r) <=> r.turn
         /\ "request" \in Known(r) <=> r.ask # "none"
         /\ Known(r) = {} <=> Quiet(r)
  BY DEF Known, Quiet, ClientState

LEMMA RecordedOf ==
  ASSUME NEW r \in ClientState
  PROVE  /\ Recorded(r) \in ClientState /\ Recorded(r).unread = "none"
         /\ Recorded(r).turn = ((r.turn \/ r.unread = "started") /\ r.unread # "ended")
         /\ Recorded(r).ask = IF r.unread = "asked" THEN "open" ELSE r.ask
         /\ Recorded(r).proc = r.proc /\ Recorded(r).gen = r.gen /\ Recorded(r).lost = r.lost
         /\ Recorded(r).sealed = r.sealed /\ Recorded(r).closed = r.closed
         /\ Recorded(r).suspect = r.suspect /\ Recorded(r).abandoned = r.abandoned
         /\ Recorded(r).cut = r.cut
<1>1. PICK t \in BOOLEAN : t = ((r.turn \/ r.unread = "started") /\ r.unread # "ended") OBVIOUS
<1>2. PICK a \in {"none", "open", "claimed", "stuck"} : a = IF r.unread = "asked" THEN "open" ELSE r.ask
  BY DEF ClientState
<1>3. Recorded(r) = [r EXCEPT !.unread = "none", !.turn = t, !.ask = a] BY <1>1, <1>2 DEF Recorded
<1>4. QED BY <1>1, <1>2, <1>3 DEF ClientState

LEMMA SealedOf ==
  ASSUME NEW r \in ClientState
  PROVE  /\ Sealed(r) \in ClientState /\ Sealed(r).sealed
         /\ r.sealed => Sealed(r).lost = r.lost
         /\ Sealed(r).lost \subseteq r.lost
         /\ ~r.sealed /\ "turn" \in Sealed(r).lost => r.turn
         /\ ~r.sealed /\ "request" \in Sealed(r).lost => r.ask # "none"
         /\ Sealed(r).turn = r.turn /\ Sealed(r).ask = r.ask /\ Sealed(r).unread = r.unread
         /\ Sealed(r).proc = r.proc /\ Sealed(r).gen = r.gen /\ Sealed(r).closed = r.closed
         /\ Sealed(r).suspect = r.suspect /\ Sealed(r).abandoned = r.abandoned
         /\ Sealed(r).cut = r.cut
<1>1. PICK l \in SUBSET {"turn", "request"} : l = IF r.sealed THEN r.lost ELSE r.lost \cap Known(r)
  BY DEF ClientState
<1>2. Sealed(r) = [r EXCEPT !.sealed = TRUE, !.lost = l] BY <1>1 DEF Sealed
<1>3. /\ Sealed(r) \in ClientState /\ Sealed(r).sealed /\ Sealed(r).lost = l
      /\ Sealed(r).turn = r.turn /\ Sealed(r).ask = r.ask /\ Sealed(r).unread = r.unread
      /\ Sealed(r).proc = r.proc /\ Sealed(r).gen = r.gen /\ Sealed(r).closed = r.closed
      /\ Sealed(r).suspect = r.suspect /\ Sealed(r).abandoned = r.abandoned
      /\ Sealed(r).cut = r.cut
  BY <1>2 DEF ClientState
<1>4. /\ r.sealed => l = r.lost
      /\ l \subseteq r.lost
      /\ ~r.sealed => l \subseteq Known(r)
  BY <1>1
<1>5. QED BY <1>3, <1>4, KnownOf

LEMMA ClosedOf ==
  ASSUME NEW r \in ClientState
  PROVE  /\ Closed(r) \in ClientState /\ Closed(r).sealed /\ Closed(r).closed /\ ~Closed(r).abandoned
         /\ r.sealed => Closed(r).lost = r.lost
         /\ Closed(r).lost \subseteq r.lost
         /\ ~r.sealed /\ "turn" \in Closed(r).lost => r.turn
         /\ ~r.sealed /\ "request" \in Closed(r).lost => r.ask # "none"
         /\ Closed(r).turn = r.turn /\ Closed(r).ask = r.ask /\ Closed(r).unread = r.unread
         /\ Closed(r).proc = r.proc /\ Closed(r).gen = r.gen
         /\ Closed(r).suspect = r.suspect /\ Closed(r).cut = r.cut
<1>1. PICK q \in ClientState : q = Sealed(r) BY SealedOf
<1>2. Closed(r) = [q EXCEPT !.closed = TRUE, !.abandoned = FALSE] BY <1>1 DEF Closed
<1>3. /\ Closed(r) \in ClientState /\ Closed(r).closed /\ ~Closed(r).abandoned
      /\ Closed(r).sealed = q.sealed /\ Closed(r).lost = q.lost /\ Closed(r).turn = q.turn
      /\ Closed(r).ask = q.ask /\ Closed(r).unread = q.unread /\ Closed(r).proc = q.proc
      /\ Closed(r).gen = q.gen /\ Closed(r).suspect = q.suspect /\ Closed(r).cut = q.cut
  BY <1>2 DEF ClientState
<1>4. QED BY <1>1, <1>3, SealedOf

\* What is kept stays kept when less is lost, more is with the fence, and the rest of the
\* row goes on: the same messages to come, or the seal with what they said recorded.
LEMMA KeptStays ==
  ASSUME NEW q \in ClientState, NEW r \in ClientState, NEW F, NEW G, F \subseteq G, LostKept(q, F),
         r.gen = q.gen, r.lost \subseteq q.lost, q.sealed => r.sealed,
         "turn" \in r.lost /\ TurnLeft(q) => TurnLeft(r),
         "request" \in r.lost /\ AskLeft(q) => AskLeft(r)
  PROVE  LostKept(r, G)
  BY DEF LostKept

LEMMA LikeKept ==
  ASSUME NEW q \in ClientState, NEW r \in ClientState, NEW F, NEW G, F \subseteq G, LostKept(q, F),
         r.gen = q.gen, r.lost = q.lost, r.sealed = q.sealed, r.turn = q.turn, r.ask = q.ask,
         r.unread = q.unread
  PROVE  LostKept(r, G)
  BY KeptStays DEF TurnLeft, AskLeft

-----------------------------------------------------------------------------
(* An ordinary step: nothing is spawned, admitted or installed *)

\* The row of a process after a step: it only gets older.
Ages(c, r) ==
    /\ r.gen = clients[c].gen
    /\ r.proc = "unborn" <=> clients[c].proc = "unborn"
    /\ r.proc = "alive" => clients[c].proc = "alive" /\ r.lost = {}
    /\ clients[c].sealed => r.sealed
    /\ clients[c].closed => r.closed
    /\ r.closed => r.sealed
    /\ clients[c].suspect => r.suspect
    /\ Quiet(clients[c]) => Quiet(r) \/ InFlight(c) \/ (c = resident.client /\ ~clients[c].sealed)
    /\ Silent(clients[c]) => Silent(r) \/ InFlight(c) \/ clients[c].abandoned
                                \/ (c = resident.client /\ ~clients[c].sealed)
    /\ r.abandoned => clients[c].abandoned \/ InFlight(c)
    /\ ~r.cut
    /\ LostKept(r, fenced')

OpsEnd ==
    \A o \in Ops : /\ ops'[o].client \in {None, ops[o].client}
                   /\ ops'[o].step # "idle" => ops'[o].client # None

\* The resident may let go of a process that is sealed and gone, close, and authorize a
\* replacement of a client at rest; it becomes pending only for a cause.
ResidentAges ==
    /\ resident'.generation = resident.generation
    /\ resident'.client \in {resident.client, None}
    /\ resident'.debt \in {resident.debt, None}
    /\ resident'.open => resident.open /\ resident'.client = resident.client
    /\ resident'.accepting \/ resident'.pending => resident'.open
    /\ \A c \in Clients :
         /\ c \in {resident.client, resident.debt} /\ c \notin {resident'.client, resident'.debt}
              => clients'[c].sealed /\ clients'[c].proc # "alive"
         /\ c = resident'.client /\ resident'.authorized
              => resident.authorized \/ (clients'[c].sealed /\ Quiet(clients'[c]) /\ ~InFlight(c))
         /\ c = resident'.client /\ resident'.pending
              => \/ resident.pending /\ (resident.forced => resident'.forced)
                 \/ resident'.forced \/ clients'[c].suspect \/ clients'[c].closed

Ordinary ==
    /\ \A c \in Clients : Ages(c, clients'[c])
    /\ OpsEnd
    /\ fenced \subseteq fenced'
    /\ ResidentAges

LEMMA FlightEnds == ASSUME OpsEnd, NEW c \in Clients PROVE InFlight(c)' => InFlight(c)
  BY Numbers DEF OpsEnd, InFlight

LEMMA OrdinaryKeeps == ASSUME ServerInv, Types, Ordinary PROVE ServerInv'
<1>1. ResidentInv' BY DEF ServerInv, ResidentInv, Ordinary, ResidentAges, OpsEnd
<1>2. ASSUME NEW c \in Clients
      PROVE  RowInv(c)' /\ CurrentInv(c)' /\ DebtInv(c)' /\ GoneInv(c)'
  <2>1. Ages(c, clients'[c]) /\ RowInv(c) /\ CurrentInv(c) /\ DebtInv(c) /\ GoneInv(c)
    BY DEF Ordinary, ServerInv
  <2>2. InFlight(c)' => InFlight(c) BY FlightEnds DEF Ordinary
  <2>3. \A d \in Clients : Born(d)' <=> Born(d) BY DEF Ordinary, Ages, Born
  <2>4. /\ resident'.generation = resident.generation
        /\ resident'.client \in {resident.client, None}
        /\ resident'.debt \in {resident.debt, None}
        /\ resident'.open => resident.open /\ resident'.client = resident.client
        /\ c \in {resident.client, resident.debt} /\ c \notin {resident'.client, resident'.debt}
              => clients'[c].sealed /\ clients'[c].proc # "alive"
        /\ c # None
    BY Numbers DEF Ordinary, ResidentAges
  <2>5. RowInv(c)'
    <3>1. LostKept(clients'[c], fenced') BY <2>1 DEF Ages
    <3>2. resident.client = None => ~resident.open BY DEF ServerInv, ResidentInv
    <3>3. QED BY <2>1, <2>2, <2>3, <2>4, <3>1, <3>2 DEF RowInv, Ages, Born, Alive
  <2>6. CurrentInv(c)'
    <3>1. /\ c = resident'.client /\ resident'.authorized
              => resident.authorized \/ (clients'[c].sealed /\ Quiet(clients'[c]) /\ ~InFlight(c))
          /\ c = resident'.client /\ resident'.pending
              => \/ resident.pending /\ (resident.forced => resident'.forced)
                 \/ resident'.forced \/ clients'[c].suspect \/ clients'[c].closed
      BY DEF Ordinary, ResidentAges
    <3>2. QED BY <2>1, <2>2, <2>4, <3>1 DEF CurrentInv, Ages, Alive
  <2>7. DebtInv(c)' BY <2>1, <2>2, <2>4 DEF DebtInv, Ages
  <2>8. GoneInv(c)' BY <2>1, <2>3, <2>4 DEF GoneInv, Ages, Alive, Born
  <2>9. QED BY <2>5, <2>6, <2>7, <2>8
<1>3. QED BY <1>1, <1>2 DEF ServerInv

\* The resident is left alone.
LEMMA SameResident == ASSUME ServerInv, resident' = resident PROVE ResidentAges
  BY DEF ServerInv, ResidentInv, ResidentAges

LEMMA SameOps == ASSUME ServerInv, ops' = ops PROVE OpsEnd
  BY DEF ServerInv, ResidentInv, OpsEnd

LEMMA SameRow == ASSUME ServerInv, NEW c \in Clients, fenced \subseteq fenced'
                 PROVE  Ages(c, clients[c])
<1>1. RowInv(c) BY DEF ServerInv
<1>2. LostKept(clients[c], fenced') BY <1>1 DEF RowInv, LostKept
<1>3. QED BY <1>1, <1>2 DEF RowInv, Ages, Alive

LEMMA OneRow ==
  ASSUME ServerInv, Types, fenced \subseteq fenced', NEW c \in Clients, NEW r \in ClientState,
         Set(c, r), Ages(c, r)
  PROVE  /\ clients' \in [Clients -> ClientState] /\ clients'[c] = r
         /\ \A d \in Clients : Ages(d, clients'[d])
<1>1. clients' = [clients EXCEPT ![c] = r] /\ clients \in [Clients -> ClientState]
  BY DEF Set, Types
<1>2. \A d \in Clients : d # c => clients'[d] = clients[d] BY <1>1
<1>3. QED BY <1>1, <1>2, SameRow

\* A row that ages may be closed on the way, or sealed.
LEMMA ClosedAges ==
  ASSUME NEW c \in Clients, NEW q \in ClientState, Ages(c, q)
  PROVE  /\ Closed(q) \in ClientState /\ Ages(c, Closed(q)) /\ Closed(q).closed
         /\ Sealed(q) \in ClientState /\ Ages(c, Sealed(q))
<1>1. LostKept(q, fenced') BY DEF Ages
<1>2. Closed(q) \in ClientState /\ LostKept(Closed(q), fenced')
  <2>1. "turn" \in Closed(q).lost /\ TurnLeft(q) => TurnLeft(Closed(q)) BY ClosedOf DEF TurnLeft
  <2>2. "request" \in Closed(q).lost /\ AskLeft(q) => AskLeft(Closed(q)) BY ClosedOf DEF AskLeft
  <2>3. QED BY <1>1, <2>1, <2>2, ClosedOf, KeptStays
<1>3. Sealed(q) \in ClientState /\ LostKept(Sealed(q), fenced')
  <2>1. "turn" \in Sealed(q).lost /\ TurnLeft(q) => TurnLeft(Sealed(q)) BY SealedOf DEF TurnLeft
  <2>2. "request" \in Sealed(q).lost /\ AskLeft(q) => AskLeft(Sealed(q)) BY SealedOf DEF AskLeft
  <2>3. QED BY <1>1, <2>1, <2>2, SealedOf, KeptStays
<1>4. Ages(c, Closed(q)) BY <1>2, ClosedOf DEF Ages, Quiet, Silent
<1>5. Ages(c, Sealed(q)) BY <1>3, SealedOf DEF Ages, Quiet, Silent
<1>6. QED BY <1>2, <1>3, <1>4, <1>5, ClosedOf

LEMMA SameClients == ASSUME ServerInv, fenced \subseteq fenced', clients' = clients
                     PROVE  \A d \in Clients : Ages(d, clients'[d])
  BY SameRow

\* The lock stays where it is and what it rests on stays as it was.
LEMMA LockStays ==
  ASSUME LockInv, lock' = lock, \A c \in Clients : Ages(c, clients'[c]),
         resident'.open = resident.open, resident'.authorized = resident.authorized,
         resident'.client = resident.client, resident'.debt = resident.debt
  PROVE  LockInv'
  BY DEF LockInv, Ages, Alive

LEMMA LockFreed == ASSUME lock' = Free PROVE LockInv'
  BY FreeType DEF LockInv

-----------------------------------------------------------------------------
(* Operations *)

LEMMA OpEnds ==
  ASSUME ServerInv, Types, NEW o \in Ops, NEW s \in OpState, ops' = [ops EXCEPT ![o] = s],
         s = Idle \/ (s.client = ops[o].client /\ ops[o].step # "idle")
  PROVE  ops' \in [Ops -> OpState] /\ OpsEnd
<1>1. ops \in [Ops -> OpState] /\ \A p \in Ops : ops[p].step # "idle" => ops[p].client # None
  BY DEF Types, ServerInv, ResidentInv
<1>2. ops' \in [Ops -> OpState] BY <1>1
<1>3. ASSUME NEW p \in Ops
      PROVE  ops'[p].client \in {None, ops[p].client} /\ (ops'[p].step # "idle" => ops'[p].client # None)
  <2>1. CASE p = o BY <1>1, <2>1 DEF Idle
  <2>2. CASE p # o BY <1>1, <2>2
  <2>3. QED BY <2>1, <2>2
<1>4. QED BY <1>2, <1>3 DEF OpsEnd

LEMMA IdleType == Idle \in OpState
  BY DEF Idle, OpState

LEMMA StepType ==
  ASSUME NEW s \in OpState, NEW t \in {"writing", "written"}
  PROVE  [s EXCEPT !.step = t] \in OpState /\ [s EXCEPT !.step = t].client = s.client
  BY DEF OpState

\* What an operation under way is sent to: a client that was current, or is.
LEMMA OpClient ==
  ASSUME ServerInv, Types, NEW o \in Ops, ops[o].step # "idle"
  PROVE  /\ ops[o].client \in Clients /\ InFlight(ops[o].client)
         /\ resident.client # None => ops[o].client = resident.client
<1>1. ops[o].client \in Clients BY DEF ServerInv, ResidentInv, Types, OpState
<1>2. PICK c \in Clients : c = ops[o].client BY <1>1
<1>3. InFlight(c) BY <1>2 DEF InFlight
<1>4. RowInv(c) BY DEF ServerInv
<1>5. resident.client # None => c = resident.client BY <1>3, <1>4 DEF RowInv
<1>6. QED BY <1>2, <1>3, <1>5

\* An operation that ends or is written, and touches the row of its client at most.
LEMMA OpStep ==
  ASSUME AllInv, Ordinary, Types', UNCHANGED lock, resident'.open = resident.open,
         resident'.authorized = resident.authorized, resident'.client = resident.client,
         resident'.debt = resident.debt
  PROVE  AllInv'
<1>1. ServerInv' BY SameTypes, OrdinaryKeeps DEF AllInv
<1>2. LockInv' BY LockStays DEF AllInv, Ordinary
<1>3. TypeOK' BY SameTypes DEF TypeOK, Types, ResidentState, ClientState, OpState, FenceState, LockState, LockPcs,
    SupervisorState
<1>4. QED BY <1>1, <1>2, <1>3 DEF AllInv

\* The step of an operation that leaves the resident alone and writes its client's row.
LEMMA OpRowStep ==
  ASSUME AllInv, NEW c \in Clients, NEW r \in ClientState, Set(c, r), Ages(c, r),
         ops' \in [Ops -> OpState], OpsEnd,
         UNCHANGED <<resident, lock, supervisor, force, fenced, faults>>
  PROVE  AllInv'
<1> ServerInv /\ Types BY SameTypes DEF AllInv
<1>1. clients' \in [Clients -> ClientState] /\ \A d \in Clients : Ages(d, clients'[d]) BY OneRow
<1>2. Ordinary BY <1>1, SameResident DEF Ordinary
<1>3. Types' BY <1>1 DEF Types
<1>4. QED BY <1>2, <1>3, OpStep

\* A change of the response to the server request of a client with an operation.
LEMMA AskRow ==
  ASSUME ServerInv, Types, NEW c \in Clients, InFlight(c), fenced \subseteq fenced',
         NEW a \in {"none", "open", "claimed", "stuck"}, NEW l \in SUBSET {"turn", "request"},
         l \subseteq clients[c].lost, a = "none" => "request" \notin l
  PROVE  /\ [clients[c] EXCEPT !.ask = a, !.lost = l] \in ClientState
         /\ Ages(c, [clients[c] EXCEPT !.ask = a, !.lost = l])
<1>1. clients[c] \in ClientState /\ RowInv(c) BY DEF Types, ServerInv
<1>2. DEFINE r == [clients[c] EXCEPT !.ask = a, !.lost = l]
<1>3. /\ r \in ClientState /\ r.ask = a /\ r.lost = l /\ r.turn = clients[c].turn
      /\ r.unread = clients[c].unread /\ r.proc = clients[c].proc /\ r.gen = clients[c].gen
      /\ r.sealed = clients[c].sealed /\ r.closed = clients[c].closed /\ r.cut = clients[c].cut
      /\ r.suspect = clients[c].suspect /\ r.abandoned = clients[c].abandoned
  BY <1>1 DEF ClientState
<1> HIDE DEF r
<1>4. LostKept(r, fenced')
  <2>1. LostKept(clients[c], fenced) BY <1>1 DEF RowInv
  <2>2. "turn" \in r.lost /\ TurnLeft(clients[c]) => TurnLeft(r) BY <1>3 DEF TurnLeft
  <2>3. "request" \in r.lost /\ AskLeft(clients[c]) => AskLeft(r) BY <1>3 DEF AskLeft
  <2>4. QED BY <1>1, <1>3, <2>1, <2>2, <2>3, KeptStays
<1>5. Ages(c, r) BY <1>1, <1>3, <1>4 DEF Ages, RowInv, Alive
<1>6. QED BY <1>3, <1>5 DEF r

LEMMA SameAskRow ==
  ASSUME NEW q \in ClientState, NEW a
  PROVE  [q EXCEPT !.ask = a] = [q EXCEPT !.ask = a, !.lost = q.lost]
  BY DEF ClientState

LEMMA UnclaimedRow ==
  ASSUME ServerInv, Types, NEW o \in Ops, NEW c \in Clients, c = ops[o].client, InFlight(c),
         fenced \subseteq fenced'
  PROVE  /\ Unclaimed(o) \in ClientState /\ Ages(c, Unclaimed(o))
         /\ Unclaimed(o).sealed = clients[c].sealed
<1>1. clients[c] \in ClientState BY DEF Types
<1>2. PICK a \in {"none", "open", "claimed", "stuck"} :
        a = (IF ops[o].kind = "reply" THEN "stuck" ELSE clients[c].ask)
          /\ (a = "none" => clients[c].ask = "none")
  BY <1>1 DEF ClientState
<1>3. Unclaimed(o) = [clients[c] EXCEPT !.ask = a] BY <1>2 DEF Unclaimed
<1>4. CASE a # "none"
  <2>1. clients[c].lost \in SUBSET {"turn", "request"} BY <1>1 DEF ClientState
  <2>2. Unclaimed(o) = [clients[c] EXCEPT !.ask = a, !.lost = clients[c].lost]
    BY <1>1, <1>3, SameAskRow
  <2>3. a \in {"none", "open", "claimed", "stuck"} BY <1>2
  <2>4. /\ [clients[c] EXCEPT !.ask = a, !.lost = clients[c].lost] \in ClientState
        /\ Ages(c, [clients[c] EXCEPT !.ask = a, !.lost = clients[c].lost])
    BY <1>4, <2>1, <2>3, AskRow
  <2>5. Unclaimed(o).sealed = clients[c].sealed BY <1>1, <1>3 DEF ClientState
  <2>6. QED BY <2>2, <2>4, <2>5
<1>5. CASE a = "none"
  <2>1. [clients[c] EXCEPT !.ask = a] = clients[c] BY <1>1, <1>2, <1>5 DEF ClientState
  <2>2. QED BY <1>1, <1>3, <2>1, SameRow
<1>6. QED BY <1>4, <1>5

LEMMA WithdrawKeeps == ASSUME AllInv, NEW o \in Ops, Withdraw(o) PROVE AllInv'
<1> ServerInv /\ Types BY SameTypes DEF AllInv
<1>1. UNCHANGED <<resident, lock, supervisor, force, fenced, faults>>
      /\ ops[o].step = "admitted" /\ ops' = [ops EXCEPT ![o] = Idle]
  BY DEF Withdraw
<1>2. PICK c \in Clients : c = ops[o].client /\ InFlight(c) BY <1>1, OpClient
<1>3. ops' \in [Ops -> OpState] /\ OpsEnd BY <1>1, IdleType, OpEnds
<1>4. clients[c] \in ClientState BY DEF Types
<1>5. CASE Set(c, Unclaimed(o)) BY <1>1, <1>2, <1>3, <1>5, UnclaimedRow, OpRowStep
<1>6. CASE Set(c, [clients[c] EXCEPT !.ask = "open"])
  <2>1. /\ [clients[c] EXCEPT !.ask = "open"] \in ClientState
        /\ Ages(c, [clients[c] EXCEPT !.ask = "open"])
    <3>1. clients[c].lost \in SUBSET {"turn", "request"} BY <1>4 DEF ClientState
    <3>2. [clients[c] EXCEPT !.ask = "open"]
            = [clients[c] EXCEPT !.ask = "open", !.lost = clients[c].lost]
      BY <1>4, SameAskRow
    <3>3. fenced \subseteq fenced' BY <1>1
    <3>4. QED BY <1>2, <3>1, <3>2, <3>3, AskRow
  <2>2. QED BY <1>1, <1>3, <1>6, <2>1, OpRowStep
<1>7. QED BY <1>2, <1>5, <1>6 DEF Withdraw

\* A row with an operation that only goes on.
LEMMA WriteKeeps == ASSUME AllInv, NEW o \in Ops, BeginWrite(o) \/ EndWrite(o) PROVE AllInv'
<1> ServerInv /\ Types BY SameTypes DEF AllInv
<1>1. UNCHANGED <<resident, lock, supervisor, force, fenced, faults>>
      /\ ops[o].step # "idle" /\ ops[o] \in OpState
  BY DEF BeginWrite, EndWrite, Types
<1>2. PICK c \in Clients : c = ops[o].client /\ InFlight(c) BY <1>1, OpClient
<1>3. clients[c] \in ClientState BY DEF Types
<1>4. CASE /\ UNCHANGED clients
           /\ \E t \in {"writing", "written"} : ops' = [ops EXCEPT ![o] = [ops[o] EXCEPT !.step = t]]
  <2>1. ops' \in [Ops -> OpState] /\ OpsEnd BY <1>1, <1>4, StepType, OpEnds
  <2>2. Ordinary BY <1>1, <1>4, <2>1, SameClients, SameResident DEF Ordinary
  <2>3. Types' BY <1>1, <1>4, <2>1 DEF Types
  <2>4. QED BY <1>1, <2>2, <2>3, OpStep
<1>5. CASE /\ ops' = [ops EXCEPT ![o] = Idle]
           /\ Set(c, [clients[c] EXCEPT !.ask = "none", !.lost = @ \ {"request"}])
  <2>1. ops' \in [Ops -> OpState] /\ OpsEnd BY <1>1, <1>5, IdleType, OpEnds
  <2>2. PICK l \in SUBSET {"turn", "request"} : l = clients[c].lost \ {"request"}
    BY <1>3 DEF ClientState
  <2>3. /\ [clients[c] EXCEPT !.ask = "none", !.lost = l] \in ClientState
        /\ Ages(c, [clients[c] EXCEPT !.ask = "none", !.lost = l])
    BY <1>1, <1>2, <2>2, AskRow
  <2>4. Set(c, [clients[c] EXCEPT !.ask = "none", !.lost = l]) BY <1>5, <2>2
  <2>5. QED BY <1>1, <2>1, <2>3, <2>4, OpRowStep
<1>6. CASE BeginWrite(o) BY <1>4, <1>6 DEF BeginWrite
<1>7. CASE EndWrite(o) BY <1>2, <1>4, <1>5, <1>7 DEF EndWrite
<1>8. QED BY <1>6, <1>7

LEMMA MarkKeeps ==
  ASSUME ServerInv, Types, NEW c \in Clients, MarkAmbiguous(c), Ages(c, clients'[c]),
         clients'[c].suspect \/ clients'[c].closed,
         resident.client # None => c = resident.client
  PROVE  /\ ResidentAges /\ resident' \in ResidentState /\ supervisor' \in SupervisorState
         /\ resident'.open = resident.open /\ resident'.authorized = resident.authorized
         /\ resident'.client = resident.client /\ resident'.debt = resident.debt
<1>1. CASE UNCHANGED <<resident, supervisor>> BY <1>1, SameResident DEF Types
<1>2. CASE /\ c = resident.client /\ resident.accepting
           /\ resident' = [resident EXCEPT !.quarantined = TRUE, !.pending = TRUE]
           /\ Notify
  <2>1. resident \in ResidentState BY DEF Types
  <2>2. /\ resident' \in ResidentState /\ resident'.pending
        /\ resident'.client = resident.client /\ resident'.debt = resident.debt
        /\ resident'.open = resident.open /\ resident'.accepting = resident.accepting
        /\ resident'.authorized = resident.authorized /\ resident'.forced = resident.forced
        /\ resident'.generation = resident.generation
    BY <1>2, <2>1 DEF ResidentState
  <2>3. ResidentAges BY <1>2, <2>2 DEF ResidentAges, ServerInv, ResidentInv
  <2>4. QED BY <1>2, <2>2, <2>3, NotifyType
<1>3. QED BY <1>1, <1>2 DEF MarkAmbiguous

LEMMA AnswerKeeps ==
  ASSUME AllInv, NEW o \in Ops, NEW started \in BOOLEAN, Answer(o, started) PROVE AllInv'
<1> ServerInv /\ Types BY SameTypes DEF AllInv
<1>1. UNCHANGED <<resident, lock, supervisor, force, fenced, faults>>
      /\ ops[o].step = "written" /\ ops' = [ops EXCEPT ![o] = Idle]
  BY DEF Answer
<1>2. PICK c \in Clients : c = ops[o].client /\ InFlight(c) BY <1>1, OpClient
<1>3. ops' \in [Ops -> OpState] /\ OpsEnd BY <1>1, IdleType, OpEnds
<1>4. clients[c] \in ClientState /\ RowInv(c) BY DEF Types, ServerInv
<1>5. PICK t \in BOOLEAN : t = (clients[c].turn \/ started) OBVIOUS
<1>6. PICK l \in SUBSET {"turn", "request"} :
        l = clients[c].lost \cup {w \in {"turn"} : started /\ clients[c].proc = "exited"}
  BY <1>4 DEF ClientState
<1>7. DEFINE r == [clients[c] EXCEPT !.turn = t, !.lost = l]
<1>8. Set(c, r) /\ ~clients[c].sealed /\ clients[c].unread = "none" BY <1>2, <1>5, <1>6 DEF Answer
<1>9. /\ r \in ClientState /\ r.turn = t /\ r.lost = l /\ r.ask = clients[c].ask
      /\ r.unread = clients[c].unread /\ r.proc = clients[c].proc /\ r.gen = clients[c].gen
      /\ r.sealed = clients[c].sealed /\ r.closed = clients[c].closed /\ r.cut = clients[c].cut
      /\ r.suspect = clients[c].suspect /\ r.abandoned = clients[c].abandoned
  BY <1>4 DEF ClientState
<1> HIDE DEF r
<1>10. LostKept(r, fenced')
  <2>1. LostKept(clients[c], fenced) BY <1>4 DEF RowInv
  <2>2. /\ "turn" \in r.lost => "turn" \in clients[c].lost \/ started
        /\ "request" \in r.lost => "request" \in clients[c].lost
        /\ r.turn = (clients[c].turn \/ started)
    BY <1>5, <1>6, <1>9
  <2>3. QED BY <1>8, <1>9, <2>1, <2>2 DEF LostKept, TurnLeft, AskLeft
<1>11. clients[c].proc = "alive" => r.lost = {} BY <1>4, <1>6, <1>9 DEF RowInv, Alive
<1>12. Ages(c, r) BY <1>2, <1>4, <1>9, <1>10, <1>11 DEF Ages, RowInv
<1>13. QED BY <1>1, <1>3, <1>8, <1>9, <1>12, OpRowStep

LEMMA LoseAnswerKeeps ==
  ASSUME AllInv, NEW o \in Ops, NEW isolated \in BOOLEAN, LoseAnswer(o, isolated) PROVE AllInv'
<1> ServerInv /\ Types BY SameTypes DEF AllInv
<1>1. UNCHANGED <<lock, force, fenced>> /\ ops[o].step = "written"
      /\ ops' = [ops EXCEPT ![o] = Idle] /\ Fault
  BY DEF LoseAnswer
<1>2. PICK c \in Clients : c = ops[o].client BY <1>1, OpClient
<1>3. DEFINE r == [clients[c] EXCEPT !.abandoned = ~clients[c].closed,
                                     !.suspect = @ \/ ~isolated]
<1>4. Set(c, r) /\ (IF isolated THEN UNCHANGED <<resident, supervisor>> ELSE MarkAmbiguous(c))
  BY <1>2 DEF LoseAnswer
<1>5. ops' \in [Ops -> OpState] /\ OpsEnd BY <1>1, IdleType, OpEnds
<1>6. clients[c] \in ClientState /\ RowInv(c) BY DEF Types, ServerInv
<1>7. InFlight(c) /\ (resident.client # None => c = resident.client)
  BY <1>1, <1>2, OpClient
<1>8. r \in ClientState /\ Ages(c, r) /\ (~isolated => r.suspect)
  <2>1. PICK a \in BOOLEAN, s \in BOOLEAN : /\ a = (~clients[c].closed)
                                            /\ s = (clients[c].suspect \/ ~isolated)
    OBVIOUS
  <2>2. r = [clients[c] EXCEPT !.abandoned = a, !.suspect = s] BY <2>1
  <2>3. r \in ClientState /\ r.suspect = s /\ r.proc = clients[c].proc /\ r.gen = clients[c].gen
        /\ r.sealed = clients[c].sealed /\ r.closed = clients[c].closed
        /\ r.turn = clients[c].turn /\ r.ask = clients[c].ask /\ r.unread = clients[c].unread
        /\ r.cut = clients[c].cut /\ r.lost = clients[c].lost
    BY <1>6, <2>2 DEF ClientState
  <2> HIDE DEF r
  <2>4. LostKept(r, fenced') BY <1>1, <1>6, <2>3, LikeKept DEF RowInv
  <2>5. Ages(c, r) BY <1>1, <1>6, <1>7, <2>1, <2>3, <2>4 DEF Ages, RowInv, Alive, Quiet, Silent
  <2>6. QED BY <2>1, <2>3, <2>5
<1>9. /\ clients' \in [Clients -> ClientState] /\ clients'[c] = r
      /\ \A d \in Clients : Ages(d, clients'[d])
  <2> HIDE DEF r
  <2>1. QED BY <1>1, <1>4, <1>8, OneRow
<1>10. /\ ResidentAges /\ resident' \in ResidentState /\ supervisor' \in SupervisorState
       /\ resident'.open = resident.open /\ resident'.authorized = resident.authorized
       /\ resident'.client = resident.client /\ resident'.debt = resident.debt
  <2> HIDE DEF r
  <2>1. CASE isolated BY <1>4, <2>1, SameResident DEF Types
  <2>2. CASE ~isolated BY <1>4, <1>7, <1>8, <1>9, <2>2, MarkKeeps
  <2>3. QED BY <2>1, <2>2
<1>11. Ordinary BY <1>1, <1>5, <1>9, <1>10 DEF Ordinary
<1>12. Types' BY <1>1, <1>5, <1>9, <1>10, FaultType DEF Types
<1>13. QED BY <1>1, <1>10, <1>11, <1>12, OpStep

LEMMA FailClosedKeeps == ASSUME AllInv, NEW o \in Ops, FailClosed(o) PROVE AllInv'
<1> ServerInv /\ Types BY SameTypes DEF AllInv
<1>1. UNCHANGED <<clients, lock, force, fenced, faults>> /\ ops[o].step = "written"
      /\ ops' = [ops EXCEPT ![o] = Idle]
  BY DEF FailClosed
<1>2. PICK c \in Clients : c = ops[o].client BY <1>1, OpClient
<1>3. clients[c].closed /\ MarkAmbiguous(c) BY <1>2 DEF FailClosed
<1>4. ops' \in [Ops -> OpState] /\ OpsEnd BY <1>1, IdleType, OpEnds
<1>5. \A d \in Clients : Ages(d, clients'[d]) BY <1>1, SameClients
<1>6. resident.client # None => c = resident.client
  BY <1>1, <1>2, OpClient
<1>7. /\ ResidentAges /\ resident' \in ResidentState /\ supervisor' \in SupervisorState
      /\ resident'.open = resident.open /\ resident'.authorized = resident.authorized
      /\ resident'.client = resident.client /\ resident'.debt = resident.debt
  BY <1>1, <1>3, <1>5, <1>6, MarkKeeps
<1>8. Ordinary BY <1>1, <1>4, <1>5, <1>7 DEF Ordinary
<1>9. Types' BY <1>1, <1>4, <1>7 DEF Types
<1>10. QED BY <1>1, <1>7, <1>8, <1>9, OpStep

LEMMA AbortWriteKeeps == ASSUME AllInv, NEW o \in Ops, AbortWrite(o) PROVE AllInv'
<1> ServerInv /\ Types BY SameTypes DEF AllInv
<1>1. UNCHANGED <<lock, force, fenced>> /\ ops[o].step = "writing"
      /\ ops' = [ops EXCEPT ![o] = Idle] /\ faults' \in 0..MaxFaults
  BY FaultType DEF AbortWrite, Types
<1>2. PICK c \in Clients : c = ops[o].client /\ InFlight(c) BY <1>1, OpClient
<1>3. Set(c, Closed(Unclaimed(o))) /\ MarkAmbiguous(c) BY <1>2 DEF AbortWrite
<1>4. ops' \in [Ops -> OpState] /\ OpsEnd BY <1>1, IdleType, OpEnds
<1>5. resident.client # None => c = resident.client BY <1>1, <1>2, OpClient
<1>6. PICK q \in ClientState : q = Unclaimed(o) /\ Ages(c, q) /\ q.sealed = clients[c].sealed
  BY <1>1, <1>2, UnclaimedRow
<1>7. Closed(q) \in ClientState /\ Ages(c, Closed(q)) /\ Closed(q).closed
  BY <1>1, <1>2, <1>6, ClosedAges
<1>8. /\ clients' \in [Clients -> ClientState] /\ clients'[c] = Closed(q)
      /\ \A d \in Clients : Ages(d, clients'[d])
  BY <1>1, <1>3, <1>6, <1>7, OneRow
<1>9. /\ ResidentAges /\ resident' \in ResidentState /\ supervisor' \in SupervisorState
      /\ resident'.open = resident.open /\ resident'.authorized = resident.authorized
      /\ resident'.client = resident.client /\ resident'.debt = resident.debt
  BY <1>3, <1>5, <1>7, <1>8, MarkKeeps
<1>10. Ordinary BY <1>1, <1>4, <1>8, <1>9 DEF Ordinary
<1>11. Types' BY <1>1, <1>4, <1>8, <1>9 DEF Types
<1>12. QED BY <1>1, <1>9, <1>10, <1>11, OpStep

\* An operation is admitted to the current client only while that is not sealed.
LEMMA AdmitKeeps ==
  ASSUME AllInv, NEW o \in Ops, NEW kind \in {"request", "reply"}, Admit(o, kind) PROVE AllInv'
<1> ServerInv /\ Types BY SameTypes DEF AllInv
<1>1. UNCHANGED <<resident, lock, supervisor, force, fenced, faults>> BY DEF Admit
<1>2. PICK c \in Clients : c = resident.client /\ ~clients[c].sealed
  BY DEF Admit, CanAdmit, Types, ResidentState
<1>0. /\ clients' \in [Clients -> ClientState] /\ \A d \in Clients : d # c => clients'[d] = clients[d]
      /\ clients'[c].proc = clients[c].proc /\ clients'[c].gen = clients[c].gen
      /\ clients'[c].sealed = clients[c].sealed /\ clients'[c].closed = clients[c].closed
      /\ clients'[c].suspect = clients[c].suspect /\ clients'[c].abandoned = clients[c].abandoned
      /\ clients'[c].cut = clients[c].cut /\ clients'[c].lost = clients[c].lost
      /\ LostKept(clients'[c], fenced')
  <2>1. clients \in [Clients -> ClientState] /\ clients[c] \in ClientState
        /\ LostKept(clients[c], fenced)
    BY DEF Types, ServerInv, RowInv
  <2>2. CASE UNCHANGED clients BY <1>1, <2>1, <2>2
  <2>3. CASE clients[c].ask = "open" /\ Set(c, [clients[c] EXCEPT !.ask = "claimed"])
    <3>1. DEFINE r == [clients[c] EXCEPT !.ask = "claimed"]
    <3>2. /\ r \in ClientState /\ r.ask = "claimed" /\ r.proc = clients[c].proc
          /\ r.gen = clients[c].gen /\ r.sealed = clients[c].sealed /\ r.closed = clients[c].closed
          /\ r.suspect = clients[c].suspect /\ r.abandoned = clients[c].abandoned
          /\ r.cut = clients[c].cut /\ r.lost = clients[c].lost /\ r.turn = clients[c].turn
          /\ r.unread = clients[c].unread
      BY <2>1 DEF ClientState
    <3>3. Set(c, r) BY <2>3
    <3> HIDE DEF r
    <3>4. LostKept(r, fenced') BY <1>1, <2>1, <3>2, KeptStays DEF TurnLeft, AskLeft
    <3>5. clients' = [clients EXCEPT ![c] = r] BY <3>3 DEF Set
    <3>6. QED BY <2>1, <3>2, <3>4, <3>5
  <2>4. QED BY <1>2, <2>2, <2>3 DEF Admit
<1>3. DEFINE s == [step |-> "admitted", client |-> c, kind |-> kind]
<1>4. s \in OpState /\ s.client = c /\ ops' = [ops EXCEPT ![o] = s] BY <1>2 DEF Admit, OpState
<1>5. ops' \in [Ops -> OpState] /\ ops'[o] = s /\ \A p \in Ops : p # o => ops'[p] = ops[p]
  BY <1>4 DEF Types
<1> HIDE DEF s
<1>6. ResidentInv'
  BY <1>1, <1>4, <1>5, Numbers DEF ServerInv, ResidentInv
<1>7. ASSUME NEW d \in Clients PROVE InFlight(d)' => InFlight(d) \/ d = c
  BY <1>4, <1>5 DEF InFlight
<1>8. ASSUME NEW d \in Clients
      PROVE  RowInv(d)' /\ CurrentInv(d)' /\ DebtInv(d)' /\ GoneInv(d)'
  <2>1. RowInv(d) /\ CurrentInv(d) /\ DebtInv(d) /\ GoneInv(d) BY DEF ServerInv
  <2>0. \A e \in Clients : Born(e)' <=> Born(e) BY <1>0 DEF Born
  <2>2. RowInv(d)'
    <3>1. CASE d = c BY <1>0, <1>1, <1>2, <2>0, <2>1, <3>1 DEF RowInv, Born, Alive
    <3>2. CASE d # c BY <1>0, <1>1, <1>2, <1>7, <2>0, <2>1, <3>2 DEF RowInv, Alive
    <3>3. QED BY <3>1, <3>2
  <2>3. CurrentInv(d)' BY <1>0, <1>1, <1>2, <1>7, <2>1 DEF CurrentInv, Alive
  <2>4. DebtInv(d)' BY <1>0, <1>1, <1>2, <1>7, <2>1 DEF DebtInv
  <2>5. GoneInv(d)' BY <1>0, <1>1, <2>0, <2>1 DEF GoneInv, Alive
  <2>6. QED BY <2>2, <2>3, <2>4, <2>5
<1>9. LockInv' BY <1>0, <1>1 DEF AllInv, LockInv, Alive
<1>10. TypeOK'
  <2>1. Types' BY <1>0, <1>1, <1>5 DEF Types
  <2>2. QED BY <2>1 DEF TypeOK, Types, ResidentState, ClientState, OpState, FenceState, LockState,
    LockPcs, SupervisorState
<1>11. QED BY <1>6, <1>8, <1>9, <1>10 DEF AllInv, ServerInv

LEMMA OperateKeeps == ASSUME AllInv, Operate PROVE AllInv'
  BY WithdrawKeeps, WriteKeeps, AbortWriteKeeps, AnswerKeeps, LoseAnswerKeeps, FailClosedKeeps, AdmitKeeps DEF Operate

-----------------------------------------------------------------------------
(* The process and its reader *)

\* A step that rewrites one row; the resident stays, or is told of a closure.
LEMMA RowStep ==
  ASSUME AllInv, NEW c \in Clients, NEW r \in ClientState, Set(c, r), Ages(c, r),
         ResidentAges, resident' \in ResidentState, supervisor' \in SupervisorState,
         resident'.open = resident.open, resident'.authorized = resident.authorized,
         resident'.client = resident.client, resident'.debt = resident.debt,
         UNCHANGED <<ops, lock, force, fenced>>, faults' \in 0..MaxFaults
  PROVE  AllInv'
<1> ServerInv /\ Types BY SameTypes DEF AllInv
<1>1. clients' \in [Clients -> ClientState] /\ \A d \in Clients : Ages(d, clients'[d]) BY OneRow
<1>2. Ordinary BY <1>1, SameOps DEF Ordinary
<1>3. Types' BY <1>1 DEF Types
<1>4. QED BY <1>2, <1>3, OpStep

LEMMA SaysKeeps ==
  ASSUME AllInv, NEW c \in Clients, TurnStarts(c) \/ TurnStops(c) \/ ServerAsks(c) PROVE AllInv'
<1> ServerInv /\ Types BY SameTypes DEF AllInv
<1>1. PICK m \in {"started", "ended", "asked"} :
        Says(c, m) /\ (clients[c].abandoned \/ clients[c].turn)
  BY DEF TurnStarts, TurnStops, ServerAsks
<1>2. /\ UNCHANGED <<resident, ops, lock, supervisor, force, fenced, faults>>
      /\ clients[c] \in ClientState /\ RowInv(c) /\ Alive(c)
  BY <1>1 DEF Says, ServerInv, Types, Alive
<1>3. PICK a \in BOOLEAN : a = (clients[c].abandoned /\ m # "started") OBVIOUS
<1>4. DEFINE r == [clients[c] EXCEPT !.unread = m, !.abandoned = a]
<1>5. Set(c, r) BY <1>1, <1>3 DEF Says
<1>6. /\ r \in ClientState /\ r.turn = clients[c].turn /\ r.ask = clients[c].ask
      /\ r.unread = m /\ r.abandoned = a /\ r.proc = clients[c].proc /\ r.gen = clients[c].gen
      /\ r.sealed = clients[c].sealed /\ r.closed = clients[c].closed /\ r.cut = clients[c].cut
      /\ r.suspect = clients[c].suspect /\ r.lost = clients[c].lost
  BY <1>2 DEF ClientState
<1> HIDE DEF r
<1>7. LostKept(r, fenced') BY <1>2, <1>6 DEF LostKept, RowInv
<1>8. Ages(c, r) BY <1>1, <1>2, <1>3, <1>6, <1>7 DEF Ages, RowInv, Alive, Quiet, Silent
<1>9. QED BY <1>2, <1>5, <1>6, <1>8, SameResident, RowStep DEF Types

LEMMA ReadKeeps == ASSUME AllInv, NEW c \in Clients, Read(c) PROVE AllInv'
<1> ServerInv /\ Types BY SameTypes DEF AllInv
<1>1. /\ UNCHANGED <<resident, ops, lock, supervisor, force, fenced, faults>>
      /\ clients[c] \in ClientState /\ RowInv(c) /\ GoneInv(c) /\ DebtInv(c)
      /\ clients[c].unread # "none"
  BY DEF Read, ServerInv, Types
<1>2. CASE clients[c].sealed
  <2>1. DEFINE r == [clients[c] EXCEPT !.unread = "none"]
  <2>2. Set(c, r) BY <1>2 DEF Read
  <2>3. /\ r \in ClientState /\ r.turn = clients[c].turn /\ r.ask = clients[c].ask
        /\ r.unread = "none" /\ r.abandoned = clients[c].abandoned /\ r.proc = clients[c].proc
        /\ r.gen = clients[c].gen /\ r.suspect = clients[c].suspect /\ r.lost = clients[c].lost
        /\ r.sealed = clients[c].sealed /\ r.closed = clients[c].closed /\ r.cut = clients[c].cut
    BY <1>1 DEF ClientState
  <2> HIDE DEF r
  <2>4. LostKept(r, fenced') BY <1>1, <1>2, <2>3 DEF LostKept, RowInv, TurnLeft, AskLeft
  <2>5. Ages(c, r) BY <1>1, <2>3, <2>4 DEF Ages, RowInv, Alive, Quiet, Silent
  <2>6. QED BY <1>1, <2>2, <2>3, <2>5, SameResident, RowStep DEF Types
<1>3. CASE ~clients[c].sealed
  <2>1. PICK r \in ClientState : r = Recorded(clients[c]) BY <1>1, RecordedOf
  <2>2. Set(c, r) BY <1>3, <2>1 DEF Read
  <2>3. /\ r.turn = ((clients[c].turn \/ clients[c].unread = "started") /\ clients[c].unread # "ended")
        /\ r.ask = (IF clients[c].unread = "asked" THEN "open" ELSE clients[c].ask)
        /\ r.unread = "none" /\ r.abandoned = clients[c].abandoned /\ r.proc = clients[c].proc
        /\ r.gen = clients[c].gen /\ r.suspect = clients[c].suspect /\ r.lost = clients[c].lost
        /\ r.sealed = clients[c].sealed /\ r.closed = clients[c].closed /\ r.cut = clients[c].cut
    BY <1>1, <2>1, RecordedOf
  <2>4. LostKept(r, fenced')
    <3>1. TurnLeft(r) <=> TurnLeft(clients[c]) BY <1>3, <2>3 DEF TurnLeft
    <3>2. AskLeft(clients[c]) => AskLeft(r) BY <1>3, <2>3 DEF AskLeft
    <3>3. QED BY <1>1, <2>3, <3>1, <3>2, KeptStays DEF RowInv
  <2>5. c = resident.client
    BY <1>1, <1>3 DEF GoneInv, DebtInv, Silent, RowInv, Born
  <2>6. Ages(c, r) BY <1>1, <1>3, <2>3, <2>4, <2>5 DEF Ages, RowInv, Alive
  <2>7. QED BY <1>1, <2>2, <2>6, SameResident, RowStep DEF Types
<1>4. QED BY <1>2, <1>3

LEMMA ProcessKeeps == ASSUME AllInv, NEW c \in Clients, ProcessDies(c) PROVE AllInv'
<1> ServerInv /\ Types BY SameTypes DEF AllInv
<1>1. /\ UNCHANGED <<resident, ops, lock, supervisor, force, fenced>> /\ faults' \in 0..MaxFaults
      /\ clients[c].proc = "alive" /\ RowInv(c) /\ clients[c] \in ClientState
  BY FaultType DEF ProcessDies, ServerInv, Types
<1>2. PICK q \in ClientState : q = (IF clients[c].sealed THEN clients[c] ELSE Recorded(clients[c]))
  BY <1>1, RecordedOf
<1>3. PICK l \in SUBSET {"turn", "request"} : l = Known(q) BY <1>2, KnownOf
<1>4. DEFINE r == [clients[c] EXCEPT !.proc = "exited", !.lost = l]
<1>5. Set(c, r) BY <1>2, <1>3 DEF ProcessDies
<1>6. /\ r \in ClientState /\ r.turn = clients[c].turn /\ r.ask = clients[c].ask
      /\ r.unread = clients[c].unread /\ r.abandoned = clients[c].abandoned /\ r.proc = "exited"
      /\ r.gen = clients[c].gen /\ r.suspect = clients[c].suspect /\ r.lost = l
      /\ r.sealed = clients[c].sealed /\ r.closed = clients[c].closed /\ r.cut = clients[c].cut
  BY <1>1 DEF ClientState
<1> HIDE DEF r
<1>7. LostKept(r, fenced')
  <2>1. "turn" \in l => q.turn BY <1>2, <1>3, KnownOf
  <2>2. "request" \in l => q.ask # "none" BY <1>2, <1>3, KnownOf
  <2>3. q.turn => TurnLeft(r)
    <3>1. CASE clients[c].sealed BY <1>2, <1>6, <3>1 DEF TurnLeft
    <3>2. CASE ~clients[c].sealed
      <4>1. q.turn = ((clients[c].turn \/ clients[c].unread = "started") /\ clients[c].unread # "ended")
        BY <1>1, <1>2, <3>2, RecordedOf
      <4>2. QED BY <1>6, <3>2, <4>1 DEF TurnLeft
    <3>3. QED BY <3>1, <3>2
  <2>4. q.ask # "none" => AskLeft(r) BY <1>1, <1>2, <1>6, RecordedOf DEF AskLeft
  <2>5. QED BY <1>6, <2>1, <2>2, <2>3, <2>4 DEF LostKept
<1>8. Ages(c, r) BY <1>1, <1>6, <1>7 DEF Ages, RowInv, Quiet, Silent
<1>9. QED BY <1>1, <1>5, <1>6, <1>8, SameResident, RowStep DEF Types

\* The row of a process whose output is at its end, or cut off.
LEMMA UnreadRow ==
  ASSUME NEW c \in Clients, NEW q \in ClientState, Ages(c, q), q.sealed
  PROVE  /\ [q EXCEPT !.unread = "none"] \in ClientState /\ Ages(c, [q EXCEPT !.unread = "none"])
<1>1. DEFINE r == [q EXCEPT !.unread = "none"]
<1>2. /\ r \in ClientState /\ r.turn = q.turn /\ r.ask = q.ask
      /\ r.unread = "none" /\ r.abandoned = q.abandoned /\ r.proc = q.proc
      /\ r.gen = q.gen /\ r.suspect = q.suspect /\ r.lost = q.lost
      /\ r.sealed = q.sealed /\ r.closed = q.closed /\ r.cut = q.cut
  BY DEF ClientState
<1> HIDE DEF r
<1>3. LostKept(r, fenced') BY <1>2 DEF Ages, LostKept, TurnLeft, AskLeft
<1>4. Ages(c, r) BY <1>2, <1>3 DEF Ages, Quiet, Silent
<1>5. QED BY <1>2, <1>4 DEF r

LEMMA UnreapedRow ==
  ASSUME AllInv, NEW c \in Clients, fenced \subseteq fenced'
  PROVE  /\ Unreaped(c) \in ClientState /\ Ages(c, Unreaped(c)) /\ Unreaped(c).sealed
         /\ Unreaped(c).gen = clients[c].gen
<1>1. clients[c] \in ClientState /\ Ages(c, clients[c]) BY SameTypes, SameRow DEF AllInv, Types
<1>2. PICK q \in ClientState : q = Closed(clients[c]) /\ Ages(c, q) /\ q.sealed BY <1>1, ClosedAges, ClosedOf
<1>3. Unreaped(c) = [q EXCEPT !.unread = "none"] BY <1>2 DEF Unreaped
<1>4. Unreaped(c).sealed BY <1>2, <1>3 DEF ClientState
<1>5. Unreaped(c) \in ClientState /\ Ages(c, Unreaped(c)) BY <1>2, <1>3, UnreadRow
<1>6. QED BY <1>4, <1>5 DEF Ages

LEMMA ReaderKeeps == ASSUME AllInv, NEW c \in Clients, ReaderCloses(c) PROVE AllInv'
<1> ServerInv /\ Types BY SameTypes DEF AllInv
<1>1. /\ UNCHANGED <<resident, ops, lock, supervisor, force, fenced>> /\ faults' \in 0..MaxFaults
      /\ Set(c, Unreaped(c))
  BY FaultType DEF ReaderCloses, Unreaped, Types
<1>2. Unreaped(c) \in ClientState /\ Ages(c, Unreaped(c)) BY <1>1, UnreapedRow
<1>3. QED BY <1>1, <1>2, SameResident, RowStep DEF Types

LEMMA MonitorKeeps ==
  ASSUME AllInv, NEW c \in Clients, MonitorReports(c) \/ MonitorStops(c) PROVE AllInv'
<1> ServerInv /\ Types BY SameTypes DEF AllInv
<1>1. /\ UNCHANGED <<ops, lock, force, fenced, faults>> /\ faults' \in 0..MaxFaults
      /\ RowInv(c) /\ clients[c] \in ClientState
  BY DEF MonitorReports, MonitorStops, ServerInv, Types
<1>2. DEFINE r == [clients[c] EXCEPT !.monitor = FALSE]
<1>3. r \in ClientState /\ Ages(c, r) /\ r.closed = clients[c].closed
  <2>1. /\ r \in ClientState /\ r.turn = clients[c].turn /\ r.ask = clients[c].ask
        /\ r.unread = clients[c].unread /\ r.abandoned = clients[c].abandoned
        /\ r.proc = clients[c].proc /\ r.gen = clients[c].gen /\ r.suspect = clients[c].suspect
        /\ r.lost = clients[c].lost /\ r.sealed = clients[c].sealed
        /\ r.closed = clients[c].closed /\ r.cut = clients[c].cut
    BY <1>1 DEF ClientState
  <2> HIDE DEF r
  <2>2. LostKept(r, fenced') BY <1>1, <2>1, LikeKept DEF RowInv
  <2>3. QED BY <1>1, <2>1, <2>2 DEF Ages, RowInv, Alive, Quiet, Silent
<1>4. Set(c, r) BY DEF MonitorReports, MonitorStops
<1> HIDE DEF r
<1>5. CASE UNCHANGED <<resident, supervisor>>
  BY <1>1, <1>3, <1>4, <1>5, SameResident, RowStep DEF Types
<1>6. CASE /\ CurrentIs(c) /\ clients[c].closed /\ Notify
           /\ resident' = [resident EXCEPT !.accepting = FALSE, !.pending = TRUE]
  <2>1. resident \in ResidentState BY DEF Types
  <2>2. /\ resident' \in ResidentState /\ resident'.pending /\ ~resident'.accepting
        /\ resident'.client = resident.client /\ resident'.debt = resident.debt
        /\ resident'.open = resident.open /\ resident'.generation = resident.generation
        /\ resident'.authorized = resident.authorized /\ resident'.forced = resident.forced
    BY <1>6, <2>1 DEF ResidentState
  <2>3. clients'[c].closed BY <1>1, <1>3, <1>4, <1>6, OneRow
  <2>4. ResidentAges BY <1>6, <2>2, <2>3 DEF ResidentAges, CurrentIs
  <2>5. QED BY <1>1, <1>3, <1>4, <1>6, <2>2, <2>4, NotifyType, RowStep
<1>7. QED BY <1>5, <1>6 DEF MonitorReports, MonitorStops

LEMMA LiveKeeps == ASSUME AllInv, Live PROVE AllInv'
  BY SaysKeeps, ReadKeeps, ProcessKeeps, ReaderKeeps, MonitorKeeps DEF Live

-----------------------------------------------------------------------------
(* The replacement *)

LEMMA LockedStep ==
  ASSUME AllInv, Ordinary, Types', LockInv' PROVE AllInv'
<1>1. ServerInv' BY SameTypes, OrdinaryKeeps DEF AllInv
<1>2. TypeOK' BY DEF TypeOK, Types, ResidentState, ClientState, OpState, FenceState, LockState, LockPcs,
    SupervisorState
<1>3. QED BY <1>1, <1>2 DEF AllInv

\* Under the lock the current client and the debt are processes.
LEMMA CurrentBorn ==
  ASSUME AllInv
  PROVE  /\ resident.open => resident.client \in Clients
         /\ resident.debt # None => resident.debt \in Clients
         /\ \A c \in Clients : c \in {resident.client, resident.debt} => Born(c)
  BY SameTypes DEF AllInv, ServerInv, RowInv, ResidentInv, Types, ResidentState

\* The close of a process that nobody uses, or of the client of a closed resident.
LEMMA ReapedRow ==
  ASSUME AllInv, NEW c \in Clients, Born(c), fenced \subseteq fenced',
         resident.open => Quiet(clients[c]) /\ ~InFlight(c)
  PROVE  /\ Reaped(c) \in ClientState /\ Ages(c, Reaped(c))
         /\ Reaped(c).sealed /\ Reaped(c).proc = "exited"
<1>1. clients[c] \in ClientState BY SameTypes DEF AllInv, Types
<1>2. (clients[c].proc = "alive" /\ resident.open
        /\ (Known(clients[c]) # {} \/ InFlight(c))) = FALSE
  BY <1>1, KnownOf
<1>3. PICK q \in ClientState : q = Unreaped(c) /\ Ages(c, q) /\ q.sealed BY UnreapedRow
<1>4. Reaped(c) = [q EXCEPT !.proc = "exited", !.handle = FALSE, !.cut = FALSE]
  BY <1>2, <1>3 DEF Reaped
<1>5. /\ Reaped(c) \in ClientState /\ Reaped(c).proc = "exited" /\ ~Reaped(c).cut
      /\ Reaped(c).sealed = q.sealed /\ Reaped(c).closed = q.closed
      /\ Reaped(c).abandoned = q.abandoned /\ Reaped(c).gen = q.gen
      /\ Reaped(c).suspect = q.suspect /\ Reaped(c).turn = q.turn /\ Reaped(c).ask = q.ask
      /\ Reaped(c).unread = q.unread /\ Reaped(c).lost = q.lost
  BY <1>4 DEF ClientState
<1>6. LostKept(Reaped(c), fenced') BY <1>3, <1>5, LikeKept DEF Ages
<1>7. Ages(c, Reaped(c)) BY <1>3, <1>5, <1>6 DEF Ages, Born, Quiet, Silent
<1>8. QED BY <1>3, <1>5, <1>7

LEMMA DebtRow ==
  ASSUME AllInv, NEW c \in Clients, c = resident.debt, fenced \subseteq fenced'
  PROVE  /\ Reaped(c) \in ClientState /\ Ages(c, Reaped(c))
         /\ Reaped(c).sealed /\ Reaped(c).proc = "exited"
  BY CurrentBorn, ReapedRow DEF AllInv, ServerInv, DebtInv, Silent

\* The debt is closed and forgotten.
LEMMA ForgetDebt ==
  ASSUME AllInv, NEW c \in Clients, c = resident.debt, clients'[c] = Reaped(c),
         fenced \subseteq fenced',
         resident' = [resident EXCEPT !.debt = None]
  PROVE  /\ ResidentAges /\ resident' \in ResidentState /\ resident'.open = resident.open
         /\ resident'.authorized = resident.authorized /\ resident'.client = resident.client
         /\ resident'.debt = None
<1>1. resident \in ResidentState BY SameTypes DEF AllInv, Types
<1>2. /\ resident' \in ResidentState /\ resident'.debt = None
      /\ resident'.pending = resident.pending /\ resident'.accepting = resident.accepting
      /\ resident'.client = resident.client
      /\ resident'.open = resident.open /\ resident'.generation = resident.generation
      /\ resident'.authorized = resident.authorized /\ resident'.forced = resident.forced
  BY <1>1 DEF ResidentState
<1>3. Reaped(c).sealed /\ Reaped(c).proc = "exited" BY DebtRow
<1>4. ResidentAges BY <1>2, <1>3 DEF ResidentAges, AllInv, ServerInv, ResidentInv
<1>5. QED BY <1>2, <1>4

LEMMA CleanDebtKeeps == ASSUME AllInv, CleanDebt PROVE AllInv'
<1> ServerInv /\ Types BY SameTypes DEF AllInv
<1>1. At("debt") /\ UNCHANGED <<ops, supervisor, force, fenced, faults>> /\ GoTo("fence")
  BY DEF CleanDebt
<1>2. resident.open /\ resident.debt # None BY <1>1 DEF AllInv, LockInv, At
<1>3. PICK c \in Clients : c = resident.debt BY <1>2, CurrentBorn
<1>4. Set(c, Reaped(c)) /\ resident' = [resident EXCEPT !.debt = None] BY <1>3 DEF CleanDebt
<1>5. /\ clients' \in [Clients -> ClientState] /\ \A d \in Clients : Ages(d, clients'[d])
      /\ clients'[c] = Reaped(c)
  BY <1>1, <1>3, <1>4, DebtRow, OneRow
<1>6. /\ ResidentAges /\ resident' \in ResidentState /\ resident'.open = resident.open
  BY <1>1, <1>3, <1>4, <1>5, ForgetDebt
<1>7. lock' \in LockState /\ lock'.pc = "fence" BY <1>1, GoToType DEF LockPcs
<1>8. LockInv' BY <1>2, <1>6, <1>7 DEF LockInv
<1>9. Ordinary BY <1>1, <1>5, <1>6, SameOps DEF Ordinary
<1>10. Types' BY <1>1, <1>5, <1>6, <1>7 DEF Types
<1>11. QED BY <1>8, <1>9, <1>10, LockedStep

\* What the current client is like when it is killed.
LEMMA ClientRow ==
  ASSUME AllInv, NEW c \in Clients, c = resident.client, resident.authorized \/ ~resident.open,
         fenced \subseteq fenced'
  PROVE  /\ Reaped(c) \in ClientState /\ Ages(c, Reaped(c))
         /\ Reaped(c).sealed /\ Reaped(c).proc = "exited"
  BY CurrentBorn, ReapedRow DEF AllInv, ServerInv, CurrentInv

\* An attempt that gives the lock back.
LEMMA ReturnStep ==
  ASSUME AllInv, Return, \A d \in Clients : Ages(d, clients'[d]),
         clients' \in [Clients -> ClientState], ResidentAges, resident' \in ResidentState,
         ops' = ops, fenced' = fenced, faults' \in 0..MaxFaults
  PROVE  AllInv'
<1> ServerInv /\ Types BY SameTypes DEF AllInv
<1>1. Ordinary BY SameOps DEF Ordinary
<1>2. Types' BY ReturnType DEF Types, ControlTypes
<1>3. QED BY <1>1, <1>2, ReturnType, LockFreed, LockedStep

LEMMA CleanupFailsKeeps == ASSUME AllInv, CleanupFails PROVE AllInv'
<1> ServerInv /\ Types BY SameTypes DEF AllInv
<1>1. Return /\ UNCHANGED <<resident, ops, fenced>> /\ faults' \in 0..MaxFaults
  BY FaultType DEF CleanupFails
<1>2. PICK c \in Clients : /\ c = resident.debt \/ (c = resident.client /\ resident.authorized)
                           /\ Set(c, Unreaped(c)) \/ Set(c, Reaped(c))
  BY CurrentBorn DEF CleanupFails, AllInv, LockInv, At
<1>3. clients' \in [Clients -> ClientState] /\ \A d \in Clients : Ages(d, clients'[d])
  BY <1>1, <1>2, DebtRow, ClientRow, UnreapedRow, OneRow
<1>4. QED BY <1>1, <1>3, SameResident, ReturnStep DEF Types

LEMMA DeferralsKeep == ASSUME AllInv, DeferFence \/ Busy \/ SpawnFails PROVE AllInv'
<1> ServerInv /\ Types BY SameTypes DEF AllInv
<1>1. Return /\ UNCHANGED <<resident, clients, ops, fenced>> /\ faults' \in 0..MaxFaults
  BY FaultType DEF DeferFence, Busy, SpawnFails, Types
<1>2. QED BY <1>1, SameClients, SameResident, ReturnStep DEF Types

\* The fence and the seal write the row of the current client.
LEMMA FenceKeeps == ASSUME AllInv, PassFence \/ PersistFence \/ PersistFails PROVE AllInv'
<1> ServerInv /\ Types BY SameTypes DEF AllInv
<1>1. At("fence") /\ resident.open /\ UNCHANGED ops
  BY DEF PassFence, PersistFence, PersistFails, AllInv, LockInv, At
<1>2. PICK c \in Clients : c = resident.client BY <1>1, CurrentBorn
<1>3. clients[c] \in ClientState /\ RowInv(c) /\ CurrentInv(c) /\ resident \in ResidentState
  BY DEF Types, ServerInv
<1>4. ASSUME resident' = [resident EXCEPT !.accepting = FALSE]
      PROVE  ResidentAges /\ resident' \in ResidentState /\ resident'.open = resident.open
  <2>1. /\ resident' \in ResidentState /\ ~resident'.accepting
        /\ resident'.pending = resident.pending /\ resident'.debt = resident.debt
        /\ resident'.client = resident.client
        /\ resident'.open = resident.open /\ resident'.generation = resident.generation
        /\ resident'.authorized = resident.authorized /\ resident'.forced = resident.forced
    BY <1>3, <1>4 DEF ResidentState
  <2>2. ResidentAges BY <2>1 DEF ResidentAges, ServerInv, ResidentInv
  <2>3. QED BY <2>1, <2>2
<1>5. CASE PassFence
  <2>1. UNCHANGED <<resident, clients, ops, supervisor, force, fenced, faults>>
        /\ lock' \in LockState /\ lock'.pc = "candidate"
    BY <1>5, GoToType DEF PassFence, LockPcs
  <2>2. LockInv' BY <1>1, <2>1 DEF LockInv
  <2>3. Ordinary BY <2>1, SameClients, SameOps, SameResident DEF Ordinary
  <2>4. Types' BY <2>1 DEF Types
  <2>5. QED BY <2>2, <2>3, <2>4, LockedStep
<1>6. CASE PersistFence
  <2>1. DEFINE r == [clients[c] EXCEPT !.sealed = TRUE, !.turn = FALSE, !.ask = "none"]
  <2>2. /\ Set(c, r) /\ resident' = [resident EXCEPT !.accepting = FALSE]
        /\ fenced' = fenced \cup {[gen |-> resident.generation, work |-> Known(clients[c])]}
        /\ GoTo("candidate") /\ UNCHANGED <<ops, supervisor, force, faults>>
        /\ clients[c].proc = "exited" /\ clients[c].closed
    BY <1>2, <1>6 DEF PersistFence, FenceReady
  <2>3. /\ r \in ClientState /\ r.gen = clients[c].gen /\ r.proc = clients[c].proc /\ r.sealed
        /\ ~r.turn /\ r.ask = "none" /\ r.unread = clients[c].unread
        /\ r.closed = clients[c].closed /\ r.suspect = clients[c].suspect
        /\ r.abandoned = clients[c].abandoned /\ r.cut = clients[c].cut /\ r.lost = clients[c].lost
    BY <1>3 DEF ClientState
  <2>0. fenced' \subseteq FenceState
    <3>1. Known(clients[c]) \in SUBSET {"turn", "request"} BY <1>3, KnownOf
    <3>2. [gen |-> resident.generation, work |-> Known(clients[c])] \in FenceState
      BY <1>3, <3>1 DEF FenceState, ResidentState
    <3>3. QED BY <2>2, <3>2 DEF Types
  <2>4. Ages(c, r)
    <3> HIDE DEF r
    <3>1. LostKept(r, fenced')
      <4>1. LostKept(clients[c], fenced) /\ clients[c].sealed BY <1>3, <2>2 DEF RowInv
      <4>2. CASE \E f \in fenced : f.gen = clients[c].gen /\ clients[c].lost \subseteq f.work
        BY <2>2, <2>3, <4>2 DEF LostKept
      <4>3. CASE /\ "turn" \in clients[c].lost => TurnLeft(clients[c])
                 /\ "request" \in clients[c].lost => AskLeft(clients[c])
        <5>1. clients[c].lost \subseteq Known(clients[c])
          <6>1. clients[c].lost \subseteq {"turn", "request"} BY <1>3 DEF ClientState
          <6>2. "turn" \in clients[c].lost => "turn" \in Known(clients[c])
            BY <1>3, <4>1, <4>3, KnownOf DEF TurnLeft
          <6>3. "request" \in clients[c].lost => "request" \in Known(clients[c])
            BY <1>3, <4>1, <4>3, KnownOf DEF AskLeft
          <6>4. QED BY <6>1, <6>2, <6>3
        <5>2. DEFINE f == [gen |-> resident.generation, work |-> Known(clients[c])]
        <5>3. f \in fenced' /\ f.gen = r.gen /\ r.lost \subseteq f.work
          BY <1>2, <1>3, <2>2, <2>3, <5>1 DEF CurrentInv
        <5>4. QED BY <2>3, <5>3 DEF LostKept
      <4>4. QED BY <4>1, <4>2, <4>3 DEF LostKept
    <3>2. QED BY <1>3, <2>2, <2>3, <3>1 DEF Ages, RowInv, Quiet, Silent
  <2> HIDE DEF r
  <2>5. clients' \in [Clients -> ClientState] /\ \A d \in Clients : Ages(d, clients'[d])
    BY <2>2, <2>3, <2>4, OneRow
  <2>6. lock' \in LockState /\ lock'.pc = "candidate" BY <2>2, GoToType DEF LockPcs
  <2>7. LockInv' BY <1>1, <1>4, <2>2, <2>6 DEF LockInv
  <2>8. Ordinary BY <1>4, <2>2, <2>5, SameOps DEF Ordinary
  <2>9. Types' BY <1>3, <1>4, <2>0, <2>2, <2>5, <2>6 DEF Types
  <2>10. QED BY <2>7, <2>8, <2>9, LockedStep
<1>7. CASE PersistFails
  <2>1. DEFINE r == [clients[c] EXCEPT !.sealed = TRUE]
  <2>2. /\ Set(c, r) /\ resident' = [resident EXCEPT !.accepting = FALSE]
        /\ Return /\ fenced' = fenced /\ faults' \in 0..MaxFaults
    BY <1>2, <1>7, FaultType DEF PersistFails
  <2>3. r = clients[c]
    <3>1. clients[c].sealed BY <1>2, <1>3, <1>7 DEF PersistFails, FenceReady, RowInv
    <3>2. QED BY <1>3, <3>1 DEF ClientState
  <2>0. r \in ClientState /\ Ages(c, r) BY <1>3, <2>2, <2>3, SameRow
  <2> HIDE DEF r
  <2>4. clients' \in [Clients -> ClientState] /\ \A d \in Clients : Ages(d, clients'[d])
    BY <2>0, <2>2, OneRow
  <2>5. QED BY <1>1, <1>4, <2>2, <2>4, ReturnStep
<1>8. QED BY <1>5, <1>6, <1>7

LEMMA SealKeeps == ASSUME AllInv, SealCandidate PROVE AllInv'
<1> ServerInv /\ Types BY SameTypes DEF AllInv
<1>1. /\ At("candidate") /\ resident.open /\ UNCHANGED <<ops, supervisor, force, fenced, faults>>
      /\ \E pc \in {"join", "kill"} : GoTo(pc)
      /\ resident' = [resident EXCEPT !.accepting = FALSE, !.authorized = TRUE,
                        !.forwarding = 0, !.forwarders = FALSE]
  BY DEF SealCandidate, AllInv, LockInv, At
<1>2. PICK c \in Clients : c = resident.client BY <1>1, CurrentBorn
<1>3. clients[c] \in ClientState /\ RowInv(c) /\ CurrentInv(c) /\ resident \in ResidentState
  BY DEF Types, ServerInv
<1>4. ~InFlight(c) /\ Quiet(clients[c]) BY <1>2, <1>3, KnownOf DEF SealCandidate, Quiescent
<1>5. DEFINE r == Sealed(clients[c])
<1>6. Set(c, r) BY <1>2 DEF SealCandidate
<1>7. r \in ClientState /\ Ages(c, r) /\ r.sealed /\ Quiet(r)
  <2>1. Ages(c, clients[c]) BY <1>1, SameRow
  <2>2. QED BY <1>3, <1>4, <2>1, ClosedAges, SealedOf DEF Quiet
<1> HIDE DEF r
<1>8. /\ clients' \in [Clients -> ClientState] /\ \A d \in Clients : Ages(d, clients'[d])
      /\ clients'[c] = r
  BY <1>1, <1>6, <1>7, OneRow
<1>9. /\ resident' \in ResidentState /\ ~resident'.accepting
      /\ resident'.pending = resident.pending /\ resident'.debt = resident.debt
      /\ resident'.client = resident.client
      /\ resident'.open = resident.open /\ resident'.generation = resident.generation
      /\ resident'.authorized /\ resident'.forced = resident.forced
  BY <1>1, <1>3, Numbers DEF ResidentState
<1>10. ResidentAges
  BY <1>2, <1>4, <1>7, <1>8, <1>9 DEF ResidentAges, ServerInv, ResidentInv
<1>11. lock' \in LockState /\ lock'.pc \in {"join", "kill"} BY <1>1, GoToType DEF LockPcs
<1>12. LockInv' BY <1>1, <1>9, <1>11 DEF LockInv
<1>13. Ordinary BY <1>1, <1>8, <1>10, SameOps DEF Ordinary
<1>14. Types' BY <1>1, <1>8, <1>9, <1>11 DEF Types
<1>15. QED BY <1>12, <1>13, <1>14, LockedStep

LEMMA JoinKeeps == ASSUME AllInv, JoinForwarders \/ Initialize PROVE AllInv'
<1> ServerInv /\ Types BY SameTypes DEF AllInv
<1>1. UNCHANGED <<resident, clients, ops, supervisor, force, fenced, faults>>
  BY DEF JoinForwarders, Initialize
<1>2. PICK pc \in {"kill", "close_debt", "close_current", "install"} :
        /\ GoTo(pc)
        /\ pc \in {"kill", "install"} => resident.open /\ resident.authorized
        /\ pc \in {"close_debt", "close_current"} => ~resident.open
        /\ pc \in {"close_debt", "install"} => resident.debt # None
  BY DEF JoinForwarders, Initialize, AllInv, LockInv, At
<1>3. lock' \in LockState /\ lock'.pc = pc BY <1>2, GoToType DEF LockPcs
<1>4. LockInv' BY <1>1, <1>2, <1>3 DEF LockInv
<1>5. Ordinary BY <1>1, SameClients, SameOps, SameResident DEF Ordinary
<1>6. Types' BY <1>1, <1>3 DEF Types
<1>7. QED BY <1>4, <1>5, <1>6, LockedStep

LEMMA KillKeeps == ASSUME AllInv, KillOld PROVE AllInv'
<1> ServerInv /\ Types BY SameTypes DEF AllInv
<1>1. /\ resident.open /\ resident.authorized /\ GoTo("spawn")
      /\ UNCHANGED <<resident, ops, supervisor, force, fenced, faults>>
  BY DEF KillOld, AllInv, LockInv, At
<1>2. PICK c \in Clients : c = resident.client BY <1>1, CurrentBorn
<1>3. Set(c, Reaped(c)) BY <1>2 DEF KillOld
<1>4. /\ clients' \in [Clients -> ClientState] /\ \A d \in Clients : Ages(d, clients'[d])
      /\ clients'[c].proc = "exited"
  BY <1>1, <1>2, <1>3, ClientRow, OneRow
<1>5. lock' \in LockState /\ lock'.pc = "spawn" BY <1>1, GoToType DEF LockPcs
<1>6. LockInv' BY <1>1, <1>2, <1>4, <1>5 DEF LockInv, Alive
<1>7. Ordinary BY <1>1, <1>4, SameOps, SameResident DEF Ordinary
<1>8. Types' BY <1>1, <1>4, <1>5 DEF Types
<1>9. QED BY <1>6, <1>7, <1>8, LockedStep

LEMMA ReplacementFailsKeeps == ASSUME AllInv, ReplacementFails PROVE AllInv'
<1> ServerInv /\ Types BY SameTypes DEF AllInv
<1>1. Return /\ UNCHANGED <<ops, fenced>> /\ faults' \in 0..MaxFaults
  BY FaultType DEF ReplacementFails, Types
<1>2. PICK c \in Clients : c = resident.debt
  BY CurrentBorn DEF ReplacementFails, AllInv, LockInv, At
<1>3. \/ Set(c, Reaped(c)) /\ resident' = [resident EXCEPT !.debt = None]
      \/ Set(c, Unreaped(c)) /\ resident' = resident
  BY <1>2 DEF ReplacementFails
<1>4. /\ clients' \in [Clients -> ClientState] /\ \A d \in Clients : Ages(d, clients'[d])
      /\ Set(c, Reaped(c)) => clients'[c] = Reaped(c)
  BY <1>1, <1>2, <1>3, DebtRow, UnreapedRow, OneRow
<1>5. ResidentAges /\ resident' \in ResidentState
  BY <1>1, <1>2, <1>3, <1>4, ForgetDebt, SameResident DEF Types
<1>6. QED BY <1>1, <1>4, <1>5, ReturnStep

LEMMA StartupCleanupKeeps == ASSUME AllInv, StartupCleanup PROVE AllInv'
<1> ServerInv /\ Types BY SameTypes DEF AllInv
<1>1. UNCHANGED <<resident, ops, lock, supervisor, force, fenced, faults>> BY DEF StartupCleanup
<1>2. PICK c \in Clients : c = resident.debt BY CurrentBorn DEF StartupCleanup
<1>3. Set(c, Reaped(c)) BY <1>2 DEF StartupCleanup
<1>4. Reaped(c) \in ClientState /\ Ages(c, Reaped(c)) BY <1>1, <1>2, DebtRow
<1>5. QED BY <1>1, <1>3, <1>4, SameResident, RowStep DEF Types

\* The next process is spawned when the old one is gone, and is the debt until installed.
LEMMA SpawnKeeps == ASSUME AllInv, Spawn PROVE AllInv'
<1> ServerInv /\ Types BY SameTypes DEF AllInv
<1>1. /\ resident.open /\ resident.authorized /\ resident.debt = None /\ GoTo("initialize")
      /\ UNCHANGED <<ops, supervisor, force, fenced, faults>>
      /\ \A k \in Clients : k = resident.client => ~Alive(k)
  BY DEF Spawn, AllInv, LockInv, At
<1>2. PICK c \in Clients : /\ ~Born(c) /\ \A d \in 1..(c - 1) : Born(d)
                           /\ Set(c, Spawned(resident.generation + 1))
                           /\ resident' = [resident EXCEPT !.debt = c]
  BY DEF Spawn, Born
<1>3. PICK k \in Clients : k = resident.client BY <1>1, CurrentBorn
<1>4. resident.generation \in Nat /\ resident.generation + 1 <= c
  <2>1. Born(k) /\ clients[k].gen = resident.generation /\ clients[k].gen <= k
    BY <1>3, CurrentBorn DEF ServerInv, CurrentInv, RowInv
  <2>2. k < c
    <3>1. c < k => Born(c) BY <2>1 DEF ServerInv, RowInv
    <3>2. k # c BY <1>2, <2>1
    <3>3. QED BY <1>2, <3>1, <3>2, Numbers
  <2>3. k \in Nat /\ c \in Nat /\ resident.generation \in Nat BY Numbers DEF Types, ResidentState
  <2>4. QED BY <2>1, <2>2, <2>3
<1>5. DEFINE r == Spawned(resident.generation + 1)
<1>6. /\ r \in ClientState /\ r.proc = "alive" /\ r.gen = resident.generation + 1
      /\ Silent(r) /\ ~r.abandoned /\ ~r.cut /\ ~r.closed /\ r.lost = {}
  <2>1. resident.generation + 1 \in 0..MaxClients BY <1>4, ResidentAssumption DEF Clients
  <2>2. QED BY <2>1 DEF Spawned, Unborn, ClientState, Silent, Quiet
<1>7. /\ clients' \in [Clients -> ClientState] /\ clients'[c] = r
      /\ \A d \in Clients : d # c => clients'[d] = clients[d]
  <2> HIDE DEF r
  <2>1. Set(c, r) BY <1>2 DEF r
  <2>2. QED BY <1>6, <2>1 DEF Set, Types
<1> HIDE DEF r
<1>8. /\ resident' \in ResidentState /\ resident'.debt = c
      /\ resident'.client = resident.client /\ resident'.accepting = resident.accepting
      /\ resident'.pending = resident.pending
      /\ resident'.open = resident.open /\ resident'.generation = resident.generation
      /\ resident'.authorized = resident.authorized /\ resident'.forced = resident.forced
  BY <1>2 DEF Types, ResidentState
<1>9. ResidentInv' BY <1>1, <1>8 DEF ServerInv, ResidentInv
<1>10. ASSUME NEW d \in Clients
       PROVE  RowInv(d)' /\ CurrentInv(d)' /\ DebtInv(d)' /\ GoneInv(d)'
  <2>1. RowInv(d) /\ CurrentInv(d) /\ DebtInv(d) /\ GoneInv(d) /\ RowInv(c) BY DEF ServerInv
  <2>2. InFlight(d)' = InFlight(d) BY <1>1 DEF InFlight
  <2>3. ~InFlight(c) /\ c # resident.client /\ c # None BY <1>2, <2>1, Numbers DEF RowInv
  <2>4. \A e \in Clients : Born(e) => Born(e)' BY <1>6, <1>7 DEF Born
  <2>5. CASE d = c
    <3>1. Born(c)' BY <1>6, <1>7 DEF Born
    <3>2. \A e \in Clients : e < c => Born(e)'
      BY <1>2, <2>4, Numbers DEF Clients
    <3>3. RowInv(d)'
      <4>1. ~InFlight(d)' BY <2>2, <2>3, <2>5
      <4>2. LostKept(clients'[d], fenced') BY <1>6, <1>7, <2>5 DEF LostKept
      <4>3. Quiet(clients'[d]) BY <1>6, <1>7, <2>5 DEF Silent
      <4>4. QED BY <1>4, <1>6, <1>7, <2>5, <3>1, <3>2, <4>1, <4>2, <4>3 DEF RowInv
    <3>4. CurrentInv(d)' BY <1>8, <2>3, <2>5 DEF CurrentInv
    <3>5. DebtInv(d)' BY <1>6, <1>7, <1>8, <2>2, <2>3, <2>5 DEF DebtInv
    <3>6. GoneInv(d)' BY <1>8, <2>5 DEF GoneInv
    <3>7. QED BY <3>3, <3>4, <3>5, <3>6
  <2>6. CASE d # c
    <3>1. clients'[d] = clients[d] /\ (Born(d)' <=> Born(d)) BY <1>7, <2>6 DEF Born
    <3>2. RowInv(d)' BY <1>1, <1>8, <2>1, <2>2, <2>4, <2>6, <3>1 DEF RowInv, Alive
    <3>3. CurrentInv(d)' BY <1>1, <1>8, <2>1, <2>2, <3>1 DEF CurrentInv, Alive
    <3>4. DebtInv(d)' BY <1>8, <2>6 DEF DebtInv
    <3>5. GoneInv(d)'
      <4>1. d # resident.debt BY <1>1, Numbers
      <4>2. QED BY <1>8, <2>1, <3>1, <4>1 DEF GoneInv, Alive
    <3>6. QED BY <3>2, <3>3, <3>4, <3>5
  <2>7. QED BY <2>5, <2>6
<1>11. lock' \in LockState /\ lock'.pc = "initialize" BY <1>1, GoToType DEF LockPcs
<1>12. LockInv' BY <1>1, <1>8, <1>11, Numbers DEF LockInv
<1>13. Types' BY <1>1, <1>7, <1>8, <1>11 DEF Types
<1>14. TypeOK' BY <1>13 DEF TypeOK, Types, ResidentState, ClientState, OpState, FenceState, LockState, LockPcs,
    SupervisorState
<1>15. QED BY <1>9, <1>10, <1>12, <1>14 DEF AllInv, ServerInv

\* The debt becomes the current client; the old one is sealed, at rest and gone.
LEMMA InstallKeeps == ASSUME AllInv, Install PROVE AllInv'
<1> ServerInv /\ Types BY SameTypes DEF AllInv
<1>1. /\ resident.open /\ resident.authorized /\ resident.debt # None /\ lock' = Free
      /\ UNCHANGED <<ops, fenced, faults>>
  BY DEF Install, AllInv, LockInv, At
<1>2. PICK c \in Clients : c = resident.debt BY <1>1, CurrentBorn
<1>3. PICK k \in Clients : k = resident.client BY <1>1, CurrentBorn
<1>4. clients[c] \in ClientState /\ RowInv(c) /\ DebtInv(c) /\ CurrentInv(k) /\ Born(c) /\ c # k
  BY <1>2, <1>3, CurrentBorn DEF Types, ServerInv, DebtInv
<1>5. clients[c].gen = resident.generation + 1 /\ clients[c].gen \in Clients
      /\ resident.generation \in Nat /\ clients[c].gen \in 0..MaxClients
  <2>1. clients[c].gen = resident.generation + 1 /\ clients[c].gen <= c BY <1>2, <1>4 DEF DebtInv, RowInv
  <2>2. resident.generation \in Nat /\ c \in Nat /\ c <= MaxClients /\ MaxClients \in Nat
    BY ResidentAssumption DEF Types, ResidentState, Clients
  <2>3. QED BY <2>1, <2>2 DEF Clients
<1>6. DEFINE r == [clients[c] EXCEPT !.monitor = TRUE]
<1>7. /\ r \in ClientState /\ r.proc = clients[c].proc /\ r.gen = clients[c].gen
      /\ r.turn = clients[c].turn /\ r.ask = clients[c].ask /\ r.unread = clients[c].unread
      /\ r.abandoned = clients[c].abandoned /\ r.cut = clients[c].cut
      /\ r.lost = clients[c].lost /\ r.sealed = clients[c].sealed /\ r.closed = clients[c].closed
  BY <1>4 DEF ClientState
<1>8. /\ clients' \in [Clients -> ClientState] /\ clients'[c] = r
      /\ \A d \in Clients : d # c => clients'[d] = clients[d]
  <2> HIDE DEF r
  <2>1. Set(c, r) BY <1>2 DEF r, Install
  <2>2. QED BY <1>7, <2>1 DEF Set, Types
<1> HIDE DEF r
<1>9. resident' = [client |-> c, debt |-> None, generation |-> clients[c].gen,
                   quarantined |-> FALSE, pending |-> FALSE, accepting |-> TRUE,
                   open |-> TRUE, authorized |-> FALSE, forwarding |-> clients[c].gen,
                   forwarders |-> TRUE, forced |-> FALSE]
  BY <1>2 DEF Install
<1>10. /\ resident' \in ResidentState /\ resident'.client = c /\ resident'.debt = None
       /\ resident'.open /\ ~resident'.pending /\ ~resident'.authorized
       /\ resident'.generation = resident.generation + 1
  BY <1>5, <1>9 DEF ResidentState
<1>11. ResidentInv' BY <1>1, <1>10, Numbers DEF ServerInv, ResidentInv
<1>12. ASSUME NEW d \in Clients
       PROVE  RowInv(d)' /\ CurrentInv(d)' /\ DebtInv(d)' /\ GoneInv(d)'
  <2>1. RowInv(d) /\ CurrentInv(d) /\ DebtInv(d) /\ GoneInv(d) BY DEF ServerInv
  <2>2. InFlight(d)' = InFlight(d) BY <1>1 DEF InFlight
  <2>3. /\ clients'[d].proc = clients[d].proc /\ clients'[d].gen = clients[d].gen
        /\ clients'[d].turn = clients[d].turn /\ clients'[d].ask = clients[d].ask
        /\ clients'[d].unread = clients[d].unread /\ clients'[d].closed = clients[d].closed
        /\ clients'[d].abandoned = clients[d].abandoned
        /\ clients'[d].cut = clients[d].cut /\ clients'[d].lost = clients[d].lost
        /\ clients'[d].sealed = clients[d].sealed
    BY <1>7, <1>8
  <2>4. \A e \in Clients : Born(e)' = Born(e) BY <1>7, <1>8 DEF Born
  <2>5. RowInv(d)'
    <3>1. ~Born(d) => d # c /\ d # None BY <1>4, Numbers
    <3>2. d # c => Quiet(clients'[d])
      BY <1>1, <1>2, <1>3, <1>4, <2>1, <2>3 DEF RowInv, CurrentInv, Quiet
    <3>3. ~InFlight(d)
      <4>1. InFlight(d) => d = k BY <1>3, <2>1, Numbers DEF RowInv
      <4>2. ~InFlight(k) BY <1>1, <1>3, <1>4 DEF CurrentInv
      <4>3. QED BY <4>1, <4>2
    <3>4. LostKept(clients'[d], fenced')
      <4>1. clients[d] \in ClientState /\ clients'[d] \in ClientState BY <1>8 DEF Types
      <4>2. QED BY <1>1, <2>1, <2>3, <4>1, LikeKept DEF RowInv
    <3>5. Silent(clients[d]) => Silent(clients'[d]) BY <2>3 DEF Silent, Quiet
    <3>6. QED BY <1>1, <1>10, <2>1, <2>2, <2>3, <2>4, <3>1, <3>2, <3>3, <3>4, <3>5 DEF RowInv, Alive
  <2>6. CurrentInv(d)' BY <1>5, <1>10, <2>3 DEF CurrentInv
  <2>7. DebtInv(d)' BY <1>10, Numbers DEF DebtInv
  <2>8. GoneInv(d)'
    <3>1. CASE d = c BY <1>10, <3>1 DEF GoneInv
    <3>2. CASE d = k
      <4>1. ~Alive(d) /\ clients[d].sealed BY <1>1, <1>3, <2>1, <3>2 DEF CurrentInv
      <4>2. QED BY <2>3, <4>1 DEF GoneInv, Alive
    <3>3. CASE d # c /\ d # k BY <1>2, <1>3, <2>1, <2>3, <2>4, <3>3 DEF GoneInv, Alive
    <3>4. QED BY <3>1, <3>2, <3>3
  <2>9. QED BY <2>5, <2>6, <2>7, <2>8
<1>13. supervisor' \in SupervisorState /\ force' \in Clients \cup {None}
  <2>1. supervisor \in SupervisorState /\ supervisor.generation \in 0..MaxClients
    BY DEF Types, SupervisorState
  <2>2. [supervisor EXCEPT !.pc = "look", !.unseen = TRUE, !.settled = supervisor.generation]
          \in SupervisorState
    BY <2>1 DEF SupervisorState
  <2>3. supervisor' \in SupervisorState BY <2>2, NotifyType DEF Install
  <2>4. QED BY <2>3 DEF Install, Types
<1>14. LockInv' BY <1>1, LockFreed
<1>15. Types' BY <1>1, <1>8, <1>10, <1>13, FreeType DEF Types
<1>16. TypeOK' BY <1>15 DEF TypeOK, Types, ResidentState, ClientState, OpState, FenceState, LockState, LockPcs,
    SupervisorState
<1>17. QED BY <1>11, <1>12, <1>14, <1>16 DEF AllInv, ServerInv

LEMMA ReplaceKeeps == ASSUME AllInv, Replace PROVE AllInv'
  BY CleanDebtKeeps, CleanupFailsKeeps, FenceKeeps, DeferralsKeep, SealKeeps, JoinKeeps, KillKeeps,
    SpawnKeeps, ReplacementFailsKeeps, InstallKeeps, StartupCleanupKeeps
  DEF Replace

-----------------------------------------------------------------------------
(* The close, and who takes the lock *)

LEMMA CloseKeeps == ASSUME AllInv, Close PROVE AllInv'
<1> ServerInv /\ Types BY SameTypes DEF AllInv
<1>1. /\ UNCHANGED <<ops, force, fenced, faults>> /\ supervisor' \in SupervisorState
      /\ resident' = [resident EXCEPT !.accepting = FALSE, !.open = FALSE,
                       !.pending = FALSE, !.forwarding = 0, !.forwarders = FALSE]
      /\ clients' = [c \in Clients |->
            IF c \in {resident.client, resident.debt}
            THEN Sealed(clients[c]) ELSE clients[c]]
      /\ \E pc \in {"close_join", "close_debt", "close_current"} :
           /\ lock' = [holder |-> "close", pc |-> pc]
           /\ pc = "close_debt" => resident.debt # None
  BY NotifyType DEF Close
<1>2. resident \in ResidentState BY DEF Types
<1>3. /\ resident' \in ResidentState /\ ~resident'.accepting /\ ~resident'.pending /\ ~resident'.open
      /\ resident'.client = resident.client /\ resident'.debt = resident.debt
      /\ resident'.generation = resident.generation /\ resident'.authorized = resident.authorized
  BY <1>1, <1>2, Numbers DEF ResidentState
<1>4. ASSUME NEW c \in Clients PROVE clients'[c] \in ClientState /\ Ages(c, clients'[c])
  <2>1. clients[c] \in ClientState /\ RowInv(c) BY DEF Types, ServerInv
  <2>2. DEFINE r == Sealed(clients[c])
  <2>4. Ages(c, clients[c]) BY <1>1, SameRow
  <2>3. r \in ClientState /\ Ages(c, r) BY <2>1, <2>4, ClosedAges
  <2>5. clients'[c] = r \/ clients'[c] = clients[c] BY <1>1
  <2> HIDE DEF r
  <2>6. QED BY <2>1, <2>3, <2>4, <2>5
<1>5. clients' \in [Clients -> ClientState] BY <1>1, <1>4
<1>6. ResidentAges BY <1>3 DEF ResidentAges
<1>7. lock' \in LockState /\ lock'.pc \in {"close_join", "close_debt", "close_current"}
      /\ (lock'.pc = "close_debt" => resident.debt # None)
  BY <1>1 DEF LockState, LockPcs
<1>8. LockInv' BY <1>3, <1>7 DEF LockInv
<1>9. Ordinary BY <1>1, <1>4, <1>6, SameOps DEF Ordinary
<1>10. Types' BY <1>1, <1>3, <1>5, <1>7 DEF Types
<1>11. QED BY <1>8, <1>9, <1>10, LockedStep

LEMMA CloseDebtKeeps == ASSUME AllInv, NEW ok \in BOOLEAN, CloseDebt(ok) PROVE AllInv'
<1> ServerInv /\ Types BY SameTypes DEF AllInv
<1>1. /\ UNCHANGED <<ops, supervisor, force, fenced>> /\ faults' \in 0..MaxFaults
      /\ GoTo("close_current") /\ ~resident.open /\ resident.debt # None
  BY FaultType DEF CloseDebt, Types, AllInv, LockInv, At
<1>2. PICK c \in Clients : c = resident.debt BY <1>1, CurrentBorn
<1>3. \/ Set(c, Reaped(c)) /\ resident' = [resident EXCEPT !.debt = None]
      \/ Set(c, Unreaped(c)) /\ resident' = resident
  BY <1>2 DEF CloseDebt
<1>4. /\ clients' \in [Clients -> ClientState] /\ \A d \in Clients : Ages(d, clients'[d])
      /\ Set(c, Reaped(c)) => clients'[c] = Reaped(c)
  BY <1>1, <1>2, <1>3, DebtRow, UnreapedRow, OneRow
<1>5. ResidentAges /\ resident' \in ResidentState /\ ~resident'.open
  BY <1>1, <1>2, <1>3, <1>4, ForgetDebt, SameResident DEF Types
<1>6. lock' \in LockState /\ lock'.pc = "close_current" BY <1>1, GoToType DEF LockPcs
<1>7. LockInv' BY <1>5, <1>6 DEF LockInv
<1>8. Ordinary BY <1>1, <1>4, <1>5, SameOps DEF Ordinary
<1>9. Types' BY <1>1, <1>4, <1>5, <1>6 DEF Types
<1>10. QED BY <1>7, <1>8, <1>9, LockedStep

LEMMA CloseCurrentKeeps == ASSUME AllInv, NEW ok \in BOOLEAN, CloseCurrent(ok) PROVE AllInv'
<1> ServerInv /\ Types BY SameTypes DEF AllInv
<1>1. /\ UNCHANGED <<ops, supervisor, force, fenced>> /\ faults' \in 0..MaxFaults
      /\ lock' = Free /\ ~resident.open
  BY FaultType DEF CloseCurrent, Types, AllInv, LockInv, At
<1>2. CASE UNCHANGED <<clients, resident>>
  <2>1. Ordinary BY <1>1, <1>2, SameClients, SameOps, SameResident DEF Ordinary
  <2>2. Types' BY <1>1, <1>2, FreeType DEF Types
  <2>3. QED BY <1>1, <2>1, <2>2, LockFreed, LockedStep
<1>3. ASSUME NEW c \in Clients, c = resident.client,
             \/ Set(c, Reaped(c)) /\ resident' = [resident EXCEPT !.client = None]
             \/ Set(c, Unreaped(c)) /\ resident' = resident
      PROVE  AllInv'
  <2>1. /\ clients' \in [Clients -> ClientState] /\ \A d \in Clients : Ages(d, clients'[d])
        /\ Set(c, Reaped(c)) => clients'[c].sealed /\ clients'[c].proc # "alive"
    BY <1>1, <1>3, ClientRow, UnreapedRow, OneRow
  <2>2. ResidentAges /\ resident' \in ResidentState
    <3>1. CASE resident' = resident BY <3>1, SameResident DEF Types
    <3>2. CASE resident' = [resident EXCEPT !.client = None] /\ Set(c, Reaped(c))
      <4>1. /\ resident' \in ResidentState /\ resident'.client = None
            /\ resident'.pending = resident.pending /\ resident'.accepting = resident.accepting
            /\ resident'.debt = resident.debt
            /\ resident'.open = resident.open /\ resident'.generation = resident.generation
        BY <3>2 DEF Types, ResidentState
      <4>2. ResidentAges
        BY <1>1, <1>3, <2>1, <3>2, <4>1, Numbers DEF ResidentAges, ServerInv, ResidentInv
      <4>3. QED BY <4>1, <4>2
    <3>3. QED BY <1>3, <3>1, <3>2
  <2>3. Ordinary BY <1>1, <2>1, <2>2, SameOps DEF Ordinary
  <2>4. Types' BY <1>1, <2>1, <2>2, FreeType DEF Types
  <2>5. QED BY <1>1, <2>3, <2>4, LockFreed, LockedStep
<1>4. \/ UNCHANGED <<clients, resident>>
      \/ \E c \in Clients : /\ c = resident.client
                            /\ \/ Set(c, Reaped(c)) /\ resident' = [resident EXCEPT !.client = None]
                               \/ Set(c, Unreaped(c)) /\ resident' = resident
  BY DEF CloseCurrent, Types, ResidentState
<1>5. QED BY <1>2, <1>3, <1>4

LEMMA ControlsKeep ==
  ASSUME AllInv, SupervisorLocks \/ ForceRestart \/ Look \/ Wake \/ Cancel PROVE AllInv'
<1> ServerInv /\ Types BY SameTypes DEF AllInv
<1>1. UNCHANGED <<resident, clients, ops, fenced>> /\ faults' \in 0..MaxFaults
  BY FaultType DEF SupervisorLocks, ForceRestart, Look, Wake, Cancel, Types
<1>2. /\ supervisor \in SupervisorState /\ resident.generation \in Clients
      /\ resident.generation \in 0..MaxClients /\ supervisor.generation \in 0..MaxClients
      /\ Clients \subseteq 0..MaxClients
  BY Numbers DEF Types, ResidentState, SupervisorState
<1>3. /\ supervisor' \in SupervisorState /\ force' \in Clients \cup {None}
  <2>1. \A b \in {"look", "attempt", "wait", "retry"} :
          [supervisor EXCEPT !.pc = b] \in SupervisorState
    BY <1>2 DEF SupervisorState
  <2>2. [supervisor EXCEPT !.pc = "look", !.settled = supervisor.generation] \in SupervisorState
    BY <1>2 DEF SupervisorState
  <2>3. [supervisor EXCEPT !.pc = "wait", !.unseen = FALSE] \in SupervisorState
    BY <1>2 DEF SupervisorState
  <2>4. [supervisor EXCEPT !.pc = "attempt", !.unseen = FALSE,
                           !.generation = resident.generation] \in SupervisorState
    BY <1>2 DEF SupervisorState
  <2>5. QED BY <1>2, <2>1, <2>2, <2>3, <2>4
    DEF SupervisorLocks, ForceRestart, Look, Wake, Cancel, Types
<1>4. lock' \in LockState /\ LockInv'
  <2>1. CASE lock' = lock BY <1>1, <2>1 DEF Types, LockInv, Alive, AllInv
  <2>2. CASE lock' = Free BY <2>2, FreeType, LockFreed
  <2>3. CASE resident.open /\ lock' = [holder |-> "supervisor", pc |-> AfterCheck]
    <3>1. lock' \in LockState /\ lock'.pc \in {"debt", "fence"}
          /\ (lock'.pc = "debt" => resident.debt # None)
      BY <2>3 DEF LockState, LockPcs, AfterCheck
    <3>2. QED BY <1>1, <2>3, <3>1 DEF LockInv
  <2>4. QED BY <2>1, <2>2, <2>3
    DEF SupervisorLocks, ForceRestart, Look, Wake, Cancel, PendingFor
<1>5. Ordinary BY <1>1, SameClients, SameOps, SameResident DEF Ordinary
<1>6. Types' BY <1>1, <1>3, <1>4 DEF Types
<1>7. QED BY <1>4, <1>5, <1>6, LockedStep

LEMMA ForceLocksKeeps == ASSUME AllInv, ForceLocks PROVE AllInv'
<1> ServerInv /\ Types BY SameTypes DEF AllInv
<1>1. UNCHANGED <<clients, ops, fenced, faults>> BY DEF ForceLocks
<1>2. CASE force' = None /\ UNCHANGED <<resident, lock, supervisor>>
  <2>1. Ordinary BY <1>1, <1>2, SameClients, SameOps, SameResident DEF Ordinary
  <2>2. Types' BY <1>1, <1>2 DEF Types
  <2>3. LockInv' BY <1>1, <1>2 DEF AllInv, LockInv, Alive
  <2>4. QED BY <2>1, <2>2, <2>3, LockedStep
<1>3. CASE /\ resident.open /\ lock' = [holder |-> "force", pc |-> AfterCheck] /\ Notify
           /\ resident' = [resident EXCEPT !.pending = TRUE, !.forced = TRUE] /\ UNCHANGED force
  <2>1. resident \in ResidentState BY DEF Types
  <2>2. /\ resident' \in ResidentState /\ resident'.forced
        /\ resident'.accepting = resident.accepting
        /\ resident'.client = resident.client /\ resident'.debt = resident.debt
        /\ resident'.open = resident.open /\ resident'.generation = resident.generation
        /\ resident'.authorized = resident.authorized
    BY <1>3, <2>1 DEF ResidentState
  <2>3. ResidentAges BY <1>3, <2>2 DEF ResidentAges
  <2>4. lock' \in LockState /\ lock'.pc \in {"debt", "fence"}
        /\ (lock'.pc = "debt" => resident.debt # None)
    BY <1>3 DEF LockState, LockPcs, AfterCheck
  <2>5. LockInv' BY <1>3, <2>2, <2>4 DEF LockInv
  <2>6. Ordinary BY <1>1, <2>3, SameClients, SameOps DEF Ordinary
  <2>7. Types' BY <1>1, <1>3, <2>2, <2>4, NotifyType DEF Types
  <2>8. QED BY <2>5, <2>6, <2>7, LockedStep
<1>4. QED BY <1>2, <1>3 DEF ForceLocks

-----------------------------------------------------------------------------
(* Theorems *)

LEMMA InitServer == Init => AllInv
<1> SUFFICES ASSUME Init PROVE AllInv OBVIOUS
<1>1. resident \in ResidentState BY Numbers DEF Init, ResidentState
<1>2. Unborn \in ClientState /\ [Spawned(1) EXCEPT !.monitor = TRUE] \in ClientState
  <2>1. 1 \in 0..MaxClients BY Numbers
  <2>2. QED BY <2>1, Numbers DEF Spawned, Unborn, ClientState
<1>3. clients \in [Clients -> ClientState] BY <1>2 DEF Init
<1>4. ops \in [Ops -> OpState] BY IdleType DEF Init
<1>5. lock \in LockState BY FreeType DEF Init
<1>6. supervisor \in SupervisorState BY Numbers DEF Init, SupervisorState
<1>7. Types
  <2>1. faults \in 0..MaxFaults BY ResidentAssumption DEF Init
  <2>2. QED BY <1>1, <1>3, <1>4, <1>5, <1>6, <2>1 DEF Types, Init
<1>8. ResidentInv BY Numbers DEF Init, ResidentInv, Idle
<1>9. \A c \in Clients : ~InFlight(c) BY Numbers DEF Init, InFlight, Idle
<1>10. ASSUME NEW c \in Clients PROVE RowInv(c) /\ CurrentInv(c) /\ DebtInv(c) /\ GoneInv(c)
  <2>1. resident.client = 1 /\ resident.debt = None /\ resident.generation = 1
        /\ ~resident.authorized /\ ~resident.pending /\ c # None
    BY Numbers DEF Init
  <2>2. CASE c = 1
    <3>1. /\ clients[c].proc = "alive" /\ clients[c].gen = 1 /\ ~clients[c].cut
          /\ clients[c].lost = {} /\ ~clients[c].closed
      BY <2>2 DEF Init, Spawned, Unborn
    <3>2. \A d \in Clients : ~(d < c) BY <2>2 DEF Clients
    <3>3. QED BY <1>9, <2>1, <2>2, <3>1, <3>2 DEF RowInv, CurrentInv, DebtInv, GoneInv, Born, LostKept
  <2>3. CASE c # 1
    <3>1. clients[c] = Unborn BY <2>3 DEF Init
    <3>2. QED BY <1>9, <2>1, <2>3, <3>1 DEF RowInv, CurrentInv, DebtInv, GoneInv, Born, Alive, Unborn,
      LostKept, Quiet, Silent
  <2>4. QED BY <2>2, <2>3
<1>11. LockInv BY LockFreed, FreeType DEF Init, LockInv
<1>12. QED BY <1>7, <1>8, <1>10, <1>11, SameTypes DEF AllInv, ServerInv

LEMMA ServerInductive == AllInv /\ [Next]_vars => AllInv'
<1> SUFFICES ASSUME AllInv, [Next]_vars PROVE AllInv' OBVIOUS
<1>1. CASE UNCHANGED vars
  BY <1>1 DEF vars, AllInv, TypeOK, ServerInv, LockInv, ResidentInv, RowInv, CurrentInv, DebtInv,
    GoneInv, InFlight, Born, Alive
<1>2. CASE Next
  BY <1>2, OperateKeeps, LiveKeeps, ReplaceKeeps, CloseKeeps, CloseDebtKeeps, CloseCurrentKeeps,
    ControlsKeep, ForceLocksKeeps
  DEF Next, Shut
<1>3. QED BY <1>1, <1>2

\* Whatever dies, fails or is dropped, at most one app-server runs, and it is the current
\* one or the recorded debt.
THEOREM OneServerRuns == Spec => []OneServer
<1>1. AllInv => OneServer
  <2> SUFFICES ASSUME AllInv
               PROVE  /\ Cardinality({c \in Clients : clients[c].proc = "alive"}) <= 1
                      /\ {c \in Clients : clients[c].proc = "alive"} \subseteq {resident.client, resident.debt}
    BY DEF OneServer, AllInv
  <2> DEFINE S == {c \in Clients : clients[c].proc = "alive"}
  <2>1. S \subseteq {resident.client, resident.debt} BY DEF AllInv, ServerInv, GoneInv, Alive
  <2>2. \E s : S \subseteq {s}
    <3>1. CASE resident.debt = None
      <4>1. S \subseteq {resident.client} BY <2>1, <3>1, Numbers
      <4>2. QED BY <4>1
    <3>2. CASE resident.debt # None
      <4>1. S \subseteq {resident.debt}
        BY <2>1, <3>2 DEF AllInv, ServerInv, CurrentInv, Alive
      <4>2. QED BY <4>1
    <3>3. QED BY <3>1, <3>2
  <2>3. Cardinality(S) <= 1
    <3> HIDE DEF S
    <3>1. PICK s : S \subseteq {s} BY <2>2
    <3>2. IsFiniteSet({s}) /\ Cardinality({s}) = 1 BY FS_Singleton
    <3>3. QED BY <3>1, <3>2, FS_Subset
  <2>4. QED BY <2>1, <2>3
<1>2. QED BY <1>1, InitServer, ServerInductive, PTL DEF Spec

\* A generation that died with work is not replaced before the fence has that work.
THEOREM DeadWorkIsFenced == Spec => []LostWorkIsFenced
<1>1. AllInv => LostWorkIsFenced
  <2> SUFFICES ASSUME AllInv, NEW c \in Clients, resident.open, resident.client # c,
                      clients[c].lost # {}
               PROVE  \E f \in fenced : f.gen = clients[c].gen /\ clients[c].lost \subseteq f.work
    BY DEF LostWorkIsFenced
  <2>1. clients[c] \in ClientState /\ RowInv(c) /\ DebtInv(c) /\ GoneInv(c)
    BY SameTypes DEF AllInv, Types, ServerInv
  <2>2. Quiet(clients[c]) /\ LostKept(clients[c], fenced) BY <2>1 DEF RowInv
  <2>3. ~TurnLeft(clients[c]) /\ ~AskLeft(clients[c])
    <3>1. CASE c = resident.debt
      BY <2>1, <3>1 DEF DebtInv, Silent, Quiet, TurnLeft, AskLeft
    <3>2. CASE c # resident.debt
      <4>1. Born(c) => clients[c].sealed BY <2>1, <3>2 DEF GoneInv
      <4>2. ~Born(c) => Silent(clients[c]) BY <2>1 DEF RowInv
      <4>3. QED BY <2>2, <4>1, <4>2 DEF Silent, Quiet, TurnLeft, AskLeft
    <3>3. QED BY <3>1, <3>2
  <2>4. clients[c].lost \subseteq {"turn", "request"} BY <2>1 DEF ClientState
  <2>5. QED BY <2>2, <2>3, <2>4 DEF LostKept
<1>2. QED BY <1>1, InitServer, ServerInductive, PTL DEF Spec

\* No replacement kills a server at work, and a restart is pending for a cause only.
THEOREM RestartsAreJust == Spec => []RestartIsJust
<1>1. AllInv => RestartIsJust
  <2> SUFFICES ASSUME AllInv PROVE RestartIsJust OBVIOUS
  <2>1. \A c \in Clients : ~clients[c].cut BY DEF AllInv, ServerInv, RowInv
  <2>2. resident.pending => resident.client \in Clients
    BY SameTypes DEF AllInv, ServerInv, ResidentInv, Types, ResidentState
  <2>3. \A c \in Clients : c = resident.client /\ resident.pending =>
          resident.forced \/ clients[c].suspect \/ clients[c].closed
    BY DEF AllInv, ServerInv, CurrentInv
  <2>4. QED BY <2>1, <2>2, <2>3 DEF RestartIsJust
<1>2. QED BY <1>1, InitServer, ServerInductive, PTL DEF Spec
=============================================================================
