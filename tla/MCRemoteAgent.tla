-------------------------- MODULE MCRemoteAgent --------------------------
(***************************************************************************)
(* Small instances of RemoteAgent for TLC: which commands the gateway      *)
(* sends.                                                                  *)
(***************************************************************************)
EXTENDS RemoteAgent, TLC

CONSTANTS c1, c2, c3, c4, c5, t1, a, b, r1, r2, x, y

Cmd(kind, sid, generation, req, body) ==
    [kind |-> kind, thread |-> t1, sid |-> sid, generation |-> generation,
     req |-> req, body |-> body]

\* A project session, a newer device session that replaces it, a mutation of
\* the project that is sent twice, and a read of it.
Mixed ==
    c1 :> Cmd("project", a, 1, r1, x) @@ c2 :> Cmd("device", b, 2, r1, x) @@
    c3 :> Cmd("mutate", a, 0, r2, y) @@ c4 :> Cmd("mutate", a, 0, r2, y) @@
    c5 :> Cmd("read", a, 0, r1, x)

\* A read changes nothing another worker sees but the permit it holds: it is sent
\* instead of the mutations.
ReadOrMutate == worker[c5].pc = "new" \/ \A c \in {c3, c4} : worker[c].pc = "new"

\* A project session, and a device session of the same thread that waits for a
\* permit until its deadline has passed.
LateDevice ==
    c1 :> Cmd("project", a, 1, r1, x) @@ c2 :> Cmd("device", b, 2, r1, x)

=============================================================================
