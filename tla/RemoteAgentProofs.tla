------------------------- MODULE RemoteAgentProofs -------------------------
(***************************************************************************)
(* RemoteAgent, for any commands, threads and bounds: nothing of a         *)
(* connection outlives it, the newest session of a thread stays while the  *)
(* thread is not bound to another project, and a request that had a result *)
(* is not run again while the results fit into the cache.                  *)
(***************************************************************************)
EXTENDS RemoteAgent, FiniteSetTheorems, SequenceTheorems, TLAPS

-----------------------------------------------------------------------------
(* The inductive invariant *)

\* The points at which a worker works on the binding it fetched.
InHand == {"bound", "checked", "running"}

\* The dispatcher's generation is the runner's while there is a connection, and
\* the workers are those of this connection.
ConnInv ==
    /\ link = "down" => live = None /\ \A c \in Cmds : ~ Active(c)
    /\ link # "down" => live = conn
    /\ \A c \in Cmds : Active(c) => worker[c].conn = conn

\* What is bound, fetched or used was opened.  A binding that is being replaced is
\* bound no more.
BindInv ==
    /\ \A t \in Threads : bound[t] # None => bound[t] <= opened
    /\ \A c \in Cmds : worker[c].pc \in InHand => worker[c].obj \in Objs /\ worker[c].obj <= opened
    /\ \A c \in Cmds : worker[c].pc = "replacing" /\ worker[c].obj # None =>
          worker[c].obj <= opened /\ \A t \in Threads : bound[t] # worker[c].obj
    /\ \A o \in Objs : o > opened => session[o] = None /\ cache[o] = << >>

\* The mutations of a thread.
Mutations(t) == {c \in Cmds : CmdOf[c].kind = "mutate" /\ CmdOf[c].thread = t}

\* Binding o serves no thread but t: t alone may be bound to it, the workers that
\* have it and the results it remembers are of t's commands.
Owns(t, o) ==
    /\ \A s \in Threads : bound[s] = o => s = t
    /\ \A c \in Cmds : worker[c].pc \in InHand /\ worker[c].obj = o => CmdOf[c].thread = t
    /\ \A i \in DOMAIN cache[o] : \E c \in Mutations(t) : cache[o][i].key = KeyOf(c)

OwnInv == \A o \in Objs : \E t \in Threads \cup {None} : Owns(t, o)

\* A mutation lock is held by the worker that runs a mutation on the binding.
LockInv ==
    \A o \in Objs, c \in Cmds :
        holder[o] = c <=> worker[c].pc = "running" /\ worker[c].obj = o

\* The session of a bound project was activated on this connection.
SessInv ==
    \A t \in Threads : bound[t] # None /\ session[bound[t]] # None =>
        session[bound[t]].conn = live

HasKey(entries, k) == \E i \in DOMAIN entries : entries[i].key = k

KeysDiffer(entries) == \A i, j \in DOMAIN entries : entries[i].key = entries[j].key => i = j

\* A key is cached once, a worker that has passed the session check has a command for
\* it, and what runs is not cached yet.
CacheInv ==
    /\ \A o \in Objs : KeysDiffer(cache[o])
    /\ \A c \in Cmds : worker[c].pc \in {"checked", "running"} => CmdOf[c].kind \in {"mutate", "read"}
    /\ \A c \in Cmds : worker[c].pc = "running" =>
          CmdOf[c].kind = "mutate" /\ ~ HasKey(cache[worker[c].obj], KeyOf(c))

AgentInv == TypeOK /\ ConnInv /\ BindInv /\ OwnInv /\ LockInv /\ SessInv /\ CacheInv

\* No command binds the thread to another project.
NeverRebound(t) == \A c \in Cmds : CmdOf[c].kind = "device" => CmdOf[c].thread # t

\* While a connection lasts: a thread without a session has acknowledged none, and the
\* active one is as new as any that was acknowledged.
NewestInv(t) ==
    /\ \A c \in Cmds : worker[c].pc \in InHand /\ CmdOf[c].thread = t => worker[c].obj = bound[t]
    /\ link # "down" /\ bound[t] # None =>
          /\ session[bound[t]] = None => newest[t] = 0
          /\ session[bound[t]] # None => session[bound[t]].generation >= newest[t]

\* Session ids are fresh: every activation has its own.
FreshSessions ==
    \A c, d \in Cmds : /\ CmdOf[c].kind \in {"project", "device"}
                       /\ CmdOf[d].kind \in {"project", "device"}
                       /\ CmdOf[c].sid = CmdOf[d].sid
                       => c = d

\* The results of a thread's requests fit into the cache of one binding.
RequestsFit ==
    \A t \in Threads : Cardinality({KeyOf(c) : c \in Mutations(t)}) <= CacheSize

\* The session id s was seen at binding o: as its active session, by a worker that
\* passed the session check, or by a remembered result.
Touches(o, s) ==
    \/ session[o] # None /\ session[o].sid = s
    \/ \E c \in Cmds : /\ worker[c].pc \in {"checked", "running"}
                       /\ worker[c].obj = o /\ CmdOf[c].sid = s
    \/ \E i \in DOMAIN cache[o] : cache[o][i].key.sid = s

\* A session id is seen at one binding only, and after its activation ended.
HomeInv ==
    \A s \in Sids, o \in Objs : Touches(o, s) =>
        /\ \A p \in Objs : Touches(p, s) => p = o
        /\ \A c \in Cmds : CmdOf[c].kind \in {"project", "device"} /\ CmdOf[c].sid = s =>
              worker[c].pc = "over"

\* What had a result is remembered.
ExecInv == \A c \in executed : \E o \in Objs : HasKey(cache[o], KeyOf(c))

\* No two repetitions of a request had a result.
ResultIsUnique ==
    \A c, d \in executed :
        (c # d /\ CmdOf[c].thread = CmdOf[d].thread) => KeyOf(c) # KeyOf(d)

RepeatInv == HomeInv /\ ExecInv /\ ResultIsUnique
-----------------------------------------------------------------------------
(* Operators *)

LEMMA RemoveShape ==
  ASSUME NEW S, NEW s \in Seq(S), NEW i \in 1 .. Len(s)
  PROVE  /\ RemoveAt(s, i) \in Seq(S) /\ Len(RemoveAt(s, i)) = Len(s) - 1
         /\ \A k \in 1 .. Len(s) - 1 : RemoveAt(s, i)[k] = IF k < i THEN s[k] ELSE s[k + 1]
<1>1. PICK a : a = SubSeq(s, 1, i - 1) OBVIOUS
<1>2. PICK b : b = SubSeq(s, i + 1, Len(s)) OBVIOUS
<1>3. a \in Seq(S) /\ Len(a) = i - 1 /\ \A k \in 1 .. i - 1 : a[k] = s[k]
  <2>1. \A k \in 1 .. i - 1 : s[k] \in S OBVIOUS
  <2>2. /\ SubSeq(s, 1, i - 1) \in Seq(S)
        /\ Len(SubSeq(s, 1, i - 1)) = IF 1 <= i - 1 THEN i - 1 - 1 + 1 ELSE 0
        /\ \A k \in 1 .. i - 1 - 1 + 1 : SubSeq(s, 1, i - 1)[k] = s[1 + k - 1]
    BY <2>1, SubSeqProperties
  <2>3. QED BY <1>1, <2>2
<1>4. b \in Seq(S) /\ Len(b) = Len(s) - i /\ \A k \in 1 .. Len(s) - i : b[k] = s[i + k]
  <2>1. \A k \in i + 1 .. Len(s) : s[k] \in S OBVIOUS
  <2>2. /\ SubSeq(s, i + 1, Len(s)) \in Seq(S)
        /\ Len(SubSeq(s, i + 1, Len(s))) = IF i + 1 <= Len(s) THEN Len(s) - (i + 1) + 1 ELSE 0
        /\ \A k \in 1 .. Len(s) - (i + 1) + 1 : SubSeq(s, i + 1, Len(s))[k] = s[i + 1 + k - 1]
    BY <2>1, SubSeqProperties
  <2>3. QED BY <1>2, <2>2
<1>5. RemoveAt(s, i) = a \o b BY <1>1, <1>2 DEF RemoveAt
<1>6. a \o b \in Seq(S) /\ Len(a \o b) = Len(s) - 1 BY <1>3, <1>4, ConcatProperties
<1>7. ASSUME NEW k \in 1 .. Len(s) - 1 PROVE (a \o b)[k] = IF k < i THEN s[k] ELSE s[k + 1]
  <2>1. CASE k < i BY <1>3, <1>4, <2>1, ConcatProperties
  <2>2. CASE ~(k < i)
    <3>1. (a \o b)[k] = b[k - (i - 1)] BY <1>3, <1>4, <2>2, ConcatProperties
    <3>2. k - (i - 1) \in 1 .. Len(s) - i BY <2>2
    <3>3. b[k - (i - 1)] = s[i + (k - (i - 1))] BY <1>4, <3>2
    <3>4. i + (k - (i - 1)) = k + 1 OBVIOUS
    <3>5. QED BY <2>2, <3>1, <3>3, <3>4
  <2>3. QED BY <2>1, <2>2
<1>8. QED BY <1>5, <1>6, <1>7

\* A sequence whose entries have different keys out of K is not longer than K.
LEMMA KeysBoundLength ==
  ASSUME NEW s \in Seq(CacheEntry), NEW K, IsFiniteSet(K),
         \A i \in DOMAIN s : s[i].key \in K,
         KeysDiffer(s)
  PROVE  Len(s) <= Cardinality(K)
<1>1. PICK n \in Nat : n = Len(s) /\ DOMAIN s = 1 .. n OBVIOUS
<1>2. PICK f : f = [i \in 1 .. n |-> s[i].key] OBVIOUS
<1>3. f \in Injection(1 .. n, K) BY <1>1, <1>2 DEF Injection, IsInjective, KeysDiffer
<1>4. Cardinality(1 .. n) <= Cardinality(K) BY <1>3, FS_Injection
<1>5. Cardinality(1 .. n) = n BY FS_Interval
<1>6. QED BY <1>1, <1>4, <1>5

LEMMA KeysFinite ==
  ASSUME NEW t
  PROVE  IsFiniteSet({KeyOf(c) : c \in Mutations(t)})
<1>1. PICK M : M = Mutations(t) OBVIOUS
<1>2. PICK K : K = {KeyOf(c) : c \in M} OBVIOUS
<1>3. PICK f : f = [c \in M |-> KeyOf(c)] OBVIOUS
<1>4. IsFiniteSet(M)
  <2>1. M \in SUBSET Cmds BY <1>1 DEF Mutations
  <2>2. QED BY <2>1, AgentAssumption, FS_Subset
<1>5. f \in Surjection(M, K) BY <1>2, <1>3 DEF Surjection
<1>6. QED BY <1>1, <1>2, <1>4, <1>5, FS_Surjection

-----------------------------------------------------------------------------
(* Facts about the commands and the types *)

LEMMA Constants ==
  /\ IsFiniteSet(Cmds) /\ IsFiniteSet(Threads) /\ Cardinality(Threads) \in Nat
  /\ MaxConns \in Nat /\ CacheSize \in Nat /\ MaxObjs \in Nat /\ CacheSize >= 1
  /\ Cardinality(Threads) <= MaxObjs
  /\ None \notin Cmds /\ None \notin Nat /\ None \notin Session
  BY AgentAssumption, FS_CardinalityType DEF Session

LEMMA Commands ==
  ASSUME NEW c \in Cmds
  PROVE  /\ CmdOf[c] \in Command /\ CmdOf[c].kind \in {"project", "device", "mutate", "read"}
         /\ CmdOf[c].thread \in Threads /\ CmdOf[c].sid \in Sids /\ CmdOf[c].generation \in Nat
         /\ CmdOf[c].req \in Reqs /\ CmdOf[c].body \in Body
  BY AgentAssumption DEF Command

LEMMA Keys ==
  ASSUME NEW c \in Cmds
  PROVE  /\ KeyOf(c) \in CacheKey /\ KeyOf(c).sid = CmdOf[c].sid
         /\ [key |-> KeyOf(c), body |-> CmdOf[c].body] \in CacheEntry
         /\ [key |-> KeyOf(c), body |-> CmdOf[c].body].key = KeyOf(c)
  BY Commands DEF KeyOf, CacheKey, CacheEntry

LEMMA Objects ==
  ASSUME TypeOK
  PROVE  /\ \A t \in Threads : bound[t] = None \/ bound[t] \in Objs
         /\ \A t \in Threads : bound[t] # None => bound[t] \in Objs /\ bound[t] \in Nat
         /\ None \notin Objs /\ Objs \subseteq Nat /\ opened \in Nat
  BY Constants DEF TypeOK, Objs
-----------------------------------------------------------------------------
(* The cache *)

LEMMA Caches ==
  ASSUME TypeOK, NEW o \in Objs
  PROVE  /\ cache[o] \in Seq(CacheEntry) /\ Len(cache[o]) \in Nat /\ Len(cache[o]) <= CacheSize
         /\ DOMAIN cache[o] = 1 .. Len(cache[o])
  BY DEF TypeOK

\* order.retain drops the command's key and nothing else.
LEMMA OthersShape ==
  ASSUME TypeOK, NEW o \in Objs, NEW c \in Cmds, KeysDiffer(cache[o])
  PROVE  /\ Others(o, c) \in Seq(CacheEntry) /\ Len(Others(o, c)) <= Len(cache[o])
         /\ Cached(o, c) # {} => Len(Others(o, c)) = Len(cache[o]) - 1
         /\ KeysDiffer(Others(o, c)) /\ ~ HasKey(Others(o, c), KeyOf(c))
         /\ \A k : k # KeyOf(c) => (HasKey(Others(o, c), k) <=> HasKey(cache[o], k))
<1>1. PICK s \in Seq(CacheEntry) : s = cache[o] BY Caches
<1>2. PICK n \in Nat : n = Len(s) /\ DOMAIN s = 1 .. n OBVIOUS
<1>3. CASE Cached(o, c) = {}
  <2>1. Others(o, c) = s BY <1>1, <1>3 DEF Others
  <2>2. ~ HasKey(s, KeyOf(c)) BY <1>1, <1>3 DEF Cached, HasKey
  <2>3. QED BY <1>1, <1>2, <1>3, <2>1, <2>2
<1>4. CASE Cached(o, c) # {}
  <2>1. PICK i \in Cached(o, c) : Others(o, c) = RemoveAt(s, i)
    <3>1. (CHOOSE i \in Cached(o, c) : TRUE) \in Cached(o, c) BY <1>4
    <3>2. QED BY <1>1, <1>4, <3>1 DEF Others
  <2>2. i \in 1 .. n /\ s[i].key = KeyOf(c) BY <1>1, <1>2 DEF Cached
  <2>3. PICK r : r = RemoveAt(s, i) OBVIOUS
  <2>4. r \in Seq(CacheEntry) /\ Len(r) = n - 1 /\ \A k \in 1 .. n - 1 : r[k] = IF k < i THEN s[k] ELSE s[k + 1]
    BY <1>2, <2>2, <2>3, RemoveShape
  <2>5. DOMAIN r = 1 .. n - 1 BY <2>4
  <2>6. \A j, k \in 1 .. n : s[j].key = s[k].key => j = k BY <1>1, <1>2 DEF KeysDiffer
  <2>7. KeysDiffer(r)
    <3> SUFFICES ASSUME NEW j \in 1 .. n - 1, NEW k \in 1 .. n - 1, r[j].key = r[k].key PROVE j = k
      BY <2>5 DEF KeysDiffer
    <3>1. CASE j < i /\ k < i BY <2>4, <2>6, <3>1
    <3>2. CASE j < i /\ ~(k < i)
      <4>1. s[j].key = s[k + 1].key BY <2>4, <3>2
      <4>2. QED BY <2>2, <2>6, <3>2, <4>1
    <3>3. CASE ~(j < i) /\ k < i
      <4>1. s[j + 1].key = s[k].key BY <2>4, <3>3
      <4>2. QED BY <2>2, <2>6, <3>3, <4>1
    <3>4. CASE ~(j < i) /\ ~(k < i)
      <4>1. s[j + 1].key = s[k + 1].key BY <2>4, <3>4
      <4>2. j + 1 = k + 1 BY <2>6, <4>1
      <4>3. QED BY <4>2
    <3>5. QED BY <3>1, <3>2, <3>3, <3>4
  <2>8. ASSUME NEW j \in 1 .. n - 1 PROVE \E k \in 1 .. n : k # i /\ r[j] = s[k]
    <3>1. CASE j < i BY <2>2, <2>4, <3>1
    <3>2. CASE ~(j < i) BY <2>2, <2>4, <3>2
    <3>3. QED BY <3>1, <3>2
  <2>9. ASSUME NEW k \in 1 .. n, k # i PROVE \E j \in 1 .. n - 1 : r[j] = s[k]
    <3>1. CASE k < i BY <2>2, <2>4, <3>1
    <3>2. CASE ~(k < i)
      <4>1. PICK j \in 1 .. n - 1 : j = k - 1 BY <2>2, <2>9, <3>2
      <4>2. r[j] = s[j + 1] /\ j + 1 = k BY <2>2, <2>4, <2>9, <3>2, <4>1
      <4>3. QED BY <4>2
    <3>3. QED BY <3>1, <3>2
  <2>10. ~ HasKey(r, KeyOf(c)) BY <2>2, <2>5, <2>6, <2>8 DEF HasKey
  <2>11. ASSUME NEW k, k # KeyOf(c) PROVE HasKey(r, k) <=> HasKey(s, k)
    <3>1. HasKey(r, k) => HasKey(s, k) BY <1>2, <2>5, <2>8 DEF HasKey
    <3>2. HasKey(s, k) => HasKey(r, k) BY <1>2, <2>2, <2>5, <2>9, <2>11 DEF HasKey
    <3>3. QED BY <3>1, <3>2
  <2>12. QED BY <1>1, <1>2, <2>1, <2>3, <2>4, <2>7, <2>10, <2>11
<1>5. QED BY <1>3, <1>4

LEMMA RefreshedShape ==
  ASSUME TypeOK, NEW o \in Objs, NEW c \in Cmds, KeysDiffer(cache[o])
  PROVE  /\ Refreshed(o, c) \in Seq(CacheEntry) /\ Len(Refreshed(o, c)) <= Len(cache[o]) + 1
         /\ Cached(o, c) # {} => Len(Refreshed(o, c)) = Len(cache[o])
         /\ KeysDiffer(Refreshed(o, c)) /\ HasKey(Refreshed(o, c), KeyOf(c))
         /\ \A k : k # KeyOf(c) => (HasKey(Refreshed(o, c), k) <=> HasKey(cache[o], k))
<1>1. PICK s \in Seq(CacheEntry) : s = Others(o, c) BY OthersShape
<1>2. PICK e \in CacheEntry : e = [key |-> KeyOf(c), body |-> CmdOf[c].body] BY Keys
<1>3. e.key = KeyOf(c) BY <1>2, Keys
<1>4. PICK n \in Nat : n = Len(s) /\ DOMAIN s = 1 .. n OBVIOUS
<1>5. PICK r : r = Append(s, e) OBVIOUS
<1>6. /\ r \in Seq(CacheEntry) /\ Len(r) = n + 1 /\ DOMAIN r = 1 .. n + 1
      /\ r[n + 1] = e /\ \A i \in 1 .. n : r[i] = s[i]
  BY <1>4, <1>5
<1>7. KeysDiffer(s) /\ ~ HasKey(s, KeyOf(c)) /\ \A k : k # KeyOf(c) => (HasKey(s, k) <=> HasKey(cache[o], k))
  BY <1>1, OthersShape
<1>8. KeysDiffer(r)
  <2> SUFFICES ASSUME NEW j \in 1 .. n + 1, NEW k \in 1 .. n + 1, r[j].key = r[k].key PROVE j = k
    BY <1>6 DEF KeysDiffer
  <2>1. CASE j \in 1 .. n /\ k \in 1 .. n BY <1>4, <1>6, <1>7, <2>1 DEF KeysDiffer
  <2>2. CASE j = n + 1 /\ k \in 1 .. n BY <1>3, <1>4, <1>6, <1>7, <2>2 DEF HasKey
  <2>3. CASE j \in 1 .. n /\ k = n + 1 BY <1>3, <1>4, <1>6, <1>7, <2>3 DEF HasKey
  <2>4. CASE j = n + 1 /\ k = n + 1 BY <2>4
  <2>5. QED BY <2>1, <2>2, <2>3, <2>4
<1>9. HasKey(r, KeyOf(c)) BY <1>3, <1>6 DEF HasKey
<1>10. ASSUME NEW k, k # KeyOf(c) PROVE HasKey(r, k) <=> HasKey(s, k)
  <2>1. HasKey(s, k) => HasKey(r, k) BY <1>4, <1>6 DEF HasKey
  <2>2. ASSUME NEW i \in 1 .. n + 1, r[i].key = k PROVE HasKey(s, k)
    <3>1. i \in 1 .. n BY <1>3, <1>6, <1>10, <2>2
    <3>2. QED BY <1>4, <1>6, <2>2, <3>1 DEF HasKey
  <2>3. QED BY <1>6, <2>1, <2>2 DEF HasKey
<1>11. Refreshed(o, c) = r BY <1>1, <1>2, <1>5 DEF Refreshed
<1>12. Len(s) <= Len(cache[o]) /\ (Cached(o, c) # {} => Len(s) = Len(cache[o]) - 1) BY <1>1, OthersShape
<1>13. Len(r) <= Len(cache[o]) + 1 /\ (Cached(o, c) # {} => Len(r) = Len(cache[o])) BY <1>4, <1>6, <1>12, Caches
<1>14. QED BY <1>6, <1>7, <1>8, <1>9, <1>10, <1>11, <1>13

\* remember: one key more, and perhaps the oldest one less.
LEMMA RememberedShape ==
  ASSUME TypeOK, NEW o \in Objs, NEW c \in Cmds, KeysDiffer(cache[o])
  PROVE  /\ Remembered(o, c) \in Seq(CacheEntry) /\ Len(Remembered(o, c)) <= CacheSize
         /\ KeysDiffer(Remembered(o, c))
         /\ \A k : HasKey(Remembered(o, c), k) => k = KeyOf(c) \/ HasKey(cache[o], k)
         /\ Len(Refreshed(o, c)) <= CacheSize => Remembered(o, c) = Refreshed(o, c)
<1>1. PICK r \in Seq(CacheEntry) : r = Refreshed(o, c) BY RefreshedShape
<1>2. PICK n \in Nat : n = Len(r) /\ DOMAIN r = 1 .. n OBVIOUS
<1>3. n <= CacheSize + 1 BY <1>1, <1>2, RefreshedShape, Caches, Constants
<1>4. KeysDiffer(r) /\ \A k : HasKey(r, k) => k = KeyOf(c) \/ HasKey(cache[o], k) BY <1>1, RefreshedShape
<1>5. CASE n <= CacheSize
  <2>1. Remembered(o, c) = r BY <1>1, <1>2, <1>5, Constants DEF Remembered
  <2>2. QED BY <1>1, <1>2, <1>4, <1>5, <2>1
<1>6. CASE ~(n <= CacheSize)
  <2>1. Remembered(o, c) = Tail(r) BY <1>1, <1>2, <1>6, Constants DEF Remembered
  <2>2. r # << >> BY <1>2, <1>6, Constants
  <2>3. PICK q : q = Tail(r) OBVIOUS
  <2>4. q \in Seq(CacheEntry) /\ Len(q) = n - 1 /\ \A i \in 1 .. n - 1 : q[i] = r[i + 1]
    BY <1>2, <2>2, <2>3, HeadTailProperties
  <2>5. DOMAIN q = 1 .. n - 1 BY <2>4
  <2>6. KeysDiffer(q)
    <3> SUFFICES ASSUME NEW j \in 1 .. n - 1, NEW k \in 1 .. n - 1, q[j].key = q[k].key PROVE j = k
      BY <2>5 DEF KeysDiffer
    <3>1. r[j + 1].key = r[k + 1].key BY <2>4
    <3>2. j + 1 = k + 1 BY <1>2, <1>4, <3>1 DEF KeysDiffer
    <3>3. QED BY <3>2
  <2>7. \A k : HasKey(q, k) => HasKey(r, k)
    <3> SUFFICES ASSUME NEW k, NEW i \in 1 .. n - 1, q[i].key = k PROVE HasKey(r, k) BY <2>5 DEF HasKey
    <3>1. i + 1 \in 1 .. n /\ r[i + 1].key = k BY <2>4
    <3>2. QED BY <1>2, <3>1 DEF HasKey
  <2>8. Len(q) <= CacheSize BY <1>3, <2>4, Constants
  <2>9. QED BY <1>1, <1>2, <1>4, <1>6, <2>1, <2>3, <2>4, <2>6, <2>7, <2>8
<1>7. QED BY <1>5, <1>6
-----------------------------------------------------------------------------
(* Moves of one worker *)

LEMMA Workers ==
  ASSUME TypeOK, NEW c \in Cmds
  PROVE  /\ worker[c] \in Worker /\ worker[c].conn \in 0 .. MaxConns /\ worker[c].obj \in Objs \cup {None}
         /\ worker[c].pc \in {"new", "queued", "started", "replacing", "rebound", "bound", "checked",
                              "running", "over"}
  BY DEF TypeOK, Worker

LEMMA Moved ==
  ASSUME TypeOK, NEW c \in Cmds, NEW w \in Worker, worker' = [worker EXCEPT ![c] = w]
  PROVE  /\ worker' \in [Cmds -> Worker] /\ worker'[c] = w
         /\ \A d \in Cmds : d # c => worker'[d] = worker[d]
  BY DEF TypeOK

\* A worker that ends.
LEMMA EndsMoves ==
  ASSUME TypeOK, NEW c \in Cmds, Ends(c)
  PROVE  \E w \in Worker : worker' = [worker EXCEPT ![c] = w] /\ w.pc = "over"
<1>1. PICK w : w = [pc |-> "over", conn |-> 0, obj |-> None] OBVIOUS
<1>2. w \in Worker /\ w.pc = "over" BY <1>1, Constants DEF Worker
<1>3. QED BY <1>1, <1>2 DEF Ends

\* A worker whose point alone changes.
LEMMA PointMoves ==
  ASSUME TypeOK, NEW c \in Cmds,
         NEW p \in {"queued", "started", "replacing", "rebound", "bound", "checked", "running"},
         worker' = [worker EXCEPT ![c].pc = p]
  PROVE  \E w \in Worker : /\ worker' = [worker EXCEPT ![c] = w]
                           /\ w.pc = p /\ w.conn = worker[c].conn /\ w.obj = worker[c].obj
<1>1. PICK v \in Worker : v = worker[c] BY Workers
<1>2. PICK w : w = [v EXCEPT !.pc = p] OBVIOUS
<1>3. w \in Worker /\ w.pc = p /\ w.conn = v.conn /\ w.obj = v.obj BY <1>2 DEF Worker
<1>4. worker' = [worker EXCEPT ![c] = w] BY <1>1, <1>2 DEF TypeOK
<1>5. QED BY <1>1, <1>3, <1>4

\* The worker neither takes nor gives back a mutation lock, nor rebinds its thread.  The
\* binding it works on is the thread's or the one it had.
QuietMove(c, w) ==
    /\ worker' = [worker EXCEPT ![c] = w]
    /\ worker[c].pc \notin {"running", "over"} /\ w.pc \notin {"running", "replacing"}
    /\ w.pc \notin {"new", "over"} => w.conn = conn /\ link # "down"
    /\ w.pc \in InHand => \/ w.obj # None /\ w.obj = bound[CmdOf[c].thread]
                          \/ worker[c].pc \in InHand /\ w.obj = worker[c].obj
    /\ w.pc = "checked" => /\ CmdOf[c].kind \in {"mutate", "read"}
                           /\ session[w.obj] # None /\ session[w.obj].sid = CmdOf[c].sid

\* What the sessions must satisfy after a step.
SessionsOK ==
    /\ session \in [Objs -> Session \cup {None}]
    /\ \A o \in Objs : o > opened => session[o] = None
    /\ SessInv

LEMMA QuietStep ==
  ASSUME AgentInv, NEW c \in Cmds, NEW w \in Worker, QuietMove(c, w),
         UNCHANGED <<link, conn, live, bound, opened, cache, holder>>, SessionsOK',
         late' \in SUBSET Cmds, expired' \in SUBSET Objs, executed' \in SUBSET Cmds,
         newest' \in [Threads -> Nat]
  PROVE  AgentInv'
<1>0. TypeOK BY DEF AgentInv
<1>1. /\ worker' \in [Cmds -> Worker] /\ worker'[c] = w
      /\ \A d \in Cmds : d # c => worker'[d] = worker[d]
  BY <1>0, Moved DEF QuietMove
<1>2. PICK t \in Threads : t = CmdOf[c].thread BY Commands
<1>3. TypeOK' BY <1>0, <1>1 DEF TypeOK, SessionsOK
<1>4. ConnInv' BY <1>1 DEF AgentInv, ConnInv, Active, QuietMove
<1>5. w.pc \in InHand => w.obj \in Objs /\ w.obj <= opened
  <2>1. CASE w.obj # None /\ w.obj = bound[t] BY <1>0, <2>1, Objects DEF AgentInv, BindInv
  <2>2. CASE worker[c].pc \in InHand /\ w.obj = worker[c].obj BY <2>2 DEF AgentInv, BindInv
  <2>3. QED BY <1>2, <2>1, <2>2 DEF QuietMove
<1>6. BindInv' BY <1>1, <1>5 DEF AgentInv, BindInv, QuietMove, SessionsOK
<1>7. OwnInv'
  <2> SUFFICES ASSUME NEW o \in Objs PROVE \E s \in Threads \cup {None} : Owns(s, o)' BY DEF OwnInv
  <2>1. PICK s \in Threads \cup {None} : Owns(s, o) BY DEF AgentInv, OwnInv
  <2>2. \A r \in Threads : bound'[r] = o => r = s BY <2>1 DEF Owns
  <2>3. w.pc \in InHand /\ w.obj = o => t = s BY <1>2, <2>1 DEF Owns, QuietMove
  <2>4. \A d \in Cmds : worker'[d].pc \in InHand /\ worker'[d].obj = o => CmdOf[d].thread = s
    BY <1>1, <1>2, <2>1, <2>3 DEF Owns
  <2>5. \A i \in DOMAIN cache'[o] : \E d \in Mutations(s) : cache'[o][i].key = KeyOf(d) BY <2>1 DEF Owns
  <2>6. QED BY <2>2, <2>4, <2>5 DEF Owns
<1>8. LockInv' BY <1>1 DEF AgentInv, LockInv, QuietMove
<1>9. CacheInv' BY <1>1 DEF AgentInv, CacheInv, QuietMove
<1>10. QED BY <1>3, <1>4, <1>6, <1>7, <1>8, <1>9 DEF AgentInv, SessionsOK

LEMMA SameSessions ==
  ASSUME AgentInv, UNCHANGED <<live, bound, opened, session>>
  PROVE  SessionsOK'
  BY DEF AgentInv, TypeOK, BindInv, SessInv, SessionsOK

LEMMA LiveWorker ==
  ASSUME AgentInv, NEW c \in Cmds, Active(c)
  PROVE  worker[c].conn = conn /\ link # "down" /\ live = conn
  BY DEF AgentInv, ConnInv
-----------------------------------------------------------------------------
(* What the steps come to *)

\* A step of which others see nothing but where the worker is.
OnlyWorker(c) ==
    /\ \E w \in Worker : QuietMove(c, w)
    /\ UNCHANGED <<link, conn, live, bound, opened, session, cache, holder, late, expired, executed, newest>>

LEMMA EndsQuietly ==
  ASSUME AgentInv, NEW c \in Cmds, Ends(c), worker[c].pc \notin {"running", "over"}
  PROVE  \E w \in Worker : QuietMove(c, w) /\ w.pc = "over"
<1>1. PICK w \in Worker : worker' = [worker EXCEPT ![c] = w] /\ w.pc = "over" BY EndsMoves DEF AgentInv
<1>2. QuietMove(c, w) BY <1>1 DEF QuietMove, InHand
<1>3. QED BY <1>1, <1>2

LEMMA SubmitIsQuiet ==
  ASSUME AgentInv, NEW c \in Cmds, Submit(c)
  PROVE  OnlyWorker(c)
<1>0. TypeOK BY DEF AgentInv
<1>1. CASE Ends(c) BY <1>1, EndsQuietly DEF Submit, OnlyWorker
<1>2. CASE worker' = [worker EXCEPT ![c].pc = "queued", ![c].conn = conn]
  <2>1. PICK v \in Worker : v = worker[c] BY <1>0, Workers
  <2>2. PICK n \in 0 .. MaxConns : n = conn BY <1>0 DEF TypeOK
  <2>3. PICK w : w = [v EXCEPT !.pc = "queued", !.conn = n] OBVIOUS
  <2>4. w \in Worker /\ w.pc = "queued" /\ w.conn = n BY <2>3 DEF Worker
  <2>5. worker' = [worker EXCEPT ![c] = w] BY <1>0, <1>2, <2>1, <2>2, <2>3 DEF TypeOK
  <2>6. QuietMove(c, w) BY <2>2, <2>4, <2>5 DEF QuietMove, InHand, Submit
  <2>7. QED BY <2>4, <2>6 DEF OnlyWorker, Submit
<1>3. QED BY <1>1, <1>2 DEF Submit

LEMMA PermitIsQuiet ==
  ASSUME AgentInv, NEW c \in Cmds, Permit(c)
  PROVE  OnlyWorker(c)
<1>1. PICK w \in Worker : /\ worker' = [worker EXCEPT ![c] = w] /\ w.pc = "started"
                          /\ w.conn = worker[c].conn /\ w.obj = worker[c].obj
  BY PointMoves DEF AgentInv, Permit
<1>2. worker[c].conn = conn /\ link # "down" BY LiveWorker DEF Permit, Active
<1>3. QuietMove(c, w) BY <1>1, <1>2 DEF QuietMove, InHand, Permit
<1>4. QED BY <1>3 DEF OnlyWorker, Permit

LEMMA CancelledIsQuiet ==
  ASSUME AgentInv, NEW c \in Cmds, Cancelled(c) \/ Read(c) \/ CancelledInLine(c)
  PROVE  OnlyWorker(c)
<1>1. Ends(c) /\ worker[c].pc \notin {"running", "over"} BY DEF Cancelled, Read, CancelledInLine
<1>2. \E w \in Worker : QuietMove(c, w) BY <1>1, EndsQuietly
<1>3. QED BY <1>2 DEF OnlyWorker, Cancelled, Read, CancelledInLine

LEMMA FetchIsQuiet ==
  ASSUME AgentInv, NEW c \in Cmds, FetchProject(c)
  PROVE  OnlyWorker(c)
<1>0. TypeOK BY DEF AgentInv
<1>1. worker[c].pc \in {"rebound", "started"} BY DEF FetchProject
<1>2. CASE Ends(c)
  <2>1. \E w \in Worker : QuietMove(c, w) BY <1>1, <1>2, EndsQuietly
  <2>2. QED BY <2>1 DEF OnlyWorker, FetchProject
<1>3. CASE ~ Ends(c)
  <2>1. PICK t \in Threads : t = CmdOf[c].thread BY Commands
  <2>2. bound[t] # None /\ worker' = [worker EXCEPT ![c].pc = "bound", ![c].obj = bound[t]]
    BY <1>3, <2>1 DEF FetchProject
  <2>3. PICK o \in Objs : o = bound[t] BY <1>0, <2>2, Objects
  <2>4. PICK v \in Worker : v = worker[c] BY <1>0, Workers
  <2>5. PICK w : w = [v EXCEPT !.pc = "bound", !.obj = o] OBVIOUS
  <2>6. w \in Worker /\ w.pc = "bound" /\ w.conn = v.conn /\ w.obj = o BY <2>5 DEF Worker
  <2>7. worker' = [worker EXCEPT ![c] = w] BY <1>0, <2>2, <2>3, <2>4, <2>5 DEF TypeOK
  <2>8. worker[c].conn = conn /\ link # "down" BY <1>1, LiveWorker DEF Active
  <2>9. QuietMove(c, w) BY <1>1, <2>1, <2>2, <2>3, <2>4, <2>6, <2>7, <2>8 DEF QuietMove, InHand
  <2>10. QED BY <2>6, <2>9 DEF OnlyWorker, FetchProject
<1>4. QED BY <1>2, <1>3

LEMMA RequireIsQuiet ==
  ASSUME AgentInv, NEW c \in Cmds, RequireSession(c)
  PROVE  OnlyWorker(c)
<1>1. CASE Ends(c)
  <2>1. \E w \in Worker : QuietMove(c, w) BY <1>1, EndsQuietly DEF RequireSession
  <2>2. QED BY <2>1 DEF OnlyWorker, RequireSession
<1>2. CASE ~ Ends(c)
  <2>1. /\ worker' = [worker EXCEPT ![c].pc = "checked"] /\ worker[c].pc = "bound"
        /\ CmdOf[c].kind \in {"mutate", "read"}
        /\ session[worker[c].obj] # None /\ session[worker[c].obj].sid = CmdOf[c].sid
    BY <1>2 DEF RequireSession
  <2>2. PICK w \in Worker : /\ worker' = [worker EXCEPT ![c] = w] /\ w.pc = "checked"
                            /\ w.conn = worker[c].conn /\ w.obj = worker[c].obj
    BY <2>1, PointMoves DEF AgentInv
  <2>3. worker[c].conn = conn /\ link # "down" BY <2>1, LiveWorker DEF Active
  <2>4. QuietMove(c, w) BY <2>1, <2>2, <2>3 DEF QuietMove, InHand
  <2>5. QED BY <2>4 DEF OnlyWorker, RequireSession
<1>3. QED BY <1>1, <1>2

\* A device session that binds its thread to a new project.
Rebinds(c) ==
    LET t == CmdOf[c].thread IN
    /\ worker[c].pc = "started" /\ CmdOf[c].kind = "device"
    /\ opened < MaxObjs /\ opened' = opened + 1
    /\ bound' = [bound EXCEPT ![t] = opened + 1]
    /\ worker' = [worker EXCEPT ![c].pc = "replacing", ![c].obj = bound[t]]
    /\ UNCHANGED <<link, conn, live, session, cache, holder, late, expired, executed, newest>>

LEMMA BindDeviceCases ==
  ASSUME AgentInv, NEW c \in Cmds, BindDevice(c)
  PROVE  OnlyWorker(c) \/ Rebinds(c)
<1>1. CASE Ends(c) /\ UNCHANGED <<bound, opened>>
  <2>1. \E w \in Worker : QuietMove(c, w) BY <1>1, EndsQuietly DEF BindDevice
  <2>2. QED BY <1>1, <2>1 DEF OnlyWorker, BindDevice
<1>2. CASE ~(Ends(c) /\ UNCHANGED <<bound, opened>>) BY <1>2 DEF BindDevice, Rebinds
<1>3. QED BY <1>1, <1>2

\* A repeated request that gets the remembered result, and a mutation that starts.
Repeats(c) ==
    LET o == worker[c].obj IN
    /\ worker[c].pc = "checked" /\ CmdOf[c].kind = "mutate"
    /\ holder[o] = None /\ Cached(o, c) # {}
    /\ cache' = [cache EXCEPT ![o] = Refreshed(o, c)]
    /\ Ends(c)
    /\ UNCHANGED <<link, conn, live, bound, opened, session, holder, late, expired, executed, newest>>

TakesLock(c) ==
    LET o == worker[c].obj IN
    /\ worker[c].pc = "checked" /\ CmdOf[c].kind = "mutate"
    /\ holder[o] = None /\ Cached(o, c) = {}
    /\ worker' = [worker EXCEPT ![c].pc = "running"]
    /\ holder' = [holder EXCEPT ![o] = c]
    /\ UNCHANGED <<link, conn, live, bound, opened, session, cache, late, expired, executed, newest>>

LEMMA LockCases ==
  ASSUME AgentInv, NEW c \in Cmds, LockMutation(c)
  PROVE  OnlyWorker(c) \/ Repeats(c) \/ TakesLock(c)
<1>1. PICK o : o = worker[c].obj OBVIOUS
<1>2. CASE InTime(c) /\ Cached(o, c) = {}
  <2>1. UNCHANGED cache BY <1>1, <1>2 DEF LockMutation
  <2>2. QED BY <1>1, <1>2, <2>1 DEF LockMutation, TakesLock
<1>3. CASE ~(InTime(c) /\ Cached(o, c) = {})
  <2>1. Ends(c) /\ UNCHANGED holder /\ worker[c].pc = "checked" BY <1>1, <1>3 DEF LockMutation
  <2>2. CASE InTime(c) /\ \E i \in Cached(o, c) : cache[o][i].body = CmdOf[c].body
    <3>1. cache' = [cache EXCEPT ![o] = Refreshed(o, c)] /\ Cached(o, c) # {} BY <1>1, <2>2 DEF LockMutation
    <3>2. QED BY <1>1, <2>1, <3>1 DEF LockMutation, Repeats
  <2>3. CASE ~(InTime(c) /\ \E i \in Cached(o, c) : cache[o][i].body = CmdOf[c].body)
    <3>1. UNCHANGED cache BY <1>1, <2>3 DEF LockMutation
    <3>2. \E w \in Worker : QuietMove(c, w) BY <2>1, EndsQuietly
    <3>3. QED BY <2>1, <3>1, <3>2 DEF LockMutation, OnlyWorker
  <2>4. QED BY <2>2, <2>3
<1>4. QED BY <1>2, <1>3

\* Time passes, or nothing happens.
Passes == UNCHANGED <<link, conn, live, bound, opened, session, cache, holder, worker, executed, newest>>

LEMMA StepCases ==
  ASSUME AgentInv, [Next]_vars
  PROVE  \/ Connect \/ LinkCloses \/ Retire
         \/ \E c \in Cmds : \/ OnlyWorker(c) \/ Rebinds(c) \/ CloseReplaced(c) \/ Activate(c)
                            \/ Repeats(c) \/ TakesLock(c) \/ FinishMutation(c)
         \/ Passes /\ late' \in SUBSET Cmds /\ expired' \in SUBSET Objs
<1>1. CASE UNCHANGED vars BY <1>1 DEF vars, Passes, AgentInv, TypeOK
<1>2. ASSUME NEW c \in Cmds, DeadlinePasses(c) PROVE Passes /\ late' \in SUBSET Cmds /\ expired' \in SUBSET Objs
  BY <1>2 DEF DeadlinePasses, Passes, AgentInv, TypeOK
<1>3. ASSUME NEW o \in Objs, BindingExpires(o) PROVE Passes /\ late' \in SUBSET Cmds /\ expired' \in SUBSET Objs
  BY <1>3 DEF BindingExpires, Passes, AgentInv, TypeOK
<1>4. ASSUME NEW c \in Cmds, Submit(c) PROVE OnlyWorker(c) BY <1>4, SubmitIsQuiet
<1>5. ASSUME NEW c \in Cmds, WorkerStep(c)
      PROVE  \/ OnlyWorker(c) \/ Rebinds(c) \/ CloseReplaced(c) \/ Activate(c)
             \/ Repeats(c) \/ TakesLock(c) \/ FinishMutation(c)
  BY <1>5, PermitIsQuiet, CancelledIsQuiet, FetchIsQuiet, RequireIsQuiet, BindDeviceCases, LockCases DEF WorkerStep
<1>6. QED BY <1>1, <1>2, <1>3, <1>4, <1>5 DEF Next
-----------------------------------------------------------------------------
(* The invariant is kept *)

LEMMA InitEstablishes == Init => AgentInv
<1> SUFFICES ASSUME Init PROVE AgentInv OBVIOUS
<1>1. PICK n \in Nat : n = Cardinality(Threads) /\ n <= MaxObjs BY Constants
<1>2. PICK f \in [Threads -> 1 .. n] : (\A s, t \in Threads : f[s] = f[t] => s = t) /\ bound = f BY <1>1 DEF Init
<1>3. 1 .. n \subseteq Objs /\ opened = n BY <1>1, Constants DEF Objs, Init
<1>4. PICK w : w = [pc |-> "new", conn |-> 0, obj |-> None] OBVIOUS
<1>5. w \in Worker /\ w.pc = "new" BY <1>4, Constants DEF Worker
<1>6. \A c \in Cmds : worker[c] = w BY <1>4 DEF Init
<1>7. worker \in [Cmds -> Worker] BY <1>4, <1>5 DEF Init
<1>8. \A o \in Objs : cache[o] = << >> /\ Len(cache[o]) = 0 /\ cache[o] \in Seq(CacheEntry) /\ DOMAIN cache[o] = {}
  BY DEF Init
<1>9. cache \in [Objs -> Seq(CacheEntry)] BY <1>8 DEF Init
<1>10. TypeOK BY <1>1, <1>2, <1>3, <1>7, <1>8, <1>9, Constants DEF Init, TypeOK
<1>11. ConnInv BY <1>5, <1>6 DEF Init, ConnInv, Active
<1>12. BindInv BY <1>2, <1>3, <1>5, <1>6, <1>8 DEF Init, BindInv, InHand
<1>13. OwnInv
  <2> SUFFICES ASSUME NEW o \in Objs PROVE \E t \in Threads \cup {None} : Owns(t, o) BY DEF OwnInv
  <2>1. \A t : (\A s \in Threads : bound[s] = o => s = t) => Owns(t, o) BY <1>5, <1>6, <1>8 DEF Owns, InHand
  <2>2. CASE \E t \in Threads : bound[t] = o BY <1>2, <2>1, <2>2
  <2>3. CASE ~ \E t \in Threads : bound[t] = o BY <2>1, <2>3
  <2>4. QED BY <2>2, <2>3
<1>14. LockInv BY <1>5, <1>6, Constants DEF Init, LockInv
<1>15. SessInv BY <1>2, <1>3 DEF Init, SessInv
<1>16. CacheInv BY <1>5, <1>6, <1>8 DEF CacheInv, KeysDiffer
<1>17. QED BY <1>10, <1>11, <1>12, <1>13, <1>14, <1>15, <1>16 DEF AgentInv

LEMMA OnlyWorkerKeeps ==
  ASSUME AgentInv, NEW c \in Cmds, OnlyWorker(c)
  PROVE  AgentInv'
<1>1. PICK w \in Worker : QuietMove(c, w) BY DEF OnlyWorker
<1>2. SessionsOK' BY SameSessions DEF OnlyWorker
<1>3. /\ late' \in SUBSET Cmds /\ expired' \in SUBSET Objs /\ executed' \in SUBSET Cmds
      /\ newest' \in [Threads -> Nat]
  BY DEF AgentInv, TypeOK, OnlyWorker
<1>4. QED BY <1>1, <1>2, <1>3, QuietStep DEF OnlyWorker

LEMMA PassesKeeps ==
  ASSUME AgentInv, Passes, late' \in SUBSET Cmds, expired' \in SUBSET Objs
  PROVE  AgentInv'
<1>1. TypeOK' BY DEF AgentInv, TypeOK, Passes
<1>2. ConnInv' /\ BindInv' /\ LockInv' /\ SessInv' /\ CacheInv'
  BY DEF AgentInv, ConnInv, Active, BindInv, LockInv, SessInv, CacheInv, HasKey, KeysDiffer, Passes
<1>3. OwnInv'
  <2> SUFFICES ASSUME NEW o \in Objs PROVE \E t \in Threads \cup {None} : Owns(t, o)' BY DEF OwnInv
  <2>1. PICK t \in Threads \cup {None} : Owns(t, o) BY DEF AgentInv, OwnInv
  <2>2. QED BY <2>1 DEF Owns, Passes
<1>4. QED BY <1>1, <1>2, <1>3 DEF AgentInv

\* A new connection, its end, and the sessions that are closed with it.
LEMMA LinkKeeps ==
  ASSUME AgentInv, Connect \/ LinkCloses \/ Retire
  PROVE  AgentInv'
<1>0. TypeOK BY DEF AgentInv
<1>1. UNCHANGED <<bound, opened, cache, holder, worker, late, expired, executed>> BY DEF Connect, LinkCloses, Retire
<1>2. ConnInv' /\ link' \in {"down", "serving", "closing"} /\ conn' \in 0 .. MaxConns
      /\ live' \in 1 .. MaxConns \cup {None} /\ newest' \in [Threads -> Nat]
  <2>1. CASE Connect
    <3>1. conn' = conn + 1 /\ live' = conn + 1 /\ conn \in 0 .. MaxConns /\ conn < MaxConns
      BY <1>0, <2>1 DEF Connect, NextGeneration, TypeOK
    <3>2. conn' \in 1 .. MaxConns BY <3>1, Constants
    <3>3. newest' \in [Threads -> Nat] BY <2>1 DEF Connect
    <3>4. ConnInv' BY <1>1, <2>1, <3>1 DEF AgentInv, ConnInv, Active, Connect
    <3>5. QED BY <2>1, <3>1, <3>2, <3>3, <3>4 DEF Connect
  <2>2. CASE LinkCloses
    <3>1. ConnInv' BY <1>1, <2>2 DEF AgentInv, ConnInv, Active, LinkCloses
    <3>2. QED BY <1>0, <2>2, <3>1 DEF LinkCloses, TypeOK
  <2>3. CASE Retire
    <3>1. ConnInv' BY <1>1, <2>3 DEF AgentInv, ConnInv, Active, Retire, Joined
    <3>2. QED BY <1>0, <2>3, <3>1 DEF Retire, TypeOK
  <2>4. QED BY <2>1, <2>2, <2>3
<1>3. /\ session' \in [Objs -> Session \cup {None}]
      /\ \A o \in Objs : session[o] = None => session'[o] = None
      /\ SessInv'
  <2>1. CASE session' = WithoutBoundSessions
    <3>1. session' \in [Objs -> Session \cup {None}] BY <1>0, <2>1 DEF WithoutBoundSessions, TypeOK
    <3>2. \A o \in Objs : session[o] = None => session'[o] = None BY <2>1 DEF WithoutBoundSessions
    <3>3. \A t \in Threads : bound[t] # None => session'[bound[t]] = None
      BY <1>0, <2>1, Objects DEF WithoutBoundSessions, Bound
    <3>4. QED BY <1>1, <3>1, <3>2, <3>3 DEF SessInv
  <2>2. CASE LinkCloses BY <1>0, <2>2 DEF LinkCloses, AgentInv, SessInv, TypeOK
  <2>3. QED BY <2>1, <2>2 DEF Connect, Retire
<1>4. TypeOK' BY <1>0, <1>1, <1>2, <1>3 DEF TypeOK
<1>5. BindInv' BY <1>1, <1>3 DEF AgentInv, BindInv
<1>6. LockInv' /\ CacheInv' BY <1>1 DEF AgentInv, LockInv, CacheInv, HasKey, KeysDiffer
<1>7. OwnInv'
  <2> SUFFICES ASSUME NEW o \in Objs PROVE \E t \in Threads \cup {None} : Owns(t, o)' BY DEF OwnInv
  <2>1. PICK t \in Threads \cup {None} : Owns(t, o) BY DEF AgentInv, OwnInv
  <2>2. QED BY <1>1, <2>1 DEF Owns
<1>8. QED BY <1>2, <1>3, <1>4, <1>5, <1>6, <1>7 DEF AgentInv

\* The facts about CloseReplaced that the invariants need.
LEMMA CloseFacts ==
  ASSUME AgentInv, NEW c \in Cmds, CloseReplaced(c)
  PROVE  /\ \E w \in Worker : QuietMove(c, w) /\ w.pc \notin InHand
         /\ session' \in [Objs -> Session \cup {None}]
         /\ \A o \in Objs : session'[o] \in {session[o], None}
         /\ \A t \in Threads : bound[t] # None => session'[bound[t]] = session[bound[t]]
         /\ UNCHANGED <<link, conn, live, bound, opened, cache, holder, late, expired, executed, newest>>
<1>0. TypeOK BY DEF AgentInv
<1>1. \E w \in Worker : QuietMove(c, w) /\ w.pc \notin InHand
  <2>1. CASE Ends(c)
    <3>1. PICK w \in Worker : QuietMove(c, w) /\ w.pc = "over" BY <2>1, EndsQuietly DEF CloseReplaced
    <3>2. QED BY <3>1 DEF InHand
  <2>2. CASE worker' = [worker EXCEPT ![c].pc = "rebound"]
    <3>1. PICK w \in Worker : /\ worker' = [worker EXCEPT ![c] = w] /\ w.pc = "rebound"
                              /\ w.conn = worker[c].conn /\ w.obj = worker[c].obj
      BY <1>0, <2>2, PointMoves
    <3>2. worker[c].conn = conn /\ link # "down" BY LiveWorker DEF CloseReplaced, Active
    <3>3. QuietMove(c, w) /\ w.pc \notin InHand BY <3>1, <3>2 DEF QuietMove, InHand, CloseReplaced
    <3>4. QED BY <3>3
  <2>3. QED BY <2>1, <2>2 DEF CloseReplaced
<1>2. PICK old \in Objs \cup {None} : old = worker[c].obj BY <1>0, Workers
<1>3. CASE old = None
  <2>1. session' = session BY <1>2, <1>3 DEF CloseReplaced
  <2>2. QED BY <1>0, <1>1, <2>1, Objects DEF CloseReplaced, TypeOK
<1>4. CASE old # None
  <2>1. session' = [session EXCEPT ![old] = None] /\ worker[c].pc = "replacing" BY <1>2, <1>4 DEF CloseReplaced
  <2>2. \A t \in Threads : bound[t] # old BY <1>2, <1>4, <2>1 DEF AgentInv, BindInv
  <2>3. \A o \in Objs : session'[o] = IF o = old THEN None ELSE session[o] BY <1>0, <2>1 DEF TypeOK
  <2>4. session' \in [Objs -> Session \cup {None}] BY <1>0, <2>1 DEF TypeOK
  <2>5. \A t \in Threads : bound[t] # None => session'[bound[t]] = session[bound[t]] BY <1>0, <2>2, <2>3, Objects
  <2>6. \A o \in Objs : session'[o] \in {session[o], None} BY <2>3
  <2>7. QED BY <1>1, <2>4, <2>5, <2>6 DEF CloseReplaced
<1>5. QED BY <1>3, <1>4

LEMMA CloseKeeps ==
  ASSUME AgentInv, NEW c \in Cmds, CloseReplaced(c)
  PROVE  AgentInv'
<1>1. /\ session' \in [Objs -> Session \cup {None}]
      /\ \A o \in Objs : session'[o] \in {session[o], None}
      /\ \A t \in Threads : bound[t] # None => session'[bound[t]] = session[bound[t]]
      /\ UNCHANGED <<link, conn, live, bound, opened, cache, holder, late, expired, executed, newest>>
  BY CloseFacts
<1>2. PICK w \in Worker : QuietMove(c, w) BY CloseFacts
<1>3. SessInv' BY <1>1 DEF AgentInv, SessInv
<1>4. SessionsOK' BY <1>1, <1>3 DEF AgentInv, BindInv, SessionsOK
<1>5. /\ late' \in SUBSET Cmds /\ expired' \in SUBSET Objs /\ executed' \in SUBSET Cmds
      /\ newest' \in [Threads -> Nat]
  BY <1>1 DEF AgentInv, TypeOK
<1>6. QED BY <1>1, <1>2, <1>4, <1>5, QuietStep

\* The facts about Activate that the invariants need: nothing but the worker, or a
\* session of this connection that is newer than the one it replaces.
LEMMA ActivateFacts ==
  ASSUME AgentInv, NEW c \in Cmds, Activate(c)
  PROVE  /\ \E w \in Worker : QuietMove(c, w) /\ w.pc = "over"
         /\ worker[c].pc = "bound" /\ CmdOf[c].kind \in {"project", "device"}
         /\ UNCHANGED <<link, conn, live, bound, opened, cache, holder, late, expired, executed>>
         /\ \/ UNCHANGED <<session, newest>>
            \/ \E o \in Objs, fresh \in Session :
                 /\ o = worker[c].obj /\ o <= opened /\ session' = [session EXCEPT ![o] = fresh]
                 /\ fresh.conn = live /\ fresh.sid = CmdOf[c].sid /\ fresh.generation = CmdOf[c].generation
                 /\ session[o] # None => CmdOf[c].generation > session[o].generation
                 /\ \/ newest' = [newest EXCEPT ![CmdOf[c].thread] =
                          IF @ > CmdOf[c].generation THEN @ ELSE CmdOf[c].generation]
                    \/ session[o] # None /\ UNCHANGED newest
<1>0. TypeOK BY DEF AgentInv
<1>1. Ends(c) /\ worker[c].pc = "bound" /\ CmdOf[c].kind \in {"project", "device"} BY DEF Activate
<1>2. \E w \in Worker : QuietMove(c, w) /\ w.pc = "over" BY <1>1, EndsQuietly
<1>3. PICK o \in Objs : o = worker[c].obj /\ o <= opened BY <1>1 DEF AgentInv, BindInv, InHand
<1>4. PICK mine \in Nat : mine = worker[c].conn BY <1>0, Workers, Constants
<1>5. PICK g \in Nat : g = CmdOf[c].generation BY Commands
<1>6. PICK id \in Sids : id = CmdOf[c].sid BY Commands
<1>7. PICK fresh : fresh = [conn |-> mine, generation |-> g, sid |-> id] OBVIOUS
<1>8. fresh \in Session /\ fresh.conn = mine /\ fresh.generation = g /\ fresh.sid = id BY <1>7 DEF Session
<1>9. CASE UNCHANGED <<session, newest>> BY <1>1, <1>2, <1>9 DEF Activate
<1>10. CASE ~ UNCHANGED <<session, newest>>
  <2>1. /\ live = mine /\ Newer(CmdOf[c], mine, session[o])
        /\ session' = [session EXCEPT ![o] = fresh]
        /\ \/ newest' = [newest EXCEPT ![CmdOf[c].thread] = IF @ > CmdOf[c].generation THEN @ ELSE CmdOf[c].generation]
           \/ session[o] # None /\ UNCHANGED newest
    BY <1>3, <1>4, <1>5, <1>6, <1>7, <1>10 DEF Activate
  <2>2. session[o] # None => CmdOf[c].generation > session[o].generation BY <2>1 DEF Newer
  <2>3. /\ o = worker[c].obj /\ o <= opened /\ fresh.conn = live
        /\ fresh.sid = CmdOf[c].sid /\ fresh.generation = CmdOf[c].generation
    BY <1>3, <1>5, <1>6, <1>8, <2>1
  <2>4. QED BY <1>1, <1>2, <1>8, <2>1, <2>2, <2>3 DEF Activate
<1>11. QED BY <1>9, <1>10

LEMMA ActivateKeeps ==
  ASSUME AgentInv, NEW c \in Cmds, Activate(c)
  PROVE  AgentInv'
<1>0. TypeOK BY DEF AgentInv
<1>1. UNCHANGED <<link, conn, live, bound, opened, cache, holder, late, expired, executed>> BY ActivateFacts
<1>2. PICK w \in Worker : QuietMove(c, w) BY ActivateFacts
<1>3. late' \in SUBSET Cmds /\ expired' \in SUBSET Objs /\ executed' \in SUBSET Cmds BY <1>0, <1>1 DEF TypeOK
<1>4. CASE UNCHANGED <<session, newest>>
  <2>1. SessionsOK' BY <1>1, <1>4, SameSessions
  <2>2. newest' \in [Threads -> Nat] BY <1>0, <1>4 DEF TypeOK
  <2>3. QED BY <1>1, <1>2, <1>3, <2>1, <2>2, QuietStep
<1>5. CASE ~ UNCHANGED <<session, newest>>
  <2>1. PICK o \in Objs, fresh \in Session :
          /\ o = worker[c].obj /\ o <= opened /\ session' = [session EXCEPT ![o] = fresh] /\ fresh.conn = live
          /\ \/ newest' = [newest EXCEPT ![CmdOf[c].thread] = IF @ > CmdOf[c].generation THEN @ ELSE CmdOf[c].generation]
             \/ UNCHANGED newest
    BY <1>5, ActivateFacts
  <2>2. newest' \in [Threads -> Nat] BY <1>0, <2>1, Commands DEF TypeOK
  <2>3. \A p \in Objs : session'[p] = IF p = o THEN fresh ELSE session[p] BY <1>0, <2>1 DEF TypeOK
  <2>4. session' \in [Objs -> Session \cup {None}] BY <1>0, <2>1 DEF TypeOK
  <2>5. SessInv' BY <1>0, <1>1, <2>1, <2>3, Objects DEF AgentInv, SessInv
  <2>6. \A p \in Objs : p > opened => p # o BY <1>0, <2>1, Objects
  <2>7. SessionsOK' BY <1>1, <2>3, <2>4, <2>5, <2>6 DEF AgentInv, BindInv, SessionsOK
  <2>8. QED BY <1>1, <1>2, <1>3, <2>2, <2>7, QuietStep
<1>6. QED BY <1>4, <1>5
\* The facts about rebinding that the invariants need.
LEMMA RebindFacts ==
  ASSUME AgentInv, NEW c \in Cmds, Rebinds(c)
  PROVE  \E w \in Worker, t \in Threads, o \in Objs :
           /\ t = CmdOf[c].thread /\ o = opened + 1 /\ opened' = o
           /\ bound' = [bound EXCEPT ![t] = o]
           /\ worker' = [worker EXCEPT ![c] = w]
           /\ w.pc = "replacing" /\ w.conn = worker[c].conn /\ w.obj = bound[t]
<1>0. TypeOK BY DEF AgentInv
<1>1. PICK t \in Threads : t = CmdOf[c].thread BY Commands
<1>2. PICK o \in Objs : o = opened + 1 BY <1>0, Objects, Constants DEF Rebinds, Objs
<1>3. PICK old \in Objs \cup {None} : old = bound[t] BY <1>0 DEF TypeOK
<1>4. PICK v \in Worker : v = worker[c] BY <1>0, Workers
<1>5. PICK w : w = [v EXCEPT !.pc = "replacing", !.obj = old] OBVIOUS
<1>6. w \in Worker /\ w.pc = "replacing" /\ w.conn = v.conn /\ w.obj = old BY <1>5 DEF Worker
<1>7. worker' = [worker EXCEPT ![c] = w] BY <1>0, <1>1, <1>3, <1>4, <1>5 DEF Rebinds, TypeOK
<1>8. bound' = [bound EXCEPT ![t] = o] /\ opened' = o BY <1>1, <1>2 DEF Rebinds
<1>9. QED BY <1>1, <1>2, <1>3, <1>4, <1>6, <1>7, <1>8

LEMMA RebindKeeps ==
  ASSUME AgentInv, NEW c \in Cmds, Rebinds(c)
  PROVE  AgentInv'
<1>0. TypeOK BY DEF AgentInv
<1>1. UNCHANGED <<link, conn, live, session, cache, holder, late, expired, executed, newest>>
      /\ worker[c].pc = "started"
  BY DEF Rebinds
<1>2. PICK w \in Worker, t \in Threads, o \in Objs :
           /\ t = CmdOf[c].thread /\ o = opened + 1 /\ opened' = o
           /\ bound' = [bound EXCEPT ![t] = o]
           /\ worker' = [worker EXCEPT ![c] = w]
           /\ w.pc = "replacing" /\ w.conn = worker[c].conn /\ w.obj = bound[t]
  BY RebindFacts
<1>3. /\ worker' \in [Cmds -> Worker] /\ worker'[c] = w
      /\ \A d \in Cmds : d # c => worker'[d] = worker[d]
  BY <1>0, <1>2, Moved
<1>4. /\ bound' \in [Threads -> Objs \cup {None}] /\ bound'[t] = o
      /\ \A s \in Threads : s # t => bound'[s] = bound[s]
  BY <1>0, <1>2 DEF TypeOK
<1>5. opened' \in 0 .. MaxObjs /\ opened \in Nat /\ o \in Nat /\ o > opened
  BY <1>0, <1>2, Objects, Constants DEF Objs
<1>6. TypeOK' BY <1>0, <1>1, <1>3, <1>4, <1>5 DEF TypeOK
<1>7. link # "down" /\ worker[c].conn = conn BY <1>1, LiveWorker DEF Active
<1>8. ConnInv' BY <1>1, <1>2, <1>3, <1>7 DEF AgentInv, ConnInv, Active
<1>9. BindInv'
  <2>1. \A s \in Threads : bound'[s] # None => bound'[s] <= opened'
    BY <1>0, <1>2, <1>4, <1>5, Objects DEF AgentInv, BindInv
  <2>2. \A d \in Cmds : worker'[d].pc \in InHand => worker'[d].obj \in Objs /\ worker'[d].obj <= opened'
    <3> SUFFICES ASSUME NEW d \in Cmds, worker'[d].pc \in InHand
                 PROVE  worker'[d].obj \in Objs /\ worker'[d].obj <= opened'
      OBVIOUS
    <3>1. d # c BY <1>2, <1>3 DEF InHand
    <3>2. PICK p \in Objs : p = worker[d].obj /\ p <= opened BY <1>3, <3>1 DEF AgentInv, BindInv
    <3>3. p <= opened' BY <1>0, <1>2, <1>5, <3>2, Objects
    <3>4. QED BY <1>3, <3>1, <3>2, <3>3
  <2>3. ASSUME NEW d \in Cmds, worker'[d].pc = "replacing", worker'[d].obj # None
        PROVE  worker'[d].obj <= opened' /\ \A s \in Threads : bound'[s] # worker'[d].obj
    <3>1. PICK p \in Objs : p = worker'[d].obj BY <1>3, <2>3 DEF Worker
    <3>2. p <= opened /\ \A s \in Threads : bound'[s] # p
      <4>1. CASE d = c
        <5>1. p = bound[t] BY <1>2, <1>3, <3>1, <4>1
        <5>2. p <= opened BY <2>3, <3>1, <5>1 DEF AgentInv, BindInv
        <5>3. p # o BY <1>0, <1>5, <3>1, <5>2, Objects
        <5>4. \A s \in Threads : s # t => bound[s] # p
          <6>1. PICK r \in Threads \cup {None} : Owns(r, p) BY <3>1 DEF AgentInv, OwnInv
          <6>2. QED BY <5>1, <6>1 DEF Owns
        <5>5. QED BY <1>4, <5>2, <5>3, <5>4
      <4>2. CASE d # c
        <5>1. p <= opened /\ \A s \in Threads : bound[s] # p
          BY <1>3, <2>3, <3>1, <4>2 DEF AgentInv, BindInv
        <5>2. p # o BY <1>0, <1>5, <3>1, <5>1, Objects
        <5>3. QED BY <1>4, <5>1, <5>2
      <4>3. QED BY <4>1, <4>2
    <3>3. QED BY <1>0, <1>2, <1>5, <3>1, <3>2, Objects
  <2>4. \A p \in Objs : p > opened' => session'[p] = None /\ cache'[p] = << >>
    BY <1>0, <1>1, <1>2, <1>5, Objects DEF AgentInv, BindInv
  <2>5. QED BY <2>1, <2>2, <2>3, <2>4 DEF BindInv
<1>10. OwnInv'
  <2> SUFFICES ASSUME NEW p \in Objs PROVE \E s \in Threads \cup {None} : Owns(s, p)' BY DEF OwnInv
  <2>1. \A d \in Cmds : worker'[d].pc \in InHand => worker[d].pc \in InHand /\ worker'[d].obj = worker[d].obj
    BY <1>2, <1>3 DEF InHand
  <2>2. CASE p = o
    <3>1. \A s \in Threads : bound'[s] = o => s = t
      <4>1. \A s \in Threads : bound[s] # o BY <1>0, <1>5, Objects DEF AgentInv, BindInv
      <4>2. QED BY <1>4, <4>1
    <3>2. \A d \in Cmds : worker'[d].pc \in InHand => worker'[d].obj # o
      BY <1>0, <1>5, <2>1, Objects DEF AgentInv, BindInv
    <3>3. cache'[o] = << >> BY <1>1, <1>5 DEF AgentInv, BindInv
    <3>4. Owns(t, o)' BY <3>1, <3>2, <3>3 DEF Owns
    <3>5. QED BY <2>2, <3>4
  <2>3. CASE p # o
    <3>1. PICK s \in Threads \cup {None} : Owns(s, p) BY DEF AgentInv, OwnInv
    <3>2. \A r \in Threads : bound'[r] = p => r = s BY <1>4, <2>3, <3>1 DEF Owns
    <3>3. \A d \in Cmds : worker'[d].pc \in InHand /\ worker'[d].obj = p => CmdOf[d].thread = s
      BY <2>1, <3>1 DEF Owns
    <3>4. \A i \in DOMAIN cache'[p] : \E d \in Mutations(s) : cache'[p][i].key = KeyOf(d) BY <1>1, <3>1 DEF Owns
    <3>5. QED BY <3>2, <3>3, <3>4 DEF Owns
  <2>4. QED BY <2>2, <2>3
<1>11. LockInv' BY <1>1, <1>2, <1>3 DEF AgentInv, LockInv
<1>12. SessInv'
  <2> SUFFICES ASSUME NEW s \in Threads, bound'[s] # None, session'[bound'[s]] # None
               PROVE  session'[bound'[s]].conn = live'
    BY DEF SessInv
  <2>1. session[o] = None BY <1>5 DEF AgentInv, BindInv
  <2>2. s # t BY <1>1, <1>4, <2>1
  <2>3. QED BY <1>1, <1>4, <2>2 DEF AgentInv, SessInv
<1>13. CacheInv' BY <1>1, <1>2, <1>3 DEF AgentInv, CacheInv
<1>14. QED BY <1>6, <1>8, <1>9, <1>10, <1>11, <1>12, <1>13 DEF AgentInv

\* A step of the worker at its binding o that changes o's cache and lock alone.
LEMMA CacheStep ==
  ASSUME AgentInv, NEW c \in Cmds, NEW w \in Worker, NEW o \in Objs, o = worker[c].obj,
         worker' = [worker EXCEPT ![c] = w], worker[c].pc \in {"checked", "running"},
         CmdOf[c].kind = "mutate", worker[c].pc = "checked" => holder[o] = None,
         NEW h \in {c, None}, holder' = [holder EXCEPT ![o] = h],
         NEW q \in Seq(CacheEntry), cache' = [cache EXCEPT ![o] = q],
         (w.pc = "over" /\ h = None) \/ (w.pc = "running" /\ h = c),
         w.pc = "running" => w.conn = worker[c].conn /\ w.obj = o /\ ~ HasKey(q, KeyOf(c)),
         Len(q) <= CacheSize, KeysDiffer(q),
         \A k : HasKey(q, k) => k = KeyOf(c) \/ HasKey(cache[o], k),
         UNCHANGED <<link, conn, live, bound, opened, session, late, expired, newest>>,
         executed' \in SUBSET Cmds
  PROVE  AgentInv'
<1>0. TypeOK BY DEF AgentInv
<1>1. /\ worker' \in [Cmds -> Worker] /\ worker'[c] = w
      /\ \A d \in Cmds : d # c => worker'[d] = worker[d]
  BY <1>0, Moved
<1>2. /\ cache' \in [Objs -> Seq(CacheEntry)] /\ cache'[o] = q
      /\ \A p \in Objs : p # o => cache'[p] = cache[p]
  BY <1>0 DEF TypeOK
<1>3. /\ holder' \in [Objs -> Cmds \cup {None}] /\ \A p \in Objs : p # o => holder'[p] = holder[p]
      /\ w.pc = "over" => holder'[o] = None
      /\ w.pc = "running" => holder'[o] = c
  BY <1>0 DEF TypeOK
<1>4. w.pc \in {"over", "running"} /\ (w.pc = "running" => w.conn = worker[c].conn /\ w.obj = o) OBVIOUS
<1>5. \A p \in Objs : Len(cache'[p]) <= CacheSize BY <1>0, <1>2 DEF TypeOK
<1>6. TypeOK' BY <1>0, <1>1, <1>2, <1>3, <1>5 DEF TypeOK
<1>7. worker[c].conn = conn /\ link # "down" BY LiveWorker DEF Active
<1>8. ConnInv' BY <1>1, <1>4, <1>7 DEF AgentInv, ConnInv, Active
<1>9. o <= opened /\ ~(o > opened) BY <1>0, Objects DEF AgentInv, BindInv, InHand
<1>10. BindInv' BY <1>1, <1>2, <1>4, <1>9 DEF AgentInv, BindInv, InHand
<1>11. OwnInv'
  <2> SUFFICES ASSUME NEW p \in Objs PROVE \E s \in Threads \cup {None} : Owns(s, p)' BY DEF OwnInv
  <2>1. PICK s \in Threads \cup {None} : Owns(s, p) BY DEF AgentInv, OwnInv
  <2>2. \A r \in Threads : bound'[r] = p => r = s BY <2>1 DEF Owns
  <2>3. p = o => CmdOf[c].thread = s BY <2>1 DEF Owns, InHand
  <2>4. \A d \in Cmds : worker'[d].pc \in InHand /\ worker'[d].obj = p => CmdOf[d].thread = s
    BY <1>1, <1>4, <2>1, <2>3 DEF Owns, InHand
  <2>5. \A i \in DOMAIN cache'[p] : \E d \in Mutations(s) : cache'[p][i].key = KeyOf(d)
    <3>1. CASE p # o BY <1>2, <2>1, <3>1 DEF Owns
    <3>2. CASE p = o
      <4>1. c \in Mutations(s) BY <2>3, <3>2 DEF Mutations
      <4>2. ASSUME NEW i \in DOMAIN q PROVE \E d \in Mutations(s) : q[i].key = KeyOf(d)
        <5>1. HasKey(q, q[i].key) BY DEF HasKey
        <5>2. CASE q[i].key = KeyOf(c) BY <4>1, <5>2
        <5>3. CASE HasKey(cache[o], q[i].key)
          <6>1. PICK k : k = q[i].key OBVIOUS
          <6>2. \E d \in Mutations(s) : k = KeyOf(d) BY <2>1, <3>2, <5>3, <6>1 DEF Owns, HasKey
          <6>3. QED BY <6>1, <6>2
        <5>4. QED BY <5>1, <5>2, <5>3
      <4>3. QED BY <1>2, <3>2, <4>2
    <3>3. QED BY <3>1, <3>2
  <2>6. QED BY <2>2, <2>4, <2>5 DEF Owns
<1>12. \A d \in Cmds : d # c /\ worker[d].pc = "running" => worker[d].obj # o
  <2>1. holder[o] \in {c, None} BY DEF AgentInv, LockInv
  <2>2. QED BY <2>1, Constants DEF AgentInv, LockInv
<1>13. LockInv'
  <2> SUFFICES ASSUME NEW p \in Objs, NEW d \in Cmds
               PROVE  holder'[p] = d <=> worker'[d].pc = "running" /\ worker'[d].obj = p
    BY DEF LockInv
  <2>1. CASE d = c /\ p = o BY <1>1, <1>3, <1>4, <2>1, Constants
  <2>2. CASE d = c /\ p # o BY <1>1, <1>3, <1>4, <2>2 DEF AgentInv, LockInv
  <2>3. CASE d # c /\ p = o BY <1>1, <1>3, <1>4, <1>12, <2>3, Constants
  <2>4. CASE d # c /\ p # o BY <1>1, <1>3, <2>4 DEF AgentInv, LockInv
  <2>5. QED BY <2>1, <2>2, <2>3, <2>4
<1>14. SessInv' BY DEF AgentInv, SessInv
<1>15. CacheInv'
  <2>1. \A p \in Objs : KeysDiffer(cache'[p])
    <3>1. \A p \in Objs : KeysDiffer(cache[p]) BY DEF AgentInv, CacheInv
    <3>2. QED BY <1>2, <3>1
  <2>2. \A d \in Cmds : worker'[d].pc \in {"checked", "running"} => CmdOf[d].kind \in {"mutate", "read"}
    BY <1>1, <1>4 DEF AgentInv, CacheInv
  <2>3. ASSUME NEW d \in Cmds, worker'[d].pc = "running"
        PROVE  CmdOf[d].kind = "mutate" /\ ~ HasKey(cache'[worker'[d].obj], KeyOf(d))
    <3>1. CASE d = c
      <4>1. w.pc = "running" BY <1>1, <2>3, <3>1
      <4>2. w.obj = o /\ ~ HasKey(q, KeyOf(c)) BY <4>1
      <4>3. QED BY <1>1, <1>2, <3>1, <4>2
    <3>2. CASE d # c
      <4>1. PICK p \in Objs : p = worker[d].obj BY <1>1, <2>3, <3>2 DEF AgentInv, BindInv, InHand
      <4>2. p # o BY <1>1, <1>12, <2>3, <3>2, <4>1
      <4>3. CmdOf[d].kind = "mutate" /\ ~ HasKey(cache[p], KeyOf(d)) BY <1>1, <2>3, <3>2, <4>1 DEF AgentInv, CacheInv
      <4>4. cache'[worker'[d].obj] = cache[p] BY <1>1, <1>2, <3>2, <4>1, <4>2
      <4>5. QED BY <4>3, <4>4
    <3>3. QED BY <3>1, <3>2
  <2>4. QED BY <2>1, <2>2, <2>3 DEF CacheInv
<1>16. QED BY <1>6, <1>8, <1>10, <1>11, <1>13, <1>14, <1>15 DEF AgentInv
LEMMA RepeatKeeps ==
  ASSUME AgentInv, NEW c \in Cmds, Repeats(c)
  PROVE  AgentInv'
<1>0. TypeOK BY DEF AgentInv
<1>1. PICK w \in Worker : worker' = [worker EXCEPT ![c] = w] /\ w.pc = "over" BY <1>0, EndsMoves DEF Repeats
<1>2. PICK o \in Objs : o = worker[c].obj BY DEF Repeats, AgentInv, BindInv, InHand
<1>3. KeysDiffer(cache[o]) BY DEF AgentInv, CacheInv
<1>4. PICK q \in Seq(CacheEntry) : q = Refreshed(o, c) BY <1>0, <1>3, RefreshedShape
<1>5. /\ worker[c].pc = "checked" /\ CmdOf[c].kind = "mutate" /\ holder[o] = None /\ Cached(o, c) # {}
      /\ cache' = [cache EXCEPT ![o] = q] /\ holder' = holder
      /\ UNCHANGED <<link, conn, live, bound, opened, session, late, expired, executed, newest>>
  BY <1>2, <1>4 DEF Repeats
<1>6. holder' = [holder EXCEPT ![o] = None] BY <1>0, <1>5 DEF TypeOK
<1>7. Len(q) <= CacheSize BY <1>0, <1>3, <1>4, <1>5, RefreshedShape, Caches
<1>8. KeysDiffer(q) /\ \A k : HasKey(q, k) => k = KeyOf(c) \/ HasKey(cache[o], k) BY <1>0, <1>3, <1>4, RefreshedShape
<1>9. executed' \in SUBSET Cmds BY <1>0, <1>5 DEF TypeOK
<1>10. QED BY <1>1, <1>2, <1>5, <1>6, <1>7, <1>8, <1>9, CacheStep

LEMMA TakeLockKeeps ==
  ASSUME AgentInv, NEW c \in Cmds, TakesLock(c)
  PROVE  AgentInv'
<1>0. TypeOK BY DEF AgentInv
<1>1. PICK w \in Worker : /\ worker' = [worker EXCEPT ![c] = w]
                          /\ w.pc = "running" /\ w.conn = worker[c].conn /\ w.obj = worker[c].obj
  BY <1>0, PointMoves DEF TakesLock
<1>2. PICK o \in Objs : o = worker[c].obj BY DEF TakesLock, AgentInv, BindInv, InHand
<1>3. PICK q \in Seq(CacheEntry) : q = cache[o] BY <1>0, Caches
<1>4. /\ worker[c].pc = "checked" /\ CmdOf[c].kind = "mutate" /\ holder[o] = None
      /\ holder' = [holder EXCEPT ![o] = c] /\ cache' = cache
      /\ UNCHANGED <<link, conn, live, bound, opened, session, late, expired, newest>>
      /\ executed' \in SUBSET Cmds
  BY <1>0, <1>2 DEF TakesLock, TypeOK
<1>5. ~ HasKey(cache[o], KeyOf(c)) BY <1>2 DEF TakesLock, Cached, HasKey
<1>6. cache' = [cache EXCEPT ![o] = q] BY <1>0, <1>3, <1>4 DEF TypeOK
<1>7. Len(q) <= CacheSize /\ KeysDiffer(q) BY <1>0, <1>3, Caches DEF AgentInv, CacheInv
<1>8. \A k : HasKey(q, k) => k = KeyOf(c) \/ HasKey(cache[o], k) BY <1>3
<1>9. /\ w.pc = "running" /\ w.conn = worker[c].conn /\ w.obj = o /\ holder' = [holder EXCEPT ![o] = c]
      /\ ~ HasKey(q, KeyOf(c))
  BY <1>1, <1>2, <1>3, <1>4, <1>5
<1>10. worker[c].pc \in {"checked", "running"} /\ CmdOf[c].kind = "mutate" /\ holder[o] = None BY <1>4
<1>11. /\ UNCHANGED <<link, conn, live, bound, opened, session, late, expired, newest>>
       /\ executed' \in SUBSET Cmds /\ worker' = [worker EXCEPT ![c] = w]
  BY <1>1, <1>4
<1>12. QED BY <1>2, <1>6, <1>7, <1>8, <1>9, <1>10, <1>11, CacheStep

\* The facts about the end of a mutation that the invariants need.
LEMMA FinishFacts ==
  ASSUME AgentInv, NEW c \in Cmds, FinishMutation(c)
  PROVE  \E w \in Worker, o \in Objs, q \in Seq(CacheEntry) :
           /\ o = worker[c].obj /\ worker[c].pc = "running" /\ CmdOf[c].kind = "mutate" /\ o <= opened
           /\ worker' = [worker EXCEPT ![c] = w] /\ w.pc = "over"
           /\ holder' = [holder EXCEPT ![o] = None] /\ cache' = [cache EXCEPT ![o] = q]
           /\ \/ q = cache[o] /\ executed' = executed
              \/ q = Remembered(o, c) /\ executed' = executed \cup {c}
           /\ UNCHANGED <<link, conn, live, bound, opened, session, late, expired, newest>>
<1>0. TypeOK BY DEF AgentInv
<1>1. PICK w \in Worker : worker' = [worker EXCEPT ![c] = w] /\ w.pc = "over" BY <1>0, EndsMoves DEF FinishMutation
<1>2. PICK o \in Objs : o = worker[c].obj /\ o <= opened BY DEF FinishMutation, AgentInv, BindInv, InHand
<1>3. /\ worker[c].pc = "running" /\ holder' = [holder EXCEPT ![o] = None]
      /\ UNCHANGED <<link, conn, live, bound, opened, session, late, expired, newest>>
  BY <1>2 DEF FinishMutation
<1>4. CmdOf[c].kind = "mutate" BY <1>3 DEF AgentInv, CacheInv
<1>5. CASE UNCHANGED <<executed, cache>>
  <2>1. PICK q \in Seq(CacheEntry) : q = cache[o] BY <1>0, Caches
  <2>2. cache' = [cache EXCEPT ![o] = q] /\ executed' = executed BY <1>0, <1>5, <2>1 DEF TypeOK
  <2>3. QED BY <1>1, <1>2, <1>3, <1>4, <2>1, <2>2
<1>6. CASE ~ UNCHANGED <<executed, cache>>
  <2>1. cache' = [cache EXCEPT ![o] = Remembered(o, c)] /\ executed' = executed \cup {c}
    BY <1>2, <1>6 DEF FinishMutation
  <2>2. PICK q \in Seq(CacheEntry) : q = Remembered(o, c) BY <1>0, RememberedShape DEF AgentInv, CacheInv
  <2>3. QED BY <1>1, <1>2, <1>3, <1>4, <2>1, <2>2
<1>7. QED BY <1>5, <1>6

LEMMA FinishKeeps ==
  ASSUME AgentInv, NEW c \in Cmds, FinishMutation(c)
  PROVE  AgentInv'
<1>0. TypeOK BY DEF AgentInv
<1>1. PICK w \in Worker, o \in Objs, q \in Seq(CacheEntry) :
           /\ o = worker[c].obj /\ worker[c].pc = "running" /\ CmdOf[c].kind = "mutate" /\ o <= opened
           /\ worker' = [worker EXCEPT ![c] = w] /\ w.pc = "over"
           /\ holder' = [holder EXCEPT ![o] = None] /\ cache' = [cache EXCEPT ![o] = q]
           /\ \/ q = cache[o] /\ executed' = executed
              \/ q = Remembered(o, c) /\ executed' = executed \cup {c}
           /\ UNCHANGED <<link, conn, live, bound, opened, session, late, expired, newest>>
  BY FinishFacts
<1>2. KeysDiffer(cache[o]) BY DEF AgentInv, CacheInv
<1>3. Len(q) <= CacheSize /\ KeysDiffer(q) /\ \A k : HasKey(q, k) => k = KeyOf(c) \/ HasKey(cache[o], k)
  <2>1. CASE q = cache[o] BY <1>0, <1>2, <2>1, Caches
  <2>2. CASE q = Remembered(o, c) BY <1>0, <1>2, <2>2, RememberedShape
  <2>3. QED BY <1>1, <2>1, <2>2
<1>4. executed' \in SUBSET Cmds BY <1>0, <1>1 DEF TypeOK
<1>5. QED BY <1>1, <1>3, <1>4, CacheStep

LEMMA AgentStep == AgentInv /\ [Next]_vars => AgentInv'
<1> SUFFICES ASSUME AgentInv, [Next]_vars PROVE AgentInv' OBVIOUS
<1>1. CASE Connect \/ LinkCloses \/ Retire BY <1>1, LinkKeeps
<1>2. ASSUME NEW c \in Cmds, OnlyWorker(c) PROVE AgentInv' BY <1>2, OnlyWorkerKeeps
<1>3. ASSUME NEW c \in Cmds, Rebinds(c) PROVE AgentInv' BY <1>3, RebindKeeps
<1>4. ASSUME NEW c \in Cmds, CloseReplaced(c) PROVE AgentInv' BY <1>4, CloseKeeps
<1>5. ASSUME NEW c \in Cmds, Activate(c) PROVE AgentInv' BY <1>5, ActivateKeeps
<1>6. ASSUME NEW c \in Cmds, Repeats(c) PROVE AgentInv' BY <1>6, RepeatKeeps
<1>7. ASSUME NEW c \in Cmds, TakesLock(c) PROVE AgentInv' BY <1>7, TakeLockKeeps
<1>8. ASSUME NEW c \in Cmds, FinishMutation(c) PROVE AgentInv' BY <1>8, FinishKeeps
<1>9. CASE Passes /\ late' \in SUBSET Cmds /\ expired' \in SUBSET Objs BY <1>9, PassesKeeps
<1>10. QED BY <1>1, <1>2, <1>3, <1>4, <1>5, <1>6, <1>7, <1>8, <1>9, StepCases

LEMMA Invariance == Spec => []AgentInv
<1>1. Init => AgentInv BY InitEstablishes
<1>2. AgentInv /\ [Next]_vars => AgentInv' BY AgentStep
<1>3. QED BY <1>1, <1>2, PTL DEF Spec

LEMMA ConnectionLeavesNothing == AgentInv => NothingOutlivesItsConnection
<1> SUFFICES ASSUME AgentInv PROVE NothingOutlivesItsConnection OBVIOUS
<1>0. TypeOK BY DEF AgentInv
<1>1. ASSUME link = "down", NEW o \in Objs PROVE holder[o] = None
  <2>1. holder[o] \in Cmds \cup {None} BY <1>0 DEF TypeOK
  <2>2. \A c \in Cmds : worker[c].pc # "running" BY <1>1 DEF AgentInv, ConnInv, Active
  <2>3. QED BY <2>1, <2>2 DEF AgentInv, LockInv
<1>2. ASSUME link = "down", NEW t \in Threads, bound[t] # None PROVE session[bound[t]] = None
  <2>1. PICK o \in Objs : o = bound[t] BY <1>0, <1>2, Objects
  <2>2. live = None BY <1>2 DEF AgentInv, ConnInv
  <2>3. session[o] # None => session[o].conn \in Nat BY <1>0 DEF TypeOK, Session
  <2>4. session[o] # None => session[o].conn = live BY <1>2, <2>1 DEF AgentInv, SessInv
  <2>5. QED BY <2>1, <2>2, <2>3, <2>4, Constants
<1>3. link = "down" => \A c \in Cmds : ~ Active(c) BY DEF AgentInv, ConnInv
<1>4. \A t \in Threads : (bound[t] # None /\ session[bound[t]] # None) => session[bound[t]].conn = live
  BY DEF AgentInv, SessInv
<1>5. QED BY <1>0, <1>1, <1>2, <1>3, <1>4 DEF NothingOutlivesItsConnection

\* Between connections no worker runs, no mutation lock is held and no bound project has
\* a session; under a connection the sessions of bound projects are its own.  serve_inner
\* joins every worker before it retires the sessions, and a worker that still holds a
\* replaced binding can only leave a session where no thread finds it.
THEOREM ConnectionsEndClean == Spec => []NothingOutlivesItsConnection
<1>1. AgentInv => NothingOutlivesItsConnection BY ConnectionLeavesNothing
<1>2. QED BY <1>1, Invariance, PTL
-----------------------------------------------------------------------------
(* The newest session stays *)

LEMMA NewestFrame ==
  ASSUME AgentInv, NEW t \in Threads, NewestInv(t), UNCHANGED <<link, bound, session, newest>>,
         \A c \in Cmds : worker'[c].pc \in InHand /\ CmdOf[c].thread = t =>
             \/ worker'[c].obj = bound[t]
             \/ worker[c].pc \in InHand /\ worker'[c].obj = worker[c].obj
  PROVE  NewestInv(t)'
  BY DEF NewestInv

LEMMA QuietInHand ==
  ASSUME AgentInv, NEW c \in Cmds, NEW w \in Worker, QuietMove(c, w), NEW t, NEW d \in Cmds,
         worker'[d].pc \in InHand, CmdOf[d].thread = t
  PROVE  worker'[d].obj = bound[t] \/ (worker[d].pc \in InHand /\ worker'[d].obj = worker[d].obj)
<1>1. worker'[c] = w /\ (d # c => worker'[d] = worker[d]) BY Moved DEF AgentInv, QuietMove
<1>2. QED BY <1>1 DEF QuietMove

LEMMA NewestActivate ==
  ASSUME AgentInv, NEW t \in Threads, NewestInv(t), NEW c \in Cmds, Activate(c)
  PROVE  NewestInv(t)'
<1>0. TypeOK BY DEF AgentInv
<1>1. UNCHANGED <<link, bound>> /\ worker[c].pc = "bound" BY ActivateFacts
<1>2. PICK w \in Worker : QuietMove(c, w) BY ActivateFacts
<1>3. \A d \in Cmds : worker'[d].pc \in InHand /\ CmdOf[d].thread = t =>
             \/ worker'[d].obj = bound[t]
             \/ worker[d].pc \in InHand /\ worker'[d].obj = worker[d].obj
  BY <1>2, QuietInHand
<1>4. CASE UNCHANGED <<session, newest>> BY <1>1, <1>3, <1>4, NewestFrame
<1>5. CASE ~ UNCHANGED <<session, newest>>
  <2>1. PICK o \in Objs, fresh \in Session :
          /\ o = worker[c].obj /\ session' = [session EXCEPT ![o] = fresh]
          /\ fresh.generation = CmdOf[c].generation
          /\ session[o] # None => CmdOf[c].generation > session[o].generation
          /\ \/ newest' = [newest EXCEPT ![CmdOf[c].thread] = IF @ > CmdOf[c].generation THEN @ ELSE CmdOf[c].generation]
             \/ session[o] # None /\ UNCHANGED newest
    BY <1>5, ActivateFacts
  <2>2. \A p \in Objs : session'[p] = IF p = o THEN fresh ELSE session[p] BY <1>0, <2>1 DEF TypeOK
  <2>3. PICK g \in Nat : g = CmdOf[c].generation BY Commands
  <2>4. PICK s \in Threads : s = CmdOf[c].thread BY Commands
  <2>5. PICK n \in Nat : n = newest[t] BY <1>0 DEF TypeOK
  <2>6. \A d \in Cmds : worker'[d].pc \in InHand /\ CmdOf[d].thread = t => worker'[d].obj = bound'[t]
    BY <1>1, <1>3 DEF NewestInv
  <2>7. CASE s = t
    <3>1. o = bound[t] BY <1>1, <2>1, <2>4, <2>7 DEF NewestInv, InHand
    <3>2. newest'[t] = n \/ newest'[t] = g BY <1>0, <2>1, <2>3, <2>4, <2>5, <2>7 DEF TypeOK
    <3>3. bound'[t] = o /\ session'[o] = fresh /\ fresh # None /\ fresh.generation = g
      BY <1>1, <2>1, <2>2, <2>3, <3>1, Constants
    <3>4. CASE session[o] = None
      <4>1. link # "down" => n = 0 BY <2>5, <3>1, <3>4, <1>0, Objects DEF NewestInv
      <4>2. link # "down" => newest'[t] <= g BY <2>3, <3>2, <4>1
      <4>3. QED BY <1>0, <1>1, <2>3, <2>6, <3>2, <3>3, <4>2, Objects DEF NewestInv
    <3>5. CASE session[o] # None
      <4>1. PICK old \in Nat : old = session[o].generation BY <1>0, <3>5 DEF TypeOK, Session
      <4>2. link # "down" => old >= n BY <2>5, <3>1, <3>5, <4>1, <1>0, Objects DEF NewestInv
      <4>3. g > old BY <2>1, <2>3, <3>5, <4>1
      <4>4. link # "down" => newest'[t] <= g BY <3>2, <4>2, <4>3
      <4>5. QED BY <1>0, <1>1, <2>3, <2>6, <3>2, <3>3, <4>4, Objects DEF NewestInv
    <3>6. QED BY <3>4, <3>5
  <2>8. CASE s # t
    <3>1. bound[t] # o
      <4>1. PICK r \in Threads \cup {None} : Owns(r, o) BY DEF AgentInv, OwnInv
      <4>2. r = s BY <1>1, <2>1, <2>4, <4>1 DEF Owns, InHand
      <4>3. QED BY <2>8, <4>1, <4>2 DEF Owns
    <3>2. newest'[t] = newest[t] BY <1>0, <2>1, <2>4, <2>8 DEF TypeOK
    <3>3. bound[t] # None => session'[bound[t]] = session[bound[t]] BY <1>0, <2>2, <3>1, Objects
    <3>4. QED BY <1>1, <2>6, <3>2, <3>3 DEF NewestInv
  <2>9. QED BY <2>7, <2>8
<1>6. QED BY <1>4, <1>5

\* A step of a worker at its own binding, which changes no session.
LEMMA NewestInPlace ==
  ASSUME AgentInv, NEW t \in Threads, NewestInv(t), NEW c \in Cmds, NEW w \in Worker,
         worker' = [worker EXCEPT ![c] = w],
         w.pc \in InHand => worker[c].pc \in InHand /\ w.obj = worker[c].obj,
         UNCHANGED <<link, bound, session, newest>>
  PROVE  NewestInv(t)'
<1>1. worker'[c] = w /\ \A d \in Cmds : d # c => worker'[d] = worker[d] BY Moved DEF AgentInv
<1>2. QED BY <1>1 DEF NewestInv

LEMMA NewestStep ==
  ASSUME NEW t \in Threads, NeverRebound(t), AgentInv, NewestInv(t), [Next]_vars
  PROVE  NewestInv(t)'
<1>0. TypeOK BY DEF AgentInv
<1>1. CASE Connect
  <2>1. newest'[t] = 0 /\ UNCHANGED <<bound, worker>> /\ session' = WithoutBoundSessions BY <1>1 DEF Connect
  <2>2. bound[t] # None => session'[bound[t]] = None BY <1>0, <2>1, Objects DEF WithoutBoundSessions, Bound
  <2>3. QED BY <2>1, <2>2 DEF NewestInv
<1>2. CASE LinkCloses BY <1>2 DEF LinkCloses, NewestInv
<1>3. CASE Retire BY <1>3 DEF Retire, NewestInv
<1>4. ASSUME NEW c \in Cmds, OnlyWorker(c) PROVE NewestInv(t)'
  <2>1. PICK w \in Worker : QuietMove(c, w) BY <1>4 DEF OnlyWorker
  <2>2. \A d \in Cmds : worker'[d].pc \in InHand /\ CmdOf[d].thread = t =>
             \/ worker'[d].obj = bound[t]
             \/ worker[d].pc \in InHand /\ worker'[d].obj = worker[d].obj
    BY <2>1, QuietInHand
  <2>3. QED BY <1>4, <2>2, NewestFrame DEF OnlyWorker
<1>5. ASSUME NEW c \in Cmds, Rebinds(c) PROVE NewestInv(t)'
  <2>1. PICK w \in Worker, s \in Threads, o \in Objs :
           /\ s = CmdOf[c].thread /\ bound' = [bound EXCEPT ![s] = o]
           /\ worker' = [worker EXCEPT ![c] = w] /\ w.pc = "replacing"
    BY <1>5, RebindFacts
  <2>2. s # t BY <1>5, <2>1 DEF NeverRebound, Rebinds
  <2>3. bound'[t] = bound[t] BY <1>0, <2>1, <2>2 DEF TypeOK
  <2>4. worker'[c] = w /\ \A d \in Cmds : d # c => worker'[d] = worker[d] BY <1>0, <2>1, Moved
  <2>5. UNCHANGED <<link, session, newest>> BY <1>5 DEF Rebinds
  <2>6. \A d \in Cmds : worker'[d].pc \in InHand => worker[d].pc \in InHand /\ worker'[d].obj = worker[d].obj
    BY <2>1, <2>4 DEF InHand
  <2>7. QED BY <2>3, <2>5, <2>6 DEF NewestInv
<1>6. ASSUME NEW c \in Cmds, CloseReplaced(c) PROVE NewestInv(t)'
  <2>1. PICK w \in Worker : QuietMove(c, w) /\ w.pc \notin InHand BY <1>6, CloseFacts
  <2>2. /\ bound[t] # None => session'[bound[t]] = session[bound[t]]
        /\ UNCHANGED <<link, bound, newest>>
    BY <1>6, CloseFacts
  <2>3. worker'[c] = w /\ \A d \in Cmds : d # c => worker'[d] = worker[d] BY <1>0, <2>1, Moved DEF QuietMove
  <2>4. QED BY <2>1, <2>2, <2>3 DEF NewestInv
<1>7. ASSUME NEW c \in Cmds, Activate(c) PROVE NewestInv(t)' BY <1>7, NewestActivate
<1>8. ASSUME NEW c \in Cmds, Repeats(c) PROVE NewestInv(t)'
  <2>1. PICK w \in Worker : worker' = [worker EXCEPT ![c] = w] /\ w.pc = "over" BY <1>0, <1>8, EndsMoves DEF Repeats
  <2>2. QED BY <1>8, <2>1, NewestInPlace DEF Repeats, InHand
<1>9. ASSUME NEW c \in Cmds, TakesLock(c) PROVE NewestInv(t)'
  <2>1. PICK w \in Worker : worker' = [worker EXCEPT ![c] = w] /\ w.pc = "running" /\ w.obj = worker[c].obj
    BY <1>0, <1>9, PointMoves DEF TakesLock
  <2>2. QED BY <1>9, <2>1, NewestInPlace DEF TakesLock, InHand
<1>10. ASSUME NEW c \in Cmds, FinishMutation(c) PROVE NewestInv(t)'
  <2>1. PICK w \in Worker : worker' = [worker EXCEPT ![c] = w] /\ w.pc = "over"
    BY <1>0, <1>10, EndsMoves DEF FinishMutation
  <2>2. QED BY <1>10, <2>1, NewestInPlace DEF FinishMutation, InHand
<1>11. CASE Passes BY <1>11 DEF Passes, NewestInv
<1>12. QED BY <1>1, <1>2, <1>3, <1>4, <1>5, <1>6, <1>7, <1>8, <1>9, <1>10, <1>11, StepCases

\* The active session of a thread that no device session binds to another project is at
\* least as new as every activation acknowledged on the connection, in whatever order the
\* workers carry the activations out, and whatever device sessions other threads have: a
\* project activates in the order of the session generations, and nothing empties it but
\* the end of the connection.
THEOREM NewestStaysWhereNotRebound ==
  ASSUME NEW t \in Threads, NeverRebound(t)
  PROVE  Spec => []NewestSession(t)
<1>1. Init => NewestInv(t)
  <2> SUFFICES ASSUME Init PROVE NewestInv(t) OBVIOUS
  <2>1. link = "down" /\ \A c \in Cmds : worker[c].pc = "new" BY DEF Init
  <2>2. QED BY <2>1 DEF NewestInv, InHand
<1>2. AgentInv /\ NewestInv(t) /\ [Next]_vars => NewestInv(t)' BY NewestStep
<1>3. NewestInv(t) => NewestSession(t) BY DEF NewestInv, NewestSession
<1>4. QED BY <1>1, <1>2, <1>3, Invariance, PTL DEF Spec
-----------------------------------------------------------------------------
(* A success is not repeated *)

LEMMA RefreshedFits ==
  ASSUME AgentInv, RequestsFit, NEW c \in Cmds, NEW o \in Objs, o = worker[c].obj,
         worker[c].pc = "running", CmdOf[c].kind = "mutate"
  PROVE  Len(Refreshed(o, c)) <= CacheSize
<1>0. TypeOK /\ KeysDiffer(cache[o]) BY DEF AgentInv, CacheInv
<1>1. PICK t \in Threads : t = CmdOf[c].thread BY Commands
<1>2. Owns(t, o)
  <2>1. PICK s \in Threads \cup {None} : Owns(s, o) BY DEF AgentInv, OwnInv
  <2>2. s = t BY <1>1, <2>1 DEF Owns, InHand
  <2>3. QED BY <2>1, <2>2
<1>3. PICK K : K = {KeyOf(d) : d \in Mutations(t)} OBVIOUS
<1>4. IsFiniteSet(K) /\ Cardinality(K) <= CacheSize BY <1>3, KeysFinite DEF RequestsFit
<1>5. PICK q \in Seq(CacheEntry) : q = Refreshed(o, c) BY <1>0, RefreshedShape
<1>6. KeysDiffer(q) /\ \A k : HasKey(q, k) => k = KeyOf(c) \/ HasKey(cache[o], k) BY <1>0, <1>5, RefreshedShape
<1>7. KeyOf(c) \in K BY <1>1, <1>3 DEF Mutations
<1>8. \A k : HasKey(cache[o], k) => k \in K BY <1>2, <1>3 DEF Owns, HasKey
<1>9. \A i \in DOMAIN q : q[i].key \in K
  <2> SUFFICES ASSUME NEW i \in DOMAIN q PROVE q[i].key \in K OBVIOUS
  <2>1. HasKey(q, q[i].key) BY DEF HasKey
  <2>2. QED BY <1>6, <1>7, <1>8, <2>1
<1>10. Len(q) <= Cardinality(K) BY <1>4, <1>6, <1>9, KeysBoundLength
<1>11. Cardinality(K) \in Nat /\ Len(q) \in Nat BY <1>4, FS_CardinalityType
<1>12. QED BY <1>4, <1>5, <1>10, <1>11, Constants

LEMMA HomeShrinks ==
  ASSUME HomeInv, \A s \in Sids, o \in Objs : Touches(o, s)' => Touches(o, s),
         \A c \in Cmds : worker[c].pc = "over" => worker'[c].pc = "over"
  PROVE  HomeInv'
  BY DEF HomeInv

\* A session id is seen where it was before when the sessions, the workers that passed
\* the check and the keys are old ones.
LEMMA TouchesShrinks ==
  ASSUME NEW o \in Objs, NEW s \in Sids, Touches(o, s)',
         session'[o] \in {session[o], None},
         \A c \in Cmds : worker'[c].pc \in {"checked", "running"} /\ worker'[c].obj = o =>
             Touches(o, CmdOf[c].sid),
         \A i \in DOMAIN cache'[o] : Touches(o, cache'[o][i].key.sid)
  PROVE  Touches(o, s)
<1>1. CASE session'[o] # None /\ session'[o].sid = s
  <2>1. session'[o] = session[o] BY <1>1
  <2>2. QED BY <1>1, <2>1 DEF Touches
<1>2. ASSUME NEW c \in Cmds, worker'[c].pc \in {"checked", "running"}, worker'[c].obj = o, CmdOf[c].sid = s
      PROVE  Touches(o, s)
  BY <1>2
<1>3. ASSUME NEW i \in DOMAIN cache'[o], cache'[o][i].key.sid = s PROVE Touches(o, s) BY <1>3
<1>4. QED BY <1>1, <1>2, <1>3 DEF Touches

LEMMA TouchedByWorker ==
  ASSUME NEW c \in Cmds, worker[c].pc \in {"checked", "running"}
  PROVE  Touches(worker[c].obj, CmdOf[c].sid)
  BY DEF Touches

LEMMA TouchedByKey ==
  ASSUME NEW o \in Objs, NEW k, HasKey(cache[o], k)
  PROVE  Touches(o, k.sid)
  BY DEF Touches, HasKey

\* Steps that put no key in a cache and no worker past the session check without a session.
LEMMA HomeQuiet ==
  ASSUME AgentInv, HomeInv, UNCHANGED cache,
         \A o \in Objs : session'[o] \in {session[o], None},
         \A c \in Cmds : worker[c].pc = "over" => worker'[c].pc = "over",
         \A c \in Cmds : worker'[c].pc \in {"checked", "running"} =>
             \/ worker[c].pc \in {"checked", "running"} /\ worker'[c].obj = worker[c].obj
             \/ session[worker'[c].obj] # None /\ session[worker'[c].obj].sid = CmdOf[c].sid
  PROVE  HomeInv'
<1> SUFFICES ASSUME NEW s \in Sids, NEW o \in Objs, Touches(o, s)' PROVE Touches(o, s) BY HomeShrinks
<1>1. ASSUME NEW c \in Cmds, worker'[c].pc \in {"checked", "running"}, worker'[c].obj = o
      PROVE  Touches(o, CmdOf[c].sid)
  <2>1. CASE worker[c].pc \in {"checked", "running"} /\ worker'[c].obj = worker[c].obj
    BY <1>1, <2>1, TouchedByWorker
  <2>2. CASE session[worker'[c].obj] # None /\ session[worker'[c].obj].sid = CmdOf[c].sid
    BY <1>1, <2>2 DEF Touches
  <2>3. QED BY <1>1, <2>1, <2>2
<1>2. \A i \in DOMAIN cache'[o] : Touches(o, cache'[o][i].key.sid) BY DEF Touches
<1>3. QED BY <1>1, <1>2, TouchesShrinks

\* Steps of a worker that passed the check, which may enter its key.
LEMMA HomeAtBinding ==
  ASSUME AgentInv, HomeInv, NEW c \in Cmds, NEW w \in Worker, NEW o \in Objs,
         o = worker[c].obj, worker[c].pc \in {"checked", "running"},
         worker' = [worker EXCEPT ![c] = w],
         w.pc \in {"checked", "running"} => w.obj = o, UNCHANGED session,
         NEW q \in Seq(CacheEntry), cache' = [cache EXCEPT ![o] = q],
         \A k : HasKey(q, k) => k = KeyOf(c) \/ HasKey(cache[o], k)
  PROVE  HomeInv'
<1>0. TypeOK BY DEF AgentInv
<1>1. worker'[c] = w /\ \A d \in Cmds : d # c => worker'[d] = worker[d] BY <1>0, Moved
<1>2. cache'[o] = q /\ \A p \in Objs : p # o => cache'[p] = cache[p] BY <1>0 DEF TypeOK
<1>3. \A d \in Cmds : worker[d].pc = "over" => worker'[d].pc = "over" BY <1>1
<1>4. Touches(o, CmdOf[c].sid) BY TouchedByWorker
<1> SUFFICES ASSUME NEW s \in Sids, NEW p \in Objs, Touches(p, s)' PROVE Touches(p, s) BY <1>3, HomeShrinks
<1>5. ASSUME NEW d \in Cmds, worker'[d].pc \in {"checked", "running"}, worker'[d].obj = p
      PROVE  Touches(p, CmdOf[d].sid)
  <2>1. CASE d = c BY <1>1, <1>4, <1>5, <2>1
  <2>2. CASE d # c BY <1>1, <1>5, <2>2, TouchedByWorker
  <2>3. QED BY <2>1, <2>2
<1>6. ASSUME NEW i \in DOMAIN cache'[p] PROVE Touches(p, cache'[p][i].key.sid)
  <2>1. CASE p # o BY <1>2, <2>1 DEF Touches
  <2>2. CASE p = o
    <3>1. PICK k : k = q[i].key OBVIOUS
    <3>2. i \in DOMAIN q /\ cache'[p][i].key.sid = k.sid BY <1>2, <2>2, <3>1
    <3>3. HasKey(q, k) BY <3>1, <3>2 DEF HasKey
    <3>4. CASE k = KeyOf(c) BY <1>4, <2>2, <3>2, <3>4, Keys
    <3>5. CASE HasKey(cache[o], k)
      <4>1. Touches(o, k.sid) BY <3>5, TouchedByKey
      <4>2. QED BY <2>2, <3>2, <4>1
    <3>6. QED BY <3>3, <3>4, <3>5
  <2>3. QED BY <2>1, <2>2
<1>7. session'[p] \in {session[p], None} OBVIOUS
<1>8. QED BY <1>5, <1>6, <1>7, TouchesShrinks

\* An activation is the first to bring its session id.
LEMMA HomeActivate ==
  ASSUME AgentInv, HomeInv, FreshSessions, NEW c \in Cmds, Activate(c)
  PROVE  HomeInv'
<1>0. TypeOK BY DEF AgentInv
<1>1. UNCHANGED cache /\ worker[c].pc = "bound" /\ CmdOf[c].kind \in {"project", "device"} BY ActivateFacts
<1>2. PICK w \in Worker : QuietMove(c, w) /\ w.pc = "over" BY ActivateFacts
<1>3. worker'[c] = w /\ \A d \in Cmds : d # c => worker'[d] = worker[d] BY <1>0, <1>2, Moved DEF QuietMove
<1>4. \A d \in Cmds : worker[d].pc = "over" => worker'[d].pc = "over" BY <1>2, <1>3
<1>5. \A d \in Cmds : worker'[d].pc \in {"checked", "running"} =>
             worker[d].pc \in {"checked", "running"} /\ worker'[d].obj = worker[d].obj
  BY <1>2, <1>3
<1>6. CASE UNCHANGED <<session, newest>>
  <2>1. \A o \in Objs : session'[o] \in {session[o], None} BY <1>6
  <2>2. QED BY <1>1, <1>4, <1>5, <2>1, HomeQuiet
<1>7. CASE ~ UNCHANGED <<session, newest>>
  <2>1. PICK o \in Objs, fresh \in Session :
          session' = [session EXCEPT ![o] = fresh] /\ fresh.sid = CmdOf[c].sid
    BY <1>7, ActivateFacts
  <2>2. \A p \in Objs : session'[p] = IF p = o THEN fresh ELSE session[p] BY <1>0, <2>1 DEF TypeOK
  <2>3. PICK id \in Sids : id = CmdOf[c].sid BY Commands
  <2>4. \A p \in Objs : ~ Touches(p, id) BY <1>1, <2>3 DEF HomeInv
  <2>5. ASSUME NEW s \in Sids, NEW p \in Objs, Touches(p, s)' PROVE Touches(p, s) \/ (p = o /\ s = id)
    <3>1. CASE session'[p] # None /\ session'[p].sid = s
      <4>1. CASE p = o BY <2>1, <2>2, <2>3, <3>1, <4>1
      <4>2. CASE p # o
        <5>1. session'[p] = session[p] BY <2>2, <4>2
        <5>2. QED BY <3>1, <5>1 DEF Touches
      <4>3. QED BY <4>1, <4>2
    <3>2. ASSUME NEW d \in Cmds, worker'[d].pc \in {"checked", "running"}, worker'[d].obj = p, CmdOf[d].sid = s
          PROVE  Touches(p, s)
      BY <1>5, <3>2 DEF Touches
    <3>3. ASSUME NEW i \in DOMAIN cache'[p], cache'[p][i].key.sid = s PROVE Touches(p, s)
      BY <1>1, <3>3 DEF Touches
    <3>4. QED BY <2>5, <3>1, <3>2, <3>3 DEF Touches
  <2>6. ASSUME NEW s \in Sids, NEW p \in Objs, Touches(p, s)'
        PROVE  /\ \A r \in Objs : Touches(r, s)' => r = p
               /\ \A d \in Cmds : CmdOf[d].kind \in {"project", "device"} /\ CmdOf[d].sid = s => worker'[d].pc = "over"
    <3>1. CASE s = id
      <4>1. \A r \in Objs : Touches(r, s)' => r = o BY <2>4, <2>5, <3>1
      <4>2. \A d \in Cmds : CmdOf[d].kind \in {"project", "device"} /\ CmdOf[d].sid = s => d = c
        BY <1>1, <2>3, <3>1 DEF FreshSessions
      <4>3. QED BY <1>2, <1>3, <2>6, <4>1, <4>2
    <3>2. CASE s # id
      <4>1. Touches(p, s) BY <2>5, <2>6, <3>2
      <4>2. \A r \in Objs : Touches(r, s)' => Touches(r, s) BY <2>5, <3>2
      <4>3. QED BY <1>4, <4>1, <4>2 DEF HomeInv
    <3>3. QED BY <3>1, <3>2
  <2>7. QED BY <2>6 DEF HomeInv
<1>8. QED BY <1>6, <1>7
\* Nothing new was carried out and no remembered result is lost.
LEMMA ExecKeeps ==
  ASSUME ExecInv, ResultIsUnique, executed' = executed,
         \A o \in Objs : \A k : HasKey(cache[o], k) => HasKey(cache'[o], k)
  PROVE  ExecInv' /\ ResultIsUnique'
<1>1. ExecInv' BY DEF ExecInv
<1>2. ResultIsUnique' BY DEF ResultIsUnique
<1>3. QED BY <1>1, <1>2

LEMMA RepeatFinish ==
  ASSUME AgentInv, RepeatInv, RequestsFit, NEW c \in Cmds, FinishMutation(c)
  PROVE  RepeatInv'
<1>0. TypeOK BY DEF AgentInv
<1>1. PICK w \in Worker, o \in Objs, q \in Seq(CacheEntry) :
           /\ o = worker[c].obj /\ worker[c].pc = "running" /\ CmdOf[c].kind = "mutate"
           /\ worker' = [worker EXCEPT ![c] = w] /\ w.pc = "over" /\ cache' = [cache EXCEPT ![o] = q]
           /\ \/ q = cache[o] /\ executed' = executed
              \/ q = Remembered(o, c) /\ executed' = executed \cup {c}
           /\ UNCHANGED session
  BY FinishFacts
<1>2. KeysDiffer(cache[o]) /\ ~ HasKey(cache[o], KeyOf(c)) BY <1>1 DEF AgentInv, CacheInv
<1>3. cache'[o] = q /\ \A p \in Objs : p # o => cache'[p] = cache[p] BY <1>0, <1>1 DEF TypeOK
<1>4. CASE q = cache[o] /\ executed' = executed
  <2>1. \A k : HasKey(q, k) => k = KeyOf(c) \/ HasKey(cache[o], k) BY <1>4
  <2>2. HomeInv' BY <1>1, <2>1, HomeAtBinding DEF RepeatInv
  <2>3. \A p \in Objs : \A k : HasKey(cache[p], k) => HasKey(cache'[p], k) BY <1>3, <1>4
  <2>4. QED BY <1>4, <2>2, <2>3, ExecKeeps DEF RepeatInv
<1>5. CASE q = Remembered(o, c) /\ executed' = executed \cup {c}
  <2>1. q = Refreshed(o, c) BY <1>0, <1>1, <1>2, <1>5, RefreshedFits, RememberedShape
  <2>2. HasKey(q, KeyOf(c)) /\ \A k : k # KeyOf(c) => (HasKey(q, k) <=> HasKey(cache[o], k))
    BY <1>0, <1>2, <2>1, RefreshedShape
  <2>3. \A k : HasKey(q, k) => k = KeyOf(c) \/ HasKey(cache[o], k) BY <2>2
  <2>4. HomeInv' BY <1>1, <2>3, HomeAtBinding DEF RepeatInv
  <2>5. \A p \in Objs : \A k : HasKey(cache[p], k) => HasKey(cache'[p], k) BY <1>3, <2>2
  <2>6. HasKey(cache'[o], KeyOf(c)) BY <1>3, <2>2
  <2>7. ExecInv' BY <1>5, <2>5, <2>6 DEF RepeatInv, ExecInv
  <2>8. executed \subseteq Cmds BY <1>0 DEF TypeOK
  <2>9. ASSUME NEW d \in executed PROVE KeyOf(d) # KeyOf(c)
    <3>1. SUFFICES ASSUME KeyOf(d) = KeyOf(c) PROVE FALSE OBVIOUS
    <3>2. PICK p \in Objs : HasKey(cache[p], KeyOf(c)) BY <3>1 DEF RepeatInv, ExecInv
    <3>3. PICK id \in Sids : id = CmdOf[c].sid BY Commands
    <3>4. Touches(p, id)
      <4>1. Touches(p, KeyOf(c).sid) BY <3>2, TouchedByKey
      <4>2. QED BY <3>3, <4>1, Keys
    <3>5. Touches(o, id) BY <1>1, <3>3, TouchedByWorker
    <3>6. p = o BY <3>4, <3>5 DEF RepeatInv, HomeInv
    <3>7. QED BY <1>2, <3>2, <3>6
  <2>10. ResultIsUnique' BY <1>5, <2>9 DEF RepeatInv, ResultIsUnique
  <2>11. QED BY <2>4, <2>7, <2>10 DEF RepeatInv
<1>6. QED BY <1>1, <1>4, <1>5

LEMMA RepeatStep ==
  ASSUME FreshSessions, RequestsFit, AgentInv, RepeatInv, [Next]_vars
  PROVE  RepeatInv'
<1>0. TypeOK /\ HomeInv BY DEF AgentInv, RepeatInv
<1>1. ASSUME UNCHANGED <<cache, executed>>, HomeInv' PROVE RepeatInv'
  <2>1. \A o \in Objs : \A k : HasKey(cache[o], k) => HasKey(cache'[o], k) BY <1>1
  <2>2. QED BY <1>1, <2>1, ExecKeeps DEF RepeatInv
<1>2. CASE Connect \/ LinkCloses \/ Retire
  <2>1. UNCHANGED <<cache, executed, worker>> BY <1>2 DEF Connect, LinkCloses, Retire
  <2>2. \A o \in Objs : session'[o] \in {session[o], None}
    BY <1>0, <1>2 DEF Connect, LinkCloses, Retire, WithoutBoundSessions
  <2>3. HomeInv' BY <1>0, <2>1, <2>2, HomeQuiet
  <2>4. QED BY <1>1, <2>1, <2>3
<1>3. ASSUME NEW c \in Cmds, OnlyWorker(c) PROVE RepeatInv'
  <2>1. PICK w \in Worker : QuietMove(c, w) BY <1>3 DEF OnlyWorker
  <2>2. worker'[c] = w /\ \A d \in Cmds : d # c => worker'[d] = worker[d] BY <1>0, <2>1, Moved DEF QuietMove
  <2>3. UNCHANGED <<cache, executed, session>> BY <1>3 DEF OnlyWorker
  <2>4. \A d \in Cmds : worker[d].pc = "over" => worker'[d].pc = "over" BY <2>1, <2>2 DEF QuietMove
  <2>5. \A d \in Cmds : worker'[d].pc \in {"checked", "running"} =>
             \/ worker[d].pc \in {"checked", "running"} /\ worker'[d].obj = worker[d].obj
             \/ session[worker'[d].obj] # None /\ session[worker'[d].obj].sid = CmdOf[d].sid
    BY <2>1, <2>2 DEF QuietMove
  <2>6. \A o \in Objs : session'[o] \in {session[o], None} BY <2>3
  <2>7. HomeInv' BY <1>0, <2>3, <2>4, <2>5, <2>6, HomeQuiet
  <2>8. QED BY <1>1, <2>3, <2>7
<1>4. ASSUME NEW c \in Cmds, Rebinds(c) PROVE RepeatInv'
  <2>1. PICK w \in Worker : worker' = [worker EXCEPT ![c] = w] /\ w.pc = "replacing" BY <1>4, RebindFacts
  <2>2. worker'[c] = w /\ \A d \in Cmds : d # c => worker'[d] = worker[d] BY <1>0, <2>1, Moved
  <2>3. UNCHANGED <<cache, executed, session>> /\ worker[c].pc = "started" BY <1>4 DEF Rebinds
  <2>4. \A d \in Cmds : worker[d].pc = "over" => worker'[d].pc = "over" BY <2>2, <2>3
  <2>5. \A d \in Cmds : worker'[d].pc \in {"checked", "running"} =>
             worker[d].pc \in {"checked", "running"} /\ worker'[d].obj = worker[d].obj
    BY <2>1, <2>2
  <2>6. \A o \in Objs : session'[o] \in {session[o], None} BY <2>3
  <2>7. HomeInv' BY <1>0, <2>3, <2>4, <2>5, <2>6, HomeQuiet
  <2>8. QED BY <1>1, <2>3, <2>7
<1>5. ASSUME NEW c \in Cmds, CloseReplaced(c) PROVE RepeatInv'
  <2>1. PICK w \in Worker : QuietMove(c, w) /\ w.pc \notin InHand BY <1>5, CloseFacts
  <2>2. UNCHANGED <<cache, executed>> /\ \A o \in Objs : session'[o] \in {session[o], None} BY <1>5, CloseFacts
  <2>3. worker'[c] = w /\ \A d \in Cmds : d # c => worker'[d] = worker[d] BY <1>0, <2>1, Moved DEF QuietMove
  <2>4. \A d \in Cmds : worker[d].pc = "over" => worker'[d].pc = "over" BY <2>1, <2>3 DEF QuietMove
  <2>5. \A d \in Cmds : worker'[d].pc \in {"checked", "running"} =>
             worker[d].pc \in {"checked", "running"} /\ worker'[d].obj = worker[d].obj
    BY <2>1, <2>3 DEF InHand
  <2>6. HomeInv' BY <1>0, <2>2, <2>4, <2>5, HomeQuiet
  <2>7. QED BY <1>1, <2>2, <2>6
<1>6. ASSUME NEW c \in Cmds, Activate(c) PROVE RepeatInv'
  <2>1. HomeInv' BY <1>0, <1>6, HomeActivate
  <2>2. UNCHANGED <<cache, executed>> BY <1>6, ActivateFacts
  <2>3. QED BY <1>1, <2>1, <2>2
<1>7. ASSUME NEW c \in Cmds, Repeats(c) PROVE RepeatInv'
  <2>1. PICK w \in Worker : worker' = [worker EXCEPT ![c] = w] /\ w.pc = "over" BY <1>0, <1>7, EndsMoves DEF Repeats
  <2>2. PICK o \in Objs : o = worker[c].obj BY <1>7 DEF Repeats, AgentInv, BindInv, InHand
  <2>3. KeysDiffer(cache[o]) BY DEF AgentInv, CacheInv
  <2>4. PICK q \in Seq(CacheEntry) : q = Refreshed(o, c) BY <1>0, <2>3, RefreshedShape
  <2>5. worker[c].pc = "checked" /\ cache' = [cache EXCEPT ![o] = q] /\ UNCHANGED <<session, executed>>
    BY <1>7, <2>2, <2>4 DEF Repeats
  <2>6. HasKey(q, KeyOf(c)) /\ \A k : k # KeyOf(c) => (HasKey(q, k) <=> HasKey(cache[o], k))
    BY <1>0, <2>3, <2>4, RefreshedShape
  <2>7. \A k : HasKey(q, k) => k = KeyOf(c) \/ HasKey(cache[o], k) BY <2>6
  <2>8. HomeInv' BY <1>0, <2>1, <2>2, <2>5, <2>7, HomeAtBinding
  <2>9. cache'[o] = q /\ \A p \in Objs : p # o => cache'[p] = cache[p] BY <1>0, <2>5 DEF TypeOK
  <2>10. \A p \in Objs : \A k : HasKey(cache[p], k) => HasKey(cache'[p], k) BY <2>6, <2>9
  <2>11. QED BY <2>5, <2>8, <2>10, ExecKeeps DEF RepeatInv
<1>8. ASSUME NEW c \in Cmds, TakesLock(c) PROVE RepeatInv'
  <2>1. PICK w \in Worker : worker' = [worker EXCEPT ![c] = w] /\ w.pc = "running" /\ w.obj = worker[c].obj
    BY <1>0, <1>8, PointMoves DEF TakesLock
  <2>2. worker'[c] = w /\ \A d \in Cmds : d # c => worker'[d] = worker[d] BY <1>0, <2>1, Moved
  <2>3. UNCHANGED <<cache, executed, session>> /\ worker[c].pc = "checked" BY <1>8 DEF TakesLock
  <2>4. \A d \in Cmds : worker[d].pc = "over" => worker'[d].pc = "over" BY <2>2, <2>3
  <2>5. \A d \in Cmds : worker'[d].pc \in {"checked", "running"} =>
             worker[d].pc \in {"checked", "running"} /\ worker'[d].obj = worker[d].obj
    BY <2>1, <2>2, <2>3
  <2>6. \A o \in Objs : session'[o] \in {session[o], None} BY <2>3
  <2>7. HomeInv' BY <1>0, <2>3, <2>4, <2>5, <2>6, HomeQuiet
  <2>8. QED BY <1>1, <2>3, <2>7
<1>9. ASSUME NEW c \in Cmds, FinishMutation(c) PROVE RepeatInv' BY <1>9, RepeatFinish
<1>10. CASE Passes
  <2>1. UNCHANGED <<cache, executed, worker, session>> BY <1>10 DEF Passes
  <2>2. \A o \in Objs : session'[o] \in {session[o], None} BY <2>1
  <2>3. HomeInv' BY <1>0, <2>1, <2>2, HomeQuiet
  <2>4. QED BY <1>1, <2>1, <2>3
<1>11. QED BY <1>2, <1>3, <1>4, <1>5, <1>6, <1>7, <1>8, <1>9, <1>10, StepCases

LEMMA ResultStopsRepeats ==
  ASSUME AgentInv, RepeatInv
  PROVE  SuccessIsNotRepeated
<1> SUFFICES ASSUME NEW c \in executed, NEW d \in Cmds \ {c},
                    CmdOf[c].thread = CmdOf[d].thread, KeyOf(c) = KeyOf(d)
             PROVE  d \notin executed /\ worker[d].pc # "running"
  BY DEF SuccessIsNotRepeated
<1>0. c \in Cmds /\ d \in Cmds BY DEF AgentInv, TypeOK
<1>1. d \notin executed BY DEF RepeatInv, ResultIsUnique
<1>2. ASSUME worker[d].pc = "running" PROVE FALSE
  <2>1. PICK p \in Objs : HasKey(cache[p], KeyOf(d)) BY DEF RepeatInv, ExecInv
  <2>2. PICK o \in Objs : o = worker[d].obj BY <1>0, <1>2 DEF AgentInv, BindInv, InHand
  <2>3. ~ HasKey(cache[o], KeyOf(d)) BY <1>0, <1>2, <2>2 DEF AgentInv, CacheInv
  <2>4. PICK id \in Sids : id = CmdOf[d].sid BY <1>0, Commands
  <2>5. Touches(p, id)
    <3>1. Touches(p, KeyOf(d).sid) BY <2>1, TouchedByKey
    <3>2. QED BY <1>0, <2>4, <3>1, Keys
  <2>6. Touches(o, id) BY <1>0, <1>2, <2>2, <2>4, TouchedByWorker
  <2>7. p = o BY <2>5, <2>6 DEF RepeatInv, HomeInv
  <2>8. QED BY <2>1, <2>3, <2>7
<1>3. QED BY <1>1, <1>2

\* When every activation has a session id of its own, as the broker's UUIDs do, and the
\* results of a thread's requests fit into the cache of a binding, no repetition of a
\* request that had a result runs, also when its thread was bound to another project in
\* between: a session id is seen at one binding only, whose lock orders the repetitions,
\* and what had a result there stays in its cache.  Of a request that ended in an error
\* the theorem says nothing: the cache does not know it.
THEOREM SuccessesAreNotRepeated ==
  ASSUME FreshSessions, RequestsFit
  PROVE  Spec => []SuccessIsNotRepeated
<1>1. Init => RepeatInv
  <2> SUFFICES ASSUME Init PROVE RepeatInv OBVIOUS
  <2>1. executed = {} /\ (\A c \in Cmds : worker[c].pc = "new")
        /\ \A o \in Objs : session[o] = None /\ DOMAIN cache[o] = {}
    BY DEF Init
  <2>2. \A o \in Objs, s \in Sids : ~ Touches(o, s) BY <2>1 DEF Touches
  <2>3. QED BY <2>1, <2>2 DEF RepeatInv, HomeInv, ExecInv, ResultIsUnique
<1>2. AgentInv /\ RepeatInv /\ [Next]_vars => RepeatInv' BY RepeatStep
<1>3. AgentInv /\ RepeatInv => SuccessIsNotRepeated BY ResultStopsRepeats
<1>4. QED BY <1>1, <1>2, <1>3, Invariance, PTL DEF Spec

=============================================================================
