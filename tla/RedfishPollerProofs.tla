------------------------ MODULE RedfishPollerProofs ------------------------
(***************************************************************************)
(* Proofs about RedfishPoller, for any targets, clients, size of the       *)
(* semaphore and threshold of the circuit breaker, with or without errors  *)
(* of the database.  The clients and the poll statuses do not depend on    *)
(* each other: each part has an inductive invariant of its own.            *)
(***************************************************************************)
EXTENDS RedfishPoller, FiniteSetTheorems, TLAPS

-----------------------------------------------------------------------------
(* The clients.                                                            *)

ClientTypes ==
    /\ poll \in [Polls -> PollPcs]
    /\ locks \in [Targets -> Locks \cup {None}]
    /\ lockOf \in [Polls -> Locks \cup {None}]
    /\ conn \in [Polls -> Clients \cup {None}]
    /\ cache \in [Targets -> Clients \cup {None}]
    /\ open \subseteq Clients

AtLock == {"wait", "connect"}

\* A poll has a Lock while it waits for it and while it connects, and a client
\* while it connects.
HasLock(p) ==
    /\ poll[p] = "connect" <=> conn[p] # None
    /\ poll[p] \in AtLock <=> lockOf[p] # None

\* The polls of a target that is not split share the Lock of _client_locks, so
\* that one of them connects at most, while nothing is cached.
OneLock(t) ==
    \A k \in Kinds :
        /\ lockOf[t, k] # None => lockOf[t, k] = locks[t]
        /\ conn[t, k] # None => cache[t] = None /\ \A m \in Kinds : conn[t, m] # None => m = k

ClientInv ==
    /\ ClientTypes
    /\ \A p \in Polls : HasLock(p)
    /\ \A t \in Targets \ split : OneLock(t)
    /\ NoClientLeak

LEMMA PollAt ==
    ASSUME NEW t \in Targets, NEW k \in Kinds
    PROVE  /\ <<t, k>> \in Polls
           /\ \A u \in Targets, m \in Kinds : <<u, m>> = <<t, k>> <=> u = t /\ m = k
BY DEF Polls

LEMMA OneLockStays ==
    ASSUME NEW t \in Targets, OneLock(t), UNCHANGED <<lockOf, conn>>,
           cache'[t] \in {cache[t], None},
           locks'[t] = locks[t] \/ \A k \in Kinds : lockOf[t, k] = None
    PROVE  OneLock(t)'
BY DEF OneLock

\* A step that leaves the clients alone; no poll comes to a Lock or leaves one.
LEMMA ClientsSame ==
    ASSUME ClientInv, UNCHANGED clients, poll' \in [Polls -> PollPcs],
           \A p \in Polls : poll'[p] # poll[p] => poll[p] \notin AtLock /\ poll'[p] \notin AtLock
    PROVE  ClientInv'
<1>1. ClientTypes' /\ NoClientLeak'
  BY DEF ClientInv, ClientTypes, NoClientLeak, clients
<1>2. \A p \in Polls : HasLock(p)'
  BY DEF ClientInv, HasLock, AtLock, clients
<1>3. \A t \in Targets \ split' : OneLock(t)'
  BY OneLockStays DEF ClientInv, clients
<1> QED
  BY <1>1, <1>2, <1>3 DEF ClientInv

LEMMA GotoMoves ==
    ASSUME ClientTypes, NEW t \in Targets, NEW k \in Kinds, NEW l \in PollPcs, Goto(t, k, l)
    PROVE  /\ poll' \in [Polls -> PollPcs] /\ poll'[t, k] = l
           /\ \A p \in Polls : p # <<t, k>> => poll'[p] = poll[p]
BY DEF Goto, ClientTypes, Polls

LEMMA FinishMoves ==
    ASSUME ClientTypes, NEW t \in Targets, NEW k \in Kinds, NEW o \in Outcomes, Finish(t, k, o)
    PROVE  /\ poll' \in [Polls -> PollPcs] /\ poll'[t, k] \notin AtLock
           /\ \A p \in Polls : p # <<t, k>> => poll'[p] = poll[p]
<1>1. PICK l \in {"idle", "refresh", "commitok", "commiterr"} : Goto(t, k, l)
  BY DEF Finish, Outcomes
<1>2. l \in PollPcs /\ l \notin AtLock
  BY DEF PollPcs, AtLock
<1> QED
  BY <1>1, <1>2, GotoMoves

LEMMA InitClients == Init => ClientInv
<1> SUFFICES ASSUME Init PROVE ClientInv
  OBVIOUS
<1>1. ClientTypes
  BY DEF Init, ClientTypes, Polls, PollPcs
<1>2. \A p \in Polls : HasLock(p)
  BY DEF Init, HasLock, AtLock
<1>3. \A t \in Targets : OneLock(t)
  BY DEF Init, OneLock, Polls
<1> QED
  BY <1>1, <1>2, <1>3 DEF Init, ClientInv, NoClientLeak

\* A step of one poll: what it must show of its own target, while that shares
\* one Lock, is enough.  A target that is healed has no poll at a Lock.
OthersStay(t, k) ==
    /\ \A p \in Polls : p # <<t, k>> =>
           poll'[p] = poll[p] /\ lockOf'[p] = lockOf[p] /\ conn'[p] = conn[p]
    /\ \A u \in Targets : u # t => locks'[u] = locks[u] /\ cache'[u] = cache[u]
    /\ Heal \/ split' = split

LEMMA OnePollMoves ==
    ASSUME ClientInv, NEW t \in Targets, NEW k \in Kinds, OthersStay(t, k),
           ClientTypes', HasLock(<<t, k>>)', t \notin split => OneLock(t)', NoClientLeak'
    PROVE  ClientInv'
<1>1. \A p \in Polls : HasLock(p)'
  BY DEF ClientInv, HasLock, OthersStay
<1>2. ASSUME NEW u \in Targets \ split' PROVE OneLock(u)'
  <2>1. CASE u \in split
    <3>1. \A m \in Kinds : lockOf'[u, m] = None
      BY <1>2, <2>1 DEF Heal, OthersStay
    <3>2. \A m \in Kinds : conn'[u, m] = None
      BY <1>1, <3>1, PollAt DEF HasLock, AtLock
    <3> QED
      BY <3>1, <3>2 DEF OneLock
  <2>2. CASE u \notin split /\ u = t
    BY <2>2, Zenon
  <2>3. CASE u \notin split /\ u # t
    <3>1. \A m \in Kinds : lockOf'[u, m] = lockOf[u, m] /\ conn'[u, m] = conn[u, m]
      BY <2>3, PollAt DEF OthersStay
    <3>2. OneLock(u) /\ locks'[u] = locks[u] /\ cache'[u] = cache[u]
      BY <2>3 DEF ClientInv, OthersStay
    <3> QED
      BY <3>1, <3>2 DEF OneLock
  <2> QED
    BY <2>1, <2>2, <2>3
<1> QED
  BY <1>1, <1>2 DEF ClientInv

\* A poll in the Lock L, which no poll holds, takes the cached client or begins
\* to connect one.
LEMMA WithLockKeeps ==
    ASSUME ClientInv, NEW t \in Targets, NEW k \in Kinds, NEW L \in Locks,
           poll[t, k] \in {"client", "wait"}, WithLock(t, k, L),
           locks' \in [Targets -> Locks \cup {None}],
           \A u \in Targets : u # t => locks'[u] = locks[u],
           t \notin split => locks'[t] = L /\ \A m \in Kinds : lockOf[t, m] \in {None, L},
           \A p \in Polls : poll[p] = "connect" => lockOf[p] # L,
           UNCHANGED <<cache, closing, lost>>
    PROVE  ClientInv'
<1>1. <<t, k>> \in Polls /\ conn[t, k] = None /\ None \notin Locks
  BY PollAt, PollerAssumption DEF ClientInv, HasLock
<1>2. t \notin split => \A m \in Kinds : conn[t, m] = None
  <2> SUFFICES ASSUME t \notin split, NEW m \in Kinds PROVE conn[t, m] = None
    OBVIOUS
  <2>1. HasLock(<<t, m>>) /\ <<t, m>> \in Polls
    BY PollAt DEF ClientInv
  <2> QED
    BY <2>1 DEF HasLock, AtLock
<1>3. Heal
  BY DEF WithLock
<1>4. CASE cache[t] # None
  <2>1. Goto(t, k, "fetch") /\ lockOf' = [lockOf EXCEPT ![<<t, k>>] = None] /\ UNCHANGED <<conn, open>>
    BY <1>4 DEF WithLock
  <2>2. /\ poll' \in [Polls -> PollPcs] /\ poll'[t, k] = "fetch"
        /\ \A p \in Polls : p # <<t, k>> => poll'[p] = poll[p]
    BY <2>1, GotoMoves DEF ClientInv, PollPcs
  <2>3. /\ lockOf' \in [Polls -> Locks \cup {None}] /\ lockOf'[t, k] = None
        /\ \A p \in Polls : p # <<t, k>> => lockOf'[p] = lockOf[p]
    BY <1>1, <2>1 DEF ClientInv, ClientTypes
  <2>4. ClientTypes'
    BY <2>1, <2>2, <2>3 DEF ClientInv, ClientTypes
  <2>5. HasLock(<<t, k>>)'
    BY <1>1, <2>1, <2>2, <2>3 DEF HasLock, AtLock
  <2>6. ASSUME t \notin split PROVE OneLock(t)'
    <3>1. \A m \in Kinds : conn'[t, m] = None /\ lockOf'[t, m] \in {None, L}
      BY <1>2, <2>1, <2>3, <2>6, PollAt
    <3> QED
      BY <2>6, <3>1 DEF OneLock
  <2>7. NoClientLeak'
    BY <2>1 DEF ClientInv, NoClientLeak
  <2> QED
    <3>1. OthersStay(t, k)
      BY <1>3, <2>1, <2>2, <2>3 DEF OthersStay
    <3> QED
      BY <2>4, <2>5, <2>6, <2>7, <3>1, OnePollMoves, Zenon
<1>5. CASE cache[t] = None
  <2>1. PICK c \in Clients \ open :
          /\ Goto(t, k, "connect") /\ lockOf' = [lockOf EXCEPT ![<<t, k>>] = L]
          /\ conn' = [conn EXCEPT ![<<t, k>>] = c] /\ open' = open \cup {c}
    BY <1>5 DEF WithLock
  <2>2. /\ poll' \in [Polls -> PollPcs] /\ poll'[t, k] = "connect"
        /\ \A p \in Polls : p # <<t, k>> => poll'[p] = poll[p]
    BY <2>1, GotoMoves DEF ClientInv, PollPcs
  <2>3. /\ lockOf' \in [Polls -> Locks \cup {None}] /\ lockOf'[t, k] = L
        /\ \A p \in Polls : p # <<t, k>> => lockOf'[p] = lockOf[p]
    BY <1>1, <2>1 DEF ClientInv, ClientTypes
  <2>4. /\ conn' \in [Polls -> Clients \cup {None}] /\ conn'[t, k] = c /\ c # None
        /\ \A p \in Polls : p # <<t, k>> => conn'[p] = conn[p]
    BY <1>1, <2>1, PollerAssumption DEF ClientInv, ClientTypes
  <2>5. ClientTypes'
    BY <2>1, <2>2, <2>3, <2>4 DEF ClientInv, ClientTypes
  <2>6. HasLock(<<t, k>>)'
    BY <1>1, <2>2, <2>3, <2>4 DEF HasLock, AtLock
  <2>7. ASSUME t \notin split PROVE OneLock(t)'
    <3>1. \A m \in Kinds : m # k => conn'[t, m] = None
      BY <1>2, <2>4, <2>7, PollAt
    <3>2. \A m \in Kinds : lockOf'[t, m] \in {None, L}
      BY <2>3, <2>7, PollAt
    <3> QED
      BY <1>5, <2>7, <3>1, <3>2 DEF OneLock
  <2>8. NoClientLeak'
    <3> SUFFICES ASSUME NEW d \in open'
                 PROVE  \/ d \in closing' \/ d \in lost'
                        \/ \E u \in Targets : cache'[u] = d
                        \/ \E p \in Polls : conn'[p] = d
      BY DEF NoClientLeak
    <3>1. CASE d = c
      BY <1>1, <2>4, <3>1
    <3>2. CASE d \in open
      <4>1. d # None
        BY <3>2, PollerAssumption DEF ClientInv, ClientTypes
      <4> QED
        BY <1>1, <2>1, <2>4, <3>2, <4>1 DEF ClientInv, NoClientLeak
    <3> QED
      BY <2>1, <3>1, <3>2
  <2> QED
    <3>1. OthersStay(t, k)
      BY <1>3, <2>2, <2>3, <2>4 DEF OthersStay
    <3> QED
      BY <2>5, <2>6, <2>7, <2>8, <3>1, OnePollMoves, Zenon
<1> QED
  BY <1>4, <1>5

LEMMA GetClientKeeps ==
    ASSUME ClientInv, NEW t \in Targets, NEW k \in Kinds, get_client(t, k)
    PROVE  ClientInv'
<1>1. PICK L \in LockFor(t) :
        /\ locks' = [locks EXCEPT ![t] = L]
        /\ IF \E p \in Polls : lockOf[p] = L
           THEN /\ Goto(t, k, "wait") /\ lockOf' = [lockOf EXCEPT ![<<t, k>>] = L]
                /\ UNCHANGED <<conn, open, split>>
           ELSE WithLock(t, k, L)
  BY DEF get_client
<1>2. poll[t, k] = "client" /\ UNCHANGED <<cache, closing, lost>> /\ <<t, k>> \in Polls
  BY PollAt DEF get_client
<1>3. L \in Locks /\ (locks[t] = L \/ locks[t] = None)
  BY <1>1 DEF LockFor, ClientInv, ClientTypes
<1>4. locks[t] = None => \A p \in Polls : lockOf[p] # L
  BY <1>1 DEF LockFor
<1>5. /\ locks' \in [Targets -> Locks \cup {None}] /\ locks'[t] = L
      /\ \A u \in Targets : u # t => locks'[u] = locks[u]
  BY <1>1, <1>3 DEF ClientInv, ClientTypes
<1>6. t \notin split => \A m \in Kinds : lockOf[t, m] \in {None, L}
  BY <1>3 DEF ClientInv, OneLock
<1>7. CASE \E p \in Polls : lockOf[p] = L
  <2>1. /\ Goto(t, k, "wait") /\ lockOf' = [lockOf EXCEPT ![<<t, k>>] = L]
        /\ UNCHANGED <<conn, open, split>>
    BY <1>1, <1>7
  <2>2. /\ poll' \in [Polls -> PollPcs] /\ poll'[t, k] = "wait"
        /\ \A p \in Polls : p # <<t, k>> => poll'[p] = poll[p]
    BY <2>1, GotoMoves DEF ClientInv, PollPcs
  <2>3. /\ lockOf' \in [Polls -> Locks \cup {None}] /\ lockOf'[t, k] = L /\ L # None
        /\ \A p \in Polls : p # <<t, k>> => lockOf'[p] = lockOf[p]
    BY <1>2, <1>3, <2>1, PollerAssumption DEF ClientInv, ClientTypes
  <2>4. ClientTypes'
    BY <1>2, <1>5, <2>1, <2>2, <2>3 DEF ClientInv, ClientTypes
  <2>5. HasLock(<<t, k>>)'
    BY <1>2, <2>1, <2>2, <2>3 DEF ClientInv, HasLock, AtLock
  <2>6. ASSUME t \notin split PROVE OneLock(t)'
    <3>1. \A m \in Kinds : lockOf'[t, m] \in {None, L}
      BY <1>6, <2>3, <2>6, PollAt
    <3>2. OneLock(t)
      BY <2>6 DEF ClientInv
    <3> QED
      BY <1>2, <1>5, <2>1, <3>1, <3>2 DEF OneLock
  <2>7. NoClientLeak'
    BY <1>2, <2>1 DEF ClientInv, NoClientLeak
  <2> QED
    <3>1. OthersStay(t, k)
      BY <1>2, <1>5, <2>1, <2>2, <2>3 DEF OthersStay
    <3> QED
      BY <2>4, <2>5, <2>6, <2>7, <3>1, OnePollMoves, Zenon
<1>8. CASE ~ \E p \in Polls : lockOf[p] = L
  BY <1>1, <1>2, <1>3, <1>5, <1>6, <1>8, WithLockKeeps
<1> QED
  BY <1>7, <1>8

\* The Lock a poll waited for is still the one of its target, or the target is
\* split.
LEMMA AcquiredKeeps ==
    ASSUME ClientInv, NEW t \in Targets, NEW k \in Kinds, lock_acquired(t, k)
    PROVE  ClientInv'
<1>1. poll[t, k] = "wait" /\ <<t, k>> \in Polls /\ HasLock(<<t, k>>)
  BY PollAt DEF lock_acquired, ClientInv
<1>2. lockOf[t, k] \in Locks
  BY <1>1 DEF HasLock, AtLock, ClientInv, ClientTypes
<1>3. ASSUME t \notin split
      PROVE  locks[t] = lockOf[t, k] /\ \A m \in Kinds : lockOf[t, m] \in {None, lockOf[t, k]}
  <2>1. OneLock(t) /\ lockOf[t, k] # None
    BY <1>2, <1>3, PollerAssumption DEF ClientInv
  <2>2. lockOf[t, k] = locks[t]
    BY <2>1, Zenon DEF OneLock
  <2> QED
    BY <2>1, <2>2 DEF OneLock
<1>4. UNCHANGED <<locks, cache, closing, lost>> /\ WithLock(t, k, lockOf[t, k])
  BY DEF lock_acquired
<1>5. \A p \in Polls : poll[p] = "connect" => lockOf[p] # lockOf[t, k]
  BY DEF lock_acquired
<1>6. locks' \in [Targets -> Locks \cup {None}] /\ \A u \in Targets : u # t => locks'[u] = locks[u]
  BY <1>4 DEF ClientInv, ClientTypes
<1> QED
  BY <1>1, <1>2, <1>3, <1>4, <1>5, <1>6, WithLockKeeps

\* The end of a connection: the client goes to the cache, where it overwrites
\* one of a split target at most, or it is closed.
LEMMA ConnectKeeps ==
    ASSUME ClientInv, NEW t \in Targets, NEW k \in Kinds,
           Connected(t, k) \/ ConnectFails(t, k)
    PROVE  ClientInv'
<1>1. poll[t, k] = "connect" /\ <<t, k>> \in Polls /\ HasLock(<<t, k>>)
  BY PollAt DEF Connected, ConnectFails, ClientInv
<1>2. conn[t, k] # None /\ conn[t, k] \in Clients
  BY <1>1 DEF HasLock, ClientInv, ClientTypes
<1>3. t \notin split => OneLock(t) /\ cache[t] = None
  BY <1>2 DEF ClientInv, OneLock
<1>4. /\ poll' \in [Polls -> PollPcs] /\ poll'[t, k] \notin AtLock
      /\ \A p \in Polls : p # <<t, k>> => poll'[p] = poll[p]
  <2>1. CASE Connected(t, k)
    BY <2>1, GotoMoves DEF Connected, ClientInv, PollPcs, AtLock
  <2>2. CASE ConnectFails(t, k)
    BY <2>2, FinishMoves DEF ConnectFails, ClientInv, Outcomes
  <2> QED
    BY <2>1, <2>2
<1>5. Release(t, k) /\ UNCHANGED <<locks, closing>>
  BY DEF Connected, ConnectFails
<1>6. /\ conn' \in [Polls -> Clients \cup {None}] /\ conn'[t, k] = None
      /\ \A p \in Polls : p # <<t, k>> => conn'[p] = conn[p]
  BY <1>1, <1>5 DEF Release, ClientInv, ClientTypes
<1>7. /\ lockOf' \in [Polls -> Locks \cup {None}] /\ lockOf'[t, k] = None
      /\ \A p \in Polls : p # <<t, k>> => lockOf'[p] = lockOf[p]
  BY <1>1, <1>5 DEF Release, ClientInv, ClientTypes
<1>8. /\ cache' \in [Targets -> Clients \cup {None}] /\ open' \subseteq open
      /\ \A u \in Targets : u # t => cache'[u] = cache[u]
      /\ cache'[t] = conn[t, k] \/ (open' = open \ {conn[t, k]} /\ cache' = cache)
      /\ cache[t] # None => cache'[t] = cache[t] \/ cache[t] \in lost'
      /\ lost \subseteq lost'
  BY <1>2, <1>3 DEF Connected, ConnectFails, ClientInv, ClientTypes
<1>9. ClientTypes'
  BY <1>4, <1>5, <1>6, <1>7, <1>8 DEF ClientInv, ClientTypes
<1>10. HasLock(<<t, k>>)'
  BY <1>4, <1>6, <1>7 DEF HasLock, AtLock
<1>11. ASSUME t \notin split PROVE OneLock(t)'
  <2>1. \A m \in Kinds : conn'[t, m] = None
    <3> SUFFICES ASSUME NEW m \in Kinds PROVE conn'[t, m] = None
      OBVIOUS
    <3>1. CASE m = k
      BY <1>6, <3>1
    <3>2. CASE m # k
      <4>1. conn[t, m] = None
        BY <1>2, <1>3, <1>11, <3>2, Zenon DEF OneLock
      <4> QED
        BY <1>6, <3>2, <4>1, PollAt
    <3> QED
      BY <3>1, <3>2
  <2>2. \A m \in Kinds : lockOf'[t, m] \in {None, locks[t]}
    BY <1>3, <1>7, <1>11, PollAt DEF OneLock
  <2> QED
    BY <1>5, <2>1, <2>2 DEF OneLock
<1>12. NoClientLeak'
  <2> SUFFICES ASSUME NEW d \in open'
               PROVE  \/ d \in closing' \/ d \in lost'
                      \/ \E u \in Targets : cache'[u] = d
                      \/ \E p \in Polls : conn'[p] = d
    BY DEF NoClientLeak
  <2>1. d \in open /\ d # None
    BY <1>8, PollerAssumption DEF ClientInv, ClientTypes
  <2>2. CASE d = conn[t, k]
    BY <1>8, <2>2
  <2>3. CASE \E u \in Targets : cache[u] = d
    BY <1>8, <2>1, <2>3
  <2>4. CASE d # conn[t, k] /\ \E p \in Polls : conn[p] = d
    BY <1>6, <2>4
  <2> QED
    BY <1>5, <1>8, <2>1, <2>2, <2>3, <2>4 DEF ClientInv, NoClientLeak
<1>13. OthersStay(t, k)
  BY <1>4, <1>5, <1>6, <1>7, <1>8 DEF OthersStay, Release
<1> QED
  BY <1>9, <1>10, <1>11, <1>12, <1>13, OnePollMoves, Zenon

\* A cached client of the target is taken out and closed.
LEMMA CloseMoves ==
    ASSUME ClientInv, NEW t \in Targets, close_client(t),
           UNCHANGED <<locks, lockOf, conn, open, split, lost>>,
           poll' \in [Polls -> PollPcs],
           \A p \in Polls : poll'[p] # poll[p] => poll[p] \notin AtLock /\ poll'[p] \notin AtLock
    PROVE  ClientInv'
<1>1. /\ cache' \in [Targets -> Clients \cup {None}] /\ cache'[t] = None
      /\ \A u \in Targets : u # t => cache'[u] = cache[u]
      /\ closing \subseteq closing'
      /\ cache[t] # None => cache[t] \in closing'
  BY DEF close_client, ClientInv, ClientTypes
<1>2. ClientTypes'
  BY <1>1 DEF ClientInv, ClientTypes
<1>3. \A p \in Polls : HasLock(p)'
  BY DEF ClientInv, HasLock, AtLock
<1>4. \A u \in Targets \ split' : OneLock(u)'
  BY <1>1, OneLockStays DEF ClientInv
<1>5. NoClientLeak'
  <2> SUFFICES ASSUME NEW d \in open
               PROVE  \/ d \in closing' \/ d \in lost'
                      \/ \E u \in Targets : cache'[u] = d
                      \/ \E p \in Polls : conn'[p] = d
    BY DEF NoClientLeak
  <2>1. d # None
    BY PollerAssumption DEF ClientInv, ClientTypes
  <2>2. CASE \E u \in Targets : cache[u] = d
    BY <1>1, <2>1, <2>2
  <2> QED
    BY <1>1, <2>2 DEF ClientInv, NoClientLeak
<1> QED
  BY <1>2, <1>3, <1>4, <1>5 DEF ClientInv

\* The steps that only move a poll, which is at no Lock.
LEMMA PollMovesOn ==
    ASSUME ClientInv, NEW t \in Targets, NEW k \in Kinds, poll[t, k] \notin AtLock,
           NEW l \in PollPcs \ AtLock, Goto(t, k, l), UNCHANGED clients
    PROVE  ClientInv'
<1>1. /\ poll' \in [Polls -> PollPcs] /\ poll'[t, k] = l
      /\ \A p \in Polls : p # <<t, k>> => poll'[p] = poll[p]
  BY GotoMoves DEF ClientInv
<1> QED
  BY <1>1, ClientsSame

LEMMA FetchKeeps ==
    ASSUME ClientInv, NEW t \in Targets, NEW k \in Kinds,
           FetchOk(t, k) \/ FetchFails(t, k) \/ PollFailed(t, k)
    PROVE  ClientInv'
<1>1. poll[t, k] \notin AtLock
  BY DEF FetchOk, FetchFails, PollFailed, AtLock
<1>2. CASE FetchOk(t, k) \/ PollFailed(t, k)
  <2>1. /\ poll' \in [Polls -> PollPcs] /\ poll'[t, k] \notin AtLock
        /\ \A p \in Polls : p # <<t, k>> => poll'[p] = poll[p]
    BY <1>2, FinishMoves DEF FetchOk, PollFailed, ClientInv, Outcomes
  <2> QED
    BY <1>1, <1>2, <2>1, ClientsSame DEF FetchOk, PollFailed
<1>3. CASE FetchFails(t, k)
  <2>1. /\ poll' \in [Polls -> PollPcs] /\ poll'[t, k] = "evict"
        /\ \A p \in Polls : p # <<t, k>> => poll'[p] = poll[p]
    BY <1>3, GotoMoves DEF FetchFails, ClientInv, PollPcs
  <2> QED
    BY <1>1, <1>3, <2>1, CloseMoves DEF FetchFails, AtLock
<1> QED
  BY <1>2, <1>3

\* The scheduler splits the targets whose Lock it discards under their polls.
LEMMA ScheduleKeeps ==
    ASSUME ClientInv, schedule_due_polls
    PROVE  ClientInv'
<1> DEFINE due  == {t \in view \ inflight : sched[t] = "due"}
           gone == IF NothingRead THEN {} ELSE {t \in Targets \ view : cache[t] # None}
<1>1. /\ poll' = [p \in Polls |-> IF p[2] = "sched" /\ p[1] \in due THEN "start" ELSE poll[p]]
      /\ locks' = [t \in Targets |-> IF t \in gone THEN None ELSE locks[t]]
      /\ split' = split \cup {t \in gone : \E k \in Kinds : lockOf[t, k] # None}
      /\ UNCHANGED <<lockOf, conn, cache, open, closing, lost>>
  BY DEF schedule_due_polls
<1>2. \A t \in due : t \in Targets => poll[t, "sched"] = "idle"
  BY DEF inflight
<1> HIDE DEF due, gone
<1>3. /\ poll' \in [Polls -> PollPcs]
      /\ \A p \in Polls : poll'[p] # poll[p] => poll[p] \notin AtLock /\ poll'[p] \notin AtLock
  <2>1. poll' \in [Polls -> PollPcs]
    BY <1>1 DEF ClientInv, ClientTypes, PollPcs
  <2>2. ASSUME NEW p \in Polls, poll'[p] # poll[p]
        PROVE  poll[p] \notin AtLock /\ poll'[p] \notin AtLock
    <3>1. p[2] = "sched" /\ p[1] \in due /\ poll'[p] = "start"
      BY <1>1, <2>2
    <3>2. p = <<p[1], "sched">> /\ p[1] \in Targets
      BY <3>1 DEF Polls
    <3> QED
      BY <1>2, <3>1, <3>2 DEF AtLock
  <2> QED
    BY <2>1, <2>2
<1>4. ClientTypes'
  BY <1>1, <1>3 DEF ClientInv, ClientTypes
<1>5. \A p \in Polls : HasLock(p)'
  BY <1>1, <1>3 DEF ClientInv, HasLock, AtLock
<1>6. ASSUME NEW u \in Targets \ split' PROVE OneLock(u)'
  <2>1. OneLock(u)
    BY <1>1, <1>6 DEF ClientInv
  <2>2. u \in gone => \A k \in Kinds : lockOf[u, k] = None
    BY <1>1, <1>6
  <2> QED
    BY <1>1, <1>6, <2>1, <2>2, OneLockStays
<1>7. NoClientLeak'
  BY <1>1 DEF ClientInv, NoClientLeak
<1> QED
  BY <1>4, <1>5, <1>6, <1>7 DEF ClientInv

LEMMA ClientClosedKeeps ==
    ASSUME ClientInv, NEW c \in Clients, ClientClosed(c)
    PROVE  ClientInv'
<1>1. /\ closing' = closing \ {c} /\ open' = open \ {c}
      /\ UNCHANGED <<poll, locks, lockOf, conn, cache, split, lost>>
  BY DEF ClientClosed
<1>2. ClientTypes'
  BY <1>1 DEF ClientInv, ClientTypes
<1>3. \A p \in Polls : HasLock(p)'
  BY <1>1 DEF ClientInv, HasLock
<1>4. \A t \in Targets \ split' : OneLock(t)'
  BY <1>1, OneLockStays DEF ClientInv
<1>5. NoClientLeak'
  BY <1>1 DEF ClientInv, NoClientLeak
<1> QED
  BY <1>2, <1>3, <1>4, <1>5 DEF ClientInv

LEMMA CloseClientsKeeps ==
    ASSUME ClientInv, CloseClients
    PROVE  ClientInv'
<1>1. /\ open' = open \ {cache[t] : t \in Targets} /\ cache' = [t \in Targets |-> None]
      /\ UNCHANGED <<poll, locks, lockOf, conn, closing, split, lost>>
  BY DEF CloseClients
<1>2. ClientTypes'
  BY <1>1 DEF ClientInv, ClientTypes
<1>3. \A p \in Polls : HasLock(p)'
  BY <1>1 DEF ClientInv, HasLock
<1>4. \A t \in Targets \ split' : OneLock(t)'
  BY <1>1, OneLockStays DEF ClientInv
<1>5. NoClientLeak'
  BY <1>1 DEF ClientInv, NoClientLeak
<1> QED
  BY <1>2, <1>3, <1>4, <1>5 DEF ClientInv

LEMMA NextKeepsClients == ClientInv /\ [Next]_vars => ClientInv'
<1> SUFFICES ASSUME ClientInv, [Next]_vars PROVE ClientInv'
  OBVIOUS
<1>1. CASE \/ ReadTargets \/ DrainStatus \/ flush_pending_status \/ Stop \/ InflightDrained
           \/ CancelWriter \/ Stopped \/ UNCHANGED vars
           \/ \E t \in Targets : BecomesDue(t) \/ SetActive(t)
  <2>1. UNCHANGED <<poll, clients>>
    BY <1>1 DEF ReadTargets, DrainStatus, flush_pending_status, Stop, InflightDrained,
       CancelWriter, Stopped, vars, BecomesDue, SetActive
  <2> QED
    BY <2>1, ClientsSame DEF ClientInv, ClientTypes
<1>2. CASE schedule_due_polls
  BY <1>2, ScheduleKeeps
<1>3. ASSUME NEW t \in Manual, NEW r \in Requests, poll_single(t, r) \/ CommitManual(t, r)
      PROVE  ClientInv'
  <2>1. Goto(t, r, "client") \/ Goto(t, r, "idle")
    BY <1>3 DEF poll_single, CommitManual
  <2>2. poll[t, r] \notin AtLock /\ UNCHANGED clients /\ t \in Targets /\ r \in Kinds
    BY <1>3, PollerAssumption DEF poll_single, CommitManual, AtLock, Kinds
  <2>3. "client" \in PollPcs \ AtLock /\ "idle" \in PollPcs \ AtLock
    BY DEF PollPcs, AtLock
  <2> QED
    BY <2>1, <2>2, <2>3, PollMovesOn
<1>4. ASSUME NEW t \in Targets, EnterSemaphore(t) \/ RefreshSchedule(t) PROVE ClientInv'
  <2>1. PICK l \in PollPcs \ AtLock : Goto(t, "sched", l) /\ poll[t, "sched"] \notin AtLock
    BY <1>4 DEF EnterSemaphore, RefreshSchedule, PollPcs, AtLock
  <2>2. UNCHANGED clients /\ "sched" \in Kinds
    BY <1>4 DEF EnterSemaphore, RefreshSchedule, Kinds
  <2> QED
    BY <2>1, <2>2, PollMovesOn
<1>5. ASSUME NEW t \in Targets, Evict(t) PROVE ClientInv'
  <2>1. poll' \in [Polls -> PollPcs] /\ poll' = poll
    BY <1>5 DEF Evict, ClientInv, ClientTypes
  <2> QED
    BY <1>5, <2>1, CloseMoves DEF Evict
<1>6. ASSUME NEW t \in Targets, NEW k \in Kinds, PollStep(t, k) PROVE ClientInv'
  BY <1>6, GetClientKeeps, AcquiredKeeps, ConnectKeeps, FetchKeeps DEF PollStep
<1>7. ASSUME NEW c \in Clients, ClientClosed(c) PROVE ClientInv'
  BY <1>7, ClientClosedKeeps
<1>8. CASE CloseClients
  BY <1>8, CloseClientsKeeps
<1> QED
  BY <1>1, <1>2, <1>3, <1>4, <1>5, <1>6, <1>7, <1>8, PollerAssumption DEF Next

-----------------------------------------------------------------------------
(* The poll statuses.                                                      *)

\* Of a target's updates the pending one is the newest, then the one being
\* committed, then the one that was committed.
Newest(t) ==
    /\ pending[t] # "none" => pending[t] = latest[t]
    /\ pending[t] = "none" /\ drained[t] # "none" => drained[t] = latest[t]
    /\ pending[t] = "none" /\ drained[t] = "none" => saved[t] = latest[t]

StatusInv ==
    /\ pending \in Updates /\ drained \in Updates
    /\ latest \in [Targets -> Outcomes \cup {"never"}]
    /\ saved \in [Targets -> Outcomes \cup {"never"}]
    /\ writer # "commit" => drained = NoUpdates
    /\ phase \in {"run", "drain"} => \A t \in Targets \ Malformed : Newest(t)

LEMMA NoUpdatesType == NoUpdates \in Updates /\ \A t \in Targets : NoUpdates[t] = "none"
BY DEF NoUpdates, Updates

\* A step that neither ends a poll nor writes a status; stop() may go on.
LEMMA StatusSame ==
    ASSUME StatusInv, UNCHANGED <<pending, writer, drained, saved, latest>>,
           phase' \in {"run", "drain"} => phase \in {"run", "drain"}
    PROVE  StatusInv'
BY DEF StatusInv, Newest

LEMMA FinishStatus ==
    ASSUME StatusInv, NEW t \in Targets, NEW k \in Kinds, NEW o \in Outcomes,
           Finish(t, k, o), UNCHANGED <<writer, drained, saved, phase>>
    PROVE  StatusInv'
<1>1. CASE k = "sched"
  <2>1. pending' = [pending EXCEPT ![t] = o] /\ latest' = [latest EXCEPT ![t] = o]
    BY <1>1 DEF Finish
  <2>2. /\ pending' \in Updates /\ latest' \in [Targets -> Outcomes \cup {"never"}]
        /\ pending'[t] = o /\ latest'[t] = o
        /\ \A u \in Targets : u # t => pending'[u] = pending[u] /\ latest'[u] = latest[u]
    BY <2>1 DEF StatusInv, Updates
  <2>3. \A u \in Targets \ Malformed : Newest(u) => Newest(u)'
    BY <2>2 DEF Newest, Outcomes
  <2> QED
    BY <2>2, <2>3 DEF StatusInv
<1>2. CASE k # "sched"
  BY <1>2, StatusSame DEF Finish
<1> QED
  BY <1>1, <1>2

LEMMA EnterStatus ==
    ASSUME StatusInv, NEW t \in Targets, EnterSemaphore(t)
    PROVE  StatusInv'
<1>1. CASE t \in Malformed
  <2>1. /\ latest' = [latest EXCEPT ![t] = "error"]
        /\ UNCHANGED <<pending, writer, drained, saved, phase>>
    BY <1>1 DEF EnterSemaphore, status
  <2>2. /\ latest' \in [Targets -> Outcomes \cup {"never"}]
        /\ \A u \in Targets \ Malformed : latest'[u] = latest[u]
    BY <1>1, <2>1 DEF StatusInv, Outcomes
  <2> QED
    BY <2>1, <2>2 DEF StatusInv, Newest
<1>2. CASE t \notin Malformed
  BY <1>2, StatusSame DEF EnterSemaphore, status, history
<1> QED
  BY <1>1, <1>2

LEMMA DrainKeeps ==
    ASSUME StatusInv, DrainStatus
    PROVE  StatusInv'
<1>1. /\ drained = NoUpdates /\ drained' = pending /\ pending' = NoUpdates /\ writer' = "commit"
      /\ UNCHANGED <<saved, latest, phase>>
  BY DEF DrainStatus, StatusInv, rows, history
<1>2. \A t \in Targets \ Malformed : Newest(t) => Newest(t)'
  BY <1>1, NoUpdatesType DEF Newest
<1> QED
  BY <1>1, <1>2, NoUpdatesType DEF StatusInv

LEMMA CommitTypes ==
    ASSUME StatusInv, NEW u \in Updates, WriterCommits(u)
    PROVE  /\ saved' \in [Targets -> Outcomes \cup {"never"}]
           /\ \A t \in Targets : saved'[t] = IF u[t] = "none" THEN saved[t] ELSE u[t]
BY DEF WriterCommits, StatusInv, Updates

LEMMA FlushKeeps ==
    ASSUME StatusInv, flush_pending_status
    PROVE  StatusInv'
<1>1. drained' = NoUpdates /\ UNCHANGED <<latest, phase>>
  BY DEF flush_pending_status, history
<1>2. CASE WriterCommits(drained) /\ UNCHANGED pending
  <2>1. /\ saved' \in [Targets -> Outcomes \cup {"never"}]
        /\ \A t \in Targets : saved'[t] = IF drained[t] = "none" THEN saved[t] ELSE drained[t]
    BY <1>2, CommitTypes DEF StatusInv
  <2>2. \A t \in Targets \ Malformed : Newest(t) => Newest(t)'
    BY <1>1, <1>2, <2>1, NoUpdatesType DEF Newest
  <2> QED
    BY <1>1, <1>2, <2>1, <2>2, NoUpdatesType DEF StatusInv
<1>3. CASE pending' = Remerge /\ UNCHANGED rows
  <2>1. /\ pending' \in Updates
        /\ \A t \in Targets : pending'[t] = IF pending[t] # "none" THEN pending[t] ELSE drained[t]
    BY <1>3 DEF Remerge, StatusInv, Updates
  <2>2. \A t \in Targets \ Malformed : Newest(t) => Newest(t)'
    BY <1>1, <1>3, <2>1, NoUpdatesType DEF Newest, rows
  <2> QED
    BY <1>1, <1>3, <2>1, <2>2, NoUpdatesType DEF StatusInv, rows
<1> QED
  BY <1>2, <1>3 DEF flush_pending_status

LEMMA StopStatus ==
    ASSUME StatusInv, InflightDrained \/ CancelWriter
    PROVE  StatusInv'
<1>1. phase' \in {"flush", "close"} /\ UNCHANGED latest
  BY DEF InflightDrained, CancelWriter, history
<1>2. saved' \in [Targets -> Outcomes \cup {"never"}]
  BY CommitTypes DEF InflightDrained, CancelWriter, StatusInv, rows
<1>3. /\ pending' \in {pending, NoUpdates}
      /\ drained' = NoUpdates \/ (drained' = drained /\ writer' = writer)
  BY DEF InflightDrained, CancelWriter
<1> QED
  BY <1>1, <1>2, <1>3, NoUpdatesType DEF StatusInv

LEMMA InitStatus == Init => StatusInv
BY NoUpdatesType DEF Init, StatusInv, Newest, Updates, NoUpdates

LEMMA NextKeepsStatus == StatusInv /\ [Next]_vars => StatusInv'
<1> SUFFICES ASSUME StatusInv, [Next]_vars PROVE StatusInv'
  OBVIOUS
<1>1. CASE \/ ReadTargets \/ schedule_due_polls \/ Stop \/ CloseClients \/ Stopped
           \/ UNCHANGED vars \/ \E c \in Clients : ClientClosed(c)
  BY <1>1, StatusSame DEF ReadTargets, schedule_due_polls, Stop, CloseClients, Stopped, vars,
     ClientClosed, status, history
<1>2. ASSUME NEW t \in Targets,
             \/ BecomesDue(t) \/ RefreshSchedule(t) \/ Evict(t) \/ SetActive(t)
             \/ \E r \in Requests : poll_single(t, r) \/ CommitManual(t, r)
             \/ \E k \in Kinds : get_client(t, k) \/ lock_acquired(t, k) \/ Connected(t, k)
                                 \/ FetchFails(t, k)
      PROVE  StatusInv'
  BY <1>2, StatusSame DEF BecomesDue, RefreshSchedule, Evict, SetActive, poll_single,
     CommitManual, get_client, lock_acquired, Connected, FetchFails, status, history
<1>3. ASSUME NEW t \in Targets, NEW k \in Kinds,
             ConnectFails(t, k) \/ FetchOk(t, k) \/ PollFailed(t, k)
      PROVE  StatusInv'
  BY <1>3, FinishStatus DEF ConnectFails, FetchOk, PollFailed, rows, Outcomes
<1>4. ASSUME NEW t \in Targets, EnterSemaphore(t) PROVE StatusInv'
  BY <1>4, EnterStatus
<1>5. CASE DrainStatus \/ flush_pending_status \/ InflightDrained \/ CancelWriter
  BY <1>5, DrainKeeps, FlushKeeps, StopStatus
<1> QED
  BY <1>1, <1>2, <1>3, <1>4, <1>5, PollerAssumption DEF Next, PollStep

-----------------------------------------------------------------------------
(* The theorems.                                                           *)

\* In every reachable state a poll has a Lock exactly while it waits or
\* connects, the polls of a target whose Lock was not discarded under them share
\* one Lock and connect one at a time, and every open client is known
\* (_get_client, _close_client, _schedule_due_polls).
THEOREM ClientInvariance == Spec => []ClientInv
BY InitClients, NextKeepsClients, PTL DEF Spec

\* No session is lost through evictions by failed polls and by the scheduler,
\* any number of manual polls and stop() in any order, but for a client that is
\* overwritten after the scheduler has discarded the Lock under the polls of
\* its target (_get_client, _close_client, _schedule_due_polls, stop).
THEOREM NoSessionLeaks == Spec => []NoClientLeak
<1>1. ClientInv => NoClientLeak
  BY DEF ClientInv
<1> QED
  BY <1>1, ClientInvariance, PTL

\* The polls of a target, scheduled or manual and any number of them, never
\* open two clients as long as they share a Lock (_get_client).
THEOREM SingleClient == Spec => []OneClientPerTarget
<1>1. ASSUME ClientInv, NEW t \in Targets \ split
      PROVE  Cardinality({k \in Kinds : conn[t, k] # None})
                 + (IF cache[t] = None THEN 0 ELSE 1) <= 1
  <2> DEFINE R == {k \in Kinds : conn[t, k] # None}
  <2>1. OneLock(t)
    BY <1>1 DEF ClientInv
  <2>2. \A k \in R : R = {k} /\ cache[t] = None
    BY <2>1 DEF OneLock
  <2>3. Cardinality(R) = 0 \/ (Cardinality(R) = 1 /\ cache[t] = None)
    <3> HIDE DEF R
    <3>1. CASE R = {}
      BY <3>1, FS_EmptySet
    <3>2. ASSUME NEW k \in R PROVE Cardinality(R) = 1 /\ cache[t] = None
      BY <2>2, <3>2, FS_Singleton
    <3> QED
      BY <3>1, <3>2
  <2>4. Cardinality(R) + (IF cache[t] = None THEN 0 ELSE 1) <= 1
    <3> HIDE DEF R
    <3> QED
      BY <2>3
  <2> QED
    BY <2>4
<1>2. ClientInv => OneClientPerTarget
  BY <1>1 DEF OneClientPerTarget
<1> QED
  BY <1>2, ClientInvariance, PTL

\* Until stop() cancels the writer, a commit that failed, while newer outcomes
\* came in, leaves no target with an older outcome for good
\* (_flush_pending_status, _poll_target).
THEOREM LatestOutcomeSaved == Spec => []LatestStatusWins
<1>1. StatusInv => LatestStatusWins
  BY DEF StatusInv, Newest, LatestStatusWins
<1> QED
  BY <1>1, InitStatus, NextKeepsStatus, PTL DEF Spec
=============================================================================
