--------------------------- MODULE SyncFeedProofs ---------------------------
(***************************************************************************)
(* Theorems of SyncFeed for every set of rows, writers and devices and     *)
(* every number of changes.                                                *)
(***************************************************************************)
EXTENDS SyncFeed, WellFoundedInduction, TLAPS

Less == {p \in Nat \X Nat : p[1] < p[2]}

\* A non-empty set of positions has a largest element, which Max returns.
LEMMA MaxIsLargest ==
  ASSUME NEW S, S \subseteq Positions, S # {}
  PROVE  Max(S) \in S /\ \A x \in S : x <= Max(S)
<1> USE MaxCursorAssumption DEF Positions
<1> DEFINE D == {MaxCursor - x : x \in S}
<1>1. D \subseteq Nat /\ D # {}
  <2>1. \A x \in S : MaxCursor - x \in Nat
    OBVIOUS
  <2>2. PICK x \in S : TRUE
    OBVIOUS
  <2>3. MaxCursor - x \in D
    OBVIOUS
  <2> QED  BY <2>1, <2>3
<1>2. PICK m \in D : \A n \in D : m <= n
  <2>1. IsWellFoundedOn(Less, Nat)
    BY NatLessThanWellFounded DEF OpToRel, Less
  <2>2. PICK m \in D : \A n \in D : <<n, m>> \notin Less
    <3> HIDE DEF D
    <3> QED  BY <1>1, <2>1, WFMin
  <2>3. \A n \in D : ~(n < m)
    BY <1>1, <2>2 DEF Less
  <2> QED  BY <1>1, <2>3
<1>3. PICK x \in S : m = MaxCursor - x
  BY <1>2
<1>4. \A y \in S : y <= x
  <2> TAKE y \in S
  <2>1. MaxCursor - y \in D
    OBVIOUS
  <2>2. MaxCursor - x <= MaxCursor - y
    BY <1>2, <1>3, <2>1
  <2> QED  BY <2>2
<1>5. \E z \in S : \A y \in S : z >= y
  BY <1>4
<1>6. Max(S) \in S /\ \A y \in S : Max(S) >= y
  BY <1>5 DEF Max
<1> QED  BY <1>6

\* The newest version among the retained changes of a range of the feed.
LEMMA NewestCovers ==
  ASSUME TypeOK, NEW r \in Resources, NEW from \in Int, NEW next \in Positions
  PROVE  /\ Newest(r, from, next) \in Positions
         /\ \A e \in feed : e.resource = r /\ e.cursor \in retained /\ from < e.cursor /\ e.cursor <= next
              => e.version <= Newest(r, from, next)
<1> DEFINE E == {f \in feed : /\ f.resource = r /\ f.cursor \in retained
                              /\ from < f.cursor /\ f.cursor <= next}
           S == {0} \union {e.version : e \in E}
<1>1. S \subseteq Positions /\ S # {}
  BY MaxCursorAssumption DEF TypeOK, Positions, Cursors
<1>2. Max(S) \in S /\ \A x \in S : x <= Max(S)
  <2> HIDE DEF S
  <2> QED  BY <1>1, MaxIsLargest
<1>3. \A e \in E : e.version \in S
  OBVIOUS
<1>4. Newest(r, from, next) = Max(S)
  BY DEF Newest
<1> HIDE DEF S
<1> QED  BY <1>1, <1>2, <1>3, <1>4

\* The initial state is well typed.
LEMMA TypeInit == Init => TypeOK
BY MaxCursorAssumption DEF Init, TypeOK, Positions, Cursors, NoCursor, Writes, NoCall, Nothing

\* An open transaction has a row, a new version of it, and perhaps a cursor.
LEMMA OpenWrite ==
  ASSUME TypeOK, NEW w \in Writers, txn[w] # NoWrite
  PROVE  txn[w] \in [resource : Resources, version : Cursors, cursor : Positions]
BY DEF TypeOK, Writes

\* Whoever has a row or a cursor has an open transaction.
LEMMA Busy ==
  ASSUME NEW w \in Writers, txn[w].resource # 0 \/ txn[w].cursor # 0
  PROVE  txn[w] # NoWrite
BY DEF NoWrite

\* The writers and the retention job preserve the types.
LEMMA TypeServer == TypeOK /\ Server => TypeOK'
<1> SUFFICES ASSUME TypeOK, Server PROVE TypeOK'
  OBVIOUS
<1> USE MaxCursorAssumption
<1>1. ASSUME NEW w \in Writers, NEW r \in Resources, Write(w, r) PROVE TypeOK'
  <2>1. version[r] + 1 \in Cursors
    BY <1>1 DEF Write, TypeOK, Positions, Cursors
  <2>2. [resource |-> r, version |-> version[r] + 1, cursor |-> 0] \in Writes
    BY <2>1 DEF Writes, Positions
  <2>3. txn' \in [Writers -> Writes]
    BY <1>1, <2>2 DEF Write, TypeOK
  <2> QED  BY <1>1, <2>3 DEF Write, TypeOK, cleaning, checkpoints, device
<1>2. ASSUME NEW w \in Writers, Attach(w) PROVE TypeOK'
  <2>1. high + 1 \in Positions
    BY <1>2 DEF Attach, TypeOK, Positions
  <2>2. txn[w] \in [resource : Resources, version : Cursors, cursor : Positions]
    BY <1>2, Busy, OpenWrite DEF Attach
  <2>3. txn' = [txn EXCEPT ![w] = [txn[w] EXCEPT !.cursor = high + 1]]
    BY <1>2 DEF Attach, NextCursor, TypeOK
  <2>4. [txn[w] EXCEPT !.cursor = high + 1] \in Writes
    BY <2>1, <2>2 DEF Writes
  <2>5. txn' \in [Writers -> Writes]
    BY <2>3, <2>4 DEF TypeOK
  <2> QED  BY <1>2, <2>5 DEF Attach, TypeOK, cleaning, checkpoints, device
<1>3. ASSUME NEW w \in Writers, Commit(w) PROVE TypeOK'
  <2>1. txn[w] \in [resource : Resources, version : Cursors, cursor : Cursors]
    <3>1. txn[w] \in [resource : Resources, version : Cursors, cursor : Positions] /\ txn[w].cursor # 0
      BY <1>3, Busy, OpenWrite DEF Commit
    <3> QED  BY <3>1 DEF Cursors, Positions
  <2>2. version' \in [Resources -> Positions] /\ high' \in Positions
    BY <1>3, <2>1 DEF Commit, TypeOK, Cursors, Positions
  <2>3. txn' \in [Writers -> Writes]
    BY <1>3 DEF Commit, TypeOK, Writes
  <2>4. retained' \subseteq Cursors /\ feed' \subseteq [cursor : Cursors, resource : Resources, version : Cursors]
    BY <1>3, <2>1 DEF Commit, TypeOK
  <2> QED  BY <1>3, <2>2, <2>3, <2>4 DEF Commit, TypeOK, checkpoints, device
<1>4. ASSUME NEW w \in Writers, Rollback(w) PROVE TypeOK'
  BY <1>4 DEF Rollback, TypeOK, Writes, cleaning, checkpoints, device
<1>5. ASSUME NEW c \in Cursors, Settle(c) PROVE TypeOK'
  BY <1>5 DEF Settle, TypeOK, writing, checkpoints, device
<1>6. ASSUME NEW R \in SUBSET Devices, Cleanup(R) PROVE TypeOK'
  <2>1. acked' \in [Devices -> Positions] /\ issued' \in [Devices -> Positions]
    BY <1>6 DEF Cleanup, TypeOK, Positions
  <2>2. enrolled' \subseteq Devices /\ retained' \subseteq Cursors /\ settled' \subseteq Cursors
    BY <1>6 DEF Cleanup, TypeOK
  <2> QED  BY <1>6, <2>1, <2>2 DEF Cleanup, TypeOK, writing, device
<1> QED  BY <1>1, <1>2, <1>3, <1>4, <1>5, <1>6 DEF Server

\* The type of one device's request.
Calls == [kind : {"none", "bootstrap", "delta"}, step : {"idle", "record", "reply", "page", "ack"},
          at : Positions, after : Resources \union {0}, items : [Resources -> Positions], more : BOOLEAN]

\* A step that only changes the request of a device preserves the types.
LEMMA TypeCall ==
  ASSUME TypeOK, NEW d \in Devices, NEW c \in Calls, call' = [call EXCEPT ![d] = c],
         UNCHANGED <<writing, cleaning, active, checkpoints, device>>
  PROVE  TypeOK'
BY DEF TypeOK, Calls, writing, cleaning, checkpoints, device

\* The synchronization of a device preserves the types.
LEMMA TypeDevice ==
  ASSUME TypeOK, NEW d \in Devices, Synchronize(d) \/ Abandon(d) \/ Revoke(d) \/ Register(d)
  PROVE  TypeOK'
<1> USE MaxCursorAssumption
<1>a. call[d] \in Calls /\ NoCall \in Calls
  BY DEF TypeOK, Calls, NoCall, Nothing, Positions
<1>1. ASSUME NEW after \in Resources \union {0}, NEW last \in Resources \union {0},
             Bootstrap(d, after, last), call[d] = NoCall \/ call[d].step = "page"
      PROVE TypeOK'
  <2>1. Boundary(d) \in Positions
    BY <1>a DEF Boundary, TypeOK, Calls
  <2>2. [r \in Resources |-> IF r \in Rows(after) /\ r <= last THEN version[r] ELSE 0] \in [Resources -> Positions]
    BY DEF TypeOK, Positions
  <2>3. last \in Resources \union {0} /\ (\E r \in Rows(after) : r > last) \in BOOLEAN
    OBVIOUS
  <2>4. PICK c : /\ call' = [call EXCEPT ![d] = c]
                 /\ c = [kind |-> "bootstrap",
                         step |-> IF \E r \in Rows(after) : r > last THEN "reply" ELSE "record",
                         at |-> Boundary(d), after |-> last, more |-> \E r \in Rows(after) : r > last,
                         items |-> [r \in Resources |->
                                      IF r \in Rows(after) /\ r <= last THEN version[r] ELSE 0]]
    BY <1>1 DEF Bootstrap
  <2>5. c \in Calls
    BY <2>1, <2>2, <2>3, <2>4 DEF Calls
  <2> QED  BY <1>1, <2>4, <2>5, TypeCall DEF Bootstrap
<1>2. ASSUME NEW last \in Resources \union {0}, FirstPage(d, last) PROVE TypeOK'
  BY <1>1, <1>2 DEF FirstPage
<1>3. ASSUME NEW last \in Resources \union {0}, NextPage(d, last) PROVE TypeOK'
  <2>1. call[d].after \in Resources \union {0}
    BY <1>a DEF Calls
  <2> QED  BY <1>1, <1>3, <2>1 DEF NextPage
<1>4. ASSUME NEW next \in Positions, Delta(d, next) PROVE TypeOK'
  <2>1. saved[d] \in Int
    BY DEF TypeOK, Positions, NoCursor
  <2>2. [r \in Resources |-> Newest(r, saved[d], next)] \in [Resources -> Positions]
    BY <2>1, NewestCovers
  <2>3. PICK c \in Calls : call' = [call EXCEPT ![d] = c]
    BY <1>4, <2>2 DEF Delta, Calls
  <2> QED  BY <1>4, <2>3, TypeCall DEF Delta
<1>5. ASSUME RecordIssued(d) PROVE TypeOK'
  <2>1. call' \in [Devices -> Calls]
    BY <1>5, <1>a DEF RecordIssued, TypeOK, Calls
  <2>2. issued' \in [Devices -> Positions]
    BY <1>5, <1>a DEF RecordIssued, TypeOK, Calls, AtLeast
  <2> QED  BY <1>5, <2>1, <2>2 DEF RecordIssued, TypeOK, Calls, writing, cleaning, device
<1>6. ASSUME Apply(d) PROVE TypeOK'
  <2>1. call' \in [Devices -> Calls]
    BY <1>6, <1>a DEF Apply, TypeOK, Calls
  <2>2. saved' \in [Devices -> Positions \union {NoCursor}]
    BY <1>6, <1>a DEF Apply, TypeOK, Calls
  <2>3. [r \in Resources |-> AtLeast(known[d][r], call[d].items[r])] \in [Resources -> Positions]
    BY <1>a DEF TypeOK, Calls, AtLeast
  <2>4. known' \in [Devices -> [Resources -> Positions]]
    BY <1>6, <2>3 DEF Apply, TypeOK
  <2> QED  BY <1>6, <2>1, <2>2, <2>4 DEF Apply, TypeOK, Calls, writing, cleaning, checkpoints
<1>7. ASSUME Acknowledge(d) PROVE TypeOK'
  <2>1. call' \in [Devices -> Calls]
    BY <1>7, <1>a DEF Acknowledge, TypeOK, Calls
  <2>2. acked' \in [Devices -> Positions]
    BY <1>7, <1>a DEF Acknowledge, TypeOK, Calls, AtLeast
  <2> QED  BY <1>7, <2>1, <2>2 DEF Acknowledge, TypeOK, Calls, writing, cleaning, device
<1>8. ASSUME Abandon(d) PROVE TypeOK'
  BY <1>8, <1>a, TypeCall DEF Abandon
<1>9. ASSUME Revoke(d) \/ Register(d) PROVE TypeOK'
  BY <1>9 DEF Revoke, Register, TypeOK, writing, cleaning, checkpoints, device
<1> QED  BY <1>2, <1>3, <1>4, <1>5, <1>6, <1>7, <1>8, <1>9 DEF Synchronize

LEMMA TypeStep == TypeOK /\ [Next]_vars => TypeOK'
<1>1. TypeOK /\ UNCHANGED vars => TypeOK'
  BY DEF TypeOK, vars
<1> QED  BY <1>1, TypeServer, TypeDevice DEF Next

\* Every reachable state is well typed.
THEOREM TypeCorrect == Spec => []TypeOK
BY TypeInit, TypeStep, PTL DEF Spec

\* Writers: locks held, one cursor allocated at a time, the next one.
WriterInv ==
  /\ \A w \in Writers :
       /\ txn[w] # NoWrite => txn[w].version = version[txn[w].resource] + 1
       /\ txn[w].cursor # 0 => txn[w].cursor = high + 1
  /\ \A v, w \in Writers : v # w =>
       /\ txn[v].resource = txn[w].resource => txn[v] = NoWrite
       /\ txn[v].cursor = 0 \/ txn[w].cursor = 0

\* What is committed: no cursor and no version is ahead of its high-water mark.
FeedInv ==
  /\ \A e \in feed : e.cursor <= high /\ e.version <= version[e.resource]
  /\ \A c \in retained : c <= high
  /\ settled \subseteq retained

\* The checkpoint of a device exists before its cursor and never passes it.
CheckpointInv ==
  /\ Steady \subseteq active
  /\ \A d \in Steady :
       /\ saved[d] = NoCursor => acked[d] = 0
       /\ saved[d] # NoCursor => d \in enrolled /\ acked[d] <= saved[d] /\ saved[d] <= high

\* The device d holds, or its reply c brings, the change e.
Brings(d, c, e) ==
  \/ e.version <= known[d][e.resource]
  \/ c.step # "page" /\ e.version <= c.items[e.resource]

DeltaInv(d) == call[d].kind = "delta" =>
  /\ call[d].step \in {"record", "reply", "ack"} /\ ~call[d].more
  /\ saved[d] # NoCursor /\ saved[d] <= call[d].at /\ call[d].at <= high
  /\ call[d].step = "ack" => call[d].at = saved[d]
  /\ call[d].step # "ack" => \A e \in feed : e.cursor <= call[d].at => Brings(d, call[d], e)

BootstrapInv(d) == call[d].kind = "bootstrap" =>
  /\ call[d].step \in {"record", "reply", "page"}
  /\ saved[d] = NoCursor /\ call[d].at <= high
  /\ call[d].step = "page" => call[d].more
  /\ call[d].step = "reply" /\ ~call[d].more => d \in enrolled
  /\ \A c \in settled : c <= call[d].at
  /\ \A e \in feed : call[d].at < e.cursor => e.cursor \in retained
  /\ \A e \in feed : /\ e.cursor <= call[d].at
                     /\ e.resource <= call[d].after \/ ~call[d].more
                     => Brings(d, call[d], e)

CallInv == \A d \in Steady :
  /\ call[d].kind = "none" => call[d] = NoCall
  /\ DeltaInv(d)
  /\ BootstrapInv(d)

\* What every step preserves beside the types.
Preserved == WriterInv /\ FeedInv /\ CheckpointInv /\ NothingMissed /\ StillAvailable /\ CallInv

IInv == TypeOK /\ WriterInv /\ FeedInv /\ CheckpointInv /\ NothingMissed /\ StillAvailable /\ CallInv

\* The invariant holds initially.
LEMMA InitIInv == Init => IInv
<1> SUFFICES ASSUME Init PROVE IInv
  OBVIOUS
<1>1. TypeOK
  BY TypeInit
<1>2. WriterInv /\ FeedInv
  BY DEF Init, WriterInv, FeedInv, NoWrite
<1>3. CheckpointInv /\ NothingMissed /\ StillAvailable
  BY DEF Init, CheckpointInv, NothingMissed, StillAvailable, Steady
<1>4. CallInv
  BY DEF Init, CallInv, Steady, DeltaInv, BootstrapInv, NoCall
<1> QED  BY <1>1, <1>2, <1>3, <1>4 DEF IInv

\* A step of an open transaction changes nothing the devices can see.
LEMMA Invisible ==
  ASSUME IInv, UNCHANGED <<version, high, feed, cleaning, active, checkpoints, device, call>>
  PROVE  FeedInv' /\ CheckpointInv' /\ NothingMissed' /\ StillAvailable' /\ CallInv'
<1> USE DEF IInv, Steady, Preserved, cleaning, checkpoints, device
<1>1. FeedInv' /\ CheckpointInv' /\ NothingMissed' /\ StillAvailable'
  BY DEF FeedInv, CheckpointInv, NothingMissed, StillAvailable
<1>2. CallInv'
  BY DEF CallInv, DeltaInv, BootstrapInv, Brings
<1> QED  BY <1>1, <1>2

\* A command, the allocation of its cursor and a rollback.
LEMMA WriterStep ==
  ASSUME IInv, NEW w \in Writers, (\E r \in Resources : Write(w, r)) \/ Attach(w) \/ Rollback(w)
  PROVE  Preserved'
<1> USE DEF IInv, Steady, Preserved
<1>1. UNCHANGED <<version, high, feed, cleaning, active, checkpoints, device, call>>
  BY DEF Write, Attach, Rollback
<1>2. ASSUME NEW r \in Resources, Write(w, r) PROVE WriterInv'
  <2>1. r # 0
    BY ResourcesAssumption
  <2> QED  BY <1>2, <2>1, ResourcesAssumption DEF Write, WriterInv, NoWrite, TypeOK
<1>3. ASSUME Attach(w) PROVE WriterInv'
  <2>1. txn' = [txn EXCEPT ![w] = [txn[w] EXCEPT !.cursor = high + 1]]
    BY <1>3 DEF Attach, NextCursor, TypeOK
  <2>2. txn[w] \in [resource : Resources, version : Cursors, cursor : Positions] /\ txn[w] # NoWrite
    BY <1>3, Busy, OpenWrite DEF Attach
  <2>3. \A v \in Writers : txn[v].cursor = 0
    BY <1>3 DEF Attach, FeedIsFree
  <2>4. /\ txn'[w].resource = txn[w].resource /\ txn'[w].version = txn[w].version
        /\ txn'[w].cursor = high + 1 /\ txn'[w] # NoWrite
        /\ \A v \in Writers \ {w} : txn'[v] = txn[v]
    BY <2>1, <2>2, ResourcesAssumption DEF TypeOK, NoWrite
  <2>5. high' = high /\ version' = version
    BY <1>1
  <2> QED  BY <2>2, <2>3, <2>4, <2>5 DEF WriterInv
<1>4. ASSUME Rollback(w) PROVE WriterInv'
  <2>1. txn'[w] = NoWrite /\ \A v \in Writers \ {w} : txn'[v] = txn[v]
    BY <1>4 DEF Rollback, TypeOK
  <2>2. NoWrite.resource = 0 /\ NoWrite.cursor = 0
    BY DEF NoWrite
  <2>3. \A v \in Writers : txn[v].resource = 0 => txn[v] = NoWrite
    BY OpenWrite, ResourcesAssumption
  <2>4. high' = high /\ version' = version
    BY <1>1
  <2> QED  BY <2>1, <2>2, <2>3, <2>4 DEF WriterInv
<1> QED  BY <1>1, <1>2, <1>3, <1>4, Invisible

\* A commit: the new change is ahead of every device and of every request.
LEMMA CommitStep ==
  ASSUME IInv, NEW w \in Writers, Commit(w)
  PROVE  Preserved'
<1> USE DEF IInv, Steady, Preserved
<1> DEFINE t == txn[w]
           new == [cursor |-> t.cursor, resource |-> t.resource, version |-> t.version]
<1>1. /\ t \in [resource : Resources, version : Cursors, cursor : Positions] /\ t # NoWrite
      /\ t.cursor = high + 1 /\ t.version = version[t.resource] + 1
  BY Busy, OpenWrite DEF Commit, WriterInv
<1>2. /\ version' = [version EXCEPT ![t.resource] = t.version] /\ high' = high + 1
      /\ feed' = feed \union {new} /\ retained' = retained \union {high + 1}
      /\ txn' = [txn EXCEPT ![w] = NoWrite]
      /\ UNCHANGED <<settled, active, enrolled, acked, issued, saved, known, call>>
  BY <1>1 DEF Commit, checkpoints, device
<1>3. high \in Nat /\ version \in [Resources -> Positions] /\ t.resource \in Resources
  BY <1>1, MaxCursorAssumption DEF TypeOK, Positions
<1> HIDE DEF t
<1>4. /\ \A v \in Writers \ {w} : txn'[v] = txn[v] /\ txn[v].cursor = 0 /\ txn[v].resource # t.resource
      /\ txn'[w] = NoWrite
  <2>1. \A v \in Writers \ {w} : txn'[v] = txn[v]
    BY <1>2 DEF TypeOK
  <2>2. \A v \in Writers \ {w} : txn[v].cursor = 0
    BY <1>1, <1>3 DEF WriterInv, t
  <2>3. \A v \in Writers \ {w} : txn[v].resource # t.resource
    BY <1>1 DEF WriterInv, t
  <2> QED  BY <1>2, <2>1, <2>2, <2>3 DEF TypeOK
<1>5. \A r \in Resources : version'[r] = IF r = t.resource THEN t.version ELSE version[r]
  BY <1>2, <1>3
<1>6. WriterInv'
  <2>1. \A v \in Writers : txn'[v] # NoWrite => txn'[v].version = version'[txn'[v].resource] + 1
    <3> SUFFICES ASSUME NEW v \in Writers, txn'[v] # NoWrite
                 PROVE  txn'[v].version = version'[txn'[v].resource] + 1
      OBVIOUS
    <3>1. v # w /\ txn'[v] = txn[v] /\ txn[v].resource # t.resource
      BY <1>4
    <3>2. txn[v].resource \in Resources
      BY <3>1, OpenWrite
    <3> QED  BY <1>5, <3>1, <3>2 DEF WriterInv
  <2>2. \A v \in Writers : txn'[v].cursor = 0
    BY <1>4 DEF NoWrite
  <2>3. \A u, v \in Writers : u # v /\ txn'[u].resource = txn'[v].resource => txn'[u] = NoWrite
    <3> SUFFICES ASSUME NEW u \in Writers, NEW v \in Writers, u # v,
                        txn'[u].resource = txn'[v].resource, u # w
                 PROVE  txn[u] = NoWrite
      BY <1>4
    <3>1. CASE v = w
      <4>1. txn[u].resource = 0
        BY <1>4, <3>1 DEF NoWrite
      <4> QED  BY <4>1, OpenWrite, ResourcesAssumption
    <3>2. CASE v # w
      BY <1>4, <3>2 DEF WriterInv
    <3> QED  BY <3>1, <3>2
  <2> QED  BY <2>1, <2>2, <2>3 DEF WriterInv
<1>7. FeedInv'
  <2>1. \A e \in feed : e.resource \in Resources /\ e.cursor <= high /\ e.version <= version[e.resource] /\ e.version \in Nat
    BY DEF FeedInv, TypeOK, Cursors
  <2>2. \A r \in Resources : version[r] <= version'[r]
    BY <1>1, <1>3, <1>5 DEF Positions, t
  <2>3. \A e \in feed' : e.cursor <= high' /\ e.version <= version'[e.resource]
    <3>1. \A e \in feed : e.cursor <= high' /\ e.version <= version'[e.resource]
      <4> TAKE e \in feed
      <4>1. version[e.resource] \in Nat /\ version'[e.resource] \in Nat /\ e.cursor \in Nat
        BY <1>1, <1>3, <1>5, <2>1 DEF Positions, Cursors, TypeOK, t
      <4> QED  BY <1>2, <1>3, <2>1, <2>2, <4>1
    <3>2. new.cursor <= high' /\ new.version <= version'[new.resource]
      BY <1>1, <1>2, <1>3, <1>5 DEF Positions, Cursors, t
    <3> QED  BY <1>2, <3>1, <3>2
  <2>4. (\A c \in retained' : c <= high') /\ settled' \subseteq retained'
    BY <1>2, <1>3 DEF FeedInv, TypeOK, Cursors
  <2> QED  BY <2>3, <2>4 DEF FeedInv
<1>8. CheckpointInv'
  <2>1. \A d \in Steady : saved[d] # NoCursor => saved[d] <= high + 1
    BY <1>3 DEF CheckpointInv, TypeOK, Positions
  <2> QED  BY <1>2, <2>1 DEF CheckpointInv
<1>9. new.cursor = high + 1
  BY <1>1 DEF t
<1>10. \A d \in Steady : ~(new.cursor <= saved[d])
  <2> HIDE DEF new
  <2> SUFFICES ASSUME NEW d \in Steady PROVE ~(new.cursor <= saved[d])
    OBVIOUS
  <2>1. saved[d] \in Int /\ (saved[d] = -1 \/ saved[d] <= high)
    BY <1>3, MaxCursorAssumption DEF CheckpointInv, TypeOK, Positions, NoCursor
  <2> QED  BY <1>3, <1>9, <2>1
<1>11. NothingMissed' /\ StillAvailable'
  <2> HIDE DEF new
  <2>2. \A d \in Steady, e \in feed' : e.cursor <= saved'[d] => e.version <= known'[d][e.resource]
    <3> SUFFICES ASSUME NEW d \in Steady, NEW e \in feed', e.cursor <= saved[d]
                 PROVE  e.version <= known[d][e.resource]
      BY <1>2
    <3>1. e \in feed
      BY <1>2, <1>10
    <3> QED  BY <3>1 DEF NothingMissed
  <2>3. \A d \in Steady, e \in feed' : saved'[d] # NoCursor /\ saved'[d] < e.cursor => e.cursor \in retained'
    BY <1>2, <1>9 DEF StillAvailable
  <2> QED  BY <2>2, <2>3 DEF NothingMissed, StillAvailable
<1>12. CallInv'
  <2> SUFFICES ASSUME NEW d \in Steady
               PROVE  (call[d].kind = "none" => call[d] = NoCall) /\ DeltaInv(d)' /\ BootstrapInv(d)'
    BY <1>2 DEF CallInv
  <2>0. \A a \in Positions : a <= high => a <= high + 1 /\ ~(new.cursor <= a)
    BY <1>3, <1>9, MaxCursorAssumption DEF Positions
  <2>a. call[d].at \in Positions
    BY DEF TypeOK
  <2>1. DeltaInv(d)'
    BY <1>2, <2>0, <2>a DEF CallInv, DeltaInv, Brings
  <2>2. BootstrapInv(d)'
    BY <1>2, <1>9, <2>0, <2>a DEF CallInv, BootstrapInv, Brings
  <2> QED  BY <2>1, <2>2 DEF CallInv
<1> QED  BY <1>6, <1>7, <1>8, <1>11, <1>12

\* Publication and retention disturb no device.
LEMMA SettleStep ==
  ASSUME IInv, NEW c \in Cursors, Settle(c)
  PROVE  Preserved'
<1> USE DEF IInv, Steady, Preserved
<1>1. /\ UNCHANGED <<version, txn, high, feed, retained, active, enrolled, acked, issued, saved, known, call>>
      /\ settled' = settled \union {c} /\ c \in retained
      /\ \A d \in Steady : call[d].kind = "bootstrap" => c <= call[d].at
  BY DEF Settle, writing, checkpoints, device
<1>2. WriterInv' /\ FeedInv' /\ CheckpointInv'
  BY <1>1 DEF WriterInv, FeedInv, CheckpointInv
<1>3. NothingMissed' /\ StillAvailable'
  BY <1>1 DEF NothingMissed, StillAvailable
<1>4. CallInv'
  BY <1>1 DEF CallInv, DeltaInv, BootstrapInv, Brings
<1> QED  BY <1>2, <1>3, <1>4

\* Retention: what it deletes is below every checkpoint it leaves.
LEMMA CleanupStep ==
  ASSUME IInv, NEW R \in SUBSET Devices, Cleanup(R)
  PROVE  Preserved'
<1> USE DEF IInv, Steady, Preserved
<1>1. R \intersect Steady = {}
  BY DEF Cleanup, CheckpointInv, TypeOK
<1>2. /\ UNCHANGED <<version, txn, high, feed, active, saved, known, call>>
      /\ enrolled' = enrolled \ R
      /\ \A d \in Steady : acked'[d] = acked[d]
      /\ retained' = {c \in retained : c \in settled => Needed(enrolled \ R, c)}
      /\ settled' = settled \intersect retained'
  BY <1>1 DEF Cleanup, writing, device, TypeOK
<1>3. WriterInv' /\ FeedInv' /\ CheckpointInv' /\ NothingMissed'
  BY <1>1, <1>2 DEF WriterInv, FeedInv, CheckpointInv, NothingMissed
<1>4. StillAvailable'
  <2> SUFFICES ASSUME NEW d \in Steady, NEW e \in feed, saved[d] # NoCursor, saved[d] < e.cursor
               PROVE  e.cursor \in retained'
    BY <1>2 DEF StillAvailable
  <2>1. e.cursor \in retained
    BY DEF StillAvailable
  <2>2. acked[d] < e.cursor
    <3>1. acked[d] \in Int /\ saved[d] \in Int /\ e.cursor \in Int
      BY MaxCursorAssumption DEF TypeOK, Positions, Cursors, NoCursor
    <3> QED  BY <3>1 DEF CheckpointInv
  <2>3. Needed(enrolled \ R, e.cursor)
    BY <1>1, <2>2 DEF Needed, CheckpointInv
  <2> QED  BY <1>2, <2>1, <2>3
<1>5. CallInv'
  <2> SUFFICES ASSUME NEW d \in Steady
               PROVE  (call[d].kind = "none" => call[d] = NoCall) /\ DeltaInv(d)' /\ BootstrapInv(d)'
    BY <1>2 DEF CallInv
  <2>1. DeltaInv(d)'
    BY <1>2 DEF CallInv, DeltaInv, Brings
  <2>2. BootstrapInv(d)'
    <3>1. \A e \in feed : call[d].kind = "bootstrap" /\ call[d].at < e.cursor => e.cursor \in retained'
      <4> SUFFICES ASSUME NEW e \in feed, call[d].kind = "bootstrap", call[d].at < e.cursor
                   PROVE  e.cursor \in retained'
        OBVIOUS
      <4>1. e.cursor \in retained /\ \A c \in settled : c <= call[d].at
        BY DEF CallInv, BootstrapInv
      <4>2. call[d].at \in Int /\ e.cursor \in Int
        BY DEF TypeOK, Positions, Cursors
      <4> QED  BY <1>2, <4>1, <4>2
    <3> QED  BY <1>1, <1>2, <3>1 DEF CallInv, BootstrapInv, Brings
  <2> QED  BY <2>1, <2>2 DEF CallInv
<1> QED  BY <1>3, <1>4, <1>5

\* What a step of device d has to show: nothing of it concerns other devices.
LEMMA DeviceStep ==
  ASSUME IInv, NEW d \in Steady, UNCHANGED <<writing, cleaning, active>>,
         enrolled \subseteq enrolled',
         \A x \in Steady \ {d} : /\ saved'[x] = saved[x] /\ known'[x] = known[x]
                                  /\ acked'[x] = acked[x] /\ call'[x] = call[x],
         saved'[d] = NoCursor => acked'[d] = 0,
         saved'[d] # NoCursor => d \in enrolled' /\ acked'[d] <= saved'[d] /\ saved'[d] <= high,
         \A e \in feed : e.cursor <= saved'[d] => e.version <= known'[d][e.resource],
         \A e \in feed : saved'[d] # NoCursor /\ saved'[d] < e.cursor => e.cursor \in retained,
         call'[d].kind = "none" => call'[d] = NoCall,
         DeltaInv(d)', BootstrapInv(d)'
  PROVE  Preserved'
<1> USE DEF IInv, Steady, Preserved
<1>0. UNCHANGED <<version, txn, high, feed, retained, settled, active>>
  BY DEF writing, cleaning
<1>1. WriterInv' /\ FeedInv'
  BY <1>0 DEF WriterInv, FeedInv
<1>2. CheckpointInv'
  BY <1>0 DEF CheckpointInv
<1>3. NothingMissed'
  BY <1>0 DEF NothingMissed
<1>4. StillAvailable'
  BY <1>0 DEF StillAvailable
<1>5. \A x \in Steady \ {d} : (call'[x].kind = "none" => call'[x] = NoCall) /\ DeltaInv(x)' /\ BootstrapInv(x)'
  <2> SUFFICES ASSUME NEW x \in Steady \ {d}
               PROVE  (call[x].kind = "none" => call[x] = NoCall) /\ DeltaInv(x)' /\ BootstrapInv(x)'
    OBVIOUS
  <2>1. DeltaInv(x)'
    BY <1>0 DEF CallInv, DeltaInv, Brings
  <2>2. BootstrapInv(x)'
    BY <1>0 DEF CallInv, BootstrapInv, Brings
  <2> QED  BY <2>1, <2>2 DEF CallInv
<1>6. CallInv'
  BY <1>5 DEF CallInv
<1> QED  BY <1>1, <1>2, <1>3, <1>4, <1>6

\* A request changes neither the device nor its checkpoint.
LEMMA RequestStep ==
  ASSUME IInv, NEW d \in Steady, NEW c \in Calls, call' = [call EXCEPT ![d] = c],
         UNCHANGED <<writing, cleaning, active, acked, device>>, enrolled \subseteq enrolled',
         c.kind = "none" => c = NoCall, DeltaInv(d)', BootstrapInv(d)'
  PROVE  Preserved'
<1> USE DEF IInv, Steady, Preserved
<1>1. call'[d] = c /\ \A x \in Steady \ {d} : call'[x] = call[x]
  BY DEF TypeOK
<1>2. saved' = saved /\ known' = known /\ acked' = acked
  BY DEF device
<1>3. /\ saved[d] = NoCursor => acked[d] = 0
      /\ saved[d] # NoCursor => d \in enrolled' /\ acked[d] <= saved[d] /\ saved[d] <= high
  BY DEF CheckpointInv
<1>4. /\ \A e \in feed : e.cursor <= saved[d] => e.version <= known[d][e.resource]
      /\ \A e \in feed : saved[d] # NoCursor /\ saved[d] < e.cursor => e.cursor \in retained
  BY DEF NothingMissed, StillAvailable
<1>5. UNCHANGED <<writing, cleaning, active>>
  OBVIOUS
<1> QED  BY <1>1, <1>2, <1>3, <1>4, <1>5, DeviceStep DEF Preserved

\* A page of a bootstrap: the first one fixes the boundary, each one adds its rows.
LEMMA BootstrapStep ==
  ASSUME IInv, NEW d \in Steady, NEW last \in Resources \union {0}, FirstPage(d, last) \/ NextPage(d, last)
  PROVE  Preserved'
<1> USE DEF IInv, Steady, Preserved
<1>a. call[d] \in Calls
  BY DEF TypeOK, Calls
<1>1. PICK after \in Resources \union {0} :
        /\ Bootstrap(d, after, last)
        /\ \/ call[d] = NoCall /\ saved[d] = NoCursor /\ after = 0
           \/ call[d].step = "page" /\ after = call[d].after
  BY <1>a DEF FirstPage, NextPage, Calls
<1> DEFINE page == [r \in Resources |-> IF r \in Rows(after) /\ r <= last THEN version[r] ELSE 0]
           more == \E r \in Rows(after) : r > last
           c == [kind |-> "bootstrap", step |-> IF more THEN "reply" ELSE "record",
                 at |-> Boundary(d), after |-> last, more |-> more, items |-> page]
<1>2. /\ call' = [call EXCEPT ![d] = c]
      /\ UNCHANGED <<writing, cleaning, active, checkpoints, device>>
  BY <1>1 DEF Bootstrap
<1>3. NoCall.kind = "none" /\ NoCall.step = "idle"
  BY DEF NoCall
<1>4. call[d].step = "page" => call[d].kind = "bootstrap" /\ call[d].more
  BY <1>a, <1>3 DEF CallInv, DeltaInv, BootstrapInv, Calls
<1>5. saved[d] = NoCursor
  BY <1>1, <1>4 DEF CallInv, BootstrapInv
<1>6. Boundary(d) \in Positions /\ Boundary(d) <= high
  <2>1. CASE call[d] = NoCall
    BY <2>1, <1>3, MaxCursorAssumption DEF Boundary, TypeOK, Positions
  <2>2. CASE call[d].step = "page"
    <3>1. Boundary(d) = call[d].at
      BY <2>2, <1>4 DEF Boundary
    <3>2. call[d].at \in Positions
      BY <1>a DEF Calls
    <3> QED  BY <3>1, <3>2, <2>2, <1>4 DEF CallInv, BootstrapInv
  <2> QED  BY <1>1, <2>1, <2>2
<1>7. \A b \in settled : b <= Boundary(d)
  <2>1. CASE call[d] = NoCall
    BY <2>1, <1>3 DEF Boundary, FeedInv
  <2>2. CASE call[d].step = "page"
    BY <2>2, <1>4 DEF Boundary, CallInv, BootstrapInv
  <2> QED  BY <1>1, <2>1, <2>2
<1>8. \A e \in feed : Boundary(d) < e.cursor => e.cursor \in retained
  <2>1. CASE call[d] = NoCall
    <3>1. \A e \in feed : e.cursor <= high /\ e.cursor \in Int /\ high \in Int
      BY MaxCursorAssumption DEF FeedInv, TypeOK, Cursors, Positions
    <3> QED  BY <2>1, <3>1, <1>3 DEF Boundary
  <2>2. CASE call[d].step = "page"
    BY <2>2, <1>4 DEF Boundary, CallInv, BootstrapInv
  <2> QED  BY <1>1, <2>1, <2>2
<1>9. c \in Calls
  <2>1. page \in [Resources -> Positions]
    BY MaxCursorAssumption DEF TypeOK, Positions
  <2>2. more \in BOOLEAN
    OBVIOUS
  <2> HIDE DEF page, more
  <2> QED  BY <1>6, <2>1, <2>2 DEF Calls
<1>10. \A e \in feed : /\ e.cursor <= Boundary(d)
                       /\ e.resource <= last \/ ~more
                       => e.version <= known[d][e.resource] \/ e.version <= page[e.resource]
  <2> SUFFICES ASSUME NEW e \in feed, e.cursor <= Boundary(d), e.resource <= last \/ ~more
               PROVE  e.version <= known[d][e.resource] \/ e.version <= page[e.resource]
    OBVIOUS
  <2>1. /\ e.resource \in Resources /\ e.resource \in Nat \ {0} /\ e.version \in Nat \ {0}
        /\ e.version <= version[e.resource] /\ version[e.resource] \in Nat
    <3>1. e \in [cursor : Cursors, resource : Resources, version : Cursors]
      BY DEF TypeOK
    <3>2. e.resource \in Resources /\ e.version \in Cursors /\ e.version <= version[e.resource]
      BY <3>1 DEF FeedInv
    <3>3. version[e.resource] \in Positions
      BY <3>2 DEF TypeOK
    <3>4. e.resource \in Nat \ {0}
      BY <3>2, ResourcesAssumption
    <3>5. e.version \in Nat \ {0} /\ version[e.resource] \in Nat
      <4> HIDE DEF IInv
      <4> QED  BY <3>2, <3>3, MaxCursorAssumption DEF Cursors, Positions
    <3> QED  BY <3>2, <3>4, <3>5
  <2>2. after \in Nat /\ last \in Nat
    BY ResourcesAssumption
  <2>3. CASE e.resource <= after
    <3>1. call[d].step = "page" /\ after = call[d].after
      BY <1>1, <2>1, <2>3
    <3> QED  BY <3>1, <1>3, <1>4, <2>3 DEF CallInv, BootstrapInv, Brings, Boundary
  <2>4. CASE e.resource > after
    <3>1. e.resource \in Rows(after)
      BY <2>1, <2>4 DEF Rows
    <3>2. e.resource <= last
      BY <2>1, <2>2, <3>1
    <3>3. page[e.resource] = version[e.resource]
      BY <2>1, <3>1, <3>2
    <3> QED  BY <2>1, <3>3
  <2> QED  BY <2>1, <2>2, <2>3, <2>4
<1>11. /\ c.kind = "bootstrap" /\ c.step = IF more THEN "reply" ELSE "record"
       /\ c.at = Boundary(d) /\ c.after = last /\ c.more = more /\ c.items = page
  OBVIOUS
<1> HIDE DEF c, page, more
<1>12. call'[d] = c
  BY <1>2 DEF TypeOK
<1>13. UNCHANGED <<high, feed, retained, settled, enrolled, acked, saved, known>>
  BY <1>2 DEF writing, cleaning, checkpoints, device
<1>14. DeltaInv(d)'
  BY <1>11, <1>12 DEF DeltaInv
<1>15. BootstrapInv(d)'
  <2>1. c.step # "page" /\ (c.step = "reply" => more)
    BY <1>11
  <2> QED  BY <1>5, <1>6, <1>7, <1>8, <1>10, <1>11, <1>12, <1>13, <2>1 DEF BootstrapInv, Brings
<1> QED  BY <1>2, <1>9, <1>11, <1>13, <1>14, <1>15, RequestStep

\* A delta brings the newest version of every change it spans.
LEMMA DeltaStep ==
  ASSUME IInv, NEW d \in Steady, NEW next \in Positions, Delta(d, next)
  PROVE  Preserved'
<1> USE DEF IInv, Steady, Preserved
<1> DEFINE page == [r \in Resources |-> Newest(r, saved[d], next)]
           c == [kind |-> "delta", step |-> "record", at |-> next, after |-> 0, more |-> FALSE,
                 items |-> page]
<1>1. /\ call' = [call EXCEPT ![d] = c] /\ saved[d] # NoCursor /\ PageEnds(d, next)
      /\ UNCHANGED <<writing, cleaning, active, checkpoints, device>>
  BY DEF Delta
<1>2. saved[d] \in Positions /\ saved[d] \in Int /\ saved[d] <= high
  BY <1>1, MaxCursorAssumption DEF TypeOK, CheckpointInv, Positions
<1>3. saved[d] <= next /\ next <= high
  <2>1. CASE next = saved[d]
    BY <2>1, <1>2
  <2>2. CASE next \in {b \in retained : b > saved[d]}
    <3>1. next <= high /\ next > saved[d] /\ next \in Int
      BY <2>2, MaxCursorAssumption DEF FeedInv, Positions
    <3> QED  BY <3>1, <1>2
  <2> QED  BY <1>1, <2>1, <2>2 DEF PageEnds
<1>4. page \in [Resources -> Positions]
  BY <1>2, NewestCovers
<1>5. \A e \in feed : e.cursor <= next =>
        e.version <= known[d][e.resource] \/ e.version <= page[e.resource]
  <2> SUFFICES ASSUME NEW e \in feed, e.cursor <= next
               PROVE  e.version <= known[d][e.resource] \/ e.version <= page[e.resource]
    OBVIOUS
  <2>1. e.cursor \in Int /\ e.resource \in Resources
    BY DEF TypeOK, Cursors
  <2>2. CASE e.cursor <= saved[d]
    BY <2>2 DEF NothingMissed
  <2>3. CASE saved[d] < e.cursor
    <3>1. e.cursor \in retained
      BY <1>1, <2>3 DEF StillAvailable
    <3>2. e.version <= Newest(e.resource, saved[d], next)
      BY <1>2, <2>1, <2>3, <3>1, NewestCovers
    <3> QED  BY <2>1, <3>2
  <2> QED  BY <1>2, <2>1, <2>2, <2>3
<1>6. c \in Calls
  <2> HIDE DEF page
  <2> QED  BY <1>4 DEF Calls
<1>7. /\ c.kind = "delta" /\ c.step = "record" /\ c.at = next /\ ~c.more /\ c.items = page
  OBVIOUS
<1> HIDE DEF c, page
<1>8. call'[d] = c
  BY <1>1 DEF TypeOK
<1>9. UNCHANGED <<high, feed, retained, settled, enrolled, acked, saved, known>>
  BY <1>1 DEF writing, cleaning, checkpoints, device
<1>10. DeltaInv(d)'
  BY <1>1, <1>3, <1>5, <1>7, <1>8, <1>9 DEF DeltaInv, Brings
<1>11. BootstrapInv(d)'
  BY <1>7, <1>8 DEF BootstrapInv
<1> QED  BY <1>1, <1>6, <1>7, <1>9, <1>10, <1>11, RequestStep

\* Recording the issued cursor enrolls the device before the reply leaves.
LEMMA RecordStep ==
  ASSUME IInv, NEW d \in Steady, RecordIssued(d)
  PROVE  Preserved'
<1> USE DEF IInv, Steady, Preserved
<1> DEFINE c == [call[d] EXCEPT !.step = "reply"]
<1>1. /\ call' = [call EXCEPT ![d] = c] /\ call[d].step = "record"
      /\ enrolled' = enrolled \union {d}
      /\ UNCHANGED <<writing, cleaning, active, acked, device>>
  BY DEF RecordIssued
<1>2. call[d] \in Calls
  BY DEF TypeOK, Calls
<1>3. /\ c \in Calls /\ c.kind = call[d].kind /\ c.step = "reply" /\ c.at = call[d].at
      /\ c.after = call[d].after /\ c.more = call[d].more /\ c.items = call[d].items
  BY <1>2 DEF Calls
<1>4. c.kind # "none"
  BY <1>1, <1>3 DEF CallInv, NoCall
<1> HIDE DEF c
<1>5. call'[d] = c
  BY <1>1 DEF TypeOK
<1>6. UNCHANGED <<high, feed, retained, settled, acked, saved, known>>
  BY <1>1 DEF writing, cleaning, device
<1>7. DeltaInv(d)'
  BY <1>1, <1>3, <1>5, <1>6 DEF CallInv, DeltaInv, Brings
<1>8. BootstrapInv(d)'
  BY <1>1, <1>3, <1>5, <1>6 DEF CallInv, BootstrapInv, Brings
<1> QED  BY <1>1, <1>3, <1>4, <1>7, <1>8, RequestStep

\* A lost request leaves the device and its checkpoint as they were.
LEMMA AbandonStep ==
  ASSUME IInv, NEW d \in Steady, Abandon(d)
  PROVE  Preserved'
<1> USE DEF IInv, Steady, Preserved
<1>1. NoCall \in Calls /\ NoCall.kind = "none"
  BY MaxCursorAssumption DEF NoCall, Calls, Positions, Nothing
<1>2. call' = [call EXCEPT ![d] = NoCall] /\ UNCHANGED <<writing, cleaning, active, checkpoints, device>>
  BY DEF Abandon
<1>3. call'[d] = NoCall
  BY <1>2 DEF TypeOK
<1>4. DeltaInv(d)' /\ BootstrapInv(d)'
  BY <1>1, <1>3 DEF DeltaInv, BootstrapInv
<1>5. acked' = acked /\ enrolled' = enrolled
  BY <1>2 DEF checkpoints
<1> QED  BY <1>1, <1>2, <1>4, <1>5, RequestStep

\* The acknowledged cursor is the one the device has saved.
LEMMA AcknowledgeStep ==
  ASSUME IInv, NEW d \in Steady, Acknowledge(d)
  PROVE  Preserved'
<1> USE DEF IInv, Steady, Preserved
<1>1. /\ call' = [call EXCEPT ![d] = NoCall] /\ call[d].step = "ack"
      /\ enrolled' = enrolled \union {d}
      /\ acked' = [acked EXCEPT ![d] = AtLeast(acked[d], call[d].at)]
      /\ UNCHANGED <<writing, cleaning, active, device>>
  BY DEF Acknowledge
<1>2. call[d].kind = "delta" /\ saved[d] # NoCursor /\ call[d].at = saved[d]
  <2>1. call[d].kind \in {"none", "bootstrap", "delta"}
    BY DEF TypeOK
  <2> QED  BY <1>1, <2>1 DEF CallInv, DeltaInv, BootstrapInv, NoCall
<1>3. /\ acked'[d] = AtLeast(acked[d], saved[d]) /\ call'[d] = NoCall
      /\ \A x \in Steady \ {d} : acked'[x] = acked[x] /\ call'[x] = call[x]
      /\ saved' = saved /\ known' = known /\ d \in enrolled' /\ enrolled \subseteq enrolled'
  BY <1>1, <1>2 DEF TypeOK, device
<1>4. acked'[d] <= saved[d] /\ saved[d] <= high
  <2>1. acked[d] \in Int /\ saved[d] \in Int
    BY MaxCursorAssumption DEF TypeOK, Positions, NoCursor
  <2> QED  BY <1>2, <1>3, <2>1 DEF CheckpointInv, AtLeast
<1>5. DeltaInv(d)' /\ BootstrapInv(d)'
  BY <1>3 DEF DeltaInv, BootstrapInv, NoCall
<1>6. /\ \A e \in feed : e.cursor <= saved[d] => e.version <= known[d][e.resource]
      /\ \A e \in feed : saved[d] # NoCursor /\ saved[d] < e.cursor => e.cursor \in retained
  BY DEF NothingMissed, StillAvailable
<1> QED  BY <1>1, <1>2, <1>3, <1>4, <1>5, <1>6, DeviceStep DEF Preserved

\* Applying a reply: the device keeps the newer of what it holds and what the page brings.
LEMMA ApplyStep ==
  ASSUME IInv, NEW d \in Steady, Apply(d)
  PROVE  Preserved'
<1> USE DEF IInv, Steady, Preserved
<1> DEFINE c == call[d]
           held == [r \in Resources |-> AtLeast(known[d][r], c.items[r])]
<1>1. /\ c.step = "reply"
      /\ known' = [known EXCEPT ![d] = held]
      /\ saved' = [saved EXCEPT ![d] = IF c.more THEN saved[d] ELSE c.at]
      /\ call' = [call EXCEPT ![d] = IF c.kind = "delta" THEN [c EXCEPT !.step = "ack"] ELSE
                                     IF c.more THEN [c EXCEPT !.step = "page"] ELSE NoCall]
      /\ UNCHANGED <<writing, cleaning, active, checkpoints>>
  BY DEF Apply, TypeOK
<1>2. c \in Calls
  BY DEF TypeOK, Calls
<1>3. /\ known'[d] = held /\ saved'[d] = IF c.more THEN saved[d] ELSE c.at
      /\ call'[d] = IF c.kind = "delta" THEN [c EXCEPT !.step = "ack"] ELSE
                    IF c.more THEN [c EXCEPT !.step = "page"] ELSE NoCall
      /\ \A x \in Steady \ {d} : saved'[x] = saved[x] /\ known'[x] = known[x] /\ call'[x] = call[x]
  BY <1>1 DEF TypeOK
<1>4. UNCHANGED <<high, feed, retained, settled, active, enrolled, acked>>
  BY <1>1 DEF writing, cleaning, checkpoints
<1>5. \A e \in feed : Brings(d, c, e) => e.version <= held[e.resource]
  <2> TAKE e \in feed
  <2>1. e.resource \in Resources /\ e.version \in Int
    BY DEF TypeOK, Cursors
  <2>2. known[d][e.resource] \in Int /\ c.items[e.resource] \in Int
    BY <1>2, <2>1, MaxCursorAssumption DEF TypeOK, Calls, Positions
  <2>3. held[e.resource] = AtLeast(known[d][e.resource], c.items[e.resource])
    BY <2>1
  <2> HIDE DEF c, held
  <2> QED  BY <2>1, <2>2, <2>3 DEF Brings, AtLeast
<1>6. c.kind \in {"delta", "bootstrap"}
  BY <1>1, <1>2 DEF CallInv, NoCall, Calls
<1>7. DeltaInv(d) /\ BootstrapInv(d)
  BY DEF CallInv
<1>8. c.at \in Int /\ saved[d] \in Int /\ acked[d] \in Int /\ \A e \in feed : e.cursor \in Int
  BY <1>2, MaxCursorAssumption DEF TypeOK, Calls, Positions, Cursors, NoCursor
<1>9. CASE c.kind = "delta"
  <2>1. ~c.more /\ saved[d] # NoCursor /\ saved[d] <= c.at /\ c.at <= high
        /\ \A e \in feed : e.cursor <= c.at => Brings(d, c, e)
    BY <1>1, <1>7, <1>9 DEF DeltaInv
  <2>2. /\ saved'[d] = c.at /\ call'[d].kind = "delta" /\ call'[d].step = "ack"
        /\ call'[d].at = c.at /\ ~call'[d].more
    BY <1>2, <1>3, <1>9, <2>1 DEF Calls
  <2>3. saved'[d] # NoCursor => d \in enrolled' /\ acked'[d] <= saved'[d] /\ saved'[d] <= high
    BY <1>4, <1>8, <2>1, <2>2 DEF CheckpointInv
  <2>4. \A e \in feed : e.cursor <= saved'[d] => e.version <= known'[d][e.resource]
    BY <1>3, <1>5, <2>1, <2>2
  <2>5. \A e \in feed : saved'[d] < e.cursor => e.cursor \in retained
    BY <1>8, <2>1, <2>2 DEF StillAvailable
  <2>6. saved'[d] # NoCursor
    BY <1>2, <2>2, MaxCursorAssumption DEF Calls, Positions, NoCursor
  <2>7. DeltaInv(d)' /\ BootstrapInv(d)'
    BY <1>4, <1>8, <2>1, <2>2, <2>6 DEF DeltaInv, BootstrapInv
  <2> HIDE DEF c, held
  <2> QED  BY <1>1, <1>3, <1>4, <2>2, <2>3, <2>4, <2>5, <2>6, <2>7, DeviceStep DEF Preserved
<1>10. CASE c.kind = "bootstrap" /\ c.more
  <2>1. /\ saved'[d] = NoCursor /\ saved[d] = NoCursor /\ call'[d] = [c EXCEPT !.step = "page"]
    BY <1>3, <1>7, <1>10 DEF BootstrapInv
  <2>2. /\ call'[d].kind = "bootstrap" /\ call'[d].step = "page" /\ call'[d].more
        /\ call'[d].at = c.at /\ call'[d].after = c.after
    BY <1>2, <1>10, <2>1 DEF Calls
  <2>3. \A e \in feed : e.cursor <= c.at /\ e.resource <= c.after => e.version <= known'[d][e.resource]
    BY <1>3, <1>5, <1>7, <1>10 DEF BootstrapInv
  <2>4. BootstrapInv(d)'
    BY <1>4, <1>7, <1>10, <2>1, <2>2, <2>3 DEF BootstrapInv, Brings
  <2>5. DeltaInv(d)'
    BY <2>2 DEF DeltaInv
  <2>6. acked'[d] = 0
    BY <1>4, <2>1 DEF CheckpointInv
  <2>7. \A e \in feed : e.cursor <= saved'[d] => e.version <= known'[d][e.resource]
    BY <1>8, <2>1, MaxCursorAssumption DEF NoCursor, TypeOK, Cursors
  <2> HIDE DEF c, held
  <2> QED  BY <1>1, <1>3, <1>4, <2>1, <2>2, <2>4, <2>5, <2>6, <2>7, DeviceStep DEF Preserved
<1>11. CASE c.kind = "bootstrap" /\ ~c.more
  <2>1. saved'[d] = c.at /\ saved[d] = NoCursor /\ call'[d] = NoCall /\ c.at <= high
    BY <1>3, <1>7, <1>11 DEF BootstrapInv
  <2>2. d \in enrolled /\ acked[d] = 0
    BY <1>1, <1>7, <1>11, <2>1 DEF BootstrapInv, CheckpointInv
  <2>3. saved'[d] # NoCursor /\ 0 <= c.at
    BY <1>2, <2>1, MaxCursorAssumption DEF Calls, Positions, NoCursor
  <2>4. \A e \in feed : e.cursor <= saved'[d] => e.version <= known'[d][e.resource]
    BY <1>3, <1>5, <1>7, <1>11, <2>1 DEF BootstrapInv
  <2>5. \A e \in feed : saved'[d] < e.cursor => e.cursor \in retained
    BY <1>7, <1>11, <2>1 DEF BootstrapInv
  <2>6. DeltaInv(d)' /\ BootstrapInv(d)'
    BY <2>1 DEF DeltaInv, BootstrapInv, NoCall
  <2>7. acked'[d] <= saved'[d] /\ d \in enrolled' /\ saved'[d] <= high
    BY <1>4, <2>1, <2>2, <2>3
  <2> HIDE DEF c, held
  <2> QED  BY <1>1, <1>3, <1>4, <2>1, <2>3, <2>4, <2>5, <2>6, <2>7, DeviceStep DEF Preserved
<1> QED  BY <1>2, <1>6, <1>9, <1>10, <1>11 DEF Calls

\* What revocable devices do, and what becomes of them, concerns no other.
LEMMA OtherStep ==
  ASSUME IInv, NEW d \in Devices, d \notin Steady,
         Synchronize(d) \/ Abandon(d) \/ Revoke(d) \/ Register(d)
  PROVE  Preserved'
<1> USE DEF IInv, Steady, Preserved
<1>1. /\ UNCHANGED <<version, txn, high, feed, retained, settled>>
      /\ enrolled \subseteq enrolled' /\ Steady \subseteq active'
  <2> HIDE DEF Steady
  <2>1. Steady \subseteq active
    BY DEF CheckpointInv
  <2> QED
    BY <2>1 DEF Synchronize, FirstPage, NextPage, Bootstrap, Delta, RecordIssued, Apply, Acknowledge,
                Abandon, Revoke, Register, writing, cleaning, checkpoints
<1>2. \A x \in Steady : saved'[x] = saved[x] /\ known'[x] = known[x] /\ acked'[x] = acked[x] /\ call'[x] = call[x]
  BY DEF TypeOK, Synchronize, FirstPage, NextPage, Bootstrap, Delta, RecordIssued, Apply, Acknowledge,
         Abandon, Revoke, Register, checkpoints, device
<1>3. WriterInv' /\ FeedInv' /\ CheckpointInv' /\ NothingMissed' /\ StillAvailable'
  BY <1>1, <1>2 DEF WriterInv, FeedInv, CheckpointInv, NothingMissed, StillAvailable
<1>4. CallInv'
  <2> SUFFICES ASSUME NEW x \in Steady
               PROVE  (call[x].kind = "none" => call[x] = NoCall) /\ DeltaInv(x)' /\ BootstrapInv(x)'
    BY <1>2 DEF CallInv
  <2>1. DeltaInv(x)'
    BY <1>1, <1>2 DEF CallInv, DeltaInv, Brings
  <2>2. BootstrapInv(x)'
    BY <1>1, <1>2 DEF CallInv, BootstrapInv, Brings
  <2> QED  BY <2>1, <2>2 DEF CallInv
<1> QED  BY <1>3, <1>4

\* Every step preserves the invariant.
LEMMA IInvStep == IInv /\ [Next]_vars => IInv'
<1> SUFFICES ASSUME IInv, [Next]_vars PROVE Preserved'
  BY TypeStep DEF IInv, Preserved
<1>1. CASE UNCHANGED vars
  <2>1. WriterInv'
    BY <1>1 DEF vars, IInv, WriterInv
  <2> QED  BY <1>1, <2>1, Invisible DEF vars, cleaning, checkpoints, device, Preserved
<1>2. CASE Server
  BY <1>2, WriterStep, CommitStep, SettleStep, CleanupStep DEF Server
<1>3. CASE \E d \in Devices : Synchronize(d) \/ Abandon(d) \/ Revoke(d) \/ Register(d)
  <2>1. PICK d \in Devices : Synchronize(d) \/ Abandon(d) \/ Revoke(d) \/ Register(d)
    BY <1>3
  <2>2. CASE d \in Steady
    <3>1. ~Revoke(d) /\ ~Register(d)
      BY <2>2 DEF Revoke, Register, IInv, CheckpointInv, Steady
    <3> QED
      BY <2>1, <2>2, <3>1, BootstrapStep, DeltaStep, RecordStep, ApplyStep, AcknowledgeStep, AbandonStep DEF Synchronize
  <2> QED  BY <2>1, <2>2, OtherStep
<1> QED  BY <1>1, <1>2, <1>3 DEF Next

\* Whatever becomes of the others, retention keeps every change that a device
\* which stays registered has yet to download (phase06_sync_schema.sql:924-950).
THEOREM Available == Spec => []StillAvailable
<1>1. Init => IInv
  BY InitIInv
<1>2. IInv /\ [Next]_vars => IInv'
  BY IInvStep
<1>3. IInv => StillAvailable
  BY DEF IInv
<1> QED  BY <1>1, <1>2, <1>3, PTL DEF Spec

\* No device that stays registered misses a change at or below the cursor it
\* has saved, whatever writers, pages, losses, retention and other devices do
\* (sync.service.ts:98-141, sync_cursor_high_water.sql:64-160).
THEOREM Complete == Spec => []NothingMissed
<1>1. Init => IInv
  BY InitIInv
<1>2. IInv /\ [Next]_vars => IInv'
  BY IInvStep
<1>3. IInv => NothingMissed
  BY DEF IInv
<1> QED  BY <1>1, <1>2, <1>3, PTL DEF Spec

\* The reply of a delta leaves after its cursor is recorded as issued.
IssuedInv == \A d \in Steady :
  call[d].kind = "delta" /\ call[d].step \in {"reply", "ack"} => call[d].at <= issued[d]

\* The recorded cursor of a device never decreases while it is registered.
LEMMA IssuedStep == IInv /\ IssuedInv /\ [Next]_vars => IssuedInv'
<1> SUFFICES ASSUME IInv, IssuedInv, [Next]_vars, NEW d \in Steady,
                    call'[d].kind = "delta", call'[d].step \in {"reply", "ack"}
             PROVE  call'[d].at <= issued'[d]
  BY DEF IssuedInv, Steady
<1> USE DEF Steady
<1>1. CASE UNCHANGED <<call, issued>>
  BY <1>1 DEF IssuedInv
<1>2. ASSUME NEW R \in SUBSET Devices, Cleanup(R) PROVE call'[d].at <= issued'[d]
  <2>1. d \notin R
    BY <1>2 DEF Cleanup, IInv, CheckpointInv
  <2> QED  BY <1>2, <2>1 DEF Cleanup, IssuedInv
<1>3. ASSUME NEW x \in Devices, x # d,
             Synchronize(x) \/ Abandon(x) \/ Revoke(x) \/ Register(x)
      PROVE  call'[d].at <= issued'[d]
  <2>1. call'[d] = call[d] /\ issued'[d] = issued[d]
    BY <1>3 DEF IInv, TypeOK, Synchronize, FirstPage, NextPage, Bootstrap, Delta, RecordIssued, Apply,
         Acknowledge, Abandon, Revoke, Register, checkpoints, device
  <2> QED  BY <2>1 DEF IssuedInv
<1>4. CASE \E last \in Resources \union {0} : FirstPage(d, last) \/ NextPage(d, last)
  <2>1. call'[d].kind = "bootstrap"
    BY <1>4 DEF FirstPage, NextPage, Bootstrap, IInv, TypeOK
  <2> QED  BY <2>1
<1>5. CASE \E next \in Positions : Delta(d, next)
  <2>1. call'[d].step = "record"
    BY <1>5 DEF Delta, IInv, TypeOK
  <2> QED  BY <2>1
<1>6. CASE RecordIssued(d)
  <2>1. call[d] \in Calls /\ issued[d] \in Positions
    BY DEF IInv, TypeOK, Calls
  <2>2. issued'[d] = AtLeast(issued[d], call[d].at) /\ call' = [call EXCEPT ![d].step = "reply"]
    BY <1>6 DEF RecordIssued, IInv, TypeOK
  <2>3. call'[d].at = call[d].at
    BY <2>1, <2>2 DEF IInv, TypeOK
  <2> QED  BY <2>1, <2>2, <2>3, MaxCursorAssumption DEF AtLeast, Positions, Calls
<1>7. CASE Apply(d)
  <2> DEFINE c == call[d]
  <2>1. c \in Calls /\ c.step = "reply" /\ issued' = issued
    BY <1>7 DEF IInv, TypeOK, Calls, Apply, checkpoints
  <2>2. call'[d] = IF c.kind = "delta" THEN [c EXCEPT !.step = "ack"] ELSE
                   IF c.more THEN [c EXCEPT !.step = "page"] ELSE NoCall
    BY <1>7 DEF Apply, IInv, TypeOK
  <2> HIDE DEF c
  <2>3. c.kind = "delta" /\ call'[d].at = c.at
    BY <2>1, <2>2 DEF Calls, NoCall
  <2> QED  BY <2>1, <2>3 DEF c, IssuedInv
<1>8. CASE Acknowledge(d) \/ Abandon(d)
  <2>1. call'[d] = NoCall
    BY <1>8 DEF Acknowledge, Abandon, IInv, TypeOK
  <2> QED  BY <2>1 DEF NoCall
<1>9. CASE Revoke(d) \/ Register(d)
  BY <1>1, <1>9 DEF Revoke, Register, checkpoints
<1>10. CASE Server
  <2>1. CASE \E w \in Writers : (\E r \in Resources : Write(w, r)) \/ Attach(w) \/ Commit(w) \/ Rollback(w)
    BY <1>1, <2>1 DEF Write, Attach, Commit, Rollback, checkpoints
  <2>2. CASE \E c \in Cursors : Settle(c)
    BY <1>1, <2>2 DEF Settle, checkpoints
  <2> QED  BY <1>2, <1>10, <2>1, <2>2 DEF Server
<1>11. CASE UNCHANGED vars
  BY <1>1, <1>11 DEF vars, checkpoints
<1> QED  BY <1>3, <1>4, <1>5, <1>6, <1>7, <1>8, <1>9, <1>10, <1>11 DEF Next, Synchronize

\* The server accepts every cursor that a device which stays registered
\* acknowledges (sync_cursor_high_water.sql:232-241).
THEOREM Accepted == Spec => []AckIsAccepted
<1>1. Init => IInv /\ IssuedInv
  BY InitIInv DEF Init, IssuedInv, NoCall, Steady
<1>2. IInv /\ IssuedInv /\ [Next]_vars => (IInv /\ IssuedInv)'
  BY IInvStep, IssuedStep
<1>3. ASSUME IInv, IssuedInv PROVE AckIsAccepted
  <2> SUFFICES ASSUME NEW d \in Steady, call[d].step = "ack" PROVE Acceptable(d)
    BY DEF AckIsAccepted
  <2>1. d \in Steady
    OBVIOUS
  <2>2. call[d].kind = "delta"
    <3>1. call[d].kind \in {"none", "bootstrap", "delta"}
      BY <1>3, <2>1 DEF IInv, TypeOK, Steady
    <3>2. (call[d].kind = "none" => call[d] = NoCall) /\ BootstrapInv(d)
      BY <1>3, <2>1 DEF IInv, CallInv
    <3>3. call[d].kind # "none"
      BY <3>2 DEF NoCall
    <3> QED  BY <3>1, <3>2, <3>3 DEF BootstrapInv
  <2> QED  BY <1>3, <2>1, <2>2 DEF IInv, CallInv, DeltaInv, IssuedInv, Acceptable
<1> QED  BY <1>1, <1>2, <1>3, PTL DEF Spec

(***************************************************************************)
(* What a device has is what was committed.                                *)
(***************************************************************************)

\* No device has, and no page brings, a version that was never committed.
Genuine ==
  \A d \in Devices, r \in Resources : known[d][r] <= version[r] /\ call[d].items[r] <= version[r]

\* The current version of every row is a change of the feed.
InTheFeed ==
  \A r \in Resources : version[r] > 0 => \E e \in feed : e.resource = r /\ e.version = version[r]

\* A device whose cursor is the feed's has every row as it is in the database.
UpToDate == \A d \in Steady : saved[d] = high => known[d] = version

LEMMA CommitRaises ==
  ASSUME IInv, NEW w \in Writers, Commit(w)
  PROVE  /\ txn[w].resource \in Resources /\ version[txn[w].resource] \in Nat
         /\ version' = [version EXCEPT ![txn[w].resource] = version[txn[w].resource] + 1]
         /\ feed' = feed \union {[cursor |-> txn[w].cursor, resource |-> txn[w].resource,
                                  version |-> version[txn[w].resource] + 1]}
<1>1. /\ txn[w] \in [resource : Resources, version : Cursors, cursor : Positions]
      /\ txn[w].version = version[txn[w].resource] + 1
  BY Busy, OpenWrite DEF Commit, IInv, WriterInv
<1> QED  BY <1>1, MaxCursorAssumption DEF Commit, IInv, TypeOK, Positions

\* Versions only grow, and only in commits.
LEMMA VersionsGrow ==
  ASSUME IInv, [Next]_vars
  PROVE  \A r \in Resources : version[r] <= version'[r]
<1>0. \A r \in Resources : version[r] \in Nat
  BY MaxCursorAssumption DEF IInv, TypeOK, Positions
<1>1. ASSUME UNCHANGED version PROVE \A r \in Resources : version[r] <= version'[r]
  BY <1>0, <1>1
<1>2. ASSUME NEW w \in Writers, Commit(w) PROVE \A r \in Resources : version[r] <= version'[r]
  BY <1>0, <1>2, CommitRaises DEF IInv, TypeOK
<1>3. \/ UNCHANGED version
      \/ \E w \in Writers : Commit(w)
  BY DEF Next, vars, Server, Write, Attach, Rollback, Settle, Cleanup, Synchronize, FirstPage, NextPage, Bootstrap,
         Delta, RecordIssued, Apply, Acknowledge, Abandon, Revoke, Register, writing
<1> QED  BY <1>1, <1>2, <1>3

LEMMA InTheFeedStep == IInv /\ InTheFeed /\ [Next]_vars => InTheFeed'
<1> SUFFICES ASSUME IInv, InTheFeed, [Next]_vars PROVE InTheFeed'
  OBVIOUS
<1>1. ASSUME UNCHANGED <<version, feed>> PROVE InTheFeed'
  BY <1>1 DEF InTheFeed
<1>2. ASSUME NEW w \in Writers, Commit(w) PROVE InTheFeed'
  <2> DEFINE q == txn[w].resource
             new == [cursor |-> txn[w].cursor, resource |-> q, version |-> version[q] + 1]
  <2>1. /\ q \in Resources /\ version' = [version EXCEPT ![q] = version[q] + 1]
        /\ feed' = feed \union {new} /\ version \in [Resources -> Positions]
    BY <1>2, CommitRaises DEF IInv, TypeOK
  <2>2. new.resource = q /\ new.version = version[q] + 1
    OBVIOUS
  <2> HIDE DEF new, q
  <2> SUFFICES ASSUME NEW r \in Resources, version'[r] > 0
               PROVE  \E e \in feed' : e.resource = r /\ e.version = version'[r]
    BY DEF InTheFeed
  <2>3. CASE r = q
    BY <2>1, <2>2, <2>3
  <2>4. CASE r # q
    BY <2>1, <2>4 DEF InTheFeed
  <2> QED  BY <2>3, <2>4
<1>3. \/ UNCHANGED <<version, feed>>
      \/ \E w \in Writers : Commit(w)
  BY DEF Next, vars, Server, Write, Attach, Rollback, Settle, Cleanup, Synchronize, FirstPage, NextPage, Bootstrap,
         Delta, RecordIssued, Apply, Acknowledge, Abandon, Revoke, Register, writing
<1> QED  BY <1>1, <1>2, <1>3

\* A delta brings versions of the feed.
LEMMA NewestIsGenuine ==
  ASSUME IInv, NEW r \in Resources, NEW from \in Int, NEW next \in Positions
  PROVE  Newest(r, from, next) <= version[r]
<1> DEFINE E == {f \in feed : /\ f.resource = r /\ f.cursor \in retained
                              /\ from < f.cursor /\ f.cursor <= next}
           S == {0} \union {e.version : e \in E}
<1>1. S \subseteq Positions /\ S # {}
  BY MaxCursorAssumption DEF IInv, TypeOK, Positions, Cursors
<1>2. Max(S) \in S
  <2> HIDE DEF S
  <2> QED  BY <1>1, MaxIsLargest
<1>3. \A e \in E : e.version <= version[r]
  BY DEF IInv, FeedInv
<1>4. 0 <= version[r]
  BY MaxCursorAssumption DEF IInv, TypeOK, Positions
<1>5. Newest(r, from, next) = Max(S)
  BY DEF Newest
<1>6. \A x \in S : x <= version[r]
  BY <1>3, <1>4
<1> HIDE DEF S
<1> QED  BY <1>2, <1>5, <1>6

LEMMA GenuineStep == IInv /\ Genuine /\ [Next]_vars => Genuine'
<1> SUFFICES ASSUME IInv, Genuine, [Next]_vars, NEW x \in Devices, NEW r \in Resources
             PROVE  known'[x][r] <= version'[r] /\ call'[x].items[r] <= version'[r]
  BY DEF Genuine
<1>0. /\ version[r] \in Nat /\ version'[r] \in Nat /\ version[r] <= version'[r]
      /\ known[x][r] \in Nat /\ known[x][r] <= version[r]
      /\ call[x].items[r] \in Nat /\ call[x].items[r] <= version[r]
  BY MaxCursorAssumption, TypeStep, VersionsGrow DEF IInv, TypeOK, Positions, Genuine
<1>1. ASSUME known'[x] = known[x], call'[x].items = call[x].items \/ call'[x].items = Nothing
      PROVE  known'[x][r] <= version'[r] /\ call'[x].items[r] <= version'[r]
  BY <1>0, <1>1 DEF Nothing
<1>2. CASE UNCHANGED vars \/ Server
  BY <1>1, <1>2 DEF vars, device, Server, Write, Attach, Commit, Rollback, Settle, Cleanup
<1>3. ASSUME NEW d \in Devices, d # x, Synchronize(d) \/ Abandon(d) \/ Revoke(d) \/ Register(d)
      PROVE  known'[x][r] <= version'[r] /\ call'[x].items[r] <= version'[r]
  <2>1. call'[x] = call[x] /\ known'[x] = known[x]
    BY <1>3 DEF IInv, TypeOK, Synchronize, FirstPage, NextPage, Bootstrap, Delta, RecordIssued, Apply,
         Acknowledge, Abandon, Revoke, Register, device
  <2> QED  BY <1>1, <2>1
<1>4. ASSUME NEW last \in Resources \union {0}, FirstPage(x, last) \/ NextPage(x, last)
      PROVE  known'[x][r] <= version'[r] /\ call'[x].items[r] <= version'[r]
  <2>1. PICK after : Bootstrap(x, after, last)
    BY <1>4 DEF FirstPage, NextPage
  <2>2. /\ known' = known /\ version' = version
        /\ call'[x].items = [s \in Resources |-> IF s \in Rows(after) /\ s <= last THEN version[s] ELSE 0]
    BY <2>1 DEF Bootstrap, IInv, TypeOK, device, writing
  <2>3. call'[x].items[r] \in {0, version[r]}
    BY <2>2
  <2> QED  BY <1>0, <2>2, <2>3
<1>5. ASSUME NEW next \in Positions, Delta(x, next)
      PROVE  known'[x][r] <= version'[r] /\ call'[x].items[r] <= version'[r]
  <2>1. /\ known' = known /\ version' = version
        /\ call'[x].items = [s \in Resources |-> Newest(s, saved[x], next)]
    BY <1>5 DEF Delta, IInv, TypeOK, device, writing
  <2>2. saved[x] \in Int
    BY MaxCursorAssumption DEF IInv, TypeOK, Positions, NoCursor
  <2>3. call'[x].items[r] = Newest(r, saved[x], next)
    BY <2>1
  <2> QED  BY <1>0, <2>1, <2>2, <2>3, NewestIsGenuine
<1>6. CASE RecordIssued(x)
  BY <1>1, <1>6 DEF RecordIssued, device, IInv, TypeOK
<1>7. CASE Apply(x)
  <2>1. /\ version' = version
        /\ known'[x] = [s \in Resources |-> AtLeast(known[x][s], call[x].items[s])]
    BY <1>7 DEF Apply, IInv, TypeOK, writing
  <2>2. call'[x] = IF call[x].kind = "delta" THEN [call[x] EXCEPT !.step = "ack"] ELSE
                   IF call[x].more THEN [call[x] EXCEPT !.step = "page"] ELSE NoCall
    BY <1>7 DEF Apply, IInv, TypeOK
  <2>3. call[x] \in Calls
    BY DEF IInv, TypeOK, Calls
  <2>4. call'[x].items = call[x].items \/ call'[x].items = Nothing
    BY <2>2, <2>3 DEF Calls, NoCall
  <2>5. known'[x][r] \in {known[x][r], call[x].items[r]}
    BY <2>1 DEF AtLeast
  <2> QED  BY <1>0, <2>1, <2>4, <2>5 DEF Nothing
<1>8. CASE Acknowledge(x) \/ Abandon(x)
  <2>1. known' = known /\ call'[x] = NoCall
    BY <1>8 DEF Acknowledge, Abandon, IInv, TypeOK, device
  <2> QED  BY <1>1, <2>1 DEF NoCall
<1>9. CASE Revoke(x) \/ Register(x)
  BY <1>1, <1>9 DEF Revoke, Register, device
<1>10. CASE \E d \in Devices : Synchronize(d) \/ Abandon(d) \/ Revoke(d) \/ Register(d)
  BY <1>3, <1>4, <1>5, <1>6, <1>7, <1>8, <1>9, <1>10 DEF Synchronize
<1> QED  BY <1>2, <1>10 DEF Next

\* A change the feed has and the device has not missed is one the device has.
LEMMA UpToDateHolds == IInv /\ Genuine /\ InTheFeed => UpToDate
<1> SUFFICES ASSUME IInv, Genuine, InTheFeed, NEW d \in Steady, saved[d] = high
             PROVE  known[d] = version
  BY DEF UpToDate
<1>1. d \in Devices /\ known[d] \in [Resources -> Positions] /\ version \in [Resources -> Positions]
  BY DEF IInv, TypeOK, Steady
<1>2. ASSUME NEW r \in Resources PROVE known[d][r] = version[r]
  <2>1. known[d][r] \in Nat /\ version[r] \in Nat /\ known[d][r] <= version[r]
    BY <1>1, MaxCursorAssumption DEF Genuine, Positions
  <2>2. CASE version[r] > 0
    <3>1. PICK e \in feed : e.resource = r /\ e.version = version[r]
      BY <2>2 DEF InTheFeed
    <3>2. version[r] <= known[d][r]
      BY <3>1 DEF IInv, FeedInv, NothingMissed
    <3> QED  BY <2>1, <3>2
  <2>3. CASE version[r] = 0
    BY <2>1, <2>3
  <2> QED  BY <2>1, <2>2, <2>3
<1> QED  BY <1>1, <1>2

\* Whatever a device has of a row, revoked or not, is a version that was
\* committed: pages read between commits, repeated requests and reordered
\* replies never leave it ahead of the database (core-finance-sync-adapter.ts:60-150).
THEOREM NothingInvented == Spec => []Genuine
<1>1. Init => IInv /\ Genuine
  BY InitIInv DEF Init, Genuine, NoCall, Nothing
<1> QED  BY <1>1, IInvStep, GenuineStep, PTL DEF Spec

\* A registered device that has saved the newest cursor of the feed has, of
\* every row, exactly the version in the database: that its cursor is not
\* behind, which is what hasMore = false tells it (sync.service.ts:144), is
\* enough to know that nothing is left to download.
THEOREM CaughtUp == Spec => []UpToDate
<1>1. Init => IInv /\ Genuine /\ InTheFeed
  BY InitIInv DEF Init, Genuine, InTheFeed, NoCall, Nothing
<1> QED  BY <1>1, IInvStep, GenuineStep, InTheFeedStep, UpToDateHolds, PTL DEF Spec
=============================================================================
