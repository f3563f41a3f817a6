------------------------------ MODULE SyncFeed ------------------------------
(***************************************************************************)
(* The change feed of one user in one sync domain: the outbox trigger that *)
(* numbers each change, the bootstrap and delta endpoints                  *)
(* (apps/api/src/sync/sync.service.ts), the checkpoint each device keeps   *)
(* on the server, the retention job, and the download half of              *)
(* synchronize() on the devices.                                           *)
(*                                                                         *)
(* Every database transaction that reads is one step on the committed      *)
(* state (repeatable read); a writer's transaction takes several, with the *)
(* row lock of its resource and the advisory lock of the feed held to its  *)
(* end.  A snapshot is represented by its version.                         *)
(***************************************************************************)
EXTENDS Integers, FiniteSets, FiniteSetsExt

CONSTANTS
  Resources,  \* ids of the domain's rows, in the order of their keys
  Writers,    \* database connections that change them
  Devices,    \* user_devices of the user
  Revocable,  \* those that may be revoked, and registered again, meanwhile
  MaxCursor   \* bound: how many changes the writers make

ASSUME ResourcesAssumption == Resources \subseteq Nat \ {0} /\ IsFiniteSet(Resources)
ASSUME RevocableAssumption == Revocable \subseteq Devices
ASSUME MaxCursorAssumption == MaxCursor \in Nat

VARIABLES
  version,   \* committed version of each row, 0 before it exists
  txn,       \* each writer's open transaction
  high,      \* sync_cursor_positions.last_cursor
  feed,      \* every change ever committed
  retained,  \* cursors of the changes still in private.outbox_events
  settled,   \* cursors of changes that are published and past retention
  active,    \* devices that are not revoked
  enrolled,  \* devices that have a row in client_sync_state
  acked,     \* its last_cursor
  issued,    \* its last_issued_cursor
  saved,     \* cursor in sync_state on the device
  known,     \* versions in sync_resource_state on the device
  call       \* the bootstrap or delta request each device has under way

writing == <<version, txn, high, feed>>
cleaning == <<retained, settled>>
checkpoints == <<enrolled, acked, issued>>
device == <<saved, known>>
vars == <<version, txn, high, feed, retained, settled, active, enrolled, acked, issued,
          saved, known, call>>

Cursors == 1..MaxCursor
Positions == 0..MaxCursor
NoCursor == -1
NoWrite == [resource |-> 0, version |-> 0, cursor |-> 0]
Writes == [resource : Resources, version : Cursors, cursor : Positions] \union {NoWrite}
Nothing == [r \in Resources |-> 0]
Steady == Devices \ Revocable
NoCall == [kind |-> "none", step |-> "idle", at |-> 0, after |-> 0, items |-> Nothing, more |-> FALSE]

TypeOK ==
  /\ version \in [Resources -> Positions]
  /\ txn \in [Writers -> Writes]
  /\ high \in Positions
  /\ feed \subseteq [cursor : Cursors, resource : Resources, version : Cursors]
  /\ retained \subseteq Cursors
  /\ settled \subseteq Cursors
  /\ active \subseteq Devices
  /\ enrolled \subseteq Devices
  /\ acked \in [Devices -> Positions]
  /\ issued \in [Devices -> Positions]
  /\ saved \in [Devices -> Positions \union {NoCursor}]
  /\ known \in [Devices -> [Resources -> Positions]]
  /\ call \in [Devices -> [kind : {"none", "bootstrap", "delta"},
                           step : {"idle", "record", "reply", "page", "ack"},
                           at : Positions, after : Resources \union {0},
                           items : [Resources -> Positions], more : BOOLEAN]]

Init ==
  /\ version = Nothing
  /\ txn = [w \in Writers |-> NoWrite]
  /\ high = 0 /\ feed = {} /\ retained = {} /\ settled = {}
  /\ active = Devices
  /\ enrolled = {}
  /\ acked = [d \in Devices |-> 0]
  /\ issued = [d \in Devices |-> 0]
  /\ saved = [d \in Devices |-> NoCursor]
  /\ known = [d \in Devices |-> Nothing]
  /\ call = [d \in Devices |-> NoCall]

(***************************************************************************)
(* Writers.                                                                *)
(***************************************************************************)

\* A command updates its row and holds the row lock.
Write(w, r) ==
  /\ txn[w] = NoWrite
  /\ \A v \in Writers : txn[v].resource # r
  /\ version[r] < MaxCursor
  /\ txn' = [txn EXCEPT ![w] = [resource |-> r, version |-> version[r] + 1, cursor |-> 0]]
  /\ UNCHANGED <<version, high, feed, cleaning, active, checkpoints, device, call>>

\* The advisory lock of the user and the domain is free.
FeedIsFree == \A w \in Writers : txn[w].cursor = 0

\* Fault: the upsert adds the stored position to itself.
NextCursorAdds(n) == n + n + 1

NextCursor(n) == n + 1

\* Fault: cursors come from a sequence that nobody locks.
AttachUnlocked(w) ==
  /\ txn[w].resource # 0 /\ txn[w].cursor = 0
  /\ \E c \in Cursors :
       /\ c > high /\ \A v \in Writers : c > txn[v].cursor
       /\ \A b \in Cursors : b > high /\ (\A v \in Writers : b > txn[v].cursor) => c <= b
       /\ txn' = [txn EXCEPT ![w].cursor = c]
  /\ UNCHANGED <<version, high, feed, cleaning, active, checkpoints, device, call>>

\* The insert of its event takes the lock and the next cursor.
Attach(w) ==
  /\ txn[w].resource # 0 /\ txn[w].cursor = 0
  /\ FeedIsFree
  /\ high < MaxCursor
  /\ txn' = [txn EXCEPT ![w].cursor = NextCursor(high)]
  /\ UNCHANGED <<version, high, feed, cleaning, active, checkpoints, device, call>>

Commit(w) ==
  LET t == txn[w] IN
  /\ t.cursor # 0
  /\ version' = [version EXCEPT ![t.resource] = t.version]
  /\ high' = t.cursor
  /\ feed' = feed \union {[cursor |-> t.cursor, resource |-> t.resource, version |-> t.version]}
  /\ retained' = retained \union {t.cursor}
  /\ txn' = [txn EXCEPT ![w] = NoWrite]
  /\ UNCHANGED <<settled, active, checkpoints, device, call>>

Rollback(w) ==
  /\ txn[w] # NoWrite
  /\ txn' = [txn EXCEPT ![w] = NoWrite]
  /\ UNCHANGED <<version, high, feed, cleaning, active, checkpoints, device, call>>

(***************************************************************************)
(* Retention.                                                              *)
(***************************************************************************)

\* Events are published in any order, and created_at, the start of the
\* transaction, may disagree with the order of the cursors.  Retention is at
\* least 30 days, longer than any bootstrap takes.
Settle(c) ==
  /\ c \in retained \ settled
  /\ \A d \in Devices : call[d].kind = "bootstrap" => c <= call[d].at
  /\ settled' = settled \union {c}
  /\ UNCHANGED <<writing, retained, active, checkpoints, device, call>>

Contiguous(C) == \A b, c \in C : \A m \in Cursors : b < m /\ m < c => m \in C

\* check_sync_reconciliation finds no cursor_drift and no cursor_gaps.
Reconciled ==
  /\ \A c \in retained : c <= high
  /\ \A d \in enrolled : acked[d] <= high /\ issued[d] <= high
  /\ Contiguous(retained)

\* Fault: one device that is past an event releases it for all.
NeededByAll(E, c) == E # {} /\ \A d \in E : acked[d] < c

\* Some of the devices E have not acknowledged the change c.
Needed(E, c) == \E d \in E : acked[d] < c

\* One run of sync-state.cleanup: the rows R of revoked devices, then the
\* settled changes that no remaining checkpoint needs.
Cleanup(R) ==
  LET E == enrolled \ R IN
  /\ Reconciled
  /\ R \subseteq enrolled \ active
  /\ enrolled' = E
  /\ acked' = [d \in Devices |-> IF d \in R THEN 0 ELSE acked[d]]
  /\ issued' = [d \in Devices |-> IF d \in R THEN 0 ELSE issued[d]]
  /\ retained' = {c \in retained : c \in settled => Needed(E, c)}
  /\ settled' = settled \intersect retained'
  /\ UNCHANGED <<writing, active, device, call>>

(***************************************************************************)
(* Bootstrap: pages of current rows in the order of their keys, and the    *)
(* high-water mark that was current at the first page.                     *)
(***************************************************************************)

Rows(after) == {r \in Resources : r > after /\ version[r] > 0}

\* Fault: each page reports the high-water mark of its own snapshot.
BoundaryOfPage(d) == high

Boundary(d) == IF call[d].kind = "none" THEN high ELSE call[d].at

\* The rows beyond `after` up to `last`; the client chooses the limit.
Bootstrap(d, after, last) ==
  LET more == \E r \in Rows(after) : r > last IN
  /\ d \in active
  /\ IF Rows(after) = {} THEN last = after ELSE last \in Rows(after)
  /\ call' = [call EXCEPT ![d] =
       [kind |-> "bootstrap", step |-> IF more THEN "reply" ELSE "record",
        at |-> Boundary(d), after |-> last, more |-> more,
        items |-> [r \in Resources |-> IF r \in Rows(after) /\ r <= last THEN version[r] ELSE 0]]]
  /\ UNCHANGED <<writing, cleaning, active, checkpoints, device>>

FirstPage(d, last) ==
  /\ call[d] = NoCall /\ saved[d] = NoCursor
  /\ Bootstrap(d, 0, last)

NextPage(d, last) ==
  /\ call[d].step = "page"
  /\ Bootstrap(d, call[d].after, last)

(***************************************************************************)
(* Delta: the retained changes after the device's cursor.                  *)
(***************************************************************************)

\* Fault: a cursor just before the oldest change counts as expired.
ExpiredEarly(d) ==
  /\ saved[d] > 0
  /\ retained # {} /\ \A c \in retained : c > saved[d]

Expired(d) ==
  /\ saved[d] > 0
  /\ retained # {} /\ \A c \in retained : c > saved[d] + 1

\* A page is never empty while there are changes; its length is bounded by
\* the client's limit and by the payload limit.
PageEnds(d, next) ==
  LET ahead == {c \in retained : c > saved[d]} IN
  IF ahead = {} THEN next = saved[d] ELSE next \in ahead

Newest(r, from, next) ==
  Max({0} \union {e.version : e \in {f \in feed : /\ f.resource = r
                                                  /\ f.cursor \in retained
                                                  /\ from < f.cursor /\ f.cursor <= next}})

Delta(d, next) ==
  /\ d \in active
  /\ call[d] = NoCall /\ saved[d] # NoCursor
  /\ ~Expired(d)
  /\ PageEnds(d, next)
  /\ call' = [call EXCEPT ![d] =
       [kind |-> "delta", step |-> "record", at |-> next, after |-> 0, more |-> FALSE,
        items |-> [r \in Resources |-> Newest(r, saved[d], next)]]]
  /\ UNCHANGED <<writing, cleaning, active, checkpoints, device>>

(***************************************************************************)
(* Checkpoints and the reply.                                              *)
(***************************************************************************)

AtLeast(m, n) == IF m < n THEN n ELSE m

\* Fault: the reply leaves without the cursor being recorded as issued.
RecordNothing(d) ==
  /\ d \in active
  /\ call[d].step = "record"
  /\ call' = [call EXCEPT ![d].step = "reply"]
  /\ UNCHANGED <<writing, cleaning, active, checkpoints, device>>

\* record_sync_cursor_issued, in a transaction of its own before the reply.
RecordIssued(d) ==
  /\ d \in active
  /\ call[d].step = "record"
  /\ enrolled' = enrolled \union {d}
  /\ issued' = [issued EXCEPT ![d] = AtLeast(@, call[d].at)]
  /\ call' = [call EXCEPT ![d].step = "reply"]
  /\ UNCHANGED <<writing, cleaning, active, acked, device>>

\* The device applies the page, unless it has the version already, and saves
\* the cursor in the same local transaction; a bootstrap saves it on the
\* last page only.  The device has no local edits and no open conflicts: of a
\* transaction that has, the change would be kept back, and the cursor saved.
Apply(d) ==
  LET c == call[d] IN
  /\ c.step = "reply"
  /\ known' = [known EXCEPT ![d] = [r \in Resources |-> AtLeast(@[r], c.items[r])]]
  /\ saved' = [saved EXCEPT ![d] = IF c.more THEN @ ELSE c.at]
  /\ call' = [call EXCEPT ![d] =
       IF c.kind = "delta" THEN [c EXCEPT !.step = "ack"] ELSE
       IF c.more THEN [c EXCEPT !.step = "page"] ELSE NoCall]
  /\ UNCHANGED <<writing, cleaning, active, checkpoints>>

Acceptable(d) == call[d].at <= high /\ call[d].at <= issued[d]

Acknowledge(d) ==
  /\ d \in active
  /\ call[d].step = "ack"
  /\ Acceptable(d)
  /\ enrolled' = enrolled \union {d}
  /\ acked' = [acked EXCEPT ![d] = AtLeast(@, call[d].at)]
  /\ call' = [call EXCEPT ![d] = NoCall]
  /\ UNCHANGED <<writing, cleaning, active, issued, device>>

\* The request or its reply is lost, the server refuses it, or the process
\* on either side ends.
Abandon(d) ==
  /\ call[d] # NoCall
  /\ call' = [call EXCEPT ![d] = NoCall]
  /\ UNCHANGED <<writing, cleaning, active, checkpoints, device>>

Revoke(d) ==
  /\ d \in active \intersect Revocable
  /\ active' = active \ {d}
  /\ UNCHANGED <<writing, cleaning, checkpoints, device, call>>

\* Registering the same installation again brings the same device id back.
Register(d) ==
  /\ d \notin active
  /\ active' = active \union {d}
  /\ UNCHANGED <<writing, cleaning, checkpoints, device, call>>

Server == \/ \E w \in Writers : \/ \E r \in Resources : Write(w, r)
                                \/ Attach(w) \/ Commit(w) \/ Rollback(w)
          \/ \E c \in Cursors : Settle(c)
          \/ \E R \in SUBSET Devices : Cleanup(R)

Synchronize(d) == \/ \E last \in Resources \union {0} : FirstPage(d, last) \/ NextPage(d, last)
                  \/ \E next \in Positions : Delta(d, next)
                  \/ RecordIssued(d) \/ Apply(d) \/ Acknowledge(d)

Disruption == \E d \in Devices : Abandon(d) \/ Revoke(d)

Next == \/ Server
        \/ \E d \in Devices : Synchronize(d) \/ Abandon(d) \/ Revoke(d) \/ Register(d)

Spec == Init /\ [][Next]_vars

\* Transactions end, every device synchronizes again and again (on each
\* start of the application), and disruptions cease.
Fairness ==
  /\ \A w \in Writers : WF_vars(Attach(w) \/ Commit(w) \/ Rollback(w))
  /\ \A d \in Devices : WF_vars(Synchronize(d)) /\ WF_vars(Register(d))
  /\ <>[][~Disruption]_vars

FairSpec == Spec /\ Fairness
-----------------------------------------------------------------------------
\* A device that stays registered and has saved a cursor holds, for every
\* change up to it, that version of the row or a later one: whatever the order
\* in which writers commit, however a bootstrap's pages interleave with them,
\* whichever requests are lost, whatever the retention job has deleted and
\* whatever becomes of the other devices
\* (sync.service.ts:98-141, sync_cursor_high_water.sql:64-160).
NothingMissed ==
  \A d \in Steady, e \in feed : e.cursor <= saved[d] => e.version <= known[d][e.resource]

\* Every change that a device which stays registered has yet to download is
\* retained: the job deletes an event only when no checkpoint is below it, a
\* device has a checkpoint before it has a cursor, and the checkpoint never
\* passes the device; that other devices are revoked, lose their checkpoints
\* and come back makes no difference (phase06_sync_schema.sql:924-950).
StillAvailable ==
  \A d \in Steady, e \in feed : saved[d] # NoCursor /\ saved[d] < e.cursor => e.cursor \in retained

\* When a device that stays registered acknowledges what it applied, the
\* server accepts it: the cursor was recorded as issued to it before it was
\* sent, and the record is not lost (sync_cursor_high_water.sql:232-241).
AckIsAccepted ==
  \A d \in Steady : call[d].step = "ack" => Acceptable(d)

\* When the writers have finished and nothing disrupts it any more, every
\* device that stays registered ends up with the current version of every row
\* (core-finance-service.ts:893-943).
EveryDeviceCatchesUp ==
  \A d \in Steady, r \in Resources : <>[](known[d][r] = version[r])
=============================================================================
