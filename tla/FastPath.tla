------------------------------ MODULE FastPath ------------------------------
(***************************************************************************)
(* Fast-path relation locks (lock.c, proc.c) and what the global deadlock  *)
(* detector learns of them (LOCK.holdTillEndXact).                         *)
(*                                                                         *)
(* One relation and the backends of one segment.  A weak request           *)
(* (AccessShare, RowShare, RowExclusive) is recorded in the backend's own  *)
(* PGPROC while no strong locker is counted; a strong request (here        *)
(* AccessExclusive) bumps the count, moves the recorded locks into the     *)
(* shared table one PGPROC at a time, and only then looks for conflicts.   *)
(* The steps are the stretches between two lightweight locks.  A backend   *)
(* holds at most one lock on the relation, so its fast-path entry is       *)
(* always the same slot of fpLockBits.                                     *)
(***************************************************************************)
EXTENDS Naturals, FiniteSets

CONSTANT NumProcs       \* ProcGlobal->allProcCount

ASSUME ProcsAssumption == NumProcs \in Nat

Procs == 1 .. NumProcs
Modes == {"weak", "strong"}

VARIABLES
  pc,           \* where each backend is in LockAcquire / LockRelease
  mode,         \* the mode it asks for or holds
  count,        \* FastPathStrongRelationLocks->count[] of the relation
  counted,      \* backends whose LOCALLOCK has holdsStrongLockCount
  next,         \* index i of the transfer loop
  fp,           \* backends with the relation in fpLockBits
  fpTillEnd,    \* backends with the slot's fpHoldTillEndXactBits set
  granted,      \* backends with a granted PROCLOCK in the shared table
  waiting,      \* the backends in LOCK.waitProcs
  ahead,        \* for each of them, those ahead of it in that queue
  holdTillEnd,  \* LOCK.holdTillEndXact
  knowsLock,    \* backends whose LOCALLOCK points to the LOCK
  keeps         \* backends that closed the relation with NoLock in this transaction

backend == <<pc, mode, next, knowsLock, keeps>>
strong == <<count, counted>>
fast == <<fp, fpTillEnd>>
queue == <<waiting, ahead>>
table == <<granted, queue, holdTillEnd>>
vars == <<backend, strong, fast, table>>

Conflict(m, n) == m = "strong" \/ n = "strong"

Init ==
  /\ pc = [p \in Procs |-> "idle"]
  /\ mode = [p \in Procs |-> "weak"]
  /\ count = 0 /\ counted = {}
  /\ next = [p \in Procs |-> 0]
  /\ fp = {} /\ fpTillEnd = {}
  /\ granted = {} /\ holdTillEnd = FALSE
  /\ waiting = {} /\ ahead = [p \in Procs |-> {}]
  /\ knowsLock = {} /\ keeps = {}

-----------------------------------------------------------------------------
\* The shared lock table, under its partition lock.

\* LockCheckConflicts against the locks granted in table g.
LockCheckConflicts(p, g) == \E q \in g \ {p} : Conflict(mode[p], mode[q])

\* The requests in s stay in the queue, in the order they have.
KeepInQueue(s) ==
  /\ waiting' = s
  /\ ahead' = [p \in Procs |-> IF p \in s THEN ahead[p] \cap s ELSE {}]

\* The scan of ProcLockWakeup from granted locks g and waiters s: a waiter is
\* granted unless it conflicts with a granted lock or with a waiter ahead of it,
\* which the scan has either granted or left waiting.
ProcLockWakeup(g, s) ==
  {p \in s : /\ \A a \in ahead[p] \cap s : ~Conflict(mode[p], mode[a])
             /\ ~LockCheckConflicts(p, g)}

\* Bug: whoever releases leaves the waiters asleep.
CleansUpSilently(g, s) ==
  /\ granted' = g
  /\ KeepInQueue(s)
  /\ holdTillEnd' = (holdTillEnd /\ g \cup s # {})

\* CleanUpLock after a PROCLOCK or a waiter has gone: the LOCK is deleted, its
\* flag with it, when nobody requests it, else waiters are woken.
CleanUpLock(g, s) ==
  /\ granted' = g \cup ProcLockWakeup(g, s)
  /\ KeepInQueue(s \ ProcLockWakeup(g, s))
  /\ holdTillEnd' = (holdTillEnd /\ g \cup s # {})

\* Bug: a waiter that leaves the queue wakes nobody.
RemovesSilently(p) ==
  /\ KeepInQueue(waiting \ {p})
  /\ holdTillEnd' = (holdTillEnd /\ granted \cup waiting' # {})
  /\ UNCHANGED granted

RemoveFromWaitQueue(p) == CleanUpLock(granted, waiting \ {p})

-----------------------------------------------------------------------------
\* LockAcquire.

\* Bug: the fast path is used without looking at the strong lockers.
GrantsRegardless(p) ==
  /\ pc[p] = "idle"
  /\ mode' = [mode EXCEPT ![p] = "weak"]
  /\ fp' = fp \cup {p}
  /\ pc' = [pc EXCEPT ![p] = "held"]
  /\ UNCHANGED <<next, knowsLock, keeps, strong, fpTillEnd, table>>

\* Under its fpInfoLock a weak request finds no strong locker counted and is
\* recorded in fpLockBits.  Setting the slot's fpHoldTillEndXactBits to 0 with
\* |= leaves them as an earlier transaction set them.
FastPathGrantRelationLock(p) ==
  /\ pc[p] = "idle" /\ count = 0
  /\ mode' = [mode EXCEPT ![p] = "weak"]
  /\ fp' = fp \cup {p}
  /\ pc' = [pc EXCEPT ![p] = "held"]
  /\ UNCHANGED <<next, knowsLock, keeps, strong, fpTillEnd, table>>

\* A weak request finds a strong locker counted and goes to the shared table.
FastPathRefused(p) ==
  /\ pc[p] = "idle" /\ count # 0
  /\ mode' = [mode EXCEPT ![p] = "weak"]
  /\ pc' = [pc EXCEPT ![p] = "table"]
  /\ UNCHANGED <<next, knowsLock, keeps, strong, fast, table>>

BeginStrongLockAcquire(p) ==
  /\ pc[p] = "idle"
  /\ mode' = [mode EXCEPT ![p] = "strong"]
  /\ count' = count + 1 /\ counted' = counted \cup {p}
  /\ next' = [next EXCEPT ![p] = 1]
  /\ pc' = [pc EXCEPT ![p] = "transfer"]
  /\ UNCHANGED <<knowsLock, keeps, fast, table>>

\* Bug: the transfer stops at the first backend that has the lock.
TransfersOne(p) ==
  /\ pc[p] = "transfer" /\ next[p] <= NumProcs
  /\ LET i == next[p] IN
     /\ next' = [next EXCEPT ![p] = IF i \in fp THEN NumProcs + 1 ELSE i + 1]
     /\ fp' = fp \ {i}
     /\ granted' = granted \cup (fp \cap {i})
     /\ holdTillEnd' = IF i \in fp THEN i \in fpTillEnd ELSE holdTillEnd
  /\ UNCHANGED <<pc, mode, knowsLock, keeps, strong, fpTillEnd, queue>>

\* One turn of the loop: under fpInfoLock and the partition lock backend i's
\* entry becomes a granted PROCLOCK, and the LOCK's flag takes backend i's bits.
FastPathTransferRelationLocks(p) ==
  /\ pc[p] = "transfer" /\ next[p] <= NumProcs
  /\ LET i == next[p] IN
     /\ next' = [next EXCEPT ![p] = i + 1]
     /\ fp' = fp \ {i}
     /\ granted' = granted \cup (fp \cap {i})
     /\ holdTillEnd' = IF i \in fp THEN i \in fpTillEnd ELSE holdTillEnd
  /\ UNCHANGED <<pc, mode, knowsLock, keeps, strong, fpTillEnd, queue>>

\* What is left to undo of a strong request that fails.
AbortStrongLockAcquire(p) ==
  /\ count' = IF p \in counted THEN count - 1 ELSE count
  /\ counted' = counted \ {p}

\* The shared table has no room for a transferred lock: the request fails.
TransferFails(p) ==
  /\ pc[p] = "transfer" /\ next[p] \in fp
  /\ AbortStrongLockAcquire(p)
  /\ next' = [next EXCEPT ![p] = 0]
  /\ pc' = [pc EXCEPT ![p] = "idle"]
  /\ UNCHANGED <<mode, knowsLock, keeps, fast, table>>

\* The rest of LockAcquireExtended, under the partition lock: the request is
\* granted, or joins the queue (WaitOnLock, ProcSleep).
SetupLockInTable(p) ==
  /\ \/ pc[p] = "table"
     \/ pc[p] = "transfer" /\ next[p] > NumProcs
  /\ knowsLock' = knowsLock \cup {p}
  /\ next' = [next EXCEPT ![p] = 0]
  /\ IF (\E a \in waiting : Conflict(mode[p], mode[a])) \/ LockCheckConflicts(p, granted)
     THEN /\ waiting' = waiting \cup {p}
          /\ ahead' = [ahead EXCEPT ![p] = waiting]
          /\ pc' = [pc EXCEPT ![p] = "sleep"]
          /\ UNCHANGED granted
     ELSE /\ granted' = granted \cup {p}
          /\ pc' = [pc EXCEPT ![p] = "held"]
          /\ UNCHANGED queue
  /\ UNCHANGED <<mode, keeps, strong, fast, holdTillEnd>>

\* ProcSleep returns to a waiter that has been granted the lock.
Awake(p) ==
  /\ pc[p] = "sleep" /\ p \in granted
  /\ pc' = [pc EXCEPT ![p] = "held"]
  /\ UNCHANGED <<mode, next, knowsLock, keeps, strong, fast, table>>

-----------------------------------------------------------------------------
\* A query cancel while waiting: LockErrorCleanup takes the count back first,
\* then, under the partition lock, leaves the queue; a lock granted in between
\* is remembered, and released with the rest of the transaction.
CancelWait(p) ==
  /\ pc[p] = "sleep"
  /\ AbortStrongLockAcquire(p)
  /\ pc' = [pc EXCEPT ![p] = "cleanup"]
  /\ UNCHANGED <<mode, next, knowsLock, keeps, fast, table>>

\* Bug: the lock granted in between is not remembered.
ForgetsGrant(p) ==
  /\ pc[p] = "cleanup"
  /\ IF p \in waiting THEN RemoveFromWaitQueue(p) ELSE UNCHANGED table
  /\ knowsLock' = knowsLock \ {p}
  /\ pc' = [pc EXCEPT ![p] = "idle"]
  /\ UNCHANGED <<mode, next, keeps, strong, fast>>

LockErrorCleanup(p) ==
  /\ pc[p] = "cleanup"
  /\ IF p \in waiting
     THEN /\ RemoveFromWaitQueue(p)
          /\ knowsLock' = knowsLock \ {p}
          /\ pc' = [pc EXCEPT ![p] = "idle"]
     ELSE /\ pc' = [pc EXCEPT ![p] = "release"]
          /\ UNCHANGED <<table, knowsLock>>
  /\ UNCHANGED <<mode, next, keeps, strong, fast>>

-----------------------------------------------------------------------------
\* Using and giving up a lock.

\* relation_close(NoLock): the lock stays until the transaction ends.  The
\* mark goes to the backend's own slot, or to the LOCK its LOCALLOCK points to;
\* there is none when another backend has moved the lock to the table.
LockSetHoldTillEndXact(p) ==
  /\ pc[p] = "held" /\ p \notin keeps
  /\ keeps' = keeps \cup {p}
  /\ IF p \in fp
     THEN fpTillEnd' = fpTillEnd \cup {p} /\ UNCHANGED holdTillEnd
     ELSE holdTillEnd' = (holdTillEnd \/ p \in knowsLock) /\ UNCHANGED fpTillEnd
  /\ UNCHANGED <<pc, mode, next, knowsLock, strong, fp, granted, queue>>

\* LockRelease or LockReleaseAll of a lock still in fpLockBits.
FastPathUnGrantRelationLock(p) ==
  /\ pc[p] = "held" /\ p \in fp
  /\ fp' = fp \ {p}
  /\ keeps' = keeps \ {p}
  /\ pc' = [pc EXCEPT ![p] = "idle"]
  /\ UNCHANGED <<mode, next, knowsLock, strong, fpTillEnd, table>>

\* LockRelease before the end of the transaction: first the shared table, then
\* (RemoveLocalLock) the count.
LockRelease(p) ==
  /\ pc[p] = "held" /\ p \notin fp \cup keeps
  /\ CleanUpLock(granted \ {p}, waiting)
  /\ pc' = [pc EXCEPT ![p] = "forget"]
  /\ UNCHANGED <<mode, next, knowsLock, keeps, strong, fast>>

\* RemoveLocalLock gives the strong lock's count back.
RemoveLocalLock(p) ==
  /\ count' = IF p \in counted THEN count - 1 ELSE count
  /\ counted' = counted \ {p}
  /\ knowsLock' = knowsLock \ {p}

Forget(p) ==
  /\ pc[p] = "forget"
  /\ RemoveLocalLock(p)
  /\ pc' = [pc EXCEPT ![p] = "idle"]
  /\ UNCHANGED <<mode, next, keeps, fast, table>>

\* LockReleaseAll at the end of the transaction: the LOCALLOCK, and the count,
\* go in the first pass ...
ReleaseAllLocal(p) ==
  /\ pc[p] = "held" /\ p \notin fp
  /\ RemoveLocalLock(p)
  /\ pc' = [pc EXCEPT ![p] = "release"]
  /\ UNCHANGED <<mode, next, keeps, fast, table>>

\* ... and the granted lock in the scan of the shared table.
ReleaseAllShared(p) ==
  /\ pc[p] = "release"
  /\ CleanUpLock(granted \ {p}, waiting)
  /\ knowsLock' = knowsLock \ {p}
  /\ keeps' = keeps \ {p}
  /\ pc' = [pc EXCEPT ![p] = "idle"]
  /\ UNCHANGED <<mode, next, strong, fast>>

-----------------------------------------------------------------------------
\* Steps a backend takes by itself once it is in the lock manager.
Proceed(p) ==
  \/ FastPathTransferRelationLocks(p) \/ SetupLockInTable(p) \/ Awake(p)
  \/ LockErrorCleanup(p) \/ Forget(p) \/ ReleaseAllShared(p)

\* The end of a transaction that holds the lock.
End(p) == FastPathUnGrantRelationLock(p) \/ ReleaseAllLocal(p)

Next ==
  \E p \in Procs :
    \/ FastPathGrantRelationLock(p) \/ FastPathRefused(p) \/ BeginStrongLockAcquire(p)
    \/ TransferFails(p) \/ CancelWait(p)
    \/ LockSetHoldTillEndXact(p) \/ LockRelease(p)
    \/ Proceed(p) \/ End(p)

Spec == Init /\ [][Next]_vars

\* Backends run, and transactions that hold the lock end.
FairSpec == Spec /\ \A p \in Procs : WF_vars(Proceed(p)) /\ WF_vars(End(p))

-----------------------------------------------------------------------------
TypeOK ==
  /\ pc \in [Procs -> {"idle", "transfer", "table", "sleep", "cleanup", "held",
                       "forget", "release"}]
  /\ mode \in [Procs -> Modes]
  /\ count \in Nat
  /\ next \in [Procs -> 0 .. NumProcs + 1]
  /\ ahead \in [Procs -> SUBSET waiting]
  /\ holdTillEnd \in BOOLEAN
  /\ \A s \in {counted, fp, fpTillEnd, granted, waiting, knowsLock, keeps} : s \subseteq Procs

\* Two backends whose LockAcquire has returned never hold conflicting locks,
\* whether each lock is in fpLockBits or in the shared table.
NoConflictingHolders ==
  \A p, q \in Procs :
    p # q /\ pc[p] = "held" /\ pc[q] = "held" => ~Conflict(mode[p], mode[q])

\* "any locks that might be involved in a deadlock must be transferred from the
\* fast-path queues to the main lock table": a strong locker waits only once no
\* lock is left in fpLockBits.
WaitsForTheTable ==
  \A p \in Procs : pc[p] = "sleep" /\ mode[p] = "strong" => fp = {}

\* Nobody waits without need: a waiter conflicts with a granted lock or with a
\* waiter ahead of it, whoever released, gave up or was granted what meanwhile.
NoNeedlessWait ==
  \A p \in waiting : \E q \in granted \cup ahead[p] : Conflict(mode[p], mode[q])

\* A backend that is done has left nothing behind: neither a lock, nor a place
\* in the queue, nor a strong count that would close the fast path for good.
NothingLeftBehind ==
  /\ \A p \in Procs : pc[p] = "idle" => p \notin granted \cup waiting \cup fp \cup counted
  /\ count = Cardinality(counted)

\* Whoever waits for the lock gets it or is cancelled, as long as transactions
\* end: neither fast-path lockers nor later requests starve a waiter.
WaitersServed == \A p \in Procs : pc[p] = "sleep" ~> pc[p] # "sleep"

\* "relation waitings that ever been closed in NO_LOCK mode at least once are
\* solid edges": a lock that somebody waits for, and that a holder keeps until
\* its transaction ends, has holdTillEndXact set.
KeptIsSolid ==
  (\E q \in granted \cap keeps : pc[q] = "held" /\ \E p \in waiting : Conflict(mode[p], mode[q]))
    => holdTillEnd

\* "otherwise they are dotted edges": a lock with holdTillEndXact set is one a
\* transaction that still holds it has closed with NoLock.
SolidIsKept == holdTillEnd => granted \cap keeps # {}
=============================================================================
