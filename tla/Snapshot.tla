------------------------------ MODULE Snapshot ------------------------------
(***************************************************************************)
(* Distributed snapshots: how the coordinator makes one                    *)
(* (CreateDistributedSnapshot), how a segment combines it with a local     *)
(* snapshot and the distributed log to decide what is visible              *)
(* (XidInMVCCSnapshot), how far the distributed log may be forgotten       *)
(* (DistributedLog_AdvanceOldestXmin), and how the order in which          *)
(* transactions pass through a segment is kept on the coordinator          *)
(* (waitGxids).                                                            *)
(*                                                                         *)
(* Each transaction writes the same row on every segment it visits, so two *)
(* writers of a segment meet in XactLockTableWait.  A transaction has at   *)
(* most one local xid per segment; local xids are numbered per segment.    *)
(***************************************************************************)
EXTENDS Integers, FiniteSets

CONSTANTS Backends,          \* dispatching backends, with a writer QE on every segment
          Writers,           \* those of them that write
          Route,             \* the segments the statements of a backend are dispatched to
          Retakes,           \* those whose transactions take a snapshot per statement
          Segs,
          FirstGxid, MaxGxid,
          Restarted,         \* the initial state is the end of StartupXLOG
          WaitsForPrepared,  \* a writer may meet a row of a prepared transaction
          IntModulus         \* 2^32: an int keeps a value modulo this, as a signed number

ASSUME GxidAssumption == FirstGxid \in Nat \ {0} /\ MaxGxid \in Nat
ASSUME BackendAssumption == Writers \subseteq Backends /\ Retakes \subseteq Backends
ASSUME RouteAssumption == Route \in [Backends -> SUBSET Segs]
ASSUME SwitchAssumption == Restarted \in BOOLEAN /\ WaitsForPrepared \in BOOLEAN
ASSUME ModulusAssumption == IntModulus \in Nat \ {0}

NoGxid == 0
Gxids == FirstGxid .. MaxGxid
NoXid == 0

VARIABLES
  \* the coordinator
  nextGxid, latestCompletedGxid,
  qd,          \* how far the transaction of each backend is
  gxid,        \* TMGXACT.gxid
  dxmin,       \* TMGXACT.xminDistributedSnapshot
  ds,          \* the distributed snapshot in use
  cut,         \* the transactions that had committed when it was made (history)
  committed,   \* committed transactions that have left the proc array (history)
  \* the segments
  xid,         \* the local xid of a transaction on a segment
  status,      \* its state there
  local,       \* the local snapshot that goes with ds
  pending,     \* globalxmin of a GetSnapshotData that has yet to advance oldestXmin
  oldestXmin,  \* DistributedLogShared->oldestXmin
  ignore,      \* <<segment, gxid>> whose rows have the DISTRIBUTED_SNAPSHOT_IGNORE hint
  \* writers that meet
  blocked,     \* the transaction a backend is in XactLockTableWait for
  waitGxids,   \* what its QEs report
  after,       \* <<g, h>>: on some segment g updated the row after h (history)
  waited       \* those of them where g waited for h in XactLockTableWait (history)

coordinator == <<nextGxid, latestCompletedGxid, qd, gxid, dxmin, ds, cut, committed>>
segment == <<xid, status, local, pending, oldestXmin, ignore>>
order == <<blocked, waitGxids, after, waited>>
vars == <<coordinator, segment, order>>

NoSnapshot == [xmin |-> 0, xmax |-> 0, xip |-> {}]
NoDistributed == [xminAll |-> 0, xmin |-> 0, xmax |-> 0, inProgress |-> {}]
Unblocked == [seg |-> CHOOSE s \in Segs : TRUE, gxid |-> NoGxid, asked |-> FALSE]

\* "assigned": it has an xid, "running": it has updated the row, "logged": its
\* commit is in the distributed log and the process has yet to leave the array.
HoldsRow == {"running", "prepared", "logged"}
InProcArray == HoldsRow \cup {"assigned"}

\* The least and the greatest of a set of numbers.
Min(S) == CHOOSE x \in S : \A y \in S : x <= y
Max(S) == CHOOSE x \in S : \A y \in S : x >= y

\* Conversion to int: the low bits, read as a two's complement number.
AsInt(n) == LET low == n % IntModulus
            IN IF low >= IntModulus \div 2 THEN low - IntModulus ELSE low

-----------------------------------------------------------------------------
\* Start-up leaves latestCompletedGxid at nextGxid; once a transaction has ended it
\* is below.
Init ==
  /\ nextGxid = FirstGxid
  /\ latestCompletedGxid = IF Restarted THEN nextGxid ELSE nextGxid - 1
  /\ qd = [b \in Backends |-> "idle"]
  /\ gxid = [b \in Backends |-> NoGxid]
  /\ dxmin = [b \in Backends |-> NoGxid]
  /\ ds = [b \in Backends |-> NoDistributed]
  /\ cut = [b \in Backends |-> {}]
  /\ committed = {}
  /\ xid = [s \in Segs |-> [g \in Gxids |-> NoXid]]
  /\ status = [s \in Segs |-> [g \in Gxids |-> "none"]]
  /\ local = [b \in Backends |-> [s \in Segs |-> NoSnapshot]]
  /\ pending = [b \in Backends |-> [s \in Segs |-> NoXid]]
  /\ oldestXmin = [s \in Segs |-> 1]
  /\ ignore = {}
  /\ blocked = [b \in Backends |-> Unblocked]
  /\ waitGxids = [b \in Backends |-> {}]
  /\ after = {}
  /\ waited = {}

-----------------------------------------------------------------------------
\* Snapshots.

\* A mutant: the snapshots of other backends do not hold the horizon back.
ForgetsOtherSnapshots(b) ==
  LET xmax == latestCompletedGxid + 1
      below == {g \in {gxid[c] : c \in Backends} \ {NoGxid} : g < xmax}
      xmin == Min({xmax} \cup below)
  IN [xminAll |-> xmin, xmin |-> xmin, xmax |-> xmax, inProgress |-> below \ {gxid[b]}]

\* CreateDistributedSnapshot, under ProcArrayLock.
CreateDistributedSnapshot(b) ==
  LET xmax == latestCompletedGxid + 1
      below == {g \in {gxid[c] : c \in Backends} \ {NoGxid} : g < xmax}
      xmin == Min({xmax} \cup below)
  IN [xminAll |-> Min({xmin} \cup ({dxmin[c] : c \in Backends} \ {NoGxid})),
      xmin |-> xmin, xmax |-> xmax, inProgress |-> below \ {gxid[b]}]

\* A statement begins: the coordinator makes a snapshot, to be dispatched.  A
\* transaction whose isolation level keeps its snapshot does this once.
GetSnapshotData(b) ==
  /\ qd[b] = "idle" \/ (qd[b] = "active" /\ b \in Retakes)
  /\ b \in Writers /\ gxid[b] = NoGxid => nextGxid <= MaxGxid
  /\ blocked[b] = Unblocked
  /\ \A s \in Segs : pending[b][s] = NoXid
  /\ qd' = [qd EXCEPT ![b] = "active"]
  /\ ds' = [ds EXCEPT ![b] = CreateDistributedSnapshot(b)]
  /\ dxmin' = [dxmin EXCEPT ![b] = IF @ = NoGxid THEN ds'[b].xmin ELSE @]
  /\ cut' = [cut EXCEPT ![b] = committed]
  /\ local' = [local EXCEPT ![b] = [s \in Segs |-> NoSnapshot]]
  /\ UNCHANGED <<nextGxid, latestCompletedGxid, gxid, committed, xid, status, pending,
                 oldestXmin, ignore, order>>

Running(s) == {xid[s][g] : g \in {g \in Gxids : status[s][g] \in InProcArray}}
latestCompletedXid(s) ==
  Max({0} \cup {xid[s][g] : g \in {g \in Gxids : status[s][g] \in {"committed", "aborted"}}})

\* Backend b's process on s has the xid: before it prepares, and throughout a
\* commit in one phase.  Then a prepared transaction's dummy process has it.
OwnsXid(b, s) ==
  /\ gxid[b] # NoGxid
  /\ \/ status[s][gxid[b]] \in {"assigned", "running"}
     \/ status[s][gxid[b]] = "logged" /\ qd[b] = "onephase"

\* The PGPROC.xmin of processes with an xid; a dummy process has none.
ProcXmins(s) ==
  {local[b][s].xmin : b \in {b \in Backends : OwnsXid(b, s) /\ local[b][s] # NoSnapshot}}

\* GetSnapshotData on a segment, up to the release of ProcArrayLock.
LocalSnapshot(b, s) ==
  LET xmax == latestCompletedXid(s) + 1
      mine == IF gxid[b] = NoGxid THEN NoXid ELSE xid[s][gxid[b]]
      below == {x \in Running(s) : x < xmax}
  IN [xmin |-> Min({xmax} \cup below), xmax |-> xmax, xip |-> below \ {mine}]

QeGetSnapshotData(b, s) ==
  /\ qd[b] = "active" /\ blocked[b] = Unblocked
  /\ b \in Writers => gxid[b] # NoGxid
  /\ s \in Route[b] /\ local[b][s] = NoSnapshot
  /\ local' = [local EXCEPT ![b][s] = LocalSnapshot(b, s)]
  /\ pending' = [pending EXCEPT ![b][s] = Min({LocalSnapshot(b, s).xmin} \cup ProcXmins(s))]
  /\ UNCHANGED <<coordinator, xid, status, oldestXmin, ignore, order>>

\* The distributed log of a segment: a commit is entered before it is visible.
distribXid(s, x) ==
  LET of == {g \in Gxids : xid[s][g] = x /\ status[s][g] \in {"logged", "committed"}}
  IN IF of = {} THEN NoGxid ELSE CHOOSE g \in of : TRUE

\* How far DistributedLog_AdvanceOldestXmin gets: up to the first xid that is not
\* visible to all distributed snapshots.
AdvancedXmin(s, to, all) ==
  IF oldestXmin[s] >= to THEN oldestXmin[s]
  ELSE Min({to} \cup {x \in oldestXmin[s] .. to - 1 : distribXid(s, x) >= all})

\* The rest of GetSnapshotData on the segment; others go on in between.
DistributedLog_AdvanceOldestXmin(b, s) ==
  /\ pending[b][s] # NoXid
  /\ oldestXmin' = [oldestXmin EXCEPT ![s] = AdvancedXmin(s, pending[b][s], ds[b].xminAll)]
  /\ pending' = [pending EXCEPT ![b][s] = NoXid]
  /\ UNCHANGED <<coordinator, xid, status, local, ignore, order>>

-----------------------------------------------------------------------------
\* Visibility on a segment.

XidInMVCCSnapshot_Local(b, s, x) == x >= local[b][s].xmax \/ x \in local[b][s].xip

CommittedTest(b, s, x) ==
  LET d == distribXid(s, x)
  IN IF x < oldestXmin[s] \/ d = NoGxid THEN "unknown"
     ELSE IF d < ds[b].xminAll THEN "ignore"
     ELSE IF d < ds[b].xmin THEN "visible"
     ELSE IF d >= ds[b].xmax \/ d \in ds[b].inProgress THEN "inprogress"
     ELSE "visible"

\* XidInMVCCSnapshot for a row of transaction g on s.
XidInMVCCSnapshot(b, s, g) ==
  LET x == xid[s][g]
      test == IF <<s, g>> \in ignore THEN "unknown" ELSE CommittedTest(b, s, x)
  IN IF x >= local[b][s].xmax \/ test = "inprogress" THEN "in"
     ELSE IF test = "visible" THEN "committed"
     ELSE IF XidInMVCCSnapshot_Local(b, s, x) THEN "in" ELSE "out"

\* HeapTupleSatisfiesMVCC for a row another transaction inserted.
Sees(b, s, g) ==
  \/ XidInMVCCSnapshot(b, s, g) = "committed"
  \/ XidInMVCCSnapshot(b, s, g) = "out" /\ status[s][g] \in {"logged", "committed"}

\* Backend b meets a row of g on s and marks it, so that later scans, of other
\* snapshots too, decide by their local snapshot.
SetDistributedSnapshotIgnore(b, s, g) ==
  /\ qd[b] = "active" /\ local[b][s] # NoSnapshot
  /\ xid[s][g] # NoXid /\ g # gxid[b]
  /\ <<s, g>> \notin ignore
  /\ xid[s][g] < local[b][s].xmax
  /\ CommittedTest(b, s, xid[s][g]) = "ignore"
  /\ ignore' = ignore \cup {<<s, g>>}
  /\ UNCHANGED <<coordinator, xid, status, local, pending, oldestXmin, order>>

-----------------------------------------------------------------------------
\* Writers.

\* currentDtxActivate: the gxid is entered while shmGxidGenLock is held, so that
\* no later gxid can complete before this one is in the array.
currentDtxActivate(b) ==
  /\ qd[b] = "active" /\ gxid[b] = NoGxid
  /\ b \in Writers /\ nextGxid <= MaxGxid
  /\ gxid' = [gxid EXCEPT ![b] = nextGxid]
  /\ nextGxid' = nextGxid + 1
  /\ UNCHANGED <<latestCompletedGxid, qd, dxmin, ds, cut, committed, segment, order>>

\* The QE of b begins to update the row: heap_update first gets an xid.
AssignTransactionId(b, s) ==
  LET g == gxid[b]
  IN /\ qd[b] = "active" /\ g # NoGxid
     /\ local[b][s] # NoSnapshot /\ pending[b][s] = NoXid
     /\ blocked[b] = Unblocked
     /\ status[s][g] = "none"
     /\ xid' = [xid EXCEPT ![s][g] = 1 + Cardinality({h \in Gxids : xid[s][h] # NoXid})]
     /\ status' = [status EXCEPT ![s][g] = "assigned"]
     /\ UNCHANGED <<coordinator, local, pending, oldestXmin, ignore, order>>

\* Nobody in progress has updated the row: this update goes through.  In READ
\* COMMITTED it follows the row to its last version, whoever's that is.
heap_update(b, s) ==
  LET g == gxid[b]
      before == {h \in Gxids : status[s][h] = "committed"}
  IN /\ qd[b] = "active" /\ g # NoGxid
     /\ status[s][g] = "assigned"
     /\ blocked[b] = Unblocked
     /\ \A h \in Gxids : status[s][h] \notin HoldsRow
     /\ status' = [status EXCEPT ![s][g] = "running"]
     /\ after' = after \cup {<<g, h>> : h \in before}
     /\ UNCHANGED <<coordinator, xid, local, pending, oldestXmin, ignore,
                    blocked, waitGxids, waited>>

\* Transaction h has updated it: heap_update calls XactLockTableWait.
MeetsWriter(b, s, h) ==
  /\ qd[b] = "active" /\ gxid[b] # NoGxid
  /\ status[s][gxid[b]] = "assigned"
  /\ blocked[b] = Unblocked
  /\ status[s][h] \in HoldsRow
  /\ blocked' = [blocked EXCEPT ![b] = [seg |-> s, gxid |-> h, asked |-> FALSE]]
  /\ UNCHANGED <<coordinator, segment, waitGxids, after, waited>>

\* The gxid of h on s: from the process with its xid, else from the distributed
\* log.  The dummy process of a prepared transaction has none.
LocalXidGetDistributedXid(s, h) ==
  IF status[s][h] \in {"running", "logged", "committed"} THEN h ELSE NoGxid

\* A mutant: the log is not asked about a transaction that has just committed.
AsksProcArrayOnly(b) ==
  LET h == blocked[b].gxid
      s == blocked[b].seg
  IN /\ h # NoGxid /\ ~blocked[b].asked
     /\ WaitsForPrepared \/ status[s][h] # "prepared"
     /\ blocked' = [blocked EXCEPT ![b].asked = TRUE]
     /\ waitGxids' = [waitGxids EXCEPT ![b] =
                        IF status[s][h] = "running" THEN @ \cup {AsInt(h)} ELSE @]
     /\ UNCHANGED <<coordinator, segment, after, waited>>

\* XactLockTableWait notes whom it is about to wait for.
NotesWait(b) ==
  LET h == blocked[b].gxid
      s == blocked[b].seg
  IN /\ h # NoGxid /\ ~blocked[b].asked
     /\ WaitsForPrepared \/ status[s][h] # "prepared"
     /\ blocked' = [blocked EXCEPT ![b].asked = TRUE]
     /\ waitGxids' = [waitGxids EXCEPT ![b] =
                        IF LocalXidGetDistributedXid(s, h) = NoGxid THEN @ ELSE @ \cup {AsInt(h)}]
     /\ UNCHANGED <<coordinator, segment, after, waited>>

\* A mutant: the wait returns at once, and the update goes through.
ReturnsAtOnce(b) ==
  LET s == blocked[b].seg
  IN /\ blocked[b].gxid # NoGxid /\ blocked[b].asked
     /\ blocked' = [blocked EXCEPT ![b] = Unblocked]
     /\ status' = [status EXCEPT ![s][gxid[b]] = "running"]
     /\ UNCHANGED <<coordinator, xid, local, pending, oldestXmin, ignore, waitGxids, after, waited>>

\* XactLockTableWait returns when h has ended on s; the row is then looked at again.
XactLockTableWait(b) ==
  LET h == blocked[b].gxid
      s == blocked[b].seg
  IN /\ h # NoGxid /\ blocked[b].asked
     /\ status[s][h] \notin InProcArray
     /\ blocked' = [blocked EXCEPT ![b] = Unblocked]
     /\ waited' = IF status[s][h] = "committed" THEN waited \cup {<<gxid[b], h>>} ELSE waited
     /\ UNCHANGED <<coordinator, segment, waitGxids, after>>

-----------------------------------------------------------------------------
\* The end of a transaction.

Participants(b) == {s \in Segs : gxid[b] # NoGxid /\ xid[s][gxid[b]] # NoXid}

\* Every QE has answered, and no process is in the middle of a command.
AtRest(b) == blocked[b] = Unblocked /\ \A s \in Segs : pending[b][s] = NoXid

\* COMMIT: one segment commits in one phase, several are prepared first.
PrepareTransaction(b) ==
  /\ qd[b] = "active" /\ AtRest(b)
  /\ \A s \in Participants(b) : status[s][gxid[b]] = "running"
  /\ qd' = [qd EXCEPT ![b] = IF Participants(b) = {} THEN "ending"
                             ELSE IF Cardinality(Participants(b)) = 1 THEN "onephase"
                             ELSE "preparing"]
  /\ UNCHANGED <<nextGxid, latestCompletedGxid, gxid, dxmin, ds, cut, committed, segment, order>>

PerformPrepare(b, s) ==
  /\ qd[b] = "preparing" /\ s \in Participants(b)
  /\ status[s][gxid[b]] = "running"
  /\ status' = [status EXCEPT ![s][gxid[b]] = "prepared"]
  /\ UNCHANGED <<coordinator, xid, local, pending, oldestXmin, ignore, order>>

\* All are prepared and the commit is recorded: phase two.
RecordTransactionCommit(b) ==
  /\ qd[b] = "preparing"
  /\ \A s \in Participants(b) : status[s][gxid[b]] = "prepared"
  /\ qd' = [qd EXCEPT ![b] = "notifying"]
  /\ UNCHANGED <<nextGxid, latestCompletedGxid, gxid, dxmin, ds, cut, committed, segment, order>>

\* A segment commits: the distributed log first,
SetCommittedTree(b, s) ==
  /\ s \in Participants(b)
  /\ \/ qd[b] = "onephase" /\ status[s][gxid[b]] = "running"
     \/ qd[b] = "notifying" /\ status[s][gxid[b]] = "prepared"
  /\ status' = [status EXCEPT ![s][gxid[b]] = "logged"]
  /\ UNCHANGED <<coordinator, xid, local, pending, oldestXmin, ignore, order>>

\* then it leaves the segment's proc array.
SegmentEndsTransaction(b, s) ==
  /\ s \in Participants(b)
  /\ status[s][gxid[b]] = "logged"
  /\ status' = [status EXCEPT ![s][gxid[b]] = "committed"]
  /\ UNCHANGED <<coordinator, xid, local, pending, oldestXmin, ignore, order>>

\* A mutant: the coordinator goes on as soon as one segment has answered.
OneAnswerIsEnough(b) ==
  /\ qd[b] \in {"onephase", "notifying"}
  /\ \E s \in Participants(b) : status[s][gxid[b]] = "committed"
  /\ \A g \in waitGxids[b], c \in Backends : gxid[c] # g
  /\ qd' = [qd EXCEPT ![b] = "ending"]
  /\ UNCHANGED <<nextGxid, latestCompletedGxid, gxid, dxmin, ds, cut, committed, segment, order>>

\* notifyCommittedDtxTransaction: all segments have committed, and so have, on the
\* coordinator, the transactions this one waited for.
GxactLockTableWait(b) ==
  /\ qd[b] \in {"onephase", "notifying"}
  /\ \A s \in Participants(b) : status[s][gxid[b]] = "committed"
  /\ \A g \in waitGxids[b], c \in Backends : gxid[c] # g
  /\ qd' = [qd EXCEPT ![b] = "ending"]
  /\ UNCHANGED <<nextGxid, latestCompletedGxid, gxid, dxmin, ds, cut, committed, segment, order>>

\* What ends a transaction on the coordinator, whatever its outcome.
ProcArrayEndGxact(b) ==
  /\ latestCompletedGxid' = Max({latestCompletedGxid, gxid[b]})
  /\ gxid' = [gxid EXCEPT ![b] = NoGxid]
  /\ dxmin' = [dxmin EXCEPT ![b] = NoGxid]
  /\ qd' = [qd EXCEPT ![b] = "idle"]
  /\ ds' = [ds EXCEPT ![b] = NoDistributed]
  /\ cut' = [cut EXCEPT ![b] = {}]
  /\ local' = [local EXCEPT ![b] = [s \in Segs |-> NoSnapshot]]
  /\ waitGxids' = [waitGxids EXCEPT ![b] = {}]
  /\ UNCHANGED <<nextGxid, xid, pending, oldestXmin, ignore, after, waited>>

ProcArrayEndTransaction(b) ==
  /\ qd[b] = "ending"
  /\ ProcArrayEndGxact(b)
  /\ committed' = committed \cup ({gxid[b]} \ {NoGxid})
  /\ UNCHANGED <<status, blocked>>

\* ROLLBACK, an error or a cancellation, a failed PREPARE included.
RollbackDtxTransaction(b) ==
  /\ qd[b] \in {"active", "preparing"} /\ gxid[b] # NoGxid
  /\ qd' = [qd EXCEPT ![b] = "aborting"]
  /\ blocked' = [blocked EXCEPT ![b] = Unblocked]
  /\ pending' = [pending EXCEPT ![b] = [s \in Segs |-> NoXid]]
  /\ UNCHANGED <<nextGxid, latestCompletedGxid, gxid, dxmin, ds, cut, committed, xid, status,
                 local, oldestXmin, ignore, waitGxids, after, waited>>

PerformAbort(b, s) ==
  /\ qd[b] = "aborting" /\ s \in Participants(b)
  /\ status[s][gxid[b]] \in InProcArray
  /\ status' = [status EXCEPT ![s][gxid[b]] = "aborted"]
  /\ UNCHANGED <<coordinator, xid, local, pending, oldestXmin, ignore, order>>

AbortTransaction(b) ==
  /\ qd[b] = "aborting"
  /\ \A s \in Participants(b) : status[s][gxid[b]] = "aborted"
  /\ ProcArrayEndGxact(b)
  /\ UNCHANGED <<committed, status, blocked>>

Next ==
  \/ \E b \in Backends :
        \/ GetSnapshotData(b) \/ currentDtxActivate(b)
        \/ NotesWait(b) \/ XactLockTableWait(b)
        \/ PrepareTransaction(b) \/ RecordTransactionCommit(b) \/ GxactLockTableWait(b)
        \/ ProcArrayEndTransaction(b) \/ RollbackDtxTransaction(b) \/ AbortTransaction(b)
  \/ \E b \in Backends, s \in Segs :
        \/ QeGetSnapshotData(b, s) \/ DistributedLog_AdvanceOldestXmin(b, s)
        \/ AssignTransactionId(b, s) \/ heap_update(b, s)
        \/ PerformPrepare(b, s) \/ SetCommittedTree(b, s) \/ SegmentEndsTransaction(b, s)
        \/ PerformAbort(b, s)
  \/ \E b \in Backends, s \in Segs, g \in Gxids :
        SetDistributedSnapshotIgnore(b, s, g) \/ MeetsWriter(b, s, g)

Spec == Init /\ [][Next]_vars

-----------------------------------------------------------------------------
\* The gxids handed out are below nextGxid, and a snapshot ends at its xmax.
TypeOK ==
  /\ nextGxid \in FirstGxid .. MaxGxid + 1
  /\ latestCompletedGxid \in 0 .. MaxGxid + 1
  /\ \A b \in Backends :
       /\ qd[b] \in {"idle", "active", "onephase", "preparing", "notifying", "ending", "aborting"}
       /\ gxid[b] \in {NoGxid} \cup FirstGxid .. nextGxid - 1
       /\ ds[b].xminAll <= ds[b].xmin /\ ds[b].xmin <= ds[b].xmax
       /\ \A s \in Segs : local[b][s].xmin <= local[b][s].xmax
  /\ \A s \in Segs, g \in Gxids : status[s][g] = "none" <=> xid[s][g] = NoXid

\* A query sees the same transactions on every segment, whenever it gets there:
\* those that had committed on the coordinator when CreateDistributedSnapshot ran.
\* The local snapshot, the distributed log, its forgotten part and the IGNORE hint
\* of other queries never make XidInMVCCSnapshot answer otherwise.
ReadsTheCut ==
  \A b \in Backends, s \in Segs, g \in Gxids :
    /\ qd[b] = "active" /\ local[b][s] # NoSnapshot
    /\ xid[s][g] # NoXid /\ g # gxid[b]
    => (Sees(b, s, g) <=> g \in cut[b])

\* DistributedLog_AdvanceOldestXmin never passes a committed transaction that some
\* distributed snapshot in use does not see, on a segment it has yet to visit too.
HorizonIsSafe ==
  \A b \in Backends, s \in Segs, g \in Gxids :
    /\ qd[b] = "active" /\ g # gxid[b]
    /\ xid[s][g] # NoXid /\ xid[s][g] < oldestXmin[s]
    /\ status[s][g] \in {"logged", "committed"}
    => g \in cut[b]

\* A transaction that waited for another in XactLockTableWait on a segment completes
\* after it on the coordinator, so no snapshot sees the second without the first.
OrderIsKept == \A p \in waited : p[1] \in committed => p[2] \in committed

\* The order in which transactions update a row of a segment is their order on the
\* coordinator, whether or not the later one had to wait.
RowOrderIsKept == \A p \in after : p[1] \in committed => p[2] \in committed

\* Committing transactions do not wait for each other in a circle in
\* GxactLockTableWait, with every segment already committed.
Awaits(b) == {c \in Backends : gxid[c] # NoGxid /\ gxid[c] \in waitGxids[b]}
NoCommitCycle ==
  \A B \in SUBSET {b \in Backends : qd[b] \in {"onephase", "notifying"}} :
    B # {} => \E b \in B : Awaits(b) \cap B = {}
=============================================================================
