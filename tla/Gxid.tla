-------------------------------- MODULE Gxid --------------------------------
(***************************************************************************)
(* Allocation of distributed transaction identifiers (gxids) on the        *)
(* coordinator: currentDtxActivate and bumpGxid (cdbtm.c), the             *)
(* XLOG_NEXTGXID record and its replay, and the nextGxid field of the      *)
(* checkpoint record (xlog.c).                                             *)
(*                                                                         *)
(* Backends take gxids from a prefetched range [nextGxid,                  *)
(* nextGxid + GxidCount); the upper end of every range is made durable     *)
(* before the range is handed out, so that a restart begins above every    *)
(* gxid ever issued.                                                       *)
(***************************************************************************)
EXTENDS Integers, Sequences

CONSTANTS Backend,       \* dispatcher backends that may start a distributed transaction
          DtxRecovery,   \* the dtx recovery background worker, which prefetches too
          NoProc,        \* "no process holds GxidBumpLock"
          Prefetch,      \* gp_gxid_prefetch_num
          LastGxid       \* LastDistributedTransactionId

ASSUME ProcAssumption == DtxRecovery \notin Backend /\ NoProc \notin Backend \cup {DtxRecovery}
ASSUME PrefetchAssumption == Prefetch \in Nat \ {0}
ASSUME LastGxidAssumption == LastGxid \in Nat

Proc == Backend \cup {DtxRecovery}
InvalidGxid == 0
FirstGxid == 1

VARIABLES
  nextGxid,   \* ShmemVariableCache->nextGxid
  GxidCount,  \* ShmemVariableCache->GxidCount
  bumpLock,   \* the holder of GxidBumpLock
  bumpEvent,  \* DTX_RECOVERY_EVENT_BUMP_GXID is set
  pc,         \* where each process is in currentDtxActivate / bumpGxid
  nextLimit,  \* the local variable of bumpGxid, of the holder of bumpLock
  gxid,       \* MyTmGxact->gxid of each backend
  wal,        \* XLOG_NEXTGXID records after the redo point of the last checkpoint
  flushed,    \* how many of them are on disk (and on the standby)
  ckptGxid,   \* nextGxid of the last completed checkpoint
  ckpt,       \* the checkpoint the checkpointer is building
  inLoop,     \* the worker has finished its start-up bump and serves events
  issued      \* every gxid ever issued (history)

vars == <<nextGxid, GxidCount, bumpLock, bumpEvent, pc, nextLimit, gxid,
          wal, flushed, ckptGxid, ckpt, inLoop, issued>>
shmem == <<nextGxid, GxidCount>>
disk == <<wal, flushed, ckptGxid>>

BumpPC == {"bump", "waitlock", "check", "log", "flush", "credit"}
BackendPC == {"idle", "loop", "take", "active"}
RecoveryPC == {"wait", "reset"}

NoCkpt == [phase |-> "none", redo |-> 0, gxid |-> 0]
Ckpt == [phase : {"none", "redo", "read"}, redo : Nat, gxid : Nat]

TypeOK ==
  /\ nextGxid \in Nat \ {0}
  /\ GxidCount \in Nat
  /\ bumpLock \in Proc \cup {NoProc}
  /\ bumpEvent \in BOOLEAN
  /\ pc \in [Proc -> BumpPC \cup BackendPC \cup RecoveryPC]
  /\ nextLimit \in Nat
  /\ gxid \in [Backend -> Nat]
  /\ wal \in Seq(Nat)
  /\ flushed \in 0..Len(wal)
  /\ ckptGxid \in Nat
  /\ ckpt \in Ckpt
  /\ inLoop \in BOOLEAN
  /\ issued \subseteq Nat

(***************************************************************************)
(* The dtx recovery worker fetches a batch as soon as it starts.           *)
(***************************************************************************)
StartPC == [p \in Proc |-> IF p = DtxRecovery THEN "bump" ELSE "idle"]

Init ==
  /\ nextGxid = FirstGxid /\ GxidCount = 0
  /\ bumpLock = NoProc /\ bumpEvent = FALSE
  /\ pc = StartPC
  /\ nextLimit = 0
  /\ gxid = [b \in Backend |-> InvalidGxid]
  /\ wal = << >> /\ flushed = 0 /\ ckptGxid = FirstGxid
  /\ ckpt = NoCkpt
  /\ inLoop = FALSE
  /\ issued = {}

Goto(p, label) == pc' = [pc EXCEPT ![p] = label]
Threshold == Prefetch \div 2

-----------------------------------------------------------------------------
(***************************************************************************)
(* bumpGxid                                                                *)
(***************************************************************************)

\* Where bumpGxid returns to: the allocation loop of a backend, the worker's
\* event reset, or, after the worker's start-up bump, its main loop.
Return(p) ==
  IF p # DtxRecovery THEN "take" ELSE IF inLoop THEN "reset" ELSE "wait"

\* LWLockAcquireOrWait got the lock.
BumpAcquire(p) ==
  /\ pc[p] = "bump" /\ bumpLock = NoProc
  /\ bumpLock' = p
  /\ Goto(p, "check")
  /\ UNCHANGED <<shmem, bumpEvent, nextLimit, gxid, disk, ckpt, inLoop, issued>>

\* LWLockAcquireOrWait found the lock taken: it sleeps until the release and
\* bumpGxid then returns without having held the lock.
BumpWait(p) ==
  /\ pc[p] = "bump" /\ bumpLock # NoProc
  /\ Goto(p, "waitlock")
  /\ UNCHANGED <<shmem, bumpLock, bumpEvent, nextLimit, gxid, disk, ckpt, inLoop, issued>>

\* LWLockRelease(GxidBumpLock) at the end of bumpGxid wakes every waiter.
BumpRelease(p) ==
  /\ bumpLock' = NoProc
  /\ pc' = [q \in Proc |-> IF q = p \/ pc[q] = "waitlock" THEN Return(q) ELSE pc[q]]
  /\ inLoop' = (inLoop \/ p = DtxRecovery \/ pc[DtxRecovery] = "waitlock")

BumpNotNeeded(p) ==
  /\ pc[p] = "check"
  /\ GxidCount > Threshold
  /\ BumpRelease(p)
  /\ UNCHANGED <<shmem, bumpEvent, nextLimit, gxid, disk, ckpt, issued>>

\* The new upper end of the range, computed under shmGxidGenLock.
NewLimit == nextGxid + GxidCount + Prefetch
\* Mutant: the end of the current range is tested instead of the new one.
LimitReachedLate == nextGxid + GxidCount >= LastGxid - Prefetch
LimitReached == NewLimit >= LastGxid - Prefetch

BumpCompute(p) ==
  /\ pc[p] = "check"
  /\ GxidCount <= Threshold
  /\ ~LimitReached
  /\ nextLimit' = NewLimit
  /\ Goto(p, "log")
  /\ UNCHANGED <<shmem, bumpLock, bumpEvent, gxid, disk, ckpt, inLoop, issued>>

\* XLogPutNextGxid: XLogInsert ...
BumpLog(p) ==
  /\ pc[p] = "log"
  /\ wal' = Append(wal, nextLimit)
  /\ Goto(p, "flush")
  /\ UNCHANGED <<shmem, bumpLock, bumpEvent, nextLimit, gxid, flushed, ckptGxid, ckpt, inLoop, issued>>

\* ... then XLogFlush and SyncRepWaitForLSN.
BumpFlush(p) ==
  /\ pc[p] = "flush"
  /\ flushed' = Len(wal)
  /\ Goto(p, "credit")
  /\ UNCHANGED <<shmem, bumpLock, bumpEvent, nextLimit, gxid, wal, ckptGxid, ckpt, inLoop, issued>>

BumpCredit(p) ==
  /\ pc[p] = "credit"
  /\ GxidCount' = GxidCount + Prefetch
  /\ BumpRelease(p)
  /\ UNCHANGED <<nextGxid, bumpEvent, nextLimit, gxid, disk, ckpt, issued>>

-----------------------------------------------------------------------------
(***************************************************************************)
(* currentDtxActivate, and the end of the transaction                      *)
(***************************************************************************)

\* Wakes the dtx recovery worker when the prefetched range runs low.
Activate(b) ==
  /\ pc[b] = "idle"
  /\ bumpEvent' = (bumpEvent \/ GxidCount <= Threshold)
  /\ Goto(b, "loop")
  /\ UNCHANGED <<shmem, bumpLock, nextLimit, gxid, disk, ckpt, inLoop, issued>>

\* The unlocked test of GxidCount at the head of the loop.
TestCount(b) ==
  /\ pc[b] = "loop"
  /\ Goto(b, IF GxidCount = 0 THEN "bump" ELSE "take")
  /\ UNCHANGED <<shmem, bumpLock, bumpEvent, nextLimit, gxid, disk, ckpt, inLoop, issued>>

Take(b) ==
  /\ gxid' = [gxid EXCEPT ![b] = nextGxid]
  /\ nextGxid' = nextGxid + 1
  /\ GxidCount' = GxidCount - 1
  /\ issued' = issued \cup {nextGxid}
  /\ Goto(b, "active")
  /\ UNCHANGED <<bumpLock, bumpEvent, nextLimit, disk, ckpt, inLoop>>

\* Mutant: the count is not tested again under shmGxidGenLock.
TakeUntested(b) == pc[b] = "take" /\ Take(b)
TakeGxid(b) == pc[b] = "take" /\ GxidCount > 0 /\ Take(b)

\* Other backends consumed the whole batch: go round the loop again.
TakeRetry(b) ==
  /\ pc[b] = "take" /\ GxidCount = 0
  /\ Goto(b, "loop")
  /\ UNCHANGED <<shmem, bumpLock, bumpEvent, nextLimit, gxid, disk, ckpt, inLoop, issued>>

EndDtx(b) ==
  /\ pc[b] = "active"
  /\ gxid' = [gxid EXCEPT ![b] = InvalidGxid]
  /\ Goto(b, "idle")
  /\ UNCHANGED <<shmem, bumpLock, bumpEvent, nextLimit, disk, ckpt, inLoop, issued>>

-----------------------------------------------------------------------------
(***************************************************************************)
(* The main loop of the dtx recovery worker, as far as gxids are concerned *)
(***************************************************************************)
WorkerBump ==
  /\ pc[DtxRecovery] = "wait" /\ bumpEvent
  /\ Goto(DtxRecovery, "bump")
  /\ UNCHANGED <<shmem, bumpLock, bumpEvent, nextLimit, gxid, disk, ckpt, inLoop, issued>>

WorkerReset ==
  /\ pc[DtxRecovery] = "reset"
  /\ bumpEvent' = FALSE
  /\ Goto(DtxRecovery, "wait")
  /\ UNCHANGED <<shmem, bumpLock, nextLimit, gxid, disk, ckpt, inLoop, issued>>

-----------------------------------------------------------------------------
(***************************************************************************)
(* CreateCheckPoint: the redo pointer is fixed first, nextGxid is read     *)
(* later under GxidBumpLock, and the record is written last.               *)
(***************************************************************************)
CkptRedo ==
  /\ ckpt.phase = "none"
  /\ ckpt' = [phase |-> "redo", redo |-> Len(wal), gxid |-> 0]
  /\ UNCHANGED <<shmem, bumpLock, bumpEvent, pc, nextLimit, gxid, disk, inLoop, issued>>

CkptRead ==
  /\ ckpt' = [ckpt EXCEPT !.phase = "read", !.gxid = nextGxid + GxidCount]
  /\ UNCHANGED <<shmem, bumpLock, bumpEvent, pc, nextLimit, gxid, disk, inLoop, issued>>

\* Mutant: the checkpointer does not take GxidBumpLock.
CkptReadUnlocked == ckpt.phase = "redo" /\ CkptRead
\* Mutant: an online checkpoint stores nextGxid without the prefetched range.
CkptReadExact ==
  /\ ckpt.phase = "redo" /\ bumpLock = NoProc
  /\ ckpt' = [ckpt EXCEPT !.phase = "read", !.gxid = nextGxid]
  /\ UNCHANGED <<shmem, bumpLock, bumpEvent, pc, nextLimit, gxid, disk, inLoop, issued>>
CkptReadGxid == ckpt.phase = "redo" /\ bumpLock = NoProc /\ CkptRead

\* The flushed record makes everything before it durable; replay now starts at
\* its redo pointer, so that the older records no longer matter.
CkptInstall ==
  /\ ckpt.phase = "read"
  /\ wal' = SubSeq(wal, ckpt.redo + 1, Len(wal))
  /\ flushed' = Len(wal) - ckpt.redo
  /\ ckptGxid' = ckpt.gxid
  /\ ckpt' = NoCkpt
  /\ UNCHANGED <<shmem, bumpLock, bumpEvent, pc, nextLimit, gxid, inLoop, issued>>

-----------------------------------------------------------------------------
(***************************************************************************)
(* Crash, restart, promotion of the standby, clean shutdown                *)
(***************************************************************************)

\* nextGxid after the replay of the first k records: the checkpoint's value,
\* replaced by each XLOG_NEXTGXID record replayed.
Recovered(k) == IF k = 0 THEN ckptGxid ELSE wal[k]

ResetShmem ==
  /\ GxidCount' = 0
  /\ bumpLock' = NoProc /\ bumpEvent' = FALSE
  /\ pc' = StartPC /\ inLoop' = FALSE
  /\ nextLimit' = 0
  /\ gxid' = [b \in Backend |-> InvalidGxid]
  /\ ckpt' = NoCkpt
  /\ UNCHANGED issued

\* Records past the flushed ones may or may not have reached the disk.  Crash
\* recovery ends with a checkpoint; a promoted standby goes on without one.
Restart ==
  \E k \in flushed..Len(wal) :
    /\ nextGxid' = Recovered(k)
    /\ ResetShmem
    /\ \/ wal' = << >> /\ flushed' = 0 /\ ckptGxid' = Recovered(k)
       \/ wal' = SubSeq(wal, 1, k) /\ flushed' = k /\ UNCHANGED ckptGxid

Crash == Restart

BumpPanic(p) ==
  /\ pc[p] = "check"
  /\ GxidCount <= Threshold
  /\ LimitReached
  /\ Restart

\* The shutdown checkpoint stores nextGxid exactly and gives the unused part
\* of the prefetched range back.
CleanRestart ==
  /\ \A b \in Backend : pc[b] = "idle"
  /\ pc[DtxRecovery] = "wait" /\ bumpLock = NoProc /\ ckpt.phase = "none"
  /\ wal' = << >> /\ flushed' = 0 /\ ckptGxid' = nextGxid
  /\ UNCHANGED nextGxid
  /\ ResetShmem

-----------------------------------------------------------------------------
Bump(p) == \/ BumpAcquire(p) \/ BumpWait(p) \/ BumpNotNeeded(p) \/ BumpCompute(p)
           \/ BumpLog(p) \/ BumpFlush(p) \/ BumpCredit(p) \/ BumpPanic(p)
Dtx(b) == Activate(b) \/ TestCount(b) \/ TakeGxid(b) \/ TakeRetry(b) \/ EndDtx(b)

Next == \/ \E p \in Proc : Bump(p)
        \/ \E b \in Backend : Dtx(b)
        \/ WorkerBump \/ WorkerReset
        \/ CkptRedo \/ CkptReadGxid \/ CkptInstall
        \/ Crash \/ CleanRestart

Spec == Init /\ [][Next]_vars

-----------------------------------------------------------------------------
(***************************************************************************)
(* Properties                                                              *)
(***************************************************************************)

\* Whatever part of the unflushed WAL survives, a crash now would restart
\* above every gxid issued so far, by any incarnation of the coordinator
\* (XLogPutNextGxid before GxidCount is raised; GxidBumpLock in CreateCheckPoint).
RestartAboveIssued ==
  \A k \in flushed..Len(wal) : \A g \in issued : g < Recovered(k)

\* currentDtxActivate hands out a gxid above every gxid issued before it, so no
\* gxid is used twice, and gxid order is start order, across restarts.
GxidsIncrease ==
  [][\A b \in Backend :
       gxid'[b] # gxid[b] /\ gxid'[b] # InvalidGxid =>
         \A g \in issued : g < gxid'[b]]_vars

\* bumpGxid panics before any gxid of the last Prefetch ones can be issued.
IssuedBelowLimit == \A g \in issued : g < LastGxid - Prefetch

\* bumpGxid's comment: "nextLimit should be always multiple of
\* gp_gxid_prefetch_num".
NextLimitIsMultiple ==
  \A p \in Proc : pc[p] \in {"log", "flush", "credit"} => nextLimit % Prefetch = 0
=============================================================================
