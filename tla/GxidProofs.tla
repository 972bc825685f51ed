----------------------------- MODULE GxidProofs -----------------------------
(***************************************************************************)
(* Proofs about module Gxid, for any number of backends, any batch size    *)
(* and any limit of the identifier space.                                  *)
(***************************************************************************)
EXTENDS Gxid, SequenceTheorems, TLAPS

\* The end of the prefetched range.  Taking a gxid does not move it.
Sum == nextGxid + GxidCount

\* Only the holder of GxidBumpLock is inside bumpGxid.
LockInv ==
  \A p \in Proc : pc[p] \in {"check", "log", "flush", "credit"} => bumpLock = p

IssuedInv == \A g \in issued : g < nextGxid

\* Every value a crash may restart from is at or above the end of the range.
DurableInv == \A k \in flushed..Len(wal) : Sum <= Recovered(k)

\* The holder's nextLimit is the end of the range it is about to add.
LimitInv ==
  \A p \in Proc : pc[p] \in {"log", "flush", "credit"} =>
    nextLimit = Sum + Prefetch /\ nextLimit < LastGxid - Prefetch

\* Once logged, and until credited, that limit is the last record of the WAL.
LoggedInv ==
  \A p \in Proc : pc[p] \in {"flush", "credit"} =>
    /\ Len(wal) > 0 /\ wal[Len(wal)] = nextLimit
    /\ pc[p] = "credit" => flushed = Len(wal)

\* A checkpoint that has read nextGxid covers the range, unless a bump has
\* logged a record after its redo pointer.
CkptInv ==
  /\ ckpt.phase # "none" => ckpt.redo <= Len(wal)
  /\ ckpt.phase = "read" /\ ckpt.redo = Len(wal) =>
       /\ Sum <= ckpt.gxid
       /\ \A p \in Proc : pc[p] \notin {"flush", "credit"}

\* A non-empty range ends below the limit of the identifier space.
RangeInv ==
  /\ GxidCount > 0 => Sum < LastGxid - Prefetch
  /\ IssuedBelowLimit

IInv == /\ TypeOK /\ LockInv /\ IssuedInv /\ DurableInv /\ LimitInv
        /\ LoggedInv /\ CkptInv /\ RangeInv

USE ProcAssumption, PrefetchAssumption, LastGxidAssumption

\* Every initial state satisfies the inductive invariant.
LEMMA InitIInv == Init => IInv
<1> SUFFICES ASSUME Init PROVE IInv
  BY Zenon
<1> USE DEF Init, FirstGxid, InvalidGxid
<1>1. TypeOK
  <2>1. wal \in Seq(Nat) /\ flushed \in 0..Len(wal)
    OBVIOUS
  <2>2. ckpt \in Ckpt
    BY Zenon DEF NoCkpt, Ckpt
  <2>3. pc \in [Proc -> BumpPC \cup BackendPC \cup RecoveryPC]
    BY Zenon DEF StartPC, BumpPC, BackendPC, RecoveryPC, Proc
  <2>4. nextGxid \in Nat \ {0} /\ GxidCount \in Nat /\ nextLimit \in Nat /\ ckptGxid \in Nat
    OBVIOUS
  <2>5. bumpEvent \in BOOLEAN /\ inLoop \in BOOLEAN
    BY Zenon
  <2>6. gxid \in [Backend -> Nat] /\ bumpLock \in Proc \cup {NoProc} /\ issued \subseteq Nat
    BY Zenon
  <2> QED BY Zenon, <2>1, <2>2, <2>3, <2>4, <2>5, <2>6 DEF TypeOK
<1>2. LockInv /\ LimitInv /\ LoggedInv
  BY Zenon DEF LockInv, LimitInv, LoggedInv, StartPC
<1>3. DurableInv /\ CkptInv
  BY DEF DurableInv, CkptInv, Sum, Recovered, NoCkpt
<1>4. IssuedInv /\ RangeInv
  BY DEF IssuedInv, RangeInv, IssuedBelowLimit
<1> QED BY Zenon, <1>1, <1>2, <1>3, <1>4 DEF IInv

\* A step that leaves the counters and the disk alone, and moves no process
\* into the section of bumpGxid after nextLimit is computed, keeps the invariant
\* if it keeps types and the meaning of the lock.
LEMMA QuietStep ==
  ASSUME IInv, TypeOK', LockInv',
         UNCHANGED <<nextGxid, GxidCount, nextLimit, wal, flushed, ckptGxid, ckpt, issued>>,
         \A p \in Proc : pc'[p] \in {"log", "flush", "credit"} => pc'[p] = pc[p]
  PROVE  IInv'
<1>1. IssuedInv' /\ RangeInv'
  BY Zenon DEF IInv, IssuedInv, RangeInv, IssuedBelowLimit, Sum
<1>2. DurableInv'
  BY Zenon DEF IInv, DurableInv, Sum, Recovered
<1>3. LimitInv'
  BY Zenon DEF IInv, LimitInv, Sum
<1>4. LoggedInv'
  BY Zenon DEF IInv, LoggedInv
<1>5. CkptInv'
  BY Zenon DEF IInv, CkptInv, Sum
<1> QED BY Zenon, <1>1, <1>2, <1>3, <1>4, <1>5 DEF IInv

\* The steps of bumpGxid that take, wait for, or give back the lock.
LEMMA BumpLockSteps ==
  ASSUME IInv, NEW p \in Proc, BumpAcquire(p) \/ BumpWait(p) \/ BumpNotNeeded(p)
  PROVE  IInv'
<1> USE DEF IInv
<1>1. CASE BumpAcquire(p)
  <2>1. TypeOK'
    BY Zenon, <1>1 DEF BumpAcquire, TypeOK, Goto, shmem, disk, BumpPC
  <2>2. LockInv'
    BY Zenon, <1>1 DEF BumpAcquire, TypeOK, Goto, LockInv, Proc
  <2> QED BY Zenon, <1>1, <2>1, <2>2, QuietStep DEF BumpAcquire, TypeOK, Goto, shmem, disk
<1>2. CASE BumpWait(p)
  <2>1. TypeOK'
    BY Zenon, <1>2 DEF BumpWait, TypeOK, Goto, shmem, disk, BumpPC
  <2>2. LockInv'
    BY Zenon, <1>2 DEF BumpWait, TypeOK, Goto, LockInv
  <2> QED BY Zenon, <1>2, <2>1, <2>2, QuietStep DEF BumpWait, TypeOK, Goto, shmem, disk
<1>3. CASE BumpNotNeeded(p)
  <2>1. TypeOK'
    <3>1. inLoop' \in BOOLEAN
      BY Zenon, <1>3 DEF BumpNotNeeded, BumpRelease, TypeOK
    <3>2. pc' \in [Proc -> BumpPC \cup BackendPC \cup RecoveryPC]
      BY Zenon, <1>3 DEF BumpNotNeeded, BumpRelease, TypeOK, Return, BackendPC, RecoveryPC
    <3> QED BY Zenon, <1>3, <3>1, <3>2 DEF BumpNotNeeded, BumpRelease, TypeOK, shmem, disk
  <2>2. LockInv'
    BY Zenon, <1>3 DEF BumpNotNeeded, BumpRelease, Return, TypeOK, LockInv
  <2> QED BY Zenon, <1>3, <2>1, <2>2, QuietStep DEF BumpNotNeeded, BumpRelease, Return, shmem, disk
<1> QED BY Zenon, <1>1, <1>2, <1>3

\* The steps that compute, log and flush the new limit.
LEMMA BumpLogSteps ==
  ASSUME IInv, NEW p \in Proc, BumpCompute(p) \/ BumpLog(p) \/ BumpFlush(p)
  PROVE  IInv'
<1> USE DEF IInv
<1>1. CASE BumpCompute(p)
  <2> USE <1>1 DEF BumpCompute, Goto, shmem, disk, TypeOK
  <2>1. TypeOK'
    BY DEF BumpPC, NewLimit
  <2>2. LockInv'
    BY Zenon DEF LockInv
  <2>3. LimitInv' /\ LoggedInv'
    BY DEF LimitInv, LoggedInv, LockInv, LimitReached, NewLimit, Sum
  <2>4. DurableInv' /\ CkptInv'
    BY Zenon DEF DurableInv, CkptInv, Sum, Recovered
  <2>5. IssuedInv' /\ RangeInv'
    BY Zenon DEF IssuedInv, RangeInv, IssuedBelowLimit, Sum
  <2> QED BY Zenon, <2>1, <2>2, <2>3, <2>4, <2>5
<1>2. CASE BumpLog(p)
  <2> USE <1>2 DEF BumpLog, Goto, shmem, TypeOK
  <2>1. TypeOK'
    BY DEF BumpPC
  <2>2. LockInv'
    BY Zenon DEF LockInv
  <2>3. LimitInv' /\ LoggedInv'
    BY DEF LimitInv, LoggedInv, LockInv, Sum
  <2>4. DurableInv'
    BY DEF DurableInv, LimitInv, Sum, Recovered
  <2>5. CkptInv'
    BY DEF CkptInv, Sum, Ckpt
  <2>6. IssuedInv' /\ RangeInv'
    BY Zenon DEF IssuedInv, RangeInv, IssuedBelowLimit, Sum
  <2> QED BY Zenon, <2>1, <2>2, <2>3, <2>4, <2>5, <2>6
<1>3. CASE BumpFlush(p)
  <2> USE <1>3 DEF BumpFlush, Goto, shmem, TypeOK
  <2>1. TypeOK'
    BY DEF BumpPC
  <2>2. LockInv'
    BY Zenon DEF LockInv
  <2>3. LimitInv' /\ LoggedInv'
    BY Zenon DEF LimitInv, LoggedInv, LockInv, Sum
  <2>4. DurableInv' /\ CkptInv'
    BY DEF DurableInv, CkptInv, Sum, Recovered
  <2>5. IssuedInv' /\ RangeInv'
    BY Zenon DEF IssuedInv, RangeInv, IssuedBelowLimit, Sum
  <2> QED BY Zenon, <2>1, <2>2, <2>3, <2>4, <2>5
<1> QED BY Zenon, <1>1, <1>2, <1>3

\* The end of bumpGxid: the logged range is added and the lock given back.
LEMMA BumpCreditStep ==
  ASSUME IInv, NEW p \in Proc, BumpCredit(p)
  PROVE  IInv'
<1> USE DEF IInv, BumpCredit, BumpRelease, disk
<1>1. TypeOK'
  <2>1. inLoop' \in BOOLEAN
    BY Zenon DEF TypeOK
  <2>2. pc' \in [Proc -> BumpPC \cup BackendPC \cup RecoveryPC]
    BY Zenon DEF TypeOK, Return, BackendPC, RecoveryPC
  <2> QED BY <2>1, <2>2 DEF TypeOK
<1>2. \A q \in Proc : pc'[q] \notin {"check", "log", "flush", "credit"}
  BY Zenon DEF LockInv, Return, TypeOK
<1>3. LockInv' /\ LimitInv' /\ LoggedInv'
  BY Zenon, <1>2 DEF LockInv, LimitInv, LoggedInv
<1>4. Sum' = nextLimit /\ flushed = Len(wal) /\ Len(wal) > 0 /\ wal[Len(wal)] = nextLimit
      /\ nextLimit < LastGxid - Prefetch
  BY DEF LimitInv, LoggedInv, Sum, TypeOK
<1>5. DurableInv'
  BY <1>4 DEF DurableInv, Recovered, TypeOK
<1>6. CkptInv'
  BY Zenon, <1>4 DEF CkptInv, Ckpt, TypeOK
<1>7. IssuedInv' /\ RangeInv'
  BY Zenon, <1>4 DEF IssuedInv, RangeInv, IssuedBelowLimit
<1> QED BY Zenon, <1>1, <1>3, <1>5, <1>6, <1>7

\* currentDtxActivate: only taking a gxid touches the counters, and it leaves
\* the end of the range where it was.
LEMMA DtxSteps ==
  ASSUME IInv, NEW b \in Backend, Dtx(b)
  PROVE  IInv'
<1> USE DEF IInv
<1>p. b \in Proc
  BY Zenon DEF Proc
<1>1. CASE TakeGxid(b)
  <2> USE <1>1, <1>p DEF TakeGxid, Take, Goto, disk
  <2>1. TypeOK'
    BY DEF TypeOK, BackendPC
  <2>2. Sum' = Sum
    BY DEF Sum, TypeOK
  <2>3. LockInv' /\ LimitInv' /\ LoggedInv'
    BY Zenon, <2>2 DEF LockInv, LimitInv, LoggedInv, TypeOK
  <2>4. DurableInv'
    BY Zenon, <2>2 DEF DurableInv, Recovered
  <2>5. CkptInv'
    BY Zenon, <2>2 DEF CkptInv, TypeOK
  <2>6. IssuedInv' /\ RangeInv'
    BY <2>2 DEF IssuedInv, RangeInv, IssuedBelowLimit, Sum, TypeOK
  <2> QED BY Zenon, <2>1, <2>3, <2>4, <2>5, <2>6
<1>2. CASE Activate(b) \/ TestCount(b) \/ TakeRetry(b) \/ EndDtx(b)
  <2> USE <1>2, <1>p DEF Activate, TestCount, TakeRetry, EndDtx, Goto, shmem, disk
  <2>1. bumpEvent' \in BOOLEAN /\ inLoop' \in BOOLEAN
    BY Zenon DEF TypeOK
  <2>2. pc' \in [Proc -> BumpPC \cup BackendPC \cup RecoveryPC]
    BY Zenon DEF TypeOK, BumpPC, BackendPC
  <2>3. gxid' \in [Backend -> Nat]
    <3>1. gxid' = gxid \/ gxid' = [gxid EXCEPT ![b] = InvalidGxid]
      BY Zenon
    <3>2. gxid \in [Backend -> Nat] /\ InvalidGxid \in Nat
      BY Zenon DEF TypeOK, InvalidGxid
    <3> HIDE <1>2
    <3> QED BY Zenon, <3>1, <3>2
  <2>4. TypeOK'
    BY Zenon, <2>1, <2>2, <2>3 DEF TypeOK
  <2>5. \A q \in Proc : pc'[q] \in {"check", "log", "flush", "credit"} => pc'[q] = pc[q]
    BY Zenon DEF TypeOK
  <2>6. LockInv'
    BY Zenon, <2>5 DEF LockInv
  <2> QED BY Zenon, <2>4, <2>5, <2>6, QuietStep
<1> QED BY Zenon, <1>1, <1>2 DEF Dtx

\* What the recovery worker does preserves the invariant.
LEMMA WorkerSteps ==
  ASSUME IInv, WorkerBump \/ WorkerReset
  PROVE  IInv'
<1> USE DEF IInv, WorkerBump, WorkerReset, Goto, shmem, disk
<1>p. DtxRecovery \in Proc
  BY Zenon DEF Proc
<1>1. TypeOK'
  <2>1. bumpEvent' \in BOOLEAN /\ inLoop' \in BOOLEAN
    BY Zenon DEF TypeOK
  <2>2. pc' \in [Proc -> BumpPC \cup BackendPC \cup RecoveryPC]
    BY Zenon, <1>p DEF TypeOK, BumpPC, RecoveryPC
  <2> QED BY Zenon, <2>1, <2>2 DEF TypeOK
<1>2. \A q \in Proc : pc'[q] \in {"check", "log", "flush", "credit"} => pc'[q] = pc[q]
  BY Zenon, <1>p DEF TypeOK
<1>3. LockInv'
  BY Zenon, <1>2 DEF LockInv
<1> QED BY Zenon, <1>1, <1>2, <1>3, QuietStep

\* Dropping the records before a redo pointer keeps the last record after it.
LEMMA DropPrefix ==
  ASSUME NEW s \in Seq(Nat), NEW r \in 0..Len(s)
  PROVE  /\ SubSeq(s, r + 1, Len(s)) \in Seq(Nat)
         /\ Len(SubSeq(s, r + 1, Len(s))) = Len(s) - r
         /\ r < Len(s) => SubSeq(s, r + 1, Len(s))[Len(SubSeq(s, r + 1, Len(s)))] = s[Len(s)]
<1>0. Len(s) \in Nat
  OBVIOUS
<1>1. CASE r = Len(s)
  <2>1. SubSeq(s, r + 1, Len(s)) = << >>
    BY <1>0, <1>1, SubSeqEmpty
  <2> QED BY <1>0, <1>1, <2>1
<1>2. CASE r < Len(s)
  <2> DEFINE t == SubSeq(s, r + 1, Len(s))
  <2>1. \A i \in (r + 1)..Len(s) : s[i] \in Nat
    BY <1>0
  <2>2. r + 1 \in Int /\ Len(s) \in Int
    BY <1>0
  <2>3. /\ t \in Seq(Nat)
        /\ Len(t) = IF r + 1 <= Len(s) THEN Len(s) - (r + 1) + 1 ELSE 0
        /\ \A i \in 1..Len(s) - (r + 1) + 1 : t[i] = s[(r + 1) + i - 1]
    BY <2>1, <2>2, SubSeqProperties
  <2> HIDE DEF t
  <2>4. Len(t) = Len(s) - r /\ t[Len(t)] = s[Len(s)]
    <3>1. Len(t) = Len(s) - r
      BY <1>0, <1>2, <2>3
    <3>2. Len(t) \in 1..Len(s) - (r + 1) + 1 /\ (r + 1) + Len(t) - 1 = Len(s)
      BY <1>0, <1>2, <3>1
    <3>3. t[Len(t)] = s[(r + 1) + Len(t) - 1]
      BY Zenon, <2>3, <3>2
    <3> QED BY Zenon, <3>1, <3>2, <3>3
  <2> QED BY Zenon, <1>2, <2>3, <2>4 DEF t
<1>3. r = Len(s) \/ r < Len(s)
  BY <1>0
<1> QED BY <1>1, <1>2, <1>3, Zenon

\* CreateCheckPoint.  CkptInstall makes ckpt.gxid the restart value only when
\* no record follows its redo pointer, and CkptInv covers that case.
LEMMA CkptSteps ==
  ASSUME IInv, CkptRedo \/ CkptReadGxid \/ CkptInstall
  PROVE  IInv'
<1> USE DEF IInv, shmem, disk
<1>1. CASE CkptRedo
  <2> USE <1>1 DEF CkptRedo
  <2>1. TypeOK' /\ CkptInv'
    BY DEF TypeOK, Ckpt, CkptInv
  <2>2. LockInv' /\ LimitInv' /\ LoggedInv'
    BY Zenon DEF LockInv, LimitInv, LoggedInv, Sum
  <2>3. IssuedInv' /\ DurableInv' /\ RangeInv'
    BY Zenon DEF IssuedInv, DurableInv, RangeInv, IssuedBelowLimit, Sum, Recovered
  <2> QED BY Zenon, <2>1, <2>2, <2>3
<1>2. CASE CkptReadGxid
  <2> USE <1>2 DEF CkptReadGxid, CkptRead
  <2>1. TypeOK'
    <3>1. nextGxid + GxidCount \in Nat
      BY DEF TypeOK
    <3>2. ckpt' \in Ckpt
      BY Zenon, <3>1 DEF TypeOK, Ckpt
    <3> QED BY Zenon, <3>2 DEF TypeOK
  <2>2. \A p \in Proc : pc[p] \notin {"flush", "credit"}
    BY Zenon DEF LockInv, Proc
  <2>3. CkptInv'
    BY <2>2 DEF TypeOK, Ckpt, CkptInv, Sum
  <2>4. LockInv' /\ LimitInv' /\ LoggedInv'
    BY Zenon DEF LockInv, LimitInv, LoggedInv, Sum
  <2>5. IssuedInv' /\ DurableInv' /\ RangeInv'
    BY Zenon DEF IssuedInv, DurableInv, RangeInv, IssuedBelowLimit, Sum, Recovered
  <2> QED BY Zenon, <2>1, <2>3, <2>4, <2>5
<1>3. CASE CkptInstall
  <2>0. /\ ckpt.phase = "read" /\ ckpt' = NoCkpt /\ ckptGxid' = ckpt.gxid
        /\ flushed' = Len(wal) - ckpt.redo
        /\ UNCHANGED <<nextGxid, GxidCount, bumpLock, bumpEvent, pc, nextLimit, gxid, inLoop, issued>>
    BY Zenon, <1>3 DEF CkptInstall
  <2>1. ckpt.redo \in 0..Len(wal) /\ ckpt.gxid \in Nat /\ Len(wal) \in Nat
    BY <2>0 DEF TypeOK, Ckpt, CkptInv
  <2>2. /\ wal' \in Seq(Nat)
        /\ Len(wal') = Len(wal) - ckpt.redo
        /\ ckpt.redo < Len(wal) => wal'[Len(wal')] = wal[Len(wal)]
    BY Zenon, <1>3, <2>1, DropPrefix DEF CkptInstall, TypeOK
  <2>5. TypeOK'
    BY <2>0, <2>1, <2>2 DEF TypeOK, NoCkpt, Ckpt
  <2>6. LockInv' /\ LimitInv'
    BY Zenon, <2>0 DEF LockInv, LimitInv, Sum
  <2>7. LoggedInv'
    BY <2>0, <2>1, <2>2 DEF LoggedInv, CkptInv
  <2>8. DurableInv'
    <3>1. CASE ckpt.redo = Len(wal)
      BY <2>0, <2>1, <2>2, <3>1 DEF CkptInv, DurableInv, Recovered, Sum
    <3>2. CASE ckpt.redo < Len(wal)
      <4>1. Sum <= wal[Len(wal)]
        BY <2>1, <3>2 DEF DurableInv, Recovered, TypeOK
      <4> QED BY <2>0, <2>1, <2>2, <3>2, <4>1 DEF DurableInv, Recovered, Sum
    <3> QED BY <2>1, <3>1, <3>2
  <2>9. CkptInv' /\ IssuedInv' /\ RangeInv'
    BY Zenon, <2>0 DEF CkptInv, NoCkpt, IssuedInv, RangeInv, IssuedBelowLimit, Sum
  <2> QED BY Zenon, <2>5, <2>6, <2>7, <2>8, <2>9
<1> QED BY Zenon, <1>1, <1>2, <1>3

\* After any restart no process is inside bumpGxid, the range is empty, and
\* the counter is where the surviving WAL, or the shutdown checkpoint, puts it.
LEMMA RestartSteps ==
  ASSUME IInv, Restart \/ CleanRestart
  PROVE  IInv'
<1> USE DEF IInv
<1>0. ResetShmem
  BY Zenon DEF Restart, CleanRestart
<1>1. \A p \in Proc : pc'[p] \in {"bump", "idle"}
  BY Zenon, <1>0 DEF ResetShmem, StartPC
<1>2. LockInv' /\ LimitInv' /\ LoggedInv' /\ CkptInv'
  BY Zenon, <1>0, <1>1 DEF ResetShmem, LockInv, LimitInv, LoggedInv, CkptInv, NoCkpt
<1>3. GxidCount' = 0 /\ issued' = issued
  BY Zenon, <1>0 DEF ResetShmem
<1>4. pc' \in [Proc -> BumpPC \cup BackendPC \cup RecoveryPC]
  BY Zenon, <1>0 DEF ResetShmem, StartPC, BumpPC, BackendPC
<1>5. bumpEvent' \in BOOLEAN /\ inLoop' \in BOOLEAN
  BY Zenon, <1>0 DEF ResetShmem
<1>6. ckpt' \in Ckpt /\ gxid' \in [Backend -> Nat] /\ nextLimit' \in Nat
      /\ bumpLock' \in Proc \cup {NoProc}
  BY Zenon, <1>0 DEF ResetShmem, NoCkpt, Ckpt, InvalidGxid
<1>7. /\ nextGxid' \in Nat /\ nextGxid' >= nextGxid
      /\ wal' \in Seq(Nat) /\ flushed' \in 0..Len(wal') /\ ckptGxid' \in Nat
      /\ \A k \in flushed'..Len(wal') : Recovered(k)' = nextGxid'
  <2>1. CASE CleanRestart
    BY <2>1 DEF CleanRestart, TypeOK, Recovered
  <2>2. CASE Restart
    <3>1. PICK k \in flushed..Len(wal) :
            /\ nextGxid' = Recovered(k)
            /\ \/ wal' = << >> /\ flushed' = 0 /\ ckptGxid' = Recovered(k)
               \/ wal' = SubSeq(wal, 1, k) /\ flushed' = k /\ UNCHANGED ckptGxid
      BY Zenon, <2>2 DEF Restart
    <3>2. k \in Nat /\ k <= Len(wal) /\ Len(wal) \in Nat
      BY <3>1 DEF TypeOK
    <3>3. nextGxid' \in Nat /\ nextGxid' >= nextGxid
      BY <3>1, <3>2 DEF DurableInv, Recovered, TypeOK, Sum
    <3>4. CASE wal' = << >> /\ flushed' = 0 /\ ckptGxid' = Recovered(k)
      BY <3>1, <3>3, <3>4 DEF Recovered
    <3>5. CASE wal' = SubSeq(wal, 1, k) /\ flushed' = k /\ UNCHANGED ckptGxid
      <4>1. CASE k = 0
        <5>1. wal' = << >>
          BY <3>5, <4>1, SubSeqEmpty DEF TypeOK
        <5> QED BY <3>1, <3>3, <3>5, <4>1, <5>1 DEF Recovered, TypeOK
      <4>2. CASE k > 0
        <5>1. wal' \in Seq(Nat) /\ Len(wal') = k /\ wal'[k] = wal[k]
          BY <3>2, <3>5, <4>2, SubSeqProperties DEF TypeOK
        <5> QED BY <3>1, <3>2, <3>3, <3>5, <4>2, <5>1 DEF Recovered, TypeOK
      <4> QED BY <3>2, <4>1, <4>2
    <3> QED BY Zenon, <3>1, <3>4, <3>5
  <2> QED BY Zenon, <2>1, <2>2
<1>8. TypeOK'
  BY <1>3, <1>4, <1>5, <1>6, <1>7 DEF TypeOK
<1>9. DurableInv'
  BY <1>3, <1>7 DEF DurableInv, Sum
<1>10. IssuedInv' /\ RangeInv'
  BY <1>3, <1>7 DEF IssuedInv, RangeInv, IssuedBelowLimit, Sum, TypeOK
<1> QED BY Zenon, <1>2, <1>8, <1>9, <1>10

\* The invariant is inductive.
LEMMA NextIInv == IInv /\ [Next]_vars => IInv'
<1> SUFFICES ASSUME IInv, [Next]_vars PROVE IInv'
  BY Zenon
<1>1. CASE UNCHANGED vars
  <2>1. TypeOK' /\ LockInv'
    BY Zenon, <1>1 DEF IInv, TypeOK, LockInv, vars
  <2> QED BY Zenon, <1>1, <2>1, QuietStep DEF vars
<1>2. ASSUME NEW p \in Proc, Bump(p) PROVE IInv'
  BY Zenon, <1>2, BumpLockSteps, BumpLogSteps, BumpCreditStep, RestartSteps DEF Bump, BumpPanic
<1>3. ASSUME NEW b \in Backend, Dtx(b) PROVE IInv'
  BY Zenon, <1>3, DtxSteps
<1> QED BY Zenon, <1>1, <1>2, <1>3, WorkerSteps, CkptSteps, RestartSteps DEF Next, Crash

\* Type correctness of the gxid allocator, in every reachable state.
THEOREM TypeCorrect == Spec => []TypeOK
  BY InitIInv, NextIInv, PTL DEF Spec, IInv

\* currentDtxActivate and bumpGxid never leave an issued gxid at or above a
\* value the coordinator may restart from, for any batch size, number of
\* backends and interleaving with checkpoints and crashes.
THEOREM RestartIsAboveIssued == Spec => []RestartAboveIssued
<1>1. IInv => RestartAboveIssued
  BY DEF IInv, RestartAboveIssued, IssuedInv, DurableInv, Sum, Recovered, TypeOK
<1> QED BY InitIInv, NextIInv, <1>1, PTL DEF Spec

\* bumpGxid's PANIC comes in time: the last batch of the identifier space is
\* never issued.
THEOREM IssuedIsBelowLimit == Spec => []IssuedBelowLimit
  BY InitIInv, NextIInv, PTL DEF Spec, IInv, RangeInv

\* A gxid is issued at most once in the life of the cluster, and in start order.
THEOREM GxidsIncreaseHolds == Spec => GxidsIncrease
<1> DEFINE Step == \A b \in Backend :
                     gxid'[b] # gxid[b] /\ gxid'[b] # InvalidGxid =>
                       \A g \in issued : g < gxid'[b]
<1>1. IInv /\ [Next]_vars => [Step]_vars
  <2> SUFFICES ASSUME IInv, Next, NEW b \in Backend,
                      gxid'[b] # gxid[b], gxid'[b] # InvalidGxid, NEW g \in issued
               PROVE  g < gxid'[b]
    BY Zenon
  <2>1. CASE \E p \in Proc : Bump(p)
    BY Zenon, <2>1 DEF Bump, BumpAcquire, BumpWait, BumpNotNeeded, BumpCompute, BumpLog, BumpFlush,
       BumpCredit, BumpPanic, Restart, ResetShmem
  <2>2. ASSUME NEW c \in Backend, Dtx(c) PROVE g < gxid'[b]
    BY Zenon, <2>2 DEF Dtx, Activate, TestCount, TakeGxid, Take, TakeRetry, EndDtx, IInv, TypeOK, IssuedInv
  <2>3. CASE WorkerBump \/ WorkerReset \/ CkptRedo \/ CkptReadGxid \/ CkptInstall
    BY Zenon, <2>3 DEF WorkerBump, WorkerReset, CkptRedo, CkptReadGxid, CkptRead, CkptInstall
  <2>4. CASE Crash \/ CleanRestart
    BY Zenon, <2>4 DEF Crash, CleanRestart, Restart, ResetShmem
  <2> QED BY Zenon, <2>1, <2>2, <2>3, <2>4 DEF Next
<1> QED BY <1>1, InitIInv, NextIInv, PTL DEF Spec, GxidsIncrease
=============================================================================
