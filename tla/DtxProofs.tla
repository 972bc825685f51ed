----------------------------- MODULE DtxProofs ------------------------------
(***************************************************************************)
(* Proofs about Dtx, for any set of transactions, any set of segments and  *)
(* any number of failures and crashes: IInv of DtxInvariant is inductive,  *)
(* step by step for the coordinator, the segments and the recovery worker; *)
(* then the safety properties, that no command meets a context it does not *)
(* fit, and that Dtx implements AtomicCommit.                              *)
(***************************************************************************)
EXTENDS DtxInvariant, TLAPS

-----------------------------------------------------------------------------
(***************************************************************************)
(* Type correctness.                                                       *)
(***************************************************************************)
\* The initial state has the right types.
LEMMA TypeInit == Init => TypeOK
<1> USE DEF Init, TypeOK
<1>1. ASSUME Init PROVE 0 \in 0..MaxFaults /\ 0 \in 0..MaxCrashes
  BY BoundsAssumption
<1>2. QED
  BY <1>1 DEF DtxState, LiveState, Command, QeContext, Xact, WorkerPC, WorkerStartup

USE DEF qdVars, walVars, gangVars, segVars, rpcVars, workerVars, faultVars, workerIdle

\* A transaction that starts (currentDtxActivate) preserves types.
LEMMA TypeBegin == TypeOK /\ (\E g \in Gxid : Begin(g)) => TypeOK'
BY DEF TypeOK, Begin, SetQd, DtxState, LiveState

GangType == link' \in [Gxid -> [Seg -> BOOLEAN]]
CmdType == cmd' \in [Gxid -> [Seg -> Command \cup {"none"}]]
ReplyType == reply' \in [Gxid -> [Seg -> {"none", "ok", "error"}]]
RpcType ==
  /\ rpc' \in [Gxid -> [Seg -> {"none", "sent", "syncing", "ok", "error"}]]
  /\ rpcCmd' \in [Gxid -> {"commit", "abort"}]
  /\ stale' \in SUBSET ({"commit", "abort"} \X Gxid \X Seg)

\* The operators the actions of the dispatcher are built from preserve types.
LEMMA TypeDispatch ==
  ASSUME TypeOK, NEW g \in Gxid
  PROVE  /\ \A c \in Command : Dispatch(g, c) => CmdType /\ ReplyType
         /\ Disconnect(g) => GangType /\ ReplyType
         /\ \A c \in {"commit", "abort"}, S \in SUBSET Seg : Rpc(g, c, S) => RpcType
         /\ RpcEnd(g) => RpcType
         /\ \A s \in DtxState : SetQd(g, s) => qd' \in [Gxid -> DtxState]
<1> USE DEF TypeOK
<1>1. ASSUME NEW c \in Command, Dispatch(g, c) PROVE CmdType /\ ReplyType
  BY <1>1 DEF Dispatch, CmdType, ReplyType
<1>2. ASSUME Disconnect(g) PROVE GangType /\ ReplyType
  BY <1>2, Zenon DEF Disconnect, GangType, ReplyType
<1>3. ASSUME NEW c \in {"commit", "abort"}, NEW S \in SUBSET Seg, Rpc(g, c, S) PROVE RpcType
  BY <1>3, Zenon DEF Rpc, RpcType
<1>4. ASSUME RpcEnd(g) PROVE RpcType
  BY <1>4 DEF RpcEnd, Abandoned, RpcType
<1>5. ASSUME NEW s \in DtxState, SetQd(g, s) PROVE qd' \in [Gxid -> DtxState]
  BY <1>5, Zenon DEF SetQd
<1>6. QED
  BY <1>1, <1>2, <1>3, <1>4, <1>5, Zenon

\* Every step of the coordinator backend preserves types.
LEMMA TypeBackend ==
  ASSUME TypeOK, NEW g \in Gxid, Backend(g) \/ BackendExit(g)
  PROVE  TypeOK'
<1> USE TypeDispatch DEF TypeOK, GangType, CmdType, ReplyType, RpcType
<1>0. /\ DtxState \subseteq {"UNBORN", "NONE"} \cup LiveState
      /\ LiveState \cup {"NONE"} \subseteq DtxState
      /\ AbortState \cup CommitState \cup {"NOTIFYING_ONE_PHASE_COMMIT", "PREPARING", "PREPARED"} \subseteq LiveState
  BY Zenon DEF DtxState, LiveState
<1>1. CASE CommitOnePhase(g)
  BY <1>1, <1>0, Zenon DEF CommitOnePhase, Command
<1>2. CASE Prepare(g)
  BY <1>2, <1>0, Zenon DEF Prepare, Command
<1>3. CASE Prepared(g)
  BY <1>3, <1>0, Zenon DEF Prepared
<1>4. CASE InsertCommitted(g)
  BY <1>4, <1>0, Zenon DEF InsertCommitted, CommitState
<1>5. CASE FlushCommitted(g)
  BY <1>5, Zenon DEF FlushCommitted
<1>6. CASE NotifyCommitPrepared(g)
  BY <1>6, <1>0, Zenon DEF NotifyCommitPrepared, CommitState, Command
<1>7. CASE InsertForgetCommitted(g)
  BY <1>7, <1>0, Zenon DEF InsertForgetCommitted, CommitState
<1>8. CASE RetryCommit(g)
  BY <1>8, <1>0, Zenon DEF RetryCommit, CommitState
<1>9. CASE EndCommitted(g)
  BY <1>9, <1>0, Zenon DEF EndCommitted
<1>10. CASE RollbackNoPrepared(g)
  BY <1>10, <1>0, Zenon DEF RollbackNoPrepared, AbortState, Command
<1>11. CASE RollbackPreparing(g)
  BY <1>11, <1>0, ZenonT(60) DEF RollbackPreparing, AbortCommand, AbortState, Command
<1>12. CASE RollbackPrepared(g)
  BY <1>12, <1>0, Zenon DEF RollbackPrepared, AbortCommand, AbortState, Command
<1>13. CASE RetryAbort(g)
  BY <1>13, <1>0, Zenon DEF RetryAbort, AbortState
<1>14. CASE EndAborted(g)
  BY <1>14, <1>0, Zenon DEF EndAborted
<1>15. CASE BackendExit(g)
  BY <1>15, <1>0, Zenon DEF BackendExit
<1>16. QED
  BY ZenonT(60), <1>1, <1>2, <1>3, <1>4, <1>5, <1>6, <1>7, <1>8, <1>9, <1>10, <1>11, <1>12, <1>13, <1>14,
     <1>15 DEF Backend

\* Every step of a process of a segment preserves types.
LEMMA TypeSegment ==
  ASSUME TypeOK, NEW g \in Gxid, NEW s \in Seg,
         Execute(g, s) \/ Writer(g, s) \/ Fresh(g, s) \/ Replicate(g, s)
  PROVE  TypeOK'
<1> USE DEF TypeOK
<1>1. CASE Execute(g, s)
  BY <1>1 DEF Execute, QeContext, Xact
<1>2. CASE QeCommand(g, s)
  <2>1. ASSUME NEW c \in QeContext, NEW x \in Xact, QeStep(g, s, c, x)
        PROVE  CmdType /\ qe' \in [Gxid -> [Seg -> QeContext]] /\ prim' \in [Gxid -> [Seg -> Xact]]
    BY <2>1, Zenon DEF QeStep, CmdType
  <2>2. ASSUME NEW r \in {"ok", "error"}, Answer(g, s, r) PROVE ReplyType
    BY <2>2, ZenonT(60) DEF Answer, ReplyType
  <2>3. ReplyType /\ CmdType /\ qe' \in [Gxid -> [Seg -> QeContext]] /\ prim' \in [Gxid -> [Seg -> Xact]]
    <3>1. CASE QePrepare(g, s)
      BY <3>1, <2>1, <2>2, Zenon DEF QePrepare, QeContext, Xact, ReplyType
    <3>2. CASE QeCommitOnePhase(g, s)
      BY <3>2, <2>1, <2>2, Zenon DEF QeCommitOnePhase, QeContext, Xact, ReplyType
    <3>3. CASE QeAbort(g, s)
      <4>1. (IF qe[g][s] = "writer" THEN "aborted" ELSE prim[g][s]) \in Xact
        BY DEF Xact
      <4>2. QED
        BY <3>3, <4>1, <2>1, <2>2, Zenon DEF QeAbort, QeContext
    <3>4. CASE QeFinishPrepared(g, s)
      <4>1. FinishOutcome(cmd[g][s]) \in Xact /\ prim[g][s] \in Xact
        BY DEF FinishOutcome, Xact
      <4>2. QED
        BY <3>4, <4>1, <2>1, <2>2, Zenon DEF QeFinishPrepared, QeContext, ReplyType
    <3>5. QED
      BY <1>2, <3>1, <3>2, <3>3, <3>4, Zenon DEF QeCommand
  <2>4. QED
    BY <1>2, <2>3, Zenon DEF QeCommand, CmdType, ReplyType
<1>3. CASE QeSynced(g, s)
  BY <1>3 DEF QeSynced, Answer, QeContext
<1>4. CASE QeExit(g, s)
  BY <1>4 DEF QeExit, QeStep, AfterExit, Xact, QeContext
<1>5. CASE FreshCommand(g, s)
  <2>0. /\ FreshAnswer(g, s, rpcCmd[g]) \in {"syncing", "ok"}
        /\ (IF prim[g][s] = "prepared" THEN Outcome(rpcCmd[g]) ELSE prim[g][s]) \in Xact
    BY DEF FreshAnswer, Outcome, Xact
  <2>1. rpc' \in [Gxid -> [Seg -> {"none", "sent", "syncing", "ok", "error"}]]
    <3>1. ASSUME NEW a \in {"syncing", "ok", "error"}, rpc' = [rpc EXCEPT ![g][s] = a]
          PROVE  rpc' \in [Gxid -> [Seg -> {"none", "sent", "syncing", "ok", "error"}]]
      BY <3>1, Zenon
    <3>2. QED
      BY <1>5, <2>0, <3>1, Zenon DEF FreshCommand
  <2>2. prim' \in [Gxid -> [Seg -> Xact]]
    <3>1. ASSUME NEW x \in Xact, prim' = [prim EXCEPT ![g][s] = x]
          PROVE  prim' \in [Gxid -> [Seg -> Xact]]
      BY <3>1, Zenon
    <3>2. QED
      BY <1>5, <2>0, <3>1, Zenon DEF FreshCommand
  <2>3. QED
    BY <1>5, <2>1, <2>2, Zenon DEF FreshCommand
<1>6. CASE FreshSynced(g, s)
  BY <1>6, Zenon DEF FreshSynced
<1>7. CASE Replicate(g, s)
  BY <1>7, Zenon DEF Replicate, Xact
<1>8. QED
  BY <1>1, <1>2, <1>3, <1>4, <1>5, <1>6, <1>7, ZenonT(60) DEF Writer, Fresh

\* Every step of the dtx recovery worker preserves types.
LEMMA TypeWorker ==
  ASSUME TypeOK, Worker \/ \E m \in stale : StaleCommand(m)
  PROVE  TypeOK'
<1> USE TypeDispatch DEF TypeOK, RpcType, WorkerPC, WorkerStartup
<1>1. ASSUME NEW g \in Gxid, RecoverCommit(g) PROVE TypeOK'
  BY <1>1, Zenon DEF RecoverCommit
<1>2. ASSUME NEW g \in Gxid, RecoverForget(g) PROVE TypeOK'
  BY <1>2, Zenon DEF RecoverForget
<1>3. ASSUME NEW g \in Gxid, RecoverFail(g) PROVE TypeOK'
  BY <1>3, Zenon DEF RecoverFail
<1>4. ASSUME NEW g \in Gxid, RecoverAbort(g) PROVE TypeOK'
  BY <1>4, Zenon DEF RecoverAbort
<1>5. ASSUME NEW g \in Gxid, RecoverNext(g) PROVE TypeOK'
  BY <1>5, Zenon DEF RecoverNext
<1>6. ASSUME NEW s \in Seg, Gather(s) PROVE TypeOK'
  BY <1>6, Zenon DEF Gather
<1>7. ASSUME RecoverNotified \/ GatherDone \/ RecoverDone \/ OrphanCheck PROVE TypeOK'
  BY <1>7, Zenon DEF RecoverNotified, GatherDone, RecoverDone, OrphanCheck
<1>8. ASSUME NEW m \in stale, StaleCommand(m) PROVE TypeOK'
  <2>1. m[2] \in Gxid /\ m[3] \in Seg /\ Outcome(m[1]) \in Xact
    BY <1>8, Zenon DEF Outcome, Xact
  <2>2. prim' \in [Gxid -> [Seg -> Xact]]
    <3>1. ASSUME NEW h \in Gxid, NEW t \in Seg, NEW x \in Xact, prim' = [prim EXCEPT ![h][t] = x]
          PROVE  prim' \in [Gxid -> [Seg -> Xact]]
      BY <3>1, Zenon
    <3>2. QED
      BY <1>8, <2>1, <3>1, ZenonT(60) DEF StaleCommand
  <2>3. QED
    BY <1>8, <2>2, Zenon DEF StaleCommand
<1>9. QED
  BY <1>1, <1>2, <1>3, <1>4, <1>5, <1>6, <1>7, <1>8, Zenon DEF Worker

\* Every failure preserves types.
LEMMA TypeFailure ==
  ASSUME TypeOK, Failure
  PROVE  TypeOK'
<1>0. Fault => faults' \in 0..MaxFaults /\ crashes' = crashes
  BY BoundsAssumption DEF Fault, TypeOK
<1> USE <1>0 DEF TypeOK
<1>1. ASSUME NEW g \in Gxid, NEW s \in Seg, LoseLink(g, s) PROVE TypeOK'
  BY <1>1, ZenonT(60) DEF LoseLink
<1>2. ASSUME NEW g \in Gxid, NEW s \in Seg, QeDie(g, s) PROVE TypeOK'
  BY <1>2 DEF QeDie, QeStep, AfterExit, Xact, QeContext
<1>3. ASSUME NEW g \in Gxid, NEW s \in Seg, FreshFail(g, s) PROVE TypeOK'
  BY <1>3 DEF FreshFail
<1>4. ASSUME NEW s \in Seg, MirrorDown(s) PROVE TypeOK'
  BY <1>4, ZenonT(60) DEF MirrorDown
<1>5. ASSUME NEW s \in Seg, SegReset(s) PROVE TypeOK'
  BY <1>5 DEF SegReset, KillProcesses, AfterExit, Xact, QeContext
<1>6. ASSUME NEW s \in Seg, Failover(s) PROVE TypeOK'
  BY <1>6 DEF Failover, KillProcesses, Promoted, Xact, QeContext
<1>7. ASSUME WorkerExit PROVE TypeOK'
  BY <1>7, TypeDispatch, ZenonT(60) DEF WorkerExit, RpcType, WorkerPC, WorkerStartup
<1>8. ASSUME Crash PROVE TypeOK'
  BY <1>8, BoundsAssumption DEF Crash, Abandoned, WorkerPC, WorkerStartup, DtxState
<1>9. QED
  BY <1>1, <1>2, <1>3, <1>4, <1>5, <1>6, <1>7, <1>8, Zenon DEF Failure

\* The variables keep their types: the states are those of DtxState, a mirror
\* never holds an unflushed transaction, the bounded counters stay in bounds.
THEOREM TypeCorrect == Spec => []TypeOK
<1>1. TypeOK /\ [Next]_vars => TypeOK'
  <2> SUFFICES ASSUME TypeOK, [Next]_vars PROVE TypeOK'
    BY Zenon
  <2>1. CASE UNCHANGED vars
    BY <2>1, Zenon DEF TypeOK, vars
  <2>2. CASE Next
    BY <2>2, TypeBegin, TypeBackend, TypeSegment, TypeWorker, TypeFailure, Zenon DEF Next
  <2>3. QED
    BY <2>1, <2>2, Zenon
<1>2. QED
  BY TypeInit, <1>1, PTL DEF Spec

-----------------------------------------------------------------------------
(***************************************************************************)
(* Steps that leave a transaction alone.                                   *)
(***************************************************************************)
SameSeg(h) ==
  /\ segs'[h] = segs[h] /\ qe'[h] = qe[h] /\ prim'[h] = prim[h] /\ mirr'[h] = mirr[h]
  /\ mirrorUp' = mirrorUp

SameRow(h) ==
  /\ SameSeg(h)
  /\ qd'[h] = qd[h] /\ wrote'[h] = wrote[h] /\ rec'[h] = rec[h] /\ forgot'[h] = forgot[h]
  /\ cmd'[h] = cmd[h] /\ reply'[h] = reply[h]
  /\ rpc'[h] = rpc[h] /\ rpcCmd'[h] = rpcCmd[h]
  /\ \A c \in {"commit", "abort"}, t \in Seg : <<c, h, t>> \in stale' => <<c, h, t>> \in stale

\* What survives a failover depends on the segment state of the transaction only.
LEMMA SegFrame ==
  ASSUME NEW h \in Gxid, SameSeg(h)
  PROVE  /\ \A t \in Seg : (Kept(h, t)' <=> Kept(h, t)) /\ (Done(h, t)' <=> Done(h, t))
         /\ AllDone(h)' <=> AllDone(h)
BY Zenon DEF SameSeg, Kept, Done, Durable, AllDone

\* A step that leaves a transaction alone preserves its invariant.
LEMMA RowFrame ==
  ASSUME NEW h \in Gxid, Inv(h), SameRow(h)
  PROVE  /\ StateInv(h)'
         /\ \A t \in Seg : PairInv(h, t)'
         /\ UNCHANGED workerVars => WorkerInv(h)'
<1>1. SameSeg(h)
  BY Zenon DEF SameRow
<1>2. Doomed(h)' <=> Doomed(h)
  BY Zenon DEF SameRow, Doomed
<1>3. Settled(h)' <=> Settled(h)
  BY <1>1, <1>2, SegFrame, Zenon DEF SameRow, Settled
<1>4. StateInv(h)'
  BY <1>1, SegFrame, Zenon DEF Inv, StateInv, SameRow, SameSeg
<1>5. ASSUME NEW t \in Seg PROVE PairInv(h, t)'
  <2>1. QeInv(h, t)'
    BY Zenon DEF Inv, PairInv, QeInv, SameRow, SameSeg
  <2>2. CmdInv(h, t)'
    BY <1>2, ZenonT(60) DEF Inv, PairInv, CmdInv, SameRow, SameSeg
  <2>3. VoteInv(h, t)'
    BY <1>1, SegFrame, Zenon DEF Inv, PairInv, VoteInv, SameRow, SameSeg
  <2>4. RpcInv(h, t)'
    BY <1>1, <1>3, SegFrame, ZenonT(60) DEF Inv, PairInv, RpcInv, SameRow, SameSeg
  <2>5. OutcomeInv(h, t)'
    BY Zenon DEF Inv, PairInv, OutcomeInv, SameRow, SameSeg
  <2>6. QED
    BY <2>1, <2>2, <2>3, <2>4, <2>5, Zenon DEF PairInv
<1>6. UNCHANGED workerVars => WorkerInv(h)'
  BY <1>1, SegFrame, Zenon DEF Inv, WorkerInv, SameRow
<1>7. QED
  BY <1>4, <1>5, <1>6, Zenon

-----------------------------------------------------------------------------
(***************************************************************************)
(* The coordinator backend.                                                *)
(***************************************************************************)
\* A step of the backend of g leaves the segments, the recovery worker and the
\* other transactions alone.
LEMMA BackendFrame ==
  ASSUME TypeOK, NEW g \in Gxid, Begin(g) \/ Backend(g) \/ BackendExit(g)
  PROVE  /\ UNCHANGED <<segs, wrote, qe, segVars, workerVars>>
         /\ \A h \in Gxid \ {g} : SameRow(h)
<1> USE DEF TypeOK, SameRow, SameSeg, SetQd, Dispatch, Disconnect, Rpc, RpcEnd, Abandoned
<1>1. CASE Begin(g)
  BY <1>1, Zenon DEF Begin
<1>2. CASE CommitOnePhase(g)
  BY ZenonT(60), <1>2 DEF CommitOnePhase
<1>3. CASE Prepare(g)
  BY <1>3, ZenonT(60) DEF Prepare
<1>4. CASE Prepared(g)
  BY <1>4, Zenon DEF Prepared
<1>5. CASE InsertCommitted(g)
  BY <1>5, Zenon DEF InsertCommitted
<1>6. CASE FlushCommitted(g)
  BY <1>6, Zenon DEF FlushCommitted
<1>7. CASE NotifyCommitPrepared(g)
  BY <1>7, Zenon DEF NotifyCommitPrepared
<1>8. CASE InsertForgetCommitted(g)
  BY <1>8, Zenon DEF InsertForgetCommitted
<1>9. CASE RetryCommit(g)
  BY <1>9, ZenonT(60) DEF RetryCommit
<1>10. CASE EndCommitted(g)
  BY <1>10, ZenonT(60) DEF EndCommitted
<1>11. CASE RollbackNoPrepared(g)
  BY <1>11 DEF RollbackNoPrepared
<1>12. CASE RollbackPreparing(g)
  BY <1>12 DEF RollbackPreparing
<1>13. CASE RollbackPrepared(g)
  BY <1>13, Zenon DEF RollbackPrepared
<1>14. CASE RetryAbort(g)
  BY <1>14, Zenon DEF RetryAbort
<1>15. CASE EndAborted(g)
  BY <1>15, ZenonT(60) DEF EndAborted
<1>16. CASE BackendExit(g)
  BY <1>16, Zenon DEF BackendExit
<1>17. QED
  BY <1>1, <1>2, <1>3, <1>4, <1>5, <1>6, <1>7, <1>8, <1>9, <1>10, <1>11, <1>12, <1>13, <1>14, <1>15, <1>16, ZenonT(60) DEF Backend


\* What a step of the backend of g does to its WAL records, to its gang, and to
\* its commands to fresh QEs.
KeepWal(g) == rec'[g] = rec[g] /\ forgot'[g] = forgot[g]
KeepGang(g) == \A t \in Seg : cmd'[g][t] = cmd[g][t] /\ reply'[g][t] \in {reply[g][t], "none"}
Send(g, c) ==
  \A t \in Seg : (cmd'[g][t] = cmd[g][t] \/ (cmd'[g][t] = c /\ t \in segs[g])) /\ reply'[g][t] = "none"
KeepRpc(g) ==
  /\ rpcCmd'[g] = rpcCmd[g]
  /\ \A t \in Seg : rpc'[g][t] \in {rpc[g][t], "none"}
  /\ \A c \in {"commit", "abort"}, t \in Seg :
       <<c, g, t>> \in stale' => <<c, g, t>> \in stale \/ (c = rpcCmd[g] /\ rpc[g][t] = "sent")
NewRpc(g, c, S) ==
  /\ rpcCmd'[g] = c /\ stale' = stale
  /\ \A t \in Seg : rpc'[g][t] = IF t \in S THEN "sent" ELSE "none"

\* The transitions of the backend of g.
BackendEffect(g) ==
  \/ /\ qd[g] = "UNBORN" /\ qd'[g] = "ACTIVE_DISTRIBUTED" /\ rp \notin WorkerStartup
     /\ KeepWal(g) /\ KeepGang(g) /\ KeepRpc(g)
  \/ /\ qd[g] = "ACTIVE_DISTRIBUTED" /\ (wrote[g] => \A s, t \in segs[g] : s = t)
     /\ \/ qd'[g] = "NONE" /\ KeepGang(g)
        \/ qd'[g] = "NOTIFYING_ONE_PHASE_COMMIT" /\ Send(g, "COMMIT_ONEPHASE")
     /\ KeepWal(g) /\ KeepRpc(g)
  \/ /\ qd[g] = "ACTIVE_DISTRIBUTED" /\ qd'[g] = "PREPARING" /\ Send(g, "PREPARE")
     /\ KeepWal(g) /\ KeepRpc(g)
  \/ /\ qd[g] = "PREPARING" /\ qd'[g] = "PREPARED" /\ \A t \in segs[g] : reply[g][t] = "ok"
     /\ KeepWal(g) /\ KeepGang(g) /\ KeepRpc(g)
  \/ /\ qd[g] = "PREPARED" /\ qd'[g] = "INSERTED_COMMITTED" /\ rec'[g] = "inserted" /\ forgot'[g] = forgot[g]
     /\ KeepGang(g) /\ KeepRpc(g)
  \/ /\ qd[g] = "INSERTED_COMMITTED" /\ qd'[g] = qd[g] /\ rec'[g] = "flushed" /\ forgot'[g] = forgot[g]
     /\ KeepGang(g) /\ KeepRpc(g)
  \/ /\ qd[g] = "INSERTED_COMMITTED" /\ qd'[g] = "NOTIFYING_COMMIT_PREPARED" /\ rec[g] = "flushed"
     /\ Send(g, "COMMIT_PREPARED")
     /\ KeepWal(g) /\ KeepRpc(g)
  \/ /\ \/ qd[g] = "NOTIFYING_COMMIT_PREPARED" /\ \A t \in segs[g] : reply[g][t] = "ok"
        \/ qd[g] = "RETRY_COMMIT_PREPARED" /\ \A t \in Seg : rpc[g][t] \in {"none", "ok"}
     /\ qd'[g] = "INSERTED_FORGET_COMMITTED" /\ rec'[g] = rec[g] /\ forgot'[g]
     /\ KeepGang(g) /\ KeepRpc(g)
  \/ /\ qd[g] \in {"NOTIFYING_COMMIT_PREPARED", "RETRY_COMMIT_PREPARED"}
     /\ qd'[g] = "RETRY_COMMIT_PREPARED" /\ NewRpc(g, "commit", segs[g])
     /\ KeepWal(g) /\ KeepGang(g)
  \/ /\ qd[g] \in {"INSERTED_FORGET_COMMITTED", "NOTIFYING_ONE_PHASE_COMMIT"} /\ qd'[g] = "NONE"
     /\ KeepWal(g) /\ KeepGang(g) /\ KeepRpc(g)
  \/ /\ qd[g] \in {"ACTIVE_DISTRIBUTED", "NOTIFYING_ONE_PHASE_COMMIT"}
     /\ \/ qd'[g] = "NONE" /\ KeepGang(g)
        \/ qd'[g] = "NOTIFYING_ABORT_NO_PREPARED" /\ Send(g, "ABORT_NO_PREPARED")
     /\ KeepWal(g) /\ KeepRpc(g)
  \/ /\ qd[g] = "PREPARING"
     /\ \/ qd'[g] = "NOTIFYING_ABORT_SOME_PREPARED" /\ Send(g, "ABORT_SOME_PREPARED") /\ KeepRpc(g)
        \/ qd'[g] = "RETRY_ABORT_PREPARED" /\ KeepGang(g) /\ NewRpc(g, "abort", Seg)
     /\ KeepWal(g)
  \/ /\ qd[g] = "PREPARED" /\ qd'[g] = "NOTIFYING_ABORT_PREPARED" /\ Send(g, "ABORT_PREPARED")
     /\ KeepWal(g) /\ KeepRpc(g)
  \/ /\ qd[g] \in AbortState /\ qd'[g] = "RETRY_ABORT_PREPARED" /\ NewRpc(g, "abort", Seg)
     /\ KeepWal(g) /\ KeepGang(g)
  \/ /\ qd[g] \in AbortState /\ qd'[g] = "NONE"
     /\ KeepWal(g) /\ KeepGang(g) /\ KeepRpc(g)
  \/ /\ qd[g] \in AbortState \cup {"ACTIVE_DISTRIBUTED", "NOTIFYING_ONE_PHASE_COMMIT", "INSERTED_FORGET_COMMITTED"}
     /\ qd'[g] = "NONE"
     /\ KeepWal(g) /\ KeepGang(g) /\ KeepRpc(g)

\* Every action of the backend is one of the transitions.
LEMMA BackendTransitions ==
  ASSUME TypeOK, NEW g \in Gxid, Begin(g) \/ Backend(g) \/ BackendExit(g)
  PROVE  BackendEffect(g)
<1>1. /\ UNCHANGED walVars => KeepWal(g)
      /\ cmd' = cmd /\ reply' = reply => KeepGang(g)
      /\ UNCHANGED rpcVars => KeepRpc(g)
  BY Zenon DEF KeepWal, KeepGang, KeepRpc
<1>2. /\ Disconnect(g) /\ cmd' = cmd => KeepGang(g)
      /\ \A c \in Command : Dispatch(g, c) => Send(g, c)
  BY DEF TypeOK, Disconnect, Dispatch, KeepGang, Send
<1>3. /\ RpcEnd(g) => KeepRpc(g)
      /\ \A c \in {"commit", "abort"}, S \in SUBSET Seg : Rpc(g, c, S) => NewRpc(g, c, S)
  BY DEF TypeOK, RpcEnd, Abandoned, Rpc, KeepRpc, NewRpc
<1>4. \A q \in DtxState : SetQd(g, q) => qd'[g] = q
  BY ZenonT(60) DEF TypeOK, SetQd
<1>5. segs[g] \subseteq Seg /\ LiveState \cup {"NONE"} \subseteq DtxState
  BY Zenon DEF TypeOK, DtxState
<1> USE <1>1, <1>2, <1>3, <1>4, <1>5 DEF BackendEffect
<1>6. CASE Begin(g)
  BY <1>6, Zenon DEF Begin, LiveState
<1>7. CASE CommitOnePhase(g)
  BY <1>7, Zenon DEF CommitOnePhase, OnePhase, Command, LiveState
<1>8. CASE Prepare(g)
  BY <1>8, Zenon DEF Prepare, Command, LiveState
<1>9. CASE Prepared(g)
  BY <1>9, Zenon DEF Prepared, PrepareVotes, RoundOk, LiveState
<1>10. CASE InsertCommitted(g)
  BY <1>10, Zenon DEF InsertCommitted, TypeOK, CommitState, LiveState
<1>11. CASE FlushCommitted(g)
  BY <1>11, Zenon DEF FlushCommitted, TypeOK, CommitState
<1>12. CASE NotifyCommitPrepared(g)
  BY <1>12, Zenon DEF NotifyCommitPrepared, Command, CommitState, LiveState
<1>13. CASE InsertForgetCommitted(g)
  <2>1. qd'[g] = "INSERTED_FORGET_COMMITTED" /\ rec'[g] = rec[g] /\ forgot'[g] /\ KeepGang(g) /\ KeepRpc(g)
    BY <1>13, Zenon DEF InsertForgetCommitted, TypeOK, LiveState, CommitState
  <2>2. \/ qd[g] = "NOTIFYING_COMMIT_PREPARED" /\ \A t \in segs[g] : reply[g][t] = "ok"
        \/ qd[g] = "RETRY_COMMIT_PREPARED" /\ \A t \in Seg : rpc[g][t] \in {"none", "ok"}
    BY <1>13, Zenon DEF InsertForgetCommitted, RoundOk, RpcOk
  <2>3. QED
    BY <2>1, <2>2, Zenon
<1>14. CASE RetryCommit(g)
  BY <1>14, Zenon DEF RetryCommit, CommitState, LiveState
<1>15. CASE EndCommitted(g)
  BY <1>15, Zenon DEF EndCommitted
<1>16. CASE RollbackNoPrepared(g)
  BY <1>16, Zenon DEF RollbackNoPrepared, Command, AbortState, LiveState
<1>17. CASE RollbackPreparing(g)
  BY <1>17, Zenon DEF RollbackPreparing, AbortCommand, Command, AbortState, LiveState
<1>18. CASE RollbackPrepared(g)
  BY <1>18, Zenon DEF RollbackPrepared, AbortCommand, Command, AbortState, LiveState
<1>19. CASE RetryAbort(g)
  BY <1>19, Zenon DEF RetryAbort, AbortState, LiveState
<1>20. CASE EndAborted(g)
  <2>1. qd'[g] = "NONE" /\ KeepWal(g) /\ KeepGang(g) /\ KeepRpc(g)
    BY <1>20, Zenon DEF EndAborted
  <2>2. qd[g] \in AbortState
    BY <1>20, Zenon DEF EndAborted, AbortState
  <2>3. QED
    BY <2>1, <2>2, ZenonT(60)
<1>21. CASE BackendExit(g)
  BY <1>21, Zenon DEF BackendExit, AbortState, LiveState
<1>22. QED
  BY <1>6, <1>7, <1>8, <1>9, <1>10, <1>11, <1>12, <1>13, <1>14, <1>15, <1>16, <1>17, <1>18, <1>19, <1>20, <1>21, ZenonT(60) DEF Backend

\* Every transition preserves the invariant of the transaction.
LEMMA BackendRow ==
  ASSUME NEW g \in Gxid, BackendEffect(g), SameSeg(g), wrote'[g] = wrote[g], UNCHANGED workerVars,
         segs[g] \subseteq Seg, StateInv(g), WorkerInv(g), \A t \in Seg : PairInv(g, t)
  PROVE  Inv(g)'
<1>1. /\ \A t \in Seg : (Kept(g, t)' <=> Kept(g, t)) /\ (Done(g, t)' <=> Done(g, t))
      /\ AllDone(g)' <=> AllDone(g)
  BY SegFrame, Zenon
<1>2. \A t \in Seg : QeInv(g, t) /\ CmdInv(g, t) /\ VoteInv(g, t) /\ RpcInv(g, t) /\ OutcomeInv(g, t)
  BY Zenon DEF PairInv
<1>3. StateInv(g)'
  BY <1>1, <1>2, Zenon DEF BackendEffect, KeepWal, SameSeg, AbortState, CommitState, StateInv, VoteInv, RpcInv, AllDone
<1>4. WorkerInv(g)'
  BY <1>1, Zenon DEF BackendEffect, KeepWal, AbortState, CommitState, StateInv, WorkerInv, WorkerStartup
<1>5. /\ rec[g] = "flushed" => rec'[g] = "flushed"
      /\ qd'[g] \in {"UNBORN", "ACTIVE_DISTRIBUTED"} => qd[g] = "UNBORN"
      /\ Doomed(g) => Doomed(g)'
  BY ZenonT(60) DEF BackendEffect, KeepWal, AbortState, CommitState, StateInv, Doomed
<1>6. Settled(g) => Settled(g)'
  BY <1>1, <1>5, Zenon DEF Settled
<1>7. \/ /\ KeepGang(g) /\ qd'[g] # "PREPARING"
      \/ Send(g, "PREPARE") /\ qd[g] = "ACTIVE_DISTRIBUTED" /\ qd'[g] = "PREPARING"
      \/ /\ qd'[g] # "PREPARING"
         /\ \/ Send(g, "COMMIT_ONEPHASE") /\ (wrote[g] => \A s, t \in segs[g] : s = t)
            \/ Send(g, "COMMIT_PREPARED") /\ rec'[g] = "flushed"
            \/ /\ \/ Send(g, "ABORT_NO_PREPARED") \/ Send(g, "ABORT_SOME_PREPARED")
                  \/ Send(g, "ABORT_PREPARED")
               /\ Doomed(g)'
  BY ZenonT(60) DEF BackendEffect, KeepWal, AbortState, CommitState, StateInv, Doomed
<1>8. \/ KeepRpc(g) /\ qd'[g] # "RETRY_COMMIT_PREPARED"
      \/ NewRpc(g, "commit", segs[g]) /\ rec'[g] = "flushed"
      \/ NewRpc(g, "abort", Seg) /\ Doomed(g)' /\ qd'[g] # "RETRY_COMMIT_PREPARED"
  BY Zenon DEF BackendEffect, KeepWal, AbortState, CommitState, StateInv, Doomed
<1>9. ASSUME NEW t \in Seg PROVE QeInv(g, t)'
  BY <1>2, ZenonT(60) DEF SameSeg, QeInv
<1>10. ASSUME NEW t \in Seg PROVE CmdInv(g, t)'
  BY <1>2, <1>5, <1>7 DEF KeepGang, Send, SameSeg, StateInv, QeInv, CmdInv
<1>11. ASSUME NEW t \in Seg PROVE VoteInv(g, t)'
  BY <1>1, <1>2, ZenonT(60) DEF BackendEffect, KeepWal, KeepGang, Send, SameSeg, AbortState, CommitState, StateInv, VoteInv
<1>12. ASSUME NEW t \in Seg PROVE RpcInv(g, t)'
  BY <1>1, <1>2, <1>5, <1>6, <1>8 DEF KeepRpc, NewRpc, SameSeg, RpcInv, Settled
<1>13. ASSUME NEW t \in Seg PROVE OutcomeInv(g, t)'
  BY <1>2, <1>5, Zenon DEF SameSeg, OutcomeInv
<1>14. QED
  BY <1>3, <1>4, <1>9, <1>10, <1>11, <1>12, <1>13, Zenon DEF Inv, PairInv

\* The steps of the coordinator backend (prepare, commit, rollback, retries, exit)
\* preserve the invariant.
LEMMA BackendInv ==
  ASSUME IInv, NEW g \in Gxid, Begin(g) \/ Backend(g) \/ BackendExit(g)
  PROVE  \A h \in Gxid : Inv(h)'
<1>1. TypeOK /\ UNCHANGED <<segs, wrote, qe, segVars, workerVars>>
  BY BackendFrame, Zenon DEF IInv
<1>2. SameSeg(g) /\ wrote'[g] = wrote[g] /\ segs[g] \subseteq Seg
  BY <1>1, Zenon DEF SameSeg, TypeOK
<1>3. Inv(g)'
  BY <1>1, <1>2, BackendTransitions, BackendRow, Zenon DEF IInv, Inv
<1>4. ASSUME NEW h \in Gxid \ {g} PROVE Inv(h)'
  BY <1>1, RowFrame, BackendFrame, Zenon DEF IInv, Inv
<1>5. QED
  BY <1>3, <1>4, Zenon

-----------------------------------------------------------------------------
(***************************************************************************)
(* One process of a segment.                                               *)
(***************************************************************************)
\* A step that concerns transaction g on segment s only.
CellStep(g, s) ==
  /\ UNCHANGED <<qd, segs, wrote, rec, forgot, mirrorUp, rpcCmd, workerVars>>
  /\ \A t \in Seg \ {s} :
       /\ cmd'[g][t] = cmd[g][t] /\ reply'[g][t] = reply[g][t] /\ qe'[g][t] = qe[g][t]
       /\ prim'[g][t] = prim[g][t] /\ mirr'[g][t] = mirr[g][t] /\ rpc'[g][t] = rpc[g][t]
  /\ \A c \in {"commit", "abort"}, t \in Seg :
       <<c, g, t>> \in stale' => <<c, g, t>> \in stale \/ (c = rpcCmd[g] /\ rpc[g][t] = "sent")
  /\ \A h \in Gxid \ {g} : SameRow(h)

\* To preserve the invariant, a step on segment s needs to re-establish only
\* what is said of s.
LEMMA CellFrame ==
  ASSUME IInv, NEW g \in Gxid, NEW s \in Seg, CellStep(g, s),
         rpc[g][s] # "none" => rpc'[g][s] # "none",
         s \in segs[g] /\ Done(g, s) => Done(g, s)',
         QeInv(g, s)', CmdInv(g, s)', VoteInv(g, s)', OutcomeInv(g, s)',
         (Settled(g) => Settled(g)') => RpcInv(g, s)'
  PROVE  \A h \in Gxid : Inv(h)'
<1>1. /\ StateInv(g) /\ WorkerInv(g)
      /\ \A t \in Seg : QeInv(g, t) /\ CmdInv(g, t) /\ VoteInv(g, t) /\ RpcInv(g, t) /\ OutcomeInv(g, t)
  BY Zenon DEF IInv, Inv, PairInv
<1>2. TypeOK
  BY Zenon DEF IInv
<1>3. ASSUME NEW t \in Seg \ {s}
      PROVE  (Kept(g, t)' <=> Kept(g, t)) /\ (Done(g, t)' <=> Done(g, t))
  BY Zenon DEF CellStep, Kept, Done, Durable
<1>4. AllDone(g) => AllDone(g)'
  BY <1>2, <1>3, ZenonT(60) DEF AllDone, CellStep, TypeOK
<1>5. (Doomed(g)' <=> Doomed(g)) /\ (Settled(g) => Settled(g)')
  BY <1>4, Zenon DEF CellStep, Doomed, Settled
<1>6. StateInv(g)'
  BY <1>1, <1>4, Zenon DEF StateInv, CellStep
<1>7. WorkerInv(g)'
  <2>1. \A t \in Seg : rpc[g][t] # "none" => rpc'[g][t] # "none"
    BY Zenon DEF CellStep
  <2>2. QED
    BY <1>1, <1>4, <2>1, Zenon DEF WorkerInv, CellStep
<1>8. ASSUME NEW t \in Seg \ {s} PROVE PairInv(g, t)'
  <2>1. QeInv(g, t)'
    BY <1>1 DEF QeInv, CellStep
  <2>a. /\ UNCHANGED <<qd, segs, wrote, rec, rpcCmd>>
        /\ cmd'[g][t] = cmd[g][t] /\ qe'[g][t] = qe[g][t]
        /\ prim'[g][t] = prim[g][t] /\ rpc'[g][t] = rpc[g][t]
        /\ <<"abort", g, t>> \in stale' =>
             <<"abort", g, t>> \in stale \/ ("abort" = rpcCmd[g] /\ rpc[g][t] = "sent")
        /\ <<"commit", g, t>> \in stale' =>
             <<"commit", g, t>> \in stale \/ ("commit" = rpcCmd[g] /\ rpc[g][t] = "sent")
    BY Zenon DEF CellStep
  <2>2. CmdInv(g, t)'
    BY Zenon, <1>1, <1>5, <2>a DEF CmdInv
  <2>3. VoteInv(g, t)'
    BY <1>1, <1>3, ZenonT(60) DEF VoteInv, CellStep
  <2>4. RpcInv(g, t)'
    BY Zenon, <1>1, <1>3, <1>5, <2>a DEF RpcInv
  <2>5. OutcomeInv(g, t)'
    BY <1>1, ZenonT(60) DEF OutcomeInv, CellStep
  <2>6. QED
    BY <2>1, <2>2, <2>3, <2>4, <2>5, ZenonT(60) DEF PairInv
<1>9. PairInv(g, s)'
  BY <1>1, <1>5, Zenon DEF PairInv
<1>10. ASSUME NEW h \in Gxid \ {g} PROVE Inv(h)'
  BY RowFrame, Zenon DEF IInv, Inv, CellStep
<1>11. QED
  BY <1>6, <1>7, <1>8, <1>9, <1>10, Zenon DEF Inv

\* What a step does to the process of g on s and to the transaction it has.
To(g, s, c, R, q, p) ==
  /\ cmd'[g][s] = c /\ reply'[g][s] \in {reply[g][s], R} /\ qe'[g][s] = q /\ prim'[g][s] = p

\* The transitions of the writer QE of g on s.
WriterEffect(g, s) ==
  \/ /\ cmd[g][s] = "PREPARE" /\ qe[g][s] = "writer"
     /\ To(g, s, "none", reply[g][s], "preparing", "prepared")
  \/ /\ cmd[g][s] = "COMMIT_ONEPHASE" /\ qe[g][s] = "writer"
     /\ To(g, s, "none", reply[g][s], "finishing", "committed")
  \/ /\ cmd[g][s] \in {"PREPARE", "COMMIT_ONEPHASE"} /\ qe[g][s] = "writer"
     /\ To(g, s, "none", "error", "local", "aborted")
  \/ /\ cmd[g][s] \in {"ABORT_NO_PREPARED", "ABORT_SOME_PREPARED"} /\ qe[g][s] \in {"writer", "local"}
     /\ To(g, s, "none", "ok", "local", IF qe[g][s] = "writer" THEN "aborted" ELSE prim[g][s])
  \/ /\ cmd[g][s] = "COMMIT_PREPARED" /\ qe[g][s] = "prepared" /\ prim[g][s] = "prepared"
     /\ To(g, s, "none", reply[g][s], "finishing", "committed")
  \/ /\ cmd[g][s] \in {"ABORT_PREPARED", "ABORT_SOME_PREPARED"}
     /\ qe[g][s] = "prepared" /\ prim[g][s] = "prepared"
     /\ To(g, s, "none", reply[g][s], "finishing", "aborted")
  \/ /\ qe[g][s] = "prepared"
     /\ To(g, s, "none", "error", "local", prim[g][s])
  \/ /\ qe[g][s] = "preparing" /\ Synced(g, s)
     /\ To(g, s, cmd[g][s], "ok", "prepared", prim[g][s])
  \/ /\ qe[g][s] = "finishing" /\ Synced(g, s)
     /\ To(g, s, cmd[g][s], "ok", "local", prim[g][s])
  \/ /\ qe[g][s] # "none"
     /\ To(g, s, "none", reply[g][s], "dead", IF prim[g][s] = "active" THEN "aborted" ELSE prim[g][s])
  \/ To(g, s, cmd[g][s], reply[g][s], qe[g][s], prim[g][s])

\* The transitions of the fresh QE of g on s.
FreshEffect(g, s) ==
  \/ /\ rpc'[g][s] = "error" /\ prim'[g][s] = prim[g][s]
  \/ /\ rpc[g][s] = "sent" /\ ~Busy(g, s) /\ prim[g][s] = "prepared"
     /\ rpc'[g][s] = "syncing" /\ prim'[g][s] = Outcome(rpcCmd[g])
  \/ /\ rpc[g][s] = "sent" /\ rpcCmd[g] = "commit" /\ prim[g][s] # "prepared"
     /\ rpc'[g][s] = "syncing" /\ prim'[g][s] = prim[g][s]
  \/ /\ rpc[g][s] = "sent" /\ rpcCmd[g] = "abort"
     /\ rpc'[g][s] = "ok" /\ prim'[g][s] = prim[g][s]
  \/ /\ rpc[g][s] = "syncing" /\ Synced(g, s)
     /\ rpc'[g][s] = "ok" /\ prim'[g][s] = prim[g][s]

\* The transitions of transaction g on segment s.
CellEffect(g, s) ==
  \/ /\ WriterEffect(g, s)
     /\ mirr'[g][s] = mirr[g][s] /\ rpc'[g][s] = rpc[g][s]
  \/ /\ rpc[g][s] # "none" /\ FreshEffect(g, s)
     /\ cmd'[g][s] = cmd[g][s] /\ reply'[g][s] = reply[g][s] /\ qe'[g][s] = qe[g][s]
     /\ mirr'[g][s] = mirr[g][s]
  \/ /\ prim[g][s] \in {"prepared", "committed", "aborted"} /\ mirr'[g][s] = prim[g][s]
     /\ To(g, s, cmd[g][s], reply[g][s], qe[g][s], prim[g][s]) /\ rpc'[g][s] = rpc[g][s]

\* f changes at [g][s] only.
OnlyAt(f, fNext, g, s) ==
  /\ \A h \in Gxid \ {g} : fNext[h] = f[h]
  /\ \A t \in Seg \ {s} : fNext[g][t] = f[g][t]

\* Every action of a process of a segment is one of the transitions.
LEMMA CellTransitions ==
  ASSUME TypeOK, NEW g \in Gxid, NEW s \in Seg,
         \/ Writer(g, s) \/ Fresh(g, s) \/ Replicate(g, s)
         \/ LoseLink(g, s) \/ QeDie(g, s) \/ FreshFail(g, s)
  PROVE  CellStep(g, s) /\ CellEffect(g, s)
<1> DEFINE OnlyCell == /\ OnlyAt(cmd, cmd', g, s) /\ OnlyAt(reply, reply', g, s)
                       /\ OnlyAt(qe, qe', g, s) /\ OnlyAt(prim, prim', g, s)
                       /\ OnlyAt(mirr, mirr', g, s) /\ OnlyAt(rpc, rpc', g, s)
<1>1. ASSUME NEW q, NEW p, QeStep(g, s, q, p)
      PROVE  /\ OnlyAt(cmd, cmd', g, s) /\ OnlyAt(qe, qe', g, s) /\ OnlyAt(prim, prim', g, s)
             /\ cmd'[g][s] = "none" /\ qe'[g][s] = q /\ prim'[g][s] = p
  BY <1>1, ZenonT(60) DEF QeStep, OnlyAt, TypeOK
<1>2. ASSUME NEW r, Answer(g, s, r)
      PROVE  OnlyAt(reply, reply', g, s) /\ reply'[g][s] \in {reply[g][s], r}
  BY <1>2, Zenon DEF Answer, OnlyAt, TypeOK
<1>3. ASSUME NEW v, rpc' = [rpc EXCEPT ![g][s] = v] PROVE OnlyAt(rpc, rpc', g, s) /\ rpc'[g][s] = v
  BY <1>3, Zenon DEF OnlyAt, TypeOK
<1>4. ASSUME NEW v, prim' = [prim EXCEPT ![g][s] = v] PROVE OnlyAt(prim, prim', g, s) /\ prim'[g][s] = v
  BY <1>4, ZenonT(60) DEF OnlyAt, TypeOK
<1>5. ASSUME NEW v, qe' = [qe EXCEPT ![g][s] = v] PROVE OnlyAt(qe, qe', g, s) /\ qe'[g][s] = v
  BY <1>5, Zenon DEF OnlyAt, TypeOK
<1>6. ASSUME NEW v, mirr' = [mirr EXCEPT ![g][s] = v] PROVE OnlyAt(mirr, mirr', g, s) /\ mirr'[g][s] = v
  BY <1>6, Zenon DEF OnlyAt, TypeOK
<1>7. /\ (cmd' = cmd => OnlyAt(cmd, cmd', g, s)) /\ (reply' = reply => OnlyAt(reply, reply', g, s))
      /\ (qe' = qe => OnlyAt(qe, qe', g, s)) /\ (prim' = prim => OnlyAt(prim, prim', g, s))
      /\ (mirr' = mirr => OnlyAt(mirr, mirr', g, s)) /\ (rpc' = rpc => OnlyAt(rpc, rpc', g, s))
  BY ZenonT(60) DEF OnlyAt
<1>8. ASSUME OnlyCell, UNCHANGED <<qdVars, walVars, mirrorUp, rpcCmd, workerVars>>,
             stale' = stale \/ (rpc[g][s] = "sent" /\ stale' = stale \cup {<<rpcCmd[g], g, s>>})
      PROVE  CellStep(g, s)
  BY ZenonT(60), <1>8 DEF CellStep, OnlyAt, SameRow, SameSeg
<1>9. CASE QeCommand(g, s)
  <2>1. UNCHANGED <<qdVars, walVars, link, mirr, mirrorUp, rpcVars, workerVars, faultVars>>
    BY <1>9, Zenon DEF QeCommand
  <2>2. OnlyAt(mirr, mirr', g, s) /\ OnlyAt(rpc, rpc', g, s)
    BY <1>7, <2>1, Zenon
  <2>3. OnlyAt(cmd, cmd', g, s) /\ OnlyAt(qe, qe', g, s) /\ OnlyAt(prim, prim', g, s) /\ OnlyAt(reply, reply', g, s)
    BY <1>1, <1>2, <1>7, <1>9, Zenon DEF QeCommand, QePrepare, QeCommitOnePhase, QeAbort, QeFinishPrepared
  <2>4. ASSUME QePrepare(g, s) PROVE WriterEffect(g, s)
    BY <1>1, <1>2, <2>4, Zenon DEF QePrepare, WriterEffect, To
  <2>5. ASSUME QeCommitOnePhase(g, s) PROVE WriterEffect(g, s)
    BY <1>1, <1>2, <2>5, Zenon DEF QeCommitOnePhase, WriterEffect, To
  <2>6. ASSUME QeAbort(g, s) PROVE WriterEffect(g, s)
    BY <1>1, <1>2, <2>6, Zenon DEF QeAbort, WriterEffect, To
  <2>7. ASSUME QeFinishPrepared(g, s) PROVE WriterEffect(g, s)
    BY <1>1, <1>2, <2>7, ZenonT(60) DEF QeFinishPrepared, FinishOutcome, WriterEffect, To
  <2>8. QED
    BY <1>8, <1>9, <2>1, <2>2, <2>3, <2>4, <2>5, <2>6, <2>7, Zenon DEF QeCommand, CellEffect
<1>10. CASE QeSynced(g, s)
  <2>1. OnlyAt(qe, qe', g, s) /\ qe'[g][s] = IF qe[g][s] = "preparing" THEN "prepared" ELSE "local"
    BY <1>5, <1>10, Zenon DEF QeSynced
  <2>2. UNCHANGED <<qdVars, walVars, link, cmd, segVars, rpcVars, workerVars, faultVars>>
    BY <1>10, Zenon DEF QeSynced
  <2>3. WriterEffect(g, s)
    BY <1>2, <1>10, <2>1, <2>2, Zenon DEF QeSynced, WriterEffect, To
  <2>4. OnlyCell
    BY <1>2, <1>7, <1>10, <2>1, <2>2, Zenon DEF QeSynced
  <2>5. QED
    BY <1>8, <2>2, <2>3, <2>4, Zenon DEF CellEffect
<1>11. CASE QeExit(g, s) \/ QeDie(g, s)
  <2>1. /\ QeStep(g, s, "dead", IF prim[g][s] = "active" THEN "aborted" ELSE prim[g][s])
        /\ qe[g][s] # "none" /\ UNCHANGED <<qdVars, walVars, reply, mirr, mirrorUp, rpcVars, workerVars>>
    BY <1>11, Zenon DEF QeExit, QeDie, AfterExit, QeAlive
  <2>2. WriterEffect(g, s)
    BY <1>1, <2>1, Zenon DEF WriterEffect, To
  <2>3. OnlyCell
    BY <1>1, <1>7, <2>1, Zenon
  <2>4. QED
    BY <1>8, <2>1, <2>2, <2>3, Zenon DEF CellEffect
<1>12. CASE LoseLink(g, s)
  <2>1. UNCHANGED <<qdVars, walVars, cmd, reply, qe, segVars, rpcVars, workerVars>>
    BY <1>12, Zenon DEF LoseLink
  <2>2. WriterEffect(g, s)
    BY <2>1, Zenon DEF WriterEffect, To
  <2>3. QED
    BY <1>7, <1>8, <2>1, <2>2, Zenon DEF CellEffect
<1>13. CASE Replicate(g, s)
  <2>1. UNCHANGED <<qdVars, walVars, gangVars, prim, mirrorUp, rpcVars, workerVars, faultVars>>
    BY <1>13, Zenon DEF Replicate
  <2>2. OnlyAt(mirr, mirr', g, s) /\ mirr'[g][s] = prim[g][s]
    BY <1>6, <1>13, Zenon DEF Replicate
  <2>3. CellStep(g, s)
    BY <1>7, <1>8, <2>1, <2>2, Zenon
  <2>4. QED
    BY <1>13, <2>1, <2>2, <2>3, Zenon DEF Replicate, CellEffect, To
<1>14. CASE Fresh(g, s) \/ FreshFail(g, s)
  <2>1. UNCHANGED <<qdVars, walVars, gangVars, mirr, mirrorUp, rpcCmd, workerVars>>
    BY <1>14, Zenon DEF Fresh, FreshCommand, FreshSynced, FreshFail
  <2>2. OnlyAt(rpc, rpc', g, s) /\ OnlyAt(prim, prim', g, s)
    BY <1>3, <1>4, <1>7, <1>14, Zenon DEF Fresh, FreshCommand, FreshSynced, FreshFail
  <2>3. CellStep(g, s)
    BY <1>7, <1>8, <1>14, <2>1, <2>2, Zenon DEF Fresh, FreshCommand, FreshSynced, FreshFail
  <2>4. rpcCmd[g] \in {"commit", "abort"}
    BY <1>14, Zenon DEF TypeOK, Fresh, FreshCommand, FreshSynced, FreshFail
  <2>5. ASSUME FreshCommand(g, s) PROVE FreshEffect(g, s)
    BY <1>3, <1>4, <2>4, <2>5, Zenon DEF FreshCommand, FreshAnswer, FreshEffect
  <2>6. ASSUME FreshSynced(g, s) PROVE FreshEffect(g, s)
    BY <1>3, <2>6, Zenon DEF FreshSynced, FreshEffect
  <2>7. ASSUME FreshFail(g, s) PROVE FreshEffect(g, s)
    BY <1>3, <2>7, Zenon DEF FreshFail, FreshEffect
  <2>8. rpc[g][s] # "none"
    BY <1>14, Zenon DEF Fresh, FreshCommand, FreshSynced, FreshFail
  <2>9. QED
    BY <1>14, <2>1, <2>3, <2>5, <2>6, <2>7, <2>8, Zenon DEF Fresh, CellEffect
<1>15. QED
  BY <1>9, <1>10, <1>11, <1>12, <1>13, <1>14, Zenon DEF Writer

\* The steps of writer QEs, of fresh QEs and of replication preserve the
\* invariant.
LEMMA CellInv ==
  ASSUME IInv, NEW g \in Gxid, NEW s \in Seg,
         \/ Writer(g, s) \/ Fresh(g, s) \/ Replicate(g, s)
         \/ LoseLink(g, s) \/ QeDie(g, s) \/ FreshFail(g, s)
  PROVE  \A h \in Gxid : Inv(h)'
<1>1. /\ TypeOK /\ StateInv(g) /\ rpcCmd[g] \in {"commit", "abort"}
      /\ QeInv(g, s) /\ CmdInv(g, s) /\ VoteInv(g, s) /\ RpcInv(g, s) /\ OutcomeInv(g, s)
  BY Zenon DEF IInv, Inv, PairInv, TypeOK
<1>2. CellStep(g, s) /\ CellEffect(g, s)
  BY <1>1, CellTransitions, Zenon
<1>3. UNCHANGED <<qd, segs, wrote, rec, mirrorUp, rpcCmd>>
  BY <1>2, Zenon DEF CellStep
<1>4. rpc[g][s] = "sent" /\ prim[g][s] = "prepared" => IF rpcCmd[g] = "commit" THEN rec[g] = "flushed" ELSE Doomed(g)
  BY <1>1, Zenon DEF RpcInv, Settled, AllDone, Done, QeInv
<1>5. /\ \/ prim'[g][s] = prim[g][s]
         \/ prim[g][s] = "active" /\ prim'[g][s] = "prepared"
         \/ prim[g][s] = "active" /\ prim'[g][s] = "committed" /\ cmd[g][s] = "COMMIT_ONEPHASE"
         \/ prim[g][s] = "active" /\ prim'[g][s] = "aborted"
         \/ prim[g][s] = "prepared" /\ prim'[g][s] = "committed" /\ rec[g] = "flushed"
         \/ prim[g][s] = "prepared" /\ prim'[g][s] = "aborted" /\ Doomed(g)
      /\ \/ mirr'[g][s] = mirr[g][s]
         \/ prim'[g][s] = prim[g][s] /\ mirr'[g][s] = prim[g][s]
  BY <1>1, <1>2, <1>4, Zenon DEF CellEffect, WriterEffect, FreshEffect, To, QeInv, CmdInv, Outcome
<1>6. /\ rpc[g][s] # "none" => rpc'[g][s] # "none"
      /\ s \in segs[g] /\ Done(g, s) => Done(g, s)'
  <2>1. rpc[g][s] # "none" => rpc'[g][s] # "none"
    BY <1>2, Zenon DEF CellEffect, FreshEffect
  <2>2. QED
    BY <1>3, <1>5, <2>1, Zenon DEF Done, Durable
<1>7. QeInv(g, s)'
  BY <1>1, <1>2, <1>3, Zenon DEF CellEffect, WriterEffect, FreshEffect, To, QeInv, Busy, Outcome
<1>8. CmdInv(g, s)'
  BY <1>1, <1>2, <1>3, Zenon DEF CellEffect, WriterEffect, FreshEffect, To, CmdInv, Doomed
<1>9. s \in segs[g] /\ Kept(g, s) => Kept(g, s)' \/ Doomed(g)
  BY <1>3, <1>5, Zenon DEF Kept, Durable
<1>10. \/ reply'[g][s] \in {reply[g][s], "error"} /\ qe'[g][s] = qe[g][s]
       \/ reply'[g][s] \in {reply[g][s], "error"} /\ qe'[g][s] \notin {"writer", "preparing"}
       \/ reply'[g][s] = reply[g][s] /\ qe[g][s] = "writer"
       \/ Doomed(g)
       \/ /\ qe[g][s] = "preparing" /\ prim[g][s] = "prepared" /\ qe'[g][s] = "prepared"
          /\ Synced(g, s) /\ prim'[g][s] = prim[g][s] /\ mirr'[g][s] = mirr[g][s]
       \/ /\ qe[g][s] = "finishing" /\ qe'[g][s] = "local"
          /\ Synced(g, s) /\ prim'[g][s] = prim[g][s] /\ mirr'[g][s] = mirr[g][s]
  BY <1>1, <1>2, ZenonT(60) DEF CellEffect, WriterEffect, To, QeInv, CmdInv
<1>11. VoteInv(g, s)'
  <2>1. CASE Doomed(g)
    BY <1>3, <2>1, Zenon DEF VoteInv, Doomed, AbortState, CommitState
  <2>2. CASE reply'[g][s] \in {reply[g][s], "error"} /\ (qe'[g][s] = qe[g][s] \/ qe'[g][s] \notin {"writer", "preparing"})
    BY <1>1, <1>3, <1>6, <1>9, <2>1, <2>2, Zenon DEF VoteInv
  <2>3. CASE reply'[g][s] = reply[g][s] /\ qe[g][s] = "writer"
    BY <1>1, <1>3, <1>6, <1>9, <2>1, <2>3, Zenon DEF VoteInv
  <2>4. ASSUME qe[g][s] = "preparing", prim[g][s] = "prepared", Synced(g, s),
               prim'[g][s] = prim[g][s], mirr'[g][s] = mirr[g][s]
        PROVE  Kept(g, s)'
    BY <1>3, <2>4, Zenon DEF Kept, Durable, Synced
  <2>5. ASSUME qe[g][s] = "finishing", Synced(g, s), prim'[g][s] = prim[g][s], mirr'[g][s] = mirr[g][s],
               s \in segs[g], rec[g] # "none"
        PROVE  Done(g, s)'
    BY <1>1, <1>3, <2>5, Zenon DEF Kept, Done, Durable, Synced, VoteInv, QeInv
  <2>6. CASE /\ qe[g][s] = "preparing" /\ prim[g][s] = "prepared" /\ qe'[g][s] = "prepared"
             /\ Synced(g, s) /\ prim'[g][s] = prim[g][s] /\ mirr'[g][s] = mirr[g][s]
    BY <1>1, <1>3, <2>4, <2>6, Zenon DEF VoteInv, CommitState
  <2>7. CASE /\ qe[g][s] = "finishing" /\ qe'[g][s] = "local"
             /\ Synced(g, s) /\ prim'[g][s] = prim[g][s] /\ mirr'[g][s] = mirr[g][s]
    BY <1>1, <1>3, <1>9, <2>1, <2>5, <2>7, ZenonT(60) DEF VoteInv, CmdInv, StateInv, CommitState
  <2>8. QED
    BY <1>10, <2>1, <2>2, <2>3, <2>6, <2>7, Zenon
<1>12. OutcomeInv(g, s)'
  BY <1>1, <1>3, <1>5, Zenon DEF OutcomeInv, CmdInv, StateInv, CommitState
<1>13. ASSUME Settled(g) => Settled(g)' PROVE RpcInv(g, s)'
  <2>1. \A c \in {"commit", "abort"} :
          <<c, g, s>> \in stale' => <<c, g, s>> \in stale \/ (c = rpcCmd[g] /\ rpc[g][s] = "sent")
    BY <1>2, Zenon DEF CellStep
  <2>2. \/ rpc'[g][s] = rpc[g][s]
        \/ rpc[g][s] # "none" /\ rpc'[g][s] = "error"
        \/ /\ rpc[g][s] = "sent" /\ rpc'[g][s] = "syncing"
           /\ rpcCmd[g] = "commit" /\ s \in segs[g] => prim'[g][s] = "committed"
        \/ rpc[g][s] = "sent" /\ rpc'[g][s] = "ok" /\ rpcCmd[g] = "abort"
        \/ /\ rpc[g][s] = "syncing" /\ rpc'[g][s] = "ok" /\ Synced(g, s)
           /\ prim'[g][s] = prim[g][s] /\ mirr'[g][s] = mirr[g][s]
    BY <1>1, <1>2, Zenon DEF CellEffect, FreshEffect, Outcome, RpcInv, VoteInv, Kept
  <2>3. rpcCmd[g] = "commit" /\ rpc[g][s] = "syncing" /\ s \in segs[g] => prim'[g][s] = "committed"
    BY <1>1, <1>5, Zenon DEF RpcInv
  <2>4. rpcCmd[g] = "commit" /\ rpc'[g][s] = "ok" /\ s \in segs[g] => Done(g, s)'
    BY <1>1, <1>3, <1>6, <2>2, <2>3, Zenon DEF RpcInv, Done, Durable, Synced
  <2>5. QED
    BY <1>1, <1>3, <1>13, <2>1, <2>2, <2>3, <2>4, Zenon DEF RpcInv
<1>14. QED
  BY <1>2, <1>6, <1>7, <1>8, <1>11, <1>12, <1>13, CellFrame, Zenon

\* So does a command nobody waits for any more.
LEMMA StaleInv ==
  ASSUME IInv, NEW m \in stale, StaleCommand(m)
  PROVE  \A h \in Gxid : Inv(h)'
<1>1. PICK c \in {"commit", "abort"}, g \in Gxid, s \in Seg : m = <<c, g, s>>
  BY DEF IInv, TypeOK
<1>2. /\ TypeOK /\ StateInv(g)
      /\ QeInv(g, s) /\ CmdInv(g, s) /\ VoteInv(g, s) /\ RpcInv(g, s) /\ OutcomeInv(g, s)
  BY Zenon DEF IInv, Inv, PairInv
<1>3. /\ UNCHANGED <<qdVars, walVars, gangVars, mirr, mirrorUp, rpc, rpcCmd, workerVars>>
      /\ \/ prim' = prim
         \/ /\ prim[g][s] = "prepared" /\ ~Busy(g, s)
            /\ prim' = [prim EXCEPT ![g][s] = Outcome(c)]
      /\ <<c, g, s>> \in stale /\ stale' = stale \ {m}
  BY <1>1, ZenonT(60) DEF StaleCommand
<1>4. CellStep(g, s)
  BY <1>2, <1>3 DEF CellStep, SameRow, SameSeg, TypeOK
<1>5. prim[g][s] = "prepared" => IF c = "commit" THEN rec[g] = "flushed" ELSE Doomed(g)
  BY <1>2, <1>3, ZenonT(60) DEF RpcInv, Settled, AllDone, Done, QeInv
<1>6. prim'[g][s] # prim[g][s] => prim[g][s] = "prepared" /\ ~Busy(g, s) /\ prim'[g][s] = Outcome(c)
  BY <1>2, <1>3 DEF TypeOK
<1>7. Done(g, s) => Done(g, s)'
  BY <1>2, <1>3, <1>6, Zenon DEF Done, Durable
<1>8. QeInv(g, s)' /\ CmdInv(g, s)'
  BY <1>2, <1>3, <1>5, <1>6, Zenon DEF QeInv, CmdInv, Busy, Doomed
<1>9. VoteInv(g, s)'
  <2>1. CASE prim[g][s] = "prepared" /\ c = "abort"
    BY <2>1, <1>3, <1>5, Zenon DEF VoteInv, Doomed, AbortState, CommitState
  <2>2. CASE prim[g][s] = "prepared" /\ c = "commit"
    BY <2>2, <1>2, <1>3, <1>6, <1>7, Zenon DEF VoteInv, Kept, Durable, Outcome
  <2>3. CASE prim[g][s] # "prepared"
    BY <2>3, <1>2, <1>3, <1>6, <1>7, Zenon DEF VoteInv, Kept, Durable
  <2>4. QED
    BY <2>1, <2>2, <2>3, Zenon
<1>10. OutcomeInv(g, s)'
  BY <1>2, <1>3, <1>5, <1>6, Zenon DEF OutcomeInv, StateInv, CommitState, Outcome
<1>11. (Settled(g) => Settled(g)') => RpcInv(g, s)'
  BY <1>2, <1>3, <1>6, <1>7, Zenon DEF RpcInv
<1>12. QED
  BY <1>3, <1>4, <1>7, <1>8, <1>9, <1>10, <1>11, CellFrame, ZenonT(60)

\* So does a statement dispatched to a segment (addToGxactDtxSegments).
LEMMA ExecuteInv ==
  ASSUME IInv, NEW g \in Gxid, NEW s \in Seg, Execute(g, s)
  PROVE  \A h \in Gxid : Inv(h)'
<1>1. /\ TypeOK /\ StateInv(g) /\ WorkerInv(g)
      /\ \A t \in Seg : QeInv(g, t) /\ CmdInv(g, t) /\ VoteInv(g, t) /\ RpcInv(g, t) /\ OutcomeInv(g, t)
  BY ZenonT(60) DEF IInv, Inv, PairInv
<1>2. /\ qd[g] = "ACTIVE_DISTRIBUTED"
      /\ UNCHANGED <<qd, walVars, cmd, reply, mirr, mirrorUp, rpcVars, workerVars>>
      /\ segs'[g] = segs[g] \cup {s}
      /\ qe'[g][s] = "writer" /\ prim'[g][s] = "active"
      /\ \A t \in Seg \ {s} : qe'[g][t] = qe[g][t] /\ prim'[g][t] = prim[g][t]
  BY <1>1 DEF Execute, TypeOK
<1>3. rec[g] = "none" /\ ~forgot[g]
  BY <1>1, <1>2, Zenon DEF StateInv, CommitState, TypeOK
<1>4. \A t \in Seg : cmd[g][t] = "none"
  BY <1>1, <1>2, Zenon DEF CmdInv
<1>5. ~Settled(g)
  BY <1>2, <1>3, Zenon DEF Settled, Doomed, AbortState
<1>6. StateInv(g)' /\ WorkerInv(g)'
  BY <1>1, <1>2, <1>3, Zenon DEF StateInv, WorkerInv, CommitState
<1>7. ASSUME NEW t \in Seg PROVE PairInv(g, t)'
  <2>1. QeInv(g, t)'
    BY <1>1, <1>2, Zenon DEF QeInv
  <2>2. CmdInv(g, t)'
    BY <1>1, <1>2, <1>4, Zenon DEF CmdInv
  <2>3. VoteInv(g, t)'
    BY <1>2, <1>3, Zenon DEF VoteInv, CommitState
  <2>4. RpcInv(g, t)'
    BY <1>1, <1>2, <1>3, <1>5, Zenon DEF RpcInv
  <2>5. OutcomeInv(g, t)'
    BY <1>1, <1>2, Zenon DEF OutcomeInv
  <2>6. QED
    BY <2>1, <2>2, <2>3, <2>4, <2>5, Zenon DEF PairInv
<1>8. ASSUME NEW h \in Gxid \ {g} PROVE Inv(h)'
  <2>1. SameRow(h)
    BY <1>1, ZenonT(60) DEF Execute, SameRow, SameSeg, TypeOK
  <2>2. QED
    BY <1>2, <2>1, RowFrame, Zenon DEF IInv, Inv
<1>9. QED
  BY <1>6, <1>7, <1>8, Zenon DEF Inv

-----------------------------------------------------------------------------
(***************************************************************************)
(* Failures of a segment and of the coordinator.                           *)
(***************************************************************************)
\* A step that concerns every transaction on a segment: the processes there may
\* die, and what survives a failover still does.
SegWide(h, t) ==
  /\ t \in segs[h] => (Kept(h, t) => Kept(h, t)') /\ (Done(h, t) => Done(h, t)')
  /\ cmd'[h][t] \in {cmd[h][t], "none"}
  /\ qe'[h][t] = qe[h][t] \/ (qe[h][t] # "none" /\ qe'[h][t] = "dead")
  /\ rpc'[h][t] = rpc[h][t] \/ (rpc[h][t] # "none" /\ rpc'[h][t] = "error")
  /\ prim'[h][t] = prim[h][t] \/ (qe'[h][t] \in {"none", "dead"} /\ rpc'[h][t] # "syncing")
  /\ prim'[h][t] = "committed" => prim[h][t] = "committed" \/ mirr[h][t] = "committed"
  /\ prim[h][t] = "none" /\ mirr[h][t] = "none" => prim'[h][t] = "none"

\* A failure of a segment that keeps what is durable preserves the invariant.
LEMMA SegWideInv ==
  ASSUME IInv,
         UNCHANGED <<qdVars, walVars, reply, mirr, rpcCmd, workerVars>>,
         stale' \subseteq stale,
         \A h \in Gxid, t \in Seg : SegWide(h, t)
  PROVE  \A h \in Gxid : Inv(h)'
<1> SUFFICES ASSUME NEW h \in Gxid PROVE Inv(h)'
  BY Zenon
<1>1. /\ TypeOK /\ StateInv(h) /\ WorkerInv(h)
      /\ \A t \in Seg : QeInv(h, t) /\ CmdInv(h, t) /\ VoteInv(h, t) /\ RpcInv(h, t) /\ OutcomeInv(h, t)
  BY Zenon DEF IInv, Inv, PairInv
<1>2. \A t \in Seg : t \in segs[h] => (Kept(h, t) => Kept(h, t)') /\ (Done(h, t) => Done(h, t)')
  BY Zenon DEF SegWide
<1>3. AllDone(h) => AllDone(h)'
  BY <1>1, <1>2, Zenon DEF AllDone, TypeOK
<1>4. (Doomed(h)' <=> Doomed(h)) /\ (Settled(h) => Settled(h)')
  BY <1>3, Zenon DEF Doomed, Settled
<1>5. StateInv(h)'
  BY <1>1, <1>3, Zenon DEF StateInv
<1>6. WorkerInv(h)'
  <2>1. \A t \in Seg : rpc[h][t] # "none" => rpc'[h][t] # "none"
    BY Zenon DEF SegWide
  <2>2. QED
    BY <1>1, <1>3, <2>1, Zenon DEF WorkerInv
<1>7. ASSUME NEW t \in Seg PROVE PairInv(h, t)'
  <2>1. QeInv(h, t)'
    BY <1>1 DEF QeInv, SegWide
  <2>2. CmdInv(h, t)'
    BY <1>1, <1>4 DEF CmdInv, SegWide
  <2>3. VoteInv(h, t)'
    BY <1>1, <1>2, ZenonT(60) DEF VoteInv, SegWide
  <2>4. RpcInv(h, t)'
    BY <1>1, <1>2, <1>4 DEF RpcInv, SegWide
  <2>5. OutcomeInv(h, t)'
    BY <1>1, ZenonT(60) DEF OutcomeInv, SegWide
  <2>6. QED
    BY <2>1, <2>2, <2>3, <2>4, <2>5, ZenonT(60) DEF PairInv
<1>8. QED
  BY <1>5, <1>6, <1>7, Zenon DEF Inv

\* The loss of a mirror, the restart of a primary and a failover do so.
LEMMA SegmentFailureInv ==
  ASSUME IInv, NEW s \in Seg, MirrorDown(s) \/ SegReset(s) \/ Failover(s)
  PROVE  \A h \in Gxid : Inv(h)'
<1>1. TypeOK
  BY Zenon DEF IInv
<1>2. CASE MirrorDown(s)
  <2>1. \A h \in Gxid, t \in Seg : SegWide(h, t)
    BY <1>1, <1>2 DEF MirrorDown, TypeOK, SegWide, Kept, Done, Durable
  <2>2. QED
    BY <1>2, <2>1, SegWideInv, ZenonT(60) DEF MirrorDown
<1>3. ASSUME KillProcesses(s) PROVE /\ stale' \subseteq stale
                                    /\ UNCHANGED <<reply, rpcCmd>>
  BY <1>3, Zenon DEF KillProcesses
<1>4. ASSUME KillProcesses(s), NEW h \in Gxid, NEW t \in Seg
      PROVE  /\ cmd'[h][t] \in {cmd[h][t], "none"}
             /\ qe'[h][t] = qe[h][t] \/ (qe[h][t] # "none" /\ qe'[h][t] = "dead")
             /\ rpc'[h][t] = rpc[h][t] \/ (rpc[h][t] # "none" /\ rpc'[h][t] = "error")
             /\ t = s => qe'[h][t] \in {"none", "dead"} /\ rpc'[h][t] # "syncing"
  BY <1>1, <1>4, ZenonT(60) DEF KillProcesses, TypeOK
<1>5. CASE SegReset(s)
  <2>1. ASSUME NEW h \in Gxid, NEW t \in Seg
        PROVE  prim'[h][t] = IF t = s THEN AfterExit(prim[h][t]) ELSE prim[h][t]
    BY <1>1, <1>5, Zenon DEF SegReset, TypeOK
  <2>2. UNCHANGED <<mirr, mirrorUp>> /\ KillProcesses(s)
    BY <1>5, ZenonT(60) DEF SegReset
  <2>3. ASSUME NEW h \in Gxid, NEW t \in Seg PROVE SegWide(h, t)
    <3>1. CASE t = s
      <4>1. prim'[h][t] = AfterExit(prim[h][t])
        BY Zenon, <2>1, <3>1
      <4> QED BY <1>4, <2>2, <3>1, <4>1 DEF SegWide, Kept, Done, Durable, AfterExit
    <3>2. CASE t # s
      <4>1. prim'[h][t] = prim[h][t]
        BY Zenon, <2>1, <3>2
      <4> QED BY <1>4, <2>2, <4>1, Zenon DEF SegWide, Kept, Done, Durable
    <3> QED BY ZenonT(60), <3>1, <3>2
  <2>4. QED
    BY <1>3, <1>5, <2>2, <2>3, SegWideInv, Zenon DEF SegReset
<1>6. CASE Failover(s)
  <2>1. ASSUME NEW h \in Gxid, NEW t \in Seg
        PROVE  /\ prim'[h][t] = IF t = s THEN Promoted(prim[h][t], mirr[h][t]) ELSE prim[h][t]
               /\ mirrorUp'[t] = IF t = s THEN FALSE ELSE mirrorUp[t]
    BY <1>1, <1>6, ZenonT(60) DEF Failover, TypeOK
  <2>2. UNCHANGED mirr /\ KillProcesses(s) /\ mirrorUp[s]
    BY <1>6, Zenon DEF Failover
  <2>3. ASSUME NEW h \in Gxid, NEW t \in Seg PROVE SegWide(h, t)
    <3>1. CASE t = s
      <4>1. prim'[h][t] = Promoted(prim[h][t], mirr[h][t]) /\ Durable(h, t) = mirr[h][t]
            /\ Durable(h, t)' = prim'[h][t]
        BY <2>1, <2>2, <3>1, Zenon DEF Durable
      <4>2. (Kept(h, t) => Kept(h, t)') /\ (Done(h, t) => Done(h, t)')
        BY <4>1, Zenon DEF Kept, Done, Promoted
      <4>3. QED
        BY <1>4, <2>2, <3>1, <4>1, <4>2, Zenon DEF SegWide, Promoted
    <3>2. CASE t # s
      <4>1. (Kept(h, t) <=> Kept(h, t)') /\ (Done(h, t) <=> Done(h, t)')
        BY <2>1, <2>2, <3>2, ZenonT(60) DEF Kept, Done, Durable
      <4>2. prim'[h][t] = prim[h][t] /\ KillProcesses(s)
        BY <2>1, <2>2, <3>2, Zenon
      <4>3. /\ cmd'[h][t] \in {cmd[h][t], "none"}
            /\ qe'[h][t] = qe[h][t] \/ (qe[h][t] # "none" /\ qe'[h][t] = "dead")
            /\ rpc'[h][t] = rpc[h][t] \/ (rpc[h][t] # "none" /\ rpc'[h][t] = "error")
        BY <1>4, <4>2, Zenon
      <4>4. QED
        BY ONLY <4>1, <4>2, <4>3, Zenon DEF SegWide
    <3>3. QED
      BY <3>1, <3>2, Zenon
  <2>4. QED
    BY <1>3, <1>6, <2>2, <2>3, SegWideInv, ZenonT(60) DEF Failover
<1>7. QED
  BY <1>2, <1>5, <1>6, Zenon

-----------------------------------------------------------------------------
(***************************************************************************)
(* The recovery worker.                                                    *)
(***************************************************************************)
\* The worker stops waiting for its round of commands.
LEMMA WorkerRpcEnd ==
  ASSUME IInv, NEW g \in Gxid, qd[g] = "NONE", RpcEnd(g), UNCHANGED <<qdVars, gangVars, segVars, rec>>,
         forgot'[g] = forgot[g] \/ (forgot'[g] /\ rec[g] = "flushed" /\ AllDone(g)),
         \A h \in Gxid \ {g} : forgot'[h] = forgot[h]
  PROVE  /\ \A h \in Gxid : StateInv(h)' /\ \A t \in Seg : PairInv(h, t)'
         /\ \A h \in Gxid : AllDone(h)' <=> AllDone(h)
         /\ \A h \in Gxid \ {g} : rpc'[h] = rpc[h] /\ rpcCmd'[h] = rpcCmd[h]
<1>1. /\ TypeOK /\ StateInv(g)
      /\ \A t \in Seg : QeInv(g, t) /\ CmdInv(g, t) /\ VoteInv(g, t) /\ RpcInv(g, t) /\ OutcomeInv(g, t)
  BY Zenon DEF IInv, Inv, PairInv
<1>2. ASSUME NEW h \in Gxid PROVE SameSeg(h)
  BY Zenon DEF SameSeg
<1>3. /\ \A h \in Gxid : AllDone(h)' <=> AllDone(h)
      /\ \A t \in Seg : (Kept(g, t)' <=> Kept(g, t)) /\ (Done(g, t)' <=> Done(g, t))
  BY <1>2, SegFrame, Zenon
<1>4. (Doomed(g)' <=> Doomed(g)) /\ (Settled(g)' <=> Settled(g))
  BY <1>3, Zenon DEF Doomed, Settled
<1>5. ASSUME NEW h \in Gxid \ {g} PROVE SameRow(h)
  BY <1>1, <1>2, Zenon DEF SameRow, RpcEnd, Abandoned, TypeOK
<1>6. \A h \in Gxid \ {g} : rpc'[h] = rpc[h] /\ rpcCmd'[h] = rpcCmd[h]
  BY <1>5, Zenon DEF SameRow
<1>7. StateInv(g)'
  BY <1>1, <1>3, Zenon DEF StateInv
<1>8. ASSUME NEW t \in Seg PROVE PairInv(g, t)'
  <2>1. QeInv(g, t)' /\ CmdInv(g, t)' /\ VoteInv(g, t)' /\ OutcomeInv(g, t)'
    BY <1>1, <1>3, <1>4, ZenonT(60) DEF QeInv, CmdInv, VoteInv, OutcomeInv
  <2>2. rpc'[g][t] = "none" /\ rpcCmd'[g] = rpcCmd[g]
        /\ \A c \in {"commit", "abort"} :
             <<c, g, t>> \in stale' => <<c, g, t>> \in stale \/ (c = rpcCmd[g] /\ rpc[g][t] = "sent")
    BY <1>1 DEF RpcEnd, Abandoned, TypeOK
  <2>3. RpcInv(g, t)'
    BY <1>1, <1>4, <2>2, Zenon DEF RpcInv
  <2>4. QED
    BY <2>1, <2>3, Zenon DEF PairInv
<1>9. ASSUME NEW h \in Gxid \ {g} PROVE StateInv(h)' /\ \A t \in Seg : PairInv(h, t)'
  BY <1>5, RowFrame, Zenon DEF IInv
<1>10. QED
  BY <1>3, <1>6, <1>7, <1>8, <1>9, Zenon

\* The worker sends a round of commands for a transaction that is over.
LEMMA WorkerRpc ==
  ASSUME IInv, NEW g \in Gxid, qd[g] = "NONE", UNCHANGED <<workerIdle, walVars>>,
         NEW c \in {"commit", "abort"}, Rpc(g, c, Seg),
         IF c = "commit" THEN rec[g] = "flushed" ELSE Settled(g)
  PROVE  /\ \A h \in Gxid : StateInv(h)' /\ \A t \in Seg : PairInv(h, t)'
         /\ \A h \in Gxid : AllDone(h)' <=> AllDone(h)
         /\ rpcCmd'[g] = c /\ \A t \in Seg : rpc'[g][t] = "sent"
         /\ \A h \in Gxid \ {g} : rpc'[h] = rpc[h] /\ rpcCmd'[h] = rpcCmd[h]
<1>1. /\ TypeOK /\ StateInv(g)
      /\ \A t \in Seg : QeInv(g, t) /\ CmdInv(g, t) /\ VoteInv(g, t) /\ RpcInv(g, t) /\ OutcomeInv(g, t)
  BY Zenon DEF IInv, Inv, PairInv
<1>2. ASSUME NEW h \in Gxid PROVE SameSeg(h)
  BY Zenon DEF SameSeg
<1>3. /\ \A h \in Gxid : AllDone(h)' <=> AllDone(h)
      /\ \A t \in Seg : (Kept(g, t)' <=> Kept(g, t)) /\ (Done(g, t)' <=> Done(g, t))
  BY <1>2, SegFrame, Zenon
<1>4. (Doomed(g)' <=> Doomed(g)) /\ (Settled(g)' <=> Settled(g))
  BY <1>3, Zenon DEF Doomed, Settled
<1>5. ASSUME NEW h \in Gxid \ {g} PROVE SameRow(h)
  BY <1>1, <1>2, Zenon DEF SameRow, Rpc, TypeOK
<1>6. rpcCmd'[g] = c /\ stale' = stale /\ \A t \in Seg : rpc'[g][t] = "sent"
  BY <1>1, Zenon DEF Rpc, TypeOK
<1>7. \A h \in Gxid \ {g} : rpc'[h] = rpc[h] /\ rpcCmd'[h] = rpcCmd[h]
  BY <1>5, Zenon DEF SameRow
<1>8. StateInv(g)'
  BY <1>1, <1>3, Zenon DEF StateInv
<1>9. ASSUME NEW t \in Seg PROVE PairInv(g, t)'
  <2>1. QeInv(g, t)' /\ CmdInv(g, t)' /\ VoteInv(g, t)' /\ OutcomeInv(g, t)'
    BY <1>1, <1>3, <1>4, Zenon DEF QeInv, CmdInv, VoteInv, OutcomeInv
  <2>2. RpcInv(g, t)'
    BY <1>1, <1>4, <1>6, Zenon DEF RpcInv
  <2>3. QED
    BY <2>1, <2>2, Zenon DEF PairInv
<1>10. ASSUME NEW h \in Gxid \ {g} PROVE StateInv(h)' /\ \A t \in Seg : PairInv(h, t)'
  BY <1>5, RowFrame, Zenon DEF IInv
<1>11. QED
  BY <1>3, <1>6, <1>7, <1>8, <1>9, <1>10, Zenon

\* A step of the worker that sends nothing.
LEMMA WorkerQuiet ==
  ASSUME IInv, UNCHANGED <<workerIdle, walVars, rpcVars>>
  PROVE  /\ \A h \in Gxid : StateInv(h)' /\ \A t \in Seg : PairInv(h, t)'
         /\ \A h \in Gxid : AllDone(h)' <=> AllDone(h)
<1>1. ASSUME NEW h \in Gxid PROVE SameRow(h)
  BY Zenon DEF SameRow, SameSeg
<1>2. QED
  BY <1>1, RowFrame, SegFrame, Zenon DEF IInv, SameRow

\* The steps of the dtx recovery worker preserve the invariant.
LEMMA RecoveryInv ==
  ASSUME IInv, Worker
  PROVE  \A h \in Gxid : Inv(h)'
<1>1. TypeOK /\ \A h \in Gxid : StateInv(h) /\ WorkerInv(h)
  BY Zenon DEF IInv, Inv
<1> USE DEF WorkerInv
<1>2. ASSUME NEW g \in Gxid, RecoverCommit(g) PROVE \A h \in Gxid : Inv(h)'
  <2>1. qd[g] = "NONE" /\ rec[g] = "flushed"
    BY <1>1, <1>2, Zenon DEF RecoverCommit
  <2>2. UNCHANGED <<workerIdle, walVars>> /\ Rpc(g, "commit", Seg)
    BY <1>2, Zenon DEF RecoverCommit
  <2>3. /\ \A h \in Gxid : StateInv(h)' /\ \A t \in Seg : PairInv(h, t)'
        /\ \A h \in Gxid : AllDone(h)' <=> AllDone(h)
        /\ rpcCmd'[g] = "commit" /\ \A t \in Seg : rpc'[g][t] = "sent"
    BY <2>1, <2>2, WorkerRpc, Zenon
  <2>4. ASSUME NEW h \in Gxid PROVE WorkerInv(h)'
    BY <1>1, <1>2, <2>1, <2>3, Zenon DEF RecoverCommit, WorkerStartup
  <2>5. QED
    BY <2>3, <2>4, Zenon DEF Inv
<1>3. ASSUME NEW g \in Gxid, RecoverForget(g) PROVE \A h \in Gxid : Inv(h)'
  <2>1. qd[g] = "NONE" /\ rec[g] = "flushed" /\ rpcCmd[g] = "commit" /\ \A t \in Seg : rpc[g][t] = "ok"
    BY <1>1, <1>3, Zenon DEF RecoverForget, RpcOk
  <2>2. AllDone(g)
    <3>1. segs[g] \subseteq Seg
      BY <1>1, Zenon DEF TypeOK
    <3>2. \A t \in Seg : RpcInv(g, t)
      BY Zenon DEF IInv, Inv, PairInv
    <3>3. QED
      BY <2>1, <3>1, <3>2, Zenon DEF RpcInv, AllDone
  <2>3. /\ UNCHANGED <<workerIdle, rec>> /\ RpcEnd(g)
        /\ forgot'[g] /\ \A h \in Gxid \ {g} : forgot'[h] = forgot[h]
    BY <1>1, <1>3, Zenon DEF RecoverForget, TypeOK
  <2>4. /\ \A h \in Gxid : StateInv(h)' /\ \A t \in Seg : PairInv(h, t)'
        /\ \A h \in Gxid : AllDone(h)' <=> AllDone(h)
    BY <2>1, <2>2, <2>3, WorkerRpcEnd, Zenon
  <2>5. ASSUME NEW h \in Gxid PROVE WorkerInv(h)'
    BY <1>1, <1>3, <2>1, <2>2, <2>4, NoGxidAssumption, ZenonT(60) DEF RecoverForget, WorkerStartup
  <2>6. QED
    BY <2>4, <2>5, Zenon DEF Inv
<1>4. ASSUME NEW g \in Gxid, RecoverFail(g) PROVE \A h \in Gxid : Inv(h)'
  <2>1. qd[g] = "NONE" /\ UNCHANGED <<workerIdle, rec, forgot>> /\ RpcEnd(g)
    BY <1>1, <1>4, Zenon DEF RecoverFail
  <2>2. /\ \A h \in Gxid : StateInv(h)' /\ \A t \in Seg : PairInv(h, t)'
        /\ \A h \in Gxid : AllDone(h)' <=> AllDone(h)
    BY <2>1, WorkerRpcEnd, Zenon
  <2>3. ASSUME NEW h \in Gxid PROVE WorkerInv(h)'
    BY <1>1, <1>4, <2>2, NoGxidAssumption, Zenon DEF RecoverFail, WorkerStartup
  <2>4. QED
    BY <2>2, <2>3, Zenon DEF Inv
<1>5. ASSUME NEW g \in Gxid, RecoverAbort(g) PROVE \A h \in Gxid : Inv(h)'
  <2>1. qd[g] = "NONE"
    BY <1>1, <1>5, Zenon DEF RecoverAbort, MayAbort, Live, WorkerStartup, TypeOK, DtxState
  <2>2. Settled(g)
    <3>1. rec[g] \in {"none", "flushed"}
      BY <1>1, <2>1, Zenon DEF StateInv, TypeOK
    <3>2. QED
      BY <1>1, <1>5, <2>1, <3>1, Zenon DEF RecoverAbort, Settled, Doomed
  <2>3. UNCHANGED <<workerIdle, walVars>> /\ Rpc(g, "abort", Seg)
    BY <1>5, Zenon DEF RecoverAbort
  <2>4. /\ \A h \in Gxid : StateInv(h)' /\ \A t \in Seg : PairInv(h, t)'
        /\ \A h \in Gxid : AllDone(h)' <=> AllDone(h)
    BY <2>1, <2>2, <2>3, WorkerRpc, Zenon
  <2>5. ASSUME NEW h \in Gxid PROVE WorkerInv(h)'
    BY <1>1, <1>5, <2>1, <2>4, Zenon DEF RecoverAbort, WorkerStartup
  <2>6. QED
    BY <2>4, <2>5, Zenon DEF Inv
<1>6. ASSUME NEW g \in Gxid, RecoverNext(g) PROVE \A h \in Gxid : Inv(h)'
  <2>1. UNCHANGED <<workerIdle, rec, forgot>>
    BY <1>6, Zenon DEF RecoverNext
  <2>2. /\ \A h \in Gxid : StateInv(h)' /\ \A t \in Seg : PairInv(h, t)'
        /\ \A h \in Gxid : AllDone(h)' <=> AllDone(h)
    <3>1. CASE cur = g /\ RpcEnd(g)
      BY <1>1, <2>1, <3>1, WorkerRpcEnd, Zenon
    <3>2. CASE UNCHANGED rpcVars
      BY <2>1, <3>2, WorkerQuiet, Zenon
    <3>3. QED
      BY <1>6, <3>1, <3>2, Zenon DEF RecoverNext
  <2>3. ASSUME NEW h \in Gxid PROVE WorkerInv(h)'
    BY <1>1, <1>6, <2>2, NoGxidAssumption, Zenon DEF RecoverNext, WorkerStartup
  <2>4. QED
    BY <2>2, <2>3, Zenon DEF Inv
<1>7. ASSUME \/ \E s \in Seg : Gather(s)
             \/ RecoverNotified \/ GatherDone \/ RecoverDone \/ OrphanCheck
      PROVE  \A h \in Gxid : Inv(h)'
  <2>1. UNCHANGED <<workerIdle, walVars, rpcVars, cur>>
    BY <1>7, Zenon DEF Gather, RecoverNotified, GatherDone, RecoverDone, OrphanCheck
  <2>2. /\ \A h \in Gxid : StateInv(h)' /\ \A t \in Seg : PairInv(h, t)'
        /\ \A h \in Gxid : AllDone(h)' <=> AllDone(h)
    BY <2>1, WorkerQuiet, Zenon
  <2>3. ASSUME NEW h \in Gxid PROVE WorkerInv(h)'
    <3>1. ASSUME NEW s \in Seg, Gather(s) PROVE WorkerInv(h)'
      <4>1. prim[h][s] = "prepared" => qd[h] # "UNBORN"
        BY ZenonT(60) DEF IInv, Inv, PairInv, StateInv, QeInv
      <4>2. QED
        BY <1>1, <2>2, <3>1, <4>1, ZenonT(60) DEF Gather
    <3>2. CASE RecoverNotified
      BY <1>1, <2>2, <3>2, NoGxidAssumption, Zenon DEF RecoverNotified, WorkerStartup
    <3>3. CASE GatherDone
      BY <1>1, <2>2, <3>3, Zenon DEF GatherDone, WorkerStartup
    <3>4. CASE RecoverDone \/ OrphanCheck
      BY <1>1, <2>2, <3>4, Zenon DEF RecoverDone, OrphanCheck, WorkerStartup
    <3>5. QED
      BY <1>7, <3>1, <3>2, <3>3, <3>4, ZenonT(60)
  <2>4. QED
    BY <2>2, <2>3, Zenon DEF Inv
<1>8. QED
  BY <1>2, <1>3, <1>4, <1>5, <1>6, <1>7, Zenon DEF Worker

\* So does the exit of the worker in the middle of a round.
LEMMA WorkerExitInv ==
  ASSUME IInv, WorkerExit
  PROVE  \A h \in Gxid : Inv(h)'
<1>1. TypeOK /\ \A h \in Gxid : WorkerInv(h)
  BY Zenon DEF IInv, Inv
<1>2. UNCHANGED <<qdVars, walVars, gangVars, segVars, committed>> /\ cur' = NoGxid /\ notified' = {}
      /\ indoubt' = {} /\ rp' = IF rp \in WorkerStartup THEN "notify" ELSE "idle"
  BY Zenon DEF WorkerExit
<1>3. /\ \A h \in Gxid : StateInv(h)' /\ \A t \in Seg : PairInv(h, t)'
      /\ \A h \in Gxid : AllDone(h)' <=> AllDone(h)
  <2>1. ASSUME NEW h \in Gxid PROVE SameSeg(h)
    BY <1>2, Zenon DEF SameSeg
  <2>2. \A h \in Gxid : AllDone(h)' <=> AllDone(h)
    BY <2>1, SegFrame, Zenon
  <2>3. CASE cur = NoGxid
    <3>1. ASSUME NEW h \in Gxid PROVE SameRow(h)
      BY <1>2, <2>1, <2>3, Zenon DEF SameRow, WorkerExit
    <3>2. QED
      BY <3>1, <2>2, RowFrame, Zenon DEF IInv
  <2>4. CASE cur \in Gxid
    <3>1. RpcEnd(cur) /\ qd[cur] = "NONE" /\ forgot' = forgot
      BY <1>1, <1>2, <2>4, NoGxidAssumption, Zenon DEF WorkerExit, WorkerInv
    <3>2. QED
      BY <1>2, <2>2, <2>4, <3>1, WorkerRpcEnd, Zenon
  <2>5. QED
    BY <1>1, <2>3, <2>4, Zenon DEF TypeOK
<1>4. ASSUME NEW h \in Gxid PROVE WorkerInv(h)'
  BY <1>1, <1>2, <1>3, NoGxidAssumption, Zenon DEF WorkerInv, WorkerStartup
<1>5. QED
  BY <1>3, <1>4, Zenon DEF Inv

\* So does a crash of the coordinator: the WAL keeps what was flushed.
LEMMA CrashInv ==
  ASSUME IInv, Crash
  PROVE  \A h \in Gxid : Inv(h)'
<1>1. PICK kept \in SUBSET {g \in Gxid : rec[g] = "inserted"},
           forgotten \in SUBSET {g \in Gxid : forgot[g]} :
        /\ rec' = [g \in Gxid |-> IF rec[g] = "flushed" \/ g \in kept THEN "flushed" ELSE "none"]
        /\ forgot' = [g \in Gxid |-> g \in forgotten]
        /\ committed' = {g \in Gxid : (rec[g] = "flushed" \/ g \in kept) /\ g \notin forgotten}
  BY Zenon DEF Crash
<1> SUFFICES ASSUME NEW h \in Gxid PROVE Inv(h)'
  BY Zenon
<1>2. /\ TypeOK /\ StateInv(h)
      /\ \A t \in Seg : QeInv(h, t) /\ CmdInv(h, t) /\ VoteInv(h, t) /\ RpcInv(h, t) /\ OutcomeInv(h, t)
  BY Zenon DEF IInv, Inv, PairInv
<1>3. /\ rec'[h] = IF rec[h] = "flushed" \/ h \in kept THEN "flushed" ELSE "none"
      /\ h \in kept => rec[h] = "inserted"
      /\ forgot'[h] => forgot[h] /\ h \in forgotten
      /\ h \in committed' <=> (rec[h] = "flushed" \/ h \in kept) /\ h \notin forgotten
      /\ h \in forgotten => forgot[h]
  BY <1>1, Zenon
<1>4. /\ qd'[h] = IF qd[h] = "UNBORN" THEN "UNBORN" ELSE "NONE"
      /\ \A t \in Seg : rpc'[h][t] = "none" /\ reply'[h][t] = "none"
      /\ rp' = "notify" /\ cur' = NoGxid /\ notified' = {} /\ indoubt' = {}
      /\ UNCHANGED <<segs, wrote, cmd, qe, prim, mirr, mirrorUp, rpcCmd>>
  BY Zenon DEF Crash
<1>5. \A c \in {"commit", "abort"}, t \in Seg :
        <<c, h, t>> \in stale' => <<c, h, t>> \in stale \/ (c = rpcCmd[h] /\ rpc[h][t] = "sent")
  <2>1. stale' = stale \cup UNION {Abandoned(g) : g \in Gxid}
    BY Zenon DEF Crash
  <2>2. QED
    BY <2>1 DEF Abandoned
<1>6. SameSeg(h)
  BY <1>4, Zenon DEF SameSeg
<1>7. /\ \A t \in Seg : (Kept(h, t)' <=> Kept(h, t)) /\ (Done(h, t)' <=> Done(h, t))
      /\ AllDone(h)' <=> AllDone(h)
  BY <1>6, SegFrame, Zenon
<1>8. rec[h] # "none" => qd[h] # "UNBORN"
  BY <1>2, Zenon DEF StateInv, CommitState
<1>9. Doomed(h) => Doomed(h)'
  BY <1>3, <1>4, Zenon DEF Doomed, AbortState
<1>10. Settled(h) => Settled(h)'
  BY <1>3, <1>7, <1>9, Zenon DEF Settled
<1>11. StateInv(h)'
  BY <1>2, <1>3, <1>4, <1>7, <1>8, Zenon DEF StateInv, CommitState
<1>12. WorkerInv(h)'
  BY <1>2, <1>3, <1>4, <1>7, <1>8, NoGxidAssumption, ZenonT(60) DEF WorkerInv, StateInv, WorkerStartup
<1>13. ASSUME NEW t \in Seg PROVE PairInv(h, t)'
  <2>1. QeInv(h, t)' /\ CmdInv(h, t)'
    BY <1>2, <1>3, <1>4, <1>9, ZenonT(60) DEF QeInv, CmdInv
  <2>2. VoteInv(h, t)'
    BY <1>2, <1>3, <1>4, <1>7, Zenon DEF VoteInv, CommitState
  <2>3. RpcInv(h, t)'
    BY <1>2, <1>3, <1>4, <1>5, <1>10, ZenonT(60) DEF RpcInv
  <2>4. OutcomeInv(h, t)'
    BY <1>2, <1>3, <1>4, Zenon DEF OutcomeInv
  <2>5. QED
    BY <2>1, <2>2, <2>3, <2>4, Zenon DEF PairInv
<1>14. QED
  BY <1>11, <1>12, <1>13, Zenon DEF Inv

-----------------------------------------------------------------------------
(***************************************************************************)
(* The theorems.                                                           *)
(***************************************************************************)
\* The invariant holds initially.
LEMMA InvInit == Init => IInv
<1> SUFFICES ASSUME Init PROVE \A g \in Gxid : Inv(g)
  BY TypeInit, Zenon DEF IInv
<1>1. ASSUME NEW g \in Gxid PROVE StateInv(g) /\ WorkerInv(g)
  BY NoGxidAssumption, Zenon DEF Init, StateInv, WorkerInv, WorkerStartup, CommitState
<1>2. ASSUME NEW g \in Gxid, NEW s \in Seg PROVE PairInv(g, s)
  BY Zenon DEF Init, PairInv, QeInv, CmdInv, VoteInv, RpcInv, OutcomeInv, CommitState
<1>3. QED
  BY <1>1, <1>2, Zenon DEF Inv

\* The invariant is inductive.
LEMMA InvStep == IInv /\ [Next]_vars => IInv'
<1> SUFFICES ASSUME IInv, [Next]_vars PROVE IInv'
  BY Zenon
<1>1. CASE UNCHANGED vars
  <2>1. TypeOK'
    BY <1>1, Zenon DEF IInv, TypeOK, vars
  <2>2. ASSUME NEW h \in Gxid PROVE SameRow(h) /\ UNCHANGED workerVars
    BY <1>1, Zenon DEF vars, SameRow, SameSeg
  <2>3. QED
    BY <2>1, <2>2, RowFrame, Zenon DEF IInv, Inv
<1>2. CASE Next
  <2>1. TypeOK'
    BY <1>2, TypeBegin, TypeBackend, TypeSegment, TypeWorker, TypeFailure, Zenon DEF IInv, Next
  <2>2. \A h \in Gxid : Inv(h)'
    BY ZenonT(60), <1>2, BackendInv, ExecuteInv, CellInv, StaleInv, RecoveryInv, WorkerExitInv,
       SegmentFailureInv, CrashInv DEF Next, Failure
  <2>3. QED
    BY <2>1, <2>2, Zenon DEF IInv
<1>3. QED
  BY <1>1, <1>2, Zenon

\* The inductive invariant holds in every reachable state.
THEOREM Invariance == Spec => []IInv
BY InvInit, InvStep, PTL DEF Spec

\* No transaction that wrote is committed on one segment and aborted on another,
\* for any number of transactions, segments, segment failures, failovers and
\* coordinator crashes.
THEOREM AtomicityHolds == Spec => []Atomicity
<1>1. IInv => Atomicity
  <2> SUFFICES ASSUME IInv, NEW g \in Gxid, wrote[g], NEW s \in Seg, NEW t \in Seg,
                      prim[g][s] = "committed", prim[g][t] = "aborted"
               PROVE  FALSE
    BY Zenon DEF Atomicity
  <2>1. t \in segs[g] /\ s \in segs[g]
    BY Zenon DEF IInv, Inv, PairInv, QeInv
  <2>2. rec[g] = "flushed"
    BY <2>1, Zenon DEF IInv, Inv, PairInv, OutcomeInv
  <2>3. QED
    BY <2>1, <2>2, Zenon DEF IInv, Inv, PairInv, VoteInv, Kept
<1>2. QED
  BY Invariance, <1>1, PTL

\* A forget record exists only when every participant's commit is durable.
THEOREM ForgetIsSafeHolds == Spec => []ForgetIsSafe
<1>1. IInv => ForgetIsSafe
  BY Zenon DEF IInv, Inv, StateInv, AllDone, Done, ForgetIsSafe
<1>2. QED
  BY Invariance, <1>1, PTL

\* A commit record exists only when every participant's PREPARE is durable.
THEOREM CommitNeedsAllPreparedHolds == Spec => []CommitNeedsAllPrepared
<1>1. IInv => CommitNeedsAllPrepared
  BY ZenonT(60) DEF IInv, TypeOK, Inv, PairInv, VoteInv, Kept, CommitNeedsAllPrepared
<1>2. QED
  BY Invariance, <1>1, PTL

\* An abort still in flight never finds a recorded commit that is not complete.
THEOREM NoAbortAfterCommitHolds == Spec => []NoAbortAfterCommit
<1>1. IInv => NoAbortAfterCommit
  BY Zenon DEF IInv, Inv, PairInv, RpcInv, Settled, Doomed, AllDone, Done, NoAbortAfterCommit
<1>2. QED
  BY Invariance, <1>1, PTL

-----------------------------------------------------------------------------
(***************************************************************************)
(* The commands a writer QE meets.                                         *)
(***************************************************************************)
\* A command is sent only over a link that is up, to a QE that has answered the
\* command before; a QE that has voted and is still linked has the context that
\* its vote implies.
GangInv(g, s) ==
  /\ cmd[g][s] \in {"PREPARE", "COMMIT_ONEPHASE"} => qe[g][s] = "writer"
  /\ cmd[g][s] \in {"COMMIT_PREPARED", "ABORT_PREPARED"} => qe[g][s] = "prepared"
  /\ cmd[g][s] = "ABORT_SOME_PREPARED" => qe[g][s] \in {"prepared", "local"}
  /\ reply[g][s] # "none" => cmd[g][s] = "none"
  /\ link[g][s] =>
       /\ s \in segs[g]
       /\ qd[g] = "ACTIVE_DISTRIBUTED" => qe[g][s] = "writer"
       /\ qe[g][s] \in {"preparing", "finishing"} => cmd[g][s] = "none" /\ reply[g][s] = "none"
       /\ qd[g] = "PREPARING" /\ reply[g][s] = "ok" => qe[g][s] = "prepared"
       /\ qd[g] = "PREPARING" /\ reply[g][s] = "error" => qe[g][s] = "local"
       /\ qd[g] \in {"PREPARED", "INSERTED_COMMITTED"} => qe[g][s] = "prepared" /\ cmd[g][s] = "none"

GInv == \A g \in Gxid, s \in Seg : GangInv(g, s)

\* A step that leaves the writer gang of a transaction alone.
SameGang(h, t) ==
  /\ segs[h] \subseteq segs'[h] /\ qd'[h] = qd[h]
  /\ qe'[h][t] = qe[h][t] /\ link'[h][t] = link[h][t]
  /\ cmd'[h][t] = cmd[h][t] /\ reply'[h][t] = reply[h][t]

\* Such a step preserves the invariant.
LEMMA GangFrame ==
  ASSUME NEW h \in Gxid, NEW t \in Seg, GangInv(h, t), SameGang(h, t)
  PROVE  GangInv(h, t)'
BY Zenon DEF GangInv, SameGang

\* What a step of the backend does to its gang.
GangKept(g) ==
  \A t \in Seg : link'[g][t] = link[g][t] /\ cmd'[g][t] = cmd[g][t] /\ reply'[g][t] = reply[g][t]
GangCut(g) ==
  \A t \in Seg : ~link'[g][t] /\ cmd'[g][t] = cmd[g][t] /\ reply'[g][t] = "none"
GangSent(g, c) ==
  \A t \in Seg : /\ link'[g][t] = link[g][t] /\ reply'[g][t] = "none"
                 /\ cmd'[g][t] = IF t \in segs[g] /\ link[g][t] THEN c ELSE cmd[g][t]

\* A step of the backend of g preserves the invariant of its gang.
LEMMA GangBackend ==
  ASSUME IInv, GInv, NEW g \in Gxid, Begin(g) \/ Backend(g) \/ BackendExit(g)
  PROVE  GInv'
<1>1. TypeOK /\ UNCHANGED <<segs, wrote, qe, segVars, workerVars>>
  BY BackendFrame, Zenon DEF IInv
<1>2. ASSUME NEW h \in Gxid \ {g}, NEW t \in Seg PROVE GangInv(h, t)'
  <2>1. link'[h] = link[h]
    <3> USE <1>1 DEF TypeOK, Disconnect
    <3>1. CASE Begin(g) \/ Prepare(g) \/ Prepared(g) \/ InsertCommitted(g) \/ FlushCommitted(g)
      BY <3>1, Zenon DEF Begin, Prepare, Prepared, InsertCommitted, FlushCommitted
    <3>2. CASE CommitOnePhase(g) \/ NotifyCommitPrepared(g) \/ InsertForgetCommitted(g) \/ EndCommitted(g)
      BY <3>2, Zenon DEF CommitOnePhase, NotifyCommitPrepared, InsertForgetCommitted, EndCommitted
    <3>3. CASE RetryCommit(g) \/ RetryAbort(g) \/ BackendExit(g)
      BY <3>3, Zenon DEF RetryCommit, RetryAbort, BackendExit
    <3>4. CASE RollbackNoPrepared(g)
      BY <3>4, Zenon DEF RollbackNoPrepared
    <3>5. CASE RollbackPreparing(g) \/ RollbackPrepared(g)
      BY <3>5, Zenon DEF RollbackPreparing, RollbackPrepared
    <3>6. CASE EndAborted(g)
      BY <3>6, Zenon DEF EndAborted
    <3> QED BY <3>1, <3>2, <3>3, <3>4, <3>5, <3>6, Zenon DEF Backend
  <2>2. SameRow(h)
    BY <1>1, BackendFrame, Zenon
  <2> QED BY <2>1, <2>2, GangFrame, Zenon DEF GInv, SameRow, SameSeg, SameGang
<1>3. /\ link' = link /\ cmd' = cmd /\ reply' = reply => GangKept(g)
      /\ Disconnect(g) /\ cmd' = cmd => GangCut(g)
  BY <1>1 DEF TypeOK, Disconnect, GangKept, GangCut
<1>4. ASSUME NEW c \in Command, Dispatch(g, c), link' = link PROVE GangSent(g, c)
  BY <1>1, <1>4, Zenon DEF TypeOK, Dispatch, GangSent
<1>5. \A q \in DtxState : SetQd(g, q) => qd'[g] = q
  BY <1>1, Zenon DEF TypeOK, SetQd
<1>6. LiveState \cup {"NONE"} \subseteq DtxState
  BY Zenon DEF DtxState
<1>7. ASSUME NEW t \in Seg PROVE GangInv(g, t)'
  <2>1. /\ GangInv(g, t) /\ QeInv(g, t) /\ CmdInv(g, t) /\ StateInv(g)
        /\ qe'[g][t] = qe[g][t] /\ segs'[g] = segs[g]
    BY <1>1, Zenon DEF GInv, IInv, Inv, PairInv
  <2>2. CASE Begin(g)
    <3>1. qd[g] = "UNBORN" /\ qd'[g] = "ACTIVE_DISTRIBUTED" /\ GangKept(g)
      BY <1>3, <1>5, <1>6, <2>2, Zenon DEF Begin, LiveState
    <3> QED BY <2>1, <3>1, Zenon DEF GangKept, GangInv, StateInv
  <2>3. CASE CommitOnePhase(g)
    <3>1. /\ qd[g] = "ACTIVE_DISTRIBUTED"
          /\ \/ qd'[g] = "NONE" /\ GangKept(g)
             \/ qd'[g] = "NOTIFYING_ONE_PHASE_COMMIT" /\ GangSent(g, "COMMIT_ONEPHASE")
      BY <1>3, <1>4, <1>5, <1>6, <2>3, Zenon DEF CommitOnePhase, LiveState, Command
    <3> QED BY Zenon, <2>1, <3>1 DEF GangKept, GangSent, GangInv
  <2>4. CASE Prepare(g)
    <3>1. qd[g] = "ACTIVE_DISTRIBUTED" /\ qd'[g] = "PREPARING" /\ GangSent(g, "PREPARE")
      BY <1>4, <1>5, <1>6, <2>4, Zenon DEF Prepare, LiveState, Command
    <3> QED BY Zenon, <2>1, <3>1 DEF GangSent, GangInv
  <2>5. CASE Prepared(g)
    <3>1. /\ qd[g] = "PREPARING" /\ qd'[g] = "PREPARED" /\ GangKept(g)
          /\ \A u \in segs[g] : reply[g][u] = "ok"
      BY <1>3, <1>5, <1>6, <2>5, Zenon DEF Prepared, PrepareVotes, RoundOk, LiveState
    <3> QED BY Zenon, <2>1, <3>1 DEF GangKept, GangInv
  <2>6. CASE InsertCommitted(g)
    <3>1. qd[g] = "PREPARED" /\ qd'[g] = "INSERTED_COMMITTED" /\ GangKept(g)
      BY <1>3, <1>5, <1>6, <2>6, Zenon DEF InsertCommitted, LiveState, CommitState
    <3> QED BY Zenon, <2>1, <3>1 DEF GangKept, GangInv
  <2>7. CASE FlushCommitted(g)
    <3>1. qd'[g] = qd[g] /\ GangKept(g)
      BY <1>3, <2>7, Zenon DEF FlushCommitted
    <3> QED BY <2>1, <3>1, Zenon DEF GangKept, GangInv
  <2>8. CASE NotifyCommitPrepared(g)
    <3>1. /\ qd[g] = "INSERTED_COMMITTED" /\ qd'[g] = "NOTIFYING_COMMIT_PREPARED"
          /\ GangSent(g, "COMMIT_PREPARED")
      BY <1>4, <1>5, <1>6, <2>8, Zenon DEF NotifyCommitPrepared, LiveState, CommitState, Command
    <3> QED BY Zenon, <2>1, <3>1 DEF GangSent, GangInv
  <2>9. CASE InsertForgetCommitted(g)
    <3>1. qd'[g] = "INSERTED_FORGET_COMMITTED" /\ GangKept(g)
      BY <1>3, <1>5, <1>6, <2>9, Zenon DEF InsertForgetCommitted, LiveState, CommitState
    <3> QED BY Zenon, <2>1, <3>1 DEF GangKept, GangInv
  <2>10. CASE RetryCommit(g)
    <3>1. qd'[g] = "RETRY_COMMIT_PREPARED" /\ GangCut(g)
      BY <1>3, <1>5, <1>6, <2>10, Zenon DEF RetryCommit, LiveState, CommitState
    <3> QED BY Zenon, <2>1, <3>1 DEF GangCut, GangInv
  <2>11. CASE EndCommitted(g)
    <3>1. qd'[g] = "NONE" /\ GangKept(g)
      BY <1>3, <1>5, <1>6, <2>11, Zenon DEF EndCommitted
    <3> QED BY Zenon, <2>1, <3>1 DEF GangKept, GangInv
  <2>12. CASE RollbackNoPrepared(g)
    <3>1. /\ \/ qd'[g] = "NONE" /\ GangCut(g)
             \/ qd'[g] = "NOTIFYING_ABORT_NO_PREPARED" /\ GangSent(g, "ABORT_NO_PREPARED")
      BY <1>3, <1>4, <1>5, <1>6, <2>12, Zenon DEF RollbackNoPrepared, LiveState, AbortState, Command
    <3>2. \/ qd[g] = "ACTIVE_DISTRIBUTED"
          \/ t \in segs[g] => reply[g][t] # "none" \/ ~link[g][t]
      BY <2>12, Zenon DEF RollbackNoPrepared, RoundDone
    <3> QED BY Zenon, <2>1, <3>1, <3>2 DEF GangCut, GangSent, GangInv
  <2>13. CASE RollbackPreparing(g)
    <3>1. /\ qd[g] = "PREPARING"
          /\ \/ /\ qd'[g] = "NOTIFYING_ABORT_SOME_PREPARED" /\ GangSent(g, "ABORT_SOME_PREPARED")
                /\ \A u \in segs[g] : reply[g][u] # "none"
             \/ qd'[g] = "RETRY_ABORT_PREPARED" /\ GangCut(g)
      BY <1>3, <1>4, <1>5, <1>6, <2>13, Zenon
         DEF RollbackPreparing, GangMayBeKept, AbortCommand, LiveState, AbortState, Command
    <3>2. reply[g][t] \in {"none", "ok", "error"}
      BY <1>1 DEF TypeOK
    <3> QED BY Zenon, <2>1, <3>1, <3>2 DEF GangCut, GangSent, GangInv
  <2>14. CASE RollbackPrepared(g)
    <3>1. /\ qd[g] = "PREPARED" /\ qd'[g] = "NOTIFYING_ABORT_PREPARED"
          /\ GangSent(g, "ABORT_PREPARED")
      BY <1>4, <1>5, <1>6, <2>14, Zenon DEF RollbackPrepared, AbortCommand, LiveState, AbortState, Command
    <3> QED BY Zenon, <2>1, <3>1 DEF GangSent, GangInv
  <2>15. CASE RetryAbort(g)
    <3>1. qd'[g] = "RETRY_ABORT_PREPARED" /\ GangCut(g)
      BY <1>3, <1>5, <1>6, <2>15, Zenon DEF RetryAbort, LiveState, AbortState
    <3> QED BY Zenon, <2>1, <3>1 DEF GangCut, GangInv
  <2>16. CASE EndAborted(g)
    <3>1. qd'[g] = "NONE" /\ (GangCut(g) \/ GangKept(g))
      BY <1>3, <1>5, <1>6, <2>16, Zenon DEF EndAborted
    <3> QED BY Zenon, <2>1, <3>1 DEF GangCut, GangKept, GangInv
  <2>17. CASE BackendExit(g)
    <3>1. qd'[g] = "NONE" /\ GangCut(g)
      BY <1>3, <1>5, <1>6, <2>17, Zenon DEF BackendExit
    <3> QED BY Zenon, <2>1, <3>1 DEF GangCut, GangInv
  <2> QED BY Zenon, <2>2, <2>3, <2>4, <2>5, <2>6, <2>7, <2>8, <2>9, <2>10, <2>11, <2>12, <2>13,
             <2>14, <2>15, <2>16, <2>17, ZenonT(60) DEF Backend
<1> QED BY <1>2, <1>7, Zenon DEF GInv

\* An assignment to one cell changes no other.
LEMMA Elsewhere ==
  ASSUME NEW S, NEW f \in [Gxid -> [Seg -> S]], NEW e, NEW v,
         NEW g \in Gxid, NEW s \in Seg, NEW h \in Gxid, NEW t \in Seg,
         e = [f EXCEPT ![g][s] = v], h # g \/ t # s
  PROVE  e[h][t] = f[h][t]
BY Zenon

\* A QE consumes the command it executes, and may answer.
LEMMA Commanded ==
  ASSUME NEW g \in Gxid, NEW s \in Seg, QeCommand(g, s)
  PROVE  /\ UNCHANGED <<qd, segs, link>> /\ cmd[g][s] # "none"
         /\ cmd' = [cmd EXCEPT ![g][s] = "none"]
         /\ \E c : qe' = [qe EXCEPT ![g][s] = c]
         /\ UNCHANGED reply \/ \E r : reply' = [reply EXCEPT ![g][s] = r]
<1> USE DEF QeStep, Answer
<1>1. UNCHANGED <<qd, segs, link>>
  BY Zenon DEF QeCommand, qdVars
<1>2. CASE QePrepare(g, s)
  BY Zenon, <1>1, <1>2 DEF QePrepare
<1>3. CASE QeCommitOnePhase(g, s)
  BY Zenon, <1>1, <1>3 DEF QeCommitOnePhase
<1>4. CASE QeAbort(g, s)
  BY Zenon, <1>1, <1>4 DEF QeAbort
<1>5. CASE QeFinishPrepared(g, s)
  BY Zenon, <1>1, <1>5 DEF QeFinishPrepared
<1> QED BY Zenon, <1>2, <1>3, <1>4, <1>5 DEF QeCommand

\* A step of one QE, or a failure of it, preserves the invariant.
LEMMA GangCell ==
  ASSUME IInv, GInv, NEW g \in Gxid, NEW s \in Seg,
         Execute(g, s) \/ Writer(g, s) \/ LoseLink(g, s) \/ QeDie(g, s)
  PROVE  GInv'
<1>1. TypeOK /\ GangInv(g, s) /\ QeInv(g, s) /\ CmdInv(g, s) /\ StateInv(g)
  BY Zenon DEF GInv, IInv, Inv, PairInv
<1> USE DEF TypeOK, QeStep, Answer
<1>2. ASSUME NEW h \in Gxid, NEW t \in Seg, h # g \/ t # s PROVE GangInv(h, t)'
  <2>1. SameGang(h, t)
    <3>1. CASE Execute(g, s)
      <4>0. UNCHANGED <<qd, cmd, reply>> /\ segs'[h] = IF h = g THEN segs[g] \cup {s} ELSE segs[h]
        BY <1>1, <3>1, Zenon DEF Execute
      <4>1. segs[h] \subseteq segs'[h] /\ link'[h][t] = link[h][t]
        <5>1. link' = [link EXCEPT ![g][s] = TRUE] /\ link \in [Gxid -> [Seg -> BOOLEAN]]
          BY <1>1, <3>1, Zenon DEF Execute
        <5>2. link'[h][t] = link[h][t]
          BY ONLY Zenon, <5>1, <1>2, h \in Gxid, g \in Gxid, t \in Seg, s \in Seg
        <5> QED BY <4>0, <5>2, Zenon
      <4>2. qe'[h][t] = qe[h][t]
        <5>1. qe' = [qe EXCEPT ![g][s] = "writer"] /\ qe \in [Gxid -> [Seg -> QeContext]]
          BY <1>1, <3>1, Zenon DEF Execute
        <5> QED BY ONLY Zenon, <5>1, <1>2, h \in Gxid, g \in Gxid, t \in Seg, s \in Seg
      <4> QED BY <4>0, <4>1, <4>2, Zenon DEF SameGang
    <3>2. CASE QeCommand(g, s)
      <4>1. UNCHANGED <<qd, segs, link>>
        BY Zenon, <3>2, Commanded
      <4>2. cmd'[h][t] = cmd[h][t]
        <5>1. cmd' = [cmd EXCEPT ![g][s] = "none"] /\ cmd \in [Gxid -> [Seg -> Command \cup {"none"}]]
          BY Zenon, <1>1, <3>2, Commanded
        <5> QED BY ONLY Zenon, <5>1, <1>2, g \in Gxid, s \in Seg, Elsewhere
      <4>3. qe'[h][t] = qe[h][t]
        <5>1. PICK c : qe' = [qe EXCEPT ![g][s] = c]
          BY Zenon, <3>2, Commanded
        <5>2. qe \in [Gxid -> [Seg -> QeContext]]
          BY Zenon, <1>1
        <5> QED BY ONLY Zenon, <5>1, <5>2, <1>2, g \in Gxid, s \in Seg, Elsewhere
      <4>4. ASSUME NEW r, reply' = [reply EXCEPT ![g][s] = r] PROVE reply'[h][t] = reply[h][t]
        <5>1. reply \in [Gxid -> [Seg -> {"none", "ok", "error"}]]
          BY Zenon, <1>1
        <5> QED BY ONLY Zenon, <4>4, <5>1, <1>2, g \in Gxid, s \in Seg, Elsewhere
      <4>5. reply'[h][t] = reply[h][t]
        <5>1. UNCHANGED reply \/ \E r : reply' = [reply EXCEPT ![g][s] = r]
          BY Zenon, <3>2, Commanded
        <5> QED BY ONLY Zenon, <4>4, <5>1
      <4> QED BY Zenon, <4>1, <4>2, <4>3, <4>5 DEF SameGang
    <3>3. CASE QeSynced(g, s)
      BY Zenon, <1>1, <1>2, <3>3 DEF QeSynced, SameGang
    <3>4. CASE QeExit(g, s)
      BY Zenon, <1>1, <1>2, <3>4 DEF QeExit, SameGang
    <3>5. CASE LoseLink(g, s)
      BY Zenon, <1>1, <1>2, <3>5 DEF LoseLink, SameGang
    <3>6. CASE QeDie(g, s)
      BY Zenon, <1>1, <1>2, <3>6 DEF QeDie, SameGang
    <3> QED BY <3>1, <3>2, <3>3, <3>4, <3>5, <3>6, Zenon DEF Writer
  <2> QED BY <2>1, GangFrame, Zenon DEF GInv
<1>3. GangInv(g, s)'
  <2>1. CASE Execute(g, s)
    <3>1. /\ cmd'[g][s] = cmd[g][s] /\ qd'[g] = "ACTIVE_DISTRIBUTED" /\ qd[g] = qd'[g]
          /\ qe'[g][s] = "writer" /\ s \in segs'[g]
      BY ZenonT(60), <1>1, <2>1 DEF Execute
    <3>2. cmd'[g][s] = "none"
      BY <1>1, <3>1, Zenon DEF CmdInv
    <3> QED BY <3>1, <3>2, Zenon DEF GangInv
  <2>2. CASE QeCommand(g, s)
    <3>0. /\ UNCHANGED <<qd, segs, link>> /\ cmd[g][s] # "none" /\ cmd'[g][s] = "none"
          /\ reply[g][s] = "none"
      <4>1. UNCHANGED <<qd, segs, link>> /\ cmd[g][s] # "none" /\ cmd' = [cmd EXCEPT ![g][s] = "none"]
        BY Zenon, <2>2, Commanded
      <4>2. cmd \in [Gxid -> [Seg -> Command \cup {"none"}]] /\ (reply[g][s] # "none" => cmd[g][s] = "none")
        BY Zenon, <1>1 DEF GangInv
      <4> QED BY ONLY Zenon, <4>1, <4>2, g \in Gxid, s \in Seg
    <3>1. CASE QePrepare(g, s)
      <4>1. \/ qe'[g][s] = "preparing" /\ reply'[g][s] = "none"
            \/ qe'[g][s] = "local" /\ reply'[g][s] \in {"none", "error"}
        BY <1>1, <3>0, <3>1 DEF QePrepare
      <4>2. cmd[g][s] = "PREPARE" /\ qe[g][s] = "writer"
        BY <3>1, Zenon DEF QePrepare
      <4> QED BY Zenon, <1>1, <3>0, <4>1, <4>2 DEF GangInv, CmdInv
    <3>2. CASE QeCommitOnePhase(g, s)
      <4>1. \/ qe'[g][s] = "finishing" /\ reply'[g][s] = "none"
            \/ qe'[g][s] = "local" /\ reply'[g][s] \in {"none", "error"}
        BY <1>1, <3>0, <3>2 DEF QeCommitOnePhase
      <4>2. cmd[g][s] = "COMMIT_ONEPHASE" /\ qe[g][s] = "writer"
        BY <3>2, Zenon DEF QeCommitOnePhase
      <4> QED BY Zenon, <1>1, <3>0, <4>1, <4>2 DEF GangInv, CmdInv
    <3>3. CASE QeAbort(g, s)
      <4>1. qe'[g][s] = "local"
        BY Zenon, <1>1, <3>3 DEF QeAbort
      <4>2. cmd[g][s] \in {"ABORT_NO_PREPARED", "ABORT_SOME_PREPARED"}
        BY <3>3, Zenon DEF QeAbort
      <4> QED BY Zenon, <1>1, <3>0, <4>1, <4>2 DEF GangInv, CmdInv, Doomed, AbortState
    <3>4. CASE QeFinishPrepared(g, s)
      <4>1. \/ qe'[g][s] = "finishing" /\ reply'[g][s] = "none"
            \/ qe'[g][s] = "local" /\ reply'[g][s] \in {"none", "error"}
        BY <1>1, <3>0, <3>4 DEF QeFinishPrepared
      <4>2. cmd[g][s] \in {"COMMIT_PREPARED", "ABORT_PREPARED", "ABORT_SOME_PREPARED"}
        BY <3>4, Zenon DEF QeFinishPrepared
      <4> QED BY Zenon, <1>1, <3>0, <4>1, <4>2 DEF GangInv, CmdInv
    <3> QED BY <2>2, <3>1, <3>2, <3>3, <3>4, Zenon DEF QeCommand
  <2>3. CASE QeSynced(g, s)
    <3>1. /\ UNCHANGED <<qd, segs, link, cmd>> /\ qe[g][s] \in {"preparing", "finishing"}
          /\ qe'[g][s] = IF qe[g][s] = "preparing" THEN "prepared" ELSE "local"
          /\ reply'[g][s] = IF link[g][s] THEN "ok" ELSE reply[g][s]
      BY Zenon, <1>1, <2>3 DEF QeSynced
    <3> QED BY Zenon, <1>1, <3>1 DEF GangInv, CmdInv
  <2>4. CASE QeExit(g, s)
    <3>1. ~link'[g][s] /\ cmd'[g][s] = "none"
      BY Zenon, <1>1, <2>4 DEF QeExit
    <3> QED BY <3>1, Zenon DEF GangInv
  <2>5. CASE LoseLink(g, s)
    <3>1. ~link'[g][s] /\ UNCHANGED <<qd, cmd, qe, reply>>
      BY Zenon, <1>1, <2>5 DEF LoseLink
    <3> QED BY <1>1, <3>1, Zenon DEF GangInv
  <2>6. CASE QeDie(g, s)
    <3>1. ~link'[g][s] /\ cmd'[g][s] = "none"
      BY Zenon, <1>1, <2>6 DEF QeDie
    <3> QED BY <3>1, Zenon DEF GangInv
  <2> QED BY <2>1, <2>2, <2>3, <2>4, <2>5, <2>6, Zenon DEF Writer
<1> QED BY <1>2, <1>3, Zenon DEF GInv

\* A restart or a failover of a segment preserves the invariant.
LEMMA GangKill ==
  ASSUME IInv, GInv, NEW s \in Seg, SegReset(s) \/ Failover(s)
  PROVE  GInv'
<1> SUFFICES ASSUME NEW h \in Gxid, NEW t \in Seg PROVE GangInv(h, t)'
  BY Zenon DEF GInv
<1>1. TypeOK /\ GangInv(h, t) /\ KillProcesses(s) /\ UNCHANGED qdVars
  BY Zenon DEF GInv, IInv, SegReset, Failover
<1>2. CASE t = s
  <2>1. ~link'[h][t] /\ cmd'[h][t] = "none"
    BY Zenon, <1>1, <1>2 DEF KillProcesses, TypeOK
  <2> QED BY <2>1, Zenon DEF GangInv
<1>3. CASE t # s
  <2>1. SameGang(h, t)
    BY Zenon, <1>1, <1>3 DEF KillProcesses, TypeOK, SameGang
  <2> QED BY <1>1, <2>1, GangFrame, Zenon
<1> QED BY Zenon, <1>2, <1>3

\* A crash of the coordinator cuts every link.
LEMMA GangCrash ==
  ASSUME IInv, GInv, Crash
  PROVE  GInv'
<1> SUFFICES ASSUME NEW h \in Gxid, NEW t \in Seg PROVE GangInv(h, t)'
  BY Zenon DEF GInv
<1>1. ~link'[h][t] /\ reply'[h][t] = "none" /\ UNCHANGED <<cmd, qe>>
  BY Zenon DEF Crash
<1> QED BY <1>1, Zenon DEF GInv, GangInv

\* Every step preserves it.
LEMMA GangStep == IInv /\ GInv /\ [Next]_vars => GInv'
<1> SUFFICES ASSUME IInv, GInv, [Next]_vars PROVE GInv'
  BY Zenon
<1>1. CASE UNCHANGED <<qdVars, gangVars>>
  <2> SUFFICES ASSUME NEW g \in Gxid, NEW s \in Seg PROVE GangInv(g, s)'
    BY Zenon DEF GInv
  <2>1. GangInv(g, s) /\ SameGang(g, s)
    BY <1>1, Zenon DEF GInv, SameGang
  <2> QED BY <2>1, GangFrame, Zenon
<1>2. ASSUME NEW g \in Gxid, NEW s \in Seg, Fresh(g, s) \/ Replicate(g, s) \/ FreshFail(g, s)
      PROVE  GInv'
  BY <1>1, <1>2, Zenon DEF Fresh, FreshCommand, FreshSynced, Replicate, FreshFail
<1>3. ASSUME NEW m \in stale, StaleCommand(m) PROVE GInv'
  BY <1>1, <1>3, Zenon DEF StaleCommand
<1>4. CASE Worker
  BY <1>1, <1>4, ZenonT(60) DEF Worker, RecoverCommit, RecoverForget, RecoverFail, RecoverAbort, RecoverNext,
       Gather, RecoverNotified, GatherDone, RecoverDone, OrphanCheck
<1>5. ASSUME NEW s \in Seg, MirrorDown(s) PROVE GInv'
  BY <1>1, <1>5, Zenon DEF MirrorDown
<1>6. CASE WorkerExit
  BY <1>1, <1>6, Zenon DEF WorkerExit
<1>7. CASE UNCHANGED vars
  BY <1>1, <1>7, Zenon DEF vars
<1>8. CASE Failure
  BY <1>2, <1>5, <1>6, <1>8, GangCell, GangKill, GangCrash, Zenon DEF Failure
<1> QED BY <1>2, <1>3, <1>4, <1>7, <1>8, GangBackend, GangCell, Zenon DEF Next

\* No command of the dispatcher ever meets a QE whose context does not fit it, for any
\* number of transactions, segments, failures and crashes.
THEOREM ContextFitsHolds == Spec => []ContextFits
<1>1. Init => GInv
  <2> SUFFICES ASSUME Init, NEW g \in Gxid, NEW s \in Seg PROVE GangInv(g, s)
    BY Zenon DEF GInv
  <2>1. ~link[g][s] /\ cmd[g][s] = "none"
    BY Zenon DEF Init
  <2> QED BY <2>1, Zenon DEF GangInv
<1>2. GInv => ContextFits
  BY Zenon DEF GInv, GangInv, ContextFits
<1> QED BY Invariance, <1>1, GangStep, <1>2, PTL DEF Spec

-----------------------------------------------------------------------------
(***************************************************************************)
(* Refinement of AtomicCommit.                                             *)
(***************************************************************************)
Final == {"committed", "aborted"}

\* A mirror in sync that has the end of a transaction has what the primary has.
CopyInv(g, s) == mirrorUp[s] /\ mirr[g][s] \in Final => prim[g][s] = mirr[g][s]

MInv == \A g \in Gxid, s \in Seg : CopyInv(g, s)

\* What a failover cannot take back is not taken back by anything else either.
Lasting(g, s) == Durable(g, s) \in Final => Durable(g, s)' = Durable(g, s)

\* A step that changes the primary only where the transaction has not ended.
LEMMA PrimaryStep ==
  ASSUME NEW h \in Gxid, NEW t \in Seg, CopyInv(h, t), UNCHANGED <<mirr, mirrorUp>>,
         prim[h][t] \in Final => prim'[h][t] = prim[h][t]
  PROVE  CopyInv(h, t)' /\ Lasting(h, t)
BY Zenon DEF CopyInv, Lasting, Durable

\* Every step preserves the agreement of mirror and primary, and every end that is
\* durable.
LEMMA LastingStep ==
  ASSUME IInv, MInv, Next, NEW h \in Gxid, NEW t \in Seg
  PROVE  CopyInv(h, t)' /\ Lasting(h, t)
<1>1. TypeOK /\ CopyInv(h, t) /\ QeInv(h, t)
  BY Zenon DEF IInv, MInv, Inv, PairInv
<1>2. CASE UNCHANGED segVars
  BY <1>1, <1>2, PrimaryStep, Zenon
<1>3. ASSUME NEW g \in Gxid, Begin(g) \/ Backend(g) \/ BackendExit(g)
      PROVE  CopyInv(h, t)' /\ Lasting(h, t)
  BY <1>1, <1>2, <1>3, BackendFrame, Zenon
<1>4. ASSUME UNCHANGED <<mirr, mirrorUp>>, NEW g \in Gxid, NEW s \in Seg, NEW x,
             prim' = [prim EXCEPT ![g][s] = x], prim[g][s] \in Final => x = prim[g][s]
      PROVE  CopyInv(h, t)' /\ Lasting(h, t)
  <2>1. prim'[h][t] = IF h = g /\ t = s THEN x ELSE prim[h][t]
    BY Zenon, <1>1, <1>4 DEF TypeOK
  <2> QED BY <1>1, <1>4, <2>1, PrimaryStep, Zenon
<1>5. ASSUME NEW g \in Gxid, NEW s \in Seg, Execute(g, s) PROVE CopyInv(h, t)' /\ Lasting(h, t)
  <2>1. QeInv(g, s)
    BY Zenon DEF IInv, Inv, PairInv
  <2> QED BY <1>4, <1>5, <2>1, Zenon DEF Execute, QeInv, Final
<1>6. ASSUME NEW g \in Gxid, NEW s \in Seg, Writer(g, s) \/ QeDie(g, s)
      PROVE  CopyInv(h, t)' /\ Lasting(h, t)
  <2>1. QeInv(g, s)
    BY Zenon DEF IInv, Inv, PairInv
  <2>2. UNCHANGED <<mirr, mirrorUp>>
    BY <1>6, Zenon DEF Writer, QeCommand, QeSynced, QeExit, QeDie
  <2>3. CASE QeSynced(g, s)
    BY <1>2, <2>3, Zenon DEF QeSynced
  <2>4. CASE QeExit(g, s) \/ QeDie(g, s)
    <3>1. prim[g][s] \in Final => AfterExit(prim[g][s]) = prim[g][s]
      BY Zenon DEF AfterExit, Final
    <3>2. prim' = [prim EXCEPT ![g][s] = AfterExit(prim[g][s])]
      BY <2>4, Zenon DEF QeExit, QeDie, QeStep
    <3> HIDE DEF AfterExit
    <3> QED BY <1>4, <2>2, <3>1, <3>2, Zenon
  <2>5. CASE QeCommand(g, s)
    <3>1. \E x : prim' = [prim EXCEPT ![g][s] = x] /\ (prim[g][s] \in Final => x = prim[g][s])
      <4>1. CASE QePrepare(g, s) \/ QeCommitOnePhase(g, s)
        BY <2>1, <4>1, Zenon DEF QePrepare, QeCommitOnePhase, QeStep, QeInv, Final
      <4>2. CASE QeAbort(g, s)
        BY <2>1, <4>2, Zenon DEF QeAbort, QeStep, QeInv, Final
      <4>3. CASE QeFinishPrepared(g, s)
        BY <2>1, <4>3, Zenon DEF QeFinishPrepared, QeStep, QeInv, Final
      <4> QED BY <2>5, <4>1, <4>2, <4>3, Zenon DEF QeCommand
    <3> QED BY <1>4, <2>2, <3>1, Zenon
  <2> QED BY <1>6, <2>3, <2>4, <2>5, Zenon DEF Writer
<1>7. ASSUME NEW g \in Gxid, NEW s \in Seg, Fresh(g, s) PROVE CopyInv(h, t)' /\ Lasting(h, t)
  <2>1. CASE UNCHANGED prim
    BY <1>2, <1>7, <2>1, Zenon DEF Fresh, FreshCommand, FreshSynced
  <2>2. CASE prim' = [prim EXCEPT ![g][s] = IF @ = "prepared" THEN Outcome(rpcCmd[g]) ELSE @]
    BY <1>4, <1>7, <2>2, Zenon DEF Fresh, FreshCommand, FreshSynced, Final
  <2> QED BY <1>7, <2>1, <2>2, Zenon DEF Fresh, FreshCommand, FreshSynced
<1>8. ASSUME NEW m \in stale, StaleCommand(m) PROVE CopyInv(h, t)' /\ Lasting(h, t)
  <2>1. m[2] \in Gxid /\ m[3] \in Seg /\ UNCHANGED <<mirr, mirrorUp>>
    BY Zenon, <1>1, <1>8 DEF StaleCommand, TypeOK
  <2>2. CASE UNCHANGED prim
    BY <1>2, <2>1, <2>2, Zenon
  <2>3. CASE prim[m[2]][m[3]] = "prepared" /\ prim' = [prim EXCEPT ![m[2]][m[3]] = Outcome(m[1])]
    BY <1>4, <2>1, <2>3, Zenon DEF Final
  <2> QED BY <1>8, <2>2, <2>3, Zenon DEF StaleCommand
<1>9. ASSUME NEW g \in Gxid, NEW s \in Seg, Replicate(g, s) PROVE CopyInv(h, t)' /\ Lasting(h, t)
  <2>1. /\ UNCHANGED <<prim, mirrorUp>> /\ mirrorUp[s] /\ mirr[g][s] # prim[g][s]
        /\ mirr'[h][t] = IF h = g /\ t = s THEN prim[g][s] ELSE mirr[h][t]
    BY Zenon, <1>1, <1>9 DEF Replicate, TypeOK
  <2> QED BY <1>1, <2>1, Zenon DEF CopyInv, Lasting, Durable
<1>10. ASSUME NEW s \in Seg, MirrorDown(s) PROVE CopyInv(h, t)' /\ Lasting(h, t)
  <2>1. /\ UNCHANGED <<prim, mirr>> /\ mirrorUp[s]
        /\ mirrorUp'[t] = IF t = s THEN FALSE ELSE mirrorUp[t]
    BY <1>1, <1>10, Zenon DEF MirrorDown, TypeOK
  <2> QED BY <1>1, <2>1, Zenon DEF CopyInv, Lasting, Durable
<1>11. ASSUME NEW s \in Seg, SegReset(s) PROVE CopyInv(h, t)' /\ Lasting(h, t)
  <2>1. UNCHANGED <<mirr, mirrorUp>> /\ prim'[h][t] = IF t = s THEN AfterExit(prim[h][t]) ELSE prim[h][t]
    BY Zenon, <1>1, <1>11 DEF SegReset, TypeOK
  <2> QED BY <1>1, <2>1, PrimaryStep, Zenon DEF AfterExit, Final
<1>12. ASSUME NEW s \in Seg, Failover(s) PROVE CopyInv(h, t)' /\ Lasting(h, t)
  <2>1. /\ prim'[h][t] = IF t = s THEN Promoted(prim[h][t], mirr[h][t]) ELSE prim[h][t]
        /\ mirr' = mirr /\ mirrorUp[s]
    BY Zenon, <1>1, <1>12 DEF Failover, TypeOK
  <2>2. mirrorUp'[t] = IF t = s THEN FALSE ELSE mirrorUp[t]
    BY <1>1, <1>12, Zenon DEF Failover, TypeOK
  <2> QED BY <1>1, <2>1, <2>2, Zenon DEF CopyInv, Lasting, Durable, Promoted, Final
<1>13. CASE Worker
  <2>1. UNCHANGED segVars
    BY <1>13, Zenon DEF Worker, RecoverCommit, RecoverForget, RecoverFail, RecoverAbort, RecoverNext,
         Gather, RecoverNotified, GatherDone, RecoverDone, OrphanCheck
  <2> QED BY <1>2, <2>1, Zenon
<1>14. ASSUME NEW g \in Gxid, NEW s \in Seg, LoseLink(g, s) \/ FreshFail(g, s)
       PROVE  CopyInv(h, t)' /\ Lasting(h, t)
  BY <1>2, <1>14, Zenon DEF LoseLink, FreshFail
<1>15. CASE WorkerExit \/ Crash
  BY <1>2, <1>15, Zenon DEF WorkerExit, Crash
<1>16. CASE Failure
  BY <1>6, <1>10, <1>11, <1>12, <1>14, <1>15, <1>16, Zenon DEF Failure
<1> QED BY <1>3, <1>5, <1>6, <1>7, <1>8, <1>9, <1>13, <1>16, Zenon DEF Next

\* A write is not forgotten, and neither is a commit record on disk.
LEMMA RecordStep ==
  ASSUME IInv, Next, NEW h \in Gxid
  PROVE  (wrote[h] => wrote'[h]) /\ (rec[h] = "flushed" => rec'[h] = "flushed")
<1>1. TypeOK /\ StateInv(h)
  BY Zenon DEF IInv, Inv
<1>2. CASE UNCHANGED <<wrote, rec>>
  BY <1>2, Zenon
<1>3. ASSUME NEW g \in Gxid, Begin(g) \/ Backend(g) \/ BackendExit(g)
      PROVE  (wrote[h] => wrote'[h]) /\ (rec[h] = "flushed" => rec'[h] = "flushed")
  <2>1. CASE h # g
    BY <1>1, <1>3, <2>1, BackendFrame, Zenon DEF SameRow
  <2>2. CASE h = g
    BY <1>1, <1>3, <2>2, BackendFrame, BackendTransitions, ZenonT(60)
       DEF BackendEffect, KeepWal, StateInv, CommitState
  <2> QED BY Zenon, <2>1, <2>2
<1>4. ASSUME NEW g \in Gxid, NEW s \in Seg,
             \/ Execute(g, s) \/ Writer(g, s) \/ Fresh(g, s) \/ Replicate(g, s)
             \/ LoseLink(g, s) \/ QeDie(g, s) \/ FreshFail(g, s)
      PROVE  (wrote[h] => wrote'[h]) /\ (rec[h] = "flushed" => rec'[h] = "flushed")
  <2>1. CASE Execute(g, s)
    <3>1. PICK w \in BOOLEAN : wrote' = [wrote EXCEPT ![g] = wrote[g] \/ w]
      BY <2>1, Zenon DEF Execute
    <3>2. wrote[h] => wrote'[h]
      BY <1>1, <3>1, Zenon DEF TypeOK
    <3> QED BY <2>1, <3>2, Zenon DEF Execute
  <2> QED BY <1>2, <1>4, <2>1, ZenonT(60) DEF Writer, QeCommand, QeSynced, QeExit, Fresh, FreshCommand,
             FreshSynced, Replicate, LoseLink, QeDie, FreshFail
<1>5. CASE Worker
  BY <1>2, <1>5, Zenon DEF Worker, RecoverCommit, RecoverForget, RecoverFail, RecoverAbort, RecoverNext,
       Gather, RecoverNotified, GatherDone, RecoverDone, OrphanCheck
<1>6. ASSUME NEW m \in stale, StaleCommand(m)
      PROVE  (wrote[h] => wrote'[h]) /\ (rec[h] = "flushed" => rec'[h] = "flushed")
  BY <1>2, <1>6, Zenon DEF StaleCommand
<1>7. ASSUME NEW s \in Seg, MirrorDown(s) \/ SegReset(s) \/ Failover(s)
      PROVE  (wrote[h] => wrote'[h]) /\ (rec[h] = "flushed" => rec'[h] = "flushed")
  BY <1>2, <1>7, Zenon DEF MirrorDown, SegReset, Failover
<1>8. CASE WorkerExit
  BY <1>2, <1>8, Zenon DEF WorkerExit
<1>9. CASE Crash
  BY <1>9, Zenon DEF Crash
<1>10. CASE Failure
  BY <1>4, <1>7, <1>8, <1>9, <1>10, Zenon DEF Failure
<1> QED BY <1>3, <1>4, <1>5, <1>6, <1>10, Zenon DEF Next

\* The outcome on a segment is never other than the decision.
Agree ==
  \A g \in Gxid, s \in Seg : OutcomeOf(g, s) # "open" => DecisionOf(g) = OutcomeOf(g, s)

\* The invariant of two-phase commit implies it.
LEMMA Agreement == IInv => Agree
<1> SUFFICES ASSUME IInv, NEW g \in Gxid, NEW s \in Seg, OutcomeOf(g, s) # "open"
             PROVE  DecisionOf(g) = OutcomeOf(g, s)
  BY Zenon DEF Agree
<1>1. \A t \in Seg : QeInv(g, t) /\ VoteInv(g, t) /\ OutcomeInv(g, t)
  BY Zenon DEF IInv, Inv, PairInv
<1>2. /\ OutcomeOf(g, s) \in Final /\ wrote[g]
      /\ \A t \in Seg : OutcomeOf(g, t) # "open" => OutcomeOf(g, t) = Durable(g, t)
  BY Zenon DEF OutcomeOf, Final
<1>3. CASE OutcomeOf(g, s) = "committed"
  BY <1>3, Zenon DEF DecisionOf
<1>4. CASE OutcomeOf(g, s) = "aborted"
  <2>1. Durable(g, s) = "aborted" /\ s \in segs[g]
    BY <1>1, <1>2, <1>4, Zenon DEF QeInv, Durable
  <2>2. rec[g] = "none"
    BY <1>1, <2>1, Zenon DEF VoteInv, Kept
  <2>3. ASSUME NEW t \in Seg, OutcomeOf(g, t) = "committed" PROVE FALSE
    <3>1. Durable(g, t) = "committed" /\ t \in segs[g]
      BY <1>1, <1>2, <2>3, Zenon DEF QeInv, Durable
    <3>2. prim[g][t] = "committed" \/ mirr[g][t] = "committed"
      BY <3>1, Zenon DEF Durable
    <3> QED BY <1>1, <1>2, <2>1, <2>2, <3>1, <3>2, Zenon DEF OutcomeInv
  <2> QED BY <1>4, <2>2, <2>3, Zenon DEF DecisionOf
<1> QED BY <1>2, <1>3, <1>4, Zenon DEF Final

\* A step of the protocol is a step of AtomicCommit or leaves it unchanged.
LEMMA RefinementStep == IInv /\ MInv /\ Agree' /\ [Next]_vars => [AC!Next]_AC!vars
<1> SUFFICES ASSUME IInv, MInv, Agree', [Next]_vars PROVE [AC!Next]_AC!vars
  BY Zenon
<1>1. CASE UNCHANGED vars
  BY <1>1, ZenonT(60) DEF vars, AC!vars, DecisionOf, OutcomeOf, Durable
<1>2. CASE Next
  <2>1. ASSUME NEW g \in Gxid, NEW s \in Seg, OutcomeOf(g, s) # "open"
        PROVE  OutcomeOf(g, s)' = OutcomeOf(g, s)
    <3>1. wrote[g] /\ Durable(g, s) \in Final /\ OutcomeOf(g, s) = Durable(g, s)
      BY <2>1, Zenon DEF OutcomeOf, Final
    <3>2. wrote'[g] /\ Durable(g, s)' = Durable(g, s)
      BY <1>2, <3>1, LastingStep, RecordStep, Zenon DEF Lasting
    <3> QED BY <3>1, <3>2, Zenon DEF OutcomeOf, Final
  <2>2. ASSUME NEW g \in Gxid PROVE AC!Decide(g)
    <3>1. CASE DecisionOf(g) = "committed"
      <4>1. rec[g] = "flushed" \/ \E s \in Seg : OutcomeOf(g, s) = "committed"
        BY <3>1, Zenon DEF DecisionOf
      <4>2. rec'[g] = "flushed" \/ \E s \in Seg : OutcomeOf(g, s)' = "committed"
        BY <1>2, <2>1, <4>1, RecordStep, Zenon
      <4>3. DecisionOf(g)' = "committed"
        BY <4>2, Zenon DEF DecisionOf
      <4> QED BY <3>1, <4>3, Zenon DEF AC!Decide
    <3>2. CASE DecisionOf(g) = "aborted"
      <4>1. PICK s \in Seg : OutcomeOf(g, s) = "aborted"
        BY <3>2, Zenon DEF DecisionOf
      <4>2. OutcomeOf(g, s)' = "aborted"
        BY <2>1, <4>1, Zenon
      <4>3. DecisionOf(g)' = "aborted"
        BY <4>2, Zenon DEF Agree
      <4> QED BY <3>2, <4>3, Zenon DEF AC!Decide
    <3>3. CASE DecisionOf(g) = "none"
      <4>1. DecisionOf(g)' \in {"none", "committed", "aborted"}
        BY Zenon DEF DecisionOf
      <4> QED BY <3>3, <4>1, Zenon DEF AC!Decide
    <3> QED BY <3>1, <3>2, <3>3, Zenon DEF DecisionOf
  <2>3. ASSUME NEW g \in Gxid, NEW s \in Seg PROVE AC!Finish(g, s)
    <3>1. CASE OutcomeOf(g, s)' = OutcomeOf(g, s)
      BY <3>1, Zenon DEF AC!Finish
    <3>2. CASE OutcomeOf(g, s)' # OutcomeOf(g, s)
      <4>1. OutcomeOf(g, s) = "open" /\ OutcomeOf(g, s)' # "open"
        BY <2>1, <3>2, Zenon
      <4>2. DecisionOf(g)' = OutcomeOf(g, s)' /\ DecisionOf(g)' # "none"
        BY <4>1, Zenon DEF Agree, OutcomeOf
      <4> QED BY <4>1, <4>2, Zenon DEF AC!Finish
    <3> QED BY Zenon, <3>1, <3>2
  <2> QED BY <2>2, <2>3, Zenon DEF AC!Next
<1> QED BY Zenon, <1>1, <1>2

\* The mirrors agree with their primaries in every reachable state.
LEMMA CopyInvariance == Spec => []MInv
<1>1. Init => MInv
  BY Zenon DEF Init, MInv, CopyInv, Final
<1>2. IInv /\ MInv /\ [Next]_vars => MInv'
  <2> SUFFICES ASSUME IInv, MInv, [Next]_vars PROVE MInv'
    BY Zenon
  <2>1. CASE UNCHANGED vars
    BY <2>1, Zenon DEF MInv, CopyInv, vars
  <2> QED BY <2>1, LastingStep, Zenon DEF MInv
<1> QED BY <1>1, <1>2, Invariance, PTL DEF Spec

\* Two-phase commit implements atomic commitment: every step of the code, crashes,
\* failovers, retries and recovery included, decides a transaction once or carries
\* its decision out, for any number of transactions, segments and failures.
THEOREM Refinement == Spec => ImplementsAtomicCommit
<1>1. Init => AC!Init
  <2> SUFFICES ASSUME Init, NEW g \in Gxid
               PROVE  DecisionOf(g) = "none" /\ \A s \in Seg : OutcomeOf(g, s) = "open"
    BY Zenon DEF AC!Init
  <2>1. \A s \in Seg : OutcomeOf(g, s) = "open"
    BY Zenon DEF Init, OutcomeOf
  <2> QED BY <2>1, Zenon DEF Init, DecisionOf
<1> QED BY <1>1, Invariance, CopyInvariance, Agreement, RefinementStep, PTL
       DEF Spec, ImplementsAtomicCommit, AC!Spec
=============================================================================
