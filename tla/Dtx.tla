-------------------------------- MODULE Dtx ---------------------------------
(***************************************************************************)
(* Distributed transactions: two-phase commit between a coordinator        *)
(* backend (QD) and its writer processes on the segments (QEs), the retry  *)
(* of the second phase, crash recovery of the coordinator, the recovery    *)
(* worker that aborts orphaned prepared transactions, and the failover of  *)
(* a segment to its mirror.                                                *)
(*                                                                         *)
(* Sources: cdbtm.c (the QD's state machine and performDtxProtocolCommand  *)
(* on the QE), cdbdtxrecovery.c (recovery), twophase.c (the prepared       *)
(* transaction on a segment), xact.c (the order of the steps of a commit), *)
(* cdbdisp_dtx.c and cdbutil.c (the gang a command travels through).       *)
(*                                                                         *)
(* A command reaches a segment in one of two ways. The writer gang of the  *)
(* transaction executed its statements; each of its QEs has a transaction  *)
(* context, and PREPARE, COMMIT_PREPARED, ABORT_* go to it over `link'.    *)
(* Once that gang is lost the command is a RETRY_* or RECOVERY_* one and   *)
(* goes to a fresh QE without a context, modelled by `rpc'. A command      *)
(* whose sender has gone away may still be read and executed later:        *)
(* in the writer gang it stays in `cmd' with the link down, and for a      *)
(* fresh QE it moves to `stale'.                                           *)
(***************************************************************************)
EXTENDS Integers

CONSTANTS Gxid,        \* distributed transaction identifiers, each used once
          Seg,         \* primary segments, each with a mirror
          NoGxid,      \* "the recovery worker is not resolving any gxid"
          MaxFaults,   \* bound: failures of links, QEs, mirrors and segments
          MaxCrashes   \* bound: crashes (PANIC) of the coordinator

ASSUME NoGxidAssumption == NoGxid \notin Gxid
ASSUME BoundsAssumption == MaxFaults \in Nat /\ MaxCrashes \in Nat

VARIABLES
  qd,        \* MyTmGxactLocal->state; UNBORN before, NONE after the transaction
  segs,      \* MyTmGxactLocal->dtxSegments
  wrote,     \* TopXactExecutorDidWriteXLog()
  qdXid,     \* the QD has a local transaction id
  rec,       \* the distributed commit record in the coordinator's WAL
  forgot,    \* the forget record has been inserted
  link,      \* the QD's connection to its writer QE is up
  cmd,       \* the command the writer QE has not read yet
  reply,     \* the answer the QD has received in the current round
  qe,        \* the writer QE: its DistributedTransactionContext
  prim,      \* the transaction on the primary
  mirr,      \* the transaction in the WAL the mirror has
  mirrorUp,  \* the mirror is in sync: commits wait for it, it may be promoted
  rpc,       \* the round of RETRY_* / RECOVERY_* commands to fresh QEs
  rpcCmd,    \* what that round asks for
  stale,     \* such commands whose sender no longer waits for them
  rp,        \* where the dtx recovery worker is
  committed, \* shmCommittedGxidArray
  notified,  \* the entries of it already notified in this pass
  indoubt,   \* the gids gathered from pg_prepared_xacts
  unread,    \* segments whose pg_prepared_xacts is still to be read
  cur,       \* the gxid the worker is resolving
  faults, crashes

qdVars == <<qd, segs, wrote, qdXid>>
walVars == <<rec, forgot>>
gangVars == <<link, cmd, reply, qe>>
segVars == <<prim, mirr, mirrorUp>>
rpcVars == <<rpc, rpcCmd, stale>>
workerVars == <<rp, committed, notified, indoubt, unread, cur>>
faultVars == <<faults, crashes>>
vars == <<qdVars, walVars, gangVars, segVars, rpcVars, workerVars, faultVars>>

AbortState == {"NOTIFYING_ABORT_NO_PREPARED", "NOTIFYING_ABORT_SOME_PREPARED",
               "NOTIFYING_ABORT_PREPARED", "RETRY_ABORT_PREPARED"}
CommitState == {"INSERTED_COMMITTED", "NOTIFYING_COMMIT_PREPARED",
                "RETRY_COMMIT_PREPARED", "INSERTED_FORGET_COMMITTED"}
LiveState == {"ACTIVE_DISTRIBUTED", "NOTIFYING_ONE_PHASE_COMMIT", "PREPARING", "PREPARED"}
             \cup AbortState \cup CommitState
DtxState == {"UNBORN", "NONE"} \cup LiveState

Command == {"PREPARE", "COMMIT_ONEPHASE", "COMMIT_PREPARED", "ABORT_NO_PREPARED",
            "ABORT_SOME_PREPARED", "ABORT_PREPARED"}
Xact == {"none", "active", "prepared", "committed", "aborted"}
QeContext == {"none", "writer", "preparing", "prepared", "finishing", "local", "dead"}
QeAlive == {"writer", "preparing", "prepared", "finishing", "local"}
WorkerStartup == {"notify", "gather", "abort"}
WorkerPC == WorkerStartup \cup {"idle", "orphan_gather", "orphan_abort"}

TypeOK ==
  /\ qd \in [Gxid -> DtxState]
  /\ segs \in [Gxid -> SUBSET Seg]
  /\ wrote \in [Gxid -> BOOLEAN]
  /\ qdXid \in [Gxid -> BOOLEAN]
  /\ rec \in [Gxid -> {"none", "inserted", "flushed"}]
  /\ forgot \in [Gxid -> BOOLEAN]
  /\ link \in [Gxid -> [Seg -> BOOLEAN]]
  /\ cmd \in [Gxid -> [Seg -> Command \cup {"none"}]]
  /\ reply \in [Gxid -> [Seg -> {"none", "ok", "error"}]]
  /\ qe \in [Gxid -> [Seg -> QeContext]]
  /\ prim \in [Gxid -> [Seg -> Xact]]
  /\ mirr \in [Gxid -> [Seg -> Xact \ {"active"}]]
  /\ mirrorUp \in [Seg -> BOOLEAN]
  /\ rpc \in [Gxid -> [Seg -> {"none", "sent", "syncing", "ok", "error"}]]
  /\ rpcCmd \in [Gxid -> {"commit", "abort"}]
  /\ stale \in SUBSET ({"commit", "abort"} \X Gxid \X Seg)
  /\ rp \in WorkerPC
  /\ committed \in SUBSET Gxid
  /\ notified \in SUBSET Gxid
  /\ indoubt \in SUBSET Gxid
  /\ unread \in SUBSET Seg
  /\ cur \in Gxid \cup {NoGxid}
  /\ faults \in 0..MaxFaults
  /\ crashes \in 0..MaxCrashes

Init ==
  /\ qd = [g \in Gxid |-> "UNBORN"]
  /\ segs = [g \in Gxid |-> {}]
  /\ wrote = [g \in Gxid |-> FALSE]
  /\ qdXid = [g \in Gxid |-> FALSE]
  /\ rec = [g \in Gxid |-> "none"]
  /\ forgot = [g \in Gxid |-> FALSE]
  /\ link = [g \in Gxid |-> [s \in Seg |-> FALSE]]
  /\ cmd = [g \in Gxid |-> [s \in Seg |-> "none"]]
  /\ reply = [g \in Gxid |-> [s \in Seg |-> "none"]]
  /\ qe = [g \in Gxid |-> [s \in Seg |-> "none"]]
  /\ prim = [g \in Gxid |-> [s \in Seg |-> "none"]]
  /\ mirr = [g \in Gxid |-> [s \in Seg |-> "none"]]
  /\ mirrorUp = [s \in Seg |-> TRUE]
  /\ rpc = [g \in Gxid |-> [s \in Seg |-> "none"]]
  /\ rpcCmd = [g \in Gxid |-> "abort"]
  /\ stale = {}
  /\ rp = "notify"
  /\ committed = {} /\ notified = {} /\ indoubt = {} /\ unread = {}
  /\ cur = NoGxid
  /\ faults = 0 /\ crashes = 0

(***************************************************************************)
(* The dispatcher.                                                         *)
(***************************************************************************)
\* A protocol command goes out over the writer gang of g. A QE whose
\* connection is down cannot answer: the round will count it as failed.
Dispatch(g, c) ==
  /\ cmd' = [cmd EXCEPT ![g] = [s \in Seg |->
               IF s \in segs[g] /\ link[g][s] THEN c ELSE cmd[g][s]]]
  /\ reply' = [reply EXCEPT ![g] = [s \in Seg |-> "none"]]

\* The dispatcher has an answer from every QE, or knows that it gets none.
RoundDone(g) == \A s \in segs[g] : reply[g][s] # "none" \/ ~link[g][s]
RoundOk(g) == \A s \in segs[g] : reply[g][s] = "ok"

\* The QD drops every connection of the writer gang of g.
Disconnect(g) ==
  /\ link' = [link EXCEPT ![g] = [s \in Seg |-> FALSE]]
  /\ reply' = [reply EXCEPT ![g] = [s \in Seg |-> "none"]]

\* The commands of the round of g that nobody waits for any more.
Abandoned(g) == {<<rpcCmd[g], g, s>> : s \in {t \in Seg : rpc[g][t] = "sent"}}

\* A round of RETRY_* or RECOVERY_* commands for g to fresh QEs on the segments S.
Rpc(g, c, S) ==
  /\ rpc' = [rpc EXCEPT ![g] = [s \in Seg |-> IF s \in S THEN "sent" ELSE "none"]]
  /\ rpcCmd' = [rpcCmd EXCEPT ![g] = c]
  /\ UNCHANGED stale

\* The sender stops waiting for the round of g.
RpcEnd(g) ==
  /\ rpc' = [rpc EXCEPT ![g] = [s \in Seg |-> "none"]]
  /\ stale' = stale \cup Abandoned(g)
  /\ UNCHANGED rpcCmd

RpcDone(g) == \A s \in Seg : rpc[g][s] \in {"none", "ok", "error"}
RpcOk(g) == \A s \in Seg : rpc[g][s] \in {"none", "ok"}

(***************************************************************************)
(* The coordinator backend of a transaction.                               *)
(***************************************************************************)
Live(g) == qd[g] \in LiveState
SetQd(g, s) == qd' = [qd EXCEPT ![g] = s]

\* currentDtxActivate: no distributed transaction before the DTM has recovered.
Begin(g) ==
  /\ qd[g] = "UNBORN"
  /\ rp \notin WorkerStartup
  /\ SetQd(g, "ACTIVE_DISTRIBUTED")
  /\ \E x \in BOOLEAN : qdXid' = [qdXid EXCEPT ![g] = x]
  /\ UNCHANGED <<segs, wrote, walVars, gangVars, segVars, rpcVars, workerVars, faultVars>>

\* A statement is dispatched to s for the first time; the QE becomes a writer
\* of the transaction and reports whether the statement wrote WAL.
Execute(g, s) ==
  /\ qd[g] = "ACTIVE_DISTRIBUTED" /\ s \notin segs[g]
  /\ segs' = [segs EXCEPT ![g] = @ \cup {s}]
  /\ \E w \in BOOLEAN : wrote' = [wrote EXCEPT ![g] = @ \/ w]
  /\ link' = [link EXCEPT ![g][s] = TRUE]
  /\ qe' = [qe EXCEPT ![g][s] = "writer"]
  /\ prim' = [prim EXCEPT ![g][s] = "active"]
  /\ UNCHANGED <<qd, qdXid, walVars, cmd, reply, mirr, mirrorUp, rpcVars, workerVars, faultVars>>

\* Mutant: the QD's own transaction id is not counted as a participant and a
\* write on several segments commits in one phase.
OnePhaseAlways(g) == TRUE

\* The condition under which prepareDtxTransaction commits in one phase.
OnePhase(g) ==
  \/ ~wrote[g]
  \/ ~qdXid[g] /\ \A s, t \in segs[g] : s = t

\* doNotifyingOnePhaseCommit: nothing to do when no segment took part.
CommitOnePhase(g) ==
  /\ qd[g] = "ACTIVE_DISTRIBUTED" /\ OnePhase(g)
  /\ IF segs[g] = {}
     THEN SetQd(g, "NONE") /\ UNCHANGED <<cmd, reply>>
     ELSE SetQd(g, "NOTIFYING_ONE_PHASE_COMMIT") /\ Dispatch(g, "COMMIT_ONEPHASE")
  /\ UNCHANGED <<segs, wrote, qdXid, walVars, link, qe, segVars, rpcVars, workerVars, faultVars>>

\* doPrepareTransaction: the first phase starts.
Prepare(g) ==
  /\ qd[g] = "ACTIVE_DISTRIBUTED" /\ ~OnePhase(g)
  /\ SetQd(g, "PREPARING")
  /\ Dispatch(g, "PREPARE")
  /\ UNCHANGED <<segs, wrote, qdXid, walVars, link, qe, segVars, rpcVars, workerVars, faultVars>>

\* Mutant: one segment that voted yes is enough.
SomeOk(g) == \E s \in segs[g] : reply[g][s] = "ok"

\* doPrepareTransaction: every segment has prepared.
PrepareVotes(g) == RoundOk(g)
Prepared(g) ==
  /\ qd[g] = "PREPARING" /\ RoundDone(g) /\ PrepareVotes(g)
  /\ SetQd(g, "PREPARED")
  /\ UNCHANGED <<segs, wrote, qdXid, walVars, gangVars, segVars, rpcVars, workerVars, faultVars>>

\* XactLogCommitRecord inserts the distributed commit record, between
\* insertingDistributedCommitted and insertedDistributedCommitted.
InsertCommitted(g) ==
  /\ qd[g] = "PREPARED"
  /\ SetQd(g, "INSERTED_COMMITTED")
  /\ rec' = [rec EXCEPT ![g] = "inserted"]
  /\ UNCHANGED <<segs, wrote, qdXid, forgot, gangVars, segVars, rpcVars, workerVars, faultVars>>

\* RecordTransactionCommit flushes the record; the transaction is committed.
FlushCommitted(g) ==
  /\ qd[g] = "INSERTED_COMMITTED" /\ rec[g] = "inserted"
  /\ rec' = [rec EXCEPT ![g] = "flushed"]
  /\ UNCHANGED <<qdVars, forgot, gangVars, segVars, rpcVars, workerVars, faultVars>>

\* Mutant: the second phase starts before the commit record is on disk.
NotifyUnflushed(g) ==
  /\ qd[g] = "INSERTED_COMMITTED"
  /\ SetQd(g, "NOTIFYING_COMMIT_PREPARED")
  /\ Dispatch(g, "COMMIT_PREPARED")
  /\ UNCHANGED <<segs, wrote, qdXid, walVars, link, qe, segVars, rpcVars, workerVars, faultVars>>

\* notifyCommittedDtxTransaction, doNotifyingCommitPrepared: the second phase.
NotifyCommitPrepared(g) ==
  /\ qd[g] = "INSERTED_COMMITTED" /\ rec[g] = "flushed"
  /\ SetQd(g, "NOTIFYING_COMMIT_PREPARED")
  /\ Dispatch(g, "COMMIT_PREPARED")
  /\ UNCHANGED <<segs, wrote, qdXid, walVars, link, qe, segVars, rpcVars, workerVars, faultVars>>

\* doInsertForgetCommitted: every segment has confirmed the commit.
InsertForgetCommitted(g) ==
  /\ \/ qd[g] = "NOTIFYING_COMMIT_PREPARED" /\ RoundDone(g) /\ RoundOk(g)
     \/ qd[g] = "RETRY_COMMIT_PREPARED" /\ RpcDone(g) /\ RpcOk(g)
  /\ SetQd(g, "INSERTED_FORGET_COMMITTED")
  /\ forgot' = [forgot EXCEPT ![g] = TRUE]
  /\ RpcEnd(g)
  /\ UNCHANGED <<segs, wrote, qdXid, rec, gangVars, segVars, workerVars, faultVars>>

\* Mutant: a commit broadcast that failed is given up like an abort broadcast.
RetryCommitOnce(g) ==
  /\ \/ qd[g] = "NOTIFYING_COMMIT_PREPARED" /\ RoundDone(g) /\ ~RoundOk(g)
     \/ qd[g] = "RETRY_COMMIT_PREPARED" /\ RpcDone(g) /\ ~RpcOk(g)
  /\ SetQd(g, "NONE")
  /\ Disconnect(g) /\ RpcEnd(g)
  /\ UNCHANGED <<segs, wrote, qdXid, walVars, cmd, qe, segVars, workerVars, faultVars>>

\* doNotifyingCommitPrepared: the broadcast failed somewhere. The gangs are
\* reset and the commit is sent again to fresh QEs. (When the retries time
\* out the coordinator PANICs: Crash.)
RetryCommit(g) ==
  /\ \/ qd[g] = "NOTIFYING_COMMIT_PREPARED" /\ RoundDone(g) /\ ~RoundOk(g)
     \/ qd[g] = "RETRY_COMMIT_PREPARED" /\ RpcDone(g) /\ ~RpcOk(g)
  /\ SetQd(g, "RETRY_COMMIT_PREPARED")
  /\ Disconnect(g) /\ Rpc(g, "commit", segs[g])
  /\ UNCHANGED <<segs, wrote, qdXid, walVars, cmd, qe, segVars, workerVars, faultVars>>

\* CommitTransaction goes on to ProcArrayEndTransaction: the gxid is no longer
\* advertised as in progress.
EndCommitted(g) ==
  /\ \/ qd[g] = "INSERTED_FORGET_COMMITTED"
     \/ qd[g] = "NOTIFYING_ONE_PHASE_COMMIT" /\ RoundDone(g) /\ RoundOk(g)
  /\ SetQd(g, "NONE")
  /\ UNCHANGED <<segs, wrote, qdXid, walVars, gangVars, segVars, rpcVars, workerVars, faultVars>>

\* rollbackDtxTransaction with nothing prepared: ABORT_NO_PREPARED is sent, unless
\* no segment took part or the writer gang is known to be lost.
RollbackNoPrepared(g) ==
  /\ \/ qd[g] = "ACTIVE_DISTRIBUTED"
     \/ qd[g] = "NOTIFYING_ONE_PHASE_COMMIT" /\ RoundDone(g) /\ ~RoundOk(g)
  /\ \/ /\ segs[g] = {} \/ \E s \in segs[g] : ~link[g][s]
        /\ SetQd(g, "NONE")
        /\ Disconnect(g) /\ UNCHANGED cmd
     \/ /\ segs[g] # {}
        /\ SetQd(g, "NOTIFYING_ABORT_NO_PREPARED")
        /\ Dispatch(g, "ABORT_NO_PREPARED") /\ UNCHANGED link
  /\ UNCHANGED <<segs, wrote, qdXid, walVars, qe, segVars, rpcVars, workerVars, faultVars>>

\* currentGxactWriterGangLost after a failed PREPARE round: a QE that did not
\* answer is known to be lost; one that answered may have been lost since,
\* which the QD may or may not have noticed.
GangMayBeKept(g) == \A s \in segs[g] : reply[g][s] # "none"
GangMayBeLost(g) == \E s \in segs[g] : ~link[g][s]

\* Mutant: every segment is told to abort a prepared transaction.
AbortCommandPrepared(state) == "ABORT_PREPARED"

\* doNotifyingAbort: the command for the state rollbackDtxTransaction chose.
AbortCommand(state) ==
  IF state = "NOTIFYING_ABORT_SOME_PREPARED" THEN "ABORT_SOME_PREPARED" ELSE "ABORT_PREPARED"

\* rollbackDtxTransaction in PREPARING.
RollbackPreparing(g) ==
  /\ qd[g] = "PREPARING" /\ RoundDone(g) /\ ~PrepareVotes(g)
  /\ \/ /\ GangMayBeKept(g)
        /\ SetQd(g, "NOTIFYING_ABORT_SOME_PREPARED")
        /\ Dispatch(g, AbortCommand("NOTIFYING_ABORT_SOME_PREPARED")) /\ UNCHANGED <<link, rpcVars>>
     \/ /\ GangMayBeLost(g)
        /\ SetQd(g, "RETRY_ABORT_PREPARED")
        /\ Disconnect(g) /\ Rpc(g, "abort", Seg) /\ UNCHANGED cmd
  /\ UNCHANGED <<segs, wrote, qdXid, walVars, qe, segVars, workerVars, faultVars>>

\* rollbackDtxTransaction in PREPARED: an error before the commit record.
RollbackPrepared(g) ==
  /\ qd[g] = "PREPARED"
  /\ SetQd(g, "NOTIFYING_ABORT_PREPARED")
  /\ Dispatch(g, AbortCommand("NOTIFYING_ABORT_PREPARED"))
  /\ UNCHANGED <<segs, wrote, qdXid, walVars, link, qe, segVars, rpcVars, workerVars, faultVars>>

\* doNotifyingAbort, retryAbortPrepared: the broadcast failed somewhere and is
\* repeated to fresh QEs on all segments.
RetryAbort(g) ==
  /\ \/ qd[g] \in {"NOTIFYING_ABORT_SOME_PREPARED", "NOTIFYING_ABORT_PREPARED"}
        /\ RoundDone(g) /\ ~RoundOk(g)
     \/ qd[g] = "RETRY_ABORT_PREPARED" /\ RpcDone(g) /\ ~RpcOk(g)
  /\ SetQd(g, "RETRY_ABORT_PREPARED")
  /\ Disconnect(g) /\ Rpc(g, "abort", Seg)
  /\ UNCHANGED <<segs, wrote, qdXid, walVars, cmd, qe, segVars, workerVars, faultVars>>

\* The abort is over: it succeeded everywhere, or there was nothing prepared
\* and the gangs were reset, or the retries timed out and the recovery worker
\* is left to abort what is prepared.
EndAborted(g) ==
  /\ \/ qd[g] \in AbortState \ {"RETRY_ABORT_PREPARED"} /\ RoundDone(g) /\ RoundOk(g)
        /\ UNCHANGED <<link, reply>>
     \/ qd[g] = "NOTIFYING_ABORT_NO_PREPARED" /\ RoundDone(g) /\ ~RoundOk(g)
        /\ Disconnect(g)
     \/ qd[g] = "RETRY_ABORT_PREPARED" /\ RpcDone(g)
        /\ UNCHANGED <<link, reply>>
  /\ SetQd(g, "NONE")
  /\ RpcEnd(g)
  /\ UNCHANGED <<segs, wrote, qdXid, walVars, cmd, qe, segVars, workerVars, faultVars>>

\* The backend dies with FATAL where elog does not turn that into PANIC: the
\* gangs are destroyed and the segments abort what is not prepared.
BackendExit(g) ==
  /\ qd[g] \in {"ACTIVE_DISTRIBUTED", "NOTIFYING_ONE_PHASE_COMMIT",
                "NOTIFYING_ABORT_NO_PREPARED", "INSERTED_FORGET_COMMITTED"}
  /\ SetQd(g, "NONE")
  /\ Disconnect(g)
  /\ UNCHANGED <<segs, wrote, qdXid, walVars, cmd, qe, segVars, rpcVars, workerVars, faultVars>>

(***************************************************************************)
(* The segments: the writer QE.                                            *)
(***************************************************************************)
\* The state of g on s is on disk on both sides that could serve it.
Synced(g, s) == ~mirrorUp[s] \/ mirr[g][s] = prim[g][s]

\* What performDtxProtocolCommand does with command c: the context it needs,
\* the new context, the transaction after it, and the immediate answer.
Answer(g, s, r) == reply' = [reply EXCEPT ![g][s] = IF link[g][s] THEN r ELSE @]
QeStep(g, s, context, x) ==
  /\ qe' = [qe EXCEPT ![g][s] = context]
  /\ prim' = [prim EXCEPT ![g][s] = x]
  /\ cmd' = [cmd EXCEPT ![g][s] = "none"]

\* A writer votes: it prepares (EndPrepare, flushed but not yet mirrored), or
\* fails and aborts.
QePrepare(g, s) ==
  /\ cmd[g][s] = "PREPARE" /\ qe[g][s] = "writer"
  /\ \/ QeStep(g, s, "preparing", "prepared") /\ UNCHANGED reply
     \/ QeStep(g, s, "local", "aborted") /\ Answer(g, s, "error")

QeCommitOnePhase(g, s) ==
  /\ cmd[g][s] = "COMMIT_ONEPHASE" /\ qe[g][s] = "writer"
  /\ \/ QeStep(g, s, "finishing", "committed") /\ UNCHANGED reply
     \/ QeStep(g, s, "local", "aborted") /\ Answer(g, s, "error")

\* ABORT_NO_PREPARED, or ABORT_SOME_PREPARED at a QE that has nothing prepared.
QeAbort(g, s) ==
  /\ \/ cmd[g][s] = "ABORT_NO_PREPARED" /\ qe[g][s] \in {"writer", "local"}
     \/ cmd[g][s] = "ABORT_SOME_PREPARED" /\ qe[g][s] = "local"
  /\ QeStep(g, s, "local", IF qe[g][s] = "writer" THEN "aborted" ELSE prim[g][s])
  /\ Answer(g, s, "ok")

\* COMMIT_PREPARED, ABORT_PREPARED, or ABORT_SOME_PREPARED at a QE that has
\* prepared: FinishPreparedTransaction, an error when the gid does not exist.
FinishOutcome(c) == IF c = "COMMIT_PREPARED" THEN "committed" ELSE "aborted"
QeFinishPrepared(g, s) ==
  /\ cmd[g][s] \in {"COMMIT_PREPARED", "ABORT_PREPARED", "ABORT_SOME_PREPARED"}
  /\ qe[g][s] = "prepared"
  /\ IF prim[g][s] = "prepared"
     THEN QeStep(g, s, "finishing", FinishOutcome(cmd[g][s])) /\ UNCHANGED reply
     ELSE QeStep(g, s, "local", prim[g][s]) /\ Answer(g, s, "error")

\* performDtxProtocolCommand
QeCommand(g, s) ==
  /\ QePrepare(g, s) \/ QeCommitOnePhase(g, s) \/ QeAbort(g, s) \/ QeFinishPrepared(g, s)
  /\ UNCHANGED <<qdVars, walVars, link, mirr, mirrorUp, rpcVars, workerVars, faultVars>>

\* SyncRepWaitForLSN returns and the QE answers.
QeSynced(g, s) ==
  /\ qe[g][s] \in {"preparing", "finishing"} /\ Synced(g, s)
  /\ qe' = [qe EXCEPT ![g][s] = IF @ = "preparing" THEN "prepared" ELSE "local"]
  /\ Answer(g, s, "ok")
  /\ UNCHANGED <<qdVars, walVars, link, cmd, segVars, rpcVars, workerVars, faultVars>>

\* A process that dies without a prepared transaction aborts it.
AfterExit(x) == IF x = "active" THEN "aborted" ELSE x

\* A QE whose connection is closed exits; it may or may not have read the
\* command waiting for it first.
QeExit(g, s) ==
  /\ ~link[g][s] /\ qe[g][s] \in {"writer", "prepared", "local"}
  /\ QeStep(g, s, "dead", AfterExit(prim[g][s]))
  /\ UNCHANGED <<qdVars, walVars, link, reply, mirr, mirrorUp, rpcVars, workerVars, faultVars>>

Fault == faults < MaxFaults /\ faults' = faults + 1 /\ UNCHANGED crashes

\* A connection breaks; the QE does not know it yet.
LoseLink(g, s) ==
  /\ Fault
  /\ Live(g) /\ link[g][s]
  /\ link' = [link EXCEPT ![g][s] = FALSE]
  /\ UNCHANGED <<qdVars, walVars, cmd, reply, qe, segVars, rpcVars, workerVars>>

\* The QE process is terminated.
QeDie(g, s) ==
  /\ Fault
  /\ Live(g) /\ qe[g][s] \in QeAlive
  /\ link' = [link EXCEPT ![g][s] = FALSE]
  /\ QeStep(g, s, "dead", AfterExit(prim[g][s]))
  /\ UNCHANGED <<qdVars, walVars, reply, mirr, mirrorUp, rpcVars, workerVars>>

(***************************************************************************)
(* The segments: WAL replication, failover, and fresh QEs.                 *)
(***************************************************************************)
\* The mirror receives what the primary has flushed.
Replicate(g, s) ==
  /\ mirrorUp[s] /\ prim[g][s] \in {"prepared", "committed", "aborted"} /\ mirr[g][s] # prim[g][s]
  /\ mirr' = [mirr EXCEPT ![g][s] = prim[g][s]]
  /\ UNCHANGED <<qdVars, walVars, gangVars, prim, mirrorUp, rpcVars, workerVars, faultVars>>

\* FTS turns synchronous replication off: nobody waits for the mirror any more
\* and it may not be promoted.
MirrorDown(s) ==
  /\ Fault
  /\ mirrorUp[s]
  /\ mirrorUp' = [mirrorUp EXCEPT ![s] = FALSE]
  /\ UNCHANGED <<qdVars, walVars, gangVars, prim, mirr, rpcVars, workerVars>>

\* Every process of segment s is gone.
KillProcesses(s) ==
  /\ link' = [g \in Gxid |-> [link[g] EXCEPT ![s] = FALSE]]
  /\ cmd' = [g \in Gxid |-> [cmd[g] EXCEPT ![s] = "none"]]
  /\ qe' = [g \in Gxid |-> [qe[g] EXCEPT ![s] = IF @ = "none" THEN @ ELSE "dead"]]
  /\ rpc' = [g \in Gxid |-> [rpc[g] EXCEPT ![s] = IF @ \in {"sent", "syncing"} THEN "error" ELSE @]]
  /\ stale' = {m \in stale : m[3] # s}
  /\ UNCHANGED <<reply, rpcCmd>>

\* The primary restarts from its own WAL.
SegReset(s) ==
  /\ Fault
  /\ KillProcesses(s)
  /\ prim' = [g \in Gxid |-> [prim[g] EXCEPT ![s] = AfterExit(@)]]
  /\ UNCHANGED <<qdVars, walVars, mirr, mirrorUp, workerVars>>

\* The mirror is promoted: what the old primary had not replicated is lost.
Promoted(p, m) == IF m = "none" /\ p # "none" THEN "aborted" ELSE m
Failover(s) ==
  /\ Fault
  /\ mirrorUp[s]
  /\ KillProcesses(s)
  /\ prim' = [g \in Gxid |-> [prim[g] EXCEPT ![s] = Promoted(@, mirr[g][s])]]
  /\ mirrorUp' = [mirrorUp EXCEPT ![s] = FALSE]
  /\ UNCHANGED <<qdVars, walVars, mirr, workerVars>>

\* LockGXact finds the prepared transaction busy.
Busy(g, s) == qe[g][s] \in {"preparing", "finishing"}

Outcome(c) == IF c = "commit" THEN "committed" ELSE "aborted"

\* Mutant: a commit that finds nothing to commit answers without waiting for
\* the mirror to have the commit record.
FreshAnswerUnsynced(g, s, c) == IF prim[g][s] = "prepared" THEN "syncing" ELSE "ok"

\* How a fresh QE proceeds after FinishPreparedTransaction: having finished the
\* transaction, and also when there is no such gid to commit, it waits for
\* the mirror; when there is no such gid to abort it answers at once.
FreshAnswer(g, s, c) == IF prim[g][s] = "prepared" \/ c = "commit" THEN "syncing" ELSE "ok"

\* RETRY_* and RECOVERY_* at a fresh QE.
FreshCommand(g, s) ==
  /\ rpc[g][s] = "sent"
  /\ IF Busy(g, s)
     THEN rpc' = [rpc EXCEPT ![g][s] = "error"] /\ UNCHANGED prim
     ELSE /\ rpc' = [rpc EXCEPT ![g][s] = FreshAnswer(g, s, rpcCmd[g])]
          /\ prim' = [prim EXCEPT ![g][s] = IF @ = "prepared" THEN Outcome(rpcCmd[g]) ELSE @]
  /\ UNCHANGED <<qdVars, walVars, gangVars, mirr, mirrorUp, rpcCmd, stale, workerVars, faultVars>>

FreshSynced(g, s) ==
  /\ rpc[g][s] = "syncing" /\ Synced(g, s)
  /\ rpc' = [rpc EXCEPT ![g][s] = "ok"]
  /\ UNCHANGED <<qdVars, walVars, gangVars, segVars, rpcCmd, stale, workerVars, faultVars>>

\* The command fails, or its connection does.
FreshFail(g, s) ==
  /\ Fault
  /\ rpc[g][s] \in {"sent", "syncing"}
  /\ rpc' = [rpc EXCEPT ![g][s] = "error"]
  /\ \/ UNCHANGED stale
     \/ rpc[g][s] = "sent" /\ stale' = stale \cup {<<rpcCmd[g], g, s>>}
  /\ UNCHANGED <<qdVars, walVars, gangVars, segVars, rpcCmd, workerVars>>

\* A command nobody waits for any more is executed, or its QE exits without
\* having read it.
StaleCommand(m) ==
  /\ m \in stale
  /\ stale' = stale \ {m}
  /\ \/ UNCHANGED prim
     \/ /\ prim[m[2]][m[3]] = "prepared" /\ ~Busy(m[2], m[3])
        /\ prim' = [prim EXCEPT ![m[2]][m[3]] = Outcome(m[1])]
  /\ UNCHANGED <<qdVars, walVars, gangVars, mirr, mirrorUp, rpc, rpcCmd, workerVars, faultVars>>

(***************************************************************************)
(* The dtx recovery worker.                                                *)
(***************************************************************************)
workerIdle == <<qdVars, gangVars, segVars, faultVars>>

\* doNotifyCommittedInDoubt: RECOVERY_COMMIT_PREPARED to all segments for the
\* next entry of the committed array.
RecoverCommit(g) ==
  /\ rp = "notify" /\ cur = NoGxid /\ g \in committed \ notified
  /\ cur' = g
  /\ Rpc(g, "commit", Seg)
  /\ UNCHANGED <<workerIdle, walVars, rp, committed, notified, indoubt, unread>>

\* It succeeded everywhere: the forget record is inserted.
RecoverForget(g) ==
  /\ rp = "notify" /\ cur = g /\ RpcDone(g) /\ RpcOk(g)
  /\ cur' = NoGxid
  /\ notified' = notified \cup {g}
  /\ forgot' = [forgot EXCEPT ![g] = TRUE]
  /\ RpcEnd(g)
  /\ UNCHANGED <<workerIdle, rec, rp, committed, indoubt, unread>>

\* It failed somewhere: FATAL. The postmaster restarts the worker, which
\* starts over with the array as it is.
RecoverFail(g) ==
  /\ rp = "notify" /\ cur = g /\ RpcDone(g) /\ ~RpcOk(g)
  /\ cur' = NoGxid
  /\ notified' = {}
  /\ RpcEnd(g)
  /\ UNCHANGED <<workerIdle, walVars, rp, committed, indoubt, unread>>

\* Mutant: the gids in doubt are gathered before the committed transactions
\* have been notified.
RecoverNotifiedEarly ==
  /\ rp = "notify" /\ cur = NoGxid
  /\ rp' = "gather" /\ unread' = Seg /\ indoubt' = {}
  /\ committed' = {} /\ notified' = {}
  /\ UNCHANGED <<workerIdle, walVars, rpcVars, cur>>

\* recoverInDoubtTransactions: the array is done with.
RecoverNotified ==
  /\ rp = "notify" /\ cur = NoGxid /\ notified = committed
  /\ rp' = "gather" /\ unread' = Seg /\ indoubt' = {}
  /\ committed' = {} /\ notified' = {}
  /\ UNCHANGED <<workerIdle, walVars, rpcVars, cur>>

\* gatherRMInDoubtTransactions: each segment answers at a time of its own.
Gather(s) ==
  /\ rp \in {"gather", "orphan_gather"} /\ s \in unread
  /\ unread' = unread \ {s}
  /\ indoubt' = indoubt \cup {g \in Gxid : prim[g][s] = "prepared"}
  /\ UNCHANGED <<workerIdle, walVars, rpcVars, rp, committed, notified, cur>>

GatherDone ==
  /\ rp \in {"gather", "orphan_gather"} /\ unread = {}
  /\ rp' = IF rp = "gather" THEN "abort" ELSE "orphan_abort"
  /\ UNCHANGED <<workerIdle, walVars, rpcVars, committed, notified, indoubt, unread, cur>>

\* Mutant: nobody aborts orphans once the start-up recovery is over.
MayAbortStartup(g) == rp = "abort"

\* abortRMInDoubtTransactions aborts everything gathered at start-up;
\* abortOrphanedTransactions spares what IsDtxInProgress.
MayAbort(g) == rp = "orphan_abort" => ~Live(g)

\* doAbortInDoubt: RECOVERY_ABORT_PREPARED to all segments.
RecoverAbort(g) ==
  /\ rp \in {"abort", "orphan_abort"} /\ cur = NoGxid /\ g \in indoubt /\ MayAbort(g)
  /\ cur' = g
  /\ Rpc(g, "abort", Seg)
  /\ UNCHANGED <<workerIdle, walVars, rp, committed, notified, indoubt, unread>>

\* The gid is done with, whether the abort succeeded or is left for later, or
\* it is in progress.
RecoverNext(g) ==
  /\ rp \in {"abort", "orphan_abort"} /\ g \in indoubt
  /\ \/ cur = g /\ RpcDone(g) /\ RpcEnd(g)
     \/ cur = NoGxid /\ ~MayAbort(g) /\ UNCHANGED rpcVars
  /\ cur' = NoGxid
  /\ indoubt' = indoubt \ {g}
  /\ UNCHANGED <<workerIdle, walVars, rp, committed, notified, unread>>

\* At the end of recovery *shmDtmStarted = true; afterwards the worker repeats
\* AbortOrphanedPreparedTransactions.
RecoverDone ==
  /\ rp \in {"abort", "orphan_abort"} /\ indoubt = {} /\ cur = NoGxid
  /\ rp' = "idle"
  /\ UNCHANGED <<workerIdle, walVars, rpcVars, committed, notified, indoubt, unread, cur>>

OrphanCheck ==
  /\ rp = "idle"
  /\ rp' = "orphan_gather" /\ unread' = Seg
  /\ UNCHANGED <<workerIdle, walVars, rpcVars, committed, notified, indoubt, cur>>

\* The worker dies of an error (a failed gather, for one) and is restarted:
\* recovery starts over unless the DTM was already started.
WorkerExit ==
  /\ Fault
  /\ rp' = IF rp \in WorkerStartup THEN "notify" ELSE "idle"
  /\ cur' = NoGxid /\ notified' = {} /\ indoubt' = {} /\ unread' = {}
  /\ IF cur = NoGxid THEN UNCHANGED rpcVars ELSE RpcEnd(cur)
  /\ UNCHANGED <<qdVars, walVars, gangVars, segVars, committed>>

(***************************************************************************)
(* The coordinator crashes (PANIC, or a FATAL that elog turns into one)    *)
(* and restarts from its WAL. A commit record not yet flushed may or may   *)
(* not have reached the disk, and so may a forget record. Replay puts into *)
(* the committed array every gxid with a commit and no forget record.      *)
(***************************************************************************)
Crash ==
  /\ crashes < MaxCrashes /\ crashes' = crashes + 1 /\ UNCHANGED faults
  /\ \E kept \in SUBSET {g \in Gxid : rec[g] = "inserted"},
        forgotten \in SUBSET {g \in Gxid : forgot[g]} :
       /\ rec' = [g \in Gxid |-> IF rec[g] = "flushed" \/ g \in kept THEN "flushed" ELSE "none"]
       /\ forgot' = [g \in Gxid |-> g \in forgotten]
       /\ committed' = {g \in Gxid : (rec[g] = "flushed" \/ g \in kept) /\ g \notin forgotten}
  /\ qd' = [g \in Gxid |-> IF qd[g] = "UNBORN" THEN "UNBORN" ELSE "NONE"]
  /\ link' = [g \in Gxid |-> [s \in Seg |-> FALSE]]
  /\ reply' = [g \in Gxid |-> [s \in Seg |-> "none"]]
  /\ rpc' = [g \in Gxid |-> [s \in Seg |-> "none"]]
  /\ stale' = stale \cup UNION {Abandoned(g) : g \in Gxid}
  /\ rp' = "notify" /\ cur' = NoGxid /\ notified' = {} /\ indoubt' = {} /\ unread' = {}
  /\ UNCHANGED <<segs, wrote, qdXid, cmd, qe, segVars, rpcCmd>>

Backend(g) ==
  \/ CommitOnePhase(g) \/ Prepare(g) \/ Prepared(g) \/ InsertCommitted(g) \/ FlushCommitted(g)
  \/ NotifyCommitPrepared(g) \/ InsertForgetCommitted(g) \/ RetryCommit(g) \/ EndCommitted(g)
  \/ RollbackNoPrepared(g) \/ RollbackPreparing(g) \/ RollbackPrepared(g)
  \/ RetryAbort(g) \/ EndAborted(g)
Writer(g, s) == QeCommand(g, s) \/ QeSynced(g, s) \/ QeExit(g, s)
Fresh(g, s) == FreshCommand(g, s) \/ FreshSynced(g, s)
Worker ==
  \/ \E g \in Gxid : \/ RecoverCommit(g) \/ RecoverForget(g) \/ RecoverFail(g)
                     \/ RecoverAbort(g) \/ RecoverNext(g)
  \/ \E s \in Seg : Gather(s)
  \/ RecoverNotified \/ GatherDone \/ RecoverDone \/ OrphanCheck
Failure ==
  \/ \E g \in Gxid, s \in Seg : LoseLink(g, s) \/ QeDie(g, s) \/ FreshFail(g, s)
  \/ \E s \in Seg : MirrorDown(s) \/ SegReset(s) \/ Failover(s)
  \/ WorkerExit \/ Crash

Next ==
  \/ \E g \in Gxid : Begin(g) \/ Backend(g) \/ BackendExit(g)
  \/ \E g \in Gxid, s \in Seg : Execute(g, s) \/ Writer(g, s) \/ Fresh(g, s) \/ Replicate(g, s)
  \/ \E m \in stale : StaleCommand(m)
  \/ Worker
  \/ Failure

\* Running processes make progress; transactions need not start, and failures
\* need not happen.
Fairness ==
  /\ \A g \in Gxid : WF_vars(Backend(g))
  /\ \A g \in Gxid, s \in Seg : WF_vars(Writer(g, s)) /\ WF_vars(Fresh(g, s)) /\ WF_vars(Replicate(g, s))
  /\ WF_vars(Worker)

Spec == Init /\ [][Next]_vars
FairSpec == Spec /\ Fairness

(***************************************************************************)
(* Properties.                                                             *)
(***************************************************************************)
\* Atomic commitment: a transaction that wrote is never committed on one
\* segment and aborted on another, whatever the interleaving of the two
\* phases, their retries, crash recovery, the orphan check and failovers
\* (doNotifyingCommitPrepared, doNotifyingAbort, cdbdtxrecovery.c).
Atomicity ==
  \A g \in Gxid : wrote[g] =>
    \A s, t \in Seg : ~(prim[g][s] = "committed" /\ prim[g][t] = "aborted")

\* What a segment will still know after a failover that is possible now.
Durable(g, s) == IF mirrorUp[s] THEN mirr[g][s] ELSE prim[g][s]

\* A forget record (doInsertForgetCommitted, RecordDistributedForgetCommitted in
\* recovery) is written only when every participant has the commit on disk, on
\* its mirror too, so that nothing remains to be recovered.
ForgetIsSafe ==
  \A g \in Gxid : forgot[g] =>
    \A s \in segs[g] : prim[g][s] = "committed" /\ Durable(g, s) = "committed"

\* Once a commit record may be on the coordinator's disk, every participant has
\* prepared, and its PREPARE survives a failover.
CommitNeedsAllPrepared ==
  \A g \in Gxid : rec[g] # "none" =>
    \A s \in segs[g] : {prim[g][s], Durable(g, s)} \subseteq {"prepared", "committed"}

\* A RETRY_ABORT_PREPARED or RECOVERY_ABORT_PREPARED that a segment may still
\* execute, possibly long after its sender died, never finds a prepared
\* transaction whose commit has been recorded.
NoAbortAfterCommit ==
  \A g \in Gxid, s \in Seg :
    /\ rec[g] # "none" /\ s \in segs[g]
    /\ <<"abort", g, s>> \in stale \/ (rpcCmd[g] = "abort" /\ rpc[g][s] = "sent")
    => prim[g][s] = "committed" /\ Durable(g, s) = "committed"

\* performDtxProtocolCommand never meets a context it answers with FATAL or
\* PANIC (requireDistributedTransactionContext and the switch statements).
ContextFits ==
  \A g \in Gxid, s \in Seg :
    /\ cmd[g][s] \in {"PREPARE", "COMMIT_ONEPHASE"} => qe[g][s] = "writer"
    /\ cmd[g][s] \in {"COMMIT_PREPARED", "ABORT_PREPARED"} => qe[g][s] = "prepared"
    /\ cmd[g][s] = "ABORT_SOME_PREPARED" => qe[g][s] \in {"prepared", "local"}

\* No transaction stays prepared for ever: whatever happens to the coordinator
\* backend, to the coordinator and to the segments, the second phase, recovery
\* or the orphan check resolves it.
PreparedIsResolved ==
  \A g \in Gxid, s \in Seg : prim[g][s] = "prepared" ~> prim[g][s] \in {"committed", "aborted"}

\* A transaction whose commit record is durable ends up committed on every
\* participant, and stays so.
CommitReachesAll ==
  \A g \in Gxid : rec[g] = "flushed" ~> [](\A s \in segs[g] : prim[g][s] = "committed")

(***************************************************************************)
(* Refinement: the protocol implements atomic commitment. A transaction is *)
(* committed once its commit record is on the coordinator's disk (or, in a *)
(* one-phase commit, on its segment's); its outcome on a segment is what a *)
(* failover cannot take back. A transaction that wrote nothing has none.   *)
(***************************************************************************)
OutcomeOf(g, s) ==
  IF wrote[g] /\ Durable(g, s) \in {"committed", "aborted"} THEN Durable(g, s) ELSE "open"
DecisionOf(g) ==
  IF rec[g] = "flushed" \/ \E s \in Seg : OutcomeOf(g, s) = "committed" THEN "committed"
  ELSE IF \E s \in Seg : OutcomeOf(g, s) = "aborted" THEN "aborted" ELSE "none"

AC == INSTANCE AtomicCommit WITH
        decision <- [g \in Gxid |-> DecisionOf(g)],
        outcome <- [g \in Gxid |-> [s \in Seg |-> OutcomeOf(g, s)]]

\* Every behaviour of the two-phase commit code, with its crashes, failovers,
\* retries and recovery, is a behaviour of AtomicCommit: a transaction is
\* decided once, and no segment ever acts against or revokes the decision.
ImplementsAtomicCommit == AC!Spec

=============================================================================
