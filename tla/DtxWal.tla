------------------------------- MODULE DtxWal --------------------------------
(***************************************************************************)
(* How the set of committed but unfinished distributed transactions        *)
(* survives checkpoints and crashes of the coordinator.                    *)
(*                                                                         *)
(* A backend logs its distributed commit record, sets includeInCkpt, runs  *)
(* the second phase, logs the forget record and clears includeInCkpt. A    *)
(* checkpoint fixes its redo pointer, waits for the backends inside their  *)
(* commit critical section, and only then collects the gxids of which the  *)
(* commit record may precede the redo pointer. Recovery starts from that   *)
(* list, replays the commit and forget records behind the redo pointer     *)
(* into shmCommittedGxidArray, and leaves the array to the dtx recovery    *)
(* worker, which runs the second phase again for each entry.               *)
(*                                                                         *)
(* Sources: xact.c (RecordTransactionCommit), cdbtm.c, xlog.c              *)
(* (CreateCheckPoint), procarray.c (getDtxCheckPointInfo),                 *)
(* cdbdtxrecovery.c (redo*, recoverInDoubtTransactions).                   *)
(***************************************************************************)
EXTENDS Integers, Sequences, FiniteSets

CONSTANTS Backend,      \* dispatcher backends (max_connections of them)
          NoGxid,       \* InvalidDistributedTransactionId
          MaxGxid,      \* bound: how many distributed transactions commit
          MaxCrashes,   \* bound: crashes, shutdowns, and failures of the recovery worker
          MaxTmGxacts   \* max_tm_gxacts, the capacity of shmCommittedGxidArray

ASSUME BoundsAssumption == MaxGxid \in Nat /\ MaxCrashes \in Nat /\ MaxTmGxacts \in Nat
ASSUME NoGxidAssumption == NoGxid \notin Nat

VARIABLES
  pc,        \* where each backend is between its PREPAREs and its end
  gxid,      \* MyTmGxact->gxid
  include,   \* MyTmGxact->includeInCkpt
  wal,       \* the records behind the redo pointer of the last checkpoint
  flushed,   \* how many of them are on disk
  ckptGxids, \* committedGxidArray of the last checkpoint record
  ckpt,      \* the checkpoint the checkpointer is building
  rp,        \* start-up process and dtx recovery worker: where they are
  pos,       \* how many records the start-up process has replayed
  committed, \* shmCommittedGxidArray
  notified,  \* the entries of it the worker has dealt with in this pass
  nextGxid,  \* the next gxid to be issued
  logged,    \* gxids whose commit record was inserted and not lost (history)
  finished,  \* gxids whose second phase reached every segment (history)
  crashes

vars == <<pc, gxid, include, wal, flushed, ckptGxids, ckpt, rp, pos, committed,
          notified, nextGxid, logged, finished, crashes>>
backendVars == <<pc, gxid, include>>
workerVars == <<rp, pos, committed, notified>>
history == <<logged, finished>>

Gxid == 1..MaxGxid
Record == [kind : {"commit", "forget"}, gxid : Gxid]
BackendPC == {"idle", "delay", "inserted", "included", "flushed", "notify", "forgot", "cleared"}

\* delayChkptFlags is set from before the insertion of the commit record until
\* after its flush.
Delaying(b) == pc[b] \in {"delay", "inserted", "included", "flushed"}

NoCkpt == [phase |-> "none", redo |-> 0, wait |-> {}, unscanned |-> {}, gxids |-> {}]
Ckpt == [phase : {"none", "redo", "wait", "scan", "write"}, redo : Nat,
         wait : SUBSET (Backend \X Gxid), unscanned : SUBSET Backend, gxids : SUBSET Gxid]

TypeOK ==
  /\ pc \in [Backend -> BackendPC]
  /\ gxid \in [Backend -> Gxid \cup {NoGxid}]
  /\ include \in [Backend -> BOOLEAN]
  /\ wal \in Seq(Record)
  /\ flushed \in 0..Len(wal)
  /\ ckptGxids \in SUBSET Gxid
  /\ ckpt \in Ckpt
  /\ rp \in {"start", "redo", "notify", "started"}
  /\ pos \in 0..Len(wal)
  /\ committed \in SUBSET Gxid
  /\ notified \in SUBSET Gxid
  /\ nextGxid \in 1..MaxGxid + 1
  /\ logged \in SUBSET Gxid
  /\ finished \in SUBSET Gxid
  /\ crashes \in 0..MaxCrashes

Init ==
  /\ pc = [b \in Backend |-> "idle"]
  /\ gxid = [b \in Backend |-> NoGxid]
  /\ include = [b \in Backend |-> FALSE]
  /\ wal = << >> /\ flushed = 0 /\ ckptGxids = {}
  /\ ckpt = NoCkpt
  /\ rp = "start" /\ pos = 0 /\ committed = {} /\ notified = {}
  /\ nextGxid = 1
  /\ logged = {} /\ finished = {}
  /\ crashes = 0

Goto(b, label) == pc' = [pc EXCEPT ![b] = label]
Log(kind, g) == wal' = Append(wal, [kind |-> kind, gxid |-> g])

-----------------------------------------------------------------------------
(***************************************************************************)
(* A backend commits a transaction that all its segments have prepared     *)
(***************************************************************************)

\* Mutant: includeInCkpt is set before the commit record is inserted.
DelayIncluded(b) ==
  /\ rp = "started" /\ pc[b] = "idle" /\ nextGxid <= MaxGxid
  /\ gxid' = [gxid EXCEPT ![b] = nextGxid]
  /\ include' = [include EXCEPT ![b] = TRUE]
  /\ nextGxid' = nextGxid + 1
  /\ Goto(b, "delay")
  /\ UNCHANGED <<wal, flushed, ckptGxids, ckpt, workerVars, history, crashes>>

\* A distributed transaction has started, its segments have prepared, and
\* RecordTransactionCommit enters its critical section with delayChkptFlags set.
Delay(b) ==
  /\ rp = "started" /\ pc[b] = "idle" /\ nextGxid <= MaxGxid
  /\ gxid' = [gxid EXCEPT ![b] = nextGxid]
  /\ nextGxid' = nextGxid + 1
  /\ Goto(b, "delay")
  /\ UNCHANGED <<include, wal, flushed, ckptGxids, ckpt, workerVars, history, crashes>>

\* XactLogCommitRecord: XLogInsert ...
InsertCommitted(b) ==
  /\ pc[b] = "delay"
  /\ Log("commit", gxid[b])
  /\ logged' = logged \cup {gxid[b]}
  /\ Goto(b, "inserted")
  /\ UNCHANGED <<gxid, include, flushed, ckptGxids, ckpt, workerVars, nextGxid, finished, crashes>>

\* ... then insertedDistributedCommitted.
Include(b) ==
  /\ pc[b] = "inserted"
  /\ include' = [include EXCEPT ![b] = TRUE]
  /\ Goto(b, "included")
  /\ UNCHANGED <<gxid, wal, flushed, ckptGxids, ckpt, workerVars, nextGxid, history, crashes>>

\* RecordTransactionCommit: XLogFlush ...
FlushCommitted(b) ==
  /\ pc[b] = "included"
  /\ flushed' = Len(wal)
  /\ Goto(b, "flushed")
  /\ UNCHANGED <<gxid, include, wal, ckptGxids, ckpt, workerVars, nextGxid, history, crashes>>

\* ... and, after the commit log is updated, the end of the critical section.
ClearDelay(b) ==
  /\ pc[b] = "flushed"
  /\ Goto(b, "notify")
  /\ UNCHANGED <<gxid, include, wal, flushed, ckptGxids, ckpt, workerVars, nextGxid, history, crashes>>

\* doNotifyingCommitPrepared has succeeded on every segment;
\* RecordDistributedForgetCommitted does not flush the record it inserts.
InsertForgetCommitted(b) ==
  /\ pc[b] = "notify"
  /\ Log("forget", gxid[b])
  /\ finished' = finished \cup {gxid[b]}
  /\ Goto(b, "forgot")
  /\ UNCHANGED <<gxid, include, flushed, ckptGxids, ckpt, workerVars, nextGxid, logged, crashes>>

\* The last assignment of doInsertForgetCommitted.
ClearInclude(b) ==
  /\ pc[b] = "forgot"
  /\ include' = [include EXCEPT ![b] = FALSE]
  /\ Goto(b, "cleared")
  /\ UNCHANGED <<gxid, wal, flushed, ckptGxids, ckpt, workerVars, nextGxid, history, crashes>>

\* ProcArrayEndGxact, under ProcArrayLock.
EndGxact(b) ==
  /\ pc[b] = "cleared" /\ ckpt.phase # "scan"
  /\ gxid' = [gxid EXCEPT ![b] = NoGxid]
  /\ Goto(b, "idle")
  /\ UNCHANGED <<include, wal, flushed, ckptGxids, ckpt, workerVars, nextGxid, history, crashes>>

-----------------------------------------------------------------------------
(***************************************************************************)
(* CreateCheckPoint                                                        *)
(***************************************************************************)
otherThanCkpt == <<backendVars, wal, flushed, ckptGxids, workerVars, nextGxid, history, crashes>>

CkptRedo ==
  /\ ckpt.phase = "none" /\ rp \in {"notify", "started"}
  /\ ckpt' = [NoCkpt EXCEPT !.phase = "redo", !.redo = Len(wal)]
  /\ UNCHANGED otherThanCkpt

\* GetVirtualXIDsDelayingChkpt
CkptDelayers ==
  /\ ckpt.phase = "redo"
  /\ ckpt' = [ckpt EXCEPT !.phase = "wait",
                          !.wait = {<<b, gxid[b]>> : b \in {c \in Backend : Delaying(c)}}]
  /\ UNCHANGED otherThanCkpt

\* Mutant: the list is collected without waiting for the delaying backends.
CkptMayCollectNow == TRUE

\* HaveVirtualXIDsDelayingChkpt: none of those transactions is delaying any more.
CkptMayCollect == \A w \in ckpt.wait : ~(Delaying(w[1]) /\ gxid[w[1]] = w[2])

\* getDtxCheckPointInfo copies shmCommittedGxidArray, which the recovery worker
\* empties without CommittedGxidArrayLock: from the moment the worker has dealt
\* with every entry the copy may be cut short ...
CkptArray ==
  /\ ckpt.phase = "wait" /\ CkptMayCollect
  /\ \E copied \in SUBSET committed :
       /\ copied = committed \/ notified = committed
       /\ ckpt' = [ckpt EXCEPT !.phase = "scan", !.wait = {}, !.unscanned = Backend, !.gxids = copied]
  /\ UNCHANGED otherThanCkpt

\* ... and then reads includeInCkpt of one process after the other. The flag is
\* set and cleared without ProcArrayLock.
CkptScan(b) ==
  /\ ckpt.phase = "scan" /\ b \in ckpt.unscanned
  /\ ckpt' = [ckpt EXCEPT !.unscanned = @ \ {b},
                          !.gxids = IF include[b] THEN @ \cup {gxid[b]} ELSE @,
                          !.phase = IF ckpt.unscanned = {b} THEN "write" ELSE @]
  /\ UNCHANGED otherThanCkpt

\* The checkpoint record is inserted and flushed, and with it all before it;
\* the control file then makes its redo pointer the start of any replay.
CkptInstall ==
  /\ ckpt.phase = "write"
  /\ wal' = SubSeq(wal, ckpt.redo + 1, Len(wal))
  /\ flushed' = Len(wal) - ckpt.redo
  /\ ckptGxids' = ckpt.gxids
  /\ ckpt' = NoCkpt
  /\ UNCHANGED <<backendVars, workerVars, nextGxid, history, crashes>>

-----------------------------------------------------------------------------
(***************************************************************************)
(* Crash, shutdown and recovery                                            *)
(***************************************************************************)

\* redoDistributedCommitRecord dies with FATAL when the array is full.
Fits(S) == Cardinality(S) <= MaxTmGxacts

\* redoDtxCheckPoint
RedoCheckPoint ==
  /\ rp = "start" /\ Fits(ckptGxids)
  /\ rp' = "redo" /\ pos' = 0 /\ committed' = ckptGxids
  /\ UNCHANGED <<backendVars, wal, flushed, ckptGxids, ckpt, notified, nextGxid, history, crashes>>

\* The array after record r: redoDistributedCommitRecord, redoDistributedForgetCommitRecord.
Redone(r) ==
  IF r.kind = "commit" THEN committed \cup {r.gxid} ELSE committed \ {r.gxid}

Redo ==
  /\ rp = "redo" /\ pos < Len(wal) /\ Fits(Redone(wal[pos + 1]))
  /\ committed' = Redone(wal[pos + 1])
  /\ pos' = pos + 1
  /\ UNCHANGED <<backendVars, wal, flushed, ckptGxids, ckpt, rp, notified, nextGxid, history, crashes>>

\* The end of replay. Crash recovery ends with a checkpoint, into which
\* getDtxCheckPointInfo puts the array; a promoted standby goes on without one.
RedoDone ==
  /\ rp = "redo" /\ pos = Len(wal)
  /\ rp' = "notify" /\ pos' = 0 /\ notified' = {}
  /\ \/ wal' = << >> /\ flushed' = 0 /\ ckptGxids' = committed
     \/ UNCHANGED <<wal, flushed, ckptGxids>>
  /\ UNCHANGED <<backendVars, ckpt, committed, nextGxid, history, crashes>>

\* recoverInDoubtTransactions: the second phase of one entry, which succeeds on
\* every segment, and its forget record.
RecoverForget(g) ==
  /\ rp = "notify" /\ g \in committed \ notified
  /\ notified' = notified \cup {g}
  /\ Log("forget", g)
  /\ finished' = finished \cup {g}
  /\ UNCHANGED <<backendVars, flushed, ckptGxids, ckpt, rp, pos, committed, nextGxid, logged, crashes>>

\* The second phase fails somewhere: FATAL, and the worker is started again.
RecoverFail ==
  /\ crashes < MaxCrashes /\ crashes' = crashes + 1
  /\ rp = "notify" /\ notified # committed
  /\ notified' = {}
  /\ UNCHANGED <<backendVars, wal, flushed, ckptGxids, ckpt, rp, pos, committed, nextGxid, history>>

\* Mutant: the array is emptied although some entry failed.
RecoverNotifiedEarly ==
  /\ rp = "notify"
  /\ rp' = "started" /\ committed' = {} /\ notified' = {}
  /\ UNCHANGED <<backendVars, wal, flushed, ckptGxids, ckpt, pos, nextGxid, history, crashes>>

\* *shmNumCommittedGxacts = 0, and at the end of recoverTM *shmDtmStarted = true.
RecoverNotified ==
  /\ rp = "notify" /\ notified = committed
  /\ rp' = "started" /\ committed' = {} /\ notified' = {}
  /\ UNCHANGED <<backendVars, wal, flushed, ckptGxids, ckpt, pos, nextGxid, history, crashes>>

\* Shared memory and processes are gone; the start-up process runs.
Restart ==
  /\ crashes < MaxCrashes /\ crashes' = crashes + 1
  /\ pc' = [b \in Backend |-> "idle"]
  /\ gxid' = [b \in Backend |-> NoGxid]
  /\ include' = [b \in Backend |-> FALSE]
  /\ ckpt' = NoCkpt
  /\ rp' = "start" /\ pos' = 0 /\ committed' = {} /\ notified' = {}
  /\ UNCHANGED <<nextGxid, finished>>

\* Records behind the flushed ones may or may not have reached the disk.
Crash ==
  /\ Restart
  /\ \E k \in flushed..Len(wal) :
       /\ wal' = SubSeq(wal, 1, k) /\ flushed' = k
       /\ logged' = logged \ {wal[i].gxid : i \in {j \in k + 1 .. Len(wal) : wal[j].kind = "commit"}}
  /\ UNCHANGED ckptGxids

\* A clean shutdown ends with a checkpoint. The worker may not be done yet.
Shutdown ==
  /\ rp \in {"notify", "started"} /\ ckpt.phase = "none"
  /\ \A b \in Backend : pc[b] = "idle"
  /\ Restart
  /\ wal' = << >> /\ flushed' = 0 /\ ckptGxids' = committed
  /\ UNCHANGED logged

-----------------------------------------------------------------------------
Commit(b) == \/ InsertCommitted(b) \/ Include(b) \/ FlushCommitted(b) \/ ClearDelay(b)
             \/ InsertForgetCommitted(b) \/ ClearInclude(b) \/ EndGxact(b)
Checkpoint == \/ CkptDelayers \/ CkptArray \/ CkptInstall
              \/ \E b \in Backend : CkptScan(b)
Recovery == \/ RedoCheckPoint \/ Redo \/ RedoDone \/ RecoverNotified
            \/ \E g \in Gxid : RecoverForget(g)

Next == \/ \E b \in Backend : Delay(b) \/ Commit(b)
        \/ CkptRedo \/ Checkpoint
        \/ Recovery \/ RecoverFail
        \/ Crash \/ Shutdown

Spec == Init /\ [][Next]_vars

\* Running processes make progress; transactions, checkpoints and failures need
\* not happen.
FairSpec ==
  /\ Spec
  /\ \A b \in Backend : WF_vars(Commit(b))
  /\ WF_vars(Checkpoint) /\ WF_vars(Recovery)

-----------------------------------------------------------------------------
(***************************************************************************)
(* Properties                                                              *)
(***************************************************************************)

\* No committed distributed transaction is forgotten before its second phase is
\* complete: unless replay is still running, a live backend is at it or it is in
\* the array that the recovery worker works through (the order of
\* insertedDistributedCommitted, HaveVirtualXIDsDelayingChkpt and
\* getDtxCheckPointInfo).
CommitIsRemembered ==
  rp \in {"notify", "started"} =>
    \A g \in logged \ finished : g \in committed \/ \E b \in Backend : gxid[b] = g

\* Recovery never runs the second phase of a transaction whose commit record is
\* not on disk: shmCommittedGxidArray holds only logged commits.
RecoveredIsLogged == committed \subseteq logged

\* A committed distributed transaction is finished on every segment in the end,
\* by its backend or by the recovery worker, unless a crash destroys its
\* commit record before anybody was told (doNotifyingCommitPrepared,
\* recoverInDoubtTransactions).
CommitIsFinished == \A g \in Gxid : g \in logged ~> g \in finished \/ g \notin logged

\* What the comment of tmShmemInit expects of an array with one entry for each
\* connection: "MaxConnections should be fine also".
ReplayFits ==
  /\ rp = "start" => Fits(ckptGxids)
  /\ rp = "redo" /\ pos < Len(wal) => Fits(Redone(wal[pos + 1]))
=============================================================================
