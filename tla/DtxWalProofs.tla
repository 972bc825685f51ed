---------------------------- MODULE DtxWalProofs -----------------------------
(***************************************************************************)
(* Proofs about module DtxWal, for any number of backends, transactions    *)
(* and crashes.                                                            *)
(***************************************************************************)
EXTENDS DtxWal, SequenceTheorems, TLAPS

CommitAt(i, g) == wal[i].kind = "commit" /\ wal[i].gxid = g
Unfinished == logged \ finished

\* What the place of a backend says of its transaction.
BackendInv ==
  \A b \in Backend :
    /\ pc[b] = "idle" <=> gxid[b] = NoGxid
    /\ include[b] <=> pc[b] \in {"included", "flushed", "notify", "forgot"}
    /\ pc[b] # "idle" => gxid[b] < nextGxid
    /\ pc[b] = "delay" => gxid[b] \notin logged
    /\ pc[b] \notin {"idle", "delay"} => gxid[b] \in logged
    /\ pc[b] \in {"forgot", "cleared"} => gxid[b] \in finished
    /\ \A c \in Backend : pc[b] # "idle" /\ gxid[c] = gxid[b] => b = c

\* A commit is logged once; a forget record comes after the second phase.
RecordInv ==
  /\ \A g \in logged : g < nextGxid
  /\ \A i \in 1..Len(wal) : IF wal[i].kind = "commit" THEN wal[i].gxid \in logged
                                                      ELSE wal[i].gxid \in finished
  /\ \A i, j \in 1..Len(wal) : wal[i].kind = "commit" /\ CommitAt(j, wal[i].gxid) => i = j

\* The lists of gxids hold logged commits only; a commit listed by a checkpoint
\* is on disk.
ListInv ==
  /\ ckptGxids \subseteq logged /\ ckpt.gxids \subseteq logged /\ committed \subseteq logged
  /\ notified \subseteq finished
  /\ \A i \in 1..Len(wal), g \in ckptGxids : CommitAt(i, g) => i <= flushed

\* Checkpoints are made after recovery, from a redo pointer within the WAL.
PhaseInv ==
  /\ ckpt.phase # "none" => rp \in {"notify", "started"} /\ ckpt.redo <= Len(wal)
  /\ rp # "redo" => pos = 0

\* Recovery finds every unfinished commit in the last checkpoint or in the WAL,
DurableInv == \A g \in Unfinished : g \in ckptGxids \/ \E i \in 1..Len(wal) : CommitAt(i, g)

\* replay has it in the array or still ahead,
ReplayInv ==
  rp = "redo" =>
    \A g \in Unfinished : g \in committed \/ \E i \in pos + 1..Len(wal) : CommitAt(i, g)

\* and afterwards the recovery worker or its backend sees to it.
LiveInv ==
  rp \in {"notify", "started"} =>
    \A g \in Unfinished : \/ g \in committed
                          \/ \E b \in Backend : gxid[b] = g

\* A checkpoint under way has an unfinished commit behind its redo pointer, in
\* its list, or will find it: it waits for the backends that have yet to set
\* includeInCkpt, and then scans those that have.
Behind(g) == \E i \in ckpt.redo + 1..Len(wal) : CommitAt(i, g)
CkptInv ==
  /\ ckpt.phase = "wait" =>
       \A b \in Backend : pc[b] = "inserted" => <<b, gxid[b]>> \in ckpt.wait \/ Behind(gxid[b])
  /\ ckpt.phase = "scan" =>
       \A g \in Unfinished : \/ g \in ckpt.gxids \/ Behind(g)
                             \/ \E b \in ckpt.unscanned : gxid[b] = g /\ include[b]
  /\ ckpt.phase = "write" => \A g \in Unfinished : g \in ckpt.gxids \/ Behind(g)

IInv == /\ TypeOK /\ BackendInv /\ RecordInv /\ ListInv /\ PhaseInv
        /\ DurableInv /\ ReplayInv /\ LiveInv /\ CkptInv

USE BoundsAssumption, NoGxidAssumption

\* Dropping the records before a redo pointer.
LEMMA DropPrefix ==
  ASSUME NEW S, NEW s \in Seq(S), NEW r \in 0..Len(s), NEW t, t = SubSeq(s, r + 1, Len(s))
  PROVE  t \in Seq(S) /\ Len(t) = Len(s) - r /\ \A i \in 1..Len(t) : t[i] = s[r + i]
OBVIOUS

\* Dropping the records behind a position.
LEMMA KeepPrefix ==
  ASSUME NEW S, NEW s \in Seq(S), NEW r \in 0..Len(s), NEW t, t = SubSeq(s, 1, r)
  PROVE  t \in Seq(S) /\ Len(t) = r /\ \A i \in 1..r : t[i] = s[i]
OBVIOUS

\* Every initial state satisfies the inductive invariant.
LEMMA InitIInv == Init => IInv
<1> SUFFICES ASSUME Init PROVE IInv
  BY Zenon
<1> USE DEF Init, NoCkpt
<1>1. TypeOK
  BY DEF TypeOK, BackendPC, Ckpt, Gxid
<1>2. BackendInv /\ RecordInv /\ ListInv /\ PhaseInv
  BY DEF BackendInv, RecordInv, ListInv, PhaseInv
<1>3. DurableInv /\ ReplayInv /\ LiveInv /\ CkptInv
  BY Zenon DEF DurableInv, ReplayInv, LiveInv, CkptInv, Unfinished
<1> QED BY Zenon, <1>1, <1>2, <1>3 DEF IInv

\* A new transaction has the next gxid, which nothing mentions yet.
LEMMA DelayStep ==
  ASSUME IInv, NEW b \in Backend, Delay(b)
  PROVE  IInv'
<1> USE DEF IInv, Delay, Goto, backendVars, workerVars, history
<1>1. TypeOK'
  BY DEF TypeOK, BackendPC, Ckpt, Gxid, Record
<1>2. BackendInv'
  BY DEF BackendInv, RecordInv, Gxid, TypeOK
<1>3. RecordInv'
  <2> USE DEF TypeOK
  <2>1. \A h \in logged : h < nextGxid'
    BY DEF RecordInv, Gxid
  <2> QED BY Zenon, <2>1 DEF RecordInv, CommitAt
<1>4. ListInv' /\ PhaseInv'
  BY Zenon DEF ListInv, CommitAt, PhaseInv
<1>5. DurableInv' /\ ReplayInv'
  BY ZenonT(60) DEF DurableInv, Unfinished, CommitAt, ReplayInv
<1>6. LiveInv'
  BY DEF LiveInv, Unfinished, BackendInv, Gxid, TypeOK
<1>7. CkptInv'
  BY DEF CkptInv, Behind, CommitAt, Unfinished, BackendInv, TypeOK
<1> QED BY Zenon, <1>1, <1>2, <1>3, <1>4, <1>5, <1>6, <1>7

\* The commit record is the first of its gxid, and behind the redo pointer of any
\* checkpoint under way.
LEMMA InsertCommittedStep ==
  ASSUME IInv, NEW b \in Backend, InsertCommitted(b)
  PROVE  IInv'
<1> USE DEF IInv, InsertCommitted, Goto, Log, backendVars, workerVars, history
<1>a. /\ wal' \in Seq(Record) /\ Len(wal') = Len(wal) + 1 /\ Len(wal) \in Nat
      /\ \A i \in 1..Len(wal) : wal'[i] = wal[i]
      /\ wal'[Len(wal) + 1].kind = "commit" /\ wal'[Len(wal) + 1].gxid = gxid[b]
  <2>1. wal \in Seq(Record) /\ gxid[b] \in Gxid
    BY Zenon DEF TypeOK, BackendInv
  <2> DEFINE r == [kind |-> "commit", gxid |-> gxid[b]]
  <2>2. r \in Record /\ r.kind = "commit" /\ r.gxid = gxid[b]
    BY Zenon, <2>1 DEF Record
  <2>3. wal' = Append(wal, r)
    BY Zenon
  <2> HIDE DEF r
  <2> QED BY ONLY <2>1, <2>2, <2>3
<1> HIDE DEF Log
<1> USE <1>a
<1>1. TypeOK'
  BY DEF TypeOK, BackendPC, BackendInv
<1>2. BackendInv'
  BY DEF BackendInv, TypeOK
<1>3. RecordInv'
  <2>1. gxid[b] \notin logged /\ gxid[b] < nextGxid
    BY Zenon DEF BackendInv
  <2>2. \A i, j \in 1..Len(wal') :
          wal'[i].kind = "commit" /\ wal'[j].kind = "commit" /\ wal'[i].gxid = wal'[j].gxid => i = j
    BY <2>1 DEF RecordInv, CommitAt
  <2>3. \A i \in 1..Len(wal') : IF wal'[i].kind = "commit" THEN wal'[i].gxid \in logged'
                                                          ELSE wal'[i].gxid \in finished'
    BY DEF RecordInv
  <2>4. \A g \in logged' : g < nextGxid'
    BY Zenon, <2>1 DEF RecordInv
  <2> QED BY Zenon, <2>2, <2>3, <2>4 DEF RecordInv, CommitAt
<1>4. ListInv'
  <2>1. \A i \in 1..Len(wal'), h \in ckptGxids : wal'[i].kind = "commit" /\ wal'[i].gxid = h => i <= flushed
    BY DEF ListInv, CommitAt, BackendInv
  <2>2. /\ ckptGxids \subseteq logged' /\ ckpt.gxids \subseteq logged' /\ committed \subseteq logged'
        /\ notified' \subseteq finished'
    BY Zenon DEF ListInv
  <2> QED BY Zenon, <2>1, <2>2 DEF ListInv, CommitAt
<1>5. PhaseInv'
  BY DEF PhaseInv, TypeOK, Ckpt
<1>6. DurableInv'
  BY DEF DurableInv, Unfinished, CommitAt
<1>7. ReplayInv' /\ LiveInv'
  <2>1. ReplayInv'
    BY DEF ReplayInv, Unfinished, CommitAt, TypeOK
  <2>2. LiveInv'
    BY Zenon DEF LiveInv, Unfinished
  <2> QED BY Zenon, <2>1, <2>2
<1>8. CkptInv'
  <2> USE DEF TypeOK
  <2>1. ASSUME NEW g, Behind(g) PROVE Behind(g)'
    BY <2>1 DEF Behind, CommitAt, Ckpt
  <2>2. ckpt.phase # "none" => Behind(gxid[b])'
    BY DEF Behind, CommitAt, Ckpt, PhaseInv
  <2>3. \A c \in Backend : c # b => pc'[c] = pc[c]
    BY Zenon
  <2> QED BY ZenonT(60), <2>1, <2>2, <2>3 DEF CkptInv, Unfinished
<1> QED BY Zenon, <1>1, <1>2, <1>3, <1>4, <1>5, <1>6, <1>7, <1>8

\* includeInCkpt is set while the backend still delays checkpoints.
LEMMA IncludeStep ==
  ASSUME IInv, NEW b \in Backend, Include(b)
  PROVE  IInv'
<1> USE DEF IInv, Include, Goto, backendVars, workerVars, history
<1>1. TypeOK'
  BY Zenon DEF TypeOK, BackendPC, Ckpt, Gxid, Record
<1>2. BackendInv'
  BY Zenon DEF BackendInv, TypeOK
<1>3. RecordInv'
  BY Zenon DEF RecordInv, CommitAt
<1>4. ListInv' /\ PhaseInv'
  BY Zenon DEF ListInv, CommitAt, PhaseInv
<1>5. DurableInv' /\ ReplayInv'
  BY Zenon DEF DurableInv, Unfinished, CommitAt, ReplayInv
<1>6. LiveInv'
  BY Zenon DEF LiveInv, Unfinished, TypeOK
<1>7. CkptInv'
  <2> USE DEF TypeOK
  <2>1. \A g : Behind(g)' <=> Behind(g)
    BY Zenon DEF Behind, CommitAt
  <2>2. \A c \in Backend : pc'[c] = "inserted" => pc[c] = "inserted"
    BY Zenon
  <2>3. \A c \in Backend : include[c] => include'[c]
    BY Zenon
  <2> QED BY Zenon, <2>1, <2>2, <2>3 DEF CkptInv, Unfinished, Ckpt
<1> QED BY Zenon, <1>1, <1>2, <1>3, <1>4, <1>5, <1>6, <1>7

\* XLogFlush.
LEMMA FlushCommittedStep ==
  ASSUME IInv, NEW b \in Backend, FlushCommitted(b)
  PROVE  IInv'
<1> USE DEF IInv, FlushCommitted, Goto, backendVars, workerVars, history
<1>1. TypeOK'
  BY DEF TypeOK, BackendPC, Ckpt, Gxid, Record
<1>2. BackendInv'
  BY ZenonT(60) DEF BackendInv, TypeOK
<1>3. RecordInv'
  BY Zenon DEF RecordInv, CommitAt
<1>4. ListInv' /\ PhaseInv'
  BY DEF ListInv, CommitAt, PhaseInv
<1>5. DurableInv' /\ ReplayInv'
  BY Zenon DEF DurableInv, Unfinished, CommitAt, ReplayInv
<1>6. LiveInv'
  BY Zenon DEF LiveInv, Unfinished, TypeOK
<1>7. CkptInv'
  BY DEF CkptInv, Behind, CommitAt, Unfinished, BackendInv, TypeOK
<1> QED BY Zenon, <1>1, <1>2, <1>3, <1>4, <1>5, <1>6, <1>7

\* The end of the critical section.
LEMMA ClearDelayStep ==
  ASSUME IInv, NEW b \in Backend, ClearDelay(b)
  PROVE  IInv'
<1> USE DEF IInv, ClearDelay, Goto, backendVars, workerVars, history
<1>1. TypeOK'
  BY Zenon DEF TypeOK, BackendPC, Ckpt, Gxid, Record
<1>2. BackendInv'
  BY Zenon DEF BackendInv, TypeOK
<1>3. RecordInv'
  BY Zenon DEF RecordInv, CommitAt
<1>4. ListInv' /\ PhaseInv'
  BY Zenon DEF ListInv, CommitAt, PhaseInv
<1>5. DurableInv' /\ ReplayInv'
  BY Zenon DEF DurableInv, Unfinished, CommitAt, ReplayInv
<1>6. LiveInv'
  BY Zenon DEF LiveInv, Unfinished, TypeOK
<1>7. CkptInv'
  BY DEF CkptInv, Behind, CommitAt, Unfinished, BackendInv, TypeOK
<1> QED BY Zenon, <1>1, <1>2, <1>3, <1>4, <1>5, <1>6, <1>7

\* From the forget record on the transaction is finished.
LEMMA InsertForgetCommittedStep ==
  ASSUME IInv, NEW b \in Backend, InsertForgetCommitted(b)
  PROVE  IInv'
<1> USE DEF IInv, InsertForgetCommitted, Goto, Log, backendVars, workerVars, history
<1>a. /\ wal' \in Seq(Record) /\ Len(wal') = Len(wal) + 1 /\ Len(wal) \in Nat
      /\ \A i \in 1..Len(wal) : wal'[i] = wal[i]
      /\ wal'[Len(wal) + 1].kind = "forget" /\ wal'[Len(wal) + 1].gxid = gxid[b]
  <2>1. wal \in Seq(Record) /\ gxid[b] \in Gxid
    BY Zenon DEF TypeOK, BackendInv
  <2> DEFINE r == [kind |-> "forget", gxid |-> gxid[b]]
  <2>2. r \in Record /\ r.kind = "forget" /\ r.gxid = gxid[b]
    BY Zenon, <2>1 DEF Record
  <2>3. wal' = Append(wal, r)
    BY Zenon
  <2> HIDE DEF r
  <2> QED BY ONLY <2>1, <2>2, <2>3
<1> HIDE DEF Log
<1> USE <1>a
<1>1. TypeOK'
  BY DEF TypeOK, BackendPC, BackendInv
<1>2. BackendInv'
  BY DEF BackendInv, TypeOK
<1>3. RecordInv'
  <2>1. \A i, j \in 1..Len(wal') :
          wal'[i].kind = "commit" /\ wal'[j].kind = "commit" /\ wal'[i].gxid = wal'[j].gxid => i = j
    BY DEF RecordInv, CommitAt
  <2>2. \A i \in 1..Len(wal') : IF wal'[i].kind = "commit" THEN wal'[i].gxid \in logged'
                                                          ELSE wal'[i].gxid \in finished'
    BY DEF RecordInv
  <2> QED BY Zenon, <2>1, <2>2 DEF RecordInv, CommitAt
<1>4. ListInv'
  <2>1. \A i \in 1..Len(wal'), h \in ckptGxids : wal'[i].kind = "commit" /\ wal'[i].gxid = h => i <= flushed
    BY DEF ListInv, CommitAt
  <2>2. /\ ckptGxids \subseteq logged' /\ ckpt.gxids \subseteq logged' /\ committed \subseteq logged'
        /\ notified' \subseteq finished'
    BY Zenon DEF ListInv
  <2> QED BY Zenon, <2>1, <2>2 DEF ListInv, CommitAt
<1>5. PhaseInv'
  BY DEF PhaseInv, TypeOK, Ckpt
<1>6. DurableInv'
  BY DEF DurableInv, Unfinished, CommitAt
<1>7. ReplayInv' /\ LiveInv'
  <2>1. ReplayInv'
    BY DEF ReplayInv, Unfinished, CommitAt, TypeOK
  <2>2. LiveInv'
    BY Zenon DEF LiveInv, Unfinished
  <2> QED BY Zenon, <2>1, <2>2
<1>8. CkptInv'
  <2>1. ASSUME NEW g, Behind(g) PROVE Behind(g)'
    BY <2>1 DEF Behind, CommitAt, TypeOK, Ckpt
  <2>2. \A c \in Backend : pc'[c] = "inserted" => pc[c] = "inserted"
    BY Zenon DEF TypeOK
  <2> QED BY Zenon, <2>1, <2>2 DEF CkptInv, Unfinished
<1> QED BY Zenon, <1>1, <1>2, <1>3, <1>4, <1>5, <1>6, <1>7, <1>8

\* includeInCkpt is cleared for a finished transaction.
LEMMA ClearIncludeStep ==
  ASSUME IInv, NEW b \in Backend, ClearInclude(b)
  PROVE  IInv'
<1> USE DEF IInv, ClearInclude, Goto, backendVars, workerVars, history
<1>1. TypeOK'
  BY Zenon DEF TypeOK, BackendPC, Ckpt, Gxid, Record
<1>2. BackendInv'
  BY Zenon DEF BackendInv, TypeOK
<1>3. RecordInv'
  BY Zenon DEF RecordInv, CommitAt
<1>4. ListInv' /\ PhaseInv'
  BY Zenon DEF ListInv, CommitAt, PhaseInv
<1>5. DurableInv' /\ ReplayInv'
  BY ZenonT(60) DEF DurableInv, Unfinished, CommitAt, ReplayInv
<1>6. LiveInv'
  BY Zenon DEF LiveInv, Unfinished, TypeOK
<1>7. CkptInv'
  BY DEF CkptInv, Behind, CommitAt, Unfinished, BackendInv, TypeOK
<1> QED BY Zenon, <1>1, <1>2, <1>3, <1>4, <1>5, <1>6, <1>7

\* So is the gxid.
LEMMA EndGxactStep ==
  ASSUME IInv, NEW b \in Backend, EndGxact(b)
  PROVE  IInv'
<1> USE DEF IInv, EndGxact, Goto, backendVars, workerVars, history
<1>1. TypeOK'
  BY Zenon DEF TypeOK, BackendPC, Ckpt, Gxid, Record
<1>2. BackendInv'
  BY ZenonT(60) DEF BackendInv, TypeOK
<1>3. RecordInv'
  BY Zenon DEF RecordInv, CommitAt
<1>4. ListInv' /\ PhaseInv'
  BY Zenon DEF ListInv, CommitAt, PhaseInv
<1>5. DurableInv' /\ ReplayInv'
  BY ZenonT(60) DEF DurableInv, Unfinished, CommitAt, ReplayInv
<1>6. LiveInv'
  BY DEF LiveInv, Unfinished, BackendInv, Gxid, TypeOK
<1>7. CkptInv'
  BY DEF CkptInv, Behind, CommitAt, Unfinished, BackendInv, TypeOK
<1> QED BY Zenon, <1>1, <1>2, <1>3, <1>4, <1>5, <1>6, <1>7

\* A checkpoint begins.
LEMMA CkptRedoStep ==
  ASSUME IInv, CkptRedo
  PROVE  IInv'
<1> USE DEF IInv, CkptRedo, otherThanCkpt, NoCkpt, backendVars, workerVars, history
<1>1. TypeOK'
  <2> USE DEF TypeOK
  <2>1. ckpt' = [phase |-> "redo", redo |-> Len(wal), wait |-> {}, unscanned |-> {}, gxids |-> {}]
    BY Zenon
  <2> QED BY <2>1 DEF TypeOK, Ckpt
<1>2. BackendInv'
  BY Zenon DEF BackendInv
<1>3. RecordInv'
  BY Zenon DEF RecordInv, CommitAt
<1>4. ListInv' /\ PhaseInv'
  BY DEF ListInv, CommitAt, PhaseInv, TypeOK
<1>5. DurableInv' /\ ReplayInv'
  BY Zenon DEF DurableInv, Unfinished, CommitAt, ReplayInv
<1>6. LiveInv'
  BY Zenon DEF LiveInv, Unfinished
<1>7. CkptInv'
  BY Zenon DEF CkptInv, Behind, CommitAt, Unfinished, BackendInv, TypeOK
<1> QED BY Zenon, <1>1, <1>2, <1>3, <1>4, <1>5, <1>6, <1>7

\* Whoever has inserted and not set includeInCkpt is delaying.
LEMMA CkptDelayersStep ==
  ASSUME IInv, CkptDelayers
  PROVE  IInv'
<1> USE DEF IInv, CkptDelayers, otherThanCkpt, backendVars, workerVars, history
<1>1. TypeOK'
  <2> USE DEF TypeOK
  <2>1. {<<c, gxid[c]>> : c \in {c \in Backend : Delaying(c)}} \subseteq Backend \X Gxid
    BY DEF BackendInv, Delaying
  <2> QED BY Zenon, <2>1 DEF TypeOK, Ckpt
<1>2. BackendInv'
  BY Zenon DEF BackendInv
<1>3. RecordInv'
  BY Zenon DEF RecordInv, CommitAt
<1>4. ListInv' /\ PhaseInv'
  BY DEF ListInv, CommitAt, PhaseInv, TypeOK
<1>5. DurableInv' /\ ReplayInv'
  BY Zenon DEF DurableInv, Unfinished, CommitAt, ReplayInv
<1>6. LiveInv'
  BY Zenon DEF LiveInv, Unfinished
<1>7. CkptInv'
  BY ZenonT(60) DEF CkptInv, Ckpt, Delaying, TypeOK
<1> QED BY Zenon, <1>1, <1>2, <1>3, <1>4, <1>5, <1>6, <1>7

\* Nobody the checkpoint waited for is delaying: an unfinished commit that is not
\* behind the redo pointer is in the array or has includeInCkpt set.
LEMMA CkptArrayStep ==
  ASSUME IInv, CkptArray
  PROVE  IInv'
<1> USE DEF IInv, CkptArray, otherThanCkpt, backendVars, workerVars, history
<1>1. TypeOK'
  <2> USE DEF TypeOK
  <2>1. PICK copied \in SUBSET committed :
          ckpt' = [ckpt EXCEPT !.phase = "scan", !.wait = {}, !.unscanned = Backend, !.gxids = copied]
    BY Zenon
  <2>2. ckpt' \in Ckpt
    BY Zenon, <2>1 DEF Ckpt
  <2> QED BY Zenon, <2>2 DEF TypeOK
<1>2. BackendInv'
  BY Zenon DEF BackendInv
<1>3. RecordInv'
  BY Zenon DEF RecordInv, CommitAt
<1>4. ListInv' /\ PhaseInv'
  BY DEF ListInv, CommitAt, PhaseInv, TypeOK
<1>5. DurableInv' /\ ReplayInv'
  BY ZenonT(60) DEF DurableInv, Unfinished, CommitAt, ReplayInv
<1>6. LiveInv'
  BY Zenon DEF LiveInv, Unfinished
<1>7. CkptInv'
  <2> USE DEF TypeOK
  <2> SUFFICES ASSUME NEW g \in Unfinished, g \notin ckpt'.gxids, ~Behind(g)'
               PROVE  \E b \in Backend : gxid[b] = g /\ include[b]
    BY DEF CkptInv, Unfinished, Ckpt
  <2>1. g \notin committed
    BY DEF Unfinished, ListInv, Ckpt
  <2>2. PICK b \in Backend : gxid[b] = g
    BY Zenon, <2>1 DEF LiveInv, PhaseInv
  <2>3. ~Behind(g)
    BY Zenon DEF Behind, CommitAt, Ckpt
  <2>4. pc[b] # "inserted"
    BY Zenon, <2>2, <2>3 DEF CkptInv, CkptMayCollect, Delaying
  <2> QED BY <2>2, <2>4 DEF BackendInv, BackendPC, Unfinished, Gxid
<1> QED BY Zenon, <1>1, <1>2, <1>3, <1>4, <1>5, <1>6, <1>7

\* The scan takes over the gxid of a backend it passes.
LEMMA CkptScanStep ==
  ASSUME IInv, NEW b \in Backend, CkptScan(b)
  PROVE  IInv'
<1> USE DEF IInv, CkptScan, otherThanCkpt, backendVars, workerVars, history
<1>1. TypeOK'
  <2> USE DEF TypeOK
  <2>1. include[b] => gxid[b] \in Gxid
    BY Zenon DEF BackendInv
  <2> QED BY Zenon, <2>1 DEF TypeOK, Ckpt
<1>2. BackendInv'
  BY Zenon DEF BackendInv
<1>3. RecordInv'
  BY Zenon DEF RecordInv, CommitAt
<1>4. ListInv'
  <2> USE DEF TypeOK
  <2>1. include[b] => gxid[b] \in logged
    BY Zenon DEF BackendInv
  <2> QED BY Zenon, <2>1 DEF ListInv, CommitAt, Ckpt
<1>5. PhaseInv'
  BY DEF PhaseInv, TypeOK
<1>6. DurableInv' /\ ReplayInv'
  BY Zenon DEF DurableInv, Unfinished, CommitAt, ReplayInv
<1>7. LiveInv'
  BY Zenon DEF LiveInv, Unfinished
<1>8. CkptInv'
  BY DEF CkptInv, Behind, CommitAt, Unfinished, BackendInv, TypeOK
<1> QED BY Zenon, <1>1, <1>2, <1>3, <1>4, <1>5, <1>6, <1>7, <1>8

\* The list of the checkpoint makes up for the records that are dropped.
LEMMA CkptInstallStep ==
  ASSUME IInv, CkptInstall
  PROVE  IInv'
<1> USE DEF IInv, CkptInstall, NoCkpt, backendVars, workerVars, history
<1> USE DEF TypeOK
<1> DEFINE redo == ckpt.redo
<1>a. redo \in 0..Len(wal)
  BY DEF PhaseInv, Ckpt
<1>d. wal' = SubSeq(wal, redo + 1, Len(wal))
  BY Zenon
<1>b. /\ ckpt.phase = "write" /\ flushed' = Len(wal) - redo /\ ckptGxids' = ckpt.gxids /\ ckpt' = NoCkpt
      /\ UNCHANGED <<pc, gxid, include, rp, pos, committed, notified, nextGxid, logged, finished, crashes>>
  BY Zenon
<1> HIDE DEF CkptInstall
<1>e. /\ wal' \in Seq(Record) /\ Len(wal') = Len(wal) - redo
      /\ \A i \in 1..Len(wal') : wal'[i] = wal[redo + i]
  <2>1. wal \in Seq(Record)
    BY Zenon
  <2> HIDE DEF redo
  <2> QED BY ONLY <1>a, <1>d, <2>1, DropPrefix
<1> HIDE DEF redo
<1>c. redo = ckpt.redo
  BY Zenon DEF redo
<1> USE <1>b
<1> HIDE DEF TypeOK
<1>1. TypeOK'
  <2> USE DEF TypeOK
  <2>1. pos \in 0..Len(wal')
    BY <1>e, <1>a DEF PhaseInv
  <2> QED BY <1>e, <1>a, <2>1 DEF TypeOK, Ckpt
<1>2. BackendInv'
  BY Zenon DEF BackendInv, TypeOK
<1>3. RecordInv'
  <2> USE DEF TypeOK
  <2>1. \A i \in 1..Len(wal') : redo + i \in 1..Len(wal) /\ wal'[i] = wal[redo + i]
    BY <1>e, <1>a
  <2>2. ASSUME NEW i \in 1..Len(wal'), NEW j \in 1..Len(wal'), wal'[i].kind = "commit",
               wal'[j].kind = "commit", wal'[j].gxid = wal'[i].gxid
        PROVE  i = j
    <3>1. redo + i = redo + j
      BY Zenon, <2>1, <2>2 DEF RecordInv, CommitAt
    <3> QED BY <3>1, <1>a
  <2>3. \A i \in 1..Len(wal') : IF wal'[i].kind = "commit" THEN wal'[i].gxid \in logged
                                                          ELSE wal'[i].gxid \in finished
    BY Zenon, <2>1 DEF RecordInv
  <2> QED BY Zenon, <2>2, <2>3 DEF RecordInv, CommitAt
<1>4. ListInv'
  BY <1>e, <1>a DEF ListInv, CommitAt, TypeOK
<1>5. PhaseInv'
  BY Zenon DEF PhaseInv, TypeOK
<1>6. DurableInv'
  <2> USE DEF TypeOK
  <2> SUFFICES ASSUME NEW g \in Unfinished, g \notin ckpt.gxids
               PROVE  \E i \in 1..Len(wal') : CommitAt(i, g)'
    BY Zenon DEF DurableInv, Unfinished
  <2>1. PICK j \in redo + 1..Len(wal) : CommitAt(j, g)
    BY Zenon, <1>c DEF CkptInv, Behind
  <2>2. j - redo \in 1..Len(wal') /\ wal'[j - redo] = wal[j]
    BY ONLY <1>e, <1>a, <2>1, wal \in Seq(Record)
  <2> QED BY Zenon, <2>1, <2>2 DEF CommitAt
<1>7. ReplayInv'
  BY Zenon DEF ReplayInv, PhaseInv, TypeOK
<1>8. LiveInv'
  BY Zenon DEF LiveInv, Unfinished, TypeOK
<1>9. CkptInv'
  BY Zenon DEF CkptInv, Behind, CommitAt, Unfinished, BackendInv, TypeOK
<1> QED BY Zenon, <1>1, <1>2, <1>3, <1>4, <1>5, <1>6, <1>7, <1>8, <1>9

\* Replay begins with the list of the checkpoint.
LEMMA RedoCheckPointStep ==
  ASSUME IInv, RedoCheckPoint
  PROVE  IInv'
<1> USE DEF IInv, RedoCheckPoint, backendVars, workerVars, history
<1>1. TypeOK'
  BY DEF TypeOK, BackendPC, Ckpt, Gxid, Record
<1>2. BackendInv'
  BY Zenon DEF BackendInv
<1>3. RecordInv'
  BY Zenon DEF RecordInv, CommitAt
<1>4. ListInv' /\ PhaseInv'
  BY Zenon DEF ListInv, CommitAt, PhaseInv
<1>5. DurableInv'
  BY Zenon DEF DurableInv, Unfinished, CommitAt
<1>6. ReplayInv'
  BY DEF ReplayInv, DurableInv, Unfinished, CommitAt, TypeOK
<1>7. LiveInv'
  BY ZenonT(60) DEF LiveInv, Unfinished
<1>8. CkptInv'
  BY DEF CkptInv, Behind, CommitAt, Unfinished, BackendInv
<1> QED BY ZenonT(60), <1>1, <1>2, <1>3, <1>4, <1>5, <1>6, <1>7, <1>8

\* A record is replayed.
LEMMA RedoStep ==
  ASSUME IInv, Redo
  PROVE  IInv'
<1> USE DEF IInv, Redo, Redone, backendVars, workerVars, history
<1> USE DEF TypeOK
<1> DEFINE r == wal[pos + 1]
<1>e. pos + 1 \in 1..Len(wal) /\ r \in Record
  OBVIOUS
<1> HIDE DEF TypeOK
<1>1. TypeOK'
  BY <1>e DEF TypeOK, Record
<1>2. BackendInv'
  BY Zenon DEF BackendInv
<1>3. RecordInv'
  BY Zenon DEF RecordInv, CommitAt
<1>4. ListInv'
  <2> USE DEF TypeOK
  <2>1. r.kind = "commit" => r.gxid \in logged
    BY Zenon, <1>e DEF RecordInv
  <2> QED BY Zenon, <1>e, <2>1 DEF ListInv, CommitAt
<1>5. PhaseInv'
  BY Zenon DEF PhaseInv
<1>6. DurableInv'
  BY Zenon DEF DurableInv, Unfinished, CommitAt
<1>7. ReplayInv'
  <2> USE DEF TypeOK
  <2> SUFFICES ASSUME NEW g \in Unfinished, g \notin committed'
               PROVE  \E i \in pos' + 1..Len(wal) : CommitAt(i, g)
    BY Zenon DEF ReplayInv, Unfinished, CommitAt
  <2>1. g \notin committed
    BY Zenon, <1>e DEF RecordInv, Unfinished, Record
  <2>2. PICK i \in pos + 1..Len(wal) : CommitAt(i, g)
    BY Zenon, <2>1 DEF ReplayInv
  <2>3. i # pos + 1
    BY Zenon, <2>2 DEF CommitAt
  <2> QED BY <2>2, <2>3
<1>8. LiveInv'
  BY Zenon DEF LiveInv, Unfinished
<1>9. CkptInv'
  BY DEF CkptInv, Behind, CommitAt, Unfinished, BackendInv
<1> QED BY ZenonT(60), <1>1, <1>2, <1>3, <1>4, <1>5, <1>6, <1>7, <1>8, <1>9

\* At the end of replay the array has every unfinished commit.
LEMMA RedoDoneStep ==
  ASSUME IInv, RedoDone
  PROVE  IInv'
<1> USE DEF IInv, RedoDone, backendVars, workerVars, history
<1> USE DEF TypeOK
<1>e. Unfinished \subseteq committed
  BY DEF ReplayInv
<1>a. ckpt.phase = "none"
  BY Zenon DEF PhaseInv
<1> USE <1>a
<1> HIDE DEF TypeOK
<1>1. TypeOK'
  <2> USE DEF TypeOK
  <2>1. CASE wal' = << >> /\ flushed' = 0 /\ ckptGxids' = committed
    BY <2>1 DEF TypeOK
  <2>2. CASE UNCHANGED <<wal, flushed, ckptGxids>>
    BY <2>2 DEF TypeOK
  <2> QED BY Zenon, <2>1, <2>2
<1>2. BackendInv'
  BY Zenon DEF BackendInv, TypeOK
<1>3. RecordInv'
  BY DEF RecordInv, CommitAt, TypeOK
<1>4. ListInv' /\ PhaseInv'
  BY DEF ListInv, CommitAt, PhaseInv, TypeOK
<1>5. DurableInv'
  BY Zenon, <1>e DEF DurableInv, Unfinished, CommitAt, TypeOK
<1>6. ReplayInv'
  BY Zenon DEF ReplayInv, Unfinished, CommitAt, TypeOK
<1>7. LiveInv'
  BY Zenon, <1>e DEF LiveInv, Unfinished, TypeOK
<1>8. CkptInv'
  BY Zenon DEF CkptInv, TypeOK
<1> QED BY Zenon, <1>1, <1>2, <1>3, <1>4, <1>5, <1>6, <1>7, <1>8

\* The recovery worker finishes an entry.
LEMMA RecoverForgetStep ==
  ASSUME IInv, NEW g \in Gxid, RecoverForget(g)
  PROVE  IInv'
<1> USE DEF IInv, RecoverForget, Log, backendVars, workerVars, history
<1>a. /\ wal' \in Seq(Record) /\ Len(wal') = Len(wal) + 1 /\ Len(wal) \in Nat
      /\ \A i \in 1..Len(wal) : wal'[i] = wal[i]
      /\ wal'[Len(wal) + 1].kind = "forget" /\ wal'[Len(wal) + 1].gxid = g
  <2>1. wal \in Seq(Record) /\ g \in Gxid
    BY Zenon DEF TypeOK, BackendInv
  <2> DEFINE r == [kind |-> "forget", gxid |-> g]
  <2>2. r \in Record /\ r.kind = "forget" /\ r.gxid = g
    BY Zenon, <2>1 DEF Record
  <2>3. wal' = Append(wal, r)
    BY Zenon
  <2> HIDE DEF r
  <2> QED BY ONLY <2>1, <2>2, <2>3
<1> HIDE DEF Log
<1> USE <1>a
<1>1. TypeOK'
  BY DEF TypeOK
<1>2. BackendInv'
  BY Zenon DEF BackendInv, TypeOK
<1>3. RecordInv'
  <2>1. \A i, j \in 1..Len(wal') :
          wal'[i].kind = "commit" /\ wal'[j].kind = "commit" /\ wal'[i].gxid = wal'[j].gxid => i = j
    BY DEF RecordInv, CommitAt
  <2>2. \A i \in 1..Len(wal') : IF wal'[i].kind = "commit" THEN wal'[i].gxid \in logged'
                                                          ELSE wal'[i].gxid \in finished'
    BY DEF RecordInv
  <2> QED BY Zenon, <2>1, <2>2 DEF RecordInv, CommitAt
<1>4. ListInv'
  <2>1. \A i \in 1..Len(wal'), h \in ckptGxids : wal'[i].kind = "commit" /\ wal'[i].gxid = h => i <= flushed
    BY DEF ListInv, CommitAt
  <2>2. /\ ckptGxids \subseteq logged' /\ ckpt.gxids \subseteq logged' /\ committed \subseteq logged'
        /\ notified' \subseteq finished'
    BY Zenon DEF ListInv
  <2> QED BY Zenon, <2>1, <2>2 DEF ListInv, CommitAt
<1>5. PhaseInv'
  BY DEF PhaseInv, TypeOK, Ckpt
<1>6. DurableInv'
  BY DEF DurableInv, Unfinished, CommitAt
<1>7. ReplayInv' /\ LiveInv'
  <2>1. ReplayInv'
    BY Zenon DEF ReplayInv, Unfinished, CommitAt, TypeOK
  <2>2. LiveInv'
    BY Zenon DEF LiveInv, Unfinished
  <2> QED BY Zenon, <2>1, <2>2
<1>8. CkptInv'
  <2>1. ASSUME NEW h, Behind(h) PROVE Behind(h)'
    BY <2>1 DEF Behind, CommitAt, TypeOK, Ckpt
  <2> QED BY Zenon, <2>1 DEF CkptInv, Unfinished
<1> QED BY Zenon, <1>1, <1>2, <1>3, <1>4, <1>5, <1>6, <1>7, <1>8

\* A pass of the worker fails.
LEMMA RecoverFailStep ==
  ASSUME IInv, RecoverFail
  PROVE  IInv'
<1> USE DEF IInv, RecoverFail, backendVars, workerVars, history
<1>1. TypeOK'
  BY DEF TypeOK, BackendPC, Ckpt, Gxid, Record
<1>2. BackendInv'
  BY Zenon DEF BackendInv
<1>3. RecordInv'
  BY Zenon DEF RecordInv, CommitAt
<1>4. ListInv' /\ PhaseInv'
  BY Zenon DEF ListInv, CommitAt, PhaseInv
<1>5. DurableInv' /\ ReplayInv'
  BY Zenon DEF DurableInv, Unfinished, CommitAt, ReplayInv
<1>6. LiveInv'
  BY Zenon DEF LiveInv, Unfinished
<1>7. CkptInv'
  BY DEF CkptInv, Behind, CommitAt, Unfinished, BackendInv
<1> QED BY Zenon, <1>1, <1>2, <1>3, <1>4, <1>5, <1>6, <1>7

\* The array is emptied when all its entries are finished.
LEMMA RecoverNotifiedStep ==
  ASSUME IInv, RecoverNotified
  PROVE  IInv'
<1> USE DEF IInv, RecoverNotified, backendVars, workerVars, history
<1>1. TypeOK'
  BY Zenon DEF TypeOK, BackendPC, Ckpt, Gxid, Record
<1>2. BackendInv'
  BY Zenon DEF BackendInv
<1>3. RecordInv'
  BY Zenon DEF RecordInv, CommitAt
<1>4. ListInv' /\ PhaseInv'
  BY Zenon DEF ListInv, CommitAt, PhaseInv
<1>5. DurableInv' /\ ReplayInv'
  BY Zenon DEF DurableInv, Unfinished, CommitAt, ReplayInv
<1>6. LiveInv'
  BY Zenon DEF LiveInv, Unfinished, ListInv, TypeOK
<1>7. CkptInv'
  BY DEF CkptInv, Behind, CommitAt, Unfinished, BackendInv
<1> QED BY Zenon, <1>1, <1>2, <1>3, <1>4, <1>5, <1>6, <1>7

\* A crash drops the records that were not flushed: none that a checkpoint lists,
\* and of each commit at most one.
LEMMA CrashStep ==
  ASSUME IInv, Crash
  PROVE  IInv'
<1> USE DEF IInv, Crash, Restart, NoCkpt, backendVars, workerVars, history
<1> USE DEF TypeOK
<1>a. PICK k \in flushed..Len(wal) :
        /\ wal' = SubSeq(wal, 1, k) /\ flushed' = k
        /\ logged' = logged \ {wal[i].gxid : i \in {j \in k + 1 .. Len(wal) : wal[j].kind = "commit"}}
  BY Zenon
<1>b. /\ crashes' \in 0..MaxCrashes /\ pc' = [b \in Backend |-> "idle"]
      /\ gxid' = [b \in Backend |-> NoGxid] /\ include' = [b \in Backend |-> FALSE]
      /\ ckpt' = NoCkpt /\ rp' = "start" /\ pos' = 0 /\ committed' = {} /\ notified' = {}
      /\ UNCHANGED <<nextGxid, finished, ckptGxids>>
  <2>1. crashes' \in 0..MaxCrashes
    OBVIOUS
  <2> QED BY Zenon, <2>1
<1>c. wal' \in Seq(Record) /\ Len(wal') = k /\ \A i \in 1..k : wal'[i] = wal[i]
  <2>1. wal \in Seq(Record) /\ k \in 0..Len(wal)
    OBVIOUS
  <2> QED BY ONLY <1>a, <2>1, KeepPrefix
<1>d. /\ k \in 0..Len(wal) /\ flushed <= k /\ flushed' = k /\ logged' \subseteq logged
      /\ \A g \in logged : g \in logged' <=> ~ \E i \in k + 1..Len(wal) : CommitAt(i, g)
  BY <1>a DEF CommitAt
<1> HIDE DEF Crash
<1> USE <1>b, <1>c, <1>d
<1> HIDE DEF TypeOK
<1>1. TypeOK'
  BY DEF TypeOK, Ckpt, BackendPC
<1>2. BackendInv'
  BY Zenon DEF BackendInv, TypeOK
<1>3. RecordInv'
  <2> USE DEF TypeOK
  <2>1. ASSUME NEW i \in 1..k, wal[i].kind = "commit" PROVE wal[i].gxid \in logged'
    <3>1. wal[i].gxid \in logged
      BY <2>1 DEF RecordInv
    <3>2. \A j \in k + 1..Len(wal) : ~CommitAt(j, wal[i].gxid)
      BY <2>1, SMTT(30) DEF RecordInv
    <3> QED BY Zenon, <3>1, <3>2
  <2>2. \A i \in 1..k : wal[i].kind # "commit" => wal[i].gxid \in finished
    BY DEF RecordInv
  <2>3. \A i, j \in 1..k : wal[i].kind = "commit" /\ CommitAt(j, wal[i].gxid) => i = j
    BY DEF RecordInv
  <2>4. \A g \in logged' : g < nextGxid'
    BY Zenon DEF RecordInv
  <2> QED BY Zenon, <2>1, <2>2, <2>3, <2>4 DEF RecordInv, CommitAt
<1>4. ListInv'
  BY DEF ListInv, CommitAt, RecordInv, Ckpt, TypeOK
<1>5. PhaseInv'
  BY Zenon DEF PhaseInv, NoCkpt, TypeOK
<1>6. DurableInv'
  <2> USE DEF TypeOK
  <2> SUFFICES ASSUME NEW g \in Unfinished', g \notin ckptGxids
               PROVE  \E i \in 1..k : CommitAt(i, g)'
    BY Zenon DEF DurableInv
  <2>1. PICK i \in 1..Len(wal) : CommitAt(i, g)
    BY Zenon DEF DurableInv, Unfinished
  <2>2. i <= k
    BY <2>1 DEF Unfinished
  <2> QED BY <2>1, <2>2 DEF CommitAt
<1>7. ReplayInv'
  BY Zenon DEF ReplayInv, Unfinished, CommitAt, TypeOK
<1>8. LiveInv'
  BY Zenon DEF LiveInv, Unfinished, TypeOK
<1>9. CkptInv'
  BY Zenon DEF CkptInv, Behind, CommitAt, Unfinished, BackendInv, TypeOK
<1> QED BY Zenon, <1>1, <1>2, <1>3, <1>4, <1>5, <1>6, <1>7, <1>8, <1>9

\* A shutdown finds no backend with an unfinished commit.
LEMMA ShutdownStep ==
  ASSUME IInv, Shutdown
  PROVE  IInv'
<1> USE DEF IInv, Shutdown, Restart, NoCkpt, backendVars, workerVars, history
<1>1. TypeOK'
  BY DEF TypeOK, BackendPC, Ckpt
<1>2. BackendInv'
  BY Zenon DEF BackendInv, TypeOK
<1>3. RecordInv'
  BY DEF RecordInv, CommitAt, TypeOK
<1>4. ListInv' /\ PhaseInv'
  BY DEF ListInv, CommitAt, PhaseInv, TypeOK
<1>5. DurableInv'
  BY DEF DurableInv, Unfinished, LiveInv, BackendInv, Gxid, TypeOK
<1>6. ReplayInv'
  BY Zenon DEF ReplayInv, Unfinished, CommitAt, TypeOK
<1>7. LiveInv'
  BY Zenon DEF LiveInv, Unfinished, TypeOK
<1>8. CkptInv'
  BY Zenon DEF CkptInv, Behind, CommitAt, Unfinished, BackendInv, TypeOK
<1> QED BY ZenonT(60), <1>1, <1>2, <1>3, <1>4, <1>5, <1>6, <1>7, <1>8

\* The inductive invariant holds throughout.
THEOREM Inductive == Spec => []IInv
<1>1. ASSUME IInv, [Next]_vars PROVE IInv'
  <2> USE <1>1
  <2>1. ASSUME NEW b \in Backend, Delay(b) \/ Commit(b) PROVE IInv'
    BY Zenon, <2>1, DelayStep, InsertCommittedStep, IncludeStep, FlushCommittedStep, ClearDelayStep,
       InsertForgetCommittedStep, ClearIncludeStep, EndGxactStep DEF Commit
  <2>2. CASE CkptRedo \/ Checkpoint
    BY Zenon, <2>2, CkptRedoStep, CkptDelayersStep, CkptArrayStep, CkptScanStep, CkptInstallStep DEF Checkpoint
  <2>3. CASE Recovery \/ RecoverFail
    BY Zenon, <2>3, RedoCheckPointStep, RedoStep, RedoDoneStep, RecoverForgetStep, RecoverFailStep,
       RecoverNotifiedStep DEF Recovery
  <2>4. CASE Crash \/ Shutdown
    BY Zenon, <2>4, CrashStep, ShutdownStep
  <2>5. CASE UNCHANGED vars
    <3> USE <2>5 DEF vars, IInv
    <3>1. TypeOK' /\ BackendInv' /\ PhaseInv'
      BY Zenon DEF TypeOK, BackendInv, PhaseInv
    <3>2. RecordInv' /\ ListInv'
      BY Zenon DEF RecordInv, ListInv, CommitAt
    <3>3. DurableInv' /\ ReplayInv' /\ LiveInv'
      BY Zenon DEF DurableInv, ReplayInv, LiveInv, Unfinished, CommitAt
    <3>4. CkptInv'
      BY ZenonT(60) DEF CkptInv, Behind, Unfinished, CommitAt
    <3> QED BY Zenon, <3>1, <3>2, <3>3, <3>4
  <2> QED BY Zenon, <2>1, <2>2, <2>3, <2>4, <2>5 DEF Next
<1> QED BY <1>1, InitIInv, PTL DEF Spec

\* Type correctness.
THEOREM TypeCorrect == Spec => []TypeOK
BY Inductive, PTL DEF IInv

\* No committed distributed transaction is forgotten before its second phase is
\* complete, for any number of backends, checkpoints and crashes (the order of
\* XLogInsert, insertedDistributedCommitted and the two waits of CreateCheckPoint).
THEOREM CommitIsRememberedHolds == Spec => []CommitIsRemembered
<1>1. IInv => CommitIsRemembered
  BY Zenon DEF IInv, LiveInv, Unfinished, CommitIsRemembered
<1> QED BY <1>1, Inductive, PTL

\* Recovery never runs the second phase of a transaction whose commit record is
\* not on disk (redoDtxCheckPoint, redoDistributedCommitRecord).
THEOREM RecoveredIsLoggedHolds == Spec => []RecoveredIsLogged
<1>1. IInv => RecoveredIsLogged
  BY Zenon DEF IInv, ListInv, RecoveredIsLogged
<1> QED BY <1>1, Inductive, PTL
=============================================================================
