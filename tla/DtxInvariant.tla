----------------------------- MODULE DtxInvariant ------------------------------
(***************************************************************************)
(* The inductive invariant of Dtx, for any set of transactions, any set of *)
(* segments and any number of failures.                                    *)
(*                                                                         *)
(* Atomicity is not inductive: what makes an abort harmless when it        *)
(* arrives is the history of the transaction. The invariant IInv records   *)
(* it: an abort in flight is for a transaction that can no longer commit   *)
(* or has committed everywhere (Settled); a commit in flight is for one    *)
(* whose commit record is on disk; every vote and every acknowledgement    *)
(* the coordinator counts describes a state that a failover preserves.     *)
(***************************************************************************)
EXTENDS Dtx

\* The transaction has not committed and never will.
Doomed(g) == rec[g] = "none" /\ qd[g] \in AbortState \cup {"NONE"}

\* The PREPARE of g on s survives a failover.
Kept(g, s) == prim[g][s] \in {"prepared", "committed"} /\ Durable(g, s) \in {"prepared", "committed"}

\* The commit of g on s survives a failover.
Done(g, s) == prim[g][s] = "committed" /\ Durable(g, s) = "committed"
AllDone(g) == \A s \in segs[g] : Done(g, s)

\* An abort of g can do no harm.
Settled(g) == Doomed(g) \/ (rec[g] = "flushed" /\ AllDone(g))

\* The state of the coordinator backend and its WAL.
StateInv(g) ==
  /\ rec[g] # "none" => qd[g] \in CommitState \cup {"NONE"}
  /\ qd[g] \in CommitState => rec[g] # "none"
  /\ qd[g] \in CommitState \ {"INSERTED_COMMITTED"} => rec[g] = "flushed"
  /\ rec[g] = "inserted" => qd[g] = "INSERTED_COMMITTED"
  /\ qd[g] = "UNBORN" => segs[g] = {}
  /\ qd[g] = "INSERTED_FORGET_COMMITTED" => forgot[g]
  /\ forgot[g] => rec[g] = "flushed" /\ AllDone(g)

\* A QE's context and the transaction it has; who takes part.
QeInv(g, s) ==
  /\ qe[g][s] = "writer" => prim[g][s] = "active"
  /\ qe[g][s] = "preparing" => prim[g][s] = "prepared"
  /\ qe[g][s] = "finishing" => prim[g][s] \in {"committed", "aborted"}
  /\ s \notin segs[g] => prim[g][s] = "none" /\ mirr[g][s] = "none" /\ qe[g][s] = "none"

\* What a command in the socket of a writer QE says about the transaction.
CmdInv(g, s) ==
  /\ cmd[g][s] # "none" => qd[g] \notin {"UNBORN", "ACTIVE_DISTRIBUTED"}
  /\ qd[g] = "PREPARING" => cmd[g][s] \in {"none", "PREPARE"}
  /\ qd[g] \in {"ACTIVE_DISTRIBUTED", "PREPARING"} => qe[g][s] # "finishing"
  /\ cmd[g][s] \in {"ABORT_NO_PREPARED", "ABORT_SOME_PREPARED", "ABORT_PREPARED"} => Doomed(g)
  /\ cmd[g][s] = "COMMIT_PREPARED" => rec[g] = "flushed"
  /\ cmd[g][s] = "COMMIT_ONEPHASE" => (wrote[g] => \A t \in segs[g] : t = s)

\* Votes and acknowledgements.
VoteInv(g, s) ==
  s \in segs[g] =>
    /\ qd[g] = "PREPARING" /\ reply[g][s] = "ok"
       => Kept(g, s) /\ qe[g][s] \notin {"writer", "preparing"}
    /\ qd[g] \in {"PREPARED"} \cup CommitState
       => Kept(g, s) /\ qe[g][s] \notin {"writer", "preparing"}
    /\ rec[g] # "none" => Kept(g, s)
    /\ qd[g] = "NOTIFYING_COMMIT_PREPARED" /\ reply[g][s] = "ok" => Done(g, s)

\* Commands to fresh QEs, awaited or not.
RpcInv(g, s) ==
  /\ rpcCmd[g] = "commit" /\ rpc[g][s] # "none" => rec[g] = "flushed"
  /\ rpcCmd[g] = "commit" /\ rpc[g][s] = "syncing" /\ s \in segs[g] => prim[g][s] = "committed"
  /\ rpcCmd[g] = "commit" /\ rpc[g][s] = "ok" /\ s \in segs[g] => Done(g, s)
  /\ rpcCmd[g] = "abort" /\ rpc[g][s] = "sent" => Settled(g)
  /\ <<"abort", g, s>> \in stale => Settled(g)
  /\ <<"commit", g, s>> \in stale => rec[g] = "flushed"
  /\ qd[g] = "RETRY_COMMIT_PREPARED" /\ s \in segs[g] => rpcCmd[g] = "commit" /\ rpc[g][s] # "none"

\* The recovery worker.
WorkerInv(g) ==
  /\ rp = "notify" /\ cur = g
     => g \in committed /\ rpcCmd[g] = "commit" /\ \A s \in Seg : rpc[g][s] # "none"
  /\ cur = g => qd[g] = "NONE"
  /\ rp \in WorkerStartup => qd[g] \in {"UNBORN", "NONE"}
  /\ g \in notified => qd[g] = "NONE" /\ AllDone(g)
  /\ g \in committed => rec[g] = "flushed" /\ qd[g] = "NONE"
  /\ g \in indoubt => qd[g] # "UNBORN"
  /\ rec[g] = "flushed" /\ qd[g] = "NONE" => AllDone(g) \/ (rp = "notify" /\ g \in committed)

\* Where a commit can come from: a commit record, or a one-phase commit on the
\* only participant.
OutcomeInv(g, s) ==
  prim[g][s] = "committed" \/ mirr[g][s] = "committed" =>
    /\ qd[g] \notin {"UNBORN", "ACTIVE_DISTRIBUTED"}
    /\ wrote[g] => rec[g] = "flushed" \/ \A t \in segs[g] : t = s

PairInv(g, s) == QeInv(g, s) /\ CmdInv(g, s) /\ VoteInv(g, s) /\ RpcInv(g, s) /\ OutcomeInv(g, s)
Inv(g) == StateInv(g) /\ WorkerInv(g) /\ \A s \in Seg : PairInv(g, s)

IInv == TypeOK /\ \A g \in Gxid : Inv(g)
=============================================================================
