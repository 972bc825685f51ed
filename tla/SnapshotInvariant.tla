-------------------------- MODULE SnapshotInvariant -------------------------
(***************************************************************************)
(* The inductive invariants of Snapshot.                                   *)
(*                                                                         *)
(* IInv is about what is read: Oldest(n) says that no transaction under    *)
(* way or to come has a gxid below n, and BeforeAll(g) that g is before    *)
(* every snapshot in use or to come.  Once true, both stay true, which is  *)
(* why a horizon computed from an xminAll that is no longer current is     *)
(* still safe.  OInv is about the order in which transactions end.         *)
(***************************************************************************)
EXTENDS Snapshot

\* The states of a transaction on a segment, and of a backend.
States == {"none", "assigned", "running", "prepared", "logged", "committed", "aborted"}
Phases == {"idle", "active", "onephase", "preparing", "notifying", "ending", "aborting"}
Committing == {"onephase", "notifying", "ending"}
Assigned(s) == {h \in Gxids : xid[s][h] # NoXid}
Count(s) == Cardinality(Assigned(s))

\* The type of every variable, history included; latestCompletedGxid is behind.
Types ==
  /\ nextGxid \in Nat /\ latestCompletedGxid \in Nat
  /\ FirstGxid <= nextGxid /\ latestCompletedGxid < nextGxid
  /\ qd \in [Backends -> Phases]
  /\ gxid \in [Backends -> Nat] /\ dxmin \in [Backends -> Nat]
  /\ ds \in [Backends -> [xminAll : Nat, xmin : Nat, xmax : Nat, inProgress : SUBSET Nat]]
  /\ cut \in [Backends -> SUBSET Gxids] /\ committed \in SUBSET Gxids
  /\ xid \in [Segs -> [Gxids -> Nat]] /\ status \in [Segs -> [Gxids -> States]]
  /\ local \in [Backends -> [Segs -> [xmin : Nat, xmax : Nat, xip : SUBSET Nat]]]
  /\ pending \in [Backends -> [Segs -> Nat]] /\ oldestXmin \in [Segs -> Nat]
  /\ ignore \in SUBSET (Segs \X Gxids)

\* A distributed transaction has one backend, until it has ended.
Ended(g) == \A b \in Backends : gxid[b] # g

\* A gxid in use is below nextGxid, has not committed and is one backend's.
GxidInv ==
  /\ \A b \in Backends :
       /\ gxid[b] # NoGxid => gxid[b] \in Gxids /\ gxid[b] < nextGxid /\ gxid[b] \notin committed
       /\ qd[b] = "idle" => gxid[b] = NoGxid
       /\ cut[b] \subseteq committed
  /\ \A b, c \in Backends : gxid[b] = gxid[c] /\ gxid[b] # NoGxid => b = c
  /\ \A g \in committed : g <= latestCompletedGxid

\* The xids of a segment are distinct and at most as many as its transactions.  A
\* commit is on a segment only while its transaction commits, or once it has.
XidInv ==
  \A s \in Segs :
    /\ \A g \in Gxids :
         /\ xid[s][g] = NoXid <=> status[s][g] = "none"
         /\ nextGxid <= g => xid[s][g] = NoXid
         /\ xid[s][g] <= Count(s)
         /\ status[s][g] \in {"logged", "committed"} =>
              g \in committed \/ \E b \in Backends : gxid[b] = g /\ qd[b] \in Committing
         /\ g \in committed /\ xid[s][g] # NoXid => status[s][g] = "committed"
    /\ \A b \in Backends : /\ qd[b] = "ending" /\ gxid[b] # NoGxid
                           /\ xid[s][gxid[b]] # NoXid
                           => status[s][gxid[b]] = "committed"
    /\ \A g, h \in Gxids : xid[s][g] = xid[s][h] /\ xid[s][g] # NoXid => g = h

\* What a snapshot calls visible is what had committed, or will never commit.
CutInv ==
  \A b \in Backends : qd[b] = "active" =>
    /\ ds[b].xminAll <= ds[b].xmin /\ ds[b].xmin <= ds[b].xmax
    /\ ds[b].xmax <= latestCompletedGxid + 1
    /\ \A g \in ds[b].inProgress : ds[b].xmin <= g
    /\ \A g \in cut[b] : g < ds[b].xmax /\ g \notin ds[b].inProgress
    /\ \A g \in Gxids : g < ds[b].xmax /\ g \notin ds[b].inProgress /\ g # gxid[b] =>
         g \in cut[b] \/ (g \notin committed /\ Ended(g))
    /\ \A s \in Segs, g \in cut[b] : local[b][s] # NoSnapshot /\ xid[s][g] # NoXid =>
         xid[s][g] < local[b][s].xmax /\ xid[s][g] \notin local[b][s].xip

\* n is at most the gxid of every transaction under way, and of those to come.
Oldest(n) ==
  /\ n <= latestCompletedGxid + 1
  /\ \A c \in Backends : gxid[c] # NoGxid => n <= gxid[c]

\* dxmin and xminAll are such bounds, and xminAll is one for every snapshot in use.
MinInv ==
  \A b \in Backends :
    /\ qd[b] = "idle" => dxmin[b] = NoGxid
    /\ qd[b] = "active" =>
         /\ dxmin[b] # NoGxid /\ dxmin[b] <= ds[b].xmin /\ Oldest(dxmin[b])
         /\ Oldest(ds[b].xminAll)
         /\ \A c \in Backends : qd[c] = "active" => ds[b].xminAll <= ds[c].xmin

\* Transaction g is before every snapshot in use and every one to come.
BeforeAll(g) ==
  /\ Oldest(g + 1)
  /\ \A c \in Backends : qd[c] = "active" => g < ds[c].xmin

\* Nothing changes the state of a transaction that is over on a segment.
Over == {"committed", "aborted"}

\* What has the IGNORE hint, and what is behind the horizon, is before every
\* snapshot.  What a GetSnapshotData is about to put behind it is over.
HorizonInv ==
  /\ \A p \in ignore : status[p[1]][p[2]] \in {"logged", "committed"} /\ BeforeAll(p[2])
  /\ \A s \in Segs :
       /\ 1 <= oldestXmin[s] /\ oldestXmin[s] <= Count(s) + 1
       /\ \A g \in Gxids : xid[s][g] # NoXid /\ xid[s][g] < oldestXmin[s] =>
            status[s][g] \in Over /\ (status[s][g] = "committed" => BeforeAll(g))
  /\ \A b \in Backends, s \in Segs : pending[b][s] # NoXid =>
       /\ qd[b] = "active" /\ pending[b][s] <= Count(s) + 1
       /\ \A g \in Gxids : xid[s][g] # NoXid /\ xid[s][g] < pending[b][s] => status[s][g] \in Over

IInv == Types /\ GxidInv /\ XidInv /\ CutInv /\ MinInv /\ HorizonInv

-----------------------------------------------------------------------------
\* The order of commits.  Whom a transaction waits for in GxactLockTableWait had
\* begun to commit, or to abort, when the wait in XactLockTableWait was over.

\* The phases in which GxactLockTableWait is called.
InCommit == {"onephase", "notifying"}

\* A backend in XactLockTableWait has an xid and is in a statement; it has noted whom
\* it waits for, unless that transaction aborted first.
Owner(b) ==
  /\ gxid[b] \notin waitGxids[b] /\ \A h \in waitGxids[b] : h < nextGxid
  /\ \A s \in Segs : gxid[b] # NoGxid /\ status[s][gxid[b]] = "aborted" => qd[b] = "aborting"
  /\ blocked[b].gxid # NoGxid =>
       /\ qd[b] = "active" /\ gxid[b] # NoGxid
       /\ blocked[b].seg \in Segs /\ blocked[b].gxid \in Gxids /\ blocked[b].gxid # gxid[b]
       /\ status[blocked[b].seg][gxid[b]] = "assigned"
       /\ status[blocked[b].seg][blocked[b].gxid] \notin {"none", "assigned"}
       /\ blocked[b].asked = TRUE =>
            \/ blocked[b].gxid \in waitGxids[b]
            \/ status[blocked[b].seg][blocked[b].gxid] = "aborted"

OwnerInv ==
  /\ waitGxids \in [Backends -> SUBSET Gxids]
  /\ blocked \in [Backends -> [seg : Segs \cup {Unblocked.seg}, gxid : Nat, asked : BOOLEAN]]
  /\ \A b \in Backends : Owner(b)

\* Backend b has come past its wait for h, or is in it.
Past(b, h) ==
  \/ qd[b] = "aborting"
  \/ blocked[b].gxid = h /\ blocked[b].asked = TRUE
  \/ \A c \in Backends : gxid[c] = h => qd[c] \in Committing \cup {"aborting"}

\* Transaction h still has to end, and g, which waited for it, has to wait for that.
Behind(g, h) ==
  /\ g \notin committed
  /\ \A b \in Backends : gxid[b] = g =>
       h \in waitGxids[b] /\ qd[b] # "ending" /\ \E s \in Segs : xid[s][g] # NoXid
  /\ \E c \in Backends : gxid[c] = h /\ qd[c] \in Committing

\* Both hold of every wait, noted or over.
WaitInv ==
  /\ \A b \in Backends : \A h \in waitGxids[b] : Past(b, h)
  /\ waited \in SUBSET (Gxids \X Gxids)
  /\ \A p \in waited : p[1] < nextGxid /\ (p[2] \in committed \/ Behind(p[1], p[2]))

\* NoCommitCycle is inductive with them.
OInv == OwnerInv /\ WaitInv /\ NoCommitCycle
=============================================================================
