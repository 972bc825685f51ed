--------------------------- MODULE SnapshotProofs ---------------------------
(***************************************************************************)
(* Proofs about Snapshot, for any number of backends, segments and         *)
(* transactions: a query reads the same cut on every segment, the part of  *)
(* the distributed log that is forgotten is visible to every snapshot, and *)
(* waits on a segment are repeated in the same order on the coordinator.   *)
(*                                                                         *)
(* IInv and OInv of SnapshotInvariant are inductive: a lemma per step for  *)
(* each.  What is known of numbers and finite sets is a hypothesis of      *)
(* those lemmas, FiniteFacts, proved before the theorems at the end.       *)
(***************************************************************************)
EXTENDS SnapshotInvariant, TLAPS

\* Gxids are numbers other than NoGxid.
LEMMA Constants == /\ Gxids \subseteq Nat /\ NoGxid \notin Gxids
                   /\ FirstGxid \in Nat /\ FirstGxid # 0 /\ MaxGxid \in Nat
BY GxidAssumption DEF Gxids, NoGxid

\* Where a horizon that advances from o, at most up to to, can be.
Between(o, to, n) ==
  n <= o \/ n <= to =>
    /\ \A x \in Nat : ~(x < o) /\ x < n => o <= x /\ x < to
    /\ \A m \in Nat : 1 <= o /\ o <= n /\ o <= m /\ to <= m => 1 <= n /\ n <= m
\* It is so for any three numbers.
LEMMA AnyBetween == \A o, to, n \in Nat : Between(o, to, n)
BY DEF Between

\* The greater of two numbers.
LEMMA GreaterOf == ASSUME NEW x \in Nat, NEW y \in Nat
                   PROVE  Max({x, y}) \in {x, y} /\ x <= Max({x, y}) /\ y <= Max({x, y})
<1>1. \E m \in {x, y} : \A z \in {x, y} : m >= z
  OBVIOUS
<1>2. Max({x, y}) \in {x, y} /\ \A z \in {x, y} : Max({x, y}) >= z
  BY Zenon, <1>1 DEF Max
<1> QED BY <1>2

\* The distributed log has the transactions that have committed.
LEMMA Logged ==
  ASSUME Types, XidInv, NEW s \in Segs, NEW g \in Gxids, xid[s][g] # NoXid
  PROVE  distribXid(s, xid[s][g]) = IF status[s][g] \in {"logged", "committed"} THEN g ELSE NoGxid
<1> DEFINE of == {h \in Gxids : xid[s][h] = xid[s][g] /\ status[s][h] \in {"logged", "committed"}}
<1>1. \A h \in of : h = g
  BY DEF XidInv
<1>2. g \in of <=> status[s][g] \in {"logged", "committed"}
  BY Zenon
<1>3. distribXid(s, xid[s][g]) = IF of = {} THEN NoGxid ELSE CHOOSE h \in of : TRUE
  BY Zenon DEF distribXid
<1> HIDE DEF of
<1> QED BY Zenon, <1>1, <1>2, <1>3

\* What XidInv says of a transaction on a segment.
LEMMA XidFacts ==
  ASSUME XidInv, NEW s \in Segs, NEW g \in Gxids
  PROVE  /\ xid[s][g] = NoXid <=> status[s][g] = "none"
         /\ nextGxid <= g => xid[s][g] = NoXid
         /\ xid[s][g] <= Count(s)
         /\ status[s][g] \in {"logged", "committed"} =>
              g \in committed \/ \E c \in Backends : gxid[c] = g /\ qd[c] \in Committing
         /\ g \in committed /\ xid[s][g] # NoXid => status[s][g] = "committed"
BY DEF XidInv

\* A transaction whose second phase is over has committed on the segments it is on.
LEMMA EndingFacts ==
  ASSUME XidInv, NEW s \in Segs, NEW c \in Backends, qd[c] = "ending", gxid[c] # NoGxid,
         xid[s][gxid[c]] # NoXid
  PROVE  status[s][gxid[c]] = "committed"
BY DEF XidInv

\* XidInv when no transaction changes on a segment and none begins to commit or to end.
LEMMA XidFrame ==
  ASSUME XidInv, UNCHANGED <<committed, xid, status>>,
         \A s \in Segs : Count(s)' = Count(s),
         \A g \in Gxids : nextGxid' <= g => nextGxid <= g,
         \A c \in Backends : /\ qd[c] \in Committing => qd'[c] = qd[c] /\ gxid'[c] = gxid[c]
                             /\ qd'[c] = "ending" => qd[c] = "ending" /\ gxid'[c] = gxid[c]
  PROVE  XidInv'
BY DEF XidInv

\* HorizonInv when nothing changes on a segment and no horizon is about to advance.
LEMMA HorizonFrame ==
  ASSUME Types, HorizonInv, UNCHANGED <<xid, status, oldestXmin, ignore>>,
         \A s \in Segs : Count(s)' = Count(s),
         \A g \in Gxids : BeforeAll(g) => BeforeAll(g)',
         \A c \in Backends, s \in Segs : pending'[c][s] # NoXid =>
           pending'[c][s] = pending[c][s] /\ qd'[c] = qd[c]
  PROVE  HorizonInv'
<1>1. \A q \in ignore : q[2] \in Gxids
  BY Zenon DEF Types
<1> QED BY <1>1 DEF HorizonInv

\* Whom a backend waits for is a transaction.
LEMMA WaitedFor == ASSUME OInv, NEW c \in Backends, NEW h \in waitGxids[c]
                   PROVE  h \in Gxids /\ h # NoGxid
<1>1. waitGxids[c] \subseteq Gxids
  BY Zenon DEF OInv, OwnerInv
<1> QED BY Zenon, <1>1, Constants

\* The types of what only concerns writers that meet.
LEMMA OwnerTypes ==
  ASSUME OInv
  PROVE  /\ waitGxids \in [Backends -> SUBSET Gxids]
         /\ blocked \in [Backends -> [seg : Segs \cup {Unblocked.seg}, gxid : Nat, asked : BOOLEAN]]
BY Zenon DEF OInv, OwnerInv

\* What is below the xminAll of a snapshot is before every snapshot.
LEMMA Forgotten == ASSUME IInv, NEW b \in Backends, qd[b] = "active",
                          NEW g \in Gxids, g < ds[b].xminAll
                   PROVE  BeforeAll(g)
<1>1. /\ g \in Nat /\ ds[b].xminAll \in Nat /\ latestCompletedGxid \in Nat
      /\ \A c \in Backends : ds[c].xmin \in Nat /\ gxid[c] \in Nat
  BY Zenon, Constants DEF IInv, Types
<1>2. Oldest(ds[b].xminAll) /\ \A c \in Backends : qd[c] = "active" => ds[b].xminAll <= ds[c].xmin
  BY Zenon DEF IInv, MinInv
<1> QED BY <1>1, <1>2 DEF BeforeAll, Oldest

\* What is before every snapshot stays so.
LEMMA OldestStays ==
  ASSUME Types, latestCompletedGxid' \in Nat, latestCompletedGxid <= latestCompletedGxid',
         \A c \in Backends :
           \/ gxid'[c] \in {gxid[c], NoGxid}
           \/ gxid'[c] \in Nat /\ latestCompletedGxid < gxid'[c]
  PROVE  \A n \in Nat : Oldest(n) => Oldest(n)'
<1> SUFFICES ASSUME NEW n \in Nat, Oldest(n) PROVE Oldest(n)'
  BY Zenon
<1>1. n <= latestCompletedGxid + 1 /\ latestCompletedGxid \in Nat
  BY Zenon DEF Oldest, Types
<1>2. n <= latestCompletedGxid' + 1
  <2>1. n \in Nat /\ latestCompletedGxid' \in Nat /\ latestCompletedGxid <= latestCompletedGxid'
    BY Zenon
  <2>2. \A x, y \in Nat : n <= x + 1 /\ x <= y => n <= y + 1
    OBVIOUS
  <2> QED BY ONLY Zenon, <1>1, <2>1, <2>2
<1>3. ASSUME NEW c \in Backends, gxid'[c] # NoGxid PROVE n <= gxid'[c]
  <2>1. CASE gxid'[c] = gxid[c]
    BY Zenon, <1>3, <2>1 DEF Oldest
  <2>2. CASE gxid'[c] \in Nat /\ latestCompletedGxid < gxid'[c]
    <3>1. n \in Nat
      BY Zenon
    <3> QED BY ONLY <1>1, <2>2, <3>1
  <2> QED BY Zenon, <1>3, <2>1, <2>2
<1> QED BY Zenon, <1>2, <1>3 DEF Oldest

-----------------------------------------------------------------------------
\* What is used of numbers and finite sets: every nonempty set of numbers has a
\* least element, and counting transactions one more makes one more.
FiniteFacts ==
  /\ \A S \in SUBSET Nat : S # {} => \E x \in S : \A y \in S : x <= y
  /\ \A T \in SUBSET Gxids :
       /\ IsFiniteSet(T) /\ Cardinality(T) \in Nat
       /\ \A g \in Gxids \ T : Cardinality(T \cup {g}) = Cardinality(T) + 1

\* The operators of the model.

\* The least of a set of numbers.
LEMMA Least == ASSUME FiniteFacts, NEW S, S \subseteq Nat, S # {}
               PROVE  Min(S) \in S /\ \A y \in S : Min(S) <= y
<1>1. \E x \in S : \A y \in S : x <= y
  BY Zenon DEF FiniteFacts
<1> QED BY Zenon, <1>1 DEF Min

\* The greatest of a set of numbers up to n.
LEMMA Greatest == ASSUME FiniteFacts, NEW n \in Nat, NEW S, S \subseteq 0 .. n, S # {}
                  PROVE  Max(S) \in S /\ \A y \in S : y <= Max(S)
<1> DEFINE T == {n - x : x \in S}
<1>0. \A x \in S : x \in Nat /\ x <= n
  OBVIOUS
<1>1. T \subseteq Nat /\ T # {}
  <2>1. \A x \in S : n - x \in Nat /\ n - x \in T
    BY <1>0
  <2> QED BY Zenon, <2>1
<1>2. PICK m \in T : \A y \in T : m <= y
  <2> HIDE DEF T
  <2> QED BY Zenon, <1>1, Least
<1>3. PICK x \in S : m = n - x
  BY Zenon
<1>4. \A y \in S : y <= x
  <2> SUFFICES ASSUME NEW y \in S PROVE y <= x
    BY Zenon
  <2>1. n - y \in T
    BY Zenon
  <2>2. n - x <= n - y
    BY ZenonT(60), <1>2, <1>3, <2>1
  <2> QED BY <2>2
<1>5. \A y \in S : x >= y
  BY Zenon, <1>4
<1> HIDE DEF T
<1> QED BY Zenon, <1>5 DEF Max

\* A segment has finitely many transactions.
LEMMA Counts == ASSUME FiniteFacts, Types, NEW s \in Segs
                PROVE  IsFiniteSet(Assigned(s)) /\ Count(s) \in Nat
<1>1. Assigned(s) \in SUBSET Gxids
  BY Zenon DEF Assigned
<1> QED BY Zenon, <1>1 DEF Count, FiniteFacts

\* What CreateDistributedSnapshot returns.
LEMMA Created ==
  ASSUME FiniteFacts, Types, GxidInv, NEW b \in Backends, NEW d, d = CreateDistributedSnapshot(b)
  PROVE  /\ d \in [xminAll : Nat, xmin : Nat, xmax : Nat, inProgress : SUBSET Nat]
         /\ d.xmax = latestCompletedGxid + 1 /\ d.xmin # 0
         /\ d.xminAll <= d.xmin /\ d.xmin <= d.xmax /\ Oldest(d.xmin) /\ Oldest(d.xminAll)
         /\ \A c \in Backends : dxmin[c] # NoGxid => d.xminAll <= dxmin[c]
         /\ \A n \in Nat : Oldest(n) => n <= d.xmin
         /\ \A g \in d.inProgress : d.xmin <= g /\ \E c \in Backends : gxid[c] = g
         /\ \A c \in Backends : gxid[c] # NoGxid /\ gxid[c] < d.xmax /\ gxid[c] # gxid[b] =>
              gxid[c] \in d.inProgress
<1> DEFINE xmax == latestCompletedGxid + 1
           below == {g \in {gxid[c] : c \in Backends} \ {NoGxid} : g < xmax}
           M == {xmax} \cup below
           xmin == Min(M)
           A == {xmin} \cup ({dxmin[c] : c \in Backends} \ {NoGxid})
<1>1. d = [xminAll |-> Min(A), xmin |-> xmin, xmax |-> xmax, inProgress |-> below \ {gxid[b]}]
  BY Zenon DEF CreateDistributedSnapshot
<1>2. M \subseteq Nat /\ M # {} /\ xmax \in M /\ xmax \in Nat /\ below \subseteq M
  BY DEF Types
<1>3. xmin \in M /\ \A y \in M : xmin <= y
  <2> HIDE DEF M
  <2> QED BY Zenon, <1>2, Least
<1>4. xmin \in Nat /\ xmin # 0 /\ xmin <= xmax /\ \A g \in below : xmin <= g
  <2>1. \A y \in M : y \in Nat /\ y # 0
    BY DEF NoGxid, Types
  <2> HIDE DEF M, below
  <2> QED BY ZenonT(60), <1>2, <1>3, <2>1
<1> HIDE DEF xmin
<1>5. A \subseteq Nat /\ xmin \in A
  BY <1>4 DEF Types
<1>6. Min(A) \in Nat /\ \A y \in A : Min(A) <= y
  <2> HIDE DEF A
  <2> QED BY Zenon, <1>5, Least
<1>7. Oldest(xmin)
  <2>1. \A c \in Backends : gxid[c] # NoGxid /\ gxid[c] < xmax => gxid[c] \in below
    BY Zenon
  <2>2. \A c \in Backends : gxid[c] \in Nat
    BY Zenon DEF Types
  <2> HIDE DEF below
  <2>3. \A c \in Backends : gxid[c] # NoGxid => xmin <= gxid[c]
    BY <1>2, <1>4, <2>1, <2>2
  <2> QED BY Zenon, <1>4, <2>3 DEF Oldest
<1>8. \A n \in Nat : Oldest(n) => n <= xmin
  BY ZenonT(60), <1>2, <1>3 DEF Oldest, xmin
<1>9. Oldest(Min(A))
  <2> HIDE DEF A
  <2>1. Min(A) \in Nat /\ Min(A) <= xmin
    BY ZenonT(60), <1>5, <1>6
  <2> QED BY <1>2, <1>4, <1>7, <2>1 DEF Oldest, Types
<1> DEFINE m == Min(A)
<1>10. \A c \in Backends : dxmin[c] # NoGxid => dxmin[c] \in A
  BY Zenon
<1>11. \A c \in Backends : dxmin[c] # NoGxid => m <= dxmin[c]
  BY ZenonT(60), <1>6, <1>10
<1>12. m \in Nat /\ m <= xmin /\ Oldest(m)
  BY ZenonT(60), <1>5, <1>6, <1>9
<1> HIDE DEF m, A
<1>13. below \subseteq Nat
  BY DEF Types
<1>14. \A g \in below \ {gxid[b]} : \E c \in Backends : gxid[c] = g
  BY Zenon
<1>15. \A c \in Backends : gxid[c] # NoGxid /\ gxid[c] < xmax /\ gxid[c] # gxid[b] =>
         gxid[c] \in below \ {gxid[b]}
  BY Zenon
<1> HIDE DEF below
<1>16. d = [xminAll |-> m, xmin |-> xmin, xmax |-> xmax, inProgress |-> below \ {gxid[b]}]
  BY ZenonT(60), <1>1 DEF m
<1> QED BY <1>2, <1>4, <1>7, <1>8, <1>11, <1>12, <1>13, <1>14, <1>15, <1>16

\* What GetSnapshotData returns on a segment: below its xmin everything is over,
\* and nothing that is over is outside of it.
LEMMA Taken ==
  ASSUME FiniteFacts, Types, XidInv, NEW b \in Backends, NEW s \in Segs, NEW l, l = LocalSnapshot(b, s)
  PROVE  /\ l \in [xmin : Nat, xmax : Nat, xip : SUBSET Nat]
         /\ l.xmax <= Count(s) + 1 /\ l.xmin <= l.xmax /\ l.xmin # 0
         /\ \A g \in Gxids : xid[s][g] # NoXid /\ xid[s][g] < l.xmin => status[s][g] \in Over
         /\ \A g \in Gxids : status[s][g] \in Over => xid[s][g] < l.xmax /\ xid[s][g] \notin l.xip
<1> DEFINE C == {0} \cup {xid[s][g] : g \in {g \in Gxids : status[s][g] \in {"committed", "aborted"}}}
           last == Max(C)
           mine == IF gxid[b] = NoGxid THEN NoXid ELSE xid[s][gxid[b]]
           below == {x \in Running(s) : x < last + 1}
           M == {last + 1} \cup below
           xmin == Min(M)
<1>1. l = [xmin |-> xmin, xmax |-> last + 1, xip |-> below \ {mine}]
  BY Zenon DEF LocalSnapshot, latestCompletedXid
<1>2. C \subseteq 0 .. Count(s) /\ 0 \in C /\ Count(s) \in Nat
  BY Counts DEF Types, XidInv
<1>3. last \in C /\ \A y \in C : y <= last
  <2> HIDE DEF C
  <2> QED BY ZenonT(60), <1>2, Greatest
<1>4. last \in Nat /\ last <= Count(s)
  BY <1>2, <1>3
<1>5. \A g \in Gxids : status[s][g] \in Over => xid[s][g] <= last /\ xid[s][g] \in Nat
  BY ZenonT(60), <1>3 DEF Over, Types
<1> HIDE DEF C, last
<1>6. M \subseteq Nat /\ last + 1 \in M
  BY <1>4 DEF Running, Types
<1>7. xmin \in M /\ \A y \in M : xmin <= y
  <2> HIDE DEF M
  <2> QED BY Zenon, <1>6, Least
<1>8. \A x \in Running(s) : x # 0 /\ x \in Nat
  BY DEF Running, Types, XidInv, InProcArray, HoldsRow, NoXid
<1>9. xmin \in Nat /\ xmin # 0 /\ xmin <= last + 1 /\ \A x \in below : xmin <= x
  BY <1>4, <1>6, <1>7, <1>8
<1> HIDE DEF xmin, M
<1>10. \A g \in Gxids : xid[s][g] # NoXid /\ status[s][g] \notin Over => xid[s][g] \in Running(s)
  BY DEF Running, Types, XidInv, InProcArray, HoldsRow, Over, States
<1>11. \A g \in Gxids : xid[s][g] # NoXid /\ xid[s][g] < xmin => status[s][g] \in Over
  BY <1>4, <1>9, <1>10 DEF Types
<1>12. \A g \in Gxids : status[s][g] \in Over => xid[s][g] \notin Running(s)
  <2> SUFFICES ASSUME NEW g \in Gxids, status[s][g] \in Over, xid[s][g] \in Running(s)
               PROVE  FALSE
    BY Zenon
  <2>1. PICK h \in Gxids : status[s][h] \in InProcArray /\ xid[s][h] = xid[s][g]
    BY Zenon DEF Running
  <2>2. xid[s][g] # NoXid
    BY ZenonT(60) DEF XidInv, Over
  <2>3. h = g
    BY <2>1, <2>2 DEF XidInv
  <2> QED BY Zenon, <2>1, <2>3 DEF InProcArray, HoldsRow, Over
<1>13. below \subseteq Nat
  BY Zenon, <1>8
<1>14. \A g \in Gxids : status[s][g] \in Over => xid[s][g] < last + 1 /\ xid[s][g] \notin below
  BY <1>4, <1>5, <1>12
<1> HIDE DEF below, mine
<1>15. /\ l.xmin = xmin /\ l.xmax = last + 1 /\ l.xip = below \ {mine}
       /\ l \in [xmin : Nat, xmax : Nat, xip : SUBSET Nat]
  <2> DEFINE w == below \ {mine}
  <2>1. w \in SUBSET Nat
    BY Zenon, <1>13
  <2>2. l = [xmin |-> xmin, xmax |-> last + 1, xip |-> w]
    BY Zenon, <1>1
  <2> HIDE DEF w
  <2>3. l.xmin = xmin /\ l.xmax = last + 1 /\ l.xip = w
    BY <2>2
  <2>4. l \in [xmin : Nat, xmax : Nat, xip : SUBSET Nat]
    BY <1>4, <1>9, <2>1, <2>2
  <2> QED BY Zenon, <2>3, <2>4 DEF w
<1> QED BY <1>2, <1>4, <1>9, <1>11, <1>14, <1>15

\* How far the horizon advances.
LEMMA Advanced ==
  ASSUME FiniteFacts, Types, NEW s \in Segs, NEW to \in Nat, NEW all \in Nat, NEW n, n = AdvancedXmin(s, to, all),
         \A x \in Nat : distribXid(s, x) \in Nat
  PROVE  /\ n \in Nat /\ oldestXmin[s] <= n /\ (n <= oldestXmin[s] \/ n <= to)
         /\ \A x \in Nat : oldestXmin[s] <= x /\ x < n => distribXid(s, x) < all
<1>0. oldestXmin[s] \in Nat
  BY Zenon DEF Types
<1>1. CASE oldestXmin[s] >= to
  BY <1>0, <1>1 DEF AdvancedXmin
<1>2. CASE ~(oldestXmin[s] >= to)
  <2> DEFINE S == {to} \cup {x \in oldestXmin[s] .. to - 1 : distribXid(s, x) >= all}
  <2>1. S \subseteq Nat /\ S # {} /\ to \in S /\ \A x \in S : oldestXmin[s] <= x
    BY <1>0, <1>2
  <2>2. n = Min(S)
    BY Zenon, <1>2 DEF AdvancedXmin
  <2>3. n \in S /\ \A y \in S : n <= y
    <3> HIDE DEF S
    <3> QED BY ZenonT(60), <2>1, <2>2, Least
  <2>4. ASSUME NEW x \in Nat, oldestXmin[s] <= x, x < n PROVE distribXid(s, x) < all
    <3>1. x \notin S
      BY <2>1, <2>3, <2>4
    <3>2. x \in oldestXmin[s] .. to - 1
      BY <1>0, <2>1, <2>3, <2>4
    <3> QED BY <3>1, <3>2
  <2> QED BY ZenonT(60), <2>1, <2>3, <2>4
<1> QED BY ZenonT(60), <1>1, <1>2

-----------------------------------------------------------------------------
\* The steps.

\* A transaction gets an xid on a segment.
LEMMA AssignStep == ASSUME FiniteFacts, IInv, NEW b \in Backends, NEW s \in Segs, AssignTransactionId(b, s)
                    PROVE  IInv'
<1> USE DEF coordinator, order
<1> DEFINE g == gxid[b]
<1>a. /\ qd[b] = "active" /\ g # NoGxid /\ status[s][g] = "none"
      /\ xid' = [xid EXCEPT ![s][g] = 1 + Count(s)]
      /\ status' = [status EXCEPT ![s][g] = "assigned"]
      /\ UNCHANGED <<coordinator, local, pending, oldestXmin, ignore, order>>
  BY ZenonT(60) DEF AssignTransactionId, Count, Assigned
<1>g. g \in Gxids /\ g \notin committed /\ g < nextGxid /\ xid[s][g] = NoXid
  BY <1>a DEF IInv, GxidInv, XidInv
<1>n. \A r \in Segs : Count(r) \in Nat
  BY ZenonT(60), Counts DEF IInv
<1>f. /\ status'[s][g] = "assigned" /\ xid'[s][g] = 1 + Count(s) /\ xid'[s][g] # NoXid
      /\ \A r \in Segs, h \in Gxids : r # s \/ h # g =>
           status'[r][h] = status[r][h] /\ xid'[r][h] = xid[r][h]
  BY <1>a, <1>g, <1>n DEF IInv, Types, NoXid
<1>1. Types'
  BY <1>a, <1>g, <1>n DEF IInv, Types, States
<1>2. GxidInv' /\ MinInv'
  BY ZenonT(60), <1>a DEF IInv, GxidInv, MinInv, Oldest
<1>0. \A r \in Segs : Count(r)' = IF r = s THEN Count(s) + 1 ELSE Count(r)
  <2>1. ASSUME NEW r \in Segs, r # s PROVE Count(r)' = Count(r)
    <3>1. Assigned(r)' = Assigned(r)
      BY ZenonT(60), <1>f, <2>1 DEF Assigned
    <3> QED BY Zenon, <3>1 DEF Count
  <2>2. Assigned(s)' = Assigned(s) \cup {g} /\ g \notin Assigned(s)
    BY <1>f, <1>g DEF Assigned
  <2>3. Count(s)' = Count(s) + 1
    <3>1. Assigned(s) \in SUBSET Gxids /\ g \in Gxids \ Assigned(s)
      BY Zenon, <1>g, <2>2 DEF Assigned
    <3>2. Cardinality(Assigned(s) \cup {g}) = Cardinality(Assigned(s)) + 1
      BY Zenon, <3>1 DEF FiniteFacts
    <3> QED BY Zenon, <2>2, <3>2 DEF Count
  <2> QED BY ZenonT(60), <2>1, <2>3
<1> HIDE DEF g
<1>x. \A r \in Segs, h \in Gxids : xid[r][h] \in Nat /\ xid[r][h] <= Count(r)
  BY DEF IInv, Types, XidInv
<1>3. XidInv'
  <2> SUFFICES ASSUME NEW r \in Segs
               PROVE  /\ \A h \in Gxids :
                           /\ xid'[r][h] = NoXid <=> status'[r][h] = "none"
                           /\ nextGxid <= h => xid'[r][h] = NoXid
                           /\ xid'[r][h] <= Count(r)'
                           /\ status'[r][h] \in {"logged", "committed"} =>
                                h \in committed \/ \E c \in Backends : gxid[c] = h /\ qd[c] \in Committing
                           /\ h \in committed /\ xid'[r][h] # NoXid => status'[r][h] = "committed"
                      /\ \A c \in Backends : qd[c] = "ending" /\ gxid[c] # NoGxid /\ xid'[r][gxid[c]] # NoXid
                                              => status'[r][gxid[c]] = "committed"
                      /\ \A h, i \in Gxids : xid'[r][h] = xid'[r][i] /\ xid'[r][h] # NoXid => h = i
    BY <1>a DEF XidInv
  <2>1. ASSUME NEW h \in Gxids
        PROVE  /\ xid'[r][h] = NoXid <=> status'[r][h] = "none"
               /\ nextGxid <= h => xid'[r][h] = NoXid
               /\ xid'[r][h] <= Count(r)'
               /\ status'[r][h] \in {"logged", "committed"} =>
                    h \in committed \/ \E c \in Backends : gxid[c] = h /\ qd[c] \in Committing
               /\ h \in committed /\ xid'[r][h] # NoXid => status'[r][h] = "committed"
    <3>1. CASE r = s /\ h = g
      <4>1. Count(r)' = Count(s) + 1 /\ xid'[r][h] = 1 + Count(s) /\ xid'[r][h] # NoXid
            /\ status'[r][h] = "assigned" /\ ~(nextGxid <= h) /\ h \notin committed
        <5>1. nextGxid \in Nat /\ g \in Nat
          BY Zenon, <1>g, Constants DEF IInv, Types
        <5>2. ~(nextGxid <= g)
          BY <1>g, <5>1
        <5> QED BY ZenonT(60), <1>f, <1>g, <1>0, <3>1, <5>2
      <4>2. 1 + Count(s) <= Count(s) + 1
        BY <1>n
      <4> QED BY ZenonT(60), <4>1, <4>2
    <3>2. CASE r # s \/ h # g
      <4>1. xid'[r][h] = xid[r][h] /\ status'[r][h] = status[r][h]
        BY Zenon, <1>f, <3>2
      <4>2. Count(r)' = Count(r) + 1 \/ Count(r)' = Count(r)
        BY Zenon, <1>0
      <4>3. xid[r][h] <= Count(r)'
        BY <1>n, <1>x, <4>2
      <4>4. /\ xid[r][h] = NoXid <=> status[r][h] = "none"
            /\ nextGxid <= h => xid[r][h] = NoXid
            /\ status[r][h] \in {"logged", "committed"} =>
                 h \in committed \/ \E c \in Backends : gxid[c] = h /\ qd[c] \in Committing
            /\ h \in committed /\ xid[r][h] # NoXid => status[r][h] = "committed"
        BY ZenonT(60), XidFacts DEF IInv
      <4> QED BY ZenonT(60), <4>1, <4>3, <4>4
    <3> QED BY ZenonT(60), <3>1, <3>2
  <2>2. ASSUME NEW c \in Backends, qd[c] = "ending", gxid[c] # NoGxid, xid'[r][gxid[c]] # NoXid
        PROVE  status'[r][gxid[c]] = "committed"
    <3>1. gxid[c] \in Gxids /\ gxid[c] # g
      BY Zenon, <1>a, <2>2 DEF IInv, GxidInv, g
    <3> QED BY <1>f, <2>2, <3>1 DEF IInv, XidInv
  <2>3. ASSUME NEW h \in Gxids, NEW i \in Gxids, xid'[r][h] = xid'[r][i], xid'[r][h] # NoXid
        PROVE  h = i
    <3>1. CASE r = s /\ (h = g \/ i = g)
      <4>1. \A j \in Gxids : xid[s][j] # 1 + Count(s)
        BY <1>n, <1>x
      <4> QED BY ZenonT(60), <1>f, <2>3, <3>1, <4>1
    <3>2. CASE r # s \/ (h # g /\ i # g)
      BY <1>f, <2>3, <3>2 DEF IInv, XidInv
    <3> QED BY ZenonT(60), <3>1, <3>2
  <2> QED BY ZenonT(60), <2>1, <2>2, <2>3
<1>4. CutInv'
  <2>1. \A c \in Backends : g \notin cut[c] /\ cut[c] \subseteq Gxids
    BY Zenon, <1>g DEF IInv, GxidInv, Types
  <2>2. \A c \in Backends, r \in Segs : \A h \in cut[c] : xid'[r][h] = xid[r][h]
    BY ZenonT(60), <1>f, <2>1
  <2> QED BY <1>a, <2>2 DEF IInv, CutInv, Ended
<1>5. HorizonInv'
  <2>1. \A h \in Gxids : BeforeAll(h)' <=> BeforeAll(h)
    BY Zenon, <1>a DEF BeforeAll, Oldest
  <2>2. \A q \in ignore : q[1] \in Segs /\ q[2] \in Gxids
    BY ZenonT(60) DEF IInv, Types
  <2>4. \A q \in ignore' : status'[q[1]][q[2]] \in {"logged", "committed"} /\ BeforeAll(q[2])'
    BY ZenonT(60), <1>a, <1>f, <2>1, <2>2 DEF IInv, HorizonInv, g
  <2>5. \A r \in Segs :
          /\ oldestXmin[r] \in Nat /\ oldestXmin[r] <= Count(r) + 1
          /\ \A h \in Gxids : xid'[r][h] # NoXid /\ xid'[r][h] < oldestXmin[r] =>
            status'[r][h] \in Over /\ (status'[r][h] = "committed" => BeforeAll(h)')
    BY <1>f, <1>n, <2>1 DEF IInv, HorizonInv, Types
  <2>6. \A c \in Backends, r \in Segs : pending[c][r] # NoXid =>
          /\ pending[c][r] \in Nat /\ pending[c][r] <= Count(r) + 1 
          /\ \A h \in Gxids : xid'[r][h] # NoXid /\ xid'[r][h] < pending[c][r] => status'[r][h] \in Over
    <3> SUFFICES ASSUME NEW c \in Backends, NEW r \in Segs, pending[c][r] # NoXid
                 PROVE  /\ pending[c][r] \in Nat /\ pending[c][r] <= Count(r) + 1
                        /\ \A h \in Gxids : xid'[r][h] # NoXid /\ xid'[r][h] < pending[c][r] =>
                             status'[r][h] \in Over
      BY Zenon
    <3>1. /\ pending[c][r] \in Nat /\ pending[c][r] <= Count(r) + 1
          /\ \A h \in Gxids : xid[r][h] # NoXid /\ xid[r][h] < pending[c][r] => status[r][h] \in Over
      BY DEF IInv, HorizonInv, Types
    <3> QED BY <1>f, <1>n, <3>1
  <2> QED BY <1>a, <1>0, <1>n, <2>4, <2>5, <2>6 DEF IInv, HorizonInv
<1> QED BY ZenonT(60), <1>1, <1>2, <1>3, <1>4, <1>5 DEF IInv

\* The coordinator makes a snapshot.
LEMMA SnapshotStep == ASSUME FiniteFacts, IInv, NEW b \in Backends, GetSnapshotData(b)
                      PROVE  IInv'
<1> USE DEF coordinator, order
<1> DEFINE d == CreateDistributedSnapshot(b)
<1>a. /\ qd' = [qd EXCEPT ![b] = "active"]
      /\ ds' = [ds EXCEPT ![b] = d]
      /\ dxmin' = [dxmin EXCEPT ![b] = IF @ = NoGxid THEN ds'[b].xmin ELSE @]
      /\ cut' = [cut EXCEPT ![b] = committed]
      /\ local' = [local EXCEPT ![b] = [s \in Segs |-> NoSnapshot]]
      /\ UNCHANGED <<nextGxid, latestCompletedGxid, gxid, committed, xid, status, pending,
                     oldestXmin, ignore>>
      /\ qd[b] = "idle" \/ qd[b] = "active"
  BY Zenon DEF GetSnapshotData
<1>d. /\ d \in [xminAll : Nat, xmin : Nat, xmax : Nat, inProgress : SUBSET Nat]
      /\ d.xmax = latestCompletedGxid + 1 /\ d.xmin # 0
      /\ d.xminAll <= d.xmin /\ d.xmin <= d.xmax /\ Oldest(d.xmin) /\ Oldest(d.xminAll)
      /\ \A c \in Backends : dxmin[c] # NoGxid => d.xminAll <= dxmin[c]
      /\ \A n \in Nat : Oldest(n) => n <= d.xmin
      /\ \A g \in d.inProgress : d.xmin <= g /\ \E c \in Backends : gxid[c] = g
      /\ \A c \in Backends : gxid[c] # NoGxid /\ gxid[c] < d.xmax /\ gxid[c] # gxid[b] =>
           gxid[c] \in d.inProgress
  BY Zenon, Created DEF IInv
<1> HIDE DEF d
<1>m. /\ dxmin'[b] = IF dxmin[b] = NoGxid THEN d.xmin ELSE dxmin[b]
      /\ \A c \in Backends \ {b} : dxmin'[c] = dxmin[c] /\ ds'[c] = ds[c] /\ qd'[c] = qd[c]
                                   /\ cut'[c] = cut[c] /\ local'[c] = local[c]
      /\ qd'[b] = "active" /\ ds'[b] = d /\ cut'[b] = committed
      /\ \A s \in Segs : local'[b][s] = NoSnapshot
  BY Zenon, <1>a DEF IInv, Types
<1>1. Types'
  <2>1. NoSnapshot \in [xmin : Nat, xmax : Nat, xip : SUBSET Nat]
    BY Zenon DEF NoSnapshot
  <2>2. /\ qd' \in [Backends -> Phases] /\ local' \in [Backends -> [Segs -> [xmin : Nat, xmax : Nat, xip : SUBSET Nat]]]
    BY Zenon, <1>a, <2>1 DEF IInv, Types, Phases
  <2>3. ds' \in [Backends -> [xminAll : Nat, xmin : Nat, xmax : Nat, inProgress : SUBSET Nat]]
    BY Zenon, <1>a, <1>d DEF IInv, Types
  <2>4. dxmin' \in [Backends -> Nat]
    BY ZenonT(60), <1>a, <1>d, <1>m DEF IInv, Types
  <2>5. cut' \in [Backends -> SUBSET Gxids]
    BY Zenon, <1>a DEF IInv, Types
  <2> QED BY ZenonT(60), <1>a, <2>2, <2>3, <2>4, <2>5 DEF IInv, Types
<1>2. GxidInv'
  BY <1>a, <1>m DEF IInv, Types, GxidInv
<1>0. \A s \in Segs : Count(s)' = Count(s)
  BY ZenonT(60), <1>a DEF Count, Assigned
<1>3. XidInv'
  <2>1. \A c \in Backends : /\ qd[c] \in Committing => qd'[c] = qd[c]
                            /\ qd'[c] = "ending" => qd[c] = "ending"
    BY ZenonT(60), <1>a, <1>m DEF Committing
  <2> QED BY Zenon, <1>a, <1>0, <2>1, XidFrame DEF IInv
<1>4. CutInv'
  <2>1. \A g \in committed : g < d.xmax /\ g \notin d.inProgress /\ g \in Nat
    BY <1>d, Constants DEF IInv, GxidInv, Types
  <2>2. ASSUME NEW g \in Gxids, g < d.xmax, g \notin d.inProgress, g # gxid[b]
        PROVE  g \in committed \/ (g \notin committed /\ Ended(g))
    BY Zenon, <1>d, <2>2, Constants DEF Ended
  <2>3. \A g \in Gxids : Ended(g)' <=> Ended(g)
    BY ZenonT(60), <1>a DEF Ended
  <2>4. ASSUME NEW c \in Backends \ {b}, qd'[c] = "active"
        PROVE  /\ ds'[c].xminAll <= ds'[c].xmin /\ ds'[c].xmin <= ds'[c].xmax
               /\ ds'[c].xmax <= latestCompletedGxid + 1
               /\ \A g \in ds'[c].inProgress : ds'[c].xmin <= g
               /\ \A g \in cut'[c] : g < ds'[c].xmax /\ g \notin ds'[c].inProgress
               /\ \A g \in Gxids : g < ds'[c].xmax /\ g \notin ds'[c].inProgress /\ g # gxid[c] =>
                    g \in cut'[c] \/ (g \notin committed /\ Ended(g))
               /\ \A s \in Segs, g \in cut'[c] : local'[c][s] # NoSnapshot /\ xid[s][g] # NoXid =>
                    xid[s][g] < local'[c][s].xmax /\ xid[s][g] \notin local'[c][s].xip
    BY ZenonT(60), <1>m, <2>4 DEF IInv, CutInv
  <2>5. /\ ds'[b].xminAll <= ds'[b].xmin /\ ds'[b].xmin <= ds'[b].xmax
        /\ ds'[b].xmax <= latestCompletedGxid + 1
        /\ \A g \in ds'[b].inProgress : ds'[b].xmin <= g
        /\ \A g \in cut'[b] : g < ds'[b].xmax /\ g \notin ds'[b].inProgress
        /\ \A g \in Gxids : g < ds'[b].xmax /\ g \notin ds'[b].inProgress /\ g # gxid[b] =>
             g \in cut'[b] \/ (g \notin committed /\ Ended(g))
        /\ \A s \in Segs : local'[b][s] = NoSnapshot
    <3>1. d.xmax <= latestCompletedGxid + 1
      <4>1. latestCompletedGxid \in Nat
        BY Zenon DEF IInv, Types
      <4> QED BY <1>d, <4>1
    <3> QED BY ZenonT(60), <1>m, <1>d, <2>1, <2>2, <3>1
  <2> QED BY ZenonT(60), <1>a, <2>3, <2>4, <2>5 DEF CutInv
<1>5. MinInv'
  <2>1. \A n \in Nat : Oldest(n)' <=> Oldest(n)
    BY Zenon, <1>a DEF Oldest
  <2>2. \A c \in Backends : /\ dxmin[c] \in Nat /\ ds[c].xminAll \in Nat /\ ds[c].xmin \in Nat
                            /\ ds'[c].xminAll \in Nat /\ ds'[c].xmin \in Nat /\ dxmin'[c] \in Nat
    BY Zenon, <1>1 DEF IInv, Types
  <2>3. dxmin'[b] # NoGxid /\ dxmin'[b] <= d.xmin /\ Oldest(dxmin'[b]) /\ Oldest(d.xminAll)
    BY Zenon, <1>a, <1>m, <1>d, <2>2 DEF IInv, MinInv, NoGxid
  <2>4. ASSUME NEW c \in Backends, NEW e \in Backends, qd'[c] = "active", qd'[e] = "active"
        PROVE  ds'[c].xminAll <= ds'[e].xmin
    <3>1. CASE c = b /\ e = b
      BY ZenonT(60), <3>1, <1>m, <1>d
    <3>2. CASE c = b /\ e # b
      <4>1. dxmin[e] # NoGxid /\ dxmin[e] <= ds[e].xmin
        BY Zenon, <1>m, <2>4, <3>2 DEF IInv, MinInv
      <4>2. d.xminAll <= dxmin[e] /\ d.xminAll \in Nat
        BY Zenon, <1>d, <4>1
      <4>3. ds'[c] = d /\ ds'[e] = ds[e]
        BY Zenon, <1>m, <3>2
      <4>4. dxmin[e] \in Nat /\ ds[e].xmin \in Nat
        BY Zenon, <2>2
      <4>5. d.xminAll <= ds[e].xmin
        BY <4>1, <4>2, <4>4
      <4> QED BY Zenon, <4>3, <4>5
    <3>3. CASE c # b /\ e = b
      BY ZenonT(60), <1>m, <1>d, <2>2, <2>4, <3>3 DEF IInv, MinInv
    <3>4. CASE c # b /\ e # b
      BY Zenon, <1>m, <2>4, <3>4 DEF IInv, MinInv
    <3> QED BY Zenon, <3>1, <3>2, <3>3, <3>4
  <2>5. \A c \in Backends : qd'[c] = "idle" => dxmin'[c] = NoGxid
    BY Zenon, <1>m DEF IInv, MinInv
  <2>6. \A c \in Backends : qd'[c] = "active" =>
          dxmin'[c] # NoGxid /\ dxmin'[c] <= ds'[c].xmin /\ Oldest(dxmin'[c]) /\ Oldest(ds'[c].xminAll)
    BY Zenon, <1>m, <2>3 DEF IInv, MinInv
  <2>7. \A c \in Backends : qd'[c] = "active" => Oldest(dxmin[c])' /\ Oldest(ds[c].xminAll)'
    BY Zenon, <2>1, <2>2, <2>6, <1>a DEF Oldest
  <2> QED BY Zenon, <2>4, <2>5, <2>6, <2>7 DEF MinInv
<1>6. HorizonInv'
  <2>1. ASSUME NEW g \in Gxids, BeforeAll(g) PROVE BeforeAll(g)'
    <3>1. g \in Nat /\ g + 1 <= d.xmin /\ d.xmin \in Nat
      <4>1. g \in Nat /\ d.xmin \in Nat
        BY Zenon, <1>d, Constants
      <4>2. g + 1 \in Nat
        BY <4>1
      <4> QED BY Zenon, <1>d, <2>1, <4>1, <4>2 DEF BeforeAll
    <3>2. \A c \in Backends : qd'[c] = "active" => g < ds'[c].xmin
      BY <1>m, <2>1, <3>1 DEF BeforeAll
    <3> QED BY Zenon, <1>a, <2>1, <3>2 DEF BeforeAll, Oldest
  <2>2. \A q \in ignore : q[1] \in Segs /\ q[2] \in Gxids
    BY Zenon DEF IInv, Types
  <2>3. \A c \in Backends : qd[c] = "active" => qd'[c] = "active"
    BY ZenonT(60), <1>m
  <2> QED BY ZenonT(60), <1>a, <1>0, <2>1, <2>2, <2>3 DEF IInv, HorizonInv
<1> QED BY Zenon, <1>1, <1>2, <1>3, <1>4, <1>5, <1>6 DEF IInv

\* A segment takes the local snapshot.
LEMMA QeStep == ASSUME FiniteFacts, IInv, NEW b \in Backends, NEW s \in Segs, QeGetSnapshotData(b, s)
                PROVE  IInv'
<1> USE DEF coordinator, order
<1> DEFINE l == LocalSnapshot(b, s)
           p == Min({l.xmin} \cup ProcXmins(s))
<1>a. /\ qd[b] = "active"
      /\ local' = [local EXCEPT ![b][s] = l] /\ pending' = [pending EXCEPT ![b][s] = p]
      /\ UNCHANGED <<coordinator, xid, status, oldestXmin, ignore>>
  BY Zenon DEF QeGetSnapshotData
<1>l. /\ l \in [xmin : Nat, xmax : Nat, xip : SUBSET Nat]
      /\ l.xmax <= Count(s) + 1 /\ l.xmin <= l.xmax
      /\ \A g \in Gxids : xid[s][g] # NoXid /\ xid[s][g] < l.xmin => status[s][g] \in Over
      /\ \A g \in Gxids : status[s][g] \in Over => xid[s][g] < l.xmax /\ xid[s][g] \notin l.xip
  BY Zenon, Taken DEF IInv
<1> HIDE DEF l
<1>p. p \in Nat /\ p <= l.xmin
  <2> DEFINE S == {l.xmin} \cup ProcXmins(s)
  <2>1. S \subseteq Nat /\ l.xmin \in S
    BY <1>l DEF ProcXmins, IInv, Types
  <2> HIDE DEF S
  <2>2. Min(S) \in Nat /\ Min(S) <= l.xmin
    BY Zenon, <2>1, Least
  <2> QED BY Zenon, <2>2 DEF S
<1> HIDE DEF p
<1>f. /\ local'[b][s] = l /\ pending'[b][s] = p
      /\ \A c \in Backends, r \in Segs : c # b \/ r # s =>
           local'[c][r] = local[c][r] /\ pending'[c][r] = pending[c][r]
  BY Zenon, <1>a DEF IInv, Types
<1>1. Types'
  BY Zenon, <1>a, <1>l, <1>p DEF IInv, Types
<1>2. GxidInv' /\ MinInv'
  BY Zenon, <1>a DEF IInv, GxidInv, MinInv, Oldest
<1>0. \A r \in Segs : Count(r)' = Count(r)
  BY Zenon, <1>a DEF Count, Assigned
<1>3. XidInv'
  BY Zenon, <1>a, <1>0, XidFrame DEF IInv
<1>4. CutInv'
  <2>1. \A g \in cut[b] : xid[s][g] # NoXid => xid[s][g] < l.xmax /\ xid[s][g] \notin l.xip
    BY <1>l DEF IInv, GxidInv, XidInv, Types, Over
  <2>2. \A c \in Backends, r \in Segs : qd[c] = "active" => \A g \in cut[c] :
          local'[c][r] # NoSnapshot /\ xid[r][g] # NoXid =>
            xid[r][g] < local'[c][r].xmax /\ xid[r][g] \notin local'[c][r].xip
    BY <1>f, <2>1 DEF IInv, CutInv
  <2> QED BY ZenonT(60), <1>a, <2>2 DEF IInv, CutInv, Ended
<1>5. HorizonInv'
  <2>1. \A g \in Gxids : BeforeAll(g)' <=> BeforeAll(g)
    BY Zenon, <1>a DEF BeforeAll, Oldest
  <2>2. \A q \in ignore : q[1] \in Segs /\ q[2] \in Gxids
    BY Zenon DEF IInv, Types
  <2>3. /\ p <= Count(s) + 1
        /\ \A g \in Gxids : xid[s][g] # NoXid /\ xid[s][g] < p => status[s][g] \in Over
    <3>1. Count(s) \in Nat /\ \A g \in Gxids : xid[s][g] \in Nat
      BY Counts DEF IInv, Types
    <3> QED BY <1>l, <1>p, <3>1
  <2>4. \A c \in Backends, r \in Segs : pending'[c][r] # NoXid =>
          /\ qd[c] = "active" /\ pending'[c][r] <= Count(r) + 1
          /\ \A g \in Gxids : xid[r][g] # NoXid /\ xid[r][g] < pending'[c][r] => status[r][g] \in Over
    BY <1>a, <1>f, <2>3 DEF IInv, HorizonInv
  <2> QED BY ZenonT(60), <1>a, <1>0, <2>1, <2>2, <2>4 DEF IInv, HorizonInv
<1> QED BY Zenon, <1>1, <1>2, <1>3, <1>4, <1>5 DEF IInv

\* The horizon of a segment advances.
LEMMA AdvanceStep ==
  ASSUME FiniteFacts, IInv, NEW b \in Backends, NEW s \in Segs, DistributedLog_AdvanceOldestXmin(b, s)
  PROVE  IInv'
<1> USE DEF coordinator, order
<1> DEFINE to == pending[b][s]
           all == ds[b].xminAll
           n == AdvancedXmin(s, to, all)
<1>a. /\ to # NoXid /\ oldestXmin' = [oldestXmin EXCEPT ![s] = n]
      /\ pending' = [pending EXCEPT ![b][s] = NoXid]
      /\ UNCHANGED <<coordinator, xid, status, local, ignore>>
  BY Zenon DEF DistributedLog_AdvanceOldestXmin
<1>t. to \in Nat /\ all \in Nat /\ oldestXmin[s] \in Nat /\ Count(s) \in Nat
  BY ZenonT(60), Counts DEF IInv, Types
<1>b. /\ qd[b] = "active" /\ to <= Count(s) + 1
      /\ \A g \in Gxids : xid[s][g] # NoXid /\ xid[s][g] < to => status[s][g] \in Over
  BY Zenon, <1>a DEF IInv, HorizonInv
<1>n. /\ n \in Nat /\ oldestXmin[s] <= n /\ (n <= oldestXmin[s] \/ n <= to)
      /\ \A x \in Nat : oldestXmin[s] <= x /\ x < n => distribXid(s, x) < all
  <2>1. \A x \in Nat : distribXid(s, x) \in Nat
    BY Zenon, Constants DEF distribXid, NoGxid
  <2>2. n = AdvancedXmin(s, to, all)
    BY Zenon
  <2> HIDE DEF n, to, all
  <2> QED BY Zenon, <1>t, <2>1, <2>2, Advanced DEF IInv
<1> HIDE DEF n, to, all
<1>f. /\ oldestXmin'[s] = n /\ \A r \in Segs : r # s => oldestXmin'[r] = oldestXmin[r]
      /\ \A c \in Backends, r \in Segs : pending'[c][r] \in {pending[c][r], NoXid}
  BY Zenon, <1>a DEF IInv, Types
<1>1. Types'
  BY Zenon, <1>a, <1>n DEF IInv, Types, NoXid
<1>2. GxidInv' /\ MinInv'
  BY Zenon, <1>a DEF IInv, GxidInv, MinInv, Oldest
<1>0. \A r \in Segs : Count(r)' = Count(r)
  BY Zenon, <1>a DEF Count, Assigned
<1>3. XidInv'
  BY Zenon, <1>a, <1>0, XidFrame DEF IInv
<1>4. CutInv'
  BY ZenonT(60), <1>a DEF IInv, CutInv, Ended
<1>5. HorizonInv'
  <2>1. \A g \in Gxids : BeforeAll(g)' <=> BeforeAll(g)
    BY Zenon, <1>a DEF BeforeAll, Oldest
  <2>2. \A q \in ignore : q[1] \in Segs /\ q[2] \in Gxids
    BY Zenon DEF IInv, Types
  <2>3. ASSUME NEW g \in Gxids, xid[s][g] # NoXid, xid[s][g] < n
        PROVE  status[s][g] \in Over /\ (status[s][g] = "committed" => BeforeAll(g))
    <3>1. xid[s][g] \in Nat
      BY DEF IInv, Types
    <3>2. CASE xid[s][g] < oldestXmin[s]
      BY Zenon, <2>3, <3>2 DEF IInv, HorizonInv
    <3>3. CASE ~(xid[s][g] < oldestXmin[s])
      <4>1. oldestXmin[s] <= xid[s][g] /\ xid[s][g] < to
        <5>1. n \in Nat /\ to \in Nat /\ oldestXmin[s] \in Nat /\ (n <= oldestXmin[s] \/ n <= to)
          BY Zenon, <1>t, <1>n
        <5>2. Between(oldestXmin[s], to, n)
          BY Zenon, <5>1, AnyBetween
        <5> QED BY Zenon, <2>3, <3>1, <3>3, <5>1, <5>2 DEF Between
      <4>2. status[s][g] \in Over
        BY Zenon, <1>b, <2>3, <4>1
      <4>3. distribXid(s, xid[s][g]) < all
        BY Zenon, <1>n, <2>3, <3>1, <4>1
      <4>4. ASSUME status[s][g] = "committed" PROVE BeforeAll(g)
        <5>1. distribXid(s, xid[s][g]) = g
          BY Zenon, <2>3, <4>4, Logged DEF IInv
        <5> QED BY Zenon, <1>b, <4>3, <5>1, Forgotten DEF all
      <4> QED BY ZenonT(60), <4>2, <4>4
    <3> QED BY Zenon, <3>2, <3>3
  <2>4. 1 <= n /\ n <= Count(s) + 1
    <3>1. 1 <= oldestXmin[s] /\ oldestXmin[s] <= Count(s) + 1
      BY Zenon DEF IInv, HorizonInv
    <3>2. Count(s) + 1 \in Nat
      BY <1>t
    <3>3. n \in Nat /\ to \in Nat /\ oldestXmin[s] \in Nat /\ (n <= oldestXmin[s] \/ n <= to)
      BY Zenon, <1>t, <1>n
    <3>4. Between(oldestXmin[s], to, n)
      BY Zenon, <3>3, AnyBetween
    <3>5. oldestXmin[s] <= n /\ to <= Count(s) + 1
      BY Zenon, <1>b, <1>n
    <3> QED BY Zenon, <3>1, <3>2, <3>3, <3>4, <3>5 DEF Between
  <2>5. \A r \in Segs :
          /\ 1 <= oldestXmin'[r] /\ oldestXmin'[r] <= Count(r) + 1
          /\ \A g \in Gxids : xid[r][g] # NoXid /\ xid[r][g] < oldestXmin'[r] =>
               status[r][g] \in Over /\ (status[r][g] = "committed" => BeforeAll(g))
    BY ZenonT(60), <1>f, <2>3, <2>4 DEF IInv, HorizonInv
  <2>6. \A c \in Backends, r \in Segs : pending'[c][r] # NoXid =>
          /\ qd[c] = "active" /\ pending'[c][r] <= Count(r) + 1
          /\ \A g \in Gxids : xid[r][g] # NoXid /\ xid[r][g] < pending'[c][r] => status[r][g] \in Over
    <3> SUFFICES ASSUME NEW c \in Backends, NEW r \in Segs, pending'[c][r] # NoXid
                 PROVE  /\ qd[c] = "active" /\ pending'[c][r] <= Count(r) + 1
                        /\ \A g \in Gxids : xid[r][g] # NoXid /\ xid[r][g] < pending'[c][r] =>
                             status[r][g] \in Over
      BY Zenon
    <3>1. pending'[c][r] = pending[c][r]
      BY Zenon, <1>f
    <3> QED BY Zenon, <3>1 DEF IInv, HorizonInv
  <2> QED BY Zenon, <1>a, <1>0, <2>1, <2>2, <2>5, <2>6 DEF IInv, HorizonInv
<1> QED BY Zenon, <1>1, <1>2, <1>3, <1>4, <1>5 DEF IInv

\* A transaction goes on to its end.
LEMMA PhaseStep ==
  ASSUME IInv, NEW b \in Backends, NEW p \in Phases \ {"idle", "active"},
         qd' = [qd EXCEPT ![b] = p],
         UNCHANGED <<nextGxid, latestCompletedGxid, gxid, dxmin, ds, cut, committed, xid, status,
                     local, oldestXmin, ignore>>,
         \A c \in Backends, s \in Segs : pending'[c][s] \in {pending[c][s], NoXid},
         \A s \in Segs : pending'[b][s] = NoXid,
         pending' \in [Backends -> [Segs -> Nat]],
         qd[b] \in Committing => p \in Committing,
         p = "ending" /\ gxid[b] # NoGxid =>
           \A s \in Segs : xid[s][gxid[b]] # NoXid => status[s][gxid[b]] = "committed"
  PROVE  IInv'
<1>1. Types'
  BY Zenon DEF IInv, Types
<1>2. GxidInv'
  BY Zenon DEF IInv, Types, GxidInv
<1>0. \A s \in Segs : Count(s)' = Count(s)
  BY Zenon DEF Count, Assigned
<1>3. XidInv'
  BY <1>0 DEF IInv, Types, XidInv, Committing
<1>4. \A c \in Backends : qd'[c] = "active" => qd[c] = "active"
  BY Zenon DEF IInv, Types
<1>5. \A c \in Backends : qd'[c] = "idle" => qd[c] = "idle"
  BY Zenon DEF IInv, Types
<1>6. CutInv'
  BY <1>4 DEF IInv, CutInv, Ended
<1>7. MinInv'
  BY ZenonT(60), <1>4, <1>5 DEF IInv, MinInv, Oldest
<1>8. HorizonInv'
  <2>1. \A g \in Gxids : BeforeAll(g) => BeforeAll(g)'
    BY Zenon, <1>4 DEF BeforeAll, Oldest
  <2>2. \A q \in ignore : q[2] \in Gxids
    BY Zenon DEF IInv, Types
  <2>3. \A c \in Backends, s \in Segs : pending'[c][s] # NoXid =>
          pending'[c][s] = pending[c][s] /\ c # b /\ qd'[c] = qd[c]
    BY Zenon DEF IInv, Types
  <2> QED BY Zenon, <1>0, <2>1, <2>3, HorizonFrame DEF IInv
<1> QED BY Zenon, <1>1, <1>2, <1>3, <1>6, <1>7, <1>8 DEF IInv

\* A transaction goes on on a segment.
LEMMA StatusStep ==
  ASSUME IInv, NEW b \in Backends, NEW s \in Segs, gxid[b] # NoGxid,
         NEW st \in {"running", "prepared", "logged", "committed", "aborted"},
         status' = [status EXCEPT ![s][gxid[b]] = st],
         UNCHANGED <<coordinator, xid, local, pending, oldestXmin, ignore>>,
         status[s][gxid[b]] \in InProcArray, qd[b] # "ending",
         status[s][gxid[b]] = "logged" => st = "committed",
         st \in {"logged", "committed"} => qd[b] \in Committing
  PROVE  IInv'
<1> USE DEF coordinator
<1> DEFINE g == gxid[b]
<1>g. g \in Gxids /\ g \notin committed /\ g # NoGxid /\ status[s][g] # "none"
  BY Zenon DEF IInv, GxidInv, InProcArray, HoldsRow
<1>f. /\ status'[s][g] = st
      /\ \A r \in Segs, h \in Gxids : r # s \/ h # g => status'[r][h] = status[r][h]
  BY Zenon, <1>g DEF IInv, Types
<1>1. Types'
  BY Zenon, <1>g DEF IInv, Types, States
<1>2. GxidInv' /\ MinInv'
  BY ZenonT(60) DEF IInv, GxidInv, MinInv, Oldest
<1>0. \A r \in Segs : Count(r)' = Count(r)
  BY Zenon DEF Count, Assigned
<1> HIDE DEF g
<1>3. XidInv'
  <2> SUFFICES ASSUME NEW r \in Segs
               PROVE  /\ \A h \in Gxids :
                           /\ xid[r][h] = NoXid <=> status'[r][h] = "none"
                           /\ nextGxid <= h => xid[r][h] = NoXid
                           /\ xid[r][h] <= Count(r)
                           /\ status'[r][h] \in {"logged", "committed"} =>
                                h \in committed \/ \E c \in Backends : gxid[c] = h /\ qd[c] \in Committing
                           /\ h \in committed /\ xid[r][h] # NoXid => status'[r][h] = "committed"
                      /\ \A c \in Backends : qd[c] = "ending" /\ gxid[c] # NoGxid /\ xid[r][gxid[c]] # NoXid
                                              => status'[r][gxid[c]] = "committed"
                      /\ \A h, i \in Gxids : xid[r][h] = xid[r][i] /\ xid[r][h] # NoXid => h = i
    BY <1>0 DEF XidInv
  <2>1. ASSUME NEW h \in Gxids
        PROVE  /\ xid[r][h] = NoXid <=> status'[r][h] = "none"
               /\ nextGxid <= h => xid[r][h] = NoXid
               /\ xid[r][h] <= Count(r)
               /\ status'[r][h] \in {"logged", "committed"} =>
                    h \in committed \/ \E c \in Backends : gxid[c] = h /\ qd[c] \in Committing
               /\ h \in committed /\ xid[r][h] # NoXid => status'[r][h] = "committed"
    BY <1>g, <1>f DEF IInv, XidInv, g
  <2>2. ASSUME NEW c \in Backends, qd[c] = "ending", gxid[c] # NoGxid, xid[r][gxid[c]] # NoXid
        PROVE  status'[r][gxid[c]] = "committed"
    BY <1>g, <1>f, <2>2 DEF IInv, XidInv, GxidInv, g
  <2> QED BY Zenon, <2>1, <2>2 DEF IInv, XidInv
<1>4. CutInv'
  BY ZenonT(60) DEF IInv, CutInv, Ended
<1>5. HorizonInv'
  <2>1. \A h \in Gxids : BeforeAll(h)' <=> BeforeAll(h)
    BY Zenon DEF BeforeAll, Oldest
  <2>2. \A q \in ignore : q[1] \in Segs /\ q[2] \in Gxids
    BY Zenon DEF IInv, Types
  <2>3. status[s][g] \notin Over
    BY Zenon DEF g, InProcArray, HoldsRow, Over
  <2>4. \A q \in ignore : status'[q[1]][q[2]] \in {"logged", "committed"} /\ BeforeAll(q[2])'
    <3> SUFFICES ASSUME NEW q \in ignore
                 PROVE  status'[q[1]][q[2]] \in {"logged", "committed"} /\ BeforeAll(q[2])'
      BY Zenon
    <3>1. status[q[1]][q[2]] \in {"logged", "committed"} /\ BeforeAll(q[2])
      BY Zenon DEF IInv, HorizonInv
    <3>2. CASE q[1] = s /\ q[2] = g
      <4>1. status[s][g] = "logged"
        BY Zenon, <2>3, <3>1, <3>2 DEF Over
      <4>2. st = "committed"
        BY Zenon, <4>1 DEF g
      <4> QED BY Zenon, <1>f, <2>1, <2>2, <3>1, <3>2, <4>2
    <3>3. CASE ~(q[1] = s /\ q[2] = g)
      BY Zenon, <1>f, <2>1, <2>2, <3>1, <3>3
    <3> QED BY Zenon, <3>2, <3>3
  <2>5. \A r \in Segs : \A h \in Gxids : xid[r][h] # NoXid /\ xid[r][h] < oldestXmin[r] =>
            status'[r][h] \in Over /\ (status'[r][h] = "committed" => BeforeAll(h)')
    <3> SUFFICES ASSUME NEW r \in Segs, NEW h \in Gxids, xid[r][h] # NoXid /\ xid[r][h] < oldestXmin[r]
                 PROVE  status'[r][h] \in Over /\ (status'[r][h] = "committed" => BeforeAll(h)')
      BY Zenon
    <3>1. status[r][h] \in Over /\ (status[r][h] = "committed" => BeforeAll(h))
      BY Zenon DEF IInv, HorizonInv
    <3>2. ~(r = s /\ h = g)
      BY Zenon, <2>3, <3>1
    <3> QED BY Zenon, <1>f, <2>1, <3>1, <3>2
  <2>6. \A c \in Backends, r \in Segs : pending[c][r] # NoXid =>
          \A h \in Gxids : xid[r][h] # NoXid /\ xid[r][h] < pending[c][r] => status'[r][h] \in Over
    <3> SUFFICES ASSUME NEW c \in Backends, NEW r \in Segs, pending[c][r] # NoXid,
                        NEW h \in Gxids, xid[r][h] # NoXid /\ xid[r][h] < pending[c][r]
                 PROVE  status'[r][h] \in Over
      BY Zenon
    <3>1. status[r][h] \in Over
      BY Zenon DEF IInv, HorizonInv
    <3>2. ~(r = s /\ h = g)
      BY Zenon, <2>3, <3>1
    <3> QED BY Zenon, <1>f, <3>1, <3>2
  <2> QED BY Zenon, <1>0, <2>4, <2>5, <2>6 DEF IInv, HorizonInv
<1> QED BY Zenon, <1>1, <1>2, <1>3, <1>4, <1>5 DEF IInv

\* A transaction gets its gxid.
LEMMA ActivateStep == ASSUME IInv, NEW b \in Backends, currentDtxActivate(b)
                      PROVE  IInv'
<1> USE DEF coordinator, segment, order
<1>a. /\ qd[b] = "active" /\ gxid[b] = NoGxid /\ nextGxid <= MaxGxid
      /\ gxid' = [gxid EXCEPT ![b] = nextGxid] /\ nextGxid' = nextGxid + 1
      /\ UNCHANGED <<latestCompletedGxid, qd, dxmin, ds, cut, committed, segment>>
  BY Zenon DEF currentDtxActivate
<1>g. nextGxid \in Gxids /\ nextGxid # NoGxid /\ nextGxid \in Nat /\ nextGxid \notin committed
  BY <1>a, Constants DEF IInv, Types, GxidInv, Gxids, NoGxid
<1>f. gxid'[b] = nextGxid /\ \A c \in Backends \ {b} : gxid'[c] = gxid[c]
  BY Zenon, <1>a DEF IInv, Types
<1>1. Types'
  BY <1>a, <1>g, Constants DEF IInv, Types
<1>t. \A c \in Backends : gxid[c] \in Nat /\ (gxid[c] # NoGxid => gxid[c] < nextGxid)
  BY Zenon DEF IInv, Types, GxidInv
<1>2. GxidInv'
  <2>1. ASSUME NEW c \in Backends
        PROVE  /\ gxid'[c] # NoGxid => gxid'[c] \in Gxids /\ gxid'[c] < nextGxid' /\ gxid'[c] \notin committed
               /\ qd[c] = "idle" => gxid'[c] = NoGxid
    <3>1. CASE c = b
      <4>1. nextGxid < nextGxid'
        BY <1>a, <1>g
      <4> QED BY Zenon, <1>a, <1>g, <1>f, <3>1, <4>1
    <3>2. CASE c # b
      <4>1. /\ gxid[c] # NoGxid => gxid[c] \in Gxids /\ gxid[c] \notin committed
            /\ qd[c] = "idle" => gxid[c] = NoGxid
        BY Zenon DEF IInv, GxidInv
      <4>2. gxid[c] # NoGxid => gxid[c] < nextGxid'
        BY <1>a, <1>g, <1>t
      <4> QED BY Zenon, <1>f, <3>2, <4>1, <4>2
    <3> QED BY Zenon, <3>1, <3>2
  <2>2. \A c, e \in Backends : gxid'[c] = gxid'[e] /\ gxid'[c] # NoGxid => c = e
    BY <1>g, <1>f, <1>t DEF IInv, GxidInv
  <2> QED BY ZenonT(60), <1>a, <2>1, <2>2 DEF IInv, GxidInv
<1>0. \A s \in Segs : Count(s)' = Count(s)
  BY Zenon, <1>a DEF Count, Assigned
<1>3. XidInv'
  <2>1. \A g \in Gxids : nextGxid' <= g => nextGxid <= g
    BY <1>a, <1>g, Constants
  <2>2. \A c \in Backends : qd[c] \in Committing \/ qd[c] = "ending" => gxid'[c] = gxid[c]
    BY Zenon, <1>a, <1>f DEF Committing
  <2> QED BY Zenon, <1>a, <1>0, <2>1, <2>2, XidFrame DEF IInv
<1>o. \A n \in Nat : Oldest(n) => Oldest(n)'
  BY <1>a, <1>f, <1>g, OldestStays DEF IInv, Types
<1>4. CutInv'
  <2> SUFFICES ASSUME NEW c \in Backends, qd[c] = "active"
               PROVE  \A g \in Gxids :
                        g < ds[c].xmax /\ g \notin ds[c].inProgress /\ g # gxid'[c] =>
                          g \in cut[c] \/ (g \notin committed /\ Ended(g)')
    BY ZenonT(60), <1>a DEF IInv, CutInv
  <2> SUFFICES ASSUME NEW g \in Gxids, g < ds[c].xmax, g \notin ds[c].inProgress, g # gxid'[c]
               PROVE  g \in cut[c] \/ (g \notin committed /\ Ended(g)')
    BY Zenon
  <2>1. g # gxid[c]
    BY Zenon, <1>a, <1>f, Constants
  <2>2. g \in cut[c] \/ (g \notin committed /\ Ended(g))
    BY Zenon, <2>1 DEF IInv, CutInv
  <2>3. g # nextGxid
    <3>1. ds[c].xmax <= latestCompletedGxid + 1 /\ latestCompletedGxid < nextGxid
      BY Zenon DEF IInv, CutInv, Types
    <3>2. g \in Nat /\ ds[c].xmax \in Nat /\ latestCompletedGxid \in Nat
      BY Zenon, Constants DEF IInv, Types
    <3> QED BY <1>g, <3>1, <3>2
  <2> QED BY Zenon, <1>f, <2>2, <2>3 DEF Ended
<1>5. MinInv'
  <2>1. \A c \in Backends : dxmin[c] \in Nat /\ ds[c].xminAll \in Nat
    BY Zenon DEF IInv, Types
  <2>2. \A c \in Backends : qd[c] = "active" => Oldest(dxmin[c])' /\ Oldest(ds[c].xminAll)'
    <3> SUFFICES ASSUME NEW c \in Backends, qd[c] = "active"
                 PROVE  Oldest(dxmin[c])' /\ Oldest(ds[c].xminAll)'
      BY Zenon
    <3>1. Oldest(dxmin[c]) /\ Oldest(ds[c].xminAll)
      BY Zenon DEF IInv, MinInv
    <3>2. dxmin'[c] = dxmin[c] /\ ds'[c].xminAll = ds[c].xminAll
      BY Zenon, <1>a
    <3> QED BY Zenon, <1>o, <2>1, <3>1, <3>2 DEF Oldest
  <2> QED BY Zenon, <1>a, <2>2 DEF IInv, MinInv
<1>6. HorizonInv'
  <2>1. ASSUME NEW g \in Gxids, BeforeAll(g) PROVE BeforeAll(g)'
    <3>1. g + 1 \in Nat
      BY Constants
    <3>2. Oldest(g + 1)'
      BY Zenon, <1>o, <2>1, <3>1 DEF BeforeAll
    <3> QED BY Zenon, <1>a, <2>1, <3>2 DEF BeforeAll
  <2>2. \A q \in ignore : q[1] \in Segs /\ q[2] \in Gxids
    BY Zenon DEF IInv, Types
  <2> QED BY Zenon, <1>a, <1>0, <2>1, <2>2 DEF IInv, HorizonInv
<1> QED BY Zenon, <1>1, <1>2, <1>3, <1>4, <1>5, <1>6 DEF IInv

\* A transaction ends on the coordinator.
LEMMA EndStep ==
  ASSUME IInv, NEW b \in Backends, ProcArrayEndGxact(b), status' = status,
         \/ qd[b] = "ending" /\ committed' = committed \cup ({gxid[b]} \ {NoGxid})
         \/ qd[b] = "aborting" /\ committed' = committed
  PROVE  IInv'
<1> DEFINE m == Max({latestCompletedGxid, gxid[b]})
<1>a. /\ latestCompletedGxid' = m
      /\ gxid' = [gxid EXCEPT ![b] = NoGxid] /\ dxmin' = [dxmin EXCEPT ![b] = NoGxid]
      /\ qd' = [qd EXCEPT ![b] = "idle"] /\ ds' = [ds EXCEPT ![b] = NoDistributed]
      /\ cut' = [cut EXCEPT ![b] = {}]
      /\ local' = [local EXCEPT ![b] = [s \in Segs |-> NoSnapshot]]
      /\ UNCHANGED <<nextGxid, xid, pending, oldestXmin, ignore, status>>
  BY Zenon DEF ProcArrayEndGxact
<1>t. latestCompletedGxid \in Nat /\ gxid[b] \in Nat /\ nextGxid \in Nat
      /\ latestCompletedGxid < nextGxid /\ gxid[b] < nextGxid
  <2>1. gxid[b] = NoGxid \/ gxid[b] < nextGxid
    BY Zenon DEF IInv, GxidInv
  <2> QED BY <2>1, Constants DEF IInv, Types, NoGxid
<1>m. m \in Nat /\ latestCompletedGxid <= m /\ gxid[b] <= m /\ m < nextGxid
  <2>1. m \in {latestCompletedGxid, gxid[b]} /\ latestCompletedGxid <= m /\ gxid[b] <= m
    BY Zenon, <1>t, GreaterOf
  <2> HIDE DEF m
  <2> QED BY Zenon, <1>t, <2>1
<1> HIDE DEF m
<1>f. /\ gxid'[b] = NoGxid /\ dxmin'[b] = NoGxid /\ qd'[b] = "idle" /\ cut'[b] = {}
      /\ \A c \in Backends \ {b} : /\ gxid'[c] = gxid[c] /\ dxmin'[c] = dxmin[c] /\ qd'[c] = qd[c]
                                   /\ ds'[c] = ds[c] /\ cut'[c] = cut[c] /\ local'[c] = local[c]
  BY Zenon, <1>a DEF IInv, Types
<1>k. committed \subseteq committed' /\ committed' \subseteq committed \cup ({gxid[b]} \ {NoGxid})
  BY Zenon
<1>g. gxid[b] # NoGxid => gxid[b] \in Gxids
  BY Zenon DEF IInv, GxidInv
<1>1. Types'
  <2>1. NoSnapshot \in [xmin : Nat, xmax : Nat, xip : SUBSET Nat]
        /\ NoDistributed \in [xminAll : Nat, xmin : Nat, xmax : Nat, inProgress : SUBSET Nat]
    BY Zenon DEF NoSnapshot, NoDistributed
  <2>2. /\ qd' \in [Backends -> Phases]
        /\ local' \in [Backends -> [Segs -> [xmin : Nat, xmax : Nat, xip : SUBSET Nat]]]
        /\ ds' \in [Backends -> [xminAll : Nat, xmin : Nat, xmax : Nat, inProgress : SUBSET Nat]]
    BY Zenon, <1>a, <2>1 DEF IInv, Types, Phases
  <2>3. gxid' \in [Backends -> Nat] /\ dxmin' \in [Backends -> Nat]
    BY Zenon, <1>a DEF IInv, Types, NoGxid
  <2>4. cut' \in [Backends -> SUBSET Gxids] /\ committed' \in SUBSET Gxids
    BY Zenon, <1>a, <1>k, <1>g DEF IInv, Types
  <2>5. latestCompletedGxid' \in Nat /\ latestCompletedGxid' < nextGxid'
    BY Zenon, <1>a, <1>m
  <2> QED BY Zenon, <1>a, <2>2, <2>3, <2>4, <2>5 DEF IInv, Types
<1>2. GxidInv'
  <2>1. ASSUME NEW c \in Backends
        PROVE  /\ gxid'[c] # NoGxid => gxid'[c] \in Gxids /\ gxid'[c] < nextGxid' /\ gxid'[c] \notin committed'
               /\ qd'[c] = "idle" => gxid'[c] = NoGxid
               /\ cut'[c] \subseteq committed'
    <3>1. CASE c = b
      BY Zenon, <1>f, <3>1
    <3>2. CASE c # b
      <4>1. gxid[c] # NoGxid => /\ gxid[c] \in Gxids /\ gxid[c] < nextGxid
                                /\ gxid[c] \notin committed /\ gxid[c] # gxid[b]
        BY Zenon, <3>2 DEF IInv, GxidInv
      <4>2. (qd[c] = "idle" => gxid[c] = NoGxid) /\ cut[c] \subseteq committed
        BY Zenon DEF IInv, GxidInv
      <4> QED BY Zenon, <1>a, <1>f, <1>k, <3>2, <4>1, <4>2
    <3> QED BY Zenon, <3>1, <3>2
  <2>2. \A c, e \in Backends : gxid'[c] = gxid'[e] /\ gxid'[c] # NoGxid => c = e
    BY <1>f DEF IInv, GxidInv
  <2>3. \A g \in committed' : g <= latestCompletedGxid'
    <3>1. \A g \in committed : g \in Nat /\ g <= latestCompletedGxid
      BY Zenon, Constants DEF IInv, GxidInv, Types
    <3> QED BY <1>a, <1>k, <1>m, <1>t, <3>1
  <2> QED BY Zenon, <2>1, <2>2, <2>3 DEF GxidInv
<1>0. \A s \in Segs : Count(s)' = Count(s)
  BY ZenonT(60), <1>a DEF Count, Assigned
<1>3. XidInv'
  <2>0. UNCHANGED <<xid, status, nextGxid>>
    BY Zenon, <1>a
  <2>1. ASSUME NEW s \in Segs, NEW g \in Gxids, status[s][g] \in {"logged", "committed"}
        PROVE  g \in committed' \/ \E c \in Backends : gxid'[c] = g /\ qd'[c] \in Committing
    <3>1. CASE g \in committed
      BY Zenon, <1>k, <3>1
    <3>2. ASSUME NEW c \in Backends, gxid[c] = g, qd[c] \in Committing
          PROVE  g \in committed' \/ \E e \in Backends : gxid'[e] = g /\ qd'[e] \in Committing
      <4>1. CASE c = b
        BY Zenon, <3>2, <4>1, Constants DEF Committing
      <4>2. CASE c # b
        BY Zenon, <1>f, <3>2, <4>2
      <4> QED BY Zenon, <4>1, <4>2
    <3> QED BY Zenon, <2>1, <3>1, <3>2 DEF IInv, XidInv
  <2>2. ASSUME NEW s \in Segs, NEW g \in Gxids, g \in committed', xid[s][g] # NoXid
        PROVE  status[s][g] = "committed"
    <3>1. CASE g \in committed
      BY Zenon, <2>2, <3>1, XidFacts DEF IInv
    <3>2. CASE g \notin committed
      <4>1. qd[b] = "ending" /\ g = gxid[b] /\ gxid[b] # NoGxid
        BY Zenon, <2>2, <3>2
      <4> QED BY Zenon, <2>2, <4>1, EndingFacts DEF IInv
    <3> QED BY Zenon, <3>1, <3>2
  <2>3. ASSUME NEW s \in Segs, NEW c \in Backends, qd'[c] = "ending", gxid'[c] # NoGxid,
               xid[s][gxid'[c]] # NoXid
        PROVE  status[s][gxid'[c]] = "committed"
    <3>1. qd[c] = "ending" /\ gxid'[c] = gxid[c]
      BY Zenon, <1>f, <2>3
    <3> QED BY Zenon, <2>3, <3>1, EndingFacts DEF IInv
  <2>4. \A s \in Segs : \A g, h \in Gxids : xid[s][g] = xid[s][h] /\ xid[s][g] # NoXid => g = h
    BY Zenon DEF IInv, XidInv
  <2>5. \A s \in Segs, g \in Gxids :
          /\ (xid[s][g] = NoXid <=> status[s][g] = "none")
          /\ (nextGxid <= g => xid[s][g] = NoXid) /\ xid[s][g] <= Count(s)
    BY Zenon, XidFacts DEF IInv
  <2>6. \A s \in Segs, g \in Gxids :
          /\ (xid[s][g] = NoXid <=> status[s][g] = "none")'
          /\ (nextGxid <= g => xid[s][g] = NoXid)' /\ (xid[s][g] <= Count(s))'
    BY ZenonT(60), <1>0, <2>0, <2>5
  <2>7. \A s \in Segs, g \in Gxids :
          /\ (status[s][g] \in {"logged", "committed"})' =>
                g \in committed' \/ \E c \in Backends : (gxid[c] = g /\ qd[c] \in Committing)'
          /\ (g \in committed /\ xid[s][g] # NoXid)' => (status[s][g] = "committed")'
    <3>1. \A s \in Segs, g \in Gxids : (status[s][g] \in {"logged", "committed"})' =>
            g \in committed' \/ \E c \in Backends : (gxid[c] = g /\ qd[c] \in Committing)'
      BY Zenon, <2>0, <2>1
    <3>2. \A s \in Segs, g \in Gxids :
            (g \in committed /\ xid[s][g] # NoXid)' => (status[s][g] = "committed")'
      BY Zenon, <2>0, <2>2
    <3> QED BY Zenon, <3>1, <3>2
  <2>8. \A s \in Segs, c \in Backends : (qd[c] = "ending" /\ gxid[c] # NoGxid /\ xid[s][gxid[c]] # NoXid)'
                                        => (status[s][gxid[c]] = "committed")'
    BY Zenon, <2>0, <2>3
  <2>9. \A s \in Segs : (\A g, h \in Gxids : xid[s][g] = xid[s][h] /\ xid[s][g] # NoXid => g = h)'
    BY Zenon, <2>0, <2>4
  <2> QED BY <2>6, <2>7, <2>8, <2>9 DEF XidInv
<1>o. \A n \in Nat : Oldest(n) => Oldest(n)'
  BY Zenon, <1>a, <1>f, <1>m, OldestStays DEF IInv
<1>4. CutInv'
  <2> SUFFICES ASSUME NEW c \in Backends \ {b}, qd[c] = "active"
               PROVE  /\ ds[c].xmax <= latestCompletedGxid' + 1
                      /\ \A g \in Gxids : g < ds[c].xmax /\ g \notin ds[c].inProgress /\ g # gxid[c] =>
                           g \in cut[c] \/ (g \notin committed' /\ Ended(g)')
    <3>1. \A c \in Backends : qd'[c] = "active" => c \in Backends \ {b} /\ qd[c] = "active"
      BY Zenon, <1>f
    <3> QED BY ZenonT(60), <1>a, <1>f, <3>1 DEF IInv, CutInv
  <2>1. ds[c].xmax <= latestCompletedGxid' + 1
    <3>1. ds[c].xmax \in Nat /\ ds[c].xmax <= latestCompletedGxid + 1
      BY Zenon DEF IInv, CutInv, Types
    <3> QED BY <1>a, <1>m, <1>t, <3>1
  <2>2. ASSUME NEW g \in Gxids, g < ds[c].xmax, g \notin ds[c].inProgress, g # gxid[c],
               g \notin cut[c]
        PROVE  g \notin committed' /\ Ended(g)'
    <3>1. g \notin committed /\ Ended(g)
      BY Zenon, <2>2 DEF IInv, CutInv
    <3>2. \A e \in Backends : gxid'[e] # g
      BY ZenonT(60), <1>f, <3>1, Constants DEF Ended
    <3> QED BY Zenon, <1>k, <3>1, <3>2 DEF Ended
  <2> QED BY ZenonT(60), <2>1, <2>2
<1>5. MinInv'
  <2>1. \A c \in Backends : dxmin[c] \in Nat /\ ds[c].xminAll \in Nat
    BY Zenon DEF IInv, Types
  <2>2. ASSUME NEW c \in Backends \ {b}, qd[c] = "active"
        PROVE  Oldest(dxmin[c])' /\ Oldest(ds[c].xminAll)'
    <3>1. Oldest(dxmin[c]) /\ Oldest(ds[c].xminAll)
      BY Zenon, <2>2 DEF IInv, MinInv
    <3>2. dxmin'[c] = dxmin[c] /\ ds'[c].xminAll = ds[c].xminAll
      BY Zenon, <1>f
    <3> QED BY Zenon, <1>o, <2>1, <3>1, <3>2 DEF Oldest
  <2> QED BY ZenonT(60), <1>f, <2>2 DEF IInv, MinInv
<1>6. HorizonInv'
  <2>1. ASSUME NEW g \in Gxids, BeforeAll(g) PROVE BeforeAll(g)'
    <3>1. g + 1 \in Nat
      BY Constants
    <3>2. Oldest(g + 1)'
      BY Zenon, <1>o, <2>1, <3>1 DEF BeforeAll
    <3> QED BY Zenon, <1>f, <2>1, <3>2 DEF BeforeAll
  <2>2. \A q \in ignore : q[1] \in Segs /\ q[2] \in Gxids
    BY Zenon DEF IInv, Types
  <2>3. \A c \in Backends, s \in Segs : pending[c][s] # NoXid => c # b /\ qd'[c] = "active"
    BY ZenonT(60), <1>f DEF IInv, HorizonInv
  <2> QED BY ZenonT(60), <1>a, <1>0, <2>1, <2>2, <2>3 DEF IInv, HorizonInv
<1> QED BY Zenon, <1>1, <1>2, <1>3, <1>4, <1>5, <1>6 DEF IInv

\* A row is marked.
LEMMA IgnoreStep ==
  ASSUME IInv, NEW b \in Backends, NEW s \in Segs, NEW g \in Gxids,
         SetDistributedSnapshotIgnore(b, s, g)
  PROVE  IInv'
<1> USE DEF coordinator, order
<1>a. /\ qd[b] = "active" /\ xid[s][g] # NoXid
      /\ CommittedTest(b, s, xid[s][g]) = "ignore"
      /\ ignore' = ignore \cup {<<s, g>>}
      /\ UNCHANGED <<coordinator, xid, status, local, pending, oldestXmin>>
  BY Zenon DEF SetDistributedSnapshotIgnore
<1>b. distribXid(s, xid[s][g]) # NoGxid /\ distribXid(s, xid[s][g]) < ds[b].xminAll
  BY Zenon, <1>a DEF CommittedTest
<1>c. status[s][g] \in {"logged", "committed"} /\ BeforeAll(g)
  <2>1. status[s][g] \in {"logged", "committed"} /\ distribXid(s, xid[s][g]) = g
    BY Zenon, <1>a, <1>b, Logged DEF IInv
  <2> QED BY Zenon, <1>a, <1>b, <2>1, Forgotten
<1>1. Types'
  BY <1>a DEF IInv, Types
<1>2. GxidInv' /\ MinInv'
  BY ZenonT(60), <1>a DEF IInv, GxidInv, MinInv, Oldest
<1>0. \A r \in Segs : Count(r)' = Count(r)
  BY Zenon, <1>a DEF Count, Assigned
<1>3. XidInv'
  BY Zenon, <1>a, <1>0, XidFrame DEF IInv
<1>4. CutInv'
  BY ZenonT(60), <1>a DEF IInv, CutInv, Ended
<1>5. HorizonInv'
  <2>1. \A h \in Gxids : BeforeAll(h)' <=> BeforeAll(h)
    BY Zenon, <1>a DEF BeforeAll, Oldest
  <2>2. \A q \in ignore : q[1] \in Segs /\ q[2] \in Gxids
    BY Zenon DEF IInv, Types
  <2>3. \A q \in ignore : status[q[1]][q[2]] \in {"logged", "committed"} /\ BeforeAll(q[2])
    BY Zenon DEF IInv, HorizonInv
  <2>4. \A q \in ignore' : status'[q[1]][q[2]] \in {"logged", "committed"} /\ BeforeAll(q[2])'
    <3> SUFFICES ASSUME NEW q \in ignore'
                 PROVE  status'[q[1]][q[2]] \in {"logged", "committed"} /\ BeforeAll(q[2])'
      BY Zenon
    <3>1. CASE q \in ignore
      BY Zenon, <1>a, <2>1, <2>2, <2>3, <3>1
    <3>2. CASE q = <<s, g>>
      BY Zenon, <1>a, <1>c, <2>1, <3>2
    <3> QED BY Zenon, <1>a, <3>1, <3>2
  <2> QED BY Zenon, <1>a, <1>0, <2>1, <2>4 DEF IInv, HorizonInv
<1> QED BY Zenon, <1>1, <1>2, <1>3, <1>4, <1>5 DEF IInv

\* What only concerns the writers that meet changes nothing here.
LEMMA Stutter == ASSUME IInv, UNCHANGED <<coordinator, segment>> PROVE IInv'
<1> USE DEF coordinator, segment
<1>0. \A s \in Segs : Count(s)' = Count(s)
  BY Zenon DEF Count, Assigned
<1>1. \A n \in Nat : Oldest(n)' <=> Oldest(n)
  BY Zenon DEF Oldest
<1>2. Types' /\ GxidInv' /\ CutInv' /\ MinInv'
  <2>1. Types'
    BY Zenon DEF IInv, Types
  <2>2. GxidInv'
    BY Zenon DEF IInv, GxidInv
  <2>3. CutInv'
    BY ZenonT(60) DEF IInv, CutInv, Ended
  <2>4. MinInv'
    BY Zenon DEF IInv, MinInv, Oldest
  <2> QED BY Zenon, <2>1, <2>2, <2>3, <2>4
<1>3. XidInv'
  BY Zenon, <1>0, XidFrame DEF IInv
<1>4. HorizonInv'
  <2>1. \A g \in Gxids : BeforeAll(g)' <=> BeforeAll(g)
    BY Zenon DEF BeforeAll, Oldest
  <2>2. \A q \in ignore : q[1] \in Segs /\ q[2] \in Gxids
    BY Zenon DEF IInv, Types
  <2> QED BY Zenon, <1>0, <2>1, <2>2 DEF IInv, HorizonInv
<1> QED BY Zenon, <1>2, <1>3, <1>4 DEF IInv

\* The steps towards the end of a transaction: at rest, nothing is pending, and
\* outside of a statement nothing ever is.
LEMMA PhaseSteps ==
  ASSUME IInv, NEW b \in Backends,
         \/ PrepareTransaction(b) \/ RecordTransactionCommit(b) \/ GxactLockTableWait(b)
         \/ RollbackDtxTransaction(b)
  PROVE  IInv'
<1> USE DEF segment
<1>1. /\ pending \in [Backends -> [Segs -> Nat]]
      /\ \A c \in Backends, s \in Segs : pending[c][s] # NoXid => qd[c] = "active"
  BY Zenon DEF IInv, Types, HorizonInv
<1>2. CASE PrepareTransaction(b)
  <2> DEFINE p == IF Participants(b) = {} THEN "ending"
                  ELSE IF Cardinality(Participants(b)) = 1 THEN "onephase" ELSE "preparing"
  <2>1. /\ qd[b] = "active" /\ qd' = [qd EXCEPT ![b] = p]
        /\ UNCHANGED <<nextGxid, latestCompletedGxid, gxid, dxmin, ds, cut, committed, segment>>
        /\ \A s \in Segs : pending[b][s] = NoXid
    BY Zenon, <1>2 DEF PrepareTransaction, AtRest
  <2>2. p \in {"ending", "onephase", "preparing"} /\ (p = "ending" => Participants(b) = {})
    BY Zenon
  <2> HIDE DEF p
  <2>3. p \in Phases \ {"idle", "active"}
    BY Zenon, <2>2 DEF Phases
  <2>4. p = "ending" /\ gxid[b] # NoGxid =>
           \A s \in Segs : xid[s][gxid[b]] # NoXid => status[s][gxid[b]] = "committed"
    BY Zenon, <2>2 DEF Participants
  <2>5. qd[b] \notin Committing
    BY Zenon, <2>1 DEF Committing
  <2> QED BY Zenon, <1>1, <2>1, <2>3, <2>4, <2>5, PhaseStep
<1>3. CASE RecordTransactionCommit(b)
  <2>1. /\ qd[b] = "preparing" /\ qd' = [qd EXCEPT ![b] = "notifying"]
        /\ UNCHANGED <<nextGxid, latestCompletedGxid, gxid, dxmin, ds, cut, committed, segment>>
    BY Zenon, <1>3 DEF RecordTransactionCommit
  <2>2. "notifying" \in Phases \ {"idle", "active"} /\ qd[b] \notin Committing
    BY Zenon, <2>1 DEF Phases, Committing
  <2> QED BY Zenon, <1>1, <2>1, <2>2, PhaseStep
<1>4. CASE GxactLockTableWait(b)
  <2>1. /\ qd[b] \in {"onephase", "notifying"} /\ qd' = [qd EXCEPT ![b] = "ending"]
        /\ \A s \in Participants(b) : status[s][gxid[b]] = "committed"
        /\ UNCHANGED <<nextGxid, latestCompletedGxid, gxid, dxmin, ds, cut, committed, segment>>
    BY Zenon, <1>4 DEF GxactLockTableWait
  <2>2. "ending" \in Phases \ {"idle", "active"} /\ "ending" \in Committing
    BY Zenon DEF Phases, Committing
  <2>3. gxid[b] # NoGxid =>
           \A s \in Segs : xid[s][gxid[b]] # NoXid => status[s][gxid[b]] = "committed"
    BY Zenon, <2>1 DEF Participants
  <2> QED BY Zenon, <1>1, <2>1, <2>2, <2>3, PhaseStep
<1>5. CASE RollbackDtxTransaction(b)
  <2>1. /\ qd[b] \in {"active", "preparing"} /\ qd' = [qd EXCEPT ![b] = "aborting"]
        /\ pending' = [pending EXCEPT ![b] = [s \in Segs |-> NoXid]]
        /\ UNCHANGED <<nextGxid, latestCompletedGxid, gxid, dxmin, ds, cut, committed, xid, status,
                       local, oldestXmin, ignore>>
    BY Zenon, <1>5 DEF RollbackDtxTransaction
  <2>2. "aborting" \in Phases \ {"idle", "active"} /\ qd[b] \notin Committing
    BY Zenon, <2>1 DEF Phases, Committing
  <2>3. /\ \A c \in Backends, s \in Segs : pending'[c][s] \in {pending[c][s], NoXid}
        /\ \A s \in Segs : pending'[b][s] = NoXid
        /\ pending' \in [Backends -> [Segs -> Nat]]
    BY Zenon, <1>1, <2>1 DEF NoXid
  <2> QED BY Zenon, <2>1, <2>2, <2>3, PhaseStep
<1> QED BY Zenon, <1>2, <1>3, <1>4, <1>5

\* The steps of a transaction on a segment.
LEMMA StatusSteps ==
  ASSUME IInv, NEW b \in Backends, NEW s \in Segs,
         \/ heap_update(b, s) \/ PerformPrepare(b, s) \/ SetCommittedTree(b, s)
         \/ SegmentEndsTransaction(b, s) \/ PerformAbort(b, s)
  PROVE  IInv'
<1> USE DEF coordinator, InProcArray, HoldsRow, Committing
<1>1. CASE heap_update(b, s)
  <2>1. /\ qd[b] = "active" /\ gxid[b] # NoGxid /\ status[s][gxid[b]] = "assigned"
        /\ status' = [status EXCEPT ![s][gxid[b]] = "running"]
        /\ UNCHANGED <<coordinator, xid, local, pending, oldestXmin, ignore>>
    BY Zenon, <1>1 DEF heap_update
  <2> QED BY Zenon, <2>1, StatusStep
<1>2. CASE PerformPrepare(b, s)
  <2>1. /\ qd[b] = "preparing" /\ gxid[b] # NoGxid /\ status[s][gxid[b]] = "running"
        /\ status' = [status EXCEPT ![s][gxid[b]] = "prepared"]
        /\ UNCHANGED <<coordinator, xid, local, pending, oldestXmin, ignore>>
    BY Zenon, <1>2 DEF PerformPrepare, Participants
  <2> QED BY Zenon, <2>1, StatusStep
<1>3. CASE SetCommittedTree(b, s)
  <2>1. /\ qd[b] \in {"onephase", "notifying"} /\ gxid[b] # NoGxid
        /\ status[s][gxid[b]] \in {"running", "prepared"}
        /\ status' = [status EXCEPT ![s][gxid[b]] = "logged"]
        /\ UNCHANGED <<coordinator, xid, local, pending, oldestXmin, ignore>>
    BY Zenon, <1>3 DEF SetCommittedTree, Participants
  <2> QED BY Zenon, <2>1, StatusStep
<1>4. CASE SegmentEndsTransaction(b, s)
  <2>1. /\ gxid[b] # NoGxid /\ status[s][gxid[b]] = "logged" /\ xid[s][gxid[b]] # NoXid
        /\ status' = [status EXCEPT ![s][gxid[b]] = "committed"]
        /\ UNCHANGED <<coordinator, xid, local, pending, oldestXmin, ignore>>
    BY Zenon, <1>4 DEF SegmentEndsTransaction, Participants
  <2>2. gxid[b] \in Gxids /\ gxid[b] \notin committed
    BY Zenon, <2>1 DEF IInv, GxidInv
  <2>3. PICK c \in Backends : gxid[c] = gxid[b] /\ qd[c] \in Committing
    BY ZenonT(60), <2>1, <2>2 DEF IInv, XidInv
  <2>4. c = b
    BY Zenon, <2>1, <2>3 DEF IInv, GxidInv
  <2>5. qd[b] \in Committing /\ qd[b] # "ending"
    BY Zenon, <2>1, <2>2, <2>3, <2>4 DEF IInv, XidInv
  <2> QED BY Zenon, <2>1, <2>5, StatusStep
<1>5. CASE PerformAbort(b, s)
  <2>1. /\ qd[b] = "aborting" /\ gxid[b] # NoGxid /\ status[s][gxid[b]] \in InProcArray
        /\ status' = [status EXCEPT ![s][gxid[b]] = "aborted"]
        /\ UNCHANGED <<coordinator, xid, local, pending, oldestXmin, ignore>>
    BY Zenon, <1>5 DEF PerformAbort, Participants
  <2>2. gxid[b] \in Gxids /\ gxid[b] \notin committed
    BY Zenon, <2>1 DEF IInv, GxidInv
  <2>3. status[s][gxid[b]] # "logged"
    BY <2>1, <2>2 DEF IInv, GxidInv, XidInv
  <2> QED BY Zenon, <2>1, <2>3, StatusStep
<1> QED BY Zenon, <1>1, <1>2, <1>3, <1>4, <1>5

-----------------------------------------------------------------------------
\* What is read.

\* A commit that a segment has logged and a snapshot does not exclude was in its cut.
LEMMA InCut ==
  ASSUME IInv, NEW b \in Backends, qd[b] = "active", NEW s \in Segs, NEW g \in Gxids, g # gxid[b],
         status[s][g] \in {"logged", "committed"}, g < ds[b].xmax, g \notin ds[b].inProgress
  PROVE  g \in cut[b]
<1>1. g \in committed \/ ~Ended(g)
  BY Zenon DEF IInv, XidInv, Ended
<1> QED BY Zenon, <1>1 DEF IInv, CutInv

\* So was one that is older than every transaction it was taken during.
LEMMA Earlier ==
  ASSUME IInv, NEW b \in Backends, qd[b] = "active", NEW s \in Segs, NEW g \in Gxids, g # gxid[b],
         status[s][g] \in {"logged", "committed"}, g < ds[b].xmin
  PROVE  g \in cut[b]
<1>1. /\ ds[b].xmin \in Nat /\ ds[b].xmax \in Nat /\ g \in Nat
      /\ ds[b].inProgress \subseteq Nat
  BY Zenon, Constants DEF IInv, Types
<1>2. ds[b].xmin <= ds[b].xmax /\ \A h \in ds[b].inProgress : ds[b].xmin <= h
  BY Zenon DEF IInv, CutInv
<1>3. g < ds[b].xmax /\ g \notin ds[b].inProgress
  BY <1>1, <1>2
<1> QED BY Zenon, <1>3, InCut

\* The forgotten part of the log has nothing a snapshot would have to look up.
LEMMA Safe == IInv => HorizonIsSafe
<1> SUFFICES ASSUME IInv, NEW b \in Backends, NEW s \in Segs, NEW g \in Gxids,
                    qd[b] = "active", g # gxid[b],
                    xid[s][g] # NoXid, xid[s][g] < oldestXmin[s],
                    status[s][g] \in {"logged", "committed"}
             PROVE  g \in cut[b]
  BY Zenon DEF HorizonIsSafe
<1>1. g < ds[b].xmin
  BY Zenon DEF IInv, HorizonInv, BeforeAll, Over
<1> QED BY Zenon, <1>1, Earlier

\* The four ways XidInMVCCSnapshot decides agree with the cut.
LEMMA Reads == IInv => ReadsTheCut
<1> SUFFICES ASSUME IInv, NEW b \in Backends, NEW s \in Segs, NEW g \in Gxids,
                    qd[b] = "active", local[b][s] # NoSnapshot, xid[s][g] # NoXid, g # gxid[b]
             PROVE  Sees(b, s, g) <=> g \in cut[b]
  BY ZenonT(60) DEF ReadsTheCut
<1> DEFINE x == xid[s][g]
           d == distribXid(s, x)
           test == CommittedTest(b, s, x)
<1>1. d = IF status[s][g] \in {"logged", "committed"} THEN g ELSE NoGxid
  BY Zenon, Logged DEF IInv
<1>2. g # NoGxid /\ ds[b].xminAll <= ds[b].xmin
      /\ g \in Nat /\ ds[b].xminAll \in Nat /\ ds[b].xmin \in Nat /\ ds[b].xmax \in Nat
      /\ x \in Nat /\ local[b][s].xmax \in Nat
  BY Constants DEF IInv, CutInv, Types
<1>3. test = IF x < oldestXmin[s] \/ d = NoGxid THEN "unknown"
             ELSE IF d < ds[b].xminAll THEN "ignore"
             ELSE IF d < ds[b].xmin THEN "visible"
             ELSE IF d >= ds[b].xmax \/ d \in ds[b].inProgress THEN "inprogress"
             ELSE "visible"
  BY Zenon DEF CommittedTest
<1> DEFINE t == IF <<s, g>> \in ignore THEN "unknown" ELSE test
           out == XidInMVCCSnapshot(b, s, g)
<1>4. out = IF x >= local[b][s].xmax \/ t = "inprogress" THEN "in"
            ELSE IF t = "visible" THEN "committed"
            ELSE IF x >= local[b][s].xmax \/ x \in local[b][s].xip THEN "in" ELSE "out"
  BY Zenon DEF XidInMVCCSnapshot, XidInMVCCSnapshot_Local
<1> HIDE DEF d, test, out
<1>5. ASSUME Sees(b, s, g) PROVE g \in cut[b]
  <2>1. CASE out = "committed"
    <3>1. test = "visible"
      BY Zenon, <1>4, <2>1
    <3>2. status[s][g] \in {"logged", "committed"} /\ d = g
      BY ZenonT(60), <1>1, <1>3, <3>1
    <3>3. g < ds[b].xmin \/ (g < ds[b].xmax /\ g \notin ds[b].inProgress)
      <4>1. g >= ds[b].xmax \/ g < ds[b].xmax
        BY <1>2
      <4> QED BY Zenon, <1>3, <3>1, <3>2, <4>1
    <3> QED BY Zenon, <3>2, <3>3, Earlier, InCut
  <2>2. CASE out = "out" /\ status[s][g] \in {"logged", "committed"}
    <3>1. t \in {"unknown", "ignore"}
      BY Zenon, <1>3, <1>4, <2>2
    <3>2. CASE <<s, g>> \in ignore
      <4>1. g < ds[b].xmin
        BY Zenon, <3>2 DEF IInv, HorizonInv, BeforeAll
      <4> QED BY Zenon, <2>2, <4>1, Earlier
    <3>3. CASE <<s, g>> \notin ignore
      <4>1. x < oldestXmin[s] \/ g < ds[b].xminAll
        BY Zenon, <1>1, <1>2, <1>3, <2>2, <3>1, <3>3
      <4>2. CASE x < oldestXmin[s]
        BY Zenon, <2>2, <4>2, Safe DEF HorizonIsSafe
      <4>3. CASE g < ds[b].xminAll
        <5>1. g < ds[b].xmin
          BY <1>2, <4>3
        <5> QED BY Zenon, <2>2, <5>1, Earlier
      <4> QED BY Zenon, <4>1, <4>2, <4>3
    <3> QED BY Zenon, <3>2, <3>3
  <2> QED BY Zenon, <1>5, <2>1, <2>2 DEF Sees, out
<1>6. ASSUME g \in cut[b] PROVE Sees(b, s, g)
  <2>1. g < ds[b].xmax /\ g \notin ds[b].inProgress /\ x < local[b][s].xmax /\ x \notin local[b][s].xip
    BY Zenon, <1>6 DEF IInv, CutInv
  <2>2. status[s][g] = "committed" /\ d = g
    <3>1. g \in committed
      BY Zenon, <1>6 DEF IInv, GxidInv
    <3> QED BY Zenon, <1>1, <3>1, XidFacts DEF IInv
  <2>3. test # "inprogress"
    <3>1. ~(g >= ds[b].xmax)
      BY <1>2, <2>1
    <3> QED BY Zenon, <1>3, <2>1, <2>2, <3>1
  <2>4. out \in {"committed", "out"}
    BY <1>2, <1>4, <2>1, <2>3
  <2> QED BY Zenon, <2>2, <2>4 DEF Sees, out
<1> QED BY Zenon, <1>5, <1>6

-----------------------------------------------------------------------------
\* The order of commits.

\* The int that carries a gxid holds it.
LEMMA Ints == ASSUME MaxGxid < IntModulus \div 2 PROVE \A h \in Gxids : AsInt(h) = h
<1> SUFFICES ASSUME NEW h \in Gxids PROVE AsInt(h) = h
  BY Zenon
<1>1. h \in Nat /\ h <= MaxGxid /\ MaxGxid \in Nat /\ IntModulus \in Nat \ {0}
  BY GxidAssumption, ModulusAssumption DEF Gxids
<1>2. IntModulus \div 2 \in Nat /\ IntModulus \div 2 < IntModulus
  BY <1>1
<1>3. h < IntModulus \div 2 /\ h < IntModulus
  BY <1>1, <1>2
<1>4. h % IntModulus = h
  BY <1>1, <1>3
<1>5. ~(h >= IntModulus \div 2)
  BY <1>1, <1>2, <1>3
<1> QED BY Zenon, <1>4, <1>5 DEF AsInt

\* No cycle appears when at most one backend begins to commit and nobody awaits it.
LEMMA CycleStep ==
  ASSUME NoCommitCycle, NEW n \in Backends,
         \A c \in Backends : qd'[c] \in InCommit => c = n \/ qd[c] \in InCommit,
         \A c, e \in Backends : qd[c] \in InCommit /\ qd[e] \in InCommit /\ e \in Awaits(c)' =>
           e \in Awaits(c),
         qd[n] \in InCommit \/ qd'[n] \notin InCommit \/
           \A c \in Backends : qd[c] \in InCommit \/ c = n => n \notin Awaits(c)'
  PROVE  NoCommitCycle'
<1> SUFFICES ASSUME NEW B \in SUBSET {b \in Backends : qd'[b] \in InCommit}, B # {}
             PROVE  \E b \in B : Awaits(b)' \cap B = {}
  BY Zenon DEF NoCommitCycle, InCommit
<1>a. \A A \in SUBSET {b \in Backends : qd[b] \in InCommit} :
        A # {} => \E b \in A : Awaits(b) \cap A = {}
  BY Zenon DEF NoCommitCycle, InCommit
<1>1. CASE \A c \in B : qd[c] \in InCommit
  BY <1>a, <1>1
<1>2. CASE \E c \in B : qd[c] \notin InCommit
  <2>1. n \in B /\ qd[n] \notin InCommit /\ qd'[n] \in InCommit
    BY Zenon, <1>2
  <2>2. \A c \in B : n \notin Awaits(c)'
    BY Zenon, <2>1
  <2>3. CASE B \ {n} = {}
    BY Zenon, <2>1, <2>2, <2>3
  <2>4. CASE B \ {n} # {}
    <3>1. B \ {n} \in SUBSET {b \in Backends : qd[b] \in InCommit}
      BY Zenon
    <3>2. PICK c \in B \ {n} : Awaits(c) \cap (B \ {n}) = {}
      BY Zenon, <1>a, <2>4, <3>1
    <3>3. Awaits(c)' \cap B = {}
      BY Zenon, <2>2, <3>1, <3>2
    <3> QED BY Zenon, <3>3
  <2> QED BY Zenon, <2>3, <2>4
<1> QED BY Zenon, <1>1, <1>2

\* What is said of a backend that a step leaves alone.
LEMMA OwnerFrame ==
  ASSUME OInv, NEW c \in Backends, UNCHANGED <<nextGxid, status>>,
         gxid'[c] = gxid[c], qd'[c] = qd[c], blocked'[c] = blocked[c], waitGxids'[c] = waitGxids[c]
  PROVE  Owner(c)'
<1>1. Owner(c)
  BY Zenon DEF OInv, OwnerInv
<1> QED BY Zenon, <1>1 DEF Owner

\* A step of a segment.
LEMMA SegmentOrder ==
  ASSUME IInv, OInv, UNCHANGED <<coordinator, blocked, waitGxids, waited>>,
         \A r \in Segs, h \in Gxids :
           /\ xid[r][h] # NoXid => xid'[r][h] # NoXid
           /\ status[r][h] \notin {"none", "assigned"} => status'[r][h] \notin {"none", "assigned"}
           /\ status[r][h] = "aborted" => status'[r][h] = "aborted",
         \A c \in Backends, r \in Segs :
           /\ gxid[c] # NoGxid /\ status'[r][gxid[c]] = "aborted" => qd[c] = "aborting"
           /\ blocked[c].gxid # NoGxid /\ status[r][gxid[c]] = "assigned" =>
                status'[r][gxid[c]] = "assigned"
  PROVE  OInv'
<1> USE DEF coordinator
<1>1. OwnerInv'
  <2>1. ASSUME NEW c \in Backends PROVE Owner(c)'
    <3>1. Owner(c) /\ (gxid[c] # NoGxid => gxid[c] \in Gxids)
      BY ZenonT(60) DEF OInv, OwnerInv, IInv, GxidInv
    <3>2. CASE blocked[c].gxid = NoGxid
      BY ZenonT(60), <3>1, <3>2 DEF Owner
    <3>3. CASE blocked[c].gxid # NoGxid
      <4> DEFINE s == blocked[c].seg
                 h == blocked[c].gxid
      <4>1. /\ qd[c] = "active" /\ gxid[c] # NoGxid /\ s \in Segs /\ h \in Gxids /\ h # gxid[c]
            /\ status[s][gxid[c]] = "assigned" /\ status[s][h] \notin {"none", "assigned"}
            /\ blocked[c].asked = TRUE => h \in waitGxids[c] \/ status[s][h] = "aborted"
        BY Zenon, <3>1, <3>3 DEF Owner
      <4>2. /\ status'[s][gxid[c]] = "assigned" /\ status'[s][h] \notin {"none", "assigned"}
            /\ status[s][h] = "aborted" => status'[s][h] = "aborted"
        <5>1. status'[s][gxid[c]] = "assigned"
          BY ZenonT(60), <3>3, <4>1
        <5>2. status'[s][h] \notin {"none", "assigned"}
          BY <4>1
        <5>3. status[s][h] = "aborted" => status'[s][h] = "aborted"
          BY <4>1
        <5> QED BY Zenon, <5>1, <5>2, <5>3
      <4> QED BY ZenonT(60), <3>1, <4>1, <4>2 DEF Owner
    <3> QED BY Zenon, <3>2, <3>3
  <2> QED BY ZenonT(60), <2>1 DEF OInv, OwnerInv
<1>2. WaitInv'
  <2>1. \A b \in Backends, h \in Gxids : Past(b, h)' <=> Past(b, h)
    BY ZenonT(60) DEF Past
  <2>2. \A g, h \in Gxids : Behind(g, h) => Behind(g, h)'
    BY DEF Behind
  <2>3. \A b \in Backends : waitGxids[b] \subseteq Gxids
    BY Zenon DEF OInv, OwnerInv
  <2> QED BY ZenonT(60), <2>1, <2>2, <2>3 DEF OInv, WaitInv
<1>3. NoCommitCycle'
  <2>1. \A c \in Backends : Awaits(c)' = Awaits(c)
    BY Zenon DEF Awaits
  <2> QED BY <2>1 DEF OInv, NoCommitCycle
<1> QED BY Zenon, <1>1, <1>2, <1>3 DEF OInv

\* A transaction goes on to its end.
LEMMA PhaseOrder ==
  ASSUME IInv, OInv, NEW b \in Backends, NEW p \in {"onephase", "preparing", "notifying", "ending"},
         qd' = [qd EXCEPT ![b] = p],
         UNCHANGED <<nextGxid, gxid, committed, xid, status, order>>,
         blocked[b].gxid = NoGxid, qd[b] \notin {"aborting", "ending"},
         qd[b] \in Committing => p \in Committing,
         \A s \in Segs : gxid[b] # NoGxid => status[s][gxid[b]] # "aborted",
         p = "ending" =>
           \/ \A s \in Segs : gxid[b] # NoGxid => xid[s][gxid[b]] = NoXid
           \/ \A g \in waitGxids[b], c \in Backends : gxid[c] # g
  PROVE  OInv'
<1> USE DEF order
<1>q. qd'[b] = p /\ \A c \in Backends \ {b} : qd'[c] = qd[c]
  BY Zenon DEF IInv, Types
<1>1. OwnerInv'
  <2>1. Owner(b) /\ qd'[b] = p
    BY Zenon, <1>q DEF OInv, OwnerInv
  <2>2. Owner(b)'
    BY Zenon, <2>1 DEF Owner
  <2>3. ASSUME NEW c \in Backends \ {b} PROVE Owner(c)'
    BY Zenon, <1>q, OwnerFrame
  <2> QED BY Zenon, <2>2, <2>3 DEF OInv, OwnerInv
<1>g. \A c \in Backends : gxid[c] \in Gxids => gxid[c] # NoGxid
  BY Zenon, Constants
<1>2. WaitInv'
  <2>1. ASSUME NEW c \in Backends, NEW h \in waitGxids[c], Past(c, h) PROVE Past(c, h)'
    <3>1. h \in Gxids /\ h # NoGxid
      BY Zenon, WaitedFor
    <3>2. \A e \in Backends : gxid[e] = h /\ qd[e] \in Committing \cup {"aborting"} =>
                                qd'[e] \in Committing \cup {"aborting"}
      BY Zenon, <1>q DEF Committing
    <3>3. blocked[c].gxid = h => c # b
      BY Zenon, <3>1
    <3>4. qd[c] = "aborting" => qd'[c] = "aborting"
      BY Zenon, <1>q
    <3> QED BY ZenonT(60), <2>1, <3>2, <3>4 DEF Past
  <2>2. ASSUME NEW g \in Gxids, NEW h \in Gxids, Behind(g, h) PROVE Behind(g, h)'
    <3>1. \E c \in Backends : gxid'[c] = h /\ qd'[c] \in Committing
      BY Zenon, <1>q, <2>2 DEF Behind
    <3>2. ASSUME NEW c \in Backends, gxid[c] = g PROVE qd'[c] # "ending"
      BY ZenonT(60), <1>q, <1>g, <2>2, <3>2 DEF Behind
    <3> QED BY Zenon, <2>2, <3>1, <3>2 DEF Behind
  <2> QED BY Zenon, <2>1, <2>2 DEF OInv, WaitInv
<1>3. NoCommitCycle'
  <2>1. \A c \in Backends : Awaits(c)' = Awaits(c)
    BY Zenon DEF Awaits
  <2>2. ASSUME qd[b] \notin InCommit, p \in InCommit, NEW c \in Backends, qd[c] \in InCommit \/ c = b,
               b \in Awaits(c)
        PROVE  FALSE
    <3>1. gxid[b] \in waitGxids[c] /\ gxid[b] # NoGxid
      BY Zenon, <2>2 DEF Awaits
    <3>2. c # b
      BY Zenon, <3>1 DEF OInv, OwnerInv, Owner
    <3>3. Past(c, gxid[b])
      BY Zenon, <3>1 DEF OInv, WaitInv
    <3>4. qd[c] # "aborting" /\ blocked[c].gxid = NoGxid
      BY Zenon, <2>2, <3>2 DEF OInv, OwnerInv, Owner, InCommit
    <3>5. qd[b] \in Committing \cup {"aborting"}
      BY Zenon, <3>1, <3>3, <3>4 DEF Past
    <3> QED BY Zenon, <2>2, <3>5 DEF Committing, InCommit
  <2> QED BY ZenonT(60), <1>q, <2>1, <2>2, CycleStep DEF OInv
<1> QED BY Zenon, <1>1, <1>2, <1>3 DEF OInv

\* A transaction is to be rolled back.
LEMMA RollbackOrder == ASSUME IInv, OInv, NEW b \in Backends, RollbackDtxTransaction(b)
                       PROVE  OInv'
<1>a. /\ qd[b] \in {"active", "preparing"}
      /\ qd' = [qd EXCEPT ![b] = "aborting"] /\ blocked' = [blocked EXCEPT ![b] = Unblocked]
      /\ UNCHANGED <<nextGxid, gxid, committed, xid, status, waitGxids, waited>>
  BY Zenon DEF RollbackDtxTransaction
<1>q. /\ qd'[b] = "aborting" /\ blocked'[b] = Unblocked
      /\ \A c \in Backends \ {b} : qd'[c] = qd[c] /\ blocked'[c] = blocked[c]
  BY Zenon, <1>a, OwnerTypes DEF IInv, Types
<1>u. Unblocked.gxid = NoGxid /\ Unblocked \in [seg : Segs \cup {Unblocked.seg}, gxid : Nat, asked : BOOLEAN]
  BY Zenon DEF Unblocked, NoGxid
<1>1. OwnerInv'
  <2>1. blocked' \in [Backends -> [seg : Segs \cup {Unblocked.seg}, gxid : Nat, asked : BOOLEAN]]
    BY Zenon, <1>a, <1>u DEF OInv, OwnerInv, Owner
  <2>2. Owner(b)
    BY Zenon DEF OInv, OwnerInv
  <2>3. Owner(b)'
    BY Zenon, <1>a, <1>q, <1>u, <2>2 DEF Owner
  <2>4. ASSUME NEW c \in Backends \ {b} PROVE Owner(c)'
    BY Zenon, <1>a, <1>q, OwnerFrame
  <2> QED BY Zenon, <1>a, <2>1, <2>3, <2>4 DEF OInv, OwnerInv
<1>2. WaitInv'
  <2>1. ASSUME NEW c \in Backends, NEW h \in waitGxids[c], Past(c, h) PROVE Past(c, h)'
    <3>1. CASE c = b
      BY Zenon, <1>q, <3>1 DEF Past
    <3>2. CASE c # b
      <4>1. \A e \in Backends : qd[e] \in Committing \cup {"aborting"} =>
                                qd'[e] \in Committing \cup {"aborting"}
        BY Zenon, <1>q
      <4> QED BY Zenon, <1>a, <1>q, <2>1, <3>2, <4>1 DEF Past
    <3> QED BY Zenon, <3>1, <3>2
  <2>2. ASSUME NEW g \in Gxids, NEW h \in Gxids, Behind(g, h) PROVE Behind(g, h)'
    <3>1. \A c \in Backends : /\ qd[c] \in Committing => qd'[c] = qd[c]
                              /\ qd'[c] = "ending" => qd[c] = "ending"
      BY Zenon, <1>a, <1>q DEF Committing
    <3> QED BY Zenon, <1>a, <2>2, <3>1 DEF Behind
  <2> QED BY Zenon, <1>a, <2>1, <2>2 DEF OInv, WaitInv
<1>3. NoCommitCycle'
  <2>1. \A c \in Backends : Awaits(c)' = Awaits(c)
    BY Zenon, <1>a DEF Awaits
  <2>2. \A c \in Backends : qd'[c] \in InCommit => qd[c] \in InCommit
    BY Zenon, <1>q DEF InCommit
  <2> QED BY Zenon, <2>1, <2>2, CycleStep DEF OInv
<1> QED BY Zenon, <1>1, <1>2, <1>3 DEF OInv

\* A transaction gets its gxid, which nobody can be waiting for yet.
LEMMA ActivateOrder == ASSUME IInv, OInv, NEW b \in Backends, currentDtxActivate(b)
                       PROVE  OInv'
<1> USE DEF segment, order
<1>a. /\ qd[b] = "active" /\ gxid[b] = NoGxid
      /\ gxid' = [gxid EXCEPT ![b] = nextGxid] /\ nextGxid' = nextGxid + 1 /\ nextGxid <= MaxGxid
      /\ UNCHANGED <<qd, committed, xid, status, blocked, waitGxids, waited>>
  BY Zenon DEF currentDtxActivate
<1>f. gxid'[b] = nextGxid /\ \A c \in Backends \ {b} : gxid'[c] = gxid[c]
  BY Zenon, <1>a DEF IInv, Types
<1>g. nextGxid \in Gxids /\ nextGxid \in Nat /\ \A h \in Gxids : h < nextGxid => h # nextGxid /\ h < nextGxid'
  BY <1>a, Constants DEF IInv, Types, Gxids
<1>1. OwnerInv'
  <2>1. \A c \in Backends : gxid'[c] \notin waitGxids[c] /\ \A h \in waitGxids[c] : h < nextGxid'
    BY ZenonT(60), <1>a, <1>f, <1>g DEF OInv, OwnerInv, Owner
  <2>2. \A s \in Segs : status[s][nextGxid] = "none"
    <3>1. nextGxid <= nextGxid
      BY <1>g
    <3> QED BY Zenon, <1>g, <3>1, XidFacts DEF IInv
  <2>3. \A c \in Backends, s \in Segs : gxid'[c] # NoGxid /\ status[s][gxid'[c]] = "aborted" =>
          qd[c] = "aborting"
    <3>1. \A c \in Backends, s \in Segs :
            gxid[c] # NoGxid /\ status[s][gxid[c]] = "aborted" => qd[c] = "aborting"
      BY Zenon DEF OInv, OwnerInv, Owner
    <3> QED BY <1>f, <2>2, <3>1
  <2>4. \A c \in Backends : blocked[c].gxid # NoGxid => gxid'[c] = gxid[c]
    BY ZenonT(60), <1>a, <1>f DEF OInv, OwnerInv, Owner
  <2>5. ASSUME NEW c \in Backends PROVE Owner(c)'
    <3>1. Owner(c)
      BY Zenon DEF OInv, OwnerInv
    <3> QED BY Zenon, <1>a, <2>1, <2>3, <2>4, <3>1 DEF Owner
  <2> QED BY Zenon, <1>a, <2>5 DEF OInv, OwnerInv
<1>2. WaitInv'
  <2>1. ASSUME NEW c \in Backends, NEW h \in waitGxids[c], Past(c, h) PROVE Past(c, h)'
    <3>1. h \in Gxids /\ h # nextGxid
      BY ZenonT(60), <1>g DEF OInv, OwnerInv, Owner
    <3>2. \A e \in Backends : gxid'[e] = h => gxid[e] = h
      BY Zenon, <1>f, <3>1
    <3> QED BY Zenon, <1>a, <2>1, <3>2 DEF Past
  <2>2. ASSUME NEW q \in waited, Behind(q[1], q[2]) PROVE Behind(q[1], q[2])'
    <3>1. q[1] \in Gxids /\ q[2] \in Gxids /\ q[1] # nextGxid
      BY Zenon, <1>g DEF OInv, WaitInv
    <3>2. \A e \in Backends : gxid'[e] = q[1] => gxid[e] = q[1]
      BY Zenon, <1>f, <3>1
    <3>3. \E c \in Backends : gxid'[c] = q[2] /\ qd'[c] \in Committing
      <4>1. PICK c \in Backends : gxid[c] = q[2] /\ qd[c] \in Committing
        BY Zenon, <2>2 DEF Behind
      <4>2. c # b
        BY Zenon, <1>a, <4>1 DEF Committing
      <4> QED BY Zenon, <1>a, <1>f, <4>1, <4>2
    <3> QED BY Zenon, <1>a, <2>2, <3>2, <3>3 DEF Behind
  <2>3. \A q \in waited : q[1] < nextGxid'
    BY Zenon, <1>g DEF OInv, WaitInv
  <2> QED BY Zenon, <1>a, <2>1, <2>2, <2>3 DEF OInv, WaitInv
<1>3. NoCommitCycle'
  <2>1. \A c, e \in Backends : qd[e] \in InCommit /\ e \in Awaits(c)' => e \in Awaits(c)
    BY Zenon, <1>a, <1>f DEF Awaits, InCommit
  <2>2. \A c \in Backends : qd'[c] \in InCommit => qd[c] \in InCommit
    BY Zenon, <1>a
  <2> QED BY Zenon, <1>a, <2>1, <2>2, CycleStep DEF OInv, InCommit
<1> QED BY Zenon, <1>1, <1>2, <1>3 DEF OInv

\* A snapshot is made.
LEMMA SnapshotOrder == ASSUME IInv, OInv, NEW b \in Backends, GetSnapshotData(b) PROVE OInv'
<1> USE DEF order
<1>a. /\ qd[b] \in {"idle", "active"} /\ qd' = [qd EXCEPT ![b] = "active"]
      /\ UNCHANGED <<nextGxid, gxid, committed, xid, status, blocked, waitGxids, waited>>
  BY Zenon DEF GetSnapshotData
<1>q. qd'[b] = "active" /\ \A c \in Backends \ {b} : qd'[c] = qd[c]
  BY Zenon, <1>a DEF IInv, Types
<1>1. OwnerInv'
  <2>1. Owner(b)
    BY Zenon DEF OInv, OwnerInv
  <2>2. Owner(b)'
    BY Zenon, <1>a, <1>q, <2>1 DEF Owner
  <2>3. ASSUME NEW c \in Backends \ {b} PROVE Owner(c)'
    BY Zenon, <1>a, <1>q, OwnerFrame
  <2> QED BY Zenon, <1>a, <2>2, <2>3 DEF OInv, OwnerInv
<1>3. \A c \in Backends : /\ qd[c] \in Committing \cup {"aborting"} => qd'[c] = qd[c]
                          /\ qd'[c] \in Committing \cup {"aborting"} => qd'[c] = qd[c]
  BY Zenon, <1>a, <1>q DEF Committing
<1>2. WaitInv'
  <2>1. ASSUME NEW c \in Backends, NEW h \in waitGxids[c], Past(c, h) PROVE Past(c, h)'
    BY Zenon, <1>a, <1>3, <2>1 DEF Past
  <2>2. ASSUME NEW g \in Gxids, NEW h \in Gxids, Behind(g, h) PROVE Behind(g, h)'
    BY Zenon, <1>a, <1>3, <2>2 DEF Behind, Committing
  <2> QED BY Zenon, <1>a, <2>1, <2>2 DEF OInv, WaitInv
<1>4. NoCommitCycle'
  <2>1. \A c \in Backends : Awaits(c)' = Awaits(c)
    BY Zenon, <1>a DEF Awaits
  <2>2. \A c \in Backends : qd'[c] \in InCommit => qd[c] \in InCommit
    BY Zenon, <1>q DEF InCommit
  <2> QED BY Zenon, <2>1, <2>2, CycleStep DEF OInv
<1> QED BY Zenon, <1>1, <1>2, <1>4 DEF OInv

\* A writer meets another.
LEMMA MeetOrder ==
  ASSUME IInv, OInv, NEW b \in Backends, NEW s \in Segs, NEW h \in Gxids, MeetsWriter(b, s, h)
  PROVE  OInv'
<1> USE DEF coordinator, segment
<1> DEFINE w == [seg |-> s, gxid |-> h, asked |-> FALSE]
<1>a. /\ qd[b] = "active" /\ gxid[b] # NoGxid /\ status[s][gxid[b]] = "assigned"
      /\ blocked[b] = Unblocked /\ status[s][h] \in HoldsRow
      /\ blocked' = [blocked EXCEPT ![b] = w]
      /\ UNCHANGED <<nextGxid, gxid, qd, committed, xid, status, waitGxids, waited>>
  BY Zenon DEF MeetsWriter
<1>w. w.seg = s /\ w.gxid = h /\ w.asked = FALSE
  BY Zenon
<1>t. blocked' \in [Backends -> [seg : Segs \cup {Unblocked.seg}, gxid : Nat, asked : BOOLEAN]]
  <2>1. w \in [seg : Segs \cup {Unblocked.seg}, gxid : Nat, asked : BOOLEAN]
    BY Zenon, Constants
  <2> QED BY Zenon, <1>a, <2>1 DEF OInv, OwnerInv, Owner
<1> HIDE DEF w
<1>f. blocked'[b] = w /\ \A c \in Backends \ {b} : blocked'[c] = blocked[c]
  BY Zenon, <1>a, OwnerTypes
<1>1. OwnerInv'
  <2>1. h # gxid[b] /\ status[s][h] \notin {"none", "assigned"}
    BY Zenon, <1>a DEF HoldsRow
  <2>2. Owner(b)
    BY Zenon DEF OInv, OwnerInv
  <2>3. Owner(b)'
    BY Zenon, <1>a, <1>w, <1>f, <2>1, <2>2 DEF Owner
  <2>4. ASSUME NEW c \in Backends \ {b} PROVE Owner(c)'
    BY Zenon, <1>a, <1>f, OwnerFrame
  <2> QED BY Zenon, <1>a, <1>t, <2>3, <2>4 DEF OInv, OwnerInv
<1>2. WaitInv'
  <2>1. ASSUME NEW c \in Backends, NEW i \in waitGxids[c], Past(c, i) PROVE Past(c, i)'
    <3>1. i # NoGxid
      BY Zenon, WaitedFor
    <3>2. blocked[c].gxid = i => c # b
      <4>1. Unblocked.gxid = NoGxid
        BY Zenon DEF Unblocked
      <4> QED BY Zenon, <1>a, <3>1, <4>1
    <3> QED BY ZenonT(60), <1>a, <1>f, <2>1, <3>2 DEF Past
  <2>2. ASSUME NEW g \in Gxids, NEW i \in Gxids, Behind(g, i) PROVE Behind(g, i)'
    BY Zenon, <1>a, <2>2 DEF Behind
  <2> QED BY Zenon, <1>a, <2>1, <2>2 DEF OInv, WaitInv
<1>3. NoCommitCycle'
  <2>1. \A c \in Backends : Awaits(c)' = Awaits(c)
    BY Zenon, <1>a DEF Awaits
  <2> QED BY Zenon, <1>a, <2>1, CycleStep DEF OInv
<1> QED BY Zenon, <1>1, <1>2, <1>3 DEF OInv

\* It notes whom it is about to wait for.
LEMMA NoteOrder ==
  ASSUME IInv, OInv, WaitsForPrepared = FALSE, MaxGxid < IntModulus \div 2,
         NEW b \in Backends, NotesWait(b)
  PROVE  OInv'
<1> USE DEF coordinator, segment
<1> DEFINE h == blocked[b].gxid
           s == blocked[b].seg
<1>a. /\ h # NoGxid /\ status[s][h] # "prepared"
      /\ blocked' = [blocked EXCEPT ![b].asked = TRUE]
      /\ waitGxids' = [waitGxids EXCEPT ![b] =
                         IF LocalXidGetDistributedXid(s, h) = NoGxid THEN @ ELSE @ \cup {AsInt(h)}]
      /\ UNCHANGED <<nextGxid, gxid, qd, committed, xid, status, waited>>
  BY Zenon DEF NotesWait
<1>b. /\ qd[b] = "active" /\ gxid[b] # NoGxid /\ s \in Segs /\ h \in Gxids /\ h # gxid[b]
      /\ status[s][gxid[b]] = "assigned" /\ status[s][h] \notin {"none", "assigned"}
  BY Zenon, <1>a DEF OInv, OwnerInv, Owner
<1>c. AsInt(h) = h
  BY Zenon, <1>b, Ints
<1>d. waitGxids'[b] = IF status[s][h] = "aborted" THEN waitGxids[b] ELSE waitGxids[b] \cup {h}
  <2>1. LocalXidGetDistributedXid(s, h) = NoGxid <=> status[s][h] = "aborted"
    <3>2. status \in [Segs -> [Gxids -> States]]
      BY Zenon DEF IInv, Types
    <3> HIDE DEF h, s
    <3>1. status[s][h] \in States
      BY Zenon, <1>b, <3>2
    <3> QED BY Zenon, <1>a, <1>b, <3>1, Constants DEF States, LocalXidGetDistributedXid
  <2> QED BY Zenon, <1>a, <1>c, <2>1, OwnerTypes
<1>e. h < nextGxid
  <2> HIDE DEF h, s
  <2>1. h \in Nat /\ nextGxid \in Nat
    BY Zenon, <1>b, Constants DEF IInv, Types
  <2>2. xid[s][h] # NoXid
    BY Zenon, <1>b DEF IInv, XidInv
  <2>3. ~(nextGxid <= h)
    BY Zenon, <1>b, <2>2 DEF IInv, XidInv
  <2> QED BY <2>1, <2>3
<1>f. /\ blocked'[b].gxid = h /\ blocked'[b].seg = s /\ blocked'[b].asked = TRUE
      /\ \A c \in Backends \ {b} : blocked'[c] = blocked[c] /\ waitGxids'[c] = waitGxids[c]
  BY <1>a DEF OInv, OwnerInv, Owner
<1>t. /\ blocked' \in [Backends -> [seg : Segs \cup {Unblocked.seg}, gxid : Nat, asked : BOOLEAN]]
      /\ waitGxids' \in [Backends -> SUBSET Gxids]
  <2> DEFINE R == [seg : Segs \cup {Unblocked.seg}, gxid : Nat, asked : BOOLEAN]
             w == [blocked[b] EXCEPT !.asked = TRUE]
  <2>1. blocked \in [Backends -> R]
    BY Zenon DEF OInv, OwnerInv, Owner
  <2>2. w \in R
    <3>1. blocked[b] \in R
      BY Zenon, <2>1
    <3> QED BY <3>1, Zenon
  <2>3. blocked' = [blocked EXCEPT ![b] = w]
    BY Zenon, <1>a
  <2> HIDE DEF R, w
  <2>4. blocked' \in [Backends -> R]
    BY Zenon, <2>1, <2>2, <2>3
  <2>5. waitGxids' \in [Backends -> SUBSET Gxids]
    BY Zenon, <1>a, <1>b, <1>c, OwnerTypes
  <2> QED BY Zenon, <2>4, <2>5 DEF R
<1> HIDE DEF h, s
<1>1. OwnerInv'
  <2>1. gxid[b] \notin waitGxids'[b] /\ \A i \in waitGxids'[b] : i < nextGxid
    <3>1. gxid[b] \notin waitGxids[b] /\ \A i \in waitGxids[b] : i < nextGxid
      BY Zenon DEF OInv, OwnerInv, Owner
    <3> QED BY Zenon, <1>b, <1>d, <1>e, <3>1
  <2>2. h \in waitGxids'[b] \/ status[s][h] = "aborted"
    BY Zenon, <1>d
  <2>3. Owner(b)
    BY Zenon DEF OInv, OwnerInv
  <2>4. Owner(b)'
    BY Zenon, <1>a, <1>b, <1>f, <2>1, <2>2, <2>3 DEF Owner
  <2>5. ASSUME NEW c \in Backends \ {b} PROVE Owner(c)'
    BY Zenon, <1>a, <1>f, OwnerFrame
  <2> QED BY ZenonT(60), <1>t, <2>4, <2>5 DEF OwnerInv
<1>2. WaitInv'
  <2>1. ASSUME NEW c \in Backends, NEW i \in waitGxids'[c] PROVE Past(c, i)'
    <3>1. CASE c = b /\ i = h
      BY Zenon, <1>f, <3>1 DEF Past
    <3>2. CASE c # b \/ i # h
      <4>1. i \in waitGxids[c]
        BY Zenon, <1>d, <1>f, <2>1, <3>2
      <4>2. Past(c, i)
        BY Zenon, <4>1 DEF OInv, WaitInv
      <4>3. blocked[c].gxid = i => c # b
        BY Zenon, <3>2 DEF h
      <4> QED BY Zenon, <1>a, <1>f, <4>2, <4>3 DEF Past
    <3> QED BY Zenon, <3>1, <3>2
  <2>2. ASSUME NEW g \in Gxids, NEW i \in Gxids, Behind(g, i) PROVE Behind(g, i)'
    <3>1. \A c \in Backends : waitGxids[c] \subseteq waitGxids'[c]
      BY Zenon, <1>d, <1>f
    <3> QED BY Zenon, <1>a, <2>2, <3>1 DEF Behind
  <2> QED BY Zenon, <1>a, <2>1, <2>2 DEF OInv, WaitInv
<1>3. NoCommitCycle'
  <2>1. \A c \in Backends : qd[c] \in InCommit => Awaits(c)' = Awaits(c)
    BY Zenon, <1>a, <1>b, <1>f DEF Awaits, InCommit
  <2> QED BY Zenon, <1>a, <2>1, CycleStep DEF OInv
<1> QED BY Zenon, <1>1, <1>2, <1>3 DEF OInv

\* The wait is over.
LEMMA WaitOrder == ASSUME IInv, OInv, NEW b \in Backends, XactLockTableWait(b) PROVE OInv'
<1> USE DEF coordinator, segment
<1> DEFINE h == blocked[b].gxid
           s == blocked[b].seg
<1>a. /\ h # NoGxid /\ blocked[b].asked = TRUE /\ status[s][h] \notin InProcArray
      /\ blocked' = [blocked EXCEPT ![b] = Unblocked]
      /\ waited' = IF status[s][h] = "committed" THEN waited \cup {<<gxid[b], h>>} ELSE waited
      /\ UNCHANGED <<nextGxid, gxid, qd, committed, xid, status, waitGxids>>
  <2>1. blocked[b].asked => blocked[b].asked = TRUE
    BY Zenon DEF OInv, OwnerInv, Owner
  <2> QED BY Zenon, <2>1 DEF XactLockTableWait
<1>b. /\ qd[b] = "active" /\ gxid[b] # NoGxid /\ s \in Segs /\ h \in Gxids /\ h # gxid[b]
      /\ status[s][gxid[b]] = "assigned" /\ status[s][h] \notin {"none", "assigned"}
      /\ h \in waitGxids[b] \/ status[s][h] = "aborted"
  BY Zenon, <1>a DEF OInv, OwnerInv, Owner
<1>g. gxid[b] \in Gxids /\ gxid[b] < nextGxid /\ gxid[b] \notin committed
  BY ZenonT(60), <1>b DEF IInv, GxidInv
<1>o. status[s][h] \in {"committed", "aborted"}
  <2>0. status \in [Segs -> [Gxids -> States]]
    BY Zenon DEF IInv, Types
  <2>1. status[s][h] \in States
    BY Zenon, <1>b, <2>0
  <2> QED BY Zenon, <1>a, <1>b, <2>1 DEF States, InProcArray, HoldsRow
<1>c. status[s][h] = "committed" => h \in committed \/ \E c \in Backends : gxid[c] = h /\ qd[c] \in Committing
  BY Zenon, <1>b DEF IInv, XidInv
<1>e. \A c \in Backends : gxid[c] = h => qd[c] \in Committing \cup {"aborting"}
  <2> SUFFICES ASSUME NEW c \in Backends, gxid[c] = h PROVE qd[c] \in Committing \cup {"aborting"}
    BY Zenon
  <2>1. CASE status[s][h] = "committed"
    BY Zenon, <1>a, <1>c, <2>1 DEF IInv, GxidInv
  <2>2. CASE status[s][h] = "aborted"
    <3>1. Owner(c)
      BY Zenon DEF OInv, OwnerInv
    <3> QED BY Zenon, <1>a, <1>b, <2>2, <3>1 DEF Owner
  <2> QED BY Zenon, <1>o, <2>1, <2>2
<1>f. blocked'[b] = Unblocked /\ \A c \in Backends \ {b} : blocked'[c] = blocked[c]
  <2>1. blocked = [c \in Backends |-> blocked[c]]
    BY Zenon DEF OInv, OwnerInv
  <2> QED BY <1>a, <2>1
<1>u. Unblocked.gxid = NoGxid /\ Unblocked \in [seg : Segs \cup {Unblocked.seg}, gxid : Nat, asked : BOOLEAN]
  BY Zenon DEF Unblocked, NoGxid
<1> HIDE DEF h, s
<1>1. OwnerInv'
  <2>1. blocked' \in [Backends -> [seg : Segs \cup {Unblocked.seg}, gxid : Nat, asked : BOOLEAN]]
    BY Zenon, <1>a, <1>u DEF OInv, OwnerInv, Owner
  <2>2. Owner(b)
    BY Zenon DEF OInv, OwnerInv
  <2>3. Owner(b)'
    BY Zenon, <1>a, <1>f, <1>u, <2>2 DEF Owner
  <2>4. ASSUME NEW c \in Backends \ {b} PROVE Owner(c)'
    BY Zenon, <1>a, <1>f, OwnerFrame
  <2> QED BY Zenon, <1>a, <2>1, <2>3, <2>4 DEF OInv, OwnerInv
<1>2. WaitInv'
  <2>1. ASSUME NEW c \in Backends, NEW i \in waitGxids[c], Past(c, i) PROVE Past(c, i)'
    <3>1. CASE c = b /\ i = h
      BY Zenon, <1>a, <1>e, <3>1 DEF Past
    <3>2. CASE c # b \/ i # h
      BY Zenon, <1>a, <1>f, <2>1, <3>2 DEF Past, h
    <3> QED BY Zenon, <3>1, <3>2
  <2>2. ASSUME NEW g \in Gxids, NEW i \in Gxids, Behind(g, i) PROVE Behind(g, i)'
    BY Zenon, <1>a, <2>2 DEF Behind
  <2>3. ASSUME status[s][h] = "committed" PROVE h \in committed \/ Behind(gxid[b], h)
    <3>1. \E r \in Segs : xid[r][gxid[b]] # NoXid
      BY Zenon, <1>b, <1>g DEF IInv, XidInv
    <3>2. \A c \in Backends : gxid[c] = gxid[b] => c = b
      BY Zenon, <1>b DEF IInv, GxidInv
    <3>3. h \in waitGxids[b] /\ qd[b] # "ending"
      BY Zenon, <1>b, <2>3
    <3> QED BY Zenon, <1>c, <1>g, <2>3, <3>1, <3>2, <3>3 DEF Behind
  <2>4. ASSUME NEW q \in waited'
        PROVE  /\ q \in Gxids \X Gxids /\ q[1] < nextGxid
               /\ q[2] \in committed \/ Behind(q[1], q[2])
    <3>1. CASE q \in waited
      BY Zenon, <3>1 DEF OInv, WaitInv
    <3>2. CASE q = <<gxid[b], h>> /\ status[s][h] = "committed"
      BY Zenon, <1>b, <1>g, <2>3, <3>2
    <3> QED BY Zenon, <1>a, <2>4, <3>1, <3>2
  <2>5. ASSUME NEW q \in waited'
        PROVE  q[1] < nextGxid' /\ (q[2] \in committed' \/ Behind(q[1], q[2])')
    BY Zenon, <1>a, <2>2, <2>4
  <2> QED BY Zenon, <1>a, <2>1, <2>4, <2>5 DEF OInv, WaitInv
<1>3. NoCommitCycle'
  <2>1. \A c \in Backends : Awaits(c)' = Awaits(c)
    BY Zenon, <1>a DEF Awaits
  <2> QED BY Zenon, <1>a, <2>1, CycleStep DEF OInv
<1> QED BY Zenon, <1>1, <1>2, <1>3 DEF OInv

\* A transaction ends on the coordinator.
LEMMA EndOrder ==
  ASSUME IInv, OInv, NEW b \in Backends, ProcArrayEndGxact(b), status' = status, blocked' = blocked,
         \/ qd[b] = "ending" /\ committed' = committed \cup ({gxid[b]} \ {NoGxid})
         \/ qd[b] = "aborting" /\ committed' = committed
  PROVE  OInv'
<1>a. /\ gxid' = [gxid EXCEPT ![b] = NoGxid] /\ qd' = [qd EXCEPT ![b] = "idle"]
      /\ waitGxids' = [waitGxids EXCEPT ![b] = {}]
      /\ UNCHANGED <<nextGxid, xid, status, blocked, waited>>
  BY ZenonT(60) DEF ProcArrayEndGxact
<1>f. /\ gxid'[b] = NoGxid /\ qd'[b] = "idle" /\ waitGxids'[b] = {}
      /\ \A c \in Backends \ {b} : gxid'[c] = gxid[c] /\ qd'[c] = qd[c] /\ waitGxids'[c] = waitGxids[c]
  BY Zenon, <1>a, OwnerTypes DEF IInv, Types
<1>b. blocked[b].gxid = NoGxid
  BY Zenon DEF OInv, OwnerInv, Owner
<1>1. OwnerInv'
  <2>1. waitGxids' \in [Backends -> SUBSET Gxids]
    BY Zenon, <1>a DEF OInv, OwnerInv, Owner
  <2>2. Owner(b)'
    BY Zenon, <1>a, <1>f, <1>b DEF Owner
  <2>3. ASSUME NEW c \in Backends \ {b} PROVE Owner(c)'
    BY Zenon, <1>a, <1>f, OwnerFrame
  <2> QED BY Zenon, <1>a, <2>1, <2>2, <2>3 DEF OInv, OwnerInv
<1>2. WaitInv'
  <2>1. ASSUME NEW c \in Backends, NEW h \in waitGxids'[c] PROVE Past(c, h)'
    <3>1. c # b /\ h \in waitGxids[c] /\ h # NoGxid
      <4>1. c # b /\ waitGxids'[c] = waitGxids[c]
        BY Zenon, <1>f, <2>1
      <4>2. waitGxids[c] \subseteq Gxids
        BY Zenon DEF OInv, OwnerInv
      <4> QED BY Zenon, <2>1, <4>1, <4>2, Constants
    <3>2. Past(c, h)
      BY Zenon, <3>1 DEF OInv, WaitInv
    <3>3. \A e \in Backends : gxid'[e] = h => gxid[e] = h /\ qd'[e] = qd[e]
      BY Zenon, <1>f, <3>1
    <3> QED BY ZenonT(60), <1>a, <1>f, <3>1, <3>2, <3>3 DEF Past
  <2>2. ASSUME NEW g \in Gxids, NEW h \in Gxids, Behind(g, h)
        PROVE  h \in committed' \/ Behind(g, h)'
    <3>g. g # NoGxid /\ h # NoGxid
      BY Zenon, Constants
    <3>1. PICK c \in Backends : gxid[c] = h /\ qd[c] \in Committing
      BY Zenon, <2>2 DEF Behind
    <3>2. CASE c = b
      BY Zenon, <3>g, <3>1, <3>2 DEF Committing
    <3>3. CASE c # b
      <4>1. \E e \in Backends : gxid'[e] = h /\ qd'[e] \in Committing
        BY Zenon, <1>f, <3>1, <3>3
      <4>2. g \notin committed'
        BY Zenon, <2>2 DEF Behind
      <4>3. \A e \in Backends : gxid'[e] = g => e # b
        BY Zenon, <1>f, <3>g
      <4> QED BY Zenon, <1>a, <1>f, <2>2, <4>1, <4>2, <4>3 DEF Behind
    <3> QED BY Zenon, <3>2, <3>3
  <2>3. ASSUME NEW q \in waited
        PROVE  q \in Gxids \X Gxids /\ q[1] < nextGxid /\ (q[2] \in committed' \/ Behind(q[1], q[2])')
    BY Zenon, <2>2 DEF OInv, WaitInv
  <2> QED BY Zenon, <1>a, <2>1, <2>3 DEF OInv, WaitInv
<1>3. NoCommitCycle'
  <2>1. \A c, e \in Backends : e \in Awaits(c)' => e \in Awaits(c)
    BY Zenon, <1>f DEF Awaits
  <2>2. \A c \in Backends : qd'[c] \in InCommit => qd[c] \in InCommit
    BY Zenon, <1>f DEF InCommit
  <2> QED BY Zenon, <2>1, <2>2, CycleStep DEF OInv
<1> QED BY Zenon, <1>1, <1>2, <1>3 DEF OInv

\* The status of a transaction on a segment changes.
LEMMA StatusOrder ==
  ASSUME IInv, OInv, NEW b \in Backends, NEW s \in Segs, gxid[b] # NoGxid,
         NEW st \in {"assigned", "running", "prepared", "logged", "committed", "aborted"},
         status' = [status EXCEPT ![s][gxid[b]] = st],
         UNCHANGED <<coordinator, blocked, waitGxids, waited>>,
         \A r \in Segs, h \in Gxids : xid[r][h] # NoXid => xid'[r][h] # NoXid,
         status[s][gxid[b]] # "aborted", st = "aborted" => qd[b] = "aborting",
         st = "assigned" => status[s][gxid[b]] = "none",
         blocked[b].gxid = NoGxid
  PROVE  OInv'
<1> DEFINE g == gxid[b]
<1>1. g \in Gxids
  BY Zenon DEF IInv, GxidInv
<1>2. /\ status'[s][g] = st
      /\ \A r \in Segs, h \in Gxids : r # s \/ h # g => status'[r][h] = status[r][h]
  BY Zenon, <1>1 DEF IInv, Types
<1>3. \A c \in Backends : gxid[c] = g => c = b
  BY Zenon DEF IInv, GxidInv
<1>4. \A c \in Backends : gxid[c] # NoGxid => gxid[c] \in Gxids
  BY Zenon DEF IInv, GxidInv
<1>9. status[s][g] # "aborted" /\ (st = "assigned" => status[s][g] = "none")
  BY Zenon
<1> HIDE DEF g
<1>5. \A r \in Segs, h \in Gxids :
        /\ status[r][h] \notin {"none", "assigned"} => status'[r][h] \notin {"none", "assigned"}
        /\ status[r][h] = "aborted" => status'[r][h] = "aborted"
  BY Zenon, <1>2, <1>9
<1>6. ASSUME NEW c \in Backends, NEW r \in Segs, gxid[c] # NoGxid, status'[r][gxid[c]] = "aborted"
      PROVE  qd[c] = "aborting"
  <2>1. status[r][gxid[c]] = "aborted" => qd[c] = "aborting"
    <3>1. Owner(c)
      BY Zenon DEF OInv, OwnerInv
    <3> QED BY Zenon, <1>6, <3>1 DEF Owner
  <2> QED BY Zenon, <1>2, <1>3, <1>4, <1>6, <2>1
<1>7. ASSUME NEW c \in Backends, NEW r \in Segs, blocked[c].gxid # NoGxid,
             status[r][gxid[c]] = "assigned"
      PROVE  status'[r][gxid[c]] = "assigned"
  <2>1. gxid[c] # NoGxid /\ c # b
    BY Zenon, <1>7 DEF OInv, OwnerInv, Owner
  <2> QED BY Zenon, <1>2, <1>3, <1>4, <1>7, <2>1
<1> QED BY <1>5, <1>6, <1>7, SegmentOrder

\* The steps of a segment.
LEMMA SegmentOrders ==
  ASSUME IInv, OInv, \A r \in Segs : Count(r) \in Nat, NEW b \in Backends, NEW s \in Segs,
         \/ QeGetSnapshotData(b, s) \/ DistributedLog_AdvanceOldestXmin(b, s)
         \/ AssignTransactionId(b, s) \/ heap_update(b, s)
         \/ PerformPrepare(b, s) \/ SetCommittedTree(b, s) \/ SegmentEndsTransaction(b, s)
         \/ PerformAbort(b, s)
  PROVE  OInv'
<1> USE DEF order
<1>1. CASE QeGetSnapshotData(b, s) \/ DistributedLog_AdvanceOldestXmin(b, s)
  <2>1. UNCHANGED <<coordinator, xid, status, blocked, waitGxids, waited>>
    BY Zenon, <1>1 DEF QeGetSnapshotData, DistributedLog_AdvanceOldestXmin
  <2>2. \A c \in Backends, r \in Segs :
           gxid[c] # NoGxid /\ status[r][gxid[c]] = "aborted" => qd[c] = "aborting"
    BY Zenon DEF OInv, OwnerInv, Owner
  <2> QED BY Zenon, <2>1, <2>2, SegmentOrder
<1>u. Unblocked.gxid = NoGxid
  BY Zenon DEF Unblocked
<1>2. CASE AssignTransactionId(b, s)
  <2>1. /\ gxid[b] # NoGxid /\ status[s][gxid[b]] = "none" /\ blocked[b] = Unblocked
        /\ xid' = [xid EXCEPT ![s][gxid[b]] = 1 + Count(s)]
        /\ status' = [status EXCEPT ![s][gxid[b]] = "assigned"]
        /\ UNCHANGED <<coordinator, blocked, waitGxids, waited>>
    BY Zenon, <1>2 DEF AssignTransactionId, Count, Assigned
  <2>2. Count(s) \in Nat
    BY Zenon
  <2>3. \A r \in Segs, h \in Gxids : xid[r][h] # NoXid => xid'[r][h] # NoXid
    BY <2>1, <2>2 DEF IInv, Types, NoXid
  <2> QED BY Zenon, <1>u, <2>1, <2>3, StatusOrder
<1>3. CASE heap_update(b, s)
  <2>1. /\ gxid[b] # NoGxid /\ status[s][gxid[b]] = "assigned" /\ blocked[b] = Unblocked
        /\ status' = [status EXCEPT ![s][gxid[b]] = "running"]
        /\ UNCHANGED <<coordinator, xid, blocked, waitGxids, waited>>
    BY Zenon, <1>3 DEF heap_update
  <2> QED BY Zenon, <1>u, <2>1, StatusOrder
<1>4. CASE PerformPrepare(b, s)
  <2>1. /\ gxid[b] # NoGxid /\ status[s][gxid[b]] = "running" /\ qd[b] = "preparing"
        /\ status' = [status EXCEPT ![s][gxid[b]] = "prepared"]
        /\ UNCHANGED <<coordinator, xid, blocked, waitGxids, waited>>
    BY Zenon, <1>4 DEF PerformPrepare, Participants
  <2>2. blocked[b].gxid = NoGxid
    BY Zenon, <2>1 DEF OInv, OwnerInv, Owner
  <2> QED BY Zenon, <2>1, <2>2, StatusOrder
<1>5. CASE SetCommittedTree(b, s)
  <2>1. /\ gxid[b] # NoGxid /\ status[s][gxid[b]] \in {"running", "prepared"}
        /\ qd[b] \in {"onephase", "notifying"}
        /\ status' = [status EXCEPT ![s][gxid[b]] = "logged"]
        /\ UNCHANGED <<coordinator, xid, blocked, waitGxids, waited>>
    BY Zenon, <1>5 DEF SetCommittedTree, Participants
  <2>2. blocked[b].gxid = NoGxid
    BY Zenon, <2>1 DEF OInv, OwnerInv, Owner
  <2> QED BY Zenon, <2>1, <2>2, StatusOrder
<1>6. CASE SegmentEndsTransaction(b, s)
  <2>1. /\ gxid[b] # NoGxid /\ status[s][gxid[b]] = "logged"
        /\ status' = [status EXCEPT ![s][gxid[b]] = "committed"]
        /\ UNCHANGED <<coordinator, xid, blocked, waitGxids, waited>>
    BY Zenon, <1>6 DEF SegmentEndsTransaction, Participants
  <2>2. gxid[b] \in Gxids /\ gxid[b] \notin committed
    BY Zenon, <2>1 DEF IInv, GxidInv
  <2>3. PICK c \in Backends : gxid[c] = gxid[b] /\ qd[c] \in Committing
    BY Zenon, <2>1, <2>2 DEF IInv, XidInv
  <2>4. qd[b] \in Committing
    BY Zenon, <2>1, <2>3 DEF IInv, GxidInv
  <2>5. blocked[b].gxid = NoGxid
    BY Zenon, <2>4 DEF OInv, OwnerInv, Owner, Committing
  <2> QED BY Zenon, <2>1, <2>5, StatusOrder
<1>7. CASE PerformAbort(b, s)
  <2>1. /\ gxid[b] # NoGxid /\ status[s][gxid[b]] # "aborted" /\ qd[b] = "aborting"
        /\ status' = [status EXCEPT ![s][gxid[b]] = "aborted"]
        /\ UNCHANGED <<coordinator, xid, blocked, waitGxids, waited>>
    BY Zenon, <1>7 DEF PerformAbort, Participants, InProcArray, HoldsRow
  <2>2. blocked[b].gxid = NoGxid
    BY Zenon, <2>1 DEF OInv, OwnerInv, Owner
  <2> QED BY Zenon, <2>1, <2>2, StatusOrder
<1> QED BY Zenon, <1>1, <1>2, <1>3, <1>4, <1>5, <1>6, <1>7

\* The steps towards a commit.
LEMMA PhaseOrders ==
  ASSUME IInv, OInv, NEW b \in Backends,
         PrepareTransaction(b) \/ RecordTransactionCommit(b) \/ GxactLockTableWait(b)
  PROVE  OInv'
<1> USE DEF segment
<1>1. \A s \in Segs : gxid[b] # NoGxid /\ status[s][gxid[b]] = "aborted" => qd[b] = "aborting"
  BY Zenon DEF OInv, OwnerInv, Owner
<1>2. CASE PrepareTransaction(b)
  <2> DEFINE p == IF Participants(b) = {} THEN "ending"
                  ELSE IF Cardinality(Participants(b)) = 1 THEN "onephase" ELSE "preparing"
  <2>1. /\ qd[b] = "active" /\ qd' = [qd EXCEPT ![b] = p] /\ blocked[b] = Unblocked
        /\ UNCHANGED <<nextGxid, gxid, committed, xid, status, order>>
    BY Zenon, <1>2 DEF PrepareTransaction, AtRest
  <2>2. p \in {"ending", "onephase", "preparing"} /\ (p = "ending" => Participants(b) = {})
    BY Zenon
  <2> HIDE DEF p
  <2>3. p = "ending" => \A s \in Segs : gxid[b] # NoGxid => xid[s][gxid[b]] = NoXid
    BY Zenon, <2>2 DEF Participants
  <2>4. Unblocked.gxid = NoGxid
    BY Zenon DEF Unblocked
  <2>5. blocked[b].gxid = NoGxid /\ qd[b] \notin Committing
    BY Zenon, <2>1, <2>4 DEF Committing
  <2> QED BY Zenon, <1>1, <2>1, <2>2, <2>3, <2>5, PhaseOrder
<1>3. CASE RecordTransactionCommit(b)
  <2>1. /\ qd[b] = "preparing" /\ qd' = [qd EXCEPT ![b] = "notifying"]
        /\ UNCHANGED <<nextGxid, gxid, committed, xid, status, order>>
    BY Zenon, <1>3 DEF RecordTransactionCommit
  <2>2. blocked[b].gxid = NoGxid /\ qd[b] \notin Committing
    BY Zenon, <2>1 DEF OInv, OwnerInv, Owner, Committing
  <2> QED BY Zenon, <1>1, <2>1, <2>2, PhaseOrder
<1>4. CASE GxactLockTableWait(b)
  <2>1. /\ qd[b] \in {"onephase", "notifying"} /\ qd' = [qd EXCEPT ![b] = "ending"]
        /\ \A g \in waitGxids[b], c \in Backends : gxid[c] # g
        /\ UNCHANGED <<nextGxid, gxid, committed, xid, status, order>>
    BY Zenon, <1>4 DEF GxactLockTableWait
  <2>2. blocked[b].gxid = NoGxid /\ "ending" \in Committing
    BY Zenon, <2>1 DEF OInv, OwnerInv, Owner, Committing
  <2> QED BY Zenon, <1>1, <2>1, <2>2, PhaseOrder
<1> QED BY Zenon, <1>2, <1>3, <1>4

\* Nobody waits at first.
LEMMA OrderStarts == Init => OInv
<1> SUFFICES ASSUME Init PROVE OInv
  BY Zenon
<1> USE DEF Init
<1>1. Unblocked.gxid = NoGxid /\ Unblocked \in [seg : Segs \cup {Unblocked.seg}, gxid : Nat, asked : BOOLEAN]
  BY Zenon DEF Unblocked, NoGxid
<1>2. OwnerInv
  BY Zenon, <1>1 DEF OwnerInv, Owner
<1>3. WaitInv
  BY Zenon DEF WaitInv
<1>4. NoCommitCycle
  BY Zenon DEF NoCommitCycle
<1> QED BY Zenon, <1>2, <1>3, <1>4 DEF OInv

-----------------------------------------------------------------------------
\* Together.

\* The initial state, unless it is the one StartupXLOG leaves.
LEMMA Starts == ASSUME FiniteFacts, Restarted = FALSE, Init PROVE IInv
<1> USE DEF Init, NoGxid, NoXid
<1>1. Types
  <2>1. NoSnapshot \in [xmin : Nat, xmax : Nat, xip : SUBSET Nat]
        /\ NoDistributed \in [xminAll : Nat, xmin : Nat, xmax : Nat, inProgress : SUBSET Nat]
    BY Zenon DEF NoSnapshot, NoDistributed
  <2>2. nextGxid \in Nat /\ latestCompletedGxid \in Nat /\ latestCompletedGxid < nextGxid
    BY GxidAssumption
  <2>3. FirstGxid <= nextGxid
    BY GxidAssumption
  <2> QED BY Zenon, <2>1, <2>2, <2>3 DEF Types, Phases, States
<1>2. GxidInv
  BY Zenon DEF GxidInv
<1>3. XidInv
  <2>1. \A s \in Segs : Count(s) \in Nat
    BY Zenon, <1>1, Counts
  <2> QED BY <2>1 DEF XidInv
<1>4. CutInv /\ MinInv
  BY Zenon DEF CutInv, MinInv
<1>5. HorizonInv
  <2>1. \A s \in Segs : Count(s) \in Nat
    BY Zenon, <1>1, Counts
  <2> QED BY <2>1 DEF HorizonInv
<1> QED BY Zenon, <1>1, <1>2, <1>3, <1>4, <1>5 DEF IInv

\* Every step keeps IInv.
LEMMA Steps == ASSUME FiniteFacts, IInv, [Next]_vars PROVE IInv'
<1>1. ASSUME NEW b \in Backends,
             \/ GetSnapshotData(b) \/ currentDtxActivate(b)
             \/ NotesWait(b) \/ XactLockTableWait(b)
             \/ PrepareTransaction(b) \/ RecordTransactionCommit(b) \/ GxactLockTableWait(b)
             \/ ProcArrayEndTransaction(b) \/ RollbackDtxTransaction(b) \/ AbortTransaction(b)
      PROVE  IInv'
  <2>1. CASE NotesWait(b) \/ XactLockTableWait(b)
    BY Zenon, <2>1, Stutter DEF NotesWait, XactLockTableWait
  <2>2. CASE ProcArrayEndTransaction(b)
    BY Zenon, <2>2, EndStep DEF ProcArrayEndTransaction
  <2>3. CASE AbortTransaction(b)
    BY Zenon, <2>3, EndStep DEF AbortTransaction
  <2> QED BY Zenon, <1>1, <2>1, <2>2, <2>3, SnapshotStep, ActivateStep, PhaseSteps
<1>2. ASSUME NEW b \in Backends, NEW s \in Segs,
             \/ QeGetSnapshotData(b, s) \/ DistributedLog_AdvanceOldestXmin(b, s)
             \/ AssignTransactionId(b, s) \/ heap_update(b, s)
             \/ PerformPrepare(b, s) \/ SetCommittedTree(b, s) \/ SegmentEndsTransaction(b, s)
             \/ PerformAbort(b, s)
      PROVE  IInv'
  BY Zenon, <1>2, QeStep, AdvanceStep, AssignStep, StatusSteps
<1>3. ASSUME NEW b \in Backends, NEW s \in Segs, NEW g \in Gxids,
             SetDistributedSnapshotIgnore(b, s, g) \/ MeetsWriter(b, s, g)
      PROVE  IInv'
  BY Zenon, <1>3, IgnoreStep, Stutter DEF MeetsWriter
<1>4. CASE UNCHANGED vars
  BY Zenon, <1>4, Stutter DEF vars
<1> QED BY Zenon, <1>1, <1>2, <1>3, <1>4 DEF Next

\* Every step keeps OInv.
LEMMA OrderSteps ==
  ASSUME FiniteFacts, WaitsForPrepared = FALSE, MaxGxid < IntModulus \div 2, IInv, OInv, [Next]_vars
  PROVE  OInv'
<1>1. ASSUME NEW b \in Backends,
             \/ GetSnapshotData(b) \/ currentDtxActivate(b)
             \/ NotesWait(b) \/ XactLockTableWait(b)
             \/ PrepareTransaction(b) \/ RecordTransactionCommit(b) \/ GxactLockTableWait(b)
             \/ ProcArrayEndTransaction(b) \/ RollbackDtxTransaction(b) \/ AbortTransaction(b)
      PROVE  OInv'
  <2>1. CASE NotesWait(b)
    BY Zenon, <2>1, NoteOrder
  <2>2. CASE ProcArrayEndTransaction(b)
    BY Zenon, <2>2, EndOrder DEF ProcArrayEndTransaction
  <2>3. CASE AbortTransaction(b)
    BY Zenon, <2>3, EndOrder DEF AbortTransaction
  <2> QED BY Zenon, <1>1, <2>1, <2>2, <2>3, SnapshotOrder, ActivateOrder, WaitOrder, PhaseOrders,
             RollbackOrder
<1>2. ASSUME NEW b \in Backends, NEW s \in Segs,
             \/ QeGetSnapshotData(b, s) \/ DistributedLog_AdvanceOldestXmin(b, s)
             \/ AssignTransactionId(b, s) \/ heap_update(b, s)
             \/ PerformPrepare(b, s) \/ SetCommittedTree(b, s) \/ SegmentEndsTransaction(b, s)
             \/ PerformAbort(b, s)
      PROVE  OInv'
  <2>1. \A r \in Segs : Count(r) \in Nat
    BY Zenon, Counts DEF IInv
  <2> QED BY Zenon, <1>2, <2>1, SegmentOrders
<1>0. \A c \in Backends, r \in Segs :
        gxid[c] # NoGxid /\ status[r][gxid[c]] = "aborted" => qd[c] = "aborting"
  BY Zenon DEF OInv, OwnerInv, Owner
<1>3. ASSUME NEW b \in Backends, NEW s \in Segs, NEW g \in Gxids,
             SetDistributedSnapshotIgnore(b, s, g) \/ MeetsWriter(b, s, g)
      PROVE  OInv'
  <2>1. CASE SetDistributedSnapshotIgnore(b, s, g)
    <3>1. UNCHANGED <<coordinator, xid, status, blocked, waitGxids, waited>>
      BY Zenon, <2>1 DEF SetDistributedSnapshotIgnore, order
    <3> QED BY Zenon, <1>0, <3>1, SegmentOrder
  <2> QED BY Zenon, <1>3, <2>1, MeetOrder
<1>4. CASE UNCHANGED vars
  <2>1. UNCHANGED <<coordinator, xid, status, blocked, waitGxids, waited>>
    BY Zenon, <1>4 DEF vars, segment, order
  <2> QED BY Zenon, <1>0, <2>1, SegmentOrder
<1> QED BY Zenon, <1>1, <1>2, <1>3, <1>4 DEF Next

-----------------------------------------------------------------------------
INSTANCE FiniteSetTheorems

\* The numbers are well-ordered and there are finitely many gxids.
LEMMA Facts == FiniteFacts
<1>1. ASSUME NEW S \in SUBSET Nat, S # {} PROVE \E x \in S : \A y \in S : x <= y
  <2> DEFINE R == OpToRel(<, Nat)
  <2>1. IsWellFoundedOn(R, Nat)
    BY Zenon, NatLessThanWellFounded
  <2>2. \A x, y \in Nat : <<y, x>> \notin R => x <= y
    <3>1. R = {ss \in Nat \X Nat : ss[1] < ss[2]}
      BY Zenon DEF OpToRel
    <3> HIDE DEF R
    <3> QED BY <3>1
  <2> HIDE DEF R
  <2>3. PICK x \in S : \A y \in S : <<y, x>> \notin R
    BY Zenon, <1>1, <2>1, WFMin
  <2> QED BY Zenon, <2>2, <2>3
<1>2. IsFiniteSet(Gxids)
  BY GxidAssumption, FS_Interval DEF Gxids
<1>3. ASSUME NEW T \in SUBSET Gxids
      PROVE  /\ IsFiniteSet(T) /\ Cardinality(T) \in Nat
             /\ \A g \in Gxids \ T : Cardinality(T \cup {g}) = Cardinality(T) + 1
  <2>1. IsFiniteSet(T)
    BY Zenon, <1>2, FS_Subset
  <2> QED BY Zenon, <2>1, FS_CardinalityType, FS_AddElement
<1> QED BY Zenon, <1>1, <1>3 DEF FiniteFacts

\* The theorems.

\* IInv holds throughout, for a coordinator that has ended a transaction since it
\* started (latestCompletedGxid behind nextGxid).
THEOREM Inductive == ASSUME Restarted = FALSE PROVE Spec => []IInv
<1>1. Init => IInv
  BY Zenon, Facts, Starts
<1>2. IInv /\ [Next]_vars => IInv'
  BY Zenon, Facts, Steps
<1> QED BY <1>1, <1>2, PTL DEF Spec

\* DistributedLog_AdvanceOldestXmin never forgets a commit that a snapshot in use has
\* to look up, though it runs after ProcArrayLock was released, on an old xminAll.
THEOREM HorizonIsSafeHolds == ASSUME Restarted = FALSE PROVE Spec => []HorizonIsSafe
BY Inductive, Safe, PTL

\* XidInMVCCSnapshot answers the same on every segment, whenever the segment took
\* its local snapshot: what had committed when CreateDistributedSnapshot ran.
THEOREM ReadsTheCutHolds == ASSUME Restarted = FALSE PROVE Spec => []ReadsTheCut
BY Inductive, Reads, PTL

\* OInv holds throughout, where no writer meets a row of a prepared transaction and
\* a gxid fits the int that carries it.
THEOREM OrderInductive ==
  ASSUME Restarted = FALSE, WaitsForPrepared = FALSE, MaxGxid < IntModulus \div 2
  PROVE  Spec => []OInv
<1>1. OInv /\ IInv /\ [Next]_vars => OInv'
  BY Zenon, Facts, OrderSteps
<1> QED BY <1>1, OrderStarts, Inductive, PTL DEF Spec

\* A transaction that waited in XactLockTableWait completes on the coordinator after
\* the one it waited for: GxactLockTableWait repeats the wait there.
THEOREM OrderIsKeptHolds ==
  ASSUME Restarted = FALSE, WaitsForPrepared = FALSE, MaxGxid < IntModulus \div 2
  PROVE  Spec => []OrderIsKept
<1>1. OInv => OrderIsKept
  BY Zenon DEF OInv, WaitInv, OrderIsKept, Behind
<1> QED BY <1>1, OrderInductive, PTL

\* GxactLockTableWait cannot deadlock: whom a transaction waits for there began to
\* commit before the transaction itself did.
THEOREM NoCommitCycleHolds ==
  ASSUME Restarted = FALSE, WaitsForPrepared = FALSE, MaxGxid < IntModulus \div 2
  PROVE  Spec => []NoCommitCycle
<1>1. OInv => NoCommitCycle
  BY Zenon DEF OInv
<1> QED BY <1>1, OrderInductive, PTL
=============================================================================
