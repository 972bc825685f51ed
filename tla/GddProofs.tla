----------------------------- MODULE GddProofs -----------------------------
(***************************************************************************)
(* The global deadlock detector, for any number of segments, backends and  *)
(* locks and any wait-for graphs.  First the algorithm: what the reduction *)
(* leaves and whom it cancels.  Then the detector at work: it raises no    *)
(* false alarm.                                                            *)
(***************************************************************************)
EXTENDS GddReduce, Gdd, TLAPS

(***************************************************************************)
(* Its inductive invariant: every stuck set of edges of the input that no  *)
(* victim touches is still linked.                                         *)
(***************************************************************************)
KeepsDeadlocks == \A F \in SUBSET Without(input, vids) : Stuck(F) => F \subseteq edges

ReduceInv == LinkedOK /\ KeepsDeadlocks

\* gddVertReduce unlinks no edge of a stuck set that is linked.
LEMMA ReduceSparesStuck ==
  ASSUME NEW F, F \subseteq edges, Stuck(F), NEW s, NEW v
  PROVE  F \cap gddVertReduce(s, v) = {}
<1> SUFFICES ASSUME NEW e \in F, e \in gddVertReduce(s, v) PROVE FALSE
  OBVIOUS
<1>1. /\ HasGlobalIn(F, e.from)
      /\ HasGlobalOut(F, e.to)
      /\ e.solid \/ HasLocalOut(F, e.seg, e.to)
  BY DEF Stuck
<1>2. CASE ~HasGlobalIn(edges, v) \/ ~HasGlobalOut(edges, v)
  <2>1. e.seg = s /\ Touches(e, v)
    BY <1>2 DEF gddVertReduce
  <2>2. HasGlobalIn(F, v) /\ HasGlobalOut(F, v)
    BY <1>1, <2>1, Zenon DEF Touches, HasGlobalIn, HasGlobalOut
  <2> QED
    BY <1>2, <2>2, Zenon DEF HasGlobalIn, HasGlobalOut
<1>3. CASE ~(~HasGlobalIn(edges, v) \/ ~HasGlobalOut(edges, v))
  <2>1. e.seg = s /\ e.to = v /\ ~e.solid /\ ~HasLocalOut(edges, s, v)
    BY <1>3 DEF gddVertReduce
  <2> QED
    BY <1>1, <2>1, Zenon DEF HasLocalOut
<1> QED
  BY <1>2, <1>3

\* What a reduction that has come to its end leaves is stuck.
LEMMA ReducedIsStuck ==
  ASSUME Reduced, edges \subseteq Edge
  PROVE  Stuck(edges)
<1> SUFFICES ASSUME NEW e \in edges
             PROVE  /\ HasGlobalIn(edges, e.from)
                    /\ HasGlobalOut(edges, e.to)
                    /\ e.solid \/ HasLocalOut(edges, e.seg, e.to)
  BY DEF Stuck
<1>1. e.seg \in Segs /\ e.from \in Vids /\ e.to \in Vids
  BY DEF Edge
<1>2. HasGlobalIn(edges, e.from)
  <2> SUFFICES ASSUME ~HasGlobalIn(edges, e.from) PROVE FALSE
    OBVIOUS
  <2>1. e \in gddVertReduce(e.seg, e.from)
    BY DEF gddVertReduce, Touches
  <2> QED
    BY <1>1, <2>1 DEF Reduced
<1>3. HasGlobalOut(edges, e.to)
  <2> SUFFICES ASSUME ~HasGlobalOut(edges, e.to) PROVE FALSE
    OBVIOUS
  <2>1. e \in gddVertReduce(e.seg, e.to)
    BY DEF gddVertReduce, Touches
  <2> QED
    BY <1>1, <2>1 DEF Reduced
<1>4. e.solid \/ HasLocalOut(edges, e.seg, e.to)
  <2> SUFFICES ASSUME ~e.solid, ~HasLocalOut(edges, e.seg, e.to) PROVE FALSE
    OBVIOUS
  <2>1. e \in gddVertReduce(e.seg, e.to)
    BY DEF gddVertReduce, Touches
  <2> QED
    BY <1>1, <2>1 DEF Reduced
<1> QED
  BY <1>2, <1>3, <1>4

\* When the reduction has come to its end, the linked edges are the deadlocks
\* of what the listed victims leave of the input.
LEMMA ReducedIsDeadlocks ==
  ASSUME ReduceInv, Reduced
  PROVE  edges = Deadlocks(Without(input, vids))
<1>1. edges \subseteq Edge
  BY DEF ReduceInv, LinkedOK, Without
<1>2. Stuck(edges)
  BY <1>1, ReducedIsStuck
<1>3. edges \in SUBSET Without(input, vids)
  BY DEF ReduceInv, LinkedOK
<1>4. edges \subseteq Deadlocks(Without(input, vids))
  BY <1>2, <1>3, Zenon DEF Deadlocks
<1>5. Deadlocks(Without(input, vids)) \subseteq edges
  BY Zenon DEF Deadlocks, ReduceInv, KeepsDeadlocks
<1> QED
  BY <1>4, <1>5

\* The youngest vertex is a vertex, as long as its id survives the int it is
\* returned in.
LEMMA MaxVidIsAVertex ==
  ASSUME edges \subseteq Edge, edges # {}, \A v \in Vids : v < IntModulus \div 2
  PROVE  gddCtxGetMaxVid \in Verts(edges)
<1>1. Verts(edges) \in SUBSET Vids /\ Verts(edges) # {}
  BY DEF Verts, Edge
<1>2. \E v \in Verts(edges) : \A w \in Verts(edges) : w <= v
  BY <1>1, MaxAssumption
<1> DEFINE m == Youngest(Verts(edges))
<1>3. m \in Verts(edges)
  BY <1>2, Zenon DEF Youngest
<1> HIDE DEF m
<1>4. m \in Vids
  BY <1>1, <1>3
<1>5. m \in Nat /\ m < IntModulus \div 2
  BY <1>4, VidAssumption
<1>6. AsInt(m) = m
  BY <1>5, ModulusAssumption DEF AsInt
<1>7. gddCtxGetMaxVid = AsInt(m)
  BY DEF gddCtxGetMaxVid, m
<1> QED
  BY <1>3, <1>6, <1>7

\* Every edge of the input is linked at first.
LEMMA ReduceInvInit == GddCtxNew => ReduceInv
BY InputAssumption DEF GddCtxNew, ReduceInv, LinkedOK, KeepsDeadlocks, Without

\* gddCtxGetMaxVid returns a number.
LEMMA MaxVidIsAnInt == ASSUME LinkedOK, edges # {} PROVE gddCtxGetMaxVid \in Int
<1>1. Verts(edges) \in SUBSET Vids /\ Verts(edges) # {}
  BY DEF Verts, Edge, LinkedOK, Without
<1>2. \E v \in Verts(edges) : \A w \in Verts(edges) : w <= v
  BY <1>1, MaxAssumption
<1> DEFINE m == Youngest(Verts(edges))
<1>3. m \in Verts(edges)
  BY <1>2, Zenon DEF Youngest
<1> HIDE DEF m
<1>4. m \in Nat
  BY <1>1, <1>3, VidAssumption, Zenon
<1>5. AsInt(m) \in Int
  BY <1>4, ModulusAssumption DEF AsInt
<1>6. gddCtxGetMaxVid = AsInt(m)
  BY DEF gddCtxGetMaxVid, m
<1> QED
  BY <1>5, <1>6

\* A visit of the reduction keeps every stuck set linked.
LEMMA ReduceInvariant ==
  ASSUME ReduceInv, NEW s \in Segs, NEW v \in Vids, GddCtxReduce(s, v)
  PROVE  ReduceInv'
<1>1. UNCHANGED <<input, vids>> /\ edges' = edges \ gddVertReduce(s, v)
  BY DEF GddCtxReduce
<1>2. LinkedOK'
  BY <1>1 DEF ReduceInv, LinkedOK, Without
<1>3. KeepsDeadlocks'
  <2> SUFFICES ASSUME NEW F \in SUBSET Without(input, vids), Stuck(F)
               PROVE  F \subseteq edges'
    BY <1>1 DEF KeepsDeadlocks, Without
  <2>1. F \subseteq edges
    BY DEF ReduceInv, KeepsDeadlocks
  <2>2. F \cap gddVertReduce(s, v) = {}
    BY <2>1, ReduceSparesStuck
  <2> QED
    BY <1>1, <2>1, <2>2
<1> QED
  BY <1>2, <1>3 DEF ReduceInv

\* A turn of GddCtxBreakDeadLock keeps every stuck set linked that its victim does not touch.
LEMMA BreakInvariant == ASSUME ReduceInv, GddCtxBreakDeadLock PROVE ReduceInv'
<1> DEFINE m == gddCtxGetMaxVid
<1>1. /\ edges # {}
      /\ input' = input
      /\ vids' = vids \cup {m}
      /\ edges' = Without(edges, {m})
  BY DEF GddCtxBreakDeadLock, gddCtxRemoveVid
<1>2. m \in Int
  BY <1>1, MaxVidIsAnInt DEF ReduceInv
<1> HIDE DEF m
<1>3. Without(input, vids \cup {m}) = Without(Without(input, vids), {m})
  BY Zenon DEF Without
<1>4. LinkedOK'
  BY <1>1, <1>2 DEF ReduceInv, LinkedOK, Without
<1>5. KeepsDeadlocks'
  <2> SUFFICES ASSUME NEW F \in SUBSET Without(input, vids \cup {m}), Stuck(F)
               PROVE  F \subseteq edges'
    BY <1>1 DEF KeepsDeadlocks, Without
  <2>1. F \in SUBSET Without(input, vids) /\ F \in SUBSET {e \in F : \A w \in {m} : ~Touches(e, w)}
    BY <1>3 DEF Without
  <2>2. F \subseteq edges
    BY <2>1 DEF ReduceInv, KeepsDeadlocks
  <2> QED
    BY <1>1, <2>1, <2>2 DEF Without
<1> QED
  BY <1>4, <1>5 DEF ReduceInv

\* Every step preserves the invariant.
LEMMA ReduceInvNext == ReduceInv /\ [ReduceNext]_graph => ReduceInv'
<1> SUFFICES ASSUME ReduceInv, [ReduceNext]_graph PROVE ReduceInv'
  OBVIOUS
<1>1. CASE UNCHANGED graph
  BY <1>1 DEF ReduceInv, LinkedOK, KeepsDeadlocks, Without, graph
<1>2. ASSUME NEW s \in Segs, NEW v \in Vids, GddCtxReduce(s, v) PROVE ReduceInv'
  BY <1>2, ReduceInvariant
<1>3. CASE GddCtxBreakDeadLock
  BY <1>3, BreakInvariant
<1> QED
  BY <1>1, <1>2, <1>3 DEF ReduceNext, Finished

\* The invariant holds throughout.
LEMMA ReduceInvAlways == ReduceSpec => []ReduceInv
BY ReduceInvInit, ReduceInvNext, PTL DEF ReduceSpec

\* GddCtxReduce ends with exactly the deadlocks of the graphs it was given.
THEOREM LeavesDeadlocksAlways == ReduceSpec => []LeavesDeadlocks
<1>1. ReduceInv => LeavesDeadlocks
  BY ReducedIsDeadlocks DEF LeavesDeadlocks
<1> QED
  BY <1>1, ReduceInvAlways, PTL

\* When GddCtxBreakDeadLock returns, every deadlock has lost a transaction.
THEOREM EveryDeadlockLosesAVictimAlways == ReduceSpec => []EveryDeadlockLosesAVictim
<1>1. ASSUME ReduceInv PROVE EveryDeadlockLosesAVictim
  <2> SUFFICES ASSUME edges = {}, NEW F \in SUBSET input, Stuck(F), F # {},
                      ~ \E e \in F, v \in vids : Touches(e, v)
               PROVE  FALSE
    BY DEF EveryDeadlockLosesAVictim
  <2>1. F \in SUBSET Without(input, vids)
    BY DEF Without
  <2> QED
    BY <1>1, <2>1 DEF ReduceInv, KeepsDeadlocks
<1> QED
  BY <1>1, ReduceInvAlways, PTL

\* GddCtxBreakDeadLock lists only transactions that are in a deadlock which the
\* cancellations decided before leave intact, as long as the ids are below the
\* largest int.
THEOREM NoVictimInVainAlways ==
  ASSUME \A v \in Vids : v < IntModulus \div 2
  PROVE  ReduceSpec => NoVictimInVain
<1>1. ASSUME ReduceInv, [ReduceNext]_graph, vids' # vids
      PROVE  vids' \ vids \subseteq Verts(Deadlocks(Without(input, vids)))
  <2>1. GddCtxBreakDeadLock
    BY <1>1 DEF ReduceNext, GddCtxReduce, Finished, graph
  <2>2. edges # {} /\ Reduced /\ vids' \ vids \subseteq {gddCtxGetMaxVid}
    BY <2>1 DEF GddCtxBreakDeadLock
  <2>3. edges \subseteq Edge
    BY <1>1 DEF ReduceInv, LinkedOK, Without
  <2>4. gddCtxGetMaxVid \in Verts(edges)
    BY <2>2, <2>3, MaxVidIsAVertex
  <2>5. edges = Deadlocks(Without(input, vids))
    BY <1>1, <2>2, ReducedIsDeadlocks
  <2> QED
    BY <2>2, <2>4, <2>5
<1>2. ReduceInv /\ [ReduceNext]_graph =>
        [vids' # vids =>
           vids' \ vids \subseteq Verts(Deadlocks(Without(input, vids)))]_graph
  BY <1>1
<1> QED
  BY <1>2, ReduceInvAlways, PTL DEF ReduceSpec, NoVictimInVain

\* The list in the making: each victim was the youngest of what the younger ones
\* leave, and what is still linked is older than all of them.
ListInv ==
  /\ vids \subseteq Vids
  /\ \A v \in vids : \A x \in Verts(edges) : x < v
  /\ \A v \in vids : LET left == Deadlocks(Without(input, {w \in vids : w > v}))
                     IN left # {} /\ v = Youngest(Verts(left))

\* A visit of the reduction changes no list and links nothing.
LEMMA ReduceKeepsList ==
  ASSUME ListInv, UNCHANGED <<input, vids>>, edges' \subseteq edges
  PROVE  ListInv'
<1>1. \A v \in vids : \A x \in Verts(edges') : x < v
  BY Zenon DEF ListInv, Verts
<1> QED
  BY <1>1, Zenon DEF ListInv, Verts

\* A turn of GddCtxBreakDeadLock lists the youngest of the deadlocks left.
LEMMA BreakKeepsList ==
  ASSUME ReduceInv, ListInv, GddCtxBreakDeadLock, \A v \in Vids : v < IntModulus \div 2
  PROVE  ListInv'
<1> DEFINE m == Youngest(Verts(edges))
<1>1. edges # {} /\ Reduced /\ input' = input
  BY DEF GddCtxBreakDeadLock
<1>2. edges \subseteq Edge
  BY DEF ReduceInv, LinkedOK, Without
<1>3. Verts(edges) \in SUBSET Vids /\ Verts(edges) # {}
  BY <1>1, <1>2 DEF Verts, Edge
<1>4. m \in Verts(edges) /\ \A w \in Verts(edges) : w <= m
  <2>1. \E v \in Verts(edges) : \A w \in Verts(edges) : w <= v
    BY <1>3, MaxAssumption
  <2> QED
    BY <2>1, Zenon DEF Youngest
<1> HIDE DEF m
<1>5. m \in Vids /\ m \in Nat /\ gddCtxGetMaxVid = m
  <2>1. m \in Vids /\ m \in Nat /\ m < IntModulus \div 2
    BY <1>3, <1>4, VidAssumption
  <2>2. AsInt(m) = m
    BY <2>1, ModulusAssumption DEF AsInt
  <2> QED
    BY <2>1, <2>2 DEF gddCtxGetMaxVid, m
<1>6. vids' = vids \cup {m} /\ edges' = Without(edges, {m})
  BY <1>5 DEF GddCtxBreakDeadLock, gddCtxRemoveVid
<1>7. vids \subseteq Nat /\ \A v \in vids : m < v
  BY <1>4, VidAssumption DEF ListInv
<1>8. ASSUME NEW x \in Verts(edges') PROVE x \in Verts(edges) /\ x < m
  <2>1. x \in Verts(edges) /\ x # m
    BY <1>6, <1>8, Zenon DEF Verts, Without, Touches
  <2>2. x \in Nat /\ x <= m
    BY <1>3, <1>4, <2>1, VidAssumption
  <2> QED
    BY <1>5, <2>1, <2>2
<1>9. ASSUME NEW v \in vids', NEW x \in Verts(edges') PROVE x < v
  <2>1. CASE v = m
    BY <1>8, <2>1
  <2>2. CASE v \in vids
    BY <1>8, <2>2, Zenon DEF ListInv
  <2> QED
    BY <1>6, <2>1, <2>2
<1>10. ASSUME NEW v \in vids'
       PROVE  LET left == Deadlocks(Without(input, {w \in vids' : w > v}))
              IN left # {} /\ v = Youngest(Verts(left))
  <2>1. CASE v = m
    <3>1. {w \in vids' : w > v} = vids
      <4>1. ~(m > m) /\ \A w \in vids : w > m
        BY <1>5, <1>7
      <4> QED
        BY <1>6, <2>1, <4>1, Zenon
    <3>2. edges = Deadlocks(Without(input, vids))
      BY <1>1, ReducedIsDeadlocks
    <3> QED
      BY <1>1, <2>1, <3>1, <3>2 DEF m
  <2>2. CASE v \in vids
    <3>1. {w \in vids' : w > v} = {w \in vids : w > v}
      BY <1>5, <1>6, <1>7, <2>2
    <3> QED
      BY <2>2, <3>1, Zenon DEF ListInv
  <2> QED
    BY <1>6, <2>1, <2>2
<1>11. vids' \subseteq Vids
  BY <1>5, <1>6 DEF ListInv
<1> QED
  BY <1>1, <1>9, <1>10, <1>11, Zenon DEF ListInv, Verts

\* The list GddCtxBreakDeadLock returns, in whatever order it visits the vertices,
\* is the one the detector at work is described with: of the deadlocks that the
\* younger victims leave, the youngest transaction, until none is left.
THEOREM BreakReturnsTheVictims ==
  ASSUME \A v \in Vids : v < IntModulus \div 2
  PROVE  ReduceSpec => [](edges = {} => BreaksDeadLock(input, vids))
<1>1. GddCtxNew => ListInv
  BY DEF GddCtxNew, ListInv
<1>2. ASSUME ReduceInv, ListInv, [ReduceNext]_graph PROVE ListInv'
  <2>1. ASSUME NEW s \in Segs, NEW v \in Vids, GddCtxReduce(s, v) PROVE ListInv'
    <3>1. UNCHANGED <<input, vids>> /\ edges' \subseteq edges
      BY <2>1 DEF GddCtxReduce
    <3> QED
      BY <1>2, <3>1, ReduceKeepsList
  <2>2. CASE GddCtxBreakDeadLock
    BY <1>2, <2>2, BreakKeepsList
  <2>3. CASE UNCHANGED graph
    <3>1. UNCHANGED <<input, vids>> /\ edges' \subseteq edges
      BY <2>3 DEF graph
    <3> QED
      BY <1>2, <3>1, ReduceKeepsList
  <2> QED
    BY <1>2, <2>1, <2>2, <2>3 DEF ReduceNext, Finished
<1>3. ASSUME ReduceInv, ListInv, edges = {} PROVE BreaksDeadLock(input, vids)
  <2>1. Reduced
    BY <1>3 DEF Reduced, gddVertReduce
  <2>2. Deadlocks(Without(input, vids)) = {}
    BY <1>3, <2>1, ReducedIsDeadlocks
  <2> QED
    BY <1>3, <2>2, Zenon DEF BreaksDeadLock, ListInv
<1> QED
  BY <1>1, <1>2, <1>3, ReduceInvAlways, PTL DEF ReduceSpec

(***************************************************************************)
(* The detector at work.  Segments report at different moments, so the     *)
(* inductive invariant says which of the edges reported so far still hold: *)
(* those of any set that may yet turn out to be stuck.  In such a set a    *)
(* holder is asleep where its lock is, or keeps the lock and has not begun *)
(* to end, so none of its edges can have gone.  Once the victims are       *)
(* chosen, each is in a stuck set that the victims before it do not touch. *)
(***************************************************************************)

\* Backend p waits for lock l, and a grant to backend q is in its way.
InTheWay(l, p, q) ==
  \E w \in queue[l], h \in held[l] : w[1] = p /\ h[1] = q /\ Conflict(w[2], h[2])

\* What edge e reports is the case now.
Alive(e) ==
  /\ e.from # NoGxid /\ e.to # NoGxid
  /\ \E l \in Locks, p \in Procs, q \in Procs :
       /\ SegOf[l] = e.seg /\ gxid[p] = e.from /\ gxid[q] = e.to
       /\ InTheWay(l, p, q)
       /\ e.solid => KeepsTillEnd(l, q)

\* The edges of running transactions, and those that are the case.
Known == [seg : Segs, from : Gxids, to : Gxids, solid : BOOLEAN]
AliveNow == {e \in Known : Alive(e)}

TypesOK ==
  /\ gxid \in [Procs -> Gxids \cup {NoGxid}]
  /\ nextGxid \in Nat /\ FirstGxid <= nextGxid
  /\ held \in [Locks -> SUBSET (Procs \X Modes)]
  /\ queue \in [Locks -> SUBSET (Procs \X Modes)]
  /\ ending \subseteq Procs /\ cancelled \subseteq Procs /\ pid \subseteq Procs
  /\ raw \subseteq Known
  /\ victims \subseteq Gxids
  /\ quiet \in BOOLEAN

\* Gxids are not given twice, and only a backend that has one uses locks, ends
\* or has a cancel pending.
GxidsOK ==
  /\ \A p \in Procs : gxid[p] < nextGxid
  /\ \A p, q \in Procs : gxid[p] = gxid[q] /\ gxid[p] # NoGxid => p = q
  /\ \A p \in ending \cup cancelled : gxid[p] # NoGxid
  /\ \A l \in Locks : \A p \in Waiters(l) \cup Holders(l) : gxid[p] # NoGxid

\* The order of a round.
RoundOK ==
  /\ phase \notin {"segments", "filter"} => raw = {}
  /\ phase = "segments" => \A e \in raw : e.seg \notin unread \cup {QD}
  /\ QD \notin unread
  /\ \A e \in raw : e.from < nextGxid /\ e.to < nextGxid
  /\ phase \in {"lookup", "signal"} => victims # {}
  /\ quiet /\ phase \in {"segments", "filter"}
       => cancelled = {} /\ \A p \in ending : ~Waits(p)

\* While segments are still to report, the edges of v may be to come.
MayReport(v) == phase = "segments" /\ \E p \in Procs \ ending : gxid[p] = v

\* Reported edges that may turn out to be part of a deadlock.
MayBeStuck(F) ==
  \A e \in F : /\ HasGlobalOut(F, e.to) \/ MayReport(e.to)
               /\ e.solid \/ HasLocalOut(F, e.seg, e.to)

\* They are the case, although they were reported at different moments.
ReportsOK == quiet => \A F \in SUBSET raw : MayBeStuck(F) => \A e \in F : Alive(e)

\* A deadlock that nobody is about to leave.
Stands(F) == Stuck(F) /\ \A p \in ending \cup cancelled : gxid[p] \notin Verts(F)

\* Every victim is in one that the victims before it do not break.
VictimsOK ==
  quiet /\ phase \in {"lookup", "signal"} =>
    \A v \in victims : \E F \in SUBSET AliveNow :
      Stands(F) /\ v \in Verts(F) /\ \A w \in victims : w > v => w \notin Verts(F)

PidOK == quiet /\ phase = "signal" => \A p \in pid : gxid[p] = Youngest(victims)

RoundInv == TypesOK /\ GxidsOK /\ RoundOK /\ ReportsOK /\ VictimsOK /\ PidOK

\* Gxids are positive numbers.
LEMMA GxidsArePositive == ASSUME NEW x \in Gxids PROVE x \in Nat /\ x # NoGxid /\ x <= MaxGxid
BY GxidAssumption DEF Gxids, NoGxid

\* What gp_dist_wait_status reports is a wait of a running transaction for
\* another, as long as gxids fit a TransactionId.
LEMMA ReportedWait ==
  ASSUME TypesOK, GxidsOK, MaxGxid < XidModulus,
         NEW s \in Segs, NEW e \in gp_dist_wait_status(s)
  PROVE  /\ e \in Known /\ e.seg = s
         /\ \E l \in Locks, p \in Procs, q \in Procs :
              /\ SegOf[l] = s /\ gxid[p] = e.from /\ gxid[q] = e.to
              /\ InTheWay(l, p, q)
              /\ e.solid = lockIsHoldTillEndXact(l)
<1>0. PICK l \in Locks : \E x \in queue[l] \X held[l] :
        /\ SegOf[l] = s /\ Conflict(x[1][2], x[2][2])
        /\ e = [seg |-> s, from |-> gxid[x[1][1]] % XidModulus, to |-> gxid[x[2][1]] % XidModulus,
                solid |-> lockIsHoldTillEndXact(l)]
  BY DEF gp_dist_wait_status
<1>1. PICK w \in queue[l], h \in held[l] :
        /\ SegOf[l] = s /\ Conflict(w[2], h[2])
        /\ e = [seg |-> s, from |-> gxid[w[1]] % XidModulus, to |-> gxid[h[1]] % XidModulus,
                solid |-> lockIsHoldTillEndXact(l)]
  BY <1>0
<1>2. w \in Procs \X Modes /\ h \in Procs \X Modes
  BY <1>1 DEF TypesOK
<1>3. w[1] \in Procs /\ h[1] \in Procs
  BY <1>2
<1>4. w[1] \in Waiters(l) /\ h[1] \in Holders(l)
  BY <1>1 DEF Waiters, Holders
<1>5. gxid[w[1]] # NoGxid /\ gxid[h[1]] # NoGxid
  BY <1>1, <1>4, Zenon DEF GxidsOK
<1>6. gxid[w[1]] \in Gxids /\ gxid[h[1]] \in Gxids
  BY <1>3, <1>5 DEF TypesOK
<1>7. \A x \in Gxids : x % XidModulus = x
  BY GxidsArePositive, GxidAssumption, XidAssumption
<1>8. e.from = gxid[w[1]] /\ e.to = gxid[h[1]] /\ e.seg = s /\ e.solid = lockIsHoldTillEndXact(l)
  BY <1>1, <1>6, <1>7
<1>9. lockIsHoldTillEndXact(l) \in BOOLEAN
  BY DEF lockIsHoldTillEndXact
<1>10. e \in Known
  BY <1>1, <1>6, <1>7, <1>9 DEF Known
<1>11. InTheWay(l, w[1], h[1])
  BY <1>1, Zenon DEF InTheWay
<1> QED
  BY <1>1, <1>3, <1>8, <1>10, <1>11, Zenon

\* While the marks are true it is the case as an edge of its kind.
LEMMA ReportedIsAlive ==
  ASSUME TypesOK, GxidsOK, MaxGxid < XidModulus,
         NEW s \in Segs, MarksAreTrue(s), NEW e \in gp_dist_wait_status(s)
  PROVE  Alive(e)
<1>1. e \in Known /\ e.seg = s
  BY ReportedWait
<1>2. PICK l \in Locks, p \in Procs, q \in Procs :
        /\ SegOf[l] = s /\ gxid[p] = e.from /\ gxid[q] = e.to
        /\ InTheWay(l, p, q)
        /\ e.solid = lockIsHoldTillEndXact(l)
  BY ReportedWait, Zenon
<1>3. e.from # NoGxid /\ e.to # NoGxid
  BY <1>1, GxidsArePositive DEF Known
<1>4. q \in Holders(l)
  BY <1>2 DEF InTheWay, Holders
<1>5. e.solid => KeepsTillEnd(l, q)
  BY <1>2, <1>4, Zenon DEF lockIsHoldTillEndXact, MarksAreTrue, KeepsTillEnd
<1> QED
  BY <1>1, <1>2, <1>3, <1>5, Zenon DEF Alive

\* Giving up requests takes nothing from other backends that are in each
\* other's way, and leaves other locks alone.
LEMMA DropEffects ==
  ASSUME TypesOK, NEW p \in Procs, NEW L, Drop(p, L), NEW l \in Locks
  PROVE  /\ held'[l] \subseteq held[l] \cup queue[l] /\ queue'[l] \subseteq queue[l]
         /\ l \notin L => held'[l] = held[l] /\ queue'[l] = queue[l]
         /\ l \in L => \A w \in held'[l] \cup queue'[l] : w[1] # p
         /\ \A w \in queue[l], h \in held[l] :
              w[1] # p /\ h[1] # p /\ Conflict(w[2], h[2]) => w \in queue'[l] /\ h \in held'[l]
<1>1. /\ held'[l] = IF l \in L THEN HeldBut(l, p) \cup Woken(l, p) ELSE held[l]
      /\ queue'[l] = IF l \in L THEN QueueBut(l, p) \ Woken(l, p) ELSE queue[l]
  BY DEF Drop
<1>2. /\ Woken(l, p) \subseteq QueueBut(l, p)
      /\ \A w \in Woken(l, p) : \A h \in HeldBut(l, p) : ~Conflict(w[2], h[2])
  BY DEF Woken, ProcLockWakeup
<1>3. CASE l \notin L
  BY <1>1, <1>3
<1>4. CASE l \in L
  <2>1. held'[l] = HeldBut(l, p) \cup Woken(l, p) /\ queue'[l] = QueueBut(l, p) \ Woken(l, p)
    BY <1>1, <1>4
  <2>2. held'[l] \subseteq held[l] \cup queue[l] /\ queue'[l] \subseteq queue[l]
    BY <1>2, <2>1, Zenon DEF HeldBut, QueueBut
  <2>3. \A w \in held'[l] \cup queue'[l] : w[1] # p
    BY <1>2, <2>1, Zenon DEF HeldBut, QueueBut
  <2>4. \A w \in queue[l], h \in held[l] :
          w[1] # p /\ h[1] # p /\ Conflict(w[2], h[2]) => w \in queue'[l] /\ h \in held'[l]
    BY <1>2, <2>1, Zenon DEF HeldBut, QueueBut
  <2> QED
    BY <1>4, <2>2, <2>3, <2>4
<1> QED
  BY <1>3, <1>4

\* A mark for the end of the transaction goes only with the lock.
LEMMA DropKeepsMarks ==
  ASSUME NEW p, NEW L, Drop(p, L), NEW l, NEW q, KeepsTillEnd(l, q), ~(l \in L /\ q = p)
  PROVE  KeepsTillEnd(l, q)'
BY DEF Drop, KeepsTillEnd

\* A process that goes on is not asleep.
LEMMA WhoRunsDoesNotWait ==
  ASSUME NEW p \in Procs, NEW s \in Segs, Runs(p, s)
  PROVE  ~WaitsOn(p, s) /\ p \notin ending /\ gxid[p] # NoGxid
BY DEF Runs, Waits

\* An edge between transactions that are not ending stays the case, if it is
\* solid or its holder is asleep on its segment.
LEMMA StaysAlive ==
  ASSUME TypesOK, GxidsOK, NEW r \in Procs, Client(r) \/ EndStep(r),
         NEW e \in Known, Alive(e),
         \A x \in ending : gxid[x] # e.from /\ gxid[x] # e.to,
         e.solid \/ \E x \in Procs : gxid[x] = e.to /\ WaitsOn(x, e.seg)
  PROVE  Alive(e)'
<1>1. /\ e.from # NoGxid /\ e.to # NoGxid
      /\ \E l \in Locks, p \in Procs, q \in Procs :
           /\ SegOf[l] = e.seg /\ gxid[p] = e.from /\ gxid[q] = e.to
           /\ InTheWay(l, p, q)
           /\ e.solid => KeepsTillEnd(l, q)
  BY Zenon DEF Alive
<1>2. PICK l \in Locks, p \in Procs, q \in Procs :
        /\ SegOf[l] = e.seg /\ gxid[p] = e.from /\ gxid[q] = e.to
        /\ InTheWay(l, p, q)
        /\ e.solid => KeepsTillEnd(l, q)
  BY <1>1, Zenon
<1>3. PICK w \in queue[l], h \in held[l] : w[1] = p /\ h[1] = q /\ Conflict(w[2], h[2])
  BY <1>2, Zenon DEF InTheWay
<1>4. p \notin ending /\ q \notin ending /\ gxid[p] # NoGxid /\ gxid[q] # NoGxid
  BY <1>1, <1>2, Zenon
<1>5. WaitsOn(p, e.seg)
  BY <1>2, <1>3, Zenon DEF WaitsOn, Waiters
<1>6. ~KeepsTillEnd(l, q) => WaitsOn(q, e.seg)
  BY <1>2, <1>4, Zenon DEF GxidsOK
<1>7. e.seg \in Segs
  BY DEF Known
<1>8. ASSUME gxid'[p] = gxid[p], gxid'[q] = gxid[q], w \in queue'[l], h \in held'[l],
             KeepsTillEnd(l, q) => KeepsTillEnd(l, q)'
      PROVE  Alive(e)'
  <2>1. InTheWay(l, p, q)'
    BY <1>3, <1>8, Zenon DEF InTheWay
  <2>2. /\ SegOf[l] = e.seg /\ gxid'[p] = e.from /\ gxid'[q] = e.to
        /\ e.solid => KeepsTillEnd(l, q)'
    BY <1>2, <1>8, Zenon
  <2> QED
    BY <1>1, <2>1, <2>2, Zenon DEF Alive
<1>9. ASSUME NEW L, Drop(r, L), ~(l \in L /\ r \in {p, q}),
             gxid'[p] = gxid[p], gxid'[q] = gxid[q]
      PROVE  Alive(e)'
  <2>1. KeepsTillEnd(l, q) => KeepsTillEnd(l, q)'
    BY <1>9, DropKeepsMarks
  <2>2. /\ l \notin L => held'[l] = held[l] /\ queue'[l] = queue[l]
        /\ \A v \in queue[l], g \in held[l] :
             v[1] # r /\ g[1] # r /\ Conflict(v[2], g[2]) => v \in queue'[l] /\ g \in held'[l]
    BY <1>9, DropEffects
  <2>3. w \in queue'[l] /\ h \in held'[l]
    BY <1>3, <1>9, <2>2, Zenon
  <2> QED
    BY <1>8, <1>9, <2>1, <2>3
<1>10. ASSUME NEW x \in Locks, NEW m \in Modes, LockAcquire(r, x, m) PROVE Alive(e)'
  <2>1. UNCHANGED <<gxid, tillEnd>>
    BY <1>10 DEF LockAcquire
  <2>2. queue[l] \subseteq queue'[l] /\ held[l] \subseteq held'[l]
    BY <1>10 DEF LockAcquire, TypesOK
  <2>3. KeepsTillEnd(l, q) => KeepsTillEnd(l, q)'
    BY <2>1 DEF KeepsTillEnd
  <2> QED
    BY <1>8, <2>1, <2>2, <2>3, Zenon
<1>11. ASSUME NEW x \in Locks, LockRelease(r, x) PROVE Alive(e)'
  <2>1. Runs(r, SegOf[x]) /\ ~KeepsTillEnd(x, r) /\ Drop(r, {x}) /\ gxid' = gxid
    BY <1>11 DEF LockRelease
  <2>2. ~(l \in {x} /\ r \in {p, q})
    BY <1>2, <1>5, <1>6, <1>7, <2>1, WhoRunsDoesNotWait
  <2> QED
    BY <1>9, <2>1, <2>2
<1>12. ASSUME NEW x \in Locks, LockSetHoldTillEndXact(r, x) PROVE Alive(e)'
  <2>1. UNCHANGED <<gxid, queue, held>> /\ tillEnd \subseteq tillEnd'
    BY <1>12 DEF LockSetHoldTillEndXact
  <2>2. KeepsTillEnd(l, q) => KeepsTillEnd(l, q)'
    BY <2>1 DEF KeepsTillEnd
  <2> QED
    BY <1>8, <2>1, <2>2, Zenon
<1>13. CASE Begin(r)
  <2>1. /\ UNCHANGED <<queue, held, tillEnd>> /\ gxid[r] = NoGxid
        /\ gxid' = [gxid EXCEPT ![r] = nextGxid]
    BY <1>13 DEF Begin, locks
  <2>2. gxid'[p] = gxid[p] /\ gxid'[q] = gxid[q]
    BY <1>4, <2>1 DEF TypesOK
  <2>3. KeepsTillEnd(l, q) => KeepsTillEnd(l, q)'
    BY <2>1 DEF KeepsTillEnd
  <2> QED
    BY <1>8, <2>1, <2>2, <2>3, Zenon
<1>14. CASE StartEnd(r) \/ ClientCancel(r) \/ IgnoreCancel(r)
  <2>1. UNCHANGED <<gxid, queue, held, tillEnd>>
    BY <1>14 DEF StartEnd, ClientCancel, IgnoreCancel, locks
  <2>2. KeepsTillEnd(l, q) => KeepsTillEnd(l, q)'
    BY <2>1 DEF KeepsTillEnd
  <2> QED
    BY <1>8, <2>1, <2>2, Zenon
<1>15. ASSUME NEW s \in Segs, EndOnSegment(r, s) PROVE Alive(e)'
  <2>1. r \in ending /\ Drop(r, {x \in Locks : SegOf[x] = s}) /\ gxid' = gxid
    BY <1>15 DEF EndOnSegment
  <2>2. r # p /\ r # q
    BY <1>4, <2>1
  <2> QED
    BY <1>9, <2>1, <2>2, Zenon
<1>16. CASE EndOnCoordinator(r)
  <2>1. /\ r \in ending /\ Drop(r, {x \in Locks : SegOf[x] = QD})
        /\ gxid' = [gxid EXCEPT ![r] = NoGxid]
    BY <1>16 DEF EndOnCoordinator
  <2>2. r # p /\ r # q
    BY <1>4, <2>1
  <2>3. gxid'[p] = gxid[p] /\ gxid'[q] = gxid[q]
    BY <2>1, <2>2 DEF TypesOK
  <2> QED
    BY <1>9, <2>1, <2>2, <2>3, Zenon
<1> QED
  BY <1>10, <1>11, <1>12, <1>13, <1>14, <1>15, <1>16, Zenon DEF Client, EndStep

\* A backend's step leaves the detector alone; who is cancelled during a round
\* ends its quiet.
LEMMA BackendFrame ==
  ASSUME NEW r \in Procs, Client(r) \/ EndStep(r), quiet \in BOOLEAN
  PROVE  /\ UNCHANGED <<phase, unread, raw, victims, pid>>
         /\ quiet' \in BOOLEAN
         /\ quiet' => quiet /\ (phase # "idle" => cancelled' \subseteq cancelled)
         /\ ending' \subseteq ending \cup {r} /\ cancelled' \subseteq cancelled \cup {r}
         /\ r \in ending' => r \in ending \/ ~Waits(r) \/ r \in cancelled
         /\ r \in ending' \cup cancelled' => gxid[r] # NoGxid \/ r \in ending \cup cancelled
<1>1. ASSUME NEW l \in Locks, NEW m \in Modes, LockAcquire(r, l, m)
      PROVE  UNCHANGED <<gdd, quiet, ending, cancelled>>
  BY <1>1, Zenon DEF LockAcquire
<1>2. ASSUME NEW l \in Locks, LockRelease(r, l) \/ LockSetHoldTillEndXact(r, l)
      PROVE  UNCHANGED <<gdd, quiet, ending, cancelled>>
  BY <1>2, Zenon DEF LockRelease, LockSetHoldTillEndXact
<1>3. ASSUME NEW s \in Segs, EndOnSegment(r, s)
      PROVE  UNCHANGED <<gdd, quiet, ending, cancelled>>
  BY <1>3, Zenon DEF EndOnSegment
<1>4. CASE Begin(r)
  BY <1>4 DEF Begin, gdd
<1>5. CASE StartEnd(r)
  BY <1>5 DEF StartEnd, gdd
<1>6. CASE ClientCancel(r)
  BY <1>6, Zenon DEF ClientCancel, gdd
<1>7. CASE IgnoreCancel(r)
  BY <1>7 DEF IgnoreCancel, gdd
<1>8. CASE EndOnCoordinator(r)
  BY <1>8 DEF EndOnCoordinator, gdd
<1>9. CASE UNCHANGED <<gdd, quiet, ending, cancelled>>
  BY <1>9 DEF gdd
<1> QED
  BY <1>1, <1>2, <1>3, <1>4, <1>5, <1>6, <1>7, <1>8, <1>9, Zenon DEF Client, EndStep

\* What a backend's step does to the gxids.
LEMMA BackendGxids ==
  ASSUME NEW r \in Procs, Client(r) \/ EndStep(r)
  PROVE  \/ UNCHANGED <<gxid, nextGxid>>
         \/ /\ gxid[r] = NoGxid /\ nextGxid <= MaxGxid
            /\ gxid' = [gxid EXCEPT ![r] = nextGxid] /\ nextGxid' = nextGxid + 1
            /\ UNCHANGED <<ending, cancelled, held, queue>>
         \/ /\ EndOnCoordinator(r)
            /\ gxid' = [gxid EXCEPT ![r] = NoGxid] /\ nextGxid' = nextGxid
            /\ r \in ending /\ ending' = ending \ {r} /\ cancelled' = cancelled \ {r}
<1>1. ASSUME NEW l \in Locks, NEW m \in Modes, LockAcquire(r, l, m)
      PROVE  UNCHANGED <<gxid, nextGxid>>
  BY <1>1, Zenon DEF LockAcquire
<1>2. ASSUME NEW l \in Locks, LockRelease(r, l) \/ LockSetHoldTillEndXact(r, l)
      PROVE  UNCHANGED <<gxid, nextGxid>>
  BY <1>2, Zenon DEF LockRelease, LockSetHoldTillEndXact
<1>3. ASSUME NEW s \in Segs, EndOnSegment(r, s)
      PROVE  UNCHANGED <<gxid, nextGxid>>
  BY <1>3, Zenon DEF EndOnSegment
<1>4. CASE Begin(r)
  BY <1>4 DEF Begin, locks
<1>5. CASE StartEnd(r) \/ ClientCancel(r) \/ IgnoreCancel(r)
  BY <1>5 DEF StartEnd, ClientCancel, IgnoreCancel
<1>6. CASE EndOnCoordinator(r)
  BY <1>6 DEF EndOnCoordinator
<1> QED
  BY <1>1, <1>2, <1>3, <1>4, <1>5, <1>6, Zenon DEF Client, EndStep

\* Request w is made in this step, by a backend that runs.
Requests(r, w) == /\ w \in Procs \X Modes /\ w[1] = r
                  /\ r \notin ending /\ gxid[r] # NoGxid /\ UNCHANGED <<gxid, ending>>

\* Only a backend that runs makes requests; a grant was a request.
LEMMA BackendLocks ==
  ASSUME TypesOK, NEW r \in Procs, Client(r) \/ EndStep(r), NEW l \in Locks
  PROVE  /\ \A w \in held'[l] \cup queue'[l] : w \in held[l] \cup queue[l] \/ Requests(r, w)
         /\ \A w \in queue'[l] : w \in queue[l] \/ Requests(r, w)
<1>1. ASSUME NEW x \in Locks, NEW m \in Modes, LockAcquire(r, x, m)
      PROVE  /\ r \notin ending /\ gxid[r] # NoGxid /\ UNCHANGED <<gxid, ending>>
             /\ held'[l] \subseteq held[l] \cup {<<r, m>>}
             /\ queue'[l] \subseteq queue[l] \cup {<<r, m>>}
  <2>1. r \notin ending /\ gxid[r] # NoGxid /\ UNCHANGED <<gxid, ending>>
    BY <1>1 DEF LockAcquire, Runs
  <2>2. \/ queue' = [queue EXCEPT ![x] = @ \cup {<<r, m>>}] /\ held' = held
        \/ held' = [held EXCEPT ![x] = @ \cup {<<r, m>>}] /\ queue' = queue
    BY <1>1 DEF LockAcquire
  <2>3. held'[l] \subseteq held[l] \cup {<<r, m>>} /\ queue'[l] \subseteq queue[l] \cup {<<r, m>>}
    BY <2>2 DEF TypesOK
  <2> QED
    BY <2>1, <2>3
<1>2. ASSUME NEW L, Drop(r, L)
      PROVE  held'[l] \cup queue'[l] \subseteq held[l] \cup queue[l] /\ queue'[l] \subseteq queue[l]
  BY <1>2, DropEffects, Zenon
<1>3. ASSUME NEW x \in Locks, LockRelease(r, x) PROVE Drop(r, {x})
  BY <1>3 DEF LockRelease
<1>4. ASSUME NEW x \in Locks, LockSetHoldTillEndXact(r, x) PROVE UNCHANGED <<held, queue>>
  BY <1>4 DEF LockSetHoldTillEndXact
<1>5. ASSUME NEW s \in Segs, EndOnSegment(r, s) PROVE Drop(r, {x \in Locks : SegOf[x] = s})
  BY <1>5 DEF EndOnSegment
<1>6. CASE Begin(r) \/ StartEnd(r) \/ ClientCancel(r) \/ IgnoreCancel(r)
  BY <1>6 DEF Begin, StartEnd, ClientCancel, IgnoreCancel, locks
<1>7. CASE EndOnCoordinator(r)
  BY <1>2, <1>7 DEF EndOnCoordinator
<1>8. CASE UNCHANGED <<held, queue>>
  BY <1>8
<1>9. CASE \E x \in Locks, m \in Modes : LockAcquire(r, x, m)
  <2>1. PICK x \in Locks, m \in Modes : LockAcquire(r, x, m)
    BY <1>9
  <2>2. /\ r \notin ending /\ gxid[r] # NoGxid /\ UNCHANGED <<gxid, ending>>
        /\ held'[l] \subseteq held[l] \cup {<<r, m>>}
        /\ queue'[l] \subseteq queue[l] \cup {<<r, m>>}
    BY <1>1, <2>1
  <2>3. Requests(r, <<r, m>>)
    BY <2>2 DEF Requests
  <2> QED
    BY <2>2, <2>3, Zenon
<1>10. CASE \E x \in Locks : LockRelease(r, x)
  BY <1>2, <1>3, <1>10, Zenon
<1>11. CASE \E s \in Segs : EndOnSegment(r, s)
  BY <1>2, <1>5, <1>11, Zenon
<1> QED
  BY <1>4, <1>6, <1>7, <1>8, <1>9, <1>10, <1>11, Zenon DEF Client, EndStep

\* Lock tables keep their shape.
LEMMA BackendTables ==
  ASSUME TypesOK, NEW r \in Procs, Client(r) \/ EndStep(r)
  PROVE  held' = [l \in Locks |-> held'[l]] /\ queue' = [l \in Locks |-> queue'[l]]
<1>1. held = [l \in Locks |-> held[l]] /\ queue = [l \in Locks |-> queue[l]]
  BY DEF TypesOK
<1>2. ASSUME NEW x \in Locks, NEW m \in Modes, LockAcquire(r, x, m)
      PROVE  held' = [l \in Locks |-> held'[l]] /\ queue' = [l \in Locks |-> queue'[l]]
  BY <1>1, <1>2 DEF LockAcquire
<1>3. ASSUME NEW L, Drop(r, L)
      PROVE  held' = [l \in Locks |-> held'[l]] /\ queue' = [l \in Locks |-> queue'[l]]
  BY <1>3 DEF Drop
<1>4. ASSUME NEW x \in Locks, LockRelease(r, x) PROVE Drop(r, {x})
  BY <1>4 DEF LockRelease
<1>5. ASSUME NEW x \in Locks, LockSetHoldTillEndXact(r, x) PROVE UNCHANGED <<held, queue>>
  BY <1>5 DEF LockSetHoldTillEndXact
<1>6. ASSUME NEW s \in Segs, EndOnSegment(r, s) PROVE Drop(r, {x \in Locks : SegOf[x] = s})
  BY <1>6 DEF EndOnSegment
<1>7. CASE Begin(r) \/ StartEnd(r) \/ ClientCancel(r) \/ IgnoreCancel(r)
  BY <1>1, <1>7 DEF Begin, StartEnd, ClientCancel, IgnoreCancel, locks
<1>8. CASE EndOnCoordinator(r)
  BY <1>3, <1>8 DEF EndOnCoordinator
<1>9. CASE UNCHANGED <<held, queue>>
  BY <1>1, <1>9
<1>10. CASE \E x \in Locks : LockRelease(r, x)
  BY <1>3, <1>4, <1>10, Zenon
<1>11. CASE \E s \in Segs : EndOnSegment(r, s)
  BY <1>3, <1>6, <1>11, Zenon
<1> QED
  BY <1>2, <1>5, <1>7, <1>8, <1>9, <1>10, <1>11, Zenon DEF Client, EndStep

\* Requests are pairs of a backend and a mode.
LEMMA BackendRequests ==
  ASSUME TypesOK, NEW r \in Procs, Client(r) \/ EndStep(r), NEW l \in Locks
  PROVE  held'[l] \subseteq Procs \X Modes /\ queue'[l] \subseteq Procs \X Modes
<1>1. held[l] \subseteq Procs \X Modes /\ queue[l] \subseteq Procs \X Modes
  BY DEF TypesOK
<1>2. /\ \A w \in held'[l] \cup queue'[l] : w \in held[l] \cup queue[l] \/ Requests(r, w)
  BY BackendLocks
<1> QED
  BY <1>1, <1>2, Zenon DEF Requests

\* Backends keep the types.
LEMMA BackendTypes ==
  ASSUME TypesOK, NEW r \in Procs, Client(r) \/ EndStep(r)
  PROVE  TypesOK'
<1>1. /\ UNCHANGED <<phase, unread, raw, victims, pid>> /\ quiet' \in BOOLEAN
      /\ ending' \subseteq ending \cup {r} /\ cancelled' \subseteq cancelled \cup {r}
  BY BackendFrame, Zenon DEF TypesOK
<1>2. ending' \subseteq Procs /\ cancelled' \subseteq Procs
  BY <1>1 DEF TypesOK
<1>3. held' \in [Locks -> SUBSET (Procs \X Modes)]
  <2>1. \A l \in Locks : held'[l] \in SUBSET (Procs \X Modes)
    BY BackendRequests, Zenon
  <2> QED
    BY <2>1, BackendTables
<1>4. queue' \in [Locks -> SUBSET (Procs \X Modes)]
  <2>1. \A l \in Locks : queue'[l] \in SUBSET (Procs \X Modes)
    BY BackendRequests, Zenon
  <2> QED
    BY <2>1, BackendTables
<1>5. gxid' \in [Procs -> Gxids \cup {NoGxid}] /\ nextGxid' \in Nat /\ FirstGxid <= nextGxid'
  <2>1. CASE UNCHANGED <<gxid, nextGxid>>
    BY <2>1 DEF TypesOK
  <2>2. CASE /\ nextGxid <= MaxGxid /\ nextGxid' = nextGxid + 1
             /\ gxid' = [gxid EXCEPT ![r] = nextGxid]
    <3>1. nextGxid \in Gxids
      BY <2>2, GxidAssumption DEF Gxids, TypesOK
    <3>2. nextGxid' \in Nat /\ FirstGxid <= nextGxid'
      BY <2>2, GxidAssumption DEF TypesOK
    <3> QED
      BY <2>2, <3>1, <3>2 DEF TypesOK
  <2>3. CASE gxid' = [gxid EXCEPT ![r] = NoGxid] /\ nextGxid' = nextGxid
    BY <2>3 DEF TypesOK
  <2> QED
    BY <2>1, <2>2, <2>3, BackendGxids
<1> QED
  BY <1>1, <1>2, <1>3, <1>4, <1>5 DEF TypesOK, Known

\* A backend that has ended everywhere uses no lock.
LEMMA EndedUsesNothing ==
  ASSUME TypesOK, NEW r \in Procs, EndOnCoordinator(r), NEW l \in Locks,
         NEW w \in held'[l] \cup queue'[l]
  PROVE  w[1] # r
<1> DEFINE L == {x \in Locks : SegOf[x] = QD}
<1>1. Drop(r, L) /\ \A s \in Segs \ {QD} : ~Uses(r, s)
  BY DEF EndOnCoordinator
<1>2. CASE l \in L
  <2> HIDE DEF L
  <2>1. \A x \in held'[l] \cup queue'[l] : x[1] # r
    BY <1>1, <1>2, DropEffects
  <2> QED
    BY <2>1
<1>3. CASE l \notin L
  <2>1. SegOf[l] \in Segs \ {QD}
    BY <1>3, LockAssumption
  <2>2. r \notin Holders(l) \cup Waiters(l)
    BY <1>1, <2>1, Zenon DEF Uses
  <2> HIDE DEF L
  <2>3. w \in held[l] \cup queue[l]
    BY <1>1, <1>3, DropEffects, Zenon
  <2> QED
    BY <2>2, <2>3, Zenon DEF Holders, Waiters
<1> QED
  BY <1>2, <1>3

\* Backends keep what is said about gxids.
LEMMA BackendKeepsGxids ==
  ASSUME TypesOK, GxidsOK, NEW r \in Procs, Client(r) \/ EndStep(r)
  PROVE  GxidsOK'
<1>1. \A p \in Procs : gxid[p] \in Nat
  BY GxidAssumption DEF TypesOK, Gxids, NoGxid
<1>2. nextGxid \in Nat /\ nextGxid # NoGxid
  BY GxidAssumption DEF TypesOK, NoGxid
<1>3. \A p \in Procs : gxid'[p] < nextGxid'
  <2>1. CASE UNCHANGED <<gxid, nextGxid>>
    BY <2>1 DEF GxidsOK
  <2>2. CASE gxid' = [gxid EXCEPT ![r] = nextGxid] /\ nextGxid' = nextGxid + 1
    BY <1>1, <1>2, <2>2 DEF GxidsOK, TypesOK
  <2>3. CASE gxid' = [gxid EXCEPT ![r] = NoGxid] /\ nextGxid' = nextGxid
    BY <1>1, <1>2, <2>3 DEF GxidsOK, TypesOK, NoGxid
  <2> QED
    BY <2>1, <2>2, <2>3, BackendGxids
<1>4. \A p, q \in Procs : gxid'[p] = gxid'[q] /\ gxid'[p] # NoGxid => p = q
  <2>1. CASE UNCHANGED <<gxid, nextGxid>>
    BY <2>1 DEF GxidsOK
  <2>2. CASE gxid' = [gxid EXCEPT ![r] = nextGxid]
    <3>1. \A p \in Procs : gxid[p] # nextGxid
      BY <1>1, <1>2 DEF GxidsOK
    <3> QED
      BY <2>2, <3>1 DEF GxidsOK, TypesOK
  <2>3. CASE gxid' = [gxid EXCEPT ![r] = NoGxid]
    BY <2>3 DEF GxidsOK, TypesOK
  <2> QED
    BY <2>1, <2>2, <2>3, BackendGxids
<1>5. \A p \in ending' \cup cancelled' : gxid'[p] # NoGxid
  <2> SUFFICES ASSUME NEW p \in ending' \cup cancelled' PROVE gxid'[p] # NoGxid
    OBVIOUS
  <2>0. p \in Procs
    BY BackendTypes DEF TypesOK
  <2>1. gxid[p] # NoGxid
    <3>1. /\ ending' \subseteq ending \cup {r} /\ cancelled' \subseteq cancelled \cup {r}
          /\ r \in ending' \cup cancelled' => gxid[r] # NoGxid \/ r \in ending \cup cancelled
      BY BackendFrame DEF TypesOK
    <3>2. \A x \in ending \cup cancelled : gxid[x] # NoGxid
      BY DEF GxidsOK
    <3> QED
      BY <3>1, <3>2
  <2>2. gxid'[p] = gxid[p] \/ p = r
    BY <2>0, BackendGxids DEF TypesOK
  <2>3. CASE p = r
    BY <1>2, <2>0, <2>1, <2>3, BackendGxids DEF TypesOK
  <2> QED
    BY <2>1, <2>2, <2>3
<1>6. ASSUME NEW l \in Locks, NEW w \in held'[l] \cup queue'[l]
      PROVE  gxid'[w[1]] # NoGxid
  <2>1. w \in Procs \X Modes
    BY BackendRequests
  <2>2. w[1] \in Procs
    BY <2>1
  <2>3. w \in held[l] \cup queue[l] \/ Requests(r, w)
    BY BackendLocks
  <2>4. \A x \in held[l] \cup queue[l] : gxid[x[1]] # NoGxid
    <3>1. \A x \in held[l] \cup queue[l] : x[1] \in Waiters(l) \cup Holders(l)
      BY DEF Waiters, Holders
    <3> QED
      BY <3>1, Zenon DEF GxidsOK
  <2>5. gxid[w[1]] # NoGxid
    BY <2>3, <2>4, Zenon DEF Requests
  <2>6. CASE EndOnCoordinator(r)
    <3>1. w[1] # r
      BY <2>6, EndedUsesNothing
    <3> QED
      BY <2>2, <2>5, <2>6, <3>1 DEF EndOnCoordinator, TypesOK
  <2>7. CASE ~EndOnCoordinator(r)
    BY <1>2, <2>2, <2>5, <2>7, BackendGxids DEF TypesOK
  <2> QED
    BY <2>6, <2>7
<1>7. \A l \in Locks : \A p \in Waiters(l)' \cup Holders(l)' : gxid'[p] # NoGxid
  BY <1>6, Zenon DEF Waiters, Holders
<1> QED
  BY <1>3, <1>4, <1>5, <1>7, Zenon DEF GxidsOK

\* The waiter of an edge that is the case is asleep.
LEMMA AliveWaits ==
  ASSUME NEW e \in Known, Alive(e)
  PROVE  \E p \in Procs : gxid[p] = e.from /\ WaitsOn(p, e.seg) /\ Waits(p) /\ gxid[p] # NoGxid
<1>1. e.seg \in Segs
  BY DEF Known
<1>2. e.from # NoGxid /\ \E l \in Locks, p \in Procs, q \in Procs :
        SegOf[l] = e.seg /\ gxid[p] = e.from /\ InTheWay(l, p, q)
  BY Zenon DEF Alive
<1>3. PICK l \in Locks, p \in Procs, q \in Procs :
        SegOf[l] = e.seg /\ gxid[p] = e.from /\ InTheWay(l, p, q)
  BY <1>2, Zenon
<1>4. WaitsOn(p, e.seg)
  BY <1>3, Zenon DEF InTheWay, WaitsOn, Waiters
<1> QED
  BY <1>1, <1>2, <1>3, <1>4, Zenon DEF Waits

\* Who is ending stays so until the gxid is gone.
LEMMA EndingStays ==
  ASSUME TypesOK, NEW r \in Procs, Client(r) \/ EndStep(r), NEW x \in ending
  PROVE  x \in ending' \/ gxid'[x] = NoGxid
<1>1. ASSUME NEW l \in Locks, NEW m \in Modes, LockAcquire(r, l, m) PROVE ending' = ending
  BY <1>1, Zenon DEF LockAcquire
<1>2. ASSUME NEW l \in Locks, LockRelease(r, l) \/ LockSetHoldTillEndXact(r, l)
      PROVE  ending' = ending
  BY <1>2, Zenon DEF LockRelease, LockSetHoldTillEndXact
<1>3. ASSUME NEW s \in Segs, EndOnSegment(r, s) PROVE ending' = ending
  BY <1>3, Zenon DEF EndOnSegment
<1>4. CASE Begin(r) \/ StartEnd(r) \/ ClientCancel(r) \/ IgnoreCancel(r)
  BY <1>4 DEF Begin, StartEnd, ClientCancel, IgnoreCancel
<1>5. CASE EndOnCoordinator(r)
  BY <1>5 DEF EndOnCoordinator, TypesOK
<1>6. CASE ending' = ending
  BY <1>6
<1> QED
  BY <1>1, <1>2, <1>3, <1>4, <1>5, <1>6, Zenon DEF Client, EndStep

\* Who waits after a backend's step waited before it or has just made a request.
LEMMA WaitsAfter ==
  ASSUME TypesOK, NEW r \in Procs, Client(r) \/ EndStep(r), NEW p, Waits(p)'
  PROVE  Waits(p) \/ (p = r /\ r \notin ending /\ ending' = ending)
<1>1. PICK s \in Segs, l \in Locks : SegOf[l] = s /\ p \in Waiters(l)'
  BY Zenon DEF Waits, WaitsOn
<1>2. PICK w \in queue'[l] : w[1] = p
  BY <1>1, Zenon DEF Waiters
<1>3. w \in queue[l] \/ Requests(r, w)
  BY BackendLocks
<1>4. CASE w \in queue[l]
  BY <1>1, <1>2, <1>4, Zenon DEF Waits, WaitsOn, Waiters
<1>5. CASE Requests(r, w)
  BY <1>2, <1>5, Zenon DEF Requests
<1> QED
  BY <1>3, <1>4, <1>5

\* Backends keep the order of the round.
LEMMA BackendKeepsRound ==
  ASSUME TypesOK, GxidsOK, RoundOK, NEW r \in Procs, Client(r) \/ EndStep(r)
  PROVE  RoundOK'
<1>1. /\ UNCHANGED <<phase, unread, raw, victims, pid>>
      /\ quiet' => quiet /\ (phase # "idle" => cancelled' \subseteq cancelled)
      /\ ending' \subseteq ending \cup {r}
      /\ r \in ending' => r \in ending \/ ~Waits(r) \/ r \in cancelled
  BY BackendFrame DEF TypesOK
<1>2. \A e \in raw : e.from < nextGxid' /\ e.to < nextGxid'
  <2> SUFFICES ASSUME NEW e \in raw PROVE e.from < nextGxid' /\ e.to < nextGxid'
    OBVIOUS
  <2>1. e.from \in Nat /\ e.to \in Nat
    BY GxidsArePositive DEF TypesOK, Known
  <2>2. e.from < nextGxid /\ e.to < nextGxid
    BY DEF RoundOK
  <2>3. nextGxid \in Nat /\ (nextGxid' = nextGxid \/ nextGxid' = nextGxid + 1)
    BY BackendGxids DEF TypesOK
  <2> QED
    BY <2>1, <2>2, <2>3
<1>3. ASSUME quiet', phase \in {"segments", "filter"}
      PROVE  cancelled' = {} /\ \A p \in ending' : ~Waits(p)'
  <2>1. cancelled = {} /\ \A p \in ending : ~Waits(p)
    BY <1>1, <1>3 DEF RoundOK
  <2>2. cancelled' = {}
    BY <1>1, <1>3, <2>1
  <2>3. ASSUME NEW p \in ending', Waits(p)' PROVE FALSE
    <3>1. Waits(p) \/ (p = r /\ r \notin ending /\ ending' = ending)
      BY <2>3, WaitsAfter
    <3>2. Waits(p)
      BY <2>3, <3>1
    <3>3. p \notin ending /\ p = r
      BY <1>1, <2>1, <2>3, <3>2
    <3> QED
      BY <1>1, <2>1, <2>3, <3>2, <3>3
  <2> QED
    BY <2>2, <2>3
<1> QED
  BY <1>1, <1>2, <1>3, Zenon DEF RoundOK

\* The transactions of reported edges that may be stuck are not ending, and the
\* holders of dotted ones are asleep.
LEMMA ReportsAreSteady ==
  ASSUME TypesOK, GxidsOK, RoundOK, ReportsOK, quiet,
         NEW F \in SUBSET raw, MayBeStuck(F), NEW e \in F
  PROVE  /\ e \in Known /\ Alive(e)
         /\ \A x \in ending : gxid[x] # e.from /\ gxid[x] # e.to
         /\ e.solid \/ \E x \in Procs : gxid[x] = e.to /\ WaitsOn(x, e.seg)
<1>1. \A f \in F : f \in Known /\ Alive(f)
  BY Zenon DEF TypesOK, ReportsOK
<1>2. \A p \in ending : ~Waits(p)
  BY Zenon DEF RoundOK
<1>3. ASSUME NEW f \in F, NEW x \in ending, gxid[x] = f.from PROVE FALSE
  <2>1. PICK p \in Procs : gxid[p] = f.from /\ Waits(p) /\ gxid[p] # NoGxid
    BY <1>1, AliveWaits
  <2>2. x \in Procs
    BY DEF TypesOK
  <2>3. x = p
    BY <1>3, <2>1, <2>2, Zenon DEF GxidsOK
  <2> QED
    BY <1>2, <2>1, <2>3
<1>4. ASSUME NEW x \in ending, gxid[x] = e.to PROVE FALSE
  <2>1. CASE HasGlobalOut(F, e.to)
    BY <1>3, <1>4, <2>1, Zenon DEF HasGlobalOut
  <2>2. CASE MayReport(e.to)
    <3>1. PICK p \in Procs \ ending : gxid[p] = e.to
      BY <2>2, Zenon DEF MayReport
    <3>2. e.to # NoGxid
      BY <1>1, Zenon DEF Alive
    <3>3. x \in Procs /\ p \in Procs
      BY DEF TypesOK
    <3> QED
      BY <1>4, <3>1, <3>2, <3>3, Zenon DEF GxidsOK
  <2> QED
    BY <2>1, <2>2, Zenon DEF MayBeStuck
<1>5. ASSUME ~e.solid PROVE \E x \in Procs : gxid[x] = e.to /\ WaitsOn(x, e.seg)
  <2>1. PICK f \in F : f.seg = e.seg /\ f.from = e.to
    BY <1>5, Zenon DEF MayBeStuck, HasLocalOut
  <2>2. PICK p \in Procs : gxid[p] = f.from /\ WaitsOn(p, f.seg)
    BY <1>1, AliveWaits
  <2> QED
    BY <2>1, <2>2, Zenon
<1> QED
  BY <1>1, <1>3, <1>4, <1>5, Zenon

\* Backends cannot undo the edges that may be stuck.
LEMMA BackendKeepsReports ==
  ASSUME TypesOK, GxidsOK, RoundOK, ReportsOK, NEW r \in Procs, Client(r) \/ EndStep(r)
  PROVE  ReportsOK'
<1>1. UNCHANGED <<phase, raw>> /\ (quiet' => quiet)
  BY BackendFrame DEF TypesOK
<1> SUFFICES ASSUME quiet', NEW F \in SUBSET raw, MayBeStuck(F)', NEW e \in F
             PROVE  Alive(e)'
  BY <1>1, Zenon DEF ReportsOK
<1>2. ASSUME NEW f \in F, MayReport(f.to)' PROVE MayReport(f.to)
  <2>1. PICK p \in Procs \ ending' : gxid'[p] = f.to
    BY <1>2, Zenon DEF MayReport
  <2>2. f.to \in Gxids /\ f.to < nextGxid /\ f.to \in Nat /\ f.to # NoGxid /\ nextGxid \in Nat
    BY GxidsArePositive DEF TypesOK, RoundOK, Known
  <2>3. p \notin ending
    BY <2>1, <2>2, EndingStays
  <2>4. gxid[p] = f.to
    <3>1. gxid'[p] # nextGxid
      BY <2>1, <2>2
    <3> QED
      BY <2>1, <2>2, <3>1, BackendGxids DEF TypesOK
  <2>5. phase = "segments"
    BY <1>1, <1>2 DEF MayReport
  <2> QED
    BY <2>1, <2>3, <2>4, <2>5, Zenon DEF MayReport
<1>3. MayBeStuck(F)
  BY <1>2, Zenon DEF MayBeStuck
<1>4. /\ e \in Known /\ Alive(e)
      /\ \A x \in ending : gxid[x] # e.from /\ gxid[x] # e.to
      /\ e.solid \/ \E x \in Procs : gxid[x] = e.to /\ WaitsOn(x, e.seg)
  BY <1>1, <1>3, ReportsAreSteady
<1> QED
  BY <1>4, StaysAlive

\* Everyone in a deadlock is asleep in it.
LEMMA VertexWaits ==
  ASSUME TypesOK, GxidsOK, NEW F \in SUBSET AliveNow, Stuck(F),
         NEW p \in Procs, gxid[p] \in Verts(F)
  PROVE  \E e \in F : e.from = gxid[p] /\ WaitsOn(p, e.seg) /\ Waits(p)
<1>1. PICK e \in F : e.from = gxid[p]
  <2>1. PICK f \in F : f.from = gxid[p] \/ f.to = gxid[p]
    BY Zenon DEF Verts
  <2> QED
    BY <2>1, Zenon DEF Stuck, HasGlobalOut
<1>2. e \in Known /\ Alive(e)
  BY DEF AliveNow
<1>3. PICK q \in Procs : gxid[q] = e.from /\ WaitsOn(q, e.seg) /\ Waits(q) /\ gxid[q] # NoGxid
  BY <1>2, AliveWaits
<1>4. q = p
  BY <1>1, <1>3, Zenon DEF GxidsOK
<1> QED
  BY <1>1, <1>3, <1>4, Zenon

\* A deadlock that nobody is about to leave stays.
LEMMA DeadlockStays ==
  ASSUME TypesOK, GxidsOK, NEW r \in Procs, Client(r) \/ EndStep(r),
         cancelled' \subseteq cancelled,
         NEW F \in SUBSET AliveNow, Stands(F)
  PROVE  F \in SUBSET AliveNow' /\ Stands(F)'
<1>1. Stuck(F) /\ \A p \in ending \cup cancelled : gxid[p] \notin Verts(F)
  BY DEF Stands
<1>2. \A e \in F : e \in Known /\ Alive(e)
  BY DEF AliveNow
<1>3. ASSUME NEW e \in F PROVE Alive(e)'
  <2>1. e.from \in Verts(F) /\ e.to \in Verts(F)
    BY Zenon DEF Verts
  <2>2. \A x \in ending : gxid[x] # e.from /\ gxid[x] # e.to
    BY <1>1, <2>1, Zenon
  <2>3. ASSUME ~e.solid PROVE \E x \in Procs : gxid[x] = e.to /\ WaitsOn(x, e.seg)
    <3>1. PICK f \in F : f.seg = e.seg /\ f.from = e.to
      BY <1>1, <2>3, Zenon DEF Stuck, HasLocalOut
    <3>2. PICK p \in Procs : gxid[p] = f.from /\ WaitsOn(p, f.seg)
      BY <1>2, AliveWaits
    <3> QED
      BY <3>1, <3>2, Zenon
  <2> QED
    BY <1>2, <2>2, <2>3, StaysAlive
<1>4. F \in SUBSET AliveNow'
  BY <1>2, <1>3, Zenon DEF AliveNow, Known
<1>5. ASSUME NEW p \in ending' \cup cancelled', gxid'[p] \in Verts(F) PROVE FALSE
  <2>1. /\ ending' \subseteq ending \cup {r}
        /\ r \in ending' => r \in ending \/ ~Waits(r) \/ r \in cancelled
    BY BackendFrame DEF TypesOK
  <2>2. p \in Procs
    BY BackendTypes DEF TypesOK
  <2>3. \A x \in ending \cup cancelled : gxid[x] # NoGxid
    BY DEF GxidsOK
  <2>4. CASE p \in ending \cup cancelled
    <3>1. gxid'[p] = gxid[p]
      BY <1>5, <2>2, <2>3, <2>4, BackendGxids DEF TypesOK
    <3> QED
      BY <1>1, <1>5, <2>4, <3>1
  <2>5. CASE p \notin ending \cup cancelled
    <3>1. p = r /\ ~Waits(p)
      BY <1>5, <2>1, <2>5
    <3>2. gxid'[p] = gxid[p]
      BY <1>5, <2>1, <2>2, <2>5, <3>1, BackendGxids, Zenon DEF TypesOK
    <3> QED
      BY <1>1, <1>5, <2>2, <3>1, <3>2, VertexWaits
  <2> QED
    BY <2>4, <2>5
<1> QED
  BY <1>1, <1>4, <1>5, Zenon DEF Stands, Stuck

\* Backends keep the deadlocks of the victims.
LEMMA BackendKeepsVictims ==
  ASSUME TypesOK, GxidsOK, VictimsOK, NEW r \in Procs, Client(r) \/ EndStep(r)
  PROVE  VictimsOK'
<1>1. /\ UNCHANGED <<phase, victims>>
      /\ quiet' => quiet /\ (phase # "idle" => cancelled' \subseteq cancelled)
  BY BackendFrame DEF TypesOK
<1> SUFFICES ASSUME quiet', phase \in {"lookup", "signal"}, NEW v \in victims
             PROVE  \E F \in SUBSET AliveNow' : /\ Stands(F)' /\ v \in Verts(F)
                                               /\ \A w \in victims : w > v => w \notin Verts(F)
  BY <1>1, Zenon DEF VictimsOK, Verts
<1>2. cancelled' \subseteq cancelled
  BY <1>1
<1>3. PICK F \in SUBSET AliveNow :
        Stands(F) /\ v \in Verts(F) /\ \A w \in victims : w > v => w \notin Verts(F)
  BY <1>1, Zenon DEF VictimsOK
<1>4. F \in SUBSET AliveNow' /\ Stands(F)'
  BY <1>2, <1>3, DeadlockStays
<1> QED
  BY <1>3, <1>4, Zenon

\* The detector's steps leave the lock tables alone.
LEMMA TablesFrame ==
  ASSUME UNCHANGED <<gxid, held, queue, tillEnd>>
  PROVE  /\ \A e : Alive(e) => Alive(e)'
         /\ AliveNow \subseteq AliveNow'
         /\ \A p : Waits(p)' => Waits(p)
         /\ \A l : Waiters(l)' = Waiters(l) /\ Holders(l)' = Holders(l)
<1>1. \A e : Alive(e) => Alive(e)'
  <2>1. gxid' = gxid
    OBVIOUS
  <2>2. \A l, p, q : InTheWay(l, p, q) => InTheWay(l, p, q)'
    BY DEF InTheWay
  <2>3. \A l, q : KeepsTillEnd(l, q) => KeepsTillEnd(l, q)'
    BY DEF KeepsTillEnd
  <2> QED
    BY <2>1, <2>2, <2>3, Zenon DEF Alive
<1>2. \A l : Waiters(l)' = Waiters(l) /\ Holders(l)' = Holders(l)
  BY Zenon DEF Waiters, Holders
<1>3. \A p : Waits(p)' => Waits(p)
  BY <1>2, Zenon DEF Waits, WaitsOn
<1>4. AliveNow \subseteq AliveNow'
  BY <1>1, Zenon DEF AliveNow, Known
<1> QED
  BY <1>1, <1>2, <1>3, <1>4

\* What is said about gxids does not depend on the detector, who cancels only
\* backends that run.
LEMMA DetectorKeepsGxids ==
  ASSUME GxidsOK, UNCHANGED <<gxid, nextGxid, held, queue, tillEnd, ending>>,
         \A p \in cancelled' : p \in cancelled \/ gxid[p] # NoGxid
  PROVE  GxidsOK'
<1>1. \A l : Waiters(l)' = Waiters(l) /\ Holders(l)' = Holders(l)
  BY TablesFrame
<1>2. \A p \in ending' \cup cancelled' : gxid'[p] # NoGxid
  BY Zenon DEF GxidsOK
<1> QED
  BY <1>1, <1>2, Zenon DEF GxidsOK

\* A report makes no edge part of a deadlock that is not the case any more.
LEMMA ReportIsSound ==
  ASSUME TypesOK, GxidsOK, RoundOK, ReportsOK, MaxGxid < XidModulus,
         phase = "segments", quiet, NEW s \in Segs, s \in unread \cup {QD}, MarksAreTrue(s),
         NEW F \in SUBSET (raw \cup gp_dist_wait_status(s)), MayBeStuck(F), NEW e \in F
  PROVE  Alive(e)
<1> DEFINE G == F \cap raw
<1>1. ASSUME NEW f \in G, NEW g \in F, g.from = f.to, g \notin raw PROVE MayReport(f.to)
  <2>1. g \in gp_dist_wait_status(s)
    BY <1>1
  <2>2. g \in Known /\ Alive(g)
    BY <2>1, ReportedWait, ReportedIsAlive
  <2>3. PICK p \in Procs : gxid[p] = g.from /\ Waits(p)
    BY <2>2, AliveWaits
  <2>4. p \notin ending
    BY <2>3, Zenon DEF RoundOK
  <2> QED
    BY <1>1, <2>3, <2>4, Zenon DEF MayReport
<1>2. ASSUME NEW f \in G, NEW g \in F, g.seg = f.seg PROVE g \in raw
  <2>1. f.seg \notin unread \cup {QD}
    BY Zenon DEF RoundOK
  <2>2. g \in gp_dist_wait_status(s) => g.seg = s
    BY ReportedWait
  <2> QED
    BY <1>2, <2>1, <2>2
<1>3. ASSUME NEW f \in G
      PROVE  /\ HasGlobalOut(G, f.to) \/ MayReport(f.to)
             /\ f.solid \/ HasLocalOut(G, f.seg, f.to)
  <2>1. /\ HasGlobalOut(F, f.to) \/ MayReport(f.to)
        /\ f.solid \/ HasLocalOut(F, f.seg, f.to)
    BY Zenon DEF MayBeStuck
  <2>2. HasGlobalOut(F, f.to) => HasGlobalOut(G, f.to) \/ MayReport(f.to)
    BY <1>1, Zenon DEF HasGlobalOut
  <2>3. HasLocalOut(F, f.seg, f.to) => HasLocalOut(G, f.seg, f.to)
    BY <1>2, Zenon DEF HasLocalOut
  <2> QED
    BY <2>1, <2>2, <2>3
<1>4. G \in SUBSET raw /\ MayBeStuck(G)
  BY <1>3, Zenon DEF MayBeStuck
<1>5. CASE e \in raw
  BY <1>4, <1>5, Zenon DEF ReportsOK
<1>6. CASE e \notin raw
  BY <1>6, ReportedIsAlive
<1> QED
  BY <1>5, <1>6

\* The rows of a report are edges of running transactions.
LEMMA ReportRows ==
  ASSUME TypesOK, GxidsOK, MaxGxid < XidModulus, NEW s \in Segs
  PROVE  \A e \in gp_dist_wait_status(s) :
           e \in Known /\ e.seg = s /\ e.from < nextGxid /\ e.to < nextGxid
<1> SUFFICES ASSUME NEW e \in gp_dist_wait_status(s)
             PROVE  e \in Known /\ e.seg = s /\ e.from < nextGxid /\ e.to < nextGxid
  OBVIOUS
<1>1. e \in Known /\ e.seg = s /\ \E p, q \in Procs : gxid[p] = e.from /\ gxid[q] = e.to
  BY ReportedWait
<1> QED
  BY <1>1, Zenon DEF GxidsOK

\* A segment's report.
LEMMA SegmentKeepsInv ==
  ASSUME RoundInv, MaxGxid < XidModulus, NEW s \in Segs, SegmentReports(s)
  PROVE  RoundInv'
<1>0. TypesOK /\ GxidsOK /\ RoundOK /\ ReportsOK
  BY DEF RoundInv
<1>1. /\ phase = "segments" /\ s \in unread /\ phase' = phase /\ unread' = unread \ {s}
      /\ raw' = raw \cup gp_dist_wait_status(s) /\ quiet' = (quiet /\ MarksAreTrue(s))
      /\ UNCHANGED <<gxid, nextGxid, held, queue, tillEnd, ending, cancelled, victims, pid>>
  BY DEF SegmentReports, txns
<1>2. \A e \in gp_dist_wait_status(s) :
        e \in Known /\ e.seg = s /\ e.from < nextGxid /\ e.to < nextGxid
  BY <1>0, ReportRows
<1>3. TypesOK'
  <2>1. raw' \subseteq Known
    BY <1>0, <1>1, <1>2 DEF TypesOK
  <2>2. quiet' \in BOOLEAN
    BY <1>1
  <2> QED
    BY <1>0, <1>1, <2>1, <2>2 DEF TypesOK, Known
<1>4. GxidsOK'
  BY <1>0, <1>1, DetectorKeepsGxids
<1>5. RoundOK'
  <2>1. s # QD /\ QD \notin unread'
    BY <1>0, <1>1 DEF RoundOK
  <2>2. \A e \in raw' : e.seg \notin unread' \cup {QD} /\ e.from < nextGxid /\ e.to < nextGxid
    BY <1>0, <1>1, <1>2, <2>1, Zenon DEF RoundOK
  <2>3. quiet' => cancelled' = {} /\ \A p \in ending' : ~Waits(p)'
    BY <1>0, <1>1, TablesFrame, Zenon DEF RoundOK
  <2>4. phase' = "segments"
    BY <1>1
  <2> QED
    BY <1>1, <2>1, <2>2, <2>3, <2>4 DEF RoundOK
<1>6. ReportsOK'
  <2> SUFFICES ASSUME quiet', NEW F \in SUBSET (raw \cup gp_dist_wait_status(s)),
                      MayBeStuck(F)', NEW e \in F
               PROVE  Alive(e)'
    BY <1>1, Zenon DEF ReportsOK
  <2>1. MayBeStuck(F)
    BY <1>1, Zenon DEF MayBeStuck, MayReport
  <2>2. Alive(e)
    BY <1>0, <1>1, <2>1, ReportIsSound, Zenon
  <2> QED
    BY <1>1, <2>2, TablesFrame
<1>7. VictimsOK' /\ PidOK'
  BY <1>1 DEF VictimsOK, PidOK
<1> QED
  BY <1>3, <1>4, <1>5, <1>6, <1>7 DEF RoundInv

\* The coordinator's report.
LEMMA CoordinatorKeepsInv ==
  ASSUME RoundInv, MaxGxid < XidModulus, CoordinatorReports
  PROVE  RoundInv'
<1>0. TypesOK /\ GxidsOK /\ RoundOK /\ ReportsOK
  BY DEF RoundInv
<1>1. /\ phase = "segments" /\ phase' = "filter" /\ unread' = unread
      /\ raw' = raw \cup gp_dist_wait_status(QD) /\ quiet' = (quiet /\ MarksAreTrue(QD))
      /\ UNCHANGED <<gxid, nextGxid, held, queue, tillEnd, ending, cancelled, victims, pid>>
  BY DEF CoordinatorReports, txns
<1>2. \A e \in gp_dist_wait_status(QD) : e \in Known /\ e.from < nextGxid /\ e.to < nextGxid
  BY <1>0, QDAssumption, ReportRows
<1>3. TypesOK'
  <2>1. raw' \subseteq Known
    BY <1>0, <1>1, <1>2 DEF TypesOK
  <2>2. quiet' \in BOOLEAN
    BY <1>1
  <2> QED
    BY <1>0, <1>1, <2>1, <2>2 DEF TypesOK, Known
<1>4. GxidsOK'
  BY <1>0, <1>1, DetectorKeepsGxids
<1>5. RoundOK'
  <2>1. QD \notin unread'
    BY <1>0, <1>1 DEF RoundOK
  <2>2. \A e \in raw' : e.from < nextGxid /\ e.to < nextGxid
    BY <1>0, <1>1, <1>2, Zenon DEF RoundOK
  <2>3. quiet' => cancelled' = {} /\ \A p \in ending' : ~Waits(p)'
    BY <1>0, <1>1, TablesFrame, Zenon DEF RoundOK
  <2> QED
    BY <1>1, <2>1, <2>2, <2>3 DEF RoundOK
<1>6. ReportsOK'
  <2> SUFFICES ASSUME quiet', NEW F \in SUBSET (raw \cup gp_dist_wait_status(QD)),
                      MayBeStuck(F)', NEW e \in F
               PROVE  Alive(e)'
    BY <1>1, Zenon DEF ReportsOK
  <2>1. \A v : ~MayReport(v)'
    BY <1>1 DEF MayReport
  <2>2. MayBeStuck(F)
    BY <2>1, Zenon DEF MayBeStuck
  <2>3. Alive(e)
    BY <1>0, <1>1, <2>2, QDAssumption, ReportIsSound, Zenon
  <2> QED
    BY <1>1, <2>3, TablesFrame
<1>7. VictimsOK' /\ PidOK'
  BY <1>1 DEF VictimsOK, PidOK
<1> QED
  BY <1>3, <1>4, <1>5, <1>6, <1>7 DEF RoundInv

\* The deadlocks of a graph are stuck edges of it.
LEMMA DeadlocksAreStuck ==
  ASSUME NEW E
  PROVE  Stuck(Deadlocks(E)) /\ Deadlocks(E) \subseteq E
<1> DEFINE X == Deadlocks(E)
<1>1. X \subseteq E
  BY DEF Deadlocks
<1>2. ASSUME NEW e \in X
      PROVE  /\ HasGlobalIn(X, e.from) /\ HasGlobalOut(X, e.to)
             /\ e.solid \/ HasLocalOut(X, e.seg, e.to)
  <2>1. PICK F \in SUBSET E : Stuck(F) /\ e \in F
    BY Zenon DEF Deadlocks
  <2>2. F \subseteq X
    BY <2>1, Zenon DEF Deadlocks
  <2>3. /\ HasGlobalIn(F, e.from) /\ HasGlobalOut(F, e.to)
        /\ e.solid \/ HasLocalOut(F, e.seg, e.to)
    BY <2>1, Zenon DEF Stuck
  <2> HIDE DEF X
  <2> QED
    BY <2>2, <2>3, Zenon DEF HasGlobalIn, HasGlobalOut, HasLocalOut
<1> HIDE DEF X
<1>3. Stuck(X)
  BY <1>2, Zenon DEF Stuck
<1> QED
  BY <1>1, <1>3 DEF X

\* The start of a round.
LEMMA StartKeepsInv == ASSUME RoundInv, StartRound PROVE RoundInv'
<1>0. TypesOK /\ GxidsOK /\ RoundOK
  BY DEF RoundInv
<1>1. /\ phase = "idle" /\ phase' = "segments" /\ unread' = Segs \ {QD}
      /\ quiet' = (cancelled = {} /\ ending = {})
      /\ UNCHANGED <<gxid, nextGxid, held, queue, tillEnd, ending, cancelled, raw, victims, pid>>
  BY DEF StartRound, txns
<1>2. raw = {}
  BY <1>0, <1>1, Zenon DEF RoundOK
<1>3. TypesOK'
  <2>1. quiet' \in BOOLEAN
    BY <1>1
  <2> QED
    BY <1>0, <1>1, <2>1 DEF TypesOK, Known
<1>4. GxidsOK'
  BY <1>0, <1>1, DetectorKeepsGxids
<1>5. RoundOK'
  BY <1>0, <1>1, <1>2, Zenon DEF RoundOK
<1>6. ReportsOK' /\ VictimsOK' /\ PidOK'
  BY <1>1, <1>2 DEF ReportsOK, VictimsOK, PidOK
<1> QED
  BY <1>3, <1>4, <1>5, <1>6 DEF RoundInv

\* The look-up of a victim.
LEMMA LookupKeepsInv == ASSUME RoundInv, GetPidByGxid PROVE RoundInv'
<1>0. TypesOK /\ GxidsOK /\ RoundOK /\ VictimsOK
  BY DEF RoundInv
<1>1. /\ phase = "lookup" /\ phase' = "signal"
      /\ pid' = {p \in Procs : gxid[p] = Youngest(victims)}
      /\ UNCHANGED <<gxid, nextGxid, held, queue, tillEnd, ending, cancelled, unread, raw,
                     victims, quiet>>
  BY DEF GetPidByGxid, txns
<1>2. raw = {}
  BY <1>0, <1>1 DEF RoundOK
<1>3. TypesOK'
  BY <1>0, <1>1 DEF TypesOK, Known
<1>4. GxidsOK'
  BY <1>0, <1>1, DetectorKeepsGxids
<1>5. RoundOK'
  BY <1>0, <1>1, <1>2 DEF RoundOK
<1>6. ReportsOK'
  BY <1>1, <1>2 DEF ReportsOK
<1>7. VictimsOK'
  <2> SUFFICES ASSUME quiet, NEW v \in victims
               PROVE  \E F \in SUBSET AliveNow' : /\ Stands(F)' /\ v \in Verts(F)
                                                 /\ \A w \in victims : w > v => w \notin Verts(F)
    BY <1>1, Zenon DEF VictimsOK, Verts
  <2>1. PICK F \in SUBSET AliveNow :
          Stands(F) /\ v \in Verts(F) /\ \A w \in victims : w > v => w \notin Verts(F)
    BY <1>0, <1>1 DEF VictimsOK
  <2>2. Stands(F)'
    BY <1>1, <2>1 DEF Stands, Stuck
  <2>3. AliveNow \subseteq AliveNow'
    BY <1>1, TablesFrame
  <2> QED
    BY <2>1, <2>2, <2>3, Zenon
<1>8. PidOK'
  BY <1>1 DEF PidOK
<1> QED
  BY <1>3, <1>4, <1>5, <1>6, <1>7, <1>8 DEF RoundInv

\* The invariant holds at first.
LEMMA RoundInvInit == Init => RoundInv
<1> SUFFICES ASSUME Init PROVE RoundInv
  OBVIOUS
<1>1. TypesOK
  BY GxidAssumption DEF Init, TypesOK, Known
<1>2. GxidsOK
  <2>1. \A p \in Procs : gxid[p] = NoGxid /\ gxid[p] < nextGxid
    BY GxidAssumption DEF Init, NoGxid
  <2>2. \A l \in Locks : Waiters(l) = {} /\ Holders(l) = {}
    BY DEF Init, Waiters, Holders
  <2>3. ending = {} /\ cancelled = {}
    BY DEF Init
  <2> QED
    BY <2>1, <2>2, <2>3, Zenon DEF GxidsOK
<1>3. RoundOK /\ ReportsOK /\ VictimsOK /\ PidOK
  BY DEF Init, RoundOK, ReportsOK, VictimsOK, PidOK
<1> QED
  BY <1>1, <1>2, <1>3 DEF RoundInv

\* A step that changes nothing.
LEMMA StutterKeepsInv == ASSUME RoundInv, UNCHANGED vars PROVE RoundInv'
<1>1. UNCHANGED <<gxid, nextGxid, held, queue, tillEnd, ending, cancelled, phase, unread, raw,
                  victims, pid, quiet>>
  BY DEF vars, txns, gdd
<1>2. TypesOK' /\ GxidsOK'
  BY <1>1, DetectorKeepsGxids DEF RoundInv, TypesOK, Known
<1>3. RoundOK'
  <2>1. \A p : Waits(p)' => Waits(p)
    BY <1>1, TablesFrame
  <2> QED
    BY <1>1, <2>1 DEF RoundInv, RoundOK
<1>4. ReportsOK'
  <2>1. \A e : Alive(e) => Alive(e)'
    BY <1>1, TablesFrame
  <2>2. \A F : MayBeStuck(F)' => MayBeStuck(F)
    BY <1>1, Zenon DEF MayBeStuck, MayReport
  <2> QED
    BY <1>1, <2>1, <2>2, Zenon DEF RoundInv, ReportsOK
<1>5. VictimsOK'
  <2>1. AliveNow \subseteq AliveNow'
    BY <1>1, TablesFrame
  <2>2. \A F : Stands(F) => Stands(F)'
    BY <1>1, Zenon DEF Stands, Stuck, Verts
  <2> QED
    BY <1>1, <2>1, <2>2, Zenon DEF RoundInv, VictimsOK, Verts
<1>6. PidOK'
  BY <1>1 DEF RoundInv, PidOK
<1> QED
  BY <1>2, <1>3, <1>4, <1>5, <1>6 DEF RoundInv

\* The edges of a deadlock that stands give the waits that block each other.
LEMMA StandingIsDeadlocked ==
  ASSUME TypesOK, GxidsOK, NEW F \in SUBSET AliveNow, Stands(F),
         NEW p \in Procs, gxid[p] \in Verts(F)
  PROVE  p \in Deadlocked
<1>1. Stuck(F) /\ \A x \in ending \cup cancelled : gxid[x] \notin Verts(F)
  BY DEF Stands
<1> DEFINE Wit(e, x, l, q) ==
             /\ SegOf[l] = e.seg /\ gxid[x] = e.from /\ gxid[q] = e.to
             /\ InTheWay(l, x, q) /\ (e.solid => KeepsTillEnd(l, q))
           W == {x \in Procs \X Locks : \E e \in F, q \in Procs : Wit(e, x[1], x[2], q)}
<1>2. ASSUME NEW e \in F
      PROVE  \E l \in Locks, x \in Procs, q \in Procs : Wit(e, x, l, q) /\ gxid[x] # NoGxid
  BY Zenon DEF AliveNow, Alive
<1>3. ASSUME NEW e \in F, NEW x \in Procs, gxid[x] = e.from
      PROVE  \E l \in Locks : SegOf[l] = e.seg /\ <<x, l>> \in W
  <2>1. PICK l \in Locks, z \in Procs, q \in Procs : Wit(e, z, l, q) /\ gxid[z] # NoGxid
    BY <1>2, Zenon
  <2>2. z = x
    BY <1>3, <2>1, Zenon DEF GxidsOK
  <2>3. <<x, l>> \in Procs \X Locks /\ <<x, l>>[1] = x /\ <<x, l>>[2] = l
    OBVIOUS
  <2>4. Wit(e, x, l, q)
    BY <2>1, <2>2, Zenon
  <2> HIDE DEF Wit
  <2>5. <<x, l>> \in W
    BY <2>3, <2>4, Zenon
  <2> QED
    BY <2>1, <2>5, Zenon DEF Wit
<1>4. ASSUME NEW x \in W PROVE x \in WaitsNow /\ HolderBlocks(W, x[1], x[2])
  <2>1. x \in Procs \X Locks /\ x[1] \in Procs /\ x[2] \in Locks
    OBVIOUS
  <2>2. PICK e \in F, q \in Procs : Wit(e, x[1], x[2], q)
    OBVIOUS
  <2>3. PICK w \in queue[x[2]], h \in held[x[2]] : w[1] = x[1] /\ h[1] = q /\ Conflict(w[2], h[2])
    BY <2>2, Zenon DEF InTheWay
  <2>4. e.from \in Verts(F)
    BY Zenon DEF Verts
  <2>5. x[1] \in Waiters(x[2]) /\ x[1] \notin ending \cup cancelled
    BY <1>1, <2>2, <2>3, <2>4, Zenon DEF Waiters
  <2>6. x \in WaitsNow
    BY <2>1, <2>5, Zenon DEF WaitsNow
  <2>7. PICK f \in F : f.from = e.to /\ (e.solid \/ f.seg = e.seg)
    BY <1>1, Zenon DEF Stuck, HasGlobalOut, HasLocalOut
  <2>8. gxid[q] = f.from
    BY <2>2, <2>7, Zenon
  <2>9. PICK l \in Locks : SegOf[l] = f.seg /\ <<q, l>> \in W
    BY <1>3, <2>8, Zenon
  <2>10. KeepsTillEnd(x[2], q) \/ SegOf[l] = SegOf[x[2]]
    BY <2>2, <2>7, <2>9, Zenon
  <2>11. <<q, l>>[1] = q /\ <<q, l>>[2] = l
    OBVIOUS
  <2> HIDE DEF W, Wit
  <2>12. HolderBlocks(W, x[1], x[2])
    <3>1. /\ <<q, l>>[1] = h[1]
          /\ \/ KeepsTillEnd(x[2], h[1]) \/ SegOf[x[2]] = QD
             \/ SegOf[<<q, l>>[2]] = SegOf[x[2]]
      BY <2>3, <2>10, <2>11
    <3> QED
      BY <2>3, <2>9, <3>1, Zenon DEF HolderBlocks
  <2> QED
    BY <2>6, <2>12, Zenon
<1>5. PICK e \in F : e.from = gxid[p]
  BY <1>1, VertexWaits
<1>6. PICK l \in Locks : <<p, l>> \in W
  BY <1>3, <1>5, Zenon
<1>7. <<p, l>>[1] = p
  OBVIOUS
<1> HIDE DEF W, Wit
<1>8. W \in SUBSET WaitsNow /\ \A x \in W : HolderBlocks(W, x[1], x[2])
  BY <1>4, Zenon
<1>9. <<p, l>> \in UNION {Z \in SUBSET WaitsNow : \A x \in Z : HolderBlocks(Z, x[1], x[2])}
  BY <1>6, <1>8, Zenon
<1> QED
  BY <1>7, <1>9, Zenon DEF Deadlocked

INSTANCE WellFoundedInduction

\* The youngest of a list of victims is one of them.
LEMMA YoungestOfVictims ==
  ASSUME NEW V \in SUBSET Gxids, V # {}
  PROVE  Youngest(V) \in V /\ \A w \in V : w <= Youngest(V)
<1> DEFINE T == {MaxGxid - v : v \in V}
<1>1. \A v \in V : v \in Nat /\ MaxGxid - v \in Nat
  BY GxidsArePositive, GxidAssumption
<1>2. T \subseteq Nat /\ T # {}
  BY <1>1
<1>3. PICK t \in T : \A y \in T : t <= y
  <2> DEFINE R == OpToRel(<, Nat)
  <2>1. IsWellFoundedOn(R, Nat)
    BY Zenon, NatLessThanWellFounded
  <2>2. \A x, y \in Nat : <<y, x>> \notin R => x <= y
    <3>1. R = {ss \in Nat \X Nat : ss[1] < ss[2]}
      BY Zenon DEF OpToRel
    <3> HIDE DEF R
    <3> QED
      BY <3>1
  <2> HIDE DEF R, T
  <2>3. PICK x \in T : \A y \in T : <<y, x>> \notin R
    BY Zenon, <1>2, <2>1, WFMin
  <2> QED
    BY Zenon, <1>2, <2>2, <2>3
<1>4. PICK m \in V : t = MaxGxid - m
  BY <1>3
<1>5. ASSUME NEW w \in V PROVE w <= m
  <2>1. MaxGxid - w \in T
    OBVIOUS
  <2>2. MaxGxid - m <= MaxGxid - w
    BY <1>3, <1>4, <2>1
  <2> QED
    BY <1>1, <2>2, GxidAssumption
<1>6. \E v \in V : \A w \in V : w <= v
  BY <1>5
<1> HIDE DEF T
<1> QED
  BY <1>6, Zenon DEF Youngest

\* The backend that was looked up runs the victim until it is signalled.
LEMMA BackendKeepsPid ==
  ASSUME TypesOK, GxidsOK, RoundOK, VictimsOK, PidOK, NEW r \in Procs, Client(r) \/ EndStep(r)
  PROVE  PidOK'
<1>1. UNCHANGED <<phase, victims, pid>> /\ (quiet' => quiet)
  BY BackendFrame DEF TypesOK
<1> SUFFICES ASSUME quiet', phase = "signal", NEW p \in pid
             PROVE  gxid'[p] = Youngest(victims)
  BY <1>1, Zenon DEF PidOK
<1>2. gxid[p] = Youngest(victims)
  BY <1>1, Zenon DEF PidOK
<1>3. victims # {} /\ victims \in SUBSET Gxids /\ p \in Procs
  BY DEF RoundOK, TypesOK
<1>4. Youngest(victims) \in victims
  BY <1>3, YoungestOfVictims
<1>5. PICK F \in SUBSET AliveNow : Stands(F) /\ gxid[p] \in Verts(F)
  BY <1>1, <1>2, <1>4, Zenon DEF VictimsOK
<1>6. p \notin ending
  BY <1>5, Zenon DEF Stands
<1>7. gxid[p] # NoGxid
  BY <1>2, <1>3, <1>4, GxidsArePositive
<1>8. gxid'[p] = gxid[p]
  BY <1>3, <1>6, <1>7, BackendGxids DEF TypesOK
<1> QED
  BY <1>2, <1>8, Zenon

\* A step of a backend.
LEMMA BackendKeepsInv ==
  ASSUME RoundInv, NEW r \in Procs, Client(r) \/ EndStep(r)
  PROVE  RoundInv'
<1>1. TypesOK /\ GxidsOK /\ RoundOK /\ ReportsOK /\ VictimsOK /\ PidOK
  BY DEF RoundInv
<1>2. TypesOK' /\ GxidsOK'
  BY <1>1, BackendTypes, BackendKeepsGxids
<1>3. RoundOK' /\ ReportsOK'
  BY <1>1, BackendKeepsRound, BackendKeepsReports
<1>4. VictimsOK' /\ PidOK'
  BY <1>1, BackendKeepsVictims, BackendKeepsPid
<1> QED
  BY <1>2, <1>3, <1>4 DEF RoundInv

\* A victim is in a deadlock that the younger victims do not break, and that
\* is the case when the decision is taken.
LEMMA VictimIsDeadlocked ==
  ASSUME TypesOK, GxidsOK, RoundOK, ReportsOK, quiet, phase = "filter",
         NEW V \in SUBSET Gxids, BreaksDeadLock(buildWaitGraph, V), NEW v \in V
  PROVE  \E F \in SUBSET AliveNow :
           Stands(F) /\ v \in Verts(F) /\ \A w \in V : w > v => w \notin Verts(F)
<1> DEFINE E == Without(buildWaitGraph, {w \in V : w > v})
           F == Deadlocks(E)
<1>1. F # {} /\ v = Youngest(Verts(F))
  BY Zenon DEF BreaksDeadLock
<1>2. Stuck(F) /\ F \subseteq E
  BY DeadlocksAreStuck
<1>3. E \subseteq raw /\ \A e \in E : \A w \in V : w > v => ~Touches(e, w)
  BY DEF Without, buildWaitGraph
<1> HIDE DEF E, F
<1>4. F \in SUBSET raw
  BY <1>2, <1>3
<1>5. MayBeStuck(F)
  BY <1>2, Zenon DEF MayBeStuck, Stuck
<1>6. \A e \in F : /\ e \in Known /\ Alive(e)
                   /\ \A x \in ending : gxid[x] # e.from /\ gxid[x] # e.to
  BY <1>4, <1>5, ReportsAreSteady
<1>7. F \in SUBSET AliveNow
  BY <1>6, Zenon DEF AliveNow
<1>8. cancelled = {}
  BY DEF RoundOK
<1>9. Stands(F)
  BY <1>2, <1>6, <1>8, Zenon DEF Stands, Verts
<1>10. v \in Verts(F)
  <2>1. Verts(F) \in SUBSET Gxids
    BY <1>6 DEF Verts, Known
  <2>2. Verts(F) # {}
    BY <1>1 DEF Verts
  <2> QED
    BY <1>1, <2>1, <2>2, YoungestOfVictims
<1>11. \A w \in V : w > v => w \notin Verts(F)
  BY <1>2, <1>3, Zenon DEF Verts, Touches
<1> QED
  BY <1>7, <1>9, <1>10, <1>11, Zenon

\* The decision.
LEMMA CheckKeepsInv == ASSUME RoundInv, doDeadLockCheck PROVE RoundInv'
<1>0. TypesOK /\ GxidsOK /\ RoundOK /\ ReportsOK
  BY DEF RoundInv
<1>1. /\ phase = "filter" /\ raw' = {}
      /\ UNCHANGED <<gxid, nextGxid, held, queue, tillEnd, ending, cancelled, unread, pid>>
  BY DEF doDeadLockCheck, txns
<1>2. PICK V \in SUBSET Gxids :
        /\ BreaksDeadLock(buildWaitGraph, V)
        /\ victims' = V
        /\ phase' = IF V = {} THEN "idle" ELSE "lookup"
        /\ quiet' = (quiet \/ V = {})
  BY Zenon DEF doDeadLockCheck
<1>3. TypesOK'
  <2>1. quiet' \in BOOLEAN
    BY <1>2
  <2> QED
    BY <1>0, <1>1, <1>2, <2>1 DEF TypesOK
<1>4. GxidsOK'
  BY <1>0, <1>1, DetectorKeepsGxids
<1>5. RoundOK'
  BY <1>0, <1>1, <1>2, Zenon DEF RoundOK
<1>6. ReportsOK'
  BY <1>1 DEF ReportsOK
<1>7. VictimsOK'
  <2> SUFFICES ASSUME quiet', phase' \in {"lookup", "signal"}, NEW v \in V
               PROVE  \E F \in SUBSET AliveNow' :
                        Stands(F)' /\ v \in Verts(F) /\ \A w \in V : w > v => w \notin Verts(F)
    BY <1>2, Zenon DEF VictimsOK, Verts
  <2>1. quiet
    BY <1>2, Zenon
  <2>2. PICK F \in SUBSET AliveNow :
          Stands(F) /\ v \in Verts(F) /\ \A w \in V : w > v => w \notin Verts(F)
    BY <1>0, <1>1, <1>2, <2>1, VictimIsDeadlocked
  <2>3. Stands(F)'
    BY <1>1, <2>2 DEF Stands, Stuck
  <2>4. AliveNow \subseteq AliveNow'
    BY <1>1, TablesFrame
  <2> QED
    BY <2>2, <2>3, <2>4, Zenon
<1>8. PidOK'
  BY <1>2 DEF PidOK
<1> QED
  BY <1>3, <1>4, <1>5, <1>6, <1>7, <1>8 DEF RoundInv

\* The signal: it breaks no deadlock of a victim still on the list.
LEMMA SignalKeepsInv == ASSUME RoundInv, pg_cancel_backend_msg PROVE RoundInv'
<1>0. TypesOK /\ GxidsOK /\ RoundOK /\ VictimsOK /\ PidOK
  BY DEF RoundInv
<1> DEFINE y == Youngest(victims)
<1>1. /\ phase = "signal"
      /\ cancelled' = cancelled \cup {p \in pid : gxid[p] # NoGxid /\ p \notin ending}
      /\ victims' = victims \ {y}
      /\ phase' = IF victims' = {} THEN "idle" ELSE "lookup"
      /\ pid' = {} /\ quiet' = (quiet \/ victims' = {})
      /\ UNCHANGED <<gxid, nextGxid, held, queue, tillEnd, ending, unread, raw>>
  BY DEF pg_cancel_backend_msg, locks
<1>2. y \in victims /\ \A w \in victims : w <= y
  BY <1>0, <1>1, YoungestOfVictims DEF RoundOK, TypesOK
<1> HIDE DEF y
<1>3. raw = {}
  BY <1>0, <1>1 DEF RoundOK
<1>4. TypesOK'
  <2>1. quiet' \in BOOLEAN
    BY <1>1
  <2>2. cancelled' \subseteq Procs
    BY <1>0, <1>1 DEF TypesOK
  <2> QED
    BY <1>0, <1>1, <2>1, <2>2 DEF TypesOK, Known
<1>5. GxidsOK'
  BY <1>0, <1>1, DetectorKeepsGxids
<1>6. RoundOK'
  BY <1>0, <1>1, <1>3 DEF RoundOK
<1>7. ReportsOK'
  BY <1>1, <1>3 DEF ReportsOK
<1>8. VictimsOK'
  <2> SUFFICES ASSUME quiet', phase' \in {"lookup", "signal"}, NEW v \in victims'
               PROVE  \E F \in SUBSET AliveNow' : /\ Stands(F)' /\ v \in Verts(F)
                                                 /\ \A w \in victims' : w > v => w \notin Verts(F)
    BY Zenon DEF VictimsOK, Verts
  <2>1. quiet /\ v \in victims /\ v # y
    BY <1>1, Zenon
  <2>2. PICK F \in SUBSET AliveNow :
          Stands(F) /\ v \in Verts(F) /\ \A w \in victims : w > v => w \notin Verts(F)
    BY <1>0, <1>1, <2>1 DEF VictimsOK
  <2>3. y \notin Verts(F)
    <3>1. v \in Nat /\ y \in Nat
      BY <1>0, <1>2, <2>1, GxidsArePositive DEF TypesOK
    <3>2. y > v
      BY <1>2, <2>1, <3>1
    <3> QED
      BY <1>2, <2>2, <3>2
  <2>4. \A p \in pid : gxid[p] = y
    BY <1>0, <1>1, <2>1 DEF PidOK, y
  <2>5. \A p \in ending' \cup cancelled' : gxid'[p] \notin Verts(F)
    BY <1>1, <2>2, <2>3, <2>4 DEF Stands
  <2>6. Stands(F)'
    BY <2>2, <2>5 DEF Stands, Stuck
  <2>7. AliveNow \subseteq AliveNow' /\ victims' \subseteq victims
    BY <1>1, TablesFrame
  <2> QED
    BY <2>2, <2>6, <2>7, Zenon
<1>9. PidOK'
  BY <1>1 DEF PidOK
<1> QED
  BY <1>4, <1>5, <1>6, <1>7, <1>8, <1>9 DEF RoundInv

\* Every step keeps the invariant.
LEMMA RoundInvNext ==
  ASSUME MaxGxid < XidModulus
  PROVE  RoundInv /\ [Next]_vars => RoundInv'
<1> SUFFICES ASSUME RoundInv, [Next]_vars PROVE RoundInv'
  OBVIOUS
<1>1. CASE Detector
  BY <1>1, StartKeepsInv, SegmentKeepsInv, CoordinatorKeepsInv, CheckKeepsInv,
     LookupKeepsInv, SignalKeepsInv DEF Detector
<1>2. ASSUME NEW r \in Procs, Client(r) \/ EndStep(r) PROVE RoundInv'
  BY <1>2, BackendKeepsInv
<1>3. CASE UNCHANGED vars
  BY <1>3, StutterKeepsInv
<1> QED
  BY <1>1, <1>2, <1>3 DEF Next

\* No false alarm: in a round without other cancels or stale marks breakDeadLock
\* signals only backends that run the victim and are deadlocked at that moment,
\* for any number of backends, locks and segments, as long as gxids fit the
\* TransactionId they are reported in.
THEOREM SignalsOnlyDeadlockedAlways ==
  ASSUME MaxGxid < XidModulus
  PROVE  Spec => SignalsOnlyDeadlocked
<1>1. ASSUME RoundInv, phase = "signal", quiet, NEW p \in pid
      PROVE  gxid[p] = Youngest(victims) /\ p \in Deadlocked
  <2>1. TypesOK /\ GxidsOK /\ RoundOK /\ VictimsOK /\ PidOK
    BY <1>1 DEF RoundInv
  <2>2. gxid[p] = Youngest(victims) /\ p \in Procs
    BY <1>1, <2>1 DEF PidOK, TypesOK
  <2>3. Youngest(victims) \in victims
    BY <1>1, <2>1, YoungestOfVictims DEF RoundOK, TypesOK
  <2>4. PICK F \in SUBSET AliveNow : Stands(F) /\ gxid[p] \in Verts(F)
    BY <1>1, <2>1, <2>2, <2>3 DEF VictimsOK
  <2> QED
    BY <2>1, <2>2, <2>4, StandingIsDeadlocked
<1>2. RoundInv /\ [Next]_vars =>
        [phase = "signal" /\ phase' # "signal" /\ quiet =>
           \A p \in pid : gxid[p] = Youngest(victims) /\ p \in Deadlocked]_vars
  BY <1>1
<1> QED
  BY <1>2, RoundInvInit, RoundInvNext, PTL DEF Spec, SignalsOnlyDeadlocked
=============================================================================
