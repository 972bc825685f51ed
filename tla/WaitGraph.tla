----------------------------- MODULE WaitGraph -----------------------------
(***************************************************************************)
(* Wait-for graphs of the global deadlock detector (gdddetector.c): sets   *)
(* of edges [seg, from, to, solid].  Transaction from waits on segment seg *)
(* for a lock that transaction to holds.                                   *)
(*                                                                         *)
(* A solid edge lasts until its holder ends; a dotted one may disappear    *)
(* as soon as the holder's process on that segment goes on.  Parallel      *)
(* edges of the same kind count once: every test of the algorithm is       *)
(* whether a degree is zero.  Vertices are those with an edge; the code's  *)
(* maps may keep edgeless ones, which every use skips.                     *)
(***************************************************************************)
EXTENDS Integers

CONSTANT Segs          \* segment indexes, the coordinator's included

Touches(e, v) == e.from = v \/ e.to = v
Without(E, V) == {e \in E : \A v \in V : ~Touches(e, v)}
Verts(E) == {e.from : e \in E} \cup {e.to : e \in E}

\* The transaction with the largest id is the youngest.
Youngest(V) == CHOOSE v \in V : \A w \in V : w <= v

\* Global degrees count the edges of every segment, local ones those of a segment.
HasGlobalIn(E, v) == \E e \in E : e.to = v
HasGlobalOut(E, v) == \E e \in E : e.from = v
HasLocalOut(E, s, v) == \E e \in E : e.seg = s /\ e.from = v

\* What the edges are about.  A set of edges is stuck when no rule applies to
\* it: everyone who waits is waited for and everyone who is waited for waits,
\* and the holder of a dotted edge is itself blocked on that edge's segment.
Stuck(F) == \A e \in F : /\ HasGlobalIn(F, e.from)
                         /\ HasGlobalOut(F, e.to)
                         /\ e.solid \/ HasLocalOut(F, e.seg, e.to)

\* The deadlocks of E: the largest stuck subset.
Deadlocks(E) == UNION {F \in SUBSET E : Stuck(F)}
=============================================================================
