----------------------------- MODULE GddReduce -----------------------------
(***************************************************************************)
(* The algorithm of the global deadlock detector (gdddetector.c): the      *)
(* wait-for graphs of the segments are reduced until nothing can be        *)
(* deleted, and while edges remain the youngest transaction is removed,    *)
(* listed for cancellation, and the graphs are reduced again.              *)
(***************************************************************************)
EXTENDS WaitGraph

CONSTANTS Vids,        \* vertices: distributed transaction ids
          Inputs,      \* the edge sets the detector may be given
          IntModulus   \* 2^32: an int keeps a value modulo this, as a signed number

Edge == [seg : Segs, from : Vids, to : Vids, solid : BOOLEAN]

ASSUME VidAssumption == Vids \subseteq Nat \ {0}
\* Transaction ids are 64-bit numbers: any set of them has a largest.
ASSUME MaxAssumption ==
  \A V \in SUBSET Vids : V # {} => \E m \in V : \A w \in V : w <= m
ASSUME InputAssumption == \A E \in Inputs : E \subseteq Edge
ASSUME ModulusAssumption == IntModulus \in Nat \ {0}

VARIABLES input,   \* the edges GddCtxAddEdge put in the context (history)
          edges,   \* the edges still linked
          vids     \* the list GddCtxBreakDeadLock returns

graph == <<input, edges, vids>>

\* What is still linked was in the input and touches nobody already listed.
LinkedOK ==
  /\ input \subseteq Edge
  /\ edges \subseteq Without(input, vids)
  /\ vids \subseteq Int

-----------------------------------------------------------------------------
\* A mutant: solid edges into a vertex with no local out edge are dropped too.
UnlinksSolidToo(s, v) ==
  IF ~HasGlobalIn(edges, v) \/ ~HasGlobalOut(edges, v)
  THEN {e \in edges : e.seg = s /\ Touches(e, v)}
  ELSE {e \in edges : e.seg = s /\ e.to = v /\ ~HasLocalOut(edges, s, v)}

\* gddVertReduce: what reducing vertex v of segment s unlinks.
gddVertReduce(s, v) ==
  IF ~HasGlobalIn(edges, v) \/ ~HasGlobalOut(edges, v)
  THEN {e \in edges : e.seg = s /\ Touches(e, v)}
  ELSE {e \in edges : e.seg = s /\ e.to = v /\ ~e.solid /\ ~HasLocalOut(edges, s, v)}

\* One dirty visit of GddCtxReduce; the sweep may meet the vertices in any order.
GddCtxReduce(s, v) ==
  /\ gddVertReduce(s, v) # {}
  /\ edges' = edges \ gddVertReduce(s, v)
  /\ UNCHANGED <<input, vids>>

\* The sweep that finds nothing to delete ends the loop of GddCtxReduce.
Reduced == \A s \in Segs, v \in Vids : gddVertReduce(s, v) = {}

\* Conversion to int: the low bits, read as a two's complement number.
AsInt(n) == LET low == n % IntModulus
            IN IF low >= IntModulus \div 2 THEN low - IntModulus ELSE low

gddCtxGetMaxVid == AsInt(Youngest(Verts(edges)))

\* A mutant: the vertex is removed from the graph of one segment only.
RemovesFromOneGraph(v) ==
  {e \in edges : ~Touches(e, v) \/ e.seg # (CHOOSE s \in Segs : TRUE)}

gddCtxRemoveVid(v) == Without(edges, {v})

\* A mutant: the graph is not reduced again after a victim is removed.
BreakWithoutReducing ==
  /\ edges # {}
  /\ Reduced \/ vids # {}
  /\ edges' = gddCtxRemoveVid(gddCtxGetMaxVid)
  /\ vids' = vids \cup {gddCtxGetMaxVid}
  /\ UNCHANGED input

\* A mutant: only one cycle is broken in a round.
BreakOnce ==
  /\ edges # {}
  /\ Reduced
  /\ edges' = {}
  /\ vids' = vids \cup {gddCtxGetMaxVid}
  /\ UNCHANGED input

\* One turn of GddCtxBreakDeadLock.
GddCtxBreakDeadLock ==
  /\ edges # {}
  /\ Reduced
  /\ edges' = gddCtxRemoveVid(gddCtxGetMaxVid)
  /\ vids' = vids \cup {gddCtxGetMaxVid}
  /\ UNCHANGED input

\* GddCtxEmpty ends both loops.
Finished == edges = {} /\ UNCHANGED graph

GddCtxNew == input \in Inputs /\ edges = input /\ vids = {}
ReduceNext == \/ \E s \in Segs, v \in Vids : GddCtxReduce(s, v)
              \/ GddCtxBreakDeadLock
              \/ Finished
ReduceSpec == GddCtxNew /\ [][ReduceNext]_graph

\* The detector is one process: as long as its loops can go on, they do.
FairReduceSpec == ReduceSpec /\ WF_graph(ReduceNext)

-----------------------------------------------------------------------------
\* GddCtxReduce leaves exactly the deadlocks, whatever the order in which it
\* visits the vertices: it deletes no edge of one and keeps nothing else.
LeavesDeadlocks == Reduced => edges = Deadlocks(Without(input, vids))

\* When GddCtxBreakDeadLock returns, every deadlock of the input has lost one
\* of its transactions to the list of those to be cancelled.
EveryDeadlockLosesAVictim ==
  edges = {} => \A F \in SUBSET input :
                   Stuck(F) /\ F # {} => \E e \in F, v \in vids : Touches(e, v)

\* GddCtxBreakDeadLock cancels nobody in vain: a transaction joins the list only
\* if it is in a deadlock that the cancellations already decided leave intact.
NoVictimInVain ==
  [][vids' # vids =>
       vids' \ vids \subseteq Verts(Deadlocks(Without(input, vids)))]_graph

\* GddCtxBreakDeadLock returns: in the end no edge is left.
BreakReturns == <>(edges = {})
=============================================================================
