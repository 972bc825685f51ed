---------------------------- MODULE MCGddReduce ----------------------------
(***************************************************************************)
(* Three transactions on two segments, every graph of up to MaxEdges       *)
(* edges.                                                                  *)
(***************************************************************************)
EXTENDS GddReduce

CONSTANTS FirstVid, MaxEdges

MCSegs == {-1, 0}
MCVids == FirstVid .. FirstVid + 2
Proper == {e \in [seg : MCSegs, from : MCVids, to : MCVids, solid : BOOLEAN] :
             e.from # e.to}
MCInputs ==
  LET UpTo[k \in 0 .. MaxEdges] ==
        IF k = 0 THEN {{}}
        ELSE UpTo[k - 1] \cup {E \cup {e} : E \in UpTo[k - 1], e \in Proper}
  IN UpTo[MaxEdges]
=============================================================================
