-------------------------------- MODULE Gdd --------------------------------
(***************************************************************************)
(* The global deadlock detector at work (gddbackend.c, gddfuncs.c) on      *)
(* distributed transactions that take and wait for heavyweight locks       *)
(* (lock.c, proc.c) on the coordinator and on the segments.                *)
(*                                                                         *)
(* Each segment reports its wait-for edges at a moment of its own, the     *)
(* coordinator last; transactions go on meanwhile.  The edges between      *)
(* transactions the coordinator still knows are reduced as in GddReduce,   *)
(* and the backends of the victims are looked up and signalled one by one. *)
(*                                                                         *)
(* A lock is an xid lock, held until its transaction ends, a tuple lock,   *)
(* released during the statement, or a relation lock, released early       *)
(* unless it was closed with NoLock.  Two modes stand for the eight: S     *)
(* conflicts with X only, X with both.                                     *)
(***************************************************************************)
EXTENDS WaitGraph, FiniteSets

CONSTANTS Procs,         \* dispatcher backends, with their writer process on every segment
          QD,            \* the segment index of the coordinator
          Locks,         \* lock tags
          SegOf, KindOf, \* the segment and the kind of each lock tag
          Modes,         \* a subset of {"S", "X"}
          FirstGxid, MaxGxid,  \* the transactions that take place
          MaxCancels,    \* how many statements clients cancel
          XidModulus     \* 2^32: what a TransactionId keeps of a gxid

Kinds == {"xid", "tuple", "relation"}

ASSUME QDAssumption == QD \in Segs
ASSUME LockAssumption == SegOf \in [Locks -> Segs] /\ KindOf \in [Locks -> Kinds]
ASSUME ModeAssumption == Modes \subseteq {"S", "X"}
ASSUME GxidAssumption == FirstGxid \in Nat \ {0} /\ MaxGxid \in Nat
ASSUME XidAssumption == XidModulus \in Nat \ {0}

NoGxid == 0
Gxids == FirstGxid .. MaxGxid

VARIABLES
  gxid,       \* TMGXACT.gxid of each backend
  nextGxid,
  held,       \* granted requests of each lock: pairs <<backend, mode>>
  queue,      \* waitProcs of each lock: the same pairs ...
  ahead,      \* ... in order: pairs of requests, the first further ahead
  tillEnd,    \* pairs <<lock, backend>>: closed with NoLock, kept until the end
  flagged,    \* locks whose LOCK entry has holdTillEndXact set
  ending,     \* backends that are committing or aborting
  cancelled,  \* backends with a query cancel pending
  cancels,    \* cancels clients have sent
  phase,      \* where the detector is in its round
  unread,     \* segments that have not reported yet
  raw,        \* rows of gp_dist_wait_status()
  victims,    \* gxids still to be cancelled in this round
  pid,        \* the backend GetPidByGxid has found for the victim at hand
  quiet       \* since this round began no cancel was pending or sent, and no
              \* segment reported a mark left by an earlier holder (history)

txns == <<gxid, nextGxid, held, queue, ahead, tillEnd, flagged, ending, cancelled, cancels>>
locks == <<held, queue, ahead, tillEnd, flagged>>
gdd == <<phase, unread, raw, victims, pid>>
vars == <<txns, gdd, quiet>>

TypeOK ==
  /\ gxid \in [Procs -> Gxids \cup {NoGxid}]
  /\ nextGxid \in FirstGxid .. MaxGxid + 1
  /\ held \in [Locks -> SUBSET (Procs \X Modes)]
  /\ queue \in [Locks -> SUBSET (Procs \X Modes)]
  /\ \A l \in Locks : ahead[l] \subseteq queue[l] \X queue[l]
  /\ tillEnd \subseteq Locks \X Procs
  /\ flagged \subseteq Locks
  /\ ending \subseteq Procs /\ cancelled \subseteq Procs
  /\ phase \in {"idle", "segments", "filter", "lookup", "signal"}
  /\ unread \subseteq Segs
  /\ raw \subseteq [seg : Segs, from : Nat, to : Nat, solid : BOOLEAN]
  /\ victims \subseteq Gxids
  /\ pid \in SUBSET Procs /\ Cardinality(pid) <= 1
  \* Granted requests are compatible, and whoever waits for a lock has to.
  /\ \A l \in Locks : \A g, h \in held[l] : g # h => g[2] = "S" /\ h[2] = "S"
  /\ \A l \in Locks : queue[l] # {} => held[l] # {}

-----------------------------------------------------------------------------
\* The lock manager.

Conflict(m, n) == m = "X" \/ n = "X"
Holders(l) == {h[1] : h \in held[l]}
Waiters(l) == {w[1] : w \in queue[l]}
WaitsOn(p, s) == \E l \in Locks : SegOf[l] = s /\ p \in Waiters(l)
Waits(p) == \E s \in Segs : WaitsOn(p, s)

\* Backend p keeps l until its transaction ends.
KeepsTillEnd(l, p) == KindOf[l] = "xid" \/ <<l, p>> \in tillEnd

\* The process of backend p on s can go on: it is not asleep there, a statement
\* reaches the segments after the coordinator has its locks, and the coordinator
\* does nothing else before the statement is over on the segments.
Runs(p, s) ==
  /\ gxid[p] # NoGxid /\ p \notin ending
  /\ IF s = QD
     THEN /\ ~Waits(p)
          /\ \A l \in Locks : SegOf[l] # QD /\ p \in Holders(l) => KeepsTillEnd(l, p)
     ELSE ~WaitsOn(p, s) /\ ~WaitsOn(p, QD)

\* ProcLockWakeup: of the requests Q grant those that conflict neither with
\* what is held, H, nor with a request further ahead.
ProcLockWakeup(l, H, Q) ==
  {w \in Q : /\ \A h \in H : ~Conflict(w[2], h[2])
             /\ \A a \in Q : <<a, w>> \in ahead[l] => ~Conflict(w[2], a[2])}

\* The requests for lock l that are left when backend p gives up its own, granted
\* or not, and those that are granted then.
HeldBut(l, p) == {h \in held[l] : h[1] # p}
QueueBut(l, p) == {w \in queue[l] : w[1] # p}
Woken(l, p) == ProcLockWakeup(l, HeldBut(l, p), QueueBut(l, p))

\* Backend p gives up the locks of L; a LOCK entry nobody uses is removed, and
\* with it its holdTillEndXact flag.
Drop(p, L) ==
  /\ held' = [l \in Locks |-> IF l \in L THEN HeldBut(l, p) \cup Woken(l, p) ELSE held[l]]
  /\ queue' = [l \in Locks |-> IF l \in L THEN QueueBut(l, p) \ Woken(l, p) ELSE queue[l]]
  /\ ahead' = [l \in Locks |-> ahead[l] \cap (queue'[l] \X queue'[l])]
  /\ tillEnd' = {t \in tillEnd : ~(t[1] \in L /\ t[2] = p)}
  /\ flagged' = {l \in flagged : held'[l] # {}}

\* LockAcquire: behind a conflicting request or against a conflicting holder,
\* sleep at the end of the queue; else the lock is granted.  Rows are taken
\* exclusively.
LockAcquire(p, l, m) ==
  /\ Runs(p, SegOf[l])
  /\ m = "S" => KindOf[l] = "relation"
  /\ p \notin Holders(l)
  /\ IF \/ \E w \in queue[l] : Conflict(m, w[2])
        \/ \E h \in held[l] : Conflict(m, h[2])
     THEN /\ queue' = [queue EXCEPT ![l] = @ \cup {<<p, m>>}]
          /\ ahead' = [ahead EXCEPT ![l] = @ \cup (queue[l] \X {<<p, m>>})]
          /\ UNCHANGED held
     ELSE held' = [held EXCEPT ![l] = @ \cup {<<p, m>>}] /\ UNCHANGED <<queue, ahead>>
  /\ UNCHANGED <<gxid, nextGxid, tillEnd, flagged, ending, cancelled, cancels, gdd, quiet>>

\* relation_close with a lock mode, UnlockTuple: back before the transaction ends.
LockRelease(p, l) ==
  /\ Runs(p, SegOf[l])
  /\ p \in Holders(l)
  /\ ~KeepsTillEnd(l, p)
  /\ Drop(p, {l})
  /\ UNCHANGED <<gxid, nextGxid, ending, cancelled, cancels, gdd, quiet>>

\* relation_close with NoLock: LockSetHoldTillEndXact marks the LOCK entry.
LockSetHoldTillEndXact(p, l) ==
  /\ Runs(p, SegOf[l])
  /\ p \in Holders(l)
  /\ KindOf[l] = "relation" /\ <<l, p>> \notin tillEnd
  /\ tillEnd' = tillEnd \cup {<<l, p>>}
  /\ flagged' = flagged \cup {l}
  /\ UNCHANGED <<gxid, nextGxid, held, queue, ahead, ending, cancelled, cancels, gdd, quiet>>

-----------------------------------------------------------------------------
\* Transactions.

Begin(p) ==
  /\ gxid[p] = NoGxid /\ nextGxid <= MaxGxid
  /\ gxid' = [gxid EXCEPT ![p] = nextGxid]
  /\ nextGxid' = nextGxid + 1
  /\ UNCHANGED <<locks, ending, cancelled, cancels, gdd, quiet>>

\* Commit or rollback by the client, or abort because a cancel interrupts a wait.
StartEnd(p) ==
  /\ gxid[p] # NoGxid /\ p \notin ending
  /\ ~Waits(p) \/ p \in cancelled
  /\ ending' = ending \cup {p}
  /\ cancelled' = cancelled \ {p}
  /\ UNCHANGED <<gxid, nextGxid, locks, cancels, gdd, quiet>>

Uses(p, s) == \E l \in Locks : SegOf[l] = s /\ p \in Holders(l) \cup Waiters(l)

\* The end of the transaction reaches a segment, which releases its locks.
EndOnSegment(p, s) ==
  /\ p \in ending /\ s # QD /\ Uses(p, s)
  /\ Drop(p, {l \in Locks : SegOf[l] = s})
  /\ UNCHANGED <<gxid, nextGxid, ending, cancelled, cancels, gdd, quiet>>

\* All segments have answered: the gxid leaves the proc array and the
\* coordinator's locks go.
EndOnCoordinator(p) ==
  /\ p \in ending /\ \A s \in Segs \ {QD} : ~Uses(p, s)
  /\ gxid' = [gxid EXCEPT ![p] = NoGxid]
  /\ ending' = ending \ {p}
  /\ cancelled' = cancelled \ {p}
  /\ Drop(p, {l \in Locks : SegOf[l] = QD})
  /\ UNCHANGED <<nextGxid, cancels, gdd, quiet>>

\* A client cancels its statement.
ClientCancel(p) ==
  /\ cancels < MaxCancels
  /\ gxid[p] # NoGxid /\ p \notin ending
  /\ cancels' = cancels + 1
  /\ cancelled' = cancelled \cup {p}
  /\ quiet' = (quiet /\ phase = "idle")
  /\ UNCHANGED <<gxid, nextGxid, locks, ending, gdd>>

\* A cancel that finds no statement running does nothing.
IgnoreCancel(p) ==
  /\ p \in cancelled /\ ~Waits(p)
  /\ cancelled' = cancelled \ {p}
  /\ UNCHANGED <<gxid, nextGxid, locks, ending, cancels, gdd, quiet>>

-----------------------------------------------------------------------------
\* The detector.

\* A mutant: every edge is dotted.
NeverSolid(l) == FALSE

lockIsHoldTillEndXact(l) == KindOf[l] = "xid" \/ l \in flagged

\* gp_dist_wait_status on segment s: one edge per request not granted and
\* conflicting grant.  The gxids go through 32-bit variables.
gp_dist_wait_status(s) ==
  UNION {{[seg |-> s, from |-> gxid[x[1][1]] % XidModulus, to |-> gxid[x[2][1]] % XidModulus,
           solid |-> lockIsHoldTillEndXact(l)] :
             x \in {x \in queue[l] \X held[l] : Conflict(x[1][2], x[2][2])}} :
           l \in {l \in Locks : SegOf[l] = s}}

StartRound ==
  /\ phase = "idle"
  /\ phase' = "segments"
  /\ unread' = Segs \ {QD}
  /\ quiet' = (cancelled = {} /\ ending = {})
  /\ UNCHANGED <<txns, raw, victims, pid>>

\* Every lock of s with the holdTillEndXact flag is kept by all who hold it now.
MarksAreTrue(s) ==
  \A l \in flagged : SegOf[l] = s => \A p \in Holders(l) : KeepsTillEnd(l, p)

\* A segment answers the dispatched query.
SegmentReports(s) ==
  /\ phase = "segments" /\ s \in unread
  /\ unread' = unread \ {s}
  /\ raw' = raw \cup gp_dist_wait_status(s)
  /\ quiet' = (quiet /\ MarksAreTrue(s))
  /\ UNCHANGED <<txns, phase, victims, pid>>

\* The coordinator reads its own lock table after the dispatch.
CoordinatorReports ==
  /\ phase = "segments" /\ unread = {}
  /\ phase' = "filter"
  /\ raw' = raw \cup gp_dist_wait_status(QD)
  /\ quiet' = (quiet /\ MarksAreTrue(QD))
  /\ UNCHANGED <<txns, unread, victims, pid>>

ListAllGxid == {gxid[p] : p \in Procs} \ {NoGxid}

\* buildWaitGraph skips the edges with a transaction that is over.
buildWaitGraph == {e \in raw : e.from \in ListAllGxid /\ e.to \in ListAllGxid}

\* A mutant: everyone in a deadlock is cancelled.
CancelsEveryone(E, V) == V = Verts(Deadlocks(E))

\* V is the list GddCtxBreakDeadLock makes of the graph E: the youngest of what
\* the younger victims leave, until nothing is left.
BreaksDeadLock(E, V) ==
  /\ Deadlocks(Without(E, V)) = {}
  /\ \A v \in V : LET left == Deadlocks(Without(E, {w \in V : w > v}))
                  IN left # {} /\ v = Youngest(Verts(left))

\* doDeadLockCheck after the query: filter, reduce, decide.
doDeadLockCheck ==
  /\ phase = "filter"
  /\ \E V \in SUBSET Gxids :
       /\ BreaksDeadLock(buildWaitGraph, V)
       /\ victims' = V
       /\ phase' = IF V = {} THEN "idle" ELSE "lookup"
       /\ quiet' = (quiet \/ V = {})
  /\ raw' = {}
  /\ UNCHANGED <<txns, unread, pid>>

\* breakDeadLock: GetPidByGxid for the next on the list, 0 (here {}) if there is none.
GetPidByGxid ==
  /\ phase = "lookup"
  /\ pid' = {p \in Procs : gxid[p] = Youngest(victims)}
  /\ phase' = "signal"
  /\ UNCHANGED <<txns, unread, raw, victims, quiet>>

\* pg_cancel_backend_msg: the signal reaches the process, whatever it runs by now.
pg_cancel_backend_msg ==
  /\ phase = "signal"
  /\ cancelled' = cancelled \cup {p \in pid : gxid[p] # NoGxid /\ p \notin ending}
  /\ victims' = victims \ {Youngest(victims)}
  /\ phase' = IF victims' = {} THEN "idle" ELSE "lookup"
  /\ pid' = {}
  /\ quiet' = (quiet \/ victims' = {})
  /\ UNCHANGED <<gxid, nextGxid, locks, ending, cancels, unread, raw>>

-----------------------------------------------------------------------------
Init ==
  /\ gxid = [p \in Procs |-> NoGxid] /\ nextGxid = FirstGxid
  /\ held = [l \in Locks |-> {}] /\ queue = [l \in Locks |-> {}]
  /\ ahead = [l \in Locks |-> {}]
  /\ tillEnd = {} /\ flagged = {} /\ ending = {} /\ cancelled = {} /\ cancels = 0
  /\ phase = "idle" /\ unread = {} /\ raw = {} /\ victims = {} /\ pid = {}
  /\ quiet = TRUE

Detector == \/ StartRound
            \/ \E s \in Segs : SegmentReports(s)
            \/ CoordinatorReports \/ doDeadLockCheck
            \/ GetPidByGxid \/ pg_cancel_backend_msg

EndStep(p) == (\E s \in Segs : EndOnSegment(p, s)) \/ EndOnCoordinator(p)

Client(p) == \/ Begin(p) \/ StartEnd(p) \/ ClientCancel(p) \/ IgnoreCancel(p)
             \/ \E l \in Locks : \/ \E m \in Modes : LockAcquire(p, l, m)
                                 \/ LockRelease(p, l)
                                 \/ LockSetHoldTillEndXact(p, l)

Next == Detector \/ \E p \in Procs : Client(p) \/ EndStep(p)
Spec == Init /\ [][Next]_vars

\* The detector's loop runs for ever, an end once begun is carried out, and a
\* pending cancel interrupts a wait.  Clients owe nothing.
Fairness == /\ WF_vars(Detector)
            /\ \A p \in Procs : /\ WF_vars(EndStep(p))
                                /\ WF_vars(p \in cancelled /\ StartEnd(p))
FairSpec == Spec /\ Fairness

-----------------------------------------------------------------------------
\* What a deadlock is, read off the lock tables of all segments at one moment.
\* A set W of waits <<backend, lock>> stands when each is blocked by another of
\* its members: by a holder that cannot give the lock back before a wait of W is
\* over.  A lock kept until the end needs the holder to get past all its waits,
\* and so does any lock of the coordinator; another lock needs the holder's
\* process on that segment to go on.
HolderBlocks(W, p, l) ==
  \E h \in held[l], w \in queue[l] :
    /\ w[1] = p /\ Conflict(w[2], h[2])
    /\ \E x \in W : /\ x[1] = h[1]
                    /\ \/ KeepsTillEnd(l, h[1]) \/ SegOf[l] = QD
                       \/ SegOf[x[2]] = SegOf[l]

\* A conflicting request further ahead in the queue blocks as well.
RequestBlocks(W, p, l) ==
  \E x \in ahead[l] : /\ x[2][1] = p /\ Conflict(x[1][2], x[2][2])
                      /\ <<x[1][1], l>> \in W

WaitsNow == {x \in Procs \X Locks :
               x[1] \in Waiters(x[2]) /\ x[1] \notin ending \cup cancelled}

\* Backends that are deadlocked over locks others hold ...
Deadlocked ==
  {x[1] : x \in UNION {W \in SUBSET WaitsNow :
                          \A w \in W : HolderBlocks(W, w[1], w[2])}}
\* ... and those that are when the order of the queues is taken into account.
QueueDeadlocked ==
  {x[1] : x \in UNION {W \in SUBSET WaitsNow :
                          \A w \in W : \/ HolderBlocks(W, w[1], w[2])
                                      \/ RequestBlocks(W, w[1], w[2])}}

\* No false alarm: although the segments report at different moments and
\* transactions go on until the signal is sent, breakDeadLock only signals a
\* backend that still runs the victim and is deadlocked at that very moment,
\* unless somebody else cancelled a statement during the round or a holder was
\* reported under the holdTillEndXact mark of an earlier one.
SignalsOnlyDeadlocked ==
  [][phase = "signal" /\ phase' # "signal" /\ quiet =>
       \A p \in pid : gxid[p] = Youngest(victims) /\ p \in Deadlocked]_vars

\* Every deadlock is broken: a backend that is deadlocked does not stay so.
DeadlocksBroken == \A p \in Procs : p \in Deadlocked ~> p \notin Deadlocked

\* If there is a deadlock it is found: when the reports of the segments are up
\* to date and every transaction in progress is deadlocked, the round names a
\* victim.
FindsTotalDeadlock ==
  [][LET active == {p \in Procs : gxid[p] # NoGxid}
     IN /\ phase = "filter" /\ phase' # "filter"
        /\ raw = UNION {gp_dist_wait_status(s) : s \in Segs}
        /\ active # {} /\ active \subseteq QueueDeadlocked
        => victims' # {}]_vars

\* breakDeadLock asserts that the backend of a victim is there.
VictimHasAPid == phase = "signal" => pid # {}
=============================================================================
