--------------------------- MODULE FastPathProofs ---------------------------
(***************************************************************************)
(* What fast-path locking promises, for any number of backends.            *)
(*                                                                         *)
(* NoConflictingHolders is not inductive: a lock in fpLockBits and one in  *)
(* the shared table never meet in a conflict check.  What keeps them apart *)
(* is the strong count: a backend that is counted and past its transfer    *)
(* loop finds no lock in fpLockBits (Cleared), and one that is granted a   *)
(* strong lock and still counted is alone in the table (Alone).  A strong  *)
(* request that is cancelled gives its count back before its place in the  *)
(* table, so neither holds of a granted lock in general.                   *)
(***************************************************************************)
EXTENDS FastPath, FiniteSetTheorems, TLAPS

\* Where a backend is in lock.c, and what the lock manager has of it.
Place(p) ==
  /\ p \in counted => mode[p] = "strong" /\ pc[p] \in {"transfer", "sleep", "held", "forget"}
  /\ mode[p] = "strong" /\ pc[p] \in {"transfer", "sleep", "held"} => p \in counted
  /\ pc[p] = "table" => mode[p] = "weak"
  /\ p \in fp => pc[p] = "held" /\ mode[p] = "weak" /\ p \notin granted
  /\ p \in granted => pc[p] \in {"held", "sleep", "cleanup", "release"}
  /\ p \in waiting => pc[p] \in {"sleep", "cleanup"} /\ p \notin granted
  /\ pc[p] = "held" => p \in fp \cup granted
  /\ pc[p] = "sleep" => p \in waiting \cup granted

\* A counted backend has emptied the fpLockBits its transfer loop has passed.
Cleared(p) ==
  p \in counted => /\ pc[p] = "transfer" => \A i \in fp : next[p] <= i
                   /\ pc[p] \in {"sleep", "held"} => fp = {}

\* A strong lock whose backend is counted is the only one granted.
Alone(p) ==
  p \in granted /\ mode[p] = "strong" /\ pc[p] \in {"sleep", "held"} => granted = {p}

\* Of two waiters one is ahead of the other.
QueueInv ==
  \A p \in waiting : /\ p \notin ahead[p]
                     /\ \A q \in waiting \ {p} : p \in ahead[q] \/ q \in ahead[p]

IInv ==
  /\ TypeOK
  /\ \A p \in Procs : Place(p) /\ Cleared(p) /\ Alone(p)
  /\ QueueInv
  /\ NoNeedlessWait
  /\ count = Cardinality(counted)

-----------------------------------------------------------------------------
\* What the invariant says of a backend whose data a step leaves alone.
LEMMA PlaceFrame ==
  ASSUME NEW q, Place(q), pc'[q] = pc[q], mode'[q] = mode[q],
         q \in counted' <=> q \in counted, q \in fp' <=> q \in fp,
         q \in granted' <=> q \in granted, q \in waiting' <=> q \in waiting
  PROVE  Place(q)'
BY Zenon DEF Place

\* ... and of the fpLockBits it has passed.
LEMMA ClearedFrame ==
  ASSUME NEW q, Cleared(q), pc'[q] = pc[q], next'[q] = next[q],
         q \in counted' => q \in counted, fp' \subseteq fp
  PROVE  Cleared(q)'
BY Zenon DEF Cleared

\* The conjuncts of TypeOK, one by one.
LEMMA Typed ==
  ASSUME TypeOK
  PROVE  /\ pc \in [Procs -> {"idle", "transfer", "table", "sleep", "cleanup", "held",
                              "forget", "release"}]
         /\ mode \in [Procs -> Modes] /\ count \in Nat /\ next \in [Procs -> 0 .. NumProcs + 1]
         /\ ahead \in [Procs -> SUBSET waiting] /\ holdTillEnd \in BOOLEAN
         /\ counted \subseteq Procs /\ fp \subseteq Procs /\ fpTillEnd \subseteq Procs
         /\ granted \subseteq Procs /\ waiting \subseteq Procs /\ knowsLock \subseteq Procs
         /\ keeps \subseteq Procs
BY DEF TypeOK

\* A step that leaves the queue alone and revokes no grant.
LEMMA WaitFrame ==
  ASSUME TypeOK, NoNeedlessWait, UNCHANGED <<waiting, ahead>>, granted \subseteq granted',
         \A q \in granted \cup waiting : mode'[q] = mode[q]
  PROVE  NoNeedlessWait'
<1> SUFFICES ASSUME NEW p \in waiting
             PROVE  \E q \in granted' \cup ahead[p] : Conflict(mode'[p], mode'[q])
  BY Zenon DEF NoNeedlessWait
<1>1. PICK q \in granted \cup ahead[p] : Conflict(mode[p], mode[q])
  BY Zenon DEF NoNeedlessWait
<1>2. ahead[p] \subseteq waiting
  BY Zenon, Typed
<1>3. mode'[p] = mode[p] /\ mode'[q] = mode[q]
  BY Zenon, <1>1, <1>2
<1> QED BY Zenon, <1>1, <1>3

\* The strong count: who is counted is a finite set.
LEMMA Counting ==
  ASSUME TypeOK, count = Cardinality(counted)
  PROVE  /\ IsFiniteSet(counted)
         /\ count = 0 => counted = {}
         /\ \A p : /\ p \notin counted => Cardinality(counted \cup {p}) = count + 1
                   /\ p \in counted => Cardinality(counted \ {p}) = count - 1 /\ count > 0
<1>1. IsFiniteSet(Procs)
  BY ProcsAssumption, FS_Interval DEF Procs
<1>2. IsFiniteSet(counted)
  BY Zenon, <1>1, FS_Subset, Typed
<1>3. count = 0 => counted = {}
  BY Zenon, <1>2, FS_EmptySet
<1>4. ASSUME NEW p, p \notin counted PROVE Cardinality(counted \cup {p}) = count + 1
  BY Zenon, <1>2, <1>4, FS_AddElement
<1>5. ASSUME NEW p, p \in counted PROVE Cardinality(counted \ {p}) = count - 1 /\ count > 0
  <2>1. Cardinality(counted \ {p}) = count - 1
    BY Zenon, <1>2, <1>5, FS_RemoveElement
  <2>2. count # 0 /\ count \in Nat
    BY Zenon, <1>3, <1>5, Typed
  <2> QED BY <2>1, <2>2
<1> QED BY Zenon, <1>2, <1>3, <1>4, <1>5

\* ProcLockWakeup: waiters are granted together only if they are compatible
\* with each other and with what is granted, and whoever is left has a reason.
LEMMA Wakeup ==
  ASSUME IInv, NEW g \in SUBSET granted, NEW s \in SUBSET waiting, CleanUpLock(g, s),
         UNCHANGED mode
  PROVE  /\ granted' \cup waiting' = g \cup s /\ granted' \cap waiting' = {}
         /\ g \subseteq granted' /\ waiting' \subseteq s
         /\ ahead' \in [Procs -> SUBSET waiting'] /\ holdTillEnd' \in BOOLEAN
         /\ QueueInv' /\ NoNeedlessWait'
         /\ \A p \in granted' : mode[p] = "strong" /\ (p \in g => g = {p}) => granted' = {p}
<1> DEFINE W == ProcLockWakeup(g, s)
<1>a. /\ granted' = g \cup W /\ waiting' = s \ W
      /\ ahead' = [p \in Procs |-> IF p \in s \ W THEN ahead[p] \cap (s \ W) ELSE {}]
      /\ holdTillEnd' = (holdTillEnd /\ g \cup s # {})
  BY Zenon DEF CleanUpLock, KeepInQueue
<1>t. /\ granted \subseteq Procs /\ waiting \subseteq Procs /\ mode \in [Procs -> Modes]
      /\ ahead \in [Procs -> SUBSET waiting] /\ holdTillEnd \in BOOLEAN
  BY Zenon, Typed DEF IInv
<1>d. granted \cap waiting = {}
  BY Zenon, <1>t DEF IInv, Place
<1>w. W \subseteq s
  BY Zenon DEF ProcLockWakeup
<1>v. \A p \in s : p \in W <=> /\ \A a \in ahead[p] \cap s : ~Conflict(mode[p], mode[a])
                               /\ \A q \in g \ {p} : ~Conflict(mode[p], mode[q])
  BY Zenon DEF ProcLockWakeup, LockCheckConflicts
<1>q. QueueInv
  BY Zenon DEF IInv
<1> HIDE DEF W
<1>1. /\ granted' \cup waiting' = g \cup s /\ granted' \cap waiting' = {}
      /\ g \subseteq granted' /\ waiting' \subseteq s
  BY Zenon, <1>a, <1>d, <1>w
<1>2. ahead' \in [Procs -> SUBSET waiting'] /\ holdTillEnd' \in BOOLEAN
  <2>1. holdTillEnd' \in BOOLEAN
    BY Zenon, <1>a
  <2> QED BY <1>a, <2>1
<1>3. \A p \in waiting' : p \in Procs /\ ahead'[p] = ahead[p] \cap waiting'
  BY Zenon, <1>a, <1>t
<1>4. QueueInv'
  BY Zenon, <1>1, <1>3, <1>q DEF QueueInv
<1>5. NoNeedlessWait'
  <2> SUFFICES ASSUME NEW p \in waiting'
               PROVE  \E q \in granted' \cup ahead'[p] : Conflict(mode[p], mode[q])
    BY Zenon DEF NoNeedlessWait
  <2>1. p \in s /\ p \notin W
    BY Zenon, <1>a
  <2>2. PICK q \in (ahead[p] \cap s) \cup g : Conflict(mode[p], mode[q])
    BY Zenon, <1>v, <2>1
  <2>3. q \in granted' \cup ahead'[p]
    BY Zenon, <1>a, <1>3, <2>2
  <2> QED BY Zenon, <2>2, <2>3
<1>6. ASSUME NEW p \in granted', mode[p] = "strong", p \in g => g = {p} PROVE granted' = {p}
  <2>1. \A q : Conflict(mode[p], mode[q]) /\ Conflict(mode[q], mode[p])
    BY Zenon, <1>6 DEF Conflict
  <2>2. CASE p \in g
    <3>1. g = {p} /\ \A x \in W : x # p
      BY Zenon, <1>6, <1>d, <1>w, <2>2
    <3>2. \A x \in W : FALSE
      BY Zenon, <1>v, <1>w, <2>1, <3>1
    <3> QED BY Zenon, <1>a, <3>1, <3>2
  <2>3. CASE p \notin g
    <3>1. p \in W /\ p \in s
      BY Zenon, <1>a, <1>w, <2>3
    <3>2. ASSUME NEW y \in g PROVE FALSE
      BY Zenon, <1>v, <2>1, <2>3, <3>1
    <3>3. ASSUME NEW x \in W, x # p PROVE FALSE
      <4>1. x \in s /\ x \in waiting /\ p \in waiting
        BY Zenon, <1>w, <3>1
      <4>2. p \in ahead[x] \/ x \in ahead[p]
        BY Zenon, <1>q, <3>3, <4>1 DEF QueueInv
      <4> QED BY Zenon, <1>v, <2>1, <3>1, <4>1, <4>2
    <3> QED BY Zenon, <1>a, <3>1, <3>2, <3>3
  <2> QED BY Zenon, <2>2, <2>3
<1> QED BY Zenon, <1>1, <1>2, <1>4, <1>5, <1>6
-----------------------------------------------------------------------------
\* Each step keeps the invariant.

\* Nobody holds or awaits a lock at first.
LEMMA InitInvariant == Init => IInv
<1> SUFFICES ASSUME Init PROVE IInv
  OBVIOUS
<1>1. TypeOK
  <2>1. /\ pc \in [Procs -> {"idle"}] /\ mode \in [Procs -> Modes] /\ ahead \in [Procs -> SUBSET waiting]
        /\ next \in [Procs -> {0}]
    BY DEF Init, Modes
  <2>2. 0 \in 0 .. NumProcs + 1 /\ 0 \in Nat
    BY ProcsAssumption
  <2> QED BY <2>1, <2>2 DEF Init, TypeOK
<1>2. \A p \in Procs : Place(p) /\ Cleared(p) /\ Alone(p)
  BY DEF Init, Place, Cleared, Alone
<1>3. QueueInv /\ NoNeedlessWait
  BY Zenon DEF Init, QueueInv, NoNeedlessWait
<1>4. count = Cardinality(counted)
  BY Zenon, FS_EmptySet DEF Init
<1> QED BY Zenon, <1>1, <1>2, <1>3, <1>4 DEF IInv

\* A lock in fpLockBits is granted only while nobody is counted.
LEMMA GrantFast ==
  ASSUME IInv, NEW p \in Procs, FastPathGrantRelationLock(p)
  PROVE  IInv'
<1> USE DEF queue, strong, table
<1>a. /\ pc[p] = "idle" /\ count = 0 /\ fp' = fp \cup {p}
      /\ mode' = [mode EXCEPT ![p] = "weak"] /\ pc' = [pc EXCEPT ![p] = "held"]
      /\ UNCHANGED <<next, knowsLock, keeps, count, counted, fpTillEnd, granted, waiting, ahead,
                     holdTillEnd>>
  BY Zenon DEF FastPathGrantRelationLock
<1>t. TypeOK /\ QueueInv /\ NoNeedlessWait /\ count = Cardinality(counted)
  BY Zenon DEF IInv
<1>f. /\ pc'[p] = "held" /\ mode'[p] = "weak"
      /\ \A q \in Procs \ {p} : pc'[q] = pc[q] /\ mode'[q] = mode[q]
  BY Zenon, <1>a, <1>t, Typed
<1>b. counted = {}
  BY Zenon, <1>a, <1>t, Counting
<1>c. p \notin granted \cup waiting
  BY Zenon, <1>a DEF IInv, Place
<1>1. TypeOK'
  BY <1>a, <1>t DEF TypeOK, Modes
<1>2. ASSUME NEW q \in Procs PROVE Place(q)' /\ Cleared(q)' /\ Alone(q)'
  <2>0. Place(q) /\ Cleared(q) /\ Alone(q)
    BY Zenon DEF IInv
  <2>1. Cleared(q)'
    BY Zenon, <1>a, <1>b DEF Cleared
  <2>2. CASE q = p
    BY Zenon, <1>a, <1>b, <1>c, <1>f, <2>1, <2>2 DEF Place, Alone
  <2>3. CASE q # p
    <3>1. Place(q)'
      BY Zenon, <1>a, <1>f, <2>0, <2>3, PlaceFrame
    <3> QED BY Zenon, <1>a, <1>f, <2>0, <2>1, <2>3, <3>1 DEF Alone
  <2> QED BY Zenon, <2>2, <2>3
<1>3. QueueInv'
  BY Zenon, <1>a, <1>t DEF QueueInv
<1>4. NoNeedlessWait'
  <2>1. \A q \in granted \cup waiting : mode'[q] = mode[q]
    BY Zenon, <1>c, <1>f, <1>t, Typed
  <2> QED BY Zenon, <1>a, <1>t, <2>1, WaitFrame
<1>5. count' = Cardinality(counted')
  BY Zenon, <1>a, <1>t
<1> QED BY Zenon, <1>1, <1>2, <1>3, <1>4, <1>5 DEF IInv

\* A backend that goes to the table or begins a strong request: nothing of it
\* is known yet to anybody.
LEMMA Ask ==
  ASSUME IInv, NEW p \in Procs, FastPathRefused(p) \/ BeginStrongLockAcquire(p)
  PROVE  IInv'
<1> USE DEF queue, strong, fast, table
<1>a. /\ pc[p] = "idle"
      /\ UNCHANGED <<knowsLock, keeps, fp, fpTillEnd, granted, waiting, ahead, holdTillEnd>>
  BY Zenon DEF FastPathRefused, BeginStrongLockAcquire
<1>t. TypeOK /\ QueueInv /\ NoNeedlessWait /\ count = Cardinality(counted)
  BY Zenon DEF IInv
<1>c. p \notin granted \cup waiting \cup fp \cup counted
  BY Zenon, <1>a DEF IInv, Place
<1>f. \A q \in Procs \ {p} : /\ pc'[q] = pc[q] /\ mode'[q] = mode[q] /\ next'[q] = next[q]
                             /\ q \in counted' <=> q \in counted
  <2>1. CASE FastPathRefused(p)
    BY Zenon, <1>t, <2>1, Typed DEF FastPathRefused
  <2>2. CASE BeginStrongLockAcquire(p)
    BY Zenon, <1>t, <2>2, Typed DEF BeginStrongLockAcquire
  <2> QED BY Zenon, <2>1, <2>2
<1>1. TypeOK' /\ count' = Cardinality(counted') /\ Place(p)' /\ Cleared(p)'
  <2>1. CASE FastPathRefused(p)
    <3>1. /\ mode' = [mode EXCEPT ![p] = "weak"] /\ pc' = [pc EXCEPT ![p] = "table"]
          /\ UNCHANGED <<next, count, counted>>
      BY Zenon, <2>1 DEF FastPathRefused
    <3>2. TypeOK'
      BY <1>a, <1>t, <3>1 DEF TypeOK, Modes
    <3>3. mode'[p] = "weak" /\ pc'[p] = "table"
      BY Zenon, <1>t, <3>1, Typed
    <3> QED BY Zenon, <1>a, <1>c, <1>t, <3>1, <3>2, <3>3 DEF Place, Cleared
  <2>2. CASE BeginStrongLockAcquire(p)
    <3>1. /\ mode' = [mode EXCEPT ![p] = "strong"] /\ pc' = [pc EXCEPT ![p] = "transfer"]
          /\ next' = [next EXCEPT ![p] = 1] /\ count' = count + 1 /\ counted' = counted \cup {p}
      BY Zenon, <2>2 DEF BeginStrongLockAcquire
    <3>2. TypeOK'
      BY <1>a, <1>t, <3>1, ProcsAssumption DEF TypeOK, Modes
    <3>3. mode'[p] = "strong" /\ pc'[p] = "transfer" /\ next'[p] = 1
      BY Zenon, <1>t, <3>1, Typed
    <3>4. \A i \in fp : 1 <= i
      BY <1>t DEF TypeOK, Procs
    <3>5. count' = Cardinality(counted')
      BY Zenon, <1>c, <1>t, <3>1, Counting
    <3> QED BY Zenon, <1>a, <1>c, <3>1, <3>2, <3>3, <3>4, <3>5 DEF Place, Cleared
  <2> QED BY Zenon, <2>1, <2>2
<1>2. ASSUME NEW q \in Procs PROVE Place(q)' /\ Cleared(q)' /\ Alone(q)'
  <2>0. Place(q) /\ Cleared(q) /\ Alone(q)
    BY Zenon DEF IInv
  <2>1. CASE q = p
    BY Zenon, <1>a, <1>c, <1>1, <2>1 DEF Alone
  <2>2. CASE q # p
    <3>1. Place(q)'
      BY Zenon, <1>a, <1>f, <2>0, <2>2, PlaceFrame
    <3>2. Cleared(q)'
      BY Zenon, <1>a, <1>f, <2>0, <2>2, ClearedFrame
    <3> QED BY Zenon, <1>a, <1>f, <2>0, <2>2, <3>1, <3>2 DEF Alone
  <2> QED BY Zenon, <2>1, <2>2
<1>3. QueueInv'
  BY Zenon, <1>a, <1>t DEF QueueInv
<1>4. NoNeedlessWait'
  <2>1. \A q \in granted \cup waiting : mode'[q] = mode[q]
    BY Zenon, <1>c, <1>f, <1>t, Typed
  <2> QED BY Zenon, <1>a, <1>t, <2>1, WaitFrame
<1> QED BY Zenon, <1>1, <1>2, <1>3, <1>4 DEF IInv

\* A step of a backend that leaves the shared table alone.
LEMMA OwnStep ==
  ASSUME IInv, NEW p \in Procs, TypeOK', UNCHANGED <<mode, granted, waiting, ahead>>,
         fp' \subseteq fp, fp \ {p} \subseteq fp', counted' \in {counted, counted \ {p}},
         count' = IF p \in counted /\ p \notin counted' THEN count - 1 ELSE count,
         \A q \in Procs \ {p} : pc'[q] = pc[q] /\ next'[q] = next[q],
         Place(p)', Cleared(p)', Alone(p)'
  PROVE  IInv'
<1>t. TypeOK /\ QueueInv /\ NoNeedlessWait /\ count = Cardinality(counted)
  BY Zenon DEF IInv
<1>1. ASSUME NEW q \in Procs PROVE Place(q)' /\ Cleared(q)' /\ Alone(q)'
  <2>0. Place(q) /\ Cleared(q) /\ Alone(q)
    BY Zenon DEF IInv
  <2>1. CASE q = p
    BY Zenon, <2>1
  <2>2. CASE q # p
    <3>1. Place(q)'
      BY Zenon, <2>0, <2>2, PlaceFrame
    <3>2. Cleared(q)'
      BY Zenon, <2>0, <2>2, ClearedFrame
    <3> QED BY Zenon, <2>0, <2>2, <3>1, <3>2 DEF Alone
  <2> QED BY Zenon, <2>1, <2>2
<1>2. QueueInv'
  BY Zenon, <1>t DEF QueueInv
<1>3. NoNeedlessWait'
  BY Zenon, <1>t, WaitFrame
<1>4. count' = Cardinality(counted')
  <2>1. CASE p \in counted /\ p \notin counted'
    BY Zenon, <1>t, <2>1, Counting
  <2>2. CASE ~(p \in counted /\ p \notin counted')
    <3>1. counted' = counted
      BY Zenon, <2>2
    <3> QED BY Zenon, <1>t, <2>2, <3>1
  <2> QED BY Zenon, <2>1, <2>2
<1> QED BY Zenon, <1>1, <1>2, <1>3, <1>4 DEF IInv

\* What AbortStrongLockAcquire and RemoveLocalLock do to the count.
LEMMA Uncount ==
  ASSUME IInv, NEW p \in Procs,
         count' = IF p \in counted THEN count - 1 ELSE count, counted' = counted \ {p}
  PROVE  /\ count' \in Nat /\ counted' \subseteq Procs /\ counted' \in {counted, counted \ {p}}
         /\ p \notin counted'
         /\ count' = IF p \in counted /\ p \notin counted' THEN count - 1 ELSE count
<1>1. TypeOK /\ count = Cardinality(counted)
  BY Zenon DEF IInv
<1>2. p \in counted => count > 0
  BY Zenon, <1>1, Counting
<1>3. count \in Nat /\ counted \subseteq Procs
  BY Zenon, <1>1, Typed
<1>4. count' \in Nat
  BY <1>2, <1>3
<1> QED BY Zenon, <1>3, <1>4

\* A strong request that fails in its transfer is counted no more.
LEMMA TransferFailsStep ==
  ASSUME IInv, NEW p \in Procs, TransferFails(p)
  PROVE  IInv'
<1> USE DEF queue, fast, table
<1>a. /\ pc[p] = "transfer" /\ next' = [next EXCEPT ![p] = 0] /\ pc' = [pc EXCEPT ![p] = "idle"]
      /\ count' = IF p \in counted THEN count - 1 ELSE count
      /\ counted' = counted \ {p}
      /\ UNCHANGED <<mode, knowsLock, keeps, fp, fpTillEnd, granted, waiting, ahead, holdTillEnd>>
  BY Zenon DEF TransferFails, AbortStrongLockAcquire
<1>t. TypeOK /\ Place(p)
  BY Zenon DEF IInv
<1>f. pc'[p] = "idle" /\ \A q \in Procs \ {p} : pc'[q] = pc[q] /\ next'[q] = next[q]
  BY Zenon, <1>a, <1>t, Typed
<1>c. /\ count' \in Nat /\ counted' \subseteq Procs /\ p \notin counted'
      /\ counted' \in {counted, counted \ {p}}
      /\ count' = IF p \in counted /\ p \notin counted' THEN count - 1 ELSE count
  BY Zenon, <1>a, Uncount
<1>1. TypeOK'
  BY <1>a, <1>c, <1>t, ProcsAssumption DEF TypeOK
<1>2. Place(p)' /\ Cleared(p)' /\ Alone(p)'
  BY Zenon, <1>a, <1>c, <1>f, <1>t DEF Place, Cleared, Alone
<1> QED BY Zenon, <1>a, <1>c, <1>f, <1>1, <1>2, OwnStep

\* A waiter finds that it has been granted the lock.
LEMMA AwakeStep ==
  ASSUME IInv, NEW p \in Procs, Awake(p)
  PROVE  IInv'
<1> USE DEF queue, strong, fast, table
<1>a. /\ pc[p] = "sleep" /\ p \in granted /\ pc' = [pc EXCEPT ![p] = "held"]
      /\ UNCHANGED <<mode, next, knowsLock, keeps, count, counted, fp, fpTillEnd, granted, waiting,
                     ahead, holdTillEnd>>
  BY Zenon DEF Awake
<1>t. TypeOK /\ Place(p) /\ Cleared(p) /\ Alone(p)
  BY Zenon DEF IInv
<1>f. pc'[p] = "held" /\ \A q \in Procs \ {p} : pc'[q] = pc[q]
  BY Zenon, <1>a, <1>t, Typed
<1>1. TypeOK'
  BY <1>a, <1>t DEF TypeOK
<1>2. Place(p)' /\ Cleared(p)' /\ Alone(p)'
  BY Zenon, <1>a, <1>f, <1>t DEF Place, Cleared, Alone
<1> QED BY Zenon, <1>a, <1>f, <1>1, <1>2, OwnStep

\* A cancelled waiter gives its count back; its place in the queue stays for now.
LEMMA CancelStep ==
  ASSUME IInv, NEW p \in Procs, CancelWait(p)
  PROVE  IInv'
<1> USE DEF queue, fast, table
<1>a. /\ pc[p] = "sleep" /\ pc' = [pc EXCEPT ![p] = "cleanup"]
      /\ count' = IF p \in counted THEN count - 1 ELSE count
      /\ counted' = counted \ {p}
      /\ UNCHANGED <<mode, next, knowsLock, keeps, fp, fpTillEnd, granted, waiting, ahead,
                     holdTillEnd>>
  BY Zenon DEF CancelWait, AbortStrongLockAcquire
<1>t. TypeOK /\ Place(p)
  BY Zenon DEF IInv
<1>f. pc'[p] = "cleanup" /\ \A q \in Procs \ {p} : pc'[q] = pc[q]
  BY Zenon, <1>a, <1>t, Typed
<1>c. /\ count' \in Nat /\ counted' \subseteq Procs /\ p \notin counted'
      /\ counted' \in {counted, counted \ {p}}
      /\ count' = IF p \in counted /\ p \notin counted' THEN count - 1 ELSE count
  BY Zenon, <1>a, Uncount
<1>1. TypeOK'
  BY <1>a, <1>c, <1>t DEF TypeOK
<1>2. Place(p)' /\ Cleared(p)' /\ Alone(p)'
  BY Zenon, <1>a, <1>c, <1>f, <1>t DEF Place, Cleared, Alone
<1> QED BY Zenon, <1>a, <1>c, <1>f, <1>1, <1>2, OwnStep

\* The mark that a lock is kept changes nothing the invariant is about.
LEMMA KeepStep ==
  ASSUME IInv, NEW p \in Procs, LockSetHoldTillEndXact(p)
  PROVE  IInv'
<1> USE DEF queue, strong, fast, table
<1>a. /\ keeps' = keeps \cup {p}
      /\ UNCHANGED <<pc, mode, next, knowsLock, count, counted, fp, granted, waiting, ahead>>
  BY Zenon DEF LockSetHoldTillEndXact
<1>b. fpTillEnd' \in {fpTillEnd, fpTillEnd \cup {p}} /\ holdTillEnd' \in {TRUE, FALSE, holdTillEnd}
  BY Zenon DEF LockSetHoldTillEndXact
<1>t. TypeOK /\ Place(p) /\ Cleared(p) /\ Alone(p)
  BY Zenon DEF IInv
<1>1. TypeOK'
  <2>1. holdTillEnd' \in BOOLEAN /\ fpTillEnd' \subseteq Procs /\ keeps' \subseteq Procs
    BY Zenon, <1>a, <1>b, <1>t, Typed
  <2> QED BY <1>a, <1>t, <2>1 DEF TypeOK
<1>2. Place(p)' /\ Cleared(p)' /\ Alone(p)'
  BY Zenon, <1>a, <1>t DEF Place, Cleared, Alone
<1> QED BY Zenon, <1>a, <1>1, <1>2, OwnStep

\* A lock is taken out of fpLockBits.
LEMMA UnGrantFast ==
  ASSUME IInv, NEW p \in Procs, FastPathUnGrantRelationLock(p)
  PROVE  IInv'
<1> USE DEF queue, strong, fast, table
<1>a. /\ pc[p] = "held" /\ p \in fp /\ fp' = fp \ {p} /\ keeps' = keeps \ {p}
      /\ pc' = [pc EXCEPT ![p] = "idle"]
      /\ UNCHANGED <<mode, next, knowsLock, count, counted, fpTillEnd, granted, waiting, ahead,
                     holdTillEnd>>
  BY Zenon DEF FastPathUnGrantRelationLock
<1>t. TypeOK /\ Place(p)
  BY Zenon DEF IInv
<1>f. pc'[p] = "idle" /\ \A q \in Procs \ {p} : pc'[q] = pc[q]
  BY Zenon, <1>a, <1>t, Typed
<1>1. TypeOK'
  BY <1>a, <1>t DEF TypeOK
<1>2. Place(p)' /\ Cleared(p)' /\ Alone(p)'
  BY Zenon, <1>a, <1>f, <1>t DEF Place, Cleared, Alone
<1> QED BY Zenon, <1>a, <1>f, <1>1, <1>2, OwnStep

\* The count goes back at the end of a transaction, before the table is scanned,
\* or after a LockRelease.
LEMMA ForgetStep ==
  ASSUME IInv, NEW p \in Procs, Forget(p) \/ ReleaseAllLocal(p)
  PROVE  IInv'
<1> USE DEF queue, fast, table
<1>a. /\ count' = IF p \in counted THEN count - 1 ELSE count
      /\ counted' = counted \ {p} /\ knowsLock' = knowsLock \ {p}
      /\ UNCHANGED <<mode, next, keeps, fp, fpTillEnd, granted, waiting, ahead, holdTillEnd>>
  BY Zenon DEF Forget, ReleaseAllLocal, RemoveLocalLock
<1>b. \/ pc[p] = "forget" /\ pc' = [pc EXCEPT ![p] = "idle"]
      \/ pc[p] = "held" /\ p \notin fp /\ pc' = [pc EXCEPT ![p] = "release"]
  BY Zenon DEF Forget, ReleaseAllLocal
<1>t. TypeOK /\ Place(p)
  BY Zenon DEF IInv
<1>f. /\ \A q \in Procs \ {p} : pc'[q] = pc[q]
      /\ \/ pc[p] = "forget" /\ pc'[p] = "idle"
         \/ pc[p] = "held" /\ p \notin fp /\ pc'[p] = "release"
  <2>1. CASE pc[p] = "forget" /\ pc' = [pc EXCEPT ![p] = "idle"]
    BY Zenon, <1>t, <2>1, Typed
  <2>2. CASE pc[p] = "held" /\ p \notin fp /\ pc' = [pc EXCEPT ![p] = "release"]
    BY Zenon, <1>t, <2>2, Typed
  <2> QED BY Zenon, <1>b, <2>1, <2>2
<1>c. /\ count' \in Nat /\ counted' \subseteq Procs /\ p \notin counted'
      /\ counted' \in {counted, counted \ {p}}
      /\ count' = IF p \in counted /\ p \notin counted' THEN count - 1 ELSE count
  BY Zenon, <1>a, Uncount
<1>1. TypeOK'
  <2>1. pc' \in [Procs -> {"idle", "transfer", "table", "sleep", "cleanup", "held", "forget", "release"}]
    BY <1>b, <1>t DEF TypeOK
  <2> QED BY <1>a, <1>c, <1>t, <2>1 DEF TypeOK
<1>2. Place(p)' /\ Cleared(p)' /\ Alone(p)'
  BY Zenon, <1>a, <1>c, <1>f, <1>t DEF Place, Cleared, Alone
<1> QED BY Zenon, <1>a, <1>c, <1>f, <1>1, <1>2, OwnStep

\* A turn of the transfer loop: nobody who is counted and past its own loop can
\* be in the table when a lock is still in fpLockBits.
LEMMA TransferStep ==
  ASSUME IInv, NEW p \in Procs, FastPathTransferRelationLocks(p)
  PROVE  IInv'
<1> USE DEF queue, strong, table
<1> DEFINE i == next[p]
<1>a. /\ pc[p] = "transfer" /\ i <= NumProcs
      /\ next' = [next EXCEPT ![p] = i + 1] /\ fp' = fp \ {i} /\ granted' = granted \cup (fp \cap {i})
      /\ holdTillEnd' = IF i \in fp THEN i \in fpTillEnd ELSE holdTillEnd
      /\ UNCHANGED <<pc, mode, knowsLock, keeps, count, counted, fpTillEnd, waiting, ahead>>
  BY Zenon DEF FastPathTransferRelationLocks
<1>t. TypeOK /\ QueueInv /\ NoNeedlessWait /\ count = Cardinality(counted)
  BY Zenon DEF IInv
<1>i. i \in Nat /\ i + 1 \in 0 .. NumProcs + 1
  BY <1>a, <1>t, ProcsAssumption DEF TypeOK
<1>f. next'[p] = i + 1 /\ \A q \in Procs \ {p} : next'[q] = next[q]
  BY Zenon, <1>a, <1>t, Typed
<1>1. TypeOK'
  <2>1. holdTillEnd' \in BOOLEAN
    <3>1. CASE i \in fp
      BY <1>a, <3>1
    <3>2. CASE i \notin fp
      BY Zenon, <1>a, <1>t, <3>2, Typed
    <3> QED BY Zenon, <3>1, <3>2
  <2>3. fp' \subseteq Procs /\ granted' \subseteq Procs
    BY Zenon, <1>a, <1>t, Typed
  <2>2. next' \in [Procs -> 0 .. NumProcs + 1]
    BY <1>a, <1>i, <1>t DEF TypeOK
  <2> QED BY <1>a, <1>t, <2>1, <2>2, <2>3 DEF TypeOK
<1>2. ASSUME NEW q \in Procs PROVE Place(q)'
  <2>0. Place(q)
    BY Zenon DEF IInv
  <2>1. CASE q \in fp /\ q = i
    BY Zenon, <1>a, <2>0, <2>1 DEF Place
  <2>2. CASE ~(q \in fp /\ q = i)
    <3>1. (q \in fp' <=> q \in fp) /\ (q \in granted' <=> q \in granted)
      BY Zenon, <1>a, <2>2
    <3> QED BY Zenon, <1>a, <2>0, <3>1, PlaceFrame
  <2> QED BY Zenon, <2>1, <2>2
<1>3. ASSUME NEW q \in Procs PROVE Cleared(q)'
  <2>0. Cleared(q)
    BY Zenon DEF IInv
  <2>1. CASE q # p
    BY Zenon, <1>a, <1>f, <2>0, <2>1, ClearedFrame
  <2>2. CASE q = p
    <3>1. ASSUME p \in counted, NEW j \in fp' PROVE i + 1 <= j
      <4>1. i <= j /\ j # i
        BY Zenon, <1>a, <2>0, <2>2, <3>1 DEF Cleared
      <4>2. j \in Nat
        BY <1>a, <1>t DEF TypeOK, Procs
      <4> QED BY <1>i, <4>1, <4>2
    <3> QED BY Zenon, <1>a, <1>f, <2>2, <3>1 DEF Cleared
  <2> QED BY Zenon, <2>1, <2>2
<1>4. ASSUME NEW q \in Procs PROVE Alone(q)'
  <2>0. Place(q) /\ Cleared(q) /\ Alone(q)
    BY Zenon DEF IInv
  <2>1. CASE i \in fp
    <3>1. Place(i)
      BY Zenon, <1>t, <2>1, Typed DEF IInv
    <3> QED BY Zenon, <1>a, <2>0, <2>1, <3>1 DEF Place, Cleared, Alone
  <2>2. CASE i \notin fp
    <3>1. granted' = granted
      BY Zenon, <1>a, <2>2
    <3> QED BY Zenon, <1>a, <2>0, <3>1 DEF Alone
  <2> QED BY Zenon, <2>1, <2>2
<1>5. QueueInv'
  BY Zenon, <1>a, <1>t DEF QueueInv
<1>6. NoNeedlessWait'
  <2>1. granted \subseteq granted'
    BY Zenon, <1>a
  <2> QED BY Zenon, <1>a, <1>t, <2>1, WaitFrame
<1>7. count' = Cardinality(counted')
  BY Zenon, <1>a, <1>t
<1> QED BY Zenon, <1>1, <1>2, <1>3, <1>4, <1>5, <1>6, <1>7 DEF IInv

\* The request is granted or joins the queue.
LEMMA SetupStep ==
  ASSUME IInv, NEW p \in Procs, SetupLockInTable(p)
  PROVE  IInv'
<1> USE DEF queue, strong, fast
<1> DEFINE refused == (\E a \in waiting : Conflict(mode[p], mode[a])) \/ LockCheckConflicts(p, granted)
<1>a. /\ pc[p] = "table" \/ (pc[p] = "transfer" /\ next[p] > NumProcs)
      /\ knowsLock' = knowsLock \cup {p} /\ next' = [next EXCEPT ![p] = 0]
      /\ UNCHANGED <<mode, keeps, count, counted, fp, fpTillEnd, holdTillEnd>>
  BY Zenon DEF SetupLockInTable
<1>b. refused => /\ waiting' = waiting \cup {p} /\ ahead' = [ahead EXCEPT ![p] = waiting]
                 /\ pc' = [pc EXCEPT ![p] = "sleep"] /\ granted' = granted
  BY Zenon DEF SetupLockInTable
<1>c. ~refused => /\ granted' = granted \cup {p} /\ pc' = [pc EXCEPT ![p] = "held"]
                  /\ UNCHANGED <<waiting, ahead>>
  BY Zenon DEF SetupLockInTable
<1>r. /\ refused => \E a \in waiting \cup granted : Conflict(mode[p], mode[a])
      /\ ~refused => \A a \in waiting \cup granted : a = p \/ ~Conflict(mode[p], mode[a])
  BY Zenon DEF LockCheckConflicts
<1>t. TypeOK /\ QueueInv /\ NoNeedlessWait /\ count = Cardinality(counted) /\ Place(p) /\ Cleared(p)
  BY Zenon DEF IInv
<1>n. p \notin granted \cup waiting \cup fp
  BY Zenon, <1>a, <1>t DEF Place
<1>e. p \in counted => fp = {}
  <2>1. ASSUME p \in counted, NEW j \in fp PROVE FALSE
    <3>1. next[p] <= j /\ next[p] > NumProcs
      BY Zenon, <1>a, <1>t, <2>1 DEF Place, Cleared
    <3>2. j \in 1 .. NumProcs /\ next[p] \in 0 .. NumProcs + 1
      BY <1>t DEF TypeOK, Procs
    <3> QED BY <3>1, <3>2, ProcsAssumption
  <2> QED BY Zenon, <2>1
<1> HIDE DEF refused
<1>f. /\ pc'[p] = IF refused THEN "sleep" ELSE "held"
      /\ \A q \in Procs \ {p} : pc'[q] = pc[q] /\ next'[q] = next[q]
  <2>1. \A q \in Procs \ {p} : next'[q] = next[q]
    BY Zenon, <1>a, <1>t, Typed
  <2>2. CASE refused
    BY Zenon, <1>b, <1>t, <2>1, <2>2, Typed
  <2>3. CASE ~refused
    BY Zenon, <1>c, <1>t, <2>1, <2>3, Typed
  <2> QED BY Zenon, <2>2, <2>3
<1>1. TypeOK'
  <2>1. next' \in [Procs -> 0 .. NumProcs + 1]
    BY <1>a, <1>t, ProcsAssumption DEF TypeOK
  <2>2. pc' \in [Procs -> {"idle", "transfer", "table", "sleep", "cleanup", "held", "forget", "release"}]
    BY <1>b, <1>c, <1>t DEF TypeOK
  <2>3. ahead' \in [Procs -> SUBSET waiting']
    <3>1. CASE refused
      BY <1>b, <1>t, <3>1 DEF TypeOK
    <3>2. CASE ~refused
      BY Zenon, <1>c, <1>t, <3>2, Typed
    <3> QED BY Zenon, <3>1, <3>2
  <2>4. granted' \subseteq Procs /\ waiting' \subseteq Procs /\ knowsLock' \subseteq Procs
    BY Zenon, <1>a, <1>b, <1>c, <1>t, Typed
  <2> QED BY <1>a, <1>t, <2>1, <2>2, <2>3, <2>4 DEF TypeOK
<1>2. ASSUME NEW q \in Procs PROVE Place(q)' /\ Cleared(q)'
  <2>0. Place(q) /\ Cleared(q)
    BY Zenon DEF IInv
  <2>1. CASE q # p
    <3>1. (q \in granted' <=> q \in granted) /\ (q \in waiting' <=> q \in waiting)
      BY Zenon, <1>b, <1>c, <2>1
    <3>2. Place(q)'
      BY Zenon, <1>a, <1>f, <2>0, <2>1, <3>1, PlaceFrame
    <3> QED BY Zenon, <1>a, <1>f, <2>0, <2>1, <3>2, ClearedFrame
  <2>2. CASE q = p
    <3>1. Cleared(q)'
      BY Zenon, <1>a, <1>e, <1>f, <2>2 DEF Cleared
    <3>2. /\ refused => p \in waiting' /\ p \notin granted' /\ pc'[p] = "sleep"
          /\ ~refused => p \in granted' /\ p \notin waiting' /\ pc'[p] = "held"
      BY Zenon, <1>b, <1>c, <1>f, <1>n
    <3>3. Place(p)'
      BY Zenon, <1>a, <1>n, <1>t, <3>2 DEF Place
    <3> QED BY Zenon, <2>2, <3>1, <3>3
  <2> QED BY Zenon, <2>1, <2>2
<1>3. ASSUME NEW q \in Procs PROVE Alone(q)'
  <2>0. Alone(q)
    BY Zenon DEF IInv
  <2>1. CASE refused
    <3>1. granted' = granted /\ (q \in granted => q # p /\ pc'[q] = pc[q])
      BY Zenon, <1>b, <1>f, <1>n, <2>1
    <3> QED BY Zenon, <1>a, <2>0, <3>1 DEF Alone
  <2>2. CASE ~refused
    <3>1. q = p => (mode[p] = "strong" => granted = {})
      BY Zenon, <1>n, <1>r, <2>2 DEF Conflict
    <3>2. q # p /\ q \in granted => mode[q] # "strong"
      BY Zenon, <1>r, <2>2 DEF Conflict
    <3> QED BY Zenon, <1>a, <1>c, <2>2, <3>1, <3>2 DEF Alone
  <2> QED BY Zenon, <2>1, <2>2
<1>4. QueueInv'
  <2>1. CASE refused
    <3>1. /\ ahead'[p] = waiting /\ waiting' = waiting \cup {p}
          /\ \A q \in waiting : ahead'[q] = ahead[q]
      BY Zenon, <1>b, <1>n, <1>t, <2>1, Typed
    <3> QED BY Zenon, <1>n, <1>t, <3>1 DEF QueueInv
  <2>2. CASE ~refused
    BY Zenon, <1>c, <1>t, <2>2 DEF QueueInv
  <2> QED BY Zenon, <2>1, <2>2
<1>5. NoNeedlessWait'
  <2>1. CASE refused
    <3>1. /\ ahead'[p] = waiting /\ waiting' = waiting \cup {p} /\ granted' = granted
          /\ \A q \in waiting : ahead'[q] = ahead[q]
      BY Zenon, <1>b, <1>n, <1>t, <2>1, Typed
    <3>2. \E a \in granted \cup waiting : Conflict(mode[p], mode[a])
      BY Zenon, <1>r, <2>1
    <3>3. ASSUME NEW q \in waiting PROVE \E a \in granted \cup ahead[q] : Conflict(mode[q], mode[a])
      BY Zenon, <1>t DEF NoNeedlessWait
    <3>4. ASSUME NEW q \in waiting' PROVE \E a \in granted' \cup ahead'[q] : Conflict(mode[q], mode[a])
      BY Zenon, <3>1, <3>2, <3>3
    <3> QED BY Zenon, <1>a, <3>4 DEF NoNeedlessWait
  <2>2. CASE ~refused
    BY Zenon, <1>a, <1>c, <1>t, <2>2, WaitFrame
  <2> QED BY Zenon, <2>1, <2>2
<1>6. count' = Cardinality(counted')
  BY Zenon, <1>a, <1>t
<1> QED BY Zenon, <1>1, <1>2, <1>3, <1>4, <1>5, <1>6 DEF IInv

\* A step of a backend that takes it out of the table or of the queue and wakes
\* whoever can go on.
LEMMA LeaveStep ==
  ASSUME IInv, NEW p \in Procs, NEW g \in SUBSET granted, NEW s \in SUBSET waiting,
         granted \cup waiting \subseteq g \cup s \cup {p}, p \notin g \cup s \cup fp,
         CleanUpLock(g, s), knowsLock' \subseteq Procs, keeps' \subseteq Procs,
         UNCHANGED <<mode, next, count, counted, fp, fpTillEnd>>,
         \/ pc[p] \in {"cleanup", "release"} /\ pc' = [pc EXCEPT ![p] = "idle"]
         \/ pc[p] = "held" /\ pc' = [pc EXCEPT ![p] = "forget"]
  PROVE  IInv'
<1>t. TypeOK /\ QueueInv /\ NoNeedlessWait /\ count = Cardinality(counted) /\ Place(p)
  BY Zenon DEF IInv
<1>w. /\ granted' \cup waiting' = g \cup s /\ granted' \cap waiting' = {}
      /\ g \subseteq granted' /\ waiting' \subseteq s
      /\ ahead' \in [Procs -> SUBSET waiting'] /\ holdTillEnd' \in BOOLEAN
      /\ QueueInv' /\ NoNeedlessWait'
      /\ \A q \in granted' : mode[q] = "strong" /\ (q \in g => g = {q}) => granted' = {q}
  BY Zenon, Wakeup
<1>f. /\ \A q \in Procs \ {p} : pc'[q] = pc[q]
      /\ \/ pc[p] \in {"cleanup", "release"} /\ pc'[p] = "idle"
         \/ pc[p] = "held" /\ pc'[p] = "forget"
  <2>1. CASE pc[p] \in {"cleanup", "release"} /\ pc' = [pc EXCEPT ![p] = "idle"]
    BY Zenon, <1>t, <2>1, Typed
  <2>2. CASE pc[p] = "held" /\ pc' = [pc EXCEPT ![p] = "forget"]
    BY Zenon, <1>t, <2>2, Typed
  <2> QED BY Zenon, <2>1, <2>2
<1>n. granted \cap waiting = {} /\ p \notin granted' \cup waiting'
  <2>1. granted \subseteq Procs
    BY Zenon, <1>t, Typed
  <2> QED BY Zenon, <1>w, <2>1 DEF IInv, Place
<1>1. TypeOK'
  <2>1. pc' \in [Procs -> {"idle", "transfer", "table", "sleep", "cleanup", "held", "forget", "release"}]
    BY <1>t DEF TypeOK
  <2>2. granted' \subseteq Procs /\ waiting' \subseteq Procs
    BY Zenon, <1>t, <1>w, Typed
  <2> QED BY <1>t, <1>w, <2>1, <2>2 DEF TypeOK
<1>2. ASSUME NEW q \in Procs PROVE Place(q)' /\ Cleared(q)'
  <2>0. Place(q) /\ Cleared(q)
    BY Zenon DEF IInv
  <2>1. CASE q # p
    <3>1. /\ q \in granted => q \in granted'
          /\ q \in granted' => q \in granted \cup waiting
          /\ q \in waiting' => q \in waiting /\ q \notin granted'
          /\ q \in waiting => q \in waiting' \cup granted'
      BY Zenon, <1>w, <1>n, <2>1
    <3>2. Place(q)'
      BY Zenon, <1>f, <2>0, <2>1, <3>1 DEF Place
    <3> QED BY Zenon, <1>f, <2>0, <2>1, <3>2, ClearedFrame
  <2>2. CASE q = p
    BY Zenon, <1>f, <1>n, <1>t, <2>0, <2>2 DEF Place, Cleared
  <2> QED BY Zenon, <2>1, <2>2
<1>3. ASSUME NEW q \in Procs PROVE Alone(q)'
  <2>0. Alone(q)
    BY Zenon DEF IInv
  <2>1. CASE q \in g
    <3>1. q \in granted /\ q # p
      BY Zenon, <2>1
    <3>2. mode[q] = "strong" /\ pc'[q] \in {"sleep", "held"} => g = {q}
      BY Zenon, <1>f, <2>0, <2>1, <3>1 DEF Alone
    <3> QED BY Zenon, <1>w, <3>2 DEF Alone
  <2>2. CASE q \notin g
    BY Zenon, <1>w, <2>2 DEF Alone
  <2> QED BY Zenon, <2>1, <2>2
<1>4. count' = Cardinality(counted')
  BY Zenon, <1>t
<1> QED BY Zenon, <1>w, <1>1, <1>2, <1>3, <1>4 DEF IInv

\* A lock in the shared table is released, and waiters are woken.
LEMMA ReleaseStep ==
  ASSUME IInv, NEW p \in Procs, LockRelease(p) \/ ReleaseAllShared(p)
  PROVE  IInv'
<1> USE DEF strong, fast
<1>a. /\ CleanUpLock(granted \ {p}, waiting) /\ pc[p] \in {"held", "release"}
      /\ UNCHANGED <<mode, next, count, counted, fp, fpTillEnd>>
  BY Zenon DEF LockRelease, ReleaseAllShared
<1>t. TypeOK /\ Place(p)
  BY Zenon DEF IInv
<1>b. knowsLock' \subseteq Procs /\ keeps' \subseteq Procs
  BY Zenon, <1>t, Typed DEF LockRelease, ReleaseAllShared
<1>c. \/ pc[p] \in {"cleanup", "release"} /\ pc' = [pc EXCEPT ![p] = "idle"]
      \/ pc[p] = "held" /\ pc' = [pc EXCEPT ![p] = "forget"]
  BY Zenon DEF LockRelease, ReleaseAllShared
<1>d. p \notin waiting \cup fp
  BY Zenon, <1>a, <1>t DEF Place, LockRelease, ReleaseAllShared
<1> QED BY Zenon, <1>a, <1>b, <1>c, <1>d, LeaveStep

\* A cancelled waiter leaves the queue, or finds that it has been granted the lock.
LEMMA ErrorCleanupStep ==
  ASSUME IInv, NEW p \in Procs, LockErrorCleanup(p)
  PROVE  IInv'
<1> USE DEF strong, fast, table, queue
<1>a. /\ pc[p] = "cleanup" /\ UNCHANGED <<mode, next, keeps, count, counted, fp, fpTillEnd>>
  BY Zenon DEF LockErrorCleanup
<1>t. TypeOK /\ Place(p)
  BY Zenon DEF IInv
<1>1. CASE p \in waiting
  <2>1. /\ CleanUpLock(granted, waiting \ {p}) /\ knowsLock' = knowsLock \ {p}
        /\ pc' = [pc EXCEPT ![p] = "idle"]
    BY Zenon, <1>1 DEF LockErrorCleanup, RemoveFromWaitQueue
  <2>2. p \notin granted \cup fp /\ knowsLock' \subseteq Procs /\ keeps' \subseteq Procs
    BY Zenon, <1>a, <1>1, <1>t, <2>1, Typed DEF Place
  <2> QED BY Zenon, <1>a, <2>1, <2>2, LeaveStep
<1>2. CASE p \notin waiting
  <2>1. /\ pc' = [pc EXCEPT ![p] = "release"]
        /\ UNCHANGED <<granted, waiting, ahead, holdTillEnd, knowsLock>>
    BY Zenon, <1>2 DEF LockErrorCleanup
  <2>2. pc'[p] = "release" /\ \A q \in Procs \ {p} : pc'[q] = pc[q]
    BY Zenon, <1>t, <2>1, Typed
  <2>3. TypeOK'
    BY <1>a, <1>t, <2>1 DEF TypeOK
  <2>4. Place(p)' /\ Cleared(p)' /\ Alone(p)'
    BY Zenon, <1>a, <1>2, <1>t, <2>1, <2>2 DEF Place, Cleared, Alone
  <2> QED BY Zenon, <1>a, <2>1, <2>2, <2>3, <2>4, OwnStep
<1> QED BY Zenon, <1>1, <1>2

\* Nothing happens.
LEMMA Stuttering == ASSUME IInv, UNCHANGED vars PROVE IInv'
<1> USE DEF vars, backend, strong, fast, table, queue
<1>t. TypeOK /\ QueueInv /\ NoNeedlessWait /\ count = Cardinality(counted)
  BY Zenon DEF IInv
<1>1. TypeOK'
  BY Zenon, <1>t DEF TypeOK
<1>2. \A p \in Procs : Place(p)' /\ Cleared(p)' /\ Alone(p)'
  BY Zenon DEF IInv, Place, Cleared, Alone
<1>3. QueueInv' /\ NoNeedlessWait'
  BY Zenon, <1>t DEF QueueInv, NoNeedlessWait
<1> QED BY Zenon, <1>t, <1>1, <1>2, <1>3 DEF IInv

\* The strengthened invariant holds throughout.
THEOREM Inductive == Spec => []IInv
<1>1. IInv /\ [Next]_vars => IInv'
  <2> SUFFICES ASSUME IInv, [Next]_vars PROVE IInv'
    OBVIOUS
  <2>1. CASE UNCHANGED vars
    BY Zenon, <2>1, Stuttering
  <2>2. CASE Next
    <3>1. PICK p \in Procs :
            \/ FastPathGrantRelationLock(p) \/ FastPathRefused(p) \/ BeginStrongLockAcquire(p)
            \/ TransferFails(p) \/ CancelWait(p)
            \/ LockSetHoldTillEndXact(p) \/ LockRelease(p)
            \/ Proceed(p) \/ End(p)
      BY Zenon, <2>2 DEF Next
    <3>2. CASE Proceed(p)
      BY Zenon, <3>2, TransferStep, SetupStep, AwakeStep, ErrorCleanupStep, ForgetStep, ReleaseStep
         DEF Proceed
    <3>3. CASE End(p)
      BY Zenon, <3>3, UnGrantFast, ForgetStep DEF End
    <3> QED BY Zenon, <3>1, <3>2, <3>3, GrantFast, Ask, TransferFailsStep, CancelStep, KeepStep,
               ReleaseStep
  <2> QED BY Zenon, <2>1, <2>2
<1> QED BY <1>1, InitInvariant, PTL DEF Spec

\* Whatever the number of backends, two whose LockAcquire has returned hold
\* compatible locks, be they in fpLockBits or in the shared table.
THEOREM NoConflictingHoldersHolds == Spec => []NoConflictingHolders
<1>1. ASSUME IInv PROVE NoConflictingHolders
  <2> SUFFICES ASSUME NEW p \in Procs, NEW q \in Procs, p # q, pc[p] = "held", pc[q] = "held",
                      mode[p] = "strong"
               PROVE  FALSE
    BY Zenon DEF NoConflictingHolders, Conflict
  <2>1. Place(p) /\ Cleared(p) /\ Alone(p) /\ Place(q)
    BY Zenon, <1>1 DEF IInv
  <2>2. fp = {}
    BY Zenon, <2>1 DEF Place, Cleared
  <2>3. granted = {p}
    BY Zenon, <2>1, <2>2 DEF Place, Alone
  <2> QED BY Zenon, <2>1, <2>2, <2>3 DEF Place
<1> QED BY <1>1, Inductive, PTL

\* A strong locker that sleeps has moved every lock there is to the table, where
\* the deadlock detectors see it.
THEOREM WaitsForTheTableHolds == Spec => []WaitsForTheTable
<1>1. IInv => WaitsForTheTable
  BY Zenon DEF IInv, Place, Cleared, WaitsForTheTable
<1> QED BY <1>1, Inductive, PTL

\* ProcLockWakeup, run by whoever releases or gives up, leaves nobody asleep
\* without a lock or a waiter in the way.
THEOREM NoNeedlessWaitHolds == Spec => []NoNeedlessWait
<1>1. IInv => NoNeedlessWait
  BY Zenon DEF IInv
<1> QED BY <1>1, Inductive, PTL

\* A backend that is done holds nothing and waits for nothing, and the count is
\* the number of strong lockers: errors and cancels give back what they took.
THEOREM NothingLeftBehindHolds == Spec => []NothingLeftBehind
<1>1. ASSUME IInv PROVE NothingLeftBehind
  <2>1. ASSUME NEW p \in Procs, pc[p] = "idle" PROVE p \notin granted \cup waiting \cup fp \cup counted
    BY Zenon, <1>1, <2>1 DEF IInv, Place
  <2> QED BY Zenon, <1>1, <2>1 DEF IInv, NothingLeftBehind
<1> QED BY <1>1, Inductive, PTL
=============================================================================
