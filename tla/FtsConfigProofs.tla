-------------------------- MODULE FtsConfigProofs --------------------------
(***************************************************************************)
(* What a backend may rely on, for any number of backends, events, probes, *)
(* failures of the probe process and requests: FtsNotifyProber returns     *)
(* fresh results, and a transaction runs with a configuration no older     *)
(* than the one published when it began.                                   *)
(*                                                                         *)
(* RequestInv numbers the probe a request waits for and says what that     *)
(* probe has seen, at each place of the loop.  VersionInv says that two    *)
(* publications never share a version, which is where the width of the     *)
(* counter comes in.                                                       *)
(***************************************************************************)
EXTENDS FtsConfig, TLAPS

\* The probe a backend waits for: one that begins after it asked, or the first
\* one it has seen begin.
Needed(b) == IF backend[b] = "awaitDone" THEN started[b] ELSE initial[b] + 1
Asking(b) == backend[b] \in {"request", "awaitStart", "awaitDone"}

Types ==
  /\ TypeOK
  /\ initial \in [Backends -> Nat] /\ started \in [Backends -> Nat] /\ asked \in [Backends -> Nat]
  /\ held \in [Backends -> Nat] /\ due \in [Backends -> Nat]
  /\ cache \in [Backends -> [config : Nat, version : Nat]]
  /\ \A b \in Backends : backend[b] = "looked" => held[b] <= catalog
  /\ calls \in Nat /\ timeouts \in Nat /\ errors \in Nat

\* The probe process alone writes the catalog and the file.
LoopInv ==
  /\ fts = "probing" => known = catalog
  /\ errors = 0 /\ fts # "updated" => file = catalog

\* A probe that began after a backend asked has seen what the backend knew.
RequestOf(b) ==
  /\ Asking(b) =>
       /\ Needed(b) <= start + 1
       /\ /\ Needed(b) <= start
          /\ fts \in {"updated", "written", "probed", "finished", "waiting"}
          => catalog >= asked[b]
       /\ Needed(b) <= done => catalog >= asked[b] /\ (errors = 0 => file >= asked[b])
  /\ backend[b] = "served" => catalog >= asked[b] /\ (errors = 0 => file >= asked[b])

RequestInv == \A b \in Backends : RequestOf(b)

\* Every publication has a version of its own.
VersionInv ==
  /\ version <= published + 1
  /\ fts \in {"updated", "written"} => published < catalog
  /\ \A b \in Backends \ TempBackends :
       /\ backend[b] # "looked"
       /\ cache[b] # None => /\ cache[b].version <= version
                             /\ cache[b].version = version => cache[b].config >= published
       /\ backend[b] = "starting" =>
            held[b] <= version /\ (cache[b].version = held[b] => cache[b].config >= due[b])
       /\ backend[b] = "running" => cache[b].config >= due[b]

RInv == Types /\ LoopInv /\ RequestInv

-----------------------------------------------------------------------------
\* The types of the configuration and of the probe process.
LoopTypes ==
  /\ world \in 0 .. MaxEvents /\ catalog \in 0 .. MaxEvents /\ file \in 0 .. MaxEvents
  /\ published \in 0 .. MaxEvents /\ known \in 0 .. MaxEvents
  /\ catalog <= world /\ file <= catalog /\ published <= catalog
  /\ version \in 0 .. VersionModulus - 1
  /\ start \in Nat /\ done \in 0 .. start
  /\ fts \in {"begin", "started", "probing", "updated", "written", "probed", "finished", "waiting"}
  /\ calls \in Nat /\ timeouts \in Nat /\ errors \in Nat
  /\ calls <= MaxCalls /\ timeouts + errors <= MaxExtras

Flags == requested \in BOOLEAN /\ latch \in BOOLEAN /\ long \in BOOLEAN /\ wake \in BOOLEAN

\* The invariant holds at first.
LEMMA Starts == Init => RInv
<1> SUFFICES ASSUME Init PROVE RInv
  BY Zenon
<1> USE DEF Init
<1>1. Types
  <2>1. LoopTypes
    BY BoundsAssumption, ModulusAssumption DEF LoopTypes
  <2>2. Flags
    BY Zenon DEF Flags
  <2>3. TypeOK
    BY Zenon, <2>1, <2>2, BoundsAssumption, ModulusAssumption DEF LoopTypes, Flags, TypeOK, None
  <2> QED BY Zenon, <2>3, ModulusAssumption DEF Types, None
<1>2. LoopInv /\ RequestInv
  BY Zenon DEF LoopInv, RequestInv, RequestOf, Asking
<1> QED BY Zenon, <1>1, <1>2 DEF RInv

\* The loop of the probe process.
LEMMA LoopStep ==
  ASSUME RInv, Event \/ FtsLoop \/ TimesOut \/ FtsFails \/ sigIntHandler
  PROVE  RInv'
<1> USE DEF configuration, loop, session, bounds, FtsLoop
<1>S. UNCHANGED session
  BY Zenon DEF Event, StartProbe, ReadConfiguration, FtsWalRepMessageSegments, writeGpSegConfigToFTSFiles,
         BumpVersion, FinishProbe, RecheckRequested, WaitLatch, TimesOut, FtsFails, sigIntHandler
<1>L. LoopTypes
  BY Zenon DEF LoopTypes, RInv, Types, TypeOK
<1>F. Flags'
  <2>1. Flags
    BY Zenon DEF Flags, RInv, Types, TypeOK
  <2> QED
    BY <2>1, Zenon
    DEF Flags, Event, StartProbe, ReadConfiguration, FtsWalRepMessageSegments,
        writeGpSegConfigToFTSFiles, BumpVersion, FinishProbe, RecheckRequested, WaitLatch, TimesOut,
        FtsFails, sigIntHandler
<1>T. ASSUME LoopTypes', world' >= world, catalog' >= catalog, published' >= published,
             start' >= start
      PROVE  Types'
  <2>1. TypeOK'
    BY <1>S, <1>F, <1>L, <1>T DEF LoopTypes, Flags, RInv, Types, TypeOK
  <2> QED BY <1>S, <1>L, <1>T, <2>1 DEF LoopTypes, RInv, Types, TypeOK
<1>1. CASE Event
  <2>1. Types'
    BY <1>L, <1>T, <1>1, BoundsAssumption DEF Event, LoopTypes
  <2>2. LoopInv' /\ RequestInv' BY Zenon, <1>1 DEF Event, RInv, LoopInv, RequestInv, RequestOf, Asking, Needed
  <2> QED BY Zenon, <2>1, <2>2 DEF RInv
<1>2. CASE StartProbe
  <2>1. Types'
    BY <1>L, <1>T, <1>2, BoundsAssumption DEF StartProbe, LoopTypes
  <2>2. LoopInv' BY Zenon, <1>2 DEF StartProbe, RInv, LoopInv
  <2>3. RequestInv' BY <1>2 DEF StartProbe, RInv, RequestInv, RequestOf, Asking, Needed, Types, TypeOK
  <2> QED BY Zenon, <2>1, <2>2, <2>3 DEF RInv
<1>3. CASE ReadConfiguration
  <2>1. Types'
    BY <1>L, <1>T, <1>3, ModulusAssumption DEF ReadConfiguration, LoopTypes
  <2>2. LoopInv' BY Zenon, <1>3 DEF ReadConfiguration, RInv, LoopInv
  <2>3. RequestInv' BY Zenon, <1>3 DEF ReadConfiguration, RInv, RequestInv, RequestOf, Asking, Needed, Types, TypeOK
  <2> QED BY Zenon, <2>1, <2>2, <2>3 DEF RInv
<1>4. CASE FtsWalRepMessageSegments
  <2>1. Types'
    <3>1. fts' \in {"probed", "updated"} /\ catalog' \in {catalog, world}
      BY <1>4, Zenon DEF FtsWalRepMessageSegments
    <3>2. UNCHANGED <<world, file, version, published, start, done, known, bounds>>
      BY Zenon, <1>4 DEF FtsWalRepMessageSegments
    <3> QED BY <1>L, <1>T, <3>1, <3>2 DEF LoopTypes
  <2>2. LoopInv' BY Zenon, <1>4 DEF FtsWalRepMessageSegments, RInv, LoopInv
  <2>3. RequestInv'
    BY Zenon, <1>4 DEF FtsWalRepMessageSegments, RInv, LoopInv, RequestInv, RequestOf, Asking, Needed, Types, TypeOK
  <2> QED BY Zenon, <2>1, <2>2, <2>3 DEF RInv
<1>5. CASE writeGpSegConfigToFTSFiles
  <2>1. Types'
    BY <1>L, <1>T, <1>5 DEF writeGpSegConfigToFTSFiles, LoopTypes
  <2>2. LoopInv' BY Zenon, <1>5 DEF writeGpSegConfigToFTSFiles, RInv, LoopInv
  <2>3. RequestInv'
    BY Zenon, <1>5 DEF writeGpSegConfigToFTSFiles, RInv, RequestInv, RequestOf, Asking, Needed, Types, TypeOK
  <2> QED BY Zenon, <2>1, <2>2, <2>3 DEF RInv
<1>6. CASE BumpVersion
  <2>1. (version + 1) % VersionModulus \in 0 .. VersionModulus - 1
    BY ModulusAssumption DEF RInv, Types, TypeOK
  <2>2. Types'
    BY <1>L, <1>T, <1>6, <2>1 DEF BumpVersion, LoopTypes
  <2>3. LoopInv' /\ RequestInv'
    BY Zenon, <1>6 DEF BumpVersion, RInv, LoopInv, RequestInv, RequestOf, Asking, Needed
  <2> QED BY Zenon, <2>2, <2>3 DEF RInv
<1>7. CASE FinishProbe
  <2>1. Types'
    BY <1>L, <1>T, <1>7, BoundsAssumption DEF FinishProbe, LoopTypes
  <2>2. LoopInv' BY Zenon, <1>7 DEF FinishProbe, RInv, LoopInv
  <2>3. RequestInv'
    BY Zenon, <1>7 DEF FinishProbe, RInv, LoopInv, RequestInv, RequestOf, Asking, Needed, Types, TypeOK
  <2> QED BY Zenon, <2>1, <2>2, <2>3 DEF RInv
<1>8. CASE RecheckRequested \/ WaitLatch \/ TimesOut
  <2>1. Types'
    <3>1. CASE RecheckRequested \/ WaitLatch
      BY <1>L, <1>T, <3>1 DEF RecheckRequested, WaitLatch, LoopTypes
    <3>2. CASE TimesOut
      <4>1. /\ timeouts' = timeouts \/ (timeouts + errors < MaxExtras /\ timeouts' = timeouts + 1)
            /\ fts' = "begin" /\ UNCHANGED <<configuration, start, done, known, calls, errors>>
        BY <3>2, Zenon DEF TimesOut
      <4> QED BY <1>L, <1>T, <4>1, BoundsAssumption DEF LoopTypes
    <3> QED BY Zenon, <1>8, <3>1, <3>2
  <2>2. LoopInv' BY Zenon, <1>8 DEF RecheckRequested, WaitLatch, TimesOut, RInv, LoopInv
  <2>3. RequestInv'
    BY Zenon, <1>8 DEF RecheckRequested, WaitLatch, TimesOut, RInv, RequestInv, RequestOf, Asking, Needed
  <2> QED BY Zenon, <2>1, <2>2, <2>3 DEF RInv
<1>9. CASE FtsFails
  <2>1. Types'
    BY <1>L, <1>T, <1>9, BoundsAssumption DEF FtsFails, LoopTypes
  <2>2. LoopInv' BY <1>9 DEF FtsFails, RInv, LoopInv, Types
  <2>3. RequestInv' BY <1>9 DEF FtsFails, RInv, RequestInv, RequestOf, Asking, Needed, Types
  <2> QED BY Zenon, <2>1, <2>2, <2>3 DEF RInv
<1>10. CASE sigIntHandler
  <2>1. Types'
    BY <1>L, <1>T, <1>10 DEF sigIntHandler, LoopTypes
  <2>2. LoopInv' /\ RequestInv'
    BY Zenon, <1>10 DEF sigIntHandler, RInv, LoopInv, RequestInv, RequestOf, Asking, Needed
  <2> QED BY Zenon, <2>1, <2>2 DEF RInv
<1> QED BY Zenon, <1>1, <1>2, <1>3, <1>4, <1>5, <1>6, <1>7, <1>8, <1>9, <1>10

\* A backend asks for a probe and waits for it.
LEMMA RequestStep ==
  ASSUME RInv, NEW b \in Backends, FtsNotifyProber(b) \/ Waits(b) \/ Served(b)
  PROVE  RInv'
<1> USE DEF configuration, loop, session, bounds, Go, Set, Drop, Call, Waits
<1>1. LoopInv'
  BY Zenon DEF FtsNotifyProber, SendPostmasterSignal, AwaitStart, AwaitDone, Served, RInv, LoopInv
<1>2. CASE FtsNotifyProber(b)
  <2>1. Types' BY <1>2, BoundsAssumption DEF FtsNotifyProber, RInv, Types, TypeOK
  <2>2. RequestInv' BY <1>2 DEF FtsNotifyProber, RInv, RequestInv, RequestOf, Asking, Needed, Types, TypeOK
  <2> QED BY Zenon, <1>1, <2>1, <2>2 DEF RInv
<1>3. CASE SendPostmasterSignal(b)
  <2>1. Types' BY Zenon, <1>3 DEF SendPostmasterSignal, RInv, Types, TypeOK
  <2>2. RequestInv' BY Zenon, <1>3 DEF SendPostmasterSignal, RInv, RequestInv, RequestOf, Asking, Needed, Types, TypeOK
  <2> QED BY Zenon, <1>1, <2>1, <2>2 DEF RInv
<1>4. CASE AwaitStart(b)
  <2>1. Types' BY <1>4 DEF AwaitStart, RInv, Types, TypeOK
  <2>2. /\ initial[b] < start /\ started'[b] = start /\ backend[b] = "awaitStart"
        /\ backend'[b] = "awaitDone" /\ UNCHANGED <<configuration, loop, asked, errors>>
        /\ \A n \in Backends \ {b} : /\ initial'[n] = initial[n] /\ started'[n] = started[n]
                                     /\ backend'[n] = backend[n]
    <3>1. initial[b] < start
      <4>1. start # initial[b]
        BY Zenon, <1>4 DEF AwaitStart
      <4>2. initial[b] \in Nat /\ start \in Nat /\ initial[b] <= start
        BY Zenon DEF RInv, Types, TypeOK
      <4> QED BY <4>1, <4>2
    <3>2. /\ started' = [started EXCEPT ![b] = start] /\ initial' = [initial EXCEPT ![b] = 0]
          /\ backend' = [backend EXCEPT ![b] = "awaitDone"] /\ backend[b] = "awaitStart"
          /\ UNCHANGED <<configuration, loop, asked, errors>>
      BY Zenon, <1>4 DEF AwaitStart
    <3> QED BY Zenon, <3>1, <3>2 DEF RInv, Types, TypeOK
  <2>3. RequestInv'
    <3>0. initial \in [Backends -> Nat] /\ start \in Nat /\ done \in Nat
      BY DEF RInv, Types, TypeOK
    <3>1. ASSUME NEW n \in Backends \ {b}
          PROVE  (Asking(n)' <=> Asking(n)) /\ Needed(n)' = Needed(n)
      BY Zenon, <2>2 DEF Asking, Needed
    <3>2. /\ Asking(b) /\ Needed(b) <= Needed(b)' /\ Needed(b)' = start
          /\ Needed(b) \in Nat
      BY <2>2, <3>0 DEF Asking, Needed
    <3>3. ASSUME NEW n \in Backends \ {b}
          PROVE  RequestOf(n)'
      BY Zenon, <2>2, <3>1 DEF RInv, RequestInv, RequestOf
    <3>4. RequestOf(b)'
      BY <2>2, <3>0, <3>2 DEF RInv, RequestInv, RequestOf
    <3> QED BY Zenon, <3>3, <3>4 DEF RequestInv
  <2> QED BY Zenon, <1>1, <2>1, <2>3 DEF RInv
<1>5. CASE AwaitDone(b)
  <2>1. Types' BY <1>5 DEF AwaitDone, RInv, Types, TypeOK
  <2>2. RequestInv' BY Zenon, <1>5 DEF AwaitDone, RInv, RequestInv, RequestOf, Asking, Needed, Types, TypeOK
  <2> QED BY Zenon, <1>1, <2>1, <2>2 DEF RInv
<1>6. CASE Served(b)
  <2>1. Types' BY <1>6 DEF Served, RInv, Types, TypeOK
  <2>2. RequestInv' BY Zenon, <1>6 DEF Served, RInv, RequestInv, RequestOf, Asking, Needed, Types, TypeOK
  <2> QED BY Zenon, <1>1, <2>1, <2>2 DEF RInv
<1> QED BY Zenon, <1>2, <1>3, <1>4, <1>5, <1>6

\* A backend looks the configuration up, or runs a transaction.
LEMMA SessionStep ==
  ASSUME RInv, NEW b \in Backends,
         \/ LookUp(b) \/ cdbcomponent_getCdbComponents(b)
         \/ StartTransaction(b) \/ cdbcomponent_updateCdbComponents(b) \/ EndTransaction(b)
         \/ DisconnectAndDestroyAllGangs(b)
  PROVE  RInv'
<1> USE DEF configuration, loop, session, bounds, Go, Set, Drop, Call
<1>1. LoopInv'
  BY Zenon DEF LookUp, cdbcomponent_getCdbComponents, StartTransaction, cdbcomponent_updateCdbComponents,
         EndTransaction, DisconnectAndDestroyAllGangs, RInv, LoopInv
<1>2. RequestInv'
  <2>1. /\ UNCHANGED <<configuration, loop, initial, started, asked, errors>>
        /\ \A n \in Backends : \/ backend'[n] = backend[n]
                               \/ backend'[n] \in {"looked", "idle", "starting", "running"}
    BY Zenon DEF LookUp, cdbcomponent_getCdbComponents, StartTransaction,
           cdbcomponent_updateCdbComponents, EndTransaction, DisconnectAndDestroyAllGangs, RInv,
           Types, TypeOK
  <2> QED BY Zenon, <2>1 DEF RInv, RequestInv, RequestOf, Asking, Needed
<1>3. CASE LookUp(b)
  <2>1. Types' BY <1>3, BoundsAssumption DEF LookUp, RInv, Types, TypeOK
  <2> QED BY Zenon, <1>1, <1>2, <2>1 DEF RInv
<1>4. CASE cdbcomponent_getCdbComponents(b)
  <2>1. Types' BY <1>4 DEF cdbcomponent_getCdbComponents, RInv, Types, TypeOK
  <2> QED BY Zenon, <1>1, <1>2, <2>1 DEF RInv
<1>5. CASE StartTransaction(b)
  <2>1. Types' BY <1>5, BoundsAssumption DEF StartTransaction, RInv, Types, TypeOK
  <2> QED BY Zenon, <1>1, <1>2, <2>1 DEF RInv
<1>6. CASE cdbcomponent_updateCdbComponents(b)
  <2>1. Types'
    <3>1. \/ cache' = cache
          \/ cache' = [cache EXCEPT ![b] = [config |-> catalog, version |-> held[b]]]
      BY Zenon, <1>6 DEF cdbcomponent_updateCdbComponents
    <3> QED BY <1>6, <3>1 DEF cdbcomponent_updateCdbComponents, RInv, Types, TypeOK
  <2> QED BY Zenon, <1>1, <1>2, <2>1 DEF RInv
<1>7. CASE EndTransaction(b)
  <2>1. Types' BY <1>7 DEF EndTransaction, RInv, Types, TypeOK
  <2> QED BY Zenon, <1>1, <1>2, <2>1 DEF RInv
<1>8. CASE DisconnectAndDestroyAllGangs(b)
  <2>1. None \in [config : Nat, version : Nat] /\ None.config = 0
    BY Zenon, ModulusAssumption DEF None
  <2>2. Types' BY <1>8, <2>1, BoundsAssumption DEF DisconnectAndDestroyAllGangs, RInv, Types, TypeOK
  <2> QED BY Zenon, <1>1, <1>2, <2>2 DEF RInv
<1> QED BY Zenon, <1>3, <1>4, <1>5, <1>6, <1>7, <1>8

\* Every step preserves the invariant.
LEMMA Steps == RInv /\ [Next]_vars => RInv'
<1> SUFFICES ASSUME RInv, [Next]_vars PROVE RInv'
  BY Zenon
<1>1. CASE UNCHANGED vars
  BY Zenon, <1>1 DEF vars, configuration, loop, session, bounds, RInv, Types, TypeOK, LoopInv, RequestInv, RequestOf,
              Asking, Needed
<1> QED BY Zenon, <1>1, LoopStep, RequestStep, SessionStep DEF Next

\* The invariant behind fresh results holds, for any number of backends, events,
\* probes and failures.
THEOREM Inductive == Spec => []RInv
BY Starts, Steps, PTL DEF Spec

\* The configuration and the counters have their types.
THEOREM TypeCorrect == Spec => []TypeOK
<1>1. RInv => TypeOK
  BY Zenon DEF RInv, Types
<1> QED BY <1>1, Inductive, PTL

\* When FtsNotifyProber returns, all that had happened when it was called is in
\* the configuration.
THEOREM FreshResultsHolds == Spec => []FreshResults
<1>1. RInv => FreshResults
  BY Zenon DEF RInv, RequestInv, RequestOf, FreshResults
<1> QED BY <1>1, Inductive, PTL

\* ... and in the dump file, if the probe process never ended with an error.
THEOREM FreshFileHolds == Spec => []FreshFile
<1>1. RInv => FreshFile
  BY Zenon DEF RInv, RequestInv, RequestOf, FreshFile
<1> QED BY <1>1, Inductive, PTL

-----------------------------------------------------------------------------
\* The version, as long as it does not wrap around: no publication shares its
\* version with another one.
LEMMA VersionStep ==
  ASSUME MaxEvents + 1 < VersionModulus, Lookers \subseteq TempBackends, RInv, VersionInv,
         [Next]_vars
  PROVE  VersionInv'
<1> USE DEF configuration, loop, session, bounds, Go, Set, Drop, Call, vars
<1>N. None.version = VersionModulus /\ VersionModulus \in Nat
  BY Zenon, ModulusAssumption DEF None
<1>0. /\ world \in Nat /\ catalog \in Nat /\ published \in Nat /\ version \in Nat
      /\ published <= catalog /\ catalog <= world /\ catalog <= MaxEvents /\ version < VersionModulus
      /\ MaxEvents \in Nat
      /\ cache \in [Backends -> [config : Nat, version : Nat]]
      /\ held \in [Backends -> Nat] /\ due \in [Backends -> Nat]
      /\ \A b \in Backends : due[b] <= published
      /\ DOMAIN backend = Backends
  BY BoundsAssumption, ModulusAssumption DEF RInv, Types, TypeOK
\* The steps that change neither the version nor a session.
<1>1. ASSUME UNCHANGED <<version, published, session>>, catalog' >= catalog, catalog' \in Nat,
             fts' \in {"updated", "written"} => published < catalog'
      PROVE  VersionInv'
  BY Zenon, <1>1 DEF VersionInv
<1>2. CASE Event \/ StartProbe \/ writeGpSegConfigToFTSFiles \/ FinishProbe \/ RecheckRequested
           \/ WaitLatch \/ TimesOut \/ FtsFails \/ sigIntHandler
  BY Zenon, <1>0, <1>1, <1>2
  DEF VersionInv, Event, StartProbe, writeGpSegConfigToFTSFiles, FinishProbe, RecheckRequested,
      WaitLatch, TimesOut, FtsFails, sigIntHandler
<1>3. CASE FtsWalRepMessageSegments
  <2>1. UNCHANGED <<version, published, session>>
    BY Zenon, <1>3 DEF FtsWalRepMessageSegments
  <2>2. \/ fts' = "probed" /\ catalog' = catalog
        \/ fts' = "updated" /\ catalog' = world /\ world # catalog
    BY <1>3, Zenon DEF FtsWalRepMessageSegments, RInv, LoopInv
  <2> QED BY <1>0, <1>1, <2>1, <2>2
\* The version is counted up.
<1>4. ASSUME version' = version + 1, published' = catalog, UNCHANGED <<catalog, session>>,
             fts' \notin {"updated", "written"}, version' <= catalog + 1
      PROVE  VersionInv'
  BY <1>0, <1>4 DEF VersionInv
<1>5. CASE BumpVersion
  <2>0. version <= published + 1 /\ published < catalog
    BY Zenon, <1>5 DEF BumpVersion, VersionInv
  <2>1. version + 1 <= catalog + 1 /\ version + 1 < VersionModulus /\ version + 1 \in Nat
    BY <1>0, <1>N, <2>0
  <2>2. (version + 1) % VersionModulus = version + 1
    <3> DEFINE n == version + 1
    <3> HIDE DEF n
    <3> QED BY <1>N, <2>1 DEF n
  <2> QED BY Zenon, <1>4, <1>5, <2>1, <2>2 DEF BumpVersion
<1>6. CASE ReadConfiguration
  <2>1. CASE version = 0
    BY <1>0, <1>4, <1>6, <2>1 DEF ReadConfiguration
  <2>2. CASE version # 0
    BY <1>0, <1>1, <1>6, <2>2 DEF ReadConfiguration
  <2> QED BY Zenon, <2>1, <2>2
\* The requests for a probe.
<1>7. ASSUME NEW b \in Backends, FtsNotifyProber(b) \/ Waits(b) \/ Served(b)
      PROVE  VersionInv'
  <2>1. /\ UNCHANGED <<version, published, catalog, fts, cache, due>>
        /\ \A n \in Backends : \/ backend'[n] = backend[n]
                               \/ backend'[n] \notin {"starting", "running"}
        /\ \A n \in Backends \ TempBackends :
             held'[n] = held[n] /\ (backend'[n] = "looked" => backend[n] = "looked")
    BY Zenon, <1>0, <1>7 DEF FtsNotifyProber, Waits, SendPostmasterSignal, AwaitStart, AwaitDone, Served
  <2> QED BY Zenon, <2>1 DEF VersionInv
<1>8. ASSUME NEW b \in Backends, LookUp(b) \/ cdbcomponent_getCdbComponents(b)
      PROVE  VersionInv'
  <2>1. b \in TempBackends
    BY Zenon, <1>8 DEF LookUp, cdbcomponent_getCdbComponents, VersionInv
  <2>2. /\ UNCHANGED <<version, published, catalog, fts, due>>
        /\ \A n \in Backends \ {b} : /\ backend'[n] = backend[n] /\ cache'[n] = cache[n]
                                     /\ held'[n] = held[n]
    BY Zenon, <1>0, <1>8 DEF LookUp, cdbcomponent_getCdbComponents
  <2> QED BY Zenon, <2>1, <2>2 DEF VersionInv
<1>9. ASSUME NEW b \in Backends, StartTransaction(b)
      PROVE  VersionInv'
  <2>1. /\ backend' = [backend EXCEPT ![b] = "starting"] /\ held' = [held EXCEPT ![b] = version]
        /\ due' = [due EXCEPT ![b] = published]
        /\ UNCHANGED <<version, published, catalog, fts, cache>>
    BY Zenon, <1>9 DEF StartTransaction
  <2>2. cache[b].version = version => cache[b] # None
    BY <1>0, <1>N
  <2> QED BY <1>0, <2>1, <2>2 DEF VersionInv
<1>10. ASSUME NEW b \in Backends, cdbcomponent_updateCdbComponents(b)
       PROVE  VersionInv'
  <2> DEFINE fresh == [config |-> catalog, version |-> held[b]]
  <2>1. /\ backend[b] = "starting" /\ backend' = [backend EXCEPT ![b] = "running"]
        /\ held' = [held EXCEPT ![b] = 0] /\ UNCHANGED <<version, published, catalog, fts, due>>
        /\ \/ cache' = [cache EXCEPT ![b] = fresh]
           \/ cache' = cache /\ (cache[b].version = held[b] \/ b \in TempBackends)
    BY Zenon, <1>10 DEF cdbcomponent_updateCdbComponents
  <2>2. CASE cache' = [cache EXCEPT ![b] = fresh]
    BY <1>0, <2>1, <2>2 DEF VersionInv
  <2>3. CASE cache' = cache /\ (cache[b].version = held[b] \/ b \in TempBackends)
    BY Zenon, <1>0, <2>1, <2>3 DEF VersionInv
  <2> QED BY Zenon, <2>1, <2>2, <2>3
<1>11. ASSUME NEW b \in Backends, EndTransaction(b) \/ DisconnectAndDestroyAllGangs(b)
       PROVE  VersionInv'
  <2>1. /\ backend' = [backend EXCEPT ![b] = "idle"] /\ due' = [due EXCEPT ![b] = 0]
        /\ UNCHANGED <<version, published, catalog, fts, held>>
        /\ cache' = cache \/ cache' = [cache EXCEPT ![b] = None]
    BY Zenon, <1>11 DEF EndTransaction, DisconnectAndDestroyAllGangs
  <2> QED BY Zenon, <1>0, <2>1 DEF VersionInv
<1>12. CASE UNCHANGED vars
  BY Zenon, <1>12 DEF VersionInv
<1> QED
  BY Zenon, <1>2, <1>3, <1>5, <1>6, <1>7, <1>8, <1>9, <1>10, <1>11, <1>12 DEF Next, FtsLoop

\* No version has been published twice at first.
LEMMA VersionStarts == Init => VersionInv
BY ModulusAssumption DEF Init, VersionInv, None

\* A transaction runs with a configuration no older than the one published when
\* it began, as long as the version has not wrapped around, for the backends
\* that refresh their copy and do not look it up between transactions.
THEOREM TransactionSeesPublishedHolds ==
  ASSUME MaxEvents + 1 < VersionModulus, Lookers \subseteq TempBackends
  PROVE  Spec => []TransactionSeesPublished
<1>1. RInv /\ VersionInv /\ [Next]_vars => VersionInv'
  BY Zenon, VersionStep
<1>2. VersionInv => TransactionSeesPublished
  BY Zenon DEF VersionInv, TransactionSeesPublished
<1> QED BY <1>1, <1>2, VersionStarts, Inductive, PTL DEF Spec
=============================================================================
