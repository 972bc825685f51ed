----------------------------- MODULE FtsConfig -----------------------------
(***************************************************************************)
(* The loop of the FTS probe process on the coordinator (fts.c, FtsLoop),  *)
(* the requests for a probe (cdbfts.c, FtsNotifyProber) and the copies of  *)
(* the segment configuration: the catalog, the dump file and what each     *)
(* dispatching backend has cached (cdbutil.c).                             *)
(*                                                                         *)
(* What a probe finds is a number: how many events (segments going down,   *)
(* coming back, getting in sync) have happened.  Fts models the probing    *)
(* itself; here a probe is one step that reads the world.                  *)
(***************************************************************************)
EXTENDS Naturals, FiniteSets

CONSTANTS Backends,        \* dispatching backends
          TempBackends,    \* those with temporary tables
          Lookers,         \* those that look the configuration up between transactions
          VersionModulus,  \* 2^8: status_version is a uint8
          MaxEvents,       \* events in the world
          MaxCalls,        \* operations the backends start
          MaxExtras        \* probes that begin by the timer alone, and those that fail

ASSUME ModulusAssumption == VersionModulus \in Nat \ {0, 1}
ASSUME BoundsAssumption == MaxEvents \in Nat /\ MaxCalls \in Nat /\ MaxExtras \in Nat
ASSUME BackendAssumption == TempBackends \subseteq Backends /\ Lookers \subseteq Backends

VARIABLES
  world, catalog, file,  \* the configuration: as it is, in the catalog, in the dump file
  version,               \* ftsProbeInfo->status_version
  published,             \* the catalog when the version was last counted up (history)
  start, done,           \* ftsProbeInfo->start_count, done_count
  fts,                   \* where the probe process is in its loop
  known,                 \* the configuration the probe began with
  requested, latch,      \* probe_requested, and the latch of the process
  long,                  \* WaitLatch is called with a timeout other than 0
  wake,                  \* PMSIGNAL_WAKEN_FTS
  backend,               \* where each backend is
  initial, started,      \* its local variables in FtsNotifyProber
  asked,                 \* the world when it called FtsNotifyProber (history)
  held,                  \* the version, or the configuration, it has just read
  cache,                 \* cdb_component_dbs
  due,                   \* what was published when its transaction began (history)
  calls, timeouts, errors

configuration == <<world, catalog, file, version, published>>
loop == <<start, done, fts, known, requested, latch, long>>
session == <<backend, initial, started, asked, held, cache, due>>
bounds == <<calls, timeouts, errors>>
vars == <<configuration, loop, wake, session, bounds>>

None == [config |-> 0, version |-> VersionModulus]

Init ==
  /\ world = 0 /\ catalog = 0 /\ file = 0 /\ version = 0 /\ published = 0
  /\ start = 0 /\ done = 0 /\ fts = "begin" /\ known = 0
  /\ requested = FALSE /\ latch = FALSE /\ long = FALSE /\ wake = FALSE
  /\ backend = [b \in Backends |-> "idle"]
  /\ initial = [b \in Backends |-> 0] /\ started = initial
  /\ asked = initial /\ held = initial /\ due = initial
  /\ cache = [b \in Backends |-> None]
  /\ calls = 0 /\ timeouts = 0 /\ errors = 0

\* A segment fails, or is back.
Event ==
  /\ world < MaxEvents /\ world' = world + 1
  /\ UNCHANGED <<catalog, file, version, published, loop, wake, session, bounds>>

-----------------------------------------------------------------------------
\* FtsLoop.

StartProbe ==
  /\ fts = "begin" /\ fts' = "started"
  /\ start' = start + 1
  /\ UNCHANGED <<configuration, done, known, requested, latch, long, wake, session, bounds>>

\* readCdbComponentInfoAndUpdateStatus; then probe_requested is reset.
ReadConfiguration ==
  /\ fts = "started" /\ fts' = "probing"
  /\ known' = catalog
  /\ IF version = 0
     THEN version' = 1 /\ file' = catalog /\ published' = catalog
     ELSE UNCHANGED <<version, file, published>>
  /\ requested' = FALSE
  /\ UNCHANGED <<world, catalog, start, done, latch, long, wake, session, bounds>>

\* FtsWalRepMessageSegments.  The commit of an updated configuration waits for
\* the coordinator's standby in SyncRepWaitForLSN, which may use up the latch.
FtsWalRepMessageSegments ==
  /\ fts = "probing"
  /\ IF world = known
     THEN fts' = "probed" /\ UNCHANGED <<catalog, latch>>
     ELSE /\ fts' = "updated" /\ catalog' = world
          /\ latch' \in {latch, FALSE}
  /\ UNCHANGED <<world, file, version, published, start, done, known, requested, long, wake,
                 session, bounds>>

\* Bug: the file is only written by the first probe.
KeepsOldFile ==
  /\ fts = "updated" /\ fts' = "written"
  /\ UNCHANGED <<configuration, start, done, known, requested, latch, long, wake, session, bounds>>

writeGpSegConfigToFTSFiles ==
  /\ fts = "updated" /\ fts' = "written"
  /\ file' = catalog
  /\ UNCHANGED <<world, catalog, version, published, start, done, known, requested, latch, long,
                 wake, session, bounds>>

BumpVersion ==
  /\ fts = "written" /\ fts' = "probed"
  /\ version' = (version + 1) % VersionModulus /\ published' = catalog
  /\ UNCHANGED <<world, catalog, file, start, done, known, requested, latch, long, wake, session,
                 bounds>>

FinishProbe ==
  /\ fts = "probed" /\ fts' = "finished"
  /\ done' = start /\ known' = 0
  /\ UNCHANGED <<configuration, start, requested, latch, long, wake, session, bounds>>

RecheckRequested ==
  /\ fts = "finished" /\ fts' = "waiting"
  /\ long' = ~requested
  /\ UNCHANGED <<configuration, start, done, known, requested, latch, wake, session, bounds>>

\* WaitLatch, ResetLatch.
WaitLatch ==
  /\ fts = "waiting" /\ (latch \/ ~long)
  /\ fts' = "begin" /\ latch' = FALSE /\ long' = FALSE
  /\ UNCHANGED <<configuration, start, done, known, requested, wake, session, bounds>>

\* Bug: the loop waits to be asked.
NoTimer == FALSE /\ UNCHANGED vars

\* The interval is over.  The bound spares the probes somebody waits for.
TimesOut ==
  /\ fts = "waiting" /\ ~latch /\ long
  /\ \/ timeouts + errors < MaxExtras /\ timeouts' = timeouts + 1
     \/ UNCHANGED timeouts
        /\ \E b \in Backends : backend[b] = "awaitStart" /\ initial[b] = start
  /\ fts' = "begin" /\ long' = FALSE
  /\ UNCHANGED <<configuration, start, done, known, requested, latch, wake, session, calls,
                 errors>>

\* The process ends with an error (a file that cannot be written, poll() that
\* fails); the postmaster starts it again, shared memory is kept.
FtsFails ==
  /\ fts \in {"probing", "updated", "written"} /\ timeouts + errors < MaxExtras
  /\ errors' = errors + 1
  /\ fts' = "begin" /\ requested' = FALSE /\ latch' = FALSE /\ known' = 0
  /\ UNCHANGED <<configuration, start, done, long, wake, session, calls, timeouts>>

\* The postmaster passes the request on; sigIntHandler.
sigIntHandler ==
  /\ wake /\ wake' = FALSE
  /\ requested' = TRUE /\ latch' = TRUE
  /\ UNCHANGED <<configuration, start, done, fts, known, long, session, bounds>>

-----------------------------------------------------------------------------
\* The backends.

Go(b, from, to) == backend[b] = from /\ backend' = [backend EXCEPT ![b] = to]
Set(f, b, value) == [f EXCEPT ![b] = value]
Drop(f, b) == [f EXCEPT ![b] = 0]
Call == calls < MaxCalls /\ calls' = calls + 1 /\ UNCHANGED <<timeouts, errors>>

\* FtsNotifyProber, up to where the request is sent.
FtsNotifyProber(b) ==
  /\ Call /\ Go(b, "idle", "request")
  /\ initial' = Set(initial, b, start)
  /\ asked' = Set(asked, b, world)
  /\ UNCHANGED <<configuration, loop, wake, started, held, cache, due>>

SendPostmasterSignal(b) ==
  /\ Go(b, "request", "awaitStart")
  /\ wake' = TRUE
  /\ UNCHANGED <<configuration, loop, initial, started, asked, held, cache, due, bounds>>

\* Bug: the probe under way will do.
Piggybacks(b) ==
  /\ Go(b, "awaitStart", "awaitDone")
  /\ started' = Set(started, b, start) /\ initial' = Drop(initial, b)
  /\ UNCHANGED <<configuration, loop, wake, asked, held, cache, due, bounds>>

AwaitStart(b) ==
  /\ start # initial[b]
  /\ Go(b, "awaitStart", "awaitDone")
  /\ started' = Set(started, b, start) /\ initial' = Drop(initial, b)
  /\ UNCHANGED <<configuration, loop, wake, asked, held, cache, due, bounds>>

AwaitDone(b) ==
  /\ done >= started[b]
  /\ Go(b, "awaitDone", "served")
  /\ started' = Drop(started, b)
  /\ UNCHANGED <<configuration, loop, wake, initial, asked, held, cache, due, bounds>>

\* The caller of FtsNotifyProber goes on; readGpSegConfigFromFTSFiles reads the
\* dump file.
Served(b) ==
  /\ \/ Go(b, "served", "idle") /\ UNCHANGED held
     \/ /\ b \in Lookers /\ cache[b] = None
        /\ Go(b, "served", "looked") /\ held' = Set(held, b, file)
  /\ asked' = Drop(asked, b)
  /\ UNCHANGED <<configuration, loop, wake, initial, started, cache, due, bounds>>

\* cdbcomponent_getCdbComponents within a transaction: the catalog ...
LookUp(b) ==
  /\ Call /\ b \in Lookers /\ cache[b] = None
  /\ Go(b, "idle", "looked") /\ held' = Set(held, b, catalog)
  /\ UNCHANGED <<configuration, loop, wake, initial, started, asked, cache, due>>

\* ... and then the version.
cdbcomponent_getCdbComponents(b) ==
  /\ Go(b, "looked", "idle")
  /\ cache' = Set(cache, b, [config |-> held[b], version |-> version])
  /\ held' = Drop(held, b)
  /\ UNCHANGED <<configuration, loop, wake, initial, started, asked, due, bounds>>

\* StartTransaction, cdbcomponent_updateCdbComponents: the version is read ...
StartTransaction(b) ==
  /\ Call /\ Go(b, "idle", "starting")
  /\ held' = Set(held, b, version)
  /\ due' = Set(due, b, published)
  /\ UNCHANGED <<configuration, loop, wake, initial, started, asked, cache>>

\* Bug: a configuration that is cached is kept.
NeverRefreshes(b) ==
  /\ Go(b, "starting", "running")
  /\ cache' = IF cache[b] = None THEN Set(cache, b, [config |-> catalog, version |-> held[b]])
                                ELSE cache
  /\ held' = Drop(held, b)
  /\ UNCHANGED <<configuration, loop, wake, initial, started, asked, due, bounds>>

\* ... and the catalog, if the version is new; not under temporary tables.
cdbcomponent_updateCdbComponents(b) ==
  /\ Go(b, "starting", "running")
  /\ cache' = IF cache[b] = None \/ (cache[b].version # held[b] /\ b \notin TempBackends)
              THEN Set(cache, b, [config |-> catalog, version |-> held[b]])
              ELSE cache
  /\ held' = Drop(held, b)
  /\ UNCHANGED <<configuration, loop, wake, initial, started, asked, due, bounds>>

EndTransaction(b) ==
  /\ Go(b, "running", "idle")
  /\ due' = Drop(due, b)
  /\ UNCHANGED <<configuration, loop, wake, initial, started, asked, held, cache, bounds>>

DisconnectAndDestroyAllGangs(b) ==
  /\ Call /\ backend[b] \in {"idle", "running"} /\ cache[b] # None
  /\ backend' = [backend EXCEPT ![b] = "idle"]
  /\ cache' = Set(cache, b, None) /\ due' = Drop(due, b)
  /\ UNCHANGED <<configuration, loop, wake, initial, started, asked, held>>

-----------------------------------------------------------------------------
FtsLoop ==
  \/ StartProbe \/ ReadConfiguration \/ FtsWalRepMessageSegments \/ writeGpSegConfigToFTSFiles
  \/ BumpVersion \/ FinishProbe \/ RecheckRequested \/ WaitLatch

Waits(b) == SendPostmasterSignal(b) \/ AwaitStart(b) \/ AwaitDone(b)

Next ==
  \/ Event \/ FtsLoop \/ TimesOut \/ FtsFails \/ sigIntHandler
  \/ \E b \in Backends :
       \/ FtsNotifyProber(b) \/ Waits(b) \/ Served(b)
       \/ LookUp(b) \/ cdbcomponent_getCdbComponents(b)
       \/ StartTransaction(b) \/ cdbcomponent_updateCdbComponents(b) \/ EndTransaction(b)
       \/ DisconnectAndDestroyAllGangs(b)

Spec == Init /\ [][Next]_vars

\* The prober, its timer, the postmaster and the polling backends run on.
FairSpec ==
  /\ Spec
  /\ WF_vars(FtsLoop) /\ WF_vars(TimesOut) /\ WF_vars(sigIntHandler)
  /\ \A b \in Backends : WF_vars(Waits(b))

-----------------------------------------------------------------------------
\* The type of the state; a probe that is counted as done was started.
TypeOK ==
  /\ world \in 0 .. MaxEvents /\ catalog \in 0 .. MaxEvents /\ file \in 0 .. MaxEvents
  /\ published \in 0 .. MaxEvents /\ known \in 0 .. MaxEvents
  /\ catalog <= world /\ file <= catalog /\ published <= catalog
  /\ version \in 0 .. VersionModulus - 1
  /\ start \in Nat /\ done \in 0 .. start
  /\ fts \in {"begin", "started", "probing", "updated", "written", "probed", "finished", "waiting"}
  /\ requested \in BOOLEAN /\ latch \in BOOLEAN /\ long \in BOOLEAN /\ wake \in BOOLEAN
  /\ backend \in [Backends -> {"idle", "request", "awaitStart", "awaitDone", "served", "looked",
                               "starting", "running"}]
  /\ \A b \in Backends : /\ initial[b] <= start /\ started[b] <= start
                         /\ asked[b] <= world /\ due[b] <= published
                         /\ cache[b].config <= catalog
  /\ calls <= MaxCalls /\ timeouts + errors <= MaxExtras

\* FtsNotifyProber returns fresh results, though probes are shared, are under
\* way when the request comes, or fail: everything that had happened when it
\* was called is in the configuration.
FreshResults == \A b \in Backends : backend[b] = "served" => catalog >= asked[b]

\* ... and in the dump file, which readGpSegConfigFromFTSFiles reads next, as long
\* as no probe process has ended with an error between the catalog and the file.
FreshFile ==
  errors = 0 => \A b \in Backends : backend[b] = "served" => file >= asked[b]

\* A transaction runs with a configuration no older than what the prober had
\* published (counted up the version for) when the transaction began.
TransactionSeesPublished ==
  \A b \in Backends \ TempBackends : backend[b] = "running" => cache[b].config >= due[b]

\* Every request is answered: the prober starts a new probe and ends it, even
\* when the signal is lost with the process or its latch is used up.
RequestsAnswered ==
  \A b \in Backends : backend[b] = "request" ~> backend[b] = "served"

\* The prober does not sleep over a request: one that was passed on, and is
\* not served by the probes begun so far, keeps it from a long wait.
NoSleepOverRequest ==
  fts = "waiting" /\ long /\ ~latch /\ ~wake =>
    \A b \in Backends : backend[b] = "awaitStart" => start # initial[b]

=============================================================================
