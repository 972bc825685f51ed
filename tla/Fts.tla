-------------------------------- MODULE Fts --------------------------------
(***************************************************************************)
(* The fault tolerance service: the probe process on the coordinator       *)
(* (ftsprobe.c, fts.c), the message handler on the segments                *)
(* (ftsmessagehandler.c, gp_replication.c) and the synchronous replication *)
(* it switches on and off (syncrep.c), for one content: two nodes, one     *)
(* acting as primary, one as mirror.                                       *)
(*                                                                         *)
(* A commit is a number; the WAL of a node is the set of commits it has    *)
(* flushed.  The connect, poll and send steps of the probe loop are one    *)
(* action, as they touch nothing but the connection; times are left out:   *)
(* a timeout may fire whenever an answer is outstanding, and a grace       *)
(* period is over when the handler says so.                                *)
(***************************************************************************)
EXTENDS Naturals, FiniteSets, FiniteSetsExt

CONSTANTS MaxCommits,   \* commits that take place
          MaxCrashes,   \* crashes of segments
          MaxFaults,    \* attempts that fail although the segment is up
          MaxLate,      \* handlers that outlive the connection of the prober
          MaxRetries,   \* gp_fts_probe_retries
          PromptReload  \* the checkpointer re-reads the configuration at once

ASSUME BoundsAssumption ==
         /\ MaxCommits \in Nat /\ MaxCrashes \in Nat /\ MaxFaults \in Nat
         /\ MaxLate \in Nat /\ MaxRetries \in Nat
ASSUME SwitchAssumption == PromptReload \in BOOLEAN

Nodes == {1, 2}
Peer(d) == 3 - d
Commits == 1 .. MaxCommits

Messages == {"PROBE", "SYNCREP_OFF", "PROMOTE"}
Answer == [mirrorUp : BOOLEAN, inSync : BOOLEAN, syncRep : BOOLEAN,
           roleMirror : BOOLEAN, retry : BOOLEAN]
Unread == [alive |-> FALSE, insync |-> FALSE]
Nothing == [mirrorUp |-> FALSE, inSync |-> FALSE, syncRep |-> FALSE,
            roleMirror |-> FALSE, retry |-> FALSE]

VARIABLES
  \* gp_segment_configuration: the primary, whether the mirror is up, the mode
  primary, mirrorAlive, insync,
  \* the segments
  node,      \* "up", "recovering" (refuses connections) or "down"
  acting,    \* "primary", "mirror" or "promoting"
  wal,       \* commits in the WAL
  conf,      \* synchronous_standby_names = '*' in gp_replication.conf
  defined,   \* SYNC_STANDBY_DEFINED in sync_standbys_status
  link,      \* the walsender's state: "none", "catchup" or "streaming"
  commit,    \* what has become of each commit
  at,        \* the node each commit is made on
  overdue,   \* <<node, message>> of handlers the prober no longer waits for
  \* the prober
  msg,       \* the message of the pair's FtsMessageState ...
  phase,     \* ... and how far it is
  target,    \* ftsInfo->primary_cdbinfo
  retries,   \* retry_count
  restart,   \* restart_state
  seenLsn,   \* xlogrecptr has been set in this cycle
  known,     \* the configuration as read when the cycle began
  result,
  \* history and bounds
  promised,  \* commits acknowledged while the configuration said in-sync
  crashes, faults, late

config == <<primary, mirrorAlive, insync>>
segment == <<node, acting, wal, conf, defined, link>>
work == <<commit, at, promised>>
prober == <<msg, phase, target, retries, restart, seenLsn, known, result>>
bounds == <<crashes, faults, late>>
vars == <<config, segment, work, overdue, prober, bounds>>

Mirror == Peer(primary)

Init ==
  /\ primary = 1 /\ mirrorAlive = TRUE /\ insync = TRUE
  /\ node = [d \in Nodes |-> "up"]
  /\ acting = [d \in Nodes |-> IF d = 1 THEN "primary" ELSE "mirror"]
  /\ wal = [d \in Nodes |-> {}]
  /\ conf = [d \in Nodes |-> d = 1] /\ defined = conf
  /\ link = "streaming"
  /\ commit = [c \in Commits |-> "none"] /\ at = [c \in Commits |-> 1]
  /\ overdue = {}
  /\ msg = "PROBE" /\ phase = "idle" /\ target = 1 /\ retries = 0
  /\ restart = "no" /\ seenLsn = FALSE /\ known = Unread
  /\ result = Nothing
  /\ promised = {}
  /\ crashes = 0 /\ faults = 0 /\ late = 0

-----------------------------------------------------------------------------
\* Commits and synchronous replication on the segments.

\* RecordTransactionCommit flushes the commit record.
CommitLocally(d) ==
  /\ node[d] = "up" /\ acting[d] = "primary"
  /\ \E c \in Commits :
       /\ commit[c] = "none" /\ \A b \in 1 .. c - 1 : commit[b] # "none"
       /\ wal' = [wal EXCEPT ![d] = @ \cup {c}]
       /\ commit' = [commit EXCEPT ![c] = "flushed"]
       /\ at' = [at EXCEPT ![c] = d]
  /\ UNCHANGED <<config, node, acting, conf, defined, link, promised, overdue, prober, bounds>>

Acknowledge(S) ==
  /\ commit' = [c \in Commits |-> IF c \in S THEN "acked" ELSE commit[c]]
  /\ promised' = IF insync THEN promised \cup S ELSE promised

\* Bug: a commit that finds the queue does not wait in it.
NeverWaits(c) ==
  /\ commit[c] = "flushed"
  /\ Acknowledge({c})
  /\ UNCHANGED <<config, segment, at, overdue, prober, bounds>>

\* SyncRepWaitForLSN: no wait while no synchronous standby is defined.
SyncRepWaitForLSN(c) ==
  /\ commit[c] = "flushed"
  /\ IF defined[at[c]]
     THEN commit' = [commit EXCEPT ![c] = "waiting"] /\ UNCHANGED promised
     ELSE Acknowledge({c})
  /\ UNCHANGED <<config, segment, at, overdue, prober, bounds>>

Waiting(d) == {c \in Commits : commit[c] = "waiting" /\ at[c] = d}

\* The mirror flushes the next commit it receives.
Replicate(d) ==
  /\ link # "none" /\ acting[d] = "primary" /\ wal[d] \ wal[Peer(d)] # {}
  /\ wal' = [wal EXCEPT ![Peer(d)] = @ \cup {Min(wal[d] \ wal[Peer(d)])}]
  /\ UNCHANGED <<config, node, acting, conf, defined, link, work, overdue, prober, bounds>>

\* The streaming walsender wakes the commits the mirror has flushed.
SyncRepReleaseWaiters(d) ==
  /\ link = "streaming" /\ acting[d] = "primary"
  /\ Waiting(d) \cap wal[Peer(d)] # {}
  /\ Acknowledge(Waiting(d) \cap wal[Peer(d)])
  /\ UNCHANGED <<config, segment, at, overdue, prober, bounds>>

\* What SyncRepUpdateSyncStandbysDefined makes of a configuration c on node d:
\* the flag is copied, and nobody waits any longer once it is cleared.
Reloaded(d, c) ==
  /\ defined' = [defined EXCEPT ![d] = c]
  /\ IF ~c THEN Acknowledge(Waiting(d)) ELSE UNCHANGED <<commit, promised>>

\* The checkpointer handles the reload signal.
SyncRepUpdateSyncStandbysDefined(d) ==
  /\ node[d] = "up" /\ conf[d] # defined[d]
  /\ Reloaded(d, conf[d])
  /\ UNCHANGED <<config, node, acting, wal, conf, link, at, overdue, prober, bounds>>

\* set_gp_replication_config and pg_reload_conf.
Configure(d, c) ==
  /\ conf' = [conf EXCEPT ![d] = c]
  /\ IF PromptReload THEN Reloaded(d, c) ELSE UNCHANGED <<defined, commit, promised>>

Connect(d) ==
  /\ link = "none" /\ node = [n \in Nodes |-> "up"]
  /\ acting[d] = "primary" /\ acting[Peer(d)] = "mirror"
  /\ wal[Peer(d)] \subseteq wal[d]
  /\ link' = "catchup"
  /\ UNCHANGED <<config, node, acting, wal, conf, defined, work, overdue, prober, bounds>>

\* The walsender has sent everything; the mirror may not have flushed it yet.
CaughtUp ==
  /\ link = "catchup" /\ link' = "streaming"
  /\ UNCHANGED <<config, node, acting, wal, conf, defined, work, overdue, prober, bounds>>

Disconnect ==
  /\ link # "none" /\ faults < MaxFaults
  /\ link' = "none" /\ faults' = faults + 1
  /\ UNCHANGED <<config, node, acting, wal, conf, defined, work, overdue, prober, crashes, late>>

-----------------------------------------------------------------------------
\* Faults and repair.

\* A node goes down, or starts crash recovery; its handlers and its waiting
\* commits are gone (unacknowledged), and so is a promotion under way.  The
\* prober's connection breaks.
Crash(d) ==
  /\ node[d] = "up" /\ crashes < MaxCrashes
  /\ crashes' = crashes + 1
  /\ \E s \in {"recovering", "down"} : node' = [node EXCEPT ![d] = s]
  /\ phase' = IF target = d /\ phase = "sent" THEN "failed" ELSE phase
  /\ acting' = [acting EXCEPT ![d] = IF @ = "promoting" THEN "mirror" ELSE @]
  /\ link' = "none"
  /\ overdue' = {m \in overdue : m[1] # d}
  /\ commit' = [c \in Commits |-> IF at[c] = d /\ commit[c] \in {"flushed", "waiting"}
                                  THEN "unknown" ELSE commit[c]]
  /\ UNCHANGED <<config, wal, conf, defined, at, promised, msg, target, retries,
                 restart, seenLsn, known, result, faults, late>>

\* Bug: a restarted segment starts without synchronous replication.
RestartsAsync(d) ==
  /\ node[d] = "recovering"
  /\ node' = [node EXCEPT ![d] = "up"]
  /\ defined' = [defined EXCEPT ![d] = FALSE]
  /\ UNCHANGED <<config, acting, wal, conf, link, work, overdue, prober, bounds>>

\* Crash recovery ends; until the checkpointer has set the flag, commits go by
\* the configuration itself.
Restart(d) ==
  /\ node[d] = "recovering"
  /\ node' = [node EXCEPT ![d] = "up"]
  /\ defined' = [defined EXCEPT ![d] = conf[d]]
  /\ UNCHANGED <<config, acting, wal, conf, link, work, overdue, prober, bounds>>

\* The startup process ends recovery after SignalPromote.
PromotionDone(d) ==
  /\ node[d] = "up" /\ acting[d] = "promoting"
  /\ acting' = [acting EXCEPT ![d] = "primary"]
  /\ link' = "none"
  /\ UNCHANGED <<config, node, wal, conf, defined, work, overdue, prober, bounds>>

\* gprecoverseg: the node that is marked down is stopped, rewound and started
\* as the mirror.
Recoverseg(d) ==
  /\ d = Mirror /\ ~mirrorAlive
  /\ node[primary] = "up" /\ acting[primary] = "primary"
  /\ node[d] = "down" \/ acting[d] = "primary"
  /\ node' = [node EXCEPT ![d] = "up"]
  /\ acting' = [acting EXCEPT ![d] = "mirror"]
  /\ wal' = [wal EXCEPT ![d] = @ \cap wal[primary]]
  /\ \E c \in BOOLEAN : /\ conf' = [conf EXCEPT ![d] = c]
                        /\ defined' = [defined EXCEPT ![d] = c]
  /\ overdue' = {m \in overdue : m[1] # d}
  /\ commit' = [c \in Commits |-> IF at[c] = d /\ commit[c] \in {"flushed", "waiting"}
                                  THEN "unknown" ELSE commit[c]]
  /\ UNCHANGED <<config, link, at, promised, prober, bounds>>

-----------------------------------------------------------------------------
\* The message handler on segment d.

\* SetSyncStandbysDefined, UnsetSyncStandbysDefined: nothing to do if the
\* shared flag is what it should be.
SetSyncStandbysDefined(d, c) ==
  IF defined[d] # c THEN Configure(d, c) ELSE UNCHANGED <<conf, defined, commit, promised>>

\* GetMirrorStatus and is_probe_retry_needed: a mirror in catchup counts as up
\* once it has confirmed some WAL, and is ready for synchronous replication
\* once it is close enough.
GetMirrorStatus(up, ready, answer) ==
  /\ link = "none" => ~up
  /\ link = "streaming" => up /\ ready
  /\ ready => up
  /\ answer.mirrorUp = up
  /\ answer.inSync = (link = "streaming")
  /\ up => ~answer.retry

HandleFtsWalRepProbe(d, answer) ==
  IF acting[d] # "primary"
  THEN /\ answer = [Nothing EXCEPT !.roleMirror = TRUE]
       /\ UNCHANGED <<conf, defined, commit, promised>>
  ELSE \E up, ready \in BOOLEAN :
         /\ GetMirrorStatus(up, ready, answer)
         /\ answer.syncRep = (defined[d] \/ ready)
         /\ answer.roleMirror = FALSE
         /\ IF ready THEN SetSyncStandbysDefined(d, TRUE)
                     ELSE UNCHANGED <<conf, defined, commit, promised>>

HandleFtsWalRepSyncRepOff(d) == SetSyncStandbysDefined(d, FALSE)

HandleFtsWalRepPromote(d) ==
  IF acting[d] = "mirror"
  THEN /\ SetSyncStandbysDefined(d, FALSE)
       /\ acting' = [acting EXCEPT ![d] = "promoting"]
  ELSE UNCHANGED <<acting, conf, defined, commit, promised>>

\* HandleFtsMessage: message m reaches node d and is answered.
HandleFtsMessage(d, m, answer) ==
  /\ node[d] = "up"
  /\ \/ m = "PROBE" /\ HandleFtsWalRepProbe(d, answer) /\ UNCHANGED acting
     \/ m = "SYNCREP_OFF" /\ HandleFtsWalRepSyncRepOff(d) /\ answer = Nothing /\ UNCHANGED acting
     \/ m = "PROMOTE" /\ HandleFtsWalRepPromote(d) /\ answer = Nothing
  /\ UNCHANGED <<config, node, wal, link, at, bounds>>

\* The handler answers the attempt under way.
Answers ==
  /\ phase = "sent"
  /\ \E a \in Answer :
       /\ HandleFtsMessage(target, msg, a)
       /\ result' = a
  /\ phase' = "answered"
  /\ UNCHANGED <<overdue, msg, target, retries, restart, seenLsn, known>>

\* A handler the prober has given up carries out its message all the same.
AnswersLate ==
  /\ \E m \in overdue, a \in Answer :
       HandleFtsMessage(m[1], m[2], a) /\ overdue' = overdue \ {m}
  /\ UNCHANGED prober

-----------------------------------------------------------------------------
\* The prober.

\* FtsLoop reads the configuration; FtsWalRepInitProbeContext.
FtsWalRepInitProbeContext ==
  /\ phase = "idle" /\ phase' = "connect" /\ target' = primary
  /\ known' = [alive |-> mirrorAlive, insync |-> insync]
  /\ UNCHANGED <<config, segment, work, overdue, msg, retries, restart, seenLsn, result, bounds>>

\* ftsConnect, ftsPoll and ftsSend: the message is on its way.
ftsSend ==
  /\ phase = "connect" /\ node[target] = "up"
  /\ phase' = "sent" /\ restart' = "no"
  /\ UNCHANGED <<config, segment, work, overdue, msg, target, retries, seenLsn, known,
                 result, bounds>>

\* ftsConnect fails; checkIfFailedDueToNormalRestart looks at the reason.  The
\* first location seen in a cycle counts as progress.
ftsConnectFails ==
  /\ phase = "connect" /\ phase' = "failed"
  /\ \/ faults < MaxFaults /\ faults' = faults + 1 /\ restart' = "no" /\ UNCHANGED seenLsn
     \/ node[target] = "down" /\ restart' = "no" /\ UNCHANGED <<seenLsn, faults>>
     \/ node[target] = "recovering" /\ UNCHANGED faults
        /\ \/ restart' = "resetting" /\ UNCHANGED seenLsn
           \/ restart' = "progress" /\ seenLsn' = TRUE
           \/ restart' = "stuck" /\ seenLsn /\ UNCHANGED seenLsn
  /\ UNCHANGED <<config, segment, work, overdue, msg, target, retries, known, result,
                 crashes, late>>

\* ftsCheckTimeout: the answer is not read in time.  The handler may be at
\* work still.
ftsCheckTimeout ==
  /\ phase \in {"sent", "answered"} /\ faults < MaxFaults
  /\ phase' = "failed" /\ faults' = faults + 1 /\ result' = Nothing
  /\ \/ UNCHANGED <<overdue, late>>
     \/ phase = "sent" /\ late < MaxLate
        /\ late' = late + 1 /\ overdue' = overdue \cup {<<target, msg>>}
  /\ UNCHANGED <<config, segment, work, msg, target, retries, restart, seenLsn, known,
                 crashes>>

\* ftsReceive, probeRecordResponse.
ftsReceive ==
  /\ phase = "answered" /\ phase' = "success"
  /\ UNCHANGED <<config, segment, work, overdue, msg, target, retries, restart, seenLsn,
                 known, result, bounds>>

Failed == phase = "failed"
Succeeded(m) == phase = "success" /\ msg = m

RetryWanted ==
  /\ Failed \/ (Succeeded("PROBE") /\ result.retry /\ known.alive)
  /\ retries < MaxRetries

\* processRetry, retryForFtsFailed.
processRetry ==
  /\ RetryWanted
  /\ retries' = retries + 1
  /\ phase' = "connect" /\ result' = Nothing
  /\ UNCHANGED <<config, segment, work, overdue, msg, target, restart, seenLsn, known, bounds>>

\* The rest of processResponse: the next message of the pair, or none; with
\* that the cycle ends and its context is freed.
Continue(m) ==
  /\ msg' = m /\ phase' = "connect" /\ retries' = 0 /\ result' = Nothing
  /\ UNCHANGED <<restart, seenLsn, known>>
Processed ==
  /\ msg' = "PROBE" /\ phase' = "idle" /\ retries' = 0 /\ result' = Nothing
  /\ restart' = "no" /\ seenLsn' = FALSE /\ known' = Unread

\* updateConfiguration, as one transaction.
updateConfiguration(p, alive, sync) ==
  /\ primary' = p /\ mirrorAlive' = alive /\ insync' = sync

processing == <<segment, work, overdue, bounds>>

\* Bug: the primary is told off, and the mirror is not marked down first.
SyncRepOffOnly ==
  /\ Succeeded("PROBE") /\ ~RetryWanted
  /\ result.syncRep /\ ~result.mirrorUp
  /\ IF result.retry THEN Processed ELSE Continue("SYNCREP_OFF")
  /\ UNCHANGED <<processing, config, target>>

\* Bug: the mirror is marked down, and the waiting commits are left alone.
MarksDownOnly ==
  /\ Succeeded("PROBE") /\ ~RetryWanted
  /\ result.syncRep /\ ~result.mirrorUp
  /\ IF result.retry THEN UNCHANGED config ELSE updateConfiguration(primary, FALSE, FALSE)
  /\ Processed
  /\ UNCHANGED <<processing, target>>

\* FTS_PROBE_SUCCESS: commits wait for a mirror that is gone.  It is marked
\* down first; then synchronous replication is turned off.
MirrorIsDown ==
  /\ Succeeded("PROBE") /\ ~RetryWanted
  /\ result.syncRep /\ ~result.mirrorUp
  /\ IF result.retry
     THEN Processed /\ UNCHANGED config
     ELSE updateConfiguration(primary, FALSE, FALSE) /\ Continue("SYNCREP_OFF")
  /\ UNCHANGED <<processing, target>>

\* Bug: a promotion that did not get through is not repeated.
ForgetsPromotion ==
  /\ Succeeded("PROBE") /\ ~RetryWanted
  /\ ~(result.syncRep /\ ~result.mirrorUp) /\ result.roleMirror
  /\ Processed
  /\ UNCHANGED <<processing, config, target>>

\* FTS_PROBE_SUCCESS: the primary of the configuration still acts as mirror.
PromoteAgain ==
  /\ Succeeded("PROBE") /\ ~RetryWanted
  /\ ~(result.syncRep /\ ~result.mirrorUp) /\ result.roleMirror
  /\ Continue("PROMOTE")
  /\ UNCHANGED <<processing, config, target>>

\* FTS_PROBE_SUCCESS: the configuration follows the answer.
FollowAnswer ==
  /\ Succeeded("PROBE") /\ ~RetryWanted
  /\ ~(result.syncRep /\ ~result.mirrorUp) /\ ~result.roleMirror
  /\ updateConfiguration(primary, result.mirrorUp, result.inSync)
  /\ Processed
  /\ UNCHANGED <<processing, target>>

\* Bug: the failed primary is still marked up, as the new mirror.
LeavesItUp ==
  /\ Failed /\ msg = "PROBE" /\ ~RetryWanted
  /\ IF restart \in {"resetting", "progress"} \/ ~known.insync
     THEN Processed /\ UNCHANGED <<config, target>>
     ELSE /\ updateConfiguration(Peer(target), TRUE, FALSE)
          /\ Continue("PROMOTE") /\ target' = Peer(target)
  /\ UNCHANGED processing

\* FTS_PROBE_FAILED: unless the primary is restarting, the roles are swapped
\* and the mirror is promoted, if it was in sync (else: double fault).
PrimaryIsDown ==
  /\ Failed /\ msg = "PROBE" /\ ~RetryWanted
  /\ IF restart \in {"resetting", "progress"} \/ ~known.insync
     THEN Processed /\ UNCHANGED <<config, target>>
     ELSE /\ updateConfiguration(Peer(target), FALSE, FALSE)
          /\ Continue("PROMOTE") /\ target' = Peer(target)
  /\ UNCHANGED processing

\* The other cases: nothing more is done in this cycle.
LeaveIt ==
  /\ Failed \/ phase = "success"
  /\ msg # "PROBE" /\ ~RetryWanted
  /\ Processed
  /\ UNCHANGED <<processing, config, target>>

\* The coordinator, or its probe process, restarts.
ProberRestarts ==
  /\ phase # "idle" /\ faults < MaxFaults /\ faults' = faults + 1
  /\ Processed
  /\ \/ UNCHANGED <<overdue, late>>
     \/ phase = "sent" /\ late < MaxLate
        /\ late' = late + 1 /\ overdue' = overdue \cup {<<target, msg>>}
  /\ UNCHANGED <<config, segment, work, target, crashes>>

processResponse == MirrorIsDown \/ PromoteAgain \/ FollowAnswer \/ PrimaryIsDown \/ LeaveIt

Probing ==
  \/ FtsWalRepInitProbeContext \/ ftsSend \/ ftsConnectFails \/ ftsReceive \/ processRetry
  \/ processResponse

Next ==
  \/ \E d \in Nodes :
       \/ CommitLocally(d) \/ Replicate(d) \/ SyncRepReleaseWaiters(d)
       \/ SyncRepUpdateSyncStandbysDefined(d) \/ Connect(d)
       \/ Crash(d) \/ Restart(d) \/ PromotionDone(d) \/ Recoverseg(d)
  \/ \E c \in Commits : SyncRepWaitForLSN(c)
  \/ CaughtUp \/ Disconnect
  \/ Answers \/ AnswersLate \/ ftsCheckTimeout \/ ProberRestarts
  \/ Probing

Spec == Init /\ [][Next]_vars

\* The grace period of a mirror that stays away comes to an end.
AnswersWithoutRetry == Answers /\ ~result'.retry

\* Every process runs on: the prober, the handlers, the checkpointer and the
\* replication.  Commits, faults and the operator's recovery may never come.
FairSpec ==
  /\ Spec
  /\ WF_vars(Probing) /\ WF_vars(Answers) /\ SF_vars(AnswersWithoutRetry)
  /\ \A d \in Nodes :
       /\ WF_vars(Replicate(d)) /\ WF_vars(SyncRepReleaseWaiters(d))
       /\ WF_vars(SyncRepUpdateSyncStandbysDefined(d))
       /\ WF_vars(Restart(d)) /\ WF_vars(PromotionDone(d))
  /\ WF_vars(CaughtUp) /\ \A c \in Commits : WF_vars(SyncRepWaitForLSN(c))

-----------------------------------------------------------------------------
\* The type of the state, and three facts the code asserts or relies on
\* (ftsprobe.c, updateConfiguration and processResponse): an in-sync mirror is
\* marked up, no more retries are made than allowed, and the mirror that is
\* asked is one the cycle knows of.
TypeOK ==
  /\ primary \in Nodes /\ mirrorAlive \in BOOLEAN /\ insync \in BOOLEAN
  /\ insync => mirrorAlive
  /\ node \in [Nodes -> {"up", "recovering", "down"}]
  /\ acting \in [Nodes -> {"primary", "mirror", "promoting"}]
  /\ wal \in [Nodes -> SUBSET Commits]
  /\ conf \in [Nodes -> BOOLEAN] /\ defined \in [Nodes -> BOOLEAN]
  /\ link \in {"none", "catchup", "streaming"}
  /\ commit \in [Commits -> {"none", "flushed", "waiting", "acked", "unknown"}]
  /\ at \in [Commits -> Nodes]
  /\ overdue \subseteq Nodes \X Messages
  /\ msg \in Messages
  /\ phase \in {"idle", "connect", "sent", "answered", "success", "failed"}
  /\ target \in Nodes /\ (phase # "idle" => target = primary)
  /\ retries \in 0 .. MaxRetries
  /\ restart \in {"no", "resetting", "progress", "stuck"} /\ seenLsn \in BOOLEAN
  /\ known \in [alive : BOOLEAN, insync : BOOLEAN] /\ result \in Answer
  /\ promised \subseteq Commits
  /\ crashes \in 0 .. MaxCrashes /\ faults \in 0 .. MaxFaults /\ late \in 0 .. MaxLate

\* What the in-sync mode is for: a commit that was acknowledged while the
\* configuration called the mirror in sync is on whichever node the
\* configuration calls the primary, after any failover.
PromisedSurvive == promised \subseteq wal[primary]

\* No split brain: at the moment a commit is acknowledged to the dispatcher, by
\* whatever node, the primary of the configuration has it.  A primary the
\* prober lost sight of goes on running after the roles were swapped; only its
\* waiting in SyncRepWaitForLSN keeps it from acknowledging.
AcksReachThePrimary ==
  [][\A c \in Commits : commit'[c] = "acked" /\ commit[c] # "acked" => c \in wal'[primary']]_vars

\* What processResponse asserts when a probe is answered by a node that acts as
\* mirror: its peer is marked down and not in sync, and synchronous replication
\* is off, so the promotion that is sent again loses nothing.
RoleMirrorIsExpected ==
  Succeeded("PROBE") /\ result.roleMirror =>
    ~known.alive /\ ~known.insync /\ ~mirrorAlive /\ ~insync /\ ~result.syncRep

\* At most one node takes part in commits without a standby: never do both act
\* as primary with synchronous replication off (HandleFtsWalRepPromote turns it
\* off on the one, the other keeps waiting).
OneAsyncPrimary ==
  ~ \A d \in Nodes : node[d] = "up" /\ acting[d] = "primary" /\ ~defined[d]

Serves == node[primary] = "up" /\ acting[primary] = "primary"
DoubleFault == node[primary] = "down" /\ ~insync

\* Failover completes: again and again the primary of the configuration is up
\* and acts as primary, unless it is down for good with no in-sync mirror left
\* (the double fault the prober reports).  Lost promotions are repeated.
ServiceRestored == []<>(Serves \/ DoubleFault)

\* No commit waits for ever for a mirror that is gone: it is acknowledged or
\* its node fails, or the configuration has another primary.  "FTS must notify
\* the primaries to unblock commits by sending syncrep off message."
CommitsUnblocked ==
  \A c \in Commits : commit[c] = "waiting" ~> commit[c] # "waiting" \/ at[c] # primary

\* Every acknowledged commit survives a failover of the configuration.
AckedSurvive == \A c \in Commits : commit[c] = "acked" => c \in wal[primary]

=============================================================================
