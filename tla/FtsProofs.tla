----------------------------- MODULE FtsProofs -----------------------------
(***************************************************************************)
(* The safety of failover for any number of commits, crashes, timeouts,    *)
(* lost connections and retries.  The theorems are about a prober whose    *)
(* handlers never outlive its connection (MaxLate = 0) and segments whose  *)
(* checkpointer re-reads the configuration at once (PromptReload).         *)
(*                                                                         *)
(* The invariant has three parts besides the types.  RoleInv relates the   *)
(* configuration to what the nodes do: an old primary that still runs has  *)
(* synchronous replication on, and in-sync means that the mirror is one.   *)
(* ProberInv says that what the prober knows has not changed since it was  *)
(* told.  CommitInv is the promise itself, in the form that survives a     *)
(* failover: a promised commit is on both nodes.                           *)
(***************************************************************************)
EXTENDS Fts, TLAPS, WellFoundedInduction

RoleInv ==
  /\ acting[Mirror] # "promoting"
  /\ acting[Mirror] = "primary" => defined[Mirror] = TRUE
  /\ link # "none" /\ acting[primary] = "primary" => acting[Mirror] = "mirror"
  /\ mirrorAlive = TRUE => acting[primary] = "primary"
  /\ insync = TRUE => defined[primary] = TRUE /\ acting[Mirror] = "mirror"

ProberInv ==
  /\ msg # "PROBE" => mirrorAlive = FALSE
  /\ msg = "PROBE" /\ phase # "idle" => known = [alive |-> mirrorAlive, insync |-> insync]
  /\ msg = "PROBE" /\ phase \in {"answered", "success"} =>
       /\ result.inSync = TRUE => /\ result.mirrorUp = TRUE
                                  /\ defined[primary] = TRUE /\ acting[Mirror] = "mirror"
       /\ result.mirrorUp = TRUE => acting[primary] = "primary"
       /\ result.roleMirror = TRUE => mirrorAlive = FALSE /\ result.syncRep = FALSE
  /\ overdue = {}
  /\ conf = defined

CommitInv ==
  /\ \A c \in Commits : commit[c] \in {"flushed", "waiting"} =>
       acting[at[c]] = "primary" /\ c \in wal[at[c]]
  /\ \A d \in Nodes : promised \subseteq wal[d]

IInv == TypeOK /\ RoleInv /\ ProberInv /\ CommitInv

\* The two nodes are each other's peers.
LEMMA Peers == ASSUME NEW d \in Nodes
               PROVE  /\ Peer(d) \in Nodes /\ Peer(d) # d /\ Peer(Peer(d)) = d
                      /\ \A n \in Nodes : n = d \/ n = Peer(d)
BY DEF Nodes, Peer

\* A set of commits that is not empty has a least one: what the mirror flushes
\* next is a commit it was sent.
LEMMA NextCommit == ASSUME NEW S, S \subseteq Nat, S # {}
                    PROVE  Min(S) \in S
<1> DEFINE R == OpToRel(<, Nat)
<1>1. IsWellFoundedOn(R, Nat)
  BY Zenon, NatLessThanWellFounded
<1>2. \A x, y \in Nat : <<y, x>> \notin R => x =< y
  <2>1. R = {ss \in Nat \X Nat : ss[1] < ss[2]}
    BY Zenon DEF OpToRel
  <2> HIDE DEF R
  <2> QED BY <2>1
<1> HIDE DEF R
<1>3. PICK x \in S : \A y \in S : <<y, x>> \notin R
  BY Zenon, <1>1, WFMin
<1>4. \A y \in S : x =< y
  BY Zenon, <1>2, <1>3
<1> QED BY Zenon, <1>4 DEF Min

\* Commits are numbered.
LEMMA CommitsAreNat == Commits \subseteq Nat
BY BoundsAssumption DEF Commits

\* Switching synchronous replication takes effect at once.
LEMMA Switch ==
  ASSUME TypeOK, conf = defined, PromptReload = TRUE, NEW d \in Nodes, NEW c \in BOOLEAN,
         SetSyncStandbysDefined(d, c)
  PROVE  /\ defined' = [defined EXCEPT ![d] = c] /\ conf' = defined'
         /\ \/ UNCHANGED <<commit, promised>>
            \/ c = FALSE /\ Acknowledge(Waiting(d))
<1>1. CASE defined[d] # c
  BY Zenon, <1>1 DEF SetSyncStandbysDefined, Configure, Reloaded
<1>2. CASE defined[d] = c
  BY Zenon, <1>2 DEF SetSyncStandbysDefined, TypeOK
<1> QED BY Zenon, <1>1, <1>2

\* A commit that is acknowledged keeps the promise if it is on both nodes, or if
\* the configuration does not call them in sync.
LEMMA Acked ==
  ASSUME TypeOK, CommitInv, NEW S \in SUBSET Commits, Acknowledge(S), UNCHANGED <<wal, at>>,
         \A n \in Nodes : acting[n] = "primary" => acting'[n] = "primary",
         insync = TRUE => \A n \in Nodes : S \subseteq wal[n]
  PROVE  /\ commit' \in [Commits -> {"none", "flushed", "waiting", "acked", "unknown"}]
         /\ promised' \subseteq Commits /\ CommitInv'
<1>1. commit' \in [Commits -> {"none", "flushed", "waiting", "acked", "unknown"}]
  BY Zenon DEF Acknowledge, TypeOK
<1>2. promised' \subseteq Commits /\ \A n \in Nodes : promised' \subseteq wal'[n]
  <2>1. CASE insync = TRUE
    BY Zenon, <2>1 DEF Acknowledge, TypeOK, CommitInv
  <2>2. CASE insync = FALSE
    BY Zenon, <2>2 DEF Acknowledge, TypeOK, CommitInv
  <2> QED BY Zenon, <2>1, <2>2 DEF TypeOK
<1>3. \A c \in Commits : commit'[c] \in {"flushed", "waiting"} =>
        acting'[at'[c]] = "primary" /\ c \in wal'[at'[c]]
  BY Zenon DEF Acknowledge, TypeOK, CommitInv
<1> QED BY Zenon, <1>1, <1>2, <1>3 DEF CommitInv

\* The values a cycle starts from have their types.
LEMMA Values == /\ Nothing \in Answer /\ Unread \in [alive : BOOLEAN, insync : BOOLEAN]
                /\ "PROBE" \in Messages /\ "SYNCREP_OFF" \in Messages /\ "PROMOTE" \in Messages
                /\ 0 \in 0 .. MaxRetries
BY BoundsAssumption DEF Nothing, Answer, Unread, Messages

\* A message is handled.
LEMMA AnswersStep == ASSUME PromptReload = TRUE, IInv, Answers
                     PROVE  IInv'
<1> USE DEF config, segment, work, prober, bounds, vars, Mirror
<1>P. /\ primary \in Nodes /\ Peer(primary) \in Nodes /\ Peer(primary) # primary
      /\ \A n \in Nodes : n = primary \/ n = Peer(primary)
      /\ target = primary
  BY Zenon, Peers DEF IInv, TypeOK, Answers
<1>0. PICK a \in Answer : HandleFtsMessage(target, msg, a) /\ result' = a
  BY Zenon DEF Answers
<1>1. /\ phase = "sent" /\ phase' = "answered"
      /\ UNCHANGED <<config, node, wal, link, at, bounds, overdue, msg, target, retries, restart, seenLsn, known>>
  BY Zenon, <1>0 DEF Answers, HandleFtsMessage
<1> DEFINE Same == UNCHANGED <<acting, conf, defined, commit, promised>>
\* A handler that changes nothing.
<1>2. ASSUME Same,
             msg = "PROBE" =>
               /\ a.inSync = FALSE
               /\ a.mirrorUp = TRUE => acting[primary] = "primary"
               /\ a.roleMirror = TRUE => acting[primary] # "primary" /\ a.syncRep = FALSE
      PROVE  IInv'
  <2>1. TypeOK'
    BY ZenonT(60), <1>0, <1>1, <1>2 DEF IInv, TypeOK
  <2>2. RoleInv' /\ CommitInv'
    BY Zenon, <1>0, <1>1, <1>2 DEF IInv, RoleInv, CommitInv
  <2>3. ProberInv'
    BY Zenon, <1>0, <1>1, <1>2 DEF IInv, RoleInv, ProberInv, TypeOK
  <2> QED BY Zenon, <2>1, <2>2, <2>3 DEF IInv
<1>3. CASE msg = "PROBE"
  <2>0. HandleFtsWalRepProbe(primary, a) /\ UNCHANGED acting
    BY Zenon, <1>0, <1>3, <1>P DEF HandleFtsMessage
  <2>1. CASE acting[primary] # "primary"
    <3>1. a = [Nothing EXCEPT !.roleMirror = TRUE] /\ Same
      BY Zenon, <2>0, <2>1 DEF HandleFtsWalRepProbe
    <3>2. a.inSync = FALSE /\ a.mirrorUp = FALSE /\ a.syncRep = FALSE
      BY Zenon, <3>1 DEF Nothing
    <3> QED BY Zenon, <1>2, <2>1, <3>1, <3>2
  <2>2. CASE acting[primary] = "primary"
    <3>1. PICK up, ready \in BOOLEAN :
            /\ GetMirrorStatus(up, ready, a)
            /\ a.roleMirror = FALSE
            /\ IF ready THEN SetSyncStandbysDefined(primary, TRUE)
                        ELSE UNCHANGED <<conf, defined, commit, promised>>
      BY Zenon, <2>0, <2>2 DEF HandleFtsWalRepProbe
    <3>2. CASE ready = FALSE
      <4>1. Same
        BY Zenon, <2>0, <3>1, <3>2
      <4>2. a.inSync = FALSE
        BY Zenon, <3>1, <3>2 DEF GetMirrorStatus
      <4> QED BY Zenon, <1>2, <2>2, <3>1, <4>1, <4>2
    <3>3. CASE ready = TRUE
      <4>1. SetSyncStandbysDefined(primary, TRUE)
        BY Zenon, <3>1, <3>3
      <4>2. /\ defined' = [defined EXCEPT ![primary] = TRUE] /\ conf' = defined'
            /\ UNCHANGED <<commit, promised, acting>>
        BY Zenon, <2>0, <4>1, <1>P, Switch DEF IInv, ProberInv
      <4>3. a.inSync = TRUE => a.mirrorUp = TRUE /\ acting[Mirror] = "mirror"
        BY Zenon, <2>2, <3>1, <3>3 DEF GetMirrorStatus, IInv, RoleInv, TypeOK
      <4>4. TypeOK'
        BY ZenonT(60), <1>0, <1>1, <4>2 DEF IInv, TypeOK
      <4>5. RoleInv'
        BY Zenon, <1>P, <1>1, <4>2 DEF IInv, RoleInv, TypeOK
      <4>6. ProberInv'
        BY ZenonT(60), <1>P, <1>0, <1>1, <1>3, <2>2, <3>1, <4>2, <4>3 DEF IInv, ProberInv, TypeOK
      <4>7. CommitInv'
        BY Zenon, <1>1, <4>2 DEF IInv, CommitInv
      <4> QED BY Zenon, <4>4, <4>5, <4>6, <4>7 DEF IInv
    <3> QED BY Zenon, <3>2, <3>3
  <2> QED BY Zenon, <2>1, <2>2
<1>4. CASE msg # "PROBE"
  <2>0. insync = FALSE /\ mirrorAlive = FALSE
    BY Zenon, <1>4 DEF IInv, ProberInv, TypeOK
  \* Synchronous replication is turned off.
  <2>1. ASSUME SetSyncStandbysDefined(primary, FALSE),
               \/ UNCHANGED acting
               \/ acting[primary] = "mirror" /\ acting' = [acting EXCEPT ![primary] = "promoting"]
        PROVE  IInv'
    <3>1. /\ defined' = [defined EXCEPT ![primary] = FALSE] /\ conf' = defined'
          /\ UNCHANGED <<commit, promised>> \/ Acknowledge(Waiting(primary))
      BY Zenon, <2>1, <1>P, Switch DEF IInv, ProberInv
    <3>2. \A n \in Nodes : acting[n] = "primary" => acting'[n] = "primary"
      BY Zenon, <2>1, <1>P DEF IInv, TypeOK
    <3>3. /\ commit' \in [Commits -> {"none", "flushed", "waiting", "acked", "unknown"}]
          /\ promised' \subseteq Commits /\ CommitInv'
      <4>1. CASE UNCHANGED <<commit, promised>>
        BY Zenon, <4>1, <1>1, <3>2 DEF IInv, TypeOK, CommitInv
      <4>2. CASE Acknowledge(Waiting(primary))
        <5>1. Waiting(primary) \in SUBSET Commits
          BY Zenon DEF Waiting
        <5> QED BY Zenon, <4>2, <5>1, <1>1, <2>0, <3>2, Acked DEF IInv
      <4> QED BY Zenon, <4>1, <4>2, <3>1
    <3>4. TypeOK'
      BY ZenonT(60), <1>0, <1>1, <1>P, <2>1, <3>1, <3>3 DEF IInv, TypeOK
    <3>5. RoleInv'
      BY ZenonT(60), <1>P, <1>1, <2>0, <2>1, <3>1 DEF IInv, RoleInv, TypeOK
    <3>6. ProberInv'
      BY Zenon, <1>0, <1>1, <1>4, <2>0, <3>1 DEF IInv, ProberInv
    <3> QED BY Zenon, <3>3, <3>4, <3>5, <3>6 DEF IInv
  <2>2. CASE msg = "SYNCREP_OFF"
    BY Zenon, <2>1, <2>2, <1>0, <1>P DEF HandleFtsMessage, HandleFtsWalRepSyncRepOff
  <2>3. CASE msg = "PROMOTE" /\ acting[primary] = "mirror"
    BY Zenon, <2>1, <2>3, <1>0, <1>P DEF HandleFtsMessage, HandleFtsWalRepPromote
  <2>4. CASE msg = "PROMOTE" /\ acting[primary] # "mirror"
    BY Zenon, <1>2, <2>4, <1>0, <1>P DEF HandleFtsMessage, HandleFtsWalRepPromote
  <2> QED BY Zenon, <1>4, <2>2, <2>3, <2>4 DEF IInv, TypeOK, Messages
<1> QED BY Zenon, <1>3, <1>4

\* An answer is processed.
LEMMA ResponseStep == ASSUME IInv, processResponse
                      PROVE  IInv'
<1> USE DEF config, segment, work, prober, bounds, vars, Mirror
<1>P. /\ primary \in Nodes /\ Peer(primary) \in Nodes /\ Peer(primary) # primary
      /\ Peer(Peer(primary)) = primary
      /\ \A n \in Nodes : n = primary \/ n = Peer(primary)
  BY Zenon, Peers DEF IInv, TypeOK
<1> USE DEF processing, Failed, Succeeded, Continue, Processed, updateConfiguration
<1>1. CASE MirrorIsDown
  <2> USE <1>1 DEF MirrorIsDown
  <2>1. TypeOK'
    BY ZenonT(60), Values DEF IInv, TypeOK
  <2>2. RoleInv' /\ ProberInv' /\ CommitInv'
    BY Zenon DEF IInv, RoleInv, ProberInv, CommitInv, Nothing
  <2> QED BY Zenon, <2>1, <2>2 DEF IInv
<1>2. CASE PromoteAgain
  <2> USE <1>2 DEF PromoteAgain
  <2>1. TypeOK'
    BY ZenonT(60), Values DEF IInv, TypeOK
  <2>2. RoleInv' /\ CommitInv'
    BY Zenon DEF IInv, RoleInv, CommitInv
  <2>3. ProberInv'
    BY Zenon DEF IInv, ProberInv, TypeOK, Answer
  <2> QED BY Zenon, <2>1, <2>2, <2>3 DEF IInv
<1>3. CASE FollowAnswer
  <2> USE <1>3 DEF FollowAnswer
  <2>0. /\ result.mirrorUp \in BOOLEAN /\ result.inSync \in BOOLEAN
        /\ result.inSync = TRUE => /\ result.mirrorUp = TRUE
                                   /\ defined[primary] = TRUE /\ acting[Mirror] = "mirror"
        /\ result.mirrorUp = TRUE => acting[primary] = "primary"
    BY Zenon DEF IInv, ProberInv, TypeOK, Answer
  <2>1. TypeOK'
    BY Zenon, <2>0, Values DEF IInv, TypeOK
  <2>2. RoleInv' /\ CommitInv'
    BY Zenon, <2>0 DEF IInv, RoleInv, CommitInv
  <2>3. ProberInv'
    BY Zenon DEF IInv, ProberInv
  <2> QED BY Zenon, <2>1, <2>2, <2>3 DEF IInv
<1>4. CASE PrimaryIsDown
  <2> USE <1>4 DEF PrimaryIsDown
  <2>1. CASE restart \in {"resetting", "progress"} \/ ~known.insync
    <3>1. TypeOK'
      BY Zenon, <2>1, Values DEF IInv, TypeOK
    <3>2. RoleInv' /\ ProberInv' /\ CommitInv'
      BY Zenon, <2>1 DEF IInv, RoleInv, ProberInv, CommitInv
    <3> QED BY Zenon, <3>1, <3>2 DEF IInv
  <2>2. CASE ~(restart \in {"resetting", "progress"} \/ ~known.insync)
    <3>0. insync = TRUE /\ mirrorAlive = TRUE
      BY <2>2 DEF IInv, ProberInv, TypeOK
    <3>1. target = primary /\ primary' = Peer(primary) /\ target' = Peer(primary)
      BY Zenon, <2>2 DEF IInv, TypeOK
    <3>2. TypeOK'
      BY ZenonT(60), <2>2, <3>1, <1>P, Values DEF IInv, TypeOK
    <3>3. RoleInv'
      BY Zenon, <2>2, <3>0, <3>1, <1>P DEF IInv, RoleInv
    <3>4. ProberInv' /\ CommitInv'
      BY Zenon, <2>2, <3>1 DEF IInv, ProberInv, CommitInv
    <3> QED BY Zenon, <3>2, <3>3, <3>4 DEF IInv
  <2> QED BY Zenon, <2>1, <2>2
<1>5. CASE LeaveIt
  <2> USE <1>5 DEF LeaveIt
  <2>1. TypeOK'
    BY Zenon, Values DEF IInv, TypeOK
  <2>2. RoleInv' /\ ProberInv' /\ CommitInv'
    BY Zenon DEF IInv, RoleInv, ProberInv, CommitInv
  <2> QED BY Zenon, <2>1, <2>2 DEF IInv
<1> QED BY Zenon, <1>1, <1>2, <1>3, <1>4, <1>5 DEF processResponse

\* Every step preserves the invariant.
LEMMA Steps == ASSUME PromptReload = TRUE, MaxLate = 0, IInv, [Next]_vars
               PROVE  IInv'
<1> USE DEF config, segment, work, prober, bounds, vars, Mirror
<1>P. /\ primary \in Nodes /\ Peer(primary) \in Nodes /\ Peer(primary) # primary
      /\ Peer(Peer(primary)) = primary
      /\ \A n \in Nodes : n = primary \/ n = Peer(primary)
  BY Zenon, Peers DEF IInv, TypeOK
<1>1. ASSUME NEW d \in Nodes, CommitLocally(d) PROVE IInv'
  <2> USE <1>1 DEF CommitLocally
  <2>1. TypeOK'
    BY DEF IInv, TypeOK
  <2>2. RoleInv' /\ ProberInv'
    BY ZenonT(60) DEF IInv, RoleInv, ProberInv
  <2>3. CommitInv'
    BY DEF IInv, TypeOK, CommitInv
  <2> QED BY ZenonT(60), <2>1, <2>2, <2>3 DEF IInv
<1>2. ASSUME NEW d \in Nodes, Replicate(d) PROVE IInv'
  <2> USE <1>2 DEF Replicate
  <2>0. Min(wal[d] \ wal[Peer(d)]) \in Commits
    <3> DEFINE S == wal[d] \ wal[Peer(d)]
    <3>1. S \subseteq Commits /\ S # {}
      BY Zenon DEF IInv, TypeOK
    <3> HIDE DEF S
    <3>2. Min(S) \in S
      BY ZenonT(60), <3>1, NextCommit, CommitsAreNat
    <3> QED BY Zenon, <3>1, <3>2 DEF S
  <2>1. TypeOK'
    BY <2>0, Peers DEF IInv, TypeOK
  <2>2. RoleInv' /\ ProberInv'
    BY Zenon DEF IInv, RoleInv, ProberInv
  <2>3. CommitInv'
    BY ZenonT(60) DEF IInv, TypeOK, CommitInv
  <2> QED BY Zenon, <2>1, <2>2, <2>3 DEF IInv
<1>3. ASSUME NEW d \in Nodes, SyncRepReleaseWaiters(d) PROVE IInv'
  <2> USE <1>3 DEF SyncRepReleaseWaiters
  <2> DEFINE S == Waiting(d) \cap wal[Peer(d)]
  <2>0. S \in SUBSET Commits /\ \A n \in Nodes : S \subseteq wal[n]
    BY Peers DEF IInv, TypeOK, CommitInv, Waiting
  <2>1. /\ commit' \in [Commits -> {"none", "flushed", "waiting", "acked", "unknown"}]
        /\ promised' \subseteq Commits /\ CommitInv'
    BY Zenon, <2>0, Acked DEF IInv
  <2>2. TypeOK'
    BY ZenonT(60), <2>1 DEF IInv, TypeOK
  <2>3. RoleInv' /\ ProberInv'
    BY Zenon DEF IInv, RoleInv, ProberInv
  <2> QED BY Zenon, <2>1, <2>2, <2>3 DEF IInv
<1>4. ASSUME NEW d \in Nodes, SyncRepUpdateSyncStandbysDefined(d) PROVE IInv'
  BY Zenon, <1>4 DEF SyncRepUpdateSyncStandbysDefined, IInv, ProberInv
<1>5. ASSUME NEW d \in Nodes, Connect(d) PROVE IInv'
  <2> USE <1>5 DEF Connect
  <2>1. TypeOK'
    BY DEF IInv, TypeOK
  <2>2. RoleInv'
    BY Zenon, <1>P DEF IInv, RoleInv
  <2>3. ProberInv' /\ CommitInv'
    BY Zenon DEF IInv, ProberInv, CommitInv
  <2> QED BY Zenon, <2>1, <2>2, <2>3 DEF IInv
<1>6. ASSUME NEW d \in Nodes, Crash(d) PROVE IInv'
  <2> USE <1>6 DEF Crash
  <2>1. TypeOK'
    BY BoundsAssumption DEF IInv, TypeOK
  <2>2. RoleInv'
    BY ZenonT(60), <1>P DEF IInv, RoleInv, TypeOK
  <2>3. ProberInv'
    BY ZenonT(60), <1>P DEF IInv, ProberInv, TypeOK
  <2>4. CommitInv'
    BY Zenon DEF IInv, CommitInv, TypeOK
  <2> QED BY Zenon, <2>1, <2>2, <2>3, <2>4 DEF IInv
<1>7. ASSUME NEW d \in Nodes, Restart(d) PROVE IInv'
  <2> USE <1>7 DEF Restart
  <2>0. defined' = defined
    BY Zenon DEF IInv, ProberInv, TypeOK
  <2>1. TypeOK'
    BY <2>0 DEF IInv, TypeOK
  <2>2. RoleInv' /\ ProberInv' /\ CommitInv'
    BY Zenon, <2>0 DEF IInv, RoleInv, ProberInv, CommitInv
  <2> QED BY Zenon, <2>1, <2>2 DEF IInv
<1>8. ASSUME NEW d \in Nodes, PromotionDone(d) PROVE IInv'
  <2> USE <1>8 DEF PromotionDone
  <2>0. d = primary
    BY Zenon, <1>P DEF IInv, RoleInv
  <2>1. TypeOK'
    BY ZenonT(60) DEF IInv, TypeOK
  <2>2. RoleInv' /\ ProberInv'
    BY Zenon, <2>0, <1>P DEF IInv, RoleInv, ProberInv, TypeOK
  <2>3. CommitInv'
    BY Zenon DEF IInv, CommitInv, TypeOK
  <2> QED BY Zenon, <2>1, <2>2, <2>3 DEF IInv
<1>9. ASSUME NEW d \in Nodes, Recoverseg(d) PROVE IInv'
  <2> USE <1>9 DEF Recoverseg
  <2>0. PICK c \in BOOLEAN : conf' = [conf EXCEPT ![d] = c] /\ defined' = [defined EXCEPT ![d] = c]
    BY Zenon
  <2>1. TypeOK'
    BY <2>0 DEF IInv, TypeOK
  <2>2. RoleInv'
    BY Zenon, <2>0, <1>P DEF IInv, RoleInv, TypeOK
  <2>3. ProberInv'
    BY ZenonT(60), <2>0, <1>P DEF IInv, ProberInv, TypeOK
  <2>4. CommitInv'
    BY <1>P DEF IInv, CommitInv, TypeOK
  <2> QED BY Zenon, <2>1, <2>2, <2>3, <2>4 DEF IInv
<1>10. ASSUME NEW c \in Commits, SyncRepWaitForLSN(c) PROVE IInv'
  <2> USE <1>10 DEF SyncRepWaitForLSN
  <2>1. CASE defined[at[c]] = TRUE
    <3>1. commit' = [commit EXCEPT ![c] = "waiting"] /\ UNCHANGED promised
      BY Zenon, <2>1
    <3>2. TypeOK'
      BY <3>1 DEF IInv, TypeOK
    <3>3. CommitInv'
      BY ZenonT(60), <3>1 DEF IInv, TypeOK, CommitInv
    <3>4. RoleInv' /\ ProberInv'
      BY Zenon DEF IInv, RoleInv, ProberInv
    <3> QED BY Zenon, <3>2, <3>3, <3>4 DEF IInv
  <2>2. CASE defined[at[c]] = FALSE
    <3>1. insync = FALSE
      BY ZenonT(60), <2>2, <1>P DEF IInv, TypeOK, RoleInv, CommitInv
    <3>2. Acknowledge({c})
      BY Zenon, <2>2
    <3>3. /\ commit' \in [Commits -> {"none", "flushed", "waiting", "acked", "unknown"}]
          /\ promised' \subseteq Commits /\ CommitInv'
      BY Zenon, <3>1, <3>2, Acked DEF IInv
    <3>4. TypeOK'
      BY <3>3 DEF IInv, TypeOK
    <3>5. RoleInv' /\ ProberInv'
      BY Zenon DEF IInv, RoleInv, ProberInv
    <3> QED BY Zenon, <3>3, <3>4, <3>5 DEF IInv
  <2> QED BY Zenon, <2>1, <2>2 DEF IInv, TypeOK
<1>11. CASE CaughtUp \/ Disconnect
  <2>1. TypeOK'
    BY <1>11, BoundsAssumption DEF CaughtUp, Disconnect, IInv, TypeOK
  <2>2. RoleInv' /\ ProberInv' /\ CommitInv'
    BY <1>11 DEF CaughtUp, Disconnect, IInv, RoleInv, ProberInv, CommitInv
  <2> QED BY Zenon, <2>1, <2>2 DEF IInv
<1>12. CASE Answers
  BY Zenon, <1>12, AnswersStep
<1>13. CASE AnswersLate
  BY Zenon, <1>13 DEF AnswersLate, IInv, ProberInv
<1>14. CASE ftsCheckTimeout \/ ProberRestarts
  <2>0. UNCHANGED <<overdue, late>>
    BY <1>14 DEF ftsCheckTimeout, ProberRestarts, IInv, TypeOK
  <2>1. TypeOK'
    <3>1. faults' \in 0 .. MaxFaults
      BY <1>14, BoundsAssumption DEF ftsCheckTimeout, ProberRestarts, IInv, TypeOK
    <3>2. CASE ftsCheckTimeout
      BY ZenonT(60), <2>0, <3>1, <3>2, Values DEF ftsCheckTimeout, IInv, TypeOK
    <3>3. CASE ProberRestarts
      BY Zenon, <2>0, <3>1, <3>3, Values DEF ProberRestarts, Processed, IInv, TypeOK
    <3> QED BY Zenon, <1>14, <3>2, <3>3
  <2>2. RoleInv' /\ CommitInv'
    BY Zenon, <1>14 DEF ftsCheckTimeout, ProberRestarts, IInv, RoleInv, CommitInv
  <2>3. ProberInv'
    BY Zenon, <1>14, <2>0 DEF ftsCheckTimeout, ProberRestarts, Processed, IInv, ProberInv
  <2> QED BY Zenon, <2>1, <2>2, <2>3 DEF IInv
<1>15. CASE FtsWalRepInitProbeContext \/ ftsSend \/ ftsConnectFails \/ ftsReceive \/ processRetry
  <2> USE <1>15 DEF FtsWalRepInitProbeContext, ftsSend, ftsConnectFails, ftsReceive, processRetry
  <2>1. TypeOK'
    <3>1. CASE FtsWalRepInitProbeContext
      BY ZenonT(60), <3>1 DEF IInv, TypeOK
    <3>2. CASE ftsSend \/ ftsReceive
      <4>1. CASE ftsSend
        BY ZenonT(60), <4>1 DEF IInv, TypeOK
      <4>2. CASE ftsReceive
        BY ZenonT(60), <4>2 DEF IInv, TypeOK
      <4> QED BY Zenon, <3>2, <4>1, <4>2
    <3>3. CASE ftsConnectFails
      <4>1. faults' \in 0 .. MaxFaults /\ UNCHANGED <<crashes, late>>
        BY <3>3, BoundsAssumption DEF IInv, TypeOK
      <4>2. seenLsn' \in BOOLEAN /\ restart' \in {"no", "resetting", "progress", "stuck"}
        BY ZenonT(60), <3>3 DEF IInv, TypeOK
      <4> QED BY ZenonT(60), <3>3, <4>1, <4>2 DEF IInv, TypeOK
    <3>4. CASE processRetry
      <4>1. retries' \in 0 .. MaxRetries
        BY <3>4, BoundsAssumption DEF IInv, TypeOK, RetryWanted
      <4>2. phase # "idle"
        BY Zenon, <3>4 DEF RetryWanted, Failed, Succeeded
      <4> QED BY <3>4, <4>1, <4>2, Values DEF IInv, TypeOK
    <3> QED BY Zenon, <3>1, <3>2, <3>3, <3>4
  <2>2. RoleInv' /\ CommitInv'
    BY Zenon DEF IInv, RoleInv, CommitInv
  <2>3. ProberInv'
    BY Zenon DEF IInv, ProberInv, RetryWanted, Failed, Succeeded
  <2> QED BY Zenon, <2>1, <2>2, <2>3 DEF IInv
<1>16. CASE processResponse
  BY ZenonT(60), <1>16, ResponseStep
<1>17. CASE UNCHANGED vars
  BY <1>17 DEF IInv, TypeOK, RoleInv, ProberInv, CommitInv
<1> QED
  BY ZenonT(60), <1>1, <1>2, <1>3, <1>4, <1>5, <1>6, <1>7, <1>8, <1>9, <1>10, <1>11, <1>12, <1>13,
     <1>14, <1>15, <1>16, <1>17 DEF Next, Probing

\* The invariant holds at first.
LEMMA Starts == Init => IInv
<1> SUFFICES ASSUME Init PROVE IInv
  BY Zenon
<1> USE DEF Init
<1>0. 1 \in Nodes /\ Peer(1) \in Nodes /\ Peer(1) # 1
  BY DEF Nodes, Peer
<1>1. TypeOK
  <2>1. conf \in [Nodes -> BOOLEAN] /\ defined \in [Nodes -> BOOLEAN]
    <3>1. conf = [d \in Nodes |-> d = 1] /\ defined = conf
      BY Zenon
    <3> QED BY ONLY <3>1, Zenon
  <2>2. crashes \in 0 .. MaxCrashes /\ faults \in 0 .. MaxFaults /\ late \in 0 .. MaxLate
    BY BoundsAssumption
  <2> QED BY Zenon, <1>0, <2>1, <2>2, Values DEF TypeOK
<1>2. defined[1] = TRUE
  BY <1>0, Zenon
<1>3. RoleInv
  BY Zenon, <1>0, <1>2 DEF RoleInv, Mirror
<1>4. ProberInv
  BY Zenon DEF ProberInv
<1>5. CommitInv
  BY Zenon DEF CommitInv
<1> QED BY Zenon, <1>1, <1>3, <1>4, <1>5 DEF IInv

\* A commit is acknowledged only when the primary of the configuration has it:
\* the node that acknowledges it is that primary, or waits for it.
LEMMA AckStep == ASSUME PromptReload = TRUE, MaxLate = 0, IInv, Next, NEW c \in Commits,
                        commit'[c] = "acked", commit[c] # "acked"
                 PROVE  c \in wal'[primary']
<1> USE DEF config, segment, work, prober, bounds, vars, Mirror
<1>P. /\ primary \in Nodes /\ Peer(primary) \in Nodes /\ Peer(primary) # primary
      /\ \A n \in Nodes : n = primary \/ n = Peer(primary)
  BY Zenon, Peers DEF IInv, TypeOK
<1>C. commit \in [Commits -> {"none", "flushed", "waiting", "acked", "unknown"}]
  BY Zenon DEF IInv, TypeOK
<1>1. ASSUME NEW d \in Nodes, CommitLocally(d) PROVE FALSE
  BY Zenon, <1>1, <1>C DEF CommitLocally
<1>2. ASSUME NEW d \in Nodes, SyncRepReleaseWaiters(d) PROVE c \in wal'[primary']
  <2>1. c \in Waiting(d) \cap wal[Peer(d)]
    BY Zenon, <1>2, <1>C DEF SyncRepReleaseWaiters, Acknowledge
  <2>2. c \in wal[d] /\ c \in wal[Peer(d)]
    BY Zenon, <2>1 DEF Waiting, IInv, CommitInv
  <2> QED BY Zenon, <1>2, <1>P, <2>2, Peers DEF SyncRepReleaseWaiters
<1>3. ASSUME NEW d \in Nodes, Crash(d) \/ Recoverseg(d) PROVE FALSE
  BY Zenon, <1>3, <1>C DEF Crash, Recoverseg
<1>4. ASSUME NEW b \in Commits, SyncRepWaitForLSN(b) PROVE c \in wal'[primary']
  <2>1. CASE defined[at[b]] = TRUE
    BY Zenon, <1>4, <1>C, <2>1 DEF SyncRepWaitForLSN
  <2>2. CASE defined[at[b]] = FALSE
    <3>1. c = b
      BY Zenon, <1>4, <1>C, <2>2 DEF SyncRepWaitForLSN, Acknowledge
    <3>2. at[b] = primary /\ b \in wal[at[b]]
      BY Zenon, <1>4, <1>P, <2>2 DEF SyncRepWaitForLSN, IInv, RoleInv, CommitInv, TypeOK
    <3> QED BY Zenon, <1>4, <3>1, <3>2 DEF SyncRepWaitForLSN
  <2> QED BY Zenon, <2>1, <2>2 DEF IInv, TypeOK
<1>5. CASE Answers
  <2>1. target = primary /\ UNCHANGED <<wal, primary>>
    BY Zenon, <1>5 DEF Answers, HandleFtsMessage, IInv, TypeOK
  <2>2. \E b \in BOOLEAN : SetSyncStandbysDefined(primary, b)
    BY Zenon, <1>5, <2>1, <1>C DEF Answers, HandleFtsMessage, HandleFtsWalRepProbe,
                       HandleFtsWalRepSyncRepOff, HandleFtsWalRepPromote
  <2>3. Acknowledge(Waiting(primary))
    BY Zenon, <1>P, <1>C, <2>2, Switch DEF IInv, ProberInv
  <2>4. c \in Waiting(primary)
    BY Zenon, <1>C, <2>3 DEF Acknowledge
  <2> QED BY Zenon, <2>1, <2>4 DEF Waiting, IInv, CommitInv
<1>6. CASE AnswersLate
  BY Zenon, <1>6 DEF AnswersLate, IInv, ProberInv
<1>7. ASSUME NEW d \in Nodes, SyncRepUpdateSyncStandbysDefined(d) PROVE FALSE
  BY Zenon, <1>7 DEF SyncRepUpdateSyncStandbysDefined, IInv, ProberInv
<1>8. ASSUME NEW d \in Nodes, Replicate(d) \/ Connect(d) \/ Restart(d) \/ PromotionDone(d)
      PROVE FALSE
  BY Zenon, <1>8 DEF Replicate, Connect, Restart, PromotionDone
<1>9. CASE CaughtUp \/ Disconnect \/ ftsCheckTimeout \/ ProberRestarts
  BY Zenon, <1>9 DEF CaughtUp, Disconnect, ftsCheckTimeout, ProberRestarts
<1>10. CASE Probing
  BY Zenon, <1>10 DEF Probing, FtsWalRepInitProbeContext, ftsSend, ftsConnectFails, ftsReceive, processRetry,
               processResponse, MirrorIsDown, PromoteAgain, FollowAnswer, PrimaryIsDown, LeaveIt, processing
<1> QED
  BY Zenon, <1>1, <1>2, <1>3, <1>4, <1>5, <1>6, <1>7, <1>8, <1>9, <1>10 DEF Next

\* For any number of commits, crashes, timeouts, lost connections and retries,
\* the invariant holds when no handler outlives its connection and the
\* checkpointer is prompt.
THEOREM Inductive == ASSUME PromptReload = TRUE, MaxLate = 0 PROVE Spec => []IInv
<1>1. IInv /\ [Next]_vars => IInv'
  BY Zenon, Steps
<1> QED BY <1>1, Starts, PTL DEF Spec

\* The state of the fault tolerance service has its type, and the facts the
\* prober asserts hold: an in-sync mirror is marked up, and a cycle asks the
\* primary of the configuration.
THEOREM TypeCorrect == ASSUME PromptReload = TRUE, MaxLate = 0 PROVE Spec => []TypeOK
<1>1. IInv => TypeOK
  BY Zenon DEF IInv
<1> QED BY <1>1, Inductive, PTL

\* What was acknowledged while the configuration said in sync is on the primary
\* of the configuration, whatever fails over to whom.
THEOREM PromisedSurviveHolds ==
  ASSUME PromptReload = TRUE, MaxLate = 0 PROVE Spec => []PromisedSurvive
<1>1. IInv => PromisedSurvive
  BY Zenon DEF IInv, TypeOK, CommitInv, PromisedSurvive
<1> QED BY <1>1, Inductive, PTL

\* The assertions of processResponse on a probe that is answered by a mirror.
THEOREM RoleMirrorIsExpectedHolds ==
  ASSUME PromptReload = TRUE, MaxLate = 0 PROVE Spec => []RoleMirrorIsExpected
<1>1. IInv => RoleMirrorIsExpected
  BY DEF IInv, TypeOK, Answer, ProberInv, RoleMirrorIsExpected, Succeeded
<1> QED BY <1>1, Inductive, PTL

\* There are never two primaries that both commit without a standby.
THEOREM OneAsyncPrimaryHolds ==
  ASSUME PromptReload = TRUE, MaxLate = 0 PROVE Spec => []OneAsyncPrimary
<1>1. IInv => OneAsyncPrimary
  BY Zenon, Peers DEF IInv, TypeOK, RoleInv, Mirror, OneAsyncPrimary
<1> QED BY <1>1, Inductive, PTL

\* No split brain: whichever node acknowledges a commit, the primary of the
\* configuration has it.
THEOREM AcksReachThePrimaryHolds ==
  ASSUME PromptReload = TRUE, MaxLate = 0 PROVE Spec => AcksReachThePrimary
<1> DEFINE A == \A c \in Commits :
                  commit'[c] = "acked" /\ commit[c] # "acked" => c \in wal'[primary']
<1>1. IInv /\ [Next]_vars => [A]_vars
  BY Zenon, AckStep
<1> QED BY <1>1, Inductive, PTL DEF Spec, AcksReachThePrimary
=============================================================================
