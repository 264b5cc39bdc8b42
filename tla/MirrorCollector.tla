--------------------------- MODULE MirrorCollector ---------------------------
(***************************************************************************)
(* The operator's MxlFlowMirror reconciler                                 *)
(* (operator/internal/mirror/controller.go) on one mirror, together with   *)
(* everything that writes the same object: receivers that adopt and        *)
(* release it, the node agent that creates it on demand and hands it over, *)
(* the apiserver's garbage collection and the gateways' status writes.     *)
(*                                                                         *)
(* A reconcile pass is cut at its API calls, because that is where the     *)
(* other writers get in.  Time is counted in ticks.  Timestamps are kept   *)
(* as ages that saturate at the window they are compared with, which keeps *)
(* time unbounded and the state finite.  A resourceVersion is kept as how  *)
(* far a copy of the object is behind the stored one: "current", "behind"  *)
(* (written since) or "replaced" (deleted, and perhaps created again under *)
(* another UID).                                                           *)
(*                                                                         *)
(* The operator never writes flows, Leases or nodes and reads them only    *)
(* through its informer cache, so located, lease and nodes are that cached *)
(* view.  Pods and receivers are read through the cache and, to confirm    *)
(* that a mirror is unclaimed, live: both views are state.                 *)
(***************************************************************************)
EXTENDS Naturals, FiniteSets

CONSTANTS
  Node,           \* the nodes the flow or the mirror can name
  Target,         \* the mirror's spec.targetNode
  Receiver,       \* MxlReceiver UIDs in the mirror's namespace
  Pod,            \* UIDs of pods on the target node
  Grace,          \* DefaultGracePeriod, in ticks
  Handover,       \* RequestorHandover, in ticks
  Leases,         \* a LeaseChecker is wired; FALSE trusts any Origin
  LeaseWindow,    \* the Lease duration, in ticks
  Departing,      \* the nodes that may leave the cluster
  Prompt,         \* TRUE: no tick passes over an unfinished pass or sweep
  MaxMoves,       \* bound: changes to the flow's Origin locations
  MaxTouches,     \* bound: status writes by the gateways
  MaxClaims,      \* bound: times the mirror is created, adopted or retargeted
  None            \* no pod, no node

ASSUME ConstantsAssumption ==
  /\ Target \in Node
  /\ Grace \in Nat /\ Handover \in Nat
  /\ Leases \in BOOLEAN /\ LeaseWindow \in Nat \ {0}
  /\ Departing \subseteq Node
  /\ Prompt \in BOOLEAN
  /\ MaxMoves \in Nat /\ MaxTouches \in Nat /\ MaxClaims \in Nat
  /\ None \notin Node /\ None \notin Pod

VARIABLES
  mirror,         \* the stored MxlFlowMirror
  cache,          \* the informer's copy of it
  cacheLag,       \* how far that copy is behind
  receivers,      \* the receivers as stored: "new", "live" or "gone"
  seenReceivers,  \* the receivers as cached
  pods,           \* the pods as stored
  seenPods,       \* the pods as cached
  nodes,          \* the Node objects
  located,        \* nodes with an Origin location in the MxlFlow
  lease,          \* ticks the origin Lease of each node still has
  unresolved,     \* how long the flow has named no Origin (history)
  reading,        \* pods whose processes map the flow on the target node
  readFor,        \* how many ticks each pod has been reading
  sweep,          \* the agent's hand-over sweep
  queued,         \* the mirror is in the reconciler's work queue
  timer,          \* ticks to the delayed requeue, 0 when there is none
  pass,           \* the reconcile pass in progress
  moves, touches, claims  \* how much of the three bounds is used

apiVars   == <<mirror, cache, cacheLag>>
claimVars == <<receivers, seenReceivers, pods, seenPods>>
sourceVars == <<nodes, located, lease, unresolved, moves>>
agentVars == <<reading, readFor, sweep>>
queueVars == <<queued, timer>>
boundVars == <<touches, claims>>
vars == <<mirror, cache, cacheLag, receivers, seenReceivers, pods, seenPods,
          nodes, located, lease, unresolved, reading, readFor, sweep, queued,
          timer, pass, moves, touches, claims>>

-----------------------------------------------------------------------------
(* Values.                                                                 *)

Lag == {"current", "behind", "replaced"}

Life == {"new", "live", "gone"}

(* A status condition: its status and how long ago it last turned.  The    *)
(* age matters only for a condition that is False, up to the window it is  *)
(* measured against.                                                       *)
Condition(window) == [status: {"Unset", "True", "False"}, age: 0..window]

Unset == [status |-> "Unset", age |-> 0]

Mirror == [state: {"absent", "present", "deleting"},
           owners: SUBSET Receiver,
           requestor: Pod \cup {None},
           source: Node \cup {None},
           claimed: Condition(Handover),
           sourceable: Condition(Grace)]

NoMirror == [state |-> "absent", owners |-> {}, requestor |-> None,
             source |-> None, claimed |-> Unset, sourceable |-> Unset]

(* sourceJudgement: the disposition, the node to pull from and the moment  *)
(* the answer can change on its own, in ticks from now (0: at once, or     *)
(* never without a LeaseChecker).                                          *)
Judgement == [ok: BOOLEAN,
              node: Node \cup {None},
              deadline: 0..LeaseWindow,
              disposition: {"keep", "wait", "gone"}]

NoJudgement == [ok |-> FALSE, node |-> None, deadline |-> 0,
                disposition |-> "keep"]

(* A reconcile pass: what it still uses of the copy it works on (lag,      *)
(* source, requested, claimed, sourceable), the claimants it judged and    *)
(* the two judgements.                                                     *)
Pass == [pc: {"idle", "live", "source", "repoint", "apply", "delete"},
         lag: Lag,
         source: Node \cup {None},
         requested: BOOLEAN,
         claimed: Condition(Handover),
         sourceable: Condition(Grace),
         owners: SUBSET Receiver,
         requestor: Pod \cup {None},
         wanted: BOOLEAN,
         src: Judgement,
         why: {"none", "local", "unclaimed", "unsourced"}]

IdlePass == [pc |-> "idle", lag |-> "replaced", source |-> None,
             requested |-> FALSE, claimed |-> Unset, sourceable |-> Unset,
             owners |-> {}, requestor |-> None, wanted |-> FALSE,
             src |-> NoJudgement, why |-> "none"]

Sweep == [pc: {"due", "patch", "done"}, pod: Pod \cup {None}, lag: Lag]

SweepDue == [pc |-> "due", pod |-> None, lag |-> "replaced"]

(* A finished sweep.  The next tick makes another one due; without Prompt  *)
(* a sweep may come at any time.                                           *)
Swept == [SweepDue EXCEPT !.pc = IF Prompt THEN "done" ELSE "due"]

-----------------------------------------------------------------------------
(* Reading the state.                                                      *)

(* claimFrom: some owning receiver or the requestor pod is live, as reader *)
(* shows them.                                                             *)
claimFrom(m, recvs, ps) ==
  \/ \E r \in m.owners : recvs[r] = "live"
  \/ m.requestor # None /\ ps[m.requestor] = "live"

Fresh == {n \in located : Leases => lease[n] > 0}

(* source: the target node first, then the flow's Origin locations, the    *)
(* fresh ones before the expired.  Several fresh ones leave the choice to  *)
(* the order of status.locations, which is any order.                      *)
source(from) ==
  IF Target \notin nodes
  THEN {[NoJudgement EXCEPT !.disposition = "gone"]}
  ELSE IF located = {}
  THEN {[NoJudgement EXCEPT !.disposition =
           IF from # None /\ from \notin nodes THEN "gone" ELSE "wait"]}
  ELSE IF Fresh = {}
  THEN {NoJudgement}
  ELSE {[ok |-> TRUE, node |-> n, deadline |-> IF Leases THEN lease[n] ELSE 0,
         disposition |-> "keep"] : n \in Fresh}

(* meta.SetStatusCondition: the age restarts only when the status turns.   *)
setStatusCondition(c, ok) ==
  LET status == IF ok THEN "True" ELSE "False"
  IN  IF c.status = status THEN c ELSE [status |-> status, age |-> 0]

(* What a write that stores m2 does to a copy's lag.  A write that changes *)
(* nothing leaves the resourceVersion alone.                               *)
Moved(lag, m2) ==
  IF m2 = mirror THEN lag
  ELSE IF m2.state = "absent" THEN "replaced"
  ELSE IF lag = "current" THEN "behind"
  ELSE lag

(* workqueue.AddAfter: an item already waiting keeps the earlier time.     *)
Sooner(t) == IF timer = 0 \/ t < timer THEN t ELSE timer

Older(c, window) ==
  IF c.status = "False" /\ c.age < window THEN [c EXCEPT !.age = @ + 1] ELSE c

(* A copy of the mirror, or what a pass keeps of one, one tick later.      *)
Aged(m) == [m EXCEPT !.claimed = Older(@, Handover),
                     !.sourceable = Older(@, Grace)]

Less(n) == IF n > 0 THEN n - 1 ELSE n

-----------------------------------------------------------------------------
(* The reconcile pass.                                                     *)

(* The first reads, all from the cache: the mirror, then claim's cached    *)
(* verdict.  An object on its way out is left to the gateways.             *)
StartPass ==
  /\ pass.pc = "idle"
  /\ queued
  /\ queued' = FALSE
  /\ IF cache.state # "present"
     THEN UNCHANGED pass
     ELSE LET ok == claimFrom(cache, seenReceivers, seenPods)
          IN  pass' = [IdlePass EXCEPT !.pc = IF ok THEN "source" ELSE "live",
                                       !.lag = cacheLag,
                                       !.source = cache.source,
                                       !.requested = cache.requestor # None,
                                       !.claimed = cache.claimed,
                                       !.sourceable = cache.sourceable,
                                       !.owners = cache.owners,
                                       !.requestor = cache.requestor,
                                       !.wanted = ok]
  /\ UNCHANGED <<apiVars, claimVars, sourceVars, agentVars, timer, boundVars>>

(* Faulty variant: the verdict stands on the caches alone.                 *)
ConfirmFromCache ==
  /\ pass.pc = "live"
  /\ pass' = [pass EXCEPT !.pc = "source",
                          !.wanted = claimFrom(pass, seenReceivers, seenPods)]
  /\ UNCHANGED <<apiVars, claimVars, sourceVars, agentVars, queueVars,
                 boundVars>>

(* claim: nothing in the cache claims the mirror, so the claimants it      *)
(* names are read from the apiserver before the verdict stands.            *)
ConfirmUnclaimed ==
  /\ pass.pc = "live"
  /\ pass' = [pass EXCEPT !.pc = "source",
                          !.wanted = claimFrom(pass, receivers, pods)]
  /\ UNCHANGED <<apiVars, claimVars, sourceVars, agentVars, queueVars, boundVars>>

(* Faulty variant: an origin on the target node is repointed to.           *)
JudgeWithoutLocal ==
  /\ pass.pc = "source"
  /\ \E j \in source(pass.source) :
       pass' = [pass EXCEPT
                  !.src = j,
                  !.source = None,
                  !.pc  = IF j.node # None /\ j.node # pass.source
                          THEN "repoint" ELSE "apply"]
  /\ UNCHANGED <<apiVars, claimVars, sourceVars, agentVars, queueVars,
                 boundVars>>

(* Faulty variant: a mirror keeps the source it was created with.          *)
JudgeWithoutRepoint ==
  /\ pass.pc = "source"
  /\ \E j \in source(pass.source) :
       pass' = [pass EXCEPT
                  !.src = j,
                  !.source = None,
                  !.pc  = IF j.node = Target THEN "delete" ELSE "apply",
                  !.why = IF j.node = Target THEN "local" ELSE "none"]
  /\ UNCHANGED <<apiVars, claimVars, sourceVars, agentVars, queueVars,
                 boundVars>>

(* The source judgement and what Reconcile does with it.                   *)
JudgeSource ==
  /\ pass.pc = "source"
  /\ \E j \in source(pass.source) :
       pass' = [pass EXCEPT
                  !.src = j,
                  !.source = None,
                  !.pc  = IF j.node = Target THEN "delete"
                          ELSE IF j.node # None /\ j.node # pass.source
                          THEN "repoint" ELSE "apply",
                  !.why = IF j.node = Target THEN "local" ELSE "none"]
  /\ UNCHANGED <<apiVars, claimVars, sourceVars, agentVars, queueVars, boundVars>>

(* repoint: a merge patch without a resourceVersion.  The response         *)
(* replaces the pass's copy, UID and version included, but not the         *)
(* judgements already made on the old one.                                 *)
Repoint ==
  /\ pass.pc = "repoint"
  /\ IF mirror.state = "absent"
     THEN /\ pass' = [pass EXCEPT !.pc = "apply"]
          /\ UNCHANGED <<mirror, cacheLag, sweep>>
     ELSE LET m2 == [mirror EXCEPT !.source = pass.src.node]
          IN  /\ mirror' = m2
              /\ cacheLag' = Moved(cacheLag, m2)
              /\ sweep' = [sweep EXCEPT !.lag = Moved(@, m2)]
              /\ pass' = [pass EXCEPT !.pc = "apply",
                                      !.lag = "current",
                                      !.requested = m2.requestor # None,
                                      !.claimed = m2.claimed,
                                      !.sourceable = m2.sourceable]
  /\ UNCHANGED <<cache, claimVars, sourceVars, reading, readFor, queueVars,
                 boundVars>>

(* Faulty variant: one tick early, without the floor at now.               *)
RequeueEarly(j) ==
  /\ UNCHANGED queued
  /\ timer' = Sooner(j.deadline - 1)

(* requeueAt: a pass when the Lease that made the source fresh runs out,   *)
(* at once when it has already.                                            *)
RequeueAt(j) ==
  /\ queued' = (queued \/ (Leases /\ j.ok /\ j.deadline = 0))
  /\ timer' = IF j.deadline > 0 THEN Sooner(j.deadline) ELSE timer

(* writeConditions, up to its response: both conditions, turned from the   *)
(* pass's copy, applied to whatever object holds the name now.             *)
Conditions ==
  [claimed    |-> setStatusCondition(pass.claimed, pass.wanted),
   sourceable |-> setStatusCondition(pass.sourceable, pass.src.ok)]

(* Faulty variant: an unclaimed mirror goes at once, requested or not.     *)
WaitForSourceOnly(c) ==
  IF /\ pass.wanted /\ pass.src.disposition = "wait"
     /\ c.sourceable.age < Grace
  THEN Grace - c.sourceable.age ELSE 0

(* Faulty variant: the last tick of a window does not count.               *)
WaitOneTickLess(c) ==
  LET left(window, cond) ==
        IF cond.age + 1 < window THEN window - cond.age - 1 ELSE 0
  IN  IF ~pass.wanted
      THEN IF pass.requested /\ pass.src.disposition # "gone"
           THEN left(Handover, c.claimed) ELSE 0
      ELSE IF pass.src.disposition = "wait"
           THEN left(Grace, c.sourceable) ELSE 0

(* collect: how long a mirror that is not justified still has.  0 is the   *)
(* collection itself.                                                      *)
Wait(c) ==
  LET left(window, cond) == IF cond.age < window THEN window - cond.age ELSE 0
  IN  IF ~pass.wanted
      THEN IF pass.requested /\ pass.src.disposition # "gone"
           THEN left(Handover, c.claimed) ELSE 0
      ELSE IF pass.src.disposition = "wait"
           THEN left(Grace, c.sourceable) ELSE 0

(* writeConditions and the decision collect takes on its result.  The      *)
(* version the apply produced is the one the delete is preconditioned on;  *)
(* the UID is still the one of the pass's copy.                            *)
ApplyAndCollect ==
  /\ pass.pc = "apply"
  /\ IF mirror.state = "absent"
     THEN /\ pass' = IdlePass
          /\ UNCHANGED <<mirror, cacheLag, sweep, queueVars>>
     ELSE LET c == Conditions
              m2 == [mirror EXCEPT !.claimed = c.claimed,
                                   !.sourceable = c.sourceable]
          IN  /\ mirror' = m2
              /\ cacheLag' = Moved(cacheLag, m2)
              /\ sweep' = [sweep EXCEPT !.lag = Moved(@, m2)]
              /\ IF pass.wanted /\ pass.src.disposition = "keep"
                 THEN /\ pass' = IdlePass
                      /\ RequeueAt(pass.src)
                 ELSE IF Wait(c) > 0
                 THEN /\ pass' = IdlePass
                      /\ timer' = Sooner(Wait(c))
                      /\ UNCHANGED queued
                 ELSE /\ pass' = [pass EXCEPT
                                    !.pc = "delete",
                                    !.lag = IF @ = "replaced" THEN @ ELSE "current",
                                    !.requested = FALSE,
                                    !.claimed = Unset,
                                    !.sourceable = Unset,
                                    !.why = IF pass.wanted THEN "unsourced"
                                            ELSE "unclaimed"]
                      /\ UNCHANGED queueVars
  /\ UNCHANGED <<cache, claimVars, sourceVars, reading, readFor, boundVars>>

(* delete, preconditioned on UID and resourceVersion; a conflict and a     *)
(* missing object are both ignored.  The gateway finalizers hold the       *)
(* object back, so a delete only marks it.                                 *)
Delete ==
  /\ pass.pc = "delete"
  /\ LET m2 == IF mirror.state = "present" /\ pass.lag = "current"
               THEN [mirror EXCEPT !.state = "deleting"] ELSE mirror
     IN  /\ mirror' = m2
         /\ cacheLag' = Moved(cacheLag, m2)
         /\ sweep' = [sweep EXCEPT !.lag = Moved(@, m2)]
  /\ pass' = IdlePass
  /\ UNCHANGED <<cache, claimVars, sourceVars, reading, readFor, queueVars,
                 boundVars>>

-----------------------------------------------------------------------------
(* The other writers of the mirror.                                        *)

(* A write of the object by anyone but the pass.                           *)
Write(m2) ==
  /\ mirror' = m2
  /\ cacheLag' = Moved(cacheLag, m2)
  /\ pass' = [pass EXCEPT !.lag = Moved(@, m2)]
  /\ sweep' = [sweep EXCEPT !.lag = Moved(@, m2)]

(* The receiver reconciler's ensureMirror in the mirror's own namespace:   *)
(* create it, or add the owner reference and follow the origin.            *)
EnsureMirror(r, n) ==
  /\ receivers[r] = "live"
  /\ n \in Fresh \ {Target}
  /\ Target \in nodes
  /\ mirror.state # "deleting"
  /\ claims < MaxClaims
  /\ claims' = claims + 1
  /\ LET m2 == IF mirror.state = "absent"
               THEN [NoMirror EXCEPT !.state = "present", !.owners = {r},
                                     !.source = n]
               ELSE [mirror EXCEPT !.owners = @ \cup {r}, !.source = n]
     IN  m2 # mirror /\ Write(m2)
  /\ UNCHANGED <<cache, claimVars, sourceVars, reading, readFor, queueVars,
                 touches>>

(* removeOwnerRef.  Emptying the list is followed by deleteIfStillEmpty,   *)
(* which a concurrent write or a restart of the operator may pre-empt.     *)
ReleaseMirror(r) ==
  /\ r \in mirror.owners
  /\ mirror.state = "present"
  /\ LET released == [mirror EXCEPT !.owners = @ \ {r}]
     IN  \/ Write(released)
         \/ /\ released.owners = {}
            /\ Write([released EXCEPT !.state = "deleting"])
  /\ UNCHANGED <<cache, claimVars, sourceVars, reading, readFor, queueVars,
                 boundVars>>

Solid == {r \in mirror.owners : receivers[r] = "live"}

(* An owner is gone, and the mirror is not already on its way out for it.  *)
Dangling ==
  /\ \E r \in mirror.owners : receivers[r] = "gone"
  /\ Solid = {} => mirror.state = "present"

(* The apiserver's garbage collection: a mirror all of whose owners are    *)
(* gone is deleted; dangling references beside a solid one are dropped.    *)
CollectDependents ==
  /\ Dangling
  /\ Write(IF Solid = {} THEN [mirror EXCEPT !.state = "deleting"]
           ELSE [mirror EXCEPT !.owners = Solid])
  /\ UNCHANGED <<cache, claimVars, sourceVars, reading, readFor, queueVars,
                 boundVars>>

(* Materialize for a pod whose open found no flow: the agent's             *)
(* ensureMirror creates the mirror and names the pod as its requestor.     *)
Materialize(p, n) ==
  /\ pods[p] = "live"
  /\ Target \in nodes
  /\ n \in Fresh \ {Target}
  /\ mirror.state = "absent"
  /\ Write([NoMirror EXCEPT !.state = "present", !.requestor = p, !.source = n])
  /\ claims < MaxClaims
  /\ claims' = claims + 1
  /\ reading' = reading \cup {p}
  /\ UNCHANGED <<cache, claimVars, sourceVars, readFor, queueVars, touches>>

(* The two gateways write phases, progress and their own conditions.       *)
GatewayStatusWrite ==
  /\ mirror.state # "absent"
  /\ touches < MaxTouches
  /\ touches' = touches + 1
  /\ LET touched(lag) == IF lag = "current" THEN "behind" ELSE lag
     IN  /\ cacheLag' = touched(cacheLag)
         /\ pass' = [pass EXCEPT !.lag = touched(@)]
         /\ sweep' = [sweep EXCEPT !.lag = touched(@)]
  /\ UNCHANGED <<mirror, cache, claimVars, sourceVars, reading, readFor,
                 queueVars, claims>>

(* The gateways drop their finalizers, the object goes, and with the last  *)
(* writer the flow's directory.                                            *)
FinalizersDropped ==
  /\ mirror.state = "deleting"
  /\ Write(NoMirror)
  /\ reading' = {}
  /\ readFor' = [p \in Pod |-> 0]
  /\ UNCHANGED <<cache, claimVars, sourceVars, queueVars, boundVars>>

-----------------------------------------------------------------------------
(* The agent's hand-over sweep.                                            *)

(* An on-demand mirror has readers, and its requestor is none of them.     *)
ReaderUnasked ==
  /\ mirror.state = "present"
  /\ mirror.requestor # None
  /\ mirror.requestor \notin reading
  /\ reading # {}

(* HandOver lists the on-demand mirrors of its node, reads the one whose   *)
(* requestor does not map the flow and picks a live reader; with nothing   *)
(* to hand over the sweep ends.                                            *)
HandOver ==
  /\ sweep.pc = "due"
  /\ Target \in nodes
  /\ IF ReaderUnasked
     THEN \E p \in reading :
            sweep' = [pc |-> "patch", pod |-> p, lag |-> "current"]
     ELSE sweep' = Swept
  /\ UNCHANGED <<apiVars, claimVars, sourceVars, reading, readFor, queueVars,
                 pass, boundVars>>

(* handOver: a patch that carries the version the mirror was read at.      *)
HandOverPatch ==
  /\ sweep.pc = "patch"
  /\ sweep' = Swept
  /\ LET m2 == IF sweep.lag = "current"
               THEN [mirror EXCEPT !.requestor = sweep.pod] ELSE mirror
     IN  /\ mirror' = m2
         /\ cacheLag' = Moved(cacheLag, m2)
         /\ pass' = [pass EXCEPT !.lag = Moved(@, m2)]
  /\ UNCHANGED <<cache, claimVars, sourceVars, reading, readFor, queueVars,
                 boundVars>>

-----------------------------------------------------------------------------
(* The cluster around them.                                                *)

ReceiverTurns(r, from, to) ==
  /\ receivers[r] = from
  /\ receivers' = [receivers EXCEPT ![r] = to]
  /\ UNCHANGED <<apiVars, seenReceivers, pods, seenPods, sourceVars, agentVars,
                 queueVars, pass, boundVars>>

ReceiverCreated(r) == ReceiverTurns(r, "new", "live")

ReceiverDeleted(r) == ReceiverTurns(r, "live", "gone")

PodTurns(p, from, to) ==
  /\ pods[p] = from
  /\ pods' = [pods EXCEPT ![p] = to]
  /\ UNCHANGED <<apiVars, receivers, seenReceivers, seenPods, sourceVars,
                 sweep, queueVars, pass, boundVars>>

PodCreated(p) ==
  /\ Target \in nodes
  /\ PodTurns(p, "new", "live")
  /\ UNCHANGED <<reading, readFor>>

PodDeleted(p) ==
  /\ PodTurns(p, "live", "gone")
  /\ reading' = reading \ {p}
  /\ readFor' = [readFor EXCEPT ![p] = 0]

(* A pod opens a flow whose directory the mirror already put in place: it  *)
(* reads without asking.                                                   *)
PodReads(p) ==
  /\ pods[p] = "live"
  /\ mirror.state = "present"
  /\ reading' = reading \cup {p}
  /\ UNCHANGED <<apiVars, claimVars, sourceVars, readFor, sweep, queueVars,
                 pass, boundVars>>

(* The informer delivers the mirror, and For() enqueues it.                *)
MirrorEvent ==
  /\ cacheLag # "current"
  /\ cache' = mirror
  /\ cacheLag' = "current"
  /\ queued' = TRUE
  /\ UNCHANGED <<mirror, claimVars, sourceVars, agentVars, timer, pass, boundVars>>

(* receiverToMirrors and podToMirrors map the event over the cached        *)
(* mirrors.                                                                *)
ReceiverEvent(r) ==
  /\ seenReceivers[r] # receivers[r]
  /\ seenReceivers' = [seenReceivers EXCEPT ![r] = receivers[r]]
  /\ queued' = (queued \/ (cache.state # "absent" /\ r \in cache.owners))
  /\ UNCHANGED <<apiVars, receivers, pods, seenPods, sourceVars, agentVars,
                 timer, pass, boundVars>>

(* Faulty variant: deletions of pods are filtered out.                     *)
PodEventUnlessGone(p) ==
  /\ seenPods[p] # pods[p]
  /\ seenPods' = [seenPods EXCEPT ![p] = pods[p]]
  /\ queued' = (queued \/ (/\ cache.state # "absent" /\ p = cache.requestor
                           /\ pods[p] # "gone"))
  /\ UNCHANGED <<apiVars, receivers, seenReceivers, pods, sourceVars,
                 agentVars, timer, pass, boundVars>>

PodEvent(p) ==
  /\ seenPods[p] # pods[p]
  /\ seenPods' = [seenPods EXCEPT ![p] = pods[p]]
  /\ queued' = (queued \/ (cache.state # "absent" /\ p = cache.requestor))
  /\ UNCHANGED <<apiVars, receivers, seenReceivers, pods, sourceVars,
                 agentVars, timer, pass, boundVars>>

(* flowToMirrors: an Origin location of the flow appears or goes.          *)
FlowEvent(n) ==
  /\ moves < MaxMoves
  /\ moves' = moves + 1
  /\ n \in nodes
  /\ \/ /\ n \notin located
        /\ located' = located \cup {n}
        /\ lease' = [lease EXCEPT ![n] = LeaseWindow]
     \/ /\ n \in located
        /\ located' = located \ {n}
        /\ lease' = [lease EXCEPT ![n] = 0]
  /\ unresolved' = 0
  /\ queued' = (queued \/ cache.state # "absent")
  /\ UNCHANGED <<apiVars, claimVars, nodes, agentVars, timer, pass, boundVars>>

(* leaseToMirrors: the agent on n renews.  A Lease that runs out raises no *)
(* event.                                                                  *)
LeaseEvent(n) ==
  /\ Leases
  /\ n \in located \cap nodes
  /\ lease' = [lease EXCEPT ![n] = LeaseWindow]
  /\ queued' = (queued \/ cache.state # "absent")
  /\ UNCHANGED <<apiVars, claimVars, nodes, located, unresolved, moves, agentVars,
                 timer, pass, boundVars>>

(* nodeToMirrors, on deletions only.  The pods and the agent go with the   *)
(* node; its Origin location stays until the flow reconciler drops it.     *)
NodeEvent(n) ==
  /\ n \in nodes \cap Departing
  /\ nodes' = nodes \ {n}
  /\ queued' = (queued \/ (cache.state # "absent" /\ n \in {Target, cache.source}))
  /\ UNCHANGED <<apiVars, claimVars, located, lease, unresolved, moves, agentVars,
                 timer, pass, boundVars>>

(* The flow reconciler drops the locations of departed nodes.              *)
DropDeparted ==
  /\ located \ nodes # {}
  /\ located' = located \cap nodes
  /\ lease' = [n \in Node |-> IF n \in nodes THEN lease[n] ELSE 0]
  /\ queued' = (queued \/ cache.state # "absent")
  /\ UNCHANGED <<apiVars, claimVars, nodes, unresolved, moves, agentVars, timer,
                 pass, boundVars>>

(* A tick.  With Prompt, a tick is longer than a sweep, a pass and the     *)
(* informer's delay put together.                                          *)
Tick ==
  /\ Prompt => /\ pass.pc = "idle" /\ ~queued /\ cacheLag = "current"
               /\ seenPods = pods /\ seenReceivers = receivers
               /\ sweep.pc = "done" \/ Target \notin nodes
  /\ mirror' = Aged(mirror)
  /\ cache' = Aged(cache)
  /\ pass' = [Aged(pass) EXCEPT !.src.deadline = Less(@)]
  /\ lease' = IF Leases THEN [n \in Node |-> Less(lease[n])] ELSE lease
  /\ unresolved' = IF located = {} /\ unresolved < Grace
                   THEN unresolved + 1 ELSE unresolved
  /\ timer' = Less(timer)
  /\ queued' = (queued \/ timer = 1)
  /\ readFor' = [p \in Pod |-> IF Prompt /\ p \in reading /\ readFor[p] < 2
                               THEN readFor[p] + 1 ELSE readFor[p]]
  /\ sweep' = IF sweep.pc = "done" THEN SweepDue ELSE sweep
  /\ UNCHANGED <<cacheLag, claimVars, nodes, located, moves, reading, boundVars>>

-----------------------------------------------------------------------------

Init ==
  /\ mirror = NoMirror
  /\ cache = NoMirror
  /\ cacheLag = "current"
  /\ receivers = [r \in Receiver |-> "new"]
  /\ seenReceivers = receivers
  /\ pods = [p \in Pod |-> "new"]
  /\ seenPods = pods
  /\ nodes = Node
  /\ \E n \in Node : /\ located = {n}
                     /\ lease = [k \in Node |-> IF k = n THEN LeaseWindow ELSE 0]
  /\ unresolved = 0
  /\ reading = {}
  /\ readFor = [p \in Pod |-> 0]
  /\ sweep = SweepDue
  /\ queued = FALSE
  /\ timer = 0
  /\ pass = IdlePass
  /\ moves = 0
  /\ touches = 0
  /\ claims = 0

Reconcile ==
  \/ StartPass
  \/ ConfirmUnclaimed
  \/ JudgeSource
  \/ Repoint
  \/ ApplyAndCollect
  \/ Delete

Informer ==
  \/ MirrorEvent
  \/ \E r \in Receiver : ReceiverEvent(r)
  \/ \E p \in Pod : PodEvent(p)

Writers ==
  \/ \E r \in Receiver, n \in Node : EnsureMirror(r, n)
  \/ \E r \in Receiver : ReleaseMirror(r)
  \/ CollectDependents
  \/ \E p \in Pod, n \in Node : Materialize(p, n)
  \/ HandOver
  \/ HandOverPatch
  \/ GatewayStatusWrite
  \/ FinalizersDropped

Cluster ==
  \/ \E r \in Receiver : ReceiverCreated(r) \/ ReceiverDeleted(r)
  \/ \E p \in Pod : PodCreated(p) \/ PodDeleted(p) \/ PodReads(p)
  \/ \E n \in Node : FlowEvent(n) \/ LeaseEvent(n) \/ NodeEvent(n)
  \/ DropDeparted
  \/ Tick

Next == Reconcile \/ Informer \/ Writers \/ Cluster

Spec == Init /\ [][Next]_vars

(* Weak fairness of the reconciler, the informer, the agent's ticker, the  *)
(* gateways' finalizers and the collectors, as the states that do not last *)
(* (each of these steps ends the state that allows it).  Nothing obliges   *)
(* pods, receivers, producers or nodes to do anything.                     *)
StepsGoOn ==
  /\ \A pc \in {"live", "source", "repoint", "apply", "delete"} :
       []<>(pass.pc # pc)
  /\ []<>~(pass.pc = "idle" /\ queued)
  /\ []<>(cacheLag = "current")
  /\ \A r \in Receiver : []<>(seenReceivers[r] = receivers[r])
  /\ \A p \in Pod : []<>(seenPods[p] = pods[p])
  /\ []<>~(sweep.pc = "due" /\ Target \in nodes /\ (Prompt \/ ReaderUnasked))
  /\ []<>(sweep.pc # "patch")
  /\ []<>(mirror.state # "deleting")
  /\ []<>~Dangling
  /\ []<>(located \subseteq nodes)

Fairness == StepsGoOn /\ WF_vars(Tick)

FairSpec == Spec /\ Fairness

-----------------------------------------------------------------------------
(* Properties.                                                             *)

(* Every variable keeps its type.                                          *)
TypeOK ==
  /\ mirror \in Mirror
  /\ cache \in Mirror
  /\ cacheLag \in Lag
  /\ receivers \in [Receiver -> Life]
  /\ seenReceivers \in [Receiver -> Life]
  /\ pods \in [Pod -> Life]
  /\ seenPods \in [Pod -> Life]
  /\ nodes \in SUBSET Node
  /\ located \in SUBSET Node
  /\ lease \in [Node -> 0..LeaseWindow]
  /\ unresolved \in 0..Grace
  /\ reading \in SUBSET Pod
  /\ readFor \in [Pod -> 0..2]
  /\ sweep \in Sweep
  /\ queued \in BOOLEAN
  /\ timer \in Nat
  /\ pass \in Pass
  /\ moves \in 0..MaxMoves
  /\ touches \in 0..MaxTouches
  /\ claims \in 0..MaxClaims

(* The pass's delete takes effect, for the given reason.                   *)
Marks(why) ==
  /\ pass.pc = "delete"
  /\ pass.why = why
  /\ mirror.state = "present"
  /\ mirror'.state = "deleting"
  /\ pass'.pc = "idle"

(* A mirror is collected as unclaimed only when every claimant named on    *)
(* the version the pass judged is gone, however stale the caches are: the  *)
(* verdict is confirmed against the apiserver, and neither a deleted pod   *)
(* nor a deleted receiver comes back under its UID.                        *)
JudgedClaimantsGone ==
  [][Marks("unclaimed") =>
       /\ \A r \in pass.owners : receivers[r] = "gone"
       /\ pass.requestor # None => pods[pass.requestor] = "gone"]_vars

(* A claimed mirror that is collected for want of a source carries, at the *)
(* moment it is deleted, a Sourceable=False as old as the grace period,    *)
(* unless a node at one of its ends has left: the grace is what the object *)
(* itself shows, not what some copy of it showed.                          *)
GraceIsPublished ==
  [][Marks("unsourced") =>
       \/ pass.src.disposition = "gone"
       \/ /\ mirror.sourceable.status = "False"
          /\ mirror.sourceable.age >= Grace]_vars

(* A mirror is not pointed at its own target node: repoint is never asked  *)
(* to, because an origin on the target node deletes the mirror instead.    *)
NoSelfMirror == mirror.source # Target

(* A pod that has been reading through the mirror for two sweeps keeps it: *)
(* the agent names it as the requestor inside RequestorHandover, so the    *)
(* operator does not collect the mirror when the pod it replaced goes.     *)
ReaderKeepsMirror ==
  [][Marks("unclaimed") /\ mirror.requestor # None /\ pass.src.disposition # "gone"
       => \A p \in reading : readFor[p] < 2]_vars

(* Collecting a mirror as unclaimed never hits one that a live receiver or *)
(* a live requestor pod claims at that moment.                             *)
RacingClaimantKeepsMirror ==
  [][Marks("unclaimed") => ~claimFrom(mirror, receivers, pods)]_vars

(* A claimed mirror whose nodes are all there is not collected before the  *)
(* flow has been without an Origin for the whole grace period.             *)
GraceOutlastsReplacement ==
  [][Marks("unsourced") /\ pass.src.disposition = "wait"
       => unresolved >= Grace]_vars

Present == mirror.state = "present"

Claimed == claimFrom(mirror, receivers, pods)

(* A mirror that nothing claims any more does not stay: every event that   *)
(* can end a claim reaches the queue, and the hand-over wait is requeued.  *)
UnclaimedCollected == []<>(~Present \/ Claimed)

(* A mirror does not stay when its target node has left, or when the flow  *)
(* has moved onto the target node.                                         *)
PointlessCollected == /\ []<>(~Present \/ Target \in nodes)
                      /\ []<>(~Present \/ Fresh # {Target})

(* A mirror follows the origin: it does not keep naming another node while *)
(* the flow has one fresh Origin.                                          *)
SourceFollowsOrigin ==
  \A n \in Node \ {Target} :
    []<>(~Present \/ Fresh # {n} \/ mirror.source = n)

(* A Lease that runs out without an event is still noticed: a claimed      *)
(* mirror does not keep reading Sourceable=True over an expired Lease.     *)
LapseNoticed ==
  []<>(~(/\ Present /\ Claimed /\ Target \in nodes
         /\ Fresh = {} /\ mirror.sourceable.status = "True"))

(* The end of whatever a mirror is there for is noticed: of its claim, of  *)
(* its target's node, of its source or of the source's Lease.              *)
EndsAreNoticed == UnclaimedCollected /\ PointlessCollected /\ LapseNoticed

-----------------------------------------------------------------------------
(* What makes the safety properties inductive.                             *)

(* A pass that is about to repoint was not told to point at the target.    *)
RepointsElsewhere ==
  /\ NoSelfMirror
  /\ pass.pc = "repoint" => pass.src.node # Target

(* The claimants m names exist, or existed.                                *)
Named(m) ==
  /\ \A r \in m.owners : receivers[r] # "new"
  /\ m.requestor # None => pods[m.requestor] # "new"

(* Nobody is named before they exist: only a live receiver adopts, only a  *)
(* live pod asks, and only a reading pod is handed a mirror.               *)
ClaimantsExist ==
  /\ Named(mirror) /\ Named(cache) /\ Named(pass)
  /\ \A p \in reading : pods[p] # "new"
  /\ sweep.pod # None => pods[sweep.pod] # "new"

Gone(m) ==
  /\ \A r \in m.owners : receivers[r] = "gone"
  /\ m.requestor # None => pods[m.requestor] = "gone"

(* Once a pass holds the verdict "unclaimed", it is final.                 *)
VerdictIsFinal ==
  /\ ~pass.wanted /\ pass.pc \notin {"idle", "live"} => Gone(pass)
  /\ pass.why = "unclaimed" => pass.pc = "delete" /\ ~pass.wanted

(* A pass about to delete for want of a source, on a version still stored, *)
(* has published the condition that version carries.                       *)
GraceRunOut ==
  /\ pass.src.disposition # "keep" => ~pass.src.ok
  /\ pass.pc = "delete" /\ pass.why = "unsourced" /\ pass.lag = "current"
       => \/ pass.src.disposition = "gone"
          \/ /\ mirror.sourceable.status = "False"
             /\ mirror.sourceable.age >= Grace

=============================================================================
