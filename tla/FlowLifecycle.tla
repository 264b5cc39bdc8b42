---------------------------- MODULE FlowLifecycle ----------------------------
(***************************************************************************)
(* What the operator does with the flow the agents publish: the MxlFlow    *)
(* reconciler (operator/internal/flow) and the collector of origin Leases  *)
(* (operator/internal/leasegc).                                            *)
(*                                                                         *)
(* Both read through informers, whose copies of the flow, the Leases, the  *)
(* mirrors and the nodes may each be behind the API server, and decide on  *)
(* several such reads; only the versions their writes carry tell them that *)
(* an object has moved on.  flowCopies and leaseCopies say which copies    *)
(* are the stored version: the informer's ("cache"), the one the flow pass *)
(* holds ("pass"), the one the Lease pass holds ("gc").                    *)
(*                                                                         *)
(* An agent is reduced to its writes, one API call each; FlowPublisher has *)
(* its goroutines.                                                         *)
(***************************************************************************)
EXTENDS Naturals

CONSTANTS
  Node,
  None,
  Window,     \* ticks a renewed Lease stays fresh
  Grace,      \* ticks a flow reads Live=False before it is collected
  Retries,    \* attempts of a RetryOnConflict
  MaxMoves    \* bound on what producers, agents, readers and nodes do

ASSUME LifecycleAssumption ==
  /\ None \notin Node
  /\ Window \in Nat \ {0}
  /\ Grace \in Nat \ {0}
  /\ Retries \in Nat \ {0}
  /\ MaxMoves \in Nat

VARIABLES
  producer,    \* the nodes a producer writes the flow on
  agent,       \* the nodes whose agent runs
  nodes,       \* the Node objects
  mirror,      \* the MxlFlowMirror that asks for the flow on each node
  flow,        \* the stored MxlFlow
  shown,       \* history: the ticks it has read Live=False
  flowCopies,
  lease,       \* the origin Lease of each node
  leaseCopies,
  seen,        \* the informers' copies
  queued, timer, pass,         \* the flow reconciler
  gcQueued, gcTimer, gc,       \* the Lease collector
  moves

worldVars == <<producer, agent, nodes, mirror, moves>>
passVars == <<queued, timer, pass>>
gcVars == <<gcQueued, gcTimer, gc>>
vars == <<worldVars, flow, shown, flowCopies, lease, leaseCopies, seen, passVars, gcVars>>

Location == {"none", "Origin", "Stale"}

Verdict == {"OriginLive", "Mirrored", "NoLiveCopy"}

(* live is the Live condition's reason and by the copy its message names;  *)
(* age is how long its status has been what it is.                         *)
Flow == [exists : BOOLEAN, locs : [Node -> Location], live : Verdict \cup {"unset"},
         by : Node \cup {None}, age : 0..Grace, fresh : {"unset", "True", "False"},
         origin : Node \cup {None}]

NewFlow == [exists |-> TRUE, locs |-> [n \in Node |-> "none"], live |-> "unset",
            by |-> None, age |-> 0, fresh |-> "unset", origin |-> None]

NoFlow == [NewFlow EXCEPT !.exists = FALSE]

Lease == [held : BOOLEAN, left : 0..Window]

NoLease == [held |-> FALSE, left |-> 0]

Renewed == [held |-> TRUE, left |-> Window]

Seen == [flow : Flow, lease : [Node -> Lease],
         mirror : [Node -> {"absent", "present", "deleting"}], nodes : SUBSET Node]

(* claimed is where the flow, as the pass first read it, has its Origins.  *)
Pass == [pc : {"idle", "judge", "write", "delete"}, claimed : SUBSET Node,
         departed : SUBSET Node, live : Verdict, by : Node \cup {None},
         deadline : 0..Window, tries : 0..Retries]

IdlePass == [pc |-> "idle", claimed |-> {}, departed |-> {}, live |-> "NoLiveCopy",
             by |-> None, deadline |-> 0, tries |-> 0]

Gc == [pc : {"idle", "orphan", "delete"}, node : Node \cup {None}]

IdleGc == [pc |-> "idle", node |-> None]

WriteFlow(f, copies) ==
  /\ flow' = f
  /\ flowCopies' = copies
  /\ shown' = IF flow.live = "NoLiveCopy" /\ f.live = "NoLiveCopy" THEN shown ELSE 0

WriteLease(n, l) ==
  /\ lease' = [lease EXCEPT ![n] = l]
  /\ leaseCopies' = [leaseCopies EXCEPT ![n] = {}]

-----------------------------------------------------------------------------
(* The MxlFlow reconciler.                                                 *)

Finish(again) == pass' = IdlePass /\ queued' = again

keepPresent(locs, departed) ==
  [n \in Node |-> IF n \in departed THEN "none" ELSE locs[n]]

Origins(locs) == {n \in Node : locs[n] = "Origin"}

(* The read of the flow, and of the nodes its locations name.              *)
StartPass ==
  /\ pass.pc = "idle"
  /\ queued
  /\ queued' = FALSE
  /\ pass' = IF ~seen.flow.exists THEN IdlePass
             ELSE LET locs == seen.flow.locs
                      departed == {n \in Node : locs[n] # "none"} \ seen.nodes
                  IN  [IdlePass EXCEPT !.pc = "judge", !.departed = departed,
                         !.claimed = Origins(keepPresent(locs, departed))]
  /\ UNCHANGED <<worldVars, flow, shown, flowCopies, lease, leaseCopies, seen, timer, gcVars>>

IsFresh(n) == seen.lease[n].held /\ seen.lease[n].left > 0

(* judge: an Origin whose Lease is renewed (the last one listed names the  *)
(* condition), else a mirror that is not on its way out.                   *)
Judge ==
  /\ pass.pc = "judge"
  /\ LET fresh == {n \in pass.claimed : IsFresh(n)}
         asked == {n \in Node : seen.mirror[n] = "present"}
     IN  \/ \E n \in fresh, m \in fresh :
              /\ \A k \in fresh : seen.lease[k].left <= seen.lease[m].left
              /\ pass' = [pass EXCEPT !.pc = "write", !.live = "OriginLive", !.by = n,
                                      !.deadline = seen.lease[m].left]
         \/ /\ fresh = {}
            /\ \E n \in asked :
                 pass' = [pass EXCEPT !.pc = "write", !.live = "Mirrored", !.by = n]
         \/ /\ fresh = {} /\ asked = {}
            /\ pass' = [pass EXCEPT !.pc = "write"]
  /\ UNCHANGED <<worldVars, flow, shown, flowCopies, lease, leaseCopies, seen, queued, timer,
                 gcVars>>

IsLive(reason) == reason \in {"OriginLive", "Mirrored"}

(* Faulty variant: the clock of Live runs on when its status turns.        *)
JudgedWithoutRestart(f) ==
  LET locs == keepPresent(f.locs, pass.departed)
  IN  {[f EXCEPT !.locs = locs, !.live = pass.live, !.by = pass.by,
                 !.fresh = IF pass.claimed = {} THEN @
                           ELSE IF pass.live = "OriginLive" THEN "True" ELSE "False",
                 !.origin = o] :
         o \in IF Origins(locs) = {} THEN {None} ELSE Origins(locs)}

(* The conditions and the origin record as writeStatus leaves them.        *)
(* SetStatusCondition restarts the clock of Live when its status turns;    *)
(* OriginFresh is left alone while nothing claims Origin.  Which of        *)
(* several Origins is listed first is left open.                           *)
Judged(f) ==
  LET locs == keepPresent(f.locs, pass.departed)
      turned == f.live = "unset" \/ IsLive(f.live) # IsLive(pass.live)
  IN  {[f EXCEPT !.locs = locs, !.live = pass.live, !.by = pass.by,
                 !.age = IF turned THEN 0 ELSE @,
                 !.fresh = IF pass.claimed = {} THEN @
                           ELSE IF pass.live = "OriginLive" THEN "True" ELSE "False",
                 !.origin = o] :
         o \in IF Origins(locs) = {} THEN {None} ELSE Origins(locs)}

RequeueAfter(d) == timer' = IF timer = 0 \/ d < timer THEN d ELSE timer

(* collect, up to its delete, on the version of the flow the pass holds.   *)
Collect(f) ==
  \/ /\ pass.live = "Mirrored"
     /\ Finish(queued)
     /\ UNCHANGED timer
  \/ /\ pass.live = "OriginLive"
     /\ RequeueAfter(pass.deadline)
     /\ Finish(queued)
  \/ /\ pass.live = "NoLiveCopy" /\ f.age < Grace
     /\ RequeueAfter(Grace - f.age)
     /\ Finish(queued)
  \/ /\ pass.live = "NoLiveCopy" /\ f.age = Grace
     /\ pass' = [pass EXCEPT !.pc = "delete"]
     /\ UNCHANGED <<queued, timer>>

(* An update that lost its race is tried again on a fresh read, and after  *)
(* the last attempt the whole pass is.                                     *)
Conflict ==
  IF ~flow.exists THEN Finish(queued)
  ELSE IF pass.tries + 1 < Retries
  THEN pass' = [pass EXCEPT !.tries = @ + 1] /\ UNCHANGED queued
  ELSE Finish(TRUE)

(* writeStatus reads the flow again and updates it, unless nothing it says *)
(* has changed.                                                            *)
WriteStatus ==
  /\ pass.pc = "write"
  /\ \/ /\ ~seen.flow.exists
        /\ Finish(queued)
        /\ UNCHANGED <<flow, shown, flowCopies, timer>>
     \/ /\ seen.flow.exists
        /\ \E f \in Judged(seen.flow) :
             \/ /\ f = seen.flow
                /\ WriteFlow(flow, IF "cache" \in flowCopies THEN flowCopies \cup {"pass"}
                                   ELSE flowCopies \ {"pass"})
                /\ Collect(f)
             \/ /\ f # seen.flow /\ "cache" \in flowCopies
                /\ WriteFlow(f, {"pass"})
                /\ Collect(f)
             \/ /\ f # seen.flow /\ "cache" \notin flowCopies
                /\ Conflict
                /\ UNCHANGED <<flow, shown, flowCopies, timer>>
  /\ UNCHANGED <<worldVars, lease, leaseCopies, seen, gcVars>>

(* The delete carries the version the pass holds.                          *)
DeleteFlow ==
  /\ pass.pc = "delete"
  /\ IF "pass" \in flowCopies THEN WriteFlow(NoFlow, {}) /\ Finish(queued)
     ELSE Finish(queued \/ flow.exists) /\ UNCHANGED <<flow, shown, flowCopies>>
  /\ UNCHANGED <<worldVars, lease, leaseCopies, seen, timer, gcVars>>

-----------------------------------------------------------------------------
(* The Lease collector.                                                    *)

(* Faulty variant: a Lease inside its window is not looked at again.       *)
StartGcOnce(n) ==
  /\ gc.pc = "idle"
  /\ n \in gcQueued
  /\ gcQueued' = gcQueued \ {n}
  /\ IF seen.lease[n].held /\ ~IsFresh(n)
     THEN /\ gc' = [pc |-> "orphan", node |-> n]
          /\ leaseCopies' = [leaseCopies EXCEPT ![n] =
                               IF "cache" \in @ THEN @ \cup {"gc"} ELSE @ \ {"gc"}]
     ELSE UNCHANGED <<gc, leaseCopies>>
  /\ UNCHANGED <<worldVars, flow, shown, flowCopies, lease, seen, passVars, gcTimer>>

(* The read of the Lease: one inside its window is looked at again when    *)
(* that closes.                                                            *)
StartGc(n) ==
  /\ gc.pc = "idle"
  /\ n \in gcQueued
  /\ gcQueued' = gcQueued \ {n}
  /\ IF seen.lease[n].held /\ ~IsFresh(n)
     THEN /\ gc' = [pc |-> "orphan", node |-> n]
          /\ leaseCopies' = [leaseCopies EXCEPT ![n] =
                               IF "cache" \in @ THEN @ \cup {"gc"} ELSE @ \ {"gc"}]
          /\ UNCHANGED gcTimer
     ELSE /\ gcTimer' = IF IsFresh(n) THEN [gcTimer EXCEPT ![n] = seen.lease[n].left]
                        ELSE gcTimer
          /\ UNCHANGED <<gc, leaseCopies>>
  /\ UNCHANGED <<worldVars, flow, shown, flowCopies, lease, seen, passVars>>

(* orphaned: the node or the flow is gone.                                 *)
Orphaned ==
  /\ gc.pc = "orphan"
  /\ gc' = IF gc.node \notin seen.nodes \/ ~seen.flow.exists
           THEN [gc EXCEPT !.pc = "delete"] ELSE IdleGc
  /\ UNCHANGED <<worldVars, flow, shown, flowCopies, lease, leaseCopies, seen, passVars,
                 gcQueued, gcTimer>>

(* The delete carries the version the collector read.                      *)
DeleteLease ==
  /\ gc.pc = "delete"
  /\ gc' = IdleGc
  /\ IF "gc" \in leaseCopies[gc.node]
     THEN WriteLease(gc.node, NoLease) /\ UNCHANGED gcQueued
     ELSE /\ gcQueued' = IF lease[gc.node].held THEN gcQueued \cup {gc.node} ELSE gcQueued
          /\ UNCHANGED <<lease, leaseCopies>>
  /\ UNCHANGED <<worldVars, flow, shown, flowCopies, seen, passVars, gcTimer>>

-----------------------------------------------------------------------------
(* The informers and what they wake.                                       *)

(* A flow that goes wakes the collector for every Lease that names it.     *)
FlowEvent ==
  /\ "cache" \notin flowCopies
  /\ flowCopies' = flowCopies \cup {"cache"}
  /\ seen' = [seen EXCEPT !.flow = flow]
  /\ queued' = TRUE
  /\ gcQueued' = IF flow.exists THEN gcQueued
                 ELSE gcQueued \cup {n \in Node : seen.lease[n].held}
  /\ UNCHANGED <<worldVars, flow, shown, lease, leaseCopies, timer, pass, gcTimer, gc>>

(* leaseToFlow hears every event, the collector only of new Leases.        *)
LeaseEvent(n) ==
  /\ "cache" \notin leaseCopies[n]
  /\ leaseCopies' = [leaseCopies EXCEPT ![n] = @ \cup {"cache"}]
  /\ seen' = [seen EXCEPT !.lease[n] = lease[n]]
  /\ queued' = TRUE
  /\ gcQueued' = IF lease[n].held /\ ~seen.lease[n].held THEN gcQueued \cup {n}
                 ELSE gcQueued
  /\ UNCHANGED <<worldVars, flow, shown, flowCopies, lease, timer, pass, gcTimer, gc>>

(* mirrorToFlow.                                                           *)
MirrorEvent(n) ==
  /\ seen.mirror[n] # mirror[n]
  /\ seen' = [seen EXCEPT !.mirror[n] = mirror[n]]
  /\ queued' = TRUE
  /\ UNCHANGED <<worldVars, flow, shown, flowCopies, lease, leaseCopies, timer, pass, gcVars>>

(* nodeToFlows and nodeToLeases.                                           *)
NodeEvent(n) ==
  /\ n \in seen.nodes \ nodes
  /\ seen' = [seen EXCEPT !.nodes = @ \ {n}]
  /\ queued' = (queued \/ (seen.flow.exists /\ seen.flow.locs[n] # "none"))
  /\ gcQueued' = IF seen.lease[n].held THEN gcQueued \cup {n} ELSE gcQueued
  /\ UNCHANGED <<worldVars, flow, shown, flowCopies, lease, leaseCopies, timer, pass, gcTimer, gc>>

-----------------------------------------------------------------------------
(* The agents.                                                             *)

(* What a running agent has to put right for its producer.                 *)
Missing(n) == n \in agent \cap producer /\ ~flow.exists

Unlisted(n) == n \in agent \cap producer /\ flow.exists /\ flow.locs[n] # "Origin"

Ageing(n) ==
  /\ n \in agent \cap producer
  /\ flow.exists /\ flow.locs[n] = "Origin" /\ lease[n].left < Window

(* PublishAppeared creates the flow, writes the location and renews the    *)
(* Lease, in calls of their own.                                           *)
Publish(n) ==
  /\ \/ /\ Missing(n)
        /\ WriteFlow(NewFlow, {})
        /\ UNCHANGED <<lease, leaseCopies>>
     \/ /\ Unlisted(n)
        /\ WriteFlow([flow EXCEPT !.locs[n] = "Origin"], {})
        /\ UNCHANGED <<lease, leaseCopies>>
     \/ /\ Ageing(n)
        /\ WriteLease(n, Renewed)
        /\ UNCHANGED <<flow, shown, flowCopies>>
  /\ UNCHANGED <<worldVars, seen, passVars, gcVars>>

(* What it has to put right once the producer is gone.                     *)
Outlived(n) == n \in agent \ producer /\ flow.exists /\ flow.locs[n] = "Origin"

Unreleased(n) ==
  n \in agent \ producer /\ flow.exists /\ flow.locs[n] # "Origin" /\ lease[n].held

(* markStale demotes the location and releases the Lease.                  *)
Demote(n) ==
  /\ \/ /\ Outlived(n)
        /\ WriteFlow([flow EXCEPT !.locs[n] = "Stale"], {})
        /\ UNCHANGED <<lease, leaseCopies>>
     \/ /\ Unreleased(n)
        /\ WriteLease(n, NoLease)
        /\ UNCHANGED <<flow, shown, flowCopies>>
  /\ UNCHANGED <<worldVars, seen, passVars, gcVars>>

-----------------------------------------------------------------------------
(* The world, and time.                                                    *)

Move == moves < MaxMoves /\ moves' = moves + 1

objects == <<flow, shown, flowCopies, lease, leaseCopies, seen, passVars, gcVars>>

ProducerTurns(n) ==
  /\ Move
  /\ n \in nodes
  /\ producer' = IF n \in producer THEN producer \ {n} ELSE producer \cup {n}
  /\ UNCHANGED <<agent, nodes, mirror, objects>>

(* An agent stops without releasing anything, or starts.                   *)
AgentTurns(n) ==
  /\ Move
  /\ n \in nodes
  /\ agent' = IF n \in agent THEN agent \ {n} ELSE agent \cup {n}
  /\ UNCHANGED <<producer, nodes, mirror, objects>>

(* A node leaves, with what runs on it.                                    *)
NodeLeaves(n) ==
  /\ Move
  /\ n \in nodes
  /\ nodes' = nodes \ {n}
  /\ agent' = agent \ {n}
  /\ producer' = producer \ {n}
  /\ UNCHANGED <<mirror, objects>>

MirrorTurns(n) ==
  /\ Move
  /\ mirror' = [mirror EXCEPT ![n] = CASE @ = "absent" -> "present"
                                      [] @ = "present" -> "deleting"
                                      [] @ = "deleting" -> "absent"]
  /\ UNCHANGED <<producer, agent, nodes, objects>>

Less(x) == IF x > 0 THEN x - 1 ELSE 0

Aged(l) == [n \in Node |-> [l[n] EXCEPT !.left = Less(@)]]

Older(f) == [f EXCEPT !.age = IF f.live # "unset" /\ @ < Grace THEN @ + 1 ELSE @]

(* A tick is a renewal interval, a fraction of the Lease's window and of   *)
(* the grace period.  Within it a running agent does its writes, the       *)
(* watches of the flow and the Leases deliver, and a flow pass that has    *)
(* begun ends; the other watches, the queues and the Lease collector may   *)
(* be any time behind.                                                     *)
Settled(n) ==
  /\ "cache" \in flowCopies \cap leaseCopies[n]
  /\ n \in agent \cap producer
       => flow.exists /\ flow.locs[n] = "Origin" /\ lease[n].left > 1

Tick ==
  /\ pass.pc = "idle"
  /\ \A n \in Node : Settled(n)
  /\ lease' = Aged(lease)
  /\ flow' = Older(flow)
  /\ shown' = IF flow.live = "NoLiveCopy" /\ shown < Grace THEN shown + 1 ELSE shown
  /\ seen' = [seen EXCEPT !.lease = Aged(@), !.flow = Older(@)]
  /\ timer' = Less(timer)
  /\ queued' = (queued \/ timer = 1)
  /\ gcTimer' = [n \in Node |-> Less(gcTimer[n])]
  /\ gcQueued' = gcQueued \cup {n \in Node : gcTimer[n] = 1}
  /\ UNCHANGED <<worldVars, flowCopies, leaseCopies, pass, gc>>

-----------------------------------------------------------------------------

(* Producers may be writing before the agents first look.                  *)
Init ==
  /\ producer \in SUBSET Node
  /\ agent = Node
  /\ nodes = Node
  /\ mirror = [n \in Node |-> "absent"]
  /\ flow = NoFlow
  /\ shown = 0
  /\ flowCopies = {"cache"}
  /\ lease = [n \in Node |-> NoLease]
  /\ leaseCopies = [n \in Node |-> {"cache"}]
  /\ seen = [flow |-> flow, lease |-> lease, mirror |-> mirror, nodes |-> nodes]
  /\ queued = FALSE
  /\ timer = 0
  /\ pass = IdlePass
  /\ gcQueued = {}
  /\ gcTimer = [n \in Node |-> 0]
  /\ gc = IdleGc
  /\ moves = 0

FlowReconcile == StartPass \/ Judge \/ WriteStatus \/ DeleteFlow

LeaseReconcile == (\E n \in Node : StartGc(n)) \/ Orphaned \/ DeleteLease

NodeInformers(n) == LeaseEvent(n) \/ MirrorEvent(n) \/ NodeEvent(n)

Agent(n) == Publish(n) \/ Demote(n)

World(n) == ProducerTurns(n) \/ AgentTurns(n) \/ NodeLeaves(n) \/ MirrorTurns(n)

Next ==
  \/ FlowReconcile
  \/ LeaseReconcile
  \/ FlowEvent
  \/ \E n \in Node : NodeInformers(n) \/ Agent(n) \/ World(n)
  \/ Tick

Spec == Init /\ [][Next]_vars

(* The operator's workers, its informers and the agents run (weak          *)
(* fairness, as the states that do not last; the work queues are served in *)
(* order), and time passes.                                                *)
Fairness ==
  /\ \A pc \in {"judge", "write", "delete"} : []<>(pass.pc # pc)
  /\ []<>~(pass.pc = "idle" /\ queued)
  /\ \A pc \in {"orphan", "delete"} : []<>(gc.pc # pc)
  /\ []<>("cache" \in flowCopies)
  /\ \A n \in Node :
       /\ []<>~(gc.pc = "idle" /\ n \in gcQueued)
       /\ []<>("cache" \in leaseCopies[n])
       /\ []<>(seen.mirror[n] = mirror[n])
       /\ []<>(n \in nodes \/ n \notin seen.nodes)
       /\ []<>~Missing(n) /\ []<>~Unlisted(n) /\ []<>~Ageing(n)
       /\ []<>~Outlived(n) /\ []<>~Unreleased(n)
  /\ WF_vars(Tick)

FairSpec == Spec /\ Fairness

-----------------------------------------------------------------------------
(* Properties.                                                             *)

(* Every variable keeps its type.                                          *)
TypeOK ==
  /\ producer \in SUBSET Node /\ agent \in SUBSET Node /\ nodes \in SUBSET Node
  /\ mirror \in [Node -> {"absent", "present", "deleting"}]
  /\ flow \in Flow
  /\ shown \in 0..Grace
  /\ flowCopies \in SUBSET {"cache", "pass"}
  /\ lease \in [Node -> Lease]
  /\ leaseCopies \in [Node -> SUBSET {"cache", "gc"}]
  /\ seen \in Seen
  /\ queued \in BOOLEAN
  /\ timer \in 0..(Grace + Window)
  /\ pass \in Pass
  /\ gcQueued \in SUBSET Node
  /\ gcTimer \in [Node -> 0..Window]
  /\ gc \in Gc
  /\ moves \in 0..MaxMoves

Collected == flow.exists /\ ~flow'.exists

(* A flow is collected only when the stored object has read Live=False for *)
(* a whole grace period on end, whatever it read before: a flow that comes *)
(* back in between has the full period again.                              *)
GraceIsShown ==
  [][Collected => flow.live = "NoLiveCopy" /\ shown = Grace]_vars

(* The Lease collector never takes a Lease inside its window: a renewal it *)
(* has not seen makes its delete fail.                                     *)
RenewedLeaseKept ==
  [][\A n \in Node : gc.pc = "delete" /\ gc'.pc = "idle" /\ lease[n].left > 0
                       => lease'[n].held]_vars

(* Once nothing writes the flow and no mirror asks for it, the MxlFlow and *)
(* every Lease that names it go, though agents stopped and nodes left      *)
(* without releasing anything.                                             *)
NothingIsLeft ==
  []<>(\/ producer # {}
       \/ \E n \in Node : mirror[n] = "present"
       \/ ~flow.exists /\ \A n \in Node : ~lease[n].held)

(* A node that left the cluster leaves neither a location nor a Lease,     *)
(* whoever else keeps the flow alive.                                      *)
DepartedIsForgotten ==
  \A n \in Node : []<>(n \in nodes \/ (flow.locs[n] = "none" /\ ~lease[n].held))

(* A producer whose agent runs has its flow, and the flow reads live, time *)
(* and again: what is collected or pruned under it comes back.             *)
ProducerKeepsFlow ==
  \A n \in Node :
    []<>(n \in agent \cap producer
           => flow.exists /\ flow.locs[n] = "Origin" /\ flow.live = "OriginLive")

\* What no pass of the flow reconciler, no collection of a Lease and no agent
\* ever breaks: types, the whole grace before a flow is deleted, and Leases
\* inside their window.
FlowsKept == []TypeOK /\ GraceIsShown /\ RenewedLeaseKept

\* What comes about whatever stopped or left: unwanted flows and what departed
\* nodes left behind go, and producers have their flow.
FlowsSettle == NothingIsLeft /\ DepartedIsForgotten /\ ProducerKeepsFlow

=============================================================================
