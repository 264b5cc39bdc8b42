--------------------------- MODULE RedundancySet ----------------------------
(***************************************************************************)
(* The operator's reconciler of redundancy sets                            *)
(* (operator/internal/redundancyset): it drops nodes that are gone,        *)
(* validates the set, reports on its members, outputs and paths in         *)
(* conditions and mirrors every member to every listed node.               *)
(*                                                                         *)
(* A pass reads from the cache, creates and patches mirrors, and updates   *)
(* the status it read, which is refused when someone wrote it since: the   *)
(* agents, which list their nodes (OutputDemand), or the gateways, which   *)
(* report members that stand still (MergeServing).  Mirrors are collected  *)
(* and placed by controllers of their own.  What an event wakes is what    *)
(* SetupWithManager watches.                                               *)
(***************************************************************************)
EXTENDS Integers, FiniteSetsExt

CONSTANTS
  Node,         \* all nodes, on which members may be produced
  Reader,       \* the nodes where the output may be wanted
  Member,       \* the members of the set
  Ports,        \* the target and source port placement gives a member's mirror
  MaxChanges,   \* bound: changes to what the set depends on
  MaxWrites,    \* bound: writes of the status by agents and gateways
  MaxFaults,    \* bound: passes that fail
  None

\* What is assumed of the constants.
RedundancySetAssumption ==
  /\ Reader \subseteq Node /\ Node # Reader /\ Member # {}
  /\ {MaxChanges, MaxWrites, MaxFaults} \subseteq Nat

VARIABLES
  set,      \* the MxlFlowRedundancySet
  flow,     \* the members' MxlFlows, and whether one is published for the output
  mirror,   \* the member mirrors, by reader node and member
  node,     \* the nodes that exist
  gateway,  \* the gateway pod of a reader node
  op,       \* the operator's pass
  queue,    \* the operator's workqueue: the set is queued; its delayed requeue
  budget    \* what is left of the bounds

setVars == <<set, flow, mirror, node, gateway, op, queue, budget>>

NoFlow == [def |-> None, origin |-> None]
Idle == [pc |-> "idle"]

Spend(b) == budget[b] > 0 /\ budget' = [budget EXCEPT ![b] = @ - 1]
Wake == queue' = [queue EXCEPT !.set = TRUE]

\* Someone else writes the set: a status update the pass would make is
\* refused, and the set's own event wakes the operator.
OtherWrite(s) ==
  /\ s # set
  /\ set' = s
  /\ op' = IF op = Idle \/ ~op.current THEN op
           ELSE [op EXCEPT !.current = FALSE, !.new = [changed |-> op.new # set, paths |-> set.paths]]
  /\ Wake

----------------------------------------------------------------------------
(* What a pass computes.                                                    *)

Defs(f) == {f[m].def : m \in Member} \ {None, "unreadable"}

\* disagreement: the readable definitions differ.
disagreement(f) == Cardinality(Defs(f)) > 1

\* validate: the members are checked until they first agree at a generation.
validate(f) ==
  IF flow.taken THEN "OutputIsAFlow"
  ELSE IF set.valid = "MembersAligned" /\ set.observed = set.gen THEN "MembersAligned"
  ELSE IF disagreement(f) \/ \E m \in Member : f[m].def = "unreadable" THEN "Misaligned"
  ELSE IF Defs(f) = {} THEN "MemberMissing" ELSE "MembersAligned"

\* membersReady, with the members each listed node has seen stalled.
membersReady(f, stalled) ==
  IF \E m \in Member : f[m].def # "unreadable" /\ f[m].origin = None THEN "MemberMissing"
  ELSE IF disagreement(f) \/ \E m \in Member : f[m].def = "unreadable" THEN "Misaligned"
  ELSE IF \E n \in Reader : stalled[n] # {} THEN "MemberStalled" ELSE "MembersReady"

\* outputReady: a gateway is up, and has been for gatewaySettle, everywhere.
outputReady(nodes) == \A n \in nodes : gateway[n] = "ready"

settling(nodes) == \E n \in nodes : gateway[n] = "fresh"

\* stalledOn: the entries of the nodes still in the set.
stalledOn(nodes) == [n \in Reader |-> IF n \in nodes THEN set.stalled[n] ELSE {}]

\* existingNodes: the listed nodes that are in the cluster.
existingNodes == set.nodes \cap node

\* pathsDisjoint, over the member mirrors that are not terminating.
pathsDisjoint(nodes) ==
  LET here(n) == {m \in Member : mirror[n][m] # None /\ ~mirror[n][m].going}
      pairs(n) == {p \in here(n) \X here(n) : p[1] # p[2] /\ mirror[n][p[1]].placed /\ mirror[n][p[2]].placed}
  IN  IF \E n \in nodes : \E p \in pairs(n) : Ports[p[1]].target = Ports[p[2]].target
      THEN "SharedTargetInterface"
      ELSE IF \E n \in nodes : \E p \in pairs(n) :
                /\ mirror[n][p[1]].source = mirror[n][p[2]].source
                /\ Ports[p[1]].source = Ports[p[2]].source
      THEN "SharedSourceInterface"
      ELSE IF \E n \in nodes : \E m \in here(n) : ~mirror[n][m].placed THEN "Unplaced" ELSE "Disjoint"

(* Faulty variant: an existing mirror is left as it is.                     *)
ensureMirrorOnce(n, m, source) ==
  IF mirror[n][m] = None THEN [source |-> source, placed |-> FALSE, going |-> FALSE] ELSE mirror[n][m]

\* What ensureMirror leaves for one member and node: it creates the mirror
\* or points the existing one, terminating or not, at the source.
ensureMirror(n, m, source) ==
  IF mirror[n][m] = None THEN [source |-> source, placed |-> FALSE, going |-> FALSE]
  ELSE [mirror[n][m] EXCEPT !.source = source]

----------------------------------------------------------------------------
(* The pass.                                                                *)

\* Reconcile reads the set, its members and the gateways from the cache.
Reconcile ==
  /\ op = Idle /\ queue.set
  /\ LET nodes == existingNodes
         stalled == stalledOn(nodes)
         f == flow.members
         valid == validate(f)
         ready == membersReady(f, stalled)
         new == [set EXCEPT !.observed = set.gen, !.nodes = nodes, !.stalled = stalled, !.valid = valid,
                            !.ready = ready, !.served = outputReady(nodes)]
     IN  op' = [pc |-> "mirrors", current |-> TRUE, new |-> new, nodes |-> nodes,
                origin |-> [m \in Member |-> IF valid = "MembersAligned" THEN f[m].origin ELSE None],
                after |-> IF settling(nodes) THEN "settle" ELSE IF ready # "MembersReady" THEN "long" ELSE None]
  /\ queue' = [queue EXCEPT !.set = FALSE]
  /\ UNCHANGED <<set, flow, mirror, node, gateway, budget>>

\* ensureMirrors, for every member with an origin and every node but that.
ensureMirrors ==
  /\ op.pc = "mirrors"
  /\ mirror' = [n \in Reader |-> [m \in Member |->
       IF n \in op.nodes /\ op.origin[m] \notin {None, n} THEN ensureMirror(n, m, op.origin[m]) ELSE mirror[n][m]]]
  /\ op' = [op EXCEPT !.pc = "status", !.origin = [m \in Member |-> None]]
  /\ UNCHANGED <<set, flow, node, gateway, queue, budget>>

(* Faulty variant: the status is written over what others wrote.            *)
UpdateStatusOver ==
  LET timer == IF op.after = None THEN queue.timer ELSE op.after IN
  /\ op.pc = "status"
  /\ op' = Idle
  /\ LET s == [(IF op.current THEN op.new ELSE [set EXCEPT !.nodes = op.nodes])
                EXCEPT !.paths = pathsDisjoint(op.nodes)] IN
     set' = s /\ queue' = [set |-> queue.set \/ s # set, timer |-> timer]
  /\ UNCHANGED <<flow, mirror, node, gateway, budget>>

\* Reconcile ends: the status is written where it changed from what was
\* read, a conflict runs the pass again, and the next requeue is set.
UpdateStatus ==
  LET paths == pathsDisjoint(op.nodes)
      timer == IF op.after = None THEN queue.timer ELSE op.after
  IN
  /\ op.pc = "status"
  /\ op' = Idle
  /\ IF op.current
     THEN LET s == [op.new EXCEPT !.paths = paths] IN
          set' = s /\ queue' = [set |-> queue.set \/ s # set, timer |-> timer]
     ELSE /\ queue' = IF op.new.changed \/ op.new.paths # paths THEN [queue EXCEPT !.set = TRUE]
                      ELSE [queue EXCEPT !.timer = timer]
          /\ UNCHANGED set
  /\ UNCHANGED <<flow, mirror, node, gateway, budget>>

\* A call of the pass fails; the set is queued again.
ReconcileFails ==
  /\ op # Idle /\ Spend("faults")
  /\ op' = Idle /\ Wake
  /\ UNCHANGED <<set, flow, mirror, node, gateway>>

\* The delayed requeue is due: after ten seconds, or once gateways settled.
Due ==
  /\ queue.timer # None
  /\ queue.timer = "settle" => ~\E n \in set.nodes : gateway[n] = "fresh"

Timer ==
  /\ Due
  /\ queue' = [set |-> TRUE, timer |-> None]
  /\ UNCHANGED <<set, flow, mirror, node, gateway, op, budget>>

----------------------------------------------------------------------------
(* What the set depends on.                                                 *)

\* An agent lists its node or takes it out.
NodesChange ==
  /\ Spend("writes")
  /\ \E n \in Reader \cap node :
       OtherWrite([set EXCEPT !.nodes = IF n \in @ THEN @ \ {n} ELSE @ \cup {n}])
  /\ UNCHANGED <<flow, mirror, node, gateway>>

\* A gateway applies its entry of the members that stand still, whatever was
\* written since it read the set.
GatewayReports ==
  /\ Spend("writes")
  /\ \E n \in Reader, ms \in SUBSET Member :
       gateway[n] # "down" /\ OtherWrite([set EXCEPT !.stalled[n] = ms])
  /\ UNCHANGED <<flow, mirror, node, gateway>>

\* The set's spec is edited.
SpecEdited ==
  /\ Spend("changes") /\ set.gen = 1 /\ OtherWrite([set EXCEPT !.gen = 2])
  /\ UNCHANGED <<flow, mirror, node, gateway>>

\* A member's MxlFlow goes, comes, or has another definition or origin.
FlowChanges(m) ==
  /\ Spend("changes")
  /\ \E f \in {NoFlow} \cup [def : {"hd", "sd", "unreadable"}, origin : node \cup {None}] :
       /\ f # flow.members[m]
       /\ f = NoFlow \/ flow.members[m] = NoFlow
            \/ f.def = flow.members[m].def \/ f.origin = flow.members[m].origin
       /\ flow' = [flow EXCEPT !.members[m] = f]
  /\ Wake
  /\ UNCHANGED <<set, mirror, node, gateway, op>>

\* The origin's agent stamps the copies it sees at every rescan, which the
\* set's watch on MxlFlows passes on.
FlowRefreshed(m) ==
  /\ flow.members[m].origin # None
  /\ Wake
  /\ UNCHANGED <<set, flow, mirror, node, gateway, op, budget>>

\* An MxlFlow is published for the output, or collected.
OutputTaken ==
  /\ Spend("changes")
  /\ flow' = [flow EXCEPT !.taken = ~@]
  /\ Wake
  /\ UNCHANGED <<set, mirror, node, gateway, op>>

\* setsOn: an event of a node or its gateway wakes the sets that list it.
setsOn(n) == n \in set.nodes

\* A gateway pod stops, or becomes Ready.
GatewayChanges(n) ==
  /\ n \in node
  /\ \/ gateway[n] = "down" /\ gateway' = [gateway EXCEPT ![n] = "fresh"] /\ UNCHANGED budget
     \/ gateway[n] # "down" /\ Spend("changes") /\ gateway' = [gateway EXCEPT ![n] = "down"]
  /\ queue' = [queue EXCEPT !.set = @ \/ setsOn(n)]
  /\ UNCHANGED <<set, flow, mirror, node, op>>

\* A gateway has been Ready for gatewaySettle; no event says so.
GatewaySettles(n) ==
  /\ gateway[n] = "fresh" /\ gateway' = [gateway EXCEPT ![n] = "ready"]
  /\ UNCHANGED <<set, flow, mirror, node, op, queue, budget>>

\* A node leaves the cluster with what runs there.
NodeDeleted(n) ==
  /\ n \in node /\ Spend("changes")
  /\ node' = node \ {n}
  /\ gateway' = [r \in Reader |-> IF r = n THEN "down" ELSE gateway[r]]
  /\ flow' = [flow EXCEPT !.members =
       [m \in Member |-> IF @[m].origin = n THEN [@[m] EXCEPT !.origin = None] ELSE @[m]]]
  /\ queue' = [queue EXCEPT !.set = @ \/ setsOn(n) \/ \E m \in Member : flow.members[m].origin = n]
  /\ UNCHANGED <<set, mirror, op>>

\* The mirror controller collects a member mirror without a source, onto a
\* node that is not listed, or onto the node that produces the member.
MirrorCollected(n, m) ==
  /\ mirror[n][m] # None
  /\ ~mirror[n][m].going
  /\ n \notin set.nodes \/ flow.members[m].origin \in {None, n}
  /\ mirror' = [mirror EXCEPT ![n][m].going = TRUE]
  /\ UNCHANGED <<set, flow, node, gateway, op, queue, budget>>

\* A mirror's finalizer is done, or placement has placed it.  The set is not
\* woken: Owns follows controller references, and ensureMirror sets none.
MirrorGone(n, m) ==
  /\ mirror[n][m] # None
  /\ mirror[n][m].going
  /\ mirror' = [mirror EXCEPT ![n][m] = None]
  /\ UNCHANGED <<set, flow, node, gateway, op, queue, budget>>

MirrorPlaced(n, m) ==
  /\ mirror[n][m] # None
  /\ ~mirror[n][m].placed /\ ~mirror[n][m].going
  /\ mirror' = [mirror EXCEPT ![n][m].placed = TRUE]
  /\ UNCHANGED <<set, flow, node, gateway, op, queue, budget>>

\* A set the operator has seen: read, with its members produced, or not read
\* yet and a member still missing.
Init ==
  /\ \E read \in BOOLEAN, at \in Node \ Reader :
     LET up == IF read THEN Member ELSE {CHOOSE m \in Member : TRUE}
         f == [m \in Member |-> IF m \in up THEN [def |-> "hd", origin |-> at] ELSE NoFlow]
         nodes == IF read THEN Reader ELSE {}
     IN
       /\ flow = [members |-> f, taken |-> FALSE]
       /\ mirror = [n \in Reader |-> [m \in Member |->
            IF read THEN [source |-> at, placed |-> TRUE, going |-> FALSE] ELSE None]]
       /\ gateway = [n \in Reader |-> "ready"]
       /\ set = [gen |-> 1, observed |-> 1, nodes |-> nodes, stalled |-> [n \in Reader |-> {}],
                 valid |-> "MembersAligned", ready |-> membersReady(f, [n \in Reader |-> {}]),
                 served |-> TRUE, paths |-> pathsDisjoint(nodes)]
  /\ node = Node
  /\ op = Idle
  /\ queue = [set |-> FALSE, timer |-> IF set.ready = "MembersReady" THEN None ELSE "long"]
  /\ budget \in [changes : {MaxChanges}, writes : 0 .. MaxWrites, faults : 0 .. MaxFaults]

Operator == Reconcile \/ ensureMirrors \/ UpdateStatus

Next ==
  \/ Operator \/ ReconcileFails \/ Timer
  \/ NodesChange \/ GatewayReports \/ SpecEdited \/ OutputTaken
  \/ \E m \in Member : FlowChanges(m) \/ FlowRefreshed(m)
  \/ \E n \in Node : NodeDeleted(n)
  \/ \E n \in Reader : GatewayChanges(n) \/ GatewaySettles(n)
  \/ \E n \in Reader, m \in Member : MirrorCollected(n, m) \/ MirrorGone(n, m) \/ MirrorPlaced(n, m)

\* Weak fairness, written as what may not last: a pass at work, a queued set
\* nobody takes up, a delayed requeue that is due, origins that do not rescan
\* (which would queue the set), a gateway that does not come up or settle,
\* and a mirror that is not placed or, on its way out, does not go.
Fairness ==
  /\ []<>(op = Idle) /\ []<>~(op = Idle /\ queue.set) /\ []<>~Due
  /\ []<>(queue.set \/ \A m \in Member : flow.members[m].origin = None)
  /\ \A n \in Reader :
       /\ []<>~(n \in node /\ gateway[n] = "down") /\ []<>(gateway[n] # "fresh")
       /\ \A m \in Member : []<>(IF mirror[n][m] = None THEN TRUE ELSE mirror[n][m].placed /\ ~mirror[n][m].going)

Spec == Init /\ [][Next]_setVars
FairSpec == Spec /\ Fairness

----------------------------------------------------------------------------
(* Every variable keeps its type.                                          *)
TypeOK ==
  /\ set.nodes \subseteq Reader /\ set.observed \in 0 .. set.gen
  /\ set.stalled \in [Reader -> SUBSET Member] /\ set.served \in BOOLEAN
  /\ set.valid \in {"OutputIsAFlow", "Misaligned", "MemberMissing", "MembersAligned"}
  /\ set.ready \in {"MemberMissing", "Misaligned", "MemberStalled", "MembersReady"}
  /\ set.paths \in {"SharedTargetInterface", "SharedSourceInterface", "Unplaced", "Disjoint"}
  /\ gateway \in [Reader -> {"down", "fresh", "ready"}]
  /\ queue \in [set : BOOLEAN, timer : {None, "long", "settle"}]
  /\ \A n \in Reader, m \in Member : mirror[n][m] # None => mirror[n][m].source \in Node \ {n}

\* A set that was valid at its generation stays valid however its members
\* come, go or change their definitions, unless an MxlFlow was published for
\* the output: the readers of the output keep it.
ValidStaysValid ==
  [][(set.valid = "MembersAligned" /\ set.observed = set.gen /\ set'.gen = set.gen)
       => set'.valid \in {"MembersAligned", "OutputIsAFlow"}]_setVars

\* A status update of the operator takes out no node that exists, whatever
\* agents wrote while its pass ran.
PassKeepsNodes == [][op # Idle /\ op' = Idle => set.nodes \cap node \subseteq set'.nodes]_setVars

\* A node that is gone is no longer listed, and a node that is not listed has
\* no entry of stalled members, for good.
GoneNodeIsDropped ==
  \A n \in Reader :
    /\ <>[](n \in set.nodes => n \in node)
    /\ <>[](n \notin set.nodes => set.stalled[n] = {})

\* Every member produced elsewhere comes to be mirrored from its origin to
\* every node that stays listed, through moves of its producer and mirrors
\* that were collected meanwhile.
MembersAreMirrored ==
  \A n \in Reader, m \in Member :
    <>[](n \in set.nodes /\ set.valid = "MembersAligned" /\ flow.members[m].origin \notin {None, n})
      => <>[](mirror[n][m] # None /\ mirror[n][m].source = flow.members[m].origin)

\* The conditions come to say what is the case, for good, once nothing
\* changes any more: about the generation, the members, the gateways, and the
\* paths while some member has a producer.
ConditionsBecomeTrue ==
  /\ <>[](/\ set.ready = membersReady(flow.members, set.stalled)
          /\ set.served = outputReady(set.nodes)
          /\ set.observed = set.gen)
  /\ <>[](set.paths = pathsDisjoint(set.nodes))

\* What no pass over the set breaks: types, a verdict its readers rely on, and
\* the nodes agents added meanwhile.
SetKept == []TypeOK /\ ValidStaysValid /\ PassKeepsNodes

\* What the passes over the set bring about: mirrors of its members, no trace
\* of nodes that are gone, and true conditions.
SetSettles == MembersAreMirrored /\ GoneNodeIsDropped /\ ConditionsBecomeTrue

=============================================================================
