------------------------------ MODULE MCFlowSet ------------------------------
(***************************************************************************)
(* FlowLifecycle, the redundancy sets built of such flows (RedundancySet)  *)
(* and two instances of MirrorCollector, for TLC: a mirror whose flow's    *)
(* origin moves (Moves), and one that a pod hands over to another while no *)
(* time passes over an unfinished step (Handovers).  A behaviour is one of *)
(* the part it starts in; the others rest in states in which they have     *)
(* nothing to do.                                                          *)
(***************************************************************************)
EXTENDS FlowLifecycle, TLC

CONSTANTS a, b, n3, t, f1, f2, r1, p1, p2

VARIABLES
  part, set, members, setMirror, node, gateway, setOp, setQueue, setBudget,
  mirror2, cache2, cacheLag2, receivers2, seenReceivers2, pods2, seenPods2,
  nodes2, located2, lease2, unresolved2, reading2, readFor2, sweep2,
  queued2, timer2, pass2, moves2, touches2, claims2,
  mirror3, cache3, cacheLag3, receivers3, seenReceivers3, pods3, seenPods3,
  nodes3, located3, lease3, unresolved3, reading3, readFor3, sweep3,
  queued3, timer3, pass3, moves3, touches3, claims3

setV == <<set, members, setMirror, node, gateway, setOp, setQueue, setBudget>>

moveV ==
  <<mirror2, cache2, cacheLag2, receivers2, seenReceivers2, pods2,
    seenPods2, nodes2, located2, lease2, unresolved2, reading2, readFor2,
    sweep2, queued2, timer2, pass2, moves2, touches2, claims2>>

handoverV ==
  <<mirror3, cache3, cacheLag3, receivers3, seenReceivers3, pods3,
    seenPods3, nodes3, located3, lease3, unresolved3, reading3, readFor3,
    sweep3, queued3, timer3, pass3, moves3, touches3, claims3>>

(* A set of two members, read on one node; their mirrors arrive on ports   *)
(* of their own and leave on one.                                          *)
Nodes == {a, b, n3}
Readers == {a}
Members == {f1, f2}
SharedSourcePort == f1 :> [target |-> 1, source |-> 1] @@ f2 :> [target |-> 2, source |-> 1]

Set == INSTANCE RedundancySet WITH
  Node <- Nodes, Reader <- Readers, Member <- Members, Ports <- SharedSourcePort,
  MaxChanges <- 1, MaxWrites <- 1, MaxFaults <- 1,
  flow <- members, mirror <- setMirror, op <- setOp, queue <- setQueue, budget <- setBudget

SetRests ==
  LET none == [m \in {f1, f2} |-> Set!NoFlow] IN
  /\ members = [members |-> none, taken |-> FALSE]
  /\ setMirror = [n \in {a} |-> [m \in {f1, f2} |-> None]]
  /\ gateway = [n \in {a} |-> "ready"]
  /\ set = [gen |-> 1, observed |-> 1, nodes |-> {}, stalled |-> [n \in {a} |-> {}],
            valid |-> "MemberMissing", ready |-> Set!membersReady(none, [n \in {a} |-> {}]),
            served |-> Set!outputReady({}), paths |-> Set!pathsDisjoint({})]
  /\ node = {a, b, n3} /\ setOp = Set!Idle
  /\ setQueue = [set |-> FALSE, timer |-> None]
  /\ setBudget = [changes |-> 0, writes |-> 0, faults |-> 0]

(* The flow's node has left, and nothing names the flow any more.          *)
FlowRests ==
  /\ producer = {} /\ agent = {} /\ nodes = {} /\ mirror = [n \in {a} |-> "absent"]
  /\ flow = NoFlow /\ shown = 0 /\ flowCopies = {"cache"}
  /\ lease = [n \in {a} |-> NoLease] /\ leaseCopies = [n \in {a} |-> {"cache"}]
  /\ seen = [flow |-> flow, lease |-> lease, mirror |-> mirror, nodes |-> nodes]
  /\ queued = FALSE /\ timer = 0 /\ pass = IdlePass
  /\ gcQueued = {} /\ gcTimer = [n \in {a} |-> 0] /\ gc = IdleGc /\ moves = 0

-----------------------------------------------------------------------------
(* The mirror's nodes: the target and those that can hold the origin.      *)
TwoNodes == {t, a}
ThreeNodes == {t, a, b}

OneReceiver == {r1}
TwoPods == {p1, p2}
Leaver == {a}

(* The origin moves from a, which may leave, to another node than the      *)
(* target.                                                                 *)
Moves == INSTANCE MirrorCollector WITH
  Node <- ThreeNodes, Target <- t, Receiver <- OneReceiver, Pod <- {}, Handover <- 1,
  Leases <- FALSE, LeaseWindow <- 1, Departing <- Leaver, Prompt <- FALSE,
  MaxMoves <- 1, MaxTouches <- 0, MaxClaims <- 1,
  mirror <- mirror2, cache <- cache2, cacheLag <- cacheLag2,
  receivers <- receivers2, seenReceivers <- seenReceivers2, pods <- pods2,
  seenPods <- seenPods2, nodes <- nodes2, located <- located2,
  lease <- lease2, unresolved <- unresolved2, reading <- reading2,
  readFor <- readFor2, sweep <- sweep2, queued <- queued2, timer <- timer2,
  pass <- pass2, moves <- moves2, touches <- touches2, claims <- claims2

(* Two pods read one after the other, and the agent's sweeps are prompt.   *)
Handovers == INSTANCE MirrorCollector WITH
  Node <- TwoNodes, Target <- t, Receiver <- {}, Pod <- TwoPods, Handover <- 3,
  Leases <- FALSE, LeaseWindow <- 1, Departing <- {}, Prompt <- TRUE,
  MaxMoves <- 0, MaxTouches <- 0, MaxClaims <- 2,
  mirror <- mirror3, cache <- cache3, cacheLag <- cacheLag3,
  receivers <- receivers3, seenReceivers <- seenReceivers3, pods <- pods3,
  seenPods <- seenPods3, nodes <- nodes3, located <- located3,
  lease <- lease3, unresolved <- unresolved3, reading <- reading3,
  readFor <- readFor3, sweep <- sweep3, queued <- queued3, timer <- timer3,
  pass <- pass3, moves <- moves3, touches <- touches3, claims <- claims3

MovesRest ==
  /\ mirror2 = Moves!NoMirror /\ cache2 = Moves!NoMirror /\ cacheLag2 = "current"
  /\ receivers2 = [r \in {r1} |-> "new"] /\ seenReceivers2 = receivers2
  /\ pods2 = [q \in {} |-> "new"] /\ seenPods2 = pods2
  /\ nodes2 = {t, a, b} /\ located2 = {} /\ lease2 = [n \in {t, a, b} |-> 0]
  /\ unresolved2 = 1 /\ reading2 = {} /\ readFor2 = [q \in {} |-> 0]
  /\ sweep2 = Moves!SweepDue /\ queued2 = FALSE /\ timer2 = 0 /\ pass2 = Moves!IdlePass
  /\ moves2 = 0 /\ touches2 = 0 /\ claims2 = 0

HandoversRest ==
  /\ mirror3 = Handovers!NoMirror /\ cache3 = Handovers!NoMirror /\ cacheLag3 = "current"
  /\ receivers3 = [r \in {} |-> "new"] /\ seenReceivers3 = receivers3
  /\ pods3 = [q \in {p1, p2} |-> "new"] /\ seenPods3 = pods3
  /\ nodes3 = {t, a} /\ located3 = {} /\ lease3 = [n \in {t, a} |-> 0]
  /\ unresolved3 = 1 /\ reading3 = {} /\ readFor3 = [q \in {p1, p2} |-> 0]
  /\ sweep3 = Handovers!SweepDue /\ queued3 = FALSE /\ timer3 = 0 /\ pass3 = Handovers!IdlePass
  /\ moves3 = 0 /\ touches3 = 0 /\ claims3 = 0

-----------------------------------------------------------------------------
(* What the parts assume of their constants.                               *)
ASSUME MCFlowSetAssumption == Set!RedundancySetAssumption

MirrorsRest == MovesRest /\ HandoversRest

MCInit ==
  \/ part = "flow" /\ Init /\ SetRests /\ MirrorsRest
  \/ part = "set" /\ FlowRests /\ Set!Init /\ MirrorsRest
  \/ part = "moves" /\ FlowRests /\ SetRests /\ Moves!Init /\ located2 = {a} /\ HandoversRest
  \/ part = "handovers" /\ FlowRests /\ SetRests /\ MovesRest /\ Handovers!Init

MCNext ==
  /\ UNCHANGED part
  /\ \/ part = "flow" /\ Next /\ UNCHANGED <<setV, moveV, handoverV>>
     \/ part = "set" /\ Set!Next /\ UNCHANGED <<vars, moveV, handoverV>>
     \/ part = "moves" /\ Moves!Next /\ UNCHANGED <<vars, setV, handoverV>>
     \/ part = "handovers" /\ Handovers!Next /\ UNCHANGED <<vars, setV, moveV>>

MCSpec ==
  /\ MCInit /\ [][MCNext]_<<part, vars, setV, moveV, handoverV>>
  /\ Fairness /\ Set!Fairness
  /\ Moves!StepsGoOn /\ WF_moveV(part = "moves" /\ Moves!Tick)

-----------------------------------------------------------------------------
(* The properties of the parts.                                           *)


\* RedundancySet: the types hold; a set that was valid at its generation stays
\* valid however its members come, go or change, unless a flow was published
\* for the output; and a status update of the operator takes out no node that
\* exists, whatever agents wrote while its pass ran.
SetKept == Set!SetKept

\* RedundancySet: every member produced elsewhere comes to be mirrored to
\* every node that stays listed; nodes that are gone are no longer listed and
\* have no stalled members; the conditions come to say what is the case.
SetSettles == Set!SetSettles

(* ReaderKeepsMirror where the agent's sweeps and the passes are prompt: a *)
(* pod reading for two sweeps keeps the mirror its predecessor asked for.  *)
ReaderKeepsMirrorInTime == Handovers!ReaderKeepsMirror

(* SourceFollowsOrigin where the origin moves: the mirror does not keep    *)
(* naming another node than the flow's one fresh Origin.                   *)
SourceFollowsMoves == Moves!SourceFollowsOrigin

=============================================================================
