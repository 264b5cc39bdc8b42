----------------------------- MODULE MCOperator ------------------------------
(***************************************************************************)
(* The operator's other controllers and the agents they work with, for     *)
(* TLC: OutputDemand, Placement, ReaderIntent and           *)
(* DomainNodes.  Each has its environment in its own module and variables  *)
(* of its own here; a behaviour is one of the part it starts in, and the   *)
(* other parts rest in a state in which they have nothing to do.           *)
(***************************************************************************)
EXTENDS DomainNodes, TLC

CONSTANTS a, b, m1, m2, f1, f2, f3, d1, d2

VARIABLES
  part,
  listed, serving, reader, agent, told, useBudget,
  placed, cache, placeOp, written, placeQueue, linked, rate, kept, placeBudget,
  local, mirror, origin, created, waiting, holder, req, alive, made, lost, askBudget

demandV == <<listed, serving, reader, agent, told, useBudget>>
placeV == <<placed, cache, placeOp, written, placeQueue, linked, rate, kept, placeBudget>>
intentV == <<local, mirror, origin, created, waiting, holder, req, alive, made, lost, askBudget>>

-----------------------------------------------------------------------------
Readers == {a}

(* The agent of one node, whose reader starts up to three times.           *)
Demand == INSTANCE OutputDemand WITH
  Node <- Readers, Grace <- 2, MaxUses <- 3, MaxFaults <- 2, MaxWrites <- 2,
  nodes <- listed, up <- serving, budget <- useBudget

DemandRests == Demand!Init /\ serving = {a}

-----------------------------------------------------------------------------
Members == {m1, m2}

(* Two members of a set on two source nodes and a target, each with two    *)
(* ports on two subnets.  The first source's ports share a budget with     *)
(* room for one mirror, and the target has more room on one port, which    *)
(* has a link-local address as well.                                       *)
If(at, port, subnet, capacity) ==
  [node |-> at, port |-> port, subnet |-> subnet, capacity |-> capacity, local |-> FALSE]

Interfaces ==
  ("a1" :> If("a", "pa1", "s1", 0)) @@ ("a2" :> If("a", "pa2", "s2", 0))
  @@ ("b1" :> If("b", "pb1", "s1", 0)) @@ ("b2" :> If("b", "pb2", "s2", 0))
  @@ ("t1" :> If("t", "pt1", "s1", 600)) @@ ("t2" :> If("t", "pt2", "s2", 200))
  @@ ("t0" :> [If("t", "pt1", "", 600) EXCEPT !.local = TRUE])

InterfaceOrder ==
  ("a1" :> 1) @@ ("a2" :> 2) @@ ("b1" :> 1) @@ ("b2" :> 2) @@ ("t0" :> 1) @@ ("t1" :> 2) @@ ("t2" :> 3)
Shares == {[node |-> "a", mode |-> "Egress", capacity |-> 200, over |-> {"a1", "a2"}]}
LateMembers == {m2}
Sources == {"a", "b"}
FlakyLinks == {"a1", "t1"}
FlowRates == {100, 200}

Place == INSTANCE Placement WITH
  Mirror <- Members, Sibling <- Members, Late <- LateMembers, Source <- Sources, Target <- "t",
  Ifs <- Interfaces, Order <- InterfaceOrder, Budgets <- Shares, Flaky <- FlakyLinks, Hold <- TRUE,
  MaxUtilization <- 80, Overhead <- 5, Provisional <- 100, Rates <- FlowRates, MaxChanges <- 1,
  mirror <- placed, op <- placeOp, queue <- placeQueue, up <- linked, budget <- placeBudget

PlaceRests ==
  /\ linked = DOMAIN Interfaces
  /\ placed = [m \in {m1, m2} |-> None] /\ rate = [m \in {m1, m2} |-> 0]
  /\ cache = [m \in {m1, m2} |-> [obj |-> None, latest |-> TRUE]]
  /\ placeOp = Place!Idle /\ written = [m \in {m1, m2} |-> None]
  /\ placeQueue = [ready |-> <<>>, waits |-> [m \in {m1, m2} |-> "off"]]
  /\ kept = [m \in {m1, m2} |-> [least |-> 0, sound |-> FALSE]]
  /\ placeBudget = 0

-----------------------------------------------------------------------------
(* A pod that wants three flows and may have one mirror created per window *)
(* and two in all.                                                         *)
Flows == {f1, f2, f3}
LateFlows == {f1}
FlowsHere == {f3}

Intent == INSTANCE ReaderIntent WITH
  Flow <- Flows, Late <- LateFlows, Here <- FlowsHere,
  Burst <- 1, Window <- 1, PerPod <- 2, Skew <- 0, MaxFaults <- 1, budget <- askBudget

IntentRests == Intent!Init /\ askBudget = 0

-----------------------------------------------------------------------------
(* Two domains, each in the primary directory or in one below domains/.    *)
DomainOrder == <<d1, d2>>
DomainSpecs == {[dir |-> "primary", id |-> "i1"], [dir |-> "domains/i2", id |-> "i2"]}

(* What an earlier domain left in the primary directory matters to a       *)
(* domain there.                                                           *)
DomainsStart ==
  /\ Init
  /\ dom[d1].dir # Primary => disk[Primary].id = None

DomainsRest ==
  /\ dom = [d \in {d1, d2} |-> None] /\ nodes = {}
  /\ seen = [nodes |-> {}, obj |-> dom] /\ latest = [d \in {d1, d2} |-> TRUE]
  /\ op = Idle /\ queue = {} /\ pub = Idle
  /\ disk = [dir \in {"primary", "domains/i2"} |-> [id |-> None, flows |-> FALSE]]
  /\ running = [d \in {d1, d2} |-> None]
  /\ changes = 0 /\ faults = 0

-----------------------------------------------------------------------------
(* What the parts assume of their constants.                               *)
ASSUME MCOperatorAssumption == Demand!OutputDemandAssumption

MCInit ==
  \/ part = "demand" /\ Demand!Init /\ PlaceRests /\ IntentRests /\ DomainsRest
  \/ part = "place" /\ DemandRests /\ Place!Init /\ IntentRests /\ DomainsRest
  \/ part = "intent" /\ DemandRests /\ PlaceRests /\ Intent!Init /\ DomainsRest
  \/ part = "domains" /\ DemandRests /\ PlaceRests /\ IntentRests /\ DomainsStart

MCNext ==
  /\ UNCHANGED part
  /\ \/ part = "demand" /\ Demand!Next /\ UNCHANGED <<placeV, intentV, domainVars>>
     \/ part = "place" /\ Place!Next /\ UNCHANGED <<demandV, intentV, domainVars>>
     \/ part = "intent" /\ Intent!Next /\ UNCHANGED <<demandV, placeV, domainVars>>
     \/ part = "domains" /\ Next /\ UNCHANGED <<demandV, placeV, intentV>>

MCSpec ==
  /\ MCInit /\ [][MCNext]_<<part, demandV, placeV, intentV, domainVars>>
  /\ Demand!Fairness /\ Place!Fairness /\ Intent!Fairness /\ Fairness

-----------------------------------------------------------------------------
(* The properties of the parts.                                           *)


\* OutputDemand: the types hold, and a node whose reader's Want succeeded, for
\* a use less than the grace ago, stays listed: through a leave that was under
\* way, a Release that listed the sets before, updates of others and restarts.
DemandKept == Demand!DemandKept

\* OutputDemand: a reader that goes on asking for the output has its node
\* listed again and again, and a node on which nothing reads it leaves for
\* good.
DemandSettles == Demand!DemandSettles

\* Placement: the types hold; a pair reported as Placed had room next to what
\* was placed by then, however far the cache was behind; mirrors of one set
\* arrive on different ports where the pass saw room for it; and a placement
\* stays while its links and its source do.
PlacementKept == Place!PlacementKept

\* Placement: a mirror for which there stays to be room is placed for good,
\* also when another mirror made the room, and what is reported comes to be
\* true.
PlacementSettles == Place!PlacementSettles

\* ReaderIntent: the types hold, and however a pod's requests interleave it
\* has at most Burst mirrors created on demand within one window of a run of
\* the agent, and never more than PerPod alive, over restarts and lost answers.
LimitsAreKept == Intent!LimitsAreKept

\* ReaderIntent: an open the burst limit refused is not forgotten, and no
\* request goes on asking for ever: its flow gets a mirror or a local origin,
\* unless the process or the agent goes, or the request made again fails for
\* another reason (Trigger.request).
RefusedIsServed == Intent!RefusedIsServed

=============================================================================
