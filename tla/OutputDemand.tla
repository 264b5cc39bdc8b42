---------------------------- MODULE OutputDemand ----------------------------
(***************************************************************************)
(* The nodes a redundancy set's output is wanted on                        *)
(* (agent/internal/redundancy).  The agent of a node adds the node to the  *)
(* set's status.nodes when a reader there waits for the output (Want), and *)
(* takes it out once no process there has used the output for a grace      *)
(* (Release, leave).                                                       *)
(*                                                                         *)
(* An agent updates the status it read and is refused when it was written  *)
(* since: by another agent, or by the operator and the gateways, whose own *)
(* part is RedundancySet and MergeServing.  A reading carries whether it   *)
(* is still current.  A pass is cut at its API calls and locks; time is    *)
(* counted in ticks and kept as ages.  A gateway that is up serves the     *)
(* output on the nodes listed.                                             *)
(***************************************************************************)
EXTENDS Integers, FiniteSetsExt, TLC

CONSTANTS
  Node,         \* the nodes, each with an agent and readers
  Grace,        \* ReleaseGrace, in ticks
  MaxUses,      \* bound: readers started
  MaxFaults,    \* bound: failed calls, restarts of agents and gateways
  MaxWrites,    \* bound: writes of the status by the operator or a gateway
  None

\* What is assumed of the constants.
OutputDemandAssumption ==
  {Grace, MaxUses, MaxFaults, MaxWrites} \subseteq Nat /\ Grace > 0 /\ None \notin Nat

VARIABLES
  nodes,    \* the set's status.nodes
  up,       \* the nodes whose gateway is up
  reader,   \* the reader on a node
  agent,    \* the agent on a node
  told,     \* the ticks since the use for which a reader's Want last succeeded
  budget    \* what is left of the bounds

demandVars == <<nodes, up, reader, agent, told, budget>>

Idle == [pc |-> "idle"]
FreshAgent == [used |-> None, want |-> Idle, release |-> Idle]

\* A set nobody reads; a gateway may be down.
Init ==
  /\ nodes = {}
  /\ up \in SUBSET Node
  /\ reader = [n \in Node |-> "off"]
  /\ agent = [n \in Node |-> FreshAgent]
  /\ told = [n \in Node |-> Grace]
  /\ budget = [uses |-> MaxUses, faults |-> MaxFaults, writes |-> MaxWrites]

Spend(b) == budget[b] > 0 /\ budget' = [budget EXCEPT ![b] = @ - 1]

Age(a) == IF a = None THEN None ELSE Min({a + 1, Grace})

\* A reading of the set's status that a write makes out of date.
Dated(r) == IF "current" \in DOMAIN r THEN [r EXCEPT !.current = FALSE] ELSE r
AllDated(ag) == [n \in Node |-> [ag[n] EXCEPT !.want = Dated(@), !.release = Dated(@)]]

\* A status update of the agent on n with the nodes ns.
Update(ns, ag) == nodes' = ns /\ agent' = AllDated(ag)

----------------------------------------------------------------------------
(* Want.                                                                    *)

\* The output can be opened on n.
Output(n) == n \in nodes /\ n \in up

\* A reader opens the output: it maps it, or its path walk waits and is
\* reported to the agent.  A walk that waited in vain is made again.
ReaderOpens(n) ==
  /\ \/ reader[n] = "off" /\ Spend("uses")
     \/ reader[n] = "walk" /\ UNCHANGED budget
  /\ agent[n].want = Idle
  /\ IF Output(n)
     THEN reader' = [reader EXCEPT ![n] = "maps"] /\ UNCHANGED agent
     ELSE /\ reader' = [reader EXCEPT ![n] = "walk"]
          /\ agent' = [agent EXCEPT ![n].want = [pc |-> "used", age |-> 0]]
  /\ UNCHANGED <<nodes, up, told>>

\* The reader ends.
ReaderEnds(n) ==
  /\ reader[n] # "off" /\ reader' = [reader EXCEPT ![n] = "off"]
  /\ UNCHANGED <<nodes, up, agent, told, budget>>

\* The reader finds the output it maps gone and opens it again.
ReaderLoses(n) ==
  /\ reader[n] = "maps" /\ ~Output(n) /\ reader' = [reader EXCEPT ![n] = "walk"]
  /\ UNCHANGED <<nodes, up, agent, told, budget>>

\* Want finds the set by its output and records the use.
used(n) ==
  /\ agent[n].want.pc = "used"
  /\ agent' = [agent EXCEPT ![n].used = 0, ![n].want = [pc |-> "get", age |-> 0]]
  /\ UNCHANGED <<nodes, up, reader, told, budget>>

\* Want reads the set and is done where the node is listed.
WantGet(n) ==
  /\ agent[n].want.pc = "get"
  /\ agent' = [agent EXCEPT ![n].want =
       IF n \in nodes THEN Idle ELSE [pc |-> "update", age |-> @.age, current |-> TRUE]]
  /\ told' = IF n \in nodes THEN [told EXCEPT ![n] = agent[n].want.age] ELSE told
  /\ UNCHANGED <<nodes, up, reader, budget>>

\* Want adds the node, and reads the set again after a conflict.
WantUpdate(n) ==
  /\ agent[n].want.pc = "update"
  /\ IF agent[n].want.current
     THEN /\ Update(nodes \cup {n}, [agent EXCEPT ![n].want = Idle])
          /\ told' = [told EXCEPT ![n] = agent[n].want.age]
     ELSE /\ agent' = [agent EXCEPT ![n].want = [pc |-> "get", age |-> @.age]]
          /\ UNCHANGED <<nodes, told>>
  /\ UNCHANGED <<up, reader, budget>>

\* A call of Want's fails: it gives up, and the walk it was for waits on.
WantFails(n) ==
  /\ agent[n].want # Idle /\ Spend("faults")
  /\ agent' = [agent EXCEPT ![n].want = Idle]
  /\ UNCHANGED <<nodes, up, reader, told>>

----------------------------------------------------------------------------
(* Release and leave.                                                       *)

\* Release is called.  A pass that finds the node not listed and has nothing
\* to forget changes nothing and is left out.
Releases(n) ==
  agent[n].release = Idle /\ (n \in nodes \/ agent[n].used # None \/ agent[n].want # Idle)

\* Release lists the sets.
ReleaseList(n) ==
  /\ Releases(n)
  /\ agent' = [agent EXCEPT ![n].release = [pc |-> "judge", listed |-> n \in nodes]]
  /\ UNCHANGED <<nodes, up, reader, told, budget>>

\* Whether Release finds the output idle here.
idle(n) == agent[n].release.listed /\ reader[n] # "maps" /\ agent[n].used = Grace

(* Faulty variant: every pass that finds the set listed counts as a use.    *)
LastUsedNow(n) == IF agent[n].release.listed THEN 0 ELSE None

\* What Release records where the output is not idle: a use now, the start
\* of a grace, what it knew, or nothing for a set that does not list the node.
LastUsed(n) ==
  IF ~agent[n].release.listed THEN None
  ELSE IF reader[n] = "maps" \/ agent[n].used = None THEN 0 ELSE agent[n].used

\* Release asks for the flows in use and judges under the lock.
ReleaseJudge(n) ==
  /\ agent[n].release.pc = "judge"
  /\ agent' = IF idle(n) THEN [agent EXCEPT ![n].release = [pc |-> "get"]]
              ELSE [agent EXCEPT ![n].used = LastUsed(n), ![n].release = Idle]
  /\ UNCHANGED <<nodes, up, reader, told, budget>>

\* leave reads the set.
leaveGet(n) ==
  /\ agent[n].release.pc = "get"
  /\ agent' = [agent EXCEPT ![n].release = IF n \in nodes THEN [pc |-> "leave", current |-> TRUE] ELSE Idle]
  /\ UNCHANGED <<nodes, up, reader, told, budget>>

(* Faulty variant: leave does not look at the last use again.               *)
UsedAgainUnseen(n) == FALSE

\* The output was used again within the grace since Release found it idle.
UsedAgain(n) == agent[n].used # None /\ agent[n].used < Grace

\* leave checks the last use and updates the set, holding the lock.  A
\* conflict reads the set again.
leave(n) ==
  /\ agent[n].release.pc = "leave"
  /\ IF UsedAgain(n)
     THEN agent' = [agent EXCEPT ![n].release = Idle] /\ UNCHANGED nodes
     ELSE IF agent[n].release.current THEN Update(nodes \ {n}, [agent EXCEPT ![n].release = Idle])
     ELSE agent' = [agent EXCEPT ![n].release = [pc |-> "get"]] /\ UNCHANGED nodes
  /\ UNCHANGED <<up, reader, told, budget>>

\* A call of Release's fails, or leave gives up; the next Release tries again.
ReleaseFails(n) ==
  /\ agent[n].release # Idle /\ Spend("faults")
  /\ agent' = [agent EXCEPT ![n].release = Idle]
  /\ UNCHANGED <<nodes, up, reader, told>>

----------------------------------------------------------------------------
(* Restarts, other writers and time.                                        *)

\* The agent restarts and forgets what it has seen used.
AgentRestarts(n) ==
  /\ agent[n] # FreshAgent /\ Spend("faults")
  /\ agent' = [agent EXCEPT ![n] = FreshAgent]
  /\ UNCHANGED <<nodes, up, reader, told>>

\* A gateway stops, or comes up.
GatewayStops(n) ==
  /\ n \in up /\ Spend("faults")
  /\ up' = up \ {n}
  /\ UNCHANGED <<nodes, reader, agent, told>>

GatewayStarts(n) ==
  /\ n \notin up /\ up' = up \cup {n}
  /\ UNCHANGED <<nodes, reader, agent, told, budget>>

\* The operator or a gateway writes another part of the status.
OtherWrite ==
  /\ Spend("writes") /\ agent' = AllDated(agent)
  /\ UNCHANGED <<nodes, up, reader, told>>

\* A tick: everything recorded is longer ago.
AgedWant(w) == IF w = Idle THEN w ELSE [w EXCEPT !.age = Age(@)]
AgedAgent(a) == [a EXCEPT !.used = Age(@), !.want = AgedWant(@)]

Tick ==
  /\ agent' = [n \in Node |-> AgedAgent(agent[n])]
  /\ told' = [n \in Node |-> Age(told[n])]
  /\ <<agent', told'>> # <<agent, told>>
  /\ UNCHANGED <<nodes, up, reader, budget>>

Want(n) == used(n) \/ WantGet(n) \/ WantUpdate(n)
Release(n) == ReleaseList(n) \/ ReleaseJudge(n) \/ leaveGet(n) \/ leave(n)

Next ==
  \/ \E n \in Node :
       \/ ReaderOpens(n) \/ ReaderEnds(n) \/ ReaderLoses(n)
       \/ Want(n) \/ WantFails(n) \/ Release(n) \/ ReleaseFails(n)
       \/ AgentRestarts(n) \/ GatewayStops(n) \/ GatewayStarts(n)
  \/ OtherWrite \/ Tick

\* Weak fairness, written as what may not last: a call at work, a Release
\* that is not begun, a gateway that is down, and a walk that failed or an
\* output that went and is not opened again.  Time passes.
Fairness ==
  /\ \A n \in Node :
       /\ \A pc \in {"used", "get", "update"} : []<>(agent[n].want.pc # pc)
       /\ \A pc \in {"judge", "get", "leave"} : []<>(agent[n].release.pc # pc)
       /\ []<>~Releases(n) /\ []<>(n \in up)
       /\ []<>~(reader[n] = "walk" /\ agent[n].want = Idle) /\ []<>~(reader[n] = "maps" /\ ~Output(n))
  /\ WF_demandVars(Tick)

Spec == Init /\ [][Next]_demandVars
FairSpec == Spec /\ Fairness

----------------------------------------------------------------------------
(* Every variable keeps its type.                                          *)
TypeOK ==
  /\ nodes \subseteq Node /\ up \subseteq Node
  /\ reader \in [Node -> {"off", "walk", "maps"}]
  /\ told \in [Node -> 0 .. Grace]
  /\ \A n \in Node :
       /\ agent[n].used \in 0 .. Grace \cup {None}
       /\ agent[n].want.pc \in {"idle", "used", "get", "update"}
       /\ agent[n].release.pc \in {"idle", "judge", "get", "leave"}

\* A node whose reader's Want succeeded, for a use less than the grace ago,
\* stays listed: through a leave that was under way, a Release that listed
\* the sets before the Want, other agents' updates and restarts.
ToldReaderKeepsNode == \A n \in Node : told[n] < Grace => n \in nodes

\* A reader that goes on asking for the output has its node listed again and
\* again, however Want and leave met, where calls fail a bounded number of
\* times: a Want that failed is made up for by the next walk.
AskingReaderIsListed == \A n \in Node : <>[](reader[n] # "off") => []<>(n \in nodes)

\* A node on which nothing reads the output any more leaves the set for good.
UnusedNodeLeaves == \A n \in Node : <>[](reader[n] = "off") => <>[](n \notin nodes)

\* What holds however Want, Release and leave meet: types, and the listing of
\* a node whose reader was told.
DemandKept == TypeOK /\ ToldReaderKeepsNode

\* What Want and Release bring about: nodes with a reader come to be listed,
\* and nodes without one do not stay so.
DemandSettles == AskingReaderIsListed /\ UnusedNodeLeaves

=============================================================================
