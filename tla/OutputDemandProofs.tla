------------------------- MODULE OutputDemandProofs -------------------------
(***************************************************************************)
(* Proofs about OutputDemand, for any nodes, any grace and any number of   *)
(* readers, failed calls, restarts and writes by others.                   *)
(*                                                                         *)
(* ToldReaderKeepsNode says nothing about the last use an agent keeps in   *)
(* memory, which is what its leave goes by.  The inductive invariant says  *)
(* that this use is never older than the use a reader was told of, nor     *)
(* than the use a Want under way is for, and that a leave under way still  *)
(* has one to look at.                                                     *)
(***************************************************************************)
EXTENDS OutputDemand, TLAPS

\* What the agent on a node is made of.
Wants ==
  {Idle} \cup [pc : {"used", "get"}, age : 0 .. Grace]
         \cup [pc : {"update"}, age : 0 .. Grace, current : BOOLEAN]
Leaves ==
  {Idle} \cup [pc : {"judge"}, listed : BOOLEAN] \cup [pc : {"get"}]
         \cup [pc : {"leave"}, current : BOOLEAN]
Agent == [used : 0 .. Grace \cup {None}, want : Wants, release : Leaves]

\* A use known to an agent as u is at least as recent as one t ticks ago.
AsRecent(u, t) == u = None \/ u <= t

\* The agent a remembers the use a reader was told of t ticks ago and the use
\* its Want is for, or has forgotten everything; its leave has a use to check.
Remembers(a, t) ==
  /\ t < Grace => AsRecent(a.used, t)
  /\ a.want.pc \in {"get", "update"} => AsRecent(a.used, a.want.age)
  /\ a.release.pc \in {"get", "leave"} => a.used # None

Inv ==
  /\ nodes \subseteq Node /\ up \subseteq Node
  /\ reader \in [Node -> {"off", "walk", "maps"}]
  /\ told \in [Node -> 0 .. Grace]
  /\ agent \in [Node -> Agent]
  /\ ToldReaderKeepsNode
  /\ \A n \in Node : Remembers(agent[n], told[n])

----------------------------------------------------------------------------
(* The operators.                                                          *)

\* Age counts up to the grace and leaves what was never used.
LEMMA AgeCounts ==
  ASSUME OutputDemandAssumption, NEW a \in 0 .. Grace
  PROVE  Age(a) = (IF a + 1 <= Grace THEN a + 1 ELSE Grace) /\ Age(a) \in 0 .. Grace
<1>1. a # None /\ a \in Nat /\ Grace \in Nat
  BY DEF OutputDemandAssumption
<1>2. Age(a) = Min({a + 1, Grace})
  BY <1>1 DEF Age
<1>3. \A x \in {a + 1, Grace} :
        (\A y \in {a + 1, Grace} : x <= y) => x = (IF a + 1 <= Grace THEN a + 1 ELSE Grace)
  BY <1>1
<1>4. \E x \in {a + 1, Grace} : \A y \in {a + 1, Grace} : x <= y
  BY <1>1
<1>5. Min({a + 1, Grace}) = (IF a + 1 <= Grace THEN a + 1 ELSE Grace)
  BY <1>3, <1>4 DEF Min
<1> QED
  BY <1>1, <1>2, <1>5

\* A reading a write made out of date is still a reading at the same call for
\* the same use.
LEMMA DatedWant ==
  ASSUME NEW w \in Wants
  PROVE  /\ Dated(w) \in Wants /\ Dated(w).pc = w.pc
         /\ w.pc # "idle" => Dated(w).age = w.age
<1>1. CASE w = Idle
  BY <1>1 DEF Idle, Dated, Wants
<1>2. CASE w \in [pc : {"used", "get"}, age : 0 .. Grace]
  BY <1>2 DEF Dated, Wants
<1>3. CASE w \in [pc : {"update"}, age : 0 .. Grace, current : BOOLEAN]
  BY <1>3 DEF Dated, Wants
<1> QED
  BY <1>1, <1>2, <1>3 DEF Wants

LEMMA DatedRelease ==
  ASSUME NEW r \in Leaves
  PROVE  Dated(r) \in Leaves /\ Dated(r).pc = r.pc
<1>1. CASE r = Idle
  BY <1>1 DEF Idle, Dated, Leaves
<1>2. CASE r \in [pc : {"judge"}, listed : BOOLEAN]
  BY <1>2 DEF Dated, Leaves
<1>3. CASE r \in [pc : {"get"}]
  BY <1>3 DEF Dated, Leaves
<1>4. CASE r \in [pc : {"leave"}, current : BOOLEAN]
  BY <1>4 DEF Dated, Leaves
<1> QED
  BY <1>1, <1>2, <1>3, <1>4 DEF Leaves

\* A write of the status takes no memory from any agent.
LEMMA DatedAgents ==
  ASSUME NEW ag \in [Node -> Agent]
  PROVE  /\ AllDated(ag) \in [Node -> Agent]
         /\ \A m \in Node, t \in 0 .. Grace :
              Remembers(ag[m], t) => Remembers(AllDated(ag)[m], t)
<1>1. ASSUME NEW m \in Node
      PROVE  /\ AllDated(ag)[m] \in Agent
             /\ AllDated(ag)[m].used = ag[m].used
             /\ AllDated(ag)[m].want = Dated(ag[m].want)
             /\ AllDated(ag)[m].release = Dated(ag[m].release)
  <2>1. ag[m] \in Agent
    OBVIOUS
  <2>2. Dated(ag[m].want) \in Wants /\ Dated(ag[m].release) \in Leaves
    BY <2>1, DatedWant, DatedRelease DEF Agent
  <2> QED
    BY <2>1, <2>2 DEF AllDated, Agent
<1>2. ASSUME NEW m \in Node, NEW t \in 0 .. Grace, Remembers(ag[m], t)
      PROVE  Remembers(AllDated(ag)[m], t)
  <2>1. ag[m].want \in Wants /\ ag[m].release \in Leaves
    BY DEF Agent
  <2> QED
    BY <1>1, <1>2, <2>1, DatedWant, DatedRelease DEF Remembers
<1>3. AllDated(ag) = [m \in Node |-> AllDated(ag)[m]]
  BY DEF AllDated
<1> QED
  BY <1>1, <1>2, <1>3

\* An agent with another call in hand is an agent, and the rest of it stays.
LEMMA WithWant ==
  ASSUME NEW a \in Agent, NEW w \in Wants
  PROVE  LET b == [a EXCEPT !.want = w]
         IN  b \in Agent /\ b.used = a.used /\ b.want = w /\ b.release = a.release
BY DEF Agent

LEMMA WithRelease ==
  ASSUME NEW a \in Agent, NEW r \in Leaves
  PROVE  LET b == [a EXCEPT !.release = r]
         IN  b \in Agent /\ b.used = a.used /\ b.want = a.want /\ b.release = r
BY DEF Agent

LEMMA WithUsed ==
  ASSUME NEW a \in Agent, NEW u \in 0 .. Grace \cup {None}
  PROVE  LET b == [a EXCEPT !.used = u]
         IN  b \in Agent /\ b.used = u /\ b.want = a.want /\ b.release = a.release
BY DEF Agent

\* What the calls of a pass may be.
LEMMA CallTypes ==
  /\ Idle \in Wants /\ Idle \in Leaves /\ Idle.pc = "idle"
  /\ [pc |-> "get"] \in Leaves
  /\ \A b \in BOOLEAN : [pc |-> "judge", listed |-> b] \in Leaves
  /\ \A b \in BOOLEAN : [pc |-> "leave", current |-> b] \in Leaves
  /\ \A g \in 0 .. Grace :
       /\ [pc |-> "used", age |-> g] \in Wants
       /\ [pc |-> "get", age |-> g] \in Wants
       /\ [pc |-> "update", age |-> g, current |-> TRUE] \in Wants
BY DEF Idle, Wants, Leaves

\* The use a Want at work is for.
LEMMA WantAges ==
  ASSUME NEW w \in Wants, w.pc # "idle"
  PROVE  w.age \in 0 .. Grace
BY DEF Wants, Idle

----------------------------------------------------------------------------
(* Steps.                                                                  *)

\* A step that changes one agent and what its reader was told.
LEMMA OneAgent ==
  ASSUME Inv, NEW n \in Node, NEW a \in Agent, NEW t \in 0 .. Grace,
         agent' = [agent EXCEPT ![n] = a], told' = [told EXCEPT ![n] = t],
         nodes' = nodes, up' \subseteq Node,
         reader' \in [Node -> {"off", "walk", "maps"}],
         t < Grace => n \in nodes, Remembers(a, t)
  PROVE  Inv'
<1>1. agent' \in [Node -> Agent] /\ told' \in [Node -> 0 .. Grace] /\ nodes' \subseteq Node
  BY DEF Inv
<1>2. ASSUME NEW m \in Node
      PROVE  (told'[m] < Grace => m \in nodes') /\ Remembers(agent'[m], told'[m])
  <2>1. CASE m = n
    BY <2>1 DEF Inv
  <2>2. CASE m # n
    BY <2>2 DEF Inv, ToldReaderKeepsNode
  <2> QED
    BY <2>1, <2>2
<1> QED
  BY <1>1, <1>2 DEF Inv, ToldReaderKeepsNode

\* A step that changes no agent and nothing a reader was told.
LEMMA NoAgent ==
  ASSUME Inv, UNCHANGED <<agent, told, nodes>>, up' \subseteq Node,
         reader' \in [Node -> {"off", "walk", "maps"}]
  PROVE  Inv'
BY DEF Inv, ToldReaderKeepsNode

\* A write of the status that lists ns and leaves the agents ag.
LEMMA Written ==
  ASSUME Inv, NEW ag \in [Node -> Agent], agent' = AllDated(ag),
         nodes' \subseteq Node, told' \in [Node -> 0 .. Grace],
         UNCHANGED <<up, reader>>,
         \A m \in Node : (told'[m] < Grace => m \in nodes') /\ Remembers(ag[m], told'[m])
  PROVE  Inv'
<1>1. agent' \in [Node -> Agent]
  BY DatedAgents
<1>2. \A m \in Node : Remembers(agent'[m], told'[m])
  BY DatedAgents
<1> QED
  BY <1>1, <1>2 DEF Inv, ToldReaderKeepsNode

\* What Inv says of one node.
LEMMA OfNode ==
  ASSUME Inv, NEW n \in Node
  PROVE  /\ agent[n] \in Agent /\ told[n] \in 0 .. Grace
         /\ agent[n].want \in Wants /\ agent[n].release \in Leaves
         /\ agent[n].used \in 0 .. Grace \cup {None}
         /\ told[n] < Grace => n \in nodes
         /\ Remembers(agent[n], told[n])
         /\ told = [told EXCEPT ![n] = told[n]]
BY DEF Inv, ToldReaderKeepsNode, Agent

LEMMA ReaderKeeps ==
  ASSUME OutputDemandAssumption, Inv, NEW n \in Node,
         ReaderOpens(n) \/ ReaderEnds(n) \/ ReaderLoses(n) \/ GatewayStops(n) \/ GatewayStarts(n)
  PROVE  Inv'
<1>1. reader' \in [Node -> {"off", "walk", "maps"}] /\ up' \subseteq Node
  BY DEF Inv, ReaderOpens, ReaderEnds, ReaderLoses, GatewayStops, GatewayStarts
<1>2. CASE UNCHANGED <<agent, told, nodes>>
  BY <1>1, <1>2, NoAgent
<1>3. CASE /\ agent' = [agent EXCEPT ![n].want = [pc |-> "used", age |-> 0]]
           /\ UNCHANGED <<nodes, told>>
  <2> DEFINE w == [pc |-> "used", age |-> 0]
             b == [agent[n] EXCEPT !.want = w]
  <2>1. w \in Wants /\ w.pc = "used"
    <3>1. 0 \in 0 .. Grace
      BY DEF OutputDemandAssumption
    <3> QED
      BY <3>1, CallTypes
  <2>2. b \in Agent /\ b.used = agent[n].used /\ b.want = w /\ b.release = agent[n].release
    BY <2>1, WithWant, OfNode
  <2>3. agent' = [agent EXCEPT ![n] = b]
    BY <1>3
  <2>4. Remembers(b, told[n])
    <3> HIDE DEF b, w
    <3> QED
      BY <2>1, <2>2, OfNode DEF Remembers
  <2> HIDE DEF b
  <2> QED
    BY <1>1, <1>3, <2>2, <2>3, <2>4, OfNode, OneAgent
<1> QED
  BY <1>2, <1>3 DEF ReaderOpens, ReaderEnds, ReaderLoses, GatewayStops, GatewayStarts

\* A step of n's agent that only puts another call of Want in hand.
LEMMA WantStep ==
  ASSUME Inv, NEW n \in Node, NEW w \in Wants, NEW t \in 0 .. Grace,
         agent' = [agent EXCEPT ![n].want = w], told' = [told EXCEPT ![n] = t],
         UNCHANGED <<nodes, up, reader>>,
         t < Grace => n \in nodes /\ AsRecent(agent[n].used, t),
         w.pc \in {"get", "update"} => AsRecent(agent[n].used, w.age)
  PROVE  Inv'
<1> DEFINE b == [agent[n] EXCEPT !.want = w]
<1>1. b \in Agent /\ b.used = agent[n].used /\ b.want = w /\ b.release = agent[n].release
  BY WithWant, OfNode
<1>2. agent' = [agent EXCEPT ![n] = b]
  OBVIOUS
<1>3. reader' \in [Node -> {"off", "walk", "maps"}] /\ up' \subseteq Node
  BY DEF Inv
<1> HIDE DEF b
<1>4. Remembers(b, t)
  BY <1>1, OfNode DEF Remembers
<1> QED
  BY <1>1, <1>2, <1>3, <1>4, OneAgent

\* A step of n's agent that only puts another call of Release in hand.
LEMMA ReleaseStep ==
  ASSUME Inv, NEW n \in Node, NEW r \in Leaves,
         agent' = [agent EXCEPT ![n].release = r],
         UNCHANGED <<nodes, up, reader, told>>,
         r.pc \in {"get", "leave"} => agent[n].used # None
  PROVE  Inv'
<1> DEFINE b == [agent[n] EXCEPT !.release = r]
<1>1. b \in Agent /\ b.used = agent[n].used /\ b.want = agent[n].want /\ b.release = r
  BY WithRelease, OfNode
<1>2. agent' = [agent EXCEPT ![n] = b]
  OBVIOUS
<1>3. reader' \in [Node -> {"off", "walk", "maps"}] /\ up' \subseteq Node
  BY DEF Inv
<1> HIDE DEF b
<1>4. Remembers(b, told[n])
  BY <1>1, OfNode DEF Remembers
<1> QED
  BY <1>1, <1>2, <1>3, <1>4, OfNode, OneAgent

\* Want records the use before it reads the set.
LEMMA UsedKeeps ==
  ASSUME OutputDemandAssumption, Inv, NEW n \in Node, used(n)
  PROVE  Inv'
<1> DEFINE w == [pc |-> "get", age |-> 0]
           a == [agent[n] EXCEPT !.used = 0]
           b == [a EXCEPT !.want = w]
<1>1. 0 \in 0 .. Grace
  BY DEF OutputDemandAssumption
<1>2. w \in Wants /\ w.pc = "get" /\ w.age = 0
  BY <1>1, CallTypes
<1>3. a \in Agent /\ a.used = 0 /\ a.want = agent[n].want /\ a.release = agent[n].release
  BY <1>1, WithUsed, OfNode
<1>4. agent' = [agent EXCEPT ![n] = b] /\ UNCHANGED <<nodes, up, reader, told>>
  BY DEF used
<1> HIDE DEF a, w
<1>5. b \in Agent /\ b.used = 0 /\ b.want = w /\ b.release = agent[n].release
  BY <1>2, <1>3, WithWant
<1>6. reader' \in [Node -> {"off", "walk", "maps"}] /\ up' \subseteq Node
  BY <1>4 DEF Inv
<1> HIDE DEF b
<1>7. 0 # None /\ \A t \in 0 .. Grace : 0 <= t
  BY <1>1 DEF OutputDemandAssumption
<1>8. Remembers(b, told[n])
  BY <1>1, <1>2, <1>5, <1>7, OfNode DEF Remembers, AsRecent
<1> QED
  BY <1>4, <1>5, <1>6, <1>8, OfNode, OneAgent

\* Want tells its reader of a listed node only what the agent remembers.
LEMMA WantGetKeeps ==
  ASSUME Inv, NEW n \in Node, WantGet(n)
  PROVE  Inv'
<1> DEFINE g == agent[n].want.age
<1>1. g \in 0 .. Grace /\ AsRecent(agent[n].used, g)
  BY OfNode, WantAges DEF WantGet, Remembers
<1>2. UNCHANGED <<nodes, up, reader>>
  BY DEF WantGet
<1>3. CASE n \in nodes
  <2>1. agent' = [agent EXCEPT ![n].want = Idle] /\ told' = [told EXCEPT ![n] = g]
    BY <1>3 DEF WantGet
  <2> QED
    BY <1>1, <1>2, <1>3, <2>1, CallTypes, WantStep
<1>4. CASE n \notin nodes
  <2> DEFINE w == [pc |-> "update", age |-> g, current |-> TRUE]
  <2>1. agent' = [agent EXCEPT ![n].want = w] /\ told' = told
    BY <1>4 DEF WantGet
  <2>2. w \in Wants /\ w.age = g
    BY <1>1, CallTypes
  <2> HIDE DEF w
  <2> QED
    BY <1>1, <1>2, <1>4, <2>1, <2>2, OfNode, WantStep DEF Remembers
<1> QED
  BY <1>3, <1>4

\* A Want that adds the node tells its reader only what the agent remembers.
LEMMA WantUpdateKeeps ==
  ASSUME Inv, NEW n \in Node, WantUpdate(n)
  PROVE  Inv'
<1> DEFINE g == agent[n].want.age
<1>1. g \in 0 .. Grace /\ AsRecent(agent[n].used, g)
  BY OfNode, WantAges DEF WantUpdate, Remembers
<1>2. UNCHANGED <<up, reader>>
  BY DEF WantUpdate
<1>3. CASE agent[n].want.current
  <2> DEFINE b == [agent[n] EXCEPT !.want = Idle]
             ag == [agent EXCEPT ![n] = b]
  <2>1. /\ nodes' = nodes \cup {n} /\ agent' = AllDated(ag)
        /\ told' = [told EXCEPT ![n] = g]
    BY <1>3 DEF WantUpdate, Update
  <2>2. b \in Agent /\ b.used = agent[n].used /\ b.want = Idle /\ b.release = agent[n].release
    BY CallTypes, WithWant, OfNode
  <2> HIDE DEF b
  <2>3. Remembers(b, g)
    BY <1>1, <2>2, CallTypes, OfNode DEF Remembers
  <2>4. ag \in [Node -> Agent] /\ told' \in [Node -> 0 .. Grace] /\ nodes' \subseteq Node
    BY <1>1, <2>1, <2>2 DEF Inv
  <2>5. \A m \in Node : (told'[m] < Grace => m \in nodes') /\ Remembers(ag[m], told'[m])
    BY <2>1, <2>3, OfNode DEF Inv
  <2> HIDE DEF ag
  <2> QED
    BY <1>2, <2>1, <2>4, <2>5, Written
<1>4. CASE ~agent[n].want.current
  <2> DEFINE w == [pc |-> "get", age |-> g]
  <2>1. agent' = [agent EXCEPT ![n].want = w] /\ told' = told /\ nodes' = nodes
    BY <1>4 DEF WantUpdate
  <2>2. w \in Wants /\ w.age = g
    BY <1>1, CallTypes
  <2> HIDE DEF w
  <2> QED
    BY <1>1, <1>2, <2>1, <2>2, OfNode, WantStep DEF Remembers
<1> QED
  BY <1>3, <1>4

\* Release judges: it goes on only over a use that is a grace old, and what it
\* records otherwise is no older than what it knew.
LEMMA ReleaseJudgeKeeps ==
  ASSUME OutputDemandAssumption, Inv, NEW n \in Node, ReleaseJudge(n)
  PROVE  Inv'
<1>1. UNCHANGED <<nodes, up, reader, told>>
  BY DEF ReleaseJudge
<1>2. CASE idle(n)
  <2>1. agent' = [agent EXCEPT ![n].release = [pc |-> "get"]]
    BY <1>2 DEF ReleaseJudge
  <2>2. agent[n].used # None
    BY <1>2 DEF idle, OutputDemandAssumption
  <2> QED
    BY <1>1, <2>1, <2>2, CallTypes, ReleaseStep
<1>3. CASE ~idle(n)
  <2> DEFINE a == [agent[n] EXCEPT !.used = LastUsed(n)]
             b == [a EXCEPT !.release = Idle]
  <2>1. 0 \in 0 .. Grace /\ \A t \in 0 .. Grace : 0 <= t
    BY DEF OutputDemandAssumption
  <2>2. /\ LastUsed(n) \in 0 .. Grace \cup {None}
        /\ \A t \in 0 .. Grace : AsRecent(agent[n].used, t) => AsRecent(LastUsed(n), t)
    BY <2>1, OfNode DEF LastUsed, AsRecent
  <2>3. /\ a \in Agent /\ a.used = LastUsed(n)
        /\ a.want = agent[n].want /\ a.release = agent[n].release
    BY <2>2, WithUsed, OfNode
  <2>4. agent' = [agent EXCEPT ![n] = b]
    BY <1>3 DEF ReleaseJudge
  <2> HIDE DEF a
  <2>5. b \in Agent /\ b.used = LastUsed(n) /\ b.want = agent[n].want /\ b.release = Idle
    BY <2>3, CallTypes, WithRelease
  <2> HIDE DEF b
  <2>6. agent[n].want.pc # "idle" => agent[n].want.age \in 0 .. Grace
    BY OfNode, WantAges
  <2>7. Remembers(b, told[n])
    BY <2>2, <2>5, <2>6, CallTypes, OfNode DEF Remembers
  <2>8. reader' \in [Node -> {"off", "walk", "maps"}] /\ up' \subseteq Node
    BY <1>1 DEF Inv
  <2> QED
    BY <1>1, <2>4, <2>5, <2>7, <2>8, OfNode, OneAgent
<1> QED
  BY <1>2, <1>3

\* leave takes the node out only when the use it remembers is a grace old, and
\* with it everything a reader was told.
LEMMA leaveKeeps ==
  ASSUME OutputDemandAssumption, Inv, NEW n \in Node, leave(n)
  PROVE  Inv'
<1>1. UNCHANGED <<up, reader, told>> /\ agent[n].release.pc = "leave"
  BY DEF leave
<1>2. agent[n].used # None
  BY <1>1, OfNode DEF Remembers
<1>3. CASE UsedAgain(n)
  BY <1>1, <1>3, CallTypes, ReleaseStep DEF leave
<1>4. CASE ~UsedAgain(n) /\ agent[n].release.current
  <2> DEFINE b == [agent[n] EXCEPT !.release = Idle]
             ag == [agent EXCEPT ![n] = b]
  <2>1. nodes' = nodes \ {n} /\ agent' = AllDated(ag)
    BY <1>4 DEF leave, Update
  <2>2. ~(told[n] < Grace)
    <3>1. agent[n].used \in 0 .. Grace /\ ~(agent[n].used < Grace) /\ Grace \in Nat
      BY <1>2, <1>4, OfNode DEF UsedAgain, OutputDemandAssumption
    <3>2. told[n] < Grace => agent[n].used <= told[n]
      BY <1>2, OfNode DEF Remembers, AsRecent
    <3> QED
      BY <3>1, <3>2, OfNode
  <2>3. b \in Agent /\ b.used = agent[n].used /\ b.want = agent[n].want /\ b.release = Idle
    BY CallTypes, WithRelease, OfNode
  <2> HIDE DEF b
  <2>4. Remembers(b, told[n])
    BY <2>3, CallTypes, OfNode DEF Remembers
  <2>5. ag \in [Node -> Agent] /\ told' \in [Node -> 0 .. Grace] /\ nodes' \subseteq Node
    BY <1>1, <2>1, <2>3 DEF Inv
  <2>6. \A m \in Node : (told'[m] < Grace => m \in nodes') /\ Remembers(ag[m], told'[m])
    BY <1>1, <2>1, <2>2, <2>4, OfNode DEF Inv
  <2> HIDE DEF ag
  <2> QED
    BY <1>1, <2>1, <2>5, <2>6, Written
<1>5. CASE ~UsedAgain(n) /\ ~agent[n].release.current
  BY <1>1, <1>2, <1>5, CallTypes, ReleaseStep DEF leave
<1> QED
  BY <1>3, <1>4, <1>5

\* The other steps of Want and Release.
LEMMA CallsKeep ==
  ASSUME Inv, NEW n \in Node,
         ReleaseList(n) \/ leaveGet(n) \/ WantFails(n) \/ ReleaseFails(n)
  PROVE  Inv'
<1>1. CASE ReleaseList(n)
  <2> DEFINE r == [pc |-> "judge", listed |-> n \in nodes]
  <2>1. (n \in nodes) \in BOOLEAN
    OBVIOUS
  <2>2. r \in Leaves /\ r.pc = "judge"
    BY <2>1, CallTypes
  <2>3. agent' = [agent EXCEPT ![n].release = r] /\ UNCHANGED <<nodes, up, reader, told>>
    BY <1>1 DEF ReleaseList
  <2> HIDE DEF r
  <2> QED
    BY <2>2, <2>3, ReleaseStep
<1>2. CASE leaveGet(n)
  <2> DEFINE r == IF n \in nodes THEN [pc |-> "leave", current |-> TRUE] ELSE Idle
  <2>1. r \in Leaves
    BY CallTypes
  <2>2. agent' = [agent EXCEPT ![n].release = r] /\ UNCHANGED <<nodes, up, reader, told>>
    BY <1>2 DEF leaveGet
  <2>3. agent[n].used # None
    BY <1>2, OfNode DEF leaveGet, Remembers
  <2> HIDE DEF r
  <2> QED
    BY <2>1, <2>2, <2>3, ReleaseStep
<1>3. CASE WantFails(n)
  BY <1>3, CallTypes, OfNode, WantStep DEF WantFails, Remembers
<1>4. CASE ReleaseFails(n)
  BY <1>4, CallTypes, ReleaseStep DEF ReleaseFails
<1> QED
  BY <1>1, <1>2, <1>3, <1>4

\* An agent that restarts forgets every use, and with it every leave.
LEMMA AgentRestartsKeeps ==
  ASSUME Inv, NEW n \in Node, AgentRestarts(n)
  PROVE  Inv'
<1>1. FreshAgent \in Agent
  BY CallTypes DEF FreshAgent, Agent
<1>2. FreshAgent.used = None /\ FreshAgent.want = Idle /\ FreshAgent.release = Idle
  BY DEF FreshAgent
<1>3. Remembers(FreshAgent, told[n])
  BY <1>2, CallTypes DEF Remembers, AsRecent
<1>4. reader' \in [Node -> {"off", "walk", "maps"}] /\ up' \subseteq Node
  BY DEF AgentRestarts, Inv
<1> QED
  BY <1>1, <1>3, <1>4, OfNode, OneAgent DEF AgentRestarts

LEMMA OtherWriteKeeps ==
  ASSUME Inv, OtherWrite
  PROVE  Inv'
BY Written DEF OtherWrite, Inv, ToldReaderKeepsNode

\* Time passes for the use an agent remembers and for the one its reader was
\* told of alike.
LEMMA TickKeeps ==
  ASSUME OutputDemandAssumption, Inv, Tick
  PROVE  Inv'
<1>1. \A g \in 0 .. Grace : Age(g) \in 0 .. Grace /\ (Age(g) < Grace => g < Grace)
  BY AgeCounts DEF OutputDemandAssumption
<1>2. Age(None) = None
  BY DEF Age
<1>3. \A u \in 0 .. Grace \cup {None}, t \in 0 .. Grace :
        /\ Age(u) \in 0 .. Grace \cup {None} /\ (u # None => Age(u) # None)
        /\ AsRecent(u, t) => AsRecent(Age(u), Age(t))
  <2> SUFFICES ASSUME NEW u \in 0 .. Grace \cup {None}, NEW t \in 0 .. Grace
               PROVE  /\ Age(u) \in 0 .. Grace \cup {None} /\ (u # None => Age(u) # None)
                      /\ AsRecent(u, t) => AsRecent(Age(u), Age(t))
    OBVIOUS
  <2>1. CASE u = None
    BY <1>2, <2>1 DEF AsRecent
  <2>2. CASE u # None
    <3>1. u \in 0 .. Grace /\ None \notin 0 .. Grace /\ Grace \in Nat
      BY <2>2 DEF OutputDemandAssumption
    <3>2. /\ Age(u) = (IF u + 1 <= Grace THEN u + 1 ELSE Grace) /\ Age(u) \in 0 .. Grace
          /\ Age(t) = (IF t + 1 <= Grace THEN t + 1 ELSE Grace)
      BY <3>1, AgeCounts
    <3>3. u <= t => Age(u) <= Age(t)
      BY <3>1, <3>2
    <3> QED
      BY <2>2, <3>1, <3>2, <3>3 DEF AsRecent
  <2> QED
    BY <2>1, <2>2
<1>4. ASSUME NEW w \in Wants
      PROVE  AgedWant(w) \in Wants /\ AgedWant(w).pc = w.pc /\ (w.pc # "idle" => AgedWant(w).age = Age(w.age))
  <2>1. CASE w = Idle
    BY <2>1, CallTypes DEF AgedWant
  <2>2. CASE w \in [pc : {"used", "get"}, age : 0 .. Grace]
    <3>1. Age(w.age) \in 0 .. Grace /\ w # Idle
      BY <1>1, <2>2 DEF Idle
    <3> QED
      BY <2>2, <3>1 DEF Wants, AgedWant
  <2>3. CASE w \in [pc : {"update"}, age : 0 .. Grace, current : BOOLEAN]
    <3>1. Age(w.age) \in 0 .. Grace /\ w # Idle
      BY <1>1, <2>3 DEF Idle
    <3> QED
      BY <2>3, <3>1 DEF Wants, AgedWant
  <2> QED
    BY <2>1, <2>2, <2>3 DEF Wants
<1>5. ASSUME NEW a \in Agent
      PROVE  /\ AgedAgent(a) \in Agent /\ AgedAgent(a).used = Age(a.used)
             /\ AgedAgent(a).want = AgedWant(a.want) /\ AgedAgent(a).release = a.release
  <2>1. Age(a.used) \in 0 .. Grace \cup {None} /\ AgedWant(a.want) \in Wants
    <3>1. 0 \in 0 .. Grace
      BY DEF OutputDemandAssumption
    <3> QED
      BY <1>3, <1>4, <3>1 DEF Agent
  <2> QED
    BY <2>1 DEF Agent, AgedAgent
<1>6. agent' = [n \in Node |-> AgedAgent(agent[n])] /\ told' = [n \in Node |-> Age(told[n])]
  BY DEF Tick
<1>7. UNCHANGED <<nodes, up, reader>>
  BY DEF Tick
<1>8. agent' \in [Node -> Agent] /\ told' \in [Node -> 0 .. Grace]
  BY <1>1, <1>5, <1>6 DEF Inv
<1>9. ASSUME NEW n \in Node
      PROVE  (told'[n] < Grace => n \in nodes') /\ Remembers(agent'[n], told'[n])
  <2>1. /\ agent'[n].used = Age(agent[n].used) /\ agent'[n].want = AgedWant(agent[n].want)
        /\ agent'[n].release = agent[n].release /\ told'[n] = Age(told[n])
    BY <1>5, <1>6, OfNode
  <2>2. told'[n] < Grace => told[n] < Grace
    BY <1>1, <2>1, OfNode
  <2>3. /\ agent'[n].want.pc = agent[n].want.pc
        /\ agent[n].want.pc # "idle" =>
             agent[n].want.age \in 0 .. Grace /\ agent'[n].want.age = Age(agent[n].want.age)
    BY <1>4, <2>1, OfNode, WantAges
  <2> QED
    BY <1>3, <1>7, <2>1, <2>2, <2>3, OfNode DEF Remembers
<1> QED
  BY <1>7, <1>8, <1>9 DEF Inv, ToldReaderKeepsNode

----------------------------------------------------------------------------
(* The theorem.                                                            *)

LEMMA InitInv ==
  ASSUME OutputDemandAssumption, Init
  PROVE  Inv
<1>1. Grace \in 0 .. Grace /\ ~(Grace < Grace)
  BY DEF OutputDemandAssumption
<1>2. FreshAgent \in Agent
  BY CallTypes DEF FreshAgent, Agent
<1>3. FreshAgent.used = None /\ FreshAgent.want = Idle /\ FreshAgent.release = Idle
  BY DEF FreshAgent
<1>4. Remembers(FreshAgent, Grace)
  BY <1>3, CallTypes DEF Remembers, AsRecent
<1> QED
  BY <1>1, <1>2, <1>4 DEF Init, Inv, ToldReaderKeepsNode

LEMMA NextInv ==
  ASSUME OutputDemandAssumption, Inv, [Next]_demandVars
  PROVE  Inv'
<1>1. CASE UNCHANGED demandVars
  BY <1>1, NoAgent DEF demandVars, Inv
<1>2. ASSUME NEW n \in Node,
             \/ ReaderOpens(n) \/ ReaderEnds(n) \/ ReaderLoses(n)
             \/ Want(n) \/ WantFails(n) \/ Release(n) \/ ReleaseFails(n)
             \/ AgentRestarts(n) \/ GatewayStops(n) \/ GatewayStarts(n)
      PROVE  Inv'
  BY <1>2, ReaderKeeps, UsedKeeps, WantGetKeeps, WantUpdateKeeps, ReleaseJudgeKeeps,
     leaveKeeps, CallsKeep, AgentRestartsKeeps DEF Want, Release
<1> QED
  BY <1>1, <1>2, OtherWriteKeeps, TickKeeps DEF Next

\* The invariant holds of every behaviour.
LEMMA Invariance ==
  ASSUME OutputDemandAssumption
  PROVE  Spec => []Inv
BY InitInv, NextInv, PTL DEF Spec

\* A node whose reader's Want succeeded, for a use less than the grace ago,
\* stays in status.nodes, and every variable keeps its type: whatever leave
\* was under way, on whatever list of sets Release judged, through updates of
\* other agents, failed calls and restarts (agent/internal/redundancy).
THEOREM ToldReaderIsKept ==
  ASSUME OutputDemandAssumption
  PROVE  Spec => []DemandKept
<1>1. Inv => DemandKept
  <2>1. ASSUME Inv, NEW n \in Node
        PROVE  /\ agent[n].used \in 0 .. Grace \cup {None}
               /\ agent[n].want.pc \in {"idle", "used", "get", "update"}
               /\ agent[n].release.pc \in {"idle", "judge", "get", "leave"}
    BY <2>1, OfNode DEF Wants, Leaves, Idle
  <2> QED
    BY <2>1 DEF Inv, DemandKept, TypeOK
<1> QED
  BY <1>1, Invariance, PTL

=============================================================================
