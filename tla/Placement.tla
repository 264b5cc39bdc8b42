------------------------------ MODULE Placement -----------------------------
(***************************************************************************)
(* The operator's placement controller (operator/internal/placement): it   *)
(* gives every mirror a pair of fabric interfaces, one on its source node  *)
(* and one on its target node, that has room for its flow.                 *)
(*                                                                         *)
(* One worker decides for one mirror at a time, from a cache that may be   *)
(* behind what the worker itself wrote; it remembers its own placements    *)
(* until the cache shows them.  The placement is patched with an           *)
(* optimistic lock and the Placed condition is applied after it.  A pass   *)
(* is cut at these two writes.  Meanwhile mirrors come, go and are given   *)
(* another source, flows publish their rates, links fail and return, and   *)
(* gateways write the mirror's status.                                     *)
(***************************************************************************)
EXTENDS Integers, Sequences, FiniteSetsExt, SequencesExt

CONSTANTS
  Mirror,       \* the names of the mirrors
  Late,         \* the mirrors that may come, or whose flows may publish, late
  Sibling,      \* the mirrors whose flows are members of one redundancy set
  Source,       \* the nodes a mirror may be fed from
  Target,       \* the node a mirror feeds
  Ifs,          \* the interfaces: node, port, subnet, capacity, link-local or not
  Order,        \* an interface's place in the order of the addresses
  Budgets,      \* what interfaces share: node, mode, capacity and interfaces
  Hold,         \* the overcommit policy is hold
  MaxUtilization, Overhead, Provisional,   \* the settings
  Flaky,        \* the interfaces whose links may fail
  Rates,        \* the rates a flow may publish
  MaxChanges,   \* bound: changes to mirrors, links and flows, status writes of
                \* gateways, failed calls and restarts of the operator
  None

VARIABLES
  mirror,   \* the MxlFlowMirrors, or None
  cache,    \* the operator's cache of them, and whether it shows the latest
  op,       \* the worker
  written,  \* the placements the worker wrote and still trusts
  queue,    \* the workqueue: the mirrors that are due, or will be with time, and
            \* those waiting for a flow's rate or done waiting
  up,       \* the interfaces whose link is up
  rate,     \* the rate a mirror's flow has published
  kept,     \* of a mirror's placement: the least it was charged since, and
            \* whether its links and its source have stayed
  budget    \* what is left of the bound

placeVars == <<mirror, cache, op, written, queue, up, rate, kept, budget>>

Idle == [pc |-> "idle"]

Spend == budget > 0 /\ budget' = budget - 1

\* The mirrors ms join the workqueue, where they are not in it.
Queued(ready, ms) == ready \o SetToSeq(ms \ ToSet(ready))
Wake(ms) == queue' = [queue EXCEPT !.ready = Queued(@, ms)]

\* The API server takes a write to m: what the cache shows, and what a pass
\* under way has read of m, is not the latest any more.
Write(m, o) ==
  /\ mirror' = [mirror EXCEPT ![m] = o]
  /\ cache' = [cache EXCEPT ![m].latest = FALSE]

Outdated(m) == IF op.pc = "commit" /\ op.m = m THEN [op EXCEPT !.latest = FALSE] ELSE op

----------------------------------------------------------------------------
(* The planner.                                                             *)

\* Node.port: the port of an interface, or its address on a foreign node.
port(n, i) == IF Ifs[i].node = n THEN Ifs[i].port ELSE i

\* Node.Interfaces: those whose link is not down.
Interfaces(n) == {i \in up : Ifs[i].node = n}

\* routable: without the link-local addresses, when any other remains.
routable(is) == IF \A i \in is : Ifs[i].local THEN is ELSE {i \in is : ~Ifs[i].local}

plannable(capacity) ==
  IF MaxUtilization \in 1 .. 99 THEN (capacity \div 100) * MaxUtilization ELSE capacity

Demand(bits) == IF bits = 0 THEN Provisional ELSE bits + (bits \div 100) * Overhead

\* Ledger: what the placed mirrors l charge a port, and a budget.
egress(l, n, p) == {m \in Mirror : l[m] # None /\ l[m].src = n /\ port(n, l[m].place[1]) = p}
ingress(l, n, p) == {m \in Mirror : l[m] # None /\ Target = n /\ port(n, l[m].place[2]) = p}
budgetEgress(l, b) == {m \in Mirror : l[m] # None /\ l[m].src = b.node /\ l[m].place[1] \in b.over}
budgetIngress(l, b) == {m \in Mirror : l[m] # None /\ Target = b.node /\ l[m].place[2] \in b.over}
bits(l, ms) == MapThenSumSet(LAMBDA m : l[m].demand, ms)

Unlimited == 1000000

\* Ledger.score's headroom: what is left on the tightest of the two ports and
\* the budgets they draw on, where a capacity is known.
Headroom(l, src, p, demand) ==
  LET out == {b \in Budgets : b.node = src /\ p[1] \in b.over /\ b.mode \in {"Egress", "Combined"}}
      in == {b \in Budgets : b.node = Target /\ p[2] \in b.over /\ b.mode \in {"Ingress", "Combined"}}
      used(b, side) == IF b.mode = "Combined" THEN bits(l, budgetEgress(l, b)) + bits(l, budgetIngress(l, b))
                       ELSE bits(l, side)
      rooms == {<<Ifs[p[1]].capacity, bits(l, egress(l, src, Ifs[p[1]].port))>>,
                <<Ifs[p[2]].capacity, bits(l, ingress(l, Target, Ifs[p[2]].port))>>}
               \cup {<<b.capacity, used(b, budgetEgress(l, b))>> : b \in out}
               \cup {<<b.capacity, used(b, budgetIngress(l, b))>> : b \in in}
  IN  Min({Unlimited} \cup {plannable(r[1]) - r[2] - demand : r \in {x \in rooms : x[1] > 0}})

\* candidate.disjointRank, given the ports the siblings use.
disjointRank(src, p, avoid) ==
  LET s == Ifs[p[1]].port \in avoid.source
      t == Ifs[p[2]].port \in avoid.target
  IN  (IF s THEN 1 ELSE 0) + (IF t THEN 2 ELSE 0)

\* The order of Place's candidates.
Key(l, src, p, demand, avoid) ==
  LET h == Headroom(l, src, p, demand)
      e == egress(l, src, Ifs[p[1]].port)
      i == ingress(l, Target, Ifs[p[2]].port)
  IN  <<IF h >= 0 THEN 0 ELSE 1, disjointRank(src, p, avoid), 0 - h, bits(l, e) + bits(l, i),
        Cardinality(e) + Cardinality(i), Order[p[1]], Order[p[2]]>>

Before(a, b) == \E k \in DOMAIN a : a[k] < b[k] /\ \A j \in 1 .. (k - 1) : a[j] = b[j]

\* The pairs the pairing prefer-same-subnet keeps.
Pairs(src) ==
  LET all == routable(Interfaces(src)) \X routable(Interfaces(Target))
      same == {p \in all : Ifs[p[1]].subnet # "" /\ Ifs[p[1]].subnet = Ifs[p[2]].subnet}
  IN  IF same # {} THEN same ELSE all

\* Place: the pair that comes first, None where there is none.
Place(l, src, demand, avoid) ==
  IF Pairs(src) = {} THEN None
  ELSE LET key == [p \in Pairs(src) |-> Key(l, src, p, demand, avoid)]
       IN  CHOOSE p \in Pairs(src) : \A q \in Pairs(src) \ {p} : Before(key[p], key[q])

----------------------------------------------------------------------------
(* What a pass reads.                                                       *)

\* overlay: what the worker wrote for m, while the cache does not show it.
Shown(m) ==
  /\ written[m] # None
  /\ cache[m].obj.place = written[m].place /\ cache[m].obj.demand = written[m].demand

Live(o) == o # None /\ ~o.going

(* Faulty variant: what the worker wrote itself is not trusted.             *)
overlayNone(m) == None

overlay(m) == IF written[m] = None \/ Shown(m) THEN None ELSE written[m]

\* ledger: the placed mirrors other than m.
ledger(m) ==
  [k \in Mirror |->
     IF k = m \/ ~Live(cache[k].obj) THEN None
     ELSE IF overlay(k) # None
     THEN [src |-> overlay(k).src, place |-> overlay(k).place, demand |-> overlay(k).demand]
     ELSE IF cache[k].obj.place = None THEN None
     ELSE [src |-> cache[k].obj.src, place |-> cache[k].obj.place, demand |-> cache[k].obj.demand]]

placementOf(m) == IF overlay(m) # None THEN overlay(m).place ELSE cache[m].obj.place

\* request, siblings: the ports the siblings use on m's nodes.
siblings(m) == {s \in Sibling \ {m} : m \in Sibling /\ Live(cache[s].obj) /\ placementOf(s) # None}

request(m) ==
  [target |-> {port(Target, placementOf(s)[2]) : s \in siblings(m)},
   source |-> {port(cache[m].obj.src, placementOf(s)[1]) :
                 s \in {k \in siblings(m) : cache[k].obj.src = cache[m].obj.src}}]

\* A pair of interfaces the mirror's nodes offer.
Valid(o, p) == p # None /\ p[1] \in Interfaces(o.src) /\ p[2] \in Interfaces(Target)

outcomeFor(headroom) == IF headroom < 0 THEN "Overcommitted" ELSE "Placed"

\* The condition as applied: its reason, what its message says, and the
\* generation it is about, as the spec it describes.
Condition(o, reason, demand) == [reason |-> reason, src |-> o.src, place |-> o.place, demand |-> demand]

\* The cache entries of written that ledger drops: shown, or for no mirror.
Pruned(m) ==
  [k \in Mirror |-> IF cache[k].obj = None THEN None
                    ELSE IF k # m /\ Live(cache[k].obj) /\ Shown(k) THEN None ELSE written[k]]

(* Faulty variant: a mirror that found no pair is not looked at again.      *)
RequeuedNever(m, reason) ==
  IF reason = "AwaitingDemand" /\ queue.waits[m] = "off" THEN [queue EXCEPT !.waits[m] = "on"] ELSE queue

\* What the pass requeues: after the demand wait, or after unplacedRetry.
Requeued(m, reason) ==
  IF reason = "AwaitingDemand" /\ queue.waits[m] # "over" THEN [queue EXCEPT !.waits[m] = "on"]
  ELSE IF reason \in {"Placed", "Overcommitted"} THEN queue
  ELSE [queue EXCEPT !.ready = Queued(@, {m})]

\* The pass goes on to the condition, or to the patch with the placement p.
Report(m, o, reason, demand) ==
  [pc |-> "condition", m |-> m, obj |-> o, reason |-> reason, demand |-> demand]
Commit(m, o, p, reason, demand, rooms) ==
  [pc |-> "commit", m |-> m, obj |-> o, latest |-> cache[m].latest, place |-> p, reason |-> reason,
   demand |-> demand, rooms |-> rooms]

\* What Reconcile decides for the mirror o in the cache.
Decision(m, o) ==
  LET l == ledger(m)
      avoid == request(m)
      demand == Demand(rate[m])
      place == Place(l, o.src, demand, avoid)
      rooms == {p \in Pairs(o.src) : Headroom(l, o.src, p, demand) >= 0}
      fits(p, d) == outcomeFor(Headroom(l, o.src, p, d))
  IN  IF Valid(o, o.place)
      THEN LET d == IF rate[m] = 0 /\ o.demand > 0 THEN o.demand ELSE demand
           IN  Report(m, o, fits(o.place, d), d)
      ELSE IF o.place = None /\ o.cond = None /\ Valid(o, o.bound)
      THEN Commit(m, o, o.bound, fits(o.bound, demand), demand, {})
      ELSE IF rate[m] = 0 /\ queue.waits[m] # "over" THEN Report(m, o, "AwaitingDemand", 0)
      ELSE IF place = None THEN Report(m, o, "NoInterface", 0)
      ELSE IF place \notin rooms /\ Hold THEN Report(m, o, "Held", 0)
      ELSE Commit(m, o, place, fits(place, demand), demand, rooms)

----------------------------------------------------------------------------
(* The pass.                                                                *)

\* Reconcile reads the mirror, the nodes, the other mirrors and the flow.  A
\* mirror that is gone is forgotten; one still on auto is left alone.
Reconcile(m) ==
  /\ op = Idle /\ queue.ready # <<>>
  /\ m = Head(queue.ready) /\ queue' = [queue EXCEPT !.ready = Tail(@)]
  /\ IF ~Live(cache[m].obj) THEN written' = [written EXCEPT ![m] = None] /\ UNCHANGED op
     ELSE IF cache[m].obj.auto THEN UNCHANGED <<written, op>>
     ELSE op' = Decision(m, cache[m].obj) /\ written' = Pruned(m)
  /\ UNCHANGED <<mirror, cache, up, rate, kept, budget>>

\* commit patches the placement and remembers it; a conflict is tried again.
commit ==
  /\ op.pc = "commit"
  /\ IF mirror[op.m] = None THEN op' = Idle /\ UNCHANGED <<mirror, cache, written, queue, kept>>
     ELSE IF ~op.latest
     THEN /\ op' = Idle /\ Wake({op.m})
          /\ UNCHANGED <<mirror, cache, written, kept>>
     ELSE LET o == [op.obj EXCEPT !.place = op.place] IN
          /\ Write(op.m, o)
          /\ written' = [written EXCEPT ![op.m] =
               [src |-> o.src, place |-> op.place, demand |-> op.demand, stage |-> "committed"]]
          /\ kept' = [kept EXCEPT ![op.m] = [least |-> op.demand, sound |-> \A k \in {1, 2} : op.place[k] \in up]]
          /\ op' = Report(op.m, o, op.reason, op.demand)
          /\ UNCHANGED queue
  /\ UNCHANGED <<up, rate, budget>>

\* condition applies the Placed condition and the charged demand to the mirror
\* of that name, unless it read them so.
condition ==
  /\ op.pc = "condition"
  /\ LET c == Condition(op.obj, op.reason, op.demand)
         same == op.obj.cond = c /\ op.obj.demand = op.demand
     IN  IF mirror[op.m] = None \/ same THEN UNCHANGED <<mirror, cache, kept>>
         ELSE /\ Write(op.m, [mirror[op.m] EXCEPT !.cond = c, !.demand = op.demand])
              /\ kept' = [kept EXCEPT ![op.m].least = Min({@, op.demand})]
  /\ written' = IF written[op.m] = None THEN written
                ELSE [written EXCEPT ![op.m].stage = IF @ = "committed" THEN "applied" ELSE @]
  /\ op' = Idle
  /\ queue' = Requeued(op.m, op.reason)
  /\ UNCHANGED <<up, rate, budget>>

\* A write of the pass fails, and the mirror is queued again.
CallFails ==
  /\ op # Idle /\ Spend
  /\ op' = Idle /\ Wake({op.m})
  /\ UNCHANGED <<mirror, cache, written, up, rate, kept>>

\* DemandWait has passed since the mirror was created.
WaitOver(m) ==
  /\ queue.waits[m] = "on"
  /\ queue' = [queue EXCEPT !.ready = Queued(@, {m}), !.waits[m] = "over"]
  /\ UNCHANGED <<mirror, cache, op, written, up, rate, kept, budget>>

\* What the worker wrote is older than overlayTTL.  By then its condition is
\* applied, and the cache has shown both, or what came later.
Expire(m) ==
  /\ written[m] # None
  /\ written[m].stage = "shown"
  /\ written' = [written EXCEPT ![m] = None]
  /\ UNCHANGED <<mirror, cache, op, queue, up, rate, kept, budget>>

\* The operator restarts, with a cache that shows the latest.  A placement
\* whose condition was not applied is charged nothing until it is.
Restart ==
  /\ Spend
  /\ op' = Idle /\ written' = [m \in Mirror |-> None]
  /\ cache' = [m \in Mirror |-> [obj |-> mirror[m], latest |-> TRUE]]
  /\ queue' = [queue EXCEPT !.ready = SetToSeq(Mirror)]
  /\ kept' = [m \in Mirror |-> [kept[m] EXCEPT !.least = IF mirror[m] = None THEN 0 ELSE Min({@, mirror[m].demand})]]
  /\ UNCHANGED <<mirror, up, rate>>

----------------------------------------------------------------------------
(* What the worker acts on.                                                 *)

\* The cache comes to show the mirror, which wakes the worker for it.
Sync(m) ==
  /\ ~cache[m].latest
  /\ cache' = [cache EXCEPT ![m] = [obj |-> mirror[m], latest |-> TRUE]]
  /\ written' = IF written[m] = None THEN written
                ELSE [written EXCEPT ![m].stage = IF @ = "applied" THEN "shown" ELSE @]
  /\ Wake({m})
  /\ UNCHANGED <<mirror, op, up, rate, kept, budget>>

NewMirror(src, auto) ==
  [src |-> src, place |-> None, demand |-> 0, cond |-> None, bound |-> None, going |-> FALSE, auto |-> auto]

Create(m) ==
  /\ mirror[m] = None /\ Spend
  /\ \E src \in Source, auto \in BOOLEAN : Write(m, NewMirror(src, auto))
  /\ op' = Outdated(m) /\ kept' = [kept EXCEPT ![m] = [least |-> 0, sound |-> FALSE]]
  /\ queue' = [queue EXCEPT !.waits[m] = "off"]
  /\ UNCHANGED <<written, up, rate>>

Delete(m) ==
  /\ Live(mirror[m]) /\ Spend
  /\ Write(m, [mirror[m] EXCEPT !.going = TRUE]) /\ op' = Outdated(m)
  /\ UNCHANGED <<written, queue, up, rate, kept>>

Gone(m) ==
  /\ mirror[m] # None /\ ~Live(mirror[m])
  /\ Write(m, None) /\ op' = Outdated(m)
  /\ UNCHANGED <<written, queue, up, rate, kept, budget>>

\* The mirror is given another source, which leaves its placement as it is.
Repoint(m) ==
  /\ Live(mirror[m]) /\ Spend
  /\ \E src \in Source \ {mirror[m].src} : Write(m, [mirror[m] EXCEPT !.src = src])
  /\ op' = Outdated(m) /\ kept' = [kept EXCEPT ![m] = [least |-> 0, sound |-> FALSE]]
  /\ UNCHANGED <<written, queue, up, rate>>

\* The mirror controller stamps a provider.
Stamp(m) ==
  /\ Live(mirror[m])
  /\ mirror[m].auto
  /\ Write(m, [mirror[m] EXCEPT !.auto = FALSE]) /\ op' = Outdated(m)
  /\ UNCHANGED <<written, queue, up, rate, kept, budget>>

\* The gateways report the interfaces they bound: the placement, or the first
\* ones where they gave up waiting for it.
GatewayReports(m) ==
  /\ Live(mirror[m]) /\ Spend
  /\ LET first(n) == CHOOSE i \in Interfaces(n) : \A j \in Interfaces(n) : Order[i] <= Order[j]
         p == IF mirror[m].place # None THEN mirror[m].place ELSE <<first(mirror[m].src), first(Target)>>
     IN  /\ mirror[m].place = None => Interfaces(mirror[m].src) # {} /\ Interfaces(Target) # {}
         /\ Write(m, [mirror[m] EXCEPT !.bound = p])
  /\ op' = Outdated(m)
  /\ UNCHANGED <<written, queue, up, rate, kept>>

Uses(o) == {o.place[1], o.place[2]}

\* capsToMirrors: a node's link fails or returns.
LinkChanges(i) ==
  /\ Spend
  /\ up' = IF i \in up THEN up \ {i} ELSE up \cup {i}
  /\ Wake({m \in Mirror : cache[m].obj # None /\ Ifs[i].node \in {cache[m].obj.src, Target}})
  /\ kept' = [m \in Mirror |-> [kept[m] EXCEPT !.sound = @ /\ mirror[m] # None /\ i \notin Uses(mirror[m])]]
  /\ UNCHANGED <<mirror, cache, op, written, rate>>

\* flowToMirrors: the mirrors a flow's rate wakes.
flowToMirrors(m, r) == cache[m].obj # None /\ (cache[m].obj.place = None \/ cache[m].obj.demand # Demand(r))

\* A flow publishes its rate, or another one.
FlowRate(m) ==
  /\ Spend
  /\ \E r \in Rates \ {rate[m]} :
       rate' = [rate EXCEPT ![m] = r] /\ Wake(IF flowToMirrors(m, r) THEN {m} ELSE {})
  /\ UNCHANGED <<mirror, cache, op, written, up, kept>>

\* The controller starts on a cluster from before it: mirrors without a
\* placement, which their gateways may have bound, some with flows that have
\* published no rate yet.
Init ==
  /\ up = DOMAIN Ifs
  /\ \E absent \in {{}, Late}, bound \in {Mirror \ Late} :
       /\ mirror = [m \in Mirror |-> IF m \in absent THEN None
            ELSE [NewMirror(CHOOSE n \in Source : TRUE, FALSE) EXCEPT !.bound =
                    IF m \in bound THEN CHOOSE p \in Pairs(CHOOSE n \in Source : TRUE) : TRUE ELSE None]]
       /\ rate = [m \in Mirror |-> IF m \in Late THEN 0 ELSE Min(Rates)]
  /\ cache = [m \in Mirror |-> [obj |-> mirror[m], latest |-> TRUE]]
  /\ op = Idle
  /\ written = [m \in Mirror |-> None]
  /\ queue = [ready |-> SetToSeq(Mirror), waits |-> [m \in Mirror |-> "off"]]
  /\ kept = [m \in Mirror |-> [least |-> 0, sound |-> FALSE]]
  /\ budget = MaxChanges

Worker == commit \/ condition \/ \E m \in Mirror : Reconcile(m)

Next ==
  \/ Worker \/ CallFails \/ Restart
  \/ \E m \in Mirror :
       \/ WaitOver(m) \/ Expire(m) \/ Sync(m)
       \/ Create(m) \/ Delete(m) \/ Gone(m) \/ Repoint(m) \/ Stamp(m) \/ GatewayReports(m) \/ FlowRate(m)
  \/ \E i \in Flaky : LinkChanges(i)

\* Weak fairness, written as what may not last: a pass at work, a queued
\* mirror nobody takes up, a cache that lags, a wait that is over, a deleted
\* mirror that does not go and a mirror that gets no provider.
Fairness ==
  /\ []<>(op = Idle) /\ []<>~(op = Idle /\ queue.ready # <<>>)
  /\ \A m \in Mirror :
       /\ []<>cache[m].latest /\ []<>(queue.waits[m] # "on")
       /\ []<>(IF written[m] = None THEN TRUE ELSE written[m].stage # "shown")
       /\ []<>(IF mirror[m] = None THEN TRUE ELSE ~mirror[m].going /\ ~mirror[m].auto)

Spec == Init /\ [][Next]_placeVars
FairSpec == Spec /\ Fairness

----------------------------------------------------------------------------
\* The placements of the other mirrors as they are, each at what charge says.
Truth(m, charge) ==
  [k \in Mirror |-> IF k = m \/ ~Live(mirror[k]) THEN None
                    ELSE IF mirror[k].place = None THEN None
                    ELSE [src |-> mirror[k].src, place |-> mirror[k].place, demand |-> charge[k]]]

Reasons == {"Placed", "Overcommitted", "AwaitingDemand", "NoInterface", "Held"}

(* Every variable keeps its type.                                          *)
TypeOK ==
  /\ op.pc \in {"idle", "commit", "condition"}
  /\ queue.ready \in Seq(Mirror) /\ queue.waits \in [Mirror -> {"off", "on", "over"}]
  /\ \A m \in Mirror : mirror[m] # None =>
       /\ mirror[m].src \in Source /\ mirror[m].demand >= 0
       /\ mirror[m].place # None => mirror[m].place[1] \in DOMAIN Ifs /\ Ifs[mirror[m].place[2]].node = Target
       /\ mirror[m].cond # None => mirror[m].cond.reason \in Reasons

\* A pair the controller reports as Placed had room when it was written, next
\* to every other mirror placed by then at the least it was charged since,
\* however far the cache was behind the controller's own writes.
PlacedHasRoom ==
  [][\A m \in Mirror :
       op.pc = "commit" /\ op.m = m /\ op'.pc = "condition" /\ op.reason = "Placed"
         => LET l == Truth(m, [k \in Mirror |-> kept[k].least])
            IN  Headroom(l, mirror[m].src, op.place, op.demand) >= 0]_placeVars

\* Mirrors of one redundancy set arrive on different ports of their node, as
\* long as the pass saw a pair with room that makes it so.
SiblingsApart ==
  [][\A m \in Sibling :
       op.pc = "commit" /\ op.m = m /\ op'.pc = "condition" /\ op.rooms # {}
         => LET taken == {port(Target, mirror[s].place[2]) :
                            s \in {k \in Sibling \ {m} : Live(mirror[k]) /\ mirror[k].place # None}}
            IN  Ifs[op.place[2]].port \in taken => \A p \in op.rooms : Ifs[p[2]].port \in taken]_placeVars

\* A placement stays where it is as long as its links and its source do,
\* whatever else changes: neither a late cache nor a write of a gateway makes
\* the controller place the mirror a second time.
PlacementStays ==
  [][\A m \in Mirror :
       kept[m].sound /\ mirror[m] # None /\ mirror'[m] # None => mirror'[m].place = mirror[m].place]_placeVars

\* A mirror for which there stays to be room is placed on interfaces its nodes
\* offer, for good: also when the room was made by another mirror going away.
RoomIsTaken ==
  \A m \in Mirror :
    <>[](/\ Live(mirror[m])
         /\ LET l == Truth(m, [k \in Mirror |-> IF mirror[k] = None THEN 0 ELSE mirror[k].demand])
            IN  \E p \in Pairs(mirror[m].src) : Headroom(l, mirror[m].src, p, Demand(rate[m])) >= 0)
      => <>[](Live(mirror[m]) /\ Valid(mirror[m], mirror[m].place))

\* What is reported comes to be true for good: the condition says placed
\* where the placement is one the nodes offer, and the demand charged is that
\* of the rate the flow publishes.
ReportBecomesTrue ==
  \A m \in Mirror :
    <>[](Live(mirror[m]) =>
           LET o == mirror[m] IN
           /\ o.cond # None
           /\ o.cond.reason \in {"Placed", "Overcommitted"} <=> Valid(o, o.place)
           /\ Valid(o, o.place) /\ rate[m] # 0 => o.demand = Demand(rate[m]))

\* What no commit of the placement controller breaks: types, the capacity of
\* the ports, the separation of siblings, and placements already made.
PlacementKept == []TypeOK /\ PlacedHasRoom /\ SiblingsApart /\ PlacementStays

\* What the passes bring about: mirrors placed where there is room, and true
\* reports.
PlacementSettles == RoomIsTaken /\ ReportBecomesTrue

=============================================================================
