----------------------------- MODULE DomainNodes -----------------------------
(***************************************************************************)
(* MxlDomains on the nodes.  One node's agent materialises every domain    *)
(* that selects it and reports on it in the domain's status                *)
(* (agent/internal/domainpublisher, domainfs, tracker); the other nodes'   *)
(* agents write their entries of the same list; the operator summarises    *)
(* the entries and prunes those of departed nodes                          *)
(* (operator/internal/domain).  All of them replace the whole status and   *)
(* rely on the resourceVersion it was read with.                           *)
(*                                                                         *)
(* Directories are the primary one, which the agent tracks itself, and     *)
(* those below domains/, each of which gets a tracker.                     *)
(***************************************************************************)
EXTENDS Naturals, Sequences, FiniteSets

CONSTANTS
  Self, Other,  \* the node whose agent is modelled, and another one
  Domain,       \* MxlDomains, by name
  Order,        \* the order a List returns them in
  Specs,        \* the specs a domain may be created with: [dir, id]
  Primary,      \* the primary domain directory
  Old,          \* the id of an earlier domain there
  MaxChanges,   \* domains, nodes, labels and flows coming and going
  MaxFaults,    \* failed calls, refreshes that meet a pass, agent restarts
  None

VARIABLES
  dom,      \* [Domain -> None or the object]: spec, selection, status
  nodes,    \* the nodes of the cluster
  seen,     \* [nodes, obj]: what the operator's cache shows
  latest,   \* [Domain -> BOOLEAN]: the cache shows the latest object
  op,       \* the operator's pass
  queue,    \* domains the operator is to look at
  pub,      \* the agent's Sync
  disk,     \* [Dirs -> [id, flows]]: the directories on Self
  running,  \* [Domain -> None or directory]: trackers on Self
  changes, faults

\* There are finitely many domains, and the schema requires an id of each.
ASSUME DomainAssumption ==
  /\ Self # Other
  /\ IsFiniteSet(Domain) /\ Order \in Seq(Domain)
  /\ None \notin {s.id : s \in Specs}

domainVars == <<dom, nodes, seen, latest, op, queue, pub, disk, running, changes, faults>>

Node == {Self, Other}
Dirs == {s.dir : s \in Specs} \cup {Primary}
Idle == [pc |-> "idle"]

Change == changes > 0 /\ changes' = changes - 1 /\ UNCHANGED faults
Fault == faults > 0 /\ faults' = faults - 1 /\ UNCHANGED changes
Still == UNCHANGED <<changes, faults>>

\* A write of d's object dates every reading of it, and its event wakes the
\* operator once the cache shows it.
Write(d, o) ==
  /\ dom' = [dom EXCEPT ![d] = o]
  /\ latest' = [latest EXCEPT ![d] = FALSE]

DatedPass(d) == IF op # Idle THEN IF op.d = d THEN [op EXCEPT !.latest = FALSE] ELSE op ELSE op
DatedPut(d) == IF pub.pc = "put" THEN IF Head(pub.todo) = d THEN [pub EXCEPT !.latest = FALSE] ELSE pub ELSE pub

-----------------------------------------------------------------------------
(* The agent's Sync on Self.                                               *)

Selected(o) == o # None /\ Self \in o.selects

\* Sync reads the node and all domains, and who claims which directory.
Sync ==
  /\ pub = Idle /\ Self \in nodes
  /\ pub' = [pc |-> "next", snap |-> dom, todo |-> Order, made |-> {}]
  /\ UNCHANGED <<dom, nodes, seen, latest, op, queue, disk, running, changes, faults>>

(* Faulty variant: every domain is its directory's only claimant.          *)
claimsIgnored(snap, dir) == {}

claims(snap, dir) == {d \in Domain : Selected(snap[d]) /\ snap[d].dir = dir}

\* domainfs.checkIdentity: flows were written under another id.
checkIdentity(o) == disk[o.dir].id \in {None, o.id} \/ ~disk[o.dir].flows

\* domainfs.Apply: the directory carries the domain's id, unless refused.
Apply(o, ok) == IF ok THEN [disk EXCEPT ![o.dir].id = o.id] ELSE disk

\* trackers.Tracked, or the directory the agent tracks itself.
Mirrored(d, o) == o.dir = Primary \/ running[d] # None

\* The entry of a domain that was written on the node, or was not.
Entry(d, o, ok) == [ready |-> ok, mirrored |-> o.dir = Primary \/ (ok /\ Mirrored(d, o))]

\* Sync goes to the next domain: one that does not select the node loses its
\* entry, one with a rival in its directory is not written, any other is.
\* Apply checks the identity and writes the definition; the file operations
\* of one Apply are one step.
materialise ==
  /\ pub.pc = "next" /\ pub.todo # <<>>
  /\ LET d == Head(pub.todo)
         o == pub.snap[d]
         alone == Cardinality(claims(pub.snap, o.dir)) <= 1
         ok == alone /\ checkIdentity(o)
     IN  IF o = None \/ (~Selected(o) /\ o.entry[Self] = None)
         THEN pub' = [pub EXCEPT !.todo = Tail(@)] /\ UNCHANGED disk
         ELSE IF ~Selected(o)
         THEN /\ pub' = [pc |-> "get", snap |-> pub.snap, todo |-> pub.todo, made |-> pub.made, entry |-> None]
              /\ UNCHANGED disk
         ELSE /\ disk' = Apply(o, ok)
              /\ pub' = [pc |-> "get", snap |-> pub.snap, todo |-> pub.todo,
                         made |-> IF ok THEN pub.made \cup {d} ELSE pub.made,
                         entry |-> Entry(d, o, ok)]
  /\ UNCHANGED <<dom, nodes, seen, latest, op, queue, running, changes, faults>>

Advance == [pc |-> "next", snap |-> pub.snap, todo |-> Tail(pub.todo), made |-> pub.made]

\* putEntry, dropEntry: the fresh object, with this node's entry replaced, is
\* written back unless it was written to in between, which is tried again.
\* An entry that says the same but for its LastSeen seldom meets anyone.
putGet ==
  /\ pub.pc = "get"
  /\ pub' = IF dom[Head(pub.todo)] = None THEN Advance
            ELSE [pc |-> "put", snap |-> pub.snap, todo |-> pub.todo, made |-> pub.made, entry |-> pub.entry,
                  obj |-> dom[Head(pub.todo)], latest |-> TRUE]
  /\ UNCHANGED <<dom, nodes, seen, latest, op, queue, disk, running, changes, faults>>

putEntry ==
  /\ pub.pc = "put"
  /\ LET d == Head(pub.todo) IN
     IF ~pub.latest
     THEN /\ pub' = [pc |-> "get", snap |-> pub.snap, todo |-> pub.todo, made |-> pub.made, entry |-> pub.entry]
          /\ UNCHANGED <<dom, latest, op>>
     ELSE /\ IF pub.obj.entry[Self] = pub.entry
             THEN UNCHANGED <<dom, latest, op>>
             ELSE /\ Write(d, [pub.obj EXCEPT !.entry[Self] = pub.entry])
                  /\ op' = DatedPass(d)
          /\ pub' = Advance
  /\ UNCHANGED <<nodes, seen, queue, disk, running, changes, faults>>

\* The same where only the entry's LastSeen is new, during a pass of the
\* operator: the pass meets a conflict.
Refresh ==
  /\ pub.pc = "put" /\ op # Idle /\ Fault
  /\ pub.latest /\ pub.obj.entry[Self] = pub.entry /\ op.d = Head(pub.todo)
  /\ op' = DatedPass(op.d)
  /\ latest' = [latest EXCEPT ![op.d] = FALSE]
  /\ pub' = Advance
  /\ UNCHANGED <<dom, nodes, seen, queue, disk, running>>

\* A call fails, or its conflicts outlast the retries: Sync goes on.
putFails ==
  /\ pub.pc \in {"get", "put"} /\ Fault
  /\ pub' = Advance
  /\ UNCHANGED <<dom, nodes, seen, latest, op, queue, disk, running>>

\* Manager.Sync: trackers of domains not written, or written elsewhere, stop
\* before those of the others start.
trackers(made, snap) ==
  [d \in Domain |-> IF d \in made /\ snap[d].dir # Primary THEN snap[d].dir ELSE None]

\* OnMaterialised, at the end of Sync.  A tracker that cannot start yet is
\* left for the next Sync.
OnMaterialised ==
  /\ pub.pc = "next" /\ pub.todo = <<>>
  /\ \/ running' = trackers(pub.made, pub.snap) /\ Still
     \/ /\ Fault
        /\ running' = [d \in Domain |-> IF trackers(pub.made, pub.snap)[d] = running[d] THEN running[d] ELSE None]
  /\ pub' = Idle
  /\ UNCHANGED <<dom, nodes, seen, latest, op, queue, disk>>

\* The agent restarts: its trackers end, what is on disk stays.
AgentRestarts ==
  /\ Fault
  /\ pub' = Idle /\ running' = [d \in Domain |-> None]
  /\ UNCHANGED <<dom, nodes, seen, latest, op, queue, disk>>

-----------------------------------------------------------------------------
(* The operator.                                                           *)

\* pruneDeparted, by the nodes the cache shows.
pruneDeparted(o) ==
  [o EXCEPT !.entry = [n \in Node |-> IF n \in seen.nodes THEN o.entry[n] ELSE None]]

Entries(o) == {n \in Node : o.entry[n] # None}

reachable(o) == Cardinality(Entries(o)) > 1 => \A n \in Entries(o) : o.entry[n].mirrored

materialised(o) ==
  IF Entries(o) = {} THEN "NoNodes"
  ELSE IF \A n \in Entries(o) : o.entry[n].ready THEN "AllNodesReady" ELSE "NodesNotReady"

Summarised(o) == [o EXCEPT !.cond = [materialised |-> materialised(o), reachable |-> reachable(o)]]

\* Reconcile of a domain the cache shows, up to its update.
Reconcile(d) ==
  /\ op = Idle /\ d \in queue
  /\ queue' = queue \ {d}
  /\ LET o == seen.obj[d]
         new == Summarised(pruneDeparted(o))
     IN  op' = IF o = None THEN Idle ELSE IF new = o THEN Idle
               ELSE [pc |-> "update", d |-> d, obj |-> new, latest |-> latest[d], nodes |-> seen.nodes]
  /\ UNCHANGED <<dom, nodes, seen, latest, pub, disk, running, changes, faults>>

\* The update; a conflict or another error queues the domain again.
Update ==
  /\ op # Idle /\ op.latest
  /\ Write(op.d, op.obj)
  /\ pub' = DatedPut(op.d)
  /\ op' = Idle
  /\ UNCHANGED <<nodes, seen, queue, disk, running, changes, faults>>

UpdateFails ==
  /\ op # Idle
  /\ \/ ~op.latest /\ Still
     \/ Fault
  /\ op' = Idle
  /\ queue' = queue \cup {op.d}
  /\ UNCHANGED <<dom, nodes, seen, latest, pub, disk, running>>

\* The cache shows a domain as it is now, and any change of it wakes the
\* operator.
ShowDomain(d) ==
  /\ ~latest[d]
  /\ seen' = [seen EXCEPT !.obj[d] = dom[d]]
  /\ latest' = [latest EXCEPT ![d] = TRUE]
  /\ queue' = queue \cup {d}
  /\ UNCHANGED <<dom, nodes, op, pub, disk, running, changes, faults>>

(* Faulty variant: no node event wakes the operator.                       *)
allDomainsNever(left) == {}

\* allDomains: the cache shows the nodes; only one leaving wakes the operator.
allDomains(left) == IF left = {} THEN {} ELSE {d \in Domain : seen.obj[d] # None}

ShowNodes ==
  /\ seen.nodes # nodes
  /\ seen' = [seen EXCEPT !.nodes = nodes]
  /\ queue' = queue \cup allDomains(seen.nodes \ nodes)
  /\ UNCHANGED <<dom, nodes, latest, op, pub, disk, running, changes, faults>>

-----------------------------------------------------------------------------
(* What they act on.                                                       *)

NoCond == [materialised |-> "NoNodes", reachable |-> TRUE]
New(s, sel) == [dir |-> s.dir, id |-> s.id, selects |-> sel, entry |-> [n \in Node |-> None], cond |-> NoCond]

\* A domain is created, deleted, or selects other nodes.
Edit(d) ==
  /\ Change
  /\ \/ dom[d] = None /\ \E s \in Specs : Write(d, New(s, Node))
     \/ dom[d] # None /\ Write(d, None)
     \/ dom[d] # None /\ Write(d, [dom[d] EXCEPT !.selects = IF Self \in @ THEN @ \ {Self} ELSE @ \cup {Self}])
  /\ op' = DatedPass(d) /\ pub' = DatedPut(d)
  /\ UNCHANGED <<nodes, seen, queue, disk, running>>

\* The other node's agent puts its entry.
OtherPuts(d) ==
  /\ Change
  /\ dom[d] # None
  /\ Other \in nodes
  /\ \E e \in [ready : BOOLEAN, mirrored : {TRUE}] : Write(d, [dom[d] EXCEPT !.entry[Other] = e])
  /\ op' = DatedPass(d) /\ pub' = DatedPut(d)
  /\ UNCHANGED <<nodes, seen, queue, disk, running>>

\* A node leaves the cluster, or joins it.
NodeChanges(n) ==
  /\ Change
  /\ nodes' = IF n \in nodes THEN nodes \ {n} ELSE nodes \cup {n}
  /\ UNCHANGED <<dom, seen, latest, op, queue, pub, disk, running>>

\* Flows are created in a directory, or the last of them goes.
FlowsChange(dir) ==
  /\ disk[dir].id # None /\ Change
  /\ disk' = [disk EXCEPT ![dir].flows = ~@]
  /\ UNCHANGED <<dom, nodes, seen, latest, op, queue, pub, running>>

-----------------------------------------------------------------------------
\* A domain nobody has reported on yet, its nodes known to the operator; the
\* primary directory may hold flows of an earlier domain.
Init ==
  /\ \E s \in Specs : dom = [d \in Domain |-> IF d = Head(Order) THEN New(s, Node) ELSE None]
  /\ nodes = Node
  /\ seen = [nodes |-> Node, obj |-> dom]
  /\ latest = [d \in Domain |-> TRUE]
  /\ op = Idle /\ queue = {}
  /\ pub = Idle
  /\ \E left \in {None, Old} :
       disk = [dir \in Dirs |-> IF dir = Primary THEN [id |-> left, flows |-> left # None]
                                ELSE [id |-> None, flows |-> FALSE]]
  /\ running = [d \in Domain |-> None]
  /\ changes = MaxChanges /\ faults = MaxFaults

Agent == Sync \/ materialise \/ putGet \/ putEntry \/ OnMaterialised
Operator == Update \/ (op # Idle /\ ~op.latest /\ UpdateFails) \/ \E d \in Domain : Reconcile(d)
Cache == ShowNodes \/ \E d \in Domain : ShowDomain(d)

Next ==
  \/ Agent \/ Refresh \/ putFails \/ AgentRestarts
  \/ Operator \/ UpdateFails \/ Cache
  \/ \E d \in Domain : Edit(d) \/ OtherPuts(d)
  \/ \E n \in Node : NodeChanges(n)
  \/ \E dir \in Dirs : FlowsChange(dir)

Spec == Init /\ [][Next]_domainVars

\* The agent syncs every ResyncPeriod, the operator's worker runs on and its
\* cache follows: weak fairness, written as what may not last.
Fairness ==
  /\ []<>~(pub = Idle /\ Self \in nodes) /\ \A pc \in {"next", "get", "put"} : []<>(pub.pc # pc)
  /\ []<>(op = Idle) /\ []<>~(op = Idle /\ queue # {})
  /\ []<>(seen.nodes = nodes) /\ \A d \in Domain : []<>latest[d]

FairSpec == Spec /\ Fairness

-----------------------------------------------------------------------------
(* Every variable keeps its type.                                          *)
TypeOK ==
  /\ nodes \subseteq Node /\ queue \subseteq Domain
  /\ pub.pc \in {"idle", "next", "get", "put"} /\ op.pc \in {"idle", "update"}
  /\ \A d \in Domain : dom[d] # None =>
       \A n \in Node : dom[d].entry[n] # None =>
         dom[d].entry[n].ready \in BOOLEAN /\ dom[d].entry[n].mirrored \in BOOLEAN
  /\ running \in [Domain -> {None} \cup (Dirs \ {Primary})]
  /\ \A dir \in Dirs : disk[dir].id \in {None, Old} \cup {s.id : s \in Specs}

\* No two trackers on a node follow one directory, whatever domains were
\* deleted and created again in another's place in the meantime: each would
\* publish the other's flows (Publisher.Sync, Manager.Sync).
OneTrackerPerDirectory ==
  \A d, e \in Domain : d # e /\ running[d] # None => running[e] # running[d]

\* A directory that holds flows keeps the id they were written under
\* (ErrForeignDomain, checkIdentity).
FlowsKeepIdentity ==
  [][\A dir \in Dirs : disk[dir].flows => disk'[dir].id = disk[dir].id]_domainVars

\* A write of one party leaves the other nodes' entries alone: of its own
\* entry an agent may do anything, and the operator only ever drops one of a
\* node its cache does not show.
EntriesAreTheirNodes ==
  [][\A d \in Domain : dom[d] # None /\ dom'[d] # None =>
       /\ pub.pc = "put" /\ pub'.pc # "put" => dom'[d].entry[Other] = dom[d].entry[Other]
       /\ op # Idle /\ op' = Idle => \A n \in op.nodes :
            dom'[d].entry[n] = dom[d].entry[n]]_domainVars

\* The entry of a node that left for good goes, also when its agent put it
\* back after the operator had pruned it.
DepartedIsPruned ==
  \A d \in Domain, n \in Node :
    <>[](n \notin nodes) => <>[](dom[d] # None => dom[d].entry[n] = None)

\* The conditions come to describe the entries there are.
ConditionsBecomeTrue ==
  \A d \in Domain :
    <>[](dom[d] # None => dom[d].cond.materialised = materialised(dom[d])
                          /\ dom[d].cond.reachable = reachable(dom[d]))

\* A domain that stays, selects the node and has a directory of its own
\* without another's flows is written there under its id, followed, and
\* reported so for good; one that stops selecting it is no longer listed.
SettledIsReported ==
  \A d \in Domain :
    LET ready == /\ Self \in nodes
                 /\ Selected(dom[d])
                 /\ claims(dom, dom[d].dir) = {d}
                 /\ disk[dom[d].dir].id = dom[d].id \/ ~disk[dom[d].dir].flows
    IN  /\ <>[]ready => <>[](/\ dom[d] # None
                             /\ dom[d].entry[Self] = [ready |-> TRUE, mirrored |-> TRUE]
                             /\ disk[dom[d].dir].id = dom[d].id)
        /\ <>[](Self \in nodes /\ dom[d] # None /\ ~Selected(dom[d]))
             => <>[](dom[d] # None => dom[d].entry[Self] = None)

\* What no Sync of an agent and no pass of the operator breaks: types, one
\* tracker per directory, the identity of flows, and the entries of others.
DomainsKept == [](TypeOK /\ OneTrackerPerDirectory) /\ FlowsKeepIdentity /\ EntriesAreTheirNodes

\* What Syncs and passes bring about: entries and conditions that are true of
\* the nodes there are.
DomainsSettle == DepartedIsPruned /\ ConditionsBecomeTrue /\ SettledIsReported

=============================================================================
