------------------------ MODULE FlowPublisherProofs ------------------------
(***************************************************************************)
(* Proofs about the agents' publication of a flow for any set of nodes,    *)
(* any Lease window and any number of moves, failed calls and events, on   *)
(* mxlfs and off it.                                                       *)
(***************************************************************************)
EXTENDS FlowPublisher, TLAPS

-----------------------------------------------------------------------------
(* The inductive invariant.                                                *)

Publishes == {"idle", "classify", "create", "upsert", "renew", "stale", "release"}

(* Which calls a goroutine makes.  Only the rescan synchronises, demotes   *)
(* and promotes; the renew loop only renews.                               *)
Calls ==
  [watch |-> Publishes, rescan |-> Pc \ {"claim"}, renew |-> {"idle", "renew"},
   claim |-> {"idle", "claim", "upsert", "renew"}]

(* The goroutine t of an agent in state g is at r.  While InitialSync runs *)
(* no other goroutine does; an agent that is down has at most renewals on  *)
(* their way.  What is to be upserted is Origin or Ready, the claim's is   *)
(* Origin.                                                                 *)
InOrder(g, t, r) ==
  /\ r.pc \in Calls[t]
  /\ g = "sync" /\ t # "rescan" => r.pc = "idle"
  /\ g = "down" => r.pc \in {"idle", "renew"}
  /\ r.pc = "resync" => g = "sync"
  /\ r.pc \in {"create", "upsert"} => r.phase # "Stale"
  /\ t = "claim" /\ r.pc = "upsert" => r.phase = "Origin"

GoroutinesInOrder == \A n \in Node, t \in Thread : InOrder(agent[n], t, thread[n][t])

(* A flow that does not exist has no locations.                            *)
NoStrayLocation == flow.state = "absent" => \A n \in Node : flow.locs[n] = "none"

Inv == TypeOK /\ GoroutinesInOrder /\ NoStrayLocation

(* TypeOK and the rest of Inv, for the variables an action may leave alone. *)
DiskOK ==
  /\ disk \in [Node -> Disk]
  /\ mirror \in [Node -> {"absent", "present", "deleting"}]
  /\ events \in [Node -> Seq({"appeared", "vanished"})]

FlowOK ==
  /\ flow \in [state : {"absent", "present"}, locs : [Node -> Location]]
  /\ NoStrayLocation

ThreadsOK ==
  /\ agent \in [Node -> {"down", "sync", "up"}]
  /\ thread \in [Node -> [Thread -> Run]]
  /\ GoroutinesInOrder

CountsOK == moves \in 0..MaxMoves /\ faults \in 0..MaxFaults

LEMMA Parts == Inv <=> DiskOK /\ FlowOK /\ lease \in [Node -> Lease] /\ ThreadsOK /\ CountsOK
BY DEF Inv, TypeOK, DiskOK, FlowOK, ThreadsOK, CountsOK

LEMMA PartsAfter ==
  DiskOK' /\ FlowOK' /\ lease' \in [Node -> Lease] /\ ThreadsOK' /\ CountsOK' => Inv'
BY DEF Inv, TypeOK, DiskOK, FlowOK, ThreadsOK, CountsOK

-----------------------------------------------------------------------------
(* What the operators return.                                              *)

LEMMA Constants ==
  Window \in Nat /\ Window > 0 /\ MaxMoves \in Nat /\ MaxFaults \in Nat
BY PublisherAssumption DEF PublisherAssumption

LEMMA EmptyTypes ==
  /\ NoFlow \in [state : {"absent", "present"}, locs : [Node -> Location]]
  /\ NoFlow.locs = [n \in Node |-> "none"]
  /\ NewFlow \in [state : {"absent", "present"}, locs : [Node -> Location]]
  /\ NewFlow.state = "present"
  /\ NoLease \in Lease
  /\ Idle \in Run
  /\ [Idle EXCEPT !.pc = "renew"] \in Run
BY Constants DEF NoFlow, NewFlow, Location, NoLease, Lease, Idle, Run, Pc, Phase

(* A step that only moves unconstrained variables, part by part.           *)
LEMMA KeepsDisk == DiskOK /\ UNCHANGED <<disk, mirror, events>> => DiskOK'
BY DEF DiskOK

LEMMA KeepsFlow == FlowOK /\ UNCHANGED flow => FlowOK'
BY DEF FlowOK, NoStrayLocation

LEMMA KeepsThreads == ThreadsOK /\ UNCHANGED <<agent, thread>> => ThreadsOK'
BY DEF ThreadsOK, GoroutinesInOrder

LEMMA KeepsCounts == CountsOK /\ UNCHANGED <<moves, faults>> => CountsOK'
BY DEF CountsOK

LEMMA MoveCounts == CountsOK /\ Move /\ UNCHANGED faults => CountsOK'
BY Constants DEF CountsOK, Move

(* An upsert leaves a flow that exists or not as it was.                   *)
LEMMA Upserts ==
  ASSUME FlowOK, NEW n \in Node, NEW phase \in Phase, upsertLocation(n, phase)
  PROVE  FlowOK'
<1>1. Upserted(n, phase) \in Location
  BY DEF Upserted, FlowOK, Location, Phase
<1>2. flow.state = "absent" => Upserted(n, phase) = "none"
  BY DEF Upserted, FlowOK, NoStrayLocation
<1>. DEFINE locs == [flow.locs EXCEPT ![n] = Upserted(n, phase)]
<1>3. locs \in [Node -> Location]
  BY <1>1 DEF FlowOK
<1>4. flow' = [flow EXCEPT !.locs = locs]
  BY DEF FlowOK, upsertLocation
<1>. HIDE DEF locs
<1>5. /\ flow' \in [state : {"absent", "present"}, locs : [Node -> Location]]
      /\ flow'.state = flow.state /\ flow'.locs = locs
  BY <1>3, <1>4 DEF FlowOK
<1>. QED  BY <1>2, <1>5 DEF FlowOK, NoStrayLocation, locs

LEMMA LeaseWrites ==
  ASSUME lease \in [Node -> Lease], NEW n \in Node, Renew(n) \/ Release(n)
  PROVE  lease' \in [Node -> Lease]
<1>1. [held |-> TRUE, left |-> Window] \in Lease
  BY Constants DEF Lease
<1>. QED  BY <1>1, EmptyTypes DEF Renew, Release

(* A goroutine that goes on within its own calls, while its agent stays as *)
(* it is or is up afterwards.                                              *)
LEMMA Decides ==
  ASSUME ThreadsOK, NEW n \in Node, NEW t \in Thread,
         NEW pc \in Pc, NEW phase \in Phase,
         Decide(n, t, pc, phase),
         agent' = agent \/ (t = "rescan" /\ agent' = [agent EXCEPT ![n] = "up"]),
         InOrder(agent'[n], t, [pc |-> pc, phase |-> phase])
  PROVE  ThreadsOK'
<1>1. agent' \in [Node -> {"down", "sync", "up"}]
  BY DEF ThreadsOK
<1>2. [pc |-> pc, phase |-> phase] \in Run
  BY DEF Run
<1>3. thread' \in [Node -> [Thread -> Run]]
  BY <1>2 DEF ThreadsOK, Decide
<1>4. ASSUME NEW m \in Node, NEW s \in Thread
      PROVE  InOrder(agent'[m], s, thread'[m][s])
  <2>1. CASE m = n /\ s = t
    BY <2>1 DEF ThreadsOK, Decide
  <2>2. CASE ~(m = n /\ s = t)
    <3>1. thread'[m][s] = thread[m][s] /\ InOrder(agent[m], s, thread[m][s])
      BY <2>2 DEF ThreadsOK, Decide, GoroutinesInOrder
    <3>2. CASE agent'[m] = agent[m]
      BY <3>1, <3>2
    <3>3. CASE m = n /\ agent'[n] = "up"
      <4>1. CASE s = "rescan"
        BY <2>2, <3>2, <3>3, <4>1 DEF ThreadsOK
      <4>2. CASE s # "rescan"
        <5>1. thread[m][s].pc # "resync"
          BY <3>1, <4>2 DEF InOrder, Calls, Publishes, Thread
        <5>. QED  BY <3>1, <3>3, <5>1 DEF InOrder
      <4>. QED  BY <4>1, <4>2
    <3>. QED  BY <3>2, <3>3 DEF ThreadsOK
  <2>. QED  BY <2>1, <2>2
<1>. QED  BY <1>1, <1>3, <1>4 DEF ThreadsOK, GoroutinesInOrder

(* Goto within a goroutine's calls.  The phase is carried to the upsert.   *)
LEMMA Gotos ==
  ASSUME ThreadsOK, NEW n \in Node, NEW t \in Thread, NEW pc \in Pc,
         Goto(n, t, pc),
         agent' = agent \/ (t = "rescan" /\ agent' = [agent EXCEPT ![n] = "up"]),
         pc \in Calls[t],
         agent'[n] = "sync" /\ t # "rescan" => pc = "idle",
         agent'[n] = "down" => pc \in {"idle", "renew"},
         pc = "resync" => agent'[n] = "sync",
         pc # "create",
         pc = "upsert" => /\ thread[n][t].phase # "Stale"
                          /\ t = "claim" => thread[n][t].phase = "Origin"
  PROVE  ThreadsOK'
<1>. DEFINE phase == IF pc \in {"upsert", "renew"} THEN thread[n][t].phase ELSE "Stale"
<1>1. phase \in Phase
  BY DEF ThreadsOK, Run, Phase
<1>2. Decide(n, t, pc, phase)
  BY DEF Goto
<1>3. InOrder(agent'[n], t, [pc |-> pc, phase |-> phase])
  BY DEF InOrder
<1>. HIDE DEF phase
<1>. QED  BY <1>1, <1>2, <1>3, Decides

(* Where a goroutine goes on when PublishAppeared or markStale is over.    *)
LEMMA GoesOn ==
  ASSUME ThreadsOK, NEW n \in Node, NEW t \in Thread, thread[n][t].pc # "idle" \/ agent[n] = "up",
         Goto(n, t, After(n, t)), UNCHANGED agent
  PROVE  ThreadsOK'
<1>1. agent[n] \in {"down", "sync", "up"} /\ InOrder(agent[n], t, thread[n][t])
  BY DEF ThreadsOK, GoroutinesInOrder
<1>2. CASE agent[n] = "down"
  <2>1. After(n, t) = "idle"
    BY <1>2 DEF After
  <2>2. "idle" \in Calls[t] /\ "idle" \in Pc
    BY DEF Calls, Publishes, Thread, Pc
  <2>. QED  BY <2>1, <2>2, Gotos
<1>3. CASE agent[n] = "sync"
  <2>1. After(n, t) = "resync"
    BY <1>3 DEF After
  <2>2. t = "rescan"
    BY <1>1, <1>3 DEF InOrder
  <2>3. "resync" \in Calls[t] /\ "resync" \in Pc
    BY <2>2 DEF Calls, Publishes, Pc
  <2>. QED  BY <1>3, <2>1, <2>2, <2>3, Gotos
<1>4. CASE agent[n] = "up"
  <2>1. After(n, t) = IF t = "rescan" THEN "observe" ELSE "idle"
    BY <1>4 DEF After
  <2>2. After(n, t) \in Calls[t] /\ After(n, t) \in Pc
    BY <2>1 DEF Calls, Publishes, Thread, Pc
  <2>. QED  BY <1>4, <2>1, <2>2, Gotos
<1>. QED  BY <1>1, <1>2, <1>3, <1>4

(* Taking a copy for the origin, by a goroutine that publishes.            *)
LEMMA TakesForOrigin ==
  ASSUME ThreadsOK, NEW n \in Node, NEW t \in Thread, thread[n][t].pc = "classify",
         TakeForOrigin(n, t), UNCHANGED agent
  PROVE  ThreadsOK'
<1>1. agent[n] \in {"down", "sync", "up"} /\ InOrder(agent[n], t, thread[n][t])
  BY DEF ThreadsOK, GoroutinesInOrder
<1>2. /\ t \in {"watch", "rescan"} /\ agent[n] # "down"
      /\ agent[n] = "sync" => t = "rescan"
  BY <1>1 DEF InOrder, Calls, Thread
<1>3. {"stale", "create"} \subseteq Calls[t] /\ {"stale", "create"} \subseteq Pc
  BY <1>2 DEF Calls, Publishes, Pc
<1>4. CASE Goto(n, t, "stale")
  BY <1>2, <1>3, <1>4, Gotos
<1>5. CASE Decide(n, t, "create", "Origin")
  <2>1. InOrder(agent'[n], t, [pc |-> "create", phase |-> "Origin"])
    BY <1>2, <1>3 DEF InOrder
  <2>2. "create" \in Pc /\ "Origin" \in Phase
    BY DEF Pc, Phase
  <2>. QED  BY <1>5, <2>1, <2>2, Decides
<1>. QED  BY <1>4, <1>5 DEF TakeForOrigin

(* The first reads of PublishAppeared, by the dispatcher or the rescan.    *)
LEMMA Begins ==
  ASSUME ThreadsOK, NEW n \in Node, NEW t \in {"watch", "rescan"},
         agent[n] = "up" \/ (agent[n] = "sync" /\ t = "rescan" /\ thread[n][t].pc # "idle"),
         BeginPublish(n, t), UNCHANGED agent
  PROVE  ThreadsOK'
<1>1. Goto(n, t, After(n, t)) \/ Goto(n, t, "stale") \/ Goto(n, t, "classify")
  BY DEF BeginPublish, heldFlow
<1>2. {"stale", "classify"} \subseteq Calls[t] /\ {"stale", "classify"} \subseteq Pc /\ t \in Thread
  BY DEF Calls, Publishes, Pc, Thread
<1>3. CASE Goto(n, t, After(n, t))
  BY <1>2, <1>3, GoesOn
<1>4. CASE Goto(n, t, "stale")
  BY <1>2, <1>4, Gotos
<1>5. CASE Goto(n, t, "classify")
  BY <1>2, <1>5, Gotos
<1>. QED  BY <1>1, <1>3, <1>4, <1>5

-----------------------------------------------------------------------------
(* The steps.                                                              *)

LEMMA InitInv == Init => Inv
<1>. SUFFICES ASSUME Init PROVE Inv
  OBVIOUS
<1>1. DiskOK
  <2>1. [dir |-> "none", producer |-> FALSE, gateway |-> FALSE] \in Disk
    BY DEF Disk
  <2>2. <<>> \in Seq({"appeared", "vanished"})
    OBVIOUS
  <2>. QED  BY <2>1, <2>2 DEF Init, DiskOK
<1>2. FlowOK /\ lease \in [Node -> Lease]
  BY EmptyTypes DEF Init, FlowOK, NoStrayLocation
<1>3. ThreadsOK
  <2>1. ASSUME NEW t \in Thread PROVE InOrder("down", t, Idle)
    BY DEF InOrder, Idle, Calls, Publishes, Thread, Pc
  <2>. QED  BY <2>1, EmptyTypes DEF Init, ThreadsOK, GoroutinesInOrder
<1>4. CountsOK
  BY Constants DEF Init, CountsOK
<1>. QED  BY <1>1, <1>2, <1>3, <1>4, Parts

(* PublishAppeared and markStale, whichever goroutine runs them.           *)
LEMMA PublishInv ==
  ASSUME Inv, NEW n \in Node, NEW t \in Thread, Publish(n, t)
  PROVE  Inv'
<1>1. DiskOK /\ FlowOK /\ lease \in [Node -> Lease] /\ ThreadsOK /\ CountsOK
  BY Parts
<1>2. DiskOK' /\ CountsOK' /\ UNCHANGED agent
  BY <1>1, KeepsDisk, KeepsCounts
     DEF Publish, Classify, Create, Upsert, RenewLease, MarkStale, ReleaseLease, diskVars
<1>3. /\ agent[n] \in {"down", "sync", "up"} /\ InOrder(agent[n], t, thread[n][t])
      /\ thread[n][t].phase \in Phase
  BY <1>1 DEF ThreadsOK, GoroutinesInOrder, Run
<1>4. CASE Classify(n, t)
  <2>1. ThreadsOK'
    <3>1. CASE TakeForOrigin(n, t)
      BY <1>1, <1>2, <1>4, <3>1, TakesForOrigin DEF Classify, At
    <3>2. CASE Decide(n, t, "upsert", "Ready")
      <4>1. thread[n][t].pc = "classify"
        BY <1>4 DEF Classify, At
      <4>2. InOrder(agent'[n], t, [pc |-> "upsert", phase |-> "Ready"])
        BY <1>2, <1>3, <4>1 DEF InOrder, Calls, Publishes, Thread, Pc
      <4>3. "upsert" \in Pc /\ "Ready" \in Phase
        BY DEF Pc, Phase
      <4>. QED  BY <1>1, <1>2, <3>2, <4>2, <4>3, Decides
    <3>. QED  BY <1>4, <3>1, <3>2 DEF Classify
  <2>2. FlowOK' /\ lease' \in [Node -> Lease]
    BY <1>1, <1>4, KeepsFlow DEF Classify, apiVars
  <2>. QED  BY <1>2, <2>1, <2>2, PartsAfter
<1>5. CASE Create(n, t)
  <2>1. FlowOK' /\ lease' \in [Node -> Lease]
    BY <1>1, <1>5, EmptyTypes DEF Create, FlowOK, NoStrayLocation
  <2>2. thread[n][t].pc = "create"
    BY <1>5 DEF Create, At
  <2>3. /\ "upsert" \in Calls[t] /\ "upsert" \in Pc
        /\ agent[n] # "down" /\ (agent[n] = "sync" => t = "rescan")
        /\ thread[n][t].phase # "Stale" /\ t # "claim"
    BY <1>3, <2>2 DEF InOrder, Calls, Publishes, Thread, Pc
  <2>4. ThreadsOK'
    BY <1>1, <1>2, <1>5, <2>3, Gotos DEF Create
  <2>. QED  BY <1>2, <2>1, <2>4, PartsAfter
<1>6. CASE Upsert(n, t)
  <2>1. FlowOK' /\ lease' \in [Node -> Lease]
    BY <1>1, <1>3, <1>6, Upserts DEF Upsert
  <2>2. thread[n][t].pc = "upsert"
    BY <1>6 DEF Upsert, At
  <2>3. /\ "renew" \in Calls[t] /\ "renew" \in Pc
        /\ agent[n] # "down" /\ (agent[n] = "sync" => t = "rescan")
    BY <1>3, <2>2 DEF InOrder, Calls, Publishes, Thread, Pc
  <2>4. CASE Goto(n, t, "renew")
    <3>1. ThreadsOK'
      BY <1>1, <1>2, <2>3, <2>4, Gotos
    <3>. QED  BY <1>2, <2>1, <3>1, PartsAfter
  <2>5. CASE Goto(n, t, After(n, t))
    <3>1. ThreadsOK'
      BY <1>1, <1>2, <2>2, <2>5, GoesOn
    <3>. QED  BY <1>2, <2>1, <3>1, PartsAfter
  <2>. QED  BY <1>6, <2>4, <2>5 DEF Upsert
<1>7. CASE RenewLease(n, t) \/ ReleaseLease(n, t)
  <2>1. FlowOK' /\ lease' \in [Node -> Lease]
    BY <1>1, <1>7, KeepsFlow, LeaseWrites DEF RenewLease, ReleaseLease
  <2>2. thread[n][t].pc # "idle" /\ Goto(n, t, After(n, t))
    BY <1>7 DEF RenewLease, ReleaseLease, At
  <2>3. ThreadsOK'
    BY <1>1, <1>2, <2>2, GoesOn
  <2>. QED  BY <1>2, <2>1, <2>3, PartsAfter
<1>8. CASE MarkStale(n, t)
  <2>1. "Stale" \in Phase
    BY DEF Phase
  <2>2. FlowOK' /\ lease' \in [Node -> Lease]
    BY <1>1, <1>8, <2>1, Upserts DEF MarkStale
  <2>3. thread[n][t].pc = "stale"
    BY <1>8 DEF MarkStale, At
  <2>4. /\ "release" \in Calls[t] /\ "release" \in Pc
        /\ agent[n] # "down" /\ (agent[n] = "sync" => t = "rescan")
    BY <1>3, <2>3 DEF InOrder, Calls, Publishes, Thread, Pc
  <2>5. ThreadsOK'
    BY <1>1, <1>2, <1>8, <2>4, Gotos DEF MarkStale
  <2>. QED  BY <1>2, <2>2, <2>5, PartsAfter
<1>. QED  BY <1>4, <1>5, <1>6, <1>7, <1>8 DEF Publish

(* The end of a demotion.                                                  *)
LEMMA Demotes ==
  ASSUME ThreadsOK, NEW n \in Node, Demoted(n)
  PROVE  ThreadsOK'
<1>1. "idle" \in Calls["rescan"] /\ "idle" \in Pc /\ "rescan" \in Thread
  BY DEF Calls, Pc, Thread
<1>2. agent'[n] = "up"
  BY DEF Demoted, ThreadsOK
<1>. QED  BY <1>1, <1>2, Gotos DEF Demoted

LEMMA DispatchInv ==
  ASSUME Inv, NEW n \in Node, Dispatch(n)
  PROVE  Inv'
<1>1. DiskOK /\ FlowOK /\ lease \in [Node -> Lease] /\ ThreadsOK /\ CountsOK
  BY Parts
<1>2. FlowOK' /\ CountsOK' /\ lease' \in [Node -> Lease]
  BY <1>1, KeepsFlow, KeepsCounts DEF Dispatch, apiVars
<1>3. DiskOK'
  <2>1. Tail(events[n]) \in Seq({"appeared", "vanished"})
    BY <1>1 DEF Dispatch, DiskOK
  <2>. QED  BY <1>1, <2>1 DEF Dispatch, DiskOK
<1>4. ThreadsOK'
  <2>1. "watch" \in {"watch", "rescan"} /\ "watch" \in Thread /\ "stale" \in Calls["watch"] /\ "stale" \in Pc
    BY DEF Thread, Calls, Publishes, Pc
  <2>2. CASE BeginPublish(n, "watch")
    BY <1>1, <2>1, <2>2, Begins DEF Dispatch
  <2>3. CASE Goto(n, "watch", "stale")
    BY <1>1, <2>1, <2>3, Gotos DEF Dispatch
  <2>. QED  BY <2>2, <2>3 DEF Dispatch
<1>. QED  BY <1>2, <1>3, <1>4, PartsAfter

(* The rescan and InitialSync.                                             *)
LEMMA RescanInv ==
  ASSUME Inv, NEW n \in Node,
         Resync(n) \/ Rescan(n) \/ Promote(n) \/ Observe(n)
           \/ Demote(n) \/ DemoteUpsert(n) \/ DemoteRelease(n)
  PROVE  Inv'
<1>1. DiskOK /\ FlowOK /\ lease \in [Node -> Lease] /\ ThreadsOK /\ CountsOK
  BY Parts
<1>2. DiskOK' /\ CountsOK'
  BY <1>1, KeepsDisk, KeepsCounts
     DEF Resync, Rescan, Promote, Observe, Demote, DemoteUpsert, DemoteRelease, diskVars
<1>3. FlowOK' /\ lease' \in [Node -> Lease]
  <2>1. CASE DemoteUpsert(n)
    <3>1. "Stale" \in Phase
      BY DEF Phase
    <3>. QED  BY <1>1, <2>1, <3>1, Upserts DEF DemoteUpsert
  <2>2. CASE DemoteRelease(n)
    BY <1>1, <2>2, KeepsFlow, LeaseWrites DEF DemoteRelease
  <2>3. CASE Resync(n) \/ Rescan(n) \/ Promote(n) \/ Observe(n) \/ Demote(n)
    BY <1>1, <2>3, KeepsFlow DEF Resync, Rescan, Promote, Observe, Demote, apiVars
  <2>. QED  BY <2>1, <2>2, <2>3
<1>4. /\ "rescan" \in Thread /\ Calls["rescan"] = Pc \ {"claim"}
      /\ {"idle", "demote", "promote", "observe", "demoteUpsert", "demoteRelease"} \subseteq Pc
  BY DEF Thread, Calls, Pc
<1>5. agent[n] \in {"down", "sync", "up"} /\ InOrder(agent[n], "rescan", thread[n]["rescan"])
  BY <1>1, <1>4 DEF ThreadsOK, GoroutinesInOrder
<1>6. thread[n]["rescan"].pc \notin {"idle", "renew"} => agent[n] # "down"
  BY <1>5 DEF InOrder
<1>7. ThreadsOK'
  <2>1. CASE Resync(n)
    <3>1. CASE Demoted(n)
      BY <1>1, <3>1, Demotes
    <3>2. CASE Goto(n, "rescan", "demote") /\ UNCHANGED agent
      BY <1>1, <1>4, <1>6, <2>1, <3>2, Gotos DEF Resync, At
    <3>. QED  BY <2>1, <3>1, <3>2 DEF Resync, Demoted
  <2>2. CASE Rescan(n)
    <3>1. CASE Goto(n, "rescan", "promote")
      BY <1>1, <1>4, <2>2, <3>1, Gotos DEF Rescan
    <3>2. CASE Goto(n, "rescan", "demote")
      BY <1>1, <1>4, <2>2, <3>2, Gotos DEF Rescan
    <3>. QED  BY <2>2, <3>1, <3>2 DEF Rescan
  <2>3. CASE Demote(n)
    <3>1. CASE Demoted(n)
      BY <1>1, <3>1, Demotes
    <3>2. CASE Goto(n, "rescan", "demoteUpsert") /\ UNCHANGED agent
      BY <1>1, <1>4, <1>6, <2>3, <3>2, Gotos DEF Demote, At
    <3>. QED  BY <2>3, <3>1, <3>2 DEF Demote
  <2>4. CASE DemoteUpsert(n)
    BY <1>1, <1>4, <1>6, <2>4, Gotos DEF DemoteUpsert, At
  <2>5. CASE DemoteRelease(n)
    BY <1>1, <2>5, Demotes DEF DemoteRelease
  <2>6. CASE Promote(n)
    <3>1. CASE Goto(n, "rescan", "observe")
      BY <1>1, <1>4, <1>6, <2>6, <3>1, Gotos DEF Promote, At
    <3>2. CASE BeginPublish(n, "rescan")
      BY <1>1, <1>4, <1>5, <1>6, <2>6, <3>2, Begins DEF Promote, At
    <3>. QED  BY <2>6, <3>1, <3>2 DEF Promote
  <2>7. CASE Observe(n)
    BY <1>1, <1>4, <1>6, <2>7, Gotos DEF Observe, At
  <2>. QED  BY <2>1, <2>2, <2>3, <2>4, <2>5, <2>6, <2>7
<1>. QED  BY <1>2, <1>3, <1>7, PartsAfter

(* The renew loop and the claim.                                           *)
LEMMA RenewClaimInv ==
  ASSUME Inv, NEW n \in Node, RenewTick(n) \/ Claim(n)
  PROVE  Inv'
<1>1. DiskOK /\ FlowOK /\ lease \in [Node -> Lease] /\ ThreadsOK /\ CountsOK
  BY Parts
<1>2. DiskOK' /\ CountsOK' /\ FlowOK' /\ lease' \in [Node -> Lease] /\ UNCHANGED agent
  BY <1>1, KeepsDisk, KeepsCounts, KeepsFlow DEF RenewTick, Claim, diskVars, apiVars
<1>3. /\ "renew" \in Thread /\ "claim" \in Thread /\ {"idle", "renew", "upsert"} \subseteq Pc
      /\ "renew" \in Calls["renew"] /\ {"idle", "upsert"} \subseteq Calls["claim"]
      /\ "Origin" \in Phase
  BY DEF Thread, Calls, Pc, Phase
<1>4. CASE RenewTick(n)
  <2>1. ThreadsOK'
    BY <1>1, <1>2, <1>3, <1>4, Gotos DEF RenewTick, Renews
  <2>. QED  BY <1>2, <2>1, PartsAfter
<1>5. CASE Claim(n)
  <2>1. CASE Goto(n, "claim", "idle")
    <3>1. ThreadsOK'
      BY <1>1, <1>2, <1>3, <2>1, Gotos
    <3>. QED  BY <1>2, <3>1, PartsAfter
  <2>2. CASE Decide(n, "claim", "upsert", "Origin")
    <3>1. thread[n]["claim"].pc = "claim" /\ InOrder(agent[n], "claim", thread[n]["claim"])
      BY <1>1, <1>3, <1>5 DEF Claim, At, ThreadsOK, GoroutinesInOrder
    <3>2. InOrder(agent'[n], "claim", [pc |-> "upsert", phase |-> "Origin"])
      BY <1>2, <1>3, <3>1 DEF InOrder
    <3>3. ThreadsOK'
      BY <1>1, <1>2, <1>3, <2>2, <3>2, Decides
    <3>. QED  BY <1>2, <3>3, PartsAfter
  <2>. QED  BY <1>5, <2>1, <2>2 DEF Claim
<1>. QED  BY <1>4, <1>5

(* A failed call.                                                          *)
LEMMA FaultInv ==
  ASSUME Inv, NEW n \in Node, NEW t \in Thread, Fault(n, t)
  PROVE  Inv'
<1>1. DiskOK /\ FlowOK /\ lease \in [Node -> Lease] /\ ThreadsOK /\ CountsOK
  BY Parts
<1>2. DiskOK' /\ FlowOK' /\ lease' \in [Node -> Lease]
  BY <1>1, KeepsDisk, KeepsFlow DEF Fault, diskVars, apiVars
<1>3. CountsOK'
  BY <1>1, Constants DEF Fault, CountsOK
<1>4. /\ agent[n] \in {"down", "sync", "up"} /\ InOrder(agent[n], t, thread[n][t])
      /\ "rescan" \in Thread
  BY <1>1 DEF ThreadsOK, GoroutinesInOrder, Thread
<1>5. ThreadsOK'
  <2>1. CASE /\ thread[n][t].pc \in {"create", "upsert", "renew", "stale", "release"}
             /\ Goto(n, t, After(n, t)) /\ UNCHANGED agent
    BY <1>1, <2>1, GoesOn
  <2>2. CASE At(n, t, "classify") /\ TakeForOrigin(n, t) /\ UNCHANGED agent
    BY <1>1, <2>2, TakesForOrigin DEF At
  <2>3. CASE At(n, t, "demoteUpsert") /\ Goto(n, t, "demoteRelease") /\ UNCHANGED agent
    <3>1. /\ t = "rescan" /\ agent[n] # "down"
          /\ "demoteRelease" \in Calls[t] /\ "demoteRelease" \in Pc
      BY <1>4, <2>3 DEF At, InOrder, Calls, Publishes, Thread, Pc
    <3>. QED  BY <1>1, <2>3, <3>1, Gotos
  <2>4. CASE thread[n][t].pc \in {"demote", "demoteRelease"} /\ Demoted(n)
    BY <1>1, <2>4, Demotes
  <2>5. CASE At(n, t, "promote") /\ Goto(n, t, "observe") /\ UNCHANGED agent
    <3>1. t = "rescan" /\ agent[n] # "down" /\ "observe" \in Calls[t] /\ "observe" \in Pc
      BY <1>4, <2>5 DEF At, InOrder, Calls, Publishes, Thread, Pc
    <3>. QED  BY <1>1, <2>5, <3>1, Gotos
  <2>6. CASE /\ thread[n][t].pc \in {"observe", "claim"} /\ Goto(n, t, "idle")
             /\ UNCHANGED agent
    <3>1. "idle" \in Calls[t] /\ "idle" \in Pc
      BY DEF Calls, Publishes, Thread, Pc
    <3>. QED  BY <1>1, <2>6, <3>1, Gotos
  <2>. QED  BY <2>1, <2>2, <2>3, <2>4, <2>5, <2>6 DEF Fault
<1>. QED  BY <1>2, <1>3, <1>5, PartsAfter

(* What fanotify reports.                                                  *)
LEMMA Reports ==
  ASSUME DiskOK, NEW n \in Node, NEW e \in {"appeared", "vanished"},
         Report(n, e) \/ Unreported
  PROVE  events' \in [Node -> Seq({"appeared", "vanished"})]
<1>1. Append(events[n], e) \in Seq({"appeared", "vanished"})
  BY DEF DiskOK
<1>. QED  BY <1>1 DEF Report, Unreported, DiskOK

(* What writers and the sweep make of a directory.                         *)
LEMMA DirectoryTypes ==
  ASSUME NEW d \in Disk
  PROVE  /\ [d EXCEPT !.producer = TRUE, !.dir = "flow"] \in Disk
         /\ [d EXCEPT !.gateway = TRUE, !.dir = "flow"] \in Disk
         /\ [d EXCEPT !.gateway = TRUE, !.dir = "placeholder"] \in Disk
         /\ [d EXCEPT !.producer = FALSE] \in Disk
         /\ [d EXCEPT !.gateway = FALSE] \in Disk
         /\ [d EXCEPT !.dir = "none"] \in Disk
BY DEF Disk

(* Producers, mirrors, gateways and sweeps.                                *)
LEMMA DomainInv ==
  ASSUME Inv, NEW n \in Node, Domain(n)
  PROVE  Inv'
<1>. USE DEF Domain, ProducerAttaches, ProducerDetaches, Swept, MirrorCreated, MirrorDeleted,
             MirrorGone, GatewayFills, GatewayHolds, GatewayCloses
<1>1. DiskOK /\ FlowOK /\ lease \in [Node -> Lease] /\ ThreadsOK /\ CountsOK
  BY Parts
<1>2. FlowOK' /\ lease' \in [Node -> Lease]
  BY <1>1, KeepsFlow DEF apiVars
<1>3. CountsOK'
  BY <1>1, KeepsCounts, MoveCounts
<1>4. events' \in [Node -> Seq({"appeared", "vanished"})]
  BY <1>1, Reports DEF DiskOK, Unreported
<1>5. mirror' \in [Node -> {"absent", "present", "deleting"}]
  BY <1>1 DEF DiskOK
<1>6. disk' \in [Node -> Disk]
  <2>1. disk \in [Node -> Disk] /\ disk[n] \in Disk
    BY <1>1 DEF DiskOK
  <2>2. \/ UNCHANGED disk
        \/ \E d \in Disk : disk' = [disk EXCEPT ![n] = d]
    BY <2>1, DirectoryTypes, Zenon
  <2>. QED  BY <2>1, <2>2
<1>7. ThreadsOK'
  <2>1. CASE UNCHANGED thread
    BY <1>1, <2>1, KeepsThreads
  <2>2. CASE Goto(n, "claim", "claim") /\ agent[n] = "up" /\ UNCHANGED agent
    <3>1. "claim" \in Thread /\ "claim" \in Calls["claim"] /\ "claim" \in Pc
      BY DEF Thread, Calls, Pc
    <3>. QED  BY <1>1, <2>2, <3>1, Gotos
  <2>. QED  BY <2>1, <2>2
<1>. QED  BY <1>2, <1>3, <1>4, <1>5, <1>6, <1>7, PartsAfter DEF DiskOK

(* InitialSync begins when nothing of a former agent is on its way.        *)
LEMMA StartInv ==
  ASSUME Inv, NEW n \in Node, Start(n)
  PROVE  Inv'
<1>1. DiskOK /\ FlowOK /\ lease \in [Node -> Lease] /\ ThreadsOK /\ CountsOK
  BY Parts
<1>2. DiskOK' /\ CountsOK' /\ FlowOK' /\ lease' \in [Node -> Lease]
  BY <1>1, KeepsDisk, KeepsCounts, KeepsFlow DEF Start, diskVars, apiVars
<1>3. PICK pc \in {"demote", "stale", "classify"} : Goto(n, "rescan", pc)
  BY DEF Start, heldFlow
<1>4. thread' = [thread EXCEPT ![n]["rescan"] = [pc |-> pc, phase |-> "Stale"]]
  BY <1>3 DEF Goto, Decide
<1>5. [pc |-> pc, phase |-> "Stale"] \in Run /\ "rescan" \in Thread
  BY <1>3 DEF Run, Pc, Phase, Thread
<1>6. thread' \in [Node -> [Thread -> Run]] /\ agent' \in [Node -> {"down", "sync", "up"}]
  BY <1>1, <1>4, <1>5 DEF ThreadsOK, Start
<1>7. ASSUME NEW m \in Node, NEW t \in Thread
      PROVE  InOrder(agent'[m], t, thread'[m][t])
  <2>1. InOrder(agent[m], t, thread[m][t])
    BY <1>1 DEF ThreadsOK, GoroutinesInOrder
  <2>2. CASE m # n
    <3>1. agent'[m] = agent[m] /\ thread'[m][t] = thread[m][t]
      BY <1>1, <1>4, <2>2 DEF ThreadsOK, Start
    <3>. QED  BY <2>1, <3>1
  <2>3. CASE m = n /\ t # "rescan"
    <3>1. agent'[m] = "sync" /\ thread'[m][t] = thread[m][t] /\ thread[m][t].pc = "idle"
      BY <1>1, <1>4, <2>3 DEF ThreadsOK, Start, At
    <3>. QED  BY <2>1, <3>1 DEF InOrder
  <2>4. CASE m = n /\ t = "rescan"
    <3>1. agent'[m] = "sync" /\ thread'[m][t] = [pc |-> pc, phase |-> "Stale"]
      BY <1>1, <1>4, <1>5, <2>4 DEF ThreadsOK, Start
    <3>. QED  BY <1>3, <2>4, <3>1 DEF InOrder, Calls, Pc
  <2>. QED  BY <2>2, <2>3, <2>4
<1>. QED  BY <1>2, <1>6, <1>7, PartsAfter DEF ThreadsOK, GoroutinesInOrder

(* An agent that stops leaves renewals on their way, and nothing else.     *)
LEMMA StopInv ==
  ASSUME Inv, NEW n \in Node, Crash(n) \/ Shutdown(n)
  PROVE  Inv'
<1>1. DiskOK /\ FlowOK /\ lease \in [Node -> Lease] /\ ThreadsOK /\ CountsOK
  BY Parts
<1>2. CountsOK' /\ FlowOK'
  BY <1>1, MoveCounts, KeepsFlow DEF Crash, Shutdown, apiVars
<1>3. lease' \in [Node -> Lease]
  BY <1>1, LeaseWrites DEF Crash, Shutdown, apiVars
<1>4. Stopped(n) /\ UNCHANGED <<disk, mirror>>
  BY DEF Crash, Shutdown
<1>5. DiskOK'
  <2>1. <<>> \in Seq({"appeared", "vanished"})
    OBVIOUS
  <2>. QED  BY <1>1, <1>4, <2>1 DEF Stopped, DiskOK
<1>6. PICK sent \in SUBSET {t \in Thread : At(n, t, "renew")} :
        thread' = [thread EXCEPT ![n] =
                     [t \in Thread |-> IF t \in sent THEN [Idle EXCEPT !.pc = "renew"] ELSE Idle]]
  BY <1>4 DEF Stopped
<1>. DEFINE left == [t \in Thread |-> IF t \in sent THEN [Idle EXCEPT !.pc = "renew"] ELSE Idle]
<1>7. left \in [Thread -> Run]
  BY EmptyTypes
<1>8. thread' \in [Node -> [Thread -> Run]] /\ agent' \in [Node -> {"down", "sync", "up"}]
  BY <1>1, <1>4, <1>6, <1>7 DEF ThreadsOK, Stopped
<1>9. ASSUME NEW m \in Node, NEW t \in Thread
      PROVE  InOrder(agent'[m], t, thread'[m][t])
  <2>1. InOrder(agent[m], t, thread[m][t])
    BY <1>1 DEF ThreadsOK, GoroutinesInOrder
  <2>2. CASE m # n
    <3>1. agent'[m] = agent[m] /\ thread'[m][t] = thread[m][t]
      BY <1>1, <1>4, <1>6, <2>2 DEF ThreadsOK, Stopped
    <3>. QED  BY <2>1, <3>1
  <2>3. CASE m = n
    <3>1. agent'[m] = "down" /\ thread'[m][t] = left[t]
      BY <1>1, <1>4, <1>6, <2>3 DEF ThreadsOK, Stopped
    <3>2. left[t].pc \in {"idle", "renew"} /\ (left[t].pc = "renew" => t \in sent)
      BY DEF Idle
    <3>3. t \in sent => "renew" \in Calls[t]
      BY <2>1, <2>3 DEF InOrder, At
    <3>4. "idle" \in Calls[t]
      BY DEF Calls, Publishes, Thread, Pc
    <3>. HIDE DEF left
    <3>. QED  BY <3>1, <3>2, <3>3, <3>4 DEF InOrder
  <2>. QED  BY <2>2, <2>3
<1>. QED  BY <1>2, <1>3, <1>5, <1>8, <1>9, PartsAfter DEF ThreadsOK, GoroutinesInOrder

LEMMA FlowDeletedInv == ASSUME Inv, FlowDeleted PROVE Inv'
<1>1. DiskOK /\ FlowOK /\ lease \in [Node -> Lease] /\ ThreadsOK /\ CountsOK
  BY Parts
<1>2. DiskOK' /\ ThreadsOK' /\ lease' \in [Node -> Lease] /\ CountsOK'
  BY <1>1, KeepsDisk, KeepsThreads, MoveCounts DEF FlowDeleted, diskVars
<1>3. FlowOK'
  BY EmptyTypes DEF FlowDeleted, FlowOK, NoStrayLocation
<1>. QED  BY <1>2, <1>3, PartsAfter

LEMMA TickInv == ASSUME Inv, Tick PROVE Inv'
<1>1. DiskOK /\ FlowOK /\ lease \in [Node -> Lease] /\ ThreadsOK /\ CountsOK
  BY Parts
<1>2. DiskOK' /\ ThreadsOK' /\ FlowOK' /\ CountsOK'
  BY <1>1, KeepsDisk, KeepsThreads, KeepsFlow, KeepsCounts DEF Tick, diskVars
<1>3. ASSUME NEW n \in Node
      PROVE  [lease[n] EXCEPT !.left = IF @ > 0 THEN @ - 1 ELSE 0] \in Lease
  BY <1>1, Constants DEF Lease
<1>4. lease' \in [Node -> Lease]
  BY <1>3 DEF Tick
<1>. QED  BY <1>2, <1>4, PartsAfter

LEMMA NextInv == Inv /\ [Next]_vars => Inv'
<1>. SUFFICES ASSUME Inv, [Next]_vars PROVE Inv'
  OBVIOUS
<1>1. ASSUME NEW n \in Node, NEW t \in Thread, Goroutine(n, t) PROVE Inv'
  BY <1>1, PublishInv, DispatchInv, RescanInv, RenewClaimInv DEF Goroutine
<1>2. ASSUME NEW n \in Node, NEW t \in Thread, Fault(n, t) PROVE Inv'
  BY <1>2, FaultInv
<1>3. ASSUME NEW n \in Node, Start(n) \/ Crash(n) \/ Shutdown(n) \/ Domain(n) PROVE Inv'
  BY <1>3, StartInv, StopInv, DomainInv
<1>4. CASE UNCHANGED vars
  <2>1. UNCHANGED <<disk, mirror, events, flow, lease, agent, thread, moves, faults>>
    BY <1>4 DEF vars, diskVars, apiVars
  <2>. QED  BY <2>1, Parts, PartsAfter, KeepsDisk, KeepsFlow, KeepsThreads, KeepsCounts
<1>. QED  BY <1>1, <1>2, <1>3, <1>4, FlowDeletedInv, TickInv DEF Next

LEMMA Invariance == Spec => []Inv
BY InitInv, NextInv, PTL DEF Spec

-----------------------------------------------------------------------------
(* The theorems.                                                           *)

(* Every variable of the publication keeps its type: no goroutine makes a  *)
(* call that is not one of its own or carries a phase there is not, and a  *)
(* Lease never runs longer than its window.                                *)
THEOREM PublisherTypeCorrect == Spec => []TypeOK
BY Invariance, PTL DEF Inv

(* The goroutines keep to their code: InitialSync runs alone, an agent     *)
(* that stopped has at most renewals on their way, and nothing is upserted *)
(* as Stale that was found held.                                           *)
THEOREM GoroutinesKeepOrder == Spec => []GoroutinesInOrder
BY Invariance, PTL DEF Inv

(* No upsert brings back a location of a flow that was deleted meanwhile:  *)
(* only a Create makes the flow again.                                     *)
THEOREM NoLocationWithoutFlow == Spec => []NoStrayLocation
BY Invariance, PTL DEF Inv

=============================================================================
