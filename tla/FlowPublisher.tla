---------------------------- MODULE FlowPublisher ----------------------------
(***************************************************************************)
(* The agents' publication of one flow: agent/internal/flowpublisher over  *)
(* agent/internal/originlease and agent/internal/flowlock.                 *)
(*                                                                         *)
(* On every node four goroutines of the agent read the domain directory    *)
(* and write the MxlFlow's location for the node and the origin Lease: the *)
(* dispatcher of fanotify events (here those of placeholder markers too),  *)
(* the rescan (which stands for InitialSync at start-up), the renew loop,  *)
(* and the claim of a producer the shim reported.                          *)
(* They share no lock: a decision is taken on what the disk and the API    *)
(* showed, and written call by call.  A step is one read of the disk or    *)
(* one call of the API; a read-modify-write under RetryOnConflict is one   *)
(* step, which succeeds on the stored object or fails (Fault).             *)
(*                                                                         *)
(* The definition of the flow and the time stamps of a location are left   *)
(* out, and with them what the writes of those alone change.               *)
(***************************************************************************)
EXTENDS Naturals, Sequences, FiniteSets

CONSTANTS
  Node,
  Mxlfs,      \* the domain is on mxlfs: writers have pids, placeholders exist
  Window,     \* ticks a Lease is valid after a renewal
  MaxMoves,   \* bound: producers, mirrors and agents coming and going
  MaxFaults,  \* bound: API calls that fail
  MaxEvents   \* bound: fanotify events waiting

ASSUME PublisherAssumption ==
  /\ Mxlfs \in BOOLEAN
  /\ Window \in Nat \ {0}
  /\ MaxMoves \in Nat /\ MaxFaults \in Nat /\ MaxEvents \in Nat

VARIABLES
  disk,        \* the flow's directory and who holds a writer's lock in it
  mirror,      \* the mirror that targets the node
  flow,        \* the MxlFlow: whether it exists, and its locations
  lease,       \* the origin Leases
  agent,       \* the agents
  thread,      \* their goroutines
  events,      \* fanotify events on their way to the dispatcher
  moves, faults

diskVars == <<disk, mirror, events>>
apiVars == <<flow, lease>>
vars == <<diskVars, apiVars, agent, thread, moves, faults>>

Thread == {"watch", "rescan", "renew", "claim"}

Phase == {"Origin", "Ready", "Stale"}

Location == Phase \cup {"none"}

NoFlow == [state |-> "absent", locs |-> [n \in Node |-> "none"]]

NewFlow == [NoFlow EXCEPT !.state = "present"]

Lease == [held : BOOLEAN, left : 0..Window]

NoLease == [held |-> FALSE, left |-> 0]

Disk == [dir : {"none", "placeholder", "flow"}, producer : BOOLEAN, gateway : BOOLEAN]

Pc == {"idle", "classify", "create", "upsert", "renew", "stale",
       "release", "resync", "demote", "demoteUpsert",
       "demoteRelease", "promote", "observe", "claim"}

Run == [pc : Pc, phase : Phase]

Idle == [pc |-> "idle", phase |-> "Stale"]

-----------------------------------------------------------------------------
(* What the API server does.                                               *)

(* Faulty variant: a renewal adds to what is left.                         *)
RenewAdding(n) == lease' = [lease EXCEPT ![n] = [held |-> TRUE, left |-> @.left + Window]]

(* Renew creates the Lease or moves its RenewTime to now.                  *)
Renew(n) == lease' = [lease EXCEPT ![n] = [held |-> TRUE, left |-> Window]]

(* Release deletes it; a missing Lease is success.                         *)
Release(n) == lease' = [lease EXCEPT ![n] = NoLease]

Fresh(n) == lease[n].held /\ lease[n].left > 0

-----------------------------------------------------------------------------
(* What the agent reads.                                                   *)

(* A writer holds the lock on the data file.                               *)
writerAttached(n) == disk[n].producer \/ disk[n].gateway

(* localFlowIDs: the directory is there and is no placeholder.             *)
localFlow(n) == disk[n].dir = "flow"

(* Faulty variant: the listing of the domain is the answer.                *)
heldFlowListed(n) == localFlow(n)

(* heldFlowIDs.                                                            *)
heldFlow(n) == localFlow(n) /\ writerAttached(n)

isMirrorTarget(n) == mirror[n] # "absent"

(* Who the writers are is known on mxlfs only.                             *)
producerWrites(n) == Mxlfs /\ disk[n].producer

onlyOursWrite(n) == Mxlfs /\ disk[n].gateway /\ ~disk[n].producer

producerTookOver(n) == flow.locs[n] \notin {"Origin", "none"} /\ producerWrites(n)

localLocationHealthy(n) == flow.locs[n] \in {"Origin", "Ready"}

(* upsertLocation: the phase the location has afterwards.  Ready does not  *)
(* overrule Origin, and Stale is not written for a node without location.  *)
Upserted(n, phase) ==
  CASE flow.state = "absent" -> "none"
    [] phase = "Ready" /\ flow.locs[n] = "Origin" -> "Origin"
    [] phase = "Stale" /\ flow.locs[n] = "none" -> "none"
    [] OTHER -> phase

upsertLocation(n, phase) ==
  flow' = [flow EXCEPT !.locs[n] = Upserted(n, phase)]

-----------------------------------------------------------------------------
(* The goroutines.                                                         *)

At(n, t, pc) == thread[n][t].pc = pc

Decide(n, t, pc, phase) ==
  thread' = [thread EXCEPT ![n][t] = [pc |-> pc, phase |-> phase]]

(* The phase to publish is carried to the end of PublishAppeared.          *)
Goto(n, t, pc) ==
  Decide(n, t, pc, IF pc \in {"upsert", "renew"}
                   THEN thread[n][t].phase ELSE "Stale")

(* Where a goroutine goes on after PublishAppeared or markStale.           *)
After(n, t) ==
  CASE agent[n] = "down" -> "idle"
    [] agent[n] = "sync" -> "resync"
    [] agent[n] = "up" -> IF t = "rescan" THEN "observe" ELSE "idle"

(* The first reads of PublishAppeared, all of the disk.                    *)
BeginPublish(n, t) ==
  CASE ~localFlow(n) -> Goto(n, t, After(n, t))
    [] localFlow(n) /\ ~writerAttached(n) -> Goto(n, t, "stale")
    [] heldFlow(n) -> Goto(n, t, "classify")

(* Origin, unless all the writers are mxl-k8s's own.                       *)
TakeForOrigin(n, t) ==
  IF onlyOursWrite(n) THEN Goto(n, t, "stale") ELSE Decide(n, t, "create", "Origin")

(* The rest of its reads: Origin unless a mirror explains the copy.        *)
Classify(n, t) ==
  /\ At(n, t, "classify")
  /\ IF isMirrorTarget(n) /\ ~producerWrites(n) THEN Decide(n, t, "upsert", "Ready")
     ELSE TakeForOrigin(n, t)
  /\ UNCHANGED <<diskVars, apiVars, agent, moves, faults>>

(* Only the Origin creates the MxlFlow.  Of one that exists it refreshes   *)
(* the definition, before it claims to be the Origin.                      *)
Create(n, t) ==
  /\ At(n, t, "create")
  /\ flow' = IF flow.state = "absent" THEN NewFlow ELSE flow
  /\ Goto(n, t, "upsert")
  /\ UNCHANGED <<diskVars, lease, agent, moves, faults>>

(* The claim renews whatever the upsert found, PublishAppeared only what   *)
(* came out as Origin.                                                     *)
Upsert(n, t) ==
  /\ At(n, t, "upsert")
  /\ upsertLocation(n, thread[n][t].phase)
  /\ IF t = "claim" \/ Upserted(n, thread[n][t].phase) = "Origin"
     THEN Goto(n, t, "renew") ELSE Goto(n, t, After(n, t))
  /\ UNCHANGED <<diskVars, lease, agent, moves, faults>>

RenewLease(n, t) ==
  /\ At(n, t, "renew")
  /\ Renew(n)
  /\ Goto(n, t, After(n, t))
  /\ UNCHANGED <<diskVars, flow, agent, moves, faults>>

(* markStale.                                                              *)
MarkStale(n, t) ==
  /\ At(n, t, "stale")
  /\ upsertLocation(n, "Stale")
  /\ Goto(n, t, "release")
  /\ UNCHANGED <<diskVars, lease, agent, moves, faults>>

ReleaseLease(n, t) ==
  /\ At(n, t, "release")
  /\ Release(n)
  /\ Goto(n, t, After(n, t))
  /\ UNCHANGED <<diskVars, flow, agent, moves, faults>>

(* runDispatcher takes the next event.                                     *)
Dispatch(n) ==
  /\ agent[n] = "up"
  /\ At(n, "watch", "idle")
  /\ events[n] # <<>>
  /\ events' = [events EXCEPT ![n] = Tail(@)]
  /\ IF Head(events[n]) = "appeared" THEN BeginPublish(n, "watch")
     ELSE Goto(n, "watch", "stale")
  /\ UNCHANGED <<disk, mirror, apiVars, agent, moves, faults>>

(* InitialSync publishes what is on disk, or goes on to demote.            *)
Start(n) ==
  /\ agent[n] = "down"
  /\ \A t \in Thread : At(n, t, "idle")
  /\ agent' = [agent EXCEPT ![n] = "sync"]
  /\ Goto(n, "rescan", CASE ~localFlow(n) -> "demote"
                        [] localFlow(n) /\ ~writerAttached(n) -> "stale"
                        [] heldFlow(n) -> "classify")
  /\ UNCHANGED <<diskVars, apiVars, moves, faults>>

(* InitialSync asks again which of the flows it published are held.        *)
Resync(n) ==
  /\ At(n, "rescan", "resync")
  /\ IF writerAttached(n) THEN Goto(n, "rescan", "idle") /\ agent' = [agent EXCEPT ![n] = "up"]
     ELSE Goto(n, "rescan", "demote") /\ UNCHANGED agent
  /\ UNCHANGED <<diskVars, apiVars, moves, faults>>

(* A tick of RunLocalRescan reads which flows are held.                    *)
Rescan(n) ==
  /\ agent[n] = "up"
  /\ At(n, "rescan", "idle")
  /\ Goto(n, "rescan", IF heldFlow(n) THEN "promote" ELSE "demote")
  /\ UNCHANGED <<diskVars, apiVars, agent, moves, faults>>

(* The end of a demotion, in the rescan and in InitialSync.                *)
Demoted(n) ==
  /\ Goto(n, "rescan", "idle")
  /\ agent' = [agent EXCEPT ![n] = "up"]

(* demoteVanishedLocalOrigins, of a flow that is not held: the list, the   *)
(* upsert and the release.                                                 *)
Demote(n) ==
  /\ At(n, "rescan", "demote")
  /\ IF flow.locs[n] \in {"Origin", "Ready"}
     THEN Goto(n, "rescan", "demoteUpsert") /\ UNCHANGED agent ELSE Demoted(n)
  /\ UNCHANGED <<diskVars, apiVars, moves, faults>>

DemoteUpsert(n) ==
  /\ At(n, "rescan", "demoteUpsert")
  /\ upsertLocation(n, "Stale")
  /\ Goto(n, "rescan", "demoteRelease")
  /\ UNCHANGED <<diskVars, lease, agent, moves, faults>>

DemoteRelease(n) ==
  /\ At(n, "rescan", "demoteRelease")
  /\ Release(n)
  /\ Demoted(n)
  /\ UNCHANGED <<diskVars, flow, moves, faults>>

(* Faulty variant: a Ready location is never looked into.                  *)
PromoteUnhealthy(n) ==
  /\ At(n, "rescan", "promote")
  /\ IF localLocationHealthy(n)
     THEN Goto(n, "rescan", "observe") ELSE BeginPublish(n, "rescan")
  /\ UNCHANGED <<diskVars, apiVars, agent, moves, faults>>

(* promoteStaleLocalOrigins, of a flow that was held, runs PublishAppeared *)
(* unless the location is healthy.                                         *)
Promote(n) ==
  /\ At(n, "rescan", "promote")
  /\ IF localLocationHealthy(n) /\ ~producerTookOver(n)
     THEN Goto(n, "rescan", "observe") ELSE BeginPublish(n, "rescan")
  /\ UNCHANGED <<diskVars, apiVars, agent, moves, faults>>

(* refreshLocalObservations stamps a location, and no more.                *)
Observe(n) ==
  /\ At(n, "rescan", "observe")
  /\ Goto(n, "rescan", "idle")
  /\ UNCHANGED <<diskVars, apiVars, agent, moves, faults>>

Renews(n) ==
  /\ agent[n] = "up"
  /\ At(n, "renew", "idle")
  /\ heldFlow(n) /\ flow.locs[n] = "Origin"

(* A tick of RunRenewLoop: held flows whose location reads Origin.         *)
RenewTick(n) ==
  /\ Renews(n)
  /\ Goto(n, "renew", "renew")
  /\ UNCHANGED <<diskVars, apiVars, agent, moves, faults>>

(* ClaimOrigin: a flow that does not exist is left to the dispatcher.      *)
Claim(n) ==
  /\ At(n, "claim", "claim")
  /\ IF flow.state = "absent" \/ flow.locs[n] = "Origin" THEN Goto(n, "claim", "idle")
     ELSE Decide(n, "claim", "upsert", "Origin")
  /\ UNCHANGED <<diskVars, apiVars, agent, moves, faults>>

(* An API call fails.  Without the list of mirrors the copy is taken for   *)
(* the Origin; a failed Create or upsert ends PublishAppeared, a failed    *)
(* upsert ends markStale before its Release; the others are logged.        *)
Fault(n, t) ==
  /\ faults < MaxFaults
  /\ faults' = faults + 1
  /\ \/ /\ thread[n][t].pc \in {"create", "upsert", "renew", "stale", "release"}
        /\ Goto(n, t, After(n, t))
        /\ UNCHANGED agent
     \/ At(n, t, "classify") /\ TakeForOrigin(n, t) /\ UNCHANGED agent
     \/ At(n, t, "demoteUpsert") /\ Goto(n, t, "demoteRelease") /\ UNCHANGED agent
     \/ thread[n][t].pc \in {"demote", "demoteRelease"} /\ Demoted(n)
     \/ At(n, t, "promote") /\ Goto(n, t, "observe") /\ UNCHANGED agent
     \/ thread[n][t].pc \in {"observe", "claim"} /\ Goto(n, t, "idle") /\ UNCHANGED agent
  /\ UNCHANGED <<diskVars, apiVars, moves>>

-----------------------------------------------------------------------------
(* Producers, gateways, libmxl's sweep and the agent's pod.                *)

Move == moves < MaxMoves /\ moves' = moves + 1

(* fanotify reports the directory, unless nobody listens or it is missed.  *)
Report(n, e) ==
  \/ UNCHANGED events
  \/ /\ agent[n] = "up" /\ Len(events[n]) < MaxEvents
     /\ events' = [events EXCEPT ![n] = Append(@, e)]

Unreported == UNCHANGED events

(* A producer creates the directory, or takes over what it finds there: a  *)
(* placeholder, whose marker goes, or a copy, which is no event; the shim  *)
(* then reports the producer, if it can.                                   *)
ProducerAttaches(n) ==
  /\ Move
  /\ ~disk[n].producer
  /\ disk' = [disk EXCEPT ![n].producer = TRUE, ![n].dir = "flow"]
  /\ IF disk[n].dir = "flow" THEN Unreported ELSE Report(n, "appeared")
  /\ \/ UNCHANGED thread
     \/ /\ disk[n].dir = "flow" /\ agent[n] = "up" /\ At(n, "claim", "idle")
        /\ Goto(n, "claim", "claim")
  /\ UNCHANGED <<mirror, apiVars, agent, faults>>

(* A writer lets go; the directory stays until libmxl sweeps it.           *)
ProducerDetaches(n) ==
  /\ disk[n].producer
  /\ disk' = [disk EXCEPT ![n].producer = FALSE]
  /\ UNCHANGED <<mirror, events, apiVars, agent, thread, moves, faults>>

Swept(n) ==
  /\ disk[n].dir # "none"
  /\ ~writerAttached(n)
  /\ disk' = [disk EXCEPT ![n].dir = "none"]
  /\ Report(n, "vanished")
  /\ UNCHANGED <<mirror, apiVars, agent, thread, moves, faults>>

MirrorCreated(n) ==
  /\ Move
  /\ mirror[n] = "absent"
  /\ mirror' = [mirror EXCEPT ![n] = "present"]
  /\ UNCHANGED <<disk, events, apiVars, agent, thread, faults>>

MirrorDeleted(n) ==
  /\ mirror[n] = "present"
  /\ mirror' = [mirror EXCEPT ![n] = "deleting"]
  /\ UNCHANGED <<disk, events, apiVars, agent, thread, moves, faults>>

(* The gateway's finalizer holds the mirror until its writer is closed.    *)
MirrorGone(n) ==
  /\ mirror[n] = "deleting"
  /\ ~disk[n].gateway \/ disk[n].dir = "placeholder"
  /\ mirror' = [mirror EXCEPT ![n] = "absent"]
  /\ UNCHANGED <<disk, events, apiVars, agent, thread, moves, faults>>

(* The gateway fills the mirror's target, where no producer writes; on     *)
(* mxlfs it may first keep a placeholder open there, and does so again     *)
(* once the mirror is deleted.                                             *)
GatewayFills(n) ==
  /\ mirror[n] = "present"
  /\ ~disk[n].producer
  /\ disk[n].dir # "flow" \/ ~disk[n].gateway
  /\ disk' = [disk EXCEPT ![n].gateway = TRUE, ![n].dir = "flow"]
  /\ IF disk[n].dir = "flow" THEN Unreported ELSE Report(n, "appeared")
  /\ UNCHANGED <<mirror, apiVars, agent, thread, moves, faults>>

GatewayHolds(n) ==
  /\ Mxlfs
  /\ mirror[n] # "present"
  /\ \/ disk[n].dir = "none" /\ Move
     \/ disk[n].dir = "flow" /\ disk[n].gateway /\ ~disk[n].producer /\ UNCHANGED moves
  /\ disk' = [disk EXCEPT ![n].gateway = TRUE, ![n].dir = "placeholder"]
  /\ Report(n, "vanished")
  /\ UNCHANGED <<mirror, apiVars, agent, thread, faults>>

GatewayCloses(n) ==
  /\ disk[n].gateway
  /\ mirror[n] # "present" \/ disk[n].producer
  /\ disk' = [disk EXCEPT ![n].gateway = FALSE]
  /\ UNCHANGED <<mirror, events, apiVars, agent, thread, moves, faults>>

(* The agent stops.  Its calls end with it, but a renewal that is on its   *)
(* way is not recalled.                                                    *)
Stopped(n) ==
  /\ agent[n] # "down"
  /\ agent' = [agent EXCEPT ![n] = "down"]
  /\ events' = [events EXCEPT ![n] = <<>>]
  /\ \E sent \in SUBSET {t \in Thread : At(n, t, "renew")} :
       thread' = [thread EXCEPT ![n] =
                    [t \in Thread |-> IF t \in sent THEN [Idle EXCEPT !.pc = "renew"]
                                      ELSE Idle]]

Crash(n) ==
  /\ Move
  /\ Stopped(n)
  /\ UNCHANGED <<disk, mirror, apiVars, faults>>

(* A graceful stop ends with ReleaseAll, for what is on disk.              *)
Shutdown(n) ==
  /\ Move
  /\ Stopped(n)
  /\ IF localFlow(n) THEN Release(n) ELSE UNCHANGED lease
  /\ UNCHANGED <<disk, mirror, flow, faults>>

(* Something else deletes the MxlFlow.                                     *)
FlowDeleted ==
  /\ Move
  /\ flow.state = "present"
  /\ flow' = NoFlow
  /\ UNCHANGED <<diskVars, lease, agent, thread, faults>>

Tick ==
  /\ \E n \in Node : Fresh(n)
  /\ lease' = [n \in Node |-> [lease[n] EXCEPT !.left = IF @ > 0 THEN @ - 1 ELSE 0]]
  /\ UNCHANGED <<diskVars, flow, agent, thread, moves, faults>>

-----------------------------------------------------------------------------

Init ==
  /\ disk = [n \in Node |-> [dir |-> "none", producer |-> FALSE, gateway |-> FALSE]]
  /\ mirror = [n \in Node |-> "absent"]
  /\ flow = NoFlow
  /\ lease = [n \in Node |-> NoLease]
  /\ agent = [n \in Node |-> "down"]
  /\ thread = [n \in Node |-> [t \in Thread |-> Idle]]
  /\ events = [n \in Node |-> <<>>]
  /\ moves = 0
  /\ faults = 0

Publish(n, t) ==
  \/ Classify(n, t) \/ Create(n, t) \/ Upsert(n, t)
  \/ RenewLease(n, t) \/ MarkStale(n, t) \/ ReleaseLease(n, t)

Goroutine(n, t) ==
  \/ Publish(n, t)
  \/ t = "watch" /\ Dispatch(n)
  \/ /\ t = "rescan"
     /\ \/ Resync(n) \/ Rescan(n) \/ Promote(n) \/ Observe(n)
        \/ Demote(n) \/ DemoteUpsert(n) \/ DemoteRelease(n)
  \/ t = "renew" /\ RenewTick(n)
  \/ t = "claim" /\ Claim(n)

Domain(n) ==
  \/ ProducerAttaches(n) \/ ProducerDetaches(n) \/ Swept(n)
  \/ MirrorCreated(n) \/ MirrorDeleted(n) \/ MirrorGone(n)
  \/ GatewayFills(n) \/ GatewayHolds(n) \/ GatewayCloses(n)

Next ==
  \/ \E n \in Node : \/ Start(n) \/ Crash(n) \/ Shutdown(n)
                     \/ Domain(n)
                     \/ \E t \in Thread : Goroutine(n, t) \/ Fault(n, t)
  \/ FlowDeleted
  \/ Tick

Spec == Init /\ [][Next]_vars

(* Goroutines run and tickers tick (weak fairness, as the states that do   *)
(* not last), and time passes.  Producers, gateways, sweeps and mirrors    *)
(* owe nothing, and an agent that is down may stay so.                     *)
Fairness ==
  /\ \A n \in Node :
       /\ \A t \in Thread, pc \in Pc \ {"idle"} : []<>~At(n, t, pc)
       /\ \A k \in 1..MaxEvents :
            []<>~(agent[n] = "up" /\ At(n, "watch", "idle") /\ Len(events[n]) = k)
       /\ []<>~(agent[n] = "up" /\ At(n, "rescan", "idle"))
       /\ []<>~Renews(n)
  /\ WF_vars(Tick)

FairSpec == Spec /\ Fairness

-----------------------------------------------------------------------------
(* Properties.                                                             *)

(* Every variable keeps its type.                                          *)
TypeOK ==
  /\ disk \in [Node -> Disk]
  /\ mirror \in [Node -> {"absent", "present", "deleting"}]
  /\ flow \in [state : {"absent", "present"}, locs : [Node -> Location]]
  /\ lease \in [Node -> Lease]
  /\ agent \in [Node -> {"down", "sync", "up"}]
  /\ thread \in [Node -> [Thread -> Run]]
  /\ events \in [Node -> Seq({"appeared", "vanished"})]
  /\ moves \in 0..MaxMoves
  /\ faults \in 0..MaxFaults

(* A producer that goes on writing is published: the location settles on   *)
(* Origin and the Lease is renewed, though events are missed, calls fail,  *)
(* another goroutine still writes what it read before, and the MxlFlow is  *)
(* deleted under it.  (Off mxlfs a mirror's copy that a producer took over *)
(* is recognised through the shim only.)                                   *)
ProducerIsPublished ==
  \A n \in Node :
    []<>(agent[n] = "up" /\ disk[n].producer /\ (Mxlfs \/ ~isMirrorTarget(n))
         => flow.locs[n] = "Origin" /\ Fresh(n))

(* A copy nothing writes to does not stay published, and its Lease does    *)
(* not stay fresh, whoever renewed it last.                                *)
DeadCopyIsDemoted ==
  \A n \in Node :
    []<>(/\ ~writerAttached(n) => ~Fresh(n)
         /\ ~writerAttached(n) /\ agent[n] = "up" => flow.locs[n] \notin {"Origin", "Ready"})

=============================================================================
