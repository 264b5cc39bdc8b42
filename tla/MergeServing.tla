---------------------------- MODULE MergeServing -----------------------------
(***************************************************************************)
(* Which engine serves a redundancy set on one node and what the node      *)
(* reports of its members (gateway/internal/merge/reconciler.go and the    *)
(* parts of engine.go it drives).  Reconcile keeps an engine, puts the new *)
(* ring of a restarted member into it, or closes it and builds the output  *)
(* again, and then applies this node's entry of status.stalledMembers.     *)
(*                                                                         *)
(* Reconcile runs on one worker and reads the set from the cache; it is    *)
(* cut where the member directories are read again, where the engine is    *)
(* started and before the report.  The engine's loop judges the members    *)
(* meanwhile and calls back when a judgement changes; progress.go, which   *)
(* judges by time, is reduced to what it can conclude from a producer that *)
(* stands still, delivers now and then, or delivers steadily.              *)
(***************************************************************************)
EXTENDS Naturals, FiniteSets, FiniteSetsExt

CONSTANTS
  Members,     \* how many members, numbered in order of preference
  Layout,      \* ring layouts of the members; see Geometry
  MaxMoves,    \* bound: changes of the set, the directories and the producers
  Faults,      \* what may fail: see Fault
  MaxFaults    \* bound: how many of them do, once each

None == 0
Member == 1 .. Members
MaxIno == MaxMoves + 1
\* Members of one geometry may differ in ring layout, in the depth for one:
\* layouts 1 and 2 are of one geometry.
Geometry(l) == (l + 1) \div 2

Mode == {"still", "bursts", "steady"}

\* What is assumed of the constants.
MergeServingAssumption ==
  /\ Layout \subseteq Nat \ {None}
  /\ {Members, MaxMoves, MaxFaults} \subseteq Nat

VARIABLES
  dir,      \* the members' directories on this node, and what is committed there
  api,      \* the set in the API server
  cache,    \* the set as the gateway's cache has it
  queued,   \* the set is in the controller's queue, or will be after a wait
  engine,   \* r.engines[set], with what its loop has judged
  pass,     \* the Reconcile under way
  tracked,  \* what the properties compare with: see TypeOK
  moves, faults

servingVars == <<dir, api, cache, queued, engine, pass, tracked, moves, faults>>

\* A directory: the inode of its data file, None without one, its shape, and
\* whether definition and ring can be read.
Directory == [ino : 0 .. MaxIno, lay : Layout, whole : BOOLEAN, mode : Mode]

\* The set: generation, the generation the operator found valid, whether the
\* output is wanted here, and this node's entry of status.stalledMembers.
SetState == [exists : BOOLEAN, gen : 1 .. MaxMoves + 1, valid : 0 .. MaxMoves + 1,
             wanted : BOOLEAN, report : SUBSET Member]

\* running and its Engine: the ring mapped for every member, and progress's
\* known and stall.
Running ==
  [on : BOOLEAN, gen : 0 .. MaxMoves + 1, lay : Layout \cup {None},
   seen : [Member -> 0 .. MaxIno], started : SUBSET Member, failed : BOOLEAN,
   retrying : SUBSET Member, failing : SUBSET Member,
   ring : [Member -> 0 .. MaxIno], known : SUBSET Member, stall : SUBSET Member]

NoEngine ==
  [on |-> FALSE, gen |-> 0, lay |-> None, seen |-> [m \in Member |-> 0],
   started |-> {}, failed |-> FALSE, retrying |-> {}, failing |-> {},
   ring |-> [m \in Member |-> 0], known |-> {}, stall |-> {}]

\* Where Reconcile is; the set as it read it; the engine it means to start.
Pass ==
  [pc : {"idle", "serve", "start", "report"}, set : SetState, plan : Running, again : BOOLEAN]

Init ==
  /\ dir = [m \in Member |-> [ino |-> 1, lay |-> Min(Layout), whole |-> TRUE, mode |-> "steady"]]
  /\ api = [exists |-> TRUE, gen |-> 1, valid |-> 1, wanted |-> TRUE, report |-> {}]
  /\ cache = api
  /\ queued = TRUE
  /\ engine = NoEngine
  /\ pass = [pc |-> "idle", set |-> api, plan |-> NoEngine, again |-> FALSE]
  /\ tracked = [calm |-> TRUE, raced |-> FALSE, steadied |-> Member]
  /\ moves = 0 /\ faults = {}

Fault(kind) ==
  /\ kind \in Faults \ faults
  /\ Cardinality(faults) < MaxFaults
  /\ faults' = faults \cup {kind}

----------------------------------------------------------------------------
(* The engine's loop.                                                       *)

\* The producer's commits reach the ring the engine has mapped.
Delivers(m, modes) == engine.ring[m] = dir[m].ino /\ dir[m].ino # None /\ dir[m].mode \in modes

\* Stalls: the callback queues the set, unless the channel is full.
CallBack ==
  \/ queued' = TRUE /\ UNCHANGED faults
  \/ queued' = queued /\ Fault("full")

Judged(m, known, stall) ==
  /\ engine' = [engine EXCEPT !.known = known, !.stall = stall]
  /\ CallBack
  /\ UNCHANGED <<dir, api, cache, pass, tracked, moves>>

\* A member that was not decided on is seen to move.
Moves(m) ==
  /\ engine.on /\ m \in engine.started \ engine.known
  /\ Delivers(m, {"bursts", "steady"})

SeenMoving(m) ==
  /\ Moves(m)
  /\ Judged(m, engine.known \cup {m}, engine.stall \ {m})

\* A member stood still for its window, or for StartGrace from the start.
Stalls(m) ==
  /\ engine.on /\ m \in engine.started \ (engine.known \cap engine.stall)
  /\ ~Delivers(m, {"steady"})
  /\ m \notin engine.known => ~Delivers(m, {"bursts"})

SeenStill(m) ==
  /\ Stalls(m)
  /\ Judged(m, engine.known \cup {m}, engine.stall \cup {m})

\* A stalled member counts as moving after RecoverAfter of steady moves.
Recovers(m) == Delivers(m, {"steady"})

Steadies(m) ==
  /\ engine.on /\ m \in engine.started \cap engine.known \cap engine.stall
  /\ Recovers(m)

SeenSteady(m) ==
  /\ Steadies(m)
  /\ Judged(m, engine.known, engine.stall \ {m})

----------------------------------------------------------------------------
(* Reconcile.                                                               *)

\* reportOf: the members found stalled, and those of reported not decided on.
reportOf(e, reported) ==
  (e.started \cap e.known \cap e.stall) \cup (reported \cap (e.started \ e.known))

Restarted(e) ==
  {m \in e.started : dir[m].ino \notin {None, e.seen[m]}}

SameGeometry(m, e) == Geometry(dir[m].lay) = Geometry(e.lay)

\* Restarted members whose definition or ring cannot be read yet.
Unread(e) == {m \in Restarted(e) : ~dir[m].whole}

\* ErrOtherLayout of Replace, on a member of the output's geometry.
Unaligned(e) ==
  {m \in Restarted(e) \ Unread(e) : SameGeometry(m, e) /\ dir[m].lay # e.lay}

(* Faulty variant: no ring is replaced in place.                            *)
replaceRestartedNever(e) ==
  [e EXCEPT !.retrying = {}, !.failing = {}]

\* replaceRestarted: Replace puts the new ring of every restarted member in
\* place of the old one; a ring that cannot be read is tried again.
replaceRestarted(e) ==
  LET taken == {m \in Restarted(e) \ (Unread(e) \cup Unaligned(e)) : SameGeometry(m, e)}
  IN  [e EXCEPT !.seen = [m \in Member |-> IF m \in taken THEN dir[m].ino ELSE @[m]],
                !.ring = [m \in Member |-> IF m \in taken THEN dir[m].ino ELSE @[m]],
                !.retrying = Unread(e),
                !.failing = ((@ \cap Restarted(e)) \ taken) \cup Unread(e),
                !.failed = @ \/ Unaligned(e) # {}]

\* The set is read and, when it is not to be served, its engine stopped.
\* retryFor may be over for a ring that was tried before.
Reconcile ==
  /\ pass.pc = "idle" /\ queued
  /\ queued' = FALSE
  /\ \/ /\ ~cache.exists
        /\ engine' = NoEngine
        /\ UNCHANGED <<pass, tracked, faults>>
     \/ /\ cache.exists
        /\ ~cache.wanted \/ cache.valid # cache.gen
        /\ engine' = NoEngine
        /\ pass' = [pass EXCEPT !.pc = "report", !.set = cache, !.again = FALSE]
        /\ UNCHANGED <<tracked, faults>>
     \/ /\ cache.exists /\ cache.wanted /\ cache.valid = cache.gen
        /\ pass' = [pass EXCEPT !.pc = "serve", !.set = cache]
        /\ tracked' = [tracked EXCEPT !.raced = FALSE]
        /\ \/ /\ ~engine.on \/ engine.gen # cache.gen
              /\ UNCHANGED <<engine, faults>>
           \/ /\ engine.on /\ engine.gen = cache.gen
              /\ engine' = replaceRestarted(engine)
              /\ UNCHANGED faults
           \/ /\ engine.on /\ engine.gen = cache.gen
              /\ Unread(engine) \cap engine.failing # {}
              /\ engine' = [engine EXCEPT !.failed = TRUE, !.retrying = {}]
              /\ Fault("slow")
  /\ UNCHANGED <<dir, api, cache, moves>>

(* Faulty variant: a member left out is not looked at again.                *)
servesLeftOut(e, set) == e.on /\ ~e.failed /\ e.gen = set.gen

\* serves: the engine is still the one for the set and its directories.
serves(e, set) ==
  /\ e.on /\ ~e.failed /\ e.gen = set.gen
  /\ \A m \in Member : dir[m].ino \in {None, e.seen[m]} \/ m \in e.retrying
  /\ \/ \E m \in e.started : dir[m].ino # None
     \/ \A m \in Member \ e.started : dir[m].ino = None

\* outputGeometry and outputLayout: as before while a member still has it,
\* else the first member's.
Keep(prev, cands, of) ==
  IF prev \in {of[m] : m \in cands} THEN prev ELSE of[Min(cands)]

\* The members the new engine takes as stalled.
carried(set) == IF engine.on THEN reportOf(engine, set.report) ELSE set.report

\* The engine Reconcile means to start: over the members with a directory it
\* can read, of one geometry and one layout.
Plan(set) ==
  LET present == {m \in Member : dir[m].ino # None}
      read == {m \in present : dir[m].whole}
      geo == Keep(Geometry(engine.lay), read, [m \in Member |-> Geometry(dir[m].lay)])
      agree == {m \in read : Geometry(dir[m].lay) = geo}
      lay == Keep(engine.lay, agree, [m \in Member |-> dir[m].lay])
  IN  IF read = {} THEN NoEngine
      ELSE [NoEngine EXCEPT !.gen = set.gen, !.lay = lay,
              !.seen = [m \in Member |-> dir[m].ino],
              !.started = {m \in agree : dir[m].lay = lay},
              !.known = carried(set), !.stall = carried(set)]

NothingToServe(plan) == plan.started = {}

\* The engine is kept, or stopped and the output planned again; without a
\* member, or with the domain not to be had, there is none for now.
Serve ==
  /\ pass.pc = "serve"
  /\ \/ /\ serves(engine, pass.set)
        /\ pass' = [pass EXCEPT !.pc = "report", !.again = TRUE]
        /\ UNCHANGED <<engine, tracked, faults>>
     \/ /\ ~serves(engine, pass.set)
        /\ engine' = NoEngine
        /\ tracked' = [tracked EXCEPT !.calm = @ /\ ~engine.on, !.raced = FALSE]
        /\ \/ /\ pass' = [pass EXCEPT !.pc = IF NothingToServe(Plan(pass.set)) THEN "report" ELSE "start",
                                      !.plan = Plan(pass.set), !.again = TRUE]
              /\ UNCHANGED faults
           \/ /\ pass' = [pass EXCEPT !.pc = "report", !.again = TRUE]
              /\ Fault("domain")
  /\ UNCHANGED <<dir, api, cache, queued, moves>>

\* Start maps the rings that are there now and refuses what is not aligned; a
\* writer that holds the output's id is left alone.
StartEngine ==
  LET p == pass.plan
      opens == \A m \in p.started : dir[m].ino # None /\ dir[m].whole /\ dir[m].lay = dir[Min(p.started)].lay
  IN
  /\ pass.pc = "start"
  /\ pass' = [pass EXCEPT !.pc = "report", !.plan = NoEngine]
  /\ \/ /\ opens
        /\ engine' = [p EXCEPT !.on = TRUE, !.known = @ \cap p.started, !.stall = @ \cap p.started,
                               !.ring = [m \in Member |-> IF m \in p.started THEN dir[m].ino ELSE 0]]
        /\ UNCHANGED faults
     \/ ~opens /\ UNCHANGED <<engine, faults>>
     \/ engine' = engine /\ Fault("held")
  /\ UNCHANGED <<dir, api, cache, queued, tracked, moves>>

\* A failed report gets a recheck where the path asked for none.
AgainAfterFailure == TRUE

\* reportStalled, and the requeue Reconcile returns.
ReportStalled ==
  LET stalled == IF engine.on THEN reportOf(engine, pass.set.report) ELSE {}
      kept == IF engine.on THEN tracked.steadied ELSE Member
  IN
  /\ pass.pc = "report"
  /\ pass' = [pass EXCEPT !.pc = "idle", !.set = [api EXCEPT !.report = {}], !.again = FALSE]
  /\ \/ /\ stalled = pass.set.report \/ ~api.exists
        /\ queued' = (queued \/ pass.again)
        /\ tracked' = [tracked EXCEPT !.steadied = kept]
        /\ UNCHANGED <<api, faults>>
     \/ /\ stalled # pass.set.report /\ api.exists
        /\ api' = [api EXCEPT !.report = stalled]
        /\ tracked' = [tracked EXCEPT !.steadied =
             {m \in Member : m \in stalled =>
                (m \in api.report /\ m \in kept) \/ dir[m].mode = "steady"}]
        /\ queued' = (queued \/ pass.again)
        /\ UNCHANGED faults
     \/ /\ stalled # pass.set.report
        /\ queued' = (queued \/ AgainAfterFailure)
        /\ Fault("report")
        /\ tracked' = [tracked EXCEPT !.steadied = kept]
        /\ UNCHANGED api
  /\ UNCHANGED <<dir, cache, engine, moves>>

\* The watch: the cache takes the set over and queues it.
CacheSyncs ==
  /\ cache # api
  /\ cache' = api /\ queued' = TRUE
  /\ UNCHANGED <<dir, api, engine, pass, tracked, moves, faults>>

----------------------------------------------------------------------------
(* The producers, the mirrors and the users.                                *)

Move ==
  /\ moves < MaxMoves /\ moves' = moves + 1
  /\ UNCHANGED <<queued, engine, pass, faults>>

\* A member's directory is created again, not whole at first or at once.
\* The output may stay through it while the shape is the output's.
MemberRestarts(m) ==
  \E l \in Layout, w \in BOOLEAN :
    /\ Move
    /\ w \/ l = dir[m].lay
    /\ dir' = [dir EXCEPT ![m] = [@ EXCEPT !.ino = moves + 2, !.lay = l, !.whole = w]]
    /\ tracked' = [tracked EXCEPT
         !.calm = @ /\ engine.on /\ m \in engine.started /\ l = engine.lay,
         !.raced = @ \/ (pass.pc = "serve" /\ tracked.calm)]
    /\ UNCHANGED <<api, cache>>

MemberGoes(m) ==
  /\ Move
  /\ dir[m].ino # None
  /\ dir' = [dir EXCEPT ![m].ino = None]
  /\ UNCHANGED <<api, cache, tracked>>

RingWhole(m) ==
  /\ ~dir[m].whole
  /\ dir' = [dir EXCEPT ![m].whole = TRUE]
  /\ UNCHANGED <<api, cache, queued, engine, pass, tracked, moves, faults>>

ProducerTurns(m) ==
  \E mode \in Mode \ {dir[m].mode} :
    /\ Move
    /\ dir' = [dir EXCEPT ![m].mode = mode]
    /\ tracked' = [tracked EXCEPT !.steadied = @ \cup {n \in {m} : mode = "steady"}]
    /\ UNCHANGED <<api, cache>>

\* A spec change, after which the operator has to find the set valid again;
\* consumers on this node coming and going; the set's deletion.
SetMoves ==
  /\ Move
  /\ api.exists
  /\ \/ api' = [api EXCEPT !.gen = @ + 1]
     \/ api' = [api EXCEPT !.wanted = ~@]
     \/ api' = [api EXCEPT !.exists = FALSE, !.report = {}]
  /\ tracked' = [tracked EXCEPT !.calm = FALSE]
  /\ UNCHANGED <<dir, cache>>

OperatorValidates ==
  /\ api.exists /\ api.valid # api.gen
  /\ api' = [api EXCEPT !.valid = api.gen]
  /\ UNCHANGED <<dir, cache, queued, engine, pass, tracked, moves, faults>>

----------------------------------------------------------------------------
Worker == Reconcile \/ Serve \/ StartEngine \/ ReportStalled

EngineJudges(m) == SeenMoving(m) \/ SeenStill(m) \/ SeenSteady(m)

Next ==
  \/ Worker \/ CacheSyncs
  \/ \E m \in Member : EngineJudges(m) \/ RingWhole(m)
  \/ \E m \in Member : MemberRestarts(m) \/ MemberGoes(m) \/ ProducerTurns(m)
  \/ SetMoves \/ OperatorValidates

\* The worker and the watch run, windows pass, the operator checks a changed
\* set and a directory being created is completed: weak fairness, written as
\* what may not last.
Fairness ==
  /\ []<>~(pass.pc = "idle" /\ queued) /\ \A pc \in {"serve", "start", "report"} : []<>(pass.pc # pc)
  /\ []<>(cache = api) /\ []<>~(api.exists /\ api.valid # api.gen)
  /\ \A m \in Member : []<>~Moves(m) /\ []<>~Stalls(m) /\ []<>~Steadies(m) /\ []<>dir[m].whole

Spec == Init /\ [][Next]_servingVars

FairSpec == Spec /\ Fairness

----------------------------------------------------------------------------
(* Properties.                                                              *)

(* Every variable keeps its type.                                          *)
TypeOK ==
  /\ dir \in [Member -> Directory]
  /\ api \in SetState /\ cache \in SetState
  /\ queued \in BOOLEAN
  /\ engine \in Running /\ (engine.on => engine.started # {})
  /\ pass \in Pass
  /\ tracked \in [calm : BOOLEAN, raced : BOOLEAN, steadied : SUBSET Member]
  /\ moves \in 0 .. MaxMoves /\ faults \subseteq Faults

Stopped == engine.on /\ ~engine'.on

\* A producer restarted in the output's shape does not cost the readers
\* their output: while nothing but such restarts and producers' pauses
\* happened, no engine is stopped, unless a member was restarted between the
\* two looks a Reconcile takes at the directories or its ring could not be
\* read for retryFor.
RestartSeenKeepsOutput ==
  [][tracked.calm /\ ~tracked.raced /\ "slow" \notin faults' => ~Stopped]_servingVars

\* A member this node reported stalled is not taken back for a commit now and
\* then: while engines serve the set over it, one after the other, its name
\* leaves the report only after the producer delivered steadily.
ReportedUntilSteady ==
  [][\A m \in api.report \ api'.report :
       api'.exists /\ engine.on /\ m \in engine.started => m \in tracked.steadied]_servingVars

Wanted == api.exists /\ api.wanted

\* A wanted set is served: in the end an engine runs for its generation, one
\* of its members is there while any is, it has the ring every one of them
\* has now, and it left out only members of another shape or whose ring could
\* not be read when it was started.
WantedIsServed ==
  <>[](Wanted /\ (\E m \in Member : dir[m].ino # None) =>
         /\ engine.on /\ engine.gen = api.gen
         /\ \E m \in engine.started : dir[m].ino # None
         /\ \A m \in Member : dir[m].ino # None =>
              IF m \in engine.started
              THEN engine.ring[m] = dir[m].ino /\ dir[m].lay = engine.lay
              ELSE engine.seen[m] = dir[m].ino)

\* The report becomes true: in the end it names the members of the engine
\* that do not deliver steadily, and none without an engine.
ReportBecomesTrue ==
  <>[](api.exists =>
         api.report = {m \in engine.started : engine.on /\ ~Delivers(m, {"steady"})})

\* What no Reconcile of the merged view breaks: types, an output over restarts
\* it has seen, and a report that stands until a member delivers steadily.
ServingKept == []TypeOK /\ RestartSeenKeepsOutput /\ ReportedUntilSteady

\* What the Reconciles bring about: an engine over what there is now, and a
\* true report.
ServingSettles == WantedIsServed /\ ReportBecomesTrue

=============================================================================
