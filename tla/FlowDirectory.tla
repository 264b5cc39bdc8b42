---------------------------- MODULE FlowDirectory ----------------------------
(***************************************************************************)
(* The directory of one flow on one node's mxlfs domain, and who lays it   *)
(* out, writes it and removes it: the placeholder manager of the gateway   *)
(* (gateway/internal/placeholder), the opening and closing of the flow's   *)
(* mirror target (gateway/internal/mirror/target.go), and a producer that  *)
(* may start on the node at any time.                                      *)
(*                                                                         *)
(* A directory that was removed and made again is another one: directories *)
(* are numbered, and a writer holds the one it opened.  A goroutine of the *)
(* gateway is cut between its looks at the disk, its removals and its      *)
(* opens.  A layout stands for the geometry a definition gives the ring.   *)
(* A domain is open throughout, on mxlfs, and an audio flow's batch size   *)
(* hints do not change.                                                    *)
(* The phase a failure run publishes is a function of its count and is     *)
(* left out; the live target is a writer and nothing else here, its life   *)
(* being TargetEntry's subject.                                            *)
(***************************************************************************)
EXTENDS Naturals, FiniteSets, FiniteSetsExt

CONSTANTS
  Dir,          \* numbers for directories, from 1
  Layout,       \* layouts of the flow's ring
  MaxAttempts,  \* maxTargetOpenAttempts
  MaxMoves,     \* bound: changes by producers, users and the operator
  Faults,       \* what may fail: see Fault
  MaxFaults     \* bound: how many of them do, once each

Unset == 0
Owner == {"producer", "placeholder", "leaving", "target", "opening"}

\* What is assumed of the constants.
FlowDirectoryAssumption ==
  /\ Dir \subseteq Nat \ {Unset} /\ Cardinality(Dir) > Cardinality(Owner)
  /\ Layout # {} /\ MaxAttempts \in Nat \ {0}
  /\ MaxMoves \in Nat /\ MaxFaults \in Nat
  /\ Faults \subseteq {"open", "fabric", "restart"}

VARIABLES
  flow,         \* the MxlFlow: its layout, an Origin, this node's location
  mirror,       \* the MxlFlowMirror with this target node
  dir, marker,  \* the domain: the flow's directory, its placeholder marker
  laid,         \* how each directory was laid out
  writer,       \* the directory each writer has open
  held,         \* m.held: whether there is a placeholder, and filled
  rec,          \* the placeholder Reconcile under rmu
  start,        \* Manager.Start
  pass,         \* the target Reconcile pass
  attempts,     \* r.attempts
  entryDef,     \* the layout the live entry was opened for
  queued,       \* the mirror's, and the flow's, place in a work queue
  fabric,       \* a fabric side can be opened
  crossed,      \* history: the placeholder was taken across Filled or GiveUp
  late,         \* history: who the producer found between look and removal
  moves, faults

placeholderVars == <<held, rec, start, crossed>>
targetVars == <<pass, attempts, entryDef>>
diskVars == <<dir, marker, laid, writer>>
worldVars == <<flow, mirror, fabric, moves, faults>>
directoryVars == <<flow, mirror, dir, marker, laid, writer, held, rec, start,
                   pass, attempts, entryDef, queued, fabric, crossed, late,
                   moves, faults>>

\* attempt: the count of a failure run, its wait, and what it was earned for.
Attempt == [count: 0 .. MaxAttempts, armed: BOOLEAN, def: Layout]

Nothing == [def |-> CHOOSE l \in Layout : TRUE, torn |-> FALSE]

Init ==
  /\ flow = [there |-> TRUE, def |-> CHOOSE l \in Layout : TRUE,
             origin |-> TRUE, here |-> "none"]
  /\ mirror = "none"
  /\ dir = Unset /\ marker = FALSE
  /\ laid = [d \in Dir |-> Nothing]
  /\ writer = [o \in Owner |-> Unset]
  /\ held = [is |-> FALSE, filled |-> FALSE]
  /\ rec = [pc |-> "idle", retired |-> FALSE, by |-> "queue", def |-> flow.def]
  /\ start = "sweep"
  /\ pass = [pc |-> "idle", def |-> flow.def, keep |-> FALSE]
  /\ attempts = [count |-> 0, armed |-> FALSE, def |-> flow.def]
  /\ entryDef = flow.def
  /\ queued = [flow |-> TRUE, mirror |-> FALSE]
  /\ fabric = TRUE /\ crossed = FALSE /\ late = {} /\ moves = 0 /\ faults = {}

-----------------------------------------------------------------------------
(* The domain.                                                             *)

Live == writer["target"] # Unset

Writers(d) == {o \in Owner : d # Unset /\ writer[o] = d}

\* flowlocks.ForeignWriters: the writers of other processes.
ForeignWriters == "producer" \in Writers(dir)

\* A number for a directory nobody holds.
FreshDir == Min({d \in Dir : d # dir /\ Writers(d) = {}})

SameGeometry(l) == laid[dir].def = l

\* NewWriterOpts: a directory that exists is opened as it is.
Opens(o, l) ==
  /\ writer' = [writer EXCEPT ![o] = IF dir = Unset THEN FreshDir ELSE dir]
  /\ dir' = writer'[o]
  /\ laid' = IF dir = Unset
             THEN [laid EXCEPT ![FreshDir] = [def |-> l, torn |-> FALSE]]
             ELSE laid

\* Writer.Close: libmxl removes the flow with its last writer.
Closes(owners) ==
  /\ writer' = [o \in Owner |-> IF o \in owners THEN Unset ELSE writer[o]]
  /\ dir' = IF Writers(dir) # {} /\ Writers(dir) \subseteq owners
            THEN Unset ELSE dir

\* Writer.Detach: the flow is left as it is.
Detaches(owners) ==
  /\ writer' = [o \in Owner |-> IF o \in owners THEN Unset ELSE writer[o]]
  /\ UNCHANGED dir

(* Faulty variant: only the gateway's own writers are counted.             *)
InUseByGateway == Writers(dir) \ {"producer"} # {}

\* flowlocks.Writers, before a removal.
InUse == Writers(dir) # {}

\* delete(m.held, name).
NotHeld == [is |-> FALSE, filled |-> FALSE]

Fault(kind) ==
  /\ kind \in Faults \ faults /\ Cardinality(faults) < MaxFaults
  /\ faults' = faults \cup {kind}

-----------------------------------------------------------------------------
(* Manager.Reconcile, one at a time.                                       *)

Origin == flow.origin \/ flow.here = "Origin"

RecIdle == [pc |-> "idle", retired |-> FALSE, by |-> "queue", def |-> flow.def]

\* The end of a pass, with the deferred removal of a retired placeholder's
\* marker.
RecEnds(again) ==
  /\ marker' = (marker /\ ~rec.retired)
  /\ rec' = RecIdle
  /\ start' = IF rec.by = "sweep" THEN "judge" ELSE start
  /\ queued' = [queued EXCEPT !.flow = @ \/ again]

RecGoto(pc) ==
  /\ rec' = [rec EXCEPT !.pc = pc]
  /\ UNCHANGED <<marker, start, queued>>

\* Whether the placeholder that is held stays: a mirror fills it, it is what
\* the flow still asks for, or a producer has opened it.
Keeps ==
  \/ held.filled
  \/ dir # Unset /\ Origin /\ SameGeometry(flow.def)
  \/ ForeignWriters

\* drop and release: the writer is closed; the marker of a placeholder that
\* is only being replaced stays.  A flow with a copy here or without an
\* Origin gets no placeholder.
RecBegin(by) ==
  /\ rec.pc = "idle"
  /\ \/ by = "queue" /\ queued.flow
     \/ by = "sweep" /\ start = "sweep"
     \/ by = "tick" /\ start = "ticks" /\ held.is /\ ~Keeps
  /\ IF flow.there /\ held.is /\ Keeps
     THEN /\ start' = IF by = "sweep" THEN "judge" ELSE start
          /\ UNCHANGED <<held, writer, dir, marker, rec>>
     ELSE /\ held' = NotHeld
          /\ Closes({"placeholder"})
          /\ rec' = [pc |-> IF flow.there /\ flow.here = "none" /\ Origin
                            THEN "look" ELSE "end",
                     retired |-> held.is, by |-> by, def |-> flow.def]
          /\ UNCHANGED <<marker, start>>
  /\ queued' = [queued EXCEPT !.flow = @ /\ by # "queue"]
  /\ UNCHANGED <<worldVars, targetVars, laid, crossed, late>>

\* A flow in a producer's hands gets none.
RecLook ==
  /\ rec.pc \in {"look", "end"}
  /\ IF rec.pc = "end" \/ ForeignWriters THEN RecEnds(FALSE)
     ELSE RecGoto(IF dir = Unset THEN "mark" ELSE "leftover")
  /\ UNCHANGED <<worldVars, targetVars, dir, laid, writer, held, crossed, late>>

\* A leftover of another geometry goes if nothing writes it.
RecLeftover ==
  /\ rec.pc = "leftover"
  /\ IF dir = Unset \/ SameGeometry(rec.def) THEN RecGoto("mark")
     ELSE IF InUse THEN RecEnds(TRUE)
     ELSE RecGoto("remove")
  /\ UNCHANGED <<worldVars, targetVars, dir, laid, writer, held, crossed, late>>

RecRemove ==
  /\ rec.pc = "remove"
  /\ dir' = Unset
  /\ late' = late \ {"rec"}
  /\ RecGoto("mark")
  /\ UNCHANGED <<worldVars, targetVars, laid, writer, held, crossed>>

\* The marker goes first.
RecMark ==
  /\ rec.pc = "mark"
  /\ marker' = TRUE /\ crossed' = FALSE
  /\ rec' = [rec EXCEPT !.pc = "hold"]
  /\ UNCHANGED <<worldVars, targetVars, dir, laid, writer, held, start, queued,
                 late>>

\* A directory that cannot be opened ends the pass without a marker.
RecHold ==
  /\ rec.pc = "hold"
  /\ IF dir # Unset /\ laid[dir].torn
     THEN /\ marker' = FALSE
          /\ UNCHANGED <<writer, dir, laid, held>>
     ELSE /\ Opens("placeholder", rec.def)
          /\ held' = [is |-> TRUE, filled |-> FALSE]
          /\ UNCHANGED marker
  /\ crossed' = (crossed \/ Writers(dir) \cap {"target", "opening"} # {})
  /\ rec' = RecIdle
  /\ start' = IF rec.by = "sweep" THEN "judge" ELSE start
  /\ queued' = [queued EXCEPT !.flow = @ \/ (rec.by = "queue" /\ ~held'.is)]
  /\ UNCHANGED <<worldVars, targetVars, late>>

-----------------------------------------------------------------------------
(* Manager.Start, and what the target tells the manager.                   *)

\* clearStaleMarkers, once every flow was reconciled.
Judge ==
  /\ start = "judge" /\ rec.pc = "idle"
  /\ start' = "ticks"
  /\ marker' = (marker /\ held.is /\ ~held.filled)
  /\ UNCHANGED <<worldVars, targetVars, dir, laid, writer, held, rec, queued,
                 crossed, late>>

\* CheckLocalWriters: a placeholder a producer opened leaves m.held; then the
\* target writing it is stopped; then its writer and its marker go.
CheckTaken ==
  /\ start = "ticks" /\ held.is /\ ForeignWriters
  /\ start' = "stop"
  /\ held' = NotHeld
  /\ writer' = [writer EXCEPT !["placeholder"] = Unset,
                              !["leaving"] = writer["placeholder"]]
  /\ UNCHANGED <<worldVars, targetVars, dir, marker, laid, rec, queued, crossed, late>>

\* StopFlow: closeEntry with keepFlow.
StopFlow ==
  /\ start = "stop"
  /\ start' = "give"
  /\ Detaches({"target"})
  /\ attempts' = IF Live THEN [attempts EXCEPT !.count = 0, !.armed = FALSE]
                 ELSE attempts
  /\ UNCHANGED <<worldVars, pass, entryDef, marker, laid, held, rec, queued, crossed, late>>

GiveUp ==
  /\ start = "give"
  /\ start' = "ticks"
  /\ Detaches({"leaving"})
  /\ marker' = FALSE
  /\ crossed' = (crossed \/ held.is \/ rec.pc = "hold")
  /\ UNCHANGED <<worldVars, targetVars, laid, held, rec, queued, late>>

-----------------------------------------------------------------------------
(* The target Reconcile pass.                                              *)

PassGoto(pc) ==
  /\ pass' = [pass EXCEPT !.pc = pc]

\* attempts.wait: another definition is a new attempt and serves no wait.
Waits == attempts.armed /\ attempts.def = flow.def

\* attempts.fail, or rearm for a run that ended; the wait wakes the pass.
Armed(count) == [count |-> count, armed |-> TRUE, def |-> pass.def]

\* localFlowDisposition: the flow of a producer here is kept.
KeepsFlow == flow.there /\ flow.here = "Origin"

\* A mirror being deleted gives up its target and then its finalizer; one
\* whose flow changed layout gives up its target and opens another; a target
\* that delivers is left alone; a failure run waits; otherwise one is opened,
\* and if a target was there the new one is thrown away.
Reconcile ==
  /\ pass.pc = "idle" /\ queued.mirror /\ mirror # "none"
  /\ queued' = [queued EXCEPT !.mirror = FALSE]
  /\ \/ /\ mirror = "deleting"
        /\ pass' = [pass EXCEPT !.pc = "close", !.keep = KeepsFlow]
     \/ /\ mirror = "there" /\ ~flow.there
        /\ UNCHANGED pass
     \/ /\ mirror = "there" /\ flow.there
        /\ Live /\ entryDef # flow.def
        /\ pass' = [pc |-> "reopen", def |-> flow.def, keep |-> KeepsFlow]
     \/ /\ mirror = "there" /\ flow.there
        /\ Live /\ entryDef = flow.def
        /\ UNCHANGED pass
     \/ /\ mirror = "there" /\ flow.there
        /\ Live => entryDef = flow.def
        /\ ~Waits
        /\ pass' = [pass EXCEPT !.pc = "open", !.def = flow.def]
     \/ /\ mirror = "there" /\ flow.there /\ ~Live
        /\ Waits
        /\ UNCHANGED pass
  /\ UNCHANGED <<worldVars, diskVars, placeholderVars, attempts, entryDef, late>>

(* Faulty variant: the writer of a flow that is kept is left open.         *)
CloseEntryKeepsWriter ==
  /\ pass.pc \in {"close", "reopen"}
  /\ IF pass.keep THEN UNCHANGED <<writer, dir>> ELSE Closes({"target"})
  /\ attempts' = [attempts EXCEPT !.count = 0, !.armed = FALSE]
  /\ PassGoto(IF pass.pc = "reopen" THEN "open"
              ELSE IF Live THEN "unfill" ELSE "gone")
  /\ UNCHANGED <<worldVars, marker, laid, placeholderVars, entryDef, queued, late>>

\* closeEntry: Detach where the flow is kept, Close otherwise.
CloseEntry ==
  /\ pass.pc \in {"close", "reopen"}
  /\ IF pass.keep THEN Detaches({"target"}) ELSE Closes({"target"})
  /\ attempts' = [attempts EXCEPT !.count = 0, !.armed = FALSE]
  /\ PassGoto(IF pass.pc = "reopen" THEN "open"
              ELSE IF Live THEN "unfill" ELSE "gone")
  /\ UNCHANGED <<worldVars, marker, laid, placeholderVars, entryDef, queued, late>>

\* Unfilled, for an entry that was live.
Unfilled ==
  /\ pass.pc = "unfill"
  /\ marker' = (marker \/ held.filled)
  /\ held' = [held EXCEPT !.filled = FALSE]
  /\ PassGoto("gone")
  /\ UNCHANGED <<worldVars, dir, laid, writer, rec, start, attempts, entryDef, queued,
                 crossed, late>>

RemoveFinalizer ==
  /\ pass.pc = "gone"
  /\ mirror' = "none"
  /\ PassGoto("idle")
  /\ UNCHANGED <<flow, fabric, moves, faults, diskVars, placeholderVars,
                 attempts, entryDef, queued, late>>

\* standDown: a live target gives its writer up and the failure run ends.
StandDown ==
  /\ Detaches({"target"})
  /\ attempts' = Armed(0)
  /\ PassGoto("idle")

\* Manager.Retire: the placeholder, filled or not, and its marker go.
Retire ==
  /\ Closes({"placeholder"})
  /\ marker' = (marker /\ ~held.is)
  /\ held' = NotHeld

\* openTarget: a flow another process here writes is stood down for; a
\* placeholder of another geometry is retired.
OpenTarget ==
  /\ pass.pc = "open"
  /\ IF ForeignWriters THEN StandDown /\ UNCHANGED <<marker, held>>
     ELSE IF dir = Unset \/ SameGeometry(pass.def)
          THEN /\ PassGoto("writer")
               /\ UNCHANGED <<dir, marker, writer, held, attempts>>
          ELSE /\ Retire
               /\ PassGoto("clear")
               /\ UNCHANGED attempts
  /\ UNCHANGED <<worldVars, laid, rec, start, entryDef, queued, crossed, late>>

\* handleOpenTargetFailure: a writer that failed to open often enough has
\* its directory reclaimed.
Fails(writerFailed) ==
  LET count == Min({attempts.count + 1, MaxAttempts})
  IN /\ attempts' = Armed(count)
     /\ PassGoto(IF writerFailed /\ count = MaxAttempts THEN "reclaim"
                 ELSE "idle")

\* clearFlowDir: a directory somebody still writes fails the open.
ClearFlowDir ==
  /\ pass.pc = "clear"
  /\ IF InUse THEN Fails(FALSE)
     ELSE PassGoto("remove") /\ UNCHANGED attempts
  /\ UNCHANGED <<worldVars, diskVars, placeholderVars, entryDef, queued, late>>

RemoveDir ==
  /\ pass.pc \in {"remove", "reclaimed"}
  /\ dir' = Unset
  /\ late' = late \ {"pass"}
  /\ IF pass.pc = "remove"
     THEN PassGoto("writer") /\ UNCHANGED <<attempts, queued>>
     ELSE /\ PassGoto("idle")
          /\ attempts' = [attempts EXCEPT !.armed = FALSE]
          /\ queued' = [queued EXCEPT !.mirror = TRUE]
  /\ UNCHANGED <<worldVars, marker, laid, writer, placeholderVars, entryDef>>

\* openWriter and allocateRing.
OpenWriter ==
  /\ pass.pc = "writer"
  /\ \/ /\ ~(dir # Unset /\ laid[dir].torn)
        /\ Opens("opening", pass.def)
        /\ PassGoto("fill")
        /\ UNCHANGED <<attempts, faults>>
     \/ /\ IF dir # Unset /\ laid[dir].torn THEN UNCHANGED faults
           ELSE Fault("open")
        /\ Fails(TRUE)
        /\ UNCHANGED <<dir, laid, writer>>
  /\ UNCHANGED <<flow, mirror, fabric, moves, marker, placeholderVars, entryDef, queued,
                 late>>

\* Filled: the placeholder is a mirror's copy now.
Filled ==
  /\ pass.pc = "fill"
  /\ marker' = FALSE
  /\ held' = [held EXCEPT !.filled = held.is]
  /\ crossed' = (crossed \/ rec.pc = "hold")
  /\ PassGoto("fabric")
  /\ UNCHANGED <<worldVars, dir, laid, writer, rec, start, attempts, entryDef, queued,
                 late>>

\* openFabricSide, and the entry's place in r.targets.
OpenFabricSide ==
  /\ pass.pc = "fabric"
  /\ IF ~fabric THEN Closes({"opening"}) /\ Fails(FALSE) /\ UNCHANGED entryDef
     ELSE /\ IF Live THEN Detaches({"opening"})
             ELSE /\ writer' = [writer EXCEPT !["target"] = writer["opening"],
                                              !["opening"] = Unset]
                  /\ UNCHANGED dir
          /\ entryDef' = IF Live THEN entryDef ELSE pass.def
          /\ attempts' = IF Live THEN attempts
                         ELSE [attempts EXCEPT !.count = 0, !.armed = FALSE]
          /\ PassGoto("idle")
  /\ UNCHANGED <<worldVars, marker, laid, placeholderVars, queued, late>>

\* The two gates of reclaimUnusableFlowDir.
Reclaims == ~KeepsFlow /\ dir # Unset /\ ~ForeignWriters

ReclaimUnusableFlowDir ==
  /\ pass.pc = "reclaim"
  /\ PassGoto(IF Reclaims THEN "reclaimed" ELSE "idle")
  /\ UNCHANGED <<worldVars, diskVars, placeholderVars, attempts, entryDef, queued, late>>

-----------------------------------------------------------------------------
(* The producer, the agent, the operator, and what goes wrong.             *)

\* What the node's agent makes of the directory.
Observed ==
  CASE dir = Unset \/ marker -> "none"
    [] ForeignWriters -> "Origin"
    [] writer["target"] = dir -> "Ready"
    [] OTHER -> "none"

AgentPublishes ==
  /\ flow.here # Observed /\ (flow.there \/ Observed = "Origin")
  /\ flow' = [flow EXCEPT !.here = Observed, !.there = TRUE]
  /\ queued' = [queued EXCEPT !.flow = TRUE]
  /\ UNCHANGED <<mirror, fabric, moves, faults, diskVars, placeholderVars,
                 targetVars, late>>

\* The mirror into a node that reads Origin is deleted.
OperatorDeletes ==
  /\ mirror = "there" /\ flow.here = "Origin"
  /\ mirror' = "deleting"
  /\ queued' = [queued EXCEPT !.mirror = TRUE]
  /\ UNCHANGED <<flow, fabric, moves, faults, diskVars, placeholderVars,
                 targetVars, late>>

\* A process on the node opens the flow as its producer.
ProducerAttaches ==
  /\ writer["producer"] = Unset /\ ~(dir # Unset /\ laid[dir].torn)
  /\ moves < MaxMoves /\ moves' = moves + 1
  /\ Opens("producer", flow.def)
  /\ late' = {r \in {"rec", "pass"} :
                IF r = "rec" THEN rec.pc = "remove"
                ELSE pass.pc \in {"remove", "reclaimed"}}
  /\ UNCHANGED <<flow, mirror, fabric, faults, marker, placeholderVars,
                 targetVars, queued>>

\* It closes the flow or dies.
ProducerExits ==
  /\ writer["producer"] # Unset
  /\ Closes({"producer"}) \/ Detaches({"producer"})
  /\ UNCHANGED <<worldVars, marker, laid, placeholderVars, targetVars, queued,
                 late>>

\* The flow changes layout, loses or regains its Origin elsewhere, goes or
\* comes back; a mirror into the node is asked for or no longer.
Move ==
  /\ moves < MaxMoves /\ moves' = moves + 1
  /\ \/ /\ \/ \E l \in Layout \ {flow.def} : flow' = [flow EXCEPT !.def = l]
           \/ flow' = [flow EXCEPT !.origin = ~@, !.there = TRUE]
           \/ flow' = [flow EXCEPT !.there = FALSE, !.origin = FALSE,
                                   !.here = "none"]
        /\ UNCHANGED mirror
     \/ /\ mirror' = IF mirror = "there" THEN "deleting" ELSE "there"
        /\ mirror # "deleting"
        /\ UNCHANGED flow
  /\ queued' = [flow |-> TRUE, mirror |-> TRUE]
  /\ UNCHANGED <<fabric, faults, diskVars, placeholderVars, targetVars, late>>

\* A wait of the failure run, or of a mirror without its flow, is over; or
\* the source reports that nothing arrives.
Woken ==
  /\ mirror = "there" /\ pass.pc = "idle" /\ ~queued.mirror /\ ~Live
  /\ queued' = [queued EXCEPT !.mirror = TRUE]
  /\ attempts' = [attempts EXCEPT !.armed = FALSE]
  /\ UNCHANGED <<worldVars, diskVars, placeholderVars, pass, entryDef, late>>

FabricGoes ==
  /\ fabric /\ Fault("fabric")
  /\ fabric' = FALSE
  /\ UNCHANGED <<flow, mirror, moves, diskVars, placeholderVars, targetVars,
                 queued, late>>

FabricBack ==
  /\ ~fabric
  /\ fabric' = TRUE
  /\ UNCHANGED <<flow, mirror, moves, faults, diskVars, placeholderVars,
                 targetVars, queued, late>>

\* The gateway's process ends, at worst in the middle of laying a directory
\* out, and starts again; leaveAll leaves what a crash does.
Restart ==
  /\ Fault("restart")
  /\ LET left == [o \in Owner |-> IF o = "producer" THEN writer[o] ELSE Unset]
         torn == pass.pc = "writer" /\ dir = Unset
     IN /\ writer' = left
        /\ dir' = IF torn THEN FreshDir ELSE dir
        /\ laid' = IF torn THEN [laid EXCEPT ![FreshDir] =
                                   [def |-> pass.def, torn |-> TRUE]]
                   ELSE laid
  /\ held' = NotHeld
  /\ rec' = RecIdle
  /\ start' = "sweep"
  /\ pass' = [pass EXCEPT !.pc = "idle"]
  /\ attempts' = [attempts EXCEPT !.armed = FALSE]
  /\ queued' = [flow |-> TRUE, mirror |-> TRUE]
  /\ late' = {} /\ crossed' = FALSE
  /\ UNCHANGED <<flow, mirror, fabric, moves, marker, entryDef>>

-----------------------------------------------------------------------------
Manages ==
  \/ RecLook \/ RecLeftover \/ RecRemove \/ RecMark \/ RecHold
  \/ \E by \in {"queue", "sweep", "tick"} : RecBegin(by)

Starts == Judge \/ CheckTaken \/ StopFlow \/ GiveUp

Reconciles ==
  \/ Reconcile \/ CloseEntry \/ Unfilled \/ RemoveFinalizer \/ OpenTarget
  \/ ClearFlowDir \/ RemoveDir \/ OpenWriter \/ Filled \/ OpenFabricSide
  \/ ReclaimUnusableFlowDir

Next ==
  \/ Manages \/ Starts \/ Reconciles
  \/ AgentPublishes \/ OperatorDeletes \/ ProducerAttaches \/ ProducerExits
  \/ Move \/ Woken \/ FabricGoes \/ FabricBack \/ Restart

\* The goroutines go on, the agent and the operator do their part, waits and
\* outages end: weak fairness, written as what may not last.  A pass ends.
Fairness ==
  /\ []<>~(rec.pc = "idle" /\ queued.flow) /\ []<>~(rec.pc = "idle" /\ start = "sweep")
  /\ []<>~(rec.pc = "idle" /\ start = "ticks" /\ held.is /\ ~Keeps)
  /\ []<>(rec.pc = "idle")
  /\ []<>~(rec.pc = "idle" /\ start = "judge") /\ []<>(start # "stop") /\ []<>(start # "give")
  /\ []<>~(start = "ticks" /\ held.is /\ ForeignWriters)
  /\ []<>~(pass.pc = "idle" /\ queued.mirror /\ mirror # "none")
  /\ []<>(pass.pc = "idle")
  /\ []<>~(flow.here # Observed /\ (flow.there \/ Observed = "Origin"))
  /\ []<>~(mirror = "there" /\ flow.here = "Origin")
  /\ []<>~(mirror = "there" /\ pass.pc = "idle" /\ ~queued.mirror /\ ~Live)
  /\ []<>fabric

Spec == Init /\ [][Next]_directoryVars

FairSpec == Spec /\ Fairness

(* Every variable keeps its type.                                          *)
TypeOK ==
  /\ flow \in [there: BOOLEAN, def: Layout, origin: BOOLEAN,
               here: {"none", "Origin", "Ready"}]
  /\ mirror \in {"none", "there", "deleting"}
  /\ dir \in Dir \cup {Unset} /\ marker \in BOOLEAN
  /\ laid \in [Dir -> [def: Layout, torn: BOOLEAN]]
  /\ writer \in [Owner -> Dir \cup {Unset}]
  /\ held \in [is: BOOLEAN, filled: BOOLEAN]
  /\ held.filled => held.is
  /\ held.is <=> writer["placeholder"] # Unset
  /\ rec \in [pc: {"idle", "look", "end", "leftover", "remove", "mark", "hold"},
              retired: BOOLEAN, by: {"queue", "sweep", "tick"}, def: Layout]
  /\ start \in {"sweep", "judge", "ticks", "stop", "give"}
  /\ pass \in [pc: {"idle", "close", "reopen", "unfill", "gone", "open",
                    "clear", "remove", "writer", "fill", "fabric", "reclaim",
                    "reclaimed"}, def: Layout, keep: BOOLEAN]
  /\ attempts \in Attempt
  /\ entryDef \in Layout
  /\ queued \in [flow: BOOLEAN, mirror: BOOLEAN]
  /\ fabric \in BOOLEAN /\ crossed \in BOOLEAN /\ late \subseteq {"rec", "pass"}
  /\ moves \in 0 .. MaxMoves /\ faults \subseteq Faults

(***************************************************************************)
(* What a reader of the gateway relies on.                                 *)
(***************************************************************************)

\* The directory a producer on the node writes is not removed by the gateway:
\* every removal follows a look at the locks in the same pass, and only a
\* producer that came in the instant between the two can lose its flow.
ProducerKeepsItsFlow ==
  [][dir # dir' /\ writer["producer"] # Unset /\ writer["producer"] = dir
       => writer'["producer"] = Unset \/ late # {}]_directoryVars

\* A placeholder no mirror fills carries its marker, through replacement,
\* restart and the clearing of stale markers, so that the agent never takes
\* the gateway's own writer for a producer.
HeldIsMarked == held.is /\ ~held.filled /\ ~crossed => marker

\* A mirror of a flow that stays gets its target, unless a producer starts on
\* the node: a torn or misfit directory, a failed open and a fabric that is
\* away for a while are got over.
WantedTargetOpens ==
  []<>(mirror = "there" /\ flow.there => Live \/ writer["producer"] # Unset)

BothWrite == {"target", "producer"} \subseteq Writers(dir)

\* The local writer wins: a target does not go on writing the directory of a
\* producer on the node.
LocalWriterWins == []<>~BothWrite

\* What the gateway never does to a flow's directory: types, a placeholder
\* without its marker, and the removal of what a producer writes.
DirectoryKept == [](TypeOK /\ HeldIsMarked) /\ ProducerKeepsItsFlow

\* What becomes of a flow's directory: a mirror gets its target there, and
\* gives way to a producer on the node.
DirectorySettles == WantedTargetOpens /\ LocalWriterWins

=============================================================================
