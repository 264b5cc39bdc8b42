------------------------------ MODULE MCGateway ------------------------------
(***************************************************************************)
(* The gateway's two sides of a mirror and the directory it is written to, *)
(* for TLC: TargetEntry, FlowDirectory and SharedSource.  Each has its     *)
(* environment in its own module and variables of its own here; a          *)
(* behaviour is one of the part it starts in, and the other parts rest in  *)
(* a state in which they have nothing to do.                               *)
(***************************************************************************)
EXTENDS TargetEntry

CONSTANTS w, t1

VARIABLES
  part,
  flow, copy, dir, marker, laid, writer, held, rec, start, open, attempts,
  entryDef, due, fabric, crossed, late, dirMoves, dirFaults,
  asked, produced, work, timer, redial, attempt, sources, shared, link, src,
  rebuilds, stack, srcMoves, srcFaults

directoryV == <<flow, copy, dir, marker, laid, writer, held, rec, start, open,
                attempts, entryDef, due, fabric, crossed, late, dirMoves, dirFaults>>
sourceV == <<asked, produced, work, timer, redial, attempt, sources, shared, link,
             src, rebuilds, stack, srcMoves, srcFaults>>

TargetRests ==
  /\ mirror = [deleting |-> TRUE, finalizer |-> FALSE, phase |-> "Pending",
               info |-> None, grain |-> FALSE, spec |-> 0, provider |-> 0]
  /\ queued = FALSE
  /\ pass = IdlePass
  /\ table = None
  /\ entry = [e \in Entry |-> UnusedEntry]
  /\ side = [s \in Side |-> UnusedSide]
  /\ recovery = [t \in Thread |-> NoRecovery]
  /\ sending = FALSE /\ reclosed = FALSE /\ moves = 0 /\ faults = {}

-----------------------------------------------------------------------------
(* Two layouts of the flow, and a directory for every writer and one more. *)
Dirs == 1..6
Layouts == {1, 2}
DirectoryFaults == {"open", "fabric", "restart"}

Directory == INSTANCE FlowDirectory WITH
  Dir <- Dirs, Layout <- Layouts, MaxAttempts <- 2, MaxMoves <- 2,
  Faults <- DirectoryFaults, MaxFaults <- 1,
  mirror <- copy, pass <- open, queued <- due, moves <- dirMoves, faults <- dirFaults

DirectoryRests ==
  /\ flow = [there |-> FALSE, def |-> 1, origin |-> FALSE, here |-> "none"]
  /\ copy = "none"
  /\ dir = 0 /\ marker = FALSE
  /\ laid = [d \in Dirs |-> Directory!Nothing]
  /\ writer = [o \in Directory!Owner |-> 0]
  /\ held = [is |-> FALSE, filled |-> FALSE]
  /\ rec = [pc |-> "idle", retired |-> FALSE, by |-> "queue", def |-> 1]
  /\ start = "ticks"
  /\ open = [pc |-> "idle", def |-> 1, keep |-> FALSE]
  /\ attempts = [count |-> 0, armed |-> FALSE, def |-> 1]
  /\ entryDef = 1
  /\ due = [flow |-> FALSE, mirror |-> FALSE]
  /\ fabric = TRUE /\ crossed = FALSE /\ late = {} /\ dirMoves = 0 /\ dirFaults = {}

-----------------------------------------------------------------------------
(* Two mirrors of one flow, which may be on either of two providers.       *)
Mirrors == {1, 2}
Providers == {1, 2}
Links == 1..5
SharedSources == 1..4
Goroutines == {t1}
SourceFaults == {"open", "add", "drop", "wedge"}

Source == INSTANCE SharedSource WITH
  Mirror <- Mirrors, Key <- Providers, Entry <- Links, Source <- SharedSources,
  Worker <- w, Thread <- Goroutines, MaxRebuilds <- 2, MaxRing <- 2, MaxInfo <- 2,
  MaxMoves <- 1, Faults <- SourceFaults, MaxFaults <- 1,
  mirror <- asked, flow <- produced, queued <- work, entry <- link,
  moves <- srcMoves, faults <- srcFaults

SourceRests ==
  /\ asked = [m \in Mirrors |->
       [exists |-> FALSE, deleting |-> TRUE, here |-> FALSE, finalizer |-> FALSE,
        info |-> 0, iface |-> 0, key |-> 1]]
  /\ produced = [ring |-> 1, published |-> 1, state |-> "gone"]
  /\ work = <<>> /\ timer = {}
  /\ redial = [m \in Mirrors |-> "none"]
  /\ attempt = [m \in Mirrors |-> Source!NoAttempt]
  /\ sources = [m \in Mirrors |-> 0]
  /\ shared = [k \in Providers |-> 0]
  /\ link = [e \in Links |-> Source!NoEntry]
  /\ src = [s \in SharedSources |-> Source!NoSource]
  /\ rebuilds = [k \in Providers |-> 0]
  /\ stack = [p \in {w, t1} |-> <<>>]
  /\ srcMoves = 0 /\ srcFaults = {}

-----------------------------------------------------------------------------
(* What the parts assume of their constants.                               *)
ASSUME MCGatewayAssumption == Directory!FlowDirectoryAssumption /\ Source!SourceAssumption

MCInit ==
  \/ part = "target" /\ Init /\ DirectoryRests /\ SourceRests
  \/ part = "directory" /\ TargetRests /\ Directory!Init /\ SourceRests
  \/ part = "source" /\ TargetRests /\ DirectoryRests /\ Source!Init

MCNext ==
  /\ UNCHANGED part
  /\ \/ part = "target" /\ Next /\ UNCHANGED <<directoryV, sourceV>>
     \/ part = "directory" /\ Directory!Next /\ UNCHANGED <<targetVars, sourceV>>
     \/ part = "source" /\ Source!Next /\ UNCHANGED <<targetVars, directoryV>>

MCSpec ==
  /\ MCInit /\ [][MCNext]_<<part, targetVars, directoryV, sourceV>>
  /\ Fairness /\ Directory!Fairness /\ Source!Fairness

-----------------------------------------------------------------------------
(* The properties of the parts.                                           *)


\* FlowDirectory: the types hold; a placeholder no mirror fills carries its
\* marker, so that the agent never takes the gateway's writer for a producer;
\* and the gateway removes no directory a producer writes, unless that came in
\* the instant after the look at the locks.
DirectoryKept == Directory!DirectoryKept

\* FlowDirectory: a mirror of a flow that stays gets its target, over torn or
\* misfit directories, failed opens and a fabric that is away; and a target
\* does not go on writing the directory of a producer on the node.
DirectorySettles == Directory!DirectorySettles

\* SharedSource: the types hold, and every reader and transfer loop that is
\* open belongs to the listed entry of its mirror or to a call still at work:
\* none is left behind to pin the flow's directory.
SourceKept == Source!SourceKept

\* SharedSource: a mirror whose flow is written ends up again and again with a
\* reader on the present ring that sends to the published target, unless it
\* was left behind; a flow that nothing writes is released for good.
SourceSettles == Source!SourceSettles

=============================================================================
