------------------------------- MODULE MCMerge -------------------------------
(***************************************************************************)
(* The gateway's data path for TLC: the transfer of a flow's grains        *)
(* (GrainTransfer), the output merged from them (MergeGrains), the         *)
(* judgement of a member (MergeProgress) and the reconciler that serves an *)
(* output with engines (MergeServing).  A behaviour is one of the part it  *)
(* starts in, and the other parts rest in a state in which they have       *)
(* nothing to do.                                                          *)
(***************************************************************************)
EXTENDS MergeProgress

VARIABLES
  part,
  producer, link, arrived, receiver, ring, writer, torn, lost,
  clock, edge, member, ordered, disc, view, out, loop, woken, outages,
  dir, api, cache, queued, engine, pass, tracked, moves, faults

transferV == <<producer, link, arrived, receiver, ring, writer, torn, lost>>
grainsV == <<clock, edge, member, ordered, disc, view, out, loop, woken, outages>>
servingV == <<dir, api, cache, queued, engine, pass, tracked, moves, faults>>

-----------------------------------------------------------------------------
(* Two mirrors between two nodes, or one, with rings of two grains of      *)
(* three slices.                                                           *)
Links == {1, 2}

Transfer == INSTANCE GrainTransfer WITH
  Link <- Links, Depth <- 2, Slices <- 3, Batch <- 1, MaxMirrorLag <- 1, MaxIndex <- 3,
  MaxShared <- 1, MaxArrived <- 2, MaxInvalid <- 1, MaxFaults <- 1, faults <- lost

TransferRests ==
  /\ producer = [open |-> 1, valid |-> 0, bad |-> {}]
  /\ link = [l \in {1, 2} |-> [Transfer!NewLoop(0) EXCEPT !.pc = "none"]]
  /\ arrived = [l \in {1, 2} |-> <<>>]
  /\ receiver = [l \in {1, 2} |-> [pc |-> "read", index |-> 0]]
  /\ ring = [s \in {0, 1} |-> [index |-> 0, valid |-> 0, invalid |-> FALSE, slice |-> <<0, 0, 0>>]]
  /\ writer = [head |-> 0, done |-> TRUE, open |-> [index |-> 0, valid |-> 0]]
  /\ torn = {} /\ lost = 0

-----------------------------------------------------------------------------
(* Two members at the clock or a grain behind it, and a ring of three      *)
(* grains.                                                                 *)
Lateness == {0, 1}

Grains == INSTANCE MergeGrains WITH
  Members <- 2, Grains <- 3, Skew <- 2, Start <- 3, Late <- Lateness, MaxIndex <- 6,
  MaxOutages <- 1

GrainsRest ==
  /\ clock = 8 /\ edge = TRUE
  /\ member = [m \in {0, 1} |->
       [late |-> 0, up |-> FALSE, turn |-> "due", ring |-> Grains!EmptyRing, fresh |-> FALSE,
        next |-> Grains!EmptyRing, whole |-> TRUE]]
  /\ ordered = FALSE /\ disc = Grains!NewDiscrete /\ view = Grains!NewDiscrete.Current
  /\ out = 0 /\ loop = Grains!AtRest /\ woken = FALSE /\ outages = 0

-----------------------------------------------------------------------------
(* Two members of one geometry or of two.                                  *)
Layouts == {1, 2, 3}
ServingFaults == {"full", "slow", "domain", "held", "report"}

Serving == INSTANCE MergeServing WITH
  Members <- 2, Layout <- Layouts, MaxMoves <- 2, Faults <- ServingFaults, MaxFaults <- 1

ServingRests ==
  /\ dir = [m \in {1, 2} |-> [ino |-> 1, lay |-> 1, whole |-> TRUE, mode |-> "steady"]]
  /\ api = [exists |-> FALSE, gen |-> 1, valid |-> 1, wanted |-> FALSE, report |-> {}]
  /\ cache = api /\ queued = FALSE /\ engine = Serving!NoEngine
  /\ pass = [pc |-> "idle", set |-> api, plan |-> Serving!NoEngine, again |-> FALSE]
  /\ tracked = [calm |-> TRUE, raced |-> FALSE, steadied |-> {1, 2}]
  /\ moves = 0 /\ faults = {}

-----------------------------------------------------------------------------
ProgressRests == Init /\ ~p.known

(* What the parts assume of their constants.                               *)
ASSUME MCMergeAssumption ==
  /\ Transfer!GrainTransferAssumption /\ Grains!MergeGrainsAssumption
  /\ Serving!MergeServingAssumption

MCInit ==
  \/ part = "progress" /\ Init /\ TransferRests /\ GrainsRest /\ ServingRests
  \/ part = "transfer" /\ ProgressRests /\ Transfer!Init /\ GrainsRest /\ ServingRests
  \/ part = "grains" /\ ProgressRests /\ TransferRests /\ Grains!Init /\ ServingRests
  \/ part = "serving" /\ ProgressRests /\ TransferRests /\ GrainsRest /\ Serving!Init

MCNext ==
  /\ UNCHANGED part
  /\ \/ part = "progress" /\ Next /\ UNCHANGED <<transferV, grainsV, servingV>>
     \/ part = "transfer" /\ Transfer!Next /\ UNCHANGED <<progressVars, grainsV, servingV>>
     \/ part = "grains" /\ Grains!Next /\ UNCHANGED <<progressVars, transferV, servingV>>
     \/ part = "serving" /\ Serving!Next /\ UNCHANGED <<progressVars, transferV, grainsV>>

MCSpec ==
  /\ MCInit /\ [][MCNext]_<<part, progressVars, transferV, grainsV, servingV>>
  /\ Transfer!Fairness /\ Grains!Fairness /\ Serving!Fairness

-----------------------------------------------------------------------------
(* The properties of the parts.                                           *)


\* GrainTransfer: the types hold; a grain the target commits as good is the
\* producer's, unless it was sent from the middle after a resync; and a commit
\* never takes slices back that were handed out of the grain held open.
TransferKept == Transfer!TransferKept

\* MergeGrains: the types hold; every slot readers trust shows the placeholder
\* or the very grain they take it for; while one member within the budget
\* drops nothing, no placeholder is published; and an ordered set does not
\* leave a primary that writes at the clock.
GrainsKept == Grains!GrainsKept

\* GrainTransfer and MergeGrains: a mirror's loop reaches the last grain of a
\* producer that stops, after every loss and resync, and the output everything
\* up to the leading head but indexes for which the budget is not spent.
OutputsCatchUp == Transfer!LoopCatchesUp /\ Grains!OutputCatchesUp

\* MergeServing: the types hold; a producer restarted in the output's shape
\* does not cost the readers their output; and a member reported stalled is
\* taken back only after it delivered steadily, over a change of engines.
ServingKept == Serving!ServingKept

\* MergeServing: a wanted set is served in the end by an engine for its
\* generation over the rings there are now, and the report comes to name the
\* members that do not deliver steadily.
ServingSettles == Serving!ServingSettles

=============================================================================
