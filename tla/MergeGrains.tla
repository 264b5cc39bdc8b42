----------------------------- MODULE MergeGrains -----------------------------
(***************************************************************************)
(* The output of a redundancy set of video or data flows on one node       *)
(* (gateway/internal/merge: policy.go's Discrete and the loop of           *)
(* engine.go).  The output's ring slots are views: each shows the slot of  *)
(* one member's ring, or the INVALID placeholder.  Readers map the slots   *)
(* and trust them for the newest Grains - 1 indexes up to the published    *)
(* head, while the members go on writing the rings underneath.             *)
(*                                                                         *)
(* Time is counted in grain periods.  A member writes the index its fixed  *)
(* lateness behind the clock once a period, in the first three quarters    *)
(* of it, unless it is out; the engine passes when a member's sync word    *)
(* changed, when a wait for the primary is over, and a guard before every  *)
(* boundary (retireGuard).  A pass is cut at every index it decides, at    *)
(* Retire, which reads the heads again, and at every select and publish.   *)
(***************************************************************************)
EXTENDS Naturals, Sequences, FiniteSets, FiniteSetsExt

CONSTANTS
  Members,      \* how many members, at most maxSources - 1
  Grains,       \* ring depth
  Skew,         \* the skew budget, in grains
  Start,        \* the clock when the engine starts
  Late,         \* how many periods behind the clock a member may write
  MaxIndex,     \* bound: the last index written; see MaxClock
  MaxOutages    \* bound: outages, INVALID grains and grains in two batches

Member == 0 .. Members - 1
Placeholder == Members
Slot == 0 .. Grains - 1
NoPrimary == Members + 1

\* Two periods are left to the engine when the members have written their last.
MaxClock == MaxIndex + 2

\* What is assumed of the constants.
MergeGrainsAssumption ==
  /\ Members \in 1 .. 7
  /\ Grains \in Nat /\ Grains > 2
  /\ Skew \in Nat \ {0}
  /\ Late \subseteq 0 .. Start - 1
  /\ {Start, MaxIndex, MaxOutages} \subseteq Nat

VARIABLES
  clock,    \* the index whose period it is
  edge,     \* the guard before the next boundary has begun
  member,   \* the members: producer, ring and how the engine sees it
  ordered,  \* Spec.Ordered
  disc,     \* the Discrete policy
  view,     \* the source every slot of the output shows
  out,      \* the published head
  loop,     \* where the engine's loop is in a pass
  woken,    \* a sync word changed since the last pass began
  outages

mergeVars == <<clock, edge, member, ordered, disc, view, out, loop, woken, outages>>

\* Grain: what a ring slot's header holds.  "open" and "part" stand for a
\* grain that has not all its slices valid, before and after a first commit.
Grain == [index : 0 .. MaxIndex, state : {"open", "part", "full", "invalid"}]

\* A flow's ring as the engine has it mapped: its head and its grain headers.
Ring == [head : 0 .. MaxIndex, grain : [Slot -> Grain]]

EmptyRing == [head |-> 0, grain |-> [s \in Slot |-> [index |-> 0, state |-> "open"]]]

\* A producer: its lateness, whether it writes, how far it is with this
\* period's grain, its ring, the ring a restart created that the engine has
\* not taken, and whether it has never been out.
MemberState ==
  [late : Late, up : BOOLEAN, turn : {"due", "open", "part", "done"}, ring : Ring,
   fresh : BOOLEAN, next : Ring, whole : BOOLEAN]

Select == [slot : Slot, source : Member \cup {Placeholder}, index : 0 .. MaxIndex]

Discrete ==
  [Head : 0 .. MaxIndex, Primary : Member \cup {NoPrimary},
   Current : [Slot -> Member \cup {Placeholder}],
   waitingIndex : 0 .. MaxIndex, waitingSince : 0 .. MaxClock,
   seen : [Member -> 0 .. MaxIndex], late : [Member -> 0 .. MaxClock + 1]]

\* run: between two passes, deciding index after index, retiring, applying.
Loop ==
  [pc : {"rest", "step", "retire", "apply"}, heads : [Member -> 0 .. MaxIndex],
   sel : Seq(Select)]

AtRest == [pc |-> "rest", heads |-> [m \in Member |-> 0], sel |-> <<>>]

\* NewDiscrete: every slot on the placeholder, no primary.
NewDiscrete ==
  [Head |-> 0, Primary |-> NoPrimary, Current |-> [s \in Slot |-> Placeholder],
   waitingIndex |-> 0, waitingSince |-> 0,
   seen |-> [m \in Member |-> 0], late |-> [m \in Member |-> 0]]

\* Start: the members' rings are mapped, the output is built on the
\* placeholder and published with head 0, and the loop starts.
Init ==
  /\ clock = Start /\ edge = FALSE
  /\ member \in [Member ->
       {[late |-> l, up |-> TRUE, turn |-> "due", ring |-> EmptyRing, fresh |-> FALSE,
         next |-> EmptyRing, whole |-> TRUE] : l \in Late}]
  /\ ordered \in BOOLEAN
  /\ disc = NewDiscrete
  /\ view = NewDiscrete.Current
  /\ out = 0
  /\ loop = AtRest
  /\ woken = FALSE /\ outages = 0

----------------------------------------------------------------------------
(* The members.                                                             *)

Heads == [m \in Member |-> member[m].ring.head]

\* The ring the producer writes, and its header after a step on one grain.
Written(m, r) == IF member[m].fresh THEN [member[m] EXCEPT !.next = r]
                                    ELSE [member[m] EXCEPT !.ring = r]

WritesTo(m) == IF member[m].fresh THEN member[m].next ELSE member[m].ring

\* Members write in the first part of a period.  Step decides its indexes in
\* microseconds: what they write while it does is taken to follow it.
Writing(m) == ~edge /\ member[m].up /\ loop.pc # "step"

\* OpenGrain: the header of the slot takes the new index at once.
OpenGrain(m) ==
  LET i == clock - member[m].late IN
  /\ Writing(m) /\ member[m].turn = "due" /\ clock <= MaxIndex
  /\ member' = [member EXCEPT
       ![m] = [Written(m, [WritesTo(m) EXCEPT !.grain[i % Grains] = [index |-> i, state |-> "open"]])
               EXCEPT !.turn = "open"]]
  /\ UNCHANGED <<clock, edge, ordered, disc, view, out, loop, woken, outages>>

\* A commit moves the head, with its first slices, all of them or INVALID,
\* and changes the sync word of the ring.
Commit(m, state) ==
  LET i == clock - member[m].late IN
  /\ Writing(m) /\ member[m].turn \in {"open", "part"}
  /\ state = "part" => member[m].turn = "open"
  /\ state # "full" => outages < MaxOutages
  /\ outages' = IF state # "full" THEN outages + 1 ELSE outages
  /\ member' = [member EXCEPT
       ![m] = [Written(m, [WritesTo(m) EXCEPT !.head = i, !.grain[i % Grains].state = state])
               EXCEPT !.turn = IF state = "part" THEN "part" ELSE "done",
                      !.whole = @ /\ state # "invalid"]]
  /\ woken' = (woken \/ ~member[m].fresh)
  /\ UNCHANGED <<clock, edge, ordered, disc, view, out, loop>>

\* A producer stops, in the middle of a grain too; it writes again from the
\* period it comes back in, in a new ring when it was restarted.
Stop(m) ==
  /\ outages < MaxOutages /\ outages' = outages + 1
  /\ member[m].up /\ member[m].turn # "done" /\ loop.pc = "rest" /\ ~edge
  /\ member' = [member EXCEPT ![m].up = FALSE, ![m].whole = FALSE]
  /\ UNCHANGED <<clock, edge, ordered, disc, view, out, loop, woken>>

Resume(m, restarted) ==
  /\ ~member[m].up /\ loop.pc = "rest" /\ ~edge
  /\ restarted => ~member[m].fresh
  /\ member' = [member EXCEPT ![m].up = TRUE, ![m].fresh = @ \/ restarted,
                              ![m].turn = IF restarted /\ @ # "done" THEN "due" ELSE @]
  /\ UNCHANGED <<clock, edge, ordered, disc, view, out, loop, woken, outages>>

\* The boundary: the passes before it are made, the members had their time.
BoundaryDue == edge /\ ~woken /\ loop.pc = "rest" /\ clock < MaxClock

Tick ==
  /\ BoundaryDue
  /\ clock' = clock + 1 /\ edge' = FALSE
  /\ member' = [m \in Member |-> [member[m] EXCEPT !.turn = "due"]]
  /\ UNCHANGED <<ordered, disc, view, out, loop, woken, outages>>

----------------------------------------------------------------------------
(* Discrete.                                                                *)

(* Faulty variant: the slot the member writes next counts as held.          *)
servesOverwritten(m, head, i) ==
  LET g == member[m].ring.grain[i % Grains]
  IN  head >= i /\ g.index <= i /\ g.state = "full"

\* The member, its head read as head, has grain i whole.
serves(m, head, i) ==
  LET g == member[m].ring.grain[i % Grains]
  IN  head >= i /\ head - i <= Grains - 2 /\ g.index = i /\ g.state = "full"

\* The index the clock is at a guard from now: retireDue.
due == IF edge THEN clock + 1 ELSE clock

lead == Max({loop.heads[m] : m \in Member})

\* A pass begins: the sync words and the heads are read.  Step puts an
\* ordered set on its first member and starts at the newest grain.
PassBegins ==
  LET l == Max({Heads[m] : m \in Member}) IN
  /\ loop.pc = "rest"
  /\ loop' = [pc |-> "step", heads |-> Heads, sel |-> <<>>]
  /\ woken' = FALSE
  /\ disc' = [disc EXCEPT !.Primary = IF ordered /\ @ = NoPrimary THEN 0 ELSE @,
                          !.Head = IF @ = 0 /\ l > 0 THEN l - 1 ELSE @]
  /\ UNCHANGED <<clock, member, ordered, view, out, outages>>

\* No member delivered i within Skew grains of the leading one.
Overdue(i) == lead >= i + Skew

\* ToleranceFor: half the budget, counted in periods and no less than one.
Tolerance == Max({Skew \div 2, 1})

\* now.Sub(d.waitingSince) >= d.Tolerance
ToleranceOver(i) == disc.waitingIndex = i /\ clock >= disc.waitingSince + Tolerance

\* wait: woken by a member, or by the end of the wait for the primary.
Wakes == woken \/ ToleranceOver(disc.Head + 1)

PassWoken ==
  /\ Wakes
  /\ PassBegins
  /\ edge' = edge

\* wait: the timeout retireDue asks for, a guard before the boundary.  What
\* the members committed by then has woken the engine before.
GuardOver ==
  /\ ~edge /\ ~woken
  /\ \A m \in Member : member[m].up /\ clock <= MaxIndex => member[m].turn = "done"

PassBeforeBoundary ==
  /\ GuardOver
  /\ edge' = TRUE
  /\ PassBegins

\* A set without a primary takes the first member that serves a grain.
FirstPick(d, pick) ==
  IF d.Primary = NoPrimary /\ pick # Placeholder THEN pick ELSE d.Primary

\* The slot of the next index gets its source and the policy's head moves.
Chosen(i, pick, d) ==
  /\ disc' = [d EXCEPT !.Head = i, !.Current[i % Grains] = pick,
                       !.Primary = FirstPick(d, pick)]
  /\ loop' = IF disc.Current[i % Grains] = pick THEN loop
             ELSE [loop EXCEPT !.sel = Append(@, [slot |-> i % Grains, source |-> pick, index |-> i])]

StepEnds(d) ==
  /\ disc' = d
  /\ loop' = [loop EXCEPT !.pc = "retire", !.heads = AtRest.heads]

\* Step, for the next index: the primary of an ordered set or the first
\* member that has it, another member once the primary skipped it or is late,
\* the placeholder once the budget is spent.
StepIndex ==
  LET i == disc.Head + 1
      has == {m \in Member : serves(m, loop.heads[m], i)}
      others == has \ {disc.Primary}
      since == IF disc.waitingIndex = i THEN disc
               ELSE [disc EXCEPT !.waitingIndex = i, !.waitingSince = clock]
      skipped == disc.Primary = NoPrimary \/ loop.heads[disc.Primary] >= i
  IN
  /\ loop.pc = "step"
  /\ \/ disc.Head >= lead /\ StepEnds(disc)
     \/ /\ disc.Head < lead
        /\ \/ ordered /\ disc.Primary \in has /\ Chosen(i, disc.Primary, disc)
           \/ ~ordered /\ has # {} /\ Chosen(i, Min(has), disc)
           \/ /\ ordered /\ disc.Primary \notin has /\ has # {}
              /\ \/ skipped /\ Chosen(i, Min(others), since)
                 \/ /\ ~skipped /\ ToleranceOver(i)
                    /\ Chosen(i, Min(others), [since EXCEPT !.Primary = Min(others)])
                 \/ ~skipped /\ ~ToleranceOver(i) /\ StepEnds(since)
           \/ has = {} /\ ~Overdue(i) /\ StepEnds(disc)
           \/ has = {} /\ Overdue(i) /\ Chosen(i, Placeholder, disc)
  /\ UNCHANGED <<clock, edge, member, ordered, view, out, woken, outages>>

Monus(a, b) == IF a > b THEN a - b ELSE 0

\* next: the highest index member m may write before the next pass.
mayWrite(m, late) == Max({Heads[m] + 1, Monus(due, late[m])})

\* Retire: the slots of trusted indexes their source may overwrite before
\* the next pass move to a member that still holds the index, or to the
\* placeholder.
Retire ==
  LET late == [m \in Member |-> IF Heads[m] # disc.seen[m] THEN Monus(due, Heads[m])
                                                           ELSE disc.late[m]]
      safe(m, i) == mayWrite(m, late) < i + Grains
      trusted == (Monus(disc.Head + 2, Grains)) .. disc.Head
      moved == {i \in trusted \ {0} :
                  LET cur == disc.Current[i % Grains] IN cur # Placeholder /\ ~safe(cur, i)}
      holders(i) == {m \in Member \ {disc.Current[i % Grains]} :
                       serves(m, Heads[m], i) /\ safe(m, i)}
      to(i) == IF holders(i) = {} THEN Placeholder ELSE Min(holders(i))
      sel(i) == [slot |-> i % Grains, source |-> to(i), index |-> i]
  IN
  /\ loop.pc = "retire"
  /\ disc' = [disc EXCEPT !.seen = Heads, !.late = late,
       !.Current = [s \in Slot |-> IF \E i \in moved : i % Grains = s
                                   THEN to(CHOOSE i \in moved : i % Grains = s) ELSE @[s]]]
  /\ loop' = [loop EXCEPT !.pc = "apply",
       !.sel = @ \o [k \in 1 .. Cardinality(moved) |->
                       sel(CHOOSE i \in moved : Cardinality({j \in moved : j < i}) = k - 1)]]
  /\ UNCHANGED <<clock, edge, member, ordered, view, out, woken, outages>>

\* apply: readers trust the slot of index i to hold i - Grains until the
\* head reaches i - 1.
PublishFirst(s) == s.index > out + 1

\* apply, one ioctl or one publish at a time.
Apply ==
  LET s == Head(loop.sel) IN
  /\ loop.pc = "apply" /\ loop.sel # <<>>
  /\ IF PublishFirst(s)
     THEN out' = s.index - 1 /\ UNCHANGED <<view, loop>>
     ELSE /\ view' = [view EXCEPT ![s.slot] = s.source]
          /\ loop' = [loop EXCEPT !.sel = Tail(@)]
          /\ out' = out
  /\ UNCHANGED <<clock, edge, member, ordered, disc, woken, outages>>

\* The pass ends: publish moves the head and wakes the output's readers.
Publish ==
  /\ loop.pc = "apply" /\ loop.sel = <<>>
  /\ out' = Max({out, disc.Head})
  /\ loop' = AtRest
  /\ UNCHANGED <<clock, edge, member, ordered, disc, view, woken, outages>>

\* Drop: every slot m serves moves to another member that holds the slot's
\* index below the published head, or to the placeholder.
Drop(m) ==
  [s \in Slot |->
     LET back == ((disc.Head % Grains) + Grains - s) % Grains
         holders == {o \in Member \ {m} : disc.Head >= back /\ serves(o, Heads[o], disc.Head - back)}
     IN  IF disc.Current[s] # m THEN disc.Current[s]
         ELSE IF holders = {} THEN Placeholder ELSE Min(holders)]

\* Replace, taken up by the loop between two passes: take moves the slots
\* off the member and puts its new ring in place of the old one.
Take(m) ==
  /\ loop.pc = "rest" /\ member[m].fresh /\ clock <= MaxIndex
  /\ disc' = [disc EXCEPT !.Current = Drop(m)]
  /\ view' = Drop(m)
  /\ member' = [member EXCEPT ![m].ring = member[m].next, ![m].fresh = FALSE, ![m].next = EmptyRing]
  /\ woken' = TRUE
  /\ UNCHANGED <<clock, edge, ordered, out, loop, outages>>

----------------------------------------------------------------------------
Engine == PassWoken \/ PassBeforeBoundary \/ StepIndex \/ Retire \/ Apply \/ Publish

Next ==
  \/ Tick \/ Engine
  \/ \E m \in Member :
       \/ OpenGrain(m) \/ \E s \in {"part", "full", "invalid"} : Commit(m, s)
       \/ Stop(m) \/ \E r \in BOOLEAN : Resume(m, r)
       \/ Take(m)

\* The loop is one goroutine that always goes on, members write and time
\* passes as often as it could: weak fairness of the loop and the members and
\* strong fairness of the clock, which ends, written as what may not last.
Fairness ==
  /\ \A pc \in {"step", "retire", "apply"} : []<>(loop.pc # pc)
  /\ []<>~(loop.pc = "rest" /\ Wakes) /\ []<>~(loop.pc = "rest" /\ GuardOver)
  /\ <>[]~BoundaryDue
  /\ \A m \in Member :
       /\ []<>~(Writing(m) /\ member[m].turn = "due" /\ clock <= MaxIndex)
       /\ []<>~(Writing(m) /\ member[m].turn \in {"open", "part"})

Spec == Init /\ [][Next]_mergeVars

FairSpec == Spec /\ Fairness

----------------------------------------------------------------------------
(* Properties.                                                              *)

(* Every variable keeps its type.                                          *)
TypeOK ==
  /\ clock \in Start .. MaxClock /\ edge \in BOOLEAN /\ woken \in BOOLEAN
  /\ member \in [Member -> MemberState]
  /\ ordered \in BOOLEAN
  /\ disc \in Discrete
  /\ view \in [Slot -> Member \cup {Placeholder}]
  /\ out \in 0 .. MaxIndex
  /\ loop \in Loop
  /\ outages \in 0 .. MaxOutages

\* What a reader of the output may look at is what it takes it for: the slot
\* of every index readers trust shows the INVALID placeholder, or a member's
\* slot that still holds that very grain, whole, whatever the members write
\* underneath and whichever of the selects of a pass have been made.
ReadersSeeTruth ==
  \A i \in (Monus(out + 2, Grains) .. out) \ {0} :
    \/ view[i % Grains] = Placeholder
    \/ member[view[i % Grains]].ring.grain[i % Grains] = [index |-> i, state |-> "full"]

\* The promise of the set: while one member, less late than the budget, never
\* drops a grain, no grain from its first one on is published from the
\* placeholder.
SteadyMemberIsShown ==
  [][out # 0 =>
       \A i \in (out + 1) .. out' :
         view'[i % Grains] = Placeholder =>
           \A m \in Member : ~ /\ member[m].whole /\ member[m].late < Skew
                               /\ i + member[m].late >= Start]_mergeVars

\* An ordered set leaves its primary only for a loss or a delay beyond the
\* tolerance: a primary that writes at the clock and never dropped a grain is
\* not replaced because another member was quicker.
SteadyPrimaryIsKept ==
  [][\A m \in Member :
       ordered /\ disc.Primary = m /\ member[m].whole /\ member[m].late = 0
         => disc'.Primary = m]_mergeVars

\* The output follows its members: once they write no more, everything up to
\* the leading head is published but the last indexes no member has whole,
\* for which the budget is not spent.
OutputCatchesUp ==
  <>[](LET l == Max({Heads[m] : m \in Member}) IN
       \/ out >= l
       \/ /\ l < out + 1 + Skew
          /\ \A m \in Member : ~serves(m, Heads[m], out + 1))

\* What no pass of the merge loop breaks: types, the truth of what readers may
\* look at, and the choice of a member that delivers over a placeholder and of
\* the primary over others.
GrainsKept == [](TypeOK /\ ReadersSeeTruth) /\ SteadyMemberIsShown /\ SteadyPrimaryIsKept

=============================================================================
