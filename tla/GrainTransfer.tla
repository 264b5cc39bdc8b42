---------------------------- MODULE GrainTransfer ----------------------------
(***************************************************************************)
(* The grains of one video flow on their way from the producer's ring to   *)
(* the ring of another node (gateway/internal/mirror): the transfer loops  *)
(* of the mirrors between the two nodes (source_transfer.go), the remote   *)
(* writes they post, and the loops that commit what arrived                *)
(* (runTargetProgressLoop and commitArrivedGrain of target.go,             *)
(* sharedflow.go).  Two mirrors of one flow into one node share the ring   *)
(* and its writer there.                                                   *)
(*                                                                         *)
(* A remote write carries the header and a range of slices of the source's *)
(* slot, as they are when it lands: the producer does not wait, and may    *)
(* have reused the slot.  A slice is the index of the grain it belongs to, *)
(* 0 while the producer overwrites it.  A transfer loop is cut at the      *)
(* probe of the head, the read with its post and the landing with its      *)
(* completion; a receiving loop at ReadGrain and the commit.               *)
(***************************************************************************)
EXTENDS Integers, FiniteSets, FiniteSetsExt, SequencesExt

CONSTANTS
  Link,         \* the mirrors of the flow between the two nodes
  Depth,        \* ring depth, of both rings
  Slices,       \* slices of a grain
  Batch,        \* batch: slices a read waits for
  MaxMirrorLag, \* maxMirrorLag
  MaxIndex,     \* bound: the last grain written
  MaxShared,    \* bound: the last grain written while the node has two mirrors
  MaxArrived,   \* bound: arrivals of a mirror its target has not read
  MaxInvalid,   \* bound: grains the producer commits invalid
  MaxFaults     \* bound: posts that fail and targets that are lost

\* What is assumed of the constants.
GrainTransferAssumption ==
  /\ Depth \in Nat /\ MaxMirrorLag \in 1 .. Depth - 1
  /\ Slices \in Nat \ {0} /\ Batch \in 1 .. Slices
  /\ {MaxIndex, MaxShared, MaxArrived, MaxInvalid, MaxFaults} \subseteq Nat

VARIABLES
  producer,  \* the grain it has open, the slices valid, the invalid grains
  link,      \* the transfer loops
  arrived,   \* per mirror, the arrivals its target has not read
  receiver,  \* per mirror, the receiving loop
  ring,      \* the slots of the receiving node's ring
  writer,    \* the flow's writer there and sharedFlow.open
  torn,      \* history: grains sent from the slice another one had got to, or
             \* whose slot an arrival a ring behind wrote after it
  faults

transferVars == <<producer, link, arrived, receiver, ring, writer, torn, faults>>

Slot == 0 .. Depth - 1
Index == 0 .. MaxIndex

\* The header of a slot and what its slices hold.
Grain == [index : Index, valid : 0 .. Slices, invalid : BOOLEAN, slice : [1 .. Slices -> Index]]

\* runTransferLoop: lastSent, start, next, the head probed and the end of the
\* slices posted.  batch is the grain the slices before start belong to.
Loop ==
  [pc : {"none", "probe", "read", "sent", "lost"}, lastSent : Index, start : 0 .. Slices,
   next : 0 .. MaxIndex + 1, head : Index, end : 0 .. Slices, done : BOOLEAN, batch : Index]

\* awaitConnected is over: the loop tails the live flow.
NewLoop(head) ==
  [pc |-> "probe", lastSent |-> head, start |-> 0, next |-> 0, head |-> 0, end |-> 0,
   done |-> FALSE, batch |-> 0]

Init ==
  /\ producer = [open |-> 1, valid |-> 0, bad |-> {}]
  /\ \E L \in {Link, {CHOOSE l \in Link : TRUE}} :
       link = [l \in Link |-> [NewLoop(0) EXCEPT !.pc = IF l \in L THEN "probe" ELSE "none"]]
  /\ arrived = [l \in Link |-> <<>>]
  /\ receiver = [l \in Link |-> [pc |-> "read", index |-> 0]]
  /\ ring = [s \in Slot |-> [index |-> 0, valid |-> 0, invalid |-> FALSE,
                             slice |-> [k \in 1 .. Slices |-> 0]]]
  /\ writer = [head |-> 0, done |-> TRUE, open |-> [index |-> 0, valid |-> 0]]
  /\ torn = {} /\ faults = 0

----------------------------------------------------------------------------
(* The producer and its ring.                                               *)

\* The head: the newest grain with a commit.
Head0 == IF producer.valid = 0 THEN producer.open - 1 ELSE producer.open

\* The last grain the producer writes.
LastGrain == IF \A l \in Link : link[l].pc # "none" THEN MaxShared ELSE MaxIndex

\* What a slot of the producer's ring holds now.
SourceGrain(s) ==
  LET i == Max({j \in {0} \cup (1 .. producer.open) : j % Depth = s \/ j = 0})
      now == i = producer.open
  IN  [index |-> i, valid |-> IF now THEN producer.valid ELSE Slices,
       invalid |-> i \in producer.bad,
       slice |-> [k \in 1 .. Slices |-> IF (now /\ k > producer.valid) \/ i \in producer.bad
                                        THEN 0 ELSE i]]

\* A commit of more slices, of a grain without a picture, or the next grain.
Produce ==
  /\ \/ \E v \in producer.valid + 1 .. Slices : producer' = [producer EXCEPT !.valid = v]
     \/ /\ producer.valid = 0 /\ Cardinality(producer.bad) < MaxInvalid
        /\ producer' = [producer EXCEPT !.valid = Slices, !.bad = @ \cup {producer.open}]
     \/ /\ producer.valid = Slices /\ producer.open < LastGrain
        /\ producer' = [producer EXCEPT !.open = @ + 1, !.valid = 0]
  /\ UNCHANGED <<link, arrived, receiver, ring, writer, torn, faults>>

----------------------------------------------------------------------------
(* The transfer loop of a mirror.                                           *)

Fault == faults < MaxFaults /\ faults' = faults + 1

Keep == UNCHANGED <<producer, receiver, writer>>

\* The loop trails the head by more than it catches up grain by grain.
Resyncs(l) == link[l].start = 0 /\ Head0 > MaxMirrorLag /\ link[l].lastSent < Head0 - MaxMirrorLag

Probe(l) ==
  /\ link[l].pc = "probe"
  /\ link' = [link EXCEPT
       ![l].pc = "read", ![l].head = Head0,
       ![l].next = IF Resyncs(l) THEN Head0 ELSE link[l].lastSent + 1]
  /\ Keep /\ UNCHANGED <<arrived, ring, torn, faults>>

\* batchEnd, which libmxl caps at the grain's slices.
BatchEnd(start) == Min({start + Batch, Slices})

\* The grain is offered again.
Again(l) == [NewLoop(link[l].lastSent) EXCEPT !.start = link[l].start, !.batch = link[l].batch]

(* Faulty variant: the grain that is gone is tried again.                   *)
AgedOutStays(l) == Again(l)

\* The reader can no longer hand the grain out: the loop jumps to the head.
AgedOut(l) == NewLoop(link[l].head)

\* newGrainTransfer: an invalid grain goes as its header alone; the slices
\* valid now go from where the last batch ended.
Posted(l, g) ==
  LET end == IF g.invalid THEN 0 ELSE Max({g.valid, link[l].start})
  IN  [link[l] EXCEPT !.pc = "sent", !.head = 0, !.end = end, !.done = g.invalid \/ end >= Slices]

\* The slices before start are slices of the grain that is sent.
GoesOn(l) == link[l].start > 0 => link[l].batch = link[l].next

\* The loop ended: the target is gone for it.
LostLoop == [NewLoop(0) EXCEPT !.pc = "lost"]

\* transferGrain: the read, which waits for the batch, and the post.
Transfer(l) ==
  LET i == link[l].next
      g == SourceGrain(i % Depth)
      gone == i <= Head0 - Depth
      early == i > Head0 \/ (~gone /\ g.valid < BatchEnd(link[l].start))
      becomes(k) == link' = [link EXCEPT ![l] = k]
  IN
  /\ link[l].pc = "read"
  /\ \/ gone /\ becomes(AgedOut(l)) /\ UNCHANGED faults
     \/ early /\ becomes(Again(l)) /\ UNCHANGED faults
     \/ ~gone /\ ~early /\ becomes(Posted(l, g)) /\ UNCHANGED faults
     \/ ~gone /\ ~early /\ Fault /\ (becomes(Again(l)) \/ becomes(LostLoop))
  /\ torn' = IF link'[l].pc = "sent" /\ ~GoesOn(l) THEN torn \cup {i} ELSE torn
  /\ Keep /\ UNCHANGED <<arrived, ring>>

\* awaitTransfer returned without an error: the loop goes on behind the batch.
Completed(k) ==
  IF k.done THEN NewLoop(k.next)
  ELSE [NewLoop(k.lastSent) EXCEPT !.start = k.end, !.batch = k.next]

\* The arrivals of a mirror its target has not committed.
Waiting(l) == Len(arrived[l]) + (IF receiver[l].pc = "commit" THEN 1 ELSE 0)

\* The remote write lands: the slot takes the source's header and slices, and
\* the transfer completes or the target is lost before it does.
Land(l) ==
  LET k == link[l]
      s == k.next % Depth
      g == SourceGrain(s)
  IN
  /\ k.pc = "sent" /\ Waiting(l) < MaxArrived
  /\ \/ link' = [link EXCEPT ![l] = Completed(k)] /\ UNCHANGED faults
     \/ link' = [link EXCEPT ![l] = LostLoop] /\ Fault
  /\ ring' = [ring EXCEPT ![s] =
       [@ EXCEPT !.index = g.index, !.invalid = g.invalid,
                 !.slice = [i \in 1 .. Slices |-> IF i \in k.start + 1 .. k.end THEN g.slice[i]
                                                  ELSE @[i]]]]
  /\ arrived' = [arrived EXCEPT ![l] = Append(@, [index |-> k.next, end |-> k.end])]
  /\ Keep /\ UNCHANGED torn

\* awaitTransfer gives the target up with the transfer outstanding.
Lost(l) ==
  /\ link[l].pc = "sent" /\ Fault
  /\ link' = [link EXCEPT ![l] = LostLoop]
  /\ Keep /\ UNCHANGED <<arrived, ring, torn>>

\* The target is added again, with a loop of its own.
Redial(l) ==
  /\ link[l].pc = "lost"
  /\ link' = [link EXCEPT ![l] = NewLoop(Head0)]
  /\ Keep /\ UNCHANGED <<arrived, ring, torn, faults>>

----------------------------------------------------------------------------
(* The receiving loop of a mirror.                                          *)

\* ReadGrain: libmxl-fabrics sets the slot's valid slices from the arrival's
\* range.
ReadGrain(l) ==
  LET a == Head(arrived[l]) IN
  /\ receiver[l].pc = "read" /\ arrived[l] # <<>>
  /\ receiver' = [receiver EXCEPT ![l] = [pc |-> "commit", index |-> a.index]]
  /\ arrived' = [arrived EXCEPT ![l] = Tail(@)]
  /\ ring' = [ring EXCEPT ![a.index % Depth].valid = a.end]
  /\ torn' = torn \cup ({ring[a.index % Depth].index} \ {a.index})
  /\ UNCHANGED <<producer, link, writer, faults>>

(* Faulty variant: the header is not compared.                              *)
MismatchIgnored(g, i) == FALSE

\* invalidIndexMismatch: a later write landed in the slot.
Mismatch(g, i) == g.index # i

\* The slices a valid arrival commits: no fewer than the writer has open.
ValidOf(g, i) == IF writer.open.index = i THEN Max({g.valid, writer.open.valid}) ELSE g.valid

\* OpenGrain refuses an index that does not advance the last one completed.
AlreadyCommitted(i) == i < writer.head \/ (i = writer.head /\ writer.done)

\* commitArrivedGrain under the flow's lock.  An invalid grain is committed
\* whole.  An arrival that is committed already leaves the slot as it is.
CommitArrivedGrain(l) ==
  LET i == receiver[l].index
      g == ring[i % Depth]
      invalid == Mismatch(g, i) \/ g.invalid
      valid == IF invalid THEN Slices ELSE ValidOf(g, i)
  IN
  /\ receiver[l].pc = "commit"
  /\ receiver' = [receiver EXCEPT ![l] = [pc |-> "read", index |-> 0]]
  /\ IF AlreadyCommitted(i) THEN UNCHANGED <<ring, writer>>
     ELSE /\ ring' = [ring EXCEPT ![i % Depth] =
                        [@ EXCEPT !.index = i, !.valid = valid, !.invalid = invalid]]
          /\ writer' = [head |-> i, done |-> valid = Slices,
                        open |-> IF valid < Slices THEN [index |-> i, valid |-> valid]
                                 ELSE [index |-> 0, valid |-> 0]]
  /\ torn' = torn \cup ({g.index} \ {i})
  /\ UNCHANGED <<producer, link, arrived, faults>>

----------------------------------------------------------------------------
Send(l) == Probe(l) \/ Transfer(l) \/ Land(l) \/ Redial(l)

Receive(l) == ReadGrain(l) \/ CommitArrivedGrain(l)

Next == Produce \/ \E l \in Link : Send(l) \/ Lost(l) \/ Receive(l)

\* The loops are goroutines that always go on: weak fairness of every step of
\* Send(l) and Receive(l), each of which leaves its pc, written as what may not
\* last.
Fairness ==
  \A l \in Link :
    /\ \A pc \in {"probe", "read", "lost"} : []<>(link[l].pc # pc)
    /\ []<>~(link[l].pc = "sent" /\ Waiting(l) < MaxArrived)
    /\ []<>(receiver[l].pc # "commit") /\ []<>~(receiver[l].pc = "read" /\ arrived[l] # <<>>)

Spec == Init /\ [][Next]_transferVars

FairSpec == Spec /\ Fairness

----------------------------------------------------------------------------
(* Properties.                                                              *)

(* Every variable keeps its type.                                          *)
TypeOK ==
  /\ producer \in [open : 1 .. MaxIndex, valid : 0 .. Slices, bad : SUBSET (1 .. MaxIndex)]
  /\ link \in [Link -> Loop]
  /\ receiver \in [Link -> [pc : {"read", "commit"}, index : Index]]
  /\ \A l \in Link : \A a \in Range(arrived[l]) : a \in [index : Index, end : 0 .. Slices]
  /\ ring \in [Slot -> Grain]
  /\ writer \in [head : Index, done : BOOLEAN, open : [index : Index, valid : 0 .. Slices]]
  /\ torn \subseteq Index /\ faults \in 0 .. MaxFaults

\* A grain the target commits as good is the producer's: every slice it makes
\* readable is of that grain, though the producer reuses slots under a write,
\* and the mirrors lose, skip or repeat grains.  A grain sent from the slice
\* another one had got to, after a resync, is left out.
CommittedIsProduced ==
  [][writer' # writer =>
       LET i == writer'.head
           g == ring'[i % Depth]
       IN  g.invalid \/ i \in torn \/ \A k \in 1 .. g.valid : g.slice[k] = i]_transferVars

\* A commit never takes slices back that the flow's writer has handed out of
\* the grain it holds open, though the other mirror's batches land in between.
CommitKeepsSlices ==
  [][writer'.head = writer.head /\ writer.open.index # 0 =>
       ring'[writer.head % Depth].valid >= writer.open.valid \/ UNCHANGED writer]_transferVars

\* A mirror's loop reaches the last grain of a producer that stops, after
\* every loss, resync and grain that left the ring.
LoopCatchesUp ==
  \A l \in Link :
    []<>(link[l].pc # "none" /\ producer.open = LastGrain /\ producer.valid = Slices
           => link[l].lastSent = producer.open)

\* What no commit of the target breaks: types, grains that are the producer's,
\* and slices already handed out.
TransferKept == []TypeOK /\ CommittedIsProduced /\ CommitKeepsSlices

=============================================================================
