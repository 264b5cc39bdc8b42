------------------------- MODULE DomainNodesProofs --------------------------
(***************************************************************************)
(* Proofs about DomainNodes, for any domains, any specs they may be        *)
(* created with and any number of changes and faults.                      *)
(*                                                                         *)
(* The properties speak of trackers, directories and entries; what makes   *)
(* them hold is in the hands of a Sync or of a pass of the operator: every *)
(* domain a Sync has written is the only claimant of its directory in the  *)
(* list the Sync works from, a copy about to be written back is the stored *)
(* object or will be refused, and a directory with flows has an identity.  *)
(***************************************************************************)
EXTENDS DomainNodes, FiniteSetTheorems, TLAPS

-----------------------------------------------------------------------------
(* The types of what is stored and of what the parties hold.               *)

Ids == {s.id : s \in Specs}
NodeEntry == [ready : BOOLEAN, mirrored : BOOLEAN]
Cond == [materialised : {"NoNodes", "AllNodesReady", "NodesNotReady"}, reachable : BOOLEAN]
Obj ==
  [dir : Dirs, id : Ids, selects : SUBSET Node,
   entry : [Node -> NodeEntry \cup {None}], cond : Cond]
Objs == [Domain -> Obj \cup {None}]

Passes == [pc : {"update"}, d : Domain, obj : Obj, latest : BOOLEAN, nodes : SUBSET Node]

NextSyncs == [pc : {"next"}, snap : Objs, todo : Seq(Domain), made : SUBSET Domain]
GetSyncs ==
  [pc : {"get"}, snap : Objs, todo : Seq(Domain), made : SUBSET Domain,
   entry : NodeEntry \cup {None}]
PutSyncs ==
  [pc : {"put"}, snap : Objs, todo : Seq(Domain), made : SUBSET Domain,
   entry : NodeEntry \cup {None}, obj : Obj, latest : BOOLEAN]

StatusTypes ==
  /\ dom \in Objs /\ nodes \subseteq Node /\ queue \subseteq Domain
  /\ seen \in [nodes : SUBSET Node, obj : Objs]
  /\ latest \in [Domain -> BOOLEAN]
  /\ op \in {Idle} \cup Passes
SyncTypes == pub \in {Idle} \cup NextSyncs \cup GetSyncs \cup PutSyncs
NodeTypes ==
  /\ disk \in [Dirs -> [id : {None, Old} \cup Ids, flows : BOOLEAN]]
  /\ running \in [Domain -> {None} \cup (Dirs \ {Primary})]

-----------------------------------------------------------------------------
(* The inductive invariant.                                                *)

\* What the operator is about to write differs from the stored object in no
\* entry of a node its cache showed, or the write will be refused.
CacheInv == \A d \in Domain : latest[d] => seen.obj[d] = dom[d]
PassInv ==
  op # Idle /\ op.latest =>
    \A n \in op.nodes : op.obj.entry[n] = dom[op.d].entry[n]

\* What the agent is about to write is the stored object but for its own
\* entry, or the write will be refused.
PutInv ==
  /\ pub.pc \in {"get", "put"} => pub.todo # <<>>
  /\ pub.pc = "put" => (pub.latest => pub.obj = dom[Head(pub.todo)])

\* The domains a Sync has written are the only claimants of their directories.
Alone(snap, d) == d \in claims(snap, snap[d].dir) /\ Cardinality(claims(snap, snap[d].dir)) <= 1
MadeInv == pub # Idle => \A d \in pub.made : Alone(pub.snap, d)

\* Flows are written under some identity.
DiskInv == \A dir \in Dirs : disk[dir].flows => disk[dir].id # None

Inv ==
  /\ StatusTypes /\ SyncTypes /\ NodeTypes
  /\ CacheInv /\ PassInv /\ PutInv /\ MadeInv /\ DiskInv
  /\ OneTrackerPerDirectory

-----------------------------------------------------------------------------
(* The helpers.                                                            *)

\* Of a directory's only claimants there is one.
LEMMA OnlyClaimant ==
  ASSUME NEW snap, NEW dir, NEW d \in claims(snap, dir), NEW e \in claims(snap, dir),
         Cardinality(claims(snap, dir)) <= 1
  PROVE  d = e
<1> DEFINE C == claims(snap, dir)
<1>1. IsFiniteSet(C)
  <2>1. C \subseteq Domain
    BY DEF claims
  <2> QED
    BY <2>1, DomainAssumption, FS_Subset
<1>2. Cardinality({d, e}) <= Cardinality(C)
  BY <1>1, FS_Subset
<1>3. IsFiniteSet({d}) /\ Cardinality({d}) = 1
  BY FS_Singleton
<1>4. d # e => Cardinality({d} \cup {e}) = 2
  BY <1>3, FS_AddElement
<1>5. {d, e} = {d} \cup {e}
  OBVIOUS
<1>6. Cardinality(C) \in Nat
  BY <1>1, FS_CardinalityType
<1> HIDE DEF C
<1>7. Cardinality(C) <= 1
  BY DEF C
<1> QED
  BY <1>2, <1>4, <1>5, <1>6, <1>7

\* What a Sync is, by where it stands.
LEMMA SyncShape ==
  ASSUME SyncTypes
  PROVE  /\ pub.pc = "idle" => pub = Idle
         /\ pub.pc = "next" => pub \in NextSyncs
         /\ pub.pc = "get" => pub \in GetSyncs
         /\ pub.pc = "put" => pub \in PutSyncs
         /\ pub.pc \in {"idle", "next", "get", "put"}
         /\ pub = Idle => pub.pc = "idle"
BY DEF SyncTypes, Idle, NextSyncs, GetSyncs, PutSyncs

\* A pass of the operator dated by a write of d's object.
LEMMA DatedPassIs ==
  ASSUME op \in {Idle} \cup Passes, NEW d \in Domain
  PROVE  /\ DatedPass(d) \in {Idle} \cup Passes
         /\ (DatedPass(d) = Idle) <=> (op = Idle)
         /\ op # Idle => /\ DatedPass(d).d = op.d /\ DatedPass(d).obj = op.obj
                         /\ DatedPass(d).nodes = op.nodes
                         /\ DatedPass(d).latest => op.latest /\ op.d # d
BY DEF DatedPass, Passes, Idle

\* A Sync's write dated by a write of d's object.
LEMMA DatedPutIs ==
  ASSUME SyncTypes, NEW d \in Domain
  PROVE  /\ DatedPut(d) \in {Idle} \cup NextSyncs \cup GetSyncs \cup PutSyncs
         /\ DatedPut(d).pc = pub.pc
         /\ (DatedPut(d) = Idle) <=> (pub = Idle)
         /\ pub # Idle => /\ DatedPut(d).snap = pub.snap /\ DatedPut(d).made = pub.made
                          /\ DatedPut(d).todo = pub.todo
         /\ pub.pc = "put" => /\ DatedPut(d).obj = pub.obj
                              /\ DatedPut(d).latest => pub.latest /\ Head(pub.todo) # d
BY SyncShape DEF SyncTypes, DatedPut, Idle, NextSyncs, GetSyncs, PutSyncs

\* The objects the parties make of an object.
LEMMA EntryPut ==
  ASSUME NEW o \in Obj, NEW n \in Node, NEW e \in NodeEntry \cup {None}
  PROVE  /\ [o EXCEPT !.entry[n] = e] \in Obj
         /\ \A m \in Node \ {n} : [o EXCEPT !.entry[n] = e].entry[m] = o.entry[m]
BY DEF Obj

LEMMA NewIsObj ==
  ASSUME NEW s \in Specs
  PROVE  New(s, Node) \in Obj
<1>1. s.dir \in Dirs /\ s.id \in Ids
  BY DEF Dirs, Ids
<1>2. NoCond \in Cond
  BY DEF NoCond, Cond
<1>3. [n \in Node |-> None] \in [Node -> NodeEntry \cup {None}]
  OBVIOUS
<1> QED
  BY <1>1, <1>2, <1>3 DEF New, Obj

LEMMA SelectsIsObj ==
  ASSUME NEW o \in Obj, NEW sel \in SUBSET Node
  PROVE  /\ [o EXCEPT !.selects = sel] \in Obj
         /\ [o EXCEPT !.selects = sel].entry = o.entry
BY DEF Obj

LEMMA SummaryIsObj ==
  ASSUME NEW o \in Obj
  PROVE  /\ Summarised(pruneDeparted(o)) \in Obj
         /\ \A n \in Node \cap seen.nodes : Summarised(pruneDeparted(o)).entry[n] = o.entry[n]
<1> DEFINE E == [n \in Node |-> IF n \in seen.nodes THEN o.entry[n] ELSE None]
           p == pruneDeparted(o)
           c == [materialised |-> materialised(p), reachable |-> reachable(p)]
<1>1. E \in [Node -> NodeEntry \cup {None}] /\ \A n \in Node \cap seen.nodes : E[n] = o.entry[n]
  BY DEF Obj
<1>2. p \in Obj /\ p.entry = E
  <2> HIDE DEF E
  <2>1. p = [o EXCEPT !.entry = E]
    BY DEF pruneDeparted, E
  <2> QED
    BY <1>1, <2>1 DEF Obj
<1>3. c \in Cond
  <2>1. materialised(p) \in {"NoNodes", "AllNodesReady", "NodesNotReady"}
    BY DEF materialised
  <2>2. reachable(p) \in BOOLEAN
    BY DEF reachable
  <2> QED
    BY <2>1, <2>2 DEF Cond
<1> HIDE DEF E, p, c
<1>4. [p EXCEPT !.cond = c] \in Obj /\ [p EXCEPT !.cond = c].entry = E
  BY <1>2, <1>3 DEF Obj
<1>5. Summarised(pruneDeparted(o)) = [p EXCEPT !.cond = c]
  BY DEF Summarised, p, c
<1> QED
  BY <1>1, <1>4, <1>5

-----------------------------------------------------------------------------
(* What a write of one object does to the other parties.                   *)

\* The cache and the operator's pass.
LEMMA WriteStatus ==
  ASSUME StatusTypes, CacheInv, PassInv, NEW d \in Domain, NEW o \in Obj \cup {None},
         Write(d, o), op' = DatedPass(d) \/ op' = Idle, UNCHANGED <<nodes, seen, queue>>
  PROVE  StatusTypes' /\ CacheInv' /\ PassInv'
<1>1. dom' \in Objs /\ dom'[d] = o /\ \A e \in Domain \ {d} : dom'[e] = dom[e]
  BY DEF StatusTypes, Write, Objs
<1>2. latest' \in [Domain -> BOOLEAN] /\ ~latest'[d] /\ \A e \in Domain \ {d} : latest'[e] = latest[e]
  BY DEF StatusTypes, Write
<1>3. op' \in {Idle} \cup Passes
  BY DatedPassIs DEF StatusTypes
<1>4. StatusTypes'
  BY <1>1, <1>2, <1>3 DEF StatusTypes
<1>5. CacheInv'
  BY <1>1, <1>2 DEF CacheInv
<1>6. PassInv'
  <2> SUFFICES ASSUME op' # Idle, op'.latest
               PROVE  \A n \in op'.nodes : op'.obj.entry[n] = dom'[op'.d].entry[n]
    BY DEF PassInv
  <2>1. /\ op # Idle /\ op.latest /\ op.d # d
        /\ op'.d = op.d /\ op'.obj = op.obj /\ op'.nodes = op.nodes
    BY DatedPassIs DEF StatusTypes
  <2>2. dom'[op.d] = dom[op.d]
    BY <1>1, <2>1 DEF StatusTypes, Passes
  <2> QED
    BY <2>1, <2>2 DEF PassInv
<1> QED
  BY <1>4, <1>5, <1>6

\* The agent's Sync, when somebody else writes.
LEMMA WriteSync ==
  ASSUME StatusTypes, SyncTypes, PutInv, MadeInv, NEW d \in Domain, NEW o,
         Write(d, o), pub' = DatedPut(d)
  PROVE  SyncTypes' /\ PutInv' /\ MadeInv'
<1>1. SyncTypes'
  BY DatedPutIs DEF SyncTypes
<1>2. PutInv'
  <2>1. pub'.pc = pub.pc
    BY DatedPutIs
  <2>2. pub.pc \in {"get", "put"} => pub # Idle /\ pub'.todo = pub.todo
    BY SyncShape, DatedPutIs
  <2>3. ASSUME pub.pc = "put", pub'.latest
        PROVE  pub'.obj = dom'[Head(pub'.todo)]
    <3>1. pub'.obj = pub.obj /\ pub.latest /\ Head(pub.todo) # d /\ pub'.todo = pub.todo
      BY <2>2, <2>3, DatedPutIs
    <3>2. Head(pub.todo) \in Domain
      BY <2>3, SyncShape DEF PutInv, PutSyncs
    <3>3. dom'[Head(pub.todo)] = dom[Head(pub.todo)]
      BY <3>1, <3>2 DEF Write, StatusTypes, Objs
    <3> QED
      BY <2>3, <3>1, <3>3 DEF PutInv
  <2> QED
    BY <2>1, <2>2, <2>3 DEF PutInv
<1>3. MadeInv'
  BY DatedPutIs DEF MadeInv
<1> QED
  BY <1>1, <1>2, <1>3

\* The agent's Sync goes to its next domain.
LEMMA AdvanceSync ==
  ASSUME SyncTypes, PutInv, MadeInv, pub.pc \in {"get", "put"}, pub' = Advance
  PROVE  SyncTypes' /\ PutInv' /\ MadeInv' /\ pub'.pc = "next"
<1>1. pub.todo # <<>> /\ pub.todo \in Seq(Domain) /\ pub.snap \in Objs /\ pub.made \in SUBSET Domain
  BY SyncShape DEF PutInv, GetSyncs, PutSyncs
<1>2. Tail(pub.todo) \in Seq(Domain)
  BY <1>1
<1>3. pub' \in NextSyncs
  BY <1>1, <1>2 DEF Advance, NextSyncs
<1>4. pub'.pc = "next" /\ pub'.snap = pub.snap /\ pub'.made = pub.made
  BY DEF Advance
<1>5. pub # Idle
  BY SyncShape
<1> QED
  BY <1>3, <1>4, <1>5 DEF SyncTypes, PutInv, MadeInv

-----------------------------------------------------------------------------
(* The invariant is inductive.                                             *)

LEMMA InitInv == Init => Inv
<1> SUFFICES ASSUME Init PROVE Inv
  OBVIOUS
<1>1. dom \in Objs
  BY NewIsObj DEF Init, Objs
<1>2. StatusTypes
  BY <1>1 DEF Init, StatusTypes
<1>3. SyncTypes /\ PutInv /\ MadeInv
  BY DEF Init, SyncTypes, PutInv, MadeInv, Idle
<1>4. NodeTypes /\ DiskInv
  <2>1. PICK left \in {None, Old} :
          disk = [dir \in Dirs |-> IF dir = Primary THEN [id |-> left, flows |-> left # None]
                                   ELSE [id |-> None, flows |-> FALSE]]
    BY DEF Init
  <2>2. (left # None) \in BOOLEAN
    OBVIOUS
  <2>3. [id |-> left, flows |-> left # None] \in [id : {None, Old} \cup Ids, flows : BOOLEAN]
    BY <2>2
  <2>4. [id |-> None, flows |-> FALSE] \in [id : {None, Old} \cup Ids, flows : BOOLEAN]
    OBVIOUS
  <2>5. disk \in [Dirs -> [id : {None, Old} \cup Ids, flows : BOOLEAN]]
    BY <2>1, <2>3, <2>4
  <2>6. DiskInv
    BY <2>1 DEF DiskInv
  <2> QED
    BY <2>5, <2>6 DEF Init, NodeTypes
<1>5. CacheInv /\ PassInv /\ OneTrackerPerDirectory
  BY DEF Init, CacheInv, PassInv, OneTrackerPerDirectory
<1> QED
  BY <1>2, <1>3, <1>4, <1>5 DEF Inv

\* Every domain but one that is not the agent's business goes to its entry.
LEMMA MaterialiseInv ==
  ASSUME Inv, materialise
  PROVE  /\ Inv'
         /\ \A dir \in Dirs : disk[dir].flows => disk'[dir].id = disk[dir].id
<1> DEFINE d == Head(pub.todo)
           o == pub.snap[d]
           alone == Cardinality(claims(pub.snap, o.dir)) <= 1
           ok == alone /\ checkIdentity(o)
<1>1. /\ pub \in NextSyncs /\ pub # Idle /\ pub.todo # <<>>
  BY SyncShape DEF Inv, materialise
<1>2. d \in Domain /\ o \in Obj \cup {None} /\ Tail(pub.todo) \in Seq(Domain)
  BY <1>1 DEF NextSyncs, Objs
<1>3. StatusTypes' /\ CacheInv' /\ PassInv' /\ OneTrackerPerDirectory'
  BY DEF Inv, materialise, StatusTypes, CacheInv, PassInv, OneTrackerPerDirectory
<1>4. CASE o = None \/ (~Selected(o) /\ o.entry[Self] = None)
  <2>1. pub' = [pub EXCEPT !.todo = Tail(@)] /\ UNCHANGED <<disk, running>>
    BY <1>4 DEF materialise
  <2>2. pub' \in NextSyncs /\ pub'.pc = "next" /\ pub'.snap = pub.snap /\ pub'.made = pub.made
    BY <1>1, <1>2, <2>1 DEF NextSyncs
  <2>3. SyncTypes' /\ PutInv' /\ MadeInv'
    BY <1>1, <2>2 DEF Inv, SyncTypes, PutInv, MadeInv
  <2> QED
    BY <1>3, <2>1, <2>3 DEF Inv, NodeTypes, DiskInv
<1>5. CASE o # None /\ ~Selected(o) /\ o.entry[Self] # None
  <2>1. /\ pub' = [pc |-> "get", snap |-> pub.snap, todo |-> pub.todo, made |-> pub.made, entry |-> None]
        /\ UNCHANGED <<disk, running>>
    BY <1>5 DEF materialise
  <2>2. pub' \in GetSyncs /\ pub'.pc = "get" /\ pub'.snap = pub.snap /\ pub'.made = pub.made /\ pub'.todo = pub.todo
    BY <1>1, <2>1 DEF NextSyncs, GetSyncs
  <2>3. SyncTypes' /\ PutInv' /\ MadeInv'
    BY <1>1, <2>2 DEF Inv, SyncTypes, PutInv, MadeInv
  <2> QED
    BY <1>3, <2>1, <2>3 DEF Inv, NodeTypes, DiskInv
<1>6. CASE Selected(o)
  <2> DEFINE e == Entry(d, o, ok)
             m == IF ok THEN pub.made \cup {d} ELSE pub.made
  <2>1. /\ disk' = Apply(o, ok) /\ UNCHANGED running
        /\ pub' = [pc |-> "get", snap |-> pub.snap, todo |-> pub.todo, made |-> m, entry |-> e]
    BY <1>6 DEF materialise, Selected
  <2>2. o \in Obj /\ o.dir \in Dirs /\ o.id \in Ids /\ o.id # None
    BY <1>2, <1>6, DomainAssumption DEF Selected, Obj, Ids
  <2>3. e \in NodeEntry
    <3>1. ok \in BOOLEAN
      BY DEF checkIdentity
    <3>2. (o.dir = Primary \/ (ok /\ Mirrored(d, o))) \in BOOLEAN
      OBVIOUS
    <3> HIDE DEF ok, o, d
    <3> QED
      BY <3>1, <3>2 DEF Entry, NodeEntry, e
  <2>4. \A x \in m : Alone(pub.snap, x)
    <3>1. ok => Alone(pub.snap, d)
      BY <1>2, <1>6 DEF Alone, claims
    <3>2. \A x \in pub.made : Alone(pub.snap, x)
      BY <1>1 DEF Inv, MadeInv
    <3> HIDE DEF ok, d
    <3> QED
      BY <3>1, <3>2
  <2>5. SyncTypes' /\ PutInv' /\ MadeInv'
    <3>1. m \in SUBSET Domain
      BY <1>1, <1>2 DEF NextSyncs
    <3> HIDE DEF m, e
    <3>2. pub' \in GetSyncs
      BY <1>1, <2>1, <2>3, <3>1 DEF NextSyncs, GetSyncs
    <3>3. pub'.pc = "get" /\ pub'.todo = pub.todo /\ pub'.made = m /\ pub'.snap = pub.snap
      BY <2>1
    <3> QED
      BY <1>1, <2>4, <3>2, <3>3 DEF SyncTypes, PutInv, MadeInv
  <2>6. /\ NodeTypes' /\ DiskInv'
        /\ \A dir \in Dirs : disk[dir].flows => disk'[dir].id = disk[dir].id
    <3>1. CASE ~ok
      BY <2>1, <3>1 DEF Apply, Inv, NodeTypes, DiskInv
    <3>2. CASE ok
      <4>1. disk' = [disk EXCEPT ![o.dir].id = o.id]
        BY <2>1, <3>2 DEF Apply
      <4>2. checkIdentity(o)
        BY <3>2
      <4> HIDE DEF o, ok
      <4>3. disk[o.dir] \in [id : {None, Old} \cup Ids, flows : BOOLEAN]
        BY <2>2 DEF Inv, NodeTypes
      <4>4. /\ disk'[o.dir] \in [id : {None, Old} \cup Ids, flows : BOOLEAN]
            /\ disk'[o.dir].id = o.id /\ disk'[o.dir].flows = disk[o.dir].flows
        BY <2>2, <4>1, <4>3 DEF Inv, NodeTypes
      <4>5. \A dir \in Dirs \ {o.dir} : disk'[dir] = disk[dir]
        BY <4>1 DEF Inv, NodeTypes
      <4>6. disk' \in [Dirs -> [id : {None, Old} \cup Ids, flows : BOOLEAN]]
        BY <4>1, <4>4, <4>5 DEF Inv, NodeTypes
      <4>7. disk[o.dir].flows => disk[o.dir].id = o.id
        BY <2>2, <4>2 DEF checkIdentity, Inv, DiskInv
      <4>8. DiskInv'
        BY <2>2, <4>4, <4>5 DEF Inv, DiskInv
      <4>9. NodeTypes'
        BY <2>1, <4>6 DEF Inv, NodeTypes
      <4> QED
        BY <4>4, <4>5, <4>7, <4>8, <4>9
    <3> QED
      BY <3>1, <3>2
  <2> QED
    BY <1>3, <2>5, <2>6 DEF Inv
<1> QED
  BY <1>2, <1>4, <1>5, <1>6 DEF Selected

\* A Sync reads the domains, and puts or drops its entry of one.
LEMMA SyncInv ==
  ASSUME Inv, Sync
  PROVE  Inv'
<1>1. pub' \in NextSyncs /\ pub'.pc = "next" /\ pub'.made = {}
  BY DomainAssumption DEF Inv, StatusTypes, Sync, NextSyncs
<1>2. SyncTypes' /\ PutInv' /\ MadeInv'
  BY <1>1 DEF SyncTypes, PutInv, MadeInv
<1> QED
  BY <1>2 DEF Inv, Sync, StatusTypes, NodeTypes, CacheInv, PassInv, DiskInv, OneTrackerPerDirectory

LEMMA PutGetInv ==
  ASSUME Inv, putGet
  PROVE  Inv'
<1>1. pub \in GetSyncs /\ pub # Idle /\ pub.todo # <<>>
  BY SyncShape DEF Inv, PutInv, putGet
<1>2. SyncTypes' /\ PutInv' /\ MadeInv'
  <2>1. CASE dom[Head(pub.todo)] = None
    BY <2>1, AdvanceSync DEF Inv, putGet
  <2>2. CASE dom[Head(pub.todo)] # None
    <3>1. dom[Head(pub.todo)] \in Obj
      BY <1>1, <2>2 DEF Inv, StatusTypes, GetSyncs, Objs
    <3>2. pub' = [pc |-> "put", snap |-> pub.snap, todo |-> pub.todo, made |-> pub.made, entry |-> pub.entry,
                  obj |-> dom[Head(pub.todo)], latest |-> TRUE]
      BY <2>2 DEF putGet
    <3>3. pub' \in PutSyncs
      BY <1>1, <3>1, <3>2 DEF GetSyncs, PutSyncs
    <3>4. /\ pub'.pc = "put" /\ pub'.todo = pub.todo /\ pub'.snap = pub.snap
          /\ pub'.made = pub.made /\ pub'.obj = dom[Head(pub.todo)]
      BY <3>2
    <3> QED
      BY <1>1, <3>3, <3>4 DEF Inv, putGet, SyncTypes, PutInv, MadeInv
  <2> QED
    BY <2>1, <2>2
<1> QED
  BY <1>2 DEF Inv, putGet, StatusTypes, NodeTypes, CacheInv, PassInv, DiskInv, OneTrackerPerDirectory

LEMMA PutEntryInv ==
  ASSUME Inv, putEntry
  PROVE  /\ Inv'
         /\ op' = Idle <=> op = Idle
         /\ \A d \in Domain : dom[d] # None => dom'[d].entry[Other] = dom[d].entry[Other]
<1>1. pub \in PutSyncs /\ pub # Idle /\ pub.todo # <<>> /\ Head(pub.todo) \in Domain
  BY SyncShape DEF Inv, PutInv, putEntry, PutSyncs
<1>2. NodeTypes' /\ DiskInv' /\ OneTrackerPerDirectory'
  BY DEF Inv, putEntry, NodeTypes, DiskInv, OneTrackerPerDirectory
<1>3. CASE ~pub.latest
  <2>1. /\ pub' = [pc |-> "get", snap |-> pub.snap, todo |-> pub.todo, made |-> pub.made, entry |-> pub.entry]
        /\ UNCHANGED <<dom, latest, op, nodes, seen, queue>>
    BY <1>3 DEF putEntry
  <2>2. pub' \in GetSyncs
    BY <1>1, <2>1 DEF PutSyncs, GetSyncs
  <2>3. pub'.pc = "get" /\ pub'.todo = pub.todo /\ pub'.snap = pub.snap /\ pub'.made = pub.made
    BY <2>1
  <2>4. SyncTypes' /\ PutInv' /\ MadeInv'
    BY <1>1, <2>2, <2>3 DEF Inv, SyncTypes, PutInv, MadeInv
  <2> QED
    BY <1>2, <2>1, <2>4 DEF Inv, StatusTypes, CacheInv, PassInv
<1>4. CASE pub.latest
  <2>1. SyncTypes' /\ PutInv' /\ MadeInv'
    BY <1>4, AdvanceSync DEF Inv, putEntry
  <2>2. CASE pub.obj.entry[Self] = pub.entry
    <3>1. UNCHANGED <<dom, latest, op, nodes, seen, queue>>
      BY <1>4, <2>2 DEF putEntry
    <3> QED
      BY <1>2, <2>1, <3>1 DEF Inv, StatusTypes, CacheInv, PassInv
  <2>3. CASE pub.obj.entry[Self] # pub.entry
    <3> DEFINE d == Head(pub.todo)
               o == [pub.obj EXCEPT !.entry[Self] = pub.entry]
    <3>1. Write(d, o) /\ op' = DatedPass(d) /\ UNCHANGED <<nodes, seen, queue>>
      BY <1>4, <2>3 DEF putEntry
    <3>2. pub.obj \in Obj /\ pub.entry \in NodeEntry \cup {None} /\ pub.obj = dom[d]
      BY <1>1, <1>4 DEF Inv, PutInv, PutSyncs, putEntry
    <3>3. o \in Obj /\ o.entry[Other] = pub.obj.entry[Other]
      BY <3>2, EntryPut, DomainAssumption DEF Node
    <3> HIDE DEF o, d
    <3>4. d \in Domain
      BY <1>1 DEF d
    <3>5. StatusTypes' /\ CacheInv' /\ PassInv'
      BY <3>1, <3>3, <3>4, WriteStatus DEF Inv
    <3>6. op' = Idle <=> op = Idle
      BY <3>1, <3>4, DatedPassIs DEF Inv, StatusTypes
    <3>7. dom'[d] = o /\ \A e \in Domain \ {d} : dom'[e] = dom[e]
      BY <3>1, <3>4 DEF Write, Inv, StatusTypes, Objs
    <3> QED
      BY <1>2, <2>1, <3>2, <3>3, <3>5, <3>6, <3>7 DEF Inv
  <2> QED
    BY <2>2, <2>3
<1> QED
  BY <1>3, <1>4

LEMMA RefreshInv ==
  ASSUME Inv, Refresh
  PROVE  Inv'
<1>1. op \in Passes /\ op # Idle
  BY DEF Inv, StatusTypes, Refresh
<1>2. /\ op' \in {Idle} \cup Passes
      /\ op' # Idle => ~op'.latest
  BY <1>1, DatedPassIs DEF Refresh, Inv, StatusTypes, Passes
<1>3. latest' \in [Domain -> BOOLEAN] /\ \A d \in Domain : latest'[d] => latest[d]
  BY <1>1 DEF Refresh, Inv, StatusTypes, Passes
<1>4. SyncTypes' /\ PutInv' /\ MadeInv'
  BY AdvanceSync DEF Inv, Refresh
<1> QED
  BY <1>2, <1>3, <1>4 DEF Inv, Refresh, StatusTypes, NodeTypes, CacheInv, PassInv, DiskInv, OneTrackerPerDirectory

LEMMA PutFailsInv ==
  ASSUME Inv, putFails
  PROVE  Inv'
<1>1. SyncTypes' /\ PutInv' /\ MadeInv'
  BY AdvanceSync DEF Inv, putFails
<1> QED
  BY <1>1 DEF Inv, putFails, StatusTypes, NodeTypes, CacheInv, PassInv, DiskInv, OneTrackerPerDirectory

\* The trackers follow what the Sync has written.
LEMMA TrackersInv ==
  ASSUME Inv, OnMaterialised
  PROVE  Inv'
<1> DEFINE t == trackers(pub.made, pub.snap)
<1>1. pub \in NextSyncs /\ pub # Idle
  BY SyncShape DEF Inv, OnMaterialised
<1>2. \A d \in pub.made : pub.snap[d].dir \in Dirs
  BY <1>1 DEF Inv, MadeInv, Alone, claims, Selected, NextSyncs, Objs, Obj
<1>3. t \in [Domain -> {None} \cup (Dirs \ {Primary})]
  BY <1>1, <1>2 DEF trackers, NextSyncs
<1>4. \A d, e \in Domain : d # e /\ t[d] # None => t[e] # t[d]
  <2> SUFFICES ASSUME NEW d \in Domain, NEW e \in Domain, t[d] # None, t[e] = t[d]
               PROVE  d = e
    OBVIOUS
  <2>1. d \in pub.made /\ e \in pub.made /\ pub.snap[e].dir = pub.snap[d].dir
    BY DEF trackers
  <2>2. Alone(pub.snap, d) /\ Alone(pub.snap, e)
    BY <1>1, <2>1 DEF Inv, MadeInv
  <2> QED
    BY <2>1, <2>2, OnlyClaimant DEF Alone
<1> HIDE DEF t
<1>5. \/ running' = t
      \/ running' = [d \in Domain |-> IF t[d] = running[d] THEN running[d] ELSE None]
  BY DEF OnMaterialised, t
<1>6. running' \in [Domain -> {None} \cup (Dirs \ {Primary})]
  BY <1>3, <1>5 DEF Inv, NodeTypes
<1>7. OneTrackerPerDirectory'
  BY <1>4, <1>5 DEF Inv, OneTrackerPerDirectory
<1>8. SyncTypes' /\ PutInv' /\ MadeInv'
  BY DEF OnMaterialised, SyncTypes, PutInv, MadeInv, Idle
<1> QED
  BY <1>6, <1>7, <1>8 DEF Inv, OnMaterialised, StatusTypes, NodeTypes, CacheInv, PassInv, DiskInv

LEMMA RestartInv ==
  ASSUME Inv, AgentRestarts
  PROVE  Inv'
<1>1. SyncTypes' /\ PutInv' /\ MadeInv'
  BY DEF AgentRestarts, SyncTypes, PutInv, MadeInv, Idle
<1>2. running' \in [Domain -> {None} \cup (Dirs \ {Primary})] /\ OneTrackerPerDirectory'
  BY DEF AgentRestarts, OneTrackerPerDirectory
<1> QED
  BY <1>1, <1>2 DEF Inv, AgentRestarts, StatusTypes, NodeTypes, CacheInv, PassInv, DiskInv

\* A pass of the operator: what it is about to write has the entries the
\* cache showed for the nodes the cache showed.
LEMMA ReconcileInv ==
  ASSUME Inv, NEW d \in Domain, Reconcile(d)
  PROVE  Inv'
<1> DEFINE o == seen.obj[d]
           new == Summarised(pruneDeparted(o))
<1>1. o \in Obj \cup {None} /\ latest[d] \in BOOLEAN /\ seen.nodes \in SUBSET Node
  BY DEF Inv, StatusTypes, Objs
<1>2. queue' \subseteq Domain
  BY DEF Inv, StatusTypes, Reconcile
<1>3. op' \in {Idle} \cup Passes /\ PassInv'
  <2>1. CASE op' = Idle
    BY <2>1 DEF PassInv
  <2>2. CASE op' # Idle
    <3>1. o # None /\ op' = [pc |-> "update", d |-> d, obj |-> new, latest |-> latest[d], nodes |-> seen.nodes]
      BY <2>2 DEF Reconcile
    <3>2. new \in Obj /\ \A n \in seen.nodes : new.entry[n] = o.entry[n]
      BY <1>1, <3>1, SummaryIsObj
    <3>3. latest[d] => o = dom[d]
      BY DEF Inv, CacheInv
    <3>4. dom' = dom
      BY DEF Reconcile
    <3> HIDE DEF o, new
    <3>5. op' \in Passes
      BY <1>1, <3>1, <3>2 DEF Passes
    <3>6. op'.d = d /\ op'.obj = new /\ op'.latest = latest[d] /\ op'.nodes = seen.nodes
      BY <3>1
    <3> QED
      BY <3>2, <3>3, <3>4, <3>5, <3>6 DEF PassInv
  <2> QED
    BY <2>1, <2>2
<1> QED
  BY <1>2, <1>3 DEF Inv, Reconcile, StatusTypes, SyncTypes, NodeTypes, CacheInv, PutInv, MadeInv, DiskInv,
     OneTrackerPerDirectory

LEMMA UpdateInv ==
  ASSUME Inv, Update
  PROVE  /\ Inv'
         /\ pub'.pc = pub.pc
         /\ \A d \in Domain : dom[d] # None => \A n \in op.nodes : dom'[d].entry[n] = dom[d].entry[n]
<1>1. op \in Passes /\ op.d \in Domain /\ op.obj \in Obj
  BY DEF Inv, StatusTypes, Update, Passes
<1>2. StatusTypes' /\ CacheInv' /\ PassInv'
  BY <1>1, WriteStatus DEF Inv, Update
<1>3. SyncTypes' /\ PutInv' /\ MadeInv' /\ pub'.pc = pub.pc
  BY <1>1, WriteSync, DatedPutIs DEF Inv, Update
<1>4. NodeTypes' /\ DiskInv' /\ OneTrackerPerDirectory'
  BY DEF Inv, Update, NodeTypes, DiskInv, OneTrackerPerDirectory
<1>5. dom'[op.d] = op.obj /\ \A e \in Domain \ {op.d} : dom'[e] = dom[e]
  BY <1>1 DEF Update, Write, Inv, StatusTypes, Objs
<1>6. \A n \in op.nodes : op.obj.entry[n] = dom[op.d].entry[n]
  BY DEF Inv, PassInv, Update
<1> QED
  BY <1>2, <1>3, <1>4, <1>5, <1>6 DEF Inv

LEMMA UpdateFailsInv ==
  ASSUME Inv, UpdateFails
  PROVE  Inv'
<1>1. queue' \subseteq Domain /\ op' = Idle
  BY DEF Inv, StatusTypes, UpdateFails, Passes
<1> QED
  BY <1>1 DEF Inv, UpdateFails, StatusTypes, SyncTypes, NodeTypes, CacheInv, PassInv, PutInv, MadeInv, DiskInv,
     OneTrackerPerDirectory

\* The operator's cache follows.
LEMMA ShowDomainInv ==
  ASSUME Inv, NEW d \in Domain, ShowDomain(d)
  PROVE  Inv'
<1>1. dom[d] \in Obj \cup {None} /\ seen.obj \in Objs
  BY DEF Inv, StatusTypes, Objs
<1>2. /\ seen' \in [nodes : SUBSET Node, obj : Objs]
      /\ seen'.obj[d] = dom[d] /\ \A e \in Domain \ {d} : seen'.obj[e] = seen.obj[e]
  BY <1>1 DEF Inv, StatusTypes, ShowDomain, Objs
<1>3. latest' \in [Domain -> BOOLEAN] /\ \A e \in Domain \ {d} : latest'[e] = latest[e]
  BY DEF Inv, StatusTypes, ShowDomain
<1>4. StatusTypes'
  BY <1>2, <1>3 DEF Inv, StatusTypes, ShowDomain
<1>5. CacheInv'
  BY <1>2, <1>3 DEF Inv, CacheInv, ShowDomain
<1> QED
  BY <1>4, <1>5 DEF Inv, ShowDomain, SyncTypes, NodeTypes, PassInv, PutInv, MadeInv, DiskInv, OneTrackerPerDirectory

LEMMA ShowNodesInv ==
  ASSUME Inv, ShowNodes
  PROVE  Inv'
<1>1. seen' \in [nodes : SUBSET Node, obj : Objs] /\ seen'.obj = seen.obj
  BY DEF Inv, StatusTypes, ShowNodes
<1>2. queue' \subseteq Domain
  BY DEF Inv, StatusTypes, ShowNodes, allDomains
<1> QED
  BY <1>1, <1>2 DEF Inv, ShowNodes, StatusTypes, SyncTypes, NodeTypes, CacheInv, PassInv, PutInv, MadeInv, DiskInv,
     OneTrackerPerDirectory

\* Someone edits a domain, or the other agent puts its entry.
LEMMA OthersWriteInv ==
  ASSUME Inv, NEW d \in Domain, Edit(d) \/ OtherPuts(d)
  PROVE  /\ Inv'
         /\ pub'.pc = pub.pc
         /\ op' = Idle <=> op = Idle
<1>1. PICK o \in Obj \cup {None} : Write(d, o)
  <2>1. CASE \E s \in Specs : Write(d, New(s, Node))
    BY <2>1, NewIsObj
  <2>2. CASE Write(d, None)
    BY <2>2
  <2> DEFINE sel == IF Self \in dom[d].selects THEN dom[d].selects \ {Self} ELSE dom[d].selects \cup {Self}
  <2>3. CASE dom[d] # None /\ Write(d, [dom[d] EXCEPT !.selects = sel])
    <3>1. dom[d] \in Obj
      BY <2>3 DEF Inv, StatusTypes, Objs
    <3>2. sel \in SUBSET Node
      BY <3>1 DEF Obj, Node
    <3> QED
      BY <2>3, <3>1, <3>2, SelectsIsObj
  <2>4. CASE dom[d] # None /\ \E e \in [ready : BOOLEAN, mirrored : {TRUE}] : Write(d, [dom[d] EXCEPT !.entry[Other] = e])
    <3>1. dom[d] \in Obj
      BY <2>4 DEF Inv, StatusTypes, Objs
    <3>2. PICK e \in NodeEntry : Write(d, [dom[d] EXCEPT !.entry[Other] = e])
      BY <2>4 DEF NodeEntry
    <3> QED
      BY <3>1, <3>2, EntryPut DEF Node
  <2> QED
    BY <2>1, <2>2, <2>3, <2>4 DEF Edit, OtherPuts
<1>2. /\ op' = DatedPass(d) /\ pub' = DatedPut(d)
      /\ UNCHANGED <<nodes, seen, queue, disk, running>>
  BY DEF Edit, OtherPuts
<1>3. StatusTypes' /\ CacheInv' /\ PassInv'
  BY <1>1, <1>2, WriteStatus DEF Inv
<1>4. SyncTypes' /\ PutInv' /\ MadeInv'
  BY <1>1, <1>2, WriteSync DEF Inv
<1>5. pub'.pc = pub.pc /\ (op' = Idle <=> op = Idle)
  BY <1>2, DatedPassIs, DatedPutIs DEF Inv, StatusTypes
<1> QED
  BY <1>2, <1>3, <1>4, <1>5 DEF Inv, NodeTypes, DiskInv, OneTrackerPerDirectory

LEMMA NodeChangesInv ==
  ASSUME Inv, NEW n \in Node, NodeChanges(n)
  PROVE  Inv'
<1>1. nodes' \subseteq Node
  BY DEF Inv, StatusTypes, NodeChanges
<1> QED
  BY <1>1 DEF Inv, NodeChanges, StatusTypes, SyncTypes, NodeTypes, CacheInv, PassInv, PutInv, MadeInv, DiskInv,
     OneTrackerPerDirectory

LEMMA FlowsChangeInv ==
  ASSUME Inv, NEW dir \in Dirs, FlowsChange(dir)
  PROVE  /\ Inv'
         /\ \A d \in Dirs : disk'[d].id = disk[d].id
<1> DEFINE D == [id : {None, Old} \cup Ids, flows : BOOLEAN]
           new == [disk[dir] EXCEPT !.flows = ~disk[dir].flows]
<1>1. disk \in [Dirs -> D] /\ disk[dir] \in D /\ disk[dir].id # None
  BY DEF Inv, NodeTypes, FlowsChange
<1>2. new \in D /\ new.id = disk[dir].id
  <2>1. (~disk[dir].flows) \in BOOLEAN
    OBVIOUS
  <2> QED
    BY <1>1, <2>1
<1>3. disk' = [disk EXCEPT ![dir] = new]
  BY DEF FlowsChange
<1> HIDE DEF D, new
<1>4. disk' \in [Dirs -> D] /\ disk'[dir] = new /\ \A d \in Dirs \ {dir} : disk'[d] = disk[d]
  BY <1>1, <1>2, <1>3
<1>5. DiskInv' /\ \A d \in Dirs : disk'[d].id = disk[d].id
  BY <1>1, <1>2, <1>4 DEF Inv, DiskInv
<1>6. NodeTypes'
  BY <1>4 DEF Inv, NodeTypes, FlowsChange, D
<1> QED
  BY <1>5, <1>6 DEF Inv, FlowsChange, StatusTypes, SyncTypes, CacheInv, PassInv, PutInv, MadeInv,
     OneTrackerPerDirectory

LEMMA StutterInv ==
  ASSUME Inv, UNCHANGED domainVars
  PROVE  Inv'
BY DEF domainVars, Inv, StatusTypes, SyncTypes, NodeTypes, CacheInv, PassInv, PutInv, MadeInv, DiskInv,
   OneTrackerPerDirectory

LEMMA NextInv == Inv /\ [Next]_domainVars => Inv'
<1> SUFFICES ASSUME Inv, [Next]_domainVars
             PROVE  Inv'
  OBVIOUS
<1>1. CASE Agent
  BY <1>1, SyncInv, MaterialiseInv, PutGetInv, PutEntryInv, TrackersInv DEF Agent
<1>2. CASE Refresh \/ putFails \/ AgentRestarts
  BY <1>2, RefreshInv, PutFailsInv, RestartInv
<1>3. CASE Operator \/ UpdateFails
  BY <1>3, UpdateInv, UpdateFailsInv, ReconcileInv DEF Operator
<1>4. CASE Cache
  BY <1>4, ShowNodesInv, ShowDomainInv DEF Cache
<1>5. CASE \E d \in Domain : Edit(d) \/ OtherPuts(d)
  BY <1>5, OthersWriteInv
<1>6. CASE \E n \in Node : NodeChanges(n)
  BY <1>6, NodeChangesInv
<1>7. CASE \E dir \in Dirs : FlowsChange(dir)
  BY <1>7, FlowsChangeInv
<1>8. CASE UNCHANGED domainVars
  BY <1>8, StutterInv
<1> QED
  BY <1>1, <1>2, <1>3, <1>4, <1>5, <1>6, <1>7, <1>8 DEF Next

LEMMA InvTypeOK == Inv => TypeOK
<1> SUFFICES ASSUME Inv PROVE TypeOK
  OBVIOUS
<1>1. pub.pc \in {"idle", "next", "get", "put"}
  BY SyncShape DEF Inv
<1>2. op.pc \in {"idle", "update"}
  BY DEF Inv, StatusTypes, Passes, Idle
<1>3. \A d \in Domain : dom[d] # None =>
        \A n \in Node : dom[d].entry[n] # None =>
          dom[d].entry[n].ready \in BOOLEAN /\ dom[d].entry[n].mirrored \in BOOLEAN
  BY DEF Inv, StatusTypes, Objs, Obj, NodeEntry
<1>4. \A dir \in Dirs : disk[dir].id \in {None, Old} \cup {s.id : s \in Specs}
  BY DEF Inv, NodeTypes, Ids
<1> QED
  BY <1>1, <1>2, <1>3, <1>4 DEF TypeOK, Inv, StatusTypes, NodeTypes

-----------------------------------------------------------------------------
(* What the steps may not do.                                              *)

\* Only materialise gives a directory an identity, and FlowsChange leaves it.
LEMMA IdentityStep ==
  ASSUME Inv, [Next]_domainVars
  PROVE  \A dir \in Dirs : disk[dir].flows => disk'[dir].id = disk[dir].id
<1>1. CASE materialise
  BY <1>1, MaterialiseInv
<1>2. CASE \E dir \in Dirs : FlowsChange(dir)
  BY <1>2, FlowsChangeInv
<1>3. CASE UNCHANGED disk
  BY <1>3
<1> QED
  BY <1>1, <1>2, <1>3
  DEF Next, Agent, Operator, Cache, Sync, putGet, putEntry, OnMaterialised, Refresh, putFails, AgentRestarts,
      Update, UpdateFails, Reconcile, ShowNodes, ShowDomain, Edit, OtherPuts, NodeChanges, domainVars

Leaves(d) ==
  /\ pub.pc = "put" /\ pub'.pc # "put" => dom'[d].entry[Other] = dom[d].entry[Other]
  /\ op # Idle /\ op' = Idle => \A n \in op.nodes : dom'[d].entry[n] = dom[d].entry[n]

\* The three writers of status: putEntry ends no pass of the operator, its
\* update ends no put of the agent, and the others end neither.
LEMMA EntriesStep ==
  ASSUME Inv, [Next]_domainVars
  PROVE  \A d \in Domain : dom[d] # None /\ dom'[d] # None => Leaves(d)
<1>1. CASE putEntry
  BY <1>1, PutEntryInv DEF Leaves
<1>2. CASE Update
  BY <1>2, UpdateInv DEF Leaves
<1>3. CASE \E d \in Domain : Edit(d) \/ OtherPuts(d)
  BY <1>3, OthersWriteInv DEF Leaves
<1>4. CASE UNCHANGED dom
  BY <1>4 DEF Leaves
<1> QED
  BY <1>1, <1>2, <1>3, <1>4
  DEF Next, Agent, Operator, Cache, Sync, materialise, putGet, OnMaterialised, Refresh, putFails, AgentRestarts,
      UpdateFails, Reconcile, ShowNodes, ShowDomain, NodeChanges, FlowsChange, domainVars

-----------------------------------------------------------------------------
(* The results.                                                            *)

\* The invariant holds throughout (Publisher.Sync, Apply, Reconcile).
THEOREM Invariance == Spec => []Inv
BY InitInv, NextInv, PTL DEF Spec

\* No two trackers on a node follow one directory (Publisher.Sync,
\* Manager.Sync).
THEOREM TrackersApart == Spec => []OneTrackerPerDirectory
<1>1. Inv => OneTrackerPerDirectory
  BY DEF Inv
<1> QED
  BY <1>1, Invariance, PTL

\* A directory that holds flows keeps its id (checkIdentity).
THEOREM IdentityIsKept == Spec => FlowsKeepIdentity
<1>1. Inv /\ [Next]_domainVars =>
        [\A dir \in Dirs : disk[dir].flows => disk'[dir].id = disk[dir].id]_domainVars
  BY IdentityStep
<1> QED
  BY <1>1, Invariance, PTL DEF Spec, FlowsKeepIdentity

\* A write of one party leaves the entries of the others alone (putEntry,
\* dropEntry, pruneDeparted).
THEOREM EntriesAreKept == Spec => EntriesAreTheirNodes
<1>1. Inv /\ [Next]_domainVars =>
        [\A d \in Domain : dom[d] # None /\ dom'[d] # None =>
          /\ pub.pc = "put" /\ pub'.pc # "put" => dom'[d].entry[Other] = dom[d].entry[Other]
          /\ op # Idle /\ op' = Idle => \A n \in op.nodes :
               dom'[d].entry[n] = dom[d].entry[n]]_domainVars
  BY EntriesStep DEF Leaves
<1> QED
  BY <1>1, Invariance, PTL DEF Spec, EntriesAreTheirNodes

\* What no Sync of an agent and no pass of the operator breaks.
THEOREM DomainsAreKept == Spec => DomainsKept
<1>1. Spec => []TypeOK
  BY InvTypeOK, Invariance, PTL
<1> QED
  BY <1>1, TrackersApart, IdentityIsKept, EntriesAreKept, PTL DEF DomainsKept

=============================================================================
