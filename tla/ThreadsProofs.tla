---------------------------- MODULE ThreadsProofs ----------------------------
(***************************************************************************)
(* Theorems about what threads share while they compute, for any number of *)
(* them: the stack of hazptr_stack.h and the loops of parallel.h.          *)
(*                                                                         *)
(* The stack, for any number of calls and of addresses that are given out  *)
(* again: no thread reads a freed node, the list is that of what was       *)
(* pushed and not popped, every node has one owner, and the stack is       *)
(* linearizable.                                                           *)
(*                                                                         *)
(* parallel_for as the scheduler runs it, for any nest of loops: its       *)
(* types, that a worker pops its own right half or nothing, that no job    *)
(* outlives the pardo it belongs to or is run twice, and that loops keep   *)
(* the contract ParallelFor.                                               *)
(***************************************************************************)
EXTENDS HazptrStack, ForkJoin, TLAPS, SequenceTheorems, FiniteSetTheorems,
        WellFoundedInduction

Phases == {"outside", "load", "announce", "reload", "link", "push", "next", "pop", "take",
           "retire", "empty", "length", "scan", "eject", "release"}
MaybeAddress == Addresses \cup {None}

(* What a call holds on to at each place.                                  *)
NodeTypes ==
  /\ node \in [Addresses -> Nodes \cup {None}] /\ head \in MaybeAddress
  /\ stacked \in Seq(Addresses)
HazardTypes ==
  /\ announcements \in [Users -> MaybeAddress]
  /\ retired \in [Users -> Seq(Addresses)] /\ amortized_work \in [Users -> Nat]
CallTypes ==
  /\ calls_made \in [Users -> Nat]
  /\ stack_op \in [Users -> {"none", "push", "pop", "size"}]
  /\ stack_arg \in [Users -> Elements \cup {None}]
  /\ phase \in [Users -> Phases]
OwnTypes ==
  /\ acquired \in [Users -> MaybeAddress] /\ fresh \in [Users -> MaybeAddress]
  /\ successor \in [Users -> MaybeAddress]
  /\ taken_val \in [Users -> Elements \cup {None}] /\ length_read \in [Users -> Nat]
ScanTypes ==
  /\ deferred \in [Users -> Seq(Addresses)]
  /\ announced \in [Users -> [Addresses -> Nat]]
  /\ scanned \in [Users -> Nat \ {0}]
StackTypes ==
  /\ NodeTypes /\ HazardTypes /\ CallTypes /\ OwnTypes /\ ScanTypes
  /\ life \in {"used", "destroying", "destroyed", "gone"}

InCall ==
  /\ \A t \in Users :
       /\ phase[t] \in {"link", "push"} => stack_op[t] = "push"
       /\ phase[t] \in {"next", "pop", "take", "retire", "empty", "scan", "eject"} => stack_op[t] = "pop"
       /\ phase[t] = "length" => stack_op[t] = "size"
       /\ phase[t] # "outside" => stack_op[t] # "none"
       /\ phase[t] \in {"next", "pop", "take", "retire"} => acquired[t] # None
       /\ phase[t] # "outside" /\ stack_op[t] # "push" => stack_arg[t] = None
       /\ Pushing(t) => fresh[t] # None /\ stack_arg[t] \in Elements
       /\ phase[t] = "scan" => scanned[t] \in Users
       /\ phase[t] \notin {"scan", "eject"} => deferred[t] = << >>
       /\ life # "used" => phase[t] = "outside"
  /\ life \in {"destroyed", "gone"} => stacked = << >>

Reading(t) == phase[t] \in {"link", "push", "next", "pop", "length"} /\ acquired[t] # None
Passed(u, t) == phase[u] = "eject" \/ (phase[u] = "scan" /\ scanned[u] > t)
Guarded ==
  \A t \in Users :
    /\ phase[t] = "reload" => announcements[t] = acquired[t]
    /\ Reading(t) =>
       /\ announcements[t] = acquired[t]
       /\ Allocated(acquired[t])
       /\ \A u \in Users : Pushing(u) => fresh[u] # acquired[t]
       /\ \A u \in Users : \A k \in DOMAIN deferred[u] :
            deferred[u][k] = acquired[t] /\ Passed(u, t) => announced[u][acquired[t]] # 0

Height(a) == IF a = None THEN 0 ELSE node[a].length
Prepared ==
  \A t \in Users :
    /\ phase[t] = "pop" => successor[t] = node[acquired[t]].next
    /\ phase[t] = "push" => /\ node[fresh[t]].next = acquired[t]
                            /\ node[fresh[t]].length = Height(acquired[t]) + 1
    /\ Pushing(t) => node[fresh[t]].t = stack_arg[t]

StackInv == StackTypes /\ InCall /\ Linked /\ OneOwner /\ Guarded /\ Prepared

(* The owners, each a kind, a thread and a place, and what each owns.      *)
Slot(c, u, k) ==
  \/ c = "stack" /\ u = 1 /\ k \in DOMAIN stacked
  \/ c = "push" /\ u \in Users /\ k = 1 /\ Pushing(u)
  \/ c = "pop" /\ u \in Users /\ k = 1 /\ Popping(u)
  \/ c = "retired" /\ u \in Users /\ k \in DOMAIN retired[u]
  \/ c = "deferred" /\ u \in Users /\ k \in DOMAIN deferred[u]
Has(c, u, k) ==
  IF c = "stack" THEN stacked[k]
  ELSE IF c = "push" THEN fresh[u]
  ELSE IF c = "pop" THEN acquired[u]
  ELSE IF c = "retired" THEN retired[u][k]
  ELSE deferred[u][k]

Apart ==
  \A c1, u1, k1, c2, u2, k2 :
    Slot(c1, u1, k1) /\ Slot(c2, u2, k2) /\ Has(c1, u1, k1) = Has(c2, u2, k2)
      => c1 = c2 /\ u1 = u2 /\ k1 = k2
Covered ==
  \A a \in Addresses : Allocated(a) <=> \E c, u, k : Slot(c, u, k) /\ Has(c, u, k) = a

(* OneOwner, with the owners spelt out.                                    *)
LEMMA OwnersAreSlots ==
  OneOwner <=> Apart /\ Covered
<1> DEFINE
  Linked_ == { << "stack", 1, k >> : k \in DOMAIN stacked }
  Pushed_ == { << "push", t, 1 >> : t \in { u \in Users : Pushing(u) } }
  Popped_ == { << "pop", t, 1 >> : t \in { u \in Users : Popping(u) } }
  Retired_ == UNION { { << "retired", t, k >> : k \in DOMAIN retired[t] } : t \in Users }
  Deferred_ == UNION { { << "deferred", t, k >> : k \in DOMAIN deferred[t] } : t \in Users }
<1>0. Owners = Linked_ \cup Pushed_ \cup Popped_ \cup Retired_ \cup Deferred_
  BY DEF Owners
<1>1. ASSUME NEW c, NEW u, NEW k  PROVE << c, u, k >> \in Owners <=> Slot(c, u, k)
  <2>1. << c, u, k >> \in Linked_ <=> c = "stack" /\ u = 1 /\ k \in DOMAIN stacked  OBVIOUS
  <2>2. << c, u, k >> \in Pushed_ <=> c = "push" /\ u \in Users /\ k = 1 /\ Pushing(u)  OBVIOUS
  <2>3. << c, u, k >> \in Popped_ <=> c = "pop" /\ u \in Users /\ k = 1 /\ Popping(u)  OBVIOUS
  <2>4. << c, u, k >> \in Retired_ <=> c = "retired" /\ u \in Users /\ k \in DOMAIN retired[u]  OBVIOUS
  <2>5. << c, u, k >> \in Deferred_ <=> c = "deferred" /\ u \in Users /\ k \in DOMAIN deferred[u]  OBVIOUS
  <2> HIDE DEF Linked_, Pushed_, Popped_, Retired_, Deferred_
  <2> QED  BY <1>0, <2>1, <2>2, <2>3, <2>4, <2>5 DEF Slot
<1>2. ASSUME NEW o \in Owners  PROVE o = << o[1], o[2], o[3] >>
  <2>1. o \in Linked_ => o = << o[1], o[2], o[3] >>  OBVIOUS
  <2>2. o \in Pushed_ => o = << o[1], o[2], o[3] >>  OBVIOUS
  <2>3. o \in Popped_ => o = << o[1], o[2], o[3] >>  OBVIOUS
  <2>4. o \in Retired_ => o = << o[1], o[2], o[3] >>  OBVIOUS
  <2>5. o \in Deferred_ => o = << o[1], o[2], o[3] >>  OBVIOUS
  <2> HIDE DEF Linked_, Pushed_, Popped_, Retired_, Deferred_
  <2> QED  BY <1>0, <2>1, <2>2, <2>3, <2>4, <2>5
<1>3. \A c, u, k : Owned(<< c, u, k >>) = Has(c, u, k)
  BY DEF Owned, Has
<1> HIDE DEF Linked_, Pushed_, Popped_, Retired_, Deferred_
<1>4. OneOwner => Apart
  <2> SUFFICES ASSUME OneOwner, NEW c1, NEW u1, NEW k1, NEW c2, NEW u2, NEW k2,
                      Slot(c1, u1, k1), Slot(c2, u2, k2), Has(c1, u1, k1) = Has(c2, u2, k2)
               PROVE  << c1, u1, k1 >> = << c2, u2, k2 >>
    BY DEF Apart
  <2> DEFINE o == << c1, u1, k1 >>  q == << c2, u2, k2 >>
  <2>1. o \in Owners /\ q \in Owners  BY <1>1
  <2>2. Owned(o) = Owned(q)  BY <1>3
  <2> HIDE DEF o, q
  <2>3. o = q  BY <2>1, <2>2 DEF OneOwner
  <2> QED  BY <2>3 DEF o, q
<1>5. Apart => \A o, q \in Owners : Owned(o) = Owned(q) => o = q
  <2> SUFFICES ASSUME Apart, NEW o \in Owners, NEW q \in Owners, Owned(o) = Owned(q)
               PROVE  o = q
    OBVIOUS
  <2>1. o = << o[1], o[2], o[3] >> /\ q = << q[1], q[2], q[3] >>  BY <1>2
  <2>2. Slot(o[1], o[2], o[3]) /\ Slot(q[1], q[2], q[3])  BY <1>1, <2>1
  <2>3. Has(o[1], o[2], o[3]) = Has(q[1], q[2], q[3])  BY <1>3, <2>1
  <2> QED  BY <2>1, <2>2, <2>3 DEF Apart
<1>6. ASSUME NEW a
      PROVE (\E o \in Owners : Owned(o) = a) <=> \E c, u, k : Slot(c, u, k) /\ Has(c, u, k) = a
  <2>1. ASSUME NEW o \in Owners, Owned(o) = a
        PROVE  \E c, u, k : Slot(c, u, k) /\ Has(c, u, k) = a
    <3>1. o = << o[1], o[2], o[3] >>  BY <1>2
    <3>2. Slot(o[1], o[2], o[3])  BY <1>1, <3>1
    <3>3. Has(o[1], o[2], o[3]) = a  BY <1>3, <2>1, <3>1
    <3> QED  BY <3>2, <3>3
  <2>2. ASSUME NEW c, NEW u, NEW k, Slot(c, u, k), Has(c, u, k) = a
        PROVE  \E o \in Owners : Owned(o) = a
    BY <1>1, <1>3, <2>2
  <2> QED  BY <2>1, <2>2
<1> QED  BY <1>4, <1>5, <1>6 DEF OneOwner, Covered

(* Whoever has a node has one that is allocated.                           *)
LEMMA WhatIsAllocated ==
  ASSUME StackInv
  PROVE  /\ \A c, u, k : Slot(c, u, k) => Has(c, u, k) \in Addresses /\ node[Has(c, u, k)] \in Nodes
         /\ \A k \in DOMAIN stacked : node[stacked[k]] \in Nodes
         /\ \A t \in Users : Pushing(t) => fresh[t] \in Addresses /\ node[fresh[t]] \in Nodes
         /\ \A t \in Users : Popping(t) \/ Reading(t) =>
               acquired[t] \in Addresses /\ node[acquired[t]] \in Nodes
         /\ head = None <=> Len(stacked) = 0
         /\ head # None => Len(stacked) \in DOMAIN stacked /\ head = stacked[Len(stacked)]
         /\ NoUseAfterFree
<1>1. Apart /\ Covered  BY OwnersAreSlots DEF StackInv
<1>2. ASSUME NEW c, NEW u, NEW k, Slot(c, u, k)
      PROVE  Has(c, u, k) \in Addresses
  <2>1. CASE c = "stack"  BY <1>2, <2>1 DEF Slot, Has, StackInv, StackTypes, NodeTypes
  <2>2. CASE c = "push"
    BY <1>2, <2>2 DEF Slot, Has, StackInv, StackTypes, OwnTypes, InCall, MaybeAddress
  <2>3. CASE c = "pop"
    BY <1>2, <2>3 DEF Slot, Has, StackInv, StackTypes, OwnTypes, InCall, MaybeAddress,
       Popping
  <2>4. CASE c = "retired"
    BY <1>2, <2>4 DEF Slot, Has, StackInv, StackTypes, HazardTypes
  <2>5. CASE c = "deferred"
    BY <1>2, <2>5 DEF Slot, Has, StackInv, StackTypes, ScanTypes
  <2> QED  BY <1>2, <2>1, <2>2, <2>3, <2>4, <2>5 DEF Slot
<1>3. \A c, u, k : Slot(c, u, k) => Has(c, u, k) \in Addresses /\ node[Has(c, u, k)] \in Nodes
  <2>1. \A a \in Addresses : Allocated(a) => node[a] \in Nodes
    BY DEF StackInv, StackTypes, NodeTypes, Allocated
  <2> QED  BY <1>1, <1>2, <2>1 DEF Covered
<1>4. \A k \in DOMAIN stacked : node[stacked[k]] \in Nodes
  <2> TAKE k \in DOMAIN stacked
  <2>1. Slot("stack", 1, k) /\ Has("stack", 1, k) = stacked[k]  BY DEF Slot, Has
  <2> QED  BY <1>3, <2>1
<1>5. \A t \in Users : Pushing(t) => fresh[t] \in Addresses /\ node[fresh[t]] \in Nodes
  <2> TAKE t \in Users
  <2>1. Pushing(t) => Slot("push", t, 1) /\ Has("push", t, 1) = fresh[t]
    BY DEF Slot, Has
  <2> QED  BY <1>3, <2>1
<1>6. ASSUME NEW t \in Users, Popping(t) \/ Reading(t)
      PROVE  acquired[t] \in Addresses /\ node[acquired[t]] \in Nodes
  <2>1. Popping(t) => Slot("pop", t, 1) /\ Has("pop", t, 1) = acquired[t]
    BY DEF Slot, Has
  <2>2. Reading(t) => acquired[t] \in Addresses
    BY DEF Reading, StackInv, StackTypes, OwnTypes, MaybeAddress
  <2>3. Reading(t) => node[acquired[t]] \in Nodes
    BY <2>2 DEF StackInv, Guarded, StackTypes, NodeTypes, Allocated
  <2> QED  BY <1>3, <1>6, <2>1, <2>2, <2>3
<1>7. /\ head = None <=> Len(stacked) = 0
      /\ head # None => Len(stacked) \in DOMAIN stacked /\ head = stacked[Len(stacked)]
  <2>1. stacked \in Seq(Addresses) /\ Len(stacked) \in Nat
    BY DEF StackInv, StackTypes, NodeTypes
  <2>2. Len(stacked) # 0 => stacked[Len(stacked)] \in Addresses /\ Len(stacked) \in DOMAIN stacked
    BY <2>1
  <2>3. head = IF Len(stacked) = 0 THEN None ELSE stacked[Len(stacked)]
    BY <2>1 DEF StackInv, Linked, Below
  <2> QED  BY <2>1, <2>2, <2>3, HazptrStackAssumption
<1>8. NoUseAfterFree
  BY <1>6, HazptrStackAssumption DEF NoUseAfterFree, Popping, Reading, Allocated,
     StackInv, InCall
<1> QED  BY <1>3, <1>4, <1>5, <1>6, <1>7, <1>8

(* The accesses of a thread.                                               *)
ThreadStep(t) ==
  \/ BeginPush(t) \/ BeginPop(t) \/ BeginSize(t)
  \/ Load(t) \/ AnnounceHead(t) \/ Reload(t)
  \/ Link(t) \/ PushNode(t)
  \/ ReadNext(t) \/ PopNode(t) \/ Take(t) \/ ReturnEmpty(t) \/ Retire(t)
  \/ ReadLength(t)
  \/ Scan(t) \/ Eject(t) \/ Release(t)

(* retire ends in one of two ways: the node is put by, or all that were    *)
(* put by are looked through.                                              *)
PutBy(t) ==
  /\ amortized_work' = [ amortized_work EXCEPT ![t] = @ + 1 ]
  /\ retired' = [ retired EXCEPT ![t] = Append(retired[t], acquired[t]) ]
  /\ phase' = [ phase EXCEPT ![t] = "release" ]
  /\ deferred' = deferred /\ announced' = announced /\ scanned' = scanned
StartScan(t) ==
  /\ amortized_work' = [ amortized_work EXCEPT ![t] = 0 ]
  /\ retired' = [ retired EXCEPT ![t] = << >> ]
  /\ phase' = [ phase EXCEPT ![t] = "scan" ]
  /\ deferred' = [ deferred EXCEPT ![t] = Append(retired[t], acquired[t]) ]
  /\ announced' = [ announced EXCEPT ![t] = NoneAnnounced ]
  /\ scanned' = [ scanned EXCEPT ![t] = 1 ]

(* A retire is one or the other, and changes nothing else.                 *)
LEMMA RetireEnds ==
  ASSUME NEW t \in Users, Retire(t)
  PROVE  /\ phase[t] = "retire"
         /\ PutBy(t) \/ StartScan(t)
         /\ UNCHANGED << nodes, announcements, stack_calls, stack_own, whole >>
<1>0. /\ phase[t] = "retire"
      /\ UNCHANGED << nodes, announcements, stack_calls, stack_own, whole >>
  BY DEF Retire
<1>1. CASE amortized_work[t] + 1 >= threshold  BY <1>1 DEF Retire, StartScan, GoTo
<1>2. CASE ~(amortized_work[t] + 1 >= threshold)
  BY <1>2 DEF Retire, PutBy, GoTo, scan_vars
<1> QED  BY <1>0, <1>1, <1>2

(* The types are kept: what is read through a pointer is a node.           *)
LEMMA TypesStay ==
  ASSUME StackInv, [HSNext]_stack_vars
  PROVE  StackTypes'
<1> USE DEF StackTypes, NodeTypes, HazardTypes, CallTypes, OwnTypes, ScanTypes,
            MaybeAddress, Phases, Users, nodes, hazards, stack_calls, stack_own, scan_vars, whole
<1>0. StackTypes /\ InCall  BY DEF StackInv
<1>a. /\ \A t \in Users : Pushing(t) => fresh[t] \in Addresses /\ node[fresh[t]] \in Nodes
      /\ \A t \in Users : Popping(t) \/ Reading(t) =>
            acquired[t] \in Addresses /\ node[acquired[t]] \in Nodes
      /\ head # None => node[head] \in Nodes
  BY WhatIsAllocated
<1>b. \A a : node[a] \in Nodes => /\ node[a].t \in Elements /\ node[a].next \in MaybeAddress
                                 /\ node[a].length \in Nat
  BY DEF Nodes
<1>c. ASSUME NEW t \in Users  PROVE
      /\ phase[t] \in {"link", "push"} => Pushing(t)
      /\ phase[t] \in {"take", "retire"} => Popping(t)
      /\ phase[t] \in {"link", "push", "next", "pop", "length"} => acquired[t] = None \/ Reading(t)
      /\ phase[t] \in {"next", "pop"} => Reading(t)
  BY <1>0 DEF InCall, Pushing, Popping, Reading
<1>d. ASSUME NEW S, NEW s \in Seq(S), s # << >>
      PROVE  Head(s) \in S /\ Tail(s) \in Seq(S)
  BY <1>d
<1>e. ASSUME NEW s \in Seq(Addresses)  PROVE  SubSeq(s, 1, Len(s) - 1) \in Seq(Addresses)
  OBVIOUS
<1>1. ASSUME NEW t \in Users, ThreadStep(t)  PROVE NodeTypes'
  <2>0. ASSUME ~(BeginPush(t) \/ Link(t) \/ PushNode(t) \/ PopNode(t) \/ Eject(t))  PROVE NodeTypes'
    BY <1>1, <1>0, <2>0 DEF ThreadStep, BeginPop, BeginSize, Load, AnnounceHead, Reload,
       ReadNext, Take, ReturnEmpty, Retire, ReadLength, Scan, Release
  <2>1. ASSUME BeginPush(t) PROVE NodeTypes'  BY <1>0, <2>1 DEF BeginPush, Node, Nodes
  <2>2. ASSUME Link(t) PROVE NodeTypes'
    <3> DEFINE h == IF acquired[t] = None THEN 1 ELSE node[acquired[t]].length + 1
               new == Node(node[fresh[t]].t, acquired[t], h)
    <3>1. Pushing(t) /\ (acquired[t] # None => Reading(t))  BY <1>c, <2>2 DEF Link
    <3>2. h \in Nat /\ node[fresh[t]].t \in Elements  BY <1>a, <1>b, <3>1
    <3>3. new \in Nodes  BY <1>0, <3>2 DEF Node, Nodes
    <3>4. node' = [ node EXCEPT ![fresh[t]] = new ]  BY <2>2 DEF Link
    <3> QED  BY <1>0, <2>2, <3>3, <3>4 DEF Link
  <2>3. ASSUME PushNode(t) PROVE NodeTypes'
    <3> DEFINE new == Node(node[fresh[t]].t, head, node[fresh[t]].length)
    <3>1. fresh[t] \in Addresses /\ node[fresh[t]] \in Nodes
      BY <1>a, <1>c, <2>3 DEF PushNode
    <3>2. new \in Nodes  BY <1>0, <1>b, <3>1 DEF Node, Nodes
    <3>3. node' = node \/ node' = [ node EXCEPT ![fresh[t]] = new ]
      BY <2>3 DEF PushNode
    <3>4. Append(stacked, fresh[t]) \in Seq(Addresses)  BY <1>0, <3>1
    <3> QED  BY <1>0, <2>3, <3>1, <3>2, <3>3, <3>4 DEF PushNode
  <2>4. ASSUME PopNode(t) PROVE NodeTypes'  BY <1>0, <1>e, <2>4 DEF PopNode
  <2>5. ASSUME Eject(t) PROVE NodeTypes'  BY <1>0, <2>5 DEF Eject, FreeNodes
  <2> QED  BY <1>1, <2>0, <2>1, <2>2, <2>3, <2>4, <2>5 DEF ThreadStep
<1>2. ASSUME NEW t \in Users, ThreadStep(t)  PROVE HazardTypes'
  <2>0. ASSUME ~(AnnounceHead(t) \/ Retire(t) \/ Eject(t) \/ Release(t))  PROVE HazardTypes'
    BY <1>2, <1>0, <2>0 DEF ThreadStep, BeginPush, BeginPop, BeginSize, Load, Reload,
       Link, PushNode, ReadNext, PopNode, Take, ReturnEmpty, ReadLength, Scan
  <2>1. ASSUME AnnounceHead(t) PROVE HazardTypes'  BY <1>0, <2>1 DEF AnnounceHead
  <2>2. ASSUME Retire(t) PROVE HazardTypes'
    <3>1. Append(retired[t], acquired[t]) \in Seq(Addresses)
      BY <1>0, <1>a, <1>c, <2>2 DEF Retire
    <3>2. retired' \in [ Users -> Seq(Addresses) ]
      <4>1. CASE PutBy(t)  BY <1>0, <3>1, <4>1 DEF PutBy
      <4>2. CASE StartScan(t)  BY <1>0, <4>2 DEF StartScan
      <4> QED  BY <2>2, <4>1, <4>2, RetireEnds
    <3>3. amortized_work' \in [ Users -> Nat ]
      BY <1>0, <2>2, RetireEnds DEF PutBy, StartScan
    <3> QED  BY <1>0, <2>2, <3>2, <3>3 DEF Retire
  <2>3. ASSUME Eject(t) PROVE HazardTypes'
    <3>1. deferred[t] # << >> => Append(retired[t], Head(deferred[t])) \in Seq(Addresses)
      BY <1>0, <1>d
    <3>2. retired' \in [ Users -> Seq(Addresses) ]  BY <1>0, <2>3, <3>1 DEF Eject
    <3> QED  BY <1>0, <2>3, <3>2 DEF Eject
  <2>4. ASSUME Release(t) PROVE HazardTypes'  BY <1>0, <2>4 DEF Release
  <2> QED  BY <1>2, <2>0, <2>1, <2>2, <2>3, <2>4 DEF ThreadStep
<1>3. ASSUME NEW t \in Users, ThreadStep(t)  PROVE CallTypes'
  <2>1. \E p \in Phases : phase' = [ phase EXCEPT ![t] = p ]
    <3>1. CASE BeginPush(t)  BY <1>0, <3>1 DEF BeginPush, GoTo, Enter
    <3>2. CASE BeginPop(t)  BY <1>0, <3>2 DEF BeginPop, GoTo, Enter
    <3>3. CASE BeginSize(t)  BY <1>0, <3>3 DEF BeginSize, GoTo, Enter
    <3>4. CASE Load(t)  BY <1>0, <3>4 DEF Load, GoTo
    <3>5. CASE AnnounceHead(t)  BY <1>0, <3>5 DEF AnnounceHead, GoTo
    <3>6. CASE Reload(t)  BY <1>0, <3>6 DEF Reload, GoTo, Acquired
    <3>7. CASE Link(t)  BY <1>0, <3>7 DEF Link, GoTo
    <3>8. CASE PushNode(t)  BY <1>0, <3>8 DEF PushNode, GoTo
    <3>9. CASE ReadNext(t)  BY <1>0, <3>9 DEF ReadNext, GoTo
    <3>10. CASE PopNode(t)  BY <1>0, <3>10 DEF PopNode, GoTo
    <3>11. CASE Take(t)  BY <1>0, <3>11 DEF Take, GoTo
    <3>12. CASE ReturnEmpty(t)  BY <1>0, <3>12 DEF ReturnEmpty, GoTo
    <3>13. CASE Retire(t)  BY <1>0, <3>13 DEF Retire, GoTo
    <3>14. CASE ReadLength(t)  BY <1>0, <3>14 DEF ReadLength, GoTo
    <3>15. CASE Scan(t)  BY <1>0, <3>15 DEF Scan, GoTo
    <3>16. CASE Eject(t)  BY <1>0, <3>16 DEF Eject, GoTo
    <3>17. CASE Release(t)  BY <1>0, <3>17 DEF Release, GoTo
    <3> QED
      BY <1>3, <3>1, <3>2, <3>3, <3>4, <3>5, <3>6, <3>7, <3>8, <3>9, <3>10, <3>11,
         <3>12, <3>13, <3>14, <3>15, <3>16, <3>17 DEF ThreadStep
  <2>2. phase' \in [ Users -> Phases ]  BY <1>0, <2>1
  <2>3. /\ calls_made' \in [ Users -> Nat ]
        /\ stack_op' \in [ Users -> {"none", "push", "pop", "size"} ]
        /\ stack_arg' \in [ Users -> Elements \cup {None} ]
    <3>1. CASE BeginPush(t)
      <4>1. PICK v \in Elements : Enter(t, "push", v)  BY <3>1 DEF BeginPush
      <4> QED  BY <1>0, <4>1 DEF Enter
    <3>2. CASE BeginPop(t)  BY <1>0, <3>2 DEF BeginPop, Enter
    <3>3. CASE BeginSize(t)  BY <1>0, <3>3 DEF BeginSize, Enter
    <3>4. CASE ~(BeginPush(t) \/ BeginPop(t) \/ BeginSize(t))
      BY <1>0, <1>3, <3>4 DEF ThreadStep, Load, AnnounceHead, Reload, Link, PushNode,
         ReadNext, PopNode,
         Take, ReturnEmpty, Retire, ReadLength, Scan, Eject, Release
    <3> QED  BY <3>1, <3>2, <3>3, <3>4
  <2> QED  BY <2>2, <2>3
<1>4. ASSUME NEW t \in Users, ThreadStep(t)  PROVE OwnTypes'
  <2>0. ASSUME ~(BeginPush(t) \/ Load(t) \/ ReadNext(t) \/ Take(t) \/ ReadLength(t))  PROVE OwnTypes'
    BY <1>4, <1>0, <2>0 DEF ThreadStep, BeginPop, BeginSize, AnnounceHead, Reload, Link,
       PushNode, PopNode, ReturnEmpty, Retire, Scan, Eject, Release
  <2>1. ASSUME BeginPush(t) PROVE OwnTypes'  BY <1>0, <2>1 DEF BeginPush
  <2>2. ASSUME Load(t) PROVE OwnTypes'  BY <1>0, <2>2 DEF Load
  <2>3. ASSUME ReadNext(t) PROVE OwnTypes'
    <3>1. node[acquired[t]].next \in MaybeAddress
      BY <1>a, <1>b, <1>c, <2>3 DEF ReadNext
    <3> QED  BY <1>0, <2>3, <3>1 DEF ReadNext
  <2>4. ASSUME Take(t) PROVE OwnTypes'
    <3>1. node[acquired[t]].t \in Elements  BY <1>a, <1>b, <1>c, <2>4 DEF Take
    <3> QED  BY <1>0, <2>4, <3>1 DEF Take
  <2>5. ASSUME ReadLength(t) PROVE OwnTypes'
    <3>1. (IF acquired[t] = None THEN 0 ELSE node[acquired[t]].length) \in Nat
      BY <1>a, <1>b, <1>c, <2>5 DEF ReadLength
    <3> QED  BY <1>0, <2>5, <3>1 DEF ReadLength
  <2> QED  BY <1>4, <2>0, <2>1, <2>2, <2>3, <2>4, <2>5 DEF ThreadStep
<1>5. ASSUME NEW t \in Users, ThreadStep(t)  PROVE ScanTypes'
  <2>0. ASSUME ~(Retire(t) \/ Scan(t) \/ Eject(t))  PROVE ScanTypes'
    BY <1>5, <1>0, <2>0 DEF ThreadStep, BeginPush, BeginPop, BeginSize, Load,
       AnnounceHead, Reload, Link, PushNode, ReadNext, PopNode, Take, ReturnEmpty,
       ReadLength, Release
  <2>1. ASSUME Retire(t) PROVE ScanTypes'
    <3>1. Append(retired[t], acquired[t]) \in Seq(Addresses)
      BY <1>0, <1>a, <1>c, <2>1 DEF Retire
    <3>2. NoneAnnounced \in [ Addresses -> Nat ]  BY DEF NoneAnnounced
    <3>3. deferred' \in [ Users -> Seq(Addresses) ]
      <4>1. \E R \in Seq(Addresses) : deferred' = deferred \/ deferred' = [ deferred EXCEPT ![t] = R ]
        BY <2>1, <3>1, RetireEnds DEF PutBy, StartScan
      <4> QED  BY <1>0, <4>1
    <3>4. announced' \in [ Users -> [ Addresses -> Nat ] ]
      <4>1. CASE PutBy(t)  BY <1>0, <4>1 DEF PutBy
      <4>2. CASE StartScan(t)  BY <1>0, <3>2, <4>2 DEF StartScan
      <4> QED  BY <2>1, <4>1, <4>2, RetireEnds
    <3>5. scanned' \in [ Users -> Nat \ {0} ]
      BY <1>0, <2>1, RetireEnds DEF PutBy, StartScan
    <3> QED  BY <3>3, <3>4, <3>5
  <2>2. ASSUME Scan(t) PROVE ScanTypes'
    <3> DEFINE x == announcements[scanned[t]]
    <3>1. scanned[t] \in Users /\ x \in MaybeAddress  BY <1>0, <2>2 DEF Scan, InCall
    <3>2. x # None => [ announced EXCEPT ![t][x] = @ + 1 ] \in [ Users -> [ Addresses -> Nat ] ]
      <4>1. announced[t] \in [ Addresses -> Nat ]  BY <1>0
      <4>2. x # None => [ announced[t] EXCEPT ![x] = @ + 1 ] \in [ Addresses -> Nat ]
        BY <3>1, <4>1
      <4> QED  BY <1>0, <4>2
    <3>3. announced' \in [ Users -> [ Addresses -> Nat ] ]  BY <1>0, <2>2, <3>2 DEF Scan
    <3>4. scanned' \in [ Users -> Nat \ {0} ]  BY <1>0, <2>2 DEF Scan
    <3> QED  BY <1>0, <2>2, <3>3, <3>4 DEF Scan
  <2>3. ASSUME Eject(t) PROVE ScanTypes'
    <3> DEFINE x == Head(deferred[t])
    <3>1. deferred[t] # << >> => x \in Addresses /\ Tail(deferred[t]) \in Seq(Addresses)
      BY <1>0, <1>d
    <3>2. deferred' \in [ Users -> Seq(Addresses) ]  BY <1>0, <2>3, <3>1 DEF Eject
    <3>3. x \in Addresses /\ announced[t][x] # 0 =>
            [ announced EXCEPT ![t][x] = @ - 1 ] \in [ Users -> [ Addresses -> Nat ] ]
      BY <1>0
    <3>4. announced' \in [ Users -> [ Addresses -> Nat ] ]
      BY <1>0, <2>3, <3>1, <3>3 DEF Eject
    <3> QED  BY <1>0, <2>3, <3>2, <3>4 DEF Eject
  <2> QED  BY <1>5, <2>0, <2>1, <2>2, <2>3 DEF ThreadStep
<1>6. ASSUME NEW t \in Users, ThreadStep(t)  PROVE life' = life
  BY <1>6 DEF ThreadStep, BeginPush, BeginPop, BeginSize, Load, AnnounceHead, Reload,
     Link, PushNode, ReadNext, PopNode, Take, ReturnEmpty, Retire, ReadLength, Scan,
     Eject, Release
<1>s. ASSUME NEW t \in Users, ThreadStep(t)  PROVE StackTypes'
  BY <1>0, <1>s, <1>1, <1>2, <1>3, <1>4, <1>5, <1>6
<1>n. ASSUME DestroyNode PROVE StackTypes'
  <2>1. head' \in MaybeAddress  BY <1>a, <1>b, <1>n DEF DestroyNode
  <2>2. stacked' \in Seq(Addresses)  BY <1>0, <1>e, <1>n DEF DestroyNode
  <2>3. node' \in [ Addresses -> Nodes \cup {None} ]
    BY <1>0, <1>n DEF DestroyNode, FreeNodes
  <2> QED  BY <1>0, <1>n, <2>1, <2>2, <2>3 DEF DestroyNode
<1>k. ASSUME DestroyStack PROVE StackTypes'  BY <1>0, <1>k DEF DestroyStack
<1>f. ASSUME DestroyInstance PROVE StackTypes'
  BY <1>0, <1>f DEF DestroyInstance, FreeNodes
<1>u. ASSUME UNCHANGED stack_vars PROVE StackTypes'  BY <1>0, <1>u DEF stack_vars
<1> QED  BY <1>s, <1>n, <1>k, <1>f, <1>u DEF HSNext, ThreadStep, Over

(* A step of a thread leaves what is another thread's alone.               *)
LEMMA OthersStay ==
  ASSUME StackInv, NEW t \in Users, ThreadStep(t), NEW u \in Users, u # t
  PROVE  /\ announcements'[u] = announcements[u] /\ retired'[u] = retired[u]
         /\ stack_op'[u] = stack_op[u] /\ stack_arg'[u] = stack_arg[u]
         /\ phase'[u] = phase[u]
         /\ acquired'[u] = acquired[u] /\ fresh'[u] = fresh[u]
         /\ successor'[u] = successor[u] /\ taken_val'[u] = taken_val[u]
         /\ length_read'[u] = length_read[u]
         /\ deferred'[u] = deferred[u] /\ announced'[u] = announced[u]
         /\ scanned'[u] = scanned[u]
<1> USE DEF StackTypes, NodeTypes, HazardTypes, CallTypes, OwnTypes, ScanTypes, Users,
            nodes, hazards, stack_calls, stack_own, scan_vars, whole, GoTo
<1>0. StackTypes  BY DEF StackInv
<1>1. CASE BeginPush(t)  BY <1>0, <1>1 DEF BeginPush, Enter
<1>2. CASE BeginPop(t)  BY <1>0, <1>2 DEF BeginPop, Enter
<1>3. CASE BeginSize(t)  BY <1>0, <1>3 DEF BeginSize, Enter
<1>4. CASE Load(t)  BY <1>0, <1>4 DEF Load
<1>5. CASE AnnounceHead(t)  BY <1>0, <1>5 DEF AnnounceHead
<1>6. CASE Reload(t)  BY <1>0, <1>6 DEF Reload
<1>7. CASE Link(t)  BY <1>0, <1>7 DEF Link
<1>8. CASE PushNode(t)  BY <1>0, <1>8 DEF PushNode
<1>9. CASE ReadNext(t)  BY <1>0, <1>9 DEF ReadNext
<1>10. CASE PopNode(t)  BY <1>0, <1>10 DEF PopNode
<1>11. CASE Take(t)  BY <1>0, <1>11 DEF Take
<1>12. CASE ReturnEmpty(t)  BY <1>0, <1>12 DEF ReturnEmpty
<1>13. CASE Retire(t)
  <2>1. CASE PutBy(t)  BY <1>0, <1>13, <2>1, RetireEnds DEF PutBy
  <2>2. CASE StartScan(t)  BY <1>0, <1>13, <2>2, RetireEnds DEF StartScan
  <2> QED  BY <1>13, <2>1, <2>2, RetireEnds
<1>14. CASE ReadLength(t)  BY <1>0, <1>14 DEF ReadLength
<1>15. CASE Scan(t)  BY <1>0, <1>15 DEF Scan
<1>16. CASE Eject(t)  BY <1>0, <1>16 DEF Eject
<1>17. CASE Release(t)  BY <1>0, <1>17 DEF Release
<1> QED
  BY <1>1, <1>2, <1>3, <1>4, <1>5, <1>6, <1>7, <1>8, <1>9, <1>10, <1>11, <1>12, <1>13,
     <1>14, <1>15, <1>16, <1>17 DEF ThreadStep

(* A thread is where its call can be, with what it needs there.            *)
LEMMA CallsStay ==
  ASSUME StackInv, [HSNext]_stack_vars
  PROVE  InCall'
<1> USE DEF StackTypes, NodeTypes, HazardTypes, CallTypes, OwnTypes, ScanTypes, Users,
            nodes, hazards, stack_calls, stack_own, scan_vars, whole, GoTo
<1>0. StackTypes /\ InCall  BY DEF StackInv
<1> DEFINE Fits(u) ==
      /\ phase[u] \in {"link", "push"} => stack_op[u] = "push"
      /\ phase[u] \in {"next", "pop", "take", "retire", "empty", "scan", "eject"} => stack_op[u] = "pop"
      /\ phase[u] = "length" => stack_op[u] = "size"
      /\ phase[u] # "outside" => stack_op[u] # "none"
      /\ phase[u] \in {"next", "pop", "take", "retire"} => acquired[u] # None
      /\ phase[u] # "outside" /\ stack_op[u] # "push" => stack_arg[u] = None
      /\ Pushing(u) => fresh[u] # None /\ stack_arg[u] \in Elements
      /\ phase[u] = "scan" => scanned[u] \in Users
      /\ phase[u] \notin {"scan", "eject"} => deferred[u] = << >>
<1>s. ASSUME NEW t \in Users, ThreadStep(t)  PROVE InCall'
  <2>0. life = "used" /\ life' = "used"
    BY <1>0, <1>s DEF InCall, Enter, ThreadStep, BeginPush, BeginPop, BeginSize, Load,
       AnnounceHead, Reload, Link, PushNode, ReadNext, PopNode, Take, ReturnEmpty,
       Retire, ReadLength, Scan, Eject, Release
  <2>1. ASSUME NEW u \in Users, u # t  PROVE Fits(u)'
    <3>1. Fits(u)  BY <1>0 DEF InCall
    <3>2. /\ stack_op'[u] = stack_op[u] /\ stack_arg'[u] = stack_arg[u] /\ phase'[u] = phase[u]
          /\ acquired'[u] = acquired[u] /\ fresh'[u] = fresh[u]
          /\ deferred'[u] = deferred[u] /\ scanned'[u] = scanned[u]
      BY <1>s, <2>1, OthersStay
    <3> QED  BY <3>1, <3>2 DEF Pushing
  <2>2. Fits(t)'
    <3> USE DEF InCall, Pushing
    <3>0. None \notin Addresses  BY HazptrStackAssumption
    <3>1. CASE BeginPush(t)
      <4>1. PICK v \in Elements, a \in Addresses :
              /\ Enter(t, "push", v) /\ fresh' = [ fresh EXCEPT ![t] = a ]
              /\ UNCHANGED << hazards, acquired, scan_vars >>
        BY <3>1 DEF BeginPush
      <4> QED  BY <1>0, <3>0, <4>1 DEF Enter
    <3>2. CASE BeginPop(t)  BY <1>0, <3>2 DEF BeginPop, Enter
    <3>3. CASE BeginSize(t)  BY <1>0, <3>3 DEF BeginSize, Enter
    <3>4. CASE Load(t)  BY <1>0, <3>4 DEF Load
    <3>5. CASE AnnounceHead(t)  BY <1>0, <3>5 DEF AnnounceHead
    <3>6. CASE Reload(t)  BY <1>0, <3>6 DEF Reload, Acquired
    <3>7. CASE Link(t)  BY <1>0, <3>7 DEF Link
    <3>8. CASE PushNode(t)  BY <1>0, <3>8 DEF PushNode
    <3>9. CASE ReadNext(t)  BY <1>0, <3>9 DEF ReadNext
    <3>10. CASE PopNode(t)
      <4>1. phase' = [ phase EXCEPT ![t] = "take" ] \/ phase' = [ phase EXCEPT ![t] = "load" ]
        BY <3>10 DEF PopNode
      <4>2. phase[t] = "pop" /\ UNCHANGED << stack_calls, stack_own, scan_vars >>
        BY <3>10 DEF PopNode
      <4>3. stack_op[t] = "pop" /\ acquired[t] # None /\ deferred[t] = << >>
        BY <1>0, <4>2
      <4>4. phase'[t] \in {"take", "load"}  BY <1>0, <4>1
      <4>5. stack_arg[t] = None  BY <1>0, <4>2
      <4> QED  BY <4>2, <4>3, <4>4, <4>5
    <3>11. CASE Take(t)  BY <1>0, <3>11 DEF Take
    <3>12. CASE ReturnEmpty(t)  BY <1>0, <3>12 DEF ReturnEmpty
    <3>13. CASE Retire(t)
      <4>1. CASE PutBy(t)  BY <1>0, <3>13, <4>1, RetireEnds DEF PutBy
      <4>2. CASE StartScan(t)
        <5>1. 1 \in Users  BY HazptrStackAssumption
        <5>2. phase'[t] = "scan" /\ scanned'[t] = 1  BY <1>0, <4>2 DEF StartScan
        <5>3. stack_op[t] = "pop" /\ stack_arg[t] = None  BY <1>0, <3>13, RetireEnds
        <5>4. stack_op' = stack_op /\ stack_arg' = stack_arg  BY <3>13, RetireEnds
        <5> QED  BY <5>1, <5>2, <5>3, <5>4
      <4> QED  BY <3>13, <4>1, <4>2, RetireEnds
    <3>14. CASE ReadLength(t)  BY <1>0, <3>14 DEF ReadLength
    <3>15. CASE Scan(t)
      <4>1. scanned[t] \in Users /\ scanned'[t] = scanned[t] + 1
        BY <1>0, <3>15 DEF Scan
      <4>2. scanned[t] # num_users => scanned[t] + 1 \in Users
        BY <4>1, HazptrStackAssumption
      <4> QED  BY <1>0, <3>15, <4>1, <4>2 DEF Scan
    <3>16. CASE Eject(t)  BY <1>0, <3>16 DEF Eject
    <3>17. CASE Release(t)  BY <1>0, <3>17 DEF Release
    <3> QED
      BY <1>s, <3>1, <3>2, <3>3, <3>4, <3>5, <3>6, <3>7, <3>8, <3>9, <3>10, <3>11,
         <3>12, <3>13, <3>14, <3>15, <3>16, <3>17 DEF ThreadStep
  <2> QED  BY <2>0, <2>1, <2>2 DEF InCall
<1>e. ASSUME DestroyNode \/ DestroyStack \/ DestroyInstance \/ UNCHANGED stack_vars  PROVE InCall'
  <2>1. /\ phase' = phase /\ stack_op' = stack_op /\ stack_arg' = stack_arg /\ acquired' = acquired
        /\ fresh' = fresh /\ scanned' = scanned /\ deferred' = deferred
    BY <1>e DEF DestroyNode, DestroyStack, DestroyInstance, stack_vars
  <2>2. \A u \in Users : Fits(u)'  BY <1>0, <2>1 DEF InCall, Pushing
  <2>3. life' # "used" => \A u \in Users : phase'[u] = "outside"
    BY <1>0, <1>e, <2>1 DEF InCall, DestroyNode, DestroyStack, DestroyInstance,
       stack_vars, Quiet
  <2>4. life' \in {"destroyed", "gone"} => stacked' = << >>
    BY <1>0, <1>e, WhatIsAllocated DEF InCall, DestroyNode, DestroyStack,
       DestroyInstance, stack_vars
  <2> QED  BY <2>2, <2>3, <2>4 DEF InCall
<1> QED  BY <1>s, <1>e DEF HSNext, ThreadStep, Over

(* push writes into its own node, which stays a node.                      *)
LEMMA PushWrites ==
  ASSUME StackInv, NEW t \in Users, Pushing(t), NEW nx \in MaybeAddress, NEW n \in Nat,
         node' = [ node EXCEPT ![fresh[t]] = Node(@.t, nx, n) ]
  PROVE  /\ fresh[t] \in Addresses
         /\ node'[fresh[t]] = Node(node[fresh[t]].t, nx, n)
         /\ \A a \in Addresses : a # fresh[t] => node'[a] = node[a]
         /\ \A a \in Addresses : Allocated(a)' <=> Allocated(a)
<1>1. fresh[t] \in Addresses /\ node[fresh[t]] \in Nodes  BY WhatIsAllocated
<1>2. node \in [ Addresses -> Nodes \cup {None} ]
  BY DEF StackInv, StackTypes, NodeTypes
<1>3. Node(node[fresh[t]].t, nx, n) \in Nodes  BY <1>1 DEF Node, Nodes, MaybeAddress
<1>4. None \notin Nodes  BY HazptrStackAssumption
<1>5. /\ node'[fresh[t]] = Node(node[fresh[t]].t, nx, n)
      /\ \A a \in Addresses : a # fresh[t] => node'[a] = node[a]
  BY <1>1, <1>2
<1>6. \A a \in Addresses : Allocated(a)' <=> Allocated(a)
  BY <1>1, <1>3, <1>4, <1>5 DEF Allocated
<1> QED  BY <1>1, <1>5, <1>6

(* Link writes the acquired node and its height plus one.                  *)
LEMMA LinkWrites ==
  ASSUME StackInv, NEW t \in Users, Link(t)
  PROVE  /\ Pushing(t) /\ acquired[t] \in MaybeAddress /\ Height(acquired[t]) + 1 \in Nat
         /\ node' = [ node EXCEPT ![fresh[t]] = Node(@.t, acquired[t], Height(acquired[t]) + 1) ]
<1>1. phase[t] = "link" /\ Pushing(t)  BY DEF Link, StackInv, InCall, Pushing
<1>2. acquired[t] \in MaybeAddress  BY DEF StackInv, StackTypes, OwnTypes
<1>3. acquired[t] # None => node[acquired[t]].length \in Nat
  BY <1>1, WhatIsAllocated DEF Reading, Nodes
<1>4. Height(acquired[t]) + 1 =
        IF acquired[t] = None THEN 1 ELSE node[acquired[t]].length + 1
  BY DEF Height
<1>5. Height(acquired[t]) + 1 \in Nat  BY <1>3 DEF Height
<1> QED  BY <1>1, <1>2, <1>4, <1>5 DEF Link

(* One slot is given up for another that has the same node.                *)
LEMMA SlotMoves ==
  ASSUME Apart, Covered, NEW c0, NEW u0, NEW k0, NEW c1, NEW u1, NEW k1,
         Slot(c0, u0, k0), ~Slot(c1, u1, k1),
         \A c, u, k : Slot(c, u, k)' <=>
            \/ Slot(c, u, k) /\ ~(c = c0 /\ u = u0 /\ k = k0)
            \/ c = c1 /\ u = u1 /\ k = k1,
         \A c, u, k : Slot(c, u, k) /\ ~(c = c0 /\ u = u0 /\ k = k0)
            => Has(c, u, k)' = Has(c, u, k),
         Has(c1, u1, k1)' = Has(c0, u0, k0),
         \A a \in Addresses : Allocated(a)' <=> Allocated(a)
  PROVE  Apart' /\ Covered'
<1>1. Apart'  BY DEF Apart
<1>2. ASSUME NEW a \in Addresses
      PROVE  (\E c, u, k : Slot(c, u, k)' /\ Has(c, u, k)' = a) <=> (\E c, u, k : Slot(c, u, k) /\ Has(c, u, k) = a)
  OBVIOUS
<1> QED  BY <1>1, <1>2 DEF Covered

(* What a step does to one thread's slots, if nothing.                     *)
HandsSame(t) ==
  /\ stacked' = stacked
  /\ Pushing(t)' <=> Pushing(t)
  /\ Pushing(t) => fresh'[t] = fresh[t]
  /\ Popping(t)' <=> Popping(t)
  /\ Popping(t) => acquired'[t] = acquired[t]
  /\ retired'[t] = retired[t]
  /\ deferred'[t] = deferred[t]
  /\ \A a \in Addresses : Allocated(a)' <=> Allocated(a)

(* A step that changes no slot of its thread keeps the owners apart.       *)
LEMMA SlotsStay ==
  ASSUME StackInv, NEW t \in Users, ThreadStep(t), HandsSame(t)
  PROVE  Apart' /\ Covered'
<1>0. Apart /\ Covered  BY OwnersAreSlots DEF StackInv
<1>1. ASSUME NEW u \in Users
      PROVE  /\ Pushing(u)' <=> Pushing(u)
             /\ Pushing(u) => fresh'[u] = fresh[u]
             /\ Popping(u)' <=> Popping(u)
             /\ Popping(u) => acquired'[u] = acquired[u]
             /\ retired'[u] = retired[u]
             /\ deferred'[u] = deferred[u]
  BY OthersStay DEF HandsSame, Pushing, Popping
<1>2. stacked' = stacked  BY DEF HandsSame
<1>3. ASSUME NEW c, NEW u, NEW k  PROVE (Slot(c, u, k)' <=> Slot(c, u, k))
  BY <1>1, <1>2 DEF Slot
<1>4. ASSUME NEW c, NEW u, NEW k, Slot(c, u, k)  PROVE Has(c, u, k)' = Has(c, u, k)
  BY <1>1, <1>2, <1>4 DEF Slot, Has
<1>5. \A a \in Addresses : Allocated(a)' <=> Allocated(a)  BY DEF HandsSame
<1>6. Apart'  BY <1>0, <1>3, <1>4 DEF Apart
<1>7. Covered'  BY <1>0, <1>3, <1>4, <1>5 DEF Covered
<1> QED  BY <1>6, <1>7

(* The steps in which no node changes hands.                               *)
LEMMA MostSame ==
  ASSUME StackInv, StackTypes', NEW t \in Users,
         \/ BeginPop(t) \/ BeginSize(t) \/ Load(t) \/ AnnounceHead(t) \/ Reload(t)
         \/ Link(t) \/ ReadNext(t) \/ Take(t) \/ ReturnEmpty(t) \/ ReadLength(t)
         \/ Scan(t) \/ Release(t)
  PROVE  HandsSame(t)
<1> USE DEF StackTypes, NodeTypes, HazardTypes, CallTypes, OwnTypes, ScanTypes, Users,
            nodes, hazards, stack_calls, stack_own, scan_vars, whole, GoTo, HandsSame, Pushing, Popping
<1>0. StackTypes /\ InCall /\ StackTypes'  BY DEF StackInv
<1>1. CASE BeginPop(t)  BY <1>0, <1>1 DEF BeginPop, Allocated, InCall, Enter
<1>2. CASE BeginSize(t)  BY <1>0, <1>2 DEF BeginSize, Allocated, InCall, Enter
<1>3. CASE Load(t)  BY <1>0, <1>3 DEF Load, Allocated, InCall
<1>4. CASE AnnounceHead(t)  BY <1>0, <1>4 DEF AnnounceHead, Allocated, InCall
<1>5. CASE Reload(t)  BY <1>0, <1>5 DEF Reload, Allocated, InCall, Acquired
<1>6. CASE Link(t)
  <2>1. \A a \in Addresses : Allocated(a)' <=> Allocated(a)
    BY <1>6, LinkWrites, PushWrites
  <2> QED  BY <1>0, <1>6, <2>1 DEF Link, InCall
<1>7. CASE ReadNext(t)  BY <1>0, <1>7 DEF ReadNext, Allocated, InCall
<1>8. CASE Take(t)  BY <1>0, <1>8 DEF Take, Allocated, InCall
<1>9. CASE ReturnEmpty(t)  BY <1>0, <1>9 DEF ReturnEmpty, Allocated, InCall
<1>10. CASE ReadLength(t)  BY <1>0, <1>10 DEF ReadLength, Allocated, InCall
<1>11. CASE Scan(t)  BY <1>0, <1>11 DEF Scan, Allocated, InCall
<1>12. CASE Release(t)  BY <1>0, <1>12 DEF Release, Allocated, InCall
<1> QED  BY <1>1, <1>2, <1>3, <1>4, <1>5, <1>6, <1>7, <1>8, <1>9, <1>10, <1>11, <1>12

(* The steps in which a node changes hands.                                *)
LEMMA BeginPushOwns ==
  ASSUME StackInv, NEW t \in Users, BeginPush(t)
  PROVE  Apart' /\ Covered'
<1> USE DEF nodes, hazards, stack_calls, stack_own, scan_vars, whole
<1>0. Apart /\ Covered  BY OwnersAreSlots DEF StackInv
<1>1. PICK v \in Elements, a \in Addresses :
        /\ Enter(t, "push", v) /\ ~Allocated(a)
        /\ node' = [ node EXCEPT ![a] = Node(v, None, 1) ]
        /\ fresh' = [ fresh EXCEPT ![t] = a ]
        /\ UNCHANGED << retired, acquired, deferred, stacked >>
  BY DEF BeginPush
<1>2. /\ node \in [ Addresses -> Nodes \cup {None} ] /\ fresh \in [ Users -> MaybeAddress ]
      /\ phase \in [ Users -> Phases ] /\ stack_op \in [ Users -> {"none", "push", "pop", "size"} ]
  BY DEF StackInv, StackTypes, NodeTypes, OwnTypes, CallTypes
<1>3. Node(v, None, 1) \in Nodes /\ None \notin Nodes
  BY HazptrStackAssumption DEF Node, Nodes
<1>4. \A b \in Addresses : Allocated(b)' <=> Allocated(b) \/ b = a
  BY <1>1, <1>2, <1>3 DEF Allocated
<1>5. \A u \in Users : Popping(u)' <=> Popping(u)
  BY <1>1, <1>2 DEF Popping, Enter, GoTo
<1>6. \A u \in Users : Pushing(u)' <=> Pushing(u) \/ u = t
  BY <1>1, <1>2 DEF Pushing, Enter, GoTo
<1>7. ~Pushing(t)  BY <1>1 DEF Enter, Pushing
<1>8. \A c, u, k : Slot(c, u, k)' <=> Slot(c, u, k) \/ (c = "push" /\ u = t /\ k = 1)
  BY <1>1, <1>5, <1>6 DEF Slot
<1>9. ASSUME NEW c, NEW u, NEW k, Slot(c, u, k)
      PROVE  Has(c, u, k)' = Has(c, u, k) /\ Has(c, u, k) # a
  <2>1. Has(c, u, k)' = Has(c, u, k)
    BY <1>1, <1>2, <1>7, <1>9 DEF Slot, Has
  <2>2. Has(c, u, k) # a  BY <1>0, <1>1, <1>9 DEF Covered
  <2> QED  BY <2>1, <2>2
<1>10. Has("push", t, 1)' = a  BY <1>1, <1>2 DEF Has
<1>11. Apart'  BY <1>0, <1>8, <1>9, <1>10 DEF Apart
<1>12. Covered'
  <2>1. ASSUME NEW b \in Addresses, Allocated(b)'
        PROVE  \E c, u, k : Slot(c, u, k)' /\ Has(c, u, k)' = b
    BY <1>0, <1>4, <1>8, <1>9, <1>10, <2>1 DEF Covered
  <2>2. ASSUME NEW b \in Addresses, NEW c, NEW u, NEW k, Slot(c, u, k)', Has(c, u, k)' = b
        PROVE  Allocated(b)'
    BY <1>0, <1>4, <1>8, <1>9, <1>10, <2>2 DEF Covered
  <2> QED  BY <2>1, <2>2 DEF Covered
<1> QED  BY <1>11, <1>12

(* The compare-and-swap of a push gives its node to the stack.             *)
LEMMA PushNodeOwns ==
  ASSUME StackInv, NEW t \in Users, PushNode(t)
  PROVE  Apart' /\ Covered'
<1> USE DEF nodes, hazards, stack_calls, stack_own, scan_vars, whole
<1>0. Apart /\ Covered  BY OwnersAreSlots DEF StackInv
<1>1. /\ stacked \in Seq(Addresses) /\ phase \in [ Users -> Phases ]
      /\ head \in MaybeAddress
      /\ phase[t] = "push" /\ stack_op[t] = "push" /\ Pushing(t)
      /\ fresh[t] \in Addresses /\ node[fresh[t]] \in Nodes
  BY WhatIsAllocated DEF StackInv, StackTypes, NodeTypes, CallTypes, PushNode, InCall,
     Pushing
<1>2. CASE /\ stacked' = Append(stacked, fresh[t]) /\ node' = node
           /\ phase' = [ phase EXCEPT ![t] = "release" ]
  <2>0. PICK n : n = Len(stacked) + 1  OBVIOUS
  <2>1. UNCHANGED << fresh, acquired, retired, deferred, stack_op >>  BY DEF PushNode
  <2>2. /\ \A u \in Users : Pushing(u)' <=> Pushing(u) /\ u # t
        /\ \A u \in Users : Popping(u)' <=> Popping(u)
    BY <1>1, <1>2, <2>1 DEF Pushing, Popping
  <2>3. /\ \A k : k \in DOMAIN stacked' <=> k \in DOMAIN stacked \/ k = n
        /\ n \notin DOMAIN stacked /\ stacked'[n] = fresh[t]
        /\ \A k \in DOMAIN stacked : stacked'[k] = stacked[k]
    BY <1>1, <1>2, <2>0
  <2>4. Slot("push", t, 1) /\ ~Slot("stack", 1, n)  BY <1>1, <2>3 DEF Slot
  <2>5. \A c, u, k : Slot(c, u, k)' <=>
           \/ Slot(c, u, k) /\ ~(c = "push" /\ u = t /\ k = 1)
           \/ c = "stack" /\ u = 1 /\ k = n
    BY <2>1, <2>2, <2>3 DEF Slot
  <2>6. \A c, u, k : Slot(c, u, k) /\ ~(c = "push" /\ u = t /\ k = 1) => Has(c, u, k)' = Has(c, u, k)
    BY <2>1, <2>3 DEF Slot, Has
  <2>7. Has("stack", 1, n)' = Has("push", t, 1)  BY <2>3 DEF Has
  <2>8. \A a \in Addresses : Allocated(a)' <=> Allocated(a)  BY <1>2 DEF Allocated
  <2> QED  BY <1>0, <2>4, <2>5, <2>6, <2>7, <2>8, SlotMoves
<1>3. CASE /\ stacked' = stacked /\ phase' = [ phase EXCEPT ![t] = "load" ]
           /\ node' = [ node EXCEPT ![fresh[t]] = Node(@.t, head, @.length) ]
  <2>1. node[fresh[t]].length \in Nat  BY <1>1 DEF Nodes
  <2>2. \A a \in Addresses : Allocated(a)' <=> Allocated(a)
    <3> DEFINE l == node[fresh[t]].length
    <3>1. node' = [ node EXCEPT ![fresh[t]] = Node(@.t, head, l) ]  BY <1>3
    <3> HIDE DEF l
    <3> QED  BY <1>1, <2>1, <3>1, PushWrites DEF l
  <2>3. UNCHANGED << fresh, acquired, retired, deferred, stack_op >>  BY DEF PushNode
  <2>4. HandsSame(t)  BY <1>1, <1>3, <2>2, <2>3 DEF HandsSame, Pushing, Popping
  <2> QED  BY <2>4, SlotsStay DEF ThreadStep
<1> QED  BY <1>2, <1>3 DEF PushNode, GoTo

(* That of a pop takes the top node from it.                               *)
LEMMA PopNodeOwns ==
  ASSUME StackInv, NEW t \in Users, PopNode(t)
  PROVE  Apart' /\ Covered'
<1> USE DEF nodes, hazards, stack_calls, stack_own, scan_vars, whole
<1>0. Apart /\ Covered  BY OwnersAreSlots DEF StackInv
<1>1. /\ stacked \in Seq(Addresses) /\ phase \in [ Users -> Phases ]
      /\ phase[t] = "pop" /\ stack_op[t] = "pop" /\ ~Pushing(t) /\ ~Popping(t)
      /\ acquired[t] # None
      /\ UNCHANGED << node, fresh, acquired, retired, deferred, stack_op >>
  BY DEF StackInv, StackTypes, NodeTypes, CallTypes, PopNode, InCall, Pushing, Popping
<1>2. CASE /\ stacked' = SubSeq(stacked, 1, Len(stacked) - 1) /\ head = acquired[t]
           /\ phase' = [ phase EXCEPT ![t] = "take" ]
  <2> DEFINE n == Len(stacked)
  <2>1. n \in DOMAIN stacked /\ acquired[t] = stacked[n]  BY <1>1, <1>2, WhatIsAllocated
  <2>2. /\ \A u \in Users : Pushing(u)' <=> Pushing(u)
        /\ \A u \in Users : Popping(u)' <=> Popping(u) \/ u = t
    BY <1>1, <1>2 DEF Pushing, Popping
  <2>3. /\ \A k : k \in DOMAIN stacked' <=> k \in DOMAIN stacked /\ k # n
        /\ \A k \in DOMAIN stacked' : stacked'[k] = stacked[k]
    BY <1>1, <1>2, <2>1
  <2> HIDE DEF n
  <2>4. Slot("stack", 1, n) /\ ~Slot("pop", t, 1)  BY <1>1, <2>1 DEF Slot
  <2>5. \A c, u, k : Slot(c, u, k)' <=>
           \/ Slot(c, u, k) /\ ~(c = "stack" /\ u = 1 /\ k = n)
           \/ c = "pop" /\ u = t /\ k = 1
    BY <1>1, <2>2, <2>3 DEF Slot
  <2>6. \A c, u, k : Slot(c, u, k) /\ ~(c = "stack" /\ u = 1 /\ k = n) => Has(c, u, k)' = Has(c, u, k)
    BY <1>1, <2>3 DEF Slot, Has
  <2>7. Has("pop", t, 1)' = Has("stack", 1, n)  BY <1>1, <2>1 DEF Has
  <2>8. \A a \in Addresses : Allocated(a)' <=> Allocated(a)  BY <1>1 DEF Allocated
  <2> QED  BY <1>0, <2>4, <2>5, <2>6, <2>7, <2>8, SlotMoves
<1>3. CASE stacked' = stacked /\ phase' = [ phase EXCEPT ![t] = "load" ]
  <2>1. HandsSame(t)  BY <1>1, <1>3 DEF HandsSame, Pushing, Popping, Allocated
  <2> QED  BY <2>1, SlotsStay DEF ThreadStep
<1> QED  BY <1>2, <1>3 DEF PopNode, GoTo

(* A node that is put by goes from the pop to its list.                    *)
LEMMA PutByOwns ==
  ASSUME StackInv, NEW t \in Users, Retire(t), PutBy(t)
  PROVE  Apart' /\ Covered'
<1> USE DEF nodes, hazards, stack_calls, stack_own, scan_vars, whole
<1>0. Apart /\ Covered  BY OwnersAreSlots DEF StackInv
<1>n. PICK n : n = Len(retired[t]) + 1  OBVIOUS
<1>1. /\ retired \in [ Users -> Seq(Addresses) ] /\ phase \in [ Users -> Phases ]
      /\ phase[t] = "retire" /\ Popping(t)
      /\ UNCHANGED << node, fresh, acquired, stacked, deferred, stack_op >>
  BY RetireEnds DEF StackInv, StackTypes, HazardTypes, CallTypes, InCall, Popping, PutBy
<1>2. phase' = [ phase EXCEPT ![t] = "release" ]  BY DEF PutBy
<1>3. /\ \A u \in Users : Pushing(u)' <=> Pushing(u)
      /\ \A u \in Users : Popping(u)' <=> Popping(u) /\ u # t
  BY <1>1, <1>2 DEF Pushing, Popping
<1>4. /\ \A u \in Users : u # t => retired'[u] = retired[u]
      /\ retired'[t] = Append(retired[t], acquired[t])
  BY <1>1 DEF PutBy
<1>5. /\ \A k : k \in DOMAIN retired'[t] <=> k \in DOMAIN retired[t] \/ k = n
      /\ n \notin DOMAIN retired[t] /\ retired'[t][n] = acquired[t]
      /\ \A k \in DOMAIN retired[t] : retired'[t][k] = retired[t][k]
  BY <1>1, <1>4, <1>n
<1>6. Slot("pop", t, 1) /\ ~Slot("retired", t, n)  BY <1>1, <1>5 DEF Slot
<1>7. \A c, u, k : Slot(c, u, k)' <=>
         \/ Slot(c, u, k) /\ ~(c = "pop" /\ u = t /\ k = 1)
         \/ c = "retired" /\ u = t /\ k = n
  BY <1>1, <1>3, <1>4, <1>5 DEF Slot
<1>8. \A c, u, k : Slot(c, u, k) /\ ~(c = "pop" /\ u = t /\ k = 1) => Has(c, u, k)' = Has(c, u, k)
  BY <1>1, <1>4, <1>5 DEF Slot, Has
<1>9. Has("retired", t, n)' = Has("pop", t, 1)  BY <1>5 DEF Has
<1>10. \A a \in Addresses : Allocated(a)' <=> Allocated(a)  BY <1>1 DEF Allocated
<1> QED  BY <1>0, <1>6, <1>7, <1>8, <1>9, <1>10, SlotMoves

(* Or all that were put by go to the list that is looked through.          *)
LEMMA StartScanOwns ==
  ASSUME StackInv, NEW t \in Users, Retire(t), StartScan(t)
  PROVE  Apart' /\ Covered'
<1> USE DEF nodes, hazards, stack_calls, stack_own, scan_vars, whole
<1>0. Apart /\ Covered  BY OwnersAreSlots DEF StackInv
<1>n. PICK n : n = Len(retired[t]) + 1  OBVIOUS
<1>1. /\ retired \in [ Users -> Seq(Addresses) ] /\ phase \in [ Users -> Phases ]
      /\ deferred \in [ Users -> Seq(Addresses) ]
      /\ phase[t] = "retire" /\ Popping(t) /\ deferred[t] = << >>
      /\ UNCHANGED << node, fresh, acquired, stacked, stack_op >>
  BY RetireEnds DEF StackInv, StackTypes, HazardTypes, ScanTypes, CallTypes, InCall,
     Popping
<1>2. phase' = [ phase EXCEPT ![t] = "scan" ]  BY DEF StartScan
<1>3. /\ \A u \in Users : Pushing(u)' <=> Pushing(u)
      /\ \A u \in Users : Popping(u)' <=> Popping(u) /\ u # t
  BY <1>1, <1>2 DEF Pushing, Popping
<1>4. /\ \A u \in Users : u # t => retired'[u] = retired[u] /\ deferred'[u] = deferred[u]
      /\ retired'[t] = << >> /\ deferred'[t] = Append(retired[t], acquired[t])
  BY <1>1 DEF StartScan
<1>5. /\ \A k : k \in DOMAIN deferred'[t] <=> k \in DOMAIN retired[t] \/ k = n
      /\ n \notin DOMAIN retired[t] /\ deferred'[t][n] = acquired[t]
      /\ \A k \in DOMAIN retired[t] : deferred'[t][k] = retired[t][k]
      /\ \A k : k \notin DOMAIN retired'[t] /\ k \notin DOMAIN deferred[t]
  BY <1>1, <1>4, <1>n

(* The slot that the node of a slot was in before.                         *)
<1> DEFINE Mine(c, u) == c = "deferred" /\ u = t
           C(c, u, k) == IF Mine(c, u) THEN IF k = n THEN "pop" ELSE "retired" ELSE c
           K(c, u, k) == IF Mine(c, u) /\ k = n THEN 1 ELSE k
<1>6. ASSUME NEW c, NEW u, NEW k, Slot(c, u, k)'
      PROVE  Slot(C(c, u, k), u, K(c, u, k)) /\ Has(c, u, k)' = Has(C(c, u, k), u, K(c, u, k))
  <2>1. CASE Mine(c, u)  BY <1>1, <1>5, <1>6, <2>1 DEF Slot, Has
  <2>2. CASE ~Mine(c, u)  BY <1>1, <1>3, <1>4, <1>5, <1>6, <2>2 DEF Slot, Has
  <2> QED  BY <2>1, <2>2
<1>7. ASSUME NEW c1, NEW u1, NEW k1, Slot(c1, u1, k1)', NEW c2, NEW u2, NEW k2, Slot(c2, u2, k2)',
             C(c1, u1, k1) = C(c2, u2, k2), u1 = u2, K(c1, u1, k1) = K(c2, u2, k2)
      PROVE  c1 = c2 /\ k1 = k2
  <2>1. \A c, u, k : Slot(c, u, k)' /\ u = t => c # "retired" /\ c # "pop"
    BY <1>3, <1>5 DEF Slot
  <2> QED  BY <1>7, <2>1
<1>8. ASSUME NEW c, NEW u, NEW k, Slot(c, u, k)
      PROVE  \E d, i : Slot(d, u, i)' /\ Has(d, u, i)' = Has(c, u, k)
  <2>1. CASE u = t /\ c = "pop"
    <3>1. k = 1 /\ Slot("deferred", t, n)' /\ Has("deferred", t, n)' = Has("pop", t, k)
      BY <1>5, <1>8, <2>1 DEF Slot, Has
    <3> QED  BY <2>1, <3>1
  <2>2. CASE u = t /\ c = "retired"
    <3>1. Slot("deferred", t, k)' /\ Has("deferred", t, k)' = Has("retired", t, k)
      BY <1>5, <1>8, <2>2 DEF Slot, Has
    <3> QED  BY <2>2, <3>1
  <2>3. CASE ~(u = t /\ c \in {"pop", "retired"})
    <3>1. Slot(c, u, k)' /\ Has(c, u, k)' = Has(c, u, k)
      BY <1>1, <1>3, <1>4, <1>5, <1>8, <2>3 DEF Slot, Has
    <3> QED  BY <3>1
  <2> QED  BY <2>1, <2>2, <2>3
<1> HIDE DEF C, K
<1>9. Apart'
  <2> SUFFICES ASSUME NEW c1, NEW u1, NEW k1, Slot(c1, u1, k1)', NEW c2, NEW u2, NEW k2, Slot(c2, u2, k2)',
                      Has(c1, u1, k1)' = Has(c2, u2, k2)'
               PROVE  c1 = c2 /\ u1 = u2 /\ k1 = k2
    BY DEF Apart
  <2>1. C(c1, u1, k1) = C(c2, u2, k2) /\ u1 = u2 /\ K(c1, u1, k1) = K(c2, u2, k2)
    BY <1>0, <1>6 DEF Apart
  <2> QED  BY <1>7, <2>1
<1>10. Covered'
  <2>1. \A a \in Addresses : Allocated(a)' <=> Allocated(a)  BY <1>1 DEF Allocated
  <2>2. ASSUME NEW a
        PROVE  (\E c, u, k : Slot(c, u, k)' /\ Has(c, u, k)' = a) <=> (\E c, u, k : Slot(c, u, k) /\ Has(c, u, k) = a)
    BY <1>6, <1>8
  <2> QED  BY <1>0, <2>1, <2>2 DEF Covered
<1> QED  BY <1>9, <1>10

(* A node looked at is freed by its only owner, or put by again.           *)
LEMMA EjectOwns ==
  ASSUME StackInv, NEW t \in Users, Eject(t)
  PROVE  Apart' /\ Covered'
<1> USE DEF nodes, hazards, stack_calls, stack_own, scan_vars, whole
<1>0. Apart /\ Covered  BY OwnersAreSlots DEF StackInv
<1>1. /\ retired \in [ Users -> Seq(Addresses) ] /\ phase \in [ Users -> Phases ]
      /\ deferred \in [ Users -> Seq(Addresses) ] /\ node \in [ Addresses -> Nodes \cup {None} ]
      /\ phase[t] = "eject" /\ ~Popping(t) /\ ~Pushing(t)
      /\ UNCHANGED << fresh, acquired, stacked, stack_op >>
  BY DEF StackInv, StackTypes, NodeTypes, HazardTypes, ScanTypes, CallTypes, InCall,
     Popping, Pushing, Eject
<1>2. CASE deferred[t] = << >>
  <2>1. HandsSame(t)  BY <1>1, <1>2 DEF Eject, HandsSame, Pushing, Popping, Allocated, GoTo
  <2> QED  BY <2>1, SlotsStay DEF ThreadStep
<1>3. CASE deferred[t] # << >>
  <2>1. PICK x : x = deferred[t][1]  OBVIOUS
  <2>2. /\ phase' = phase /\ deferred' = [ deferred EXCEPT ![t] = Tail(@) ]
        /\ \/ FreeNodes({x}) /\ retired' = retired
           \/ retired' = [ retired EXCEPT ![t] = Append(@, x) ] /\ node' = node
    <3>1. Head(deferred[t]) = x  BY <1>1, <1>3, <2>1
    <3> QED  BY <1>3, <3>1 DEF Eject
  <2>3. /\ \A u \in Users : Pushing(u)' <=> Pushing(u)
        /\ \A u \in Users : Popping(u)' <=> Popping(u)
    BY <1>1, <2>2 DEF Pushing, Popping
  <2>4. /\ 1 \in DOMAIN deferred[t]
        /\ \A k : k \in DOMAIN deferred'[t] => k \in Nat /\ k # 0 /\ k + 1 \in DOMAIN deferred[t]
        /\ \A k \in DOMAIN deferred'[t] : deferred'[t][k] = deferred[t][k + 1]
        /\ \A k \in DOMAIN deferred[t] : k \in Nat /\ (k # 1 => k - 1 \in DOMAIN deferred'[t])
        /\ \A u \in Users : u # t => deferred'[u] = deferred[u]
    <3>1. deferred'[t] = Tail(deferred[t])  BY <1>1, <2>2
    <3> QED  BY <1>1, <1>3, <2>2, <3>1
  <2>5. Slot("deferred", t, 1) /\ Has("deferred", t, 1) = x  BY <2>1, <2>4 DEF Slot, Has
  <2>6. ASSUME NEW k, Slot("deferred", t, k)'
        PROVE  Slot("deferred", t, k + 1) /\ k \in Nat /\ k # 0
               /\ Has("deferred", t, k)' = Has("deferred", t, k + 1)
    BY <2>4, <2>6 DEF Slot, Has
  <2>7. ASSUME NEW k, Slot("deferred", t, k), k # 1
        PROVE  \E i : Slot("deferred", t, i)' /\ Has("deferred", t, i)' = Has("deferred", t, k)
    <3>1. k \in DOMAIN deferred[t]  BY <2>7 DEF Slot
    <3>2. k - 1 \in DOMAIN deferred'[t] /\ k - 1 + 1 = k  BY <2>4, <2>7, <3>1
    <3>3. deferred'[t][k - 1] = deferred[t][k]  BY <2>4, <3>2
    <3>4. Slot("deferred", t, k - 1)' /\ Has("deferred", t, k - 1)' = Has("deferred", t, k)
      BY <3>2, <3>3 DEF Slot, Has
    <3> QED  BY <3>4
  <2>a. CASE FreeNodes({x}) /\ retired' = retired
    <3> DEFINE K(c, u, k) == IF c = "deferred" /\ u = t THEN k + 1 ELSE k
    <3>1. ASSUME NEW c, NEW u, NEW k, ~(c = "deferred" /\ u = t)
          PROVE  (Slot(c, u, k)' <=> Slot(c, u, k)) /\ (Slot(c, u, k) => Has(c, u, k)' = Has(c, u, k))
      BY <1>1, <2>3, <2>4, <2>a, <3>1 DEF Slot, Has
    <3>2. ASSUME NEW c, NEW u, NEW k, Slot(c, u, k)'
          PROVE  /\ Slot(c, u, K(c, u, k)) /\ Has(c, u, k)' = Has(c, u, K(c, u, k))
                 /\ ~(c = "deferred" /\ u = t /\ K(c, u, k) = 1)
      <4>1. CASE c = "deferred" /\ u = t
        <5>1. Slot("deferred", t, k)'  BY <3>2, <4>1
        <5>2. Slot("deferred", t, k + 1) /\ k \in Nat /\ k # 0
              /\ Has("deferred", t, k)' = Has("deferred", t, k + 1)
          BY <2>6, <5>1
        <5> QED  BY <4>1, <5>2
      <4>2. CASE ~(c = "deferred" /\ u = t)  BY <3>1, <3>2, <4>2
      <4> QED  BY <4>1, <4>2
    <3>3. ASSUME NEW c, NEW u, NEW k1, NEW k2, Slot(c, u, k1)', Slot(c, u, k2)', K(c, u, k1) = K(c, u, k2)
          PROVE  k1 = k2
      <4>1. CASE c = "deferred" /\ u = t
        <5>1. Slot("deferred", t, k1)' /\ Slot("deferred", t, k2)'  BY <3>3, <4>1
        <5>2. k1 \in Nat /\ k2 \in Nat  BY <2>6, <5>1
        <5> QED  BY <3>3, <4>1, <5>2
      <4>2. CASE ~(c = "deferred" /\ u = t)  BY <3>3, <4>2
      <4> QED  BY <4>1, <4>2
    <3>4. ASSUME NEW c, NEW u, NEW k, Slot(c, u, k), Has(c, u, k) # x
          PROVE  \E i : Slot(c, u, i)' /\ Has(c, u, i)' = Has(c, u, k)
      <4>1. CASE c = "deferred" /\ u = t  BY <2>5, <2>7, <3>4, <4>1
      <4>2. CASE ~(c = "deferred" /\ u = t)  BY <3>1, <3>4, <4>2
      <4> QED  BY <4>1, <4>2
    <3> HIDE DEF K
    <3>5. Apart'
      <4> SUFFICES ASSUME NEW c1, NEW u1, NEW k1, Slot(c1, u1, k1)', NEW c2, NEW u2, NEW k2, Slot(c2, u2, k2)',
                          Has(c1, u1, k1)' = Has(c2, u2, k2)'
                   PROVE  c1 = c2 /\ u1 = u2 /\ k1 = k2
        BY DEF Apart
      <4>1. c1 = c2 /\ u1 = u2 /\ K(c1, u1, k1) = K(c2, u2, k2)  BY <1>0, <3>2 DEF Apart
      <4> QED  BY <3>3, <4>1
    <3>6. \A c, u, k : Slot(c, u, k)' => Has(c, u, k)' # x
      BY <1>0, <2>5, <3>2 DEF Apart
    <3>7. \A a \in Addresses : Allocated(a)' <=> Allocated(a) /\ a # x
      BY <1>1, <2>a DEF Allocated, FreeNodes
    <3>8. Covered'
      <4> SUFFICES ASSUME NEW a \in Addresses
                   PROVE  Allocated(a)' <=> \E c, u, k : Slot(c, u, k)' /\ Has(c, u, k)' = a
        BY DEF Covered
      <4>1. ASSUME Allocated(a)'  PROVE \E c, u, k : Slot(c, u, k)' /\ Has(c, u, k)' = a
        BY <1>0, <3>4, <3>7, <4>1 DEF Covered
      <4>2. ASSUME NEW c, NEW u, NEW k, Slot(c, u, k)', Has(c, u, k)' = a  PROVE Allocated(a)'
        BY <1>0, <3>2, <3>6, <3>7, <4>2 DEF Covered
      <4> QED  BY <4>1, <4>2
    <3> QED  BY <3>5, <3>8
  <2>b. CASE retired' = [ retired EXCEPT ![t] = Append(@, x) ] /\ node' = node
    <3>n. PICK n : n = Len(retired[t]) + 1  OBVIOUS
    <3>0. /\ \A k : k \in DOMAIN retired'[t] <=> k \in DOMAIN retired[t] \/ k = n
          /\ n \notin DOMAIN retired[t] /\ retired'[t][n] = x
          /\ \A k \in DOMAIN retired[t] : retired'[t][k] = retired[t][k]
          /\ \A u \in Users : u # t => retired'[u] = retired[u]
      <4>1. retired'[t] = Append(retired[t], x)  BY <1>1, <2>b
      <4> QED  BY <1>1, <2>b, <3>n, <4>1
    <3> DEFINE New(c, u, k) == c = "retired" /\ u = t /\ k = n
               Rest(c, u) == c = "deferred" /\ u = t
               C(c, u, k) == IF New(c, u, k) THEN "deferred" ELSE c
               K(c, u, k) == IF New(c, u, k) THEN 1 ELSE IF Rest(c, u) THEN k + 1 ELSE k
    <3>1. ASSUME NEW c, NEW u, NEW k, ~Rest(c, u), ~New(c, u, k)
          PROVE  (Slot(c, u, k)' <=> Slot(c, u, k)) /\ (Slot(c, u, k) => Has(c, u, k)' = Has(c, u, k))
      BY <1>1, <2>3, <2>4, <3>0, <3>1 DEF Slot, Has
    <3>9. Slot("retired", t, n)' /\ Has("retired", t, n)' = x  BY <3>0 DEF Slot, Has
    <3>2. ASSUME NEW c, NEW u, NEW k, Slot(c, u, k)'
          PROVE  Slot(C(c, u, k), u, K(c, u, k)) /\ Has(c, u, k)' = Has(C(c, u, k), u, K(c, u, k))
      <4>1. CASE Rest(c, u)
        <5>1. Slot("deferred", t, k)'  BY <3>2, <4>1
        <5>2. Slot("deferred", t, k + 1) /\ Has("deferred", t, k)' = Has("deferred", t, k + 1)
          BY <2>6, <5>1
        <5> QED  BY <4>1, <5>2
      <4>2. CASE New(c, u, k)  BY <2>5, <3>9, <4>2
      <4>3. CASE ~Rest(c, u) /\ ~New(c, u, k)  BY <3>1, <3>2, <4>3
      <4> QED  BY <4>1, <4>2, <4>3
    <3>3. ASSUME NEW c1, NEW k1, NEW c2, NEW k2, NEW u, Slot(c1, u, k1)', Slot(c2, u, k2)',
                 C(c1, u, k1) = C(c2, u, k2), K(c1, u, k1) = K(c2, u, k2)
          PROVE  c1 = c2 /\ k1 = k2
      <4>1. \A c, k : Slot(c, u, k)' /\ Rest(c, u) => k \in Nat /\ k # 0 /\ k + 1 # 1
        <5> SUFFICES ASSUME NEW k, Slot("deferred", t, k)'  PROVE k \in Nat /\ k # 0 /\ k + 1 # 1
          OBVIOUS
        <5>1. k \in Nat /\ k # 0  BY <2>6
        <5> QED  BY <5>1
      <4> QED  BY <3>3, <4>1
    <3>4. ASSUME NEW c, NEW u, NEW k, Slot(c, u, k)
          PROVE  \E d, i : Slot(d, u, i)' /\ Has(d, u, i)' = Has(c, u, k)
      <4>1. CASE Rest(c, u) /\ k = 1  BY <2>5, <3>9, <4>1
      <4>2. CASE Rest(c, u) /\ k # 1  BY <2>7, <3>4, <4>2
      <4>3. CASE ~Rest(c, u)
        <5>1. ~New(c, u, k)  BY <3>0, <3>4 DEF Slot
        <5> QED  BY <3>1, <3>4, <4>3, <5>1
      <4> QED  BY <4>1, <4>2, <4>3
    <3> HIDE DEF C, K
    <3>5. Apart'
      <4> SUFFICES ASSUME NEW c1, NEW u1, NEW k1, Slot(c1, u1, k1)', NEW c2, NEW u2, NEW k2, Slot(c2, u2, k2)',
                          Has(c1, u1, k1)' = Has(c2, u2, k2)'
                   PROVE  c1 = c2 /\ u1 = u2 /\ k1 = k2
        BY DEF Apart
      <4>1. C(c1, u1, k1) = C(c2, u2, k2) /\ u1 = u2 /\ K(c1, u1, k1) = K(c2, u2, k2)
        BY <1>0, <3>2 DEF Apart
      <4> QED  BY <3>3, <4>1
    <3>6. \A a \in Addresses : Allocated(a)' <=> Allocated(a)  BY <2>b DEF Allocated
    <3>7. ASSUME NEW a
          PROVE (\E c, u, k : Slot(c, u, k)' /\ Has(c, u, k)' = a) <=> (\E c, u, k : Slot(c, u, k) /\ Has(c, u, k) = a)
      BY <3>2, <3>4
    <3> QED  BY <1>0, <3>5, <3>6, <3>7 DEF Covered
  <2> QED  BY <2>2, <2>a, <2>b
<1> QED  BY <1>2, <1>3

(* The destructors free what nobody else has.                              *)
LEMMA DestroyOwns ==
  ASSUME StackInv, DestroyNode \/ DestroyStack \/ DestroyInstance \/ UNCHANGED stack_vars
  PROVE  Apart' /\ Covered'
<1> USE DEF nodes, hazards, stack_calls, stack_own, scan_vars, whole
<1>0. Apart /\ Covered  BY OwnersAreSlots DEF StackInv
<1>1. /\ stacked \in Seq(Addresses) /\ node \in [ Addresses -> Nodes \cup {None} ]
      /\ retired \in [ Users -> Seq(Addresses) ]
  BY DEF StackInv, StackTypes, NodeTypes, HazardTypes
<1>2. UNCHANGED << fresh, acquired, deferred, stack_op, phase >>
  BY DEF DestroyNode, DestroyStack, DestroyInstance, stack_vars
<1>3. \A u \in Users : (Pushing(u)' <=> Pushing(u)) /\ (Popping(u)' <=> Popping(u))
  BY <1>2 DEF Pushing, Popping
<1>4. CASE UNCHANGED << node, stacked, retired >>
  <2>1. \A c, u, k : (Slot(c, u, k)' <=> Slot(c, u, k)) /\ (Slot(c, u, k) => Has(c, u, k)' = Has(c, u, k))
    BY <1>2, <1>3, <1>4 DEF Slot, Has
  <2>2. \A a \in Addresses : Allocated(a)' <=> Allocated(a)  BY <1>4 DEF Allocated
  <2>3. Apart'  BY <1>0, <2>1 DEF Apart
  <2>4. Covered'  BY <1>0, <2>1, <2>2 DEF Covered
  <2> QED  BY <2>3, <2>4
<1>5. CASE DestroyNode
  <2>0. PICK n : n = Len(stacked)  OBVIOUS
  <2>x. PICK x : x = head  OBVIOUS
  <2>1. n \in DOMAIN stacked /\ x = stacked[n]
    BY <1>5, <2>0, <2>x, WhatIsAllocated DEF DestroyNode
  <2>2. stacked' = SubSeq(stacked, 1, n - 1) /\ retired' = retired /\ FreeNodes({x})
    BY <1>5, <2>0, <2>x DEF DestroyNode
  <2>3. /\ \A k : k \in DOMAIN stacked' <=> k \in DOMAIN stacked /\ k # n
        /\ \A k \in DOMAIN stacked' : stacked'[k] = stacked[k]
    BY <1>1, <2>0, <2>1, <2>2
  <2>4. \A c, u, k : Slot(c, u, k)' <=> Slot(c, u, k) /\ ~(c = "stack" /\ u = 1 /\ k = n)
    BY <1>2, <1>3, <2>2, <2>3 DEF Slot
  <2>5. ASSUME NEW c, NEW u, NEW k, Slot(c, u, k)'  PROVE Has(c, u, k)' = Has(c, u, k)
    <3>1. c = "stack" => k \in DOMAIN stacked'  BY <2>5 DEF Slot
    <3>2. c = "stack" => stacked'[k] = stacked[k]  BY <2>3, <3>1
    <3>3. UNCHANGED << fresh, acquired, retired, deferred >>  BY <1>2, <2>2
    <3> QED  BY <3>2, <3>3 DEF Has
  <2>6. Slot("stack", 1, n) /\ Has("stack", 1, n) = x  BY <2>1 DEF Slot, Has
  <2>7. \A a \in Addresses : Allocated(a)' <=> Allocated(a) /\ a # x
    BY <1>1, <2>2 DEF Allocated, FreeNodes
  <2>8. Apart'  BY <1>0, <2>4, <2>5 DEF Apart
  <2>9. \A c, u, k : Slot(c, u, k)' <=> Slot(c, u, k) /\ Has(c, u, k) # x
    BY <1>0, <2>4, <2>6 DEF Apart
  <2>10. Covered'  BY <1>0, <2>5, <2>7, <2>9 DEF Covered
  <2> QED  BY <2>8, <2>10
<1>6. CASE DestroyInstance
  <2> DEFINE A == UNION { { retired[t][k] : k \in DOMAIN retired[t] } : t \in Users }
  <2>1. stacked' = stacked /\ retired' = [ t \in Users |-> << >> ] /\ FreeNodes(A)
    BY <1>6 DEF DestroyInstance
  <2>2. \A a : a \in A <=> \E u, k : Slot("retired", u, k) /\ Has("retired", u, k) = a
    BY DEF Slot, Has
  <2> HIDE DEF A
  <2>3. \A c, u, k : Slot(c, u, k)' <=> Slot(c, u, k) /\ c # "retired"
    BY <1>2, <1>3, <2>1 DEF Slot
  <2>4. \A c, u, k : Slot(c, u, k)' => Has(c, u, k)' = Has(c, u, k)
    BY <1>2, <2>1, <2>3 DEF Slot, Has
  <2>5. \A a \in Addresses : Allocated(a)' <=> Allocated(a) /\ a \notin A
    BY <1>1, <2>1 DEF Allocated, FreeNodes
  <2>6. Apart'  BY <1>0, <2>3, <2>4 DEF Apart
  <2>7. \A c, u, k : Slot(c, u, k) => (c = "retired" <=> Has(c, u, k) \in A)
    BY <1>0, <2>2 DEF Apart
  <2>8. Covered'
    <3> SUFFICES ASSUME NEW a \in Addresses
                 PROVE  Allocated(a)' <=> \E c, u, k : Slot(c, u, k)' /\ Has(c, u, k)' = a
      BY DEF Covered
    <3>1. ASSUME Allocated(a)'  PROVE \E c, u, k : Slot(c, u, k)' /\ Has(c, u, k)' = a
      BY <1>0, <2>3, <2>4, <2>5, <2>7, <3>1 DEF Covered
    <3>2. ASSUME NEW c, NEW u, NEW k, Slot(c, u, k)', Has(c, u, k)' = a  PROVE Allocated(a)'
      BY <1>0, <2>3, <2>4, <2>5, <2>7, <3>2 DEF Covered
    <3> QED  BY <3>1, <3>2
  <2> QED  BY <2>6, <2>8
<1> QED  BY <1>4, <1>5, <1>6 DEF DestroyStack, stack_vars

(* So every step leaves every node one owner.                              *)
LEMMA OwnersStay ==
  ASSUME StackInv, StackTypes', [HSNext]_stack_vars
  PROVE  OneOwner'
<1>1. ASSUME NEW t \in Users, ThreadStep(t)  PROVE Apart' /\ Covered'
  <2>1. CASE Retire(t)  BY <2>1, RetireEnds, PutByOwns, StartScanOwns
  <2>2. CASE \/ BeginPop(t) \/ BeginSize(t) \/ Load(t) \/ AnnounceHead(t) \/ Reload(t)
             \/ Link(t) \/ ReadNext(t) \/ Take(t) \/ ReturnEmpty(t) \/ ReadLength(t)
             \/ Scan(t) \/ Release(t)
    BY <1>1, <2>2, MostSame, SlotsStay
  <2> QED
    BY <1>1, <2>1, <2>2, BeginPushOwns, PushNodeOwns, PopNodeOwns, EjectOwns DEF
       ThreadStep
<1>2. Apart' /\ Covered'  BY <1>1, DestroyOwns DEF HSNext, ThreadStep, Over
<1>3. OneOwner <=> Apart /\ Covered  BY OwnersAreSlots
<1> QED  BY <1>2, <1>3, OwnersAreSlots, PTL

(* The list stays the one that has been pushed: a compare-and-swap that    *)
(* succeeds has the top node's successor, or a node that is its own.       *)
LEMMA ListStays ==
  ASSUME StackInv, StackTypes', [HSNext]_stack_vars
  PROVE  Linked'
<1> USE DEF nodes, hazards, stack_calls, stack_own, scan_vars, whole
<1>0. /\ Linked /\ Apart /\ Covered
      /\ stacked \in Seq(Addresses) /\ node \in [ Addresses -> Nodes \cup {None} ]
      /\ \A k \in DOMAIN stacked : Slot("stack", 1, k) /\ Has("stack", 1, k) = stacked[k]
  BY OwnersAreSlots DEF StackInv, StackTypes, NodeTypes, Slot, Has

(* The nodes of the list are not written to.                               *)
<1>1. ASSUME stacked' = stacked, head' = head,
             \A k \in DOMAIN stacked : node'[stacked[k]] = node[stacked[k]]
      PROVE  Linked'
  BY <1>0, <1>1 DEF Linked, Below
<1>2. ASSUME NEW t \in Users, Pushing(t), \A a \in Addresses : a # fresh[t] => node'[a] = node[a]
      PROVE  \A k \in DOMAIN stacked : node'[stacked[k]] = node[stacked[k]]
  <2> TAKE k \in DOMAIN stacked
  <2>1. Slot("push", t, 1) /\ Has("push", t, 1) = fresh[t]  BY <1>2 DEF Slot, Has
  <2>2. stacked[k] # fresh[t]  BY <1>0, <2>1 DEF Apart
  <2> QED  BY <1>0, <1>2, <2>2
<1>3. ASSUME NEW t \in Users, BeginPush(t)  PROVE Linked'
  <2>1. PICK v \in Elements, a \in Addresses :
          /\ ~Allocated(a) /\ node' = [ node EXCEPT ![a] = Node(v, None, 1) ]
          /\ UNCHANGED << head, stacked >>
    BY <1>3 DEF BeginPush
  <2>2. \A k \in DOMAIN stacked : stacked[k] # a  BY <1>0, <2>1 DEF Covered
  <2> QED  BY <1>0, <1>1, <2>1, <2>2
<1>4. ASSUME NEW t \in Users, Link(t)  PROVE Linked'
  <2>1. Pushing(t) /\ \A a \in Addresses : a # fresh[t] => node'[a] = node[a]
    BY <1>4, LinkWrites, PushWrites
  <2> QED  BY <1>1, <1>2, <1>4, <2>1 DEF Link
<1>5. ASSUME NEW t \in Users, PushNode(t)  PROVE Linked'
  <2>0. /\ Pushing(t) /\ phase[t] = "push" /\ head \in MaybeAddress
        /\ fresh[t] \in Addresses /\ node[fresh[t]] \in Nodes
    BY <1>5, WhatIsAllocated DEF PushNode, StackInv, StackTypes, NodeTypes, InCall,
       Pushing
  <2>1. CASE /\ head = acquired[t] /\ head' = fresh[t] /\ node' = node
             /\ stacked' = Append(stacked, fresh[t])
    <3>n. PICK n \in Nat : n = Len(stacked) + 1  BY <1>0
    <3>1. /\ Len(stacked') = n /\ DOMAIN stacked' = 1..n /\ stacked'[n] = fresh[t]
          /\ \A k \in 1..(n - 1) : stacked'[k] = stacked[k] /\ k \in DOMAIN stacked
      BY <1>0, <2>0, <2>1, <3>n
    <3>2. /\ node[fresh[t]].next = head /\ node[fresh[t]].length = Height(head) + 1
      BY <2>0, <2>1 DEF StackInv, Prepared
    <3>3. head = (IF n = 1 THEN None ELSE stacked[n - 1]) /\ Height(head) = n - 1
      <4>1. CASE Len(stacked) = 0  BY <3>n, <4>1, WhatIsAllocated DEF Height
      <4>2. CASE Len(stacked) # 0
        <5>1. head = stacked[n - 1] /\ n - 1 \in DOMAIN stacked /\ head # None /\ n # 1
          BY <1>0, <3>n, <4>2, WhatIsAllocated
        <5>2. node[stacked[n - 1]].length = n - 1  BY <1>0, <5>1 DEF Linked
        <5> QED  BY <5>1, <5>2 DEF Height
      <4> QED  BY <4>1, <4>2
    <3>4. head' = stacked'[n]  BY <2>1, <3>1
    <3>5. ASSUME NEW k \in 1..n
          PROVE  /\ node'[stacked'[k]].next = IF k = 1 THEN None ELSE stacked'[k - 1]
                 /\ node'[stacked'[k]].length = k
      <4>1. CASE k = n
        <5>1. n # 1 => stacked'[n - 1] = stacked[n - 1]  BY <3>1
        <5> QED  BY <2>1, <3>1, <3>2, <3>3, <4>1, <5>1
      <4>2. CASE k # n
        <5>1. k \in 1..(n - 1) /\ (k # 1 => k - 1 \in 1..(n - 1))  BY <4>2
        <5>2. /\ node[stacked[k]].next = IF k = 1 THEN None ELSE stacked[k - 1]
              /\ node[stacked[k]].length = k
          BY <1>0, <3>1, <5>1 DEF Linked, Below
        <5> QED  BY <2>1, <3>1, <5>1, <5>2
      <4> QED  BY <4>1, <4>2
    <3>6. n + 1 # 1 /\ n + 1 - 1 = n  BY <3>n, <1>0
    <3> QED  BY <3>1, <3>4, <3>5, <3>6 DEF Linked, Below
  <2>2. CASE /\ node' = [ node EXCEPT ![fresh[t]] = Node(@.t, head, @.length) ]
             /\ UNCHANGED << head, stacked >>
    <3>1. \A a \in Addresses : a # fresh[t] => node'[a] = node[a]  BY <1>0, <2>2
    <3> QED  BY <1>1, <1>2, <2>0, <2>2, <3>1
  <2> QED  BY <1>5, <2>1, <2>2 DEF PushNode

(* The top node is taken off.                                              *)
<1>6. ASSUME head # None, head' = node[head].next, stacked' = SubSeq(stacked, 1, Len(stacked) - 1),
             \A a \in Addresses : a # head => node'[a] = node[a]
      PROVE  Linked'
  <2>n. PICK n \in Nat : n = Len(stacked)  BY <1>0
  <2>1. n # 0 /\ n \in DOMAIN stacked /\ head = stacked[n] /\ DOMAIN stacked = 1..n
    BY <1>0, <1>6, <2>n, WhatIsAllocated
  <2>2. /\ Len(stacked') = n - 1 /\ DOMAIN stacked' = 1..(n - 1)
        /\ \A k \in 1..(n - 1) : stacked'[k] = stacked[k]
    BY <1>0, <1>6, <2>n, <2>1
  <2>3. \A k \in 1..(n - 1) : node'[stacked[k]] = node[stacked[k]]
    <3> TAKE k \in 1..(n - 1)
    <3>1. k \in DOMAIN stacked /\ k # n  BY <2>1
    <3>2. stacked[k] # stacked[n]  BY <1>0, <2>1, <3>1 DEF Apart
    <3> QED  BY <1>0, <1>6, <2>1, <3>1, <3>2
  <2>4. head' = IF n = 1 THEN None ELSE stacked[n - 1]
    BY <1>0, <1>6, <2>1 DEF Linked, Below
  <2>5. head' = IF Len(stacked') + 1 = 1 THEN None ELSE stacked'[Len(stacked')]
    BY <2>1, <2>2, <2>4
  <2>6. ASSUME NEW k \in 1..(n - 1)
        PROVE  /\ node'[stacked'[k]].next = IF k = 1 THEN None ELSE stacked'[k - 1]
               /\ node'[stacked'[k]].length = k
    <3>1. /\ node[stacked[k]].next = IF k = 1 THEN None ELSE stacked[k - 1]
          /\ node[stacked[k]].length = k
      BY <1>0, <2>1 DEF Linked, Below
    <3>2. k # 1 => k - 1 \in 1..(n - 1)  OBVIOUS
    <3> QED  BY <2>2, <2>3, <3>1, <3>2
  <2> QED  BY <2>2, <2>5, <2>6 DEF Linked, Below
<1>7. ASSUME NEW t \in Users, PopNode(t)  PROVE Linked'
  <2>1. CASE /\ head = acquired[t] /\ head' = successor[t]
             /\ stacked' = SubSeq(stacked, 1, Len(stacked) - 1)
    <3>1. phase[t] = "pop" /\ node' = node  BY <1>7 DEF PopNode
    <3>2. acquired[t] # None /\ successor[t] = node[acquired[t]].next
      BY <3>1 DEF StackInv, InCall, Prepared
    <3> QED  BY <1>6, <2>1, <3>1, <3>2
  <2>2. CASE UNCHANGED << head, stacked >>  BY <1>1, <1>7, <2>2 DEF PopNode
  <2> QED  BY <1>7, <2>1, <2>2 DEF PopNode
<1>8. ASSUME NEW t \in Users, Eject(t)  PROVE Linked'
  <2>1. UNCHANGED << head, stacked >>  BY <1>8 DEF Eject
  <2>2. CASE node' = node  BY <1>1, <2>1, <2>2
  <2>3. CASE /\ deferred[t] # << >> /\ FreeNodes({Head(deferred[t])})
    <3>1. PICK x : x = deferred[t][1]  OBVIOUS
    <3>2. Slot("deferred", t, 1) /\ Has("deferred", t, 1) = x /\ x = Head(deferred[t])
      BY <2>3, <3>1 DEF Slot, Has, StackInv, StackTypes, ScanTypes
    <3>3. \A k \in DOMAIN stacked : stacked[k] # x  BY <1>0, <3>2 DEF Apart
    <3>4. FreeNodes({x})  BY <2>3, <3>2
    <3>5. \A k \in DOMAIN stacked : node'[stacked[k]] = node[stacked[k]]
      BY <1>0, <3>3, <3>4 DEF FreeNodes
    <3> QED  BY <1>1, <2>1, <3>5
  <2> QED  BY <1>8, <2>2, <2>3 DEF Eject
<1>9. ASSUME DestroyNode  PROVE Linked'
  <2>1. \A a \in Addresses : a # head => node'[a] = node[a]
    BY <1>9 DEF DestroyNode, FreeNodes
  <2> QED  BY <1>6, <1>9, <2>1 DEF DestroyNode
<1>10. ASSUME DestroyInstance  PROVE Linked'
  <2>1. stacked = << >> /\ UNCHANGED << head, stacked >>
    BY <1>10 DEF StackInv, InCall, DestroyInstance
  <2> QED  BY <1>1, <2>1
<1>11. ASSUME NEW t \in Users,
              \/ BeginPop(t) \/ BeginSize(t) \/ Load(t) \/ AnnounceHead(t) \/ Reload(t)
              \/ ReadNext(t) \/ Take(t) \/ ReturnEmpty(t) \/ Retire(t) \/ ReadLength(t)
              \/ Scan(t) \/ Release(t)
       PROVE  Linked'
  <2>1. UNCHANGED << node, head, stacked >>
    BY <1>11 DEF BeginPop, BeginSize, Load, AnnounceHead, Reload, ReadNext, Take,
       ReturnEmpty, Retire,
                 ReadLength, Scan, Release
  <2> QED  BY <1>1, <2>1
<1>12. ASSUME DestroyStack \/ UNCHANGED stack_vars  PROVE Linked'
  BY <1>1, <1>12 DEF DestroyStack, stack_vars
<1> QED  BY <1>3, <1>4, <1>5, <1>7, <1>8, <1>9, <1>10, <1>11, <1>12 DEF HSNext, Over

(* Only the end of retire frees, and only push makes nodes.                *)
LEMMA NoneFreed ==
  ASSUME StackInv, NEW t \in Users, ThreadStep(t), ~Eject(t)
  PROVE  \A a \in Addresses : Allocated(a) => Allocated(a)'
<1> USE DEF nodes
<1>0. node \in [ Addresses -> Nodes \cup {None} ] /\ head \in MaybeAddress
  BY DEF StackInv, StackTypes, NodeTypes
<1>1. CASE BeginPush(t)
  <2>1. PICK v \in Elements, b \in Addresses :
          ~Allocated(b) /\ node' = [ node EXCEPT ![b] = Node(v, None, 1) ]
    BY <1>1 DEF BeginPush
  <2> QED  BY <1>0, <2>1 DEF Allocated
<1>2. CASE Link(t)  BY <1>2, LinkWrites, PushWrites
<1>3. CASE PushNode(t)
  <2>1. Pushing(t) /\ node[fresh[t]] \in Nodes
    BY <1>3, WhatIsAllocated DEF PushNode, StackInv, InCall, Pushing
  <2>2. CASE node' = node  BY <2>2 DEF Allocated
  <2>3. CASE node' = [ node EXCEPT ![fresh[t]] = Node(@.t, head, @.length) ]
    <3> DEFINE l == node[fresh[t]].length
    <3>1. l \in Nat  BY <2>1 DEF Nodes
    <3>2. node' = [ node EXCEPT ![fresh[t]] = Node(@.t, head, l) ]  BY <2>3
    <3> HIDE DEF l
    <3> QED  BY <1>0, <2>1, <3>1, <3>2, PushWrites
  <2> QED  BY <1>3, <2>2, <2>3 DEF PushNode
<1>4. CASE ~(BeginPush(t) \/ Link(t) \/ PushNode(t))
  <2>1. node' = node
    BY <1>4 DEF ThreadStep, BeginPop, BeginSize, Load, AnnounceHead, Reload, ReadNext,
       PopNode, Take,
                ReturnEmpty, Retire, ReadLength, Scan, Release
  <2> QED  BY <2>1 DEF Allocated
<1> QED  BY <1>1, <1>2, <1>3, <1>4

(* What a scan has seen of a thread's slot, or will see.                   *)
Seen(u, t) ==
  \A k \in DOMAIN deferred[u] :
    deferred[u][k] = acquired[t] /\ Passed(u, t) => announced[u][acquired[t]] # 0

(* A thread whose slot and node stay, while another's scan goes on.        *)
LEMMA ScanSees ==
  ASSUME StackInv, NEW t \in Users, NEW s \in Users, s # t, ThreadStep(s), Reading(t)
  PROVE  Seen(s, t)'
<1> USE DEF nodes, hazards, stack_calls, stack_own, scan_vars, whole
<1>0. /\ Apart /\ InCall /\ Seen(s, t) /\ announcements[t] = acquired[t] /\ acquired[t] \in Addresses
      /\ phase \in [ Users -> Phases ] /\ deferred \in [ Users -> Seq(Addresses) ]
      /\ announced \in [ Users -> [ Addresses -> Nat ] ] /\ scanned \in [ Users -> Nat \ {0} ]
      /\ announcements \in [ Users -> MaybeAddress ]
  BY OwnersAreSlots, WhatIsAllocated
     DEF StackInv, StackTypes, HazardTypes, CallTypes, ScanTypes, Guarded, Seen
<1>1. acquired'[t] = acquired[t]  BY OthersStay
<1>2. CASE Scan(s)
  <2>1. /\ phase[s] = "scan" /\ scanned[s] \in Users /\ deferred' = deferred
        /\ scanned'[s] = scanned[s] + 1
        /\ phase'[s] = "eject" => scanned[s] = num_users
    BY <1>0, <1>2 DEF Scan, InCall, GoTo
  <2> DEFINE x == announcements[scanned[s]]
  <2>2. announced'[s] = IF x = None THEN announced[s] ELSE [ announced[s] EXCEPT ![x] = @ + 1 ]
    BY <1>0, <1>2 DEF Scan
  <2>3. x \in MaybeAddress  BY <1>0, <2>1
  <2>4. \A a \in Addresses : announced[s][a] \in Nat /\ (announced[s][a] # 0 => announced'[s][a] # 0)
    <3>1. announced[s] \in [ Addresses -> Nat ]  BY <1>0
    <3> HIDE DEF x
    <3> QED  BY <2>2, <2>3, <3>1 DEF MaybeAddress
  <2>5. scanned[s] = t => announced'[s][acquired[t]] # 0
    <3>1. announced[s] \in [ Addresses -> Nat ]  BY <1>0
    <3>2. None \notin Addresses  BY HazptrStackAssumption
    <3> QED  BY <1>0, <2>2, <3>1, <3>2
  <2>6. Passed(s, t)' => Passed(s, t) \/ scanned[s] = t
    BY <2>1 DEF Passed, Users
  <2> QED  BY <1>0, <1>1, <2>1, <2>4, <2>5, <2>6 DEF Seen
<1>3. CASE Retire(s)
  <2>1. CASE PutBy(s)
    <3>1. phase'[s] = "release"  BY <1>0, <2>1 DEF PutBy
    <3> QED  BY <3>1 DEF Seen, Passed
  <2>2. CASE StartScan(s)
    <3>1. phase'[s] = "scan" /\ scanned'[s] = 1  BY <1>0, <2>2 DEF StartScan
    <3>2. ~(1 > t)  BY DEF Users
    <3> QED  BY <3>1, <3>2 DEF Seen, Passed
  <2> QED  BY <1>3, <2>1, <2>2, RetireEnds
<1>4. CASE Eject(s)
  <2>1. CASE deferred[s] = << >>
    <3>1. deferred' = deferred  BY <1>4, <2>1 DEF Eject
    <3> QED  BY <2>1, <3>1 DEF Seen
  <2>2. CASE deferred[s] # << >>
    <3>1. PICK x : x = deferred[s][1]  OBVIOUS
    <3>2. /\ phase[s] = "eject" /\ phase'[s] = "eject" /\ deferred'[s] = Tail(deferred[s])
          /\ Head(deferred[s]) = x /\ x \in Addresses
      BY <1>0, <1>4, <2>2, <3>1 DEF Eject
    <3>3. /\ 1 \in DOMAIN deferred[s]
          /\ \A k \in DOMAIN deferred'[s] : /\ k + 1 \in DOMAIN deferred[s] /\ k + 1 # 1
                                            /\ deferred'[s][k] = deferred[s][k + 1]
      <4>1. deferred[s] \in Seq(Addresses) /\ Len(deferred[s]) \in Nat \ {0}
        BY <1>0, <2>2
      <4>2. DOMAIN deferred'[s] = 1..(Len(deferred[s]) - 1)  BY <2>2, <3>2, <4>1
      <4>3. \A k \in 1..(Len(deferred[s]) - 1) : deferred'[s][k] = deferred[s][k + 1]
        BY <2>2, <3>2, <4>1
      <4> QED  BY <4>1, <4>2, <4>3
    <3>4. announced' = announced \/ announced' = [ announced EXCEPT ![s][x] = @ - 1 ]
      BY <1>4, <2>2, <3>2 DEF Eject
    <3>5. \A a \in Addresses : a # x => announced'[s][a] = announced[s][a]
      BY <1>0, <3>2, <3>4
    <3>6. ASSUME NEW k \in DOMAIN deferred'[s], deferred'[s][k] = acquired[t]
          PROVE  announced'[s][acquired[t]] # 0
      <4>1. deferred[s][k + 1] = acquired[t] /\ k + 1 \in DOMAIN deferred[s] /\ k + 1 # 1
        BY <3>3, <3>6
      <4>2. announced[s][acquired[t]] # 0  BY <1>0, <3>2, <4>1 DEF Seen, Passed
      <4>3. Slot("deferred", s, 1) /\ Slot("deferred", s, k + 1)  BY <3>3, <4>1 DEF Slot
      <4>4. Has("deferred", s, 1) = x /\ Has("deferred", s, k + 1) = acquired[t]
        BY <3>1, <4>1 DEF Has
      <4>5. acquired[t] # x  BY <1>0, <4>1, <4>3, <4>4 DEF Apart
      <4> QED  BY <1>0, <3>5, <4>2, <4>5
    <3> QED  BY <1>1, <3>6 DEF Seen
  <2> QED  BY <2>1, <2>2
<1>5. CASE ~(Scan(s) \/ Retire(s) \/ Eject(s))
  <2>1. UNCHANGED scan_vars
    BY <1>5 DEF ThreadStep, BeginPush, BeginPop, BeginSize, Load, AnnounceHead, Reload,
       Link, PushNode,
                ReadNext, PopNode, Take, ReturnEmpty, ReadLength, Release
  <2>2. phase'[s] \notin {"scan", "eject"}
    BY <1>0, <1>5 DEF ThreadStep, BeginPush, BeginPop, BeginSize, Load, AnnounceHead,
       Reload, Link, PushNode,
                ReadNext, PopNode, Take, ReturnEmpty, ReadLength, Release, GoTo, Enter, Acquired
  <2> QED  BY <2>2 DEF Seen, Passed
<1> QED  BY <1>2, <1>3, <1>4, <1>5

(* A node that a thread reads stays announced and allocated, nobody is     *)
(* about to push it, and no scan that has passed the thread's slot has     *)
(* missed it.                                                              *)
LEMMA GuardStays ==
  ASSUME StackInv, InCall', [HSNext]_stack_vars
  PROVE  Guarded'
<1> USE DEF nodes, hazards, stack_calls, stack_own, scan_vars, whole
<1>0. /\ Guarded /\ InCall /\ InCall' /\ Apart /\ Covered
      /\ phase \in [ Users -> Phases ] /\ acquired \in [ Users -> MaybeAddress ]
      /\ announcements \in [ Users -> MaybeAddress ] /\ fresh \in [ Users -> MaybeAddress ]
      /\ None \notin Addresses
  BY OwnersAreSlots, HazptrStackAssumption DEF StackInv, StackTypes, HazardTypes,
     CallTypes, OwnTypes
<1> DEFINE Items(t) == Reading(t) =>
      /\ announcements[t] = acquired[t]
      /\ Allocated(acquired[t])
      /\ \A u \in Users : Pushing(u) => fresh[u] # acquired[t]
      /\ \A u \in Users : Seen(u, t)
<1>1. \A t \in Users : Items(t)  BY <1>0 DEF Guarded, Seen

(* The thread that steps is not the one that reads.                        *)
<1>2. ASSUME NEW s \in Users, ThreadStep(s), NEW t \in Users, t # s, Reading(t)'
      PROVE  /\ announcements'[t] = acquired'[t]
             /\ Allocated(acquired[t])'
             /\ \A u \in Users : Pushing(u)' => fresh'[u] # acquired'[t]
             /\ \A u \in Users : Seen(u, t)'
  <2>1. /\ Reading(t) /\ acquired'[t] = acquired[t] /\ announcements'[t] = announcements[t]
        /\ acquired[t] \in Addresses
    BY <1>0, <1>2, OthersStay, WhatIsAllocated DEF Reading
  <2>2. Items(t)  BY <1>1
  <2>3. ASSUME NEW u \in Users, u # s  PROVE Seen(u, t)'
    <3>1. /\ deferred'[u] = deferred[u] /\ announced'[u] = announced[u] /\ scanned'[u] = scanned[u]
          /\ phase'[u] = phase[u]
      BY <1>2, <2>3, OthersStay
    <3> QED  BY <2>1, <2>2, <3>1 DEF Seen, Passed
  <2>4. Seen(s, t)'  BY <1>2, <2>1, ScanSees
  <2>5. ASSUME NEW u \in Users, Pushing(u)'  PROVE fresh'[u] # acquired[t]
    <3>1. CASE u # s
      <4>1. Pushing(u) /\ fresh'[u] = fresh[u]
        BY <1>2, <2>5, <3>1, OthersStay DEF Pushing
      <4> QED  BY <2>1, <2>2, <4>1
    <3>2. CASE u = s /\ BeginPush(s)
      <4>1. PICK a \in Addresses : ~Allocated(a) /\ fresh' = [ fresh EXCEPT ![s] = a ]
        BY <3>2 DEF BeginPush
      <4> QED  BY <1>0, <2>1, <2>2, <3>2, <4>1
    <3>3. CASE u = s /\ ~BeginPush(s)
      <4>1. fresh' = fresh
        BY <1>2, <3>3 DEF ThreadStep, BeginPop, BeginSize, Load, AnnounceHead, Reload,
           Link, PushNode,
              ReadNext, PopNode, Take, ReturnEmpty, Retire, ReadLength, Scan, Eject, Release
      <4>2. Pushing(s)
        <5>1. phase'[s] \in {"load", "announce", "reload", "link", "push"} /\ stack_op'[s] = "push"
          BY <2>5, <3>3 DEF Pushing
        <5>2. stack_op' = stack_op \/ stack_op'[s] # "push"
          <6>1. stack_op \in [ Users -> {"none", "push", "pop", "size"} ]
            BY DEF StackInv, StackTypes, CallTypes
          <6> QED
            BY <1>2, <3>3, <6>1 DEF ThreadStep, BeginPop, BeginSize, Enter, Load,
               AnnounceHead, Reload,
                Link, PushNode, ReadNext, PopNode, Take, ReturnEmpty, Retire, ReadLength, Scan, Eject, Release
        <5>3. stack_op[s] = "push"  BY <5>1, <5>2
        <5>4. CASE Retire(s)  BY <1>0, <5>3, <5>4 DEF Retire, InCall
        <5>5. CASE Take(s) \/ ReturnEmpty(s) \/ Scan(s) \/ Eject(s) \/ PopNode(s) \/ ReadNext(s)
          BY <1>0, <5>3, <5>5 DEF Take, ReturnEmpty, Scan, Eject, PopNode, ReadNext,
             InCall
        <5>6. CASE ReadLength(s) \/ Release(s)
          BY <1>0, <5>1, <5>6 DEF ReadLength, Release, GoTo
        <5>7. CASE BeginPop(s) \/ BeginSize(s)
          <6>1. stack_op \in [ Users -> {"none", "push", "pop", "size"} ]
            BY DEF StackInv, StackTypes, CallTypes
          <6> QED  BY <5>1, <5>7, <6>1 DEF BeginPop, BeginSize, Enter
        <5>8. CASE Load(s) \/ AnnounceHead(s) \/ Reload(s) \/ Link(s) \/ PushNode(s)
          BY <5>3, <5>8 DEF Load, AnnounceHead, Reload, Link, PushNode, Pushing
        <5> QED  BY <1>2, <3>3, <5>4, <5>5, <5>6, <5>7, <5>8 DEF ThreadStep
      <4> QED  BY <2>1, <2>2, <3>3, <4>1, <4>2
    <3> QED  BY <3>1, <3>2, <3>3
  <2>6. Allocated(acquired[t])'
    <3>1. CASE ~Eject(s)
      <4>1. Allocated(acquired[t])  BY <2>1, <2>2
      <4>2. \A a \in Addresses : Allocated(a) => Allocated(a)'  BY <1>2, <3>1, NoneFreed
      <4> QED  BY <2>1, <4>1, <4>2 DEF Allocated
    <3>2. CASE Eject(s) /\ node' = node  BY <2>1, <2>2, <3>2 DEF Allocated
    <3>3. CASE Eject(s) /\ node' # node
      <4>1. PICK x : x = Head(deferred[s])  OBVIOUS
      <4>2. /\ deferred[s] # << >> /\ FreeNodes({x}) /\ announced[s][x] = 0 /\ phase[s] = "eject"
        BY <3>3, <4>1 DEF Eject
      <4>3. 1 \in DOMAIN deferred[s] /\ deferred[s][1] = x
        BY <4>1, <4>2 DEF StackInv, StackTypes, ScanTypes
      <4>4. acquired[t] # x  BY <2>1, <2>2, <4>2, <4>3 DEF Seen, Passed
      <4> QED  BY <2>1, <2>2, <4>2, <4>4 DEF FreeNodes, Allocated
    <3> QED  BY <3>1, <3>2, <3>3
  <2> QED  BY <2>1, <2>2, <2>3, <2>4, <2>5, <2>6

(* The reading thread itself: it begins to read at the second load.        *)
<1>3. ASSUME NEW t \in Users, ThreadStep(t), Reading(t)'
      PROVE  /\ announcements'[t] = acquired'[t]
             /\ Allocated(acquired[t])'
             /\ \A u \in Users : Pushing(u)' => fresh'[u] # acquired'[t]
             /\ \A u \in Users : Seen(u, t)'
  <2>1. (Reload(t) /\ head = acquired[t]) \/ Link(t) \/ ReadNext(t)
    <3>1. phase'[t] \in {"link", "push", "next", "pop", "length"}  BY <1>3 DEF Reading
    <3>2. CASE Retire(t)  BY <1>0, <3>1, <3>2, RetireEnds DEF PutBy, StartScan
    <3>3. CASE Reload(t)  BY <1>0, <3>1, <3>3 DEF Reload, GoTo
    <3> QED
      BY <1>0, <1>3, <3>1, <3>2, <3>3 DEF ThreadStep, GoTo, Enter, BeginPush, BeginPop,
         BeginSize,
               Load, AnnounceHead, PushNode, PopNode, Take, ReturnEmpty, ReadLength, Scan, Eject, Release
  <2>2. /\ UNCHANGED << announcements, acquired, fresh, stack_op, deferred, announced, scanned >>
        /\ \A u \in Users : u # t => phase'[u] = phase[u]
        /\ phase[t] \notin {"scan", "eject"} /\ phase'[t] \notin {"scan", "eject"}
    BY <1>0, <1>3, <2>1 DEF Reload, Link, ReadNext, GoTo, Reading
  <2>3. \A u \in Users : Pushing(u)' => Pushing(u)
    BY <1>0, <1>3, <2>1, <2>2 DEF Pushing, Reading, Reload, Link, ReadNext, InCall
  <2>4. acquired[t] # None /\ acquired[t] \in Addresses
    BY <1>0, <1>3, <2>2 DEF Reading, MaybeAddress
  <2>5. \A a \in Addresses : Allocated(a) => Allocated(a)'
    BY <2>1, NoneFreed DEF ThreadStep, Reload, Link, ReadNext, Eject
  <2>6. \A u \in Users : Passed(u, t)' => Passed(u, t)
    BY <2>2 DEF Passed
  <2>7. CASE Link(t) \/ ReadNext(t)
    <3>1. Reading(t)  BY <2>4, <2>7 DEF Link, ReadNext, Reading
    <3>2. Items(t)  BY <1>1
    <3> QED  BY <2>2, <2>3, <2>4, <2>5, <2>6, <3>1, <3>2 DEF Seen, Allocated
  <2>8. CASE Reload(t) /\ head = acquired[t]
    <3>1. announcements[t] = acquired[t]  BY <1>0, <2>8 DEF Reload, Guarded
    <3>2. PICK n : n \in DOMAIN stacked /\ acquired[t] = stacked[n]
      BY <2>4, <2>8, WhatIsAllocated
    <3>3. Slot("stack", 1, n) /\ Has("stack", 1, n) = acquired[t]  BY <3>2 DEF Slot, Has
    <3>4. Allocated(acquired[t])  BY <1>0, <2>4, <3>3 DEF Covered
    <3>5. ASSUME NEW u \in Users, Pushing(u)  PROVE fresh[u] # acquired[t]
      <4>1. Slot("push", u, 1) /\ Has("push", u, 1) = fresh[u]  BY <3>5 DEF Slot, Has
      <4> QED  BY <1>0, <3>3, <4>1 DEF Apart
    <3>6. ASSUME NEW u \in Users, NEW k \in DOMAIN deferred[u]  PROVE deferred[u][k] # acquired[t]
      <4>1. Slot("deferred", u, k) /\ Has("deferred", u, k) = deferred[u][k]
        BY <3>6 DEF Slot, Has
      <4> QED  BY <1>0, <3>3, <4>1 DEF Apart
    <3> QED  BY <2>2, <2>3, <2>4, <2>5, <3>1, <3>4, <3>5, <3>6 DEF Seen, Allocated
  <2> QED  BY <2>1, <2>7, <2>8
<1>4. ASSUME NEW s \in Users, ThreadStep(s), NEW t \in Users, phase'[t] = "reload"
      PROVE  announcements'[t] = acquired'[t]
  <2>1. CASE t # s
    <3>1. phase[t] = "reload" /\ announcements'[t] = announcements[t] /\ acquired'[t] = acquired[t]
      BY <1>4, <2>1, OthersStay
    <3> QED  BY <1>0, <3>1 DEF Guarded
  <2>2. CASE t = s
    <3>1. AnnounceHead(t)
      <4>1. CASE Retire(t)  BY <1>0, <1>4, <4>1, RetireEnds DEF PutBy, StartScan
      <4>2. CASE Reload(t)  BY <1>0, <1>4, <4>2 DEF Reload, GoTo, Acquired
      <4> QED
        BY <1>0, <1>4, <2>2, <4>1, <4>2 DEF ThreadStep, GoTo, Enter, BeginPush,
           BeginPop, BeginSize,
                 Load, Link, PushNode, ReadNext, PopNode, Take, ReturnEmpty, ReadLength, Scan, Eject, Release
    <3> QED  BY <1>0, <3>1 DEF AnnounceHead
  <2> QED  BY <2>1, <2>2
<1>5. ASSUME NEW s \in Users, ThreadStep(s)  PROVE Guarded'
  <2>1. \A t \in Users : Items(t)'  BY <1>2, <1>3, <1>5
  <2>2. \A t \in Users : phase'[t] = "reload" => announcements'[t] = acquired'[t]
    BY <1>4, <1>5
  <2> QED  BY <2>1, <2>2 DEF Guarded, Seen
<1>6. ASSUME DestroyNode \/ DestroyStack \/ DestroyInstance  PROVE Guarded'
  <2>1. \A t \in Users : phase'[t] = "outside"
    BY <1>0, <1>6 DEF DestroyNode, DestroyStack, DestroyInstance, Quiet, InCall
  <2> QED  BY <2>1 DEF Guarded, Reading
<1>7. ASSUME UNCHANGED stack_vars  PROVE Guarded'
  <2>1. UNCHANGED << phase, announcements, acquired, node, fresh, stack_op, deferred, announced, scanned >>
    BY <1>7 DEF stack_vars
  <2>2. \A t \in Users : (Reading(t)' <=> Reading(t)) /\ (Pushing(t)' <=> Pushing(t))
    BY <2>1 DEF Reading, Pushing
  <2>4. \A t, u \in Users : Seen(u, t) => Seen(u, t)'
    BY <2>1 DEF Seen, Passed
  <2>3. ASSUME NEW t \in Users, Reading(t)'
        PROVE  /\ announcements'[t] = acquired'[t]
               /\ Allocated(acquired[t])'
               /\ \A u \in Users : Pushing(u)' => fresh'[u] # acquired'[t]
               /\ \A u \in Users : Seen(u, t)'
    <3>1. Reading(t)  BY <2>2, <2>3
    <3>2. Items(t)  BY <1>1
    <3> QED  BY <2>1, <2>2, <2>4, <3>1, <3>2 DEF Allocated
  <2> QED  BY <1>0, <2>1, <2>3 DEF Guarded, Seen
<1> QED  BY <1>5, <1>6, <1>7 DEF HSNext, ThreadStep, Over

(* A node is written to by the push that made it alone, and its value      *)
(* never changes.                                                          *)
LEMMA NodesKept ==
  ASSUME StackInv, NEW s \in Users, ThreadStep(s),
         NEW a \in Addresses, Allocated(a), node'[a] # None
  PROVE  /\ node'[a].t = node[a].t
         /\ node'[a] # node[a] => Pushing(s) /\ a = fresh[s]
<1> USE DEF nodes
<1>0. node \in [ Addresses -> Nodes \cup {None} ] /\ head \in MaybeAddress
  BY DEF StackInv, StackTypes, NodeTypes
<1>1. CASE BeginPush(s)
  <2>1. PICK v \in Elements, b \in Addresses :
          ~Allocated(b) /\ node' = [ node EXCEPT ![b] = Node(v, None, 1) ]
    BY <1>1 DEF BeginPush
  <2> QED  BY <1>0, <2>1 DEF Allocated
<1>2. CASE Link(s)
  <2>1. /\ Pushing(s) /\ node'[fresh[s]] = Node(node[fresh[s]].t, acquired[s], Height(acquired[s]) + 1)
        /\ \A b \in Addresses : b # fresh[s] => node'[b] = node[b]
    BY <1>2, LinkWrites, PushWrites
  <2> QED  BY <2>1 DEF Node
<1>3. CASE PushNode(s)
  <2>1. Pushing(s) /\ node[fresh[s]] \in Nodes /\ fresh[s] \in Addresses
    BY <1>3, WhatIsAllocated DEF PushNode, StackInv, InCall, Pushing
  <2>2. CASE node' = node  BY <2>2
  <2>3. CASE node' = [ node EXCEPT ![fresh[s]] = Node(@.t, head, @.length) ]
    BY <1>0, <2>1, <2>3 DEF Node
  <2> QED  BY <1>3, <2>2, <2>3 DEF PushNode
<1>4. CASE Eject(s)
  <2>1. node' = node \/ \E x : FreeNodes({x})  BY <1>4 DEF Eject
  <2> QED  BY <2>1 DEF Allocated, FreeNodes
<1>5. CASE ~(BeginPush(s) \/ Link(s) \/ PushNode(s) \/ Eject(s))
  <2>1. node' = node
    BY <1>5 DEF ThreadStep, BeginPop, BeginSize, Load, AnnounceHead, Reload, ReadNext,
       PopNode, Take,
                ReturnEmpty, Retire, ReadLength, Scan, Release
  <2> QED  BY <2>1
<1> QED  BY <1>1, <1>2, <1>3, <1>4, <1>5

(* What push and pop have prepared for their compare-and-swap stays true.  *)
LEMMA PreparedStays ==
  ASSUME StackInv, InCall', Guarded', Apart', Covered', [HSNext]_stack_vars
  PROVE  Prepared'
<1> USE DEF nodes, hazards, stack_calls, stack_own, scan_vars, whole
<1>0. /\ Prepared /\ Guarded /\ InCall /\ InCall' /\ Apart /\ Covered
      /\ phase \in [ Users -> Phases ] /\ acquired \in [ Users -> MaybeAddress ]
      /\ fresh \in [ Users -> MaybeAddress ] /\ successor \in [ Users -> MaybeAddress ]
      /\ stack_op \in [ Users -> {"none", "push", "pop", "size"} ]
      /\ stack_arg \in [ Users -> Elements \cup {None} ]
      /\ node \in [ Addresses -> Nodes \cup {None} ]
      /\ None \notin Addresses
  BY OwnersAreSlots, HazptrStackAssumption DEF StackInv, StackTypes, NodeTypes,
     CallTypes, OwnTypes
<1> DEFINE Ready(t) ==
      /\ phase[t] = "pop" => successor[t] = node[acquired[t]].next
      /\ phase[t] = "push" => /\ node[fresh[t]].next = acquired[t]
                              /\ node[fresh[t]].length = Height(acquired[t]) + 1
      /\ Pushing(t) => node[fresh[t]].t = stack_arg[t]
<1>1. \A t \in Users : Ready(t)  BY <1>0 DEF Prepared
<1>a. \A t \in Users : /\ Pushing(t) => fresh[t] \in Addresses /\ node[fresh[t]] # None
                       /\ Reading(t) => acquired[t] \in Addresses /\ node[acquired[t]] # None
  BY <1>0, WhatIsAllocated, HazptrStackAssumption
<1>b. ASSUME NEW t \in Users, Pushing(t)', fresh'[t] = fresh[t], fresh[t] \in Addresses
      PROVE  node'[fresh[t]] # None
  <2>1. Slot("push", t, 1)' /\ Has("push", t, 1)' = fresh[t]  BY <1>b DEF Slot, Has
  <2> QED  BY <1>b, <2>1 DEF Covered, Allocated
<1>2. ASSUME NEW s \in Users, ThreadStep(s), NEW t \in Users, Reading(t), Reading(t)', acquired'[t] = acquired[t]
      PROVE  node'[acquired[t]] = node[acquired[t]]
  <2>1. node'[acquired[t]] # None  BY <1>2 DEF Guarded, Allocated
  <2>2. Pushing(s) => fresh[s] # acquired[t]  BY <1>0, <1>2 DEF Guarded
  <2>3. PICK a \in Addresses : a = acquired[t]  BY <1>2, <1>a
  <2>4. Allocated(a)  BY <1>2, <1>a, <2>3 DEF Allocated
  <2>5. node'[a] = node[a]  BY <1>2, <2>1, <2>2, <2>3, <2>4, NodesKept
  <2> QED  BY <2>3, <2>5
<1>3. ASSUME NEW s \in Users, ThreadStep(s), NEW t \in Users, t # s  PROVE Ready(t)'
  <2>1. /\ phase'[t] = phase[t] /\ successor'[t] = successor[t] /\ acquired'[t] = acquired[t]
        /\ fresh'[t] = fresh[t] /\ stack_op'[t] = stack_op[t] /\ stack_arg'[t] = stack_arg[t]
        /\ (Pushing(t)' <=> Pushing(t)) /\ (Reading(t)' <=> Reading(t))
    BY <1>3, OthersStay DEF Pushing, Reading
  <2>2. Reading(t) => node'[acquired[t]] = node[acquired[t]]  BY <1>2, <1>3, <2>1
  <2>3. ASSUME Pushing(t)  PROVE node'[fresh[t]] = node[fresh[t]]
    <3>1. Pushing(s) => fresh[s] # fresh[t]
      <4>1. Pushing(s) => Slot("push", s, 1) /\ Has("push", s, 1) = fresh[s]
        BY DEF Slot, Has
      <4>2. Slot("push", t, 1) /\ Has("push", t, 1) = fresh[t]  BY <2>3 DEF Slot, Has
      <4> QED  BY <1>0, <1>3, <4>1, <4>2 DEF Apart
    <3>2. Pushing(t)' /\ fresh'[t] = fresh[t]  BY <2>1, <2>3 DEF Pushing
    <3>3. PICK a \in Addresses : a = fresh[t]  BY <1>a, <2>3
    <3>4. node'[a] # None  BY <1>b, <3>2, <3>3
    <3>5. Allocated(a)  BY <1>a, <2>3, <3>3 DEF Allocated
    <3> QED  BY <1>3, <3>1, <3>3, <3>4, <3>5, NodesKept
  <2>4. phase[t] = "pop" => Reading(t)  BY <1>0 DEF Reading, InCall
  <2>5. phase[t] = "push" => Pushing(t) /\ (acquired[t] = None \/ Reading(t))
    BY <1>0 DEF Pushing, Reading, InCall
  <2>6. Ready(t)  BY <1>1
  <2> QED  BY <2>1, <2>2, <2>3, <2>4, <2>5, <2>6 DEF Height
<1>4. ASSUME NEW t \in Users, ThreadStep(t)  PROVE Ready(t)'
  <2>1. CASE BeginPush(t)
    <3>1. PICK v \in Elements, a \in Addresses :
            /\ Enter(t, "push", v) /\ node' = [ node EXCEPT ![a] = Node(v, None, 1) ]
            /\ fresh' = [ fresh EXCEPT ![t] = a ]
      BY <2>1 DEF BeginPush
    <3>2. phase'[t] = "load" /\ node'[fresh'[t]].t = v /\ stack_arg'[t] = v
      BY <1>0, <3>1 DEF Enter, GoTo, Node
    <3> QED  BY <3>2
  <2>2. CASE Link(t)
    <3>1. /\ phase'[t] = "push" /\ UNCHANGED << acquired, fresh, stack_arg >> /\ Pushing(t)
          /\ phase[t] = "link"
      BY <1>0, <2>2, LinkWrites DEF Link, GoTo
    <3>2. node'[fresh[t]] = Node(node[fresh[t]].t, acquired[t], Height(acquired[t]) + 1)
      BY <2>2, LinkWrites, PushWrites
    <3>3. acquired[t] # None => Reading(t) /\ Reading(t)'  BY <3>1 DEF Reading
    <3>4. Height(acquired[t])' = Height(acquired[t])
      BY <1>2, <1>4, <3>1, <3>3 DEF Height
    <3>5. Ready(t)  BY <1>1
    <3> QED  BY <3>1, <3>2, <3>4, <3>5 DEF Node
  <2>3. CASE ReadNext(t)
    <3>1. phase'[t] = "pop" /\ successor'[t] = node[acquired[t]].next /\ node' = node /\ acquired' = acquired
      BY <1>0, <2>3 DEF ReadNext, GoTo
    <3>2. ~Pushing(t)'  BY <3>1 DEF Pushing
    <3> QED  BY <3>1, <3>2
  <2>4. CASE Load(t) \/ AnnounceHead(t) \/ Reload(t) \/ PushNode(t)
    <3>1. /\ phase'[t] \notin {"pop", "push"} /\ UNCHANGED << fresh, stack_op, stack_arg >>
          /\ phase[t] \in {"load", "announce", "reload", "push"}
      BY <1>0, <2>4 DEF Load, AnnounceHead, Reload, PushNode, GoTo, Acquired
    <3>2. ASSUME Pushing(t)'  PROVE node'[fresh'[t]].t = stack_arg'[t]
      <4>1. Pushing(t)  BY <3>1, <3>2 DEF Pushing
      <4>2. PICK a \in Addresses : a = fresh[t]  BY <1>a, <4>1
      <4>5. node'[a] # None  BY <1>b, <3>1, <3>2, <4>2
      <4>6. Allocated(a)  BY <1>a, <4>1, <4>2 DEF Allocated
      <4>3. node'[fresh[t]].t = node[fresh[t]].t  BY <1>4, <4>2, <4>5, <4>6, NodesKept
      <4>4. Ready(t)  BY <1>1
      <4> QED  BY <3>1, <4>1, <4>3, <4>4
    <3> QED  BY <3>1, <3>2
  <2>5. CASE ~(BeginPush(t) \/ Link(t) \/ ReadNext(t) \/ Load(t) \/ AnnounceHead(t) \/ Reload(t) \/ PushNode(t))
    <3>1. phase'[t] \notin {"pop", "push"} /\ ~Pushing(t)'
      <4>1. CASE BeginPop(t) \/ BeginSize(t)
        BY <1>0, <4>1 DEF BeginPop, BeginSize, Enter, GoTo, Pushing
      <4>2. CASE PopNode(t)  BY <1>0, <4>2 DEF PopNode, GoTo, Pushing, InCall
      <4>3. CASE Retire(t)  BY <1>0, <4>3, RetireEnds DEF PutBy, StartScan, Pushing
      <4>4. CASE Take(t) \/ ReturnEmpty(t) \/ ReadLength(t) \/ Scan(t) \/ Eject(t) \/ Release(t)
        BY <1>0, <4>4 DEF Take, ReturnEmpty, ReadLength, Scan, Eject, Release, GoTo,
           Pushing
      <4> QED  BY <1>4, <2>5, <4>1, <4>2, <4>3, <4>4 DEF ThreadStep
    <3> QED  BY <3>1
  <2> QED  BY <2>1, <2>2, <2>3, <2>4, <2>5
<1>5. ASSUME NEW s \in Users, ThreadStep(s)  PROVE Prepared'
  <2>1. \A t \in Users : Ready(t)'  BY <1>3, <1>4, <1>5
  <2> QED  BY <2>1 DEF Prepared
<1>6. ASSUME DestroyNode \/ DestroyStack \/ DestroyInstance  PROVE Prepared'
  <2>1. \A t \in Users : phase'[t] = "outside"
    BY <1>0, <1>6 DEF DestroyNode, DestroyStack, DestroyInstance, Quiet, InCall
  <2> QED  BY <2>1 DEF Prepared, Pushing
<1>7. ASSUME UNCHANGED stack_vars  PROVE Prepared'
  <2>1. UNCHANGED << phase, acquired, node, fresh, stack_op, stack_arg, successor >>
    BY <1>7 DEF stack_vars
  <2> QED  BY <1>0, <2>1 DEF Prepared, Pushing, Height
<1> QED  BY <1>5, <1>6, <1>7 DEF HSNext, ThreadStep, Over

(* At first the stack holds the nodes from one on, and nobody else any.    *)
LEMMA StackBegins ==
  ASSUME HSInit
  PROVE  StackInv
<1>1. PICK n \in Filled, v \in Elements :
        /\ node = [ a \in Addresses |->
                      IF a \in 1..n THEN Node(v, IF a = 1 THEN None ELSE a - 1, a) ELSE None ]
        /\ head = IF n = 0 THEN None ELSE n
        /\ stacked = [ k \in 1..n |-> k ]
  BY DEF HSInit
<1>2. n \in Nat /\ 1..n \subseteq Addresses /\ None \notin Addresses /\ None \notin Nodes
  BY HazptrStackAssumption
<1>3. /\ phase = [ t \in Users |-> "outside" ] /\ deferred = [ t \in Users |-> << >> ]
      /\ retired = [ t \in Users |-> << >> ] /\ life = "used"
      /\ announcements = [ t \in Users |-> None ] /\ amortized_work = [ t \in Users |-> 0 ]
      /\ calls_made = [ t \in Users |-> 0 ] /\ stack_op = [ t \in Users |-> "none" ]
      /\ stack_arg = [ t \in Users |-> None ] /\ acquired = [ t \in Users |-> None ]
      /\ fresh = [ t \in Users |-> None ] /\ successor = [ t \in Users |-> None ]
      /\ taken_val = [ t \in Users |-> None ] /\ length_read = [ t \in Users |-> 0 ]
      /\ announced = [ t \in Users |-> NoneAnnounced ] /\ scanned = [ t \in Users |-> 1 ]
  BY DEF HSInit
<1>4. /\ Len(stacked) = n /\ DOMAIN stacked = 1..n /\ stacked \in Seq(Addresses)
      /\ \A k \in 1..n : stacked[k] = k
  BY <1>1, <1>2
<1>5. \A a \in 1..n : /\ a \in Addresses /\ node[a] \in Nodes
                     /\ node[a].next = (IF a = 1 THEN None ELSE a - 1) /\ node[a].length = a
  BY <1>1, <1>2 DEF Node, Nodes
<1>6. \A a \in Addresses : a \notin 1..n => node[a] = None
  BY <1>1
<1>7. StackTypes
  <2>1. NodeTypes
    <3>1. node \in [ Addresses -> Nodes \cup {None} ]
      <4>1. \A a \in Addresses : node[a] \in Nodes \cup {None}  BY <1>5, <1>6
      <4>2. \E f : node = [ a \in Addresses |-> f[a] ]  BY <1>1
      <4> QED  BY <4>1, <4>2
    <3>2. head \in MaybeAddress  BY <1>1, <1>2 DEF MaybeAddress
    <3> QED  BY <1>4, <3>1, <3>2 DEF NodeTypes
  <2>2. HazardTypes  BY <1>3 DEF HazardTypes, MaybeAddress
  <2>3. CallTypes  BY <1>3 DEF CallTypes, Phases
  <2>4. OwnTypes  BY <1>3 DEF OwnTypes, MaybeAddress
  <2>5. ScanTypes
    <3>1. NoneAnnounced \in [ Addresses -> Nat ]  BY DEF NoneAnnounced
    <3> QED  BY <1>3, <3>1 DEF ScanTypes
  <2> QED  BY <1>3, <2>1, <2>2, <2>3, <2>4, <2>5 DEF StackTypes
<1>8. InCall  BY <1>3 DEF InCall, Pushing
<1>9. Linked
  <2>1. head = Below(n + 1)  BY <1>1, <1>2, <1>4 DEF Below
  <2>2. ASSUME NEW k \in 1..n
        PROVE  node[stacked[k]].next = Below(k) /\ node[stacked[k]].length = k
    <3>1. k # 1 => stacked[k - 1] = k - 1  BY <1>2, <1>4
    <3> QED  BY <1>4, <1>5, <3>1 DEF Below
  <2> QED  BY <1>4, <2>1, <2>2 DEF Linked
<1>10. OneOwner
  <2>1. \A c, u, k : Slot(c, u, k) <=> c = "stack" /\ u = 1 /\ k \in 1..n
    BY <1>3, <1>4 DEF Slot, Pushing, Popping
  <2>2. \A k \in 1..n : Has("stack", 1, k) = k  BY <1>4 DEF Has
  <2>3. Apart  BY <2>1, <2>2 DEF Apart
  <2>4. \A a \in Addresses : Allocated(a) <=> a \in 1..n
    BY <1>2, <1>5, <1>6 DEF Allocated
  <2>5. Covered  BY <2>1, <2>2, <2>4 DEF Covered
  <2> QED  BY <2>3, <2>5, OwnersAreSlots
<1>11. Guarded /\ Prepared  BY <1>3 DEF Guarded, Prepared, Reading, Pushing
<1> QED  BY <1>7, <1>8, <1>9, <1>10, <1>11 DEF StackInv

(* The invariant is inductive.                                             *)
LEMMA StackInvStays ==
  ASSUME StackInv, [HSNext]_stack_vars
  PROVE  StackInv'
<1>1. StackTypes' /\ InCall'  BY TypesStay, CallsStay
<1>2. OneOwner' /\ Linked'  BY <1>1, OwnersStay, ListStays
<1>3. Guarded'  BY <1>1, GuardStays
<1>4. Apart' /\ Covered'
  <2>1. OneOwner <=> Apart /\ Covered  BY OwnersAreSlots
  <2> QED  BY <1>2, OwnersAreSlots, PTL
<1>5. Prepared'  BY <1>1, <1>3, <1>4, PreparedStays
<1> QED  BY <1>1, <1>2, <1>3, <1>5 DEF StackInv

(* However threads push and pop, and addresses are used again, the stack   *)
(* keeps its list and every node one owner, and nobody reads what is freed.*)
THEOREM StackSafe ==
  HSSpec => []StackInv
<1>1. HSInit => StackInv  BY StackBegins
<1>2. StackInv /\ [HSNext]_stack_vars => StackInv'  BY StackInvStays
<1> QED  BY <1>1, <1>2, PTL DEF HSSpec
-----------------------------------------------------------------------------
(* The abstract stack: what the list holds, and what is asked of it.       *)
Items == IF life = "used" THEN [ k \in DOMAIN stacked |-> node[stacked[k]].t ] ELSE << >>
Answers == [ t \in Users |-> Result(t) ]

(* No step changes what another thread has been answered.                  *)
LEMMA AnswersStay ==
  ASSUME StackInv, StackInv', NEW s \in Users, ThreadStep(s), NEW t \in Users, t # s
  PROVE  Result(t)' = Result(t)
<1>0. Guarded' /\ Apart' /\ Covered'
  <2>1. OneOwner <=> Apart /\ Covered  BY OwnersAreSlots
  <2> QED  BY <2>1, OwnersAreSlots, PTL DEF StackInv
<1>1. /\ stack_op'[t] = stack_op[t] /\ stack_arg'[t] = stack_arg[t] /\ phase'[t] = phase[t]
      /\ acquired'[t] = acquired[t] /\ taken_val'[t] = taken_val[t] /\ length_read'[t] = length_read[t]
  BY OthersStay
<1>2. ASSUME phase[t] = "length", acquired[t] # None
      PROVE  node'[acquired[t]] = node[acquired[t]]
  <2>1. Reading(t) /\ Reading(t)'  BY <1>1, <1>2 DEF Reading
  <2>2. PICK a \in Addresses : a = acquired[t]  BY <2>1, WhatIsAllocated
  <2>3. Allocated(a) /\ node'[a] # None
    BY <1>0, <1>1, <2>1, <2>2 DEF StackInv, Guarded, Allocated
  <2>4. Pushing(s) => fresh[s] # a  BY <2>1, <2>2 DEF StackInv, Guarded
  <2> QED  BY <2>2, <2>3, <2>4, NodesKept
<1>3. ASSUME phase[t] = "take"
      PROVE  node'[acquired[t]].t = node[acquired[t]].t
  <2>1. Popping(t) /\ Popping(t)'  BY <1>1, <1>3 DEF Popping
  <2>2. PICK a \in Addresses : a = acquired[t] /\ node[a] \in Nodes
    BY <2>1, WhatIsAllocated
  <2>3. Slot("pop", t, 1)' /\ Has("pop", t, 1)' = a  BY <1>1, <2>1, <2>2 DEF Slot, Has
  <2>4. Allocated(a) /\ node'[a] # None
    BY <1>0, <2>2, <2>3, HazptrStackAssumption DEF Covered, Allocated
  <2> QED  BY <2>2, <2>4, NodesKept
<1> QED  BY <1>1, <1>2, <1>3 DEF Result

(* The values in the list stay.                                            *)
LEMMA ValuesStay ==
  ASSUME StackInv, StackInv', NEW s \in Users, ThreadStep(s),
         NEW k \in DOMAIN stacked, k \in DOMAIN stacked', stacked'[k] = stacked[k]
  PROVE  node'[stacked[k]].t = node[stacked[k]].t
<1>0. Covered'
  <2>1. OneOwner <=> Apart /\ Covered  BY OwnersAreSlots
  <2> QED  BY <2>1, OwnersAreSlots, PTL DEF StackInv
<1>1. PICK a : a = stacked[k]  OBVIOUS
<1>2. a \in Addresses /\ node[a] \in Nodes
  BY <1>1, WhatIsAllocated DEF StackInv, StackTypes, NodeTypes
<1>3. Slot("stack", 1, k)' /\ Has("stack", 1, k)' = a  BY <1>1 DEF Slot, Has
<1>4. Allocated(a) /\ node'[a] # None
  BY <1>0, <1>2, <1>3, HazptrStackAssumption DEF Covered, Allocated
<1> QED  BY <1>1, <1>2, <1>4, NodesKept

(* Each step of a thread is one of the abstract stack, or none.            *)
LEMMA ThreadAsStack ==
  ASSUME StackInv, StackInv', NEW s \in Users, ThreadStep(s)
  PROVE  AsStack
<1> USE DEF nodes, hazards, stack_calls, stack_own, scan_vars, whole
<1>0. /\ InCall /\ phase \in [ Users -> Phases ] /\ acquired \in [ Users -> MaybeAddress ]
      /\ stack_op \in [ Users -> {"none", "push", "pop", "size"} ]
      /\ stack_arg \in [ Users -> Elements \cup {None} ]
      /\ taken_val \in [ Users -> Elements \cup {None} ] /\ length_read \in [ Users -> Nat ]
      /\ fresh \in [ Users -> MaybeAddress ]
      /\ stacked \in Seq(Addresses) /\ stacked' \in Seq(Addresses)
  BY DEF StackInv, StackTypes, CallTypes, OwnTypes, NodeTypes
<1>1. life = "used" /\ life' = "used"
  BY <1>0 DEF InCall, ThreadStep, BeginPush, BeginPop, BeginSize, Enter, Load,
     AnnounceHead, Reload, Link, PushNode,
              ReadNext, PopNode, Take, ReturnEmpty, Retire, ReadLength, Scan, Eject, Release
<1>2. Items = [ k \in DOMAIN stacked |-> node[stacked[k]].t ] /\ Items' = [ k \in DOMAIN stacked' |-> node'[stacked'[k]].t ]
  BY <1>1 DEF Items
<1>3. Answers' = [ Answers EXCEPT ![s] = Result(s)' ]
  <2>1. \A t \in Users : t # s => Result(t)' = Result(t)  BY AnswersStay
  <2> QED  BY <2>1 DEF Answers
<1>4. Answers[s] = Result(s)  BY DEF Answers
<1>5. /\ DOMAIN stacked = 1..Len(stacked) /\ Len(stacked) \in Nat
      /\ Items \in Seq(Elements) /\ Len(Items) = Len(stacked)
  <2>1. \A k \in DOMAIN stacked : node[stacked[k]].t \in Elements
    BY WhatIsAllocated DEF Nodes
  <2>2. DOMAIN stacked = 1..Len(stacked) /\ Len(stacked) \in Nat  BY <1>0
  <2> QED  BY <1>2, <2>1, <2>2
<1>6. stacked' = stacked => Items' = Items
  <2>1. ASSUME stacked' = stacked, NEW k \in DOMAIN stacked  PROVE node'[stacked[k]].t = node[stacked[k]].t
    BY <2>1, ValuesStay
  <2> QED  BY <1>2, <2>1
<1>a. AsStack <=> \/ \E t \in Users : Stack!Ask(t) \/ Stack!Push(t) \/ Stack!Pop(t) \/ Stack!Size(t) \/ Stack!Return(t)
                  \/ Stack!Destroy
                  \/ Items' = Items /\ Answers' = Answers
  BY DEF AsStack, Stack!Next, Stack!vars, Items, Answers
<1>b. ASSUME stacked' = stacked, Result(s)' = Result(s)  PROVE AsStack
  <2>1. Answers' = Answers  BY <1>3, <1>4, <1>b DEF Answers
  <2> QED  BY <1>6, <1>a, <1>b, <2>1
<1>c. ASSUME stacked' = stacked, Result(s) = Stack!Nothing,
             \/ \E v \in Elements : Result(s)' = Stack!Asked("push", v)
             \/ \E o \in {"pop", "size"} : Result(s)' = Stack!Asked(o, None)
      PROVE  AsStack
  <2>1. Stack!Ask(s)  BY <1>3, <1>4, <1>6, <1>c DEF Stack!Ask, Items, Answers
  <2> QED  BY <1>a, <2>1
<1>d. ASSUME stacked' = stacked, Result(s).op \in {"pushed", "popped", "empty", "length"},
             Result(s)' = Stack!Nothing
      PROVE  AsStack
  <2>1. Stack!Return(s)  BY <1>3, <1>4, <1>6, <1>d DEF Stack!Return, Items, Answers
  <2> QED  BY <1>a, <2>1
<1>e. ASSUME Items' = Append(Items, Result(s).val), Result(s).op = "push",
             Result(s)' = Stack!Answer("pushed", None, 0)
      PROVE  AsStack
  <2>1. Stack!Push(s)  BY <1>3, <1>4, <1>e DEF Stack!Push, Items, Answers
  <2> QED  BY <1>a, <2>1
<1>f. ASSUME Items # << >>, Items' = SubSeq(Items, 1, Len(Items) - 1), Result(s).op = "pop",
             Result(s)' = Stack!Answer("popped", Items[Len(Items)], 0)
      PROVE  AsStack
  <2>1. Stack!Pop(s)  BY <1>3, <1>4, <1>f DEF Stack!Pop, Items, Answers
  <2> QED  BY <1>a, <2>1
<1>g. ASSUME stacked' = stacked, Items = << >>, Result(s).op = "pop",
             Result(s)' = Stack!Answer("empty", None, 0)
      PROVE  AsStack
  <2>1. Stack!Pop(s)  BY <1>3, <1>4, <1>6, <1>g DEF Stack!Pop, Items, Answers
  <2> QED  BY <1>a, <2>1
<1>h. ASSUME stacked' = stacked, Result(s).op = "size",
             Result(s)' = Stack!Answer("length", None, Len(Items))
      PROVE  AsStack
  <2>1. Stack!Size(s)  BY <1>3, <1>4, <1>6, <1>h DEF Stack!Size, Items, Answers
  <2> QED  BY <1>a, <2>1
<1> HIDE DEF nodes
<1> USE DEF Stack!Nothing, Stack!Asked, Stack!Answer
<1>7. CASE BeginPush(s)
  <2>1. PICK v \in Elements : Enter(s, "push", v)  BY <1>7 DEF BeginPush
  <2>2. stacked' = stacked /\ phase[s] = "outside" /\ phase'[s] = "load"
        /\ stack_op'[s] = "push" /\ stack_arg'[s] = v
    BY <1>0, <1>7, <2>1 DEF BeginPush, Enter, GoTo
  <2> QED  BY <1>c, <2>2 DEF Result
<1>8. CASE BeginPop(s) \/ BeginSize(s)
  <2>1. /\ stacked' = stacked /\ phase[s] = "outside" /\ phase'[s] = "load"
        /\ stack_op'[s] \in {"pop", "size"} /\ stack_arg'[s] = None
    BY <1>0, <1>8 DEF BeginPop, BeginSize, Enter, GoTo
  <2> QED  BY <1>c, <2>1 DEF Result
<1>9. CASE Load(s) \/ AnnounceHead(s) \/ Link(s) \/ ReadNext(s)
  <2>1. /\ stacked' = stacked /\ stack_op' = stack_op /\ stack_arg' = stack_arg
        /\ phase[s] \in {"load", "announce", "link", "next"}
        /\ phase'[s] \in {"announce", "reload", "push", "pop"}
    BY <1>0, <1>9 DEF Load, AnnounceHead, Link, ReadNext, GoTo
  <2>2. Result(s)' = Result(s)  BY <2>1 DEF Result
  <2> QED  BY <1>b, <2>1, <2>2
<1>10. CASE Reload(s)
  <2>1. /\ stacked' = stacked /\ stack_op' = stack_op /\ stack_arg' = stack_arg /\ phase[s] = "reload"
        /\ acquired' = acquired /\ node' = node
        /\ phase'[s] = IF head = acquired[s] THEN Acquired(s) ELSE "load"
    BY <1>0, <1>10 DEF Reload, GoTo, nodes
  <2>0. Result(s) = Stack!Asked(stack_op[s], stack_arg[s])  BY <2>1 DEF Result
  <2>a. stack_op[s] # "push" => stack_arg[s] = None  BY <1>0, <2>1 DEF InCall
  <2>2. CASE phase'[s] \in {"load", "link", "next"}
    <3>1. Result(s)' = Result(s)  BY <2>0, <2>1, <2>2 DEF Result
    <3> QED  BY <1>b, <2>1, <3>1
  <2>3. CASE phase'[s] = "empty"
    <3>1. acquired[s] = None /\ head = None /\ stack_op[s] = "pop"
      BY <1>0, <2>1, <2>3 DEF Acquired, InCall
    <3>2. Items = << >>
      <4>1. Len(stacked) = 0  BY <3>1, WhatIsAllocated
      <4> QED  BY <1>5, <4>1
    <3>3. Result(s)' = Stack!Answer("empty", None, 0)  BY <2>3 DEF Result
    <3>4. Result(s).op = "pop"  BY <2>0, <3>1
    <3> QED  BY <1>g, <2>1, <3>2, <3>3, <3>4
  <2>4. CASE phase'[s] = "length"
    <3>1. acquired[s] = head /\ stack_op[s] = "size"
      BY <1>0, <2>1, <2>4 DEF Acquired
    <3>2. (IF head = None THEN 0 ELSE node[head].length) = Len(stacked)
      BY WhatIsAllocated DEF StackInv, Linked
    <3>3. Result(s)' = Stack!Answer("length", None, Len(Items))
      BY <1>5, <2>1, <2>4, <3>1, <3>2 DEF Result
    <3>4. Result(s).op = "size"  BY <2>0, <3>1
    <3> QED  BY <1>h, <2>1, <3>3, <3>4
  <2> QED  BY <2>1, <2>2, <2>3, <2>4 DEF Acquired
<1>11. CASE PushNode(s)
  <2>0. /\ phase[s] = "push" /\ stack_op' = stack_op /\ stack_arg' = stack_arg /\ stack_op[s] = "push"
    BY <1>0, <1>11 DEF PushNode, InCall
  <2>a. Result(s) = Stack!Asked("push", stack_arg[s])  BY <2>0 DEF Result
  <2>1. CASE stacked' = stacked /\ phase'[s] = "load"
    <3>1. Result(s)' = Result(s)  BY <2>0, <2>1 DEF Result
    <3> QED  BY <1>b, <2>1, <3>1
  <2>2. CASE stacked' = Append(stacked, fresh[s]) /\ phase'[s] = "release"
    <3>1. Pushing(s) /\ node[fresh[s]].t = stack_arg[s] /\ fresh[s] \in Addresses
      BY <2>0, WhatIsAllocated DEF Pushing, StackInv, Prepared
    <3>2. node' = node  BY <1>11, <2>0, <2>2 DEF PushNode, nodes
    <3>3. Items' = Append(Items, stack_arg[s])
      <4>1. DOMAIN stacked' = 1..(Len(stacked) + 1) /\ stacked'[Len(stacked) + 1] = fresh[s]
            /\ \A k \in DOMAIN stacked : stacked'[k] = stacked[k]
        BY <1>0, <2>2, <3>1
      <4>2. stack_arg[s] \in Elements  BY <1>0, <3>1 DEF InCall
      <4>3. Items' = [ k \in 1..(Len(Items) + 1) |-> IF k = Len(Items) + 1 THEN stack_arg[s] ELSE Items[k] ]
        BY <1>2, <1>5, <3>1, <3>2, <4>1
      <4> HIDE DEF Items
      <4> QED  BY <1>5, <4>2, <4>3
    <3>4. Result(s)' = Stack!Answer("pushed", None, 0)  BY <2>0, <2>2 DEF Result
    <3> QED  BY <1>e, <2>a, <3>3, <3>4
  <2> QED  BY <1>0, <1>11, <2>1, <2>2 DEF PushNode, GoTo
<1>12. CASE PopNode(s)
  <2>0. /\ phase[s] = "pop" /\ stack_op' = stack_op /\ stack_arg' = stack_arg /\ stack_op[s] = "pop"
        /\ acquired' = acquired /\ node' = node /\ acquired[s] # None
    BY <1>0, <1>12 DEF PopNode, InCall
  <2>a. Result(s) = Stack!Asked("pop", stack_arg[s])  BY <2>0 DEF Result
  <2>1. CASE stacked' = stacked /\ phase'[s] = "load"
    <3>1. Result(s)' = Result(s)  BY <2>0, <2>1 DEF Result
    <3> QED  BY <1>b, <2>1, <3>1
  <2>2. CASE stacked' = SubSeq(stacked, 1, Len(stacked) - 1) /\ phase'[s] = "take" /\ head = acquired[s]
    <3>1. acquired[s] = stacked[Len(stacked)] /\ Len(stacked) # 0
      BY <2>0, <2>2, WhatIsAllocated
    <3>2. Items # << >> /\ Items[Len(Items)] = node[acquired[s]].t  BY <1>2, <1>5, <3>1
    <3>3. Items' = SubSeq(Items, 1, Len(Items) - 1)
      <4>1. DOMAIN stacked' = 1..(Len(stacked) - 1) /\ \A k \in 1..(Len(stacked) - 1) : stacked'[k] = stacked[k]
        BY <1>0, <2>2, <3>1
      <4>2. Items' = [ k \in 1..(Len(Items) - 1) |-> Items[k] ]  BY <1>2, <1>5, <2>0, <4>1
      <4> QED  BY <1>5, <3>1, <4>2
    <3>4. Result(s)' = Stack!Answer("popped", node[acquired[s]].t, 0)
      BY <2>0, <2>2 DEF Result
    <3>5. Result(s).op = "pop"  BY <2>a
    <3> QED  BY <1>f, <3>2, <3>3, <3>4, <3>5
  <2> QED  BY <1>0, <1>12, <2>1, <2>2 DEF PopNode, GoTo
<1>13. CASE Take(s)
  <2>1. /\ stacked' = stacked /\ stack_op'[s] = "pop" /\ phase[s] = "take" /\ phase'[s] = "retire"
        /\ taken_val'[s] = node[acquired[s]].t
    BY <1>0, <1>13 DEF Take, GoTo, InCall
  <2>2. Result(s)' = Result(s)  BY <2>1 DEF Result
  <2> QED  BY <1>b, <2>1, <2>2
<1>14. CASE ReturnEmpty(s) \/ Release(s)
  <2>1. /\ stacked' = stacked /\ phase[s] \in {"empty", "release"} /\ phase'[s] = "outside"
    BY <1>0, <1>14 DEF ReturnEmpty, Release, GoTo
  <2>2. Result(s).op \in {"pushed", "popped", "empty", "length"}  BY <2>1 DEF Result
  <2>3. Result(s)' = Stack!Nothing  BY <2>1 DEF Result
  <2> QED  BY <1>d, <2>1, <2>2, <2>3
<1>15. CASE ReadLength(s)
  <2>1. /\ stacked' = stacked /\ stack_op'[s] = "size" /\ phase[s] = "length" /\ phase'[s] = "release"
        /\ length_read'[s] = IF acquired[s] = None THEN 0 ELSE node[acquired[s]].length
    BY <1>0, <1>15 DEF ReadLength, GoTo, InCall
  <2>2. Result(s)' = Result(s)  BY <2>1 DEF Result
  <2> QED  BY <1>b, <2>1, <2>2
<1>16. CASE Retire(s) \/ Scan(s) \/ Eject(s)
  <2>1. /\ stacked' = stacked /\ stack_op' = stack_op /\ taken_val' = taken_val /\ length_read' = length_read
    BY <1>16 DEF Retire, Scan, Eject
  <2>2. phase[s] \in {"retire", "scan", "eject"} /\ phase'[s] \in {"retire", "scan", "eject", "release"}
    <3>1. CASE Retire(s)  BY <1>0, <3>1, RetireEnds DEF PutBy, StartScan
    <3>2. CASE Scan(s) \/ Eject(s)  BY <1>0, <3>2 DEF Scan, Eject, GoTo
    <3> QED  BY <1>16, <3>1, <3>2
  <2>3. Result(s)' = Result(s)  BY <2>1, <2>2 DEF Result
  <2> QED  BY <1>b, <2>1, <2>3
<1> QED
  BY <1>7, <1>8, <1>9, <1>10, <1>11, <1>12, <1>13, <1>14, <1>15, <1>16 DEF ThreadStep

(* The destructor empties the abstract stack at once, with the first node  *)
(* that it frees or, if there is none, without any.                        *)
LEMMA DestroyAsStack ==
  ASSUME StackInv, StackInv',
         DestroyNode \/ DestroyStack \/ DestroyInstance \/ UNCHANGED stack_vars
  PROVE  AsStack
<1> USE DEF nodes, hazards, stack_calls, stack_own, scan_vars, whole
<1>1. Items' = << >> /\ Answers' = Answers /\ Answers = [ t \in Users |-> Stack!Nothing ] => AsStack
  BY DEF AsStack, Stack!Next, Stack!Destroy, Items, Answers
<1>2. Items' = Items /\ Answers' = Answers => AsStack
  BY DEF AsStack, Stack!vars, Items, Answers
<1>3. CASE DestroyNode \/ DestroyStack
  <2>1. \A t \in Users : phase[t] = "outside" /\ phase'[t] = "outside"
    BY <1>3 DEF DestroyNode, DestroyStack, Quiet
  <2>2. Answers = [ t \in Users |-> Stack!Nothing ] /\ Answers' = [ t \in Users |-> Stack!Nothing ]
    BY <2>1 DEF Answers, Result, Stack!Nothing
  <2>3. Items' = << >>  BY <1>3 DEF DestroyNode, DestroyStack, Items
  <2> QED  BY <1>1, <2>2, <2>3
<1>4. CASE DestroyInstance
  <2>1. \A t \in Users : phase[t] = "outside" /\ phase'[t] = "outside"
    BY <1>4 DEF DestroyInstance, StackInv, InCall
  <2>2. Answers' = Answers  BY <2>1 DEF Answers, Result
  <2>3. Items' = Items  BY <1>4 DEF DestroyInstance, Items
  <2> QED  BY <1>2, <2>2, <2>3
<1>5. CASE UNCHANGED stack_vars
  <2>1. Items' = Items /\ Answers' = Answers  BY <1>5 DEF stack_vars, Items, Answers, Result
  <2> QED  BY <1>2, <2>1
<1> QED  BY <1>3, <1>4, <1>5

(* At first nobody has asked for anything.                                 *)
LEMMA BeginsAsStack ==
  ASSUME HSInit
  PROVE  Stack!Init
<1>1. Answers = [ t \in Users |-> Stack!Nothing ]
  BY DEF HSInit, Answers, Result, Stack!Nothing
<1>2. StackInv  BY StackBegins
<1>3. Items \in Seq(Elements)
  <2>1. \A k \in DOMAIN stacked : node[stacked[k]].t \in Elements
    BY <1>2, WhatIsAllocated DEF Nodes
  <2>2. DOMAIN stacked = 1..Len(stacked) /\ Len(stacked) \in Nat
    BY <1>2 DEF StackInv, StackTypes, NodeTypes
  <2>3. Items = [ k \in 1..Len(stacked) |-> node[stacked[k]].t ]
    BY <2>2 DEF HSInit, Items
  <2> QED  BY <2>1, <2>2, <2>3
<1> QED  BY <1>1, <1>3 DEF Stack!Init, Items, Answers

(* Every call on the stack takes effect at one moment between its start    *)
(* and its return, for any threads, addresses, elements and threshold.     *)
THEOREM StackLinearizable ==
  HSSpec => Stack!Init /\ [][AsStack]_stack_vars
<1>1. HSInit => Stack!Init  BY BeginsAsStack
<1>2. StackInv /\ StackInv' /\ [HSNext]_stack_vars => [AsStack]_stack_vars
  <2> SUFFICES ASSUME StackInv, StackInv', HSNext  PROVE AsStack
    OBVIOUS
  <2>1. ASSUME NEW t \in Users, ThreadStep(t)  PROVE AsStack  BY <2>1, ThreadAsStack
  <2>2. (\E t \in Users : ThreadStep(t)) \/ DestroyNode \/ DestroyStack \/ DestroyInstance \/ UNCHANGED stack_vars
    BY DEF HSNext, ThreadStep, Over
  <2> QED  BY <2>1, <2>2, DestroyAsStack
<1> QED  BY <1>1, <1>2, StackSafe, PTL DEF HSSpec
-----------------------------------------------------------------------------
(***************************************************************************)
(* parallel_for.  All of it rests on one invariant, FJInv.  Frames and     *)
(* jobs are taken as holders of indices: an index that has not returned is *)
(* held by exactly one, which a step passes on.  A step replaces the       *)
(* innermost frame of one worker by none, one or two (Becomes) and adds or *)
(* removes one job; the lemmas say, once, what that does to each conjunct. *)
(***************************************************************************)
(* The frames and jobs there can be: the numbers of each fit its loop. A *)
(* range that has called an index is not above its granularity, one that *)
(* has forked is; only ranges that are not empty become jobs.            *)
GoodLoops == {f \in [kind : {"loop"}, call : Loops, at : {"measure", "split"}, lo : {0},
                      hi : Nat, next : Nat, upto : Nat \ {0}] :
                f.hi = Size(f.call) /\ f.next <= f.hi}
Whole(f) == f.at = "enter" /\ f.hi - f.lo <= f.gran
GoodRanges == {f \in [kind : {"range"}, call : Loops, at : {"enter", "left", "right", "wait"},
                       lo : Nat, hi : Nat, next : Nat, gran : Nat, job : BOOLEAN] :
                /\ f.lo <= f.next /\ f.next <= f.hi /\ f.hi <= Size(f.call)
                /\ f.lo < f.hi => f.gran > 0
                /\ f.next # f.lo => Whole(f)
                /\ f.at # "enter" => f.hi - f.lo > f.gran
                /\ f.job => f.lo < f.hi}
GoodBodies == [kind : {"body"}, call : Calls \ Loops]
GoodFrames == GoodLoops \cup GoodRanges \cup GoodBodies
GoodJobs == {j \in Job : j.lo < j.hi /\ j.hi <= Size(j.call) /\ j.gran > 0}

(* The types, with those.                                                *)
FJTypes ==
  /\ stack \in [Crew -> Seq(GoodFrames)]
  /\ deque \in [Crew -> Seq(GoodJobs)]
  /\ finished \subseteq GoodJobs /\ returned \subseteq Calls
  /\ granularity \in Granularities /\ conservative \in BOOLEAN

(* Each frame has been called by the one below it, and says so: it is    *)
(* the index called last, the rest of a loop, the left or the right      *)
(* half; above a range that waits are only jobs it has taken. A loop     *)
(* that was given a granularity measures nothing.                        *)
Is(f, kind, at) == f.kind = kind /\ f.at = at
Above(e, f) ==
  /\ e.kind # "body"
  /\ Is(e, "loop", "measure") \/ Is(e, "range", "enter") =>
       f.kind # "range" /\ f.call = Append(e.call, e.next - 1) /\ e.next > e.lo
  /\ Is(e, "loop", "split") =>
       f.kind = "range" /\ f.call = e.call /\ ~f.job /\ f.lo = e.next /\ f.hi = e.hi
  /\ Is(e, "range", "left") =>
       f.kind = "range" /\ f.call = e.call /\ ~f.job /\ f.lo = e.lo /\ f.hi = Mid(e.lo, e.hi)
  /\ Is(e, "range", "right") =>
       f.kind = "range" /\ f.call = e.call /\ ~f.job /\ f.lo = Mid(e.lo, e.hi) /\ f.hi = e.hi
  /\ Is(e, "range", "wait") => f.kind = "range" /\ f.job

Stacked ==
  \A w \in Crew :
    /\ \A d \in 1..(Len(stack[w]) - 1) : Above(stack[w][d], stack[w][d + 1])
    /\ \A d \in 1..Len(stack[w]) :
         stack[w][d].kind = "loop" /\ granularity # 0 => stack[w][d].next = 0

(* The jobs in the deque of a worker are those its ranges have forked    *)
(* that are still in their left half, the outermost first: pos says      *)
(* which range each is of. A range in its left half without one lies     *)
(* below all of those: its job has been stolen. Ranges that wait do too. *)
Suits(s, q, pos) ==
  /\ pos \in [1..Len(q) -> 1..Len(s)]
  /\ \A k, l \in 1..Len(q) : k < l => pos[k] < pos[l]
  /\ \A k \in 1..Len(q) : Is(s[pos[k]], "range", "left") /\ q[k] = RightJob(s[pos[k]])
  /\ \A d \in 1..Len(s) :
       Is(s[d], "range", "left") => q = << >> \/ d < pos[1] \/ \E k \in 1..Len(q) : d = pos[k]
  /\ \A d \in 1..Len(s) : Is(s[d], "range", "wait") => \A k \in 1..Len(q) : d < pos[k]
Matched == \A w \in Crew : \E pos \in [1..Len(deque[w]) -> 1..Len(stack[w])] : Suits(stack[w], deque[w], pos)

(* Who answers for an index b that has not returned: the frame that is   *)
(* its call, or the loop or range that is yet to call it, or the job it  *)
(* is in.                                                                *)
Nth(b) == b[Len(b)]
Calls1 == Calls \ {<< >>}
Names(f, b) == f.kind # "range" /\ f.call = b
Owns(f, b) == /\ f.kind # "body" /\ f.at \in {"measure", "enter"}
              /\ b # << >> /\ Parent(b) = f.call /\ f.next <= Nth(b) /\ Nth(b) < f.hi
Claims(f, b) == Names(f, b) \/ Owns(f, b)
OwnsJob(j, b) == b # << >> /\ Parent(b) = j.call /\ j.lo <= Nth(b) /\ Nth(b) < j.hi

(* A call that is on a stack; that has begun; that has not returned.     *)
Running(b) == \E w \in Crew : \E d \in 1..Len(stack[w]) : Names(stack[w][d], b)
Begun(b) == Running(b) \/ b \in returned
HeldOnStacks(b) == \E u \in Crew : \E d \in 1..Len(stack[u]) : Claims(stack[u][d], b)
HeldInDeques(b) == \E u \in Crew : \E k \in 1..Len(deque[u]) : OwnsJob(deque[u][k], b)
Active(b) == HeldOnStacks(b) \/ HeldInDeques(b)

(* Nobody else does: no index is held by two frames, two jobs, or a      *)
(* frame and a job, nor by anybody once it has returned.                 *)
FramesApart ==
  \A b \in Calls : \A u, v \in Crew : \A d \in 1..Len(stack[u]), e \in 1..Len(stack[v]) :
    Claims(stack[u][d], b) /\ Claims(stack[v][e], b) => u = v /\ d = e
JobsApart ==
  \A b \in Calls : \A u, v \in Crew : \A k \in 1..Len(deque[u]), l \in 1..Len(deque[v]) :
    OwnsJob(deque[u][k], b) /\ OwnsJob(deque[v][l], b) => u = v /\ k = l
OneHolder ==
  /\ FramesApart /\ JobsApart
  /\ \A b \in Calls : ~(HeldOnStacks(b) /\ HeldInDeques(b))
  /\ \A b \in Calls : Active(b) => b \notin returned

(* Indices are active only while their loop runs.                        *)
Families ==
  /\ \A b \in Calls1 : Active(b) => Running(Parent(b))
  /\ \A b \in Calls1 : b \in returned => Begun(Parent(b))
  /\ \A w \in Crew : \A d \in 1..Len(stack[w]) : Begun(stack[w][d].call)
  /\ \A j \in finished : Begun(j.call)

(* Once a loop has begun each of its indices is held or has returned.    *)
NoneLost ==
  \A b \in Calls1 : Begun(Parent(b)) => Active(b) \/ b \in returned

(* Of a stretch of a loop none is active any more: of what a frame has   *)
(* left behind, and of a job that is done.                               *)
Silent(c, a, z) == \A b \in Calls1 : Parent(b) = c /\ a <= Nth(b) /\ Nth(b) < z => ~Active(b)
Clean(f, top) ==
  /\ Is(f, "range", "right") \/ Is(f, "range", "wait") \/ (top /\ Is(f, "range", "left"))
       => Silent(f.call, f.lo, Mid(f.lo, f.hi))
  /\ top /\ Is(f, "range", "right") => Silent(f.call, Mid(f.lo, f.hi), f.hi)
  /\ f.kind # "body" /\ f.at \in {"measure", "enter"} =>
       Silent(f.call, f.lo, IF top THEN f.next ELSE f.next - 1)
  /\ Is(f, "loop", "split") => Silent(f.call, 0, IF top THEN f.hi ELSE f.next)
CleanLeft ==
  /\ \A w \in Crew : \A d \in 1..Len(stack[w]) : Clean(stack[w][d], d = Len(stack[w]))
  /\ \A j \in finished : Silent(j.call, j.lo, j.hi)

(* The first index of a range that is not empty has been called, or is   *)
(* about to be by the range or by one above it: so no two ranges that    *)
(* begin with the same index can be in flight.                           *)
First(f) == Append(f.call, f.lo)
Starts(f, b) == f.kind = "range" /\ Append(f.call, f.lo) = b /\ Owns(f, b)
FirstIndex ==
  \A u \in Crew : \A d \in 1..Len(stack[u]) :
    stack[u][d].kind = "range" /\ stack[u][d].lo < stack[u][d].hi =>
      \/ Begun(First(stack[u][d]))
      \/ \E e \in 1..Len(stack[u]) : d <= e /\ Starts(stack[u][e], First(stack[u][d]))

(* A job is run once and before it is done; and while it waits or runs,  *)
(* the pardo that forked it is on a stack.                               *)
RunsJob(f, j) == f.kind = "range" /\ f.job /\ AsJob(f) = j
Forks(f, j) == f.kind = "range" /\ f.at \in {"left", "wait"} /\ RightJob(f) = j
OneRunner ==
  /\ \A j \in GoodJobs : \A u, v \in Crew : \A d \in 1..Len(stack[u]), e \in 1..Len(stack[v]) :
       RunsJob(stack[u][d], j) /\ RunsJob(stack[v][e], j) => u = v /\ d = e
  /\ \A j \in GoodJobs : \A u \in Crew : \A d \in 1..Len(stack[u]) :
       RunsJob(stack[u][d], j) => j \notin finished
RunAsJob(j) == \E u \in Crew : \E d \in 1..Len(stack[u]) : RunsJob(stack[u][d], j)
Waits(j) == \E u \in Crew : \E k \in 1..Len(deque[u]) : deque[u][k] = j
HasForker(j) == \E u \in Crew : \E d \in 1..Len(stack[u]) : Forks(stack[u][d], j)
Aliveness == \A j \in GoodJobs : RunAsJob(j) \/ Waits(j) => HasForker(j)

(* The indices of a range. *)
Within(b, c, lo, hi) == b \in Calls1 /\ Parent(b) = c /\ lo <= Nth(b) /\ Nth(b) < hi
(* A range that has called nothing yet. *)
Entered(g, c, lo, hi, gran) ==
  /\ g.kind = "range" /\ g.call = c /\ g.at = "enter"
  /\ g.lo = lo /\ g.hi = hi /\ g.next = lo /\ g.gran = gran
(* A half that is called, and one that is run as a job. *)
HalfFrame(c, lo, hi, g) == RangeFrame(c, lo, hi, g, FALSE)
TakenFrame(c, lo, hi, g) == RangeFrame(c, lo, hi, g, TRUE)

(* The inductive invariant.                                              *)
FJInv == /\ FJTypes /\ Stacked /\ Matched /\ OneHolder /\ Families /\ NoneLost /\ CleanLeft
         /\ FirstIndex /\ OneRunner /\ Aliveness
-----------------------------------------------------------------------------
(* Calls and their indices.                                                *)
LEMMA CallParts ==
  ASSUME ForkJoinAssumption
  PROVE  /\ \A b \in Calls1 : /\ Parent(b) \in Loops /\ Nth(b) \in 0..(Size(Parent(b)) - 1)
                              /\ b = Append(Parent(b), Nth(b)) /\ Parent(b) # b
         /\ \A c \in Loops : Size(c) \in Nat /\ c \in Calls
         /\ \A c \in Loops : \A i \in 0..(Size(c) - 1) :
              /\ Append(c, i) \in Calls1 /\ Append(c, i) # c
              /\ Parent(Append(c, i)) = c /\ Nth(Append(c, i)) = i
<1>1. Calls \subseteq Seq(Nat) /\ Loops \subseteq Calls
  BY DEF ForkJoinAssumption, Loops
<1>2. \A c \in Loops : Size(c) \in Nat /\ Children(c) = {Append(c, i) : i \in 0 .. Size(c) - 1}
  BY DEF ForkJoinAssumption
<1>3. ASSUME NEW c \in Seq(Nat), NEW i \in Nat
      PROVE  /\ Append(c, i) # << >> /\ Append(c, i) # c
             /\ Parent(Append(c, i)) = c /\ Nth(Append(c, i)) = i
  <2>1. Len(Append(c, i)) = Len(c) + 1 /\ Append(c, i)[Len(c) + 1] = i /\ Len(c) \in Nat
    OBVIOUS
  <2>2. SubSeq(Append(c, i), 1, Len(c)) = c
    OBVIOUS
  <2>3. Append(c, i) # << >> /\ Append(c, i) # c
    <3>1. Len(Append(c, i)) # 0 /\ Len(Append(c, i)) # Len(c)
      BY <2>1
    <3> QED  BY <3>1
  <2>4. PICK n \in Nat : n = Len(c)
    BY <2>1
  <2>5. Len(Append(c, i)) = n + 1 /\ (n + 1) - 1 = n
    BY <2>1, <2>4
  <2>6. Parent(Append(c, i)) = c
    BY <2>2, <2>4, <2>5 DEF Parent
  <2>7. Nth(Append(c, i)) = i
    BY <2>1, <2>4, <2>5 DEF Nth
  <2> QED  BY <2>3, <2>6, <2>7
<1>4. ASSUME NEW b \in Calls1
      PROVE  /\ Parent(b) \in Loops /\ Nth(b) \in 0..(Size(Parent(b)) - 1)
             /\ b = Append(Parent(b), Nth(b)) /\ Parent(b) # b
  <2>1. b \in Calls /\ b # << >>
    BY DEF Calls1
  <2>2. Parent(b) \in Loops /\ b \in Children(Parent(b))
    BY <2>1 DEF ForkJoinAssumption, Children
  <2>3. PICK i \in 0 .. Size(Parent(b)) - 1 : b = Append(Parent(b), i)
    BY <1>2, <2>2
  <2>4. Parent(b) \in Seq(Nat) /\ i \in Nat
    BY <1>1, <1>2, <2>2
  <2>5. PICK p : p = Parent(b)
    OBVIOUS
  <2>6. b = Append(p, i) /\ Nth(Append(p, i)) = i /\ Append(p, i) # p
    BY <1>3, <2>3, <2>4, <2>5
  <2>7. Nth(b) = i /\ Parent(b) # b
    BY <2>5, <2>6
  <2> QED  BY <2>2, <2>3, <2>7
<1>5. ASSUME NEW c \in Loops, NEW i \in 0..(Size(c) - 1)
      PROVE  /\ Append(c, i) \in Calls1 /\ Append(c, i) # c
             /\ Parent(Append(c, i)) = c /\ Nth(Append(c, i)) = i
  <2>1. Append(c, i) \in Children(c)
    BY <1>2
  <2>2. c \in Seq(Nat) /\ i \in Nat
    BY <1>1, <1>2
  <2> QED  BY <1>3, <2>1, <2>2 DEF Children, Calls1
<1> QED  BY <1>1, <1>2, <1>4, <1>5

(* A range that is split has two halves, neither of them empty.            *)
LEMMA Halves ==
  ASSUME NEW lo \in Nat, NEW hi \in Nat, hi - lo >= 2
  PROVE  Mid(lo, hi) \in Nat /\ lo < Mid(lo, hi) /\ Mid(lo, hi) < hi
<1>1. PICK q \in Nat : q = (9 * (hi - lo + 1)) \div 16 /\ 16 * q <= 9 * (hi - lo + 1)
                       /\ 9 * (hi - lo + 1) < 16 * q + 16
  OBVIOUS
<1> QED  BY <1>1 DEF Mid

-----------------------------------------------------------------------------
(* What a stack becomes when frames are put on its first m.                *)
Becomes(w, m, new) ==
  /\ stack' \in [Crew -> Seq(GoodFrames)]
  /\ \A u \in Crew \ {w} : stack'[u] = stack[u]
  /\ m \in Nat /\ m <= Len(stack[w]) /\ Len(stack'[w]) = m + Len(new)
  /\ \A d \in 1..m : stack'[w][d] = stack[w][d]
  /\ \A i \in 1..Len(new) : stack'[w][m + i] = new[i]

(* A sequence without its last.                                            *)
LEMMA AllButLast ==
  ASSUME NEW T, NEW s \in Seq(T), s # << >>
  PROVE  /\ Len(s) \in Nat /\ Len(s) > 0 /\ s[Len(s)] \in T
         /\ SubSeq(s, 1, Len(s) - 1) \in Seq(T)
         /\ Len(SubSeq(s, 1, Len(s) - 1)) = Len(s) - 1
         /\ \A d \in 1..(Len(s) - 1) : SubSeq(s, 1, Len(s) - 1)[d] = s[d]
<1>1. Len(s) \in Nat /\ Len(s) # 0
  BY EmptySeq, LenProperties
<1>2. s[Len(s)] \in T
  BY <1>1, ElementOfSeq
<1>4. \A i \in 1 .. Len(s) - 1 : i \in 1..Len(s) /\ i \in Int
  BY <1>1
<1>5. \A i \in 1 .. Len(s) - 1 : s[i] \in T
  BY <1>4, ElementOfSeq
<1>6. PICK n \in Nat : n = Len(s) - 1
  BY <1>1
<1>7. /\ SubSeq(s, 1, n) \in Seq(T)
      /\ Len(SubSeq(s, 1, n)) = IF 1 <= n THEN n - 1 + 1 ELSE 0
      /\ \A i \in 1 .. n - 1 + 1 : SubSeq(s, 1, n)[i] = s[1 + i - 1]
  BY <1>5, <1>6, SubSeqProperties
<1>8. n - 1 + 1 = n /\ (IF 1 <= n THEN n - 1 + 1 ELSE 0) = n /\ \A i \in 1..n : 1 + i - 1 = i
  BY <1>6
<1>9. /\ SubSeq(s, 1, n) \in Seq(T) /\ Len(SubSeq(s, 1, n)) = n
      /\ \A d \in 1..n : SubSeq(s, 1, n)[d] = s[d]
  BY <1>7, <1>8
<1> QED  BY <1>1, <1>2, <1>6, <1>9

(* A busy worker has an innermost frame, and a stack below it.           *)
LEMMA TopFrame ==
  ASSUME FJTypes, NEW w \in Crew, Busy(w)
  PROVE  /\ Len(stack[w]) \in Nat /\ Len(stack[w]) > 0 /\ Top(w) \in GoodFrames
         /\ stack[w] \in Seq(GoodFrames)
         /\ BelowTop(w) \in Seq(GoodFrames) /\ Len(BelowTop(w)) = Len(stack[w]) - 1
         /\ \A d \in 1..(Len(stack[w]) - 1) : BelowTop(w)[d] = stack[w][d]
<1>1. stack[w] \in Seq(GoodFrames) /\ stack[w] # << >>
  BY DEF FJTypes, Busy
<1> QED  BY <1>1, AllButLast DEF Top, BelowTop

(* Set, SetAndCall and Return replace the innermost frame by one, two or *)
(* none.                                                                 *)
LEMMA SetBecomes ==
  ASSUME FJTypes, NEW w \in Crew, Busy(w), NEW f \in GoodFrames, Set(w, f)
  PROVE  Becomes(w, Len(stack[w]) - 1, << f >>)
<1>1. stack' = [stack EXCEPT ![w] = Append(BelowTop(w), f)]
  BY DEF Set
<1>2. stack \in [Crew -> Seq(GoodFrames)]
  BY DEF FJTypes
<1> QED  BY <1>1, <1>2, TopFrame DEF Becomes

(* A call: the frame as it is now, and the callee above it.              *)
LEMMA CallBecomes ==
  ASSUME FJTypes, NEW w \in Crew, Busy(w), NEW f \in GoodFrames, NEW g \in GoodFrames,
         SetAndCall(w, f, g)
  PROVE  Becomes(w, Len(stack[w]) - 1, << f, g >>)
<1>1. stack' = [stack EXCEPT ![w] = Append(Append(BelowTop(w), f), g)]
  BY DEF SetAndCall
<1>2. stack \in [Crew -> Seq(GoodFrames)]
  BY DEF FJTypes
<1> QED  BY <1>1, <1>2, TopFrame DEF Becomes

(* A return: no frame in its place.                                      *)
LEMMA ReturnBecomes ==
  ASSUME FJTypes, NEW w \in Crew, Busy(w), Return(w)
  PROVE  Becomes(w, Len(stack[w]) - 1, << >>)
<1>1. stack' = [stack EXCEPT ![w] = BelowTop(w)]
  BY DEF Return
<1>2. stack \in [Crew -> Seq(GoodFrames)]
  BY DEF FJTypes
<1> QED  BY <1>1, <1>2, TopFrame DEF Becomes

-----------------------------------------------------------------------------
(* Who holds a call: a frame that stays, or one that is put on top.        *)
HeldBelow(w, m, b) ==
  \E u \in Crew : \E d \in 1..Len(stack[u]) : (u = w => d <= m) /\ Claims(stack[u][d], b)
(* Where the frames of a stack come from, and where they go.               *)
Placed(w, m, new) ==
  /\ \A u \in Crew : Len(stack[u]) \in Nat /\ Len(stack'[u]) \in Nat
  /\ m \in Nat /\ m <= Len(stack[w]) /\ Len(stack'[w]) = m + Len(new)
  /\ \A u \in Crew : \A d \in 1..Len(stack'[u]) :
       \/ (u = w => d <= m) /\ d \in 1..Len(stack[u]) /\ stack'[u][d] = stack[u][d]
       \/ u = w /\ d > m /\ d - m \in 1..Len(new) /\ stack'[u][d] = new[d - m]
  /\ \A u \in Crew : \A d \in 1..Len(stack[u]) : (u = w => d <= m) =>
       d \in 1..Len(stack'[u]) /\ stack'[u][d] = stack[u][d]
  /\ \A i \in 1..Len(new) :
       m + i \in 1..Len(stack'[w]) /\ stack'[w][m + i] = new[i]

(* Where the frames are afterwards: those below, and the new ones.       *)
LEMMA Positions ==
  ASSUME FJTypes, NEW w \in Crew, NEW m, NEW new, Len(new) \in Nat, Becomes(w, m, new)
  PROVE  Placed(w, m, new)
<1>0. PICK n \in Nat : n = Len(new)
  OBVIOUS
<1>1. \A u \in Crew : Len(stack[u]) \in Nat /\ Len(stack'[u]) \in Nat
  BY DEF FJTypes, Becomes
<1>2. /\ \A u \in Crew \ {w} : stack'[u] = stack[u]
      /\ m \in Nat /\ m <= Len(stack[w]) /\ Len(stack'[w]) = m + n
      /\ \A d \in 1..m : stack'[w][d] = stack[w][d]
      /\ \A i \in 1..n : stack'[w][m + i] = new[i]
  BY <1>0 DEF Becomes
<1>3. ASSUME NEW u \in Crew, NEW d \in 1..Len(stack'[u])
      PROVE  \/ (u = w => d <= m) /\ d \in 1..Len(stack[u]) /\ stack'[u][d] = stack[u][d]
             \/ u = w /\ d > m /\ d - m \in 1..n /\ stack'[u][d] = new[d - m]
  <2>1. CASE u # w
    BY <2>1, <1>2
  <2>2. CASE u = w /\ d <= m
    <3>1. d \in 1..m /\ d \in 1..Len(stack[w])
      BY <1>1, <1>2, <2>2
    <3> QED  BY <2>2, <3>1, <1>2
  <2>3. CASE u = w /\ d > m
    <3>1. d - m \in 1..n /\ m + (d - m) = d
      BY <1>1, <1>2, <2>3
    <3> QED  BY <2>3, <3>1, <1>2
  <2> QED  BY <1>1, <1>2, <2>1, <2>2, <2>3
<1>4. ASSUME NEW u \in Crew, NEW d \in 1..Len(stack[u]), u = w => d <= m
      PROVE  d \in 1..Len(stack'[u]) /\ stack'[u][d] = stack[u][d]
  <2>1. CASE u # w
    BY <2>1, <1>2
  <2>2. CASE u = w
    <3>1. d \in 1..m /\ d \in 1..Len(stack'[w])
      BY <1>1, <1>2, <1>4, <2>2
    <3> QED  BY <2>2, <3>1, <1>2
  <2> QED  BY <2>1, <2>2
<1>5. \A i \in 1..n : m + i \in 1..Len(stack'[w]) /\ stack'[w][m + i] = new[i]
  BY <1>1, <1>2
<1> QED  BY <1>0, <1>1, <1>2, <1>3, <1>4, <1>5 DEF Placed

(* Who holds an index afterwards: a frame below, of another worker, or a *)
(* new one.                                                              *)
LEMMA HeldAfter ==
  ASSUME FJTypes, NEW w \in Crew, NEW m, NEW new, Len(new) \in Nat, Becomes(w, m, new), NEW b
  PROVE  HeldOnStacks(b)' <=> HeldBelow(w, m, b) \/ \E i \in 1..Len(new) : Claims(new[i], b)
<1>0. Placed(w, m, new)
  BY Positions
<1>1. HeldOnStacks(b)' <=> \E u \in Crew : \E d \in 1..Len(stack'[u]) : Claims(stack'[u][d], b)
  BY DEF HeldOnStacks, Claims, Names, Owns, Parent, Nth
<1>2. HeldOnStacks(b)' => HeldBelow(w, m, b) \/ \E i \in 1..Len(new) : Claims(new[i], b)
  BY <1>0, <1>1, Zenon DEF HeldBelow, Placed
<1>3. HeldBelow(w, m, b) => HeldOnStacks(b)'
  BY <1>0, <1>1, Zenon DEF HeldBelow, Placed
<1>4. (\E i \in 1..Len(new) : Claims(new[i], b)) => HeldOnStacks(b)'
  BY <1>0, <1>1, Zenon DEF Placed
<1> QED  BY <1>2, <1>3, <1>4

(* The same for the frames that there were.                                *)
LEMMA HeldBefore ==
  ASSUME FJTypes, NEW w \in Crew, Busy(w), NEW b
  PROVE  /\ HeldOnStacks(b) <=> HeldBelow(w, Len(stack[w]) - 1, b) \/ Claims(Top(w), b)
         /\ HeldOnStacks(b) <=> HeldBelow(w, Len(stack[w]), b)
<1>1. Len(stack[w]) \in Nat /\ Len(stack[w]) > 0 /\ Top(w) = stack[w][Len(stack[w])]
  BY TopFrame DEF Top
<1>2. \A d \in 1..Len(stack[w]) : d <= Len(stack[w]) /\ (d <= Len(stack[w]) - 1 \/ d = Len(stack[w]))
  BY <1>1
<1>3. Len(stack[w]) \in 1..Len(stack[w])
  BY <1>1
<1> QED  BY <1>1, <1>2, <1>3, Zenon DEF HeldOnStacks, HeldBelow

(* What the top frame holds nobody below it does, nor anywhere else.       *)
LEMMA TopApart ==
  ASSUME FJTypes, FramesApart, NEW w \in Crew, Busy(w), NEW b \in Calls, Claims(Top(w), b)
  PROVE  ~HeldBelow(w, Len(stack[w]) - 1, b)
<1>1. Len(stack[w]) \in Nat /\ Len(stack[w]) > 0 /\ Top(w) = stack[w][Len(stack[w])]
  BY TopFrame DEF Top
<1>2. Len(stack[w]) \in 1..Len(stack[w]) /\ ~(Len(stack[w]) <= Len(stack[w]) - 1)
  BY <1>1
<1>3. ASSUME NEW u \in Crew, NEW d \in 1..Len(stack[u]), Claims(stack[u][d], b)
      PROVE  u = w /\ d = Len(stack[w])
  <2>1. Len(stack[w]) \in 1..Len(stack[w]) /\ Claims(stack[w][Len(stack[w])], b)
    BY <1>1, <1>2
  <2> QED  BY <2>1, <1>3 DEF FramesApart
<1> QED  BY <1>2, <1>3, Zenon DEF HeldBelow

(* No index is held twice afterwards if the new frames hold none twice,  *)
(* and none that those left do.                                          *)
LEMMA FramesStayApart ==
  ASSUME FJTypes, FramesApart, NEW w \in Crew, NEW m, NEW new, Len(new) \in Nat,
         Becomes(w, m, new),
         \A b \in Calls : \A i \in 1..Len(new) : Claims(new[i], b) => ~HeldBelow(w, m, b),
         \A b \in Calls : \A i, j \in 1..Len(new) :
            Claims(new[i], b) /\ Claims(new[j], b) => i = j
  PROVE  FramesApart'
<1> DEFINE Old(u, d) == u = w => d <= m
<1>0. PICK n \in Nat : n = Len(new)
  OBVIOUS
<1>2. Placed(w, m, new)
  BY Positions
<1>1. m \in Nat /\ \A u \in Crew : Len(stack'[u]) \in Nat
  BY <1>2 DEF Placed
<1>3. ASSUME NEW u \in Crew, NEW d \in 1..Len(stack'[u]), Old(u, d)
      PROVE  d \in 1..Len(stack[u]) /\ stack'[u][d] = stack[u][d]
  <2>1. ~(u = w /\ d > m)
    BY <1>1, <1>3
  <2> QED  BY <2>1, <1>2, <1>3, Zenon DEF Placed
<1>4. ASSUME NEW u \in Crew, NEW d \in 1..Len(stack'[u]), ~Old(u, d)
      PROVE  u = w /\ d - m \in 1..n /\ stack'[u][d] = new[d - m]
  BY <1>0, <1>2, <1>4, Zenon DEF Placed
<1>5. ASSUME NEW b \in Calls, NEW u \in Crew, NEW v \in Crew,
             NEW d \in 1..Len(stack'[u]), NEW e \in 1..Len(stack'[v]),
             Claims(stack'[u][d], b), Claims(stack'[v][e], b)
      PROVE  u = v /\ d = e
  <2>1. CASE Old(u, d) /\ Old(v, e)
    <3>1. /\ d \in 1..Len(stack[u]) /\ stack'[u][d] = stack[u][d]
          /\ e \in 1..Len(stack[v]) /\ stack'[v][e] = stack[v][e]
      BY <1>3, <2>1
    <3> QED  BY <3>1, <1>5 DEF FramesApart
  <2>2. CASE Old(u, d) /\ ~Old(v, e)
    <3>1. d \in 1..Len(stack[u]) /\ stack'[u][d] = stack[u][d]
      BY <1>3, <2>2
    <3>2. HeldBelow(w, m, b)
      BY <3>1, <1>5, <2>2 DEF HeldBelow
    <3>3. e - m \in 1..n /\ stack'[v][e] = new[e - m]
      BY <1>4, <2>2
    <3> QED  BY <1>0, <3>2, <3>3, <1>5
  <2>3. CASE ~Old(u, d) /\ Old(v, e)
    <3>1. e \in 1..Len(stack[v]) /\ stack'[v][e] = stack[v][e]
      BY <1>3, <2>3
    <3>2. HeldBelow(w, m, b)
      BY <3>1, <1>5, <2>3 DEF HeldBelow
    <3>3. d - m \in 1..n /\ stack'[u][d] = new[d - m]
      BY <1>4, <2>3
    <3> QED  BY <1>0, <3>2, <3>3, <1>5
  <2>4. CASE ~Old(u, d) /\ ~Old(v, e)
    <3>1. /\ u = w /\ d - m \in 1..n /\ stack'[u][d] = new[d - m]
          /\ v = w /\ e - m \in 1..n /\ stack'[v][e] = new[e - m]
      BY <1>4, <2>4
    <3>2. d - m = e - m
      BY <1>0, <1>5, <3>1
    <3> QED  BY <1>1, <3>1, <3>2
  <2> QED  BY <2>1, <2>2, <2>3, <2>4
<1> QED  BY <1>5 DEF FramesApart, Claims, Names, Owns, Parent, Nth

-----------------------------------------------------------------------------
(* What becomes of the deques when a job is pushed, popped or taken.       *)
LEMMA JobPushed ==
  ASSUME FJTypes, NEW w \in Crew, NEW j \in GoodJobs,
         deque' = [deque EXCEPT ![w] = Append(@, j)],
         \A b \in Calls : OwnsJob(j, b) => ~HeldInDeques(b)
  PROVE  /\ deque' \in [Crew -> Seq(GoodJobs)]
         /\ \A b \in Calls : HeldInDeques(b)' <=> HeldInDeques(b) \/ OwnsJob(j, b)
         /\ JobsApart => JobsApart'
<1>1. deque \in [Crew -> Seq(GoodJobs)]
  BY DEF FJTypes
<1>2. /\ deque' \in [Crew -> Seq(GoodJobs)]
      /\ \A u \in Crew : u # w => deque'[u] = deque[u]
      /\ \A u \in Crew : Len(deque[u]) \in Nat
      /\ Len(deque'[w]) = Len(deque[w]) + 1 /\ deque'[w][Len(deque[w]) + 1] = j
      /\ \A k \in 1..Len(deque[w]) : deque'[w][k] = deque[w][k]
  BY <1>1
<1>3. ASSUME NEW u \in Crew, NEW k \in 1..Len(deque'[u])
      PROVE  \/ k \in 1..Len(deque[u]) /\ deque'[u][k] = deque[u][k]
             \/ u = w /\ k = Len(deque[w]) + 1 /\ deque'[u][k] = j
  BY <1>2
<1>4. ASSUME NEW u \in Crew, NEW k \in 1..Len(deque[u])
      PROVE  k \in 1..Len(deque'[u]) /\ deque'[u][k] = deque[u][k]
  BY <1>2
<1>5. ASSUME NEW b \in Calls
      PROVE  HeldInDeques(b)' <=> HeldInDeques(b) \/ OwnsJob(j, b)
  <2>1. HeldInDeques(b)' <=> \E u \in Crew : \E k \in 1..Len(deque'[u]) : OwnsJob(deque'[u][k], b)
    BY DEF HeldInDeques, OwnsJob, Parent, Nth
  <2>2. HeldInDeques(b)' => HeldInDeques(b) \/ OwnsJob(j, b)
    BY <2>1, <1>3, Zenon DEF HeldInDeques
  <2>3. HeldInDeques(b) => HeldInDeques(b)'
    BY <2>1, <1>4, Zenon DEF HeldInDeques
  <2>4. Len(deque[w]) + 1 \in 1..Len(deque'[w])
    BY <1>2
  <2>5. OwnsJob(j, b) => HeldInDeques(b)'
    BY <2>1, <2>4, <1>2, Zenon
  <2> QED  BY <2>2, <2>3, <2>5
<1>6. ASSUME JobsApart, NEW b \in Calls, NEW u \in Crew, NEW v \in Crew,
             NEW k \in 1..Len(deque'[u]), NEW l \in 1..Len(deque'[v]),
             OwnsJob(deque'[u][k], b), OwnsJob(deque'[v][l], b)
      PROVE  u = v /\ k = l
  <2>1. HeldInDeques(b) => ~OwnsJob(j, b)
    OBVIOUS
  <2>2. k \in 1..Len(deque[u]) /\ deque'[u][k] = deque[u][k] => HeldInDeques(b)
    BY <1>6, Zenon DEF HeldInDeques
  <2>3. l \in 1..Len(deque[v]) /\ deque'[v][l] = deque[v][l] => HeldInDeques(b)
    BY <1>6, Zenon DEF HeldInDeques
  <2>4. \/ /\ k \in 1..Len(deque[u]) /\ deque'[u][k] = deque[u][k]
           /\ l \in 1..Len(deque[v]) /\ deque'[v][l] = deque[v][l]
        \/ u = w /\ v = w /\ k = Len(deque[w]) + 1 /\ l = Len(deque[w]) + 1
    BY <2>1, <2>2, <2>3, <1>3, <1>6
  <2> QED  BY <2>4, <1>6, Zenon DEF JobsApart
<1>7. ASSUME JobsApart PROVE JobsApart'
  <2>1. \A b \in Calls : \A u, v \in Crew :
          \A k \in 1..Len(deque'[u]), l \in 1..Len(deque'[v]) :
            OwnsJob(deque'[u][k], b) /\ OwnsJob(deque'[v][l], b) => u = v /\ k = l
    BY <1>6, <1>7
  <2> QED  BY <2>1 DEF JobsApart, OwnsJob, Parent, Nth
<1> QED  BY <1>2, <1>5, <1>7

(* Deques lose the job at k of v, the first or the last of them.           *)
Loses(v, k) ==
  /\ deque' \in [Crew -> Seq(GoodJobs)]
  /\ \A u \in Crew : u # v => deque'[u] = deque[u]
  /\ k \in 1..Len(deque[v]) /\ Len(deque'[v]) = Len(deque[v]) - 1
  /\ \/ k = Len(deque[v]) /\ \A i \in 1..(Len(deque[v]) - 1) : deque'[v][i] = deque[v][i]
     \/ k = 1 /\ \A i \in 1..(Len(deque[v]) - 1) : deque'[v][i] = deque[v][i + 1]

(* A job is taken out of a deque: what it spans is in no deque any more, *)
(* and nothing else is missing.                                          *)
LEMMA JobLost ==
  ASSUME FJTypes, JobsApart, NEW v \in Crew, NEW k, Loses(v, k)
  PROVE  /\ JobsApart'
         /\ \A b \in Calls : HeldInDeques(b) <=> HeldInDeques(b)' \/ OwnsJob(deque[v][k], b)
         /\ \A b \in Calls : ~(HeldInDeques(b)' /\ OwnsJob(deque[v][k], b))
<1>1. \A u \in Crew : Len(deque[u]) \in Nat /\ Len(deque'[u]) \in Nat
  BY DEF FJTypes, Loses
<1> DEFINE From(u, i) == IF u = v /\ k = 1 /\ k # Len(deque[v]) THEN i + 1 ELSE i
<1>2. ASSUME NEW u \in Crew, NEW i \in 1..Len(deque'[u])
      PROVE  /\ From(u, i) \in 1..Len(deque[u]) /\ deque'[u][i] = deque[u][From(u, i)]
             /\ ~(u = v /\ From(u, i) = k)
  <2>1. CASE u # v
    BY <2>1 DEF Loses
  <2>2. CASE u = v /\ k = Len(deque[v])
    <3>1. i \in 1..(Len(deque[v]) - 1)
      BY <1>1, <2>2 DEF Loses
    <3>2. deque'[v][i] = deque[v][i]
      <4>1. CASE k = 1
        <5>1. Len(deque[v]) = 1
          BY <2>2, <4>1
        <5> QED  BY <3>1, <5>1
      <4> QED  BY <3>1, <4>1 DEF Loses
    <3> QED  BY <1>1, <2>2, <3>1, <3>2
  <2>3. CASE u = v /\ k # Len(deque[v])
    <3>1. k = 1 /\ \A x \in 1..(Len(deque[v]) - 1) : deque'[v][x] = deque[v][x + 1]
      BY <2>3 DEF Loses
    <3>2. i \in 1..(Len(deque[v]) - 1)
      BY <1>1, <2>3 DEF Loses
    <3> QED  BY <1>1, <2>3, <3>1, <3>2
  <2> QED  BY <2>1, <2>2, <2>3
<1>3. ASSUME NEW u \in Crew, NEW x \in 1..Len(deque[u]), ~(u = v /\ x = k)
      PROVE  \E i \in 1..Len(deque'[u]) : deque'[u][i] = deque[u][x]
  <2>1. CASE u # v
    BY <2>1 DEF Loses
  <2>2. CASE u = v /\ k = Len(deque[v])
    <3>1. x \in 1..(Len(deque[v]) - 1) /\ x \in 1..Len(deque'[v])
      BY <1>1, <1>3, <2>2 DEF Loses
    <3>2. From(v, x) = x
      BY <2>2
    <3> QED  BY <1>2, <2>2, <3>1, <3>2
  <2>3. CASE u = v /\ k # Len(deque[v])
    <3>1. k = 1
      BY <2>3 DEF Loses
    <3>2. x - 1 \in 1..Len(deque'[v]) /\ (x - 1) + 1 = x
      BY <1>1, <1>3, <2>3, <3>1 DEF Loses
    <3>3. From(v, x - 1) = x
      BY <2>3, <3>1, <3>2
    <3> QED  BY <1>2, <2>3, <3>2, <3>3
  <2> QED  BY <2>1, <2>2, <2>3
<1>4. \A u \in Crew : \A i, l \in 1..Len(deque'[u]) : From(u, i) = From(u, l) => i = l
  BY <1>1
<1> HIDE DEF From
<1>5. v \in Crew /\ k \in 1..Len(deque[v])
  BY DEF Loses
<1>6. ASSUME NEW b \in Calls
      PROVE  /\ HeldInDeques(b) <=> HeldInDeques(b)' \/ OwnsJob(deque[v][k], b)
             /\ ~(HeldInDeques(b)' /\ OwnsJob(deque[v][k], b))
  <2>1. HeldInDeques(b)' <=> \E u \in Crew : \E i \in 1..Len(deque'[u]) : OwnsJob(deque'[u][i], b)
    BY DEF HeldInDeques, OwnsJob, Parent, Nth
  <2>2. HeldInDeques(b)' => HeldInDeques(b)
    BY <2>1, <1>2, Zenon DEF HeldInDeques
  <2>3. OwnsJob(deque[v][k], b) => HeldInDeques(b)
    BY <1>5, Zenon DEF HeldInDeques
  <2>4. HeldInDeques(b) => HeldInDeques(b)' \/ OwnsJob(deque[v][k], b)
    BY <2>1, <1>3, Zenon DEF HeldInDeques
  <2>5. ASSUME HeldInDeques(b)', OwnsJob(deque[v][k], b)
        PROVE  FALSE
    <3>1. PICK u \in Crew : \E i \in 1..Len(deque'[u]) : OwnsJob(deque'[u][i], b)
      BY <2>1, <2>5
    <3>2. PICK i \in 1..Len(deque'[u]) : OwnsJob(deque'[u][i], b)
      BY <3>1
    <3>3. From(u, i) \in 1..Len(deque[u]) /\ OwnsJob(deque[u][From(u, i)], b)
      BY <3>2, <1>2
    <3>4. u = v /\ From(u, i) = k
      BY <3>3, <2>5, <1>5 DEF JobsApart
    <3> QED  BY <3>2, <3>4, <1>2
  <2> QED  BY <2>2, <2>3, <2>4, <2>5
<1>7. ASSUME NEW b \in Calls, NEW u \in Crew, NEW t \in Crew,
             NEW i \in 1..Len(deque'[u]), NEW l \in 1..Len(deque'[t]),
             OwnsJob(deque'[u][i], b), OwnsJob(deque'[t][l], b)
      PROVE  u = t /\ i = l
  <2>2. /\ From(u, i) \in 1..Len(deque[u]) /\ OwnsJob(deque[u][From(u, i)], b)
        /\ From(t, l) \in 1..Len(deque[t]) /\ OwnsJob(deque[t][From(t, l)], b)
    BY <1>2, <1>7
  <2>1. u = t /\ From(u, i) = From(t, l)
    BY <2>2 DEF JobsApart
  <2> QED  BY <2>1, <1>4
<1>8. JobsApart'
  <2>1. JobsApart' <=>
          \A b \in Calls : \A u, t \in Crew :
            \A i \in 1..Len(deque'[u]), l \in 1..Len(deque'[t]) :
              OwnsJob(deque'[u][i], b) /\ OwnsJob(deque'[t][l], b) => u = t /\ i = l
    BY Zenon DEF JobsApart, OwnsJob, Parent, Nth
  <2> QED  BY <1>7, <2>1, Zenon
<1> QED  BY <1>6, <1>8

-----------------------------------------------------------------------------
(* A call becomes active when its loop begins and stops when it returns,   *)
(* and what has begun has begun for good.                                  *)
Fresh(b) == b \in Calls1 /\ ~Begun(Parent(b))
Flows ==
  /\ \A b \in Calls : Active(b)' => Active(b) \/ Fresh(b)
  /\ \A b \in Calls : Active(b) => Active(b)' \/ b \in returned'
  /\ \A b \in Calls : Begun(b) => Begun(b)'
  /\ returned \subseteq returned'
  /\ \A b \in Calls1 : Begun(Parent(b))' => Begun(Parent(b)) \/ Active(b)'

(* What is no longer active of a loop that has begun does not become so. *)
LEMMA QuietStays ==
  ASSUME Flows, NEW c, Begun(c), NEW a, NEW z, Silent(c, a, z)
  PROVE  Silent(c, a, z)'
<1>1. \A b \in Calls1 : Parent(b) = c /\ a <= Nth(b) /\ Nth(b) < z => ~Active(b)
  BY DEF Silent
<1>2. \A b \in Calls1 : b \in Calls
  BY DEF Calls1
<1>3. \A b \in Calls1 : Parent(b) = c => ~Fresh(b)
  BY DEF Fresh
<1>4. \A b \in Calls1 : Parent(b) = c /\ a <= Nth(b) /\ Nth(b) < z => ~Active(b)'
  BY <1>1, <1>2, <1>3, Zenon DEF Flows
<1> QED  BY <1>4 DEF Silent, Calls1, Parent, Nth

(* No index is forgotten: what a step lets go of has returned.           *)
LEMMA NoneLostStep ==
  ASSUME ForkJoinAssumption, NoneLost, Flows
  PROVE  NoneLost'
<1>1. ASSUME NEW b \in Calls1, Begun(Parent(b))'
      PROVE  Active(b)' \/ b \in returned'
  <2>1. b \in Calls
    BY DEF Calls1
  <2>2. CASE Active(b)'
    BY <2>2
  <2>3. CASE ~Active(b)'
    <3>1. Begun(Parent(b))
      BY <1>1, <2>3, Zenon DEF Flows
    <3>2. Active(b) \/ b \in returned
      BY <3>1, Zenon DEF NoneLost
    <3>3. Active(b) => Active(b)' \/ b \in returned'
      BY <2>1, Zenon DEF Flows
    <3>4. b \in returned => b \in returned'
      BY DEF Flows
    <3> QED  BY <3>2, <3>3, <3>4
  <2> QED  BY <2>2, <2>3
<1>2. \A b \in Calls1 : Parent(b)' = Parent(b)
  BY DEF Parent
<1> QED  BY <1>1, <1>2 DEF NoneLost, Calls1, Parent

(* So a frame that is clean stays so.                                    *)
LEMMA CleanStays ==
  ASSUME Flows, NEW f, NEW top \in BOOLEAN, Begun(f.call), Clean(f, top)
  PROVE  Clean(f, top)'
<1>1. \A a, z : Silent(f.call, a, z) => Silent(f.call, a, z)'
  BY QuietStays
<1> QED  BY <1>1, Zenon DEF Clean, Is, Mid

(* Frames stay clean if the new ones are, and the one that is innermost  *)
(* now.                                                                  *)
LEMMA CleanStep ==
  ASSUME FJTypes, NEW w \in Crew, NEW m, NEW new, Len(new) \in Nat, Becomes(w, m, new),
         Flows, Families, CleanLeft,
         \A f : m > 0 /\ f = stack[w][m] => Clean(f, Len(new) = 0)',
         \A i \in 1..Len(new) : Clean(new[i], i = Len(new))',
         \A j \in finished' : j \in finished \/ Silent(j.call, j.lo, j.hi)'
  PROVE  CleanLeft'
<1>0. PICK n \in Nat : n = Len(new)
  OBVIOUS
<1>1. Placed(w, m, new)
  BY Positions
<1>2. ASSUME NEW u \in Crew, NEW d \in 1..Len(stack'[u]), NEW f, NEW t \in BOOLEAN,
             f = stack'[u][d], t = (d = Len(stack'[u]))
      PROVE  Clean(f, t)'
  <2>1. CASE u = w /\ d > m
    <3>1. ~((u = w => d <= m) /\ d \in 1..Len(stack[u]) /\ stack'[u][d] = stack[u][d])
      BY <1>1, <2>1 DEF Placed
    <3>2. d - m \in 1..Len(new) /\ f = new[d - m]
      BY <1>1, <1>2, <3>1, Zenon DEF Placed
    <3>3. t = (d - m = Len(new))
      BY <1>0, <1>1, <1>2, <2>1 DEF Placed
    <3> QED  BY <3>2, <3>3
  <2>2. CASE u = w /\ d = m
    <3>1. f = stack[w][m] /\ m > 0
      <4>1. ~(d > m) /\ m > 0
        BY <1>1, <2>2 DEF Placed
      <4> QED  BY <1>1, <1>2, <2>2, <4>1, Zenon DEF Placed
    <3>2. t = (Len(new) = 0)
      BY <1>0, <1>1, <1>2, <2>2 DEF Placed
    <3> QED  BY <3>1, <3>2
  <2>3. CASE u # w \/ d < m
    <3>1. d \in 1..Len(stack[u]) /\ f = stack[u][d]
      <4>1. ~(u = w /\ d > m)
        BY <1>1, <2>3 DEF Placed
      <4> QED  BY <4>1, <1>1, <1>2, Zenon DEF Placed
    <3>2. t = (d = Len(stack[u]))
      <4>1. CASE u # w
        BY <1>2, <4>1 DEF Becomes
      <4>2. CASE u = w
        BY <1>0, <1>1, <1>2, <2>3, <4>2 DEF Placed
      <4> QED  BY <4>1, <4>2
    <3>3. Clean(f, t) /\ Begun(f.call)
      BY <3>1, <3>2 DEF CleanLeft, Families
    <3> QED  BY <3>3, CleanStays
  <2>4. d < m \/ d = m \/ d > m
    BY <1>1 DEF Placed
  <2> QED  BY <2>1, <2>2, <2>3, <2>4
<1>3. ASSUME NEW j \in finished'
      PROVE  Silent(j.call, j.lo, j.hi)'
  <2>1. CASE j \in finished
    BY <2>1, QuietStays DEF CleanLeft, Families
  <2>2. CASE j \notin finished
    BY <2>2
  <2> QED  BY <2>1, <2>2
<1>4. \A u \in Crew : \A d \in 1..Len(stack'[u]) : Clean(stack[u][d], d = Len(stack[u]))'
  <2> TAKE u \in Crew
  <2> TAKE d \in 1..Len(stack'[u])
  <2>1. PICK f : f = stack'[u][d]
    OBVIOUS
  <2>2. PICK t \in BOOLEAN : t = (d = Len(stack'[u]))
    OBVIOUS
  <2>3. Clean(f, t)'
    BY <2>1, <2>2, <1>2
  <2> QED  BY <2>1, <2>2, <2>3
<1> QED  BY <1>3, <1>4 DEF CleanLeft

(* The calls that frames and jobs are about are calls of loops there     *)
(* are.                                                                  *)
LEMMA FrameCalls ==
  ASSUME FJTypes, ForkJoinAssumption
  PROVE  /\ \A u \in Crew : \A d \in 1..Len(stack[u]) :
              stack[u][d] \in GoodFrames /\ stack[u][d].call \in Calls
         /\ \A u \in Crew : \A k \in 1..Len(deque[u]) : deque[u][k] \in GoodJobs
         /\ \A j \in finished : j.call \in Calls
         /\ \A j \in GoodJobs : j.call \in Calls /\ j.call \in Loops
<1>1. Loops \subseteq Calls
  BY CallParts
<1>2. \A j \in GoodJobs : j.call \in Loops
  BY DEF GoodJobs, Job
<1>3. \A f \in GoodFrames : f.call \in Calls
  BY <1>1 DEF GoodFrames, GoodLoops, GoodRanges, GoodBodies
<1>4. ASSUME NEW u \in Crew, NEW d \in 1..Len(stack[u]) PROVE stack[u][d] \in GoodFrames
  <2>1. stack[u] \in Seq(GoodFrames)
    BY DEF FJTypes
  <2> QED  BY <2>1, ElementOfSeq
<1>5. ASSUME NEW u \in Crew, NEW k \in 1..Len(deque[u]) PROVE deque[u][k] \in GoodJobs
  <2>1. deque[u] \in Seq(GoodJobs)
    BY DEF FJTypes
  <2> QED  BY <2>1, ElementOfSeq
<1>6. finished \subseteq GoodJobs
  BY DEF FJTypes
<1> QED  BY <1>1, <1>2, <1>3, <1>4, <1>5, <1>6

(* Indices are active while their loop runs, if those that begin in the  *)
(* step have a loop that does.                                           *)
LEMMA FamiliesStep ==
  ASSUME FJTypes, ForkJoinAssumption,
         NEW w \in Crew, NEW m, NEW new, Len(new) \in Nat, Becomes(w, m, new),
         Flows, Families,
         \A b \in Calls1 : Active(b)' => Running(Parent(b))',
         \A b \in returned' : b \in returned \/ Active(b),
         \A i \in 1..Len(new) : Begun(new[i].call)',
         \A j \in finished' : j \in finished \/ Begun(j.call)' 
  PROVE  Families'
<1>1. \A b \in Calls : Begun(b) => Begun(b)'
  BY DEF Flows
<1>2. ASSUME NEW b \in Calls1, b \in returned' PROVE Begun(Parent(b))'
  <2>1. Parent(b) \in Calls
    BY CallParts
  <2>2. b \in returned => Begun(Parent(b))
    BY DEF Families
  <2>3. Active(b) => Begun(Parent(b))
    BY DEF Families, Begun
  <2>4. Begun(Parent(b))
    BY <1>2, <2>2, <2>3
  <2>5. PICK p \in Calls : p = Parent(b)
    BY <2>1
  <2>6. Begun(p)'
    BY <1>1, <2>4, <2>5
  <2> QED  BY <2>5, <2>6
<1>3. Placed(w, m, new)
  BY Positions
<1>4. ASSUME NEW u \in Crew, NEW d \in 1..Len(stack'[u]), NEW c, c = stack'[u][d].call
      PROVE  Begun(c)'
  <2>1. CASE (u = w => d <= m) /\ d \in 1..Len(stack[u]) /\ stack'[u][d] = stack[u][d]
    <3>1. c \in Calls /\ Begun(c)
      BY <2>1, <1>4, FrameCalls DEF Families
    <3> QED  BY <1>1, <3>1
  <2>2. CASE u = w /\ d > m /\ d - m \in 1..Len(new) /\ stack'[u][d] = new[d - m]
    BY <2>2, <1>4
  <2> QED  BY <1>3, <2>1, <2>2 DEF Placed
<1>5. ASSUME NEW j \in finished', NEW c, c = j.call PROVE Begun(c)'
  <2>1. CASE j \in finished
    <3>1. c \in Calls /\ Begun(c)
      BY <2>1, <1>5, FrameCalls DEF Families
    <3> QED  BY <1>1, <3>1
  <2> QED  BY <2>1, <1>5
<1>6. (\A b \in Calls1 : Active(b) => Running(Parent(b)))'
  BY DEF Calls1
<1>7. (\A b \in Calls1 : b \in returned => Begun(Parent(b)))'
  BY <1>2 DEF Calls1
<1>8. (\A u \in Crew : \A d \in 1..Len(stack[u]) : Begun(stack[u][d].call))'
  BY <1>4
<1>9. (\A j \in finished : Begun(j.call))'
  BY <1>5
<1> QED  BY <1>6, <1>7, <1>8, <1>9 DEF Families

(* Each frame is called by the one below, if the new ones are.           *)
LEMMA StackedStep ==
  ASSUME FJTypes, NEW w \in Crew, NEW m, NEW new, Len(new) \in Nat, Becomes(w, m, new),
         Stacked, granularity' = granularity,
         m > 0 /\ Len(new) > 0 => Above(stack[w][m], new[1]),
         \A i \in 1..(Len(new) - 1) : Above(new[i], new[i + 1]),
         \A i \in 1..Len(new) : new[i].kind = "loop" /\ granularity # 0 => new[i].next = 0
  PROVE  Stacked'
<1>0. PICK n \in Nat : n = Len(new)
  OBVIOUS
<1>1. Placed(w, m, new)
  BY Positions
<1>2. ASSUME NEW u \in Crew, NEW d \in 1..(Len(stack'[u]) - 1)
      PROVE  Above(stack'[u][d], stack'[u][d + 1])
  <2>1. CASE u # w
    BY <2>1 DEF Becomes, Stacked
  <2>2. CASE u = w /\ d < m
    <3>1. d \in 1..Len(stack[w]) /\ d + 1 \in 1..Len(stack[w]) /\ d \in 1..(Len(stack[w]) - 1)
          /\ d <= m /\ d + 1 <= m
      BY <1>1, <2>2 DEF Placed
    <3>2. stack'[w][d] = stack[w][d] /\ stack'[w][d + 1] = stack[w][d + 1]
      BY <1>1, <3>1, Zenon DEF Placed
    <3> QED  BY <2>2, <3>1, <3>2 DEF Stacked
  <2>3. CASE u = w /\ d = m
    <3>1. m \in 1..Len(stack[w]) /\ m <= m /\ n > 0 /\ 1 \in 1..n
      BY <1>0, <1>1, <2>3 DEF Placed
    <3>2. stack'[w][m] = stack[w][m] /\ stack'[w][m + 1] = new[1]
      BY <1>0, <1>1, <3>1, Zenon DEF Placed
    <3> QED  BY <1>0, <2>3, <3>1, <3>2
  <2>4. CASE u = w /\ d > m
    <3>1. d - m \in 1..(n - 1) /\ (d - m) + 1 \in 1..n /\ d - m \in 1..n
          /\ m + (d - m) = d /\ m + ((d - m) + 1) = d + 1
      BY <1>0, <1>1, <2>4 DEF Placed
    <3>2. stack'[w][m + (d - m)] = new[d - m] /\ stack'[w][m + ((d - m) + 1)] = new[(d - m) + 1]
      BY <1>0, <1>1, <3>1, Zenon DEF Placed
    <3>3. Above(new[d - m], new[(d - m) + 1])
      BY <1>0, <3>1
    <3> QED  BY <2>4, <3>1, <3>2, <3>3
  <2> QED  BY <1>1, <2>1, <2>2, <2>3, <2>4 DEF Placed
<1>3. ASSUME NEW u \in Crew, NEW d \in 1..Len(stack'[u]),
             stack'[u][d].kind = "loop", granularity # 0
      PROVE  stack'[u][d].next = 0
  <2>1. CASE (u = w => d <= m) /\ d \in 1..Len(stack[u]) /\ stack'[u][d] = stack[u][d]
    BY <2>1, <1>3 DEF Stacked
  <2>2. CASE u = w /\ d > m /\ d - m \in 1..Len(new) /\ stack'[u][d] = new[d - m]
    BY <2>2, <1>3
  <2> QED  BY <1>1, <2>1, <2>2 DEF Placed
<1> QED  BY <1>2, <1>3 DEF Stacked, Above, Is, Mid

(* The first index of each range has begun or is about to, if it is so   *)
(* for the ranges the step touches.                                      *)
LEMMA FirstStep ==
  ASSUME FJTypes, ForkJoinAssumption,
         NEW w \in Crew, NEW m, NEW new, Len(new) \in Nat, Becomes(w, m, new),
         Flows, FirstIndex,
         \A b : \A d \in 1..Len(stack[w]) : d > m /\ Starts(stack[w][d], b) =>
            Begun(b)' \/ \E i \in 1..Len(new) : Starts(new[i], b),
         \A b : \A i \in 1..Len(new) : new[i].kind = "range" /\ new[i].lo < new[i].hi
                  /\ b = First(new[i]) =>
            Begun(b)' \/ \E j \in 1..Len(new) : i <= j /\ Starts(new[j], b)
  PROVE  FirstIndex'
<1>0. PICK n \in Nat : n = Len(new)
  OBVIOUS
<1>1. Placed(w, m, new)
  BY Positions
<1>2. \A b \in Calls : Begun(b) => Begun(b)'
  BY DEF Flows
<1>3. ASSUME NEW u \in Crew, NEW d \in 1..Len(stack'[u]), NEW f, NEW b,
             f = stack'[u][d], f.kind = "range", f.lo < f.hi, b = First(f)
      PROVE  Begun(b)' \/ \E e \in 1..Len(stack'[u]) : d <= e /\ Starts(stack'[u][e], b)
  <2>1. CASE (u = w => d <= m) /\ d \in 1..Len(stack[u]) /\ stack'[u][d] = stack[u][d]
    <3>1. b \in Calls
      <4>1. f \in GoodFrames
        BY <2>1, <1>3, FrameCalls
      <4>2. f.call \in Loops /\ f.lo \in 0..(Size(f.call) - 1)
        BY <4>1, <1>3, CallParts DEF GoodFrames, GoodLoops, GoodRanges, GoodBodies
      <4> QED  BY <4>2, <1>3, CallParts DEF First, Calls1
    <3>2. Begun(b) \/ \E e \in 1..Len(stack[u]) : d <= e /\ Starts(stack[u][e], b)
      BY <2>1, <1>3 DEF FirstIndex
    <3>3. CASE Begun(b)
      BY <1>2, <3>1, <3>3
    <3>4. CASE \E e \in 1..Len(stack[u]) : d <= e /\ Starts(stack[u][e], b)
      <4>1. PICK e \in 1..Len(stack[u]) : d <= e /\ Starts(stack[u][e], b)
        BY <3>4
      <4>2. CASE u = w => e <= m
        <5>1. e \in 1..Len(stack'[u]) /\ stack'[u][e] = stack[u][e]
          BY <1>1, <4>2, Zenon DEF Placed
        <5> QED  BY <4>1, <5>1
      <4>3. CASE u = w /\ ~(e <= m)
        <5>1. e > m /\ e \in 1..Len(stack[w])
          BY <1>1, <4>3 DEF Placed
        <5>2. Begun(b)' \/ \E i \in 1..n : Starts(new[i], b)
          BY <1>0, <4>1, <4>3, <5>1
        <5>3. ASSUME NEW i \in 1..n, Starts(new[i], b)
              PROVE  \E x \in 1..Len(stack'[u]) : d <= x /\ Starts(stack'[u][x], b)
          <6>1. m + i \in 1..Len(stack'[w]) /\ stack'[w][m + i] = new[i]
            BY <1>0, <1>1, Zenon DEF Placed
          <6>2. d <= m + i
            BY <1>1, <2>1, <4>3 DEF Placed
          <6> QED  BY <4>3, <5>3, <6>1, <6>2
        <5> QED  BY <5>2, <5>3
      <4> QED  BY <4>2, <4>3
    <3> QED  BY <3>2, <3>3, <3>4
  <2>2. CASE u = w /\ d > m /\ d - m \in 1..Len(new) /\ stack'[u][d] = new[d - m]
    <3>1. PICK i \in 1..n : i = d - m /\ f = new[i]
      BY <1>0, <1>3, <2>2
    <3>2. Begun(b)' \/ \E j \in 1..n : i <= j /\ Starts(new[j], b)
      BY <1>0, <1>3, <3>1
    <3>3. ASSUME NEW j \in 1..n, i <= j, Starts(new[j], b)
          PROVE  \E x \in 1..Len(stack'[u]) : d <= x /\ Starts(stack'[u][x], b)
      <4>1. m + j \in 1..Len(stack'[w]) /\ stack'[w][m + j] = new[j]
        BY <1>0, <1>1, Zenon DEF Placed
      <4>2. d <= m + j
        BY <1>1, <2>2, <3>1, <3>3 DEF Placed
      <4> QED  BY <2>2, <3>3, <4>1, <4>2
    <3> QED  BY <3>2, <3>3
  <2> QED  BY <1>1, <2>1, <2>2 DEF Placed
<1>4. (\A u \in Crew : \A d \in 1..Len(stack[u]) :
         stack[u][d].kind = "range" /\ stack[u][d].lo < stack[u][d].hi =>
           \/ Begun(First(stack[u][d]))
           \/ \E e \in 1..Len(stack[u]) : d <= e /\ Starts(stack[u][e], First(stack[u][d])))'
  <2>1. SUFFICES ASSUME NEW u \in Crew, NEW d \in 1..Len(stack'[u]), 
                        stack'[u][d].kind = "range", stack'[u][d].lo < stack'[u][d].hi
                 PROVE  \/ Begun(First(stack[u][d]))'
                        \/ \E e \in 1..Len(stack'[u]) : d <= e /\ Starts(stack'[u][e], First(stack'[u][d]))
    BY DEF Starts, First, Owns, Parent, Nth
  <2>2. PICK f : f = stack'[u][d]
    OBVIOUS
  <2>3. PICK b : b = First(f)
    OBVIOUS
  <2>4. Begun(b)' \/ \E e \in 1..Len(stack'[u]) : d <= e /\ Starts(stack'[u][e], b)
    BY <1>3, <2>1, <2>2, <2>3
  <2>5. b = First(stack'[u][d])
    BY <2>2, <2>3
  <2>6. Begun(b)' => Begun(First(stack[u][d]))'
    BY <2>5 DEF First
  <2> QED  BY <2>4, <2>5, <2>6
<1> QED  BY <1>4 DEF FirstIndex

-----------------------------------------------------------------------------
(* Who runs a job as long as no worker takes one: whoever ran it.          *)
LEMMA RunnerStep ==
  ASSUME FJTypes, NEW w \in Crew, Busy(w), NEW new, Len(new) \in Nat,
         Becomes(w, Len(stack[w]) - 1, new), OneRunner,
         \A i \in 1..Len(new) : \A j : RunsJob(new[i], j) => i = 1 /\ RunsJob(Top(w), j),
         \A j \in finished' : j \in finished \/ (RunsJob(Top(w), j) /\ Len(new) = 0)
  PROVE  OneRunner' /\ \A j : RunAsJob(j)' => RunAsJob(j)
<1>0. PICK n \in Nat : n = Len(stack[w]) /\ n > 0 /\ Top(w) = stack[w][n]
  BY TopFrame DEF Top
<1>1. Placed(w, n - 1, new)
  BY <1>0, Positions
<1>2. ASSUME NEW u \in Crew, NEW d \in 1..Len(stack'[u]), NEW j, RunsJob(stack'[u][d], j)
      PROVE  d \in 1..Len(stack[u]) /\ RunsJob(stack[u][d], j)
  <2>1. CASE d \in 1..Len(stack[u]) /\ stack'[u][d] = stack[u][d]
    BY <2>1, <1>2
  <2>2. CASE u = w /\ d > n - 1 /\ d - (n - 1) \in 1..Len(new) /\ stack'[u][d] = new[d - (n - 1)]
    <3>1. d - (n - 1) = 1 /\ RunsJob(Top(w), j)
      BY <2>2, <1>2
    <3>2. d = n /\ n \in 1..n
      BY <1>0, <3>1
    <3> QED  BY <1>0, <2>2, <3>1, <3>2
  <2> QED  BY <1>1, <2>1, <2>2 DEF Placed
<1>3. ASSUME NEW j \in GoodJobs, NEW u \in Crew, NEW v \in Crew,
             NEW d \in 1..Len(stack'[u]), NEW e \in 1..Len(stack'[v]),
             RunsJob(stack'[u][d], j), RunsJob(stack'[v][e], j)
      PROVE  u = v /\ d = e
  <2>1. /\ d \in 1..Len(stack[u]) /\ RunsJob(stack[u][d], j)
        /\ e \in 1..Len(stack[v]) /\ RunsJob(stack[v][e], j)
    BY <1>2, <1>3
  <2> QED  BY <2>1 DEF OneRunner
<1>4. ASSUME NEW j \in GoodJobs, NEW u \in Crew, NEW d \in 1..Len(stack'[u]),
             RunsJob(stack'[u][d], j), j \in finished'
      PROVE  FALSE
  <2>1. d \in 1..Len(stack[u]) /\ RunsJob(stack[u][d], j)
    BY <1>2, <1>4
  <2>2. j \notin finished
    BY <2>1 DEF OneRunner
  <2>3. RunsJob(Top(w), j) /\ Len(new) = 0
    BY <1>4, <2>2
  <2>4. n \in 1..Len(stack[w]) /\ RunsJob(stack[w][n], j)
    BY <1>0, <2>3
  <2>5. u = w /\ d = n
    BY <2>1, <2>4 DEF OneRunner
  <2> QED  BY <1>0, <1>1, <1>4, <2>3, <2>5 DEF Placed
<1>5. OneRunner'
  BY <1>3, <1>4 DEF OneRunner, RunsJob, AsJob
<1>6. ASSUME NEW j, RunAsJob(j)' PROVE RunAsJob(j)
  <2>1. PICK u \in Crew : \E d \in 1..Len(stack'[u]) : RunsJob(stack'[u][d], j)
    BY <1>6 DEF RunAsJob, RunsJob, AsJob
  <2>2. PICK d \in 1..Len(stack'[u]) : RunsJob(stack'[u][d], j)
    BY <2>1
  <2> QED  BY <1>2, <2>2 DEF RunAsJob
<1> QED  BY <1>5, <1>6

(* Who has forked a job stays, unless it is one of the frames replaced.    *)
LEMMA ForkerStep ==
  ASSUME FJTypes, NEW w \in Crew, NEW m, NEW new, Len(new) \in Nat, Becomes(w, m, new), NEW j,
         \A d \in 1..Len(stack[w]) : d > m /\ Forks(stack[w][d], j) =>
            \E i \in 1..Len(new) : Forks(new[i], j)
  PROVE  HasForker(j) => HasForker(j)'
<1>1. Placed(w, m, new)
  BY Positions
<1>2. HasForker(j)' <=> \E u \in Crew : \E d \in 1..Len(stack'[u]) : Forks(stack'[u][d], j)
  BY DEF HasForker, Forks, RightJob, Mid
<1>3. ASSUME NEW u \in Crew, NEW d \in 1..Len(stack[u]), Forks(stack[u][d], j)
      PROVE  \E v \in Crew : \E e \in 1..Len(stack'[v]) : Forks(stack'[v][e], j)
  <2>1. CASE u = w => d <= m
    <3>1. d \in 1..Len(stack'[u]) /\ stack'[u][d] = stack[u][d]
      BY <1>1, <2>1, Zenon DEF Placed
    <3> QED  BY <1>3, <3>1
  <2>2. CASE u = w /\ ~(d <= m)
    <3>1. d > m
      BY <1>1, <2>2 DEF Placed
    <3>2. PICK i \in 1..Len(new) : Forks(new[i], j)
      BY <1>3, <2>2, <3>1
    <3>3. m + i \in 1..Len(stack'[w]) /\ stack'[w][m + i] = new[i]
      BY <1>1, <3>2, Zenon DEF Placed
    <3> QED  BY <3>2, <3>3
  <2> QED  BY <2>1, <2>2
<1> QED  BY <1>2, <1>3 DEF HasForker

(* A new frame that has forked a job is that job's forker.               *)
LEMMA NewForker ==
  ASSUME FJTypes, NEW w \in Crew, NEW m, NEW new, Len(new) \in Nat, Becomes(w, m, new), NEW j,
         \E i \in 1..Len(new) : Forks(new[i], j)
  PROVE  HasForker(j)'
<1>1. Placed(w, m, new)
  BY Positions
<1>2. PICK i \in 1..Len(new) : Forks(new[i], j)
  OBVIOUS
<1>3. m + i \in 1..Len(stack'[w]) /\ stack'[w][m + i] = new[i]
  BY <1>1, <1>2, Zenon DEF Placed
<1>4. HasForker(j)' <=> \E u \in Crew : \E d \in 1..Len(stack'[u]) : Forks(stack'[u][d], j)
  BY DEF HasForker, Forks, RightJob, Mid
<1> QED  BY <1>2, <1>3, <1>4

(* Nobody runs a job whose first index is still in a deque, or held by a   *)
(* range that does not begin with it.                                      *)
LEMMA NotRunning ==
  ASSUME FJTypes, ForkJoinAssumption, OneHolder, FirstIndex,
         NEW j \in GoodJobs, NEW b, b = Append(j.call, j.lo),
         \/ HeldInDeques(b)
         \/ \E u \in Crew : \E d \in 1..Len(stack[u]) :
               Owns(stack[u][d], b) /\ stack[u][d].lo # j.lo
  PROVE  ~RunAsJob(j)
<1>1. SUFFICES ASSUME RunAsJob(j) PROVE FALSE
  OBVIOUS
<1>2. PICK u \in Crew : \E d \in 1..Len(stack[u]) : RunsJob(stack[u][d], j)
  BY <1>1 DEF RunAsJob
<1>3. PICK d \in 1..Len(stack[u]) : RunsJob(stack[u][d], j)
  BY <1>2
<1>4. PICK f : f = stack[u][d]
  OBVIOUS
<1>5. f.kind = "range" /\ f.call = j.call /\ f.lo = j.lo /\ f.hi = j.hi
  BY <1>3, <1>4 DEF RunsJob, AsJob
<1>6. j.call \in Loops /\ j.lo \in 0..(Size(j.call) - 1) /\ j.lo < j.hi
  BY CallParts DEF GoodJobs, Job
<1>7. b \in Calls /\ b \in Calls1 /\ Nth(b) = j.lo /\ Parent(b) = j.call
  BY <1>6, CallParts DEF Calls1
<1>8. Active(b)
  BY DEF Active, HeldOnStacks, Claims
<1>9. b \notin returned
  BY <1>7, <1>8 DEF OneHolder
<1>10. ASSUME NEW v \in Crew, NEW e \in 1..Len(stack[v]), Claims(stack[v][e], b)
       PROVE  ~Names(stack[v][e], b) /\ stack[v][e].lo # j.lo
  <2>1. HeldOnStacks(b)
    BY <1>10 DEF HeldOnStacks
  <2>2. ~HeldInDeques(b)
    BY <1>7, <2>1 DEF OneHolder
  <2>3. PICK x \in Crew : \E y \in 1..Len(stack[x]) : Owns(stack[x][y], b) /\ stack[x][y].lo # j.lo
    BY <2>2
  <2>4. PICK y \in 1..Len(stack[x]) : Owns(stack[x][y], b) /\ stack[x][y].lo # j.lo
    BY <2>3
  <2>5. Claims(stack[x][y], b)
    BY <2>4 DEF Claims
  <2>6. v = x /\ e = y
    BY <1>7, <1>10, <2>5 DEF OneHolder, FramesApart
  <2>7. ~Names(stack[x][y], b)
    <3>1. Names(stack[x][y], b) => stack[x][y].call = b
      BY DEF Names
    <3>2. stack[x][y].call = Parent(b)
      BY <2>4 DEF Owns
    <3> QED  BY <3>1, <3>2, <1>7, CallParts
  <2> QED  BY <2>4, <2>6, <2>7
<1>11. ~Begun(b)
  <2>1. ~Running(b)
    <3>1. \A v \in Crew : \A e \in 1..Len(stack[v]) : ~Names(stack[v][e], b)
      BY <1>10 DEF Claims
    <3> QED  BY <3>1 DEF Running
  <2> QED  BY <1>9, <2>1 DEF Begun
<1>12. First(f) = b
  BY <1>5 DEF First
<1>13. PICK e \in 1..Len(stack[u]) : Starts(stack[u][e], b)
  BY <1>4, <1>5, <1>6, <1>11, <1>12 DEF FirstIndex
<1>14. Owns(stack[u][e], b) /\ Append(stack[u][e].call, stack[u][e].lo) = b /\ stack[u][e].kind = "range"
  BY <1>13 DEF Starts
<1>15. stack[u][e].lo = j.lo
  <2>1. stack[u][e] \in GoodFrames
    BY FrameCalls
  <2>2. /\ stack[u][e].call \in Loops /\ stack[u][e].lo \in Nat
        /\ stack[u][e].next \in Nat /\ stack[u][e].lo <= stack[u][e].next
        /\ stack[u][e].hi \in Nat /\ stack[u][e].hi <= Size(stack[u][e].call)
    BY <1>14, <2>1 DEF GoodFrames, GoodLoops, GoodRanges, GoodBodies
  <2>3. stack[u][e].next <= Nth(b) /\ Nth(b) < stack[u][e].hi
    BY <1>14 DEF Owns
  <2>6. Size(stack[u][e].call) \in Nat /\ Nth(b) \in Nat
    BY <1>6, <1>7, <2>2, CallParts
  <2>4. stack[u][e].lo \in 0..(Size(stack[u][e].call) - 1)
    BY <2>2, <2>3, <2>6
  <2>5. Nth(Append(stack[u][e].call, stack[u][e].lo)) = stack[u][e].lo
    BY <2>2, <2>4, CallParts
  <2> QED  BY <1>7, <1>14, <2>5
<1> QED  BY <1>10, <1>14, <1>15 DEF Claims

-----------------------------------------------------------------------------
(* The deque of a worker and its stack.                                    *)
LEMMA FitsTypes ==
  ASSUME FJTypes, NEW u \in Crew
  PROVE  /\ stack[u] \in Seq(GoodFrames) /\ Len(stack[u]) \in Nat
         /\ deque[u] \in Seq(GoodJobs) /\ Len(deque[u]) \in Nat
         /\ deque[u] = << >> <=> Len(deque[u]) = 0
<1>1. stack[u] \in Seq(GoodFrames) /\ deque[u] \in Seq(GoodJobs)
  BY DEF FJTypes
<1> QED  BY <1>1, EmptySeq, LenProperties

(* A worker back from its left half finds the right half or nothing.       *)
LEMMA PopsItsOwn ==
  ASSUME FJTypes, Matched, NEW w \in Crew, TopIs(w, "range", "left"), deque[w] # << >>,
         NEW pos, Suits(stack[w], deque[w], pos)
  PROVE  /\ Len(deque[w]) \in Nat /\ Len(deque[w]) > 0 /\ Len(stack[w]) \in Nat /\ Len(stack[w]) > 0
         /\ pos[Len(deque[w])] = Len(stack[w])
         /\ LastJob(w) = RightJob(Top(w))
<1>1. PICK n \in Nat : n = Len(stack[w]) /\ n > 0 /\ Top(w) = stack[w][n]
  BY TopFrame DEF Top, TopIs
<1>2. PICK q \in Nat : q = Len(deque[w]) /\ q > 0
  BY FitsTypes
<1>3. Is(stack[w][n], "range", "left")
  BY <1>1 DEF TopIs, Is
<1>4. /\ pos \in [1..q -> 1..n]
      /\ \A k, l \in 1..q : k < l => pos[k] < pos[l]
      /\ \A k \in 1..q : deque[w][k] = RightJob(stack[w][pos[k]])
      /\ \A d \in 1..n : Is(stack[w][d], "range", "left") =>
            d < pos[1] \/ \E k \in 1..q : d = pos[k]
  BY <1>1, <1>2 DEF Suits
<1>5. pos[1] \in 1..n /\ n \in 1..n /\ ~(n < pos[1])
  <2>1. 1 \in 1..q
    BY <1>2
  <2>2. pos[1] \in 1..n
    BY <1>4, <2>1
  <2> QED  BY <1>1, <2>2
<1>6. PICK k \in 1..q : n = pos[k]
  BY <1>1, <1>3, <1>4, <1>5
<1>7. k = q
  <2>1. pos[q] <= n /\ (k < q => pos[k] < pos[q])
    BY <1>1, <1>2, <1>4, <1>6
  <2> QED  BY <1>1, <1>2, <1>4, <1>6, <2>1
<1> QED  BY <1>1, <1>2, <1>4, <1>6, <1>7 DEF LastJob

(* A worker that waits, or has nothing to do, has no job.                  *)
LEMMA NoJobsInWait ==
  ASSUME FJTypes, Matched, NEW w \in Crew, ~Busy(w) \/ TopIs(w, "range", "wait")
  PROVE  deque[w] = << >>
<1>1. PICK pos : Suits(stack[w], deque[w], pos)
  BY DEF Matched
<1>2. PICK q \in Nat : q = Len(deque[w]) /\ (deque[w] = << >> <=> q = 0)
  BY FitsTypes
<1>3. SUFFICES ASSUME q > 0 PROVE FALSE
  BY <1>2
<1>4. 1 \in 1..q /\ pos[1] \in 1..Len(stack[w])
  BY <1>1, <1>2, <1>3 DEF Suits
<1>5. Busy(w)
  BY <1>4, FitsTypes DEF Busy
<1>6. PICK n \in Nat : n = Len(stack[w]) /\ n > 0 /\ Top(w) = stack[w][n]
  BY <1>5, TopFrame DEF Top
<1>7. Is(stack[w][n], "range", "wait") /\ n \in 1..Len(stack[w])
  BY <1>5, <1>6 DEF TopIs, Is
<1>8. n < pos[1]
  BY <1>1, <1>2, <1>4, <1>7 DEF Suits
<1> QED  BY <1>4, <1>6, <1>8

(* Frames come and go on top of a stack while none of them has forked.     *)
LEMMA FitsKept ==
  ASSUME FJTypes, NEW w \in Crew, NEW m, NEW new, Len(new) \in Nat, Becomes(w, m, new),
         Matched, \A u \in Crew : deque'[u] = deque[u],
         \A d \in 1..Len(stack[w]) : d > m => ~Is(stack[w][d], "range", "left"),
         \A i \in 1..Len(new) :
            /\ ~Is(new[i], "range", "left")
            /\ Is(new[i], "range", "wait") => deque[w] = << >>
  PROVE  Matched'
<1>0. Placed(w, m, new)
  BY Positions
<1>1. ASSUME NEW u \in Crew
      PROVE  \E pos \in [1..Len(deque'[u]) -> 1..Len(stack'[u])] : Suits(stack'[u], deque'[u], pos)
  <2>1. PICK pos : Suits(stack[u], deque[u], pos)
    BY DEF Matched
  <2>2. CASE u # w
    <3>1. stack'[u] = stack[u] /\ deque'[u] = deque[u]
      BY <2>2 DEF Becomes
    <3>2. pos \in [1..Len(deque[u]) -> 1..Len(stack[u])]
      BY <2>1 DEF Suits
    <3> QED  BY <2>1, <3>1, <3>2
  <2>3. CASE u = w
    <3>1. PICK q \in Nat : q = Len(deque[w]) /\ (deque[w] = << >> <=> q = 0)
      BY FitsTypes
    <3>2. /\ pos \in [1..q -> 1..Len(stack[w])]
          /\ \A k, l \in 1..q : k < l => pos[k] < pos[l]
          /\ \A k \in 1..q : Is(stack[w][pos[k]], "range", "left")
          /\ \A k \in 1..q : deque[w][k] = RightJob(stack[w][pos[k]])
          /\ \A d \in 1..Len(stack[w]) :
               Is(stack[w][d], "range", "left") => deque[w] = << >> \/ d < pos[1] \/ \E k \in 1..q : d = pos[k]
          /\ \A d \in 1..Len(stack[w]) : Is(stack[w][d], "range", "wait") => \A k \in 1..q : d < pos[k]
      BY <2>1, <2>3, <3>1 DEF Suits
    <3>3. \A k \in 1..q : /\ pos[k] \in 1..Len(stack[w]) /\ pos[k] <= m
                          /\ pos[k] \in 1..Len(stack'[w]) /\ stack'[w][pos[k]] = stack[w][pos[k]]
      <4> TAKE k \in 1..q
      <4>1. pos[k] \in 1..Len(stack[w]) /\ ~(pos[k] > m)
        BY <3>2
      <4>2. pos[k] <= m
        BY <1>0, <4>1 DEF Placed
      <4> QED  BY <1>0, <4>1, <4>2, Zenon DEF Placed
    <3>4. pos \in [1..q -> 1..Len(stack'[w])]
      BY <3>2, <3>3
    <3>5. ASSUME NEW d \in 1..Len(stack'[w])
          PROVE  /\ Is(stack'[w][d], "range", "left") =>
                      deque[w] = << >> \/ d < pos[1] \/ \E k \in 1..q : d = pos[k]
                 /\ Is(stack'[w][d], "range", "wait") => \A k \in 1..q : d < pos[k]
      <4>1. CASE d \in 1..Len(stack[w]) /\ stack'[w][d] = stack[w][d]
        BY <4>1, <3>2
      <4>2. CASE d - m \in 1..Len(new) /\ stack'[w][d] = new[d - m]
        BY <4>2, <3>1
      <4> QED  BY <1>0, <4>1, <4>2 DEF Placed
    <3>6. Suits(stack'[w], deque'[w], pos)
      BY <3>1, <3>2, <3>3, <3>4, <3>5 DEF Suits
    <3> QED  BY <2>3, <3>1, <3>4, <3>6
  <2> QED  BY <2>2, <2>3
<1> QED  BY <1>1 DEF Matched, Suits, Is, RightJob, Mid

(* A stack after a call, frame by frame.                                 *)
LEMMA TwoFrames ==
  ASSUME NEW w \in Crew, NEW m, NEW f, NEW g, Becomes(w, m, << f, g >>)
  PROVE  /\ m \in Nat /\ Len(stack'[w]) = m + 2 /\ stack'[w][m + 1] = f /\ stack'[w][m + 2] = g
         /\ \A d \in 1..m : stack'[w][d] = stack[w][d]
<1> DEFINE new == << f, g >>
<1>1. Len(new) = 2 /\ new[1] = f /\ new[2] = g
  OBVIOUS
<1>2. Becomes(w, m, new)
  OBVIOUS
<1> HIDE DEF new
<1>3. 1 \in 1..Len(new) /\ 2 \in 1..Len(new)
  BY <1>1
<1>4. stack'[w][m + 1] = new[1] /\ stack'[w][m + 2] = new[2]
  BY <1>2, <1>3 DEF Becomes
<1> QED  BY <1>1, <1>2, <1>4 DEF Becomes

(* pardo pushes its right half and calls its left half.                    *)
LEMMA FitsForked ==
  ASSUME FJTypes, NEW w \in Crew, Busy(w), NEW f, NEW g, 
         Becomes(w, Len(stack[w]) - 1, << f, g >>),
         Matched, deque' = [deque EXCEPT ![w] = Append(@, RightJob(f))], RightJob(f) \in GoodJobs,
         Is(Top(w), "range", "enter"), Is(f, "range", "left"), Is(g, "range", "enter")
  PROVE  Matched'
<1>1. PICK n \in Nat : n = Len(stack[w]) /\ n > 0 /\ Top(w) = stack[w][n]
  BY TopFrame DEF Top
<1>2. PICK q \in Nat : q = Len(deque[w]) /\ (deque[w] = << >> <=> q = 0)
  BY FitsTypes
<1>3. /\ \A u \in Crew : u # w => deque'[u] = deque[u] /\ stack'[u] = stack[u]
      /\ Len(deque'[w]) = q + 1 /\ deque'[w][q + 1] = RightJob(f)
      /\ \A k \in 1..q : deque'[w][k] = deque[w][k]
  BY <1>2 DEF FJTypes, Becomes
<1>4. /\ Len(stack'[w]) = n + 1 /\ stack'[w][n] = f /\ stack'[w][n + 1] = g
      /\ \A d \in 1..(n - 1) : stack'[w][d] = stack[w][d]
  <2>1. /\ Len(stack'[w]) = (n - 1) + 2 /\ stack'[w][(n - 1) + 1] = f /\ stack'[w][(n - 1) + 2] = g
        /\ \A d \in 1..(n - 1) : stack'[w][d] = stack[w][d]
    BY <1>1, TwoFrames
  <2> QED  BY <2>1
<1>5. ASSUME NEW u \in Crew
      PROVE  \E pos \in [1..Len(deque'[u]) -> 1..Len(stack'[u])] : Suits(stack'[u], deque'[u], pos)
  <2>1. PICK pos : Suits(stack[u], deque[u], pos)
    BY DEF Matched
  <2>2. CASE u # w
    <3>1. stack'[u] = stack[u] /\ deque'[u] = deque[u]
      BY <1>3, <2>2
    <3>2. pos \in [1..Len(deque[u]) -> 1..Len(stack[u])]
      BY <2>1 DEF Suits
    <3> QED  BY <2>1, <3>1, <3>2
  <2>3. CASE u = w
    <3>2. /\ pos \in [1..q -> 1..n]
          /\ \A k, l \in 1..q : k < l => pos[k] < pos[l]
          /\ \A k \in 1..q : Is(stack[w][pos[k]], "range", "left")
          /\ \A k \in 1..q : deque[w][k] = RightJob(stack[w][pos[k]])
          /\ \A d \in 1..n :
               Is(stack[w][d], "range", "left") => q = 0 \/ d < pos[1] \/ \E k \in 1..q : d = pos[k]
          /\ \A d \in 1..n : Is(stack[w][d], "range", "wait") => \A k \in 1..q : d < pos[k]
      BY <1>1, <1>2, <2>1, <2>3 DEF Suits
    <3> DEFINE new == [k \in 1..(q + 1) |-> IF k = q + 1 THEN n ELSE pos[k]]
    <3>3. \A k \in 1..q : pos[k] \in 1..(n - 1)
      BY <1>1, <3>2 DEF Is
    <3>4. /\ new \in [1..(q + 1) -> 1..(n + 1)] /\ new[q + 1] = n
          /\ \A k \in 1..q : new[k] = pos[k] /\ k \in 1..(q + 1)
      <4>1. \A k \in 1..(q + 1) : (IF k = q + 1 THEN n ELSE pos[k]) \in 1..(n + 1)
        <5> TAKE k \in 1..(q + 1)
        <5>1. k # q + 1 => k \in 1..q
          OBVIOUS
        <5>2. k # q + 1 => pos[k] \in 1..(n - 1)
          BY <3>3, <5>1
        <5>3. \A x \in 1..(n - 1) : x \in 1..(n + 1)
          BY <1>1
        <5>4. n \in 1..(n + 1)
          BY <1>1
        <5> QED  BY <5>2, <5>3, <5>4
      <4>2. new \in [1..(q + 1) -> 1..(n + 1)]
        BY <4>1
      <4>3. q + 1 \in 1..(q + 1) /\ \A k \in 1..q : k \in 1..(q + 1) /\ k # q + 1
        BY <1>2
      <4> QED  BY <4>2, <4>3
    <3> HIDE DEF new
    <3>5. ASSUME NEW k \in 1..(q + 1), NEW l \in 1..(q + 1), k < l PROVE new[k] < new[l]
      <4>1. k \in 1..q
        BY <3>5
      <4>2. CASE l = q + 1
        BY <1>1, <3>3, <3>4, <4>1, <4>2
      <4>3. CASE l \in 1..q
        BY <3>2, <3>4, <3>5, <4>1, <4>3
      <4> QED  BY <4>2, <4>3
    <3>6. ASSUME NEW k \in 1..(q + 1)
          PROVE  Is(stack'[w][new[k]], "range", "left") /\ deque'[w][k] = RightJob(stack'[w][new[k]])
      <4>1. CASE k = q + 1
        <5>1. new[k] = n /\ deque'[w][k] = RightJob(f) /\ stack'[w][n] = f
          BY <1>3, <1>4, <3>4, <4>1
        <5> QED  BY <5>1
      <4>2. CASE k \in 1..q
        <5>1. new[k] = pos[k] /\ deque'[w][k] = deque[w][k]
          BY <1>3, <3>4, <4>2
        <5>2. stack'[w][pos[k]] = stack[w][pos[k]]
          BY <1>4, <3>3, <4>2
        <5>3. Is(stack[w][pos[k]], "range", "left") /\ deque[w][k] = RightJob(stack[w][pos[k]])
          BY <3>2, <4>2
        <5> QED  BY <5>1, <5>2, <5>3
      <4>3. k = q + 1 \/ k \in 1..q
        BY <1>2
      <4> QED  BY <4>1, <4>2, <4>3, Zenon
    <3>7. ASSUME NEW d \in 1..(n + 1)
          PROVE  /\ Is(stack'[w][d], "range", "left") => d < new[1] \/ \E k \in 1..(q + 1) : d = new[k]
                 /\ Is(stack'[w][d], "range", "wait") => \A k \in 1..(q + 1) : d < new[k]
      <4>1. CASE d = n + 1
        BY <1>4, <4>1 DEF Is
      <4>2. CASE d = n
        <5>1. d = new[q + 1] /\ q + 1 \in 1..(q + 1)
          BY <3>4, <4>2
        <5> QED  BY <1>4, <4>2, <5>1 DEF Is
      <4>3. CASE d \in 1..(n - 1)
        <5>1. d \in 1..n /\ stack'[w][d] = stack[w][d] /\ d < n
          BY <1>1, <1>4, <4>3
        <5>2. Is(stack'[w][d], "range", "left") => d < new[1] \/ \E k \in 1..(q + 1) : d = new[k]
          <6>1. CASE q = 0
            BY <3>4, <5>1, <6>1
          <6>2. CASE q # 0
            <7>1. new[1] = pos[1]
              BY <3>4, <6>2
            <7> QED  BY <3>2, <3>4, <5>1, <6>2, <7>1
          <6> QED  BY <6>1, <6>2
        <5>3. ASSUME Is(stack'[w][d], "range", "wait"), NEW k \in 1..(q + 1) PROVE d < new[k]
          <6>1. CASE k = q + 1
            BY <3>4, <5>1, <6>1
          <6>2. CASE k \in 1..q
            BY <3>2, <3>4, <5>1, <5>3, <6>2
          <6> QED  BY <6>1, <6>2
        <5> QED  BY <5>2, <5>3
      <4> QED  BY <1>1, <4>1, <4>2, <4>3
    <3>8. Suits(stack'[w], deque'[w], new)
      BY <1>3, <1>4, <3>4, <3>5, <3>6, <3>7 DEF Suits
    <3> QED  BY <1>3, <1>4, <2>3, <3>4, <3>8
  <2> QED  BY <2>2, <2>3
<1> QED  BY <1>5 DEF Matched, Suits, Is, RightJob, Mid

(* An empty deque fits any stack none of whose ranges is back from a     *)
(* left half it has a job for.                                           *)
LEMMA EmptyFits ==
  ASSUME NEW s
  PROVE  \E pos \in [1..0 -> 1..Len(s)] : Suits(s, << >>, pos)
<1> DEFINE none == [k \in 1..0 |-> 1]
<1>1. none \in [1..0 -> 1..Len(s)] /\ Len(<< >>) = 0 /\ \A k \in 1..0 : FALSE
  OBVIOUS
<1> HIDE DEF none
<1>2. Suits(s, << >>, none)
  BY <1>1 DEF Suits
<1> QED  BY <1>1, <1>2

(* A worker that finds its deque empty is left with no job; the others are *)
(* as they were.                                                           *)
LEMMA FitsEmptied ==
  ASSUME FJTypes, Matched, NEW w \in Crew, \A u \in Crew : deque'[u] = deque[u], deque[w] = << >>,
         \A u \in Crew : u # w => stack'[u] = stack[u]
  PROVE  Matched'
<1>1. ASSUME NEW u \in Crew
      PROVE  \E pos \in [1..Len(deque'[u]) -> 1..Len(stack'[u])] : Suits(stack'[u], deque'[u], pos)
  <2>1. CASE u # w
    <3>1. stack'[u] = stack[u] /\ deque'[u] = deque[u]
      BY <2>1
    <3>2. PICK pos : Suits(stack[u], deque[u], pos)
      BY DEF Matched
    <3>3. pos \in [1..Len(deque[u]) -> 1..Len(stack[u])]
      BY <3>2 DEF Suits
    <3> QED  BY <3>1, <3>2, <3>3
  <2>2. CASE u = w
    <3>1. PICK pos \in [1..0 -> 1..Len(stack'[w])] : Suits(stack'[w], << >>, pos)
      BY EmptyFits
    <3>2. deque'[w] = << >> /\ Len(<< >>) = 0
      OBVIOUS
    <3> QED  BY <2>2, <3>1, <3>2
  <2> QED  BY <2>1, <2>2
<1> QED  BY <1>1 DEF Matched, Suits, Is, RightJob, Mid

(* pardo pops its right half and calls it.                                 *)
LEMMA FitsPopped ==
  ASSUME FJTypes, NEW w \in Crew, TopIs(w, "range", "left"), deque[w] # << >>, NEW f, NEW g,
         Becomes(w, Len(stack[w]) - 1, << f, g >>),
         Matched, Loses(w, Len(deque[w])),
         Is(f, "range", "right"), Is(g, "range", "enter")
  PROVE  Matched'
<1>1. PICK n \in Nat : n = Len(stack[w]) /\ n > 0 /\ Top(w) = stack[w][n]
  BY TopFrame DEF Top, TopIs
<1>2. PICK q \in Nat : q = Len(deque[w]) /\ q > 0 /\ q - 1 \in Nat
  BY FitsTypes
<1>3. /\ \A u \in Crew : u # w => deque'[u] = deque[u] /\ stack'[u] = stack[u]
      /\ Len(deque'[w]) = q - 1 /\ \A k \in 1..(q - 1) : deque'[w][k] = deque[w][k]
  <2>1. \A u \in Crew : u # w => deque'[u] = deque[u] /\ stack'[u] = stack[u]
    BY DEF Loses, Becomes
  <2>2. Len(deque'[w]) = q - 1
    BY <1>2 DEF Loses
  <2>3. \A k \in 1..(q - 1) : deque'[w][k] = deque[w][k]
    <3>1. CASE q = 1
      BY <3>1
    <3>2. CASE q # 1
      BY <1>2, <3>2 DEF Loses
    <3> QED  BY <3>1, <3>2
  <2> QED  BY <2>1, <2>2, <2>3
<1>4. /\ Len(stack'[w]) = n + 1 /\ stack'[w][n] = f /\ stack'[w][n + 1] = g
      /\ \A d \in 1..(n - 1) : stack'[w][d] = stack[w][d]
  <2>1. /\ Len(stack'[w]) = (n - 1) + 2 /\ stack'[w][(n - 1) + 1] = f /\ stack'[w][(n - 1) + 2] = g
        /\ \A d \in 1..(n - 1) : stack'[w][d] = stack[w][d]
    BY <1>1, TwoFrames
  <2> QED  BY <2>1
<1>5. ASSUME NEW u \in Crew
      PROVE  \E pos \in [1..Len(deque'[u]) -> 1..Len(stack'[u])] : Suits(stack'[u], deque'[u], pos)
  <2>1. PICK pos : Suits(stack[u], deque[u], pos)
    BY DEF Matched
  <2>2. CASE u # w
    <3>1. stack'[u] = stack[u] /\ deque'[u] = deque[u]
      BY <1>3, <2>2
    <3>2. pos \in [1..Len(deque[u]) -> 1..Len(stack[u])]
      BY <2>1 DEF Suits
    <3> QED  BY <2>1, <3>1, <3>2
  <2>3. CASE u = w
    <3>1. pos[q] = n
      BY <1>1, <1>2, <2>1, <2>3, PopsItsOwn
    <3>2. /\ pos \in [1..q -> 1..n]
          /\ \A k, l \in 1..q : k < l => pos[k] < pos[l]
          /\ \A k \in 1..q : Is(stack[w][pos[k]], "range", "left")
          /\ \A k \in 1..q : deque[w][k] = RightJob(stack[w][pos[k]])
          /\ \A d \in 1..n :
               Is(stack[w][d], "range", "left") => q = 0 \/ d < pos[1] \/ \E k \in 1..q : d = pos[k]
          /\ \A d \in 1..n : Is(stack[w][d], "range", "wait") => \A k \in 1..q : d < pos[k]
      BY <1>1, <1>2, <2>1, <2>3 DEF Suits
    <3> DEFINE new == [k \in 1..(q - 1) |-> pos[k]]
    <3>3. \A k \in 1..(q - 1) : k \in 1..q /\ k < q /\ pos[k] \in 1..(n - 1)
      <4> TAKE k \in 1..(q - 1)
      <4>1. k \in 1..q /\ q \in 1..q /\ k < q
        BY <1>2
      <4>2. pos[k] < n /\ pos[k] \in 1..n
        BY <3>1, <3>2, <4>1
      <4> QED  BY <1>1, <4>1, <4>2
    <3>4. /\ new \in [1..(q - 1) -> 1..(n + 1)] /\ \A k \in 1..(q - 1) : new[k] = pos[k]
      <4>1. \A x \in 1..(n - 1) : x \in 1..(n + 1)
        BY <1>1
      <4> QED  BY <3>3, <4>1
    <3> HIDE DEF new
    <3>5. \A k, l \in 1..(q - 1) : k < l => new[k] < new[l]
      BY <3>2, <3>3, <3>4
    <3>6. ASSUME NEW k \in 1..(q - 1)
          PROVE  Is(stack'[w][new[k]], "range", "left") /\ deque'[w][k] = RightJob(stack'[w][new[k]])
      <4>1. new[k] = pos[k] /\ deque'[w][k] = deque[w][k]
        BY <1>3, <3>4
      <4>2. stack'[w][pos[k]] = stack[w][pos[k]]
        BY <1>4, <3>3
      <4>3. Is(stack[w][pos[k]], "range", "left") /\ deque[w][k] = RightJob(stack[w][pos[k]])
        BY <3>2, <3>3
      <4> QED  BY <4>1, <4>2, <4>3
    <3>7. ASSUME NEW d \in 1..(n + 1)
          PROVE  /\ Is(stack'[w][d], "range", "left") =>
                      ~(q > 1) \/ d < new[1] \/ \E k \in 1..(q - 1) : d = new[k]
                 /\ Is(stack'[w][d], "range", "wait") => \A k \in 1..(q - 1) : d < new[k]
      <4>1. CASE d = n + 1 \/ d = n
        BY <1>4, <4>1 DEF Is
      <4>3. CASE d \in 1..(n - 1)
        <5>1. d \in 1..n /\ stack'[w][d] = stack[w][d] /\ d < n
          BY <1>1, <1>4, <4>3
        <5>2. ASSUME Is(stack'[w][d], "range", "left"), q > 1
              PROVE  d < new[1] \/ \E k \in 1..(q - 1) : d = new[k]
          <6>4. q > 1
            BY <5>2
          <6>0. 1 \in 1..(q - 1)
            BY <1>2, <6>4
          <6>1. 1 \in 1..(q - 1) /\ new[1] = pos[1]
            BY <3>4, <6>0
          <6>2. d < pos[1] \/ \E k \in 1..q : d = pos[k]
            BY <1>2, <3>2, <5>1, <5>2
          <6>3. ASSUME NEW k \in 1..q, d = pos[k] PROVE k \in 1..(q - 1)
            <7>1. k # q
              BY <3>1, <5>1, <6>3
            <7> QED  BY <1>2, <7>1
          <6> QED  BY <3>4, <6>1, <6>2, <6>3
        <5>3. ASSUME Is(stack'[w][d], "range", "wait"), NEW k \in 1..(q - 1) PROVE d < new[k]
          BY <3>2, <3>3, <3>4, <5>1, <5>3
        <5> QED  BY <5>2, <5>3
      <4>4. d = n + 1 \/ d = n \/ d \in 1..(n - 1)
        BY <1>1
      <4> QED  BY <4>1, <4>3, <4>4, Zenon
    <3>8. Suits(stack'[w], deque'[w], new)
      <4>1. deque'[w] = << >> <=> q - 1 = 0
        <5>1. deque'[w] \in Seq(GoodJobs)
          BY DEF Loses
        <5> QED  BY <5>1, <1>3, EmptySeq
      <4>3. \A x \in Nat : x > 0 /\ ~(x > 1) => x - 1 = 0
        OBVIOUS
      <4>2. ~(q > 1) => q - 1 = 0
        BY <1>2, <4>3, Zenon
      <4>4. PICK z : z = q - 1
        OBVIOUS
      <4>5. PICK m : m = n + 1
        OBVIOUS
      <4>6. Len(deque'[w]) = z /\ Len(stack'[w]) = m
        BY <1>3, <1>4, <4>4, <4>5
      <4>7. new \in [1..z -> 1..m] /\ \A k, l \in 1..z : k < l => new[k] < new[l]
        BY <3>4, <3>5, <4>4, <4>5, Zenon
      <4>8. \A k \in 1..z : Is(stack'[w][new[k]], "range", "left")
                              /\ deque'[w][k] = RightJob(stack'[w][new[k]])
        BY <3>6, <4>4, Zenon
      <4>9. ~(q > 1) => deque'[w] = << >>
        BY <4>1, <4>2
      <4>10. ASSUME NEW d \in 1..m
             PROVE  /\ Is(stack'[w][d], "range", "left") =>
                         deque'[w] = << >> \/ d < new[1] \/ \E k \in 1..z : d = new[k]
                    /\ Is(stack'[w][d], "range", "wait") => \A k \in 1..z : d < new[k]
        BY <3>7, <4>4, <4>5, <4>9, Zenon
      <4> QED  BY <4>6, <4>7, <4>8, <4>10, Zenon DEF Suits
    <3> QED  BY <1>3, <1>4, <2>3, <3>4, <3>8
  <2> QED  BY <2>2, <2>3
<1> QED  BY <1>5 DEF Matched, Suits, Is, RightJob, Mid

(* A job is taken, the first, by another worker.                           *)
LEMMA FitsTaken ==
  ASSUME FJTypes, NEW w \in Crew, NEW v \in Crew, w # v, deque[w] = << >>, NEW g,
         Becomes(w, Len(stack[w]), << g >>), Matched, Loses(v, 1),
         \A i \in 1..(Len(deque[v]) - 1) : deque'[v][i] = deque[v][i + 1]
  PROVE  Matched'
<1>1. ASSUME NEW u \in Crew
      PROVE  \E pos \in [1..Len(deque'[u]) -> 1..Len(stack'[u])] : Suits(stack'[u], deque'[u], pos)
  <2>1. PICK pos : Suits(stack[u], deque[u], pos)
    BY DEF Matched
  <2>2. CASE u # w /\ u # v
    <3>1. stack'[u] = stack[u] /\ deque'[u] = deque[u]
      BY <2>2 DEF Becomes, Loses
    <3>2. pos \in [1..Len(deque[u]) -> 1..Len(stack[u])]
      BY <2>1 DEF Suits
    <3> QED  BY <2>1, <3>1, <3>2
  <2>3. CASE u = w
    <3>1. PICK none \in [1..0 -> 1..Len(stack'[w])] : Suits(stack'[w], << >>, none)
      BY EmptyFits
    <3>2. deque'[w] = << >> /\ Len(<< >>) = 0
      BY DEF Loses
    <3> QED  BY <2>3, <3>1, <3>2
  <2>4. CASE u = v
    <3>1. PICK q \in Nat : q = Len(deque[v]) /\ q > 0 /\ q - 1 \in Nat /\ deque[v] # << >>
      <4>1. 1 \in 1..Len(deque[v])
        BY DEF Loses
      <4>2. deque[v] \in Seq(GoodJobs) /\ Len(deque[v]) \in Nat
        BY FitsTypes
      <4>3. PICK q \in Nat : q = Len(deque[v])
        BY <4>2
      <4>4. q > 0 /\ q - 1 \in Nat
        BY <4>1, <4>3
      <4>5. deque[v] # << >>
        BY <4>2, <4>3, <4>4, EmptySeq
      <4> QED  BY <4>3, <4>4, <4>5
    <3>2. PICK n \in Nat : n = Len(stack[v])
      BY FitsTypes
    <3>3. /\ pos \in [1..q -> 1..n]
          /\ \A k, l \in 1..q : k < l => pos[k] < pos[l]
          /\ \A k \in 1..q : Is(stack[v][pos[k]], "range", "left")
          /\ \A k \in 1..q : deque[v][k] = RightJob(stack[v][pos[k]])
          /\ \A d \in 1..n :
               Is(stack[v][d], "range", "left") => q = 0 \/ d < pos[1] \/ \E k \in 1..q : d = pos[k]
          /\ \A d \in 1..n : Is(stack[v][d], "range", "wait") => \A k \in 1..q : d < pos[k]
      BY <2>1, <2>4, <3>1, <3>2 DEF Suits
    <3>4. /\ Len(deque'[v]) = q - 1 /\ \A k \in 1..(q - 1) : deque'[v][k] = deque[v][k + 1]
          /\ stack'[v] = stack[v]
      BY <3>1 DEF Loses, Becomes
    <3> DEFINE new == [k \in 1..(q - 1) |-> pos[k + 1]]
    <3>5. \A k \in 1..(q - 1) : k + 1 \in 1..q /\ k \in Nat
      BY <3>1
    <3>6. new \in [1..(q - 1) -> 1..n] /\ \A k \in 1..(q - 1) : new[k] = pos[k + 1]
      BY <3>3, <3>5
    <3> HIDE DEF new
    <3>7. \A k, l \in 1..(q - 1) : k < l => new[k] < new[l]
      <4> TAKE k, l \in 1..(q - 1)
      <4>1. k < l => k + 1 < l + 1
        OBVIOUS
      <4> QED  BY <3>3, <3>5, <3>6, <4>1
    <3>8. \A k \in 1..(q - 1) : Is(stack[v][new[k]], "range", "left") /\ deque'[v][k] = RightJob(stack[v][new[k]])
      BY <3>3, <3>4, <3>5, <3>6
    <3>9. ASSUME NEW d \in 1..n
          PROVE  /\ Is(stack[v][d], "range", "left") =>
                      ~(q > 1) \/ d < new[1] \/ \E k \in 1..(q - 1) : d = new[k]
                 /\ Is(stack[v][d], "range", "wait") => \A k \in 1..(q - 1) : d < new[k]
      <4>1. ASSUME Is(stack[v][d], "range", "left"), q > 1
            PROVE  d < new[1] \/ \E k \in 1..(q - 1) : d = new[k]
        <5>6. q > 1
          BY <4>1
        <5>1. 1 \in 1..(q - 1) /\ 1 \in 1..q /\ 2 \in 1..q /\ 1 + 1 = 2
          BY <3>1, <5>6
        <5>2. new[1] = pos[2] /\ pos[1] < pos[2] /\ pos[1] \in 1..n /\ pos[2] \in 1..n
          <6>1. new[1] = pos[1 + 1]
            BY <3>6, <5>1
          <6>2. pos[1] < pos[2] /\ pos[1] \in 1..n /\ pos[2] \in 1..n
            <7>1. 1 < 2
              OBVIOUS
            <7> QED  BY <3>3, <5>1, <7>1
          <6> QED  BY <5>1, <6>1, <6>2
        <5>3. d < pos[1] \/ \E k \in 1..q : d = pos[k]
          BY <3>1, <3>3, <4>1
        <5>4. CASE d < pos[1]
          BY <3>2, <5>2, <5>4
        <5>5. ASSUME NEW k \in 1..q, d = pos[k]
              PROVE  d < new[1] \/ \E l \in 1..(q - 1) : d = new[l]
          <6>1. CASE k = 1
            BY <5>2, <5>5, <6>1
          <6>2. CASE k # 1
            <7>1. k - 1 \in 1..(q - 1) /\ (k - 1) + 1 = k
              BY <3>1, <6>2
            <7> QED  BY <3>6, <5>5, <7>1
          <6> QED  BY <6>1, <6>2
        <5> QED  BY <5>3, <5>4, <5>5
      <4>2. ASSUME Is(stack[v][d], "range", "wait"), NEW k \in 1..(q - 1) PROVE d < new[k]
        BY <3>3, <3>5, <3>6, <4>2
      <4> QED  BY <4>1, <4>2
    <3>10. ~(q > 1) => deque'[v] = << >>
      <4>1. deque'[v] \in Seq(GoodJobs)
        BY DEF Loses
      <4> QED  BY <4>1, <3>1, <3>4, EmptySeq
    <3>11. Suits(stack'[v], deque'[v], new)
      BY <3>2, <3>4, <3>6, <3>7, <3>8, <3>9, <3>10 DEF Suits
    <3> QED  BY <2>4, <3>2, <3>4, <3>6, <3>11
  <2> QED  BY <2>2, <2>3, <2>4
<1> QED  BY <1>1 DEF Matched, Suits, Is, RightJob, Mid

-----------------------------------------------------------------------------
(* Which calls are running: those of the frames that stay, and the new.    *)
RunsBelow(w, m, b) ==
  \E u \in Crew : \E d \in 1..Len(stack[u]) : (u = w => d <= m) /\ Names(stack[u][d], b)

(* Which calls run afterwards: those on frames left, and those on new    *)
(* ones.                                                                 *)
LEMMA RunningAfter ==
  ASSUME FJTypes, NEW w \in Crew, NEW m, NEW new, Len(new) \in Nat, Becomes(w, m, new), NEW b
  PROVE  Running(b)' <=> RunsBelow(w, m, b) \/ \E i \in 1..Len(new) : Names(new[i], b)
<1>0. Placed(w, m, new)
  BY Positions
<1>1. Running(b)' <=> \E u \in Crew : \E d \in 1..Len(stack'[u]) : Names(stack'[u][d], b)
  BY DEF Running, Names
<1>2. Running(b)' => RunsBelow(w, m, b) \/ \E i \in 1..Len(new) : Names(new[i], b)
  BY <1>0, <1>1, Zenon DEF RunsBelow, Placed
<1>3. RunsBelow(w, m, b) => Running(b)'
  BY <1>0, <1>1, Zenon DEF RunsBelow, Placed
<1>4. (\E i \in 1..Len(new) : Names(new[i], b)) => Running(b)'
  BY <1>0, <1>1, Zenon DEF Placed
<1> QED  BY <1>2, <1>3, <1>4

(* Which calls run before: those below the innermost frame, and its own. *)
LEMMA RunningBefore ==
  ASSUME FJTypes, NEW w \in Crew, Busy(w), NEW b
  PROVE  /\ Running(b) <=> RunsBelow(w, Len(stack[w]) - 1, b) \/ Names(Top(w), b)
         /\ RunsBelow(w, Len(stack[w]) - 1, b) => Running(b)
<1>1. Len(stack[w]) \in Nat /\ Len(stack[w]) > 0 /\ Top(w) = stack[w][Len(stack[w])]
  BY TopFrame DEF Top
<1>2. \A d \in 1..Len(stack[w]) : d <= Len(stack[w]) - 1 \/ d = Len(stack[w])
  BY <1>1
<1>3. Len(stack[w]) \in 1..Len(stack[w])
  BY <1>1
<1> QED  BY <1>1, <1>2, <1>3, Zenon DEF Running, RunsBelow

(* What one step does to who holds what, if it changes the top of a stack. *)
LEMMA TopFlow ==
  ASSUME ForkJoinAssumption, FJTypes, OneHolder, Families,
         NEW w \in Crew, Busy(w), NEW new, Len(new) \in Nat, Becomes(w, Len(stack[w]) - 1, new),
         \A u \in Crew : deque'[u] = deque[u], returned \subseteq returned',
         \A b \in Calls : \A i \in 1..Len(new) :
            Claims(new[i], b) => Claims(Top(w), b) \/ Fresh(b),
         \A b \in Calls : \A i, j \in 1..Len(new) : Claims(new[i], b) /\ Claims(new[j], b) => i = j,
         \A b \in Calls : Claims(Top(w), b) => b \in returned' \/ \E i \in 1..Len(new) : Claims(new[i], b),
         \A b \in Calls : Names(Top(w), b) => b \in returned' \/ \E i \in 1..Len(new) : Names(new[i], b),
         \A b \in returned' : b \in returned
            \/ (Names(Top(w), b) /\ \A i \in 1..Len(new) : ~Claims(new[i], b)),
         \A b \in Calls1 : \A i \in 1..Len(new) : Names(new[i], Parent(b)) =>
            Names(Top(w), Parent(b)) \/ \E j \in 1..Len(new) : Claims(new[j], b)
  PROVE  /\ OneHolder' /\ Flows
         /\ \A b \in Calls : Active(b)' => Active(b) \/ \E i \in 1..Len(new) : Claims(new[i], b)
<1>1. PICK n \in Nat : n = Len(stack[w]) /\ n > 0
  BY TopFrame
<1>2. /\ FramesApart /\ JobsApart
      /\ \A b \in Calls : ~(HeldOnStacks(b) /\ HeldInDeques(b))
      /\ \A b \in Calls : HeldOnStacks(b) \/ HeldInDeques(b) => b \notin returned
  BY DEF OneHolder, Active
<1>3. \A b \in Calls : HeldInDeques(b)' <=> HeldInDeques(b)
  BY DEF HeldInDeques, OwnsJob, Parent, Nth
<1>4. \A b \in Calls : HeldOnStacks(b) <=> HeldBelow(w, n - 1, b) \/ Claims(Top(w), b)
  BY <1>1, HeldBefore
<1>5. \A b \in Calls : HeldOnStacks(b)' <=> HeldBelow(w, n - 1, b) \/ \E i \in 1..Len(new) : Claims(new[i], b)
  BY <1>1, HeldAfter
<1>6. \A b \in Calls : Claims(Top(w), b) => ~HeldBelow(w, n - 1, b)
  BY <1>1, <1>2, TopApart
<1>7. \A b \in Calls : Fresh(b) => ~HeldOnStacks(b) /\ ~HeldInDeques(b) /\ b \notin returned
  BY DEF Fresh, Families, Active, Begun
<1>8. \A b \in Calls : \A i \in 1..Len(new) : Claims(new[i], b) => ~HeldBelow(w, n - 1, b)
  BY <1>4, <1>6, <1>7
<1>9. FramesApart'
  BY <1>1, <1>2, <1>8, FramesStayApart
<1>10. JobsApart'
  <2>1. ASSUME NEW b \in Calls, NEW u \in Crew, NEW v \in Crew,
               NEW k \in 1..Len(deque'[u]), NEW l \in 1..Len(deque'[v]),
               OwnsJob(deque'[u][k], b), OwnsJob(deque'[v][l], b)
        PROVE  u = v /\ k = l
    <3>1. deque'[u] = deque[u] /\ deque'[v] = deque[v]
      OBVIOUS
    <3>2. /\ k \in 1..Len(deque[u]) /\ OwnsJob(deque[u][k], b)
          /\ l \in 1..Len(deque[v]) /\ OwnsJob(deque[v][l], b)
      BY <2>1, <3>1
    <3> QED  BY <3>2, <1>2 DEF JobsApart
  <2>2. \A b \in Calls : \A u, v \in Crew :
          \A k \in 1..Len(deque'[u]), l \in 1..Len(deque'[v]) :
            OwnsJob(deque'[u][k], b) /\ OwnsJob(deque'[v][l], b) => u = v /\ k = l
    BY <2>1
  <2> QED  BY <2>2 DEF JobsApart, OwnsJob, Parent, Nth
<1>11. \A b \in Calls : ~(HeldOnStacks(b)' /\ HeldInDeques(b)')
  BY <1>2, <1>3, <1>4, <1>5, <1>7, Zenon
<1>12. \A b \in Calls : Names(Top(w), b) => Claims(Top(w), b)
  BY DEF Claims
<1>13. ASSUME NEW b \in Calls, HeldOnStacks(b)' \/ HeldInDeques(b)'
       PROVE  b \notin returned'
  <2>1. b \notin returned
    BY <1>2, <1>3, <1>4, <1>5, <1>7, <1>13, Zenon
  <2>2. ~(Names(Top(w), b) /\ \A i \in 1..Len(new) : ~Claims(new[i], b))
    BY <1>2, <1>3, <1>4, <1>5, <1>6, <1>12, <1>13, Zenon
  <2> QED  BY <2>1, <2>2
<1>14. OneHolder'
  <2>1. \A b \in Calls : Active(b)' => b \notin returned'
    BY <1>13 DEF Active
  <2> QED  BY <1>9, <1>10, <1>11, <2>1 DEF OneHolder
<1>15. \A b \in Calls : Active(b)' => Active(b) \/ Fresh(b)
  BY <1>3, <1>4, <1>5, Zenon DEF Active
<1>22. \A b \in Calls : Active(b)' => Active(b) \/ \E i \in 1..Len(new) : Claims(new[i], b)
  BY <1>3, <1>4, <1>5, Zenon DEF Active
<1>16. \A b \in Calls : Active(b) => Active(b)' \/ b \in returned'
  BY <1>3, <1>4, <1>5, Zenon DEF Active
<1>17. \A b \in Calls : Running(b) <=> RunsBelow(w, n - 1, b) \/ Names(Top(w), b)
  BY <1>1, RunningBefore
<1>18. \A b \in Calls : Running(b)' <=> RunsBelow(w, n - 1, b) \/ \E i \in 1..Len(new) : Names(new[i], b)
  BY <1>1, RunningAfter
<1>19. \A b \in Calls : Begun(b) => Begun(b)'
  <2>1. \A b \in Calls : Running(b) => Running(b)' \/ b \in returned'
    BY <1>17, <1>18, Zenon
  <2> QED  BY <2>1 DEF Begun
<1>20. ASSUME NEW b \in Calls1, NEW c \in Calls, c = Parent(b), Begun(c)'
       PROVE  Begun(c) \/ Active(b)'
  <2>1. b \in Calls
    BY DEF Calls1
  <2>2. CASE c \in returned'
    <3>1. c \in returned \/ Names(Top(w), c)
      BY <2>2
    <3> QED  BY <3>1, <1>17 DEF Begun
  <2>3. CASE Running(c)'
    <3>1. CASE RunsBelow(w, n - 1, c)
      BY <3>1, <1>17 DEF Begun
    <3>2. CASE \E i \in 1..Len(new) : Names(new[i], c)
      <4>1. Names(Top(w), c) \/ \E j \in 1..Len(new) : Claims(new[j], b)
        BY <1>20, <3>2
      <4> QED  BY <2>1, <4>1, <1>5, <1>17 DEF Begun, Active
    <3> QED  BY <1>18, <2>3, <3>1, <3>2
  <2> QED  BY <1>20, <2>2, <2>3 DEF Begun
<1>21. ASSUME NEW b \in Calls1, Begun(Parent(b))' PROVE Begun(Parent(b)) \/ Active(b)'
  <2>1. PICK c \in Calls : c = Parent(b)
    BY CallParts
  <2>2. Begun(c)'
    BY <1>21, <2>1 DEF Parent
  <2> QED  BY <1>20, <2>1, <2>2
<1> QED  BY <1>14, <1>15, <1>16, <1>19, <1>21, <1>22 DEF Flows

-----------------------------------------------------------------------------
(* What is known of the frame a worker is about to act on.                 *)
LEMMA TopKnown ==
  ASSUME ForkJoinAssumption, FJInv, NEW w \in Crew, Busy(w), NEW f, f = Top(w)
  PROVE  /\ f \in GoodFrames /\ f.call \in Calls /\ Begun(f.call) /\ Clean(f, TRUE)
         /\ Len(stack[w]) \in Nat /\ Len(stack[w]) > 0
         /\ Len(stack[w]) \in 1..Len(stack[w]) /\ stack[w][Len(stack[w])] = f
         /\ \A d \in 1..Len(stack[w]) : d > Len(stack[w]) - 1 => stack[w][d] = f
         /\ Len(stack[w]) > 1 => Above(stack[w][Len(stack[w]) - 1], f)
         /\ f.kind = "loop" /\ granularity # 0 => f.next = 0
         /\ \A b \in Calls : Claims(f, b) => HeldOnStacks(b) /\ Active(b) /\ b \notin returned
<1>1. FJTypes /\ Stacked /\ CleanLeft /\ Families /\ OneHolder
  BY DEF FJInv
<1>2. PICK n \in Nat : n = Len(stack[w]) /\ n > 0 /\ Top(w) = stack[w][n]
  BY <1>1, TopFrame DEF Top
<1>3. n \in 1..n /\ \A d \in 1..n : d > n - 1 => d = n
  BY <1>2
<1>4. f \in GoodFrames /\ f.call \in Calls
  BY <1>1, <1>2, <1>3, FrameCalls
<1>5. Begun(f.call)
  BY <1>1, <1>2, <1>3 DEF Families
<1>6. Clean(f, TRUE)
  <2>1. Clean(stack[w][n], n = n)
    BY <1>1, <1>2, <1>3 DEF CleanLeft
  <2> QED  BY <1>2, <2>1
<1>7. ASSUME n > 1 PROVE Above(stack[w][n - 1], f)
  <2>1. n - 1 \in 1..(n - 1) /\ (n - 1) + 1 = n
    BY <1>2, <1>7
  <2> QED  BY <1>1, <1>2, <2>1 DEF Stacked
<1>8. f.kind = "loop" /\ granularity # 0 => f.next = 0
  BY <1>1, <1>2, <1>3 DEF Stacked
<1>9. ASSUME NEW b \in Calls, Claims(f, b) PROVE HeldOnStacks(b) /\ Active(b) /\ b \notin returned
  <2>1. HeldOnStacks(b)
    BY <1>2, <1>3, <1>9 DEF HeldOnStacks
  <2> QED  BY <1>1, <2>1 DEF Active, OneHolder
<1> QED  BY <1>2, <1>3, <1>4, <1>5, <1>6, <1>7, <1>8, <1>9

(* An index that has not been called has not begun, nor has what it calls. *)
LEMMA OwnedNotBegun ==
  ASSUME ForkJoinAssumption, FJInv, NEW w \in Crew, Busy(w), NEW c \in Calls, Owns(Top(w), c)
  PROVE  /\ ~Begun(c) /\ c \in Calls1
         /\ \A b \in Calls1 : Parent(b) = c => Fresh(b)
<1>1. FJTypes /\ OneHolder /\ Families
  BY DEF FJInv
<1>2. c \in Calls1 /\ Parent(c) = Top(w).call
  BY DEF Owns, Calls1
<1>3. HeldOnStacks(c) /\ c \notin returned /\ Claims(Top(w), c)
  BY TopKnown DEF Claims
<1>4. ~Names(Top(w), c)
  BY <1>2, CallParts DEF Names
<1>5. ASSUME Running(c) PROVE FALSE
  <2>1. PICK u \in Crew : \E d \in 1..Len(stack[u]) : Names(stack[u][d], c)
    BY <1>5 DEF Running
  <2>2. PICK d \in 1..Len(stack[u]) : Names(stack[u][d], c)
    BY <2>1
  <2>3. Claims(stack[u][d], c)
    BY <2>2 DEF Claims
  <2>4. Len(stack[w]) \in 1..Len(stack[w]) /\ stack[w][Len(stack[w])] = Top(w)
    BY TopKnown
  <2>5. u = w /\ d = Len(stack[w])
    BY <1>1, <1>3, <2>3, <2>4 DEF OneHolder, FramesApart
  <2> QED  BY <1>4, <2>2, <2>4, <2>5
<1>6. ~Begun(c)
  BY <1>3, <1>5 DEF Begun
<1>7. ASSUME NEW b \in Calls1, Parent(b) = c PROVE Fresh(b)
  BY <1>6, <1>7 DEF Fresh
<1> QED  BY <1>2, <1>6, <1>7

(* What a new frame holds: a call itself and all its indices; of a range,  *)
(* the indices it spans.                                                   *)
LEMMA CallHolds ==
  ASSUME ForkJoinAssumption, NEW c \in Calls, NEW g, g = CallFrame(c)
  PROVE  /\ g \in GoodFrames /\ g.call = c /\ g.kind # "range" /\ (g.kind = "loop" => g.next = 0)
         /\ \A b \in Calls : Names(g, b) <=> b = c
         /\ \A b \in Calls : Owns(g, b) <=> b \in Calls1 /\ Parent(b) = c
         /\ Clean(g, TRUE)'
<1>1. CASE c \in Loops
  <2>1. g = LoopFrame(c)
    BY <1>1 DEF CallFrame
  <2>2. /\ g.kind = "loop" /\ g.call = c /\ g.at = "measure" /\ g.lo = 0
        /\ g.hi = Size(c) /\ g.next = 0 /\ g.upto = 1
    BY <2>1 DEF LoopFrame
  <2>3. Size(c) \in Nat
    BY <1>1, CallParts
  <2>4. g \in GoodFrames
    BY <1>1, <2>1, <2>2, <2>3 DEF LoopFrame, GoodFrames, GoodLoops
  <2>5. \A b \in Calls : Names(g, b) <=> b = c
    BY <2>2 DEF Names
  <2>6. ASSUME NEW b \in Calls PROVE Owns(g, b) <=> b \in Calls1 /\ Parent(b) = c
    <3>1. Owns(g, b) => b \in Calls1 /\ Parent(b) = c
      BY <2>2 DEF Owns, Calls1
    <3>2. ASSUME b \in Calls1, Parent(b) = c PROVE Owns(g, b)
      <4>1. Nth(b) \in 0..(Size(c) - 1) /\ b # << >>
        BY <3>2, CallParts DEF Calls1
      <4>2. 0 <= Nth(b) /\ Nth(b) < Size(c)
        BY <2>3, <4>1
      <4> QED  BY <2>2, <3>2, <4>1, <4>2 DEF Owns
    <3> QED  BY <3>1, <3>2
  <2>7. Clean(g, TRUE)'
    <3>1. \A b \in Calls1 : ~(0 <= Nth(b) /\ Nth(b) < 0)
      <4> TAKE b \in Calls1
      <4>1. Nth(b) \in 0..(Size(Parent(b)) - 1)
        BY CallParts
      <4> QED  BY <4>1
    <3>2. Silent(c, 0, 0)'
      BY <3>1 DEF Silent, Calls1, Nth
    <3> QED  BY <2>2, <3>2 DEF Clean, Is
  <2> QED  BY <2>2, <2>4, <2>5, <2>6, <2>7
<1>2. CASE c \notin Loops
  <2>1. g = [kind |-> "body", call |-> c]
    BY <1>2 DEF CallFrame, BodyFrame
  <2>2. g \in GoodFrames
    BY <1>2, <2>1 DEF GoodFrames, GoodBodies
  <2>3. g.kind = "body" /\ g.call = c
    BY <2>1
  <2>4. \A b \in Calls : Names(g, b) <=> b = c
    BY <2>3 DEF Names
  <2>5. ASSUME NEW b \in Calls PROVE Owns(g, b) <=> b \in Calls1 /\ Parent(b) = c
    <3>1. b \in Calls1 => Parent(b) # c
      BY <1>2, CallParts
    <3>2. ~Owns(g, b)
      BY <2>3 DEF Owns
    <3> QED  BY <3>1, <3>2
  <2>6. Clean(g, TRUE)'
    BY <2>3 DEF Clean, Is
  <2> QED  BY <2>2, <2>3, <2>4, <2>5, <2>6
<1> QED  BY <1>1, <1>2

(* A half that is called holds the indices it spans, and no call.        *)
LEMMA RangeHolds ==
  ASSUME ForkJoinAssumption, NEW c \in Loops, NEW lo \in Nat, NEW hi \in Nat, NEW gran \in Nat,
         lo <= hi, hi <= Size(c), lo < hi => gran > 0,
         NEW g, g = HalfFrame(c, lo, hi, gran)
  PROVE  /\ g \in GoodFrames /\ Entered(g, c, lo, hi, gran)
         /\ \A b \in Calls : ~Names(g, b)
         /\ \A b \in Calls : Owns(g, b) <=> Within(b, c, lo, hi)
         /\ Clean(g, TRUE)'
<1>1. /\ g.kind = "range" /\ g.call = c /\ g.at = "enter"
      /\ g.lo = lo /\ g.hi = hi /\ g.next = lo /\ g.gran = gran
  BY DEF RangeFrame, HalfFrame
<1>2. g \in GoodFrames
  <2>1. Size(c) \in Nat
    BY CallParts
  <2> QED  BY <1>1, <2>1 DEF RangeFrame, HalfFrame, GoodFrames, GoodRanges
<1>3. \A b \in Calls : ~Names(g, b)
  BY <1>1 DEF Names
<1>4. \A b \in Calls : Owns(g, b) <=> Within(b, c, lo, hi)
  BY <1>1 DEF Owns, Calls1, Within
<1>5. Clean(g, TRUE)'
  <2>1. \A b \in Calls1 : ~(lo <= Nth(b) /\ Nth(b) < lo)
    <3> TAKE b \in Calls1
    <3>1. Nth(b) \in 0..(Size(Parent(b)) - 1)
      BY CallParts
    <3> QED  BY <3>1
  <2>2. Silent(c, lo, lo)'
    BY <2>1 DEF Silent, Calls1, Nth
  <2> QED  BY <1>1, <2>2 DEF Clean, Is
<1> QED  BY <1>1, <1>2, <1>3, <1>4, <1>5 DEF Entered

(* So does a job that is run.                                            *)
LEMMA JobHolds ==
  ASSUME ForkJoinAssumption, NEW c \in Loops, NEW lo \in Nat, NEW hi \in Nat, NEW gran \in Nat,
         lo < hi, hi <= Size(c), gran > 0,
         NEW g, g = TakenFrame(c, lo, hi, gran)
  PROVE  /\ g \in GoodFrames /\ Entered(g, c, lo, hi, gran)
         /\ \A b \in Calls : ~Names(g, b)
         /\ \A b \in Calls : Owns(g, b) <=> Within(b, c, lo, hi)
         /\ Clean(g, TRUE)'
<1>1. /\ g.kind = "range" /\ g.call = c /\ g.at = "enter"
      /\ g.lo = lo /\ g.hi = hi /\ g.next = lo /\ g.gran = gran
  BY DEF RangeFrame, TakenFrame
<1>2. g \in GoodFrames
  <2>1. Size(c) \in Nat
    BY CallParts
  <2> QED  BY <1>1, <2>1 DEF RangeFrame, TakenFrame, GoodFrames, GoodRanges
<1>3. \A b \in Calls : ~Names(g, b)
  BY <1>1 DEF Names
<1>4. \A b \in Calls : Owns(g, b) <=> Within(b, c, lo, hi)
  BY <1>1 DEF Owns, Calls1, Within
<1>5. Clean(g, TRUE)'
  <2>1. \A b \in Calls1 : ~(lo <= Nth(b) /\ Nth(b) < lo)
    <3> TAKE b \in Calls1
    <3>1. Nth(b) \in 0..(Size(Parent(b)) - 1)
      BY CallParts
    <3> QED  BY <3>1
  <2>2. Silent(c, lo, lo)'
    BY <2>1 DEF Silent, Calls1, Nth
  <2> QED  BY <1>1, <2>2 DEF Clean, Is
<1> QED  BY <1>1, <1>2, <1>3, <1>4, <1>5 DEF Entered

-----------------------------------------------------------------------------
(* The frame below the top is as clean as it was.                          *)
LEMMA BelowStays ==
  ASSUME ForkJoinAssumption, FJInv, Flows, NEW w \in Crew, NEW m, m + 1 = Len(stack[w]), m \in Nat
  PROVE  \A f : m > 0 /\ f = stack[w][m] => Clean(f, FALSE)'
<1>1. ASSUME NEW f, m > 0, f = stack[w][m] PROVE Clean(f, FALSE)'
  <2>1. m \in 1..Len(stack[w]) /\ m # Len(stack[w])
    BY <1>1
  <2>2. Clean(stack[w][m], m = Len(stack[w])) /\ Begun(stack[w][m].call)
    BY <2>1 DEF FJInv, CleanLeft, Families
  <2>3. Clean(f, FALSE) /\ Begun(f.call)
    BY <1>1, <2>1, <2>2
  <2> QED  BY <2>3, CleanStays
<1> QED  BY <1>1

(* The first index of the innermost range.                                 *)
LEMMA FirstOfTop ==
  ASSUME ForkJoinAssumption, FJInv, NEW w \in Crew, Busy(w), NEW f, f = Top(w),
         f.kind = "range", f.lo < f.hi
  PROVE  Begun(First(f)) \/ Starts(f, First(f))
<1>1. PICK n \in Nat : n = Len(stack[w]) /\ n > 0 /\ n \in 1..Len(stack[w]) /\ stack[w][n] = f
  BY TopKnown
<1>2. Begun(First(f)) \/ \E e \in 1..n : n <= e /\ Starts(stack[w][e], First(f))
  BY <1>1 DEF FJInv, FirstIndex
<1>3. \A e \in 1..n : n <= e => e = n
  BY <1>1
<1> QED  BY <1>1, <1>2, <1>3

(* Jobs that are run or wait have their forker as long as it stays.        *)
LEMMA AliveStep ==
  ASSUME FJTypes, NEW w \in Crew, NEW m, NEW new, Len(new) \in Nat, Becomes(w, m, new), Aliveness,
         \A j : RunAsJob(j)' => RunAsJob(j), \A u \in Crew : deque'[u] = deque[u],
         \A j \in GoodJobs : \A d \in 1..Len(stack[w]) : d > m /\ Forks(stack[w][d], j) =>
            (~RunAsJob(j) /\ ~Waits(j)) \/ \E i \in 1..Len(new) : Forks(new[i], j)
  PROVE  Aliveness'
<1>1. \A j : Waits(j)' <=> Waits(j)
  BY DEF Waits
<1>2. ASSUME NEW j \in GoodJobs, RunAsJob(j)' \/ Waits(j)' PROVE HasForker(j)'
  <2>1. RunAsJob(j) \/ Waits(j)
    BY <1>1, <1>2
  <2>2. HasForker(j)
    BY <2>1 DEF Aliveness
  <2>3. \A d \in 1..Len(stack[w]) : d > m /\ Forks(stack[w][d], j) =>
            \E i \in 1..Len(new) : Forks(new[i], j)
    BY <2>1
  <2> QED  BY <2>2, <2>3, ForkerStep
<1>3. (\A j \in GoodJobs : RunAsJob(j) \/ Waits(j) => HasForker(j))'
  BY <1>2
<1> QED  BY <1>3 DEF Aliveness

(* Calls that are active after a step belong to loops that run.            *)
LEMMA ActiveRuns ==
  ASSUME ForkJoinAssumption, FJTypes, Families,
         NEW w \in Crew, Busy(w), NEW new, Len(new) \in Nat, Becomes(w, Len(stack[w]) - 1, new),
         \A b \in Calls : Active(b)' => Active(b) \/ \E i \in 1..Len(new) : Claims(new[i], b),
         \A b \in Calls1 : Active(b)' /\ Names(Top(w), Parent(b)) =>
            \E i \in 1..Len(new) : Names(new[i], Parent(b)),
         \A b \in Calls1 : \A i \in 1..Len(new) : Claims(new[i], b) =>
            Active(b) \/ \E j \in 1..Len(new) : Names(new[j], Parent(b))
  PROVE  \A b \in Calls1 : Active(b)' => Running(Parent(b))'
<1>1. ASSUME NEW b \in Calls1, Active(b)', NEW c \in Calls, c = Parent(b) PROVE Running(c)'
  <2>0. b \in Calls
    BY DEF Calls1
  <2>1. Running(c) <=> RunsBelow(w, Len(stack[w]) - 1, c) \/ Names(Top(w), c)
    BY RunningBefore
  <2>2. Running(c)' <=> RunsBelow(w, Len(stack[w]) - 1, c) \/ \E i \in 1..Len(new) : Names(new[i], c)
    BY RunningAfter
  <2>3. Names(Top(w), c) => \E i \in 1..Len(new) : Names(new[i], c)
    BY <1>1
  <2>4. Active(b) => Running(c)
    BY <1>1 DEF Families
  <2>5. Active(b) \/ \E j \in 1..Len(new) : Names(new[j], c)
    <3>1. Active(b) \/ \E i \in 1..Len(new) : Claims(new[i], b)
      BY <1>1, <2>0
    <3> QED  BY <1>1, <3>1
  <2> QED  BY <2>1, <2>2, <2>3, <2>4, <2>5
<1>2. ASSUME NEW b \in Calls1, Active(b)' PROVE Running(Parent(b))'
  <2>1. PICK c \in Calls : c = Parent(b)
    BY CallParts
  <2>2. Running(c)'
    BY <1>1, <1>2, <2>1
  <2> QED  BY <2>1, <2>2 DEF Parent
<1> QED  BY <1>2

(* Types, while the deques are as they were.                               *)
LEMMA TypesStep ==
  ASSUME FJTypes, NEW w, NEW m, NEW new, Becomes(w, m, new), deque' = deque,
         finished' \subseteq GoodJobs, returned' \subseteq Calls,
         granularity' = granularity, conservative' = conservative
  PROVE  FJTypes'
<1>1. GoodFrames' = GoodFrames /\ GoodJobs' = GoodJobs
  BY DEF GoodFrames, GoodLoops, GoodRanges, GoodBodies, GoodJobs, Job, Whole
<1>2. stack' \in [Crew -> Seq(GoodFrames)]
  BY DEF Becomes
<1> QED  BY <1>1, <1>2 DEF FJTypes

(* A range that has not begun starts with its first index.                 *)
LEMMA StartsNew ==
  ASSUME ForkJoinAssumption, NEW g, g.kind = "range", g.at = "enter", g.next = g.lo,
         g.call \in Loops, g.lo \in Nat, g.hi \in Nat, g.lo < g.hi, g.hi <= Size(g.call),
         NEW b, b = First(g)
  PROVE  Starts(g, b)
<1>1. Size(g.call) \in Nat
  BY CallParts
<1>2. g.lo \in 0..(Size(g.call) - 1)
  BY <1>1
<1>3. b \in Calls1 /\ Parent(b) = g.call /\ Nth(b) = g.lo
  BY <1>2, CallParts DEF First
<1> QED  BY <1>3 DEF Starts, Owns, First, Calls1

(* The first index of a range that is not empty is a call of its loop.     *)
LEMMA FirstInCalls ==
  ASSUME ForkJoinAssumption, NEW f \in GoodFrames, f.kind = "range", f.lo < f.hi, NEW b, b = First(f)
  PROVE  /\ b \in Calls /\ b \in Calls1 /\ Parent(b) = f.call /\ Nth(b) = f.lo
         /\ f.call \in Loops /\ f.lo \in Nat /\ f.hi \in Nat /\ f.hi <= Size(f.call)
<1>1. f \in GoodRanges
  BY DEF GoodFrames, GoodLoops, GoodRanges, GoodBodies
<1>2. f.call \in Loops /\ f.lo \in Nat /\ f.hi \in Nat /\ f.hi <= Size(f.call)
  BY <1>1 DEF GoodRanges
<1>3. Size(f.call) \in Nat
  BY <1>2, CallParts
<1>4. f.lo \in 0..(Size(f.call) - 1)
  BY <1>2, <1>3
<1> QED  BY <1>2, <1>4, CallParts DEF First, Calls1

(* An index is called.                                                     *)
LEMMA IndexKeeps ==
  ASSUME ForkJoinAssumption, FJInv, NEW w \in Crew, Index(w)
  PROVE  FJInv'
<1>1. PICK f : f = Top(w)
  OBVIOUS
<1>2. PICK c : c = Append(f.call, f.next)
  OBVIOUS
<1>3. PICK f2 : f2 = [f EXCEPT !.next = @ + 1]
  OBVIOUS
<1>4. PICK g : g = CallFrame(c)
  OBVIOUS
<1>5. /\ Busy(w) /\ f.next < f.hi /\ SetAndCall(w, f2, g)
      /\ \/ f.kind = "loop" /\ f.at = "measure" /\ granularity = 0
         \/ f.kind = "range" /\ f.at = "enter" /\ f.hi - f.lo <= f.gran
  <2>1. SetAndCall(w, f2, g)
    BY <1>1, <1>2, <1>3, <1>4 DEF Index
  <2>2. \/ Measuring(w) /\ f.next < Smaller(f.upto, f.hi)
        \/ TopIs(w, "range", "enter") /\ f.next < f.hi /\ f.hi - f.lo <= f.gran
    BY <1>1 DEF Index
  <2>3. f \in GoodFrames
    BY <2>2, <1>1, TopKnown DEF Measuring, TopIs
  <2>4. CASE Measuring(w) /\ f.next < Smaller(f.upto, f.hi)
    <3>1. f \in GoodLoops
      BY <1>1, <2>3, <2>4 DEF Measuring, TopIs, GoodFrames, GoodLoops, GoodRanges, GoodBodies
    <3>2. f.next \in Nat /\ f.hi \in Nat /\ f.upto \in Nat
      BY <3>1 DEF GoodLoops
    <3> QED  BY <1>1, <2>1, <2>4, <3>2 DEF Measuring, TopIs, Smaller
  <2>5. CASE TopIs(w, "range", "enter") /\ f.next < f.hi /\ f.hi - f.lo <= f.gran
    BY <1>1, <2>1, <2>5 DEF TopIs
  <2> QED  BY <2>2, <2>4, <2>5
<1>6. /\ FJTypes /\ Stacked /\ Matched /\ OneHolder /\ Families /\ NoneLost /\ CleanLeft
      /\ FirstIndex /\ OneRunner /\ Aliveness
  BY DEF FJInv
<1>7. /\ f \in GoodFrames /\ Begun(f.call) /\ Clean(f, TRUE)
      /\ \A b \in Calls : Claims(f, b) => HeldOnStacks(b) /\ Active(b) /\ b \notin returned
  BY <1>1, <1>5, TopKnown
<1>8. /\ f.call \in Loops /\ f.next \in Nat /\ f.lo \in Nat /\ f.hi \in Nat /\ f.lo <= f.next /\ f.hi <= Size(f.call)
      /\ Size(f.call) \in Nat /\ f2 \in GoodFrames
      /\ f2.kind = f.kind /\ f2.call = f.call /\ f2.at = f.at /\ f2.lo = f.lo /\ f2.hi = f.hi
      /\ f2.next = f.next + 1
      /\ f.kind = "range" => f2.job = f.job /\ f2.gran = f.gran
  <2>0. f.kind = "loop" => f.call \in Loops
    BY <1>5, <1>7 DEF GoodFrames, GoodLoops, GoodRanges, GoodBodies
  <2>1. CASE f.kind = "loop"
    <3>1. f \in GoodLoops
      BY <1>7, <2>1 DEF GoodFrames, GoodLoops, GoodRanges, GoodBodies
    <3>2. f2 \in GoodLoops
      BY <1>3, <1>5, <3>1 DEF GoodLoops
    <3>3. Size(f.call) \in Nat
      BY <2>0, <2>1, CallParts
    <3> QED  BY <1>3, <2>1, <3>1, <3>2, <3>3 DEF GoodLoops, GoodFrames
  <2>2. CASE f.kind = "range"
    <3>1. f \in GoodRanges
      BY <1>7, <2>2 DEF GoodFrames, GoodLoops, GoodRanges, GoodBodies
    <3>2. f2 \in GoodRanges
      BY <1>3, <1>5, <2>2, <3>1 DEF GoodRanges, Whole
    <3>4. f.call \in Loops
      BY <3>1 DEF GoodRanges
    <3>3. Size(f.call) \in Nat
      BY <3>4, CallParts
    <3> QED  BY <1>3, <2>2, <3>1, <3>2, <3>3 DEF GoodRanges, GoodFrames
  <2> QED  BY <1>5, <2>1, <2>2
<1>9. /\ c \in Calls1 /\ c \in Calls /\ Parent(c) = f.call /\ Nth(c) = f.next /\ c # f.call
  <2>1. f.next \in 0..(Size(f.call) - 1)
    BY <1>5, <1>8
  <2> QED  BY <1>2, <1>8, <2>1, CallParts DEF Calls1
<1>10. f.kind # "body" /\ f.at \in {"measure", "enter"}
  BY <1>5
<1>11. Owns(f, c)
  BY <1>5, <1>8, <1>9, <1>10 DEF Owns, Calls1
<1>12. ~Begun(c) /\ \A b \in Calls1 : Parent(b) = c => Fresh(b)
  BY <1>1, <1>5, <1>9, <1>11, OwnedNotBegun
<1>13. /\ g \in GoodFrames /\ g.call = c /\ g.kind # "range" /\ (g.kind = "loop" => g.next = 0)
       /\ \A b \in Calls : Names(g, b) <=> b = c
       /\ \A b \in Calls : Owns(g, b) <=> b \in Calls1 /\ Parent(b) = c
       /\ Clean(g, TRUE)'
  BY <1>4, <1>9, CallHolds
<1>14. \A b \in Calls : Names(f2, b) <=> Names(f, b)
  BY <1>8 DEF Names
<1>15. ASSUME NEW b \in Calls
       PROVE  (Owns(f, b) <=> Owns(f2, b) \/ b = c) /\ ~Owns(f2, c)
  <2>1. ~Owns(f2, c)
    BY <1>8, <1>9 DEF Owns
  <2>2. ASSUME Owns(f, b), b # c PROVE Owns(f2, b)
    <3>1. b \in Calls1 /\ Parent(b) = f.call
      BY <2>2 DEF Owns, Calls1
    <3>2. b = Append(f.call, Nth(b)) /\ Nth(b) \in 0..(Size(f.call) - 1)
      BY <3>1, CallParts
    <3>3. Nth(b) # f.next
      BY <1>2, <2>2, <3>2
    <3>4. f.next <= Nth(b) /\ Nth(b) < f.hi
      BY <2>2 DEF Owns
    <3>5. f.next + 1 <= Nth(b)
      BY <1>8, <3>2, <3>3, <3>4
    <3> QED  BY <1>8, <2>2, <3>5 DEF Owns
  <2>3. ASSUME Owns(f2, b) PROVE Owns(f, b)
    <3>1. b \in Calls1 /\ Parent(b) = f.call
      BY <1>8, <2>3 DEF Owns, Calls1
    <3>2. Nth(b) \in 0..(Size(f.call) - 1)
      BY <3>1, CallParts
    <3>3. f.next + 1 <= Nth(b)
      BY <1>8, <2>3 DEF Owns
    <3>4. f.next <= Nth(b)
      BY <1>8, <3>2, <3>3
    <3> QED  BY <1>8, <2>3, <3>4 DEF Owns
  <2> QED  BY <1>11, <2>1, <2>2, <2>3
<1>16. \A b \in Calls : Fresh(b) => ~Active(b) /\ b # c
  <2>1. \A b \in Calls : Fresh(b) => ~Active(b)
    BY <1>6 DEF Fresh, Families, Begun
  <2>2. Active(c)
    BY <1>7, <1>9, <1>11 DEF Claims
  <2> QED  BY <2>1, <2>2
<1>17. \A b \in Calls : Claims(f2, b) => Claims(f, b) /\ Active(b) /\ b # c
  <2>1. \A b \in Calls : Names(f, b) => b # c
    BY <1>9 DEF Names
  <2> QED  BY <1>7, <1>14, <1>15, <2>1 DEF Claims
<1>18. \A b \in Calls : Claims(g, b) <=> b = c \/ (b \in Calls1 /\ Parent(b) = c)
  BY <1>13 DEF Claims
<1>19. PICK new : new = << f2, g >>
  OBVIOUS
<1>20. /\ Len(new) = 2 /\ Len(new) \in Nat /\ new[1] = f2 /\ new[2] = g
       /\ \A i \in 1..Len(new) : i = 1 \/ i = 2
       /\ 1 \in 1..Len(new) /\ 2 \in 1..Len(new)
  BY <1>19
<1>21. Becomes(w, Len(stack[w]) - 1, new)
  BY <1>5, <1>6, <1>8, <1>13, <1>19, CallBecomes
<1>22. /\ \A u \in Crew : deque'[u] = deque[u]
       /\ deque' = deque /\ finished' = finished /\ returned' = returned
       /\ granularity' = granularity /\ conservative' = conservative
  BY DEF Index, arguments
<1>23. /\ OneHolder' /\ Flows
       /\ \A b \in Calls : Active(b)' => Active(b) \/ \E i \in 1..Len(new) : Claims(new[i], b)
  <2>1. \A b \in Calls : \A i \in 1..Len(new) : Claims(new[i], b) => Claims(Top(w), b) \/ Fresh(b)
    <3>1. \A b \in Calls : Claims(g, b) => Claims(f, b) \/ Fresh(b)
      BY <1>11, <1>12, <1>18 DEF Claims
    <3> QED  BY <1>1, <1>17, <1>20, <3>1
  <2>2. \A b \in Calls : ~(Claims(f2, b) /\ Claims(g, b))
    BY <1>12, <1>16, <1>17, <1>18
  <2>3. \A b \in Calls : \A i, j \in 1..Len(new) : Claims(new[i], b) /\ Claims(new[j], b) => i = j
    BY <1>20, <2>2
  <2>4. \A b \in Calls : Claims(Top(w), b) => b \in returned' \/ \E i \in 1..Len(new) : Claims(new[i], b)
    <3>1. \A b \in Calls : Claims(f, b) => Claims(f2, b) \/ Claims(g, b)
      BY <1>14, <1>15, <1>18 DEF Claims
    <3> QED  BY <1>1, <1>20, <3>1
  <2>5. \A b \in Calls : Names(Top(w), b) => b \in returned' \/ \E i \in 1..Len(new) : Names(new[i], b)
    BY <1>1, <1>14, <1>20
  <2>6. \A b \in Calls1 : \A i \in 1..Len(new) : Names(new[i], Parent(b)) =>
            Names(Top(w), Parent(b)) \/ \E j \in 1..Len(new) : Claims(new[j], b)
    <3> TAKE b \in Calls1
    <3>1. b \in Calls /\ Parent(b) \in Calls
      BY CallParts DEF Calls1
    <3>2. Names(g, Parent(b)) => Claims(g, b)
      BY <1>13, <1>18, <3>1
    <3>3. Names(f2, Parent(b)) => Names(f, Parent(b))
      BY <1>14, <3>1
    <3> QED  BY <1>1, <1>20, <3>2, <3>3
  <2>7. \A b \in returned' : b \in returned
            \/ (Names(Top(w), b) /\ \A i \in 1..Len(new) : ~Claims(new[i], b))
    BY <1>22
  <2>8. returned \subseteq returned'
    BY <1>22
  <2> QED  BY <1>5, <1>6, <1>20, <1>21, <1>22, <2>1, <2>3, <2>4, <2>5, <2>6, <2>7, <2>8, TopFlow
<1>24. FJTypes'
  <2>1. finished' \subseteq GoodJobs /\ returned' \subseteq Calls
    BY <1>6, <1>22 DEF FJTypes
  <2> QED  BY <1>6, <1>21, <1>22, <2>1, TypesStep
<1>25. PICK m \in Nat : m = Len(stack[w]) - 1 /\ m + 1 = Len(stack[w])
  <2>1. PICK n \in Nat : n = Len(stack[w]) /\ n > 0
    BY <1>1, <1>5, TopKnown
  <2>2. n - 1 \in Nat /\ (n - 1) + 1 = n
    BY <2>1
  <2> QED  BY <2>1, <2>2
<1>26. /\ Becomes(w, m, new)
       /\ \A d \in 1..Len(stack[w]) : d > m => stack[w][d] = f
       /\ m > 0 => Above(stack[w][m], f)
  <2>1. m > 0 => Len(stack[w]) > 1
    BY <1>25
  <2> QED  BY <1>1, <1>5, <1>21, <1>25, <2>1, TopKnown
<1>27. Stacked'
  <2>1. m > 0 => Above(stack[w][m], f2)
    BY <1>8, <1>10, <1>26 DEF Above, Is
  <2>2. Above(f2, g)
    <3>1. f2.next > f2.lo /\ g.call = Append(f2.call, f2.next - 1)
      BY <1>2, <1>8, <1>13
    <3> QED  BY <1>8, <1>10, <1>13, <3>1 DEF Above, Is
  <2>3. f2.kind = "loop" /\ granularity # 0 => f2.next = 0
    BY <1>5, <1>8
  <2>4. \A i \in 1..(Len(new) - 1) : i = 1 /\ i + 1 = 2
    BY <1>20
  <2>5. \A i \in 1..(Len(new) - 1) : Above(new[i], new[i + 1])
    BY <1>20, <2>2, <2>4
  <2>6. \A i \in 1..Len(new) : new[i].kind = "loop" /\ granularity # 0 => new[i].next = 0
    BY <1>13, <1>20, <2>3
  <2>7. m > 0 /\ Len(new) > 0 => Above(stack[w][m], new[1])
    BY <1>20, <2>1
  <2> QED  BY <1>6, <1>20, <1>22, <1>26, <2>5, <2>6, <2>7, StackedStep
<1>28. Matched'
  <2>1. \A d \in 1..Len(stack[w]) : d > m => ~Is(stack[w][d], "range", "left")
    BY <1>10, <1>26 DEF Is
  <2>2. \A i \in 1..Len(new) : /\ ~Is(new[i], "range", "left")
                               /\ Is(new[i], "range", "wait") => deque[w] = << >>
    BY <1>8, <1>10, <1>13, <1>20 DEF Is
  <2> QED  BY <1>6, <1>20, <1>22, <1>26, <2>1, <2>2, FitsKept
<1>29. Families'
  <2>1. \A b \in Calls1 : Active(b)' /\ Names(Top(w), Parent(b)) =>
            \E i \in 1..Len(new) : Names(new[i], Parent(b))
    BY <1>1, <1>14, <1>20, CallParts
  <2>2. \A b \in Calls1 : \A i \in 1..Len(new) : Claims(new[i], b) =>
            Active(b) \/ \E j \in 1..Len(new) : Names(new[j], Parent(b))
    <3> TAKE b \in Calls1
    <3>1. b \in Calls
      BY DEF Calls1
    <3>2. Claims(f2, b) => Active(b)
      BY <1>17, <3>1
    <3>3. Claims(g, b) => Active(b) \/ Names(g, Parent(b))
      <4>1. Active(c)
        BY <1>7, <1>9, <1>11 DEF Claims
      <4> QED  BY <1>9, <1>13, <1>18, <3>1, <4>1
    <3> QED  BY <1>20, <3>2, <3>3
  <2>3. \A b \in Calls1 : Active(b)' => Running(Parent(b))'
    BY <1>5, <1>6, <1>20, <1>21, <1>23, <2>1, <2>2, ActiveRuns
  <2>4. Begun(c)'
    <3>1. \E i \in 1..Len(new) : Names(new[i], c)
      BY <1>9, <1>13, <1>20
    <3>2. Running(c)'
      BY <1>6, <1>20, <1>26, <3>1, RunningAfter
    <3> QED  BY <3>2 DEF Begun
  <2>5. \A i \in 1..Len(new) : Begun(new[i].call)'
    <3>1. \A d : d = f.call => Begun(d)'
      BY <1>7, <1>8, <1>23, CallParts DEF Flows
    <3>2. \A d : d = c => Begun(d)'
      BY <2>4
    <3>3. \A i \in 1..Len(new) : new[i].call = f.call \/ new[i].call = c
      BY <1>8, <1>13, <1>20
    <3>4. \A i \in 1..Len(new) : \A d : d = new[i].call => Begun(d)'
      BY <3>1, <3>2, <3>3
    <3> QED  BY <3>4
  <2>6. \A b \in returned' : b \in returned \/ Active(b)
    BY <1>22
  <2>7. \A j \in finished' : j \in finished \/ Begun(j.call)'
    BY <1>22
  <2> QED  BY <1>6, <1>20, <1>23, <1>26, <2>3, <2>5, <2>6, <2>7, FamiliesStep
<1>30. NoneLost'
  BY <1>6, <1>23, NoneLostStep
<1>31. CleanLeft'
  <2>1. Clean(f2, FALSE)'
    <3>1. Silent(f.call, f.lo, f.next)
      BY <1>7, <1>10 DEF Clean
    <3>2. Silent(f.call, f.lo, f.next)'
      BY <1>7, <1>23, <3>1, QuietStays
    <3>3. (f.next + 1) - 1 = f.next
      BY <1>8
    <3>4. Silent(f2.call, f2.lo, f2.next - 1)'
      BY <1>8, <3>2, <3>3
    <3> QED  BY <1>8, <1>10, <3>4 DEF Clean, Is
  <2>2. \A e : m > 0 /\ e = stack[w][m] => Clean(e, Len(new) = 0)'
    <3>1. \A e : m > 0 /\ e = stack[w][m] => Clean(e, FALSE)'
      BY <1>23, <1>25, BelowStays
    <3>2. (Len(new) = 0) = FALSE
      BY <1>20
    <3> QED  BY <3>1, <3>2
  <2>3. \A i \in 1..Len(new) : Clean(new[i], i = Len(new))'
    <3> TAKE i \in 1..Len(new)
    <3>1. CASE i = 1
      <4>1. new[i] = f2 /\ (i = Len(new)) = FALSE
        BY <1>20, <3>1
      <4> QED  BY <2>1, <4>1
    <3>2. CASE i = 2
      <4>1. new[i] = g /\ (i = Len(new)) = TRUE
        BY <1>20, <3>2
      <4> QED  BY <1>13, <4>1
    <3> QED  BY <1>20, <3>1, <3>2
  <2>4. \A j \in finished' : j \in finished \/ Silent(j.call, j.lo, j.hi)'
    BY <1>22
  <2> QED  BY <1>6, <1>20, <1>23, <1>26, <2>2, <2>3, <2>4, CleanStep
<1>32. FirstIndex'
  <2>0. \A b : b = c => Begun(b)'
    <3>1. \E i \in 1..Len(new) : Names(new[i], c)
      BY <1>9, <1>13, <1>20
    <3>2. Running(c)'
      BY <1>6, <1>20, <1>26, <3>1, RunningAfter
    <3> QED  BY <3>2 DEF Begun
  <2>1. ASSUME NEW b, Starts(f, b) PROVE Begun(b)' \/ Starts(f2, b)
    <3>1. f.kind = "range" /\ Append(f.call, f.lo) = b /\ Owns(f, b)
      BY <2>1 DEF Starts
    <3>2. b \in Calls
      <4>1. f.lo \in 0..(Size(f.call) - 1)
        BY <1>5, <1>8
      <4> QED  BY <1>8, <3>1, <4>1, CallParts DEF Calls1
    <3>3. CASE b = c
      BY <2>0, <3>3
    <3>4. CASE Owns(f2, b)
      BY <1>8, <3>1, <3>4 DEF Starts
    <3> QED  BY <1>15, <3>1, <3>2, <3>3, <3>4
  <2>2. \A b : \A d \in 1..Len(stack[w]) : d > m /\ Starts(stack[w][d], b) =>
            Begun(b)' \/ \E i \in 1..Len(new) : Starts(new[i], b)
    BY <1>20, <1>26, <2>1
  <2>3. \A b : \A i \in 1..Len(new) : new[i].kind = "range" /\ new[i].lo < new[i].hi
                  /\ b = First(new[i]) =>
            Begun(b)' \/ \E j \in 1..Len(new) : i <= j /\ Starts(new[j], b)
    <3> TAKE b
    <3> TAKE i \in 1..Len(new)
    <3>1. HAVE new[i].kind = "range" /\ new[i].lo < new[i].hi /\ b = First(new[i])
    <3>2. i = 1 /\ new[i] = f2
      BY <1>13, <1>20, <3>1
    <3>3. f.kind = "range" /\ f.lo < f.hi /\ b = First(f)
      BY <1>8, <3>1, <3>2 DEF First
    <3>4. Begun(b) \/ Starts(f, b)
      BY <1>1, <1>5, <3>3, FirstOfTop
    <3>5. b \in Calls
      <4>1. f.lo \in 0..(Size(f.call) - 1)
        BY <1>5, <1>8
      <4> QED  BY <1>8, <3>3, <4>1, CallParts DEF Calls1, First
    <3>6. Begun(b) => Begun(b)'
      BY <1>23, <3>5 DEF Flows
    <3>7. Begun(b)' \/ Starts(f2, b)
      BY <2>1, <3>4, <3>6
    <3> QED  BY <1>20, <3>2, <3>7
  <2> QED  BY <1>6, <1>20, <1>23, <1>26, <2>2, <2>3, FirstStep
<1>33. OneRunner' /\ \A j : RunAsJob(j)' => RunAsJob(j)
  <2>1. \A i \in 1..Len(new) : \A j : RunsJob(new[i], j) => i = 1 /\ RunsJob(Top(w), j)
    <3>1. \A j : RunsJob(f2, j) => RunsJob(f, j)
      BY <1>8 DEF RunsJob, AsJob
    <3>2. \A j : ~RunsJob(g, j)
      BY <1>13 DEF RunsJob
    <3> QED  BY <1>1, <1>20, <3>1, <3>2
  <2>2. \A j \in finished' : j \in finished \/ (RunsJob(Top(w), j) /\ Len(new) = 0)
    BY <1>22
  <2> QED  BY <1>5, <1>6, <1>20, <1>21, <2>1, <2>2, RunnerStep
<1>34. Aliveness'
  <2>1. \A j \in GoodJobs : \A d \in 1..Len(stack[w]) : d > m /\ Forks(stack[w][d], j) =>
            (~RunAsJob(j) /\ ~Waits(j)) \/ \E i \in 1..Len(new) : Forks(new[i], j)
    BY <1>10, <1>26 DEF Forks
  <2> QED  BY <1>6, <1>20, <1>22, <1>26, <1>33, <2>1, AliveStep
<1> QED  BY <1>24, <1>27, <1>28, <1>23, <1>29, <1>30, <1>31, <1>32, <1>33, <1>34 DEF FJInv

-----------------------------------------------------------------------------
(* A loop is left to parfor_: what it has not called is the range's.       *)
LEMMA SplitKeeps ==
  ASSUME ForkJoinAssumption, FJInv, NEW w \in Crew, Measured(w) \/ Given(w)
  PROVE  FJInv'
<1>0. PICK f : f = Top(w)
  OBVIOUS
<1>1. PICK f2 : f2 = [f EXCEPT !.at = "split"]
  OBVIOUS
<1>2. PICK gran \in Nat :
        /\ Busy(w) /\ f.kind = "loop" /\ f.at = "measure" /\ (f.next < f.hi => gran > 0)
        /\ SetAndCall(w, f2, HalfFrame(f.call, f.next, f.hi, gran))
  <2>1. TopIs(w, "loop", "measure")
    BY DEF Measured, Given, Measuring
  <2>2. Busy(w) /\ f.kind = "loop" /\ f.at = "measure"
    BY <1>0, <2>1 DEF TopIs
  <2>3. f \in GoodLoops /\ (granularity # 0 => f.next = 0)
    BY <1>0, <2>2, TopKnown DEF GoodFrames, GoodLoops, GoodRanges, GoodBodies
  <2>4. f.next \in Nat /\ f.hi \in Nat /\ f.upto \in Nat \ {0}
    BY <2>3 DEF GoodLoops
  <2>5. CASE Measured(w)
    <3>1. PICK gran : gran = Larger(f.next, f.hi \div Chunks)
      OBVIOUS
    <3>2. SetAndCall(w, f2, HalfFrame(f.call, f.next, f.hi, gran)) /\ f.next = Smaller(f.upto, f.hi)
      BY <1>0, <1>1, <2>5, <3>1 DEF Measured, HalfFrame
    <3>3. f.hi \div Chunks \in Nat
      BY <2>4 DEF ForkJoinAssumption
    <3>4. gran \in Nat /\ (f.next < f.hi => gran > 0)
      BY <2>4, <3>1, <3>2, <3>3 DEF Larger, Smaller
    <3> QED  BY <2>2, <3>2, <3>4
  <2>6. CASE Given(w)
    <3>1. granularity \in Nat /\ granularity # 0 /\ f.next = 0
      BY <2>3, <2>6 DEF Given, FJInv, FJTypes, ForkJoinAssumption
    <3>2. SetAndCall(w, f2, HalfFrame(f.call, f.next, f.hi, granularity))
      BY <1>0, <1>1, <2>6, <3>1 DEF Given, HalfFrame
    <3>3. f.next < f.hi => granularity > 0
      BY <3>1
    <3> QED  BY <2>2, <3>1, <3>2, <3>3
  <2> QED  BY <2>5, <2>6
<1>3. PICK g : g = HalfFrame(f.call, f.next, f.hi, gran)
  OBVIOUS
<1>14. Busy(w) /\ f.kind = "loop" /\ f.at = "measure" /\ SetAndCall(w, f2, g)
  BY <1>2, <1>3
<1>4. /\ FJTypes /\ Stacked /\ Matched /\ OneHolder /\ Families /\ NoneLost /\ CleanLeft
      /\ FirstIndex /\ OneRunner /\ Aliveness
  BY DEF FJInv
<1>5. /\ f \in GoodFrames /\ Begun(f.call) /\ Clean(f, TRUE)
      /\ granularity # 0 => f.next = 0
      /\ \A b \in Calls : Claims(f, b) => HeldOnStacks(b) /\ Active(b) /\ b \notin returned
  BY <1>0, <1>14, TopKnown
<1>6. /\ f.call \in Loops /\ f.next \in Nat /\ f.lo = 0 /\ f.hi \in Nat /\ f.next <= f.hi
      /\ f.hi = Size(f.call) /\ Size(f.call) \in Nat /\ f2 \in GoodFrames
      /\ f2.kind = f.kind /\ f2.call = f.call /\ f2.at = "split" /\ f2.lo = f.lo /\ f2.hi = f.hi
      /\ f2.next = f.next
  <2>1. f \in GoodLoops
    BY <1>14, <1>5 DEF GoodFrames, GoodLoops, GoodRanges, GoodBodies
  <2>2. f2 \in GoodLoops
    BY <1>1, <2>1 DEF GoodLoops
  <2> QED  BY <1>1, <2>1, <2>2 DEF GoodLoops, GoodFrames
<1>7. /\ g \in GoodFrames /\ g.kind = "range" /\ g.call = f.call /\ g.at = "enter"
      /\ g.lo = f.next /\ g.hi = f.hi /\ g.next = f.next /\ g.gran = gran /\ ~g.job
      /\ \A b \in Calls : ~Names(g, b)
      /\ \A b \in Calls : Owns(g, b) <=> Within(b, f.call, f.next, f.hi)
      /\ Clean(g, TRUE)'
  <2>1. /\ f.call \in Loops /\ f.next \in Nat /\ f.hi \in Nat /\ gran \in Nat
        /\ f.next <= f.hi /\ f.hi <= Size(f.call) /\ (f.next < f.hi => gran > 0)
    BY <1>2, <1>6
  <2>2. g = HalfFrame(f.call, f.next, f.hi, gran)
    BY <1>3
  <2>3. /\ g \in GoodFrames /\ Entered(g, f.call, f.next, f.hi, gran)
        /\ \A b \in Calls : ~Names(g, b)
        /\ \A b \in Calls : Owns(g, b) <=> Within(b, f.call, f.next, f.hi)
        /\ Clean(g, TRUE)'
    BY <2>1, <2>2, RangeHolds, Zenon
  <2>4. ~g.job
    BY <1>3 DEF HalfFrame, RangeFrame
  <2> QED  BY <2>3, <2>4 DEF Entered
<1>8. \A b \in Calls : Names(f2, b) <=> Names(f, b)
  BY <1>6 DEF Names
<1>9. \A b \in Calls : ~Owns(f2, b)
  BY <1>6 DEF Owns
<1>10. \A b \in Calls : Owns(g, b) <=> Owns(f, b)
  BY <1>14, <1>7 DEF Owns, Calls1, Within
<1>11. \A b \in Calls : Claims(f2, b) <=> Names(f, b)
  BY <1>8, <1>9 DEF Claims
<1>12. \A b \in Calls : Claims(g, b) <=> Owns(f, b)
  BY <1>7, <1>10 DEF Claims
<1>13. \A b \in Calls : ~(Names(f, b) /\ Owns(f, b))
  <2>1. \A b \in Calls : Owns(f, b) => b \in Calls1 /\ Parent(b) = f.call
    BY DEF Owns, Calls1
  <2> QED  BY <2>1, CallParts DEF Names
<1>19. PICK new : new = << f2, g >>
  OBVIOUS
<1>20. /\ Len(new) = 2 /\ Len(new) \in Nat /\ new[1] = f2 /\ new[2] = g
       /\ \A i \in 1..Len(new) : i = 1 \/ i = 2
       /\ 1 \in 1..Len(new) /\ 2 \in 1..Len(new)
  BY <1>19
<1>21. Becomes(w, Len(stack[w]) - 1, new)
  BY <1>14, <1>4, <1>6, <1>7, <1>19, CallBecomes
<1>22. /\ \A u \in Crew : deque'[u] = deque[u]
       /\ deque' = deque /\ finished' = finished /\ returned' = returned
       /\ granularity' = granularity /\ conservative' = conservative
  BY DEF Measured, Given, arguments
<1>23. /\ OneHolder' /\ Flows
       /\ \A b \in Calls : Active(b)' => Active(b) \/ \E i \in 1..Len(new) : Claims(new[i], b)
  <2>1. \A b \in Calls : \A i \in 1..Len(new) : Claims(new[i], b) => Claims(Top(w), b) \/ Fresh(b)
    <3>1. \A b \in Calls : Claims(g, b) \/ Claims(f2, b) => Claims(f, b)
      BY <1>11, <1>12 DEF Claims
    <3> QED  BY <1>0, <1>20, <3>1
  <2>2. \A b \in Calls : ~(Claims(f2, b) /\ Claims(g, b))
    BY <1>11, <1>12, <1>13
  <2>3. \A b \in Calls : \A i, j \in 1..Len(new) : Claims(new[i], b) /\ Claims(new[j], b) => i = j
    BY <1>20, <2>2
  <2>4. \A b \in Calls : Claims(Top(w), b) => b \in returned' \/ \E i \in 1..Len(new) : Claims(new[i], b)
    <3>1. \A b \in Calls : Claims(f, b) => Claims(f2, b) \/ Claims(g, b)
      BY <1>11, <1>12 DEF Claims
    <3> QED  BY <1>0, <1>20, <3>1
  <2>5. \A b \in Calls : Names(Top(w), b) => b \in returned' \/ \E i \in 1..Len(new) : Names(new[i], b)
    BY <1>0, <1>8, <1>20
  <2>6. \A b \in Calls1 : \A i \in 1..Len(new) : Names(new[i], Parent(b)) =>
            Names(Top(w), Parent(b)) \/ \E j \in 1..Len(new) : Claims(new[j], b)
    <3> TAKE b \in Calls1
    <3>1. Parent(b) \in Calls
      BY CallParts
    <3>2. ~Names(g, Parent(b)) /\ (Names(f2, Parent(b)) => Names(f, Parent(b)))
      BY <1>7, <1>8, <3>1
    <3> QED  BY <1>0, <1>20, <3>2
  <2>7. \A b \in returned' : b \in returned
            \/ (Names(Top(w), b) /\ \A i \in 1..Len(new) : ~Claims(new[i], b))
    BY <1>22
  <2>8. returned \subseteq returned'
    BY <1>22
  <2> QED  BY <1>14, <1>4, <1>20, <1>21, <1>22, <2>1, <2>3, <2>4, <2>5, <2>6, <2>7, <2>8, TopFlow
<1>24. FJTypes'
  <2>1. finished' \subseteq GoodJobs /\ returned' \subseteq Calls
    BY <1>4, <1>22 DEF FJTypes
  <2> QED  BY <1>4, <1>21, <1>22, <2>1, TypesStep
<1>25. PICK m \in Nat : m = Len(stack[w]) - 1 /\ m + 1 = Len(stack[w])
  <2>1. PICK n \in Nat : n = Len(stack[w]) /\ n > 0
    BY <1>0, <1>14, TopKnown
  <2>2. n - 1 \in Nat /\ (n - 1) + 1 = n
    BY <2>1
  <2> QED  BY <2>1, <2>2
<1>26. /\ Becomes(w, m, new)
       /\ \A d \in 1..Len(stack[w]) : d > m => stack[w][d] = f
       /\ m > 0 => Above(stack[w][m], f)
  <2>1. m > 0 => Len(stack[w]) > 1
    BY <1>25
  <2> QED  BY <1>0, <1>14, <1>21, <1>25, <2>1, TopKnown
<1>27. Stacked'
  <2>1. m > 0 => Above(stack[w][m], f2)
    BY <1>14, <1>6, <1>26 DEF Above, Is
  <2>2. Above(f2, g)
    BY <1>14, <1>6, <1>7 DEF Above, Is
  <2>3. f2.kind = "loop" /\ granularity # 0 => f2.next = 0
    BY <1>5, <1>6
  <2>4. \A i \in 1..(Len(new) - 1) : i = 1 /\ i + 1 = 2
    BY <1>20
  <2>5. \A i \in 1..(Len(new) - 1) : Above(new[i], new[i + 1])
    BY <1>20, <2>2, <2>4
  <2>6. \A i \in 1..Len(new) : new[i].kind = "loop" /\ granularity # 0 => new[i].next = 0
    BY <1>7, <1>20, <2>3
  <2>7. m > 0 /\ Len(new) > 0 => Above(stack[w][m], new[1])
    BY <1>20, <2>1
  <2> QED  BY <1>4, <1>20, <1>22, <1>26, <2>5, <2>6, <2>7, StackedStep
<1>28. Matched'
  <2>1. \A d \in 1..Len(stack[w]) : d > m => ~Is(stack[w][d], "range", "left")
    BY <1>14, <1>26 DEF Is
  <2>2. \A i \in 1..Len(new) : /\ ~Is(new[i], "range", "left")
                               /\ Is(new[i], "range", "wait") => deque[w] = << >>
    BY <1>14, <1>6, <1>7, <1>20 DEF Is
  <2> QED  BY <1>4, <1>20, <1>22, <1>26, <2>1, <2>2, FitsKept
<1>29. Families'
  <2>1. \A b \in Calls1 : Active(b)' /\ Names(Top(w), Parent(b)) =>
            \E i \in 1..Len(new) : Names(new[i], Parent(b))
    BY <1>0, <1>8, <1>20, CallParts
  <2>2. \A b \in Calls1 : \A i \in 1..Len(new) : Claims(new[i], b) =>
            Active(b) \/ \E j \in 1..Len(new) : Names(new[j], Parent(b))
    <3> TAKE b \in Calls1
    <3>1. b \in Calls
      BY DEF Calls1
    <3>2. Claims(f2, b) \/ Claims(g, b) => Active(b)
      BY <1>5, <1>11, <1>12, <3>1 DEF Claims
    <3> QED  BY <1>20, <3>2
  <2>3. \A b \in Calls1 : Active(b)' => Running(Parent(b))'
    BY <1>14, <1>4, <1>20, <1>21, <1>23, <2>1, <2>2, ActiveRuns
  <2>5. \A i \in 1..Len(new) : Begun(new[i].call)'
    <3>1. \A d : d = f.call => Begun(d)'
      BY <1>5, <1>6, <1>23, CallParts DEF Flows
    <3>3. \A i \in 1..Len(new) : new[i].call = f.call
      BY <1>6, <1>7, <1>20
    <3>4. \A i \in 1..Len(new) : \A d : d = new[i].call => Begun(d)'
      BY <3>1, <3>3
    <3> QED  BY <3>4
  <2>6. \A b \in returned' : b \in returned \/ Active(b)
    BY <1>22
  <2>7. \A j \in finished' : j \in finished \/ Begun(j.call)'
    BY <1>22
  <2> QED  BY <1>4, <1>20, <1>23, <1>26, <2>3, <2>5, <2>6, <2>7, FamiliesStep
<1>30. NoneLost'
  BY <1>4, <1>23, NoneLostStep
<1>31. CleanLeft'
  <2>1. Clean(f2, FALSE)'
    <3>1. Silent(f.call, f.lo, f.next)
      BY <1>14, <1>5 DEF Clean
    <3>2. Silent(f.call, f.lo, f.next)'
      BY <1>5, <1>23, <3>1, QuietStays
    <3>4. Silent(f2.call, 0, f2.next)'
      BY <1>6, <3>2
    <3> QED  BY <1>14, <1>6, <3>4 DEF Clean, Is
  <2>2. \A e : m > 0 /\ e = stack[w][m] => Clean(e, Len(new) = 0)'
    <3>1. \A e : m > 0 /\ e = stack[w][m] => Clean(e, FALSE)'
      BY <1>23, <1>25, BelowStays
    <3>2. (Len(new) = 0) = FALSE
      BY <1>20
    <3> QED  BY <3>1, <3>2
  <2>3. \A i \in 1..Len(new) : Clean(new[i], i = Len(new))'
    <3> TAKE i \in 1..Len(new)
    <3>1. CASE i = 1
      <4>1. new[i] = f2 /\ (i = Len(new)) = FALSE
        BY <1>20, <3>1
      <4> QED  BY <2>1, <4>1
    <3>2. CASE i = 2
      <4>1. new[i] = g /\ (i = Len(new)) = TRUE
        BY <1>20, <3>2
      <4> QED  BY <1>7, <4>1
    <3> QED  BY <1>20, <3>1, <3>2
  <2>4. \A j \in finished' : j \in finished \/ Silent(j.call, j.lo, j.hi)'
    BY <1>22
  <2> QED  BY <1>4, <1>20, <1>23, <1>26, <2>2, <2>3, <2>4, CleanStep
<1>32. FirstIndex'
  <2>2. \A b : \A d \in 1..Len(stack[w]) : d > m /\ Starts(stack[w][d], b) =>
            Begun(b)' \/ \E i \in 1..Len(new) : Starts(new[i], b)
    BY <1>14, <1>26 DEF Starts
  <2>3. \A b : \A i \in 1..Len(new) : new[i].kind = "range" /\ new[i].lo < new[i].hi
                  /\ b = First(new[i]) =>
            Begun(b)' \/ \E j \in 1..Len(new) : i <= j /\ Starts(new[j], b)
    <3> TAKE b
    <3> TAKE i \in 1..Len(new)
    <3>1. HAVE new[i].kind = "range" /\ new[i].lo < new[i].hi /\ b = First(new[i])
    <3>2. i = 2 /\ new[i] = g
      BY <1>14, <1>6, <1>20, <3>1
    <3>3. Starts(g, b)
      BY <1>6, <1>7, <3>1, <3>2, StartsNew
    <3> QED  BY <1>20, <3>2, <3>3
  <2> QED  BY <1>4, <1>20, <1>23, <1>26, <2>2, <2>3, FirstStep
<1>33. OneRunner' /\ \A j : RunAsJob(j)' => RunAsJob(j)
  <2>1. \A i \in 1..Len(new) : \A j : RunsJob(new[i], j) => i = 1 /\ RunsJob(Top(w), j)
    <3>1. \A j : ~RunsJob(f2, j) /\ ~RunsJob(g, j)
      BY <1>14, <1>6, <1>7 DEF RunsJob
    <3> QED  BY <1>20, <3>1
  <2>2. \A j \in finished' : j \in finished \/ (RunsJob(Top(w), j) /\ Len(new) = 0)
    BY <1>22
  <2> QED  BY <1>14, <1>4, <1>20, <1>21, <2>1, <2>2, RunnerStep
<1>34. Aliveness'
  <2>1. \A j \in GoodJobs : \A d \in 1..Len(stack[w]) : d > m /\ Forks(stack[w][d], j) =>
            (~RunAsJob(j) /\ ~Waits(j)) \/ \E i \in 1..Len(new) : Forks(new[i], j)
    BY <1>14, <1>26 DEF Forks
  <2> QED  BY <1>4, <1>20, <1>22, <1>26, <1>33, <2>1, AliveStep
<1> QED  BY <1>24, <1>27, <1>28, <1>23, <1>29, <1>30, <1>31, <1>32, <1>33, <1>34 DEF FJInv

-----------------------------------------------------------------------------
(* A loop measures another batch, or a range waits: nothing else changes.  *)
LEMMA ChangeKeeps ==
  ASSUME ForkJoinAssumption, FJInv, NEW w \in Crew, Batch(w) \/ (Pop(w) /\ deque[w] = << >>)
  PROVE  FJInv'
<1>1. PICK f : f = Top(w)
  OBVIOUS
<1>2. PICK f2 \in GoodFrames :
        /\ Busy(w) /\ Set(w, f2)
        /\ f2.kind = f.kind /\ f2.call = f.call /\ f2.lo = f.lo /\ f2.hi = f.hi /\ f2.next = f.next
        /\ \/ f.kind = "loop" /\ f.at = "measure" /\ f2.at = "measure" /\ granularity = 0
           \/ /\ f.kind = "range" /\ f.at = "left" /\ f2.at = "wait" /\ deque[w] = << >>
              /\ f2.gran = f.gran /\ f2.job = f.job
  <2>1. CASE Batch(w)
    <3>1. PICK f2 : f2 = [f EXCEPT !.upto = 2 * @ + 1]
      OBVIOUS
    <3>2. Busy(w) /\ f.kind = "loop" /\ f.at = "measure" /\ Set(w, f2) /\ granularity = 0
      BY <1>1, <2>1, <3>1 DEF Batch, Measuring, TopIs
    <3>3. f \in GoodLoops
      BY <1>1, <3>2, TopKnown DEF GoodFrames, GoodLoops, GoodRanges, GoodBodies
    <3>4. f2 \in GoodLoops /\ f2.kind = f.kind /\ f2.call = f.call /\ f2.lo = f.lo /\ f2.hi = f.hi
          /\ f2.next = f.next /\ f2.at = f.at
      BY <3>1, <3>3 DEF GoodLoops
    <3> QED  BY <3>2, <3>4 DEF GoodFrames
  <2>2. CASE Pop(w) /\ deque[w] = << >>
    <3>1. PICK f2 : f2 = [f EXCEPT !.at = "wait"]
      OBVIOUS
    <3>2. Busy(w) /\ f.kind = "range" /\ f.at = "left" /\ Set(w, f2)
      <4>1. TopIs(w, "range", "left")
        BY <2>2 DEF Pop
      <4>2. Set(w, [Top(w) EXCEPT !.at = "wait"])
        BY <2>2 DEF Pop
      <4>3. Busy(w) /\ f.kind = "range" /\ f.at = "left"
        BY <1>1, <4>1 DEF TopIs
      <4>4. Set(w, f2)
        BY <1>1, <3>1, <4>2
      <4> QED  BY <4>3, <4>4
    <3>3. f \in GoodRanges
      <4>1. f \in GoodFrames
        BY <1>1, <3>2, TopKnown
      <4> QED  BY <3>2, <4>1 DEF GoodFrames, GoodLoops, GoodRanges, GoodBodies
    <3>4. f2 \in GoodRanges /\ f2.kind = f.kind /\ f2.call = f.call /\ f2.lo = f.lo /\ f2.hi = f.hi
          /\ f2.next = f.next /\ f2.at = "wait" /\ f2.gran = f.gran /\ f2.job = f.job
      BY <3>1, <3>2, <3>3 DEF GoodRanges, Whole
    <3> QED  BY <2>2, <3>2, <3>4 DEF GoodFrames
  <2> QED  BY <2>1, <2>2
<1>3. Busy(w)
  BY <1>2
<1>4. /\ FJTypes /\ Stacked /\ Matched /\ OneHolder /\ Families /\ NoneLost /\ CleanLeft
      /\ FirstIndex /\ OneRunner /\ Aliveness
  BY DEF FJInv
<1>5. /\ f \in GoodFrames /\ Begun(f.call) /\ Clean(f, TRUE) /\ f.call \in Calls
      /\ \A b \in Calls : Claims(f, b) => HeldOnStacks(b) /\ Active(b) /\ b \notin returned
  BY <1>1, <1>2, TopKnown
<1>8. \A b \in Calls : Names(f2, b) <=> Names(f, b)
  BY <1>2 DEF Names
<1>9. \A b \in Calls : Owns(f2, b) <=> Owns(f, b)
  BY <1>2 DEF Owns
<1>10. \A b \in Calls : Claims(f2, b) <=> Claims(f, b)
  BY <1>8, <1>9 DEF Claims
<1>19. PICK new : new = << f2 >>
  OBVIOUS
<1>20. /\ Len(new) = 1 /\ Len(new) \in Nat /\ new[1] = f2
       /\ \A i \in 1..Len(new) : i = 1
       /\ 1 \in 1..Len(new)
  BY <1>19
<1>21. Becomes(w, Len(stack[w]) - 1, new)
  BY <1>2, <1>4, <1>19, SetBecomes
<1>22. /\ \A u \in Crew : deque'[u] = deque[u]
       /\ deque' = deque /\ finished' = finished /\ returned' = returned
       /\ granularity' = granularity /\ conservative' = conservative
  BY DEF Batch, Pop, arguments
<1>23. /\ OneHolder' /\ Flows
       /\ \A b \in Calls : Active(b)' => Active(b) \/ \E i \in 1..Len(new) : Claims(new[i], b)
  <2>1. \A b \in Calls : \A i \in 1..Len(new) : Claims(new[i], b) => Claims(Top(w), b) \/ Fresh(b)
    BY <1>1, <1>10, <1>20
  <2>3. \A b \in Calls : \A i, j \in 1..Len(new) : Claims(new[i], b) /\ Claims(new[j], b) => i = j
    BY <1>20
  <2>4. \A b \in Calls : Claims(Top(w), b) => b \in returned' \/ \E i \in 1..Len(new) : Claims(new[i], b)
    BY <1>1, <1>10, <1>20
  <2>5. \A b \in Calls : Names(Top(w), b) => b \in returned' \/ \E i \in 1..Len(new) : Names(new[i], b)
    BY <1>1, <1>8, <1>20
  <2>6. \A b \in Calls1 : \A i \in 1..Len(new) : Names(new[i], Parent(b)) =>
            Names(Top(w), Parent(b)) \/ \E j \in 1..Len(new) : Claims(new[j], b)
    <3> TAKE b \in Calls1
    <3>1. Parent(b) \in Calls
      BY CallParts
    <3>2. Names(f2, Parent(b)) => Names(f, Parent(b))
      BY <1>8, <3>1
    <3> QED  BY <1>1, <1>20, <3>2
  <2>7. \A b \in returned' : b \in returned
            \/ (Names(Top(w), b) /\ \A i \in 1..Len(new) : ~Claims(new[i], b))
    BY <1>22
  <2>8. returned \subseteq returned'
    BY <1>22
  <2> QED  BY <1>2, <1>4, <1>20, <1>21, <1>22, <2>1, <2>3, <2>4, <2>5, <2>6, <2>7, <2>8, TopFlow
<1>24. FJTypes'
  <2>1. finished' \subseteq GoodJobs /\ returned' \subseteq Calls
    BY <1>4, <1>22 DEF FJTypes
  <2> QED  BY <1>4, <1>21, <1>22, <2>1, TypesStep
<1>25. PICK m \in Nat : m = Len(stack[w]) - 1 /\ m + 1 = Len(stack[w])
  <2>1. PICK n \in Nat : n = Len(stack[w]) /\ n > 0
    BY <1>2, TopKnown
  <2>2. n - 1 \in Nat /\ (n - 1) + 1 = n
    BY <2>1
  <2> QED  BY <2>1, <2>2
<1>26. /\ Becomes(w, m, new)
       /\ \A d \in 1..Len(stack[w]) : d > m => stack[w][d] = f
       /\ m > 0 => Above(stack[w][m], f)
  <2>1. m > 0 => Len(stack[w]) > 1
    BY <1>25
  <2>2. Becomes(w, m, new)
    BY <1>21, <1>25
  <2>3. /\ \A d \in 1..Len(stack[w]) : d > Len(stack[w]) - 1 => stack[w][d] = f
        /\ Len(stack[w]) > 1 => Above(stack[w][Len(stack[w]) - 1], f)
    BY <1>1, <1>3, TopKnown
  <2> QED  BY <1>25, <2>1, <2>2, <2>3
<1>27. Stacked'
  <2>1. m > 0 => Above(stack[w][m], f2)
    <3>1. f.kind # "range" => f2.kind # "range"
      BY <1>2
    <3> QED  BY <1>2, <1>26, <3>1 DEF Above, Is
  <2>3. f2.kind = "loop" /\ granularity # 0 => f2.next = 0
    BY <1>2
  <2>4. \A i \in 1..(Len(new) - 1) : FALSE
    BY <1>20
  <2>5. \A i \in 1..(Len(new) - 1) : Above(new[i], new[i + 1])
    BY <2>4
  <2>6. \A i \in 1..Len(new) : new[i].kind = "loop" /\ granularity # 0 => new[i].next = 0
    BY <1>20, <2>3
  <2>7. m > 0 /\ Len(new) > 0 => Above(stack[w][m], new[1])
    BY <1>20, <2>1
  <2> QED  BY <1>4, <1>20, <1>22, <1>26, <2>5, <2>6, <2>7, StackedStep
<1>28. Matched'
  <2>1. CASE f.kind = "loop"
    <3>1. \A d \in 1..Len(stack[w]) : d > m => ~Is(stack[w][d], "range", "left")
      BY <1>26, <2>1 DEF Is
    <3>2. \A i \in 1..Len(new) : /\ ~Is(new[i], "range", "left")
                                 /\ Is(new[i], "range", "wait") => deque[w] = << >>
      BY <1>2, <1>20, <2>1 DEF Is
    <3> QED  BY <1>4, <1>20, <1>22, <1>26, <3>1, <3>2, FitsKept
  <2>2. CASE deque[w] = << >>
    <3>1. \A u \in Crew : u # w => stack'[u] = stack[u]
      BY <1>26 DEF Becomes
    <3> QED  BY <1>4, <1>22, <2>2, <3>1, FitsEmptied
  <2> QED  BY <1>2, <2>1, <2>2
<1>29. Families'
  <2>1. \A b \in Calls1 : Active(b)' /\ Names(Top(w), Parent(b)) =>
            \E i \in 1..Len(new) : Names(new[i], Parent(b))
    BY <1>1, <1>8, <1>20, CallParts
  <2>2. \A b \in Calls1 : \A i \in 1..Len(new) : Claims(new[i], b) =>
            Active(b) \/ \E j \in 1..Len(new) : Names(new[j], Parent(b))
    <3> TAKE b \in Calls1
    <3>1. b \in Calls
      BY DEF Calls1
    <3>2. Claims(f2, b) => Active(b)
      BY <1>5, <1>10, <3>1
    <3> QED  BY <1>20, <3>2
  <2>3. \A b \in Calls1 : Active(b)' => Running(Parent(b))'
    BY <1>2, <1>4, <1>20, <1>21, <1>23, <2>1, <2>2, ActiveRuns
  <2>5. \A i \in 1..Len(new) : Begun(new[i].call)'
    <3>1. \A d : d = f.call => Begun(d)'
      BY <1>5, <1>23 DEF Flows
    <3>3. \A i \in 1..Len(new) : new[i].call = f.call
      BY <1>2, <1>20
    <3>4. \A i \in 1..Len(new) : \A d : d = new[i].call => Begun(d)'
      BY <3>1, <3>3
    <3> QED  BY <3>4
  <2>6. \A b \in returned' : b \in returned \/ Active(b)
    BY <1>22
  <2>7. \A j \in finished' : j \in finished \/ Begun(j.call)'
    BY <1>22
  <2> QED  BY <1>4, <1>20, <1>23, <1>26, <2>3, <2>5, <2>6, <2>7, FamiliesStep
<1>30. NoneLost'
  BY <1>4, <1>23, NoneLostStep
<1>31. CleanLeft'
  <2>1. Clean(f2, TRUE)'
    <3>1. Clean(f2, TRUE)
      BY <1>2, <1>5 DEF Clean, Is
    <3>2. Begun(f2.call)
      BY <1>2, <1>5
    <3> QED  BY <1>23, <3>1, <3>2, CleanStays
  <2>2. \A e : m > 0 /\ e = stack[w][m] => Clean(e, Len(new) = 0)'
    <3>1. \A e : m > 0 /\ e = stack[w][m] => Clean(e, FALSE)'
      BY <1>23, <1>25, BelowStays
    <3>2. (Len(new) = 0) = FALSE
      BY <1>20
    <3> QED  BY <3>1, <3>2
  <2>3. \A i \in 1..Len(new) : Clean(new[i], i = Len(new))'
    <3> TAKE i \in 1..Len(new)
    <3>1. new[i] = f2 /\ (i = Len(new)) = TRUE
      BY <1>20
    <3> QED  BY <2>1, <3>1
  <2>4. \A j \in finished' : j \in finished \/ Silent(j.call, j.lo, j.hi)'
    BY <1>22
  <2> QED  BY <1>4, <1>20, <1>23, <1>26, <2>2, <2>3, <2>4, CleanStep
<1>32. FirstIndex'
  <2>2. \A b : \A d \in 1..Len(stack[w]) : d > m /\ Starts(stack[w][d], b) =>
            Begun(b)' \/ \E i \in 1..Len(new) : Starts(new[i], b)
    BY <1>2, <1>26 DEF Starts, Owns
  <2>3. \A b : \A i \in 1..Len(new) : new[i].kind = "range" /\ new[i].lo < new[i].hi
                  /\ b = First(new[i]) =>
            Begun(b)' \/ \E j \in 1..Len(new) : i <= j /\ Starts(new[j], b)
    <3> TAKE b
    <3> TAKE i \in 1..Len(new)
    <3>1. HAVE new[i].kind = "range" /\ new[i].lo < new[i].hi /\ b = First(new[i])
    <3>2. i = 1 /\ new[i] = f2
      BY <1>20
    <3>3. f.kind = "range" /\ f.lo < f.hi /\ b = First(f) /\ f.at = "left"
      BY <1>2, <3>1, <3>2 DEF First
    <3>4. Begun(b) \/ Starts(f, b)
      BY <1>1, <1>2, <3>3, FirstOfTop
    <3>5. b \in Calls
      BY <1>5, <3>3, FirstInCalls
    <3>6. Begun(b)'
      BY <1>23, <3>3, <3>4, <3>5 DEF Flows, Starts, Owns
    <3> QED  BY <3>6
  <2> QED  BY <1>4, <1>20, <1>23, <1>26, <2>2, <2>3, FirstStep
<1>33. OneRunner' /\ \A j : RunAsJob(j)' => RunAsJob(j)
  <2>1. \A i \in 1..Len(new) : \A j : RunsJob(new[i], j) => i = 1 /\ RunsJob(Top(w), j)
    <3>1. \A j : RunsJob(f2, j) => RunsJob(f, j)
      BY <1>2 DEF RunsJob, AsJob
    <3> QED  BY <1>1, <1>20, <3>1
  <2>2. \A j \in finished' : j \in finished \/ (RunsJob(Top(w), j) /\ Len(new) = 0)
    BY <1>22
  <2> QED  BY <1>2, <1>4, <1>20, <1>21, <2>1, <2>2, RunnerStep
<1>34. Aliveness'
  <2>0. \A j : Forks(f, j) => Forks(f2, j)
    BY <1>2 DEF Forks, RightJob
  <2>1. \A j \in GoodJobs : \A d \in 1..Len(stack[w]) : d > m /\ Forks(stack[w][d], j) =>
            (~RunAsJob(j) /\ ~Waits(j)) \/ \E i \in 1..Len(new) : Forks(new[i], j)
    BY <1>20, <1>26, <2>0
  <2> QED  BY <1>4, <1>20, <1>22, <1>26, <1>33, <2>1, AliveStep
<1> QED  BY <1>24, <1>27, <1>28, <1>23, <1>29, <1>30, <1>31, <1>32, <1>33, <1>34 DEF FJInv

-----------------------------------------------------------------------------
(* A job that is done is in no deque.                                      *)
LEMMA DoneNotWaiting ==
  ASSUME ForkJoinAssumption, FJInv, NEW j \in finished
  PROVE  ~Waits(j) /\ ~RunAsJob(j)
<1>1. j \in GoodJobs /\ Silent(j.call, j.lo, j.hi)
  BY DEF FJInv, FJTypes, CleanLeft
<1>2. j.call \in Loops /\ j.lo \in Nat /\ j.hi \in Nat /\ j.lo < j.hi /\ j.hi <= Size(j.call)
  BY <1>1 DEF GoodJobs, Job
<1>3. Size(j.call) \in Nat
  BY <1>2, CallParts
<1>4. PICK b : b = Append(j.call, j.lo)
  OBVIOUS
<1>5. j.lo \in 0..(Size(j.call) - 1)
  BY <1>2, <1>3
<1>6. b \in Calls1 /\ Parent(b) = j.call /\ Nth(b) = j.lo
  BY <1>2, <1>4, <1>5, CallParts
<1>7. ~Active(b)
  BY <1>1, <1>2, <1>6 DEF Silent
<1>8. ASSUME Waits(j) PROVE FALSE
  <2>1. OwnsJob(j, b)
    BY <1>2, <1>6 DEF OwnsJob, Calls1
  <2>2. PICK u \in Crew : \E k \in 1..Len(deque[u]) : deque[u][k] = j
    BY <1>8 DEF Waits
  <2>3. HeldInDeques(b)
    BY <2>1, <2>2 DEF HeldInDeques
  <2> QED  BY <1>7, <2>3 DEF Active
<1>9. ~RunAsJob(j)
  BY <1>1 DEF FJInv, OneRunner, RunAsJob
<1> QED  BY <1>8, <1>9

(* A range that is over has none of its indices active.                    *)
LEMMA RangeIsQuiet ==
  ASSUME ForkJoinAssumption, FJInv, NEW w \in Crew, HalvesDone(w), NEW f, f = Top(w)
  PROVE  /\ Busy(w) /\ f \in GoodRanges /\ Silent(f.call, f.lo, f.hi)
         /\ \A b \in Calls : ~Claims(f, b)
         /\ f.at \in {"enter", "right", "wait"}
         /\ f.at = "wait" => RightJob(f) \in finished
<1>1. /\ Busy(w) /\ f.kind = "range"
      /\ \/ f.at = "right"
         \/ f.at = "enter" /\ f.next = f.hi
         \/ f.at = "wait" /\ RightJob(f) \in finished
  BY DEF HalvesDone, TopIs
<1>2. f \in GoodFrames /\ Clean(f, TRUE)
  BY <1>1, TopKnown
<1>3. f \in GoodRanges
  BY <1>1, <1>2 DEF GoodFrames, GoodLoops, GoodRanges, GoodBodies
<1>4. f.call \in Loops /\ f.lo \in Nat /\ f.hi \in Nat /\ f.gran \in Nat
  BY <1>3 DEF GoodRanges
<1>5. PICK z : z = Mid(f.lo, f.hi)
  OBVIOUS
<1>6. ASSUME Silent(f.call, f.lo, z), Silent(f.call, z, f.hi) PROVE Silent(f.call, f.lo, f.hi)
  <2>1. z \in Int
    <3>1. \A a, b \in Nat : a + (9 * (b - a + 1)) \div 16 \in Int
      OBVIOUS
    <3> QED  BY <1>4, <1>5, <3>1 DEF Mid
  <2>2. \A b \in Calls1 : Parent(b) \in Loops /\ Nth(b) \in Nat
    <3> TAKE b \in Calls1
    <3>1. Parent(b) \in Loops /\ Nth(b) \in 0..(Size(Parent(b)) - 1)
      BY CallParts
    <3> QED  BY <3>1
  <2>3. ASSUME NEW b \in Calls1, Parent(b) = f.call, f.lo <= Nth(b), Nth(b) < f.hi PROVE ~Active(b)
    <3>1. Nth(b) < z \/ z <= Nth(b)
      BY <2>1, <2>2
    <3>2. CASE Nth(b) < z
      BY <1>6, <2>3, <3>2 DEF Silent
    <3>3. CASE z <= Nth(b)
      BY <1>6, <2>3, <3>3 DEF Silent
    <3> QED  BY <3>1, <3>2, <3>3
  <2> QED  BY <2>3 DEF Silent
<1>7. Silent(f.call, f.lo, f.hi)
  <2>1. CASE f.at = "right"
    BY <1>1, <1>2, <1>5, <1>6, <2>1 DEF Clean, Is
  <2>2. CASE f.at = "enter" /\ f.next = f.hi
    BY <1>1, <1>2, <2>2 DEF Clean
  <2>3. CASE f.at = "wait" /\ RightJob(f) \in finished
    <3>1. Silent(f.call, f.lo, z)
      BY <1>1, <1>2, <1>5, <2>3 DEF Clean, Is
    <3>2. PICK j \in finished : j = RightJob(f)
      BY <2>3
    <3>3. Silent(j.call, j.lo, j.hi)
      BY DEF FJInv, CleanLeft
    <3>4. j.call = f.call /\ j.lo = z /\ j.hi = f.hi
      BY <1>5, <3>2 DEF RightJob
    <3> QED  BY <1>6, <3>1, <3>3, <3>4
  <2> QED  BY <1>1, <2>1, <2>2, <2>3
<1>8. ASSUME NEW b \in Calls PROVE ~Claims(f, b)
  <2>1. ~Names(f, b)
    BY <1>1 DEF Names
  <2>2. ASSUME Owns(f, b) PROVE FALSE
    <3>1. f.at = "enter" /\ f.next <= Nth(b) /\ Nth(b) < f.hi /\ b \in Calls1
      BY <1>1, <2>2 DEF Owns, Calls1
    <3>2. f.next = f.hi
      BY <1>1, <3>1
    <3>3. Nth(b) \in 0..(Size(Parent(b)) - 1)
      BY <3>1, CallParts
    <3> QED  BY <1>4, <3>1, <3>2, <3>3
  <2> QED  BY <2>1, <2>2 DEF Claims
<1>9. /\ f.at \in {"enter", "right", "wait"}
      /\ f.at = "wait" => RightJob(f) \in finished
  BY <1>1
<1> QED  BY <1>1, <1>3, <1>7, <1>8, <1>9

(* What a call that returns leaves behind.                                 *)
Leaves(w, f) ==
  /\ Busy(w) /\ Return(w) /\ f \in GoodFrames
  /\ returned \subseteq returned' /\ returned' \subseteq Calls /\ finished' \subseteq GoodJobs
  /\ \A b \in Calls : Claims(f, b) => Names(f, b)
  /\ \A b \in Calls : Names(f, b) => b \in returned'
  /\ \A b \in returned' : b \in returned \/ Names(f, b)
  /\ \A b \in Calls1 : Names(f, Parent(b)) => ~Active(b)
  /\ \A j \in finished' : j \in finished
       \/ (RunsJob(f, j) /\ j.call = f.call /\ Silent(j.call, j.lo, j.hi))
  /\ ~Is(f, "range", "left") /\ \A b : ~Starts(f, b)
  /\ \A j : Forks(f, j) => ~RunAsJob(j) /\ ~Waits(j)
  /\ f.kind = "range" => Silent(f.call, f.lo, f.hi)

(* A return takes one frame off, and with it the call it was, or the     *)
(* job.                                                                  *)
LEMMA ReturnLeaves ==
  ASSUME ForkJoinAssumption, FJInv, NEW w \in Crew,
         BodyReturns(w) \/ LoopReturns(w) \/ RangeReturns(w), NEW f, f = Top(w)
  PROVE  Leaves(w, f) /\ deque' = deque /\ granularity' = granularity /\ conservative' = conservative
<1>1. deque' = deque /\ granularity' = granularity /\ conservative' = conservative
  BY DEF BodyReturns, LoopReturns, RangeReturns, arguments
<1>2. finished \subseteq GoodJobs /\ returned \subseteq Calls
  BY DEF FJInv, FJTypes
<1>3. CASE BodyReturns(w) \/ LoopReturns(w)
  <2>1. /\ Busy(w) /\ Return(w) /\ returned' = returned \cup {f.call} /\ finished' = finished
        /\ f.kind = "body" \/ (f.kind = "loop" /\ f.at = "split")
    BY <1>3 DEF BodyReturns, LoopReturns, TopIs
  <2>2. f \in GoodFrames /\ f.call \in Calls /\ Clean(f, TRUE)
    BY <2>1, TopKnown
  <2>3. \A b \in Calls : Names(f, b) <=> b = f.call
    BY <2>1 DEF Names
  <2>4. \A b \in Calls : Claims(f, b) => Names(f, b)
    BY <2>1 DEF Claims, Owns
  <2>5. ASSUME NEW b \in Calls1, Names(f, Parent(b)) PROVE ~Active(b)
    <3>1. Parent(b) = f.call /\ Parent(b) \in Loops /\ Nth(b) \in 0..(Size(Parent(b)) - 1)
      BY <2>5, CallParts DEF Names
    <3>2. CASE f.kind = "body"
      <4>1. f.call \notin Loops
        BY <2>2, <3>2 DEF GoodFrames, GoodLoops, GoodRanges, GoodBodies
      <4> QED  BY <3>1, <4>1
    <3>3. CASE f.kind = "loop"
      <4>1. f \in GoodLoops
        BY <2>2, <3>3 DEF GoodFrames, GoodLoops, GoodRanges, GoodBodies
      <4>2. f.hi = Size(f.call) /\ Size(f.call) \in Nat
        BY <4>1, CallParts DEF GoodLoops
      <4>3. Silent(f.call, 0, f.hi)
        BY <2>1, <2>2, <3>3 DEF Clean, Is
      <4>4. 0 <= Nth(b) /\ Nth(b) < f.hi
        BY <3>1, <4>2
      <4> QED  BY <3>1, <4>3, <4>4 DEF Silent
    <3> QED  BY <2>1, <3>2, <3>3
  <2>6. ~Is(f, "range", "left") /\ (\A b : ~Starts(f, b)) /\ (\A j : ~Forks(f, j)) /\ f.kind # "range"
    BY <2>1 DEF Is, Starts, Forks
  <2> QED  BY <1>1, <1>2, <2>1, <2>2, <2>3, <2>4, <2>5, <2>6 DEF Leaves
<1>4. CASE RangeReturns(w)
  <2>1. /\ Return(w) /\ HalvesDone(w) /\ returned' = returned
        /\ finished' = IF f.job THEN finished \cup {AsJob(f)} ELSE finished
    BY <1>4 DEF RangeReturns
  <2>2. /\ Busy(w) /\ f \in GoodRanges /\ Silent(f.call, f.lo, f.hi)
        /\ \A b \in Calls : ~Claims(f, b)
        /\ f.at \in {"enter", "right", "wait"}
        /\ f.at = "wait" => RightJob(f) \in finished
    BY <2>1, RangeIsQuiet
  <2>3. f.kind = "range" /\ f \in GoodFrames
    BY <2>2 DEF GoodRanges, GoodFrames
  <2>4. \A b : ~Names(f, b)
    BY <2>3 DEF Names
  <2>5. f.job => AsJob(f) \in GoodJobs /\ RunsJob(f, AsJob(f))
    BY <2>2, <2>3 DEF GoodRanges, GoodJobs, Job, AsJob, RunsJob
  <2>6. ASSUME NEW j \in finished' 
        PROVE  /\ j \in finished \/ (RunsJob(f, j) /\ j.call = f.call /\ Silent(j.call, j.lo, j.hi))
               /\ j \in GoodJobs
    <3>1. CASE j \in finished
      BY <1>2, <3>1
    <3>2. CASE f.job /\ j = AsJob(f)
      <4>1. j.call = f.call /\ j.lo = f.lo /\ j.hi = f.hi
        BY <3>2 DEF AsJob
      <4> QED  BY <2>2, <2>5, <3>2, <4>1
    <3>3. j \in finished \/ (f.job /\ j = AsJob(f))
      <4>1. CASE f.job
        BY <2>1, <4>1
      <4>2. CASE ~f.job
        BY <2>1, <4>2
      <4> QED  BY <4>1, <4>2
    <3> QED  BY <3>1, <3>2, <3>3
  <2>7. ~Is(f, "range", "left")
    BY <2>2 DEF Is
  <2>8. ASSUME NEW b, Starts(f, b) PROVE FALSE
    <3>1. f.lo < f.hi /\ b = First(f)
      <4>1. f.lo <= f.next /\ f.next <= f.hi /\ f.lo \in Nat /\ f.hi \in Nat /\ f.next \in Nat
        BY <2>2 DEF GoodRanges
      <4>2. Owns(f, b) /\ b = First(f)
        BY <2>8 DEF Starts, First
      <4>3. b # << >> /\ Parent(b) = f.call /\ f.next <= Nth(b) /\ Nth(b) < f.hi
        BY <4>2 DEF Owns
      <4>4. \A i \in Nat : f.next <= i /\ i < f.hi => f.lo < f.hi
        BY <4>1
      <4>5. CASE f.lo = f.hi
        <5>1. f.next = f.hi
          BY <4>1, <4>5
        <5>2. f.call \in Seq(Nat)
          BY <2>2 DEF GoodRanges, Loops, ForkJoinAssumption
        <5>3. Len(b) = Len(f.call) + 1 /\ b[Len(f.call) + 1] = f.lo /\ Len(f.call) \in Nat
          BY <4>1, <4>2, <5>2 DEF First
        <5>4. Nth(b) = f.lo
          BY <5>3 DEF Nth
        <5> QED  BY <4>1, <4>3, <4>5, <5>1, <5>4
      <4> QED  BY <4>1, <4>2, <4>5
    <3>2. b \in Calls
      BY <2>3, <3>1, FirstInCalls
    <3> QED  BY <2>2, <2>8, <3>2 DEF Starts, Claims
  <2>9. ASSUME NEW j, Forks(f, j) PROVE ~RunAsJob(j) /\ ~Waits(j)
    <3>1. j \in finished
      BY <2>2, <2>9 DEF Forks
    <3> QED  BY <3>1, DoneNotWaiting
  <2>10. \A b \in Calls1 : ~Names(f, Parent(b))
    BY <2>4
  <2>11. finished' \subseteq GoodJobs
    BY <2>6
  <2>12. returned \subseteq returned' /\ returned' \subseteq Calls /\ \A b \in returned' : b \in returned
    BY <1>2, <2>1
  <2> QED  BY <1>1, <2>1, <2>2, <2>3, <2>4, <2>6, <2>7, <2>8, <2>9, <2>10, <2>11, <2>12 DEF Leaves
<1> QED  BY <1>3, <1>4

(* What it means that no index of a stretch is active in the next state. *)
LEMMA QuietNext ==
  ASSUME NEW c, NEW a, NEW z
  PROVE  Silent(c, a, z)' <=> \A b \in Calls1 : Parent(b) = c /\ a <= Nth(b) /\ Nth(b) < z => ~Active(b)'
BY DEF Silent, Calls1, Parent, Nth

(* The frame below a call that has returned is clean on top.               *)
LEMMA BelowReturn ==
  ASSUME ForkJoinAssumption, NEW e \in GoodFrames, NEW f, Above(e, f), Clean(e, FALSE)', OneHolder',
         f.kind = "range" => Silent(f.call, f.lo, f.hi)',
         \A b \in Calls : Names(f, b) => b \in returned'
  PROVE  Clean(e, TRUE)'
<1>0. \A b \in Calls1 : b \in Calls /\ Parent(b) \in Loops /\ Nth(b) \in Nat /\ b = Append(Parent(b), Nth(b))
  <2> TAKE b \in Calls1
  <2>1. Parent(b) \in Loops /\ Nth(b) \in 0..(Size(Parent(b)) - 1) /\ b = Append(Parent(b), Nth(b))
    BY CallParts
  <2> QED  BY <2>1 DEF Calls1
<1>1. CASE e.kind = "range" /\ e.at = "left"
  <2>1. f.kind = "range" /\ f.call = e.call /\ f.lo = e.lo /\ f.hi = Mid(e.lo, e.hi)
    BY <1>1 DEF Above, Is
  <2>2. Silent(e.call, e.lo, Mid(e.lo, e.hi))'
    BY <2>1
  <2> QED  BY <1>1, <2>2 DEF Clean, Is
<1>2. CASE e.kind = "range" /\ e.at = "right"
  <2>1. f.kind = "range" /\ f.call = e.call /\ f.lo = Mid(e.lo, e.hi) /\ f.hi = e.hi
    BY <1>2 DEF Above, Is
  <2>2. Silent(e.call, Mid(e.lo, e.hi), e.hi)'
    BY <2>1
  <2> QED  BY <1>2, <2>2 DEF Clean, Is
<1>3. CASE e.kind = "range" /\ e.at = "wait"
  BY <1>3 DEF Clean, Is
<1>4. CASE e.kind = "loop" /\ e.at = "split"
  <2>0. e.next \in Nat /\ e.hi \in Nat
    BY <1>4 DEF GoodFrames, GoodLoops, GoodRanges, GoodBodies
  <2>1. f.kind = "range" /\ f.call = e.call /\ f.lo = e.next /\ f.hi = e.hi
    BY <1>4 DEF Above, Is
  <2>2. Silent(e.call, e.next, e.hi)'
    BY <2>1
  <2>3. Silent(e.call, 0, e.next)'
    BY <1>4 DEF Clean, Is
  <2>4. ASSUME NEW b \in Calls1, Parent(b) = e.call, 0 <= Nth(b), Nth(b) < e.hi PROVE ~Active(b)'
    <3>1. Nth(b) < e.next \/ e.next <= Nth(b)
      BY <1>0, <2>0
    <3> QED  BY <2>2, <2>3, <2>4, <3>1, QuietNext
  <2>5. Silent(e.call, 0, e.hi)'
    BY <2>4, QuietNext
  <2> QED  BY <1>4, <2>5 DEF Clean, Is
<1>5. CASE e.kind # "body" /\ e.at \in {"measure", "enter"}
  <2>0. e.next \in Nat /\ e.lo \in Nat /\ (e.at = "measure" => e.kind = "loop") /\ (e.at = "enter" => e.kind = "range")
    BY <1>5 DEF GoodFrames, GoodLoops, GoodRanges, GoodBodies
  <2>1. f.kind # "range" /\ f.call = Append(e.call, e.next - 1)
    BY <1>5, <2>0 DEF Above, Is
  <2>2. Silent(e.call, e.lo, e.next - 1)'
    BY <1>5 DEF Clean
  <2>3. ASSUME NEW b \in Calls1, Parent(b) = e.call, e.lo <= Nth(b), Nth(b) < e.next PROVE ~Active(b)'
    <3>1. Nth(b) < e.next - 1 \/ Nth(b) = e.next - 1
      BY <1>0, <2>0, <2>3
    <3>2. CASE Nth(b) < e.next - 1
      BY <2>2, <2>3, <3>2, QuietNext
    <3>3. CASE Nth(b) = e.next - 1
      <4>1. b = f.call
        BY <1>0, <2>1, <2>3, <3>3
      <4>2. b \in Calls /\ Names(f, b)
        BY <1>0, <2>1, <4>1 DEF Names
      <4>3. b \in returned'
        BY <4>2
      <4> QED  BY <4>2, <4>3 DEF OneHolder
    <3> QED  BY <3>1, <3>2, <3>3
  <2>4. Silent(e.call, e.lo, e.next)'
    BY <2>3, QuietNext
  <2> QED  BY <1>5, <2>0, <2>4 DEF Clean, Is
<1>6. e.kind # "body"
  BY DEF Above
<1> QED  BY <1>1, <1>2, <1>3, <1>4, <1>5, <1>6 DEF GoodFrames, GoodLoops, GoodRanges, GoodBodies

(* A call returns.                                                         *)
LEMMA ReturnKeeps ==
  ASSUME ForkJoinAssumption, FJInv, NEW w \in Crew, BodyReturns(w) \/ LoopReturns(w) \/ RangeReturns(w)
  PROVE  FJInv'
<1>1. PICK f : f = Top(w)
  OBVIOUS
<1>2. Leaves(w, f) /\ deque' = deque /\ granularity' = granularity /\ conservative' = conservative
  BY <1>1, ReturnLeaves
<1>3. Busy(w) /\ Return(w)
  BY <1>2 DEF Leaves
<1>4. /\ FJTypes /\ Stacked /\ Matched /\ OneHolder /\ Families /\ NoneLost /\ CleanLeft
      /\ FirstIndex /\ OneRunner /\ Aliveness
  BY DEF FJInv
<1>5. /\ f \in GoodFrames /\ Begun(f.call) /\ Clean(f, TRUE) /\ f.call \in Calls
      /\ \A b \in Calls : Claims(f, b) => HeldOnStacks(b) /\ Active(b) /\ b \notin returned
  BY <1>1, <1>3, TopKnown
<1>19. PICK new : new = << >>
  OBVIOUS
<1>20. Len(new) = 0 /\ Len(new) \in Nat /\ \A i \in 1..Len(new) : FALSE
  BY <1>19
<1>21. Becomes(w, Len(stack[w]) - 1, new)
  BY <1>3, <1>4, <1>19, ReturnBecomes
<1>22. \A u \in Crew : deque'[u] = deque[u]
  BY <1>2
<1>23. /\ OneHolder' /\ Flows
       /\ \A b \in Calls : Active(b)' => Active(b) \/ \E i \in 1..Len(new) : Claims(new[i], b)
  <2>1. \A b \in Calls : \A i \in 1..Len(new) : Claims(new[i], b) => Claims(Top(w), b) \/ Fresh(b)
    BY <1>20
  <2>3. \A b \in Calls : \A i, j \in 1..Len(new) : Claims(new[i], b) /\ Claims(new[j], b) => i = j
    BY <1>20
  <2>4. \A b \in Calls : Claims(Top(w), b) => b \in returned' \/ \E i \in 1..Len(new) : Claims(new[i], b)
    BY <1>1, <1>2 DEF Leaves
  <2>5. \A b \in Calls : Names(Top(w), b) => b \in returned' \/ \E i \in 1..Len(new) : Names(new[i], b)
    BY <1>1, <1>2 DEF Leaves
  <2>6. \A b \in Calls1 : \A i \in 1..Len(new) : Names(new[i], Parent(b)) =>
            Names(Top(w), Parent(b)) \/ \E j \in 1..Len(new) : Claims(new[j], b)
    BY <1>20
  <2>7. \A b \in returned' : b \in returned
            \/ (Names(Top(w), b) /\ \A i \in 1..Len(new) : ~Claims(new[i], b))
    BY <1>1, <1>2, <1>20 DEF Leaves
  <2>8. returned \subseteq returned'
    BY <1>2 DEF Leaves
  <2> QED  BY <1>3, <1>4, <1>20, <1>21, <1>22, <2>1, <2>3, <2>4, <2>5, <2>6, <2>7, <2>8, TopFlow
<1>24. FJTypes'
  <2>1. finished' \subseteq GoodJobs /\ returned' \subseteq Calls
    BY <1>2 DEF Leaves
  <2> QED  BY <1>2, <1>4, <1>21, <2>1, TypesStep
<1>25. PICK m \in Nat : m = Len(stack[w]) - 1 /\ m + 1 = Len(stack[w])
  <2>1. PICK n \in Nat : n = Len(stack[w]) /\ n > 0
    BY <1>3, TopKnown
  <2>2. n - 1 \in Nat /\ (n - 1) + 1 = n
    BY <2>1
  <2> QED  BY <2>1, <2>2
<1>26. /\ Becomes(w, m, new)
       /\ \A d \in 1..Len(stack[w]) : d > m => stack[w][d] = f
       /\ m > 0 => Above(stack[w][m], f)
  <2>1. m > 0 => Len(stack[w]) > 1
    BY <1>25
  <2>2. Becomes(w, m, new)
    BY <1>21, <1>25
  <2>3. /\ \A d \in 1..Len(stack[w]) : d > Len(stack[w]) - 1 => stack[w][d] = f
        /\ Len(stack[w]) > 1 => Above(stack[w][Len(stack[w]) - 1], f)
    BY <1>1, <1>3, TopKnown
  <2> QED  BY <1>25, <2>1, <2>2, <2>3
<1>27. Stacked'
  <2>4. \A i \in 1..(Len(new) - 1) : FALSE
    BY <1>20
  <2>5. \A i \in 1..(Len(new) - 1) : Above(new[i], new[i + 1])
    BY <2>4
  <2>6. \A i \in 1..Len(new) : new[i].kind = "loop" /\ granularity # 0 => new[i].next = 0
    BY <1>20
  <2>7. m > 0 /\ Len(new) > 0 => Above(stack[w][m], new[1])
    BY <1>20
  <2> QED  BY <1>2, <1>4, <1>20, <1>26, <2>5, <2>6, <2>7, StackedStep
<1>28. Matched'
  <2>1. \A d \in 1..Len(stack[w]) : d > m => ~Is(stack[w][d], "range", "left")
    BY <1>2, <1>26 DEF Leaves
  <2>2. \A i \in 1..Len(new) : /\ ~Is(new[i], "range", "left")
                               /\ Is(new[i], "range", "wait") => deque[w] = << >>
    BY <1>20
  <2> QED  BY <1>4, <1>20, <1>22, <1>26, <2>1, <2>2, FitsKept
<1>29. Families'
  <2>1. \A b \in Calls1 : Active(b)' /\ Names(Top(w), Parent(b)) =>
            \E i \in 1..Len(new) : Names(new[i], Parent(b))
    <3> SUFFICES ASSUME NEW b \in Calls1, Active(b)', Names(Top(w), Parent(b)) PROVE FALSE
      OBVIOUS
    <3>1. Active(b)
      BY <1>20, <1>23 DEF Calls1
    <3> QED  BY <1>1, <1>2, <3>1 DEF Leaves
  <2>2. \A b \in Calls1 : \A i \in 1..Len(new) : Claims(new[i], b) =>
            Active(b) \/ \E j \in 1..Len(new) : Names(new[j], Parent(b))
    BY <1>20
  <2>3. \A b \in Calls1 : Active(b)' => Running(Parent(b))'
    BY <1>3, <1>4, <1>20, <1>21, <1>23, <2>1, <2>2, ActiveRuns
  <2>5. \A i \in 1..Len(new) : Begun(new[i].call)'
    BY <1>20
  <2>6. \A b \in returned' : b \in returned \/ Active(b)
    BY <1>2, <1>5 DEF Leaves, Claims
  <2>7. \A j \in finished' : j \in finished \/ Begun(j.call)'
    <3>1. \A d : d = f.call => Begun(d)'
      BY <1>5, <1>23 DEF Flows
    <3>2. \A j \in finished' : j \in finished \/ j.call = f.call
      BY <1>2 DEF Leaves
    <3>3. \A j \in finished' : j \in finished \/ \A d : d = j.call => Begun(d)'
      BY <3>1, <3>2
    <3> QED  BY <3>3
  <2> QED  BY <1>4, <1>20, <1>23, <1>26, <2>3, <2>5, <2>6, <2>7, FamiliesStep
<1>30. NoneLost'
  BY <1>4, <1>23, NoneLostStep
<1>31. CleanLeft'
  <2>2. \A e : m > 0 /\ e = stack[w][m] => Clean(e, Len(new) = 0)'
    <3>1. ASSUME NEW e, m > 0, e = stack[w][m] PROVE Clean(e, TRUE)'
      <4>1. Clean(e, FALSE)'
        BY <1>23, <1>25, <3>1, BelowStays
      <4>2. e \in GoodFrames
        <5>1. m \in 1..Len(stack[w])
          BY <1>25, <3>1
        <5> QED  BY <1>4, <3>1, <5>1, FrameCalls
      <4>3. Above(e, f)
        BY <1>26, <3>1
      <4>4. f.kind = "range" => Silent(f.call, f.lo, f.hi)'
        BY <1>2, <1>5, <1>23, QuietStays DEF Leaves
      <4>5. \A b \in Calls : Names(f, b) => b \in returned'
        BY <1>2 DEF Leaves
      <4> QED  BY <1>23, <4>1, <4>2, <4>3, <4>4, <4>5, BelowReturn
    <3>2. (Len(new) = 0) = TRUE
      BY <1>20
    <3> QED  BY <3>1, <3>2
  <2>3. \A i \in 1..Len(new) : Clean(new[i], i = Len(new))'
    BY <1>20
  <2>4. \A j \in finished' : j \in finished \/ Silent(j.call, j.lo, j.hi)'
    <3>1. \A j \in finished' : j \in finished \/ (j.call = f.call /\ Silent(j.call, j.lo, j.hi))
      BY <1>2 DEF Leaves
    <3>2. \A a, z : Silent(f.call, a, z) => Silent(f.call, a, z)'
      BY <1>5, <1>23, QuietStays
    <3>3. \A j \in finished' : j \in finished \/ \A c : c = j.call => Silent(c, j.lo, j.hi)'
      BY <3>1, <3>2
    <3> QED  BY <3>3
  <2> QED  BY <1>4, <1>20, <1>23, <1>26, <2>2, <2>3, <2>4, CleanStep
<1>32. FirstIndex'
  <2>2. \A b : \A d \in 1..Len(stack[w]) : d > m /\ Starts(stack[w][d], b) =>
            Begun(b)' \/ \E i \in 1..Len(new) : Starts(new[i], b)
    BY <1>2, <1>26 DEF Leaves
  <2>3. \A b : \A i \in 1..Len(new) : new[i].kind = "range" /\ new[i].lo < new[i].hi
                  /\ b = First(new[i]) =>
            Begun(b)' \/ \E j \in 1..Len(new) : i <= j /\ Starts(new[j], b)
    BY <1>20
  <2> QED  BY <1>4, <1>20, <1>23, <1>26, <2>2, <2>3, FirstStep
<1>33. OneRunner' /\ \A j : RunAsJob(j)' => RunAsJob(j)
  <2>1. \A i \in 1..Len(new) : \A j : RunsJob(new[i], j) => i = 1 /\ RunsJob(Top(w), j)
    BY <1>20
  <2>2. \A j \in finished' : j \in finished \/ (RunsJob(Top(w), j) /\ Len(new) = 0)
    BY <1>1, <1>2, <1>20 DEF Leaves
  <2> QED  BY <1>3, <1>4, <1>20, <1>21, <2>1, <2>2, RunnerStep
<1>34. Aliveness'
  <2>1. \A j \in GoodJobs : \A d \in 1..Len(stack[w]) : d > m /\ Forks(stack[w][d], j) =>
            (~RunAsJob(j) /\ ~Waits(j)) \/ \E i \in 1..Len(new) : Forks(new[i], j)
    BY <1>2, <1>26 DEF Leaves
  <2> QED  BY <1>4, <1>20, <1>22, <1>26, <1>33, <2>1, AliveStep
<1> QED  BY <1>24, <1>27, <1>28, <1>23, <1>29, <1>30, <1>31, <1>32, <1>33, <1>34 DEF FJInv

-----------------------------------------------------------------------------
(* When only the holders change, nothing begins and nothing returns.       *)
LEMMA SameFlow ==
  ASSUME ForkJoinAssumption, Families, returned' = returned,
         \A b \in Calls : Active(b)' <=> Active(b),
         \A b \in Calls : Running(b)' <=> Running(b)
  PROVE  Flows /\ \A b \in Calls1 : Active(b)' => Running(Parent(b))'
<1>1. \A b \in Calls : Begun(b)' <=> Begun(b)
  BY DEF Begun
<1>2. ASSUME NEW b \in Calls1
      PROVE  (Begun(Parent(b))' => Begun(Parent(b))) /\ (Active(b)' => Running(Parent(b))')
  <2>1. PICK c \in Calls : c = Parent(b)
    BY CallParts
  <2>2. Begun(c)' => Begun(c)
    BY <1>1
  <2>3. Begun(Parent(b))' => Begun(c)'
    BY <2>1 DEF Parent
  <2>4. b \in Calls
    BY DEF Calls1
  <2>5. Active(b)' => Running(c)
    BY <2>1, <2>4 DEF Families
  <2>6. Active(b)' => Running(c)'
    BY <2>5
  <2>7. Running(c)' => Running(Parent(b))'
    BY <2>1 DEF Parent
  <2> QED  BY <2>1, <2>2, <2>3, <2>6, <2>7
<1> QED  BY <1>1, <1>2 DEF Flows

(* What of the invariant follows at once when nothing begins or returns.   *)
LEMMA HoldersStep ==
  ASSUME ForkJoinAssumption, FJTypes, OneHolder, Families,
         NEW w \in Crew, NEW m, NEW new, Len(new) \in Nat, Becomes(w, m, new), returned' = returned,
         FramesApart', JobsApart',
         \A b \in Calls : Active(b)' <=> Active(b),
         \A b \in Calls : ~(HeldOnStacks(b)' /\ HeldInDeques(b)'),
         \A b \in Calls : Running(b)' <=> Running(b)
  PROVE  OneHolder' /\ Flows /\ \A b \in Calls1 : Active(b)' => Running(Parent(b))'
<1>1. \A b \in Calls : Active(b)' => b \notin returned'
  BY DEF OneHolder
<1>2. OneHolder'
  BY <1>1 DEF OneHolder
<1> QED  BY <1>2, SameFlow

(* pardo forks.                                                            *)
LEMMA ForkKeeps ==
  ASSUME ForkJoinAssumption, FJInv, NEW w \in Crew, Fork(w)
  PROVE  FJInv'
<1>0. PICK f : f = Top(w)
  OBVIOUS
<1>1. PICK f2 : f2 = [f EXCEPT !.at = "left"]
  OBVIOUS
<1>2. PICK z : z = Mid(f.lo, f.hi)
  OBVIOUS
<1>3. PICK g : g = HalfFrame(f.call, f.lo, z, f.gran)
  OBVIOUS
<1>4. PICK j : j = RightJob(f)
  OBVIOUS
<1>5. /\ Busy(w) /\ f.kind = "range" /\ f.at = "enter" /\ f.hi - f.lo > f.gran
      /\ SetAndCall(w, f2, g) /\ deque' = [deque EXCEPT ![w] = Append(@, j)]
  <2>1. TopIs(w, "range", "enter")
    BY DEF Fork
  <2>2. SetAndCall(w, f2, g)
    BY <1>0, <1>1, <1>2, <1>3 DEF Fork, HalfFrame
  <2>3. f.hi - f.lo > f.gran /\ deque' = [deque EXCEPT ![w] = Append(@, j)]
    BY <1>0, <1>4 DEF Fork
  <2> QED  BY <1>0, <2>1, <2>2, <2>3 DEF TopIs
<1>6. /\ FJTypes /\ Stacked /\ Matched /\ OneHolder /\ Families /\ NoneLost /\ CleanLeft
      /\ FirstIndex /\ OneRunner /\ Aliveness
  BY DEF FJInv
<1>7. /\ f \in GoodFrames /\ Begun(f.call) /\ Clean(f, TRUE) /\ f.call \in Calls
      /\ \A b \in Calls : Claims(f, b) => HeldOnStacks(b) /\ Active(b) /\ b \notin returned
  BY <1>0, <1>5, TopKnown
<1>8. f \in GoodRanges
  BY <1>5, <1>7 DEF GoodFrames, GoodLoops, GoodRanges, GoodBodies
<1>9. /\ f.call \in Loops /\ f.lo \in Nat /\ f.hi \in Nat /\ f.gran \in Nat /\ f.hi <= Size(f.call)
      /\ f.next = f.lo /\ f.gran > 0 /\ Size(f.call) \in Nat
  <2>1. /\ f.call \in Loops /\ f.lo \in Nat /\ f.hi \in Nat /\ f.gran \in Nat /\ f.hi <= Size(f.call)
        /\ f.lo < f.hi => f.gran > 0
        /\ f.next # f.lo => f.hi - f.lo <= f.gran
    BY <1>8 DEF GoodRanges, Whole
  <2>2. f.lo < f.hi
    BY <1>5, <2>1
  <2>3. Size(f.call) \in Nat
    BY <2>1, CallParts
  <2>4. f.next = f.lo
    BY <1>5, <2>1
  <2> QED  BY <2>1, <2>2, <2>3, <2>4
<1>10. z \in Nat /\ f.lo < z /\ z < f.hi
  <2>1. f.hi - f.lo >= 2
    BY <1>5, <1>9
  <2> QED  BY <1>2, <1>9, <2>1, Halves
<1>11. /\ f2 \in GoodFrames /\ f2.kind = "range" /\ f2.call = f.call /\ f2.at = "left" /\ f2.lo = f.lo
       /\ f2.hi = f.hi /\ f2.next = f.next /\ f2.gran = f.gran /\ f2.job = f.job
  <2>1. f2 \in GoodRanges /\ f2.kind = "range" /\ f2.call = f.call /\ f2.at = "left" /\ f2.lo = f.lo
        /\ f2.hi = f.hi /\ f2.next = f.next /\ f2.gran = f.gran /\ f2.job = f.job
    BY <1>1, <1>5, <1>8, <1>9 DEF GoodRanges, Whole
  <2> QED  BY <2>1 DEF GoodFrames
<1>12. /\ g \in GoodFrames /\ Entered(g, f.call, f.lo, z, f.gran)
       /\ \A b \in Calls : ~Names(g, b)
       /\ \A b \in Calls : Owns(g, b) <=> Within(b, f.call, f.lo, z)
       /\ Clean(g, TRUE)'
  <2>1. /\ f.call \in Loops /\ f.lo \in Nat /\ z \in Nat /\ f.gran \in Nat
        /\ f.lo <= z /\ z <= Size(f.call) /\ (f.lo < z => f.gran > 0)
    BY <1>9, <1>10
  <2>2. g = HalfFrame(f.call, f.lo, z, f.gran)
    BY <1>3
  <2> QED  BY <2>1, <2>2, RangeHolds, Zenon
<1>13. /\ g.kind = "range" /\ g.call = f.call /\ g.at = "enter" /\ ~g.job
       /\ g.lo = f.lo /\ g.hi = z /\ g.next = f.lo /\ g.gran = f.gran
  <2>1. ~g.job
    BY <1>3 DEF HalfFrame, RangeFrame
  <2> QED  BY <1>12, <2>1 DEF Entered
<1>14. j \in GoodJobs /\ j.call = f.call /\ j.lo = z /\ j.hi = f.hi /\ RightJob(f2) = j
  <2>1. j = [call |-> f.call, lo |-> z, hi |-> f.hi, gran |-> f.gran]
    BY <1>2, <1>4 DEF RightJob
  <2>2. RightJob(f2) = j
    BY <1>2, <1>11, <2>1 DEF RightJob
  <2> QED  BY <1>9, <1>10, <2>1, <2>2 DEF GoodJobs, Job
<1>15. \A b \in Calls : OwnsJob(j, b) <=> Within(b, f.call, z, f.hi)
  BY <1>14 DEF OwnsJob, Within, Calls1
<1>16. \A b \in Calls : Claims(f, b) <=> Within(b, f.call, f.lo, f.hi)
  BY <1>5, <1>9 DEF Claims, Names, Owns, Within, Calls1
<1>17. \A b \in Calls : ~Claims(f2, b)
  BY <1>11 DEF Claims, Names, Owns
<1>18. ASSUME NEW b \in Calls
       PROVE  (Claims(f, b) <=> Claims(g, b) \/ OwnsJob(j, b)) /\ ~(Claims(g, b) /\ OwnsJob(j, b))
  <2>1. b \in Calls1 => Nth(b) \in Nat
    <3>1. b \in Calls1 => Nth(b) \in 0..(Size(Parent(b)) - 1)
      BY CallParts
    <3> QED  BY <3>1
  <2>2. /\ Within(b, f.call, f.lo, f.hi) <=> Within(b, f.call, f.lo, z) \/ Within(b, f.call, z, f.hi)
        /\ ~(Within(b, f.call, f.lo, z) /\ Within(b, f.call, z, f.hi))
    BY <1>9, <1>10, <2>1 DEF Within
  <2>3. Claims(g, b) <=> Within(b, f.call, f.lo, z)
    BY <1>12 DEF Claims
  <2> QED  BY <1>15, <1>16, <2>2, <2>3
<1>19. PICK new : new = << f2, g >>
  OBVIOUS
<1>20. /\ Len(new) = 2 /\ Len(new) \in Nat /\ new[1] = f2 /\ new[2] = g
       /\ \A i \in 1..Len(new) : i = 1 \/ i = 2
       /\ 1 \in 1..Len(new) /\ 2 \in 1..Len(new)
  BY <1>19
<1>21. PICK m \in Nat : m = Len(stack[w]) - 1 /\ m + 1 = Len(stack[w])
  <2>1. PICK n \in Nat : n = Len(stack[w]) /\ n > 0
    BY <1>5, TopKnown
  <2>2. n - 1 \in Nat /\ (n - 1) + 1 = n
    BY <2>1
  <2> QED  BY <2>1, <2>2
<1>22. Becomes(w, m, new)
  <2>1. Becomes(w, Len(stack[w]) - 1, << f2, g >>)
    BY <1>5, <1>6, <1>11, <1>12, CallBecomes
  <2> QED  BY <1>19, <1>21, <2>1
<1>23. finished' = finished /\ returned' = returned /\ granularity' = granularity /\ conservative' = conservative
  BY DEF Fork, arguments
<1>24. /\ \A d \in 1..Len(stack[w]) : d > m => stack[w][d] = f
       /\ m > 0 => Above(stack[w][m], f)
  <2>1. m > 0 => Len(stack[w]) > 1
    BY <1>21
  <2>3. /\ \A d \in 1..Len(stack[w]) : d > Len(stack[w]) - 1 => stack[w][d] = f
        /\ Len(stack[w]) > 1 => Above(stack[w][Len(stack[w]) - 1], f)
    BY <1>0, <1>5, TopKnown
  <2> QED  BY <1>21, <2>1, <2>3
<1>25. /\ deque' \in [Crew -> Seq(GoodJobs)]
       /\ \A b \in Calls : HeldInDeques(b)' <=> HeldInDeques(b) \/ OwnsJob(j, b)
       /\ JobsApart'
  <2>1. \A b \in Calls : OwnsJob(j, b) => ~HeldInDeques(b)
    BY <1>6, <1>7, <1>18 DEF OneHolder
  <2>2. JobsApart
    BY <1>6 DEF OneHolder
  <2> QED  BY <1>5, <1>6, <1>14, <2>1, <2>2, JobPushed
<1>26. \A b \in Calls : HeldOnStacks(b) <=> HeldBelow(w, m, b) \/ Claims(f, b)
  BY <1>0, <1>5, <1>6, <1>21, HeldBefore
<1>27. \A b \in Calls : HeldOnStacks(b)' <=> HeldBelow(w, m, b) \/ Claims(g, b)
  <2>1. \A b \in Calls : HeldOnStacks(b)' <=> HeldBelow(w, m, b) \/ \E i \in 1..Len(new) : Claims(new[i], b)
    BY <1>6, <1>20, <1>22, HeldAfter
  <2>2. \A b \in Calls : (\E i \in 1..Len(new) : Claims(new[i], b)) <=> Claims(g, b)
    BY <1>17, <1>20
  <2> QED  BY <2>1, <2>2
<1>28. \A b \in Calls : Claims(f, b) => ~HeldBelow(w, m, b)
  BY <1>0, <1>5, <1>6, <1>21, TopApart DEF OneHolder
<1>29. FramesApart'
  <2>1. \A b \in Calls : \A i \in 1..Len(new) : Claims(new[i], b) => ~HeldBelow(w, m, b)
    BY <1>17, <1>18, <1>20, <1>28
  <2>2. \A b \in Calls : \A i, k \in 1..Len(new) : Claims(new[i], b) /\ Claims(new[k], b) => i = k
    BY <1>17, <1>20
  <2> QED  BY <1>6, <1>20, <1>22, <2>1, <2>2, FramesStayApart DEF OneHolder
<1>30. /\ OneHolder' /\ Flows
       /\ \A b \in Calls1 : Active(b)' => Running(Parent(b))'
  <2>1. \A b \in Calls : ~(HeldOnStacks(b) /\ HeldInDeques(b))
    BY <1>6 DEF OneHolder
  <2>2. \A b \in Calls : ~(HeldOnStacks(b)' /\ HeldInDeques(b)')
    BY <1>18, <1>25, <1>26, <1>27, <1>28, <2>1
  <2>3. \A b \in Calls : Active(b)' <=> Active(b)
    BY <1>18, <1>25, <1>26, <1>27 DEF Active
  <2>4. \A b \in Calls : Running(b)' <=> Running(b)
    <3>1. \A b : ~Names(f, b) /\ ~Names(f2, b) /\ ~Names(g, b)
      BY <1>5, <1>11, <1>13 DEF Names
    <3>2. \A b : Running(b) <=> RunsBelow(w, m, b) \/ Names(f, b)
      BY <1>0, <1>5, <1>6, <1>21, RunningBefore
    <3>3. \A b : Running(b)' <=> RunsBelow(w, m, b) \/ \E i \in 1..Len(new) : Names(new[i], b)
      BY <1>6, <1>20, <1>22, RunningAfter
    <3>4. \A b : ~\E i \in 1..Len(new) : Names(new[i], b)
      BY <1>20, <3>1
    <3> QED  BY <3>1, <3>2, <3>3, <3>4
  <2> QED  BY <1>6, <1>20, <1>22, <1>23, <1>25, <1>29, <2>2, <2>3, <2>4, HoldersStep
<1>31. FJTypes'
  <2>1. GoodFrames' = GoodFrames /\ GoodJobs' = GoodJobs
    BY DEF GoodFrames, GoodLoops, GoodRanges, GoodBodies, GoodJobs, Job, Whole
  <2>2. stack' \in [Crew -> Seq(GoodFrames)]
    BY <1>22 DEF Becomes
  <2> QED  BY <1>6, <1>23, <1>25, <2>1, <2>2 DEF FJTypes
<1>32. Stacked'
  <2>1. m > 0 => Above(stack[w][m], f2)
    BY <1>5, <1>11, <1>24 DEF Above, Is
  <2>2. Above(f2, g)
    BY <1>2, <1>11, <1>13 DEF Above, Is
  <2>4. \A i \in 1..(Len(new) - 1) : i = 1 /\ i + 1 = 2
    BY <1>20
  <2>5. \A i \in 1..(Len(new) - 1) : Above(new[i], new[i + 1])
    BY <1>20, <2>2, <2>4
  <2>6. \A i \in 1..Len(new) : new[i].kind = "loop" /\ granularity # 0 => new[i].next = 0
    BY <1>11, <1>13, <1>20
  <2>7. m > 0 /\ Len(new) > 0 => Above(stack[w][m], new[1])
    BY <1>20, <2>1
  <2> QED  BY <1>6, <1>20, <1>22, <1>23, <2>5, <2>6, <2>7, StackedStep
<1>33. Matched'
  <2>1. Is(Top(w), "range", "enter") /\ Is(f2, "range", "left") /\ Is(g, "range", "enter")
    BY <1>0, <1>5, <1>11, <1>13 DEF Is
  <2>2. deque' = [deque EXCEPT ![w] = Append(@, RightJob(f2))] /\ RightJob(f2) \in GoodJobs
    BY <1>5, <1>14
  <2>3. Becomes(w, Len(stack[w]) - 1, << f2, g >>)
    BY <1>19, <1>21, <1>22
  <2> QED  BY <1>5, <1>6, <2>1, <2>2, <2>3, FitsForked
<1>34. Families'
  <2>5. \A i \in 1..Len(new) : Begun(new[i].call)'
    <3>1. \A d : d = f.call => Begun(d)'
      BY <1>7, <1>30 DEF Flows
    <3>3. \A i \in 1..Len(new) : new[i].call = f.call
      BY <1>11, <1>13, <1>20
    <3>4. \A i \in 1..Len(new) : \A d : d = new[i].call => Begun(d)'
      BY <3>1, <3>3
    <3> QED  BY <3>4
  <2>6. \A b \in returned' : b \in returned \/ Active(b)
    BY <1>23
  <2>7. \A i \in finished' : i \in finished \/ Begun(i.call)'
    BY <1>23
  <2> QED  BY <1>6, <1>20, <1>22, <1>30, <2>5, <2>6, <2>7, FamiliesStep
<1>35. NoneLost'
  BY <1>6, <1>30, NoneLostStep
<1>36. CleanLeft'
  <2>1. Clean(f2, FALSE)'
    BY <1>11 DEF Clean, Is
  <2>2. \A e : m > 0 /\ e = stack[w][m] => Clean(e, Len(new) = 0)'
    <3>1. \A e : m > 0 /\ e = stack[w][m] => Clean(e, FALSE)'
      BY <1>30, <1>21, BelowStays
    <3>2. (Len(new) = 0) = FALSE
      BY <1>20
    <3> QED  BY <3>1, <3>2
  <2>3. \A i \in 1..Len(new) : Clean(new[i], i = Len(new))'
    <3> TAKE i \in 1..Len(new)
    <3>1. CASE i = 1
      <4>1. new[i] = f2 /\ (i = Len(new)) = FALSE
        BY <1>20, <3>1
      <4> QED  BY <2>1, <4>1
    <3>2. CASE i = 2
      <4>1. new[i] = g /\ (i = Len(new)) = TRUE
        BY <1>20, <3>2
      <4> QED  BY <1>12, <4>1
    <3> QED  BY <1>20, <3>1, <3>2
  <2>4. \A i \in finished' : i \in finished \/ Silent(i.call, i.lo, i.hi)'
    BY <1>23
  <2> QED  BY <1>6, <1>20, <1>22, <1>30, <2>2, <2>3, <2>4, CleanStep
<1>37. FirstIndex'
  <2>1. \A b : b = First(f) => Starts(g, b)
    <3>1. First(f) = First(g) /\ g.next = g.lo /\ g.lo < g.hi /\ g.hi <= Size(g.call) /\ g.call \in Loops
          /\ g.lo \in Nat /\ g.hi \in Nat
      BY <1>9, <1>10, <1>13 DEF First
    <3> QED  BY <1>13, <3>1, StartsNew
  <2>2. \A b : \A d \in 1..Len(stack[w]) : d > m /\ Starts(stack[w][d], b) =>
            Begun(b)' \/ \E i \in 1..Len(new) : Starts(new[i], b)
    <3>1. \A b : Starts(f, b) => Starts(g, b)
      BY <2>1 DEF Starts, First
    <3> QED  BY <1>20, <1>24, <3>1
  <2>3. \A b : \A i \in 1..Len(new) : new[i].kind = "range" /\ new[i].lo < new[i].hi
                  /\ b = First(new[i]) =>
            Begun(b)' \/ \E k \in 1..Len(new) : i <= k /\ Starts(new[k], b)
    <3> TAKE b
    <3> TAKE i \in 1..Len(new)
    <3>1. HAVE new[i].kind = "range" /\ new[i].lo < new[i].hi /\ b = First(new[i])
    <3>2. b = First(f)
      BY <1>11, <1>13, <1>20, <3>1 DEF First
    <3>3. Starts(new[2], b) /\ i <= 2
      BY <1>20, <2>1, <3>2
    <3> QED  BY <1>20, <3>3
  <2> QED  BY <1>6, <1>20, <1>22, <1>30, <2>2, <2>3, FirstStep
<1>38. OneRunner' /\ \A i : RunAsJob(i)' => RunAsJob(i)
  <2>1. \A i \in 1..Len(new) : \A k : RunsJob(new[i], k) => i = 1 /\ RunsJob(Top(w), k)
    <3>1. \A k : RunsJob(f2, k) => RunsJob(f, k)
      BY <1>5, <1>11 DEF RunsJob, AsJob
    <3>2. \A k : ~RunsJob(g, k)
      BY <1>13 DEF RunsJob
    <3> QED  BY <1>0, <1>20, <3>1, <3>2
  <2>2. \A k \in finished' : k \in finished \/ (RunsJob(Top(w), k) /\ Len(new) = 0)
    BY <1>23
  <2>3. Becomes(w, Len(stack[w]) - 1, new)
    BY <1>21, <1>22
  <2> QED  BY <1>5, <1>6, <1>20, <2>1, <2>2, <2>3, RunnerStep
<1>39. Aliveness'
  <2>1. Forks(f2, j)
    BY <1>11, <1>14 DEF Forks
  <2>2. HasForker(j)'
    <3>1. \E i \in 1..Len(new) : Forks(new[i], j)
      BY <1>20, <2>1
    <3> QED  BY <1>6, <1>20, <1>22, <3>1, NewForker
  <2>3. ASSUME NEW i \in GoodJobs, RunAsJob(i)' \/ Waits(i)', i # j PROVE HasForker(i)'
    <3>1. Waits(i)' => Waits(i)
      <4>1. SUFFICES ASSUME NEW u \in Crew, NEW k \in 1..Len(deque'[u]), deque'[u][k] = i PROVE Waits(i)
        BY DEF Waits
      <4>2. deque[w] \in Seq(GoodJobs) /\ deque[u] \in Seq(GoodJobs)
        BY <1>6 DEF FJTypes
      <4>3. CASE u # w
        <5>1. deque'[u] = deque[u]
          BY <1>5, <4>3
        <5> QED  BY <4>1, <5>1 DEF Waits
      <4>4. CASE u = w
        <5>1. deque'[w] = Append(deque[w], j)
          BY <1>5, <1>6 DEF FJTypes
        <5>2. k \in 1..Len(deque[w]) /\ deque[w][k] = i
          BY <2>3, <4>1, <4>2, <4>4, <5>1
        <5> QED  BY <5>2 DEF Waits
      <4> QED  BY <4>3, <4>4
    <3>2. HasForker(i)
      BY <1>6, <1>38, <2>3, <3>1 DEF Aliveness
    <3>3. \A d \in 1..Len(stack[w]) : d > m /\ Forks(stack[w][d], i) =>
            \E k \in 1..Len(new) : Forks(new[k], i)
      BY <1>5, <1>24 DEF Forks
    <3> QED  BY <1>6, <1>20, <1>22, <3>2, <3>3, ForkerStep
  <2>4. \A i \in GoodJobs : RunAsJob(i)' \/ Waits(i)' => HasForker(i)'
    <3> TAKE i \in GoodJobs
    <3>1. \A k : k = j => HasForker(k)'
      BY <2>2
    <3> QED  BY <2>3, <3>1
  <2>5. (\A i \in GoodJobs : RunAsJob(i) \/ Waits(i) => HasForker(i))'
    BY <2>4
  <2> QED  BY <2>5 DEF Aliveness
<1> QED  BY <1>31, <1>32, <1>33, <1>30, <1>34, <1>35, <1>36, <1>37, <1>38, <1>39 DEF FJInv

(* pardo pops its right half and calls it.                                 *)
LEMMA PopKeeps ==
  ASSUME ForkJoinAssumption, FJInv, NEW w \in Crew, Pop(w), deque[w] # << >>
  PROVE  FJInv'
<1>0. PICK f : f = Top(w)
  OBVIOUS
<1>1. PICK f2 : f2 = [f EXCEPT !.at = "right"]
  OBVIOUS
<1>2. PICK z : z = Mid(f.lo, f.hi)
  OBVIOUS
<1>3. PICK g : g = HalfFrame(f.call, z, f.hi, f.gran)
  OBVIOUS
<1>4. PICK j : j = RightJob(f)
  OBVIOUS
<1>5. /\ Busy(w) /\ f.kind = "range" /\ f.at = "left" /\ TopIs(w, "range", "left")
      /\ SetAndCall(w, f2, g) /\ deque' = [deque EXCEPT ![w] = Dropped(w)]
  <2>1. TopIs(w, "range", "left")
    BY DEF Pop
  <2>2. SetAndCall(w, f2, g)
    BY <1>0, <1>1, <1>2, <1>3 DEF Pop, HalfFrame
  <2>3. deque' = [deque EXCEPT ![w] = Dropped(w)]
    BY DEF Pop
  <2> QED  BY <1>0, <2>1, <2>2, <2>3 DEF TopIs
<1>6. /\ FJTypes /\ Stacked /\ Matched /\ OneHolder /\ Families /\ NoneLost /\ CleanLeft
      /\ FirstIndex /\ OneRunner /\ Aliveness
  BY DEF FJInv
<1>7. /\ f \in GoodFrames /\ Begun(f.call) /\ Clean(f, TRUE) /\ f.call \in Calls
      /\ \A b \in Calls : Claims(f, b) => HeldOnStacks(b) /\ Active(b) /\ b \notin returned
  BY <1>0, <1>5, TopKnown
<1>8. f \in GoodRanges
  BY <1>5, <1>7 DEF GoodFrames, GoodLoops, GoodRanges, GoodBodies
<1>9. /\ f.call \in Loops /\ f.lo \in Nat /\ f.hi \in Nat /\ f.gran \in Nat /\ f.hi <= Size(f.call)
      /\ f.next = f.lo /\ f.gran > 0 /\ Size(f.call) \in Nat /\ f.hi - f.lo > f.gran /\ f.lo < f.hi
  <2>1. /\ f.call \in Loops /\ f.lo \in Nat /\ f.hi \in Nat /\ f.gran \in Nat /\ f.hi <= Size(f.call)
        /\ f.lo < f.hi => f.gran > 0
        /\ f.next = f.lo
        /\ f.hi - f.lo > f.gran
    BY <1>5, <1>8 DEF GoodRanges, Whole
  <2>2. f.lo < f.hi
    BY <2>1
  <2>3. Size(f.call) \in Nat
    BY <2>1, CallParts
  <2> QED  BY <2>1, <2>2, <2>3
<1>10. z \in Nat /\ f.lo < z /\ z < f.hi
  <2>1. f.hi - f.lo >= 2
    BY <1>9
  <2> QED  BY <1>2, <1>9, <2>1, Halves
<1>11. /\ f2 \in GoodFrames /\ f2.kind = "range" /\ f2.call = f.call /\ f2.at = "right" /\ f2.lo = f.lo
       /\ f2.hi = f.hi /\ f2.next = f.next /\ f2.gran = f.gran /\ f2.job = f.job
  <2>1. f2 \in GoodRanges /\ f2.kind = "range" /\ f2.call = f.call /\ f2.at = "right" /\ f2.lo = f.lo
        /\ f2.hi = f.hi /\ f2.next = f.next /\ f2.gran = f.gran /\ f2.job = f.job
    BY <1>1, <1>5, <1>8, <1>9 DEF GoodRanges, Whole
  <2> QED  BY <2>1 DEF GoodFrames
<1>12. /\ g \in GoodFrames /\ Entered(g, f.call, z, f.hi, f.gran)
       /\ \A b \in Calls : ~Names(g, b)
       /\ \A b \in Calls : Owns(g, b) <=> Within(b, f.call, z, f.hi)
       /\ Clean(g, TRUE)'
  <2>1. /\ f.call \in Loops /\ z \in Nat /\ f.hi \in Nat /\ f.gran \in Nat
        /\ z <= f.hi /\ f.hi <= Size(f.call) /\ (z < f.hi => f.gran > 0)
    BY <1>9, <1>10
  <2>2. g = HalfFrame(f.call, z, f.hi, f.gran)
    BY <1>3
  <2> QED  BY <2>1, <2>2, RangeHolds, Zenon
<1>13. /\ g.kind = "range" /\ g.call = f.call /\ g.at = "enter" /\ ~g.job
       /\ g.lo = z /\ g.hi = f.hi /\ g.next = z /\ g.gran = f.gran
  <2>1. ~g.job
    BY <1>3 DEF HalfFrame, RangeFrame
  <2> QED  BY <1>12, <2>1 DEF Entered
<1>14. j \in GoodJobs /\ j.call = f.call /\ j.lo = z /\ j.hi = f.hi
  <2>1. j = [call |-> f.call, lo |-> z, hi |-> f.hi, gran |-> f.gran]
    BY <1>2, <1>4 DEF RightJob
  <2> QED  BY <1>9, <1>10, <2>1 DEF GoodJobs, Job
<1>15. \A b \in Calls : OwnsJob(j, b) <=> Within(b, f.call, z, f.hi)
  BY <1>14 DEF OwnsJob, Within, Calls1
<1>17. \A b \in Calls : ~Claims(f, b) /\ ~Claims(f2, b)
  BY <1>5, <1>11 DEF Claims, Names, Owns
<1>18. \A b \in Calls : Claims(g, b) <=> OwnsJob(j, b)
  BY <1>12, <1>15 DEF Claims
<1>19. PICK new : new = << f2, g >>
  OBVIOUS
<1>20. /\ Len(new) = 2 /\ Len(new) \in Nat /\ new[1] = f2 /\ new[2] = g
       /\ \A i \in 1..Len(new) : i = 1 \/ i = 2
       /\ 1 \in 1..Len(new) /\ 2 \in 1..Len(new)
  BY <1>19
<1>21. PICK m \in Nat : m = Len(stack[w]) - 1 /\ m + 1 = Len(stack[w])
  <2>1. PICK n \in Nat : n = Len(stack[w]) /\ n > 0
    BY <1>5, TopKnown
  <2>2. n - 1 \in Nat /\ (n - 1) + 1 = n
    BY <2>1
  <2> QED  BY <2>1, <2>2
<1>22. Becomes(w, m, new)
  <2>1. Becomes(w, Len(stack[w]) - 1, << f2, g >>)
    BY <1>5, <1>6, <1>11, <1>12, CallBecomes
  <2> QED  BY <1>19, <1>21, <2>1
<1>23. finished' = finished /\ returned' = returned /\ granularity' = granularity /\ conservative' = conservative
  BY DEF Pop, arguments
<1>24. /\ \A d \in 1..Len(stack[w]) : d > m => stack[w][d] = f
       /\ m > 0 => Above(stack[w][m], f)
  <2>1. m > 0 => Len(stack[w]) > 1
    BY <1>21
  <2>3. /\ \A d \in 1..Len(stack[w]) : d > Len(stack[w]) - 1 => stack[w][d] = f
        /\ Len(stack[w]) > 1 => Above(stack[w][Len(stack[w]) - 1], f)
    BY <1>0, <1>5, TopKnown
  <2> QED  BY <1>21, <2>1, <2>3
<1>25. /\ Len(deque[w]) \in Nat /\ Len(deque[w]) > 0 /\ deque[w][Len(deque[w])] = j
       /\ Loses(w, Len(deque[w]))
  <2>1. PICK pos \in [1..Len(deque[w]) -> 1..Len(stack[w])] : Suits(stack[w], deque[w], pos)
    BY <1>6 DEF Matched
  <2>2. Len(deque[w]) \in Nat /\ Len(deque[w]) > 0 /\ LastJob(w) = RightJob(Top(w))
    BY <1>5, <1>6, <2>1, PopsItsOwn
  <2>3. deque \in [Crew -> Seq(GoodJobs)] /\ deque[w] # << >>
    BY <1>6 DEF FJTypes
  <2>4. /\ Dropped(w) \in Seq(GoodJobs) /\ Len(Dropped(w)) = Len(deque[w]) - 1
        /\ \A i \in 1..(Len(deque[w]) - 1) : Dropped(w)[i] = deque[w][i]
    BY <2>3, AllButLast DEF Dropped
  <2>5. Len(deque[w]) \in 1..Len(deque[w])
    BY <2>2
  <2>6. deque' \in [Crew -> Seq(GoodJobs)] /\ deque'[w] = Dropped(w)
        /\ \A u \in Crew : u # w => deque'[u] = deque[u]
    BY <1>5, <2>3, <2>4
  <2> QED  BY <1>0, <1>4, <2>2, <2>4, <2>5, <2>6 DEF LastJob, Loses
<1>26. \A b \in Calls : HeldOnStacks(b) <=> HeldBelow(w, m, b)
  BY <1>0, <1>5, <1>6, <1>17, <1>21, HeldBefore
<1>27. \A b \in Calls : HeldOnStacks(b)' <=> HeldBelow(w, m, b) \/ Claims(g, b)
  <2>1. \A b \in Calls : HeldOnStacks(b)' <=> HeldBelow(w, m, b) \/ \E i \in 1..Len(new) : Claims(new[i], b)
    BY <1>6, <1>20, <1>22, HeldAfter
  <2>2. \A b \in Calls : (\E i \in 1..Len(new) : Claims(new[i], b)) <=> Claims(g, b)
    BY <1>17, <1>20
  <2> QED  BY <2>1, <2>2
<1>38. /\ JobsApart'
       /\ \A b \in Calls : HeldInDeques(b) <=> HeldInDeques(b)' \/ OwnsJob(j, b)
       /\ \A b \in Calls : ~(HeldInDeques(b)' /\ OwnsJob(j, b))
  <2>1. JobsApart
    BY <1>6 DEF OneHolder
  <2> QED  BY <1>6, <1>25, <2>1, JobLost
<1>28. \A b \in Calls : Claims(g, b) => ~HeldBelow(w, m, b)
  BY <1>6, <1>18, <1>26, <1>38 DEF OneHolder
<1>29. FramesApart'
  <2>1. \A b \in Calls : \A i \in 1..Len(new) : Claims(new[i], b) => ~HeldBelow(w, m, b)
    BY <1>17, <1>20, <1>28
  <2>2. \A b \in Calls : \A i, k \in 1..Len(new) : Claims(new[i], b) /\ Claims(new[k], b) => i = k
    BY <1>17, <1>20
  <2> QED  BY <1>6, <1>20, <1>22, <2>1, <2>2, FramesStayApart DEF OneHolder
<1>30. /\ OneHolder' /\ Flows
       /\ \A b \in Calls1 : Active(b)' => Running(Parent(b))'
  <2>1. \A b \in Calls : ~(HeldOnStacks(b) /\ HeldInDeques(b))
    BY <1>6 DEF OneHolder
  <2>2. \A b \in Calls : ~(HeldOnStacks(b)' /\ HeldInDeques(b)')
    BY <1>18, <1>26, <1>27, <1>38, <2>1
  <2>3. \A b \in Calls : Active(b)' <=> Active(b)
    BY <1>18, <1>26, <1>27, <1>38 DEF Active
  <2>4. \A b \in Calls : Running(b)' <=> Running(b)
    <3>1. \A b : ~Names(f, b) /\ ~Names(f2, b) /\ ~Names(g, b)
      BY <1>5, <1>11, <1>13 DEF Names
    <3>2. \A b : Running(b) <=> RunsBelow(w, m, b) \/ Names(f, b)
      BY <1>0, <1>5, <1>6, <1>21, RunningBefore
    <3>3. \A b : Running(b)' <=> RunsBelow(w, m, b) \/ \E i \in 1..Len(new) : Names(new[i], b)
      BY <1>6, <1>20, <1>22, RunningAfter
    <3>4. \A b : ~\E i \in 1..Len(new) : Names(new[i], b)
      BY <1>20, <3>1
    <3> QED  BY <3>1, <3>2, <3>3, <3>4
  <2> QED  BY <1>6, <1>20, <1>22, <1>23, <1>29, <1>38, <2>2, <2>3, <2>4, HoldersStep
<1>31. FJTypes'
  <2>1. GoodFrames' = GoodFrames /\ GoodJobs' = GoodJobs
    BY DEF GoodFrames, GoodLoops, GoodRanges, GoodBodies, GoodJobs, Job, Whole
  <2>2. stack' \in [Crew -> Seq(GoodFrames)]
    BY <1>22 DEF Becomes
  <2>3. deque' \in [Crew -> Seq(GoodJobs)]
    BY <1>25 DEF Loses
  <2> QED  BY <1>6, <1>23, <2>1, <2>2, <2>3 DEF FJTypes
<1>32. Stacked'
  <2>1. m > 0 => Above(stack[w][m], f2)
    BY <1>5, <1>11, <1>24 DEF Above, Is
  <2>2. Above(f2, g)
    BY <1>2, <1>11, <1>13 DEF Above, Is
  <2>4. \A i \in 1..(Len(new) - 1) : i = 1 /\ i + 1 = 2
    BY <1>20
  <2>5. \A i \in 1..(Len(new) - 1) : Above(new[i], new[i + 1])
    BY <1>20, <2>2, <2>4
  <2>6. \A i \in 1..Len(new) : new[i].kind = "loop" /\ granularity # 0 => new[i].next = 0
    BY <1>11, <1>13, <1>20
  <2>7. m > 0 /\ Len(new) > 0 => Above(stack[w][m], new[1])
    BY <1>20, <2>1
  <2> QED  BY <1>6, <1>20, <1>22, <1>23, <2>5, <2>6, <2>7, StackedStep
<1>33. Matched'
  <2>1. Is(f2, "range", "right") /\ Is(g, "range", "enter")
    BY <1>11, <1>13 DEF Is
  <2>3. Becomes(w, Len(stack[w]) - 1, << f2, g >>)
    BY <1>19, <1>21, <1>22
  <2> QED  BY <1>5, <1>6, <1>25, <2>1, <2>3, FitsPopped
<1>34. Families'
  <2>5. \A i \in 1..Len(new) : Begun(new[i].call)'
    <3>1. \A d : d = f.call => Begun(d)'
      BY <1>7, <1>30 DEF Flows
    <3>3. \A i \in 1..Len(new) : new[i].call = f.call
      BY <1>11, <1>13, <1>20
    <3>4. \A i \in 1..Len(new) : \A d : d = new[i].call => Begun(d)'
      BY <3>1, <3>3
    <3> QED  BY <3>4
  <2>6. \A b \in returned' : b \in returned \/ Active(b)
    BY <1>23
  <2>7. \A i \in finished' : i \in finished \/ Begun(i.call)'
    BY <1>23
  <2> QED  BY <1>6, <1>20, <1>22, <1>30, <2>5, <2>6, <2>7, FamiliesStep
<1>35. NoneLost'
  BY <1>6, <1>30, NoneLostStep
<1>36. CleanLeft'
  <2>1. Clean(f2, FALSE)'
    <3>1. Silent(f.call, f.lo, z)
      BY <1>2, <1>5, <1>7 DEF Clean, Is
    <3>2. Silent(f.call, f.lo, z)'
      BY <1>7, <1>30, <3>1, QuietStays
    <3>3. \A c, a, y : c = f.call /\ a = f.lo /\ y = z => Silent(c, a, y)'
      BY <3>2 DEF Silent, Calls1, Parent, Nth
    <3>4. Silent(f2.call, f2.lo, Mid(f2.lo, f2.hi))'
      BY <1>2, <1>11, <3>3
    <3> QED  BY <1>11, <3>4 DEF Clean, Is, Mid
  <2>2. \A e : m > 0 /\ e = stack[w][m] => Clean(e, Len(new) = 0)'
    <3>1. \A e : m > 0 /\ e = stack[w][m] => Clean(e, FALSE)'
      BY <1>30, <1>21, BelowStays
    <3>2. (Len(new) = 0) = FALSE
      BY <1>20
    <3> QED  BY <3>1, <3>2
  <2>3. \A i \in 1..Len(new) : Clean(new[i], i = Len(new))'
    <3> TAKE i \in 1..Len(new)
    <3>1. CASE i = 1
      <4>1. new[i] = f2 /\ (i = Len(new)) = FALSE
        BY <1>20, <3>1
      <4> QED  BY <2>1, <4>1
    <3>2. CASE i = 2
      <4>1. new[i] = g /\ (i = Len(new)) = TRUE
        BY <1>20, <3>2
      <4> QED  BY <1>12, <4>1
    <3> QED  BY <1>20, <3>1, <3>2
  <2>4. \A i \in finished' : i \in finished \/ Silent(i.call, i.lo, i.hi)'
    BY <1>23
  <2> QED  BY <1>6, <1>20, <1>22, <1>30, <2>2, <2>3, <2>4, CleanStep
<1>37. FirstIndex'
  <2>1. \A b : b = First(g) => Starts(g, b)
    BY <1>9, <1>10, <1>13, StartsNew
  <2>2. \A b : b = First(f) => Begun(b)'
    <3>1. ~Starts(f, First(f))
      BY <1>5 DEF Starts, Owns
    <3>2. Begun(First(f))
      BY <1>0, <1>5, <1>9, <3>1, FirstOfTop
    <3>3. \A b : b = First(f) => b \in Calls /\ Begun(b)
      BY <1>5, <1>7, <1>9, <3>2, FirstInCalls
    <3> QED  BY <1>30, <3>3 DEF Flows
  <2>3. \A b : \A d \in 1..Len(stack[w]) : d > m /\ Starts(stack[w][d], b) =>
            Begun(b)' \/ \E i \in 1..Len(new) : Starts(new[i], b)
    BY <1>5, <1>24 DEF Starts, Owns
  <2>4. \A b : \A i \in 1..Len(new) : new[i].kind = "range" /\ new[i].lo < new[i].hi
                  /\ b = First(new[i]) =>
            Begun(b)' \/ \E k \in 1..Len(new) : i <= k /\ Starts(new[k], b)
    <3> TAKE b
    <3> TAKE i \in 1..Len(new)
    <3>1. HAVE new[i].kind = "range" /\ new[i].lo < new[i].hi /\ b = First(new[i])
    <3>2. CASE i = 1
      <4>1. b = First(f)
        BY <1>11, <1>20, <3>1, <3>2 DEF First
      <4> QED  BY <2>2, <4>1
    <3>3. CASE i = 2
      <4>1. Starts(new[2], b) /\ i <= 2
        BY <1>20, <2>1, <3>1, <3>3
      <4> QED  BY <1>20, <4>1
    <3> QED  BY <1>20, <3>2, <3>3
  <2> QED  BY <1>6, <1>20, <1>22, <1>30, <2>3, <2>4, FirstStep
<1>39. OneRunner' /\ \A i : RunAsJob(i)' => RunAsJob(i)
  <2>1. \A i \in 1..Len(new) : \A k : RunsJob(new[i], k) => i = 1 /\ RunsJob(Top(w), k)
    <3>1. \A k : RunsJob(f2, k) => RunsJob(f, k)
      BY <1>5, <1>11 DEF RunsJob, AsJob
    <3>2. \A k : ~RunsJob(g, k)
      BY <1>13 DEF RunsJob
    <3> QED  BY <1>0, <1>20, <3>1, <3>2
  <2>2. \A k \in finished' : k \in finished \/ (RunsJob(Top(w), k) /\ Len(new) = 0)
    BY <1>23
  <2>3. Becomes(w, Len(stack[w]) - 1, new)
    BY <1>21, <1>22
  <2> QED  BY <1>5, <1>6, <1>20, <2>1, <2>2, <2>3, RunnerStep
<1>40. Aliveness'
  <2>1. PICK b : b = Append(j.call, j.lo) /\ b \in Calls /\ OwnsJob(j, b)
    <3>1. Append(f.call, z) \in Calls1 /\ Parent(Append(f.call, z)) = f.call /\ Nth(Append(f.call, z)) = z
      <4>1. z \in 0..(Size(f.call) - 1)
        BY <1>9, <1>10
      <4> QED  BY <1>9, <4>1, CallParts
    <3>2. PICK b : b = Append(f.call, z)
      OBVIOUS
    <3>3. b \in Calls /\ b # << >> /\ Parent(b) = f.call /\ Nth(b) = z
      BY <3>1, <3>2 DEF Calls1
    <3>4. OwnsJob(j, b)
      BY <1>10, <1>14, <3>3 DEF OwnsJob
    <3> QED  BY <1>14, <3>2, <3>3, <3>4
  <2>2. ~RunAsJob(j)
    <3>1. HeldInDeques(b)
      BY <1>38, <2>1
    <3>2. OneHolder /\ FirstIndex
      BY <1>6
    <3> QED  BY <1>6, <1>14, <2>1, <3>1, <3>2, NotRunning
  <2>3. ASSUME NEW i \in GoodJobs, Waits(i)'
        PROVE  i # j /\ Waits(i)
    <3>1. PICK u \in Crew : \E k \in 1..Len(deque'[u]) : deque'[u][k] = i
      BY <2>3 DEF Waits
    <3>2. PICK k \in 1..Len(deque'[u]) : deque'[u][k] = i
      BY <3>1
    <3>3. OwnsJob(i, b) => HeldInDeques(b)'
      BY <3>2 DEF HeldInDeques, OwnsJob, Parent, Nth
    <3>4. ~OwnsJob(i, b)
      BY <1>38, <2>1, <3>3
    <3>5. deque[u] \in Seq(GoodJobs) /\ Len(deque[u]) \in Nat
      BY <1>6 DEF FJTypes
    <3>6. k \in 1..Len(deque[u]) /\ deque[u][k] = i
      <4>1. CASE u # w
        BY <1>25, <3>2, <4>1 DEF Loses
      <4>2. CASE u = w
        <5>1. Dropped(w)[k] = deque[w][k] /\ k \in 1..Len(deque[w])
          <6>1. deque[w] \in Seq(GoodJobs) /\ deque[w] # << >>
            BY <1>6 DEF FJTypes
          <6>2. deque'[w] = Dropped(w)
            BY <1>5, <1>6 DEF FJTypes
          <6>3. Len(Dropped(w)) = Len(deque[w]) - 1
                /\ \A q \in 1..(Len(deque[w]) - 1) : Dropped(w)[q] = deque[w][q]
            BY <6>1, AllButLast DEF Dropped
          <6>4. k \in 1..(Len(deque[w]) - 1)
            BY <3>2, <4>2, <6>2, <6>3
          <6> QED  BY <1>25, <6>3, <6>4
        <5>2. deque'[w] = Dropped(w)
          BY <1>5, <1>6 DEF FJTypes
        <5> QED  BY <3>2, <4>2, <5>1, <5>2
      <4> QED  BY <4>1, <4>2
    <3> QED  BY <2>1, <3>4, <3>6 DEF Waits
  <2>4. ASSUME NEW i \in GoodJobs, RunAsJob(i)' \/ Waits(i)'
        PROVE  HasForker(i)'
    <3>1. i # j /\ (RunAsJob(i) \/ Waits(i))
      BY <1>39, <2>2, <2>3, <2>4
    <3>2. HasForker(i)
      BY <1>6, <3>1 DEF Aliveness
    <3>3. \A d \in 1..Len(stack[w]) : d > m /\ Forks(stack[w][d], i) =>
            \E k \in 1..Len(new) : Forks(new[k], i)
      BY <1>4, <1>24, <3>1 DEF Forks
    <3> QED  BY <1>6, <1>20, <1>22, <3>2, <3>3, ForkerStep
  <2>5. (\A i \in GoodJobs : RunAsJob(i) \/ Waits(i) => HasForker(i))'
    BY <2>4
  <2> QED  BY <2>5 DEF Aliveness
<1> QED  BY <1>31, <1>32, <1>33, <1>30, <1>34, <1>35, <1>36, <1>37, <1>39, <1>40 DEF FJInv

-----------------------------------------------------------------------------
(* Only a worker whose deque is empty takes a job: another's first.        *)
LEMMA TakesFirst ==
  ASSUME ForkJoinAssumption, FJInv, NEW w \in Crew, NEW v \in Crew, TakeJob(w, v)
  PROVE  /\ w # v /\ deque[w] = << >> /\ Len(deque[v]) \in Nat /\ Len(deque[v]) > 0
         /\ stack' = [stack EXCEPT ![w] = Append(@, JobFrame(deque[v][1]))]
         /\ Loses(v, 1) /\ \A i \in 1..(Len(deque[v]) - 1) : deque'[v][i] = deque[v][i + 1]
         /\ Busy(w) => TopIs(w, "range", "wait")
         /\ finished' = finished /\ returned' = returned
         /\ granularity' = granularity /\ conservative' = conservative
<1>1. FJTypes /\ Matched
  BY DEF FJInv
<1>2. ~Busy(w) \/ TopIs(w, "range", "wait")
  BY DEF TakeJob, Idle
<1>3. deque[w] = << >>
  BY <1>1, <1>2, NoJobsInWait
<1>4. w # v /\ deque[v] # << >>
  BY <1>3 DEF TakeJob
<1>5. /\ stack' = [stack EXCEPT ![w] = Append(@, JobFrame(deque[v][1]))]
      /\ deque' = [deque EXCEPT ![v] = Without(@, 1)]
  BY <1>4 DEF TakeJob, Stolen
<1>6. PICK q \in Seq(GoodJobs) : q = deque[v]
  BY <1>1 DEF FJTypes
<1>7. PICK n \in Nat : n = Len(q) /\ n > 0
  <2>1. Len(q) \in Nat /\ Len(q) # 0
    BY <1>4, <1>6
  <2> QED  BY <2>1
<1>8. /\ Without(q, 1) \in Seq(GoodJobs) /\ Len(Without(q, 1)) = n - 1
      /\ \A i \in 1..(n - 1) : Without(q, 1)[i] = q[i + 1]
  <2>1. SubSeq(q, 1, 1 - 1) = << >>
    BY <1>6
  <2>2. SubSeq(q, 1 + 1, Len(q)) = Tail(q)
    BY <1>6, <1>7
  <2>3. << >> \o Tail(q) = Tail(q) /\ Tail(q) \in Seq(GoodJobs) /\ Len(Tail(q)) = n - 1
        /\ \A i \in 1..(n - 1) : Tail(q)[i] = q[i + 1]
    BY <1>6, <1>7
  <2>4. Without(q, 1) = Tail(q)
    BY <2>1, <2>2, <2>3 DEF Without
  <2> QED  BY <2>3, <2>4
<1>9. deque \in [Crew -> Seq(GoodJobs)]
  BY <1>1 DEF FJTypes
<1>10. /\ deque' \in [Crew -> Seq(GoodJobs)] /\ deque'[v] = Without(q, 1)
       /\ \A u \in Crew : u # v => deque'[u] = deque[u]
  BY <1>5, <1>6, <1>8, <1>9
<1>11. \A i \in 1..(n - 1) : deque'[v][i] = deque[v][i + 1]
  BY <1>6, <1>8, <1>10
<1>12. Len(deque'[v]) = n - 1 /\ n = Len(deque[v]) /\ 1 \in 1..n
  BY <1>6, <1>7, <1>8, <1>10
<1>13. Loses(v, 1)
  BY <1>10, <1>11, <1>12 DEF Loses
<1>14. finished' = finished /\ returned' = returned
       /\ granularity' = granularity /\ conservative' = conservative
  BY DEF TakeJob, arguments
<1> QED  BY <1>2, <1>3, <1>4, <1>5, <1>7, <1>11, <1>12, <1>13, <1>14

(* What a stack becomes when a frame is put on top of it.                  *)
LEMMA TakeBecomes ==
  ASSUME FJTypes, NEW w \in Crew, NEW g \in GoodFrames, stack' = [stack EXCEPT ![w] = Append(@, g)]
  PROVE  Becomes(w, Len(stack[w]), << g >>)
<1>1. stack \in [Crew -> Seq(GoodFrames)]
  BY DEF FJTypes
<1>2. PICK s \in Seq(GoodFrames) : s = stack[w]
  BY <1>1
<1>3. PICK n \in Nat : n = Len(s)
  BY <1>2
<1>4. /\ Append(s, g) \in Seq(GoodFrames) /\ Len(Append(s, g)) = n + 1 /\ Append(s, g)[n + 1] = g
      /\ \A d \in 1..n : Append(s, g)[d] = s[d]
  BY <1>2, <1>3
<1>5. /\ stack' \in [Crew -> Seq(GoodFrames)] /\ stack'[w] = Append(s, g)
      /\ \A u \in Crew \ {w} : stack'[u] = stack[u]
  BY <1>1, <1>2, <1>4
<1>6. Len(<< g >>) = 1 /\ << g >>[1] = g
  OBVIOUS
<1> QED  BY <1>2, <1>3, <1>4, <1>5, <1>6 DEF Becomes

(* A worker takes a job.                                                   *)
LEMMA TakeKeeps ==
  ASSUME ForkJoinAssumption, FJInv, NEW w \in Crew, NEW v \in Crew, TakeJob(w, v)
  PROVE  FJInv'
<1>1. /\ FJTypes /\ Stacked /\ Matched /\ OneHolder /\ Families /\ NoneLost /\ CleanLeft
      /\ FirstIndex /\ OneRunner /\ Aliveness
  BY DEF FJInv
<1>2. PICK j : j = deque[v][1]
  OBVIOUS
<1>3. /\ w # v /\ deque[w] = << >> /\ Len(deque[v]) \in Nat /\ Len(deque[v]) > 0
      /\ stack' = [stack EXCEPT ![w] = Append(@, JobFrame(j))]
      /\ Loses(v, 1) /\ \A i \in 1..(Len(deque[v]) - 1) : deque'[v][i] = deque[v][i + 1]
      /\ Busy(w) => TopIs(w, "range", "wait")
      /\ finished' = finished /\ returned' = returned
      /\ granularity' = granularity /\ conservative' = conservative
  BY <1>2, TakesFirst
<1>4. j \in GoodJobs /\ Waits(j) /\ 1 \in 1..Len(deque[v])
  <2>1. deque[v] \in Seq(GoodJobs)
    BY <1>1 DEF FJTypes
  <2>2. 1 \in 1..Len(deque[v])
    BY <1>3
  <2> QED  BY <1>2, <2>1, <2>2 DEF Waits
<1>5. /\ j.call \in Loops /\ j.lo \in Nat /\ j.hi \in Nat /\ j.gran \in Nat /\ j.lo < j.hi
      /\ j.hi <= Size(j.call) /\ j.gran > 0 /\ Size(j.call) \in Nat
      /\ j = [call |-> j.call, lo |-> j.lo, hi |-> j.hi, gran |-> j.gran]
  <2>1. /\ j.call \in Loops /\ j.lo \in Nat /\ j.hi \in Nat /\ j.gran \in Nat /\ j.lo < j.hi
        /\ j.hi <= Size(j.call) /\ j.gran > 0
        /\ j = [call |-> j.call, lo |-> j.lo, hi |-> j.hi, gran |-> j.gran]
    BY <1>4 DEF GoodJobs, Job
  <2> QED  BY <2>1, CallParts
<1>6. PICK g : g = TakenFrame(j.call, j.lo, j.hi, j.gran)
  OBVIOUS
<1>7. /\ g \in GoodFrames /\ Entered(g, j.call, j.lo, j.hi, j.gran)
      /\ \A b \in Calls : ~Names(g, b)
      /\ \A b \in Calls : Owns(g, b) <=> Within(b, j.call, j.lo, j.hi)
      /\ Clean(g, TRUE)'
  BY <1>5, <1>6, JobHolds, Zenon
<1>8. /\ g.kind = "range" /\ g.call = j.call /\ g.at = "enter" /\ g.job
      /\ g.lo = j.lo /\ g.hi = j.hi /\ g.next = j.lo /\ g.gran = j.gran /\ AsJob(g) = j
  <2>1. g.job
    BY <1>6 DEF TakenFrame, RangeFrame
  <2>2. /\ g.kind = "range" /\ g.call = j.call /\ g.at = "enter"
        /\ g.lo = j.lo /\ g.hi = j.hi /\ g.next = j.lo /\ g.gran = j.gran
    BY <1>7 DEF Entered
  <2>3. AsJob(g) = j
    BY <1>5, <2>2 DEF AsJob
  <2> QED  BY <2>1, <2>2, <2>3
<1>9. \A b \in Calls : Claims(g, b) <=> OwnsJob(j, b)
  BY <1>7 DEF Claims, OwnsJob, Within, Calls1
<1>10. PICK new : new = << g >>
  OBVIOUS
<1>11. /\ Len(new) = 1 /\ Len(new) \in Nat /\ new[1] = g /\ 1 \in 1..Len(new)
       /\ \A i \in 1..Len(new) : i = 1
  BY <1>10
<1>12. PICK m \in Nat : m = Len(stack[w])
  BY <1>1, FitsTypes
<1>13. Becomes(w, m, new)
  <2>1. stack' = [stack EXCEPT ![w] = Append(@, g)]
    BY <1>3, <1>6 DEF JobFrame, TakenFrame
  <2> QED  BY <1>1, <1>7, <1>10, <1>12, <2>1, TakeBecomes
<1>14. PICK b0 : b0 = Append(j.call, j.lo) /\ b0 \in Calls1 /\ b0 \in Calls /\ OwnsJob(j, b0)
                 /\ Parent(b0) = j.call
  <2>1. j.lo \in 0..(Size(j.call) - 1)
    BY <1>5
  <2>2. PICK b : b = Append(j.call, j.lo)
    OBVIOUS
  <2>3. b \in Calls1 /\ Parent(b) = j.call /\ Nth(b) = j.lo
    BY <1>5, <2>1, <2>2, CallParts
  <2>4. OwnsJob(j, b)
    BY <1>5, <2>3 DEF OwnsJob, Calls1
  <2> QED  BY <2>2, <2>3, <2>4 DEF Calls1
<1>15. HeldInDeques(b0) /\ Active(b0)
  BY <1>2, <1>4, <1>14 DEF HeldInDeques, Active
<1>16. ~RunAsJob(j) /\ j \notin finished /\ Begun(j.call)
  <2>1. ~RunAsJob(j)
    <3>1. OneHolder /\ FirstIndex
      BY <1>1
    <3> QED  BY <1>1, <1>4, <1>14, <1>15, <3>1, NotRunning
  <2>2. j \notin finished
    BY <1>4, DoneNotWaiting
  <2>3. Running(Parent(b0))
    BY <1>1, <1>14, <1>15 DEF Families
  <2> QED  BY <1>14, <2>1, <2>2, <2>3 DEF Begun
<1>17. /\ JobsApart'
       /\ \A b \in Calls : HeldInDeques(b) <=> HeldInDeques(b)' \/ OwnsJob(j, b)
       /\ \A b \in Calls : ~(HeldInDeques(b)' /\ OwnsJob(j, b))
  <2>1. JobsApart
    BY <1>1 DEF OneHolder
  <2> QED  BY <1>1, <1>2, <1>3, <2>1, JobLost
<1>18. \A b \in Calls : HeldOnStacks(b) <=> HeldBelow(w, m, b)
  <2>1. \A u \in Crew : \A d \in 1..Len(stack[u]) : u = w => d <= m
    BY <1>12
  <2> QED  BY <2>1, Zenon DEF HeldOnStacks, HeldBelow
<1>19. \A b \in Calls : HeldOnStacks(b)' <=> HeldBelow(w, m, b) \/ Claims(g, b)
  <2>1. \A b \in Calls : HeldOnStacks(b)' <=> HeldBelow(w, m, b) \/ \E i \in 1..Len(new) : Claims(new[i], b)
    BY <1>1, <1>11, <1>13, HeldAfter
  <2>2. \A b \in Calls : (\E i \in 1..Len(new) : Claims(new[i], b)) <=> Claims(g, b)
    BY <1>11
  <2> QED  BY <2>1, <2>2
<1>20. \A b \in Calls : Claims(g, b) => ~HeldBelow(w, m, b)
  BY <1>1, <1>9, <1>17, <1>18 DEF OneHolder
<1>21. FramesApart'
  <2>1. \A b \in Calls : \A i \in 1..Len(new) : Claims(new[i], b) => ~HeldBelow(w, m, b)
    BY <1>11, <1>20
  <2>2. \A b \in Calls : \A i, k \in 1..Len(new) : Claims(new[i], b) /\ Claims(new[k], b) => i = k
    BY <1>11
  <2> QED  BY <1>1, <1>11, <1>13, <2>1, <2>2, FramesStayApart DEF OneHolder
<1>22. /\ OneHolder' /\ Flows
       /\ \A b \in Calls1 : Active(b)' => Running(Parent(b))'
  <2>1. \A b \in Calls : ~(HeldOnStacks(b) /\ HeldInDeques(b))
    BY <1>1 DEF OneHolder
  <2>2. \A b \in Calls : ~(HeldOnStacks(b)' /\ HeldInDeques(b)')
    BY <1>9, <1>17, <1>18, <1>19, <2>1
  <2>3. \A b \in Calls : Active(b)' <=> Active(b)
    BY <1>9, <1>17, <1>18, <1>19 DEF Active
  <2>4. \A b \in Calls : Running(b)' <=> Running(b)
    <3>1. \A b : b \in Calls => ~\E i \in 1..Len(new) : Names(new[i], b)
      BY <1>7, <1>11
    <3>2. \A b : Running(b) <=> RunsBelow(w, m, b)
      <4>1. \A u \in Crew : \A d \in 1..Len(stack[u]) : u = w => d <= m
        BY <1>12
      <4> QED  BY <4>1, Zenon DEF Running, RunsBelow
    <3>3. \A b : Running(b)' <=> RunsBelow(w, m, b) \/ \E i \in 1..Len(new) : Names(new[i], b)
      BY <1>1, <1>11, <1>13, RunningAfter
    <3> QED  BY <3>1, <3>2, <3>3
  <2> QED  BY <1>1, <1>3, <1>11, <1>13, <1>17, <1>21, <2>2, <2>3, <2>4, HoldersStep
<1>23. FJTypes'
  <2>1. GoodFrames' = GoodFrames /\ GoodJobs' = GoodJobs
    BY DEF GoodFrames, GoodLoops, GoodRanges, GoodBodies, GoodJobs, Job, Whole
  <2>2. stack' \in [Crew -> Seq(GoodFrames)]
    BY <1>13 DEF Becomes
  <2>3. deque' \in [Crew -> Seq(GoodJobs)]
    BY <1>3 DEF Loses
  <2> QED  BY <1>1, <1>3, <2>1, <2>2, <2>3 DEF FJTypes
<1>24. m > 0 => /\ stack[w][m].kind = "range" /\ stack[w][m].at = "wait"
                /\ Clean(stack[w][m], TRUE) /\ Begun(stack[w][m].call)
  <2>1. SUFFICES ASSUME m > 0
                 PROVE  /\ stack[w][m].kind = "range" /\ stack[w][m].at = "wait"
                        /\ Clean(stack[w][m], TRUE) /\ Begun(stack[w][m].call)
    OBVIOUS
  <2>2. Busy(w)
    <3>1. Len(<< >>) = 0
      OBVIOUS
    <3> QED  BY <1>12, <2>1, <3>1 DEF Busy
  <2>3. PICK e : e = Top(w)
    OBVIOUS
  <2>4. Begun(e.call) /\ Clean(e, TRUE) /\ stack[w][Len(stack[w])] = e
    BY <2>2, <2>3, TopKnown
  <2>5. e.kind = "range" /\ e.at = "wait"
    BY <1>3, <2>2, <2>3 DEF TopIs
  <2> QED  BY <1>12, <2>4, <2>5
<1>25. Stacked'
  <2>1. m > 0 => Above(stack[w][m], g)
    BY <1>8, <1>24 DEF Above, Is
  <2>2. \A i \in 1..(Len(new) - 1) : Above(new[i], new[i + 1])
    BY <1>11
  <2>3. \A i \in 1..Len(new) : new[i].kind = "loop" /\ granularity # 0 => new[i].next = 0
    BY <1>8, <1>11
  <2>4. m > 0 /\ Len(new) > 0 => Above(stack[w][m], new[1])
    BY <1>11, <2>1
  <2> QED  BY <1>1, <1>3, <1>11, <1>13, <2>2, <2>3, <2>4, StackedStep
<1>26. Matched'
  BY <1>1, <1>3, <1>10, <1>12, <1>13, FitsTaken
<1>27. Families'
  <2>1. \A i \in 1..Len(new) : Begun(new[i].call)'
    <3>1. \A d : d = j.call => Begun(d)'
      <4>1. j.call \in Calls
        BY <1>5, CallParts
      <4> QED  BY <1>16, <1>22, <4>1 DEF Flows
    <3>2. \A i \in 1..Len(new) : \A d : d = new[i].call => Begun(d)'
      BY <1>8, <1>11, <3>1
    <3> QED  BY <3>2
  <2>2. \A b \in returned' : b \in returned \/ Active(b)
    BY <1>3
  <2>3. \A i \in finished' : i \in finished \/ Begun(i.call)'
    BY <1>3
  <2> QED  BY <1>1, <1>11, <1>13, <1>22, <2>1, <2>2, <2>3, FamiliesStep
<1>28. NoneLost'
  BY <1>1, <1>22, NoneLostStep
<1>29. CleanLeft'
  <2>1. \A e : m > 0 /\ e = stack[w][m] => Clean(e, FALSE)'
    <3>1. SUFFICES ASSUME NEW e, m > 0, e = stack[w][m] PROVE Clean(e, FALSE)'
      OBVIOUS
    <3>2. Clean(e, FALSE)
      BY <1>24, <3>1 DEF Clean, Is
    <3> QED  BY <1>22, <1>24, <3>1, <3>2, CleanStays
  <2>2. \A e : m > 0 /\ e = stack[w][m] => Clean(e, Len(new) = 0)'
    <3>1. (Len(new) = 0) = FALSE
      BY <1>11
    <3> QED  BY <2>1, <3>1
  <2>3. \A i \in 1..Len(new) : Clean(new[i], i = Len(new))'
    <3> TAKE i \in 1..Len(new)
    <3>1. new[i] = g /\ (i = Len(new)) = TRUE
      BY <1>11
    <3> QED  BY <1>7, <3>1
  <2>4. \A i \in finished' : i \in finished \/ Silent(i.call, i.lo, i.hi)'
    BY <1>3
  <2> QED  BY <1>1, <1>11, <1>13, <1>22, <2>2, <2>3, <2>4, CleanStep
<1>30. FirstIndex'
  <2>1. \A b : b = First(g) => Starts(g, b)
    BY <1>5, <1>8, StartsNew
  <2>2. \A b : \A d \in 1..Len(stack[w]) : d > m /\ Starts(stack[w][d], b) =>
            Begun(b)' \/ \E i \in 1..Len(new) : Starts(new[i], b)
    BY <1>12
  <2>3. \A b : \A i \in 1..Len(new) : new[i].kind = "range" /\ new[i].lo < new[i].hi
                  /\ b = First(new[i]) =>
            Begun(b)' \/ \E k \in 1..Len(new) : i <= k /\ Starts(new[k], b)
    BY <1>11, <2>1
  <2> QED  BY <1>1, <1>11, <1>13, <1>22, <2>2, <2>3, FirstStep
<1>31. Placed(w, m, new)
  BY <1>1, <1>11, <1>13, Positions
<1>32. ASSUME NEW u \in Crew, NEW d \in 1..Len(stack'[u]), NEW i, RunsJob(stack'[u][d], i)
       PROVE  /\ i # j => d \in 1..Len(stack[u]) /\ RunsJob(stack[u][d], i)
              /\ i = j => u = w /\ d = m + 1
  <2>1. CASE d \in 1..Len(stack[u]) /\ stack'[u][d] = stack[u][d]
    <3>1. RunsJob(stack[u][d], i) /\ RunAsJob(i)
      BY <1>32, <2>1 DEF RunAsJob
    <3> QED  BY <1>16, <2>1, <3>1
  <2>2. CASE u = w /\ d > m /\ d - m \in 1..Len(new) /\ stack'[u][d] = new[d - m]
    <3>1. d - m = 1 /\ RunsJob(g, i)
      BY <1>11, <1>32, <2>2
    <3>2. i = j
      BY <1>8, <3>1 DEF RunsJob
    <3>3. d = m + 1
      BY <1>31, <3>1 DEF Placed
    <3> QED  BY <2>2, <3>2, <3>3
  <2> QED  BY <1>31, <2>1, <2>2 DEF Placed
<1>33. OneRunner'
  <2>1. ASSUME NEW i \in GoodJobs, NEW u \in Crew, NEW t \in Crew,
               NEW d \in 1..Len(stack'[u]), NEW e \in 1..Len(stack'[t]),
               RunsJob(stack'[u][d], i), RunsJob(stack'[t][e], i)
        PROVE  u = t /\ d = e
    <3>1. /\ i # j => d \in 1..Len(stack[u]) /\ RunsJob(stack[u][d], i)
          /\ i = j => u = w /\ d = m + 1
      BY <1>32, <2>1
    <3>2. /\ i # j => e \in 1..Len(stack[t]) /\ RunsJob(stack[t][e], i)
          /\ i = j => t = w /\ e = m + 1
      BY <1>32, <2>1
    <3> QED  BY <1>1, <3>1, <3>2 DEF OneRunner
  <2>2. ASSUME NEW i \in GoodJobs, NEW u \in Crew, NEW d \in 1..Len(stack'[u]),
               RunsJob(stack'[u][d], i)
        PROVE  i \notin finished'
    <3>1. i # j => d \in 1..Len(stack[u]) /\ RunsJob(stack[u][d], i)
      BY <1>32, <2>2
    <3>2. i # j => i \notin finished
      BY <1>1, <3>1 DEF OneRunner
    <3> QED  BY <1>3, <1>16, <3>2
  <2> QED  BY <2>1, <2>2 DEF OneRunner, RunsJob, AsJob
<1>34. ASSUME NEW i \in GoodJobs, RunAsJob(i)' \/ Waits(i)'
       PROVE  RunAsJob(i) \/ Waits(i)
  <2>1. ASSUME RunAsJob(i)' PROVE RunAsJob(i) \/ Waits(i)
    <3>1. PICK u \in Crew : \E d \in 1..Len(stack'[u]) : RunsJob(stack'[u][d], i)
      BY <2>1 DEF RunAsJob, RunsJob, AsJob
    <3>2. PICK d \in 1..Len(stack'[u]) : RunsJob(stack'[u][d], i)
      BY <3>1
    <3>3. i # j => d \in 1..Len(stack[u]) /\ RunsJob(stack[u][d], i)
      BY <1>32, <3>2
    <3> QED  BY <1>4, <3>3 DEF RunAsJob
  <2>2. ASSUME Waits(i)' PROVE Waits(i)
    <3>1. PICK u \in Crew : \E k \in 1..Len(deque'[u]) : deque'[u][k] = i
      BY <2>2 DEF Waits
    <3>2. PICK k \in 1..Len(deque'[u]) : deque'[u][k] = i
      BY <3>1
    <3>3. CASE u # v
      <4>1. deque'[u] = deque[u]
        BY <1>3, <3>3 DEF Loses
      <4> QED  BY <3>2, <4>1 DEF Waits
    <3>4. CASE u = v
      <4>1. Len(deque'[v]) = Len(deque[v]) - 1
        BY <1>3 DEF Loses
      <4>2. k \in 1..(Len(deque[v]) - 1) /\ k + 1 \in 1..Len(deque[v])
        BY <1>3, <3>2, <3>4, <4>1
      <4>3. deque[v][k + 1] = i
        BY <1>3, <3>2, <3>4, <4>2
      <4> QED  BY <4>2, <4>3 DEF Waits
    <3> QED  BY <3>3, <3>4
  <2> QED  BY <1>34, <2>1, <2>2
<1>35. Aliveness'
  <2>1. ASSUME NEW i \in GoodJobs, RunAsJob(i)' \/ Waits(i)'
        PROVE  HasForker(i)'
    <3>1. HasForker(i)
      BY <1>1, <1>34, <2>1 DEF Aliveness
    <3>2. \A d \in 1..Len(stack[w]) : d > m /\ Forks(stack[w][d], i) =>
            \E k \in 1..Len(new) : Forks(new[k], i)
      BY <1>12
    <3> QED  BY <1>1, <1>11, <1>13, <3>1, <3>2, ForkerStep
  <2>2. (\A i \in GoodJobs : RunAsJob(i) \/ Waits(i) => HasForker(i))'
    BY <2>1
  <2> QED  BY <2>2 DEF Aliveness
<1> QED  BY <1>22, <1>23, <1>25, <1>26, <1>27, <1>28, <1>29, <1>30, <1>33, <1>35 DEF FJInv

-----------------------------------------------------------------------------
(* Parlay begins with the outermost loop about to measure.                 *)
LEMMA FJStarts ==
  ASSUME ForkJoinAssumption, FJInit
  PROVE  FJInv
<1>1. PICK g : g = LoopFrame(<< >>)
  OBVIOUS
<1>2. << >> \in Loops /\ << >> \in Calls
  <2>1. << >> \in Calls /\ Depth \in Nat \ {0} /\ Len(<< >>) = 0
    BY DEF ForkJoinAssumption
  <2> QED  BY <2>1 DEF Loops
<1>3. /\ g \in GoodFrames /\ g.call = << >> /\ g.kind = "loop" /\ g.next = 0 /\ g.at = "measure" /\ g.lo = 0
      /\ \A b \in Calls : Names(g, b) <=> b = << >>
      /\ \A b \in Calls : Owns(g, b) <=> b \in Calls1 /\ Parent(b) = << >>
  <2>1. g = CallFrame(<< >>)
    BY <1>1, <1>2 DEF CallFrame
  <2>2. /\ g \in GoodFrames /\ g.call = << >> /\ g.kind # "range" /\ (g.kind = "loop" => g.next = 0)
        /\ \A b \in Calls : Names(g, b) <=> b = << >>
        /\ \A b \in Calls : Owns(g, b) <=> b \in Calls1 /\ Parent(b) = << >>
    BY <1>2, <2>1, CallHolds
  <2>3. g.kind = "loop" /\ g.at = "measure" /\ g.lo = 0
    BY <1>1 DEF LoopFrame
  <2> QED  BY <2>2, <2>3
<1>4. /\ stack = [w \in Crew |-> IF w = main THEN << g >> ELSE << >>]
      /\ deque = [w \in Crew |-> << >>] /\ finished = {} /\ returned = {}
      /\ granularity \in Granularities /\ conservative \in BOOLEAN
  BY <1>1 DEF FJInit
<1>5. Len(<< g >>) = 1 /\ << g >>[1] = g /\ Len(<< >>) = 0 /\ << g >> \in Seq(GoodFrames)
      /\ << >> \in Seq(GoodFrames) /\ << >> \in Seq(GoodJobs)
  BY <1>3
<1>6. /\ stack[main] = << g >> /\ \A u \in Crew : u # main => stack[u] = << >>
      /\ \A u \in Crew : deque[u] = << >>
  <2>1. main \in Crew
    BY DEF ForkJoinAssumption
  <2> QED  BY <1>4, <2>1
<1>7. /\ \A u \in Crew : \A d \in 1..Len(stack[u]) : u = main /\ d = 1 /\ stack[u][d] = g /\ Len(stack[u]) = 1
      /\ 1 \in 1..Len(stack[main]) /\ stack[main][1] = g
      /\ \A u \in Crew : 1..Len(deque[u]) = {}
  <2>1. 1..0 = {} /\ 1..1 = {1}
    OBVIOUS
  <2>2. \A u \in Crew : stack[u] = << >> => 1..Len(stack[u]) = {}
    BY <1>5, <2>1
  <2>3. 1..Len(stack[main]) = {1} /\ stack[main][1] = g /\ Len(stack[main]) = 1
    BY <1>5, <1>6, <2>1
  <2>4. \A u \in Crew : 1..Len(deque[u]) = {}
    BY <1>5, <1>6, <2>1
  <2>5. \A u \in Crew : \A d \in 1..Len(stack[u]) : u = main
    BY <1>6, <2>2
  <2>6. \A d \in 1..Len(stack[main]) : d = 1
    BY <2>3
  <2>7. 1 \in 1..Len(stack[main])
    BY <2>3
  <2> QED  BY <2>3, <2>4, <2>5, <2>6, <2>7
<1>8. FJTypes
  BY <1>4, <1>5 DEF FJTypes
<1>9. Stacked
  <2>1. \A u \in Crew : \A d \in 1..(Len(stack[u]) - 1) : FALSE
    <3>1. \A u \in Crew : Len(stack[u]) = 0 \/ Len(stack[u]) = 1
      BY <1>5, <1>6
    <3>2. 1..(0 - 1) = {} /\ 1..(1 - 1) = {}
      OBVIOUS
    <3> QED  BY <3>1, <3>2
  <2> QED  BY <1>3, <1>7, <2>1 DEF Stacked
<1>10. Matched
  <2>1. ASSUME NEW u \in Crew
        PROVE  \E pos \in [1..Len(deque[u]) -> 1..Len(stack[u])] : Suits(stack[u], deque[u], pos)
    <3>1. \E pos \in [1..0 -> 1..Len(stack[u])] : Suits(stack[u], << >>, pos)
      BY EmptyFits
    <3>2. deque[u] = << >> /\ Len(deque[u]) = 0
      BY <1>5, <1>6
    <3> QED  BY <3>1, <3>2
  <2> QED  BY <2>1 DEF Matched
<1>11. /\ \A b \in Calls : ~HeldInDeques(b)
       /\ \A b \in Calls : HeldOnStacks(b) <=> Claims(g, b)
       /\ \A b \in Calls : Active(b) <=> Claims(g, b)
  <2>1. \A b \in Calls : ~HeldInDeques(b)
    BY <1>7 DEF HeldInDeques
  <2>2. \A b \in Calls : HeldOnStacks(b) <=> Claims(g, b)
    <3>1. main \in Crew
      BY DEF ForkJoinAssumption
    <3> QED  BY <1>7, <3>1 DEF HeldOnStacks
  <2> QED  BY <2>1, <2>2 DEF Active
<1>12. OneHolder
  <2>1. FramesApart
    BY <1>7 DEF FramesApart
  <2>2. JobsApart
    BY <1>7 DEF JobsApart
  <2> QED  BY <1>4, <1>11, <2>1, <2>2 DEF OneHolder
<1>13. Running(<< >>) /\ Begun(<< >>) /\ \A c \in Calls : Begun(c) => c = << >>
  <2>1. Names(g, << >>)
    BY <1>2, <1>3
  <2>2. Running(<< >>)
    <3>1. main \in Crew
      BY DEF ForkJoinAssumption
    <3> QED  BY <1>7, <2>1, <3>1 DEF Running
  <2>3. \A c \in Calls : Running(c) => c = << >>
    BY <1>3, <1>7 DEF Running
  <2> QED  BY <1>4, <2>2, <2>3 DEF Begun
<1>14. Families
  <2>1. \A b \in Calls1 : Active(b) => Running(Parent(b))
    BY <1>3, <1>11, <1>13 DEF Calls1, Claims
  <2>2. \A w \in Crew : \A d \in 1..Len(stack[w]) : Begun(stack[w][d].call)
    BY <1>3, <1>7, <1>13
  <2> QED  BY <1>4, <2>1, <2>2 DEF Families
<1>15. NoneLost
  <2>1. SUFFICES ASSUME NEW b \in Calls1, Begun(Parent(b)) PROVE Active(b)
    BY DEF NoneLost
  <2>2. Parent(b) \in Calls
    BY CallParts
  <2>3. Parent(b) = << >>
    BY <1>13, <2>1, <2>2
  <2> QED  BY <1>3, <1>11, <2>3 DEF Claims, Calls1
<1>16. CleanLeft
  <2>1. Clean(g, TRUE)
    <3>1. \A b \in Calls1 : ~(0 <= Nth(b) /\ Nth(b) < 0)
      <4>1. \A b \in Calls1 : Nth(b) \in 0..(Size(Parent(b)) - 1)
        BY CallParts
      <4> QED  BY <4>1
    <3>2. Silent(<< >>, 0, 0)
      BY <3>1 DEF Silent
    <3> QED  BY <1>3, <3>2 DEF Clean, Is
  <2>2. \A w \in Crew : \A d \in 1..Len(stack[w]) : Clean(stack[w][d], d = Len(stack[w]))
    <3> TAKE w \in Crew
    <3> TAKE d \in 1..Len(stack[w])
    <3>1. stack[w][d] = g /\ (d = Len(stack[w])) = TRUE
      BY <1>7
    <3> QED  BY <2>1, <3>1
  <2> QED  BY <1>4, <2>2 DEF CleanLeft
<1>17. FirstIndex
  BY <1>3, <1>7 DEF FirstIndex
<1>18. OneRunner /\ Aliveness
  <2>1. \A j : ~RunsJob(g, j)
    BY <1>3 DEF RunsJob
  <2>2. OneRunner
    BY <1>7, <2>1 DEF OneRunner
  <2>3. \A j : ~RunAsJob(j) /\ ~Waits(j)
    BY <1>7, <2>1 DEF RunAsJob, Waits
  <2> QED  BY <2>2, <2>3 DEF Aliveness
<1> QED  BY <1>8, <1>9, <1>10, <1>12, <1>14, <1>15, <1>16, <1>17, <1>18 DEF FJInv

(* While nothing changes.                                                  *)
LEMMA FJStays ==
  ASSUME ForkJoinAssumption, FJInv, UNCHANGED fj_vars
  PROVE  FJInv'
<1>1. /\ stack' = stack /\ deque' = deque /\ finished' = finished /\ returned' = returned
      /\ granularity' = granularity /\ conservative' = conservative
  BY DEF fj_vars
<1>2. /\ FJTypes /\ Stacked /\ Matched /\ OneHolder /\ Families /\ NoneLost /\ CleanLeft
      /\ FirstIndex /\ OneRunner /\ Aliveness
  BY DEF FJInv
<1>3. FJTypes'
  BY <1>1, <1>2 DEF FJTypes, GoodFrames, GoodLoops, GoodRanges, GoodBodies, GoodJobs, Job, Whole
<1>4. Stacked'
  BY <1>1, <1>2 DEF Stacked, Above, Is, Mid
<1>5. Matched'
  BY <1>1, <1>2 DEF Matched, Suits, Is, RightJob, Mid
<1>6. \A b \in Calls : /\ HeldOnStacks(b)' <=> HeldOnStacks(b)
                       /\ HeldInDeques(b)' <=> HeldInDeques(b)
                       /\ Running(b)' <=> Running(b)
  BY <1>1 DEF HeldOnStacks, HeldInDeques, Running, Claims, Owns, Names, OwnsJob, Parent, Nth
<1>7. \A b \in Calls : (Active(b)' <=> Active(b)) /\ (Begun(b)' <=> Begun(b))
  BY <1>1, <1>6 DEF Active, Begun
<1>8. OneHolder'
  <2>1. FramesApart'
    BY <1>1, <1>2 DEF OneHolder, FramesApart, Claims, Owns, Names, Parent, Nth
  <2>2. JobsApart'
    <3>1. \A b \in Calls : \A u, v \in Crew : \A k \in 1..Len(deque'[u]), l \in 1..Len(deque'[v]) :
            OwnsJob(deque'[u][k], b) /\ OwnsJob(deque'[v][l], b) => u = v /\ k = l
      BY <1>1, <1>2 DEF OneHolder, JobsApart
    <3> QED  BY <3>1 DEF JobsApart, OwnsJob, Parent, Nth
  <2> QED  BY <1>1, <1>2, <1>6, <1>7, <2>1, <2>2 DEF OneHolder
<1>9. Families'
  BY <1>1, <1>2 DEF Families, Active, Begun, HeldOnStacks, HeldInDeques, Running, Claims, Owns, Names,
                    OwnsJob, Parent, Nth, Calls1
<1>15. Flows
  BY <1>1, <1>2, <1>6, <1>7, SameFlow
<1>10. NoneLost'
  BY <1>2, <1>15, NoneLostStep
<1>16. PICK m : m = Len(stack[main])
  OBVIOUS
<1>17. main \in Crew
  BY DEF ForkJoinAssumption
<1>18. PICK new : new = << >> /\ Len(new) = 0 /\ Len(new) \in Nat /\ 1..Len(new) = {}
  OBVIOUS
<1>19. Becomes(main, m, new)
  <2>1. Len(stack[main]) \in Nat
    BY <1>2, <1>17 DEF FJTypes
  <2> QED  BY <1>1, <1>2, <1>16, <1>18, <2>1 DEF Becomes, FJTypes
<1>11. CleanLeft'
  <2>1. \A f : m > 0 /\ f = stack[main][m] => Clean(f, TRUE)'
    <3>1. SUFFICES ASSUME NEW f, m > 0, f = stack[main][m] PROVE Clean(f, TRUE)'
      OBVIOUS
    <3>2. m \in 1..Len(stack[main])
      BY <1>16, <1>19, <3>1 DEF Becomes
    <3>3. PICK t \in BOOLEAN : t = (m = Len(stack[main])) /\ t = TRUE
      BY <1>16
    <3>4. Clean(f, t) /\ Begun(f.call)
      BY <1>2, <1>17, <3>1, <3>2, <3>3 DEF CleanLeft, Families
    <3> QED  BY <1>15, <3>3, <3>4, CleanStays
  <2>2. \A f : m > 0 /\ f = stack[main][m] => Clean(f, Len(new) = 0)'
    <3>1. (Len(new) = 0) = TRUE
      BY <1>18
    <3> QED  BY <2>1, <3>1
  <2>3. \A i \in 1..Len(new) : Clean(new[i], i = Len(new))'
    BY <1>18
  <2>4. \A j \in finished' : j \in finished \/ Silent(j.call, j.lo, j.hi)'
    BY <1>1
  <2> QED  BY <1>2, <1>15, <1>17, <1>18, <1>19, <2>2, <2>3, <2>4, CleanStep
<1>12. FirstIndex'
  <2>1. \A b : \A d \in 1..Len(stack[main]) : d > m /\ Starts(stack[main][d], b) =>
            Begun(b)' \/ \E i \in 1..Len(new) : Starts(new[i], b)
    BY <1>16, <1>19 DEF Becomes
  <2>2. \A b : \A i \in 1..Len(new) : new[i].kind = "range" /\ new[i].lo < new[i].hi
                  /\ b = First(new[i]) =>
            Begun(b)' \/ \E k \in 1..Len(new) : i <= k /\ Starts(new[k], b)
    BY <1>18
  <2> QED  BY <1>2, <1>15, <1>17, <1>18, <1>19, <2>1, <2>2, FirstStep
<1>13. OneRunner'
  BY <1>1, <1>2 DEF OneRunner, RunsJob, AsJob, GoodJobs, Job
<1>14. Aliveness'
  BY <1>1, <1>2 DEF Aliveness, HasForker, Forks, RunAsJob, Waits, RunsJob, AsJob, RightJob, Mid, GoodJobs, Job
<1> QED  BY <1>3, <1>4, <1>5, <1>8, <1>9, <1>10, <1>11, <1>12, <1>13, <1>14 DEF FJInv

(* Every step of parlay keeps the invariant.                               *)
LEMMA FJKeeps ==
  ASSUME ForkJoinAssumption, FJInv, [FJNext]_fj_vars
  PROVE  FJInv'
<1>1. CASE UNCHANGED fj_vars
  BY <1>1, FJStays
<1>2. CASE LoopOver
  BY <1>2, FJStays DEF LoopOver
<1>3. ASSUME NEW w \in Crew, Index(w) PROVE FJInv'
  BY <1>3, IndexKeeps
<1>4. ASSUME NEW w \in Crew, BodyReturns(w) \/ LoopReturns(w) \/ RangeReturns(w) PROVE FJInv'
  BY <1>4, ReturnKeeps
<1>5. ASSUME NEW w \in Crew, Measured(w) \/ Given(w) PROVE FJInv'
  BY <1>5, SplitKeeps
<1>6. ASSUME NEW w \in Crew, Batch(w) \/ Pop(w) PROVE FJInv'
  <2>1. CASE Batch(w) \/ (Pop(w) /\ deque[w] = << >>)
    BY <2>1, ChangeKeeps
  <2>2. CASE Pop(w) /\ deque[w] # << >>
    BY <2>2, PopKeeps
  <2> QED  BY <1>6, <2>1, <2>2
<1>7. ASSUME NEW w \in Crew, Fork(w) PROVE FJInv'
  BY <1>7, ForkKeeps
<1>8. ASSUME NEW w \in Crew, NEW v \in Crew, TakeJob(w, v) PROVE FJInv'
  BY <1>8, TakeKeeps
<1> QED  BY <1>1, <1>2, <1>3, <1>4, <1>5, <1>6, <1>7, <1>8 DEF FJNext

-----------------------------------------------------------------------------
(* What the invariant says of the frames and the jobs there are.           *)
LEMMA FJTyped ==
  ASSUME ForkJoinAssumption, FJInv
  PROVE  FJTypeOK
<1>1. FJTypes
  BY DEF FJInv
<1>2. ASSUME NEW f \in Frames
      PROVE  /\ f.kind \in {"loop", "range", "body"} /\ f.call \in Calls
             /\ f.kind # "body" => 0 <= f.lo /\ f.lo <= f.next /\ f.next <= f.hi
             /\ f.kind = "loop" => f.at \in {"measure", "split"}
             /\ f.kind = "range" =>
                   f.at \in {"enter", "left", "right", "wait"} /\ f.job \in BOOLEAN
  <2>1. PICK w \in Crew : \E d \in DOMAIN stack[w] : f = stack[w][d]
    BY DEF Frames
  <2>2. stack[w] \in Seq(GoodFrames)
    BY <1>1 DEF FJTypes
  <2>3. f \in GoodFrames
    BY <2>1, <2>2
  <2>4. Loops \subseteq Calls
    BY DEF Loops
  <2>5. CASE f \in GoodLoops
    BY <2>4, <2>5 DEF GoodLoops
  <2>6. CASE f \in GoodRanges
    BY <2>4, <2>6 DEF GoodRanges
  <2>7. CASE f \in GoodBodies
    BY <2>7 DEF GoodBodies
  <2> QED  BY <2>3, <2>5, <2>6, <2>7 DEF GoodFrames
<1>3. GoodJobs \subseteq Job
  BY DEF GoodJobs
<1>4. deque \in [Crew -> Seq(Job)] /\ finished \subseteq Job
  <2>1. \A q \in Seq(GoodJobs) : q \in Seq(Job)
    BY <1>3
  <2> QED  BY <1>1, <1>3, <2>1 DEF FJTypes
<1> QED  BY <1>1, <1>2, <1>4 DEF FJTypes, FJTypeOK

(* A worker pops its own right half, and has no jobs while it waits.       *)
LEMMA PopsIsRight ==
  ASSUME ForkJoinAssumption, FJInv
  PROVE  PopsRight
<1>1. FJTypes /\ Matched
  BY DEF FJInv
<1>2. ASSUME NEW w \in Crew, TopIs(w, "range", "left"), deque[w] # << >>
      PROVE  LastJob(w) = RightJob(Top(w))
  <2>1. PICK pos \in [1..Len(deque[w]) -> 1..Len(stack[w])] : Suits(stack[w], deque[w], pos)
    BY <1>1 DEF Matched
  <2> QED  BY <1>1, <1>2, <2>1, PopsItsOwn
<1>3. ASSUME NEW w \in Crew, TopIs(w, "range", "wait")
      PROVE  deque[w] = << >>
  BY <1>1, <1>3, NoJobsInWait
<1> QED  BY <1>2, <1>3 DEF PopsRight

(* Every job that waits or runs is that of a pardo that has not returned,  *)
(* and is not done.                                                        *)
LEMMA JobsLive ==
  ASSUME ForkJoinAssumption, FJInv
  PROVE  JobsAlive
<1>1. FJTypes /\ Aliveness
  BY DEF FJInv
<1>2. ASSUME NEW j \in GoodJobs, RunAsJob(j) \/ Waits(j)
      PROVE  j \in Forked \ finished
  <2>1. HasForker(j)
    BY <1>1, <1>2 DEF Aliveness
  <2>2. PICK u \in Crew : \E d \in 1..Len(stack[u]) : Forks(stack[u][d], j)
    BY <2>1 DEF HasForker
  <2>3. PICK d \in 1..Len(stack[u]) : Forks(stack[u][d], j)
    BY <2>2
  <2>4. DOMAIN stack[u] = 1..Len(stack[u])
    BY <1>1 DEF FJTypes
  <2>5. stack[u][d] \in Frames
    BY <2>3, <2>4 DEF Frames
  <2>6. j \in Forked
    BY <2>3, <2>5 DEF Forked, Forks
  <2>7. j \notin finished
    BY <1>2, DoneNotWaiting
  <2> QED  BY <2>6, <2>7
<1>3. ASSUME NEW w \in Crew, NEW d \in DOMAIN deque[w]
      PROVE  deque[w][d] \in Forked \ finished
  <2>1. deque[w] \in Seq(GoodJobs)
    BY <1>1 DEF FJTypes
  <2>2. d \in 1..Len(deque[w]) /\ deque[w][d] \in GoodJobs
    BY <2>1
  <2> QED  BY <1>2, <2>2 DEF Waits
<1>4. ASSUME NEW f \in Frames, f.kind = "range", f.job
      PROVE  AsJob(f) \in Forked \ finished
  <2>1. PICK w \in Crew : \E d \in DOMAIN stack[w] : f = stack[w][d]
    BY DEF Frames
  <2>2. stack[w] \in Seq(GoodFrames)
    BY <1>1 DEF FJTypes
  <2>3. PICK d \in 1..Len(stack[w]) : f = stack[w][d]
    BY <2>1, <2>2
  <2>4. f \in GoodRanges
    BY <1>4, <2>2, <2>3 DEF GoodFrames, GoodLoops, GoodBodies
  <2>5. AsJob(f) \in GoodJobs
    BY <1>4, <2>4 DEF AsJob, GoodRanges, GoodJobs, Job
  <2>6. RunAsJob(AsJob(f))
    BY <1>4, <2>3 DEF RunAsJob, RunsJob
  <2> QED  BY <1>2, <2>5, <2>6
<1> QED  BY <1>3, <1>4 DEF JobsAlive

-----------------------------------------------------------------------------
(* A set of natural numbers that is not empty has a least element.         *)
LEMMA LeastNat ==
  ASSUME NEW T \in SUBSET Nat, T # {}
  PROVE  \E m \in T : \A y \in T : m <= y
<1>1. PICK m \in T : \A y \in T : ~(<< y, m >> \in OpToRel(<, Nat))
  BY NatLessThanWellFounded, WFMin
<1>2. ASSUME NEW y \in T PROVE m <= y
  <2>1. << y, m >> \in OpToRel(<, Nat) <=> y < m
    BY DEF OpToRel
  <2>2. ~(y < m)
    BY <1>1, <2>1
  <2> QED  BY <2>2
<1> QED  BY <1>2

(* The loops among frames, one frame after the other.                      *)
LEMMA LoopsEquation ==
  ASSUME NEW s, NEW n \in Nat
  PROVE  LoopsTo(s, n) = [d \in 0..n |-> IF d = 0 THEN << >>
                            ELSE IF s[d].kind = "loop" THEN Append(LoopsTo(s, n)[d - 1], s[d].call)
                                 ELSE LoopsTo(s, n)[d - 1]]
<1> DEFINE Next(q, d) == IF s[d].kind = "loop" THEN Append(q, s[d].call) ELSE q
           Solves(g, j) == g = [d \in 0..j |-> IF d = 0 THEN << >> ELSE Next(g[d - 1], d)]
           Unsolved == {j \in Nat : ~ \E g : Solves(g, j)}
<1>1. Solves([d \in 0..0 |-> << >>], 0)
  OBVIOUS
<1>2. ASSUME NEW j \in Nat, NEW g, Solves(g, j)
      PROVE  \E h : Solves(h, j + 1)
  <2> HIDE DEF Next
  <2> DEFINE h == [d \in 0..(j + 1) |-> IF d = j + 1 THEN Next(g[j], j + 1) ELSE g[d]]
  <2>1. ASSUME NEW d \in 0..(j + 1)
        PROVE  h[d] = IF d = 0 THEN << >> ELSE Next(h[d - 1], d)
    <3>1. CASE d = j + 1
      <4>1. h[d] = Next(g[j], j + 1)
        BY <3>1
      <4>2. h[d - 1] = g[j] /\ d # 0
        BY <3>1
      <4> QED  BY <3>1, <4>1, <4>2
    <3>2. CASE d # j + 1
      <4>1. d \in 0..j /\ h[d] = g[d]
        BY <3>2
      <4>2. d # 0 => h[d - 1] = g[d - 1]
        BY <4>1
      <4>3. g[d] = IF d = 0 THEN << >> ELSE Next(g[d - 1], d)
        BY <1>2, <4>1
      <4> QED  BY <4>1, <4>2, <4>3
    <3> QED  BY <3>1, <3>2
  <2>2. Solves(h, j + 1)
    BY <2>1
  <2> QED  BY <2>2
<1>3. \A j \in Nat : \E g : Solves(g, j)
  <2>1. SUFFICES ASSUME NEW k \in Unsolved PROVE FALSE
    OBVIOUS
  <2>2. Unsolved \subseteq Nat /\ Unsolved # {}
    BY <2>1
  <2> HIDE DEF Unsolved
  <2>3. PICK j \in Unsolved : \A y \in Unsolved : j <= y
    BY <2>2, LeastNat
  <2> USE DEF Unsolved
  <2>4. j # 0
    BY <1>1, <2>3
  <2>5. j - 1 \in Nat /\ j - 1 \notin Unsolved
    <3>1. j \in Nat /\ ~(j <= j - 1) /\ j - 1 \in Nat
      BY <2>2, <2>3, <2>4
    <3> HIDE DEF Unsolved
    <3> QED  BY <2>3, <3>1
  <2>6. PICK g : Solves(g, j - 1)
    BY <2>5
  <2>7. \E h : Solves(h, (j - 1) + 1)
    <3> HIDE DEF Solves
    <3> QED  BY <1>2, <2>5, <2>6
  <2>8. (j - 1) + 1 = j
    BY <2>3
  <2> QED  BY <2>3, <2>7, <2>8
<1> DEFINE f == CHOOSE g : Solves(g, n)
<1>4. Solves(f, n)
  BY <1>3
<1>5. LoopsTo(s, n) = f
  BY DEF LoopsTo
<1> QED  BY <1>4, <1>5

(* The equation for one of them, which is all that the proofs use.       *)
LEMMA LoopsAt ==
  ASSUME NEW s, NEW n \in Nat, NEW d \in 0..n
  PROVE  LoopsTo(s, n)[d] = IF d = 0 THEN << >>
            ELSE IF s[d].kind = "loop" THEN Append(LoopsTo(s, n)[d - 1], s[d].call)
                 ELSE LoopsTo(s, n)[d - 1]
<1>1. PICK g : g = LoopsTo(s, n)
  OBVIOUS
<1>2. g = [i \in 0..n |-> IF i = 0 THEN << >>
            ELSE IF s[i].kind = "loop" THEN Append(g[i - 1], s[i].call) ELSE g[i - 1]]
  BY <1>1, LoopsEquation
<1>3. g[d] = IF d = 0 THEN << >>
            ELSE IF s[d].kind = "loop" THEN Append(g[d - 1], s[d].call) ELSE g[d - 1]
  BY <1>2
<1> QED  BY <1>1, <1>3

(* They are those of the frames up to there, whichever come after.         *)
LEMMA LoopsAgree ==
  ASSUME NEW s, NEW t, NEW n \in Nat, NEW m \in Nat, NEW k \in Nat, k <= n, k <= m,
         \A d \in 1..k : s[d] = t[d]
  PROVE  LoopsTo(s, n)[k] = LoopsTo(t, m)[k]
<1> DEFINE Unlike == {d \in 0..k : LoopsTo(s, n)[d] # LoopsTo(t, m)[d]}
<1>1. SUFFICES ASSUME Unlike # {} PROVE FALSE
  <2>1. k \in 0..k
    OBVIOUS
  <2> QED  BY <1>1, <2>1
<1>2. Unlike \in SUBSET Nat
  OBVIOUS
<1>3. PICK d \in Unlike : \A y \in Unlike : d <= y
  <2> HIDE DEF Unlike
  <2> QED  BY <1>1, <1>2, LeastNat
<1>4. d \in 0..k /\ LoopsTo(s, n)[d] # LoopsTo(t, m)[d] /\ d \in 0..n /\ d \in 0..m
  BY <1>3
<1>5. LoopsTo(s, n)[d] = IF d = 0 THEN << >>
          ELSE IF s[d].kind = "loop" THEN Append(LoopsTo(s, n)[d - 1], s[d].call)
               ELSE LoopsTo(s, n)[d - 1]
  BY <1>4, LoopsAt
<1>6. LoopsTo(t, m)[d] = IF d = 0 THEN << >>
          ELSE IF t[d].kind = "loop" THEN Append(LoopsTo(t, m)[d - 1], t[d].call)
               ELSE LoopsTo(t, m)[d - 1]
  BY <1>4, LoopsAt
<1>7. d # 0
  BY <1>4, <1>5, <1>6
<1>8. d - 1 \in 0..k /\ d \in 1..k /\ ~(d <= d - 1)
  BY <1>4, <1>7
<1>9. LoopsTo(s, n)[d - 1] = LoopsTo(t, m)[d - 1]
  BY <1>3, <1>8
<1>10. s[d] = t[d]
  BY <1>8
<1> QED  BY <1>4, <1>5, <1>6, <1>9, <1>10

(* One more frame is one more loop, if it is that of a loop.               *)
LEMMA LoopsAppend ==
  ASSUME NEW T, NEW s \in Seq(T), NEW f \in T
  PROVE  LoopsIn(Append(s, f)) = IF f.kind = "loop" THEN Append(LoopsIn(s), f.call) ELSE LoopsIn(s)
<1>1. PICK n \in Nat : n = Len(s)
  OBVIOUS
<1>2. PICK t : t = Append(s, f)
  OBVIOUS
<1>3. Len(t) = n + 1 /\ t[n + 1] = f /\ \A d \in 1..n : t[d] = s[d]
  BY <1>1, <1>2
<1>4. LoopsTo(t, n + 1)[n + 1] = IF t[n + 1].kind = "loop" THEN Append(LoopsTo(t, n + 1)[n], t[n + 1].call)
                                 ELSE LoopsTo(t, n + 1)[n]
  <2>1. n + 1 \in Nat /\ n + 1 \in 0..(n + 1) /\ n + 1 # 0 /\ (n + 1) - 1 = n
    OBVIOUS
  <2>2. LoopsTo(t, n + 1)[n + 1] = IF n + 1 = 0 THEN << >>
          ELSE IF t[n + 1].kind = "loop" THEN Append(LoopsTo(t, n + 1)[(n + 1) - 1], t[n + 1].call)
               ELSE LoopsTo(t, n + 1)[(n + 1) - 1]
    BY <2>1, LoopsAt
  <2> QED  BY <2>1, <2>2
<1>5. LoopsTo(t, n + 1)[n] = LoopsTo(s, n)[n]
  <2>1. n + 1 \in Nat /\ n <= n /\ n <= n + 1
    OBVIOUS
  <2> QED  BY <1>3, <2>1, LoopsAgree
<1> QED  BY <1>1, <1>2, <1>3, <1>4, <1>5 DEF LoopsIn

(* They are calls.                                                         *)
LEMMA LoopsAreCalls ==
  ASSUME NEW T, NEW s \in Seq(T), \A f \in T : f.call \in Calls
  PROVE  LoopsIn(s) \in Seq(Calls)
<1>1. PICK n \in Nat : n = Len(s)
  OBVIOUS
<1> DEFINE Others == {d \in 0..n : LoopsTo(s, n)[d] \notin Seq(Calls)}
<1>2. SUFFICES ASSUME Others # {} PROVE FALSE
  <2>1. n \in 0..n
    OBVIOUS
  <2> QED  BY <1>1, <1>2, <2>1 DEF LoopsIn
<1>3. Others \in SUBSET Nat
  OBVIOUS
<1>4. PICK d \in Others : \A y \in Others : d <= y
  <2> HIDE DEF Others
  <2> QED  BY <1>2, <1>3, LeastNat
<1>5. d \in 0..n /\ LoopsTo(s, n)[d] \notin Seq(Calls)
  BY <1>4
<1>6. LoopsTo(s, n)[d] = IF d = 0 THEN << >>
          ELSE IF s[d].kind = "loop" THEN Append(LoopsTo(s, n)[d - 1], s[d].call)
               ELSE LoopsTo(s, n)[d - 1]
  BY <1>5, LoopsAt
<1>7. d # 0
  <2>1. << >> \in Seq(Calls)
    OBVIOUS
  <2> QED  BY <1>5, <1>6, <2>1
<1>8. d - 1 \in 0..n /\ d \in 1..n /\ ~(d <= d - 1)
  BY <1>5, <1>7
<1>9. LoopsTo(s, n)[d - 1] \in Seq(Calls)
  BY <1>4, <1>8
<1>10. s[d].call \in Calls
  BY <1>1, <1>8
<1>11. Append(LoopsTo(s, n)[d - 1], s[d].call) \in Seq(Calls)
  BY <1>9, <1>10
<1> QED  BY <1>5, <1>6, <1>7, <1>9, <1>11

(* A sequence is its last put at the end of the others.                    *)
LEMMA LastAppended ==
  ASSUME NEW T, NEW s \in Seq(T), s # << >>
  PROVE  s = Append(SubSeq(s, 1, Len(s) - 1), s[Len(s)])
<1>1. PICK n \in Nat : n = Len(s) /\ n > 0
  BY AllButLast
<1>2. PICK p \in Seq(T) : p = SubSeq(s, 1, Len(s) - 1) /\ Len(p) = n - 1
                        /\ \A d \in 1..(n - 1) : p[d] = s[d]
  <2>1. PICK p : p = SubSeq(s, 1, Len(s) - 1)
    OBVIOUS
  <2>2. p \in Seq(T) /\ Len(p) = Len(s) - 1 /\ \A d \in 1..(Len(s) - 1) : p[d] = s[d]
    BY <2>1, AllButLast
  <2> QED  BY <1>1, <2>1, <2>2
<1>3. s[n] \in T
  BY <1>1, AllButLast
<1>4. Append(p, s[n]) \in Seq(T) /\ Len(Append(p, s[n])) = n
      /\ \A d \in 1..n : Append(p, s[n])[d] = s[d]
  BY <1>1, <1>2, <1>3
<1>5. Append(p, s[n]) = s
  BY <1>1, <1>4
<1> QED  BY <1>1, <1>2, <1>5

-----------------------------------------------------------------------------
(* The body that is the innermost of some frames.                          *)
BodyOn(s) == IF s # << >> /\ s[Len(s)].kind = "body" THEN s[Len(s)].call ELSE NoCall

(* A frame put on others is the innermost.                                 *)
LEMMA BodyAppend ==
  ASSUME NEW T, NEW s \in Seq(T), NEW f \in T
  PROVE  BodyOn(Append(s, f)) = IF f.kind = "body" THEN f.call ELSE NoCall
<1>1. PICK n \in Nat : n = Len(s)
  OBVIOUS
<1>2. Append(s, f) # << >> /\ Len(Append(s, f)) = n + 1 /\ Append(s, f)[n + 1] = f
  BY <1>1
<1> QED  BY <1>2 DEF BodyOn

(* What a frame is that is put on others.                                  *)
LEMMA Appended ==
  ASSUME NEW T, NEW s \in Seq(T), NEW f, Append(s, f) \in Seq(T)
  PROVE  f \in T
<1>1. PICK U : U = T \cup {f}
  OBVIOUS
<1>2. s \in Seq(U) /\ f \in U
  BY <1>1
<1>3. PICK n \in Nat : n = Len(s)
  OBVIOUS
<1>4. Len(Append(s, f)) = n + 1 /\ Append(s, f)[n + 1] = f
  BY <1>2, <1>3
<1>5. n + 1 \in 1..Len(Append(s, f))
  BY <1>4
<1>6. Append(s, f)[n + 1] \in T
  BY <1>5
<1> QED  BY <1>4, <1>6

(* A stack seen from its top.                                              *)
LEMMA StackView ==
  ASSUME FJTypes, NEW w \in Crew, Busy(w)
  PROVE  /\ BelowTop(w) \in Seq(GoodFrames) /\ Top(w) \in GoodFrames
         /\ stack[w] = Append(BelowTop(w), Top(w))
         /\ BodyOn(stack[w]) = IF Top(w).kind = "body" THEN Top(w).call ELSE NoCall
         /\ LoopsIn(stack[w]) = IF Top(w).kind = "loop" THEN Append(LoopsIn(BelowTop(w)), Top(w).call)
                                ELSE LoopsIn(BelowTop(w))
<1>1. BelowTop(w) \in Seq(GoodFrames) /\ Top(w) \in GoodFrames
  BY TopFrame
<1>2. stack[w] \in Seq(GoodFrames) /\ stack[w] # << >>
  BY DEF FJTypes, Busy
<1>3. stack[w] = Append(BelowTop(w), Top(w))
  BY <1>2, LastAppended DEF BelowTop, Top
<1>4. BodyOn(Append(BelowTop(w), Top(w))) = IF Top(w).kind = "body" THEN Top(w).call ELSE NoCall
  BY <1>1, BodyAppend
<1>5. LoopsIn(Append(BelowTop(w), Top(w))) =
        IF Top(w).kind = "loop" THEN Append(LoopsIn(BelowTop(w)), Top(w).call) ELSE LoopsIn(BelowTop(w))
  BY <1>1, LoopsAppend
<1> QED  BY <1>1, <1>3, <1>4, <1>5

(* No body lies below another frame.                                       *)
LEMMA NoBodyBelow ==
  ASSUME FJInv, NEW w \in Crew, Busy(w)
  PROVE  BodyOn(BelowTop(w)) = NoCall
<1>1. FJTypes /\ Stacked
  BY DEF FJInv
<1>2. PICK n \in Nat : n = Len(stack[w]) /\ n > 0 /\ Len(BelowTop(w)) = n - 1
                       /\ \A d \in 1..(n - 1) : BelowTop(w)[d] = stack[w][d]
  <2>1. PICK n \in Nat : n = Len(stack[w])
    BY <1>1, TopFrame
  <2> QED  BY <1>1, <2>1, TopFrame
<1>6. \A i \in Nat : i > 0 => i = 1 \/ i > 1
  OBVIOUS
<1>3. CASE n = 1
  <2>1. BelowTop(w) \in Seq(GoodFrames)
    BY <1>1, TopFrame
  <2>2. BelowTop(w) = << >>
    BY <1>2, <1>3, <2>1
  <2> QED  BY <2>2 DEF BodyOn
<1>4. CASE n > 1
  <2>1. n - 1 \in 1..(n - 1) /\ BelowTop(w)[n - 1] = stack[w][n - 1]
    BY <1>2, <1>4
  <2>2. stack[w][n - 1].kind # "body"
    BY <1>1, <1>2, <2>1 DEF Stacked, Above
  <2> QED  BY <1>2, <2>1, <2>2 DEF BodyOn
<1>5. n = 1 \/ n > 1
  <2>1. n \in Nat /\ n > 0
    BY <1>2, Zenon
  <2> QED  BY <1>6, <2>1
<1> QED  BY <1>3, <1>4, <1>5

(* What the contract sees: the calls that run, the loops and the bodies.   *)
LEMMA SeenNow ==
  ASSUME FJTypes
  PROVE  /\ BodiesRun = [u \in Crew |-> BodyOn(stack[u])]
         /\ CallStatus = [c \in Calls |-> IF Running(c) THEN "running"
                                          ELSE IF c \in returned THEN "done" ELSE "open"]
<1>1. ASSUME NEW c \in Calls PROVE c \in OnStacks <=> Running(c)
  <2>1. \A w \in Crew : DOMAIN stack[w] = 1..Len(stack[w])
    BY DEF FJTypes
  <2>2. ASSUME c \in OnStacks PROVE Running(c)
    <3>1. PICK f \in Frames : f.kind # "range" /\ c = f.call
      BY <2>2 DEF OnStacks
    <3>2. PICK w \in Crew : \E d \in DOMAIN stack[w] : f = stack[w][d]
      BY DEF Frames
    <3>3. PICK d \in DOMAIN stack[w] : f = stack[w][d]
      BY <3>2
    <3> QED  BY <2>1, <3>1, <3>3 DEF Running, Names
  <2>3. ASSUME Running(c) PROVE c \in OnStacks
    <3>1. PICK w \in Crew : \E d \in 1..Len(stack[w]) : Names(stack[w][d], c)
      BY <2>3 DEF Running
    <3>2. PICK d \in DOMAIN stack[w] : Names(stack[w][d], c)
      BY <2>1, <3>1
    <3>3. stack[w][d] \in Frames
      BY <3>2 DEF Frames
    <3> QED  BY <3>2, <3>3 DEF OnStacks, Names
  <2> QED  BY <2>2, <2>3
<1>2. CallStatus = [c \in Calls |-> IF Running(c) THEN "running"
                                    ELSE IF c \in returned THEN "done" ELSE "open"]
  BY <1>1 DEF CallStatus
<1>3. BodiesRun = [u \in Crew |-> BodyOn(stack[u])]
  BY DEF BodiesRun, BodyOn, TopIs, Busy, Top
<1> QED  BY <1>2, <1>3

(* The status of a call, by whether it is on a stack or has returned.    *)
LEMMA StatusSeen ==
  FJTypes => CallStatus = [c \in Calls |-> IF Running(c) THEN "running"
                                           ELSE IF c \in returned THEN "done" ELSE "open"]
BY SeenNow

(* The same after a step, in terms of what has changed.                    *)
LEMMA SeenAfter ==
  ASSUME FJTypes, FJTypes', NEW w \in Crew, \A u \in Crew \ {w} : stack'[u] = stack[u]
  PROVE  /\ BodiesRun' = [BodiesRun EXCEPT ![w] = BodyOn(stack'[w])]
         /\ OpenLoops' = [OpenLoops EXCEPT ![w] = LoopsIn(stack'[w])]
         /\ CallStatus' = [c \in Calls |-> IF Running(c)' THEN "running"
                                           ELSE IF c \in returned' THEN "done" ELSE "open"]
<1>1. (FJTypes => CallStatus = [c \in Calls |-> IF Running(c) THEN "running"
                                          ELSE IF c \in returned THEN "done" ELSE "open"])'
  BY StatusSeen, PTL
<1>2. \A c \in Calls : \A y : y = c => (Running(y)' <=> Running(c)')
  OBVIOUS
<1>3. CallStatus' = [c \in Calls |-> IF Running(c)' THEN "running"
                                           ELSE IF c \in returned' THEN "done" ELSE "open"]
  BY <1>1 DEF Running, Names
<1>4. BodiesRun' = [u \in Crew |-> BodyOn(stack'[u])]
  BY DEF BodiesRun, BodyOn, TopIs, Busy, Top
<1>5. BodiesRun = [u \in Crew |-> BodyOn(stack[u])]
  BY SeenNow
<1>6. \A u \in Crew : u # w => BodyOn(stack'[u]) = BodyOn(stack[u]) /\ LoopsIn(stack'[u]) = LoopsIn(stack[u])
  OBVIOUS
<1>7. BodiesRun' = [BodiesRun EXCEPT ![w] = BodyOn(stack'[w])]
  BY <1>4, <1>5, <1>6
<1>8. OpenLoops' = [OpenLoops EXCEPT ![w] = LoopsIn(stack'[w])]
  BY <1>6 DEF OpenLoops
<1> QED  BY <1>3, <1>7, <1>8

-----------------------------------------------------------------------------
(* Steps that the contract does not see.                                   *)
LEMMA NothingSeen ==
  ASSUME FJTypes, FJTypes', NEW w \in Crew, \A u \in Crew \ {w} : stack'[u] = stack[u],
         BodyOn(stack'[w]) = BodyOn(stack[w]), LoopsIn(stack'[w]) = LoopsIn(stack[w]),
         returned' = returned, \A b \in Calls : Running(b)' <=> Running(b)
  PROVE  Promise!pfvars' = Promise!pfvars
<1>1. /\ BodiesRun' = [BodiesRun EXCEPT ![w] = BodyOn(stack'[w])]
      /\ OpenLoops' = [OpenLoops EXCEPT ![w] = LoopsIn(stack'[w])]
      /\ CallStatus' = [c \in Calls |-> IF Running(c)' THEN "running"
                                           ELSE IF c \in returned' THEN "done" ELSE "open"]
  BY SeenAfter
<1>2. /\ BodiesRun = [u \in Crew |-> BodyOn(stack[u])]
      /\ CallStatus = [c \in Calls |-> IF Running(c) THEN "running"
                                          ELSE IF c \in returned THEN "done" ELSE "open"]
  BY SeenNow
<1>3. BodiesRun' = BodiesRun
  BY <1>1, <1>2
<1>4. OpenLoops' = OpenLoops
  BY <1>1 DEF OpenLoops
<1>5. CallStatus' = CallStatus
  BY <1>1, <1>2
<1> QED  BY <1>3, <1>4, <1>5 DEF Promise!pfvars

(* The calls that run after the frame on top is replaced.                  *)
LEMMA NamedAfter ==
  ASSUME FJTypes, NEW w \in Crew, Busy(w), NEW new, Len(new) \in Nat,
         Becomes(w, Len(stack[w]) - 1, new)
  PROVE  /\ \A u \in Crew \ {w} : stack'[u] = stack[u]
         /\ (\A b \in Calls : (\E i \in 1..Len(new) : Names(new[i], b)) <=> Names(Top(w), b))
               => \A b \in Calls : Running(b)' <=> Running(b)
<1>1. \A u \in Crew \ {w} : stack'[u] = stack[u]
  BY DEF Becomes
<1>2. PICK m : m = Len(stack[w]) - 1
  OBVIOUS
<1>3. \A b : Running(b) <=> RunsBelow(w, m, b) \/ Names(Top(w), b)
  BY <1>2, RunningBefore
<1>4. \A b : Running(b)' <=> RunsBelow(w, m, b) \/ \E i \in 1..Len(new) : Names(new[i], b)
  BY <1>2, RunningAfter
<1> QED  BY <1>1, <1>3, <1>4

(* The frame on top has changed, or has called a range.                    *)
LEMMA SetUnseen ==
  ASSUME FJTypes, FJTypes', NEW w \in Crew, Busy(w), NEW f, NEW g,
         Set(w, f) \/ (SetAndCall(w, f, g) /\ g.kind = "range"),
         f.kind = Top(w).kind, f.call = Top(w).call, f.kind # "body", returned' = returned
  PROVE  Promise!pfvars' = Promise!pfvars
<1>1. /\ BelowTop(w) \in Seq(GoodFrames) /\ Top(w) \in GoodFrames
      /\ BodyOn(stack[w]) = NoCall
      /\ LoopsIn(stack[w]) = IF Top(w).kind = "loop" THEN Append(LoopsIn(BelowTop(w)), Top(w).call)
                             ELSE LoopsIn(BelowTop(w))
  BY StackView
<1>2. stack \in [Crew -> Seq(GoodFrames)] /\ stack'[w] \in Seq(GoodFrames)
  <2>1. stack' \in [Crew -> Seq(GoodFrames')]
    BY DEF FJTypes
  <2>2. GoodFrames' = GoodFrames
    BY DEF GoodFrames, GoodLoops, GoodRanges, GoodBodies, Whole
  <2> QED  BY <2>1, <2>2 DEF FJTypes
<1>3. CASE Set(w, f)
  <2>1. stack'[w] = Append(BelowTop(w), f)
    BY <1>2, <1>3 DEF Set
  <2>2. f \in GoodFrames
    BY <1>1, <1>2, <2>1, Appended
  <2>3. BodyOn(stack'[w]) = NoCall /\ LoopsIn(stack'[w]) = LoopsIn(stack[w])
    BY <1>1, <2>1, <2>2, BodyAppend, LoopsAppend
  <2>4. PICK new : new = << f >>
    OBVIOUS
  <2>5. Len(new) = 1 /\ Len(new) \in Nat /\ new[1] = f
    BY <2>4
  <2>6. Becomes(w, Len(stack[w]) - 1, new)
    BY <1>3, <2>2, <2>4, SetBecomes
  <2>7. \A b \in Calls : (\E i \in 1..Len(new) : Names(new[i], b)) <=> Names(Top(w), b)
    BY <2>5 DEF Names
  <2>8. /\ \A u \in Crew \ {w} : stack'[u] = stack[u]
        /\ \A b \in Calls : Running(b)' <=> Running(b)
    BY <2>5, <2>6, <2>7, NamedAfter
  <2> QED  BY <1>1, <2>3, <2>8, NothingSeen
<1>4. CASE SetAndCall(w, f, g) /\ g.kind = "range"
  <2>1. stack'[w] = Append(Append(BelowTop(w), f), g)
    BY <1>2, <1>4 DEF SetAndCall
  <2>2. f \in GoodFrames /\ g \in GoodFrames /\ Append(BelowTop(w), f) \in Seq(GoodFrames)
    <3>1. PICK U : U = GoodFrames \cup {f}
      OBVIOUS
    <3>2. BelowTop(w) \in Seq(U) /\ f \in U
      BY <1>1, <3>1
    <3>3. PICK s \in Seq(U) : s = Append(BelowTop(w), f)
      <4>1. PICK p \in Seq(U) : p = BelowTop(w)
        BY <3>2
      <4>2. Append(p, f) \in Seq(U)
        BY <3>2
      <4> QED  BY <4>1, <4>2
    <3>4. PICK V : V = U \cup {g}
      OBVIOUS
    <3>5. s \in Seq(V) /\ g \in V
      BY <3>3, <3>4
    <3>6. PICK n \in Nat : n = Len(s)
      BY <3>3
    <3>7. Len(Append(s, g)) = n + 1 /\ Append(s, g)[n + 1] = g /\ \A i \in 1..n : Append(s, g)[i] = s[i]
      BY <3>5, <3>6
    <3>8. \A i \in 1..(n + 1) : Append(s, g)[i] \in GoodFrames
      BY <1>2, <2>1, <3>3, <3>7
    <3>9. \A i \in 1..n : s[i] \in GoodFrames
      BY <3>7, <3>8
    <3>10. s \in Seq(GoodFrames)
      BY <3>3, <3>6, <3>9
    <3>11. f \in GoodFrames
      BY <1>1, <3>3, <3>10, Appended
    <3>12. g \in GoodFrames
      BY <1>2, <2>1, <3>3, <3>10, Appended
    <3> QED  BY <3>3, <3>10, <3>11, <3>12
  <2>3. BodyOn(stack'[w]) = NoCall /\ LoopsIn(stack'[w]) = LoopsIn(stack[w])
    <3>1. LoopsIn(Append(BelowTop(w), f)) = LoopsIn(stack[w])
      BY <1>1, <2>2, LoopsAppend
    <3>2. LoopsIn(stack'[w]) = LoopsIn(Append(BelowTop(w), f))
      BY <1>4, <2>1, <2>2, LoopsAppend
    <3>3. BodyOn(stack'[w]) = NoCall
      BY <1>4, <2>1, <2>2, BodyAppend
    <3> QED  BY <3>1, <3>2, <3>3
  <2>4. PICK new : new = << f, g >>
    OBVIOUS
  <2>5. Len(new) = 2 /\ Len(new) \in Nat /\ new[1] = f /\ new[2] = g
    BY <2>4
  <2>6. Becomes(w, Len(stack[w]) - 1, new)
    BY <1>4, <2>2, <2>4, CallBecomes
  <2>7. \A b \in Calls : (\E i \in 1..Len(new) : Names(new[i], b)) <=> Names(Top(w), b)
    <3>1. \A i \in 1..Len(new) : i = 1 \/ i = 2
      BY <2>5
    <3>2. 1 \in 1..Len(new)
      BY <2>5
    <3> QED  BY <1>4, <2>5, <3>1, <3>2 DEF Names
  <2>8. /\ \A u \in Crew \ {w} : stack'[u] = stack[u]
        /\ \A b \in Calls : Running(b)' <=> Running(b)
    BY <2>5, <2>6, <2>7, NamedAfter
  <2> QED  BY <1>1, <2>3, <2>8, NothingSeen
<1> QED  BY <1>3, <1>4

(* A range has returned.                                                   *)
LEMMA RangeUnseen ==
  ASSUME FJInv, FJTypes', NEW w \in Crew, Busy(w), Return(w), Top(w).kind = "range", returned' = returned
  PROVE  Promise!pfvars' = Promise!pfvars
<1>1. FJTypes
  BY DEF FJInv
<1>2. stack'[w] = BelowTop(w)
  BY <1>1 DEF Return, FJTypes
<1>3. BodyOn(stack'[w]) = BodyOn(stack[w]) /\ LoopsIn(stack'[w]) = LoopsIn(stack[w])
  BY <1>1, <1>2, StackView, NoBodyBelow
<1>4. PICK new : new = << >> /\ Len(new) = 0 /\ Len(new) \in Nat
  OBVIOUS
<1>5. Becomes(w, Len(stack[w]) - 1, new)
  BY <1>1, <1>4, ReturnBecomes
<1>6. \A b \in Calls : (\E i \in 1..Len(new) : Names(new[i], b)) <=> Names(Top(w), b)
  BY <1>4 DEF Names
<1>7. /\ \A u \in Crew \ {w} : stack'[u] = stack[u]
      /\ \A b \in Calls : Running(b)' <=> Running(b)
  BY <1>1, <1>4, <1>5, <1>6, NamedAfter
<1> QED  BY <1>1, <1>3, <1>7, NothingSeen

(* A job has been taken.                                                   *)
LEMMA TakeUnseen ==
  ASSUME ForkJoinAssumption, FJInv, FJTypes', NEW w \in Crew, NEW v \in Crew, TakeJob(w, v)
  PROVE  Promise!pfvars' = Promise!pfvars
<1>1. FJTypes
  BY DEF FJInv
<1>2. PICK g : g = JobFrame(deque[v][1])
  OBVIOUS
<1>3. /\ stack' = [stack EXCEPT ![w] = Append(@, g)] /\ returned' = returned
      /\ Busy(w) => TopIs(w, "range", "wait")
  BY <1>2, TakesFirst
<1>4. g.kind = "range"
  BY <1>2 DEF JobFrame, RangeFrame
<1>5. stack \in [Crew -> Seq(GoodFrames)] /\ stack'[w] \in Seq(GoodFrames) /\ stack'[w] = Append(stack[w], g)
  <2>1. stack' \in [Crew -> Seq(GoodFrames')]
    BY DEF FJTypes
  <2>2. GoodFrames' = GoodFrames
    BY DEF GoodFrames, GoodLoops, GoodRanges, GoodBodies, Whole
  <2>3. stack \in [Crew -> Seq(GoodFrames)]
    BY <1>1 DEF FJTypes
  <2> QED  BY <1>3, <2>1, <2>2, <2>3
<1>6. g \in GoodFrames
  BY <1>5, Appended
<1>7. BodyOn(stack'[w]) = NoCall /\ LoopsIn(stack'[w]) = LoopsIn(stack[w])
  BY <1>4, <1>5, <1>6, BodyAppend, LoopsAppend
<1>8. BodyOn(stack[w]) = NoCall
  <2>1. CASE Busy(w)
    BY <1>1, <1>3, <2>1, StackView DEF TopIs
  <2>2. CASE ~Busy(w)
    BY <2>2 DEF Busy, BodyOn
  <2> QED  BY <2>1, <2>2
<1>9. PICK new : new = << g >>
  OBVIOUS
<1>10. Len(new) = 1 /\ Len(new) \in Nat /\ new[1] = g
  BY <1>9
<1>11. PICK m : m = Len(stack[w])
  OBVIOUS
<1>12. Becomes(w, m, new)
  BY <1>1, <1>3, <1>6, <1>9, <1>11, TakeBecomes
<1>13. \A b \in Calls : Running(b)' <=> Running(b)
  <2>1. \A b : ~\E i \in 1..Len(new) : Names(new[i], b)
    BY <1>4, <1>10 DEF Names
  <2>2. \A b : Running(b)' <=> RunsBelow(w, m, b) \/ \E i \in 1..Len(new) : Names(new[i], b)
    BY <1>1, <1>10, <1>12, RunningAfter
  <2>3. \A b : Running(b) <=> RunsBelow(w, m, b)
    <3>1. \A u \in Crew : \A d \in 1..Len(stack[u]) : u = w => d <= m
      BY <1>11, <1>12 DEF Becomes
    <3> QED  BY <3>1, Zenon DEF Running, RunsBelow
  <2> QED  BY <2>1, <2>2, <2>3
<1>14. \A u \in Crew \ {w} : stack'[u] = stack[u]
  BY <1>12 DEF Becomes
<1> QED  BY <1>1, <1>3, <1>7, <1>8, <1>13, <1>14, NothingSeen

-----------------------------------------------------------------------------
(* The next index begins.                                                  *)
LEMMA IndexBegins ==
  ASSUME ForkJoinAssumption, FJInv, FJTypes', NEW w \in Crew, Index(w)
  PROVE  Promise!PFNext
<1>1. FJTypes /\ Families /\ OneHolder
  BY DEF FJInv
<1>2. PICK f : f = Top(w)
  OBVIOUS
<1>3. PICK c : c = Append(f.call, f.next)
  OBVIOUS
<1>4. PICK g : g = CallFrame(c)
  OBVIOUS
<1>5. PICK f2 : f2 = [f EXCEPT !.next = @ + 1]
  OBVIOUS
<1>6. /\ Busy(w) /\ SetAndCall(w, f2, g) /\ returned' = returned
      /\ f.kind \in {"loop", "range"}
      /\ f.at \in {"measure", "enter"} /\ f.next < f.hi
  <2>1. SetAndCall(w, f2, g) /\ returned' = returned
    BY <1>2, <1>3, <1>4, <1>5 DEF Index
  <2>2. CASE Measuring(w) /\ Top(w).next < Smaller(Top(w).upto, Top(w).hi)
    <3>1. Busy(w) /\ f.kind = "loop" /\ f.at = "measure"
      BY <1>2, <2>2 DEF Measuring, TopIs
    <3>2. f \in GoodLoops
      BY <1>1, <1>2, <3>1, TopFrame DEF GoodFrames, GoodLoops, GoodRanges, GoodBodies
    <3>3. f.next \in Nat /\ f.hi \in Nat /\ f.upto \in Nat
      BY <3>2 DEF GoodLoops
    <3>4. f.next < f.hi
      BY <1>2, <2>2, <3>3 DEF Smaller
    <3> QED  BY <2>1, <3>1, <3>4
  <2>3. CASE TopIs(w, "range", "enter") /\ Top(w).next < Top(w).hi
    BY <1>2, <2>1, <2>3 DEF TopIs
  <2> QED  BY <2>2, <2>3 DEF Index
<1>7. f \in GoodFrames /\ f.call \in Loops /\ f.next \in Nat /\ f.hi \in Nat /\ f.hi <= Size(f.call)
      /\ f.kind # "body"
  <2>1. f \in GoodFrames /\ f.kind # "body"
    BY <1>1, <1>2, <1>6, TopFrame
  <2>2. CASE f \in GoodLoops
    <3>1. f.call \in Loops /\ f.next \in Nat /\ f.hi = Size(f.call)
      BY <2>2 DEF GoodLoops
    <3>2. Size(f.call) \in Nat
      BY <3>1, CallParts
    <3> QED  BY <2>1, <3>1, <3>2
  <2>3. CASE f \in GoodRanges
    BY <2>1, <2>3 DEF GoodRanges
  <2> QED  BY <2>1, <2>2, <2>3 DEF GoodFrames, GoodBodies
<1>8. c \in Calls1 /\ c \in Calls /\ Parent(c) = f.call /\ Nth(c) = f.next /\ c # << >>
  <2>1. Size(f.call) \in Nat
    BY <1>7, CallParts
  <2>2. f.next \in 0..(Size(f.call) - 1)
    BY <1>6, <1>7, <2>1
  <2> QED  BY <1>3, <1>7, <2>2, CallParts DEF Calls1
<1>9. Owns(f, c)
  BY <1>6, <1>7, <1>8 DEF Owns
<1>10. ~Begun(c)
  BY <1>2, <1>6, <1>8, <1>9, OwnedNotBegun
<1>11. Running(f.call)
  <2>1. Active(c)
    BY <1>2, <1>6, <1>8, <1>9, TopKnown DEF Claims
  <2> QED  BY <1>1, <1>8, <2>1 DEF Families
<1>12. /\ g \in GoodFrames /\ g.call = c /\ g.kind # "range"
       /\ \A b \in Calls : Names(g, b) <=> b = c
       /\ g.kind = "loop" <=> c \in Loops
       /\ g.kind = "body" <=> c \notin Loops
  <2>1. /\ g \in GoodFrames /\ g.call = c /\ g.kind # "range"
        /\ \A b \in Calls : Names(g, b) <=> b = c
    BY <1>4, <1>8, CallHolds
  <2> QED  BY <1>4, <2>1 DEF CallFrame, LoopFrame, BodyFrame
<1>13. f2.kind = f.kind /\ f2.call = f.call /\ (\A b \in Calls : Names(f2, b) <=> Names(f, b))
  <2>1. f2.kind = f.kind /\ f2.call = f.call
    <3>1. CASE f \in GoodLoops
      BY <1>5, <3>1 DEF GoodLoops
    <3>2. CASE f \in GoodRanges
      BY <1>5, <3>2 DEF GoodRanges
    <3> QED  BY <1>7, <3>1, <3>2 DEF GoodFrames, GoodBodies
  <2> QED  BY <2>1 DEF Names
<1>14. /\ BelowTop(w) \in Seq(GoodFrames) /\ f \in GoodFrames
       /\ BodyOn(stack[w]) = NoCall
       /\ LoopsIn(stack[w]) = IF f.kind = "loop" THEN Append(LoopsIn(BelowTop(w)), f.call)
                              ELSE LoopsIn(BelowTop(w))
  BY <1>1, <1>2, <1>6, <1>7, StackView
<1>15. stack'[w] = Append(Append(BelowTop(w), f2), g) /\ f2 \in GoodFrames
  <2>1. stack \in [Crew -> Seq(GoodFrames)]
    BY <1>1 DEF FJTypes
  <2>2. stack'[w] = Append(Append(BelowTop(w), f2), g)
    BY <1>6, <2>1 DEF SetAndCall
  <2>3. stack' \in [Crew -> Seq(GoodFrames')]
    BY DEF FJTypes
  <2>4. GoodFrames' = GoodFrames
    BY DEF GoodFrames, GoodLoops, GoodRanges, GoodBodies, Whole
  <2>5. PICK U : U = GoodFrames \cup {f2}
    OBVIOUS
  <2>6. BelowTop(w) \in Seq(U) /\ f2 \in U /\ g \in U
    BY <1>12, <1>14, <2>5
  <2>7. PICK s \in Seq(U) : s = Append(BelowTop(w), f2)
    <3>1. PICK p \in Seq(U) : p = BelowTop(w)
      BY <2>6
    <3>2. Append(p, f2) \in Seq(U)
      BY <2>6
    <3> QED  BY <3>1, <3>2
  <2>8. PICK n \in Nat : n = Len(s)
    BY <2>7
  <2>9. Append(s, g) \in Seq(GoodFrames)
    BY <2>2, <2>3, <2>4, <2>7
  <2>10. Len(Append(s, g)) = n + 1 /\ \A i \in 1..n : Append(s, g)[i] = s[i]
    BY <2>6, <2>7, <2>8
  <2>11. \A i \in 1..(n + 1) : Append(s, g)[i] \in GoodFrames
    BY <2>9, <2>10
  <2>12. \A i \in 1..n : s[i] \in GoodFrames
    BY <2>10, <2>11
  <2>13. s \in Seq(GoodFrames)
    BY <2>7, <2>8, <2>12
  <2>14. f2 \in GoodFrames
    BY <1>14, <2>7, <2>13, Appended
  <2> QED  BY <2>2, <2>14
<1>16. /\ LoopsIn(stack'[w]) = IF c \in Loops THEN Append(LoopsIn(stack[w]), c) ELSE LoopsIn(stack[w])
       /\ BodyOn(stack'[w]) = IF c \in Loops THEN NoCall ELSE c
  <2>1. PICK s \in Seq(GoodFrames) : s = Append(BelowTop(w), f2)
    <3>1. PICK p \in Seq(GoodFrames) : p = BelowTop(w)
      BY <1>14
    <3>2. Append(p, f2) \in Seq(GoodFrames)
      BY <1>15
    <3> QED  BY <3>1, <3>2
  <2>2. LoopsIn(s) = LoopsIn(stack[w])
    BY <1>13, <1>14, <1>15, <2>1, LoopsAppend
  <2>3. LoopsIn(Append(s, g)) = IF g.kind = "loop" THEN Append(LoopsIn(s), g.call) ELSE LoopsIn(s)
    BY <1>12, LoopsAppend
  <2>4. BodyOn(Append(s, g)) = IF g.kind = "body" THEN g.call ELSE NoCall
    BY <1>12, BodyAppend
  <2> QED  BY <1>12, <1>15, <2>1, <2>2, <2>3, <2>4
<1>17. PICK new : new = << f2, g >>
  OBVIOUS
<1>18. /\ Len(new) = 2 /\ Len(new) \in Nat /\ new[1] = f2 /\ new[2] = g
       /\ \A i \in 1..Len(new) : i = 1 \/ i = 2
       /\ 1 \in 1..Len(new) /\ 2 \in 1..Len(new)
  BY <1>17
<1>19. PICK m : m = Len(stack[w]) - 1
  OBVIOUS
<1>20. Becomes(w, m, new)
  BY <1>1, <1>6, <1>12, <1>15, <1>17, <1>19, CallBecomes
<1>21. \A b \in Calls : Running(b)' <=> Running(b) \/ b = c
  <2>1. \A b : Running(b) <=> RunsBelow(w, m, b) \/ Names(f, b)
    BY <1>1, <1>2, <1>6, <1>19, RunningBefore
  <2>2. \A b : Running(b)' <=> RunsBelow(w, m, b) \/ \E i \in 1..Len(new) : Names(new[i], b)
    BY <1>1, <1>18, <1>20, RunningAfter
  <2>3. \A b \in Calls : (\E i \in 1..Len(new) : Names(new[i], b)) <=> Names(f, b) \/ b = c
    BY <1>12, <1>13, <1>18
  <2> QED  BY <2>1, <2>2, <2>3
<1>22. \A u \in Crew \ {w} : stack'[u] = stack[u]
  BY <1>20 DEF Becomes
<1>23. /\ BodiesRun' = [BodiesRun EXCEPT ![w] = BodyOn(stack'[w])]
       /\ OpenLoops' = [OpenLoops EXCEPT ![w] = LoopsIn(stack'[w])]
       /\ CallStatus' = [b \in Calls |-> IF Running(b)' THEN "running"
                                           ELSE IF b \in returned' THEN "done" ELSE "open"]
  BY <1>1, <1>22, SeenAfter
<1>24. /\ BodiesRun = [u \in Crew |-> BodyOn(stack[u])]
       /\ CallStatus = [b \in Calls |-> IF Running(b) THEN "running"
                                          ELSE IF b \in returned THEN "done" ELSE "open"]
  BY <1>1, SeenNow
<1>25. CallStatus' = [CallStatus EXCEPT ![c] = "running"]
  BY <1>6, <1>21, <1>23, <1>24
<1>26. CallStatus[c] = "open" /\ CallStatus[Parent(c)] = "running" /\ BodiesRun[w] = NoCall
  <2>1. f.call \in Calls
    BY <1>7, CallParts
  <2>2. CallStatus[c] = "open"
    BY <1>8, <1>10, <1>24 DEF Begun
  <2>3. CallStatus[f.call] = "running"
    BY <1>11, <1>24, <2>1
  <2>4. BodiesRun[w] = NoCall
    BY <1>14, <1>24
  <2> QED  BY <1>8, <2>2, <2>3, <2>4
<1>27. c \in Loops => /\ OpenLoops' = [OpenLoops EXCEPT ![w] = Append(@, c)]
                      /\ BodiesRun' = BodiesRun
  BY <1>14, <1>16, <1>23, <1>24 DEF OpenLoops
<1>28. c \notin Loops => /\ BodiesRun' = [BodiesRun EXCEPT ![w] = c]
                         /\ OpenLoops' = OpenLoops
  BY <1>16, <1>23 DEF OpenLoops
<1>29. Promise!Begin(w, c)
  BY <1>8, <1>25, <1>26, <1>27, <1>28 DEF Promise!Begin, Promise!Parent, Promise!Loops, Parent, Loops
<1> QED  BY <1>8, <1>29 DEF Promise!PFNext

(* A body has returned.                                                    *)
LEMMA BodyFinishes ==
  ASSUME ForkJoinAssumption, FJInv, FJTypes', NEW w \in Crew, BodyReturns(w)
  PROVE  Promise!PFNext
<1>1. FJTypes /\ Families /\ OneHolder
  BY DEF FJInv
<1>2. PICK f : f = Top(w)
  OBVIOUS
<1>3. /\ Busy(w) /\ Return(w) /\ returned' = returned \cup {f.call} /\ f.kind = "body"
  BY <1>2 DEF BodyReturns, TopIs
<1>4. /\ f \in GoodFrames /\ f.call \in Calls /\ Claims(f, f.call)
  BY <1>2, <1>3, TopKnown DEF Claims, Names
<1>5. /\ stack'[w] = BelowTop(w) /\ BodyOn(stack'[w]) = NoCall
      /\ LoopsIn(stack'[w]) = LoopsIn(stack[w]) /\ BodyOn(stack[w]) = f.call
  <2>1. stack'[w] = BelowTop(w)
    BY <1>1, <1>3 DEF Return, FJTypes
  <2> QED  BY <1>1, <1>2, <1>3, <2>1, StackView, NoBodyBelow
<1>6. PICK new : new = << >> /\ Len(new) = 0 /\ Len(new) \in Nat
  OBVIOUS
<1>7. PICK m : m = Len(stack[w]) - 1
  OBVIOUS
<1>8. Becomes(w, m, new)
  BY <1>1, <1>3, <1>6, <1>7, ReturnBecomes
<1>9. \A b \in Calls : Running(b)' <=> Running(b) /\ b # f.call
  <2>1. \A b : Running(b) <=> RunsBelow(w, m, b) \/ Names(f, b)
    BY <1>1, <1>2, <1>3, <1>7, RunningBefore
  <2>2. \A b : Running(b)' <=> RunsBelow(w, m, b) \/ \E i \in 1..Len(new) : Names(new[i], b)
    BY <1>1, <1>6, <1>8, RunningAfter
  <2>3. \A b : ~\E i \in 1..Len(new) : Names(new[i], b)
    BY <1>6
  <2>4. \A b : Names(f, b) <=> b = f.call
    BY <1>3 DEF Names
  <2>5. ~RunsBelow(w, m, f.call)
    <3>1. ~HeldBelow(w, m, f.call)
      BY <1>1, <1>2, <1>3, <1>4, <1>7, TopApart DEF OneHolder
    <3> QED  BY <3>1 DEF HeldBelow, RunsBelow, Claims
  <2> QED  BY <2>1, <2>2, <2>3, <2>4, <2>5
<1>10. \A u \in Crew \ {w} : stack'[u] = stack[u]
  BY <1>8 DEF Becomes
<1>11. /\ BodiesRun' = [BodiesRun EXCEPT ![w] = BodyOn(stack'[w])]
       /\ OpenLoops' = [OpenLoops EXCEPT ![w] = LoopsIn(stack'[w])]
       /\ CallStatus' = [b \in Calls |-> IF Running(b)' THEN "running"
                                           ELSE IF b \in returned' THEN "done" ELSE "open"]
  BY <1>1, <1>10, SeenAfter
<1>12. /\ BodiesRun = [u \in Crew |-> BodyOn(stack[u])]
       /\ CallStatus = [b \in Calls |-> IF Running(b) THEN "running"
                                          ELSE IF b \in returned THEN "done" ELSE "open"]
  BY <1>1, SeenNow
<1>13. BodiesRun[w] = f.call /\ f.call # NoCall
  BY <1>4, <1>5, <1>12 DEF ForkJoinAssumption
<1>14. CallStatus' = [CallStatus EXCEPT ![f.call] = "done"]
  BY <1>3, <1>9, <1>11, <1>12
<1>15. OpenLoops' = OpenLoops
  BY <1>5, <1>11 DEF OpenLoops
<1>16. BodiesRun' = [BodiesRun EXCEPT ![w] = NoCall]
  BY <1>5, <1>11
<1>17. Promise!Finish(w)
  BY <1>13, <1>14, <1>15, <1>16 DEF Promise!Finish
<1> QED  BY <1>17 DEF Promise!PFNext

(* A loop has returned.                                                    *)
LEMMA LoopJoins ==
  ASSUME ForkJoinAssumption, FJInv, FJTypes', NEW w \in Crew, LoopReturns(w)
  PROVE  Promise!PFNext
<1>1. FJTypes /\ Families /\ OneHolder /\ NoneLost
  BY DEF FJInv
<1>2. PICK f : f = Top(w)
  OBVIOUS
<1>3. /\ Busy(w) /\ Return(w) /\ returned' = returned \cup {f.call} /\ f.kind = "loop" /\ f.at = "split"
  BY <1>2 DEF LoopReturns, TopIs
<1>4. /\ f \in GoodFrames /\ f.call \in Calls /\ Claims(f, f.call) /\ Clean(f, TRUE) /\ Begun(f.call)
  BY <1>2, <1>3, TopKnown DEF Claims, Names
<1>5. f.call \in Loops /\ f.hi = Size(f.call)
  BY <1>3, <1>4 DEF GoodFrames, GoodLoops, GoodRanges, GoodBodies
<1>6. PICK s : s = LoopsIn(BelowTop(w))
  OBVIOUS
<1>7. /\ stack'[w] = BelowTop(w) /\ BodyOn(stack'[w]) = NoCall /\ BodyOn(stack[w]) = NoCall
      /\ LoopsIn(stack'[w]) = s /\ LoopsIn(stack[w]) = Append(s, f.call) /\ s \in Seq(Calls)
  <2>1. stack'[w] = BelowTop(w)
    BY <1>1, <1>3 DEF Return, FJTypes
  <2>2. BelowTop(w) \in Seq(GoodFrames)
    BY <1>1, <1>3, TopFrame
  <2>3. \A e \in GoodFrames : e.call \in Calls
    <3>1. Loops \subseteq Calls
      BY DEF Loops
    <3> QED  BY <3>1 DEF GoodFrames, GoodLoops, GoodRanges, GoodBodies
  <2>4. s \in Seq(Calls)
    BY <1>6, <2>2, <2>3, LoopsAreCalls
  <2> QED  BY <1>1, <1>2, <1>3, <1>6, <2>1, <2>4, StackView, NoBodyBelow
<1>8. PICK new : new = << >> /\ Len(new) = 0 /\ Len(new) \in Nat
  OBVIOUS
<1>9. PICK m : m = Len(stack[w]) - 1
  OBVIOUS
<1>10. Becomes(w, m, new)
  BY <1>1, <1>3, <1>8, <1>9, ReturnBecomes
<1>11. \A b \in Calls : Running(b)' <=> Running(b) /\ b # f.call
  <2>1. \A b : Running(b) <=> RunsBelow(w, m, b) \/ Names(f, b)
    BY <1>1, <1>2, <1>3, <1>9, RunningBefore
  <2>2. \A b : Running(b)' <=> RunsBelow(w, m, b) \/ \E i \in 1..Len(new) : Names(new[i], b)
    BY <1>1, <1>8, <1>10, RunningAfter
  <2>3. \A b : ~\E i \in 1..Len(new) : Names(new[i], b)
    BY <1>8
  <2>4. \A b : Names(f, b) <=> b = f.call
    BY <1>3 DEF Names
  <2>5. ~RunsBelow(w, m, f.call)
    <3>1. ~HeldBelow(w, m, f.call)
      BY <1>1, <1>2, <1>3, <1>4, <1>9, TopApart DEF OneHolder
    <3> QED  BY <3>1 DEF HeldBelow, RunsBelow, Claims
  <2> QED  BY <2>1, <2>2, <2>3, <2>4, <2>5
<1>12. \A u \in Crew \ {w} : stack'[u] = stack[u]
  BY <1>10 DEF Becomes
<1>13. /\ BodiesRun' = [BodiesRun EXCEPT ![w] = BodyOn(stack'[w])]
       /\ OpenLoops' = [OpenLoops EXCEPT ![w] = LoopsIn(stack'[w])]
       /\ CallStatus' = [b \in Calls |-> IF Running(b)' THEN "running"
                                           ELSE IF b \in returned' THEN "done" ELSE "open"]
  BY <1>1, <1>12, SeenAfter
<1>14. /\ BodiesRun = [u \in Crew |-> BodyOn(stack[u])]
       /\ CallStatus = [b \in Calls |-> IF Running(b) THEN "running"
                                          ELSE IF b \in returned THEN "done" ELSE "open"]
  BY <1>1, SeenNow
<1>15. /\ OpenLoops[w] = Append(s, f.call) /\ OpenLoops[w] # << >>
       /\ OpenLoops[w][Len(OpenLoops[w])] = f.call
       /\ SubSeq(OpenLoops[w], 1, Len(OpenLoops[w]) - 1) = s
  <2>1. OpenLoops[w] = Append(s, f.call)
    BY <1>7 DEF OpenLoops
  <2>2. PICK n \in Nat : n = Len(s)
    BY <1>7
  <2>3. PICK q \in Seq(Calls) : q = Append(s, f.call)
    BY <1>4, <1>7
  <2>4. Len(q) = n + 1 /\ q[n + 1] = f.call /\ q # << >> /\ \A d \in 1..n : q[d] = s[d]
    BY <1>4, <1>7, <2>2, <2>3
  <2>5. PICK r \in Seq(Calls) : r = SubSeq(q, 1, Len(q) - 1) /\ Len(r) = Len(q) - 1
                                /\ \A d \in 1..(Len(q) - 1) : r[d] = q[d]
    <3>1. PICK r : r = SubSeq(q, 1, Len(q) - 1)
      OBVIOUS
    <3>2. r \in Seq(Calls) /\ Len(r) = Len(q) - 1 /\ \A d \in 1..(Len(q) - 1) : r[d] = q[d]
      BY <2>4, <3>1, AllButLast
    <3> QED  BY <3>1, <3>2
  <2>6. Len(r) = n /\ \A d \in 1..n : r[d] = s[d]
    BY <2>4, <2>5
  <2>7. r = s
    BY <1>7, <2>2, <2>5, <2>6
  <2> QED  BY <2>1, <2>3, <2>4, <2>5, <2>7
<1>16. \A b \in Children(f.call) : CallStatus[b] = "done"
  <2>1. SUFFICES ASSUME NEW b \in Children(f.call) PROVE CallStatus[b] = "done"
    OBVIOUS
  <2>2. b \in Calls1 /\ b \in Calls /\ Parent(b) = f.call
    BY DEF Children, Calls1
  <2>3. 0 <= Nth(b) /\ Nth(b) < f.hi
    <3>1. Nth(b) \in 0..(Size(f.call) - 1) /\ Size(f.call) \in Nat
      BY <1>5, <2>2, CallParts
    <3> QED  BY <1>5, <3>1
  <2>4. Silent(f.call, 0, f.hi)
    BY <1>3, <1>4 DEF Clean, Is
  <2>5. ~Active(b)
    BY <2>2, <2>3, <2>4 DEF Silent
  <2>6. b \in returned
    BY <1>1, <1>4, <2>2, <2>5 DEF NoneLost
  <2>7. ~Running(b)
    BY <2>5 DEF Active, HeldOnStacks, Running, Claims
  <2> QED  BY <1>14, <2>2, <2>6, <2>7
<1>17. CallStatus' = [CallStatus EXCEPT ![f.call] = "done"]
  BY <1>3, <1>11, <1>13, <1>14
<1>18. OpenLoops' = [OpenLoops EXCEPT ![w] = SubSeq(@, 1, Len(@) - 1)]
  BY <1>7, <1>13, <1>15
<1>19. BodiesRun' = BodiesRun /\ BodiesRun[w] = NoCall
  BY <1>7, <1>13, <1>14
<1>20. Promise!Innermost(w) = f.call /\ Promise!Children(f.call) = Children(f.call)
  BY <1>15 DEF Promise!Innermost, Promise!Children, Children, Promise!Parent, Parent
<1>21. Promise!Join(w)
  BY <1>15, <1>16, <1>17, <1>18, <1>19, <1>20 DEF Promise!Join
<1> QED  BY <1>21 DEF Promise!PFNext

(* Every step is a step of the contract or one that it does not see.       *)
LEMMA FJKeepsPromise ==
  ASSUME ForkJoinAssumption, FJInv, FJInv', [FJNext]_fj_vars
  PROVE  Promised
<1>1. FJTypes /\ FJTypes'
  BY DEF FJInv
<1>2. CASE UNCHANGED fj_vars \/ LoopOver
  <2>1. stack' = stack /\ returned' = returned
    BY <1>2 DEF fj_vars, LoopOver
  <2>2. Promise!pfvars' = Promise!pfvars
    BY <2>1 DEF Promise!pfvars, CallStatus, OpenLoops, BodiesRun, OnStacks, Frames, TopIs, Busy, Top
  <2> QED  BY <2>2 DEF Promised
<1>3. ASSUME NEW w \in Crew, Index(w) PROVE Promised
  BY <1>1, <1>3, IndexBegins DEF Promised
<1>4. ASSUME NEW w \in Crew, BodyReturns(w) PROVE Promised
  BY <1>1, <1>4, BodyFinishes DEF Promised
<1>5. ASSUME NEW w \in Crew, LoopReturns(w) PROVE Promised
  BY <1>1, <1>5, LoopJoins DEF Promised
<1>6. ASSUME NEW w \in Crew, Batch(w) \/ Measured(w) \/ Given(w) \/ Fork(w) \/ Pop(w) PROVE Promised
  <2>1. /\ Busy(w) /\ Top(w).kind # "body" /\ Top(w) \in GoodFrames /\ returned' = returned
    <3>1. Busy(w) /\ Top(w).kind # "body"
      BY <1>6 DEF Batch, Measured, Given, Fork, Pop, Measuring, TopIs
    <3>2. returned' = returned
      BY <1>6 DEF Batch, Measured, Given, Fork, Pop
    <3> QED  BY <1>1, <3>1, <3>2, TopFrame
  <2>2. \A x : /\ [Top(w) EXCEPT !.at = x].kind = Top(w).kind
               /\ [Top(w) EXCEPT !.at = x].call = Top(w).call
               /\ [Top(w) EXCEPT !.upto = x].kind = Top(w).kind
               /\ [Top(w) EXCEPT !.upto = x].call = Top(w).call
    <3>1. PICK f : f = Top(w)
      OBVIOUS
    <3>2. CASE f \in GoodLoops
      BY <3>1, <3>2 DEF GoodLoops
    <3>3. CASE f \in GoodRanges
      BY <3>1, <3>3 DEF GoodRanges
    <3> QED  BY <2>1, <3>1, <3>2, <3>3 DEF GoodFrames, GoodBodies
  <2>3. \A c, lo, hi, g, j : RangeFrame(c, lo, hi, g, j).kind = "range"
    BY DEF RangeFrame
  <2>4. \E f, g : /\ Set(w, f) \/ (SetAndCall(w, f, g) /\ g.kind = "range")
                  /\ f.kind = Top(w).kind /\ f.call = Top(w).call
    <3>1. ASSUME NEW x, Set(w, [Top(w) EXCEPT !.at = x])
          PROVE  \E f, g : /\ Set(w, f) \/ (SetAndCall(w, f, g) /\ g.kind = "range")
                          /\ f.kind = Top(w).kind /\ f.call = Top(w).call
      <4>1. PICK f : f = [Top(w) EXCEPT !.at = x]
        OBVIOUS
      <4> QED  BY <2>2, <3>1, <4>1
    <3>2. ASSUME NEW x, NEW c, NEW lo, NEW hi, NEW a, NEW j,
                 SetAndCall(w, [Top(w) EXCEPT !.at = x], RangeFrame(c, lo, hi, a, j))
          PROVE  \E f, g : /\ Set(w, f) \/ (SetAndCall(w, f, g) /\ g.kind = "range")
                          /\ f.kind = Top(w).kind /\ f.call = Top(w).call
      <4>1. PICK f : f = [Top(w) EXCEPT !.at = x]
        OBVIOUS
      <4>2. PICK g : g = RangeFrame(c, lo, hi, a, j)
        OBVIOUS
      <4>3. g.kind = "range" /\ f.kind = Top(w).kind /\ f.call = Top(w).call
        BY <2>2, <2>3, <4>1, <4>2
      <4> QED  BY <3>2, <4>1, <4>2, <4>3
    <3>3. CASE Batch(w)
      <4>1. PICK f : f = [Top(w) EXCEPT !.upto = 2 * @ + 1]
        OBVIOUS
      <4>2. Set(w, f)
        BY <3>3, <4>1 DEF Batch
      <4>3. \A x : f = [Top(w) EXCEPT !.upto = x] => f.kind = Top(w).kind /\ f.call = Top(w).call
        BY <2>2
      <4>4. f.kind = Top(w).kind /\ f.call = Top(w).call
        BY <4>1, <4>3
      <4> QED  BY <4>2, <4>4
    <3>4. CASE Measured(w)
      <4>1. SetAndCall(w, [Top(w) EXCEPT !.at = "split"],
                       RangeFrame(Top(w).call, Top(w).next, Top(w).hi,
                                  Larger(Top(w).next, Top(w).hi \div Chunks), FALSE))
        BY <3>4 DEF Measured
      <4> QED  BY <3>2, <4>1
    <3>5. CASE Given(w)
      <4>1. SetAndCall(w, [Top(w) EXCEPT !.at = "split"],
                       RangeFrame(Top(w).call, 0, Top(w).hi, granularity, FALSE))
        BY <3>5 DEF Given
      <4> QED  BY <3>2, <4>1
    <3>6. CASE Fork(w)
      <4>1. SetAndCall(w, [Top(w) EXCEPT !.at = "left"],
                       RangeFrame(Top(w).call, Top(w).lo, Mid(Top(w).lo, Top(w).hi), Top(w).gran, FALSE))
        BY <3>6 DEF Fork
      <4> QED  BY <3>2, <4>1
    <3>7. CASE Pop(w)
      <4>1. \/ SetAndCall(w, [Top(w) EXCEPT !.at = "right"],
                       RangeFrame(Top(w).call, Mid(Top(w).lo, Top(w).hi), Top(w).hi, Top(w).gran, FALSE))
            \/ Set(w, [Top(w) EXCEPT !.at = "wait"])
        BY <3>7 DEF Pop
      <4> QED  BY <3>1, <3>2, <4>1
    <3> QED  BY <1>6, <3>3, <3>4, <3>5, <3>6, <3>7
  <2>5. PICK f, g : /\ Set(w, f) \/ (SetAndCall(w, f, g) /\ g.kind = "range")
                    /\ f.kind = Top(w).kind /\ f.call = Top(w).call
    BY <2>4
  <2> QED  BY <1>1, <2>1, <2>5, SetUnseen DEF Promised
<1>7. ASSUME NEW w \in Crew, RangeReturns(w) PROVE Promised
  <2>1. Busy(w) /\ Return(w) /\ Top(w).kind = "range" /\ returned' = returned
    BY <1>7 DEF RangeReturns, HalvesDone, TopIs
  <2> QED  BY <1>1, <2>1, RangeUnseen DEF Promised
<1>8. ASSUME NEW w \in Crew, NEW v \in Crew, TakeJob(w, v) PROVE Promised
  BY <1>1, <1>8, TakeUnseen DEF Promised
<1> QED  BY <1>2, <1>3, <1>4, <1>5, <1>6, <1>7, <1>8 DEF FJNext

(* The contract begins as parlay does.                                     *)
LEMMA FJStartsPromise ==
  ASSUME ForkJoinAssumption, FJInit
  PROVE  Promise!PFInit
<1>1. FJInv /\ FJTypes
  BY FJStarts DEF FJInv
<1>2. main \in Crew /\ << >> \in Calls /\ << >> \in Loops
  <2>1. << >> \in Calls /\ Depth \in Nat \ {0} /\ Len(<< >>) = 0 /\ main \in Crew
    BY DEF ForkJoinAssumption
  <2> QED  BY <2>1 DEF Loops
<1>3. PICK g : g = LoopFrame(<< >>)
  OBVIOUS
<1>4. g.kind = "loop" /\ g.call = << >>
  BY <1>3 DEF LoopFrame
<1>5. stack = [w \in Crew |-> IF w = main THEN << g >> ELSE << >>] /\ returned = {}
  BY <1>3 DEF FJInit
<1>6. \A u \in Crew : stack[u] = IF u = main THEN << g >> ELSE << >>
  BY <1>5
<1>7. stack[main] = << g >> /\ g \in GoodFrames
  <2>1. stack[main] = << g >>
    BY <1>2, <1>6
  <2>2. stack[main] \in Seq(GoodFrames)
    BY <1>1, <1>2 DEF FJTypes
  <2>3. Len(<< g >>) = 1 /\ << g >>[1] = g
    OBVIOUS
  <2>4. 1 \in 1..Len(stack[main])
    BY <2>1, <2>3
  <2> QED  BY <2>1, <2>2, <2>3, <2>4
<1>8. LoopsIn(<< >>) = << >>
  <2>1. Len(<< >>) = 0 /\ 0 \in 0..0
    OBVIOUS
  <2> QED  BY <2>1, LoopsAt DEF LoopsIn
<1>9. LoopsIn(<< g >>) = << << >> >> /\ BodyOn(<< g >>) = NoCall /\ BodyOn(<< >>) = NoCall
  <2>1. << >> \in Seq(GoodFrames) /\ << g >> = Append(<< >>, g)
    OBVIOUS
  <2>2. LoopsIn(Append(<< >>, g)) = Append(<< >>, << >>)
    BY <1>4, <1>7, <1>8, <2>1, LoopsAppend
  <2>3. Append(<< >>, << >>) = << << >> >>
    OBVIOUS
  <2>4. BodyOn(Append(<< >>, g)) = NoCall
    BY <1>4, <1>7, <2>1, BodyAppend
  <2>5. BodyOn(<< >>) = NoCall
    BY DEF BodyOn
  <2> QED  BY <2>1, <2>2, <2>3, <2>4, <2>5
<1>10. BodiesRun = [w \in Crew |-> NoCall]
  <2>1. BodiesRun = [u \in Crew |-> BodyOn(stack[u])]
    BY <1>1, SeenNow
  <2> QED  BY <1>6, <1>9, <2>1
<1>11. OpenLoops = [w \in Crew |-> IF w = main THEN << << >> >> ELSE << >>]
  BY <1>6, <1>8, <1>9 DEF OpenLoops
<1>12. CallStatus = [c \in Calls |-> IF c = << >> THEN "running" ELSE "open"]
  <2>1. CallStatus = [c \in Calls |-> IF Running(c) THEN "running"
                                          ELSE IF c \in returned THEN "done" ELSE "open"]
    BY <1>1, SeenNow
  <2>2. ASSUME NEW c \in Calls PROVE Running(c) <=> c = << >>
    <3>1. Len(<< g >>) = 1 /\ << g >>[1] = g /\ Len(<< >>) = 0
      OBVIOUS
    <3>2. \A u \in Crew : u # main => \A d \in 1..Len(stack[u]) : FALSE
      BY <1>6, <3>1
    <3>3. \A d \in 1..Len(stack[main]) : stack[main][d] = g
      BY <1>7, <3>1
    <3>4. 1 \in 1..Len(stack[main])
      BY <1>7, <3>1
    <3>5. Names(g, c) <=> c = << >>
      BY <1>4 DEF Names
    <3> QED  BY <1>2, <3>2, <3>3, <3>4, <3>5 DEF Running
  <2> QED  BY <1>5, <2>1, <2>2
<1> QED  BY <1>10, <1>11, <1>12 DEF Promise!PFInit
-----------------------------------------------------------------------------
(* FJInv holds in every state.                                             *)
LEMMA LoopInvariant ==
  ASSUME ForkJoinAssumption
  PROVE  FJSpec => []FJInv
<1>1. FJInit => FJInv
  BY FJStarts
<1>2. FJInv /\ [FJNext]_fj_vars => FJInv'
  BY FJKeeps
<1> QED  BY <1>1, <1>2, PTL DEF FJSpec

(* Frames, jobs and arguments have their types, and a range never ends     *)
(* before it begins.                                                       *)
THEOREM LoopsTyped ==
  ASSUME ForkJoinAssumption
  PROVE  FJSpec => []FJTypeOK
<1>1. FJInv => FJTypeOK
  BY FJTyped
<1> QED  BY <1>1, LoopInvariant, PTL

(* The assertion of pardo: the job that a worker pops after its left half  *)
(* is its own right half, whatever was stolen meanwhile; and its deque is  *)
(* empty while it waits, so that it steals nothing of its own.             *)
THEOREM PopsOwnHalf ==
  ASSUME ForkJoinAssumption
  PROVE  FJSpec => []PopsRight
<1>1. FJInv => PopsRight
  BY PopsIsRight
<1> QED  BY <1>1, LoopInvariant, PTL

(* The assertion of WorkStealingJob, and what lets it live on the stack of *)
(* the worker that forked it: what waits in a deque or runs as a job is    *)
(* not done, and its pardo has not returned.                               *)
THEOREM JobsOutlived ==
  ASSUME ForkJoinAssumption
  PROVE  FJSpec => []JobsAlive
<1>1. FJInv => JobsAlive
  BY JobsLive
<1> QED  BY <1>1, LoopInvariant, PTL

(* parallel_for over the deques of jobs implements ParallelFor: every      *)
(* index begins once, while its loop runs, and a loop returns only when    *)
(* all its indices have.                                                   *)
THEOREM LoopsKeepPromise ==
  ASSUME ForkJoinAssumption
  PROVE  FJSpec => Promise!PFInit /\ [][Promised]_fj_vars
<1>1. FJInit => Promise!PFInit
  BY FJStartsPromise
<1>2. FJInv /\ FJInv' /\ [FJNext]_fj_vars => [Promised]_fj_vars
  BY FJKeepsPromise
<1> QED  BY <1>1, <1>2, LoopInvariant, PTL DEF FJSpec
=============================================================================
