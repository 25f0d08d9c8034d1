---------------------------- MODULE HazptrStack -----------------------------
(***************************************************************************)
(* parlay's lock-free stack (hazptr_stack.h) and the hazard pointers that  *)
(* keep its nodes from being freed while a thread reads them               *)
(* (acquire_retire.h).  A step is one access to memory that other threads  *)
(* use.  The addresses of freed nodes are given out again, so a head may   *)
(* be the same pointer and another node.                                   *)
(***************************************************************************)
EXTENDS Integers, Sequences, FiniteSets

CONSTANTS
  num_users,        (* get_num_threads()                                   *)
  Elements, None,
  Addresses,        (* where nodes may lie                                 *)
  Filled,           (* the lengths the stack may have at first             *)
  StackCalls,       (* how many calls each thread makes                    *)
  threshold         (* retired nodes before a thread tries to free them    *)

Users == 1..num_users
Nodes == [ t : Elements, next : Addresses \cup {None}, length : Nat ]

ASSUME HazptrStackAssumption ==
  /\ num_users \in Nat \ {0} /\ threshold \in Nat \ {0}
  /\ Filled \subseteq Nat /\ \A n \in Filled : 1..n \subseteq Addresses
  /\ StackCalls \in [Users -> Nat]
  /\ None \notin Addresses \cup Nodes

VARIABLES
  node,             (* the Node at an address, or None                     *)
  head,
  announcements, retired, amortized_work,
  calls_made,
  stack_op, stack_arg, (* the call a thread is in, the value it pushes     *)
  phase,            (* where it is                                         *)
  acquired,         (* acquire's result                                    *)
  fresh,            (* the node push has made                              *)
  successor,        (* p->next as pop read it                              *)
  taken_val, length_read, (* what pop took, what size read                 *)
  deferred, announced, scanned,   (* work_toward_ejects, its i from 1      *)
  life,             (* "used", "destroying", "destroyed", "gone"      *)
  stacked           (* history: the nodes linked, the top one last         *)

nodes == << node, head >>
hazards == << announcements, retired, amortized_work >>
stack_calls == << calls_made, stack_op, stack_arg >>
stack_own == << acquired, fresh, successor, taken_val, length_read >>
scan_vars == << deferred, announced, scanned >>
whole == << life, stacked >>
stack_vars == << nodes, hazards, stack_calls, phase, stack_own, scan_vars, whole >>

Node(v, nx, n) == [ t |-> v, next |-> nx, length |-> n ]
GoTo(t, place) == phase' = [ phase EXCEPT ![t] = place ]
Allocated(a) == node[a] # None
FreeNodes(A) == node' = [ a \in Addresses |-> IF a \in A THEN None ELSE node[a] ]
NoneAnnounced == [ a \in Addresses |-> 0 ]

HSInit ==
  /\ \E n \in Filled, v \in Elements :
       /\ node = [ a \in Addresses |->
                     IF a \in 1..n THEN Node(v, IF a = 1 THEN None ELSE a - 1, a) ELSE None ]
       /\ head = IF n = 0 THEN None ELSE n
       /\ stacked = [ k \in 1..n |-> k ]
  /\ announcements = [ t \in Users |-> None ]
  /\ retired = [ t \in Users |-> << >> ]
  /\ amortized_work = [ t \in Users |-> 0 ]
  /\ calls_made = [ t \in Users |-> 0 ]
  /\ stack_op = [ t \in Users |-> "none" ]
  /\ stack_arg = [ t \in Users |-> None ]
  /\ phase = [ t \in Users |-> "outside" ]
  /\ acquired = [ t \in Users |-> None ]
  /\ fresh = [ t \in Users |-> None ]
  /\ successor = [ t \in Users |-> None ]
  /\ taken_val = [ t \in Users |-> None ]
  /\ length_read = [ t \in Users |-> 0 ]
  /\ deferred = [ t \in Users |-> << >> ]
  /\ announced = [ t \in Users |-> NoneAnnounced ]
  /\ scanned = [ t \in Users |-> 1 ]
  /\ life = "used"

Enter(t, o, v) ==
  /\ life = "used"
  /\ phase[t] = "outside" /\ calls_made[t] < StackCalls[t]
  /\ calls_made' = [ calls_made EXCEPT ![t] = @ + 1 ]
  /\ stack_op' = [ stack_op EXCEPT ![t] = o ]
  /\ stack_arg' = [ stack_arg EXCEPT ![t] = v ]
  /\ GoTo(t, "load")

(* push: new Node, at any address that is free.                            *)
BeginPush(t) ==
  \E v \in Elements, a \in Addresses :
    /\ Enter(t, "push", v)
    /\ ~Allocated(a)
    /\ node' = [ node EXCEPT ![a] = Node(v, None, 1) ]
    /\ fresh' = [ fresh EXCEPT ![t] = a ]
    /\ UNCHANGED << head, hazards, acquired, successor, taken_val, length_read, scan_vars, whole >>

BeginPop(t) ==
  /\ Enter(t, "pop", None)
  /\ UNCHANGED << nodes, hazards, stack_own, scan_vars, whole >>

BeginSize(t) ==
  /\ Enter(t, "size", None)
  /\ UNCHANGED << nodes, hazards, stack_own, scan_vars, whole >>

-----------------------------------------------------------------------------
(* acquire: load the pointer, announce it, and load it again.              *)
Load(t) ==
  /\ phase[t] = "load"
  /\ acquired' = [ acquired EXCEPT ![t] = head ]
  /\ GoTo(t, "announce")
  /\ UNCHANGED << nodes, hazards, stack_calls, fresh, successor, taken_val, length_read, scan_vars, whole >>

AnnounceHead(t) ==
  /\ phase[t] = "announce"
  /\ announcements' = [ announcements EXCEPT ![t] = acquired[t] ]
  /\ GoTo(t, "reload")
  /\ UNCHANGED << nodes, retired, amortized_work, stack_calls, stack_own, scan_vars, whole >>

(* Where a call goes on with what it has acquired.  A pop of the empty     *)
(* stack returns without a release: it has announced nothing.              *)
Acquired(t) ==
  IF stack_op[t] = "push" THEN "link"
  ELSE IF stack_op[t] = "size" THEN "length"
  ELSE IF acquired[t] = None THEN "empty" ELSE "next"

(* Mutant: the announced pointer is not compared with the head again.      *)
ReloadNever(t) ==
  /\ phase[t] = "reload"
  /\ GoTo(t, Acquired(t))
  /\ UNCHANGED << nodes, hazards, stack_calls, stack_own, scan_vars, whole >>

Reload(t) ==
  /\ phase[t] = "reload"
  /\ GoTo(t, IF head = acquired[t] THEN Acquired(t) ELSE "load")
  /\ UNCHANGED << nodes, hazards, stack_calls, stack_own, scan_vars, whole >>

-----------------------------------------------------------------------------
(* push writes its node; nobody else can see it yet.                       *)
Link(t) ==
  /\ phase[t] = "link"
  /\ node' = [ node EXCEPT ![fresh[t]] =
        Node(@.t, acquired[t], IF acquired[t] = None THEN 1 ELSE node[acquired[t]].length + 1) ]
  /\ GoTo(t, "push")
  /\ UNCHANGED << head, hazards, stack_calls, stack_own, scan_vars, whole >>

(* compare_exchange_weak: may fail when it need not.                       *)
PushNode(t) ==
  /\ phase[t] = "push"
  /\ \/ /\ head = acquired[t]
        /\ head' = fresh[t]
        /\ stacked' = Append(stacked, fresh[t])
        /\ GoTo(t, "release")
        /\ UNCHANGED node
     \/ /\ node' = [ node EXCEPT ![fresh[t]] = Node(@.t, head, @.length) ]
        /\ GoTo(t, "load")
        /\ UNCHANGED << head, stacked >>
  /\ UNCHANGED << hazards, stack_calls, stack_own, scan_vars, life >>

ReadNext(t) ==
  /\ phase[t] = "next"
  /\ successor' = [ successor EXCEPT ![t] = node[acquired[t]].next ]
  /\ GoTo(t, "pop")
  /\ UNCHANGED << nodes, hazards, stack_calls, acquired, fresh, taken_val, length_read, scan_vars, whole >>

PopNode(t) ==
  /\ phase[t] = "pop"
  /\ \/ /\ head = acquired[t]
        /\ head' = successor[t]
        /\ stacked' = SubSeq(stacked, 1, Len(stacked) - 1)
        /\ GoTo(t, "take")
     \/ /\ GoTo(t, "load")
        /\ UNCHANGED << head, stacked >>
  /\ UNCHANGED << node, hazards, stack_calls, stack_own, scan_vars, life >>

Take(t) ==
  /\ phase[t] = "take"
  /\ taken_val' = [ taken_val EXCEPT ![t] = node[acquired[t]].t ]
  /\ GoTo(t, "retire")
  /\ UNCHANGED << nodes, hazards, stack_calls, acquired, fresh, successor, length_read, scan_vars, whole >>

ReturnEmpty(t) ==
  /\ phase[t] = "empty"
  /\ GoTo(t, "outside")
  /\ UNCHANGED << nodes, hazards, stack_calls, stack_own, scan_vars, whole >>

(* size reads the length of the top node.                                  *)
ReadLength(t) ==
  /\ phase[t] = "length"
  /\ length_read' = [ length_read EXCEPT ![t] = IF acquired[t] = None THEN 0 ELSE node[acquired[t]].length ]
  /\ GoTo(t, "release")
  /\ UNCHANGED << nodes, hazards, stack_calls, acquired, fresh, successor, taken_val, scan_vars, whole >>

Release(t) ==
  /\ phase[t] = "release"
  /\ announcements' = [ announcements EXCEPT ![t] = None ]
  /\ GoTo(t, "outside")
  /\ UNCHANGED << nodes, retired, amortized_work, stack_calls, stack_own, scan_vars, whole >>

-----------------------------------------------------------------------------
(* retire: put the node by, and once enough are put by, free those that no *)
(* thread announces.                                                       *)
Retire(t) ==
  LET R == Append(retired[t], acquired[t]) IN
  /\ phase[t] = "retire"
  /\ IF amortized_work[t] + 1 >= threshold
     THEN /\ amortized_work' = [ amortized_work EXCEPT ![t] = 0 ]
          /\ retired' = [ retired EXCEPT ![t] = << >> ]
          /\ deferred' = [ deferred EXCEPT ![t] = R ]
          /\ announced' = [ announced EXCEPT ![t] = NoneAnnounced ]
          /\ scanned' = [ scanned EXCEPT ![t] = 1 ]
          /\ GoTo(t, "scan")
     ELSE /\ amortized_work' = [ amortized_work EXCEPT ![t] = @ + 1 ]
          /\ retired' = [ retired EXCEPT ![t] = R ]
          /\ GoTo(t, "release")
          /\ UNCHANGED scan_vars
  /\ UNCHANGED << nodes, announcements, stack_calls, stack_own, whole >>

(* scan_slots, one slot a step.                                            *)
Scan(t) ==
  /\ phase[t] = "scan"
  /\ LET x == announcements[scanned[t]] IN
       announced' = IF x = None THEN announced ELSE [ announced EXCEPT ![t][x] = @ + 1 ]
  /\ scanned' = [ scanned EXCEPT ![t] = @ + 1 ]
  /\ GoTo(t, IF scanned[t] = num_users THEN "eject" ELSE "scan")
  /\ UNCHANGED << nodes, hazards, stack_calls, stack_own, deferred, whole >>

(* Each deferred node is freed, or one announcement of it is used up.      *)
(* Mutant: a node is kept when nobody announces it.                        *)
EjectAnnounced(t) ==
  /\ phase[t] = "eject"
  /\ IF deferred[t] = << >>
     THEN GoTo(t, "release") /\ UNCHANGED << node, retired, deferred, announced >>
     ELSE LET x == Head(deferred[t]) IN
          /\ deferred' = [ deferred EXCEPT ![t] = Tail(@) ]
          /\ IF announced[t][x] # 0
             THEN FreeNodes({x}) /\ UNCHANGED << retired, announced >>
             ELSE /\ retired' = [ retired EXCEPT ![t] = Append(@, x) ]
                  /\ UNCHANGED << node, announced >>
          /\ UNCHANGED phase
  /\ UNCHANGED << head, announcements, amortized_work, stack_calls, stack_own, scanned, whole >>

Eject(t) ==
  /\ phase[t] = "eject"
  /\ IF deferred[t] = << >>
     THEN GoTo(t, "release") /\ UNCHANGED << node, retired, deferred, announced >>
     ELSE LET x == Head(deferred[t]) IN
          /\ deferred' = [ deferred EXCEPT ![t] = Tail(@) ]
          /\ IF announced[t][x] = 0
             THEN FreeNodes({x}) /\ UNCHANGED << retired, announced >>
             ELSE /\ announced' = [ announced EXCEPT ![t][x] = @ - 1 ]
                  /\ retired' = [ retired EXCEPT ![t] = Append(@, x) ]
                  /\ UNCHANGED node
          /\ UNCHANGED phase
  /\ UNCHANGED << head, announcements, amortized_work, stack_calls, stack_own, scanned, whole >>

-----------------------------------------------------------------------------
Quiet == \A t \in Users : phase[t] = "outside" /\ calls_made[t] = StackCalls[t]

(* ~hazptr_stack, which nobody may use any more: node after node is freed, *)
(* head standing for p.                                                    *)
DestroyNode ==
  /\ life \in {"used", "destroying"} /\ Quiet
  /\ head # None
  /\ head' = node[head].next
  /\ stacked' = SubSeq(stacked, 1, Len(stacked) - 1)
  /\ FreeNodes({head})
  /\ life' = "destroying"
  /\ UNCHANGED << hazards, stack_calls, phase, stack_own, scan_vars >>

DestroyStack ==
  /\ life \in {"used", "destroying"} /\ Quiet
  /\ head = None
  /\ life' = "destroyed"
  /\ UNCHANGED << nodes, hazards, stack_calls, phase, stack_own, scan_vars, stacked >>

(* ~acquire_retire, after it: the instance was made before the stack.      *)
DestroyInstance ==
  /\ life = "destroyed"
  /\ FreeNodes(UNION { { retired[t][k] : k \in DOMAIN retired[t] } : t \in Users })
  /\ retired' = [ t \in Users |-> << >> ]
  /\ life' = "gone"
  /\ UNCHANGED << head, announcements, amortized_work, stack_calls, phase,
                  stack_own, scan_vars, stacked >>

Over == life = "gone" /\ UNCHANGED stack_vars

HSNext ==
  \/ \E t \in Users :
       \/ BeginPush(t) \/ BeginPop(t) \/ BeginSize(t)
       \/ Load(t) \/ AnnounceHead(t) \/ Reload(t)
       \/ Link(t) \/ PushNode(t)
       \/ ReadNext(t) \/ PopNode(t) \/ Take(t) \/ ReturnEmpty(t) \/ Retire(t)
       \/ ReadLength(t)
       \/ Scan(t) \/ Eject(t) \/ Release(t)
  \/ DestroyNode \/ DestroyStack \/ DestroyInstance \/ Over

HSSpec == HSInit /\ [][HSNext]_stack_vars

-----------------------------------------------------------------------------
(* A node that a thread is about to read has not been freed since the      *)
(* thread acquired it, whatever the others have popped and retired.        *)
NoUseAfterFree ==
  \A t \in Users :
    /\ phase[t] = "link" => acquired[t] = None \/ Allocated(acquired[t])
    /\ phase[t] \in {"next", "take"} => Allocated(acquired[t])
    /\ phase[t] = "length" => acquired[t] = None \/ Allocated(acquired[t])

(* The list that starts at head is of the nodes that have been pushed and  *)
(* not popped, each with the number of those from it on, though addresses  *)
(* are used again ("ABA").                                                 *)
Below(k) == IF k = 1 THEN None ELSE stacked[k - 1]
Linked ==
  /\ head = Below(Len(stacked) + 1)
  /\ \A k \in DOMAIN stacked : /\ node[stacked[k]].next = Below(k)
                               /\ node[stacked[k]].length = k

(* Every node has one owner: the stack, a push that has not published it,  *)
(* a pop that has not retired it, or a place in a list of nodes to be      *)
(* freed.  So none is freed twice, and once the stack and the instance are *)
(* gone none is left.                                                      *)
Pushing(t) ==
  stack_op[t] = "push" /\ phase[t] \in {"load", "announce", "reload", "link", "push"}
Popping(t) == phase[t] \in {"take", "retire"}

Owners ==
  { << "stack", 1, k >> : k \in DOMAIN stacked }
    \cup { << "push", t, 1 >> : t \in { u \in Users : Pushing(u) } }
    \cup { << "pop", t, 1 >> : t \in { u \in Users : Popping(u) } }
    \cup (UNION { { << "retired", t, k >> : k \in DOMAIN retired[t] } : t \in Users })
    \cup (UNION { { << "deferred", t, k >> : k \in DOMAIN deferred[t] } : t \in Users })

Owned(o) ==
  IF o[1] = "stack" THEN stacked[o[3]]
  ELSE IF o[1] = "push" THEN fresh[o[2]]
  ELSE IF o[1] = "pop" THEN acquired[o[2]]
  ELSE IF o[1] = "retired" THEN retired[o[2]][o[3]]
  ELSE deferred[o[2]][o[3]]

OneOwner ==
  /\ \A o, q \in Owners : Owned(o) = Owned(q) => o = q
  /\ \A a \in Addresses : Allocated(a) <=> \E o \in Owners : Owned(o) = a

(* Each call takes effect at one moment on an abstract stack: push and pop *)
(* at their compare-and-swap, size and the pop of an empty stack at the    *)
(* second load.                                                            *)
Result(t) ==
  IF phase[t] = "outside" THEN [ op |-> "none", val |-> None, len |-> 0 ]
  ELSE IF phase[t] = "empty" THEN [ op |-> "empty", val |-> None, len |-> 0 ]
  ELSE IF phase[t] = "length"
  THEN [ op |-> "length", val |-> None,
         len |-> IF acquired[t] = None THEN 0 ELSE node[acquired[t]].length ]
  ELSE IF phase[t] = "take"
  THEN [ op |-> "popped", val |-> node[acquired[t]].t, len |-> 0 ]
  ELSE IF phase[t] \in {"retire", "scan", "eject", "release"}
  THEN IF stack_op[t] = "pop" THEN [ op |-> "popped", val |-> taken_val[t], len |-> 0 ]
       ELSE IF stack_op[t] = "push" THEN [ op |-> "pushed", val |-> None, len |-> 0 ]
       ELSE [ op |-> "length", val |-> None, len |-> length_read[t] ]
  ELSE [ op |-> stack_op[t], val |-> stack_arg[t], len |-> 0 ]

Stack == INSTANCE AbstractStack WITH
  Threads <- Users, Values <- Elements,
  items <- IF life = "used" THEN [ k \in DOMAIN stacked |-> node[stacked[k]].t ] ELSE << >>,
  call <- [ t \in Users |-> Result(t) ]

AsStack == Stack!Next \/ Stack!vars' = Stack!vars
=============================================================================
