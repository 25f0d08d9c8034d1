--------------------------- MODULE GraphExamples ----------------------------
(***************************************************************************)
(* Algorithms on graphs among parlay's examples.  The first is the         *)
(* synchronous parallel push-relabel maximum flow                          *)
(* (push_relabel_max_flow.h), with the breadth-first search by edge_map    *)
(* that labels all vertices anew (helper/ligra_light.h).  The others,      *)
(* below, search a graph from one vertex or, for clusters, from many, peel *)
(* it by degree, and count the cycles of a permutation.                    *)
(*                                                                         *)
(* A round of the maximum flow runs push and relabel for all active        *)
(* vertices at once.  Labels and excesses are written to shadow copies,    *)
(* which the end of the round makes the true ones; flows are written in    *)
(* place.  One turn of the loop of push, and the reading of one edge in    *)
(* relabel, are one step each: push touches one flow that others read.     *)
(***************************************************************************)
EXTENDS Integers, Sequences, FiniteSetsExt, SequencesExt

CONSTANTS
  Graphs,      (* networks: cells 0..n-1, each the << neighbour, capacity >>s of a vertex *)
  s, t,
  Infinity,    (* what the source has to give; the distance of what is not reached *)
  Problems,    (* the other algorithms, and the graphs they are given      *)
  Searched,
  lazy_share,  (* 8 in the code: when Bellman and Ford's goes lazy         *)
  edge_share, vertex_share   (* 10 and 20 in the code: when edge_map goes dense *)

VARIABLES
  G,
  flow, label, excess, current, new_label, new_excess,
  pushes, pushed,
  active,
  at,          (* where the body of each active vertex is: its line; in    *)
               (* relabel, the next edge to read and the least label seen  *)
  d, cur_level, frontier,    (* the search *)
  phase        (* "search", "round", "time" or "over" *)

(* Of the other algorithms; d, active, at, frontier and phase are theirs   *)
(* as well.                                                                *)
VARIABLES
  problem,     (* which one                                                *)
  mark,        (* visited, or labels: what is claimed by compare-and-swap  *)
  da,          (* the distances that are written by write_min              *)
  edges,       (* the edges out of the frontier, a body for each           *)
  frontiers,   (* what is returned                                         *)
  cnt,         (* of rounds, or the distance they are at                   *)
  num_active, lazy,
  buckets

search == << d, cur_level, frontier >>
vertices == << label, excess, current, new_label, new_excess, pushes, pushed >>
mfvars == << G, flow, vertices, active, at, search, phase >>

-----------------------------------------------------------------------------
Vertex == DOMAIN G
n == Cardinality(Vertex)
EdgesOf(u) == { << u, i >> : i \in DOMAIN G[u] }
Edge == UNION { EdgesOf(u) : u \in Vertex }
m == Cardinality(Edge)

Get(e) == G[e[1]][e[2]][1]
capacity(e) == G[e[1]][e[2]][2]

(* Sorted by their ends, the two edges between the same ones are linked.   *)
partner(e) == CHOOSE f \in Edge \ {e} : { f[1], Get(f) } = { e[1], Get(e) }

Live(e) == flow[e] < capacity(e)

-----------------------------------------------------------------------------
(* global_relabel, from t backwards.                                       *)
StartSearch ==
  /\ d' = [ v \in Vertex |-> IF v = t THEN 0 ELSE n ]
  /\ cur_level' = 0
  /\ frontier' = [ is_sparse |-> TRUE, in |-> {t} ]
  /\ phase' = "search"

edge_f(e, v, back) ==
  LET saturated == IF back THEN capacity(e) = flow[e] ELSE capacity(partner(e)) = -flow[e]
  IN  ~saturated /\ d[v] = n

cond_f(v) == d[v] = n

(* edge_map, vertex subsets as sets: of edges to one vertex that are tried *)
(* at once, the first compare-and-swap on it adds it to the result.  The   *)
(* graph is its own transpose wherever it is used.                         *)
edge_map_sparse(F, cond(_), f(_, _, _)) ==
  { Get(e) : e \in { x \in Edge : x[1] \in F /\ cond(Get(x)) /\ f(x, Get(x), FALSE) } }

edge_map_dense(F, cond(_), f(_, _, _)) ==
  { v \in Vertex : cond(v) /\ \E e \in EdgesOf(v) : Get(e) \in F /\ f(e, v, TRUE) }

do_dense(vs) ==
  IF vs.is_sparse
  THEN Cardinality(vs.in) + FoldSet(LAMBDA u, sum : sum + Len(G[u]), 0, vs.in) > m \div edge_share
  ELSE Cardinality(vs.in) > n \div vertex_share

edge_map(vs, cond(_), f(_, _, _)) ==
  IF do_dense(vs) THEN [ is_sparse |-> FALSE, in |-> edge_map_dense(vs.in, cond, f) ]
  ELSE [ is_sparse |-> TRUE, in |-> edge_map_sparse(vs.in, cond, f) ]

SearchLevel ==
  /\ phase = "search" /\ frontier.in # {}
  /\ cur_level' = cur_level + 1
  /\ frontier' = edge_map(frontier, cond_f, edge_f)
  /\ d' = [ v \in Vertex |-> IF v \in frontier'.in THEN cur_level' ELSE d[v] ]
  /\ UNCHANGED << G, flow, vertices, active, at, phase >>

(* A round begins with the bodies of the vertices A.                       *)
StartRound(A, labels) ==
  /\ active' = A
  /\ at' = [ u \in { A[j] : j \in DOMAIN A } |->
               [ line |-> IF labels[u] \in 1..(n - 1) THEN "push" ELSE "back", i |-> 1, min |-> n ] ]
  /\ phase' = IF A = << >> THEN "over" ELSE "round"

SearchEnd ==
  /\ phase = "search" /\ frontier.in = {}
  /\ current' = [ u \in Vertex |-> 1 ]
  /\ new_label' = d
  /\ label' = d
  /\ StartRound(SelectSeq([ j \in 1..n |-> j - 1 ],
                  LAMBDA v : d[v] # 0 /\ d[v] < n /\ excess[v] > 0), d)
  /\ UNCHANGED << G, flow, excess, new_excess, pushes, pushed, search >>

-----------------------------------------------------------------------------
Goto(u, line) == at' = [ at EXCEPT ![u].line = line ]

(* v goes on the list of the first to set its flag.                        *)
push_active(u, v) ==
  /\ pushed' = [ pushed EXCEPT ![v] = TRUE ]
  /\ pushes' = IF pushed[v] THEN pushes ELSE [ pushes EXCEPT ![u] = Append(@, v) ]

More(u) == excess[u] > 0 /\ current[u] <= Len(G[u])

Push(u) ==
  LET e == << u, current[u] >>
      v == Get(e)
      release == Min({ capacity(e) - flow[e], excess[u] })
  IN
  /\ at[u].line = "push" /\ More(u)
  /\ IF Live(e) /\ label[u] > label[v]
     THEN /\ current' = [ current EXCEPT ![u] = IF release = capacity(e) - flow[e] THEN @ + 1 ELSE @ ]
          /\ flow' = [ flow EXCEPT ![e] = @ + release, ![partner(e)] = @ - release ]
          /\ excess' = [ excess EXCEPT ![u] = @ - release ]
          /\ new_excess' = [ new_excess EXCEPT ![v] = @ + release ]
          /\ push_active(u, v)
     ELSE /\ current' = [ current EXCEPT ![u] = @ + 1 ]
          /\ UNCHANGED << flow, excess, new_excess, pushes, pushed >>
  /\ UNCHANGED << G, label, new_label, active, at, search, phase >>

PushReturns(u) ==
  /\ at[u].line = "push" /\ ~More(u)
  /\ IF excess[u] > 0 THEN push_active(u, u) ELSE UNCHANGED << pushes, pushed >>
  /\ IF current[u] > Len(G[u])
     THEN Goto(u, "relabel") /\ current' = [ current EXCEPT ![u] = 1 ]
     ELSE Goto(u, "back") /\ UNCHANGED current
  /\ UNCHANGED << G, flow, label, excess, new_label, new_excess, active, search, phase >>

Relabel(u) ==
  LET e == << u, at[u].i >>
  IN
  /\ at[u].line = "relabel"
  /\ IF at[u].i <= Len(G[u])
     THEN /\ at' = [ at EXCEPT ![u].i = @ + 1, ![u].min = IF Live(e) THEN Min({ @, label[Get(e)] }) ELSE @ ]
          /\ UNCHANGED new_label
     ELSE /\ new_label' = [ new_label EXCEPT ![u] = Min({ n, at[u].min + 1 }) ]
          /\ Goto(u, "back")
  /\ UNCHANGED << G, flow, label, excess, current, new_excess, pushes, pushed, active, search, phase >>

(* The second half of push_relabel.                                        *)
EndRound ==
  LET Act == { active[j] : j \in DOMAIN active }
      Touched == UNION { { pushes[u][j] : j \in DOMAIN pushes[u] } : u \in Act }
  IN
  /\ phase = "round"
  /\ \A u \in DOMAIN at : at[u].line = "back"
  /\ label' = [ v \in Vertex |-> IF v \in Act THEN new_label[v] ELSE label[v] ]
  /\ excess' = [ v \in Vertex |-> IF v \in Touched THEN excess[v] + new_excess[v] ELSE excess[v] ]
  /\ new_excess' = [ v \in Vertex |-> IF v \in Touched THEN 0 ELSE new_excess[v] ]
  /\ pushed' = [ v \in Vertex |-> pushed[v] /\ v \notin Touched ]
  /\ pushes' = [ v \in Vertex |-> IF v \in Act THEN << >> ELSE pushes[v] ]
  /\ active' = FoldLeft(LAMBDA all, u : all \o pushes[u], << >>, active)
  /\ phase' = "time"
  /\ UNCHANGED << G, flow, current, new_label, at, search >>

(* Whether rounds have taken three times as long as the search.            *)
Continue ==
  /\ phase = "time"
  /\ StartRound(active, label)
  /\ UNCHANGED << G, flow, vertices, search >>

SearchAgain ==
  /\ phase = "time"
  /\ StartSearch
  /\ UNCHANGED << G, flow, vertices, active, at >>

-----------------------------------------------------------------------------
Init ==
  /\ G \in Graphs
  /\ flow = [ e \in Edge |-> 0 ]
  /\ label = [ v \in Vertex |-> 0 ]
  /\ new_label = label
  /\ excess = [ v \in Vertex |-> IF v = s THEN Infinity ELSE 0 ]
  /\ current = [ v \in Vertex |-> 1 ]
  /\ new_excess = [ v \in Vertex |-> 0 ]
  /\ pushes = [ v \in Vertex |-> << >> ]
  /\ pushed = [ v \in Vertex |-> FALSE ]
  /\ active = << >>
  /\ at = << >>
  /\ d = [ v \in Vertex |-> IF v = t THEN 0 ELSE n ]
  /\ cur_level = 0
  /\ frontier = [ is_sparse |-> TRUE, in |-> {t} ]
  /\ phase = "search"

Next ==
  \/ SearchLevel \/ SearchEnd
  \/ \E u \in DOMAIN at : Push(u) \/ PushReturns(u) \/ Relabel(u)
  \/ EndRound \/ Continue \/ SearchAgain

Over == phase = "over"

-----------------------------------------------------------------------------
FlowOut(v) == FoldSet(LAMBDA e, sum : sum + flow[e], 0, EdgesOf(v))
CutOf(S) == FoldSet(LAMBDA e, sum : sum + capacity(e), 0, { e \in Edge : e[1] \in S /\ Get(e) \notin S })
max_flow == Min({ CutOf(S) : S \in { X \in SUBSET Vertex : s \in X /\ t \notin X } })

matched == \A v \in Vertex \ {s} : FlowOut(v) = -excess[v]
within_capacity == \A e \in Edge : flow[e] <= capacity(e)
labels_valid == \A e \in Edge : Live(e) => label[e[1]] <= label[Get(e)] + 1
none_left == \A v \in Vertex : label[v] # 0 /\ label[v] < n => excess[v] <= 0
total == FoldSet(LAMBDA v, sum : sum + excess[v], 0, Vertex)

(* What is checked of the result before it is returned.                    *)
check_correctness ==
  matched /\ within_capacity /\ labels_valid /\ none_left /\ total = Infinity

-----------------------------------------------------------------------------
(* Between rounds the flow out of a vertex, the source's apart, is what it *)
(* lacks: nothing is lost of what several neighbours push to it at once,   *)
(* into new_excess, and nothing is counted twice (push, push_relabel).     *)
Conserved ==
  phase # "round" =>
    /\ matched /\ within_capacity /\ total = Infinity
    /\ \A v \in Vertex : excess[v] >= 0 /\ new_excess[v] = 0

(* After a round whatever has an excess and can pass it on is active: the  *)
(* compare-and-swap on pushed loses nobody (push_active).                  *)
NoneIdle ==
  phase \in {"time", "over"} =>
    \A v \in Vertex : label[v] \in 1..(n - 1) /\ excess[v] > 0 => \E j \in DOMAIN active : active[j] = v

(* .. and active once only: two bodies for one vertex would race for its   *)
(* excess, which is not atomic.                                            *)
ActiveOnce == \A i, j \in DOMAIN active : active[i] = active[j] => i = j

(* The flow is a maximum flow, if the labels pass the check of             *)
(* check_correctness at the end.                                           *)
IsMax == Over /\ labels_valid => excess[t] = max_flow

(* What compute_max_flow ends with passes check_correctness.               *)
ChecksPass == Over => check_correctness

-----------------------------------------------------------------------------
(* The other algorithms.  A round goes over the edges out of the frontier, *)
(* in parallel: a load or a compare-and-swap of a body is a step, bodies   *)
(* come in any order.  What is read in a round only is not split up.       *)
gvars == << G, d, active, at, frontier, phase, problem, mark, da, edges, frontiers, cnt,
            num_active, lazy, buckets >>

weight(e) == capacity(e)
Reached(e, x) == IF x = Infinity THEN Infinity ELSE x + weight(e)
Target(j) == Get(edges[j])
Cat(seqs) == FoldLeft(LAMBDA all, q : all \o q, << >>, seqs)

Out(A) == Cat([ k \in DOMAIN A |-> [ i \in DOMAIN G[A[k]] |-> << A[k], i >> ] ])

StartBodies(A, line) ==
  /\ edges' = Out(A)
  /\ at' = [ j \in DOMAIN edges' |-> [ line |-> line, de |-> 0, c |-> 0 ] ]
  /\ phase' = "bodies"

Answered == \A j \in DOMAIN at : at[j].line \in {"yes", "no"}
Kept == SelectSeq([ j \in DOMAIN edges |-> j ], LAMBDA j : at[j].line = "yes")
KeptVertices == [ k \in DOMAIN Kept |-> Target(Kept[k]) ]
Line(j, line) == at' = [ at EXCEPT ![j].line = line ]

(* !visited[v] && visited[v].compare_exchange_strong(..).                  *)
Test(j) ==
  /\ at[j].line = "test"
  /\ Line(j, IF mark[Target(j)] THEN "no" ELSE "claim")
  /\ UNCHANGED << mark, da >>

Claim(j) ==
  /\ at[j].line = "claim"
  /\ Line(j, IF mark[Target(j)] THEN "no" ELSE "yes")
  /\ mark' = [ mark EXCEPT ![Target(j)] = TRUE ]
  /\ UNCHANGED da

(* The distance to v by this edge; bucketed_dijkstra has that of u at hand.*)
ReadDistance(j) ==
  /\ at[j].line = "read"
  /\ at' = [ at EXCEPT ![j].line = "load",
              ![j].de = IF problem = "bucketed_dijkstra" THEN cnt + weight(edges[j])
                        ELSE Reached(edges[j], da[edges[j][1]]) ]
  /\ UNCHANGED << mark, da >>

(* write_min; bellman_ford_lazy then sees whether v is active already.     *)
LoadDistance(j) ==
  /\ at[j].line = "load"
  /\ at' = [ at EXCEPT ![j].line = IF at[j].de < da[Target(j)] THEN "write" ELSE "no",
                        ![j].c = da[Target(j)] ]
  /\ UNCHANGED << mark, da >>

WriteDistance(j) ==
  /\ at[j].line = "write"
  /\ IF da[Target(j)] = at[j].c
     THEN /\ da' = [ da EXCEPT ![Target(j)] = at[j].de ]
          /\ Line(j, IF problem = "bucketed_dijkstra" THEN "yes" ELSE "test")
     ELSE Line(j, "load") /\ UNCHANGED da
  /\ UNCHANGED mark

Body ==
  /\ phase = "bodies"
  /\ \E j \in DOMAIN at : Test(j) \/ Claim(j) \/ ReadDistance(j) \/ LoadDistance(j) \/ WriteDistance(j)
  /\ UNCHANGED << G, d, active, frontier, phase, problem, edges, frontiers, cnt, num_active, lazy, buckets >>

(* BFS.h.                                                                  *)
BFSLevel ==
  /\ problem = "BFS" /\ phase = "level"
  /\ IF active = << >>
     THEN phase' = "over" /\ UNCHANGED << edges, at, frontiers >>
     ELSE StartBodies(active, "test") /\ frontiers' = Append(frontiers, active)
  /\ UNCHANGED << G, d, active, frontier, problem, mark, da, cnt, num_active, lazy, buckets >>

BFSEnd ==
  /\ problem = "BFS" /\ phase = "bodies" /\ Answered
  /\ active' = KeptVertices
  /\ phase' = "level"
  /\ UNCHANGED << G, d, at, frontier, problem, mark, da, edges, frontiers, cnt, num_active, lazy, buckets >>

(* BFS_ligra.h.                                                            *)
LigraLevel ==
  /\ problem = "BFS_ligra" /\ phase = "level"
  /\ IF frontier.in = {}
     THEN phase' = "over" /\ UNCHANGED << frontiers, frontier, mark >>
     ELSE /\ frontiers' = Append(frontiers, SetToSeq(frontier.in))
          /\ frontier' = edge_map(frontier, LAMBDA v : ~mark[v], LAMBDA e, v, back : TRUE)
          /\ mark' = [ v \in Vertex |-> mark[v] \/ v \in frontier'.in ]
          /\ UNCHANGED phase
  /\ UNCHANGED << G, d, active, at, problem, da, edges, cnt, num_active, lazy, buckets >>

(* low_diameter_decomposition.h: whose label a vertex gets is decided by   *)
(* the first compare-and-swap.  Once every vertex has one, rounds that are *)
(* left change nothing.                                                    *)
LDDRound ==
  LET centers == { v \in Vertex : buckets[v] = cnt /\ mark[v] = -1 }
      labels == [ v \in Vertex |-> IF v \in centers THEN v ELSE mark[v] ]
      added == [ frontier EXCEPT !.in = @ \cup centers ]
      next == edge_map(added, LAMBDA v : labels[v] = -1, LAMBDA e, v, back : TRUE)
  IN
  /\ problem = "LDD" /\ phase = "level"
  /\ IF \E v \in Vertex : buckets[v] >= cnt
     THEN /\ frontier' = next
          /\ \E from \in [ next.in -> added.in ] :
               /\ \A v \in next.in : \E e \in EdgesOf(from[v]) : Get(e) = v
               /\ mark' = [ v \in Vertex |-> IF v \in next.in THEN labels[from[v]] ELSE labels[v] ]
          /\ cnt' = cnt + 1
          /\ UNCHANGED phase
     ELSE phase' = "over" /\ UNCHANGED << frontier, mark, cnt >>
  /\ UNCHANGED << G, d, active, at, problem, da, edges, frontiers, num_active, lazy, buckets >>

-----------------------------------------------------------------------------
(* bellman_ford.h.                                                         *)
Relaxed(x) ==
  [ v \in Vertex |->
      IF v = s THEN 0
      ELSE Min({Infinity} \cup { Reached(e, x[e[1]]) : e \in { f \in Edge : Get(f) = v } }) ]

BellmanRound ==
  /\ problem = "bellman_ford" /\ phase = "level"
  /\ IF cnt = n \/ Relaxed(d) = d
     THEN phase' = "over" /\ UNCHANGED << d, cnt >>
     ELSE d' = Relaxed(d) /\ cnt' = cnt + 1 /\ UNCHANGED phase
  /\ UNCHANGED << G, active, at, frontier, problem, mark, da, edges, frontiers, num_active, lazy, buckets >>

do_lazy ==
  \/ Len(active) < num_active /\ Len(active) * 2 < n
  \/ Len(active) * lazy_share < n

LazyRound ==
  /\ problem = "bellman_ford_lazy" /\ phase = "level" /\ active # << >> /\ cnt < n
  /\ cnt' = cnt + 1
  /\ num_active' = Len(active)
  /\ lazy' = do_lazy
  /\ IF do_lazy
     THEN /\ da' = IF lazy THEN da ELSE d
          /\ StartBodies(active, "read")
          /\ UNCHANGED << d, active >>
     ELSE LET now == IF lazy THEN da ELSE d IN
          /\ d' = Relaxed(now)
          /\ active' = SelectSeq([ k \in 1..n |-> k - 1 ], LAMBDA v : d'[v] # now[v])
          /\ UNCHANGED << da, edges, at, phase >>
  /\ UNCHANGED << G, frontier, problem, mark, frontiers, buckets >>

LazyEnd ==
  /\ problem = "bellman_ford_lazy" /\ phase = "bodies" /\ Answered
  /\ active' = KeptVertices
  /\ mark' = [ v \in Vertex |-> mark[v] /\ \A k \in DOMAIN active' : active'[k] # v ]
  /\ phase' = "level"
  /\ UNCHANGED << G, d, at, frontier, problem, da, edges, frontiers, cnt, num_active, lazy, buckets >>

LazyOver ==
  /\ problem = "bellman_ford_lazy" /\ phase = "level" /\ (active = << >> \/ cnt = n)
  /\ cnt' = IF active = << >> THEN cnt ELSE cnt + 1
  /\ d' = IF lazy THEN da ELSE d
  /\ phase' = "over"
  /\ UNCHANGED << G, active, at, frontier, problem, mark, da, edges, frontiers, num_active, lazy, buckets >>

(* Whether they return distances.                                          *)
Returned == IF problem = "bellman_ford" THEN cnt < n ELSE cnt <= n

-----------------------------------------------------------------------------
(* bucketed_dijkstra.h; max_distance is kept in num_active.                *)
DijkstraRound ==
  LET near == SelectSeq(buckets[cnt], LAMBDA v : da[v] = cnt) IN
  /\ problem = "bucketed_dijkstra" /\ phase = "level"
  /\ IF cnt <= num_active
     THEN frontiers' = Append(frontiers, near) /\ StartBodies(near, "read")
     ELSE phase' = "over" /\ UNCHANGED << frontiers, edges, at >>
  /\ UNCHANGED << G, d, active, frontier, problem, mark, da, cnt, num_active, lazy, buckets >>

DijkstraEnd ==
  LET At(k) == SelectSeq(Kept, LAMBDA j : at[j].de = k) IN
  /\ problem = "bucketed_dijkstra" /\ phase = "bodies" /\ Answered
  /\ buckets' = [ k \in DOMAIN buckets |->
                    buckets[k] \o [ i \in DOMAIN At(k) |-> Target(At(k)[i]) ] ]
  /\ num_active' = Max({num_active} \cup { at[Kept[k]].de : k \in DOMAIN Kept })
  /\ cnt' = cnt + 1
  /\ phase' = "level"
  /\ UNCHANGED << G, d, active, at, frontier, problem, mark, da, edges, frontiers, lazy >>

-----------------------------------------------------------------------------
(* kcore.h: k is cnt, total num_active, done mark.                         *)
EdgesInto(b, u) == Len(SelectSeq(Out(b), LAMBDA e : Get(e) = u))

(* Mutant: the same k is peeled for ever once none is left in its bucket.  *)
same_k(b) == cnt

(* Only once a bucket is found empty does k go up: peeling one of k may    *)
(* put others into it.                                                     *)
next_k(b) == IF b = << >> THEN cnt + 1 ELSE cnt

KCoreRound ==
  LET b == SelectSeq(buckets[cnt], LAMBDA v : ~mark[v])
      lowered == { u \in Vertex : d[u] > cnt /\ EdgesInto(b, u) > 0 }
  IN
  /\ problem = "kcore" /\ phase = "level"
  /\ IF num_active < n
     THEN /\ mark' = [ v \in Vertex |-> mark[v] \/ \E j \in DOMAIN b : b[j] = v ]
          /\ num_active' = num_active + Len(b)
          /\ cnt' = next_k(b)
          /\ d' = [ u \in Vertex |-> IF u \in lowered THEN Max({ cnt, d[u] - EdgesInto(b, u) }) ELSE d[u] ]
          /\ buckets' = [ k \in DOMAIN buckets |->
                            (IF k = cnt THEN << >> ELSE buckets[k]) \o SetToSeq({ u \in lowered : d'[u] = k }) ]
          /\ UNCHANGED phase
     ELSE phase' = "over" /\ UNCHANGED << mark, num_active, cnt, d, buckets >>
  /\ UNCHANGED << G, active, at, frontier, problem, da, edges, frontiers, lazy >>

-----------------------------------------------------------------------------
(* Of the shifts of the clusters, drawn at random, the largest is max_e.   *)
Shifts == { f \in [ Vertex -> 0..2 ] : \E v \in Vertex : f[v] = 0 }

SearchesInit ==
  /\ problem \in Problems
  /\ G \in Searched[problem]
  /\ mark = [ v \in Vertex |-> IF problem = "LDD" THEN -1 ELSE v = s /\ problem # "kcore" ]
  /\ d = [ v \in Vertex |-> IF problem = "kcore" THEN Len(G[v]) ELSE IF v = s THEN 0 ELSE Infinity ]
  /\ da = IF problem = "bucketed_dijkstra" THEN [ v \in Vertex |-> IF v = s THEN 0 ELSE n ] ELSE d
  /\ active = << s >>
  /\ frontier = [ is_sparse |-> TRUE, in |-> IF problem = "LDD" THEN {} ELSE {s} ]
  /\ buckets \in CASE problem = "LDD" -> Shifts
                  [] problem = "bucketed_dijkstra" -> { [ k \in Vertex |-> IF k = 0 THEN << s >> ELSE << >> ] }
                  [] problem = "kcore" -> { [ k \in 0..m |-> SetToSeq({ v \in Vertex : Len(G[v]) = k }) ] }
                  [] OTHER -> { << >> }
  /\ num_active = IF problem \in {"bucketed_dijkstra", "kcore"} THEN 0 ELSE 1
  /\ cnt = 0 /\ lazy = TRUE
  /\ edges = << >> /\ at = << >> /\ frontiers = << >>
  /\ phase = "level"

SearchesNext ==
  \/ Body \/ BFSLevel \/ BFSEnd \/ LigraLevel \/ LDDRound
  \/ BellmanRound \/ LazyRound \/ LazyEnd \/ LazyOver
  \/ DijkstraRound \/ DijkstraEnd \/ KCoreRound

-----------------------------------------------------------------------------
(* Paths, for the reference: the length of a shortest one, in edges or by  *)
(* weight, and cycles of negative weight.                                  *)
Paths(u, v) ==
  { p \in UNION { [ 1..k -> Vertex ] : k \in 1..n } :
      /\ p[1] = u /\ p[Len(p)] = v
      /\ \A i, j \in DOMAIN p : p[i] = p[j] => i = j
      /\ \A i \in 2..Len(p) : \E e \in EdgesOf(p[i - 1]) : Get(e) = p[i] }
Between(u, v) == Min({ weight(e) : e \in { f \in EdgesOf(u) : Get(f) = v } })
PathWeight(p) == FoldSet(LAMBDA i, sum : sum + Between(p[i - 1], p[i]), 0, 2..Len(p))

Hops(u, v) == Min({Infinity} \cup { Len(p) - 1 : p \in Paths(u, v) })
Dist(v) == Min({Infinity} \cup { PathWeight(p) : p \in Paths(s, v) })
NegativeAt(u) ==
  \E v \in Vertex : \E p \in Paths(u, v) : \E e \in EdgesOf(v) :
    Get(e) = u /\ PathWeight(p) + weight(e) < 0
NegativeReached == \E u \in Vertex : Paths(s, u) # {} /\ NegativeAt(u)

(* The largest k such that v is in a part of the graph in which every      *)
(* vertex has k neighbours.                                                *)
Coreness(v) ==
  Max({ k \in 0..m : \E S \in SUBSET Vertex : v \in S /\ \A u \in S :
          Cardinality({ i \in DOMAIN G[u] : G[u][i][1] \in S }) >= k })

Ranged(q) == { q[k] : k \in DOMAIN q }
Layered(dist(_)) ==
  /\ \A k \in DOMAIN frontiers :
       /\ Ranged(frontiers[k]) = { v \in Vertex : dist(v) = k - 1 }
       /\ Len(frontiers[k]) = Cardinality(Ranged(frontiers[k]))
  /\ \A v \in Vertex : dist(v) < Infinity => dist(v) < Len(frontiers)

(* Breadth-first search gives each vertex once, with the others that far   *)
(* from the start, whoever claims it first; so does Dijkstra's by weight,  *)
(* with distances written several times in a round, if n is beyond them;   *)
(* Bellman and Ford's distances are those of the shortest paths, and come  *)
(* unless a cycle of negative weight is reached, also of the version where *)
(* a distance may be read while another body lowers it and an active       *)
(* vertex may be active once more; a cluster is joined from its center in  *)
(* at most as many rounds as it had for that; the peeling of kcore finds   *)
(* the coreness of every vertex.                                           *)
SearchRight ==
  phase = "over" =>
    /\ problem \in {"BFS", "BFS_ligra"} => Layered(LAMBDA v : Hops(s, v))
    /\ problem = "bucketed_dijkstra" =>
         Layered(LAMBDA v : IF Dist(v) < n THEN Dist(v) ELSE Infinity)
    /\ problem \in {"bellman_ford", "bellman_ford_lazy"} =>
         IF NegativeReached THEN ~Returned
         ELSE Returned /\ \A v \in Vertex : d[v] = Dist(v)
    /\ problem = "LDD" =>
         \A v \in Vertex :
           /\ mark[v] \in Vertex /\ mark[mark[v]] = mark[v]
           /\ \E p \in Paths(mark[v], v) :
                /\ \A i \in DOMAIN p : mark[p[i]] = mark[v]
                /\ Len(p) - 1 + buckets[mark[v]] <= buckets[v]
    /\ problem = "kcore" => \A v \in Vertex : d[v] = Coreness(v)

(* No bucket of kcore has a vertex twice: its done flags, which the bodies *)
(* of a round read and write without any care, would count both.           *)
BucketsOnce ==
  phase # "over" /\ problem = "kcore" =>
    \A k \in DOMAIN buckets : Len(buckets[k]) = Cardinality(Ranged(buckets[k]))

-----------------------------------------------------------------------------
(* cycle_count.h: a task for each leaf contracts the cycles of a           *)
(* permutation, as far up as it is the last one to come.  A link has the   *)
(* smaller of its neighbours below it, in the order of priorities; links   *)
(* and degrees are shared by the tasks.                                    *)
CONSTANTS Permuted, Priorities

VARIABLES permutation, priority, links, degree

cyclevars == << permutation, priority, links, degree, at >>

Link == DOMAIN permutation

CycleInit ==
  /\ permutation \in Permuted
  /\ priority \in [ Link -> Priorities ]
  /\ links = [ v \in Link |-> [ next |-> permutation[v], prev |-> CHOOSE u \in Link : permutation[u] = v ] ]
  /\ degree = [ v \in Link |-> (IF priority[links[v].prev] < priority[v] THEN 1 ELSE 0) + (IF priority[links[v].next] <= priority[v] THEN 1 ELSE 0) ]
  /\ at = [ v \in Link |-> [ line |-> IF degree[v] = 0 THEN "next" ELSE "back", l |-> v, root |-> 0 ] ]

LinkGoto(i, line) == at' = [ at EXCEPT ![i].line = line ]

SpliceNext(i) ==
  LET l == links[at[i].l] IN
  /\ at[i].line = "next"
  /\ links' = [ links EXCEPT ![l.next].prev = l.prev ]
  /\ LinkGoto(i, "prev")
  /\ UNCHANGED degree

SplicePrev(i) ==
  LET l == links[at[i].l] IN
  /\ at[i].line = "prev"
  /\ links' = [ links EXCEPT ![l.prev].next = l.next ]
  /\ LinkGoto(i, "up")
  /\ UNCHANGED degree

Up(i) ==
  LET l == links[at[i].l]
      up == IF priority[l.prev] < priority[l.next] THEN l.prev ELSE l.next
  IN
  /\ at[i].line = "up"
  /\ at' = [ at EXCEPT ![i].l = up, ![i].line = IF links[up].prev # up THEN "count" ELSE "return" ]
  /\ UNCHANGED << links, degree >>

CountDown(i) ==
  LET l == at[i].l IN
  /\ at[i].line = "count"
  /\ degree' = [ degree EXCEPT ![l] = @ - 1 ]
  /\ LinkGoto(i, IF degree[l] = 1 THEN "next" ELSE "return")
  /\ UNCHANGED links

CycleReturn(i) ==
  LET l == at[i].l IN
  /\ at[i].line = "return"
  /\ at' = [ at EXCEPT ![i].line = "back", ![i].root = IF links[l].prev = l THEN 1 ELSE 0 ]
  /\ UNCHANGED << links, degree >>

CycleNext ==
  /\ \E i \in DOMAIN at : SpliceNext(i) \/ SplicePrev(i) \/ Up(i) \/ CountDown(i) \/ CycleReturn(i)
  /\ UNCHANGED << permutation, priority >>

CycleOver == \A i \in DOMAIN at : at[i].line = "back"

(* The cycle that v is on.                                                 *)
CycleOf(v) ==
  LET q[k \in Nat] == IF k = 0 THEN v ELSE permutation[q[k - 1]]
  IN  { q[k] : k \in 0..Cardinality(Link) }

Alone(C) == { v \in C : \A u \in C : priority[u] <= priority[v] }

(* Each cycle is counted once, by one task, whichever comes last; but a    *)
(* cycle of one link is not counted, nor one with two of its links above   *)
(* all others, which wait for each other.                                  *)
CyclesCounted ==
  CycleOver =>
    FoldSet(LAMBDA i, sum : sum + at[i].root, 0, Link)
      = Cardinality({ C \in { CycleOf(v) : v \in Link } : Cardinality(C) > 1 /\ Cardinality(Alone(C)) = 1 })
=============================================================================
