---------------------------- MODULE Reservations ----------------------------
(***************************************************************************)
(* speculative_for of examples/helper/speculative_for.h, and the greedy    *)
(* algorithms of parlay's examples that are loops of it: a maximal         *)
(* matching, a maximal independent set, minimum spanning forests, a set    *)
(* cover, a colouring and a shuffle; and the spanning forest that has the  *)
(* union_find of those without the loop.                                   *)
(*                                                                         *)
(* The loop: the iterations 0 .. end-1 of a sequential loop, run in rounds *)
(* of parallel tasks.  In a round every iteration first tries to reserve   *)
(* what it is going to write; once all have returned, those that may       *)
(* commit try to, and an iteration that fails goes first in the next       *)
(* round.  An iteration goes on where at[i] says and ends with Returns or  *)
(* CommitReturns.  Tasks are counted from 1, iterations from 0.            *)
(***************************************************************************)
EXTENDS Integers, Sequences, FiniteSets

LOCAL INSTANCE SequencesExt
LOCAL INSTANCE FiniteSetsExt

CONSTANTS start_size      \* what the client asks for as the first round

VARIABLES end,                 \* the number of iterations
          current_round_size,
          carry_forward,       \* the iterations to try again, in order
          number_done,
          keep,                \* what each task of the round has returned
          at,                  \* where each task of the round is
          phase                \* "reserve", "commit" or "over"

sfvars == <<end, current_round_size, carry_forward, number_done, keep, at, phase>>

Size(round, did) == IF round < end - did THEN round ELSE end - did

Tasks == DOMAIN at

(* The iteration that task i of the round runs. *)
Iteration(i) == IF i <= Len(carry_forward) THEN carry_forward[i]
                ELSE number_done + i - 1

StartRound(size) ==
    /\ keep' = [i \in 1 .. size |-> "running"]
    /\ at' = [i \in 1 .. size |-> "reserve"]
    /\ phase' = IF size = 0 THEN "over" ELSE "reserve"

StartLoop(iterations, start) ==
    /\ end = iterations
    /\ current_round_size = IF start > 1 THEN start ELSE 1
    /\ carry_forward = << >>
    /\ number_done = 0
    /\ keep = [i \in 1 .. Size(current_round_size, 0) |-> "running"]
    /\ at = [i \in 1 .. Size(current_round_size, 0) |-> "reserve"]
    /\ phase = IF iterations = 0 THEN "over" ELSE "reserve"

InitLoop(iterations) == StartLoop(iterations, start_size)

(* reserve(j) returns a status. *)
Returns(i, status) ==
    /\ keep' = [keep EXCEPT ![i] = status]
    /\ at' = [at EXCEPT ![i] = "back"]
    /\ UNCHANGED <<end, current_round_size, carry_forward, number_done, phase>>

(* The first tabulate has joined its tasks; the second one starts. *)
StartCommit ==
    /\ phase = "reserve"
    /\ \A i \in Tasks : at[i] = "back"
    /\ phase' = "commit"
    /\ at' = [i \in Tasks |-> IF keep[i] = "try_commit" THEN "commit" ELSE "back"]
    /\ UNCHANGED <<end, current_round_size, carry_forward, number_done, keep>>

CommitReturns(i, ok) == Returns(i, IF ok THEN "done" ELSE "try_again")

LoopOver == phase = "over"

(* The loop is called again, for other iterations.                         *)
RestartLoop(iterations, start) ==
    /\ end' = iterations
    /\ current_round_size' = IF start > 1 THEN start ELSE 1
    /\ carry_forward' = << >>
    /\ number_done' = 0
    /\ StartRound(IF current_round_size' < iterations THEN current_round_size' ELSE iterations)

(* The iterations of the round that are not done, in the order of their    *)
(* tasks.                                                                  *)
Left == LET failed == SelectSeq([i \in Tasks |-> i], LAMBDA i : keep[i] # "done")
        IN  [k \in 1 .. Len(failed) |-> Iteration(failed[k])]

(* The end of a round: the size of the next one doubles if less than a     *)
(* fifth of this one is carried forward.                                   *)
NextRound ==
    /\ phase = "commit"
    /\ \A i \in Tasks : at[i] = "back"
    /\ carry_forward' = Left
    /\ number_done' = number_done + Cardinality(Tasks) - Len(Left)
    /\ current_round_size' =
          IF 5 * Len(Left) < Cardinality(Tasks) THEN 2 * current_round_size
          ELSE current_round_size
    /\ UNCHANGED end
    /\ StartRound(Size(current_round_size', number_done'))

----------------------------------------------------------------------------
(* A round runs different iterations of the loop, the ones carried forward *)
(* before the new ones and all in the order of the loop: lower iterations  *)
(* have the priority a sequential loop would give them (lines 65-80).      *)
LoopWhole ==
    LET round == [i \in Tasks |-> Iteration(i)] IN
    /\ \A i, j \in Tasks : round[i] = round[j] => i = j
    /\ \A i \in Tasks : round[i] \in 0 .. end - 1
    /\ \A i \in Tasks : i > 1 => round[i-1] < round[i]

(* "The first iteration in a block always succeeds" (lines 17-18), which   *)
(* is why the loop ends.                                                   *)
FirstSucceeds ==
    \A i \in Tasks : (i = 1 /\ phase = "commit" /\ at[i] = "back") => keep[i] = "done"

----------------------------------------------------------------------------
(***************************************************************************)
(* maximal_matching of examples/maximal_matching.h: the greedy matching of *)
(* a list of edges, by deterministic reservations.  E[i+1] is the pair     *)
(* E[i] of the code.                                                       *)
(***************************************************************************)
CONSTANTS Vertices,
          Lists(_),   \* the lists of edges tried, over a set of vertices
          Free         \* the largest number: nothing has reserved the slot

VARIABLES E, R, matched

vars_match == <<sfvars, E, R, matched>>

Edge(i) == E[Iteration(i) + 1]
U(i) == Edge(i)[1]
V(i) == Edge(i)[2]

MatchInit == /\ E \in Lists(Vertices)
             /\ R = [v \in Vertices |-> Free]
             /\ matched = [v \in Vertices |-> FALSE]
             /\ InitLoop(Len(E))

Goto(i, pc) == /\ at' = [at EXCEPT ![i] = pc]
               /\ UNCHANGED <<end, current_round_size, carry_forward, number_done, keep, phase>>

(* reservation::reserve is a write_min. *)
Lower(v, i) == IF R[v] = Free \/ Iteration(i) < R[v]
               THEN [R EXCEPT ![v] = Iteration(i)] ELSE R

Reserve(i, v) == R' = Lower(v, i)

(* reserve: give up if an endpoint is matched already, else reserve both.  *)
(* matched is written only while commits run, so it is read in one step.   *)
TestEnds(i) ==
    /\ phase = "reserve" /\ at[i] = "reserve"
    /\ IF matched[U(i)] \/ matched[V(i)] \/ U(i) = V(i) THEN Returns(i, "done")
       ELSE Goto(i, "reserve u")
    /\ UNCHANGED <<E, R, matched>>

ReserveU(i) == /\ at[i] = "reserve u"
               /\ Reserve(i, U(i))
               /\ Goto(i, "reserve v")
               /\ UNCHANGED <<E, matched>>

ReserveV(i) == /\ at[i] = "reserve v"
               /\ Reserve(i, V(i))
               /\ Returns(i, "try_commit")
               /\ UNCHANGED <<E, matched>>

(* commit: an edge that won both ends leaves its number in one of them; an *)
(* edge that won one end frees it.                                         *)
CheckV(i) ==
    /\ at[i] = "commit"
    /\ IF R[V(i)] = Iteration(i)
       THEN R' = [R EXCEPT ![V(i)] = Free] /\ Goto(i, "won v")
       ELSE UNCHANGED R /\ Goto(i, "lost v")
    /\ UNCHANGED <<E, matched>>

WonV(i) ==
    /\ at[i] = "won v"
    /\ IF R[U(i)] = Iteration(i)
       THEN matched' = [matched EXCEPT ![U(i)] = TRUE, ![V(i)] = TRUE]
       ELSE UNCHANGED matched
    /\ CommitReturns(i, R[U(i)] = Iteration(i))
    /\ UNCHANGED <<E, R>>

LostV(i) ==
    /\ at[i] = "lost v"
    /\ IF R[U(i)] = Iteration(i) THEN R' = [R EXCEPT ![U(i)] = Free]
       ELSE UNCHANGED R
    /\ CommitReturns(i, FALSE)
    /\ UNCHANGED <<E, matched>>

MatchTask(i) == TestEnds(i) \/ ReserveU(i) \/ ReserveV(i) \/ CheckV(i) \/ WonV(i) \/ LostV(i)

MatchRounds == (StartCommit \/ NextRound) /\ UNCHANGED <<E, R, matched>>

MatchOver == phase = "over" /\ UNCHANGED vars_match

MatchNext == (\E i \in Tasks : MatchTask(i)) \/ MatchRounds \/ MatchOver

(* The result: the reservations that are left. *)
Result == {R[v] : v \in {w \in Vertices : R[w] # Free}}

----------------------------------------------------------------------------
(* What a sequential pass over the edges would match. *)
MatchGreedy ==
    LET g[k \in 0 .. Len(E)] ==
          IF k = 0 THEN {}
          ELSE LET taken == UNION {{E[j+1][1], E[j+1][2]} : j \in g[k-1]} IN
               IF E[k][1] = E[k][2] \/ E[k][1] \in taken \/ E[k][2] \in taken
               THEN g[k-1] ELSE g[k-1] \cup {k - 1}
    IN  g[Len(E)]

(* The loop "will generate same matching as a greedy sequential matching"  *)
(* (line 12), whatever the order of the tasks in a round, and what is left *)
(* in R is each edge of it, once.                                          *)
SameAsGreedy ==
    phase = "over" => /\ Result = MatchGreedy
                      /\ \A v, w \in Vertices : R[v] = R[w] /\ R[v] # Free => v = w
                      /\ \A v \in Vertices : matched[v] <=> \E j \in MatchGreedy : v \in {E[j+1][1], E[j+1][2]}

(* Between rounds only matched vertices hold a reservation: one that an    *)
(* edge leaves behind on a vertex still free would keep every later edge   *)
(* from it (lines 37 and 42).                                              *)
NoStaleReservation ==
    (phase = "reserve" /\ \A i \in Tasks : at[i] = "reserve")
        => \A v \in Vertices : R[v] # Free => matched[v]

----------------------------------------------------------------------------
(***************************************************************************)
(* MIS of examples/maximal_independent_set.h: the independent set that a   *)
(* sequential greedy pass over the vertices would find, by speculative_for *)
(* over the vertices.  G[u] is the sequence of the neighbours of u; the    *)
(* graph is symmetric and the vertices are 0 .. n-1.                       *)
(***************************************************************************)
CONSTANTS n, Graphs(_)    \* the symmetric graphs tried on n vertices

VARIABLES G, in_set, decided,
          todo             \* the neighbours a task has still to look at

vars_set == <<sfvars, G, in_set, decided, todo>>

SetVertices == 0 .. n - 1

SetInit == /\ G \in Graphs(n)
           /\ in_set = [v \in SetVertices |-> FALSE]
           /\ decided = [v \in SetVertices |-> FALSE]
           /\ todo = [v \in SetVertices |-> G[v]]
           /\ InitLoop(n)

(* check_if_ready looks at one neighbour: it waits for an earlier one that *)
(* is not decided, and stops at one that is in the set.                    *)
Look(i) ==
    LET u == Iteration(i) v == Head(todo[u]) IN
    /\ phase = "reserve" /\ at[i] = "reserve" /\ todo[u] # << >>
    /\ IF v < u /\ ~decided[v]
       THEN Returns(i, "try_again") /\ todo' = [todo EXCEPT ![u] = G[u]]
       ELSE IF v < u /\ in_set[v]
       THEN Returns(i, "try_commit") /\ UNCHANGED todo
       ELSE UNCHANGED sfvars /\ todo' = [todo EXCEPT ![u] = Tail(@)]
    /\ UNCHANGED <<G, in_set, decided>>

(* No earlier neighbour is in the set: u joins it. *)
Join(i) ==
    LET u == Iteration(i) IN
    /\ phase = "reserve" /\ at[i] = "reserve" /\ todo[u] = << >>
    /\ in_set' = [in_set EXCEPT ![u] = TRUE]
    /\ Returns(i, "try_commit")
    /\ UNCHANGED <<G, decided, todo>>

Commit(i) ==
    /\ at[i] = "commit"
    /\ decided' = [decided EXCEPT ![Iteration(i)] = TRUE]
    /\ CommitReturns(i, TRUE)
    /\ UNCHANGED <<G, in_set, todo>>

SetTask(i) == Look(i) \/ Join(i) \/ Commit(i)

SetRounds == (StartCommit \/ NextRound) /\ UNCHANGED <<G, in_set, decided, todo>>

SetOver == phase = "over" /\ UNCHANGED vars_set

SetNext == (\E i \in Tasks : SetTask(i)) \/ SetRounds \/ SetOver

----------------------------------------------------------------------------
(* The greedy set: v is in it when no earlier neighbour is. *)
Earlier(v) == {u \in SetVertices : u < v /\ \E k \in DOMAIN G[v] : G[v][k] = u}

SetGreedy == LET g[v \in SetVertices] == \A u \in Earlier(v) : ~g[u] IN g

(* The loop finds "the lexicographically first MIS" (lines 7-8), and what  *)
(* it says of a vertex is right from the moment the vertex is decided,     *)
(* though in_set is written a phase earlier and read by other tasks.       *)
DecidedRight ==
    /\ \A v \in SetVertices : decided[v] => (in_set[v] <=> SetGreedy[v])
    /\ phase = "over" => \A v \in SetVertices : decided[v]
----------------------------------------------------------------------------
(***************************************************************************)
(* graph_coloring of examples/graph_color.h: the vertices are coloured in  *)
(* order of their degrees, the largest first.  Of the vertex a task has,   *)
(* ngh[i] holds the colours of the neighbours when it has read them.       *)
(***************************************************************************)
VARIABLES ordering,        \* the vertices by rank; ranks is its inverse
          colors, ngh

vars_color == <<sfvars, G, ordering, colors, ngh>>

NoColor == -1

(* parlay::rank of the degrees, by greater: the sort is stable.            *)
Ranked == SortSeq([i \in 1 .. n |-> i - 1],
              LAMBDA u, v : Len(G[u]) > Len(G[v]) \/ (Len(G[u]) = Len(G[v]) /\ u < v))

ranks == [u \in SetVertices |-> CHOOSE r \in SetVertices : ordering[r + 1] = u]

ColorInit == /\ G \in Graphs(n)
             /\ ordering = Ranked
             /\ colors = [u \in SetVertices |-> NoColor]
             /\ ngh = << >>
             /\ InitLoop(n)

Neighbours(u) == {G[u][k] : k \in DOMAIN G[u]}

(* is_ok: no neighbour of higher rank is left.  A round has no colour      *)
(* written before all have asked.                                          *)
IsOk(i) ==
    LET u == ordering[Iteration(i) + 1] IN
    /\ phase = "reserve" /\ at[i] = "reserve"
    /\ Returns(i, IF \E v \in Neighbours(u) : colors[v] = NoColor /\ ranks[v] < Iteration(i)
                  THEN "try_again" ELSE "try_commit")
    /\ UNCHANGED <<G, ordering, colors, ngh>>

(* succeeded: the colours round the vertex, and then the first that is     *)
(* missing there.                                                          *)
Gather(i) ==
    /\ at[i] = "commit"
    /\ ngh' = [j \in DOMAIN ngh \cup {i} |->
                  IF j = i THEN {colors[v] : v \in Neighbours(ordering[Iteration(i) + 1])} ELSE ngh[j]]
    /\ Goto(i, "color")
    /\ UNCHANGED <<G, ordering, colors>>

Color(i) ==
    /\ at[i] = "color"
    /\ colors' = [colors EXCEPT ![ordering[Iteration(i) + 1]] = Min((0 .. n) \ ngh[i])]
    /\ CommitReturns(i, TRUE)
    /\ UNCHANGED <<G, ordering, ngh>>

ColorTask(i) == IsOk(i) \/ Gather(i) \/ Color(i)

ColorRounds == (StartCommit \/ NextRound) /\ UNCHANGED <<G, ordering, colors, ngh>>

ColorOver == phase = "over" /\ UNCHANGED vars_color

ColorNext == (\E i \in Tasks : ColorTask(i)) \/ ColorRounds \/ ColorOver

(* The sequential pass: a vertex gets the first colour that none of its    *)
(* neighbours of higher rank has.                                          *)
ColorGreedy ==
    LET g[r \in SetVertices] ==
          Min((0 .. n) \ {g[ranks[v]] : v \in {w \in Neighbours(ordering[r + 1]) : ranks[w] < r}})
    IN  [u \in SetVertices |-> g[ranks[u]]]

(* "Returns the same coloring as the sequential algorithm" (line 15): a    *)
(* colour once written is that of the pass, and in the end all are, so no  *)
(* two neighbours have one colour.                                         *)
ColorRight ==
    /\ \A u \in SetVertices : colors[u] \in {NoColor, ColorGreedy[u]}
    /\ phase = "over" => \A u \in SetVertices : colors[u] # NoColor /\ colors[u] \notin {colors[v] : v \in Neighbours(u) \ {u}}
----------------------------------------------------------------------------
(***************************************************************************)
(* random_shuffle of examples/knuth_shuffle.h: position i is exchanged     *)
(* with position rand[i] of those up to it, i after all earlier ones where *)
(* it matters.  res[j] is "an id out of range" (line 23) below all others  *)
(* until iteration j is done and above them after that, so that j cannot   *)
(* be reserved before.  What a task has loaded from res is c[i].           *)
(***************************************************************************)
VARIABLES rand, res, items, c

vars_shuffle == <<sfvars, rand, res, items, c>>

ShuffleInit ==
    /\ rand \in {f \in [0 .. n - 1 -> 0 .. n - 1] : \A i \in 0 .. n - 1 : f[i] <= i}
    /\ res = [j \in 0 .. n - 1 |-> -1]
    /\ items = [j \in 0 .. n - 1 |-> j]
    /\ c = << >>
    /\ InitLoop(n)

(* write_min(&res[j], i): a load, and a compare-and-swap if i is less.     *)
LoadReserved(i) ==
    LET it == Iteration(i) j == rand[it] IN
    /\ phase = "reserve" /\ at[i] = "reserve"
    /\ IF j = it THEN Returns(i, "try_commit")
       ELSE IF it < res[j] THEN Goto(i, "write")
       ELSE Returns(i, "try_again")
    /\ c' = [k \in DOMAIN c \cup {i} |-> IF k = i THEN <<res[j]>> ELSE c[k]]
    /\ UNCHANGED <<rand, res, items>>

WriteReserved(i) ==
    LET it == Iteration(i) j == rand[it] IN
    /\ at[i] = "write"
    /\ IF res[j] = c[i][1]
       THEN res' = [res EXCEPT ![j] = it] /\ Returns(i, "try_commit")
       ELSE Goto(i, "reserve") /\ UNCHANGED res
    /\ UNCHANGED <<rand, items, c>>

(* commit: both elements are read, and written, before the positions are   *)
(* let go.                                                                 *)
ReadBoth(i) ==
    LET it == Iteration(i) j == rand[it] IN
    /\ at[i] = "commit"
    /\ IF j = it \/ res[j] = it
       THEN c' = [c EXCEPT ![i] = <<items[it], items[j]>>] /\ Goto(i, "swap")
       ELSE CommitReturns(i, FALSE) /\ UNCHANGED c
    /\ UNCHANGED <<rand, res, items>>

WriteBoth(i) ==
    LET it == Iteration(i) IN
    /\ at[i] = "swap"
    /\ items' = [items EXCEPT ![it] = c[i][2], ![rand[it]] = c[i][1]]
    /\ Goto(i, "release")
    /\ UNCHANGED <<rand, res, c>>

Release(i) ==
    LET it == Iteration(i) IN
    /\ at[i] = "release"
    /\ res' = [res EXCEPT ![it] = n, ![rand[it]] = n]
    /\ CommitReturns(i, TRUE)
    /\ UNCHANGED <<rand, items, c>>

ShuffleTask(i) == LoadReserved(i) \/ WriteReserved(i) \/ ReadBoth(i) \/ WriteBoth(i) \/ Release(i)

ShuffleRounds ==
    /\ \/ StartCommit /\ UNCHANGED c
       \/ NextRound /\ c' = << >>
    /\ UNCHANGED <<rand, res, items>>

ShuffleOver == phase = "over" /\ UNCHANGED vars_shuffle

ShuffleNext == (\E i \in Tasks : ShuffleTask(i)) \/ ShuffleRounds \/ ShuffleOver

(* The sequential shuffle of the first k positions.                        *)
Shuffled ==
    LET q[k \in 0 .. n] ==
          IF k = 0 THEN [j \in 0 .. n - 1 |-> j]
          ELSE [q[k-1] EXCEPT ![k-1] = q[k-1][rand[k-1]], ![rand[k-1]] = q[k-1][k-1]]
    IN  q[n]

(* The parallel shuffle gives what the sequential one gives; no element is *)
(* lost in a round, and no reservation outlives it: a position is out of   *)
(* range again, below or above, when the next one begins.                  *)
ShuffleRight ==
    /\ c = << >> =>
         /\ {items[j] : j \in 0 .. n - 1} = 0 .. n - 1
         /\ \A j \in 0 .. n - 1 : res[j] \in {-1, n}
    /\ phase = "over" => items = Shuffled
----------------------------------------------------------------------------
(***************************************************************************)
(* union_find of examples/helper/union_find.h.  A task seeks the roots of  *)
(* both ends of its edge: loc[i] holds the ends, the second one or both    *)
(* still to be looked up, and the variables of the call of find.  Once a   *)
(* vertex is no root it stays so, hence a test for a root and the read of  *)
(* the parent after it are one step.                                       *)
(***************************************************************************)
VARIABLES parents, loc

Root == -1

UnionFindInit == parents = [v \in Vertices |-> Root]

Seek(u, v) == [ends |-> <<u, v>>, now |-> 1, i |-> u, p |-> u, gp |-> u, step |-> "find"]

(* find returns r for the end that is looked up.                           *)
Found(l, r) ==
    LET ends == [l.ends EXCEPT ![l.now] = r] IN
    IF l.now = 2 THEN [l EXCEPT !.ends = ends, !.step = "found"]
    ELSE [Seek(ends[2], ends[2]) EXCEPT !.ends = ends, !.now = 2]

Find(i) ==
    LET l == loc[i] IN
    \/ /\ l.step = "find"
       /\ loc' = [loc EXCEPT ![i] =
              IF parents[l.i] = Root THEN Found(l, l.i)
              ELSE [l EXCEPT !.p = parents[l.i], !.step = "climb"]]
       /\ UNCHANGED parents
    \/ /\ l.step = "climb"
       /\ loc' = [loc EXCEPT ![i] =
              IF parents[l.p] = Root THEN Found(l, l.p)
              ELSE [l EXCEPT !.gp = parents[l.p], !.step = "shortcut"]]
       /\ UNCHANGED parents
    \/ /\ l.step = "shortcut"
       /\ parents' = [parents EXCEPT ![l.i] = l.gp]
       /\ loc' = [loc EXCEPT ![i] = [l EXCEPT !.i = l.p, !.p = l.gp, !.step = "climb"]]

link(u, v) == parents' = [parents EXCEPT ![u] = v]

(* The root above a vertex, or a vertex of the cycle it leads into. *)
RootOf(v) ==
    LET up[k \in 0 .. Cardinality(Vertices)] ==
          IF k = 0 THEN v
          ELSE IF parents[up[k-1]] = Root THEN up[k-1] ELSE parents[up[k-1]]
    IN  up[Cardinality(Vertices)]

(* The vertices that the edges with the numbers of S connect v with. *)
Reached(S, v) ==
    LET by[k \in 0 .. Cardinality(Vertices)] ==
          IF k = 0 THEN {v}
          ELSE LET near == by[k-1] IN
               near \cup UNION { {E[j+1][1], E[j+1][2]} :
                            j \in {x \in S : {E[x+1][1], E[x+1][2]} \cap near # {}} }
    IN  by[Cardinality(Vertices)]

(* The union-find structure has no cycle, and a vertex has the root of     *)
(* those that the edges of S connect it with and of no others.             *)
Partition(S) ==
    /\ \A v \in Vertices : parents[RootOf(v)] = Root
    /\ \A u, v \in Vertices : RootOf(u) = RootOf(v) <=> v \in Reached(S, u)

----------------------------------------------------------------------------
(***************************************************************************)
(* min_spanning_forest of examples/kruskal.h and examples/filter_kruskal.h.*)
(* An edge is a triple of its ends and its weight.  The second processes   *)
(* the light edges first, and then those of all edges whose ends are still *)
(* in different trees; pass says where it is.  What counts as light is the *)
(* weight at a rank near 2n of a sample whose last element is read past    *)
(* the end of the edges (line 82): any weight.                             *)
(***************************************************************************)
CONSTANTS Weighted,      \* the lists of edges tried
          Cuts           \* the weights that cut_weight may be

VARIABLES SEI, in_mst, pass

vars_forest == <<sfvars, E, R, parents, loc, SEI, in_mst, pass>>

EdgeIds == 0 .. Len(E) - 1

(* Edges are sorted by weight, then by their number. *)
ByWeight(S) ==
    SetToSortSeq(S, LAMBDA a, b : \/ E[a+1][3] < E[b+1][3]
                                  \/ E[a+1][3] = E[b+1][3] /\ a < b)

SeekEdge(j) == LET e == E[SEI[j + 1] + 1] IN Seek(e[1], e[2])

ForestInit(S) ==
    /\ R = [v \in Vertices |-> Free]
    /\ in_mst = [j \in EdgeIds |-> FALSE]
    /\ UnionFindInit
    /\ InitLoop(Cardinality(S))
    /\ SEI = ByWeight(S)
    /\ loc = [i \in Tasks |-> SeekEdge(Iteration(i))]

KruskalInit == E \in Weighted /\ pass = "all" /\ ForestInit(EdgeIds)

FilterInit ==
    /\ E \in Weighted /\ pass = "light"
    /\ \E cut_weight \in Cuts : ForestInit({j \in EdgeIds : E[j+1][3] < cut_weight})

FindEnds(i) ==
    /\ at[i] \in {"reserve", "commit"} /\ Find(i)
    /\ UNCHANGED <<sfvars, E, R, SEI, in_mst, pass>>

(* reserve: both roots, unless they are one.  Nothing reads R meanwhile.   *)
ReserveRoots(i) ==
    LET u == loc[i].ends[1] v == loc[i].ends[2] IN
    /\ at[i] = "reserve" /\ loc[i].step = "found"
    /\ \/ u = v /\ Returns(i, "done") /\ UNCHANGED R
       \/ /\ u # v /\ Returns(i, "try_commit")
          /\ R' = [R EXCEPT ![v] = Lower(v, i)[v], ![u] = Lower(u, i)[u]]
    /\ UNCHANGED <<E, parents, loc, SEI, in_mst, pass>>

(* commit: an edge that has won one root at least is going to link it to   *)
(* the other one.  Only i writes to a reservation that i has won.          *)
CheckRoots(i) ==
    LET u == loc[i].ends[1] v == loc[i].ends[2] IN
    /\ at[i] = "commit" /\ loc[i].step = "found"
    /\ \/ /\ R[v] = Iteration(i)
          /\ R' = IF R[u] = Iteration(i) THEN [R EXCEPT ![u] = Free] ELSE R
          /\ loc' = [loc EXCEPT ![i].ends = <<v, u>>]
          /\ Goto(i, "link")
       \/ /\ R[v] # Iteration(i) /\ R[u] = Iteration(i)
          /\ Goto(i, "link")
          /\ UNCHANGED <<R, loc>>
       \/ /\ R[v] # Iteration(i) /\ R[u] # Iteration(i)
          /\ CommitReturns(i, FALSE)
          /\ UNCHANGED <<R, loc>>
    /\ UNCHANGED <<E, parents, SEI, in_mst, pass>>

Link(i) ==
    /\ at[i] = "link"
    /\ link(loc[i].ends[1], loc[i].ends[2])
    /\ in_mst' = [in_mst EXCEPT ![SEI[Iteration(i) + 1]] = TRUE]
    /\ CommitReturns(i, TRUE)
    /\ UNCHANGED <<E, R, loc, SEI, pass>>

ForestRounds ==
    /\ StartCommit \/ NextRound
    /\ loc' = [i \in DOMAIN at' |-> LET j == Iteration(i)' IN SeekEdge(j)]
    /\ UNCHANGED <<E, R, parents, SEI, in_mst, pass>>

(* The second call of process_edges of filter_kruskal.h gets the edges for *)
(* which a filter finds two roots, one after the other as in a block of    *)
(* it; the finds cut paths short.                                          *)
FilterBegins ==
    /\ phase = "over" /\ pass = "light"
    /\ pass' = "filter"
    /\ loc' = [j \in DOMAIN E |-> Seek(E[j][1], E[j][2])]
    /\ UNCHANGED <<sfvars, E, R, parents, SEI, in_mst>>

FilterFinds(j) ==
    /\ pass = "filter" /\ \A k \in 1 .. j - 1 : loc[k].step = "found"
    /\ Find(j)
    /\ UNCHANGED <<sfvars, E, R, SEI, in_mst, pass>>

FilterRest ==
    LET S == {j \in EdgeIds : loc[j+1].ends[1] # loc[j+1].ends[2]} IN
    /\ pass = "filter" /\ \A j \in DOMAIN E : loc[j].step = "found"
    /\ pass' = "rest"
    /\ SEI' = ByWeight(S)
    /\ RestartLoop(Cardinality(S), start_size)
    /\ loc' = [i \in DOMAIN at' |-> LET e == E[SEI'[i] + 1] IN Seek(e[1], e[2])]
    /\ UNCHANGED <<E, R, parents, in_mst>>

ForestOver == phase = "over" /\ pass \notin {"light", "filter"}

ForestNext ==
    \/ \E i \in Tasks : FindEnds(i) \/ ReserveRoots(i) \/ CheckRoots(i) \/ Link(i)
    \/ \E j \in DOMAIN E : FilterFinds(j)
    \/ ForestRounds \/ FilterBegins \/ FilterRest
    \/ ForestOver /\ UNCHANGED vars_forest

Chosen == {j \in EdgeIds : in_mst[j]}

(* The edges that a sequential pass in order of weight would choose: those *)
(* whose ends no lighter edges connect.                                    *)
Kruskal ==
    {j \in EdgeIds : E[j+1][2] \notin
        Reached({x \in EdgeIds : E[x+1][3] < E[j+1][3] \/ (E[x+1][3] = E[j+1][3] /\ x < j)}, E[j+1][1])}

(* "Earlier edges always win, which is what gives the same tree as the     *)
(* sequential version" (kruskal.h, lines 16-17): a chosen edge is never    *)
(* wrong, in any round, though tasks look up roots while others link them  *)
(* and cut their paths short; and at the end none is missing, whatever     *)
(* filter_kruskal.h took for light.                                        *)
ForestRight == Chosen \subseteq Kruskal /\ (ForestOver => Chosen = Kruskal)

(* "Note that links cannot form a cycle" (line 53): at any time the trees  *)
(* are what the chosen edges connect.                                      *)
TreesRight == Partition(Chosen)

(* A vertex is linked once: what a task is going to link is a root, and no *)
(* other task is going to.                                                 *)
LinkedOnce ==
    \A i \in Tasks : at[i] = "link" =>
        /\ parents[loc[i].ends[1]] = Root
        /\ \A j \in Tasks : at[j] = "link" /\ loc[j].ends[1] = loc[i].ends[1] => i = j

(* Between rounds, and between the passes, no root holds a reservation.    *)
RootsFree ==
    (phase = "reserve" /\ \A i \in Tasks : at[i] = "reserve" /\ loc[i].step = "find")
        => \A v \in Vertices : parents[v] = Root => R[v] = Free

----------------------------------------------------------------------------
(***************************************************************************)
(* spanning_forest of examples/spanning_tree.h: a parallel loop over the   *)
(* edges, in which an edge may link the lower of its two roots once it has *)
(* hooked it.                                                              *)
(***************************************************************************)
CONSTANT Unweighted   \* the lists of edges tried

VARIABLE hooks        \* for each vertex the number of the edge that links it

vars_span == <<E, parents, loc, at, hooks>>

SpanInit ==
    /\ E \in Unweighted
    /\ UnionFindInit
    /\ hooks = [v \in Vertices |-> Len(E)]
    /\ at = [i \in DOMAIN E |-> "seek"]
    /\ loc = [i \in DOMAIN E |-> Seek(E[i][1], E[i][2])]

SeekEnds(i) == at[i] = "seek" /\ Find(i) /\ UNCHANGED <<E, at, hooks>>

(* The two roots are found: if they differ, the lower one is hooked, unless*)
(* another edge has, and then the search goes on from them.                *)
Hook(i) ==
    LET l == loc[i]
        u == IF l.ends[1] < l.ends[2] THEN l.ends[1] ELSE l.ends[2]
        v == IF l.ends[1] < l.ends[2] THEN l.ends[2] ELSE l.ends[1]
    IN
    /\ at[i] = "seek" /\ l.step = "found"
    /\ \/ /\ u = v
          /\ at' = [at EXCEPT ![i] = "back"]
          /\ UNCHANGED <<hooks, loc>>
       \/ /\ u # v /\ hooks[u] # Len(E)
          /\ loc' = [loc EXCEPT ![i] = Seek(u, v)]
          /\ UNCHANGED <<at, hooks>>
       \/ /\ u # v /\ hooks[u] = Len(E)
          /\ hooks' = [hooks EXCEPT ![u] = i - 1]
          /\ loc' = [loc EXCEPT ![i].ends = <<u, v>>]
          /\ at' = [at EXCEPT ![i] = "link"]
    /\ UNCHANGED <<E, parents>>

LinkHooked(i) ==
    /\ at[i] = "link"
    /\ link(loc[i].ends[1], loc[i].ends[2])
    /\ at' = [at EXCEPT ![i] = "back"]
    /\ UNCHANGED <<E, loc, hooks>>

SpanOver == \A i \in Tasks : at[i] = "back"

SpanNext ==
    \/ \E i \in Tasks : SeekEnds(i) \/ Hook(i) \/ LinkHooked(i)
    \/ SpanOver /\ UNCHANGED vars_span

Hooked == {hooks[v] : v \in Vertices} \ {Len(E)}

(* The edges that have linked a vertex are connecting those that the trees *)
(* connect, and no edge of them could be left out: at any time, though a   *)
(* vertex may be hooked and not yet linked.                                *)
SpanRight ==
    LET linked == {j \in Hooked : at[j + 1] = "back"} IN
    /\ Partition(linked)
    /\ \A j \in linked : E[j+1][2] \notin Reached(linked \ {j}, E[j+1][1])
    /\ SpanOver => \A j \in EdgeIds : E[j+1][2] \in Reached(Hooked, E[j+1][1])

----------------------------------------------------------------------------
(***************************************************************************)
(* run of examples/set_cover.h: a subset of the given sets that covers     *)
(* what they do.  Here E is the sequence of the sets, counted from 1, and  *)
(* R[e] the E[e] of the code: the iteration that reserves the element e,   *)
(* Free if none does, or covered.  Sets are in buckets by the number of    *)
(* their elements, and bucket says which one the calls of manis are at.    *)
(***************************************************************************)
CONSTANTS Families,    \* the sequences of sets tried; one is not empty
          Growth,      \* 1 + epsilon, a whole number
          Share        \* 4: a first round has one set in Share of the bucket

VARIABLES S,           \* the elements a set has left
          Si,          \* the sets of this call of manis, in order
          B,           \* the sets of each bucket
          bucket, in_result

vars_cover == <<sfvars, E, R, todo, S, Si, B, bucket, in_result>>

covered == -1

(* The bucket b is for Growth^b elements and more.                         *)
bucket_from_size(k) == CHOOSE b \in 0 .. k : Growth ^ b <= k /\ Growth ^ (b + 1) > k

high == Growth ^ bucket
low == IF bucket = 0 THEN 1 ELSE Growth ^ (bucket - 1)

InBucket(ids, b) == SelectSeq(ids, LAMBDA s : bucket_from_size(Cardinality(S[s])) = b)

CoverInit ==
    /\ E \in Families
    /\ S = E
    /\ R = [e \in UNION {E[s] : s \in DOMAIN E} |-> Free]
    /\ in_result = [s \in DOMAIN E |-> FALSE]
    /\ todo = [s \in DOMAIN E |-> {}]
    /\ bucket = bucket_from_size(Max({Cardinality(E[s]) : s \in DOMAIN E}))
    /\ LET ids == SelectSeq([s \in DOMAIN E |-> s], LAMBDA s : S[s] # {}) IN
       B = [b \in 0 .. bucket |-> InBucket(ids, b)]
    /\ Si = B[bucket]
    /\ StartLoop(Len(Si), Len(Si) \div Share)

SetId(i) == Si[Iteration(i) + 1]

(* reserve: a set that is large enough drops the elements that are covered *)
(* (no other task looks at S[s] meanwhile; the filter is parallel) ..      *)
TestSize(i) ==
    LET s == SetId(i) IN
    /\ phase = "reserve" /\ at[i] = "reserve"
    /\ IF Cardinality(S[s]) < high THEN Returns(i, "done") /\ UNCHANGED todo
       ELSE Goto(i, "filter") /\ todo' = [todo EXCEPT ![s] = S[s]]
    /\ UNCHANGED <<E, R, S, Si, B, bucket, in_result>>

FilterSet(i) ==
    LET s == SetId(i) IN
    /\ at[i] = "filter"
    /\ \E e \in todo[s] :
          /\ S' = IF R[e] = Free \/ R[e] > 0 THEN S ELSE [S EXCEPT ![s] = @ \ {e}]
          /\ todo' = [todo EXCEPT ![s] = @ \ {e}]
    /\ UNCHANGED <<sfvars, E, R, Si, B, bucket, in_result>>

(* .. and reserves the others, one after the other, if it still is.        *)
TestAgain(i) ==
    LET s == SetId(i) IN
    /\ at[i] = "filter" /\ todo[s] = {}
    /\ IF Cardinality(S[s]) < high THEN Returns(i, "done") /\ UNCHANGED todo
       ELSE Goto(i, "reserve all") /\ todo' = [todo EXCEPT ![s] = S[s]]
    /\ UNCHANGED <<E, R, S, Si, B, bucket, in_result>>

ReserveElement(i) ==
    LET s == SetId(i) e == Min(todo[s]) IN
    /\ at[i] = "reserve all"
    /\ Reserve(i, e)
    /\ todo' = [todo EXCEPT ![s] = @ \ {e}]
    /\ IF todo[s] = {e} THEN Returns(i, "try_commit") ELSE UNCHANGED sfvars
    /\ UNCHANGED <<E, S, Si, B, bucket, in_result>>

(* commit: the set is taken if it has reserved enough; if not, it gives up *)
(* what it has.  No other task looks for the number of this one in R.      *)
CommitSet(i) ==
    LET s == SetId(i)
        won == {e \in S[s] : R[e] = Iteration(i)}
        enough == Cardinality(won) >= low
    IN
    /\ at[i] = "commit"
    /\ R' = [e \in DOMAIN R |-> IF e \notin won THEN R[e] ELSE IF enough THEN covered ELSE Free]
    /\ in_result' = [in_result EXCEPT ![s] = @ \/ enough]
    /\ CommitReturns(i, enough)
    /\ UNCHANGED <<E, S, todo, Si, B, bucket>>

CoverRounds == (StartCommit \/ NextRound) /\ UNCHANGED <<E, R, S, todo, Si, B, bucket, in_result>>

(* manis returns the sets that are not taken and have elements left: they  *)
(* go into lower buckets, and the next bucket has its turn.                *)
NextBucket ==
    LET remain == SelectSeq(Si, LAMBDA s : ~in_result[s] /\ S[s] # {}) IN
    /\ phase = "over" /\ bucket > 0
    /\ B' = [b \in DOMAIN B |-> B[b] \o InBucket(remain, b)]
    /\ bucket' = bucket - 1
    /\ Si' = B'[bucket']
    /\ RestartLoop(Len(Si'), Len(Si') \div Share)
    /\ UNCHANGED <<E, R, S, todo, in_result>>

CoverOver == phase = "over" /\ bucket = 0

CoverNext ==
    \/ \E i \in Tasks : TestSize(i) \/ FilterSet(i) \/ TestAgain(i) \/ ReserveElement(i) \/ CommitSet(i)
    \/ CoverRounds \/ NextBucket
    \/ CoverOver /\ UNCHANGED vars_cover

(* The cover "covers all elements the original set covered" (line 16).     *)
(* A set that is taken need not cover its own: it may have reserved only   *)
(* some of them, the others being reserved by a set that then fails.       *)
CoverRight == CoverOver => \A s \in DOMAIN E : \A e \in E[s] : R[e] = covered

(* What makes the cover nearly the smallest: when a bucket has had its     *)
(* turn, no set that is not taken would add high elements or more.         *)
Greedy ==
    phase = "over" =>
        \A s \in DOMAIN E : in_result[s] \/ Cardinality({e \in E[s] : R[e] # covered}) < high

(* Between rounds an element is reserved by nobody, covered by a set that  *)
(* is taken and dropped only if it is covered, though a set may drop it    *)
(* when the first iteration has but reserved it (the test is E[e] > 0).    *)
NoneForgotten ==
    (phase = "reserve" /\ \A i \in Tasks : at[i] = "reserve") =>
        /\ \A e \in DOMAIN R : R[e] \in {Free, covered}
        /\ \A e \in DOMAIN R : R[e] = covered => \E s \in DOMAIN E : in_result[s] /\ e \in E[s]
        /\ \A s \in DOMAIN E : \A e \in E[s] \ S[s] : R[e] = covered

=============================================================================
