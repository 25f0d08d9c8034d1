------------------------------- MODULE ForkJoin -------------------------------
(***************************************************************************)
(* How parlay runs a parallel_for: parallel.h, and parfor, parfor_,        *)
(* get_granularity, pardo and wait_until of scheduler.h, over one deque of *)
(* jobs per worker.  It implements the contract ParallelFor.               *)
(*                                                                         *)
(* A worker is its stack of frames, one for each call that has not         *)
(* returned: "loop" for parallel_for, "range" for parfor_ with the pardo   *)
(* in it, "body" for a call of the loop's function that runs no loop.      *)
(* Calls are named as in ParallelFor; index i of loop c is Append(c, i).   *)
(* Deques are atomic, as JobDeque, which WorkStealingDeque implements.     *)
(***************************************************************************)
EXTENDS Integers, Sequences, FiniteSets

CONSTANTS
    Crew, main,      \* the workers, and the one that calls the outermost loop
    NoCall,
    Depth, Calls,    \* the nesting, as in ParallelFor
    Chunks,          \* 128 * num_threads
    Granularities    \* what loops may be called with

Parent(c) == SubSeq(c, 1, Len(c) - 1)
Children(c) == {b \in Calls : b # << >> /\ Parent(b) = c}
Loops == {c \in Calls : Len(c) < Depth}
Size(c) == Cardinality(Children(c))

ForkJoinAssumption ==
    /\ main \in Crew /\ NoCall \notin Calls
    /\ Depth \in Nat \ {0} /\ Chunks \in Nat \ {0} /\ Granularities \subseteq Nat
    /\ << >> \in Calls /\ Calls \subseteq Seq(Nat)
    /\ \A c \in Calls : c # << >> => Parent(c) \in Loops
    /\ \A c \in Loops :
          Size(c) \in Nat /\ Children(c) = {Append(c, i) : i \in 0 .. Size(c) - 1}

VARIABLES
    stack,         \* of each worker, the innermost frame last
    deque,         \* of each worker, the owner's end last
    finished,      \* jobs whose done is set
    returned,      \* calls that have returned
    granularity, conservative   \* the arguments of parallel_for

arguments == <<granularity, conservative>>
fj_vars == <<stack, deque, finished, returned, granularity, conservative>>

LoopFrame(c) == [kind |-> "loop", call |-> c, at |-> "measure",
                 lo |-> 0, hi |-> Size(c), next |-> 0, upto |-> 1]
RangeFrame(c, lo, hi, g, asJob) ==
    [kind |-> "range", call |-> c, at |-> "enter",
     lo |-> lo, hi |-> hi, next |-> lo, gran |-> g, job |-> asJob]
BodyFrame(c) == [kind |-> "body", call |-> c]

(* What f(i) is: a loop nested in the loop, or a body. *)
CallFrame(c) == IF c \in Loops THEN LoopFrame(c) ELSE BodyFrame(c)

FJInit ==
    /\ stack = [w \in Crew |-> IF w = main THEN <<LoopFrame(<< >>)>> ELSE << >>]
    /\ deque = [w \in Crew |-> << >>]
    /\ finished = {} /\ returned = {}
    /\ granularity \in Granularities /\ conservative \in BOOLEAN

-------------------------------------------------------------------------------
Busy(w) == stack[w] # << >>
Top(w) == stack[w][Len(stack[w])]
BelowTop(w) == SubSeq(stack[w], 1, Len(stack[w]) - 1)
TopIs(w, kind, at) == Busy(w) /\ Top(w).kind = kind /\ (kind # "body" => Top(w).at = at)

(* The innermost frame changes to f, and perhaps calls. *)
Set(w, f) == stack' = [stack EXCEPT ![w] = Append(BelowTop(w), f)]
SetAndCall(w, f, callee) == stack' = [stack EXCEPT ![w] = Append(Append(BelowTop(w), f), callee)]
Return(w) == stack' = [stack EXCEPT ![w] = BelowTop(w)]

Larger(a, b) == IF a > b THEN a ELSE b
Smaller(a, b) == IF a < b THEN a ELSE b

(* Only without a granularity is one measured. *)
Measuring(w) == TopIs(w, "loop", "measure") /\ granularity = 0

(* The next index of get_granularity's batch, or of parfor_ when its range *)
(* is not above the granularity.                                           *)
Index(w) ==
    /\ \/ Measuring(w) /\ Top(w).next < Smaller(Top(w).upto, Top(w).hi)
       \/ TopIs(w, "range", "enter") /\ Top(w).next < Top(w).hi
            /\ Top(w).hi - Top(w).lo <= Top(w).gran
    /\ SetAndCall(w, [Top(w) EXCEPT !.next = @ + 1],
                  CallFrame(Append(Top(w).call, Top(w).next)))
    /\ UNCHANGED <<deque, finished, returned, arguments>>

BodyReturns(w) ==
    /\ TopIs(w, "body", "")
    /\ Return(w)
    /\ returned' = returned \cup {Top(w).call}
    /\ UNCHANGED <<deque, finished, arguments>>

(* A batch is over: another one, twice as long, unless it took a           *)
(* microsecond or nothing is left.                                         *)
Batch(w) ==
    /\ Measuring(w)
    /\ Top(w).next = Smaller(Top(w).upto, Top(w).hi)
    /\ Top(w).next < Top(w).hi
    /\ Set(w, [Top(w) EXCEPT !.upto = 2 * @ + 1])
    /\ UNCHANGED <<deque, finished, returned, arguments>>

(* Mutant: what the batches have run is run again. *)
MeasuredAnew(w) ==
    /\ Measuring(w)
    /\ Top(w).next = Smaller(Top(w).upto, Top(w).hi)
    /\ LET f == Top(w)
       IN  SetAndCall(w, [f EXCEPT !.at = "split"],
                      RangeFrame(f.call, 0, f.hi, Larger(f.next, f.hi \div Chunks), FALSE))
    /\ UNCHANGED <<deque, finished, returned, arguments>>

(* The rest of parfor; a loop of one index is that index alone. *)
Measured(w) ==
    /\ Measuring(w)
    /\ Top(w).next = Smaller(Top(w).upto, Top(w).hi)
    /\ LET f == Top(w)
           g == Larger(f.next, f.hi \div Chunks)
       IN  SetAndCall(w, [f EXCEPT !.at = "split"],
                      RangeFrame(f.call, f.next, f.hi, g, FALSE))
    /\ UNCHANGED <<deque, finished, returned, arguments>>

(* A loop whose caller says how many indices to run in a row splits at     *)
(* once; if it has no more of them it is that row.                         *)
Given(w) ==
    /\ TopIs(w, "loop", "measure") /\ granularity # 0
    /\ LET f == Top(w)
       IN  SetAndCall(w, [f EXCEPT !.at = "split"],
                      RangeFrame(f.call, 0, f.hi, granularity, FALSE))
    /\ UNCHANGED <<deque, finished, returned, arguments>>

LoopReturns(w) ==
    /\ TopIs(w, "loop", "split")
    /\ Return(w)
    /\ returned' = returned \cup {Top(w).call}
    /\ UNCHANGED <<deque, finished, arguments>>

-------------------------------------------------------------------------------
Mid(lo, hi) == lo + (9 * (hi - lo + 1)) \div 16

RightJob(f) == [call |-> f.call, lo |-> Mid(f.lo, f.hi), hi |-> f.hi, gran |-> f.gran]
JobFrame(j) == RangeFrame(j.call, j.lo, j.hi, j.gran, TRUE)

(* pardo: push the right half as a job, call the left half. *)
Fork(w) ==
    /\ TopIs(w, "range", "enter")
    /\ Top(w).hi - Top(w).lo > Top(w).gran
    /\ LET f == Top(w)
       IN  /\ deque' = [deque EXCEPT ![w] = Append(@, RightJob(f))]
           /\ SetAndCall(w, [f EXCEPT !.at = "left"],
                         RangeFrame(f.call, f.lo, Mid(f.lo, f.hi), f.gran, FALSE))
    /\ UNCHANGED <<finished, returned, arguments>>

LastJob(w) == deque[w][Len(deque[w])]
Dropped(w) == SubSeq(deque[w], 1, Len(deque[w]) - 1)

(* The left half has returned: the job popped is taken to be the right     *)
(* half, which is called; if there is none, a thief has it: wait.          *)
Pop(w) ==
    /\ TopIs(w, "range", "left")
    /\ LET f == Top(w)
       IN  \/ /\ deque[w] # << >>
              /\ deque' = [deque EXCEPT ![w] = Dropped(w)]
              /\ SetAndCall(w, [f EXCEPT !.at = "right"],
                            RangeFrame(f.call, Mid(f.lo, f.hi), f.hi, f.gran, FALSE))
           \/ /\ deque[w] = << >>
              /\ Set(w, [f EXCEPT !.at = "wait"])
              /\ UNCHANGED deque
    /\ UNCHANGED <<finished, returned, arguments>>

(* parfor_ is over: its indices have been run, the right half has returned,*)
(* or the job that is the right half says it is done.                      *)
HalvesDone(w) ==
    \/ TopIs(w, "range", "right")
    \/ TopIs(w, "range", "enter") /\ Top(w).next = Top(w).hi
         /\ Top(w).hi - Top(w).lo <= Top(w).gran
    \/ TopIs(w, "range", "wait") /\ RightJob(Top(w)) \in finished

AsJob(f) == [call |-> f.call, lo |-> f.lo, hi |-> f.hi, gran |-> f.gran]

(* It returns; if it was run as a job, the job is marked done. *)
RangeReturns(w) ==
    /\ HalvesDone(w)
    /\ Return(w)
    /\ finished' = IF Top(w).job THEN finished \cup {AsJob(Top(w))} ELSE finished
    /\ UNCHANGED <<deque, returned, arguments>>

(* Mutant: thieves take the job its owner is about to pop. *)
StolenYoungest(v) == Len(deque[v])

(* Where thieves take. *)
Stolen(v) == 1
Without(s, k) == SubSeq(s, 1, k - 1) \o SubSeq(s, k + 1, Len(s))

(* A worker without work, or in a wait that is not conservative: it runs   *)
(* the last job of its own deque, else the first of another's.             *)
Idle(w) ==
    \/ ~Busy(w) /\ w # main
    \/ TopIs(w, "range", "wait") /\ ~conservative /\ RightJob(Top(w)) \notin finished

TakeJob(w, v) ==
    /\ Idle(w)
    /\ deque[v] # << >>
    /\ w # v => deque[w] = << >>
    /\ LET k == IF w = v THEN Len(deque[v]) ELSE Stolen(v)
       IN  /\ stack' = [stack EXCEPT ![w] = Append(@, JobFrame(deque[v][k]))]
           /\ deque' = [deque EXCEPT ![v] = Without(@, k)]
    /\ UNCHANGED <<finished, returned, arguments>>

LoopOver == ~Busy(main) /\ UNCHANGED fj_vars

FJNext ==
    \/ \E w \in Crew :
          \/ Index(w) \/ BodyReturns(w) \/ Batch(w) \/ Measured(w) \/ Given(w) \/ LoopReturns(w)
          \/ Fork(w) \/ Pop(w) \/ RangeReturns(w)
          \/ \E v \in Crew : TakeJob(w, v)
    \/ LoopOver

FJSpec == FJInit /\ [][FJNext]_fj_vars

-------------------------------------------------------------------------------
Job == [call : Loops, lo : Nat, hi : Nat, gran : Nat]
Frames == UNION {{stack[w][d] : d \in DOMAIN stack[w]} : w \in Crew}

(* Types; a range never ends before it begins. *)
FJTypeOK ==
    /\ \A f \in Frames :
          /\ f.kind \in {"loop", "range", "body"} /\ f.call \in Calls
          /\ f.kind # "body" => 0 <= f.lo /\ f.lo <= f.next /\ f.next <= f.hi
          /\ f.kind = "loop" => f.at \in {"measure", "split"}
          /\ f.kind = "range" =>
                f.at \in {"enter", "left", "right", "wait"} /\ f.job \in BOOLEAN
    /\ deque \in [Crew -> Seq(Job)]
    /\ finished \subseteq Job /\ returned \subseteq Calls
    /\ granularity \in Granularities /\ conservative \in BOOLEAN

(* The assertion of pardo: a worker back from its left half pops its own   *)
(* right half or nothing, never a job forked further down its stack; and   *)
(* while it waits its deque is empty.                                      *)
PopsRight ==
    \A w \in Crew :
        /\ TopIs(w, "range", "left") /\ deque[w] # << >> => LastJob(w) = RightJob(Top(w))
        /\ TopIs(w, "range", "wait") => deque[w] = << >>

(* Jobs live on the stack of the worker that forked them, and the deque    *)
(* holds pointers: whatever is in a deque or being run as a job belongs to *)
(* a pardo that has not returned.  And, as WorkStealingJob asserts, no job *)
(* is run that is done.                                                    *)
Forked == {RightJob(f) : f \in {g \in Frames :
                                  g.kind = "range" /\ g.at \in {"left", "wait"}}}
JobsAlive ==
    /\ \A w \in Crew : \A d \in DOMAIN deque[w] : deque[w][d] \in Forked \ finished
    /\ \A f \in Frames : f.kind = "range" /\ f.job => AsJob(f) \in Forked \ finished

(* It implements the contract: each call begins once, while its loop runs, *)
(* and a loop returns when all of its calls have.                          *)
OnStacks == {f.call : f \in {g \in Frames : g.kind # "range"}}
LoopsTo(frames, n) ==
    LET loops[d \in 0 .. n] ==
          IF d = 0 THEN << >>
          ELSE IF frames[d].kind = "loop" THEN Append(loops[d - 1], frames[d].call)
               ELSE loops[d - 1]
    IN  loops
LoopsIn(frames) == LoopsTo(frames, Len(frames))[Len(frames)]

CallStatus == [c \in Calls |-> IF c \in OnStacks THEN "running"
                               ELSE IF c \in returned THEN "done" ELSE "open"]
OpenLoops == [w \in Crew |-> LoopsIn(stack[w])]
BodiesRun == [w \in Crew |-> IF TopIs(w, "body", "") THEN Top(w).call ELSE NoCall]
Promise == INSTANCE ParallelFor WITH
    Workers <- Crew, status <- CallStatus, waits <- OpenLoops, runs <- BodiesRun
Promised == Promise!pfvars' = Promise!pfvars \/ Promise!PFNext

===============================================================================
