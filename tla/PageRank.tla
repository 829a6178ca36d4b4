-------------------------------- MODULE PageRank --------------------------------
(***************************************************************************)
(* PageRank by pulling: PageRankPullGS of src/src/pr.cc, where new values    *)
(* are visible at once to the threads that are still in the same iteration   *)
(* (Gauss-Seidel), and PageRankPull of src/src/pr_spmv.cc, where they are    *)
(* not (Jacobi).                                                             *)
(*                                                                          *)
(* Scores are exact: they are integers in units of 1 / Unit, and Unit has    *)
(* the factors that MaxIters iterations and a verification divide by.  Every *)
(* access to an element that another thread may write is a step.             *)
(***************************************************************************)
EXTENDS Integers, FiniteSets, FiniteSetsExt, Functions

CONSTANTS
  Workers,          \* the threads of an OpenMP team
  num_nodes,
  Graphs,           \* functions from a vertex to its out-neighbours
  Unit,
  Epsilons,         \* tolerances, in units of 1 / Unit
  MaxIters          \* bounds max_iters, 20 by default

Nodes == 0 .. num_nodes - 1

ASSUME PageRankAssumption ==
  /\ IsFiniteSet(Workers) /\ Workers # {}
  /\ num_nodes \in Nat \ {0} /\ MaxIters \in Nat /\ Unit \in Nat
  /\ Graphs \subseteq [Nodes -> SUBSET Nodes] /\ Epsilons \subseteq Nat
  /\ LET degrees == {d \in 1 .. num_nodes : \E g \in Graphs, n \in Nodes : Cardinality(g[n]) = d}
     IN  Unit % (num_nodes * (20 * ProductSet(degrees)) ^ (MaxIters + 1)) = 0

VARIABLES
  program,          \* "pr" or "pr_spmv"
  out_neigh, max_iters, epsilon,        \* the arguments
  pc, iter,
  scores, outgoing_contrib,
  next_index,       \* of the dynamic schedule
  my,               \* of every thread: its vertex, the neighbours it has still
                    \* to add up, their sum so far, and its part of error
  before            \* auxiliary: the scores when the iteration began

args == <<program, out_neigh, max_iters, epsilon>>
vars == <<args, pc, iter, scores, outgoing_contrib, next_index, my, before>>

out_degree(n) == Cardinality(out_neigh[n])
in_neigh(n) == {m \in Nodes : n \in out_neigh[m]}

Magnitude(x) == IF x < 0 THEN -x ELSE x
Damped(x) == (17 * x) \div 20         \* kDamp is 0.85

init_score == Unit \div num_nodes
base_score == (3 * Unit) \div (20 * num_nodes)

(* A vertex without out-neighbours divides by 0, and nobody reads the result *)
Contrib(score, n) == IF out_degree(n) = 0 THEN 0 ELSE score \div out_degree(n)

Idle == [u |-> -1, todo |-> {}, incoming_total |-> 0, error |-> 0]

Init ==
  /\ program \in {"pr", "pr_spmv"}
  /\ out_neigh \in Graphs /\ max_iters \in 0 .. MaxIters /\ epsilon \in Epsilons
  /\ pc = "loop" /\ iter = 0
  /\ scores = [n \in Nodes |-> init_score]
  /\ outgoing_contrib = [n \in Nodes |-> Contrib(init_score, n)]
  /\ next_index = 0
  /\ my = [w \in Workers |-> Idle]
  /\ before = scores

--------------------------------------------------------------------------------
(* The loop test; pr_spmv computes all contributions before it pulls.        *)
BeginIteration ==
  /\ pc = "loop" /\ iter < max_iters
  /\ pc' = "pull"
  /\ outgoing_contrib' = IF program = "pr" THEN outgoing_contrib
                         ELSE [n \in Nodes |-> Contrib(scores[n], n)]
  /\ before' = scores
  /\ next_index' = 0
  /\ my' = [w \in Workers |-> Idle]
  /\ UNCHANGED <<args, iter, scores>>

OutOfIterations ==
  /\ pc = "loop" /\ iter = max_iters
  /\ pc' = "stopped"
  /\ UNCHANGED <<args, iter, scores, outgoing_contrib, next_index, my, before>>

(* A thread gets a chunk; chunks have one vertex here and 16384 in the code. *)
TakeVertex(w) ==
  /\ pc = "pull" /\ my[w].u = -1 /\ next_index < num_nodes
  /\ next_index' = next_index + 1
  /\ my' = [my EXCEPT ![w] = [u |-> next_index, todo |-> in_neigh(next_index),
                              incoming_total |-> 0, error |-> @.error]]
  /\ UNCHANGED <<args, pc, iter, scores, outgoing_contrib, before>>

AddNeighbour(w) ==
  /\ pc = "pull"
  /\ \E v \in my[w].todo :
       my' = [my EXCEPT ![w].incoming_total = @ + outgoing_contrib[v], ![w].todo = @ \ {v}]
  /\ UNCHANGED <<args, pc, iter, scores, outgoing_contrib, next_index, before>>

(* Faulty variant: changes up and down cancel out.                           *)
SignedChange(new, old) == new - old

Change(new, old) == Magnitude(new - old)

(* Faulty variant: new contributions are visible in both programs.           *)
VisibleAtOnce == TRUE

Visible == program = "pr"

(* scores[u] is nobody else's; only outgoing_contrib[u] can be read.         *)
StoreScore(w) ==
  /\ pc = "pull" /\ my[w].u # -1 /\ my[w].todo = {}
  /\ LET u == my[w].u
         score == base_score + Damped(my[w].incoming_total)
     IN  /\ scores' = [scores EXCEPT ![u] = score]
         /\ outgoing_contrib' = IF ~Visible THEN outgoing_contrib
                                ELSE [outgoing_contrib EXCEPT ![u] = Contrib(score, u)]
         /\ my' = [my EXCEPT ![w] = [Idle EXCEPT !.error = my[w].error + Change(score, scores[u])]]
  /\ UNCHANGED <<args, pc, iter, next_index, before>>

error == SumFunction([w \in Workers |-> my[w].error])

EndIteration ==
  /\ pc = "pull" /\ next_index = num_nodes /\ \A w \in Workers : my[w].u = -1
  /\ iter' = iter + 1
  /\ pc' = IF error < epsilon THEN "converged" ELSE "loop"
  /\ UNCHANGED <<args, scores, outgoing_contrib, next_index, my, before>>

WorkerStep(w) == TakeVertex(w) \/ AddNeighbour(w) \/ StoreScore(w)

Next ==
  \/ BeginIteration
  \/ OutOfIterations
  \/ EndIteration
  \/ \E w \in Workers : WorkerStep(w)

Spec == Init /\ [][Next]_vars

--------------------------------------------------------------------------------
(* One more iteration in push direction, by one thread.                      *)
Pushed(old) ==
  [n \in Nodes |-> base_score + Damped(MapThenSumSet(LAMBDA m : Contrib(old[m], m), in_neigh(n)))]

PRVerifier(target_error) ==
  SumFunction([n \in Nodes |-> Magnitude(Pushed(scores)[n] - scores[n])]) < target_error

(* pr.cc:17,78-79: scores that a run ended with because the total change was *)
(* below epsilon pass the verifier with the same epsilon, however old and    *)
(* new contributions were mixed.                                             *)
ConvergedVerifies == pc = "converged" => PRVerifier(epsilon)

(* pr.cc:25-28 and pr_spmv.cc:23-24: an iteration adds up, for every vertex,  *)
(* contributions that are at most one iteration old, each of them whole; in  *)
(* pr some of them are new, and in pr_spmv none is visible before the next   *)
(* iteration.                                                                *)
IterationIsOneSweep ==
  pc \in {"loop", "converged"} /\ iter > 0 =>
    \A u \in Nodes : \E fresh \in SUBSET in_neigh(u) :
      /\ program = "pr_spmv" => fresh = {}
      /\ scores[u] = base_score + Damped(MapThenSumSet(
            LAMBDA m : Contrib((IF m \in fresh THEN scores ELSE before)[m], m), in_neigh(u)))

================================================================================
