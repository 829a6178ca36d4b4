------------------------------- MODULE Generator -------------------------------
(***************************************************************************)
(* Synthetic edge lists: class Generator of src/src/generator.h.  A list is  *)
(* cut into blocks, and the thread that gets a block seeds its generator     *)
(* anew for it, so that the list does not depend on who gets which block.    *)
(*                                                                          *)
(* A block is filled from thread-local state into slots of its own, in one   *)
(* step.  The random numbers are std::mt19937's and come from outside.       *)
(***************************************************************************)
EXTENDS Integers, Sequences, FiniteSets, SequencesExt, FiniteSetsExt, Functions

CONSTANTS
  GenWorkers,       \* the threads of its OpenMP teams
  gen_block_size,   \* block_size of the class, 2^18 in the code
  kRandSeed,
  rng_max,          \* the largest random number, 2^32 - 1 in the code
  Random(_, _),     \* the numbers that follow after a seed, from 0 on
  Shuffle(_)        \* std::shuffle of the numbers below n by the seeded generator

ASSUME GeneratorAssumption ==
  /\ IsFiniteSet(GenWorkers) /\ GenWorkers # {}
  /\ gen_block_size \in Nat \ {0} /\ kRandSeed \in Nat /\ rng_max \in Nat

VARIABLES
  job,          \* what is made: "uniform", "rmat", "weights" or nothing
  items,        \* the list that is being filled, edges or weights
  blocks,       \* the blocks that no thread has taken
  rng           \* of every thread: the seed and how many numbers it has given

gen_vars == <<job, items, blocks, rng>>

Unseeded == [seed |-> kRandSeed - 1, given |-> 0]
NoJob == [kind |-> "none"]

GenInit ==
  /\ job = NoJob
  /\ items = <<>>
  /\ blocks = {}
  /\ rng = [w \in GenWorkers |-> Unseeded]

--------------------------------------------------------------------------------
(* UniDist: numbers up to max_value, all equally often: the numbers from     *)
(* cutoff on, which would make the small ones more frequent, are rejected.   *)
UniDist(max_value) ==
  LET mod == max_value + 1
      remainder_sub_1 == rng_max % mod
  IN  [no_mod |-> rng_max = max_value, mod |-> mod,
       cutoff |-> IF remainder_sub_1 = mod - 1 THEN 0 ELSE rng_max - remainder_sub_1]

Accepts(dist, rand_num) == dist.no_mod \/ dist.cutoff = 0 \/ rand_num < dist.cutoff

MaxRejects == 8       \* bounds the retries of one draw

(* One draw: the number, and how many the generator has given after it.      *)
Draw(dist, seed, given) ==
  LET at == Min({k \in given .. given + MaxRejects : Accepts(dist, Random(seed, k))})
      rand_num == Random(seed, at)
  IN  [value |-> IF dist.no_mod THEN rand_num ELSE rand_num % dist.mod, given |-> at + 1]

(* Edge(udist(), udist()): the language does not say which is drawn first.   *)
UniformEdge(g, seed, given) ==
  LET dist == UniDist(g.num_nodes - 1)
      first == Draw(dist, seed, given)
      second == Draw(dist, seed, first.given)
  IN  [value |-> IF g.left_first THEN <<first.value, second.value>>
                 ELSE <<second.value, first.value>>,
       given |-> second.given]

(* R-MAT: a quarter of the matrix is chosen scale times, by Graph500's       *)
(* probabilities in parts of rng_max.                                        *)
A == (57 * rng_max) \div 100
B == (19 * rng_max) \div 100
RMatEdge(g, seed, given) ==
  LET bit(test) == IF test THEN 1 ELSE 0
      rand_point(depth) == Random(seed, given + depth - 1)
      Descend[depth \in 0 .. g.scale] ==
        IF depth = 0 THEN <<0, 0>>
        ELSE LET p == rand_point(depth) IN
             <<2 * Descend[depth - 1][1] + bit(p >= A + B),
               2 * Descend[depth - 1][2] + bit(IF p < A + B THEN p > A ELSE p > A + B + B)>>
  IN  [value |-> Descend[g.scale], given |-> given + g.scale]

Weight(seed, given) ==
  LET drawn == Draw(UniDist(254), seed, given) IN [drawn EXCEPT !.value = @ + 1]

Item(g, seed, given) ==
  CASE g.kind = "uniform" -> UniformEdge(g, seed, given)
    [] g.kind = "rmat" -> RMatEdge(g, seed, given)
    [] g.kind = "weights" -> Weight(seed, given)

(* length items in a row.                                                    *)
Stream(g, from, length) ==
  LET Drawn[n \in 0 .. length] ==
        IF n = 0 THEN [values |-> <<>>, given |-> from.given]
        ELSE LET item == Item(g, from.seed, Drawn[n - 1].given)
             IN  [values |-> Append(Drawn[n - 1].values, item.value), given |-> item.given]
  IN  Drawn[length]

--------------------------------------------------------------------------------
(* The parallel loops of MakeUniformEL, MakeRMatEL and InsertWeights.        *)

(* g has the kind, the length of the list and, for edges, num_nodes or scale *)
(* and the order of the draws.                                               *)
Begin(g) ==
  /\ job' = g
  /\ items' = [e \in 1 .. g.length |-> <<>>]
  /\ blocks' = 0 .. (g.length - 1) \div gen_block_size
  /\ rng' = [w \in GenWorkers |-> Unseeded]

BlockLength(b) == Min({gen_block_size, job.length - b * gen_block_size})

Filled(b, values) ==
  [e \in DOMAIN items |->
     IF (e - 1) \div gen_block_size = b THEN values[((e - 1) % gen_block_size) + 1] ELSE items[e]]

(* Faulty variant: a thread seeds its generator before its first block only. *)
FillUnseeded(w) ==
  \E b \in blocks :
    LET from == IF rng[w] = Unseeded THEN [seed |-> kRandSeed + b, given |-> 0] ELSE rng[w]
        stream == Stream(job, from, BlockLength(b))
    IN  /\ items' = Filled(b, stream.values)
        /\ rng' = [rng EXCEPT ![w] = [seed |-> from.seed, given |-> stream.given]]
        /\ blocks' = blocks \ {b}
        /\ UNCHANGED job

Fill(w) ==
  \E b \in blocks :
    LET from == [seed |-> kRandSeed + b, given |-> 0]
        stream == Stream(job, from, BlockLength(b))
    IN  /\ items' = Filled(b, stream.values)
        /\ rng' = [rng EXCEPT ![w] = [seed |-> from.seed, given |-> stream.given]]
        /\ blocks' = blocks \ {b}
        /\ UNCHANGED job

(* After the loop; the ids of an R-MAT list are shuffled by PermuteIDs.      *)
Made == job # NoJob /\ blocks = {}

PermuteIDs(edges, num_nodes) ==
  LET permutation == Shuffle(num_nodes)
  IN  [e \in DOMAIN edges |-> <<permutation[edges[e][1]], permutation[edges[e][2]]>>]

Result == IF job.kind = "rmat" THEN PermuteIDs(items, job.num_nodes) ELSE items

--------------------------------------------------------------------------------
(* The list as one thread makes it, block after block.                       *)
SerialItems ==
  FlattenSeq([b \in 1 .. (job.length - 1) \div gen_block_size + 1 |->
    Stream(job, [seed |-> kRandSeed + b - 1, given |-> 0], BlockLength(b - 1)).values])

(* generator.h:26: "parallelism with deterministic output edgelist": the     *)
(* list is the same however the blocks were distributed and in whatever      *)
(* order they were filled; vertices and weights are in their range.          *)
ListIsReproducible ==
  Made => /\ items = SerialItems
          /\ \A e \in DOMAIN items :
               IF job.kind = "weights" THEN items[e] \in 1 .. 255
               ELSE items[e] \in (0 .. job.num_nodes - 1) \X (0 .. job.num_nodes - 1)

================================================================================
