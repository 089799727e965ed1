------------------------------ MODULE Algorithms ------------------------------
(****************************************************************************)
(* The pure algorithms of the CS24 assignments, each as an operator on its  *)
(* input: quicksort and all-pairs shortest paths, which the cache simulator *)
(* is measured with (cs24hw5), run-length coding (cs24hw3), the assembly    *)
(* functions (cs24hw2) and the bit counts (cs24hw1).  The words of the      *)
(* functions have Width bits, 32 in the code.                               *)
(****************************************************************************)
EXTENDS Integers, Sequences, SequencesExt, FiniteSetsExt, Bitwise

CONSTANTS Number,           \* the numbers sorted
          MaxLength,        \* bound: the length of a sequence
          Weight, INFINITY, \* the weights of edges, and that of no edge
          Nodes,            \* num_nodes
          MaxCount,         \* the largest count of a run, 255
          Width

VARIABLE input

swap_values(mem, i, j) == [mem EXCEPT ![i] = mem[j], ![j] = mem[i]]

\* partition: the memory, and the index of the pivot, after its loop over i.
RECURSIVE Partitioned(_, _, _, _, _)
Partitioned(mem, pivot, swap_idx, i, end) ==
    IF i = end
    THEN [mem |-> swap_values(mem, swap_idx, end), pivot_idx |-> swap_idx]
    ELSE IF mem[i] < pivot
    THEN Partitioned(swap_values(mem, i, swap_idx), pivot,
                     swap_idx + 1, i + 1, end)
    ELSE Partitioned(mem, pivot, swap_idx, i + 1, end)

partition(mem, start, end) ==
    LET pivot_idx == (start + end) \div 2
    IN  Partitioned(swap_values(mem, pivot_idx, end), mem[pivot_idx],
                    start, start, end)

RECURSIVE quicksort(_, _, _)
quicksort(mem, start, end) ==
    IF end <= start THEN mem
    ELSE LET p == partition(mem, start, end)
         IN  quicksort(quicksort(p.mem, start, p.pivot_idx - 1),
                       p.pivot_idx + 1, end)

\* compute_shortest_paths: the weights and the path nodes after the first n
\* rounds of its three loops.
RECURSIVE Relaxed(_, _)
Relaxed(weight, n) ==
    IF n = 0
    THEN [weight |-> weight, path |-> [e \in DOMAIN weight |-> -1]]
    ELSE LET last == Relaxed(weight, n - 1)
             k == (n - 1) \div (Nodes * Nodes)
             i == ((n - 1) \div Nodes) % Nodes
             j == (n - 1) % Nodes
             weight_ikj == last.weight[i, k] + last.weight[k, j]
         IN  IF weight_ikj < last.weight[i, j]
             THEN [weight |-> [last.weight EXCEPT ![i, j] = weight_ikj],
                   path |-> [last.path EXCEPT ![i, j] = k]]
             ELSE last

compute_shortest_paths(weight) == Relaxed(weight, Nodes * Nodes * Nodes)

\* rlenc's main loop: counts and characters in turn.
rlenc(file) ==
    LET Next(acc, nextch) ==
            IF nextch # acc.lastch \/ acc.count = MaxCount
            THEN [output |-> acc.output \o <<acc.count, acc.lastch>>,
                  lastch |-> nextch, count |-> 1]
            ELSE [acc EXCEPT !.count = @ + 1]
        first == [output |-> << >>, lastch |-> Head(file), count |-> 1]
        all == FoldLeft(Next, first, Tail(file))
    IN  IF file = << >> THEN << >>
        ELSE all.output \o <<all.count, all.lastch>>

\* rl_decode's two loops, over the counts and over the pairs.  The byte that
\* counts down is decremented before it is tested.
find_space_loop(data) ==
    FoldLeft(LAMBDA sum, i : sum + data[2 * i - 1], 0,
             [i \in 1..(Len(data) \div 2) |-> i])
decode_loop(data) ==
    FlattenSeq([i \in 1..(Len(data) \div 2) |->
        [j \in 1..(IF data[2 * i - 1] = 0 THEN MaxCount + 1 ELSE data[2 * i - 1])
            |-> data[2 * i]]])

Signed == (-(2^(Width - 1)))..(2^(Width - 1) - 1)
ToSigned(n) == ((n + 2^(Width - 1)) % 2^Width) - 2^(Width - 1)

\* f1, f2, f3 of math.s; sarl $31 spreads the sign bit over the word.
sarl(x) == IF x < 0 THEN -1 ELSE 0
f1(x, y) == IF y > x THEN x ELSE y
f2(x) == ToSigned((IF sarl(x) = -1 THEN -x - 1 ELSE x) - sarl(x))
f3(x) == IF x > 0 THEN 1 ELSE sarl(x)

fact[n \in Nat] == IF n = 0 THEN 1 ELSE ToSigned(fact[n - 1] * n)

RECURSIVE recur_gcd(_, _)
recur_gcd(a, b) == IF b = 0 THEN a ELSE recur_gcd(b, a % b)

\* count_onebits of onebits.c, and of faster_onebits.c.
RECURSIVE count_onebits(_), faster_count_onebits(_)
count_onebits(n) ==
    IF n = 0 THEN 0 ELSE (n & 1) + count_onebits(n \div 2)
faster_count_onebits(n) ==
    IF n = 0 THEN 0 ELSE 1 + faster_count_onebits(n & (n - 1))

----------------------------------------------------------------------------

Slots(n) == 0..(n - 1)
Edges == Slots(Nodes) \X Slots(Nodes)

Init ==
    \/ \E n \in 1..MaxLength : input \in [sort : [Slots(n) -> Number]]
    \/ input \in [weight : {w \in [Edges -> Weight \cup {0, INFINITY}] :
                              \A e \in Edges : w[e] = 0 <=> e[1] = e[2]}]
    \/ \E n \in 0..MaxLength : input \in [file : [1..n -> {0, 1}]]
    \/ input \in [words : Signed \X Signed]

Sorts(given) ==
    LET sorted == quicksort(given, 0, Cardinality(DOMAIN given) - 1)
        Copies(mem, x) == Cardinality({i \in DOMAIN mem : mem[i] = x})
    IN  /\ \A i \in DOMAIN given : i > 0 => sorted[i - 1] <= sorted[i]
        /\ \A x \in Number : Copies(given, x) = Copies(sorted, x)

\* The least weight of a path from i to j that passes only through S.
RECURSIVE LeastWeight(_, _, _, _)
LeastWeight(weight, i, j, S) ==
    Min({weight[i, j]} \cup {weight[i, k] + LeastWeight(weight, k, j, S \ {k}) :
                              k \in S})

FindsShortestPaths(weight) ==
    LET found == compute_shortest_paths(weight)
    IN  \A e \in Edges :
            LET k == found.path[e]
            IN  /\ found.weight[e] = LeastWeight(weight, e[1], e[2],
                                                 Slots(Nodes) \ {e[1], e[2]})
                /\ k # -1 => found.weight[e] = found.weight[e[1], k]
                                              + found.weight[k, e[2]]

DecodesWhatItEncoded(file) ==
    LET data == rlenc(file)
    IN  /\ decode_loop(data) = file
        /\ find_space_loop(data) = Len(file)

\* The one negative number without an opposite stays as it is.
ComputesFunctions(x, y) ==
    /\ f1(x, y) = Min({x, y})
    /\ f2(x) = IF -x \in Signed THEN Max({x, -x}) ELSE x
    /\ -x \in Signed => f3(x) * f2(x) = x
    /\ x \in 0..8 =>
          fact[x] = ToSigned(FoldLeft(LAMBDA a, b : a * b, 1, [i \in 1..x |-> i]))
    /\ x >= 0 => LET ones == Cardinality({i \in 0..Width : (x \div 2^i) % 2 = 1})
                 IN  count_onebits(x) = ones /\ faster_count_onebits(x) = ones
    /\ x > 0 /\ y > 0 => recur_gcd(x, y) = Max({d \in 1..x : x % d = 0 /\ y % d = 0})

\* Each algorithm computes what its reference definition says: a sorted
\* permutation, shortest paths and the nodes that rebuild them, the file that
\* was encoded, in as much space as was allocated for it, and the functions of
\* their words up to the ends of their range.
AlgorithmsAgree ==
    /\ "sort" \in DOMAIN input => Sorts(input.sort)
    /\ "weight" \in DOMAIN input => FindsShortestPaths(input.weight)
    /\ "file" \in DOMAIN input => DecodesWhatItEncoded(input.file)
    /\ "words" \in DOMAIN input => ComputesFunctions(input.words[1], input.words[2])
=============================================================================
