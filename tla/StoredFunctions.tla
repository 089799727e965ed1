--------------------------- MODULE StoredFunctions ---------------------------
(****************************************************************************)
(* The stored functions of CS121 that compute something from tables:        *)
(* set8's emptree.sql on a hierarchy kept twice, as employee_adjlist and as *)
(* employee_nestset, and set4's submit-stats.sql on the dates of one        *)
(* assignment's file sets.  The work tables emps and depths are empty when  *)
(* a function is called, as its comment assumes.                            *)
(****************************************************************************)
EXTENDS Integers, Sequences, FiniteSets, FiniteSetsExt, SequencesExt, Functions

CONSTANTS Employees,        \* bound: employees 1..Employees, 1 at the root
          Dates             \* the dates of submission

VARIABLE tables

NoManager == 0
INT_MAX == 2147483647
Employee == DOMAIN tables.manager_id
Salary(e) == 2^e            \* salaries whose sums tell the summands apart
SumSalaries(S) == MapThenSumSet(Salary, S)

\* The rows of emps, or depths, once the loop adds no more.
Reports(manager_id, emps) ==
    {e \in DOMAIN manager_id : manager_id[e] \in emps} \ emps
RECURSIVE Subtree(_, _)
Subtree(manager_id, emps) ==
    IF Reports(manager_id, emps) = {} THEN emps
    ELSE Subtree(manager_id, emps \cup Reports(manager_id, emps))

total_salaries_adjlist(e) == SumSalaries(Subtree(tables.manager_id, {e}))

total_salaries_nestset(e) ==
    SumSalaries({f \in Employee : /\ tables.low[e] <= tables.low[f]
                                  /\ tables.high[e] >= tables.high[f]})

leaves_adjlist == Employee \ {tables.manager_id[e] : e \in Employee}

leaves_nestset ==
    {e \in Employee : ~\E f \in Employee : /\ tables.low[e] < tables.low[f]
                                           /\ tables.high[e] > tables.high[f]}

RECURSIVE Layers(_, _, _)
Layers(manager_id, depths, current_depth) ==
    IF Reports(manager_id, depths) = {} THEN current_depth + 1
    ELSE Layers(manager_id, depths \cup Reports(manager_id, depths),
                current_depth + 1)

tree_depth ==
    Layers(tables.manager_id,
           {e \in Employee : tables.manager_id[e] = NoManager}, 0)

emp_reports(e) ==
    Cardinality({f \in Employee :
        /\ tables.low[e] < tables.low[f] /\ tables.high[e] > tables.high[f]
        /\ ~\E g \in Employee :
              /\ tables.low[g] \in (tables.low[e] + 1)..(tables.low[f] - 1)
              /\ tables.high[g] \in (tables.high[f] + 1)..(tables.high[e] - 1)})

\* The intervals that the cursors of max_ and min_submit_interval walk over.
Intervals == [i \in 1..(Len(tables.sub_date) - 1) |->
                tables.sub_date[i + 1] - tables.sub_date[i]]
max_submit_interval ==
    FoldLeft(LAMBDA so_far, d : IF d > so_far THEN d ELSE so_far, 0, Intervals)
min_submit_interval ==
    FoldLeft(LAMBDA so_far, d : IF d < so_far THEN d ELSE so_far, INT_MAX, Intervals)

\* avg_submit_interval, as a dividend and a divisor.
avg_submit_interval ==
    [sum |-> Max(Range(tables.sub_date)) - Min(Range(tables.sub_date)),
     int_num |-> Len(tables.sub_date) - 1]

----------------------------------------------------------------------------

\* The intervals that make-emptree's rows hold for a tree: those of the
\* reports lie side by side within their manager's, with gaps.
RECURSIVE Numbered(_, _)
Numbered(manager_id, e) ==
    LET children == SetToSortSeq({f \in DOMAIN manager_id : manager_id[f] = e}, <)
    IN  <<e>> \o FlattenSeq([i \in DOMAIN children |->
                                Numbered(manager_id, children[i])]) \o <<e>>

Tables(manager_id) ==
    LET order == Numbered(manager_id, 1)
        Places(e) == {i \in DOMAIN order : order[i] = e}
    IN  [manager_id |-> manager_id,
         low |-> [e \in DOMAIN manager_id |-> 3 * Min(Places(e))],
         high |-> [e \in DOMAIN manager_id |-> 3 * Max(Places(e))]]

Init ==
    \/ \E n \in 1..Employees :
          \E manager_id \in [1..n -> 0..n] :
             /\ \A e \in 1..n : manager_id[e] < e /\ (manager_id[e] = NoManager <=> e = 1)
             /\ tables = Tables(manager_id)
    \/ tables \in [sub_date : {s \in BoundedSeq(Dates, 4) :
                                 \A i \in 2..Len(s) : s[i - 1] <= s[i]}]

RECURSIVE Chain(_)
\* An employee and the managers above, by the adjacency list.
Chain(e) == IF e = NoManager THEN {} ELSE {e} \cup Chain(tables.manager_id[e])

TreesAgree ==
    /\ \A e \in Employee :
        LET below == {f \in Employee : e \in Chain(f)}
        IN  /\ total_salaries_adjlist(e) = SumSalaries(below)
            /\ total_salaries_nestset(e) = SumSalaries(below)
            /\ emp_reports(e) = Cardinality({f \in Employee : tables.manager_id[f] = e})
    /\ leaves_adjlist = leaves_nestset
    /\ tree_depth = Max({Cardinality(Chain(e)) : e \in Employee})

IntervalsAgree ==
    Len(tables.sub_date) > 1 =>
        LET avg == avg_submit_interval
        IN  /\ min_submit_interval * avg.int_num <= avg.sum
            /\ avg.sum <= max_submit_interval * avg.int_num
            /\ {min_submit_interval, max_submit_interval} \subseteq Range(Intervals)

\* The two versions of the employee functions give the same answers, those of
\* the hierarchy; and an assignment's mean interval between submissions lies
\* between its least and its greatest, which both occur.
FunctionsAgree ==
    /\ "manager_id" \in DOMAIN tables => TreesAgree
    /\ "sub_date" \in DOMAIN tables => IntervalsAgree
=============================================================================
