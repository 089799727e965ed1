-------------------------------- MODULE Scheme --------------------------------
(****************************************************************************)
(* Sessions with the Scheme interpreter: a user types expressions at the    *)
(* prompt.  The same session runs in two builds of the interpreter: one     *)
(* that collects after every evaluation (ALWAYS_GC in alloc.c) and one that *)
(* never has to.                                                            *)
(****************************************************************************)
EXTENDS SchemeEval

CONSTANTS Line,      \* the texts the user may type
          MaxTurns   \* bound: expressions typed in one session

ASSUME SchemeAssumption == MaxTurns \in Nat

VARIABLES machine,   \* the build that collects
          roomy,     \* the build that does not
          printed,   \* what each printed last
          turns,
          reading    \* false once the loop has ended

schemeVars == <<machine, roomy, printed, turns, reading>>

(* What print_value shows of a value.  Lambdas show their text. *)
RECURSIVE print_value(_, _)
print_value(m, v) ==
    CASE v = Null -> <<[type |-> "NULL"]>>
      [] is_cons_pair(m, v) ->
           <<print_value(m, m.heap[v].car), print_value(m, m.heap[v].cdr)>>
      [] is_lambda(m, v) ->
           IF m.heap[v].native THEN <<[type |-> m.heap[v].func]>>
           ELSE <<print_value(m, m.heap[v].arg_spec), print_value(m, m.heap[v].body)>>
      [] OTHER -> <<m.heap[v]>>

Shown(turn) ==
    IF turn.m.fault # "" THEN <<[type |-> turn.m.fault]>>
    ELSE print_value(turn.m, turn.r)

SchemeInit ==
    /\ machine = Started(TRUE).m
    /\ roomy = Started(FALSE).m
    /\ printed = [machine |-> <<>>, roomy |-> <<>>]
    /\ turns = 0
    /\ reading = Started(TRUE).ok

Running == reading /\ machine.fault = "" /\ roomy.fault = ""

(* What one turn leaves of the two builds. *)
Turned(turn, other) ==
    /\ machine' = IF turn.more THEN Tidy(turn.m) ELSE turn.m
    /\ roomy' = IF other.more THEN Tidy(other.m) ELSE other.m
    /\ printed' = [machine |-> Shown(turn), roomy |-> Shown(other)]
    /\ turns' = turns + 1
    /\ reading' = turn.more

(* What is left of the line after the first expression is read next; lines  *)
(* of one expression are enough.                                            *)
read_eval_print_loop(line) ==
    /\ Running /\ turns < MaxTurns
    /\ Turned(Turn(machine, line), Turn(roomy, line))

SchemeNext == \E line \in Line : read_eval_print_loop(line)

SchemeSpec == SchemeInit /\ [][SchemeNext]_schemeVars

-----------------------------------------------------------------------------
(* Whether and when the interpreter collects is not to be seen: both builds *)
(* print the same and stop at the same faults, as long as no lambda's       *)
(* environment was freed under a body of several expressions.               *)
CollectionIsInvisible ==
    machine.fault # "body" => printed.machine = printed.roomy

(* Nothing an evaluation in progress holds is freed under it: the operands  *)
(* collected so far, a let's bindings, the operator, the result on its way  *)
(* out.                                                                     *)
NothingUsedIsFreed == machine.fault # "freed"

(* Between expressions the stack holds the root context alone, and the heap *)
(* exactly what the global environment reaches: nothing leaks, whatever way *)
(* the evaluation ended.                                                    *)
NothingLeaks ==
    Running => /\ Len(machine.stack) = 1
               /\ DOMAIN machine.heap = Marked(machine, {machine.global})

(* "These don't need registered on the explicit stack.  (I hope.)"          *)
(* (evaluator.c:527, of the environment a lambda's body is evaluated in).   *)
ChildEnvironmentSurvives == machine.fault # "body"
=============================================================================
