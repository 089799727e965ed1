------------------------------ MODULE Collector ------------------------------
(****************************************************************************)
(* The mark-and-sweep collector of CS24/cs24hw4/scheme24/alloc.c: it frees  *)
(* what neither the global environment nor the stack of evaluation contexts *)
(* reaches.  Its operators work on the machine that SchemeHeap describes.   *)
(*                                                                          *)
(* Definitions whose name ends in Mistaken are not the code: each is the    *)
(* definition after it with one plausible mistake.                          *)
(****************************************************************************)
EXTENDS Integers, Sequences

(* Of the locals a context registers, these are the ones the collector can  *)
(* learn something from: the others hold parts of the expression, of the    *)
(* operands or the child's result.                                          *)
Locals == {"operator", "operands", "binding_names", "binding_values"}

(* Marking a context without its registered locals. *)
mark_eval_contextMistaken(ctx) ==
    {ctx.current_env, ctx.expression, ctx.child_eval_result}

mark_eval_context(ctx) ==
    {ctx.current_env, ctx.expression, ctx.child_eval_result}
        \cup {ctx.locals[x] : x \in Locals}

mark_eval_stack(m) == UNION {mark_eval_context(m.stack[i]) : i \in 1..Len(m.stack)}

(* A closure marked without the environment it closed over. *)
mark_lambdaMistaken(f) == IF f.native THEN {} ELSE {f.arg_spec, f.body}

mark_lambda(f) ==
    {f.parent_env} \cup (IF f.native THEN {} ELSE {f.arg_spec, f.body})

mark_environment(env) ==
    {env.parent_env} \cup {env.bindings[name] : name \in DOMAIN env.bindings}

(* What marking an object marks next. *)
mark_value(v) ==
    CASE v.type = "T_Lambda" -> mark_lambda(v)
      [] v.type = "T_ConsPair" -> {v.car, v.cdr}
      [] v.type = "T_Environment" -> mark_environment(v)
      [] OTHER -> {}

(* The objects that marking the roots marks: those in front are next.       *)
Marked(m, roots) ==
    LET objects == DOMAIN m.heap
        mark[s \in [front : SUBSET objects, marked : SUBSET objects]] ==
            LET reached == UNION {mark_value(m.heap[v]) : v \in s.front}
                now == s.marked \cup s.front
            IN  IF s.front = {} THEN s.marked
                ELSE mark[[front |-> (reached \cap objects) \ now, marked |-> now]]
    IN  mark[[front |-> roots \cap objects, marked |-> {}]]

Reachable(m) == Marked(m, {m.global} \cup mark_eval_stack(m))

(* Freeing everything unmarked, and taking the marks off. *)
sweep(m, marked) == [m EXCEPT !.heap = [v \in marked |-> @[v]]]

collect_garbage(m) == IF m.gc THEN sweep(m, Reachable(m)) ELSE m
=============================================================================
