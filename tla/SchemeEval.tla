------------------------------ MODULE SchemeEval ------------------------------
(****************************************************************************)
(* The evaluator of the Scheme interpreter (scheme24/evaluator.c), its      *)
(* special forms (special_forms.c), reader (parse.c) and read-eval-print    *)
(* loop (repl.c).  Every evaluation pushes a context, pops it, leaves its   *)
(* result with the context below and collects garbage.                      *)
(*                                                                          *)
(* A text is a sequence of tokens.  NumberOf gives the numbers among them   *)
(* their values, Strings are the quoted ones, File the texts of files.      *)
(****************************************************************************)
EXTENDS SchemeNatives

CONSTANTS NumberOf, Strings, File

-----------------------------------------------------------------------------
(* The reader: what is read, and the tokens that are left. *)

Read(x, rest) == [m |-> x.m, r |-> x.r, rest |-> rest]

read_atom_or_number(m, token) ==
    CASE token \in DOMAIN NumberOf -> make_float(m, NumberOf[token])
      [] token = "nil" -> make_nil(m)
      [] token \in {"#t", "#f"} -> make_bool(m, token = "#t")
      [] OTHER -> make_atom(m, token)

(* A closing parenthesis or a period out of place and the end of the text   *)
(* read as NULL.  A list that the end of the text cuts short never ends.    *)
RECURSIVE read_value(_, _), read_list(_, _, _)
read_value(m, text) ==
    IF text = <<>> THEN Read(R(m, Null), <<>>)
    ELSE LET token == Head(text)
             quoted == read_value(m, Tail(text))
             nil == make_nil(quoted.m)
             inner == make_cons(nil.m, quoted.r, nil.r)
             atom == make_atom(inner.m, "quote")
         IN  CASE token = "(" -> read_list(m, Tail(text), <<>>)
               [] token = "'" -> Read(make_cons(atom.m, atom.r, inner.r), quoted.rest)
               [] token \in {")", "."} -> Read(R(m, Null), Tail(text))
               [] token \in Strings -> Read(make_string(m, token), Tail(text))
               [] OTHER -> Read(read_atom_or_number(m, token), Tail(text))

(* pairs are the list's pairs so far; the last one has no cdr yet.  A dotted *)
(* value that reads as NULL fails the assertion of set_cdr.                 *)
read_list(m, text, pairs) ==
    LET token == Head(text)
        last == pairs[Len(pairs)]
        elem == read_value(m, text)
        pair == make_cons(elem.m, elem.r, Null)
        linked == IF pairs = <<>> THEN pair.m
                  ELSE [pair.m EXCEPT !.heap[last].cdr = pair.r]
        nil == make_nil(m)
        tail == read_value(m, Tail(text))
        Closed(x) == R(set_cdr(x.m, last, x.r).m, pairs[1])
    IN  CASE text = <<>> -> Read(Fault(m, "endless list"), <<>>)
          [] text # <<>> /\ token = ")" ->
               Read(IF pairs = <<>> THEN nil ELSE Closed(nil), Tail(text))
          [] text # <<>> /\ token = "." ->
               IF pairs = <<>> THEN Read(make_error(m), Tail(text))
               ELSE IF Stop(tail) THEN tail
               ELSE IF tail.rest = <<>> THEN Read(make_error(tail.m), <<>>)
               ELSE Read(IF Head(tail.rest) = ")" THEN Closed(tail) ELSE make_error(tail.m),
                         Tail(tail.rest))
          [] OTHER -> IF Stop(elem) THEN elem
                      ELSE read_list(linked, elem.rest, Append(pairs, pair.r))

-----------------------------------------------------------------------------
(* Binding arguments to names. *)

(* The names of a let.  values is never shorter or longer than names: both  *)
(* lists are built together.                                                *)
RECURSIVE bind_names_values(_, _, _, _)
bind_names_values(m, env, names, values) ==
    IF "freed" \in {type(m, names), type(m, values)} THEN Fault(m, "freed")
    ELSE IF ~is_cons_pair(m, names) THEN R(m, Null)
    ELSE LET bound == create_binding(m, env, m.heap[m.heap[names].car].string,
                                     m.heap[values].car)
         IN  bind_names_values(bound.m, env, m.heap[names].cdr, m.heap[values].cdr)

(* An atom takes all the operands that are left. *)
RECURSIVE bind_arguments(_, _, _, _)
bind_arguments(m, env, names, operands) ==
    CASE is_atom(m, names) -> R(create_binding(m, env, m.heap[names].string, operands).m, Null)
      [] is_nil(m, names) -> IF is_nil(m, operands) THEN R(m, Null) ELSE make_error(m)
      [] is_nil(m, operands) /\ is_cons_pair(m, names) -> make_error(m)
      [] OTHER ->
           LET bound == create_binding(m, env, m.heap[m.heap[names].car].string,
                                       m.heap[operands].car)
           IN  IF bound.m.fault # "" THEN bound
               ELSE bind_arguments(bound.m, env, m.heap[names].cdr, m.heap[operands].cdr)

-----------------------------------------------------------------------------
(* Special forms.  env is an environment and expr the whole form. *)

RECURSIVE evaluate(_, _, _)

(* The expressions of a begin, a let or a clause of a cond, in order. *)
RECURSIVE eval_sequence(_, _, _)
eval_sequence(m, env, exprs) ==
    LET expr == get_car(m, exprs)
        result == evaluate(m, env, expr.r)
        rest == get_cdr(result.m, exprs)
    IN  CASE Stop(expr) -> expr
          [] ~Stop(expr) /\ Stop(result) -> result
          [] OTHER -> IF Stop(rest) THEN rest
                      ELSE IF is_nil(rest.m, rest.r) THEN result
                      ELSE eval_sequence(rest.m, env, rest.r)

eval_begin(m, env, expr) ==
    LET exprs == get_cdr(m, expr)
    IN  IF Stop(exprs) THEN exprs ELSE eval_sequence(m, env, exprs.r)

(* The names and the values of a let gather in two registered lists. *)
AppendLocal(x, local) ==
    LET list == append_value_to_list(x.m, x.m.stack[Len(x.m.stack)].locals[local], x.r)
    IN  IF Stop(x) THEN x
        ELSE IF Stop(list) THEN list ELSE R(Assign(list.m, local, list.r), list.r)

(* The bindings of a let, evaluated outside it. *)
RECURSIVE eval_bindings(_, _, _)
eval_bindings(m, env, bindings) ==
    LET binding == get_car(m, bindings)
        name == get_car(binding.m, binding.r)
        named == AppendLocal(name, "binding_names")
        expr == get_nth(named.m, binding.r, 1)
        value == AppendLocal(evaluate(expr.m, env, expr.r), "binding_values")
    IN  IF is_nil(m, bindings) THEN R(m, Null)
        ELSE IF ~is_atom(name.m, name.r) THEN make_error(name.m)
        ELSE IF Stop(value) THEN value
        ELSE eval_bindings(value.m, env, get_cdr(value.m, bindings).r)

(* Leaving a let: its context is popped, whatever the result. *)
LeaveLet(result) == R(pop_evalctx(result.m, result.r), result.r)

(* The body of a let, once its bindings are evaluated, in a context and an  *)
(* environment of its own.                                                  *)
eval_let_body(bound, env, body) ==
    LET heads == bound.m.stack[Len(bound.m.stack)].locals
        child_env == make_environment(bound.m, env)
        pushed == push_new_evalctx(child_env.m, child_env.r, body)
        named == bind_names_values(pushed, child_env.r, heads["binding_names"],
                                   heads["binding_values"])
    IN  IF Stop(bound) THEN bound
        ELSE LeaveLet(eval_sequence(named.m, child_env.r, body))

(* A let without bindings, (let), reaches the pop that ends it without      *)
(* having pushed a context of its own.                                      *)
eval_let(m, env, expr) ==
    LET bindings == get_nth(m, expr, 1)
        body == get_cdr(m, get_cdr(m, expr).r)
        no_names == make_nil(m)
        no_values == make_nil(no_names.m)
        lists == Assign(Assign(no_values.m, "binding_names", no_names.r),
                        "binding_values", no_values.r)
    IN  IF Stop(bindings) THEN LeaveLet(bindings)
        ELSE eval_let_body(eval_bindings(lists, env, bindings.r), env, body.r)

eval_if(m, env, expr) ==
    LET test_expr == get_nth(m, expr, 1)
        true_expr == get_nth(m, expr, 2)
        false_expr == get_nth(m, expr, 3)
        test == evaluate(m, env, test_expr.r)
    IN  CASE Stop(false_expr) -> false_expr
          [] ~Stop(false_expr) /\ Stop(test) -> test
          [] OTHER -> evaluate(test.m, env,
                               IF is_true(test.m, test.r) THEN true_expr.r
                                                          ELSE false_expr.r)

(* The tests of an and (which stops at a false one) or an or (at a true     *)
(* one); result is the last test's, NULL when there was none.               *)
RECURSIVE eval_tests(_, _, _, _, _)
eval_tests(m, env, exprs, result, going_on) ==
    LET expr == get_car(m, exprs)
        test == evaluate(m, env, expr.r)
        Result(x) == IF x.r = Null THEN make_bool(x.m, going_on) ELSE x
    IN  CASE is_nil(m, exprs) -> Result(R(m, result))
          [] ~is_nil(m, exprs) /\ Stop(expr) -> expr
          [] OTHER -> IF Stop(test) THEN test
                      ELSE IF is_true(test.m, test.r) # going_on THEN Result(test)
                      ELSE eval_tests(test.m, env, get_cdr(test.m, exprs).r, test.r, going_on)

eval_and(m, env, expr) == eval_tests(m, env, get_cdr(m, expr).r, Null, TRUE)

eval_or(m, env, expr) == eval_tests(m, env, get_cdr(m, expr).r, Null, FALSE)

RECURSIVE eval_clauses(_, _, _)
eval_clauses(m, env, clauses) ==
    LET clause == get_car(m, clauses)
        test_expr == get_car(m, clause.r)
        rest == get_cdr(m, clauses)
        is_else == is_atom(m, test_expr.r) /\ m.heap[test_expr.r].string = "else"
        test == IF is_else THEN make_bool(m, TRUE) ELSE evaluate(m, env, test_expr.r)
        exprs == get_cdr(test.m, clause.r)
    IN  CASE Stop(clause) -> clause
          [] ~Stop(clause) /\ ~is_cons_pair(m, clause.r) -> make_error(m)
          [] OTHER ->
               IF Stop(test_expr) THEN test_expr
               ELSE IF is_else /\ ~is_nil(m, rest.r) THEN make_error(m)
               ELSE IF Stop(test) THEN test
               ELSE IF is_true(test.m, test.r)
                 THEN IF is_nil(test.m, exprs.r) THEN test
                      ELSE eval_sequence(test.m, env, exprs.r)
               ELSE IF is_nil(test.m, rest.r) THEN make_error(test.m)
               ELSE eval_clauses(test.m, env, rest.r)

eval_cond(m, env, expr) == eval_clauses(m, env, get_cdr(m, expr).r)

(* (define (name . args) body ...) *)
eval_sugared_define(m, env, expr) ==
    LET func_spec == m.heap[expr].car
        func_name == get_car(m, func_spec)
        func_args == get_cdr(m, func_spec)
        body == get_cdr(m, expr)
        lambda == make_lambda(m, env, func_args.r, body.r)
    IN  CASE ~is_atom(m, func_name.r) -> make_error(m)
          [] is_atom(m, func_name.r) /\ is_nil(m, func_args.r) -> make_error(m)
          [] OTHER -> IF Stop(lambda) THEN lambda
                      ELSE create_binding(lambda.m, env, m.heap[func_name.r].string,
                                          lambda.r)

eval_define(m, env, expr) ==
    LET name == get_nth(m, expr, 1)
        val_expr == get_nth(m, expr, 2)
        val == evaluate(m, env, val_expr.r)
    IN  CASE Stop(name) -> name
          [] ~Stop(name) /\ is_cons_pair(m, name.r) ->
               eval_sugared_define(m, env, m.heap[expr].cdr)
          [] ~Stop(name) /\ ~is_cons_pair(m, name.r) ->
               IF ~is_atom(m, name.r) THEN make_error(m)
               ELSE IF Stop(val_expr) THEN val_expr
               ELSE IF Stop(val) THEN val
               ELSE create_binding(val.m, env, m.heap[name.r].string, val.r)

eval_lambda(m, env, expr) ==
    LET arg_spec == get_nth(m, expr, 1)
        body == get_cdr(m, get_cdr(m, expr).r)
    IN  CASE Stop(arg_spec) -> arg_spec
          [] ~Stop(arg_spec) /\ ~is_cons_pair(m, body.r) -> make_error(m)
          [] OTHER -> make_lambda(m, env, arg_spec.r, body.r)

eval_quote(m, env, expr) ==
    LET result == get_nth(m, expr, 1)
        rest == get_cdr(m, get_cdr(m, expr).r)
    IN  CASE Stop(result) -> result
          [] ~Stop(result) /\ ~is_nil(m, rest.r) -> make_error(m)
          [] OTHER -> result

eval_set_bang(m, env, expr) ==
    LET name == get_nth(m, expr, 1)
        val_expr == get_nth(m, expr, 2)
        rest == get_cdr(m, get_cdr(m, get_cdr(m, expr).r).r)
        val == evaluate(m, env, val_expr.r)
    IN  CASE Stop(name) -> name
          [] ~Stop(name) /\ (~is_atom(m, name.r) \/ ~is_nil(m, rest.r)) -> make_error(m)
          [] OTHER -> IF Stop(val) THEN val
                      ELSE update_binding(val.m, env, m.heap[name.r].string, val.r)

(* The form's result, or expr itself when it is no special form. *)
eval_special_form(m, env, expr) ==
    LET car == m.heap[expr].car
        string == m.heap[car].string
    IN  IF ~is_cons_pair(m, expr) THEN R(m, expr)
        ELSE IF ~is_atom(m, car) THEN R(m, expr)
        ELSE CASE string = "begin" -> eval_begin(m, env, expr)
               [] string = "let" -> eval_let(m, env, expr)
               [] string = "if" -> eval_if(m, env, expr)
               [] string = "and" -> eval_and(m, env, expr)
               [] string = "or" -> eval_or(m, env, expr)
               [] string = "cond" -> eval_cond(m, env, expr)
               [] string = "define" -> eval_define(m, env, expr)
               [] string = "lambda" -> eval_lambda(m, env, expr)
               [] string = "quote" -> eval_quote(m, env, expr)
               [] string = "set!" -> eval_set_bang(m, env, expr)
               [] OTHER -> R(m, expr)

-----------------------------------------------------------------------------
(* Evaluation. *)

(* The operands, evaluated from the left into a list in the local operands; *)
(* end is its last pair.                                                    *)
RECURSIVE eval_operands(_, _, _, _)
eval_operands(m, env, exprs, end) ==
    LET val == evaluate(m, env, m.heap[exprs].car)
        nil_value == val.m.heap[end].cdr
        operands == val.m.stack[Len(m.stack)].locals["operands"]
        cons == make_cons(val.m, val.r, IF end = Null THEN operands ELSE nil_value)
        linked == IF end = Null THEN Assign(cons.m, "operands", cons.r)
                  ELSE set_cdr(cons.m, end, cons.r).m
    IN  IF ~is_cons_pair(m, exprs) THEN R(m, m.stack[Len(m.stack)].locals["operands"])
        ELSE IF Stop(val) THEN val
        ELSE IF type(val.m, end) = "freed" THEN Fault(val.m, "freed")
        ELSE eval_operands(linked, env, m.heap[exprs].cdr, cons.r)

(* The body of a lambda.  Its environment is a C local: while the contexts  *)
(* of the body's expressions come and go, only what they leave behind keeps *)
(* it.  An error in an expression before the last one is passed over.       *)
RECURSIVE eval_body(_, _, _)
eval_body(m, child_env, body) ==
    LET expr == get_car(m, body)
        result == evaluate(m, child_env, expr.r)
        rest == get_cdr(result.m, body)
    IN  IF expr.m.fault # "" THEN expr
        ELSE IF child_env \notin DOMAIN m.heap THEN Fault(m, "body")
        ELSE IF result.m.fault # "" THEN result
        ELSE IF is_nil(rest.m, rest.r) THEN result
        ELSE eval_body(rest.m, child_env, rest.r)

RECURSIVE exec_file(_, _)

FileResult(done) ==
    IF done.m.fault # "" THEN R(done.m, Null)
    ELSE IF done.ok THEN make_bool(done.m, TRUE) ELSE make_error(done.m)

scheme_eval_file(m, a) ==
    IF Len(a) # 1 THEN make_error(m)
    ELSE IF type(m, a[1]) # "T_String" THEN make_error(m)
    ELSE FileResult(exec_file(m, m.heap[a[1]].string))

apply(m, operator, operands) ==
    LET f == m.heap[operator]
        child_env == make_environment(m, f.parent_env)
        bound == bind_arguments(child_env.m, child_env.r, f.arg_spec, operands)
    IN  IF f.native
          THEN IF f.func = "eval-file" THEN scheme_eval_file(m, elements(m, operands))
               ELSE Native(m, f.func, operands)
        ELSE IF Stop(bound) THEN bound
        ELSE eval_body(bound.m, child_env.r, f.body)

(* operator is a C local of the evaluation and a registered one. *)
eval_apply(operator, operands) ==
    IF Stop(operands) THEN operands
    ELSE IF \E v \in {operator, operands.r} : v \notin DOMAIN operands.m.heap
      THEN Fault(operands.m, "freed")
    ELSE apply(operands.m, operator, operands.r)

(* A procedure call. *)
eval_call(m, env, expr) ==
    LET operator == evaluate(m, env, m.heap[expr].car)
        nil_value == make_nil(operator.m)
        ready == Assign(Assign(nil_value.m, "operator", operator.r), "operands", nil_value.r)
    IN  IF Stop(operator) THEN operator
        ELSE IF ~is_lambda(operator.m, operator.r) THEN make_error(operator.m)
        ELSE eval_apply(operator.r, eval_operands(ready, env, m.heap[expr].cdr, Null))

(* What is no special form is a name, a call or its own value. *)
eval_other_form(m, env, expr, special) ==
    IF special.m.fault # "" \/ special.r # expr THEN special
    ELSE IF is_atom(m, expr) THEN resolve_binding(m, env, m.heap[expr].string)
    ELSE IF is_cons_pair(m, expr) THEN eval_call(m, env, expr)
    ELSE R(m, expr)

Finish(x) ==
    LET popped == pop_evalctx(x.m, x.r)
    IN  IF x.m.fault # "" THEN x
        ELSE IF type(x.m, x.r) = "freed" THEN Fault(x.m, "freed")
        ELSE IF popped.fault # "" THEN R(popped, Null)
        ELSE R(collect_garbage(popped), x.r)

evaluate(m, env, expr) ==
    LET pushed == push_new_evalctx(m, env, expr)
    IN  IF m.fault # "" THEN R(m, Null)
        ELSE IF "freed" \in {type(m, env), type(m, expr)} THEN Fault(m, "freed")
        ELSE Finish(eval_other_form(pushed, env, expr, eval_special_form(pushed, env, expr)))

-----------------------------------------------------------------------------
(* The read-eval-print loop. *)

(* One turn: read an expression into the bottom context and evaluate it.    *)
(* more is false when nothing was read, which ends the loop: the end of the *)
(* text, but also a parenthesis too many.                                   *)
Turn(m, text) ==
    LET expr == read_value(m, text)
        reset == reset_current_evalctx(expr.m, m.global, expr.r)
        result == evaluate(reset, m.global, expr.r)
    IN  IF expr.m.fault # "" \/ expr.r = Null
          THEN [m |-> expr.m, r |-> Null, rest |-> expr.rest, more |-> FALSE]
          ELSE [m |-> result.m, r |-> result.r, rest |-> expr.rest, more |-> TRUE]

(* The garbage of the last expression stays until the next one. *)
TidyMistaken(m) == reset_current_evalctx(m, m.global, Null)

(* Throwing away all that the evaluation left. *)
Tidy(m) == collect_garbage(reset_current_evalctx(m, m.global, Null))

(* The loop over a file.  Without an output it ends at the first error. *)
RECURSIVE read_eval_file(_, _)
Continue(turn) ==
    IF turn.m.fault # "" \/ ~turn.more THEN [m |-> turn.m, ok |-> TRUE]
    ELSE IF is_error(turn.m, turn.r) THEN [m |-> turn.m, ok |-> FALSE]
    ELSE read_eval_file(Tidy(turn.m), turn.rest)

read_eval_file(m, text) == Continue(Turn(m, text))

(* A file that cannot be opened fails. *)
exec_file(m, filename) ==
    IF filename \notin DOMAIN File THEN [m |-> m, ok |-> FALSE]
    ELSE read_eval_file(m, File[filename])

RECURSIVE BindNatives(_, _)
BindNatives(m, names) ==
    IF names = {} THEN m
    ELSE LET name == CHOOSE n \in names : TRUE
             lambda == make_native_lambda(m, m.global, name)
         IN  BindNatives(create_binding(lambda.m, m.global, name, lambda.r).m,
                         names \ {name})

(* The machine with the global environment and the root context. *)
init_global_environment(gc) ==
    LET empty == [heap |-> <<>>, next |-> 1, stack |-> <<>>, global |-> 1,
                  gc |-> gc, fault |-> ""]
        m == BindNatives(make_environment(empty, Null).m, NativeNames)
    IN  push_new_evalctx(m, Null, Null)

(* main, up to the prompt, which it gives if the standard functions load. *)
Started(gc) == exec_file(init_global_environment(gc), "stdlib.scm")
=============================================================================
