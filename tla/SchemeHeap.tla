------------------------------ MODULE SchemeHeap ------------------------------
(****************************************************************************)
(* The data of the Scheme interpreter in CS24/cs24hw4/scheme24: values,     *)
(* environments and the stack of evaluation contexts.                       *)
(*                                                                          *)
(* The interpreter is sequential, so its functions are operators from one   *)
(* machine to the next.  A machine is a record of                           *)
(*   heap    addresses of allocated objects to objects                      *)
(*   next    the next fresh address: an address is never used twice, so one *)
(*           that has left the heap stands for freed memory                 *)
(*   stack   evaluation contexts                                            *)
(*   global  the global environment                                         *)
(*   gc      whether the build collects (ALWAYS_GC) or has room to spare    *)
(*   fault   "" or what stopped the process                                 *)
(* A Lambda has exactly one Value (types.h), so the two are one object.     *)
(****************************************************************************)
EXTENDS Collector, Integers, Sequences, FiniteSets, TLC

Null == 0

(* What a C function leaves behind: the machine and the value it returns.   *)
R(m, r) == [m |-> m, r |-> r]

Fault(m, what) == R([m EXCEPT !.fault = what], Null)

alloc(m, object) ==
    R([m EXCEPT !.heap = @ @@ (m.next :> object), !.next = @ + 1], m.next)

type(m, v) ==
    IF v = Null THEN "NULL"
    ELSE IF v \in DOMAIN m.heap THEN m.heap[v].type ELSE "freed"

-----------------------------------------------------------------------------
(* Constructors and predicates. *)

make_error(m) == alloc(m, [type |-> "T_Error"])

make_nil(m) == alloc(m, [type |-> "T_Nil"])

make_atom(m, str) == alloc(m, [type |-> "T_Atom", string |-> str])

make_bool(m, b) == alloc(m, [type |-> "T_Boolean", bool |-> b])

make_string(m, str) == alloc(m, [type |-> "T_String", string |-> str])

make_float(m, f) == alloc(m, [type |-> "T_Float", float |-> f])

make_cons(m, car, cdr) == alloc(m, [type |-> "T_ConsPair", car |-> car, cdr |-> cdr])

make_native_lambda(m, parent_env, func) ==
    alloc(m, [type |-> "T_Lambda", native |-> TRUE, func |-> func,
              parent_env |-> parent_env])

make_environment(m, parent_env) ==
    alloc(m, [type |-> "T_Environment", parent_env |-> parent_env,
              bindings |-> [name \in {} |-> Null]])

is_atom(m, v) == type(m, v) = "T_Atom"
is_cons_pair(m, v) == type(m, v) = "T_ConsPair"
is_nil(m, v) == type(m, v) = "T_Nil"
is_lambda(m, v) == type(m, v) = "T_Lambda"
is_float(m, v) == type(m, v) = "T_Float"
is_error(m, v) == type(m, v) = "T_Error"
is_false(m, v) == type(m, v) = "T_Boolean" /\ ~m.heap[v].bool
is_true(m, v) == ~is_false(m, v)

(* The test after every call that may fail: an error value is returned to   *)
(* the caller, and a stopped process does nothing more.                     *)
Stop(x) == x.m.fault # "" \/ is_error(x.m, x.r)

get_car(m, cons) ==
    CASE is_cons_pair(m, cons) -> R(m, m.heap[cons].car)
      [] type(m, cons) = "freed" -> Fault(m, "freed")
      [] OTHER -> make_error(m)

get_cdr(m, cons) ==
    CASE is_cons_pair(m, cons) -> R(m, m.heap[cons].cdr)
      [] type(m, cons) = "freed" -> Fault(m, "freed")
      [] OTHER -> make_error(m)

(* The k-th element, as the special forms step down to it: zero is the car. *)
RECURSIVE get_nth(_, _, _)
get_nth(m, list, k) ==
    IF k = 0 THEN get_car(m, list)
    ELSE LET rest == get_cdr(m, list)
         IN  IF Stop(rest) THEN rest ELSE get_nth(m, rest.r, k - 1)

set_car(m, cons, v) ==
    IF v = Null THEN Fault(m, "assert") ELSE R([m EXCEPT !.heap[cons].car = v], v)

set_cdr(m, cons, v) ==
    IF v = Null THEN Fault(m, "assert") ELSE R([m EXCEPT !.heap[cons].cdr = v], v)

(* The elements of a list the evaluator built. *)
RECURSIVE elements(_, _)
elements(m, list) ==
    IF is_cons_pair(m, list)
      THEN <<m.heap[list].car>> \o elements(m, m.heap[list].cdr)
      ELSE <<>>

(* -1 unless the list is proper. *)
RECURSIVE list_length(_, _)
list_length(m, list) ==
    CASE is_nil(m, list) -> 0
      [] is_cons_pair(m, list) ->
           LET rest == list_length(m, m.heap[list].cdr)
           IN  IF rest = -1 THEN -1 ELSE rest + 1
      [] OTHER -> -1

(* The argument list of a lambda is an atom or starts with atoms.  The loop *)
(* ends at nil or at an atom, and fails on anything else.                   *)
RECURSIVE ArgSpecOK(_, _)
ArgSpecOK(m, spec) ==
    \/ is_atom(m, spec) \/ is_nil(m, spec)
    \/ /\ is_cons_pair(m, spec)
       /\ is_atom(m, m.heap[spec].car)
       /\ ArgSpecOK(m, m.heap[spec].cdr)

make_lambda(m, parent_env, arg_spec, body) ==
    IF ~ArgSpecOK(m, arg_spec) \/ is_nil(m, arg_spec) THEN make_error(m)
    ELSE alloc(m, [type |-> "T_Lambda", native |-> FALSE, parent_env |-> parent_env,
                   arg_spec |-> arg_spec, body |-> body])

(* Adding v to the list that starts at head.  The builder's tail stays at   *)
(* the first pair, so the third value finds a pair where it asserts nil.    *)
append_value_to_list(m, head, v) ==
    LET nil_val == get_cdr(m, head)
        new_cons == make_cons(m, v, nil_val.r)
    IN  IF v = Null THEN Fault(m, "assert")
        ELSE IF is_nil(m, head) THEN make_cons(m, v, head)
        ELSE IF Stop(nil_val) THEN nil_val
        ELSE IF ~is_nil(m, nil_val.r) THEN Fault(m, "third append")
        ELSE R(set_cdr(new_cons.m, head, new_cons.r).m, head)

-----------------------------------------------------------------------------
(* Environments. *)

create_binding(m, env, name, v) ==
    IF v = Null THEN Fault(m, "assert")
    ELSE R([m EXCEPT !.heap[env].bindings = (name :> v) @@ @], v)

(* The environment, from env outwards, that binds the name. *)
RECURSIVE Binder(_, _, _)
Binder(m, env, name) ==
    IF env = Null \/ env \notin DOMAIN m.heap THEN env
    ELSE IF name \in DOMAIN m.heap[env].bindings THEN env
    ELSE Binder(m, m.heap[env].parent_env, name)

update_binding(m, env, name, v) ==
    LET e == Binder(m, env, name)
    IN  CASE v = Null -> Fault(m, "assert")
          [] v # Null /\ type(m, e) = "freed" -> Fault(m, "freed")
          [] v # Null /\ e = Null -> make_error(m)
          [] OTHER -> create_binding(m, e, name, v)

resolve_binding(m, env, name) ==
    LET e == Binder(m, env, name)
    IN  CASE type(m, e) = "freed" -> Fault(m, "freed")
          [] e = Null -> make_error(m)
          [] OTHER -> R(m, m.heap[e].bindings[name])

-----------------------------------------------------------------------------
(* Evaluation contexts. *)

Context(env, expr) ==
    [current_env |-> env, expression |-> expr, child_eval_result |-> Null,
     locals |-> [x \in Locals |-> Null]]

push_new_evalctx(m, env, expr) ==
    [m EXCEPT !.stack = Append(@, Context(env, expr))]

reset_current_evalctx(m, env, expr) ==
    [m EXCEPT !.stack[Len(m.stack)] = Context(env, expr)]

(* An assignment to a registered local. *)
Assign(m, x, v) == [m EXCEPT !.stack[Len(m.stack)].locals[x] = v]

(* There must be a context below to take the result. *)
pop_evalctx(m, result) ==
    LET rest == SubSeq(m.stack, 1, Len(m.stack) - 1)
    IN  IF Len(rest) = 0 THEN [m EXCEPT !.fault = "empty stack"]
        ELSE [m EXCEPT !.stack = [rest EXCEPT ![Len(rest)].child_eval_result = result]]

=============================================================================
