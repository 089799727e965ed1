---------------------------- MODULE SchemeNatives ----------------------------
(****************************************************************************)
(* The procedures implemented in C (scheme24/native_lambdas.c): operators   *)
(* from the machine, the list of operands and its elements a[1], a[2], ...  *)
(* to the machine and the result.                                           *)
(*                                                                          *)
(* Numbers are integers: programs divide and take roots exactly.  What the  *)
(* C library answers to random and time is the constant LibraryAnswer.      *)
(****************************************************************************)
EXTENDS SchemeHeap, SequencesExt

CONSTANT LibraryAnswer

Number(m, v) == m.heap[v].float

fn_compare(name, x, y) ==
    CASE name = "="  -> x = y
      [] name = "<"  -> x < y
      [] name = ">"  -> x > y
      [] name = "<=" -> x <= y
      [] name = ">=" -> x >= y

(* The first operand that is no number, or not in order with the one before *)
(* it, decides.                                                             *)
do_comparison(m, name, a) ==
    LET wrong == {i \in 1..Len(a) : ~is_float(m, a[i])}
        unordered == {i \in 2..Len(a) :
            /\ {i - 1, i} \cap wrong = {}
            /\ ~fn_compare(name, Number(m, a[i - 1]), Number(m, a[i]))}
        first == Min(wrong \cup unordered)
    IN  CASE Len(a) < 2 -> make_error(m)
          [] Len(a) >= 2 /\ wrong \cup unordered = {} -> make_bool(m, TRUE)
          [] OTHER -> IF first \in wrong THEN make_error(m) ELSE make_bool(m, FALSE)

PredicateType(name) ==
    CASE name = "boolean?" -> "T_Boolean"
      [] name = "number?" -> "T_Float"
      [] name = "pair?" -> "T_ConsPair"
      [] name = "procedure?" -> "T_Lambda"
      [] name = "string?" -> "T_String"
      [] name = "symbol?" -> "T_Atom"

type_predicate_helper(m, name, a) ==
    IF Len(a) # 1 THEN make_error(m)
    ELSE make_bool(m, type(m, a[1]) = PredicateType(name))

Numbers(m, a) == [i \in DOMAIN a |-> Number(m, a[i])]

AllNumbers(m, a) == \A i \in DOMAIN a : is_float(m, a[i])

scheme_add(m, a) ==
    IF AllNumbers(m, a)
      THEN make_float(m, FoldLeft(LAMBDA x, y : x + y, 0, Numbers(m, a)))
      ELSE make_error(m)

scheme_mul(m, a) ==
    IF AllNumbers(m, a)
      THEN make_float(m, FoldLeft(LAMBDA x, y : x * y, 1, Numbers(m, a)))
      ELSE make_error(m)

scheme_sub(m, a) ==
    CASE Len(a) = 0 \/ ~AllNumbers(m, a) -> make_error(m)
      [] Len(a) = 1 /\ AllNumbers(m, a) -> make_float(m, 0 - Number(m, a[1]))
      [] OTHER -> make_float(m, FoldLeft(LAMBDA x, y : x - y,
                                         Number(m, a[1]), Tail(Numbers(m, a))))

(* With one operand the inverse; no operand after the first may be zero.    *)
scheme_div(m, a) ==
    LET divisors == IF Len(a) = 1 THEN Numbers(m, a) ELSE Tail(Numbers(m, a))
        dividend == IF Len(a) = 1 THEN 1 ELSE Number(m, a[1])
    IN  IF Len(a) = 0 \/ ~AllNumbers(m, a) THEN make_error(m)
        ELSE IF \E i \in DOMAIN divisors : divisors[i] = 0 THEN make_error(m)
        ELSE make_float(m, FoldLeft(LAMBDA x, y : x \div y, dividend, divisors))

scheme_cons(m, a) ==
    IF Len(a) # 2 THEN make_error(m) ELSE make_cons(m, a[1], a[2])

scheme_car(m, a) == IF Len(a) # 1 THEN make_error(m) ELSE get_car(m, a[1])

scheme_cdr(m, a) == IF Len(a) # 1 THEN make_error(m) ELSE get_cdr(m, a[1])

scheme_length(m, a) ==
    LET n == list_length(m, a[1])
    IN  IF Len(a) # 1 \/ n = -1 THEN make_error(m) ELSE make_float(m, n)

(* Values compared by content, pairs and lambdas by address. *)
SameAtom(m, v1, v2) ==
    LET o1 == m.heap[v1] o2 == m.heap[v2]
    IN  CASE o1.type = "T_Nil" -> TRUE
          [] o1.type \in {"T_Atom", "T_String"} -> o1.string = o2.string
          [] o1.type = "T_Boolean" -> o1.bool = o2.bool
          [] o1.type = "T_Float" -> o1.float = o2.float
          [] o1.type \in {"T_ConsPair", "T_Lambda"} -> v1 = v2
          [] OTHER -> FALSE

scheme_eq(m, a) ==
    CASE Len(a) # 2 -> make_error(m)
      [] Len(a) = 2 /\ Null \in {a[1], a[2]} -> Fault(m, "segv")
      [] OTHER -> make_bool(m, type(m, a[1]) = type(m, a[2]) /\ SameAtom(m, a[1], a[2]))

(* Pairs by their parts, interpreted lambdas by environment and text.       *)
RECURSIVE fn_value_equality(_, _, _)
fn_value_equality(m, v1, v2) ==
    LET o1 == m.heap[v1] o2 == m.heap[v2]
    IN  CASE type(m, v1) # type(m, v2) -> FALSE
          [] is_cons_pair(m, v1) /\ is_cons_pair(m, v2) ->
               \/ v1 = v2
               \/ /\ fn_value_equality(m, o1.car, o2.car)
                  /\ fn_value_equality(m, o1.cdr, o2.cdr)
          [] is_lambda(m, v1) /\ is_lambda(m, v2) ->
               \/ v1 = v2
               \/ o1.native /\ o2.native /\ o1.func = o2.func
               \/ /\ ~o1.native /\ ~o2.native
                  /\ o1.parent_env = o2.parent_env
                  /\ fn_value_equality(m, o1.arg_spec, o2.arg_spec)
                  /\ fn_value_equality(m, o1.body, o2.body)
          [] OTHER -> SameAtom(m, v1, v2)

scheme_equal(m, a) ==
    CASE Len(a) # 2 -> make_error(m)
      [] Len(a) = 2 /\ Null \in {a[1], a[2]} -> Fault(m, "segv")
      [] OTHER -> make_bool(m, fn_value_equality(m, a[1], a[2]))

scheme_set_car(m, a) ==
    IF Len(a) # 2 \/ ~is_cons_pair(m, a[1]) THEN make_error(m)
    ELSE set_car(m, a[1], a[2])

scheme_set_cdr(m, a) ==
    IF Len(a) # 2 \/ ~is_cons_pair(m, a[1]) THEN make_error(m)
    ELSE set_cdr(m, a[1], a[2])

(* Returns NULL, which is no Scheme value. *)
scheme_display(m, a) == R(m, Null)

(* Raises its message as an error, or complains about its argument.         *)
scheme_error(m, a) == make_error(m)

scheme_srandom(m, a) ==
    CASE Len(a) = 0 -> make_float(m, LibraryAnswer)
      [] Len(a) = 1 /\ is_float(m, a[1]) -> make_float(m, Number(m, a[1]))
      [] OTHER -> make_error(m)

(* The remainder by zero is not tested for. *)
scheme_random(m, a) ==
    CASE Len(a) > 1 \/ ~AllNumbers(m, a) -> make_error(m)
      [] Len(a) = 0 -> make_float(m, LibraryAnswer)
      [] OTHER -> IF Number(m, a[1]) = 0 THEN Fault(m, "divide")
                  ELSE make_float(m, LibraryAnswer % Number(m, a[1]))

scheme_time(m, a) ==
    IF Len(a) # 0 THEN make_error(m) ELSE make_float(m, LibraryAnswer)

scheme_sqrt(m, a) ==
    IF Len(a) # 1 \/ ~AllNumbers(m, a) THEN make_error(m)
    ELSE make_float(m, CHOOSE x \in 0..Number(m, a[1]) : x * x = Number(m, a[1]))

Comparisons == {"=", "<", ">", "<=", ">="}

Predicates == {"boolean?", "number?", "pair?", "procedure?", "string?", "symbol?"}

(* The table of native_lambdas, without eval-file. *)
Native(m, name, operands) ==
    LET a == elements(m, operands)
    IN  CASE name \in Comparisons -> do_comparison(m, name, a)
          [] name \in Predicates -> type_predicate_helper(m, name, a)
          [] name = "+" -> scheme_add(m, a)
          [] name = "-" -> scheme_sub(m, a)
          [] name = "*" -> scheme_mul(m, a)
          [] name = "/" -> scheme_div(m, a)
          [] name = "cons" -> scheme_cons(m, a)
          [] name = "car" -> scheme_car(m, a)
          [] name = "cdr" -> scheme_cdr(m, a)
          [] name = "list" -> R(m, operands)
          [] name = "length" -> scheme_length(m, a)
          [] name = "eq?" -> scheme_eq(m, a)
          [] name = "equal?" -> scheme_equal(m, a)
          [] name = "set-car!" -> scheme_set_car(m, a)
          [] name = "set-cdr!" -> scheme_set_cdr(m, a)
          [] name = "display" -> scheme_display(m, a)
          [] name = "error" -> scheme_error(m, a)
          [] name = "srandom" -> scheme_srandom(m, a)
          [] name = "random" -> scheme_random(m, a)
          [] name = "time" -> scheme_time(m, a)
          [] name = "sqrt" -> scheme_sqrt(m, a)

NativeNames == Comparisons \cup Predicates \cup
    {"+", "-", "*", "/", "cons", "car", "cdr", "list", "length", "eq?", "equal?",
     "set-car!", "set-cdr!", "display", "error", "srandom", "random", "time", "sqrt",
     "eval-file"}
=============================================================================
