------------------------------- MODULE MCScheme -------------------------------
(* Sessions for TLC: definitions, uses of them and of the standard          *)
(* functions, and mistakes.  Each line is one expression, token by token.   *)
EXTENDS Scheme

Numbers0to3 == ("0" :> 0) @@ ("1" :> 1) @@ ("2" :> 2) @@ ("3" :> 3)

(* null? and append! as in stdlib.scm, a file that ends in an error, and one *)
(* cut short after a dotted value.  There is no file "u".                   *)
Files ==
    ("stdlib.scm" :>
      <<"(", "define", "(", "null?", "x", ")", "(", "eq?", "x", "nil", ")", ")", "(",
        "define", "(", "append!", "a", "b", ")", "(", "define", "(", "helper", "a",
        "b", ")", "(", "if", "(", "null?", "(", "cdr", "a", ")", ")", "(", "set-cdr!",
        "a", "b", ")", "(", "helper", "(", "cdr", "a", ")", "b", ")", ")", ")", "(",
        "if", "(", "null?", "a", ")", "b", "(", "begin", "(", "helper", "a", "b", ")",
        "a", ")", ")", ")">>)
    @@ ("s" :>
      <<"(", "define", "y", "(", "list", "x", "x", ")", ")", "(", "car", "1", ")">>)
    @@ ("t" :> <<"(", "list", "1", ".", "2">>)

Definitions == {
    <<"(", "define", "x", "(", "list", "1", "2", ")", ")">>,
    <<"(", "define", "c", "(", "(", "lambda", "(", "n", ")", "(", "lambda", "(", "d",
      ")", "(", "set!", "n", "(", "+", "n", "d", ")", ")", ")", ")", "1", ")", ")">>,
    <<"(", "define", "(", "f", "n", ")", "(", "if", "(", "<=", "n", "1", ")", "1",
      "(", "*", "n", "(", "f", "(", "-", "n", "1", ")", ")", ")", ")", ")">>,
    <<"(", "define", "(", "g", "a", ".", "r", ")", "(", "cons", "a", "r", ")", ")">>,
    <<"(", "define", "(", "h", "v", ")", "(", "display", "v", ")", "v", ")">>,
    <<"(", "define", "y", "(", "lambda", "all", "(", "length", "all", ")", ")", ")">>}

Uses == {
    <<"(", "c", "2", ")">>,
    <<"(", "append!", "x", "(", "g", "3", "(", "f", "3", ")", ")", ")">>,
    <<"(", "set-car!", "x", "c", ")">>,
    <<"(", "let", "(", "(", "a", "(", "c", "1", ")", ")", "(", "b", "(", "g", "1",
      "2", ")", ")", ")", "(", "set!", "x", "a", ")", "(", "list", "a", "b", ")",
      ")">>,
    <<"(", "cond", "(", "(", "null?", "x", ")", "0", ")", "(", "(", "pair?", "(",
      "cdr", "x", ")", ")", "(", "define", "y", "(", "cdr", "x", ")", ")", "(", "cdr",
      "x", ")", ")", "(", "else", "x", ")", ")">>,
    <<"(", "and", "(", "eq?", "(", "car", "x", ")", "1", ")", "(", "or", "#f", "(",
      "equal?", "x", "'", "(", "1", "2", ")", ")", ")", ")">>,
    <<"(", "eval-file", "s", ")">>,
    <<"(", "h", "(", "g", "1", "2", ")", ")">>,
    <<"(", "begin", "(", "quote", "(", "1", ".", "2", ")", ")", "(", "-", "(", "sqrt",
      "1", ")", "(", "/", "2", "(", "random", "3", ")", ")", "(", "time", ")", ")",
      ")">>,
    <<"(", "list", "(", "y", "1", "2", ")", "(", "<", "0", "(", "y", ")", "1", ")",
      "(", "symbol?", "'", "x", ")", "(", "list", "2", "(", "f", "0", ")", ")", ")">>}

Mistakes == {
    <<"(", "let", ")">>,
    <<"(", "let", "(", "(", "a", "1", ")", "(", "b", "2", ")", "(", "d", "3", ")",
      ")", "a", ")">>,
    <<"(", "let", "(", "(", "a", "(", "list", "1", ")", ")", "(", "b", "(", "car",
      "1", ")", ")", ")", "a", ")">>,
    <<"(", "define", "z", "(", "display", "1", ")", ")">>,
    <<"(", "list", "(", "list", "1", ")", "(", "g", ")", "2", ")">>,
    <<"(", "(", "g", "1", "2", ")", "(", "undefined", ")", ")">>,
    <<"(", "cond", "(", "#f", "1", ")", "(", "else", ")", ")">>,
    <<"(", "random", "(", "srandom", "0", ")", ")">>,
    <<"(", "list", "(", "eval-file", "t", ")", ")">>,
    <<"(", "eval-file", "u", ")">>,
    <<"(", "list", "1", ".", ")", ")">>,
    <<")">>}

Lines == Definitions \cup Uses \cup Mistakes
===============================================================================
