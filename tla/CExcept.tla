------------------------------- MODULE CExcept -------------------------------
(****************************************************************************)
(* The exceptions of CS24/cs24hw4/exceptions: the macros TRY, CATCH and     *)
(* END_TRY of c_except.h, the stack of jump buffers of c_except.c and the   *)
(* setjmp and longjmp of my_setjmp.s, under a program that nests TRY blocks *)
(* in code and in handlers, throws and rethrows in any order.               *)
(*                                                                          *)
(* A TRY block being executed is a frame; its jump buffer is a local of the *)
(* frame, so that the stack holds frame numbers.                            *)
(****************************************************************************)
EXTENDS Integers, Sequences, SequencesExt, FiniteSetsExt

CONSTANTS Types,        \* the exception types that a program throws
          MaxFrames     \* bound: TRY blocks nested within each other

VARIABLES
    frames,     \* the TRY blocks entered and not left, outermost first
    env_stack,  \* the jump buffers of c_except.c
    aborted,    \* throw_exception found no buffer and aborted
    target      \* history: the frame that should handle the exception on its
                \* way, 0 if none should

exceptVars == <<frames, env_stack, aborted, target>>

NO_EXCEPTION == 0
UNSPECIFIED_EXCEPTION == 1

\* What longjmp(env, val) makes setjmp return.
longjmp(val) == IF val = 0 THEN UNSPECIFIED_EXCEPTION ELSE val

\* A program catches any set of types, UNSPECIFIED_EXCEPTION included.
Catchable == (Types \ {NO_EXCEPTION}) \cup {UNSPECIFIED_EXCEPTION}

ExceptInit ==
    /\ frames = << >> /\ env_stack = << >>
    /\ aborted = FALSE /\ target = 0

\* The code of a frame runs while it tries or handles; in between, when
\* longjmp has just returned to it, its CATCH clauses are tested.
InCode == ~aborted /\ (frames # << >> => Last(frames).mode # "caught")

\* setjmp returns 0, so that start_try pushes the buffer.
start_try(catches) ==
    /\ InCode /\ Len(frames) < MaxFrames
    /\ frames' = Append(frames, [mode |-> "trying", catches |-> catches,
                                 exception |-> NO_EXCEPTION])
    /\ env_stack' = Append(env_stack, Len(frames) + 1)
    /\ UNCHANGED <<aborted, target>>

\* The code of the TRY block ends without a throw.
finish_try ==
    /\ InCode /\ frames # << >> /\ Last(frames).mode = "trying"
    /\ frames' = Front(frames)
    /\ env_stack' = Front(env_stack)
    /\ UNCHANGED <<aborted, target>>

\* throw_exception: pop a buffer and jump to its setjmp, which returns the
\* type again; everything called from that frame is gone.  A frame whose
\* setjmp returned 0 would run its code once more.
throw_exceptionMistaken(type) ==
    IF env_stack = << >>
    THEN aborted' = TRUE /\ UNCHANGED <<frames, env_stack>>
    ELSE LET f == Last(env_stack)
             exception == longjmp(type)
         IN  /\ frames' = Append(SubSeq(frames, 1, f - 1),
                    [frames[f] EXCEPT
                        !.mode = IF exception = NO_EXCEPTION THEN "trying"
                                                             ELSE "caught",
                        !.exception = exception])
             /\ UNCHANGED <<env_stack, aborted>>
throw_exception(type) ==
    IF env_stack = << >>
    THEN aborted' = TRUE /\ UNCHANGED <<frames, env_stack>>
    ELSE LET f == Last(env_stack)
             exception == longjmp(type)
         IN  /\ frames' = Append(SubSeq(frames, 1, f - 1),
                    [frames[f] EXCEPT
                        !.mode = IF exception = NO_EXCEPTION THEN "trying"
                                                             ELSE "caught",
                        !.exception = exception])
             /\ env_stack' = Front(env_stack)
             /\ UNCHANGED aborted

\* The frame that handles a throw: the innermost one still trying, in whose
\* code or in what it called the throw happens, with a clause for the type.
Handler(type) ==
    LET able == {f \in DOMAIN frames : /\ frames[f].mode = "trying"
                                       /\ type \in frames[f].catches}
    IN  IF able = {} THEN 0 ELSE Max(able)

THROW(type) ==
    /\ InCode
    /\ target' = Handler(IF type = NO_EXCEPTION THEN UNSPECIFIED_EXCEPTION
                                                ELSE type)
    /\ throw_exception(type)

\* RETHROW inside a handler: the exception goes on to the enclosing frames.
RETHROW ==
    /\ InCode /\ frames # << >> /\ Last(frames).mode = "handling"
    /\ target' = Handler(Last(frames).exception)
    /\ throw_exception(Last(frames).exception)

CATCH ==
    /\ ~aborted /\ frames # << >> /\ Last(frames).mode = "caught"
    /\ Last(frames).exception \in Last(frames).catches
    /\ frames' = [frames EXCEPT ![Len(frames)].mode = "handling"]
    /\ UNCHANGED <<env_stack, aborted, target>>

\* No clause matches: END_TRY rethrows.
END_TRY ==
    /\ ~aborted /\ frames # << >> /\ Last(frames).mode = "caught"
    /\ Last(frames).exception \notin Last(frames).catches
    /\ throw_exception(Last(frames).exception)
    /\ UNCHANGED target

EndHandler ==
    /\ InCode /\ frames # << >> /\ Last(frames).mode = "handling"
    /\ frames' = Front(frames)
    /\ UNCHANGED <<env_stack, aborted, target>>

ExceptNext ==
    \/ \E catches \in SUBSET Catchable : start_try(catches)
    \/ finish_try
    \/ \E type \in Types : THROW(type)
    \/ RETHROW
    \/ CATCH
    \/ END_TRY
    \/ EndHandler

ExceptSpec == ExceptInit /\ [][ExceptNext]_exceptVars

----------------------------------------------------------------------------

\* The stack holds the buffers of exactly the frames that are still trying,
\* in their order: every way through TRY, CATCH and END_TRY pops its buffer
\* once, so that no throw ever jumps into a frame that is gone.
StackMatchesTries ==
    /\ Range(env_stack) = {f \in DOMAIN frames : frames[f].mode = "trying"}
    /\ \A i, j \in DOMAIN env_stack : i < j => env_stack[i] < env_stack[j]

\* An exception is handled by the frame that C++ or Java would choose, the
\* innermost one that was trying at the throw and catches its type, however
\* many frames rethrow it on the way; it aborts the program only if there is
\* none, and THROW(0) arrives as an exception too.
GoesToInnermost ==
    LET n == Len(frames)
    IN  /\ (n > 0 /\ Last(frames).mode = "caught"
            /\ Last(frames).exception \in Last(frames).catches) => target = n
        /\ aborted => target = 0

\* An exception is handled by the innermost block that catches it, and no
\* throw jumps into a block that is gone.
HandledInnermost == GoesToInnermost /\ StackMatchesTries
=============================================================================
