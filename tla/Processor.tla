------------------------------ MODULE Processor ------------------------------
(****************************************************************************)
(* The branching processor of CS24/cs24hw1/proc and its two programs, on    *)
(* registers of Width bits (32 in the code).  The buses between the parts   *)
(* are the arguments that one part's operator gets from another's.          *)
(****************************************************************************)
EXTENDS Integers, Sequences, FiniteSets, Bitwise

CONSTANTS Width,            \* bits of a register
          SignBit,          \* the bit of the divider's mask, 15 in *.rbits
          MaxExecuteTime    \* MAX_EXECUTE_TIME, 1000

VARIABLES program,          \* the name of the program in the store
          pc, rf,           \* program counter and register file
          t,                \* clocks so far
          outcome,          \* "running", "normally" or "infinite loop"
          initial           \* history: the registers that were loaded

vars == <<program, pc, rf, t, outcome, initial>>

Word == 0..(2^Width - 1)
Register == 0..7
Mod(n) == n % 2^Width

\* divider.ibits and ifib.ibits
imemory == [divider |-> << \h0bb6, \h0a37, \h0b6d, \h176a, \h176d, \h0bcf,
                           \h17b6, \h23dc, \h0b1d, \h2944, \h03cf, \h0b96,
                           \h3c00 >>,
            ifib    |-> << \h0a00, \h0b24, \h0adb, \h16da, \h0b6d, \h176d,
                           \h02c4, \h0283, \h02e2, \h0b4e, \h2985, \h3c00 >>]

ifetch == imemory[program][pc + 1]

\* idecode: the fields of an instruction.
Field(instr, pos, bits) == (instr \div 2^pos) % 2^bits
idecode(instr) ==
    [aluop |-> Field(instr, 10, 4), write |-> Field(instr, 9, 1),
     src1 |-> Field(instr, 6, 3), src2 |-> Field(instr, 3, 3),
     dst |-> Field(instr, 0, 3), branch_addr |-> Field(instr, 0, 6)]

ALUOP_BNZ == 10
ALUOP_DONE == 15

alu_evalMistaken(aluop, A, B) ==
    CASE aluop = 0 -> Mod(A + B)
      [] aluop = 2 -> IF A < B THEN 0 ELSE A - B
      [] aluop = 5 -> Mod(A + 1)
      [] aluop = 8 -> A & B
      [] OTHER     -> 0

alu_eval(aluop, A, B) ==
    LET top == 2^(Width - 1)
    IN  CASE aluop = 0  -> Mod(A + B)
          [] aluop = 1  -> Mod(-A)
          [] aluop = 2  -> Mod(A - B)
          [] aluop = 3  -> A ^^ B
          [] aluop = 4  -> A | B
          [] aluop = 5  -> Mod(A + 1)
          [] aluop = 8  -> A & B
          [] aluop = 11 -> IF A >= top THEN (A \div 2) + top ELSE A \div 2
          [] aluop = 12 -> A \div 2
          [] aluop \in {13, 14} -> Mod(2 * A)
          [] OTHER -> 0

\* branch_test answers BRANCH.
branch_test(aluop, A) == aluop = ALUOP_BNZ /\ A # 0

\* clock, and what run does after it.
clock ==
    LET d == idecode(ifetch)
        src1 == rf[d.src1]
        src2 == rf[d.src2]
    IN  /\ outcome = "running"
        /\ rf' = IF d.write = 1
                 THEN [rf EXCEPT ![d.dst] = alu_eval(d.aluop, src1, src2)]
                 ELSE rf
        /\ pc' = IF branch_test(d.aluop, src1) THEN d.branch_addr ELSE pc + 1
        /\ t' = t + 1
        /\ outcome' = IF d.aluop = ALUOP_DONE THEN "normally"
                      ELSE IF t' = MaxExecuteTime - 1 THEN "infinite loop"
                      ELSE "running"
        /\ UNCHANGED <<program, initial>>

\* The registers as the files *.rbits fill them, for any operands.
Loaded(R0, R1, R3) ==
    [r \in Register |-> CASE r = 0 -> R0 [] r = 1 -> R1 [] r = 3 -> R3
                          [] OTHER -> 2^Width - 1]

Init ==
    /\ \/ /\ program = "divider"
          /\ \E dividend \in 0..(2^SignBit - 1), divisor \in 0..2^SignBit :
                initial = Loaded(dividend, divisor, 2^SignBit)
       \/ /\ program = "ifib"
          /\ \E arg \in Word :
                initial = Loaded(2^Width - 1, arg, 2^Width - 1)
    /\ rf = initial
    /\ pc = 0 /\ t = 0 /\ outcome = "running"

Next == clock

----------------------------------------------------------------------------

\* The Fibonacci numbers from 1, 1, 2 on, as words.
fib[n \in Nat] == IF n < 2 THEN 1 ELSE Mod(fib[n - 1] + fib[n - 2])

\* A program that terminates normally leaves the right result, whatever bits
\* lay in the other registers and although the divider goes one subtraction
\* below zero and tells so from one bit: the divider quotient and remainder in
\* R6 and R7, ifib the number of its argument in R2.  The divider is taken for
\* an infinite loop only if the divisor is zero (div_10_0.txt) or its rounds
\* of six clocks do not fit in MAX_EXECUTE_TIME.
ProgramsCompute ==
    LET R0 == initial[0]
        R1 == initial[1]
    IN  /\ pc < Len(imemory[program]) \/ outcome = "normally"
        /\ program = "divider" /\ outcome = "normally" =>
              /\ R1 # 0
              /\ rf[6] = R0 \div R1 /\ rf[7] = R0 % R1
        /\ program = "divider" /\ outcome = "infinite loop" =>
              R1 = 0 \/ 6 * (R0 \div R1) + 13 >= MaxExecuteTime
        /\ program = "ifib" /\ outcome = "normally" /\ R1 # 0 =>
              rf[2] = fib[R1]
=============================================================================
