------------------------------ MODULE BankProcs ------------------------------
(****************************************************************************)
(* The stored procedures sp_deposit, sp_withdraw and sp_transfer of CS121   *)
(* (bank-procs.sql), called by concurrent sessions: one step per SQL        *)
(* statement.  The database is external and modelled by what the procedures *)
(* use of it: SELECT ... FOR UPDATE locks the row until the transaction     *)
(* ends, ROLLBACK undoes its updates, a cycle of waiting sessions is broken *)
(* by rolling one of them back, and so is a session whose client goes away. *)
(* The OUT parameter status, which only tells why a call did nothing, and   *)
(* changes nothing itself, is left out.                                     *)
(****************************************************************************)
EXTENDS Integers

CONSTANTS
    Account,        \* account numbers that have a row
    Missing,        \* account numbers that have none
    Session, Nobody,
    Amounts,        \* the amounts that clients pass
    Opening,        \* the balance every account starts with
    MaxBalance,     \* bound: no deposit starts while an account holds more
    SelfTransfers   \* whether clients transfer from an account to itself

ASSUME BankAssumption ==
    /\ Missing \cap Account = {}
    /\ Nobody \notin Session
    /\ Amounts \subseteq Int
    /\ Opening \in Nat

VARIABLES
    balance,        \* the rows, with the updates of open transactions
    committed,      \* the rows as the last commits left them
    lock,           \* the session that has each row locked, or Nobody
    pc,             \* where each session is
    call,           \* the procedure each session runs and its arguments
    read1, read2    \* current_balance or current_balance_1, current_balance_2

vars == <<balance, committed, lock, pc, call, read1, read2>>

Number == Account \cup Missing
Proc == {"deposit", "withdraw", "transfer"}
Calls == [proc : Proc, from : Number, to : Number, amount : Amounts]

\* What the variables of a procedure's call hold while none runs.
NoCall == [proc |-> "none", from |-> Nobody, to |-> Nobody, amount |-> 0]

Open == {"select1", "select2", "update1", "update2", "commit"}

Init ==
    /\ balance = [a \in Account |-> Opening]
    /\ committed = balance
    /\ lock = [a \in Account |-> Nobody]
    /\ pc = [s \in Session |-> "idle"]
    /\ call = [s \in Session |-> NoCall]
    /\ read1 = [s \in Session |-> 0]
    /\ read2 = [s \in Session |-> 0]

----------------------------------------------------------------------------
\* The database.

Ended(s) ==
    /\ pc' = [pc EXCEPT ![s] = "idle"]
    /\ call' = [call EXCEPT ![s] = NoCall]
    /\ read1' = [read1 EXCEPT ![s] = 0]
    /\ read2' = [read2 EXCEPT ![s] = 0]

Released(s) == [a \in Account |-> IF lock[a] = s THEN Nobody ELSE lock[a]]

ROLLBACK(s) ==
    /\ balance' = [a \in Account |-> IF lock[a] = s THEN committed[a]
                                                    ELSE balance[a]]
    /\ lock' = Released(s)
    /\ Ended(s)
    /\ UNCHANGED committed

COMMITMistaken(s) ==
    /\ pc[s] = "commit"
    /\ committed' = [a \in Account |-> IF lock[a] = s THEN balance[a]
                                                      ELSE committed[a]]
    /\ Ended(s)
    /\ UNCHANGED <<balance, lock>>

COMMIT(s) ==
    /\ pc[s] = "commit"
    /\ committed' = [a \in Account |-> IF lock[a] = s THEN balance[a]
                                                      ELSE committed[a]]
    /\ lock' = Released(s)
    /\ Ended(s)
    /\ UNCHANGED balance

\* The row that the session's next SELECT ... FOR UPDATE locks.
Wanted(s) == IF pc[s] = "select1" THEN call[s].from ELSE call[s].to

Waits(s) ==
    /\ pc[s] \in {"select1", "select2"}
    /\ Wanted(s) \in Account
    /\ lock[Wanted(s)] \notin {Nobody, s}

InCycle(s) ==
    \E C \in SUBSET Session :
        /\ s \in C
        /\ \A t \in C : Waits(t) /\ lock[Wanted(t)] \in C

DeadlockVictim(s) == InCycle(s) /\ ROLLBACK(s)

Disconnect(s) == pc[s] \in Open /\ ROLLBACK(s)

----------------------------------------------------------------------------
\* The procedures.

Goto(s, label) == pc' = [pc EXCEPT ![s] = label]

\* A negative amount is refused before the transaction starts, which changes
\* nothing.
Call(s, c) ==
    /\ pc[s] = "idle"
    /\ c.amount >= 0
    /\ c.proc # "transfer" => c.to = c.from
    /\ c.proc = "transfer" /\ c.to = c.from => SelfTransfers
    /\ c.proc = "deposit" => \A a \in Account : balance[a] <= MaxBalance
    /\ Goto(s, "select1")
    /\ call' = [call EXCEPT ![s] = c]
    /\ UNCHANGED <<balance, committed, lock, read1, read2>>

Lock(s, a) == lock' = IF a \in Account THEN [lock EXCEPT ![a] = s] ELSE lock

\* SELECT balance ... FOR UPDATE finds no row for a missing account.
ReadMistaken(s, a) == Lock(s, a)

Read(s, a) ==
    /\ ~Waits(s)
    /\ Lock(s, a)

select1(s) ==
    /\ pc[s] = "select1"
    /\ Read(s, call[s].from)
    /\ read1' = [read1 EXCEPT ![s] = IF call[s].from \in Account
                                     THEN balance[call[s].from] ELSE @]
    /\ Goto(s, IF call[s].proc = "transfer" THEN "select2" ELSE "update1")
    /\ UNCHANGED <<balance, committed, call, read2>>

select2(s) ==
    /\ pc[s] = "select2"
    /\ Read(s, call[s].to)
    /\ read2' = [read2 EXCEPT ![s] = IF call[s].to \in Account
                                     THEN balance[call[s].to] ELSE @]
    /\ Goto(s, "update1")
    /\ UNCHANGED <<balance, committed, call, read1>>

NoAccount(s) == call[s].from \in Missing \/ call[s].to \in Missing

OverdrawsMistaken(s) == FALSE
Overdraws(s) == call[s].proc # "deposit" /\ read1[s] < call[s].amount

\* What the first UPDATE writes: a deposit adds to the row, the others write
\* back what they read less the amount.
Written(s) ==
    LET a == call[s].from
    IN  IF call[s].proc = "deposit" THEN balance[a] + call[s].amount
                                    ELSE read1[s] - call[s].amount

\* The tests on what was read, then the first UPDATE.  It changes no row when
\* the amount is 0, and a transfer takes ROW_COUNT() = 0 for a missing account.
update1(s) ==
    /\ pc[s] = "update1"
    /\ \/ NoAccount(s) /\ ROLLBACK(s)
       \/ ~NoAccount(s) /\ Overdraws(s) /\ ROLLBACK(s)
       \/ /\ ~NoAccount(s) /\ ~Overdraws(s)
          /\ call[s].proc = "transfer" /\ call[s].amount = 0
          /\ ROLLBACK(s)
       \/ /\ ~NoAccount(s) /\ ~Overdraws(s)
          /\ ~(call[s].proc = "transfer" /\ call[s].amount = 0)
          /\ balance' = [balance EXCEPT ![call[s].from] = Written(s)]
          /\ Goto(s, IF call[s].proc = "transfer" THEN "update2" ELSE "commit")
          /\ UNCHANGED <<committed, lock, call, read1, read2>>

update2(s) ==
    /\ pc[s] = "update2"
    /\ balance' = [balance EXCEPT ![call[s].to] = read2[s] + call[s].amount]
    /\ Goto(s, "commit")
    /\ UNCHANGED <<committed, lock, call, read1, read2>>

Step(s) ==
    select1(s) \/ select2(s) \/ update1(s) \/ update2(s) \/ COMMIT(s)

Next ==
    \E s \in Session :
        \/ \E c \in Calls : Call(s, c)
        \/ Step(s)
        \/ DeadlockVictim(s)
        \/ Disconnect(s)

Spec == Init /\ [][Next]_vars

\* The database executes the statements of every session that does not wait,
\* serves waiting sessions in turn, and breaks deadlocks.
FairSpec ==
    /\ Spec
    /\ \A s \in Session : SF_vars(Step(s)) /\ WF_vars(DeadlockVictim(s))

----------------------------------------------------------------------------

\* No balance is ever negative, not even before a commit: between the test of
\* a withdrawal or transfer and its update the balance it read stays true
\* (SELECT ... FOR UPDATE).
NoOverdraft == \A a \in Account : balance[a] >= 0 /\ committed[a] >= 0

\* Every call takes effect at once, at its commit, or not at all: whatever
\* the others read and write, roll back or leave locked meanwhile, the
\* committed balances change as by that call alone ("It is repeatable-read
\* safe.", for each procedure), and a transfer neither loses nor creates money.
TheBank == INSTANCE Bank WITH accounts <- committed, asked <- call

ImplementsBank == TheBank!BankSpec

\* Every call returns, although opposite transfers lock their two rows in
\* opposite orders.
EveryCallReturns == \A s \in Session : pc[s] \in Open ~> pc[s] = "idle"
=============================================================================
