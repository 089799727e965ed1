------------------------------ MODULE BankProofs ------------------------------
(****************************************************************************)
(* Proofs about BankProcs: for any accounts, sessions and amounts, no       *)
(* balance is ever negative, and the concurrent procedures implement the    *)
(* bank in which every call takes effect in one step.                       *)
(*                                                                          *)
(* The inductive invariant says what the row locks are good for.  A row     *)
(* nobody has locked holds its committed balance; a row that a session has  *)
(* locked holds what that session's updates so far have made of it; and     *)
(* what a session has read of a row is still the committed balance when the *)
(* session writes the row.                                                  *)
(****************************************************************************)
EXTENDS BankProcs, TLAPS

TypeOK ==
    /\ balance \in [Account -> Nat]
    /\ committed \in [Account -> Nat]
    /\ lock \in [Account -> Session \cup {Nobody}]
    /\ pc \in [Session -> Open \cup {"idle"}]
    /\ call \in [Session -> Calls \cup {NoCall}]
    /\ read1 \in [Session -> Int]
    /\ read2 \in [Session -> Int]

\* A session in a transaction runs a call that a client may make.
CallsAreProper ==
    \A s \in Session :
        IF pc[s] = "idle" THEN call[s] = NoCall
        ELSE /\ call[s] \in Calls
             /\ call[s].amount >= 0
             /\ call[s].proc # "transfer" => call[s].to = call[s].from
             /\ pc[s] \in {"select2", "update2"} => call[s].proc = "transfer"
             /\ call[s].proc = "transfer" /\ call[s].to = call[s].from
                    => SelfTransfers

\* Only rows of the running call are locked, and none before its first SELECT.
LocksAreWanted ==
    \A a \in Account, s \in Session :
        lock[a] = s => /\ pc[s] \in Open \ {"select1"}
                       /\ a = call[s].from \/ a = call[s].to

\* What a session has read, it has locked, and it is still true.
ReadsAreLocked ==
    \A s \in Session :
        /\ pc[s] \in Open \ {"select1"} /\ call[s].from \in Account
             => lock[call[s].from] = s /\ read1[s] = committed[call[s].from]
        /\ pc[s] \in {"update1", "update2", "commit"} /\ call[s].to \in Account
             => /\ lock[call[s].to] = s
                /\ call[s].proc = "transfer" => read2[s] = committed[call[s].to]

\* A session updates rows only after its tests have passed.
UpdatesAreTested ==
    \A s \in Session :
        pc[s] \in {"update2", "commit"}
            => /\ call[s].from \in Account /\ call[s].to \in Account
               /\ call[s].proc # "deposit" => read1[s] >= call[s].amount

\* What the updates so far of session s have made of the row of account a.
Pending(s, a) ==
    IF pc[s] = "commit" /\ call[s].proc = "transfer" /\ a = call[s].to
    THEN committed[a] + call[s].amount
    ELSE IF pc[s] \in {"update2", "commit"} /\ a = call[s].from
    THEN IF call[s].proc = "deposit" THEN committed[a] + call[s].amount
                                     ELSE committed[a] - call[s].amount
    ELSE committed[a]

RowsAreAccounted ==
    \A a \in Account :
        /\ lock[a] = Nobody => balance[a] = committed[a]
        /\ lock[a] # Nobody => balance[a] = Pending(lock[a], a)

BankInv ==
    /\ TypeOK
    /\ CallsAreProper
    /\ LocksAreWanted
    /\ ReadsAreLocked
    /\ UpdatesAreTested
    /\ RowsAreAccounted

\* update1 when none of its tests sends it back.
FirstUpdate(s) ==
    /\ pc[s] = "update1"
    /\ ~NoAccount(s) /\ ~Overdraws(s)
    /\ balance' = [balance EXCEPT ![call[s].from] = Written(s)]
    /\ Goto(s, IF call[s].proc = "transfer" THEN "update2" ELSE "commit")
    /\ UNCHANGED <<committed, lock, call, read1, read2>>

----------------------------------------------------------------------------
\* The initial states satisfy the invariant: nothing is locked or called.
LEMMA InitEstablishesInv == Init => BankInv
BY BankAssumption DEF Init, BankInv, TypeOK, CallsAreProper, LocksAreWanted,
    ReadsAreLocked, UpdatesAreTested, RowsAreAccounted, Open

\* A client makes a call.
LEMMA CallKeepsInv ==
    ASSUME BankInv, NEW s \in Session, NEW c \in Calls, Call(s, c)
    PROVE  BankInv'
<1>1. TypeOK'
  BY DEF BankInv, TypeOK, Call, Goto, Open
<1>2. CallsAreProper'
  BY DEF BankInv, TypeOK, CallsAreProper, Call, Goto
<1>3. LocksAreWanted'
  BY DEF BankInv, LocksAreWanted, Call, Goto, Open
<1>4. ReadsAreLocked'
  BY DEF BankInv, TypeOK, ReadsAreLocked, Call, Goto
<1>5. UpdatesAreTested'
  BY DEF BankInv, UpdatesAreTested, Call, Goto
<1>6. RowsAreAccounted'
  BY DEF BankInv, RowsAreAccounted, Call, Goto, Pending
<1> QED
  BY <1>1, <1>2, <1>3, <1>4, <1>5, <1>6 DEF BankInv

\* The first SELECT locks its row and reads the committed balance.
LEMMA Select1KeepsInv ==
    ASSUME BankInv, NEW s \in Session, select1(s)
    PROVE  BankInv'
<1>1. TypeOK'
  BY DEF BankInv, TypeOK, select1, Read, Lock, Goto, Open
<1>2. CallsAreProper'
  BY DEF BankInv, CallsAreProper, select1, Goto
<1>3. LocksAreWanted'
  BY DEF BankInv, TypeOK, LocksAreWanted, select1, Read, Lock, Goto, Open
<1>4. ReadsAreLocked'
  BY BankAssumption DEF BankInv, TypeOK, CallsAreProper, LocksAreWanted,
      ReadsAreLocked, RowsAreAccounted, select1, Read, Lock, Goto, Waits,
      Wanted
<1>5. UpdatesAreTested'
  BY DEF BankInv, UpdatesAreTested, select1, Goto
<1>6. RowsAreAccounted'
  BY DEF BankInv, RowsAreAccounted, select1, Read, Lock, Goto, Waits,
      Wanted, Pending
<1> QED
  BY <1>1, <1>2, <1>3, <1>4, <1>5, <1>6 DEF BankInv

\* The second SELECT, of a transfer, likewise.
LEMMA Select2KeepsInv ==
    ASSUME BankInv, NEW s \in Session, select2(s)
    PROVE  BankInv'
<1>1. TypeOK'
  BY DEF BankInv, TypeOK, select2, Read, Lock, Goto, Open
<1>2. CallsAreProper'
  BY DEF BankInv, CallsAreProper, select2, Goto
<1>3. LocksAreWanted'
  BY DEF BankInv, LocksAreWanted, select2, Read, Lock, Goto, Open
<1>a. call[s].to \in Account => balance[call[s].to] = committed[call[s].to]
  BY BankAssumption DEF BankInv, TypeOK, RowsAreAccounted, Pending, select2, Read,
      Waits, Wanted
<1>4. ReadsAreLocked'
  BY BankAssumption, <1>a DEF BankInv, TypeOK, ReadsAreLocked, select2,
      Read, Lock, Goto, Waits, Wanted
<1>5. UpdatesAreTested'
  BY DEF BankInv, UpdatesAreTested, select2, Goto
<1>6. RowsAreAccounted'
  BY DEF BankInv, RowsAreAccounted, select2, Read, Lock, Goto, Waits,
      Wanted, Pending
<1> QED
  BY <1>1, <1>2, <1>3, <1>4, <1>5, <1>6 DEF BankInv

\* The first UPDATE, when the tests on what was read have passed.
LEMMA Update1KeepsInv ==
    ASSUME BankInv, NEW s \in Session, FirstUpdate(s)
    PROVE  BankInv'
<1>a. /\ call[s].from \in Account /\ call[s].to \in Account
      /\ call[s].amount \in Nat
      /\ call[s].proc # "deposit" => read1[s] >= call[s].amount
  <2>1. call[s] \in Calls /\ call[s].amount >= 0
    BY DEF BankInv, CallsAreProper, FirstUpdate
  <2>2. call[s].amount \in Int /\ call[s].from \in Number /\ call[s].to \in Number
    BY <2>1, BankAssumption DEF Calls
  <2>3. read1[s] \in Int
    BY DEF BankInv, TypeOK
  <2> QED
    BY <2>1, <2>2, <2>3 DEF FirstUpdate, NoAccount, Overdraws, Number
<1>b. Written(s) \in Nat
  BY <1>a DEF BankInv, TypeOK, Written
<1>1. TypeOK'
  BY <1>b DEF BankInv, TypeOK, FirstUpdate, Goto, Open
<1>2. CallsAreProper'
  BY DEF BankInv, CallsAreProper, FirstUpdate, Goto
<1>3. LocksAreWanted'
  BY DEF BankInv, LocksAreWanted, FirstUpdate, Goto, Open
<1>4. ReadsAreLocked'
  BY DEF BankInv, TypeOK, ReadsAreLocked, FirstUpdate, Goto
<1>5. UpdatesAreTested'
  BY <1>a DEF BankInv, UpdatesAreTested, FirstUpdate, Goto
<1>6. RowsAreAccounted'
  BY BankAssumption DEF BankInv, TypeOK, ReadsAreLocked, RowsAreAccounted,
      FirstUpdate, Written, Goto, Pending
<1> QED
  BY <1>1, <1>2, <1>3, <1>4, <1>5, <1>6 DEF BankInv

\* The second UPDATE of a transfer.
LEMMA Update2KeepsInv ==
    ASSUME BankInv, NEW s \in Session, update2(s)
    PROVE  BankInv'
<1>a. read2[s] + call[s].amount \in Nat
  <2>1. /\ call[s] \in Calls /\ call[s].amount >= 0
        /\ call[s].proc = "transfer" /\ call[s].to \in Account
    BY DEF BankInv, CallsAreProper, UpdatesAreTested, update2
  <2>2. read2[s] = committed[call[s].to] /\ read2[s] \in Nat
    BY <2>1 DEF BankInv, TypeOK, ReadsAreLocked, update2
  <2>3. call[s].amount \in Int
    BY <2>1, BankAssumption DEF Calls
  <2> QED
    BY <2>1, <2>2, <2>3
<1>1. TypeOK'
  BY <1>a DEF BankInv, TypeOK, update2, Goto, Open
<1>2. CallsAreProper'
  BY DEF BankInv, CallsAreProper, update2, Goto
<1>3. LocksAreWanted'
  BY DEF BankInv, LocksAreWanted, update2, Goto, Open
<1>4. ReadsAreLocked'
  BY DEF BankInv, TypeOK, ReadsAreLocked, update2, Goto
<1>5. UpdatesAreTested'
  BY DEF BankInv, UpdatesAreTested, update2, Goto
<1>6. RowsAreAccounted'
  BY BankAssumption DEF BankInv, TypeOK, CallsAreProper, ReadsAreLocked,
      RowsAreAccounted, update2, Goto, Pending
<1> QED
  BY <1>1, <1>2, <1>3, <1>4, <1>5, <1>6 DEF BankInv

\* A commit makes the locked rows' balances the committed ones.
LEMMA CommitKeepsInv ==
    ASSUME BankInv, NEW s \in Session, COMMIT(s)
    PROVE  BankInv'
<1>1. TypeOK'
  BY DEF BankInv, TypeOK, COMMIT, Released, Ended
<1>2. CallsAreProper'
  BY DEF BankInv, TypeOK, CallsAreProper, COMMIT, Ended
<1>3. LocksAreWanted'
  BY BankAssumption DEF BankInv, LocksAreWanted, COMMIT, Released, Ended
<1>4. ReadsAreLocked'
  BY DEF BankInv, TypeOK, ReadsAreLocked, COMMIT, Released, Ended, Open
<1>5. UpdatesAreTested'
  BY DEF BankInv, TypeOK, UpdatesAreTested, COMMIT, Ended
<1>6. RowsAreAccounted'
  BY DEF BankInv, RowsAreAccounted, COMMIT, Released, Ended, Pending
<1> QED
  BY <1>1, <1>2, <1>3, <1>4, <1>5, <1>6 DEF BankInv

\* A rollback puts the committed balances back and unlocks the rows.
LEMMA RollbackKeepsInv ==
    ASSUME BankInv, NEW s \in Session, ROLLBACK(s)
    PROVE  BankInv'
<1>1. TypeOK'
  BY DEF BankInv, TypeOK, ROLLBACK, Released, Ended
<1>2. CallsAreProper'
  BY DEF BankInv, TypeOK, CallsAreProper, ROLLBACK, Ended
<1>3. LocksAreWanted'
  BY BankAssumption DEF BankInv, LocksAreWanted, ROLLBACK, Released, Ended
<1>4. ReadsAreLocked'
  BY DEF BankInv, TypeOK, ReadsAreLocked, ROLLBACK, Released, Ended, Open
<1>5. UpdatesAreTested'
  BY DEF BankInv, TypeOK, UpdatesAreTested, ROLLBACK, Ended
<1>6. RowsAreAccounted'
  BY DEF BankInv, RowsAreAccounted, ROLLBACK, Released, Ended, Pending
<1> QED
  BY <1>1, <1>2, <1>3, <1>4, <1>5, <1>6 DEF BankInv

\* Nothing of the database changes in a stuttering step.
LEMMA StutterKeepsInv ==
    ASSUME BankInv, UNCHANGED vars
    PROVE  BankInv'
BY DEF BankInv, TypeOK, CallsAreProper, LocksAreWanted, ReadsAreLocked,
    UpdatesAreTested, RowsAreAccounted, Pending, vars

\* update1 either rolls back or updates.
LEMMA Update1Splits ==
    ASSUME NEW s \in Session, update1(s)
    PROVE  ROLLBACK(s) \/ FirstUpdate(s)
BY DEF update1, FirstUpdate

\* Every step keeps the invariant.
LEMMA NextKeepsInv == BankInv /\ [Next]_vars => BankInv'
<1> SUFFICES ASSUME BankInv, [Next]_vars
             PROVE  BankInv'
  OBVIOUS
<1>1. CASE UNCHANGED vars
  BY <1>1, StutterKeepsInv
<1>2. CASE Next
  <2> PICK s \in Session : \/ \E c \in Calls : Call(s, c)
                          \/ Step(s) \/ DeadlockVictim(s) \/ Disconnect(s)
    BY <1>2 DEF Next
  <2>1. CASE \E c \in Calls : Call(s, c)
    BY <2>1, CallKeepsInv
  <2>2. CASE Step(s)
    BY <2>2, Select1KeepsInv, Select2KeepsInv, Update1Splits, Update1KeepsInv,
       RollbackKeepsInv, Update2KeepsInv, CommitKeepsInv DEF Step
  <2>3. CASE DeadlockVictim(s) \/ Disconnect(s)
    BY <2>3, RollbackKeepsInv DEF DeadlockVictim, Disconnect
  <2> QED
    BY <2>1, <2>2, <2>3
<1> QED
  BY <1>1, <1>2

\* The invariant holds in every state of every behaviour.
LEMMA InvAlways == Spec => []BankInv
BY InitEstablishesInv, NextKeepsInv, PTL DEF Spec

\* No balance is ever negative, committed or not, for any accounts, sessions
\* and amounts, transfers to the same account included.
THEOREM NeverOverdrawn == Spec => []NoOverdraft
<1>1. BankInv => NoOverdraft
  BY DEF BankInv, TypeOK, NoOverdraft
<1> QED
  BY <1>1, InvAlways, PTL

----------------------------------------------------------------------------
\* The procedures implement the bank.  A commit is the step in which a call
\* takes effect; a rollback is a call that has failed.

(* At the start nobody calls. *)
LEMMA InitImplements == Init => TheBank!BankInit
BY BankAssumption DEF Init, TheBank!BankInit

(* A call is a call of the bank. *)
LEMMA CallImplements ==
    ASSUME BankInv, NEW s \in Session, NEW c \in Calls, Call(s, c)
    PROVE  TheBank!Ask(s)
BY DEF BankInv, TypeOK, CallsAreProper, Call, TheBank!Ask

(* A rollback is a failed return. *)
LEMMA RollbackImplements ==
    ASSUME BankInv, NEW s \in Session, ROLLBACK(s), pc[s] \in Open
    PROVE  TheBank!Fail(s)
<1>1. call[s] # NoCall
  BY DEF BankInv, CallsAreProper, Open, Calls, Proc, NoCall
<1> QED
  BY <1>1 DEF ROLLBACK, Ended, TheBank!Fail, TheBank!Return

(* A commit is the deposit, withdrawal or transfer that was asked for. *)
LEMMA CommitImplements ==
    ASSUME BankInv, NEW s \in Session, COMMIT(s), SelfTransfers = FALSE
    PROVE  TheBank!Succeed(s)
<1> DEFINE c == call[s]
<1>1. /\ c \in Calls /\ c # NoCall /\ c.amount >= 0 /\ c.amount \in Int
      /\ c.from \in Account /\ c.to \in Account
      /\ c.proc # "transfer" => c.to = c.from
      /\ c.proc = "transfer" => c.to # c.from
  <2>1. c \in Calls /\ c.amount >= 0
    BY DEF BankInv, CallsAreProper, COMMIT
  <2>2. c.proc \in Proc /\ c.amount \in Int
    BY <2>1, BankAssumption DEF Calls
  <2>5. c # NoCall
    BY <2>2 DEF Proc, NoCall
  <2>3. c.from \in Account /\ c.to \in Account
    BY DEF BankInv, UpdatesAreTested, COMMIT
  <2>4. /\ c.proc # "transfer" => c.to = c.from
        /\ c.proc = "transfer" => c.to # c.from
    BY DEF BankInv, CallsAreProper, COMMIT
  <2> QED
    BY <2>1, <2>2, <2>3, <2>4, <2>5
<1>2. \A a \in Account : lock[a] = s <=> a = c.from \/ a = c.to
  BY <1>1 DEF BankInv, LocksAreWanted, ReadsAreLocked, COMMIT, Open
<1>3. \A a \in Account : lock[a] = s => balance[a] = Pending(s, a)
  BY BankAssumption DEF BankInv, RowsAreAccounted
<1>4. committed' = [a \in Account |-> IF a = c.from \/ a = c.to
                                      THEN Pending(s, a) ELSE committed[a]]
  BY <1>2, <1>3 DEF COMMIT
<1>5. c.proc # "deposit" => committed[c.from] >= c.amount
  BY <1>1 DEF BankInv, ReadsAreLocked, UpdatesAreTested, COMMIT, Open
<1>6. committed \in [Account -> Nat]
  BY DEF BankInv, TypeOK
<1>7. TheBank!Return(s)
  BY DEF COMMIT, Ended, TheBank!Return
<1>8. CASE c.proc = "deposit"
  <2>1. committed' = [committed EXCEPT ![c.from] = @ + c.amount]
    BY <1>1, <1>4, <1>6, <1>8 DEF Pending, COMMIT
  <2> QED
    BY <2>1, <1>1, <1>7, <1>8 DEF TheBank!Succeed, TheBank!Deposit
<1>9. CASE c.proc = "withdraw"
  <2>1. committed' = [committed EXCEPT ![c.from] = @ - c.amount]
    BY <1>1, <1>4, <1>6, <1>9 DEF Pending, COMMIT
  <2> QED
    BY <2>1, <1>1, <1>5, <1>7, <1>9 DEF TheBank!Succeed, TheBank!Withdraw
<1>10. CASE c.proc = "transfer"
  <2>1. committed' = [committed EXCEPT ![c.from] = @ - c.amount,
                                       ![c.to] = @ + c.amount]
    BY <1>1, <1>4, <1>6, <1>10 DEF Pending, COMMIT
  <2> QED
    BY <2>1, <1>1, <1>5, <1>7, <1>10 DEF TheBank!Succeed, TheBank!Transfer
<1> QED
  BY <1>1, <1>8, <1>9, <1>10 DEF Calls, Proc

\* A step inside a transaction is not seen.
LEMMA SelectsAreNotSeen ==
    ASSUME NEW s \in Session, select1(s) \/ select2(s) \/ FirstUpdate(s) \/ update2(s)
    PROVE  UNCHANGED <<committed, call>>
BY DEF select1, select2, FirstUpdate, update2

(* Every step is one of the bank, or none. *)
LEMMA NextImplements ==
    ASSUME BankInv, [Next]_vars, SelfTransfers = FALSE
    PROVE  [TheBank!BankNext]_(TheBank!bankVars)
<1>1. CASE UNCHANGED vars
  BY <1>1 DEF vars, TheBank!bankVars
<1>2. CASE Next
  <2> PICK s \in Session : \/ \E c \in Calls : Call(s, c)
                          \/ Step(s) \/ DeadlockVictim(s) \/ Disconnect(s)
    BY <1>2 DEF Next
  <2>1. CASE \E c \in Calls : Call(s, c)
    BY <2>1, CallImplements DEF TheBank!BankNext
  <2>2. CASE COMMIT(s)
    BY <2>2, CommitImplements DEF TheBank!BankNext
  <2>3. CASE ROLLBACK(s) /\ pc[s] \in Open
    BY <2>3, RollbackImplements DEF TheBank!BankNext
  <2>4. CASE select1(s) \/ select2(s) \/ FirstUpdate(s) \/ update2(s)
    BY <2>4, SelectsAreNotSeen DEF TheBank!bankVars
  <2>5. Step(s) => \/ COMMIT(s)
                   \/ ROLLBACK(s) /\ pc[s] \in Open
                   \/ select1(s) \/ select2(s) \/ FirstUpdate(s) \/ update2(s)
    BY Update1Splits DEF Step, update1, Open
  <2>6. DeadlockVictim(s) \/ Disconnect(s) => ROLLBACK(s) /\ pc[s] \in Open
    BY DEF DeadlockVictim, Disconnect, InCycle, Waits, Open
  <2> QED
    BY <2>1, <2>2, <2>3, <2>4, <2>5, <2>6
<1> QED
  BY <1>1, <1>2

\* "It is repeatable-read safe.": for any accounts, sessions and amounts, every
\* call takes effect at once or not at all, provided nobody transfers from an
\* account to itself.
THEOREM ProceduresImplementBank ==
    ASSUME SelfTransfers = FALSE
    PROVE  Spec => ImplementsBank
<1>1. BankInv /\ [Next]_vars => [TheBank!BankNext]_(TheBank!bankVars)
  BY NextImplements
<1> QED
  BY <1>1, InitImplements, InvAlways, PTL DEF Spec, ImplementsBank, TheBank!BankSpec
==============================================================================
