-------------------------------- MODULE Bank --------------------------------
(****************************************************************************)
(* What the banking procedures of CS121 promise the clients that call them: *)
(* a call takes effect in one step, between the call and its return, as if  *)
(* no other ran, or it has no effect at all.                                *)
(****************************************************************************)
EXTENDS Integers

CONSTANTS Account, Session,
          NoCall                \* a session that has no call running

VARIABLES accounts,             \* the balance of every account
          asked                 \* the call of every session

bankVars == <<accounts, asked>>

BankInit ==
    /\ accounts \in [Account -> Nat]
    /\ asked = [s \in Session |-> NoCall]

Ask(s) ==
    /\ asked[s] = NoCall
    /\ asked' = [asked EXCEPT ![s] = asked'[s]]
    /\ UNCHANGED accounts

Return(s) == asked' = [asked EXCEPT ![s] = NoCall]

Fail(s) ==
    /\ asked[s] # NoCall
    /\ Return(s)
    /\ UNCHANGED accounts

Deposit(c) ==
    /\ c.proc = "deposit"
    /\ accounts' = [accounts EXCEPT ![c.from] = @ + c.amount]

Withdraw(c) ==
    /\ c.proc = "withdraw"
    /\ accounts[c.from] >= c.amount
    /\ accounts' = [accounts EXCEPT ![c.from] = @ - c.amount]

\* A transfer from an account to itself changes nothing.
Transfer(c) ==
    /\ c.proc = "transfer"
    /\ accounts[c.from] >= c.amount
    /\ accounts' = [accounts EXCEPT ![c.from] = @ - c.amount,
                                    ![c.to] = @ + c.amount]

Succeed(s) ==
    /\ asked[s] # NoCall
    /\ Return(s)
    /\ asked[s].from \in Account /\ asked[s].to \in Account
    /\ Deposit(asked[s]) \/ Withdraw(asked[s]) \/ Transfer(asked[s])

BankNext == \E s \in Session : Ask(s) \/ Fail(s) \/ Succeed(s)

BankSpec == BankInit /\ [][BankNext]_bankVars
=============================================================================
