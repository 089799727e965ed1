----------------------------- MODULE BranchStats -----------------------------
(****************************************************************************)
(* The materialised branch statistics of CS121/set4/cs121hw4                *)
(* (make-branch-stats.sql): the triggers on account keep one row per branch *)
(* in mv_branch_account_stats.  Each statement on account, with the         *)
(* triggers it fires, is one step.  Amounts are in hundredths, the          *)
(* precision of NUMERIC(12, 2).                                             *)
(****************************************************************************)
EXTENDS Integers, FiniteSets, FiniteSetsExt, Functions

CONSTANTS Account, Branch,  \* account numbers and branch names
          Balance,          \* the balances that occur
          MaxChanges        \* bound: statements on account

VARIABLES account,          \* the rows of account, by number
          mv,               \* mv_branch_account_stats, by branch name
          changes           \* statements so far

statsVars == <<account, mv, changes>>

ASSUME StatsAssumption == IsFiniteSet(Account) /\ Balance \subseteq Int

\* A table with one more row.
With(table, key, row) ==
    [k \in DOMAIN table \cup {key} |-> IF k = key THEN row ELSE table[k]]

At(accounts, b) == {n \in DOMAIN accounts : accounts[n].branch_name = b}
Balances(accounts, b) == {accounts[n].balance : n \in At(accounts, b)}

\* A quotient rounded half away from zero, as storing a NUMERIC rounds it.
Rounded(n, d) ==
    IF n >= 0 THEN (2 * n + d) \div (2 * d) ELSE -((2 * (-n) + d) \div (2 * d))

\* INSERT INTO mv_branch_account_stats SELECT ... GROUP BY branch_name
Populated(accounts) ==
    [b \in {accounts[n].branch_name : n \in DOMAIN accounts} |->
        [total_deposits |-> Cardinality(At(accounts, b)),
         avg_balance |-> Rounded(
            MapThenSumSet(LAMBDA n : accounts[n].balance, At(accounts, b)),
            Cardinality(At(accounts, b))),
         min_balance |-> Min(Balances(accounts, b)),
         max_balance |-> Max(Balances(accounts, b))]]

\* The assignments of an UPDATE see the columns that those before them set.
add_bal(table, ins_bal, b) ==
    IF b \notin DOMAIN table
    THEN With(table, b, [total_deposits |-> 1, avg_balance |-> ins_bal,
                         min_balance |-> ins_bal, max_balance |-> ins_bal])
    ELSE LET row == table[b]
             total == row.total_deposits + 1
         IN  [table EXCEPT ![b] =
                [total_deposits |-> total,
                 avg_balance |-> Rounded(row.avg_balance * total
                                         + (ins_bal - row.avg_balance), total),
                 min_balance |-> Min({row.min_balance, ins_bal}),
                 max_balance |-> Max({row.max_balance, ins_bal})]]

\* delete_bal, whose queries read the account table after the statement.
delete_balMistaken(table, accounts, del_bal, b) ==
    IF table[b].total_deposits = 1 THEN Restrict(table, DOMAIN table \ {b})
    ELSE [table EXCEPT ![b].total_deposits = @ - 1]
delete_bal(table, accounts, del_bal, b) ==
    IF table[b].total_deposits = 1 THEN Restrict(table, DOMAIN table \ {b})
    ELSE LET row == table[b]
             total == row.total_deposits - 1
         IN  [table EXCEPT ![b] =
                [total_deposits |-> total,
                 avg_balance |-> Rounded(row.avg_balance * total
                                         - (del_bal - row.avg_balance), total),
                 min_balance |-> Min(Balances(accounts, b)),
                 max_balance |-> Max(Balances(accounts, b))]]

StatsInit ==
    /\ \E S \in SUBSET Account :
          account \in [S -> [branch_name : Branch, balance : Balance]]
    /\ mv = Populated(account)
    /\ changes = 0

Statement == changes < MaxChanges /\ changes' = changes + 1

\* INSERT INTO account, with trg_insert
Insert(n, b, amount) ==
    /\ Statement /\ n \notin DOMAIN account
    /\ account' = With(account, n, [branch_name |-> b, balance |-> amount])
    /\ mv' = add_bal(mv, amount, b)

\* DELETE FROM account, with trg_delete
Delete(n) ==
    /\ Statement /\ n \in DOMAIN account
    /\ account' = Restrict(account, DOMAIN account \ {n})
    /\ mv' = delete_bal(mv, account', account[n].balance, account[n].branch_name)

\* UPDATE account, with trg_update
Update(n, b, amount) ==
    /\ Statement /\ n \in DOMAIN account
    /\ account' = [account EXCEPT ![n] = [branch_name |-> b, balance |-> amount]]
    /\ mv' = delete_bal(add_bal(mv, amount, b), account',
                        account[n].balance, account[n].branch_name)

StatsNext ==
    \/ \E n \in Account, b \in Branch, amount \in Balance :
            Insert(n, b, amount) \/ Update(n, b, amount)
    \/ \E n \in Account : Delete(n)

StatsSpec == StatsInit /\ [][StatsNext]_statsVars

----------------------------------------------------------------------------

\* Whatever the accounts go through, the table has a row for exactly the
\* branches of the view branch_account_stats, with its count, minimum and
\* maximum.  (Its average drifts from the view's: see the README.)
StatsMatchView ==
    LET view == Populated(account)
    IN  /\ DOMAIN mv = DOMAIN view
        /\ \A b \in DOMAIN view :
            /\ mv[b].total_deposits = view[b].total_deposits
            /\ mv[b].min_balance = view[b].min_balance
            /\ mv[b].max_balance = view[b].max_balance
=============================================================================
