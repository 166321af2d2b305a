------------------------------ MODULE Credits ------------------------------
(***************************************************************************)
(* CreditService over the SQLite credit repository.                        *)
(*                                                                         *)
(* EarnCredit and RedeemCredit look the idempotency key up, read or create *)
(* the account, write the new balance if the version is still the one read *)
(* and then record the transaction: separate statements, no transaction.   *)
(* One action is one statement of one call.  A call whose key is already   *)
(* recorded returns the recorded transaction and takes no step.            *)
(*                                                                         *)
(* A statement may fail and the process may crash (MaxFaults bounds both); *)
(* a caller that got an error or no answer may call again with its key.    *)
(***************************************************************************)
EXTENDS Integers, FiniteSets, Functions

CONSTANTS Requests,    \* handler goroutines
          Residents,   \* ids of residents
          Keys,        \* idempotency keys
          KeysOf,      \* the keys the callers behind each request use
          Amounts,     \* amounts a call may carry
          MaxCredit,   \* the largest int64
          None,        \* no resident, no key
          MaxFaults

\* The routes refuse an amount that is not positive.
ASSUME AmountsAssumption == MaxCredit \in Nat /\ Amounts \subseteq 1 .. MaxCredit
ASSUME KeysAssumption == KeysOf \in [Requests -> SUBSET Keys]
ASSUME NobodyAssumption == None \notin Residents \cup Keys
ASSUME FaultsAssumption == MaxFaults \in Nat

VARIABLES accounts,    \* resident_credits, by resident_id
          ledger,      \* credit_transactions, by idempotency_key
          req,         \* the calls in progress
          writes,      \* history: balance writes made for each key
          faults       \* statements failed and crashes so far

vars == <<accounts, ledger, req, writes, faults>>

Credit == -MaxCredit - 1 .. MaxCredit   \* int64

Account == [live: BOOLEAN, balance: Credit, version: Nat]
NoAccount == [live |-> FALSE, balance |-> 0, version |-> 0]
NewAccount == [live |-> TRUE, balance |-> 0, version |-> 1]

\* A recorded transaction; a key without one maps to NoEntry.
Entry == [resident: Residents, op: {"earn", "redeem"}, amount: Amounts, after: Credit]
NoEntry == [resident |-> None, op |-> "none", amount |-> 0, after |-> 0]

(***************************************************************************)
(* pc is the next statement of a call:                                     *)
(*   get     SELECT of the account                                         *)
(*   create  INSERT OR IGNORE of the account                               *)
(*   reread  SELECT of the account after the INSERT                        *)
(*   update  UpdateBalance                                                 *)
(*   record  RecordTransaction                                             *)
(* balance and version are those of the account held in memory.            *)
(***************************************************************************)
Request == [pc: {"idle", "get", "create", "reread", "update", "record"},
            op: {"none", "balance", "earn", "redeem"},
            resident: Residents \cup {None}, key: Keys \cup {None},
            amount: Amounts \cup {0}, balance: Credit, version: Nat]
NoRequest == [pc |-> "idle", op |-> "none", resident |-> None, key |-> None,
              amount |-> 0, balance |-> 0, version |-> 0]

Init ==
    /\ accounts = [u \in Residents |-> NoAccount]
    /\ ledger = [k \in Keys |-> NoEntry]
    /\ req = [r \in Requests |-> NoRequest]
    /\ writes = [k \in Keys |-> 0]
    /\ faults = 0

-----------------------------------------------------------------------------

\* int64 addition.
Plus(a, b) == IF a + b > MaxCredit THEN a + b - 2 * (MaxCredit + 1) ELSE a + b

\* The balance a call that read `balance` is going to write.
NewBalance(q, balance) ==
    IF q.op = "earn" THEN Plus(balance, q.amount) ELSE balance - q.amount

Return(r) == req' = [req EXCEPT ![r] = NoRequest]

\* Mutant: the key is not looked up.
CheckKeySkipped(r, op, u, k, amount) ==
    /\ req[r].pc = "idle"
    /\ k \in KeysOf[r]
    /\ req' = [req EXCEPT ![r] = [NoRequest EXCEPT !.pc = "get", !.op = op, !.resident = u,
                                                   !.key = k, !.amount = amount]]
    /\ UNCHANGED <<accounts, ledger, writes, faults>>

\* The key is looked up and not found.
CheckKey(r, op, u, k, amount) ==
    /\ req[r].pc = "idle"
    /\ k \in KeysOf[r]
    /\ ledger[k] = NoEntry
    /\ req' = [req EXCEPT ![r] = [NoRequest EXCEPT !.pc = "get", !.op = op, !.resident = u,
                                                   !.key = k, !.amount = amount]]
    /\ UNCHANGED <<accounts, ledger, writes, faults>>

\* GetBalance of a resident without an account creates it.
GetBalance(r, u) ==
    /\ req[r].pc = "idle"
    /\ ~accounts[u].live
    /\ req' = [req EXCEPT ![r] = [NoRequest EXCEPT !.pc = "create", !.op = "balance",
                                                   !.resident = u]]
    /\ UNCHANGED <<accounts, ledger, writes, faults>>

\* Mutant: an amount that is not covered is redeemed too.
HoldUncovered(r) ==
    LET q == req[r]
        account == accounts[q.resident] IN
    IF q.op = "balance"
    THEN Return(r)
    ELSE req' = [req EXCEPT ![r] = [q EXCEPT !.pc = "update",
                                             !.balance = NewBalance(q, account.balance),
                                             !.version = account.version]]

\* Mutant: a call that only reads goes on to write.
HoldNeverReturns(r) ==
    LET q == req[r]
        account == accounts[q.resident] IN
    req' = [req EXCEPT ![r] = [q EXCEPT !.pc = "update",
                                        !.balance = NewBalance(q, account.balance),
                                        !.version = account.version]]

\* The account was read: the call goes on to write the balance, unless it only
\* reads or has too little to redeem.
Hold(r) ==
    LET q == req[r]
        account == accounts[q.resident] IN
    IF \/ q.op = "balance"
       \/ q.op = "redeem" /\ account.balance < q.amount
    THEN Return(r)
    ELSE req' = [req EXCEPT ![r] = [q EXCEPT !.pc = "update",
                                             !.balance = NewBalance(q, account.balance),
                                             !.version = account.version]]

GetAccount(r) ==
    /\ req[r].pc = "get"
    /\ IF accounts[req[r].resident].live
       THEN Hold(r)
       ELSE req' = [req EXCEPT ![r].pc = "create"]
    /\ UNCHANGED <<accounts, ledger, writes, faults>>

\* Mutant: INSERT OR REPLACE.
CreateAccountReplacing(r) ==
    /\ req[r].pc = "create"
    /\ accounts' = [accounts EXCEPT ![req[r].resident] = NewAccount]
    /\ req' = [req EXCEPT ![r].pc = "reread"]
    /\ UNCHANGED <<ledger, writes, faults>>

\* The INSERT is ignored if another call created the account in between.
CreateAccount(r) ==
    LET u == req[r].resident IN
    /\ req[r].pc = "create"
    /\ accounts' = IF accounts[u].live
                   THEN accounts
                   ELSE [accounts EXCEPT ![u] = NewAccount]
    /\ req' = [req EXCEPT ![r].pc = "reread"]
    /\ UNCHANGED <<ledger, writes, faults>>

ReRead(r) ==
    /\ req[r].pc = "reread"
    /\ Hold(r)
    /\ UNCHANGED <<accounts, ledger, writes, faults>>

\* The account row after a balance was written to it.
Written(account, balance) ==
    [account EXCEPT !.balance = balance, !.version = account.version + 1]

\* Mutant: UPDATE without "AND version = ?".
UpdateBalanceUnchecked(r) ==
    LET q == req[r] IN
    /\ q.pc = "update"
    /\ accounts' = [accounts EXCEPT ![q.resident] =
                       Written([@ EXCEPT !.version = q.version], q.balance)]
    /\ writes' = [writes EXCEPT ![q.key] = @ + 1]
    /\ req' = [req EXCEPT ![r].pc = "record"]
    /\ UNCHANGED <<ledger, faults>>

\* A version conflict ends the call with an error.
UpdateBalance(r) ==
    LET q == req[r] IN
    /\ q.pc = "update"
    /\ IF accounts[q.resident].version = q.version
       THEN /\ accounts' = [accounts EXCEPT ![q.resident] = Written(@, q.balance)]
            /\ writes' = [writes EXCEPT ![q.key] = @ + 1]
            /\ req' = [req EXCEPT ![r].pc = "record"]
       ELSE /\ Return(r)
            /\ UNCHANGED <<accounts, writes>>
    /\ UNCHANGED <<ledger, faults>>

\* The UNIQUE constraint on the key refuses a second transaction.  The balance
\* written before stays as it is.
RecordTransaction(r) ==
    LET q == req[r] IN
    /\ q.pc = "record"
    /\ ledger' = IF ledger[q.key] = NoEntry
                 THEN [ledger EXCEPT ![q.key] =
                          [resident |-> q.resident, op |-> q.op, amount |-> q.amount,
                           after |-> q.balance]]
                 ELSE ledger
    /\ Return(r)
    /\ UNCHANGED <<accounts, writes, faults>>

Fault == faults < MaxFaults /\ faults' = faults + 1

\* A statement fails and the call returns an error where it is.
Abandon(r) ==
    /\ req[r].pc # "idle"
    /\ Fault
    /\ Return(r)
    /\ UNCHANGED <<accounts, ledger, writes>>

\* The process dies and is started again on the same database.
Crash ==
    /\ Fault
    /\ req' = [r \in Requests |-> NoRequest]
    /\ UNCHANGED <<accounts, ledger, writes>>

Call(r) ==
    \E u \in Residents :
       \/ GetBalance(r, u)
       \/ \E op \in {"earn", "redeem"}, k \in Keys, a \in Amounts : CheckKey(r, op, u, k, a)

Proceed(r) ==
    \/ GetAccount(r) \/ CreateAccount(r) \/ ReRead(r)
    \/ UpdateBalance(r) \/ RecordTransaction(r)

Next ==
    \/ \E r \in Requests : Call(r) \/ Proceed(r) \/ Abandon(r)
    \/ Crash

Spec == Init /\ [][Next]_vars

-----------------------------------------------------------------------------
(* Properties *)

\* A call in progress names its resident, and its key and amount unless it only
\* reads the balance.
Names(r) ==
    LET q == req[r] IN
    /\ q.resident \in Residents
    /\ \/ q.op \in {"earn", "redeem"} /\ q.key \in KeysOf[r] /\ q.amount \in Amounts
       \/ q.op = "balance" /\ q.pc \in {"create", "reread"}

\* Every variable holds accounts, transactions and calls of the declared shape.
TypeOK ==
    /\ accounts \in [Residents -> Account]
    /\ ledger \in [Keys -> Entry \cup {NoEntry}]
    /\ req \in [Requests -> Request]
    /\ \A r \in Requests : req[r].pc # "idle" => Names(r)
    /\ writes \in [Keys -> Nat]
    /\ faults \in Nat

\* The balance write of r goes through at this step.
Lands(r) == req[r].pc = "update" /\ req'[r].pc = "record"

\* A balance write that lands changes the balance as stored by the amount of its
\* call, and a redemption only if that balance covers it, although both were
\* decided on a balance read before other calls ran.
LandsOnStored ==
    [][\A r \in Requests : Lands(r) =>
          LET q == req[r]
              before == accounts[q.resident].balance IN
          /\ accounts'[q.resident].balance = NewBalance(q, before)
          /\ q.op = "redeem" => q.amount <= before]_vars

\* The accounts only change by writes that land: nothing resets a balance or
\* creates an account twice when calls race to create it (GetOrCreateByResidentID).
AccountsKept ==
    [][\A u \in Residents : accounts[u].live /\ accounts'[u] # accounts[u] =>
          /\ accounts'[u].live
          /\ accounts'[u].version = accounts[u].version + 1
          /\ \E r \in Requests : Lands(r) /\ req[r].resident = u]_vars

\* A resident is never overdrawn, whatever redemptions race, as long as no
\* balance reaches the largest int64.
NeverOverdrawn ==
    /\ \A u \in Residents : accounts[u].balance >= 0
    /\ \A k \in Keys : ledger[k].after >= 0

\* The transactions recorded or about to be recorded for u, by key and by call.
Entries(u) == {k \in Keys : ledger[k].resident = u}
Recording(u) == {r \in Requests : req[r].pc = "record" /\ req[r].resident = u}

\* Every recorded transaction, and every one about to be recorded, stands for a
\* balance write of its own: none is recorded without its write, and no two
\* share one.
EntriesBacked ==
    \A u \in Residents : accounts[u].live =>
        Cardinality(Entries(u)) + Cardinality(Recording(u)) <= accounts[u].version - 1

Signed(op, amount) == IF op = "earn" THEN amount ELSE -amount

\* No two callers use key k.
Private(k) == \A r, s \in Requests : k \in KeysOf[r] \cap KeysOf[s] => r = s

\* A caller that keeps a key to itself may repeat its call after an error: the
\* amount is applied once, and again only for a fault that took the transaction
\* of an earlier write, at most once for each, whatever other calls overlap.
RetriesBounded == \A k \in Keys : Private(k) => writes[k] <= 1 + faults

\* What the services and their test say: EarnCredit and RedeemCredit are
\* "(idempotent)", the balance is "credited at most once due to idempotency key".
AppliedOnce == \A k \in Keys : writes[k] <= 1

\* What the transactions of the ledger and those about to be recorded move.
Recorded == [k \in Keys |-> Signed(ledger[k].op, ledger[k].amount)]
Pending == [r \in Requests |-> Signed(req[r].op, req[r].amount)]

\* The balance is what the recorded transactions add up to, and those about to
\* be recorded, unless a statement failed or two calls with one key both wrote.
Reconciled ==
    faults = 0 /\ AppliedOnce => \A u \in Residents :
        accounts[u].balance = SumFunctionOnSet(Recorded, Entries(u))
                              + SumFunctionOnSet(Pending, Recording(u))

\* What the comment of EarnCredit says: it "adds credits to a resident's balance".
EarnAdds ==
    [][\A r \in Requests : Lands(r) /\ req[r].op = "earn" =>
          accounts'[req[r].resident].balance > accounts[req[r].resident].balance]_vars
=============================================================================
