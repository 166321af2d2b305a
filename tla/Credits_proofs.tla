--------------------------- MODULE Credits_proofs ---------------------------
(***************************************************************************)
(* Theorems about Credits: type correctness, the soundness of the version  *)
(* check on a balance, and at-most-once application of a private key.      *)
(***************************************************************************)
EXTENDS Credits, TLAPS

\* Wrapped int64 addition of an amount and covered subtraction stay in range.
LEMMA CreditRange ==
    ASSUME NEW b \in Credit, NEW a \in Amounts
    PROVE  Plus(b, a) \in Credit /\ (a <= b => b - a \in Credit)
<1>1. a \in 1 .. MaxCredit /\ MaxCredit \in Nat
  BY AmountsAssumption
<1> QED
  BY <1>1 DEF Plus, Credit

LEMMA Int64 == Credit \subseteq Int /\ Amounts \subseteq Int
  BY AmountsAssumption DEF Credit

\* A write held in memory is based on a version the account has had and, while
\* that version is stored, is the operation applied to the stored balance.
HeldCurrent ==
    \A r \in Requests : req[r].pc = "update" =>
        LET q == req[r]
            account == accounts[q.resident] IN
        /\ account.live /\ q.version <= account.version
        /\ account.version = q.version =>
              /\ q.balance = NewBalance(q, account.balance)
              /\ q.op = "redeem" => q.amount <= account.balance

\* INSERT OR IGNORE leaves an account behind.
Created ==
    \A r \in Requests : req[r].pc \in {"reread", "record"} => accounts[req[r].resident].live

Inv == TypeOK /\ HeldCurrent /\ Created

LEMMA ZeroCredit == 0 \in Credit
  BY AmountsAssumption DEF Credit

LEMMA EmptyRows ==
    /\ NoAccount \in Account /\ NewAccount \in Account
    /\ NewAccount.live /\ NewAccount.version = 1 /\ ~NoAccount.live
    /\ NoRequest \in Request /\ NoRequest.pc = "idle"
  BY ZeroCredit DEF NoAccount, NewAccount, Account, NoRequest, Request

LEMMA InvInit == Init => Inv
<1> SUFFICES ASSUME Init PROVE Inv
  OBVIOUS
<1>1. TypeOK
  BY EmptyRows, FaultsAssumption DEF Init, TypeOK, NoRequest
<1>2. HeldCurrent /\ Created
  BY EmptyRows DEF Init, HeldCurrent, Created
<1> QED
  BY <1>1, <1>2 DEF Inv

\* One call changes and the others stay.
LEMMA CallStep ==
    ASSUME TypeOK, NEW r \in Requests, NEW q \in Request,
           req' = [req EXCEPT ![r] = q],
           q.pc # "idle" =>
              /\ q.resident \in Residents
              /\ \/ q.op \in {"earn", "redeem"} /\ q.key \in KeysOf[r] /\ q.amount \in Amounts
                 \/ q.op = "balance" /\ q.pc \in {"create", "reread"}
    PROVE  /\ req' \in [Requests -> Request]
           /\ \A s \in Requests : req'[s].pc # "idle" => Names(s)'
           /\ req'[r] = q /\ \A s \in Requests \ {r} : req'[s] = req[s]
<1>1. req'[r] = q /\ \A s \in Requests \ {r} : req'[s] = req[s]
  BY DEF TypeOK
<1>2. req' \in [Requests -> Request]
  BY DEF TypeOK
<1> QED
  BY <1>1, <1>2 DEF TypeOK, Names

\* The account read by Hold is one whose write the call may hold.
LEMMA HoldStep ==
    ASSUME TypeOK, NEW r \in Requests, Hold(r), req[r].pc \in {"get", "reread"},
           accounts[req[r].resident].live, UNCHANGED <<accounts, ledger, writes, faults>>
    PROVE  /\ TypeOK'
           /\ \A s \in Requests \ {r} : req'[s] = req[s]
           /\ \/ req'[r] = NoRequest
              \/ /\ req'[r].pc = "update" /\ req'[r].key = req[r].key
                 /\ HeldCurrent => HeldCurrent'
<1> DEFINE q == req[r]
           account == accounts[q.resident]
           next == [q EXCEPT !.pc = "update", !.balance = NewBalance(q, account.balance),
                             !.version = account.version]
<1>1. q \in Request /\ Names(r) /\ account \in Account
  BY DEF TypeOK, Names
<1>2. CASE Return(r)
  <2>1. /\ req' \in [Requests -> Request] /\ req'[r] = NoRequest
        /\ \A s \in Requests : req'[s].pc # "idle" => Names(s)'
        /\ \A s \in Requests \ {r} : req'[s] = req[s]
    BY <1>2, EmptyRows, CallStep DEF Return
  <2> QED
    BY <2>1 DEF TypeOK
<1>3. CASE ~Return(r)
  <2>1. /\ req' = [req EXCEPT ![r] = next]
        /\ q.op # "balance" /\ ~(q.op = "redeem" /\ account.balance < q.amount)
    BY <1>3 DEF Hold
  <2>2. q.op \in {"earn", "redeem"} /\ q.amount \in Amounts /\ q.key \in KeysOf[r]
        /\ q.resident \in Residents
    BY <1>1, <2>1 DEF Names
  <2>3. account.balance \in Credit /\ account.version \in Nat /\ q.amount \in Int
        /\ account.balance \in Int
    <3>1. account.balance \in Credit /\ account.version \in Nat
      BY <1>1 DEF Account
    <3> QED
      BY <2>2, <3>1, Int64
  <2>4. q.op = "redeem" => q.amount <= account.balance
    BY <2>1, <2>3
  <2>5. NewBalance(q, account.balance) \in Credit
    BY <2>2, <2>3, <2>4, CreditRange DEF NewBalance
  <2>6. next \in Request /\ next.pc = "update" /\ next.op = q.op /\ next.amount = q.amount
        /\ next.key = q.key /\ next.resident = q.resident /\ next.version = account.version
        /\ next.balance = NewBalance(q, account.balance)
    BY <1>1, <2>3, <2>5 DEF Request
  <2> HIDE DEF next
  <2>7. /\ req' \in [Requests -> Request] /\ req'[r] = next
        /\ \A s \in Requests : req'[s].pc # "idle" => Names(s)'
        /\ \A s \in Requests \ {r} : req'[s] = req[s]
    BY <2>1, <2>2, <2>6, CallStep
  <2>8. TypeOK'
    BY <2>7 DEF TypeOK
  <2>9. ASSUME HeldCurrent PROVE HeldCurrent'
    <3>1. NewBalance(next, account.balance) = NewBalance(q, account.balance)
      BY <2>6 DEF NewBalance
    <3>2. /\ accounts'[next.resident].live /\ next.version <= accounts'[next.resident].version
          /\ next.balance = NewBalance(next, accounts'[next.resident].balance)
          /\ next.op = "redeem" => next.amount <= accounts'[next.resident].balance
      BY <2>3, <2>4, <2>6, <3>1
    <3> QED
      BY <2>7, <2>9, <3>2 DEF HeldCurrent
  <2> QED
    BY <2>6, <2>7, <2>8, <2>9
<1> QED
  BY <1>2, <1>3

LEMMA CallsChecked ==
    ASSUME TypeOK, NEW r \in Requests, Call(r)
    PROVE  /\ TypeOK' /\ UNCHANGED <<accounts, ledger, writes>>
           /\ req'[r].pc \in {"get", "create"}
           /\ \A s \in Requests \ {r} : req'[s] = req[s]
<1>1. ASSUME NEW u \in Residents, GetBalance(r, u)
      PROVE  /\ TypeOK' /\ UNCHANGED <<accounts, ledger, writes>>
             /\ req'[r].pc \in {"get", "create"}
             /\ \A s \in Requests \ {r} : req'[s] = req[s]
  <2> DEFINE q == [NoRequest EXCEPT !.pc = "create", !.op = "balance", !.resident = u]
  <2>1. q \in Request /\ q.pc = "create" /\ q.op = "balance" /\ q.resident = u
    BY EmptyRows DEF Request
  <2>2. req' = [req EXCEPT ![r] = q]
    BY <1>1 DEF GetBalance
  <2> HIDE DEF q
  <2>3. /\ req' \in [Requests -> Request] /\ req'[r] = q
        /\ \A s \in Requests : req'[s].pc # "idle" => Names(s)'
        /\ \A s \in Requests \ {r} : req'[s] = req[s]
    BY <2>1, <2>2, CallStep
  <2> QED
    BY <1>1, <2>1, <2>3 DEF GetBalance, TypeOK
<1>2. ASSUME NEW u \in Residents, NEW op \in {"earn", "redeem"}, NEW k \in Keys,
             NEW a \in Amounts, CheckKey(r, op, u, k, a)
      PROVE  /\ TypeOK' /\ UNCHANGED <<accounts, ledger, writes>>
             /\ req'[r].pc \in {"get", "create"}
             /\ \A s \in Requests \ {r} : req'[s] = req[s]
  <2> DEFINE q == [NoRequest EXCEPT !.pc = "get", !.op = op, !.resident = u, !.key = k,
                                    !.amount = a]
  <2>1. /\ q \in Request /\ q.pc = "get" /\ q.op = op /\ q.resident = u
        /\ q.key = k /\ q.amount = a
    BY EmptyRows DEF Request
  <2>2. req' = [req EXCEPT ![r] = q] /\ k \in KeysOf[r]
    BY <1>2 DEF CheckKey
  <2> HIDE DEF q
  <2>3. /\ req' \in [Requests -> Request] /\ req'[r] = q
        /\ \A s \in Requests : req'[s].pc # "idle" => Names(s)'
        /\ \A s \in Requests \ {r} : req'[s] = req[s]
    BY <2>1, <2>2, CallStep
  <2> QED
    BY <1>2, <2>1, <2>3 DEF CheckKey, TypeOK
<1> QED
  BY <1>1, <1>2 DEF Call

LEMMA ReturnStep ==
    ASSUME TypeOK, NEW r \in Requests, Return(r)
    PROVE  /\ req' \in [Requests -> Request] /\ req'[r] = NoRequest
           /\ \A s \in Requests : req'[s].pc # "idle" => Names(s)'
           /\ \A s \in Requests \ {r} : req'[s] = req[s]
  BY EmptyRows, CallStep DEF Return

\* A step to the statement pc that leaves the rest of the call alone.
LEMMA MoveOn ==
    ASSUME TypeOK, NEW r \in Requests, req[r].pc # "idle", NEW pc,
           \/ pc \in {"create", "reread"}
           \/ pc = "record" /\ req[r].pc = "update",
           req' = [req EXCEPT ![r].pc = pc]
    PROVE  /\ req' \in [Requests -> Request]
           /\ \A s \in Requests : req'[s].pc # "idle" => Names(s)'
           /\ \A s \in Requests \ {r} : req'[s] = req[s]
           /\ req'[r].pc = pc /\ req'[r].resident = req[r].resident
           /\ req'[r].key = req[r].key
<1> DEFINE q == [req[r] EXCEPT !.pc = pc]
<1>1. req[r] \in Request /\ Names(r)
  BY DEF TypeOK
<1>2. /\ q \in Request /\ q.pc = pc /\ q.op = req[r].op /\ q.resident = req[r].resident
      /\ q.key = req[r].key /\ q.amount = req[r].amount
  BY <1>1 DEF Request
<1>3. req' = [req EXCEPT ![r] = q]
  OBVIOUS
<1>4. /\ q.resident \in Residents
      /\ \/ q.op \in {"earn", "redeem"} /\ q.key \in KeysOf[r] /\ q.amount \in Amounts
         \/ q.op = "balance" /\ q.pc \in {"create", "reread"}
  BY <1>1, <1>2 DEF Names
<1> HIDE DEF q
<1> QED
  BY <1>2, <1>3, <1>4, CallStep

\* A balance write: it lands on the version it was computed from, or not at all.
LEMMA UpdateStep ==
    ASSUME Inv, NEW r \in Requests, UpdateBalance(r)
    PROVE  /\ TypeOK'
           /\ \A s \in Requests \ {r} : req'[s] = req[s]
           /\ \/ req'[r] = NoRequest /\ UNCHANGED <<accounts, ledger, writes>>
              \/ LET q == req[r]
                     u == q.resident
                     before == accounts[u] IN
                 /\ req'[r].pc = "record" /\ req'[r].resident = u /\ req'[r].key = q.key
                 /\ u \in Residents /\ q.op \in {"earn", "redeem"} /\ q.key \in Keys
                 /\ q.op = "redeem" => q.amount <= before.balance
                 /\ accounts'[u] = Written(before, NewBalance(q, before.balance))
                 /\ \A w \in Residents \ {u} : accounts'[w] = accounts[w]
                 /\ writes' = [writes EXCEPT ![q.key] = @ + 1] /\ UNCHANGED ledger
<1> DEFINE q == req[r]
           u == q.resident
           before == accounts[u]
<1>1. /\ q.pc = "update" /\ q \in Request /\ u \in Residents /\ before \in Account
      /\ q.op \in {"earn", "redeem"} /\ q.key \in KeysOf[r]
      /\ before.version \in Nat /\ q.balance \in Credit
  BY DEF Inv, TypeOK, Names, UpdateBalance, Account, Request
<1>2. q.key \in Keys
  BY <1>1, KeysAssumption
<1>3. CASE before.version # q.version
  <2>1. Return(r) /\ UNCHANGED <<accounts, ledger, writes, faults>>
    BY <1>3 DEF UpdateBalance
  <2> QED
    BY <2>1, ReturnStep DEF Inv, TypeOK
<1>4. CASE before.version = q.version
  <2>1. /\ accounts' = [accounts EXCEPT ![u] =
                           Written(before, q.balance)]
        /\ writes' = [writes EXCEPT ![q.key] = @ + 1]
        /\ req' = [req EXCEPT ![r].pc = "record"] /\ UNCHANGED <<ledger, faults>>
    BY <1>4 DEF UpdateBalance
  <2>2. /\ q.balance = NewBalance(q, before.balance)
        /\ q.op = "redeem" => q.amount <= before.balance
    BY <1>1, <1>4 DEF Inv, HeldCurrent
  <2>3. Written(before, q.balance) \in Account
    <3>1. before.version + 1 \in Nat
      BY <1>1
    <3> QED
      BY <1>1, <3>1 DEF Account, Written
  <2>4. /\ accounts' \in [Residents -> Account]
        /\ accounts'[u] = Written(before, q.balance)
        /\ \A w \in Residents \ {u} : accounts'[w] = accounts[w]
    BY <1>1, <2>1, <2>3 DEF Inv, TypeOK
  <2>5. /\ req' \in [Requests -> Request]
        /\ \A s \in Requests : req'[s].pc # "idle" => Names(s)'
        /\ \A s \in Requests \ {r} : req'[s] = req[s]
        /\ req'[r].pc = "record" /\ req'[r].resident = u /\ req'[r].key = q.key
    BY <1>1, <2>1, MoveOn DEF Inv
  <2>6. writes' \in [Keys -> Nat]
    BY <1>2, <2>1 DEF Inv, TypeOK
  <2>7. TypeOK'
    BY <2>1, <2>4, <2>5, <2>6 DEF Inv, TypeOK
  <2> QED
    BY <1>1, <1>2, <2>1, <2>2, <2>4, <2>5, <2>7
<1> QED
  BY <1>3, <1>4

-----------------------------------------------------------------------------
(* The invariant is inductive: a written account leaves no held write valid. *)

AccountsAdvance ==
    \A u \in Residents : accounts[u].live =>
        \/ accounts'[u] = accounts[u]
        \/ accounts'[u].live /\ accounts'[u].version > accounts[u].version

\* The calls that did not move keep what the invariant says of them.
LEMMA OthersHold ==
    ASSUME Inv, TypeOK', AccountsAdvance, NEW s \in Requests, req'[s] = req[s],
           req[s].pc \in {"update", "reread", "record"}
    PROVE  LET q == req[s]
               account == accounts'[q.resident] IN
           /\ account.live
           /\ q.pc = "update" =>
                 /\ q.version <= account.version
                 /\ account.version = q.version =>
                       /\ q.balance = NewBalance(q, account.balance)
                       /\ q.op = "redeem" => q.amount <= account.balance
<1> DEFINE q == req[s]
           u == q.resident
<1>1. /\ u \in Residents /\ accounts[u].live /\ q.version \in Nat
      /\ accounts[u].version \in Nat /\ accounts'[u].version \in Nat
  BY DEF Inv, HeldCurrent, Created, TypeOK, Names, Request, Account
<1>2. CASE accounts'[u] = accounts[u]
  BY <1>1, <1>2 DEF Inv, HeldCurrent
<1>3. CASE accounts'[u].live /\ accounts'[u].version > accounts[u].version
  BY <1>1, <1>3 DEF Inv, HeldCurrent
<1> QED
  BY <1>1, <1>2, <1>3 DEF AccountsAdvance

\* A step of r after which r holds no write, or a valid one.
LEMMA InvFrom ==
    ASSUME Inv, TypeOK', AccountsAdvance, NEW r \in Requests,
           \A s \in Requests \ {r} : req'[s] = req[s],
           req'[r].pc = "update" => HeldCurrent',
           req'[r].pc \in {"reread", "record"} => accounts'[req'[r].resident].live
    PROVE  Inv'
<1>1. Created'
  BY OthersHold DEF Created
<1>2. CASE req'[r].pc = "update"
  BY <1>1, <1>2 DEF Inv
<1>3. CASE req'[r].pc # "update"
  <2>1. HeldCurrent'
    <3> SUFFICES ASSUME NEW s \in Requests, req'[s].pc = "update"
                 PROVE  LET q == req'[s]
                            account == accounts'[q.resident] IN
                        /\ account.live /\ q.version <= account.version
                        /\ account.version = q.version =>
                              /\ q.balance = NewBalance(q, account.balance)
                              /\ q.op = "redeem" => q.amount <= account.balance
      BY DEF HeldCurrent
    <3>1. req'[s] = req[s]
      BY <1>3
    <3> QED
      BY <3>1, OthersHold
  <2> QED
    BY <1>1, <2>1 DEF Inv
<1> QED
  BY <1>2, <1>3

LEMMA CreateStep ==
    ASSUME Inv, NEW r \in Requests, CreateAccount(r)
    PROVE  /\ TypeOK' /\ AccountsAdvance /\ req'[r].pc = "reread"
           /\ accounts'[req'[r].resident].live
           /\ req'[r].key = req[r].key
           /\ \A u \in Residents : accounts[u].live => accounts'[u] = accounts[u]
           /\ \A s \in Requests \ {r} : req'[s] = req[s]
<1> DEFINE u == req[r].resident
<1>1. /\ u \in Residents /\ accounts[u] \in Account /\ req[r].pc # "idle"
      /\ req' = [req EXCEPT ![r].pc = "reread"] /\ UNCHANGED <<ledger, writes, faults>>
  BY DEF Inv, TypeOK, Names, CreateAccount
<1>2. /\ req' \in [Requests -> Request]
      /\ \A s \in Requests : req'[s].pc # "idle" => Names(s)'
      /\ \A s \in Requests \ {r} : req'[s] = req[s]
      /\ req'[r].pc = "reread" /\ req'[r].resident = u /\ req'[r].key = req[r].key
  BY <1>1, MoveOn DEF Inv
<1>3. CASE accounts[u].live
  <2>1. accounts' = accounts
    BY <1>3 DEF CreateAccount
  <2> QED
    BY <1>1, <1>2, <1>3, <2>1 DEF Inv, TypeOK, AccountsAdvance
<1>4. CASE ~accounts[u].live
  <2>1. accounts' = [accounts EXCEPT ![u] = NewAccount]
    BY <1>4 DEF CreateAccount
  <2>2. /\ accounts' \in [Residents -> Account] /\ accounts'[u] = NewAccount
        /\ \A w \in Residents \ {u} : accounts'[w] = accounts[w]
    BY <1>1, <2>1, EmptyRows DEF Inv, TypeOK
  <2>4. AccountsAdvance
    BY <1>4, <2>2 DEF AccountsAdvance
  <2>5. TypeOK'
    BY <1>1, <1>2, <2>2 DEF Inv, TypeOK
  <2> QED
    BY <1>2, <1>4, <2>2, <2>4, <2>5, EmptyRows
<1> QED
  BY <1>3, <1>4

LEMMA RecordStep ==
    ASSUME Inv, NEW r \in Requests, RecordTransaction(r)
    PROVE  /\ TypeOK' /\ UNCHANGED <<accounts, writes>> /\ req'[r] = NoRequest
           /\ \A s \in Requests \ {r} : req'[s] = req[s]
           /\ req[r].key \in Keys /\ ledger'[req[r].key] # NoEntry
           /\ \A k \in Keys : ledger[k] # NoEntry => ledger'[k] # NoEntry
<1> DEFINE q == req[r]
           entry == [resident |-> q.resident, op |-> q.op, amount |-> q.amount,
                     after |-> q.balance]
<1>1. /\ q.pc = "record" /\ q \in Request /\ q.resident \in Residents
      /\ q.op \in {"earn", "redeem"} /\ q.key \in Keys /\ q.amount \in Amounts
  BY KeysAssumption DEF Inv, TypeOK, Names, RecordTransaction
<1>2. entry \in Entry /\ entry # NoEntry
  BY <1>1, NobodyAssumption DEF Entry, NoEntry, Request
<1>3. /\ req' \in [Requests -> Request] /\ req'[r] = NoRequest
      /\ \A s \in Requests : req'[s].pc # "idle" => Names(s)'
      /\ \A s \in Requests \ {r} : req'[s] = req[s]
  BY ReturnStep DEF RecordTransaction, Inv
<1>4. UNCHANGED <<accounts, writes, faults>>
  BY DEF RecordTransaction
<1>5. CASE ledger[q.key] = NoEntry
  <2>1. ledger' = [ledger EXCEPT ![q.key] = entry]
    BY <1>5 DEF RecordTransaction
  <2>2. ledger' \in [Keys -> Entry \cup {NoEntry}] /\ ledger'[q.key] = entry
    BY <1>1, <1>2, <2>1 DEF Inv, TypeOK
  <2>3. \A k \in Keys : ledger[k] # NoEntry => ledger'[k] # NoEntry
    BY <1>1, <1>5, <2>1 DEF Inv, TypeOK
  <2> QED
    BY <1>1, <1>2, <1>3, <1>4, <2>2, <2>3 DEF Inv, TypeOK
<1>6. CASE ledger[q.key] # NoEntry
  <2>1. ledger' = ledger
    BY <1>6 DEF RecordTransaction
  <2> QED
    BY <1>1, <1>3, <1>4, <1>6, <2>1 DEF Inv, TypeOK
<1> QED
  BY <1>5, <1>6

LEMMA CrashStep ==
    ASSUME TypeOK, Crash
    PROVE  /\ TypeOK' /\ UNCHANGED <<accounts, ledger, writes>>
           /\ \A r \in Requests : req'[r] = NoRequest
<1>1. /\ UNCHANGED <<accounts, ledger, writes>>
      /\ req' = [r \in Requests |-> NoRequest] /\ faults' = faults + 1
  BY DEF Crash, Fault
<1> QED
  BY <1>1, EmptyRows DEF TypeOK, Names

LEMMA AbandonStep ==
    ASSUME TypeOK, NEW r \in Requests, Abandon(r)
    PROVE  /\ TypeOK' /\ UNCHANGED <<accounts, ledger, writes>> /\ req'[r] = NoRequest
           /\ \A s \in Requests \ {r} : req'[s] = req[s]
<1>1. UNCHANGED <<accounts, ledger, writes>> /\ faults' = faults + 1 /\ Return(r)
  BY DEF Abandon, Fault
<1> QED
  BY <1>1, ReturnStep DEF TypeOK

LEMMA GetStep ==
    ASSUME Inv, NEW r \in Requests, GetAccount(r) \/ ReRead(r)
    PROVE  /\ TypeOK' /\ UNCHANGED <<accounts, ledger, writes>>
           /\ \A s \in Requests \ {r} : req'[s] = req[s]
           /\ \/ req'[r] = NoRequest
              \/ req'[r].pc = "create" /\ req'[r].key = req[r].key
              \/ req'[r].pc = "update" /\ HeldCurrent' /\ req'[r].key = req[r].key
<1>1. UNCHANGED <<accounts, ledger, writes, faults>> /\ req[r].pc \in {"get", "reread"}
  BY DEF GetAccount, ReRead
<1>2. CASE Hold(r) /\ accounts[req[r].resident].live
  BY <1>1, <1>2, HoldStep DEF Inv
<1>3. CASE GetAccount(r) /\ ~accounts[req[r].resident].live
  <2>1. req' = [req EXCEPT ![r].pc = "create"]
    BY <1>3 DEF GetAccount
  <2>2. /\ req' \in [Requests -> Request]
        /\ \A s \in Requests : req'[s].pc # "idle" => Names(s)'
        /\ \A s \in Requests \ {r} : req'[s] = req[s]
        /\ req'[r].pc = "create" /\ req'[r].key = req[r].key
    BY <1>1, <2>1, MoveOn DEF Inv
  <2> QED
    BY <1>1, <2>2 DEF Inv, TypeOK
<1>4. ReRead(r) => Hold(r) /\ accounts[req[r].resident].live
  BY DEF ReRead, Inv, Created
<1> QED
  BY <1>2, <1>3, <1>4 DEF GetAccount

LEMMA InvStep == Inv /\ [Next]_vars => Inv'
<1> SUFFICES ASSUME Inv, [Next]_vars PROVE Inv'
  OBVIOUS
<1>1. UNCHANGED accounts => AccountsAdvance
  BY DEF AccountsAdvance
<1>2. ASSUME NEW r \in Requests, Call(r) PROVE Inv'
  <2>1. /\ TypeOK' /\ UNCHANGED accounts /\ req'[r].pc \in {"get", "create"}
        /\ \A s \in Requests \ {r} : req'[s] = req[s]
    BY <1>2, CallsChecked DEF Inv
  <2> QED
    BY <1>1, <2>1, InvFrom
<1>3. ASSUME NEW r \in Requests, GetAccount(r) \/ ReRead(r) PROVE Inv'
  <2>1. /\ TypeOK' /\ UNCHANGED accounts
        /\ \A s \in Requests \ {r} : req'[s] = req[s]
        /\ req'[r].pc \in {"idle", "create", "update"}
        /\ req'[r].pc = "update" => HeldCurrent'
    BY <1>3, GetStep, EmptyRows
  <2> QED
    BY <1>1, <2>1, InvFrom
<1>4. ASSUME NEW r \in Requests, CreateAccount(r) PROVE Inv'
  BY <1>4, CreateStep, InvFrom
<1>5. ASSUME NEW r \in Requests, UpdateBalance(r) PROVE Inv'
  <2>1. /\ TypeOK' /\ \A s \in Requests \ {r} : req'[s] = req[s]
    BY <1>5, UpdateStep
  <2>2. CASE req'[r] = NoRequest /\ UNCHANGED accounts
    BY <1>1, <2>1, <2>2, EmptyRows, InvFrom
  <2>3. CASE req'[r] # NoRequest
    <3> DEFINE u == req[r].resident
               new == NewBalance(req[r], accounts[u].balance)
    <3>1. /\ req'[r].pc = "record" /\ req'[r].resident = u /\ u \in Residents
          /\ accounts'[u] = Written(accounts[u], new)
          /\ \A w \in Residents \ {u} : accounts'[w] = accounts[w]
      BY <1>5, <2>3, UpdateStep
    <3>2. accounts[u] \in Account /\ accounts[u].live /\ accounts[u].version \in Nat
      BY <1>5, <3>1 DEF Inv, TypeOK, HeldCurrent, UpdateBalance, Account
    <3>3. accounts'[u].live /\ accounts'[u].version = accounts[u].version + 1
      BY <3>1, <3>2 DEF Written, Account
    <3>4. AccountsAdvance
      BY <3>1, <3>2, <3>3 DEF AccountsAdvance
    <3> QED
      BY <2>1, <3>1, <3>3, <3>4, InvFrom
  <2> QED
    BY <1>5, <2>2, <2>3, UpdateStep, EmptyRows
<1>6. ASSUME NEW r \in Requests, RecordTransaction(r) PROVE Inv'
  <2>1. /\ TypeOK' /\ UNCHANGED accounts /\ req'[r].pc = "idle"
        /\ \A s \in Requests \ {r} : req'[s] = req[s]
    BY <1>6, RecordStep, EmptyRows
  <2> QED
    BY <1>1, <2>1, InvFrom
<1>7. ASSUME NEW r \in Requests, Abandon(r) PROVE Inv'
  <2>1. /\ TypeOK' /\ UNCHANGED accounts /\ req'[r].pc = "idle"
        /\ \A s \in Requests \ {r} : req'[s] = req[s]
    BY <1>7, AbandonStep, EmptyRows DEF Inv
  <2> QED
    BY <1>1, <2>1, InvFrom
<1>8. CASE Crash
  BY <1>8, CrashStep, EmptyRows DEF Inv, HeldCurrent, Created
<1>9. CASE UNCHANGED vars
  BY <1>9 DEF vars, Inv, TypeOK, Names, HeldCurrent, Created
<1> QED
  BY <1>2, <1>3, <1>4, <1>5, <1>6, <1>7, <1>8, <1>9 DEF Next, Proceed

LEMMA InvHolds == Spec => []Inv
  BY InvInit, InvStep, PTL DEF Spec

\* Every state holds accounts, transactions and calls of the declared shape.
THEOREM TypeCorrect == Spec => []TypeOK
<1>1. Inv => TypeOK
  BY DEF Inv
<1> QED
  BY <1>1, InvHolds, PTL

LEMMA LandingStep ==
    ASSUME Inv, [Next]_vars, NEW r \in Requests, Lands(r)
    PROVE  UpdateBalance(r)
<1>1. req[r].pc = "update" /\ req'[r].pc = "record" /\ req'[r] # req[r]
      /\ req'[r] # NoRequest
  BY EmptyRows DEF Lands
<1>2. ~Crash /\ req' # req
  BY <1>1, CrashStep DEF Inv
<1>3. ASSUME NEW s \in Requests, Call(s) \/ Proceed(s) \/ Abandon(s) PROVE s = r
  <2>1. CASE UpdateBalance(s)
    BY <1>1, <2>1, UpdateStep
  <2>2. CASE CreateAccount(s)
    BY <1>1, <2>2, CreateStep
  <2>3. CASE Call(s)
    BY <1>1, <2>3, CallsChecked DEF Inv
  <2>4. CASE GetAccount(s) \/ ReRead(s)
    BY <1>1, <2>4, GetStep
  <2>5. CASE RecordTransaction(s)
    BY <1>1, <2>5, RecordStep
  <2>6. CASE Abandon(s)
    BY <1>1, <2>6, AbandonStep DEF Inv
  <2> QED
    BY <1>3, <2>1, <2>2, <2>3, <2>4, <2>5, <2>6 DEF Proceed
<1>4. ~Call(r) /\ ~GetAccount(r) /\ ~ReRead(r) /\ ~CreateAccount(r)
      /\ ~RecordTransaction(r)
  BY <1>1 DEF Call, GetBalance, CheckKey, GetAccount, ReRead, CreateAccount, RecordTransaction
<1>5. ~Abandon(r)
  BY <1>1, AbandonStep DEF Inv
<1> QED
  BY <1>2, <1>3, <1>4, <1>5 DEF Next, Proceed, vars

\* What a write that lands makes of the balance it finds.
LEMMA LandedBalance ==
    ASSUME Inv, [Next]_vars, NEW r \in Requests, Lands(r)
    PROVE  LET q == req[r]
               before == accounts[q.resident].balance IN
           /\ q.resident \in Residents
           /\ accounts'[q.resident].balance = NewBalance(q, before)
           /\ q.op = "redeem" => q.amount <= before
<1>1. UpdateBalance(r)
  BY LandingStep
<1>2. req'[r] # NoRequest
  BY EmptyRows DEF Lands
<1> DEFINE u == req[r].resident
<1>3. /\ u \in Residents
      /\ accounts'[u] = Written(accounts[u], NewBalance(req[r], accounts[u].balance))
      /\ req[r].op = "redeem" => req[r].amount <= accounts[u].balance
  BY <1>1, <1>2, UpdateStep
<1>4. accounts[u] \in Account
  BY <1>3 DEF Inv, TypeOK
<1>5. accounts'[u].balance = NewBalance(req[r], accounts[u].balance)
  BY <1>3, <1>4 DEF Written, Account
<1> QED
  BY <1>3, <1>5

\* The version check makes a balance write sound: it lands on the stored
\* balance, which covers it if it is a redemption (UpdateBalance of the
\* repository, after the checks EarnCredit and RedeemCredit made earlier).
THEOREM WritesLand == Spec => LandsOnStored
<1>1. Inv /\ [Next]_vars =>
         [\A r \in Requests : Lands(r) =>
             LET q == req[r]
                 before == accounts[q.resident].balance IN
             /\ accounts'[q.resident].balance = NewBalance(q, before)
             /\ q.op = "redeem" => q.amount <= before]_vars
  BY LandedBalance
<1> QED
  BY <1>1, InvHolds, PTL DEF Spec, LandsOnStored

-----------------------------------------------------------------------------
(***************************************************************************)
(* Once, and once more per fault.  The balance write and the transaction   *)
(* of a private key are the same call's: until it is recorded no other     *)
(* call has the key, and afterwards the key is found.  Only a fault ends   *)
(* the call in between, and then the caller may write once more.           *)
(***************************************************************************)
Unwritten == {"get", "create", "reread", "update"}

\* r works on a private key.
Held(r) == req[r].key \in KeysOf[r] /\ Private(req[r].key)

WritesBounded ==
    /\ \A k \in Keys : Private(k) => writes[k] <= 1 + faults
    /\ \A k \in Keys : Private(k) /\ writes[k] > faults =>
          ledger[k] # NoEntry \/ \E r \in Requests : req[r].pc = "record" /\ req[r].key = k
    /\ \A r \in Requests : req[r].pc \in Unwritten /\ Held(r) => writes[req[r].key] <= faults

\* The call that starts with a key finds it not recorded, and no write of it that
\* a fault has not paid for.
LEMMA StartsBounded ==
    ASSUME Inv, WritesBounded, NEW r \in Requests, Call(r),
           req'[r].key \in KeysOf[r], Private(req'[r].key)
    PROVE  writes[req'[r].key] <= faults
<1>1. ASSUME NEW u \in Residents, GetBalance(r, u) PROVE FALSE
  <2>1. req'[r].key = None
    BY <1>1 DEF GetBalance, NoRequest, Inv, TypeOK
  <2> QED
    BY <2>1, KeysAssumption, NobodyAssumption
<1>2. ASSUME NEW u \in Residents, NEW op \in {"earn", "redeem"}, NEW k \in Keys,
             NEW a \in Amounts, CheckKey(r, op, u, k, a)
      PROVE  writes[req'[r].key] <= faults
  <2>1. req'[r].key = k /\ k \in KeysOf[r] /\ ledger[k] = NoEntry /\ req[r].pc = "idle"
    BY <1>2 DEF CheckKey, NoRequest, Inv, TypeOK
  <2>2. \A s \in Requests : req[s].pc = "record" => req[s].key \in KeysOf[s]
    BY DEF Inv, TypeOK, Names
  <2>3. \A s \in Requests : req[s].pc = "record" => req[s].key # k
    BY <2>1, <2>2, KeysAssumption DEF Private
  <2> QED
    BY <2>1, <2>3 DEF WritesBounded, Inv, TypeOK
<1> QED
  BY <1>1, <1>2 DEF Call

\* A step of r that writes nothing and records nothing.
LEMMA KeepsBounded ==
    ASSUME WritesBounded, NEW r \in Requests, UNCHANGED <<ledger, writes, faults>>,
           \A s \in Requests \ {r} : req'[s] = req[s],
           req[r].pc # "record",
           req'[r].pc \in Unwritten /\ Held(r)' => writes[req'[r].key] <= faults
    PROVE  WritesBounded'
<1>1. \A k \in Keys : Private(k) => writes'[k] <= 1 + faults'
  BY DEF WritesBounded
<1>2. ASSUME NEW k \in Keys, Private(k), writes'[k] > faults'
      PROVE  ledger'[k] # NoEntry \/ \E s \in Requests : req'[s].pc = "record" /\ req'[s].key = k
  BY <1>2 DEF WritesBounded
<1>3. ASSUME NEW s \in Requests, req'[s].pc \in Unwritten, Held(s)'
      PROVE  writes'[req'[s].key] <= faults'
  BY <1>3 DEF WritesBounded, Held
<1> QED
  BY <1>1, <1>2, <1>3 DEF WritesBounded

LEMMA UpdateBounded ==
    ASSUME Inv, WritesBounded, NEW r \in Requests, UpdateBalance(r)
    PROVE  WritesBounded'
<1>1. /\ req[r].pc = "update" /\ req[r].key \in KeysOf[r]
      /\ \A s \in Requests \ {r} : req'[s] = req[s]
  BY UpdateStep DEF UpdateBalance, Inv, TypeOK, Names
<1>2. CASE req'[r] = NoRequest
  <2>1. UNCHANGED <<ledger, writes, faults>>
    BY <1>2, UpdateStep, EmptyRows DEF UpdateBalance
  <2> QED
    BY <1>1, <1>2, <2>1, KeepsBounded, EmptyRows DEF Unwritten
<1>3. CASE req'[r] # NoRequest
  <2> DEFINE key == req[r].key
  <2>1. /\ req'[r].pc = "record" /\ req'[r].key = key /\ key \in Keys
        /\ writes' = [writes EXCEPT ![key] = @ + 1] /\ UNCHANGED <<ledger, faults>>
    BY <1>3, UpdateStep DEF UpdateBalance
  <2>2. /\ Private(key) => writes[key] <= faults
        /\ writes \in [Keys -> Nat] /\ faults \in Nat
    BY <1>1 DEF WritesBounded, Unwritten, Held, Inv, TypeOK
  <2>3. /\ Private(key) => writes'[key] <= 1 + faults
        /\ \A k \in Keys \ {key} : writes'[k] = writes[k]
    BY <2>1, <2>2
  <2>4. \A k \in Keys : Private(k) => writes'[k] <= 1 + faults'
    BY <2>1, <2>3 DEF WritesBounded
  <2>5. ASSUME NEW k \in Keys, Private(k), writes'[k] > faults'
        PROVE  \/ ledger'[k] # NoEntry
               \/ \E s \in Requests : req'[s].pc = "record" /\ req'[s].key = k
    <3>1. CASE k = key
      BY <2>1, <3>1
    <3>2. CASE k # key
      <4>1. \/ ledger[k] # NoEntry
            \/ \E s \in Requests : req[s].pc = "record" /\ req[s].key = k
        BY <2>1, <2>3, <2>5, <3>2 DEF WritesBounded
      <4> QED
        BY <1>1, <2>1, <4>1
    <3> QED
      BY <3>1, <3>2
  <2>6. ASSUME NEW s \in Requests, req'[s].pc \in Unwritten, Held(s)'
        PROVE  writes'[req'[s].key] <= faults'
    <3>1. s # r /\ req'[s] = req[s]
      BY <1>1, <2>1, <2>6 DEF Unwritten
    <3>2. req[s].key # key /\ req[s].key \in Keys
      BY <1>1, <2>6, <3>1, KeysAssumption DEF Private, Held
    <3> QED
      BY <2>1, <2>3, <2>6, <3>1, <3>2 DEF WritesBounded, Held
  <2> QED
    BY <2>4, <2>5, <2>6 DEF WritesBounded
<1> QED
  BY <1>2, <1>3

LEMMA RecordBounded ==
    ASSUME Inv, WritesBounded, NEW r \in Requests, RecordTransaction(r)
    PROVE  WritesBounded'
<1>1. /\ writes' = writes /\ faults' = faults /\ req'[r].pc = "idle"
      /\ \A s \in Requests \ {r} : req'[s] = req[s]
      /\ ledger'[req[r].key] # NoEntry
      /\ \A k \in Keys : ledger[k] # NoEntry => ledger'[k] # NoEntry
  BY RecordStep, EmptyRows DEF RecordTransaction
<1>2. ASSUME NEW k \in Keys, Private(k), writes'[k] > faults'
      PROVE  ledger'[k] # NoEntry \/ \E s \in Requests : req'[s].pc = "record" /\ req'[s].key = k
  BY <1>1, <1>2 DEF WritesBounded
<1>3. ASSUME NEW s \in Requests, req'[s].pc \in Unwritten, Held(s)'
      PROVE  writes'[req'[s].key] <= faults'
  BY <1>1, <1>3 DEF WritesBounded, Unwritten, Held
<1> QED
  BY <1>1, <1>2, <1>3 DEF WritesBounded

\* A fault pays for the write it leaves without a transaction.
LEMMA FaultBounded ==
    ASSUME Inv, WritesBounded, UNCHANGED writes, faults' = faults + 1,
           \A s \in Requests : req'[s] = req[s] \/ req'[s] = NoRequest
    PROVE  WritesBounded'
<1>1. writes \in [Keys -> Nat] /\ faults \in Nat
  BY DEF Inv, TypeOK
<1>2. \A k \in Keys : Private(k) => writes'[k] <= faults'
  BY <1>1 DEF WritesBounded
<1>3. ASSUME NEW s \in Requests, req'[s].pc \in Unwritten, Held(s)'
      PROVE  writes'[req'[s].key] <= faults'
  <2>1. req'[s] = req[s]
    BY <1>3, EmptyRows DEF Unwritten
  <2>2. req[s].key \in Keys
    BY <1>3, <2>1, KeysAssumption DEF Held
  <2> QED
    BY <1>1, <1>2, <1>3, <2>1, <2>2 DEF Held
<1>4. \A k \in Keys : Private(k) => writes'[k] <= 1 + faults' /\ ~(writes'[k] > faults')
  BY <1>1, <1>2
<1> QED
  BY <1>3, <1>4 DEF WritesBounded

LEMMA BoundedStep ==
    ASSUME Inv, WritesBounded, [Next]_vars
    PROVE  WritesBounded'
<1>1. ASSUME NEW r \in Requests, Abandon(r) PROVE WritesBounded'
  BY <1>1, FaultBounded DEF Abandon, Fault, Return, Inv, TypeOK
<1>2. ASSUME NEW r \in Requests, Call(r) PROVE WritesBounded'
  <2>1. /\ UNCHANGED <<ledger, writes, faults>> /\ req[r].pc = "idle"
        /\ \A s \in Requests \ {r} : req'[s] = req[s]
    BY <1>2, CallsChecked DEF Inv, Call, GetBalance, CheckKey
  <2> QED
    BY <1>2, <2>1, StartsBounded, KeepsBounded DEF Held
<1>3. ASSUME NEW r \in Requests, GetAccount(r) \/ ReRead(r) PROVE WritesBounded'
  <2>1. req[r].pc \in Unwritten /\ req[r].pc # "record"
    BY <1>3 DEF GetAccount, ReRead, Unwritten
  <2>2. /\ UNCHANGED <<ledger, writes, faults>>
        /\ \A s \in Requests \ {r} : req'[s] = req[s]
        /\ req'[r].pc = "idle" \/ req'[r].key = req[r].key
    BY <1>3, GetStep, EmptyRows DEF GetAccount, ReRead
  <2>3. req'[r].pc \in Unwritten /\ Held(r)' => writes[req'[r].key] <= faults
    BY <2>1, <2>2 DEF WritesBounded, Unwritten, Held
  <2> QED
    BY <2>1, <2>2, <2>3, KeepsBounded
<1>4. ASSUME NEW r \in Requests, CreateAccount(r) PROVE WritesBounded'
  <2>1. /\ UNCHANGED <<ledger, writes, faults>> /\ req[r].pc = "create"
        /\ \A s \in Requests \ {r} : req'[s] = req[s]
        /\ req'[r].key = req[r].key
    BY <1>4, CreateStep DEF CreateAccount
  <2>2. Held(r)' => writes[req'[r].key] <= faults
    BY <2>1 DEF WritesBounded, Unwritten, Held
  <2> QED
    BY <2>1, <2>2, KeepsBounded
<1>5. CASE UNCHANGED vars
  BY <1>5 DEF vars, WritesBounded, Held
<1>6. CASE Crash
  BY <1>6, FaultBounded DEF Crash, Fault
<1> QED
  BY <1>1, <1>2, <1>3, <1>4, <1>5, <1>6, UpdateBounded, RecordBounded DEF Next, Proceed

\* A key no other caller uses changes a balance once, and at most once more for
\* every fault, however its calls overlap with those of others and however often
\* its caller repeats them.  Two calls with a shared key may both find it unused.
THEOREM RetriesPaid == Spec => []RetriesBounded
<1>1. Init => WritesBounded
  BY DEF Init, WritesBounded, NoRequest, Unwritten
<1>2. WritesBounded => RetriesBounded
  BY DEF WritesBounded, RetriesBounded
<1> QED
  BY <1>1, <1>2, BoundedStep, InvHolds, PTL DEF Spec

\* An account that exists changes only by the balance write of a call for that
\* resident, one version at a time: calls that race to create it reset nothing.
THEOREM AccountsStay == Spec => AccountsKept
<1>1. ASSUME Inv, [Next]_vars, NEW u \in Residents, accounts[u].live,
             accounts'[u] # accounts[u]
      PROVE  /\ accounts'[u].live /\ accounts'[u].version = accounts[u].version + 1
             /\ \E r \in Requests : Lands(r) /\ req[r].resident = u
  <2>1. ASSUME NEW r \in Requests, UpdateBalance(r)
        PROVE  /\ accounts'[u].live /\ accounts'[u].version = accounts[u].version + 1
               /\ Lands(r) /\ req[r].resident = u
    <3>1. /\ req'[r].pc = "record" /\ req[r].resident = u
          /\ accounts'[u] = Written(accounts[u], NewBalance(req[r], accounts[u].balance))
      BY <1>1, <2>1, UpdateStep
    <3>2. accounts[u] \in Account
      BY <1>1 DEF Inv, TypeOK
    <3>3. accounts'[u].live /\ accounts'[u].version = accounts[u].version + 1
      BY <1>1, <3>1, <3>2 DEF Written, Account
    <3>4. Lands(r)
      BY <2>1, <3>1 DEF Lands, UpdateBalance
    <3> QED
      BY <3>1, <3>3, <3>4
  <2>2. ASSUME NEW r \in Requests, CreateAccount(r) PROVE FALSE
    BY <1>1, <2>2, CreateStep
  <2>3. ASSUME NEW r \in Requests, Call(r) \/ Abandon(r) \/ GetAccount(r) \/ ReRead(r)
                                   \/ RecordTransaction(r)
        PROVE  FALSE
    BY <1>1, <2>3, CallsChecked, AbandonStep, GetStep, RecordStep DEF Inv
  <2>4. ~Crash /\ ~UNCHANGED vars
    BY <1>1 DEF Crash, vars
  <2> QED
    BY <1>1, <2>1, <2>2, <2>3, <2>4 DEF Next, Proceed
<1>2. Inv /\ [Next]_vars =>
         [\A u \in Residents : accounts[u].live /\ accounts'[u] # accounts[u] =>
             /\ accounts'[u].live
             /\ accounts'[u].version = accounts[u].version + 1
             /\ \E r \in Requests : Lands(r) /\ req[r].resident = u]_vars
  BY <1>1
<1> QED
  BY <1>2, InvHolds, PTL DEF Spec, AccountsKept
=============================================================================
