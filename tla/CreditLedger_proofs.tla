------------------------ MODULE CreditLedger_proofs ------------------------
(***************************************************************************)
(* Theorems about Credits that relate the accounts to the ledger: every    *)
(* transaction has a balance write of its own, balances stay covered, and  *)
(* the transactions add up to the balance.                                 *)
(***************************************************************************)
EXTENDS Credits_proofs, Sums_proofs

\* The balance write of r, as UpdateBalance makes it when the version matches.
WrittenBy(r) ==
    LET q == req[r]
        u == q.resident IN
    /\ q.pc = "update" /\ u \in Residents /\ q.key \in Keys /\ q.amount \in Amounts
    /\ q.op \in {"earn", "redeem"}
    /\ q.op = "redeem" => q.amount <= accounts[u].balance
    /\ accounts[u].live /\ q.balance = NewBalance(q, accounts[u].balance)
    /\ accounts' = [accounts EXCEPT ![u] = Written(@, q.balance)]
    /\ req' = [req EXCEPT ![r].pc = "record"]
    /\ writes' = [writes EXCEPT ![q.key] = @ + 1]
    /\ UNCHANGED <<ledger, faults>>

\* Accounts stay as they are or are created.
OnlyCreated ==
    \A u \in Residents : \/ accounts'[u] = accounts[u]
                         \/ ~accounts[u].live /\ accounts'[u] = NewAccount

\* A step that neither writes a balance nor records a transaction.
Quiet ==
    /\ UNCHANGED <<ledger, writes>>
    /\ \A r \in Requests : req'[r].pc = "record" => req'[r] = req[r]
    /\ faults' = faults => \A r \in Requests : req[r].pc = "record" => req'[r] = req[r]
    /\ OnlyCreated

\* A call that is neither about to record nor stops being about to.
LEMMA QuietCall ==
    ASSUME NEW r \in Requests, UNCHANGED <<ledger, writes>>,
           \A s \in Requests \ {r} : req'[s] = req[s],
           req'[r].pc # "record", faults' # faults \/ req[r].pc # "record",
           OnlyCreated
    PROVE  Quiet
<1>1. ASSUME NEW s \in Requests, req'[s].pc = "record" PROVE req'[s] = req[s]
  BY <1>1
<1>2. ASSUME faults' = faults, NEW s \in Requests, req[s].pc = "record"
      PROVE  req'[s] = req[s]
  BY <1>2
<1> QED
  BY <1>1, <1>2 DEF Quiet

LEMMA LedgerSteps ==
    ASSUME Inv, [Next]_vars
    PROVE  \/ Quiet
           \/ \E r \in Requests : WrittenBy(r) \/ RecordTransaction(r)
<1>0. UNCHANGED accounts => OnlyCreated
  BY DEF OnlyCreated
<1>1. ASSUME NEW r \in Requests, Call(r) PROVE Quiet
  <2>1. /\ UNCHANGED <<accounts, ledger, writes>>
        /\ req'[r].pc \in {"get", "create"} /\ req[r].pc = "idle"
        /\ \A s \in Requests \ {r} : req'[s] = req[s]
    BY <1>1, CallsChecked DEF Inv, Call, GetBalance, CheckKey
  <2> QED
    BY <1>0, <2>1, QuietCall
<1>2. ASSUME NEW r \in Requests, GetAccount(r) \/ ReRead(r) PROVE Quiet
  <2>1. /\ UNCHANGED <<accounts, ledger, writes>>
        /\ req'[r].pc \in {"idle", "create", "update"} /\ req[r].pc # "record"
        /\ \A s \in Requests \ {r} : req'[s] = req[s]
    BY <1>2, GetStep, EmptyRows DEF GetAccount, ReRead
  <2> QED
    BY <1>0, <2>1, QuietCall
<1>3. ASSUME NEW r \in Requests, CreateAccount(r) PROVE Quiet
  <2>1. /\ UNCHANGED <<ledger, writes>>
        /\ req'[r].pc = "reread" /\ req[r].pc = "create"
        /\ \A s \in Requests \ {r} : req'[s] = req[s]
    BY <1>3, CreateStep DEF CreateAccount
  <2>2. OnlyCreated
    BY <1>3 DEF CreateAccount, Inv, TypeOK, OnlyCreated
  <2> QED
    BY <2>1, <2>2, QuietCall
<1>4. ASSUME NEW r \in Requests, UpdateBalance(r) PROVE Quiet \/ WrittenBy(r)
  <2> DEFINE q == req[r]
             u == q.resident
  <2>1. /\ q.pc = "update" /\ u \in Residents /\ accounts[u].live
        /\ q.op \in {"earn", "redeem"} /\ q.key \in KeysOf[r] /\ q.amount \in Amounts
    BY <1>4 DEF UpdateBalance, Inv, TypeOK, Names, HeldCurrent
  <2>2. q.key \in Keys
    BY <2>1, KeysAssumption
  <2>3. CASE accounts[u].version = q.version
    <3>1. /\ q.balance = NewBalance(q, accounts[u].balance)
          /\ q.op = "redeem" => q.amount <= accounts[u].balance
      BY <2>1, <2>3 DEF Inv, HeldCurrent
    <3>2. /\ accounts' = [accounts EXCEPT ![u] = Written(@, q.balance)]
          /\ req' = [req EXCEPT ![r].pc = "record"]
          /\ writes' = [writes EXCEPT ![q.key] = @ + 1]
          /\ UNCHANGED <<ledger, faults>>
      BY <1>4, <2>3 DEF UpdateBalance
    <3> QED
      BY <2>1, <2>2, <3>1, <3>2 DEF WrittenBy
  <2>4. CASE accounts[u].version # q.version
    <3>1. Return(r) /\ UNCHANGED <<accounts, ledger, writes>>
      BY <1>4, <2>4 DEF UpdateBalance
    <3>2. req'[r].pc = "idle" /\ \A s \in Requests \ {r} : req'[s] = req[s]
      BY <3>1, ReturnStep, EmptyRows DEF Inv
    <3> QED
      BY <1>0, <2>1, <3>1, <3>2, QuietCall
  <2> QED
    BY <2>3, <2>4
<1>5. ASSUME NEW r \in Requests, Abandon(r) PROVE Quiet
  <2>1. /\ UNCHANGED <<accounts, ledger, writes>> /\ req'[r].pc = "idle"
        /\ \A s \in Requests \ {r} : req'[s] = req[s]
        /\ faults \in Nat /\ faults' = faults + 1
    BY <1>5, AbandonStep, EmptyRows DEF Abandon, Fault, Inv, TypeOK
  <2> QED
    BY <1>0, <2>1, QuietCall
<1>6. CASE Crash
  <2>1. /\ UNCHANGED <<accounts, ledger, writes>>
        /\ \A r \in Requests : req'[r].pc = "idle"
        /\ faults \in Nat /\ faults' = faults + 1
    BY <1>6, CrashStep, EmptyRows DEF Crash, Fault, Inv, TypeOK
  <2> QED
    BY <1>0, <2>1 DEF Quiet
<1>7. CASE UNCHANGED vars
  BY <1>0, <1>7 DEF vars, Quiet
<1> QED
  BY <1>1, <1>2, <1>3, <1>4, <1>5, <1>6, <1>7 DEF Next, Proceed

\* What a write does to the accounts, the calls and the history of writes.
LEMMA WriteEffect ==
    ASSUME Inv, NEW r \in Requests, WrittenBy(r)
    PROVE  LET q == req[r]
               u == q.resident IN
           /\ accounts'[u] = Written(accounts[u], q.balance)
           /\ \A w \in Residents \ {u} : accounts'[w] = accounts[w]
           /\ req'[r] = [q EXCEPT !.pc = "record"]
           /\ \A s \in Requests \ {r} : req'[s] = req[s]
           /\ writes'[q.key] = writes[q.key] + 1
           /\ \A k \in Keys \ {q.key} : writes'[k] = writes[k]
  BY DEF WrittenBy, Inv, TypeOK

LEMMA HeldAfterWrite ==
    ASSUME Inv, NEW r \in Requests, WrittenBy(r)
    PROVE  /\ req'[r].pc = "record" /\ req'[r].resident = req[r].resident
           /\ req'[r].key = req[r].key /\ req'[r].op = req[r].op
           /\ req'[r].amount = req[r].amount /\ req'[r].balance = req[r].balance
<1>1. req[r] \in Request /\ req'[r] = [req[r] EXCEPT !.pc = "record"]
  BY WriteEffect DEF Inv, TypeOK
<1> QED
  BY <1>1 DEF Request

\* What RecordTransaction stores and leaves.
LEMMA RecordEffect ==
    ASSUME Inv, NEW r \in Requests, RecordTransaction(r)
    PROVE  LET q == req[r] IN
           /\ q.pc = "record" /\ q.resident \in Residents /\ q.key \in Keys
           /\ q.op \in {"earn", "redeem"} /\ q.amount \in Amounts
           /\ accounts[q.resident].live
           /\ UNCHANGED <<accounts, writes, faults>> /\ req'[r] = NoRequest
           /\ \A s \in Requests \ {r} : req'[s] = req[s]
           /\ \A k \in Keys \ {q.key} : ledger'[k] = ledger[k]
           /\ ledger'[q.key] = IF ledger[q.key] = NoEntry
                               THEN [resident |-> q.resident, op |-> q.op,
                                     amount |-> q.amount, after |-> q.balance]
                               ELSE ledger[q.key]
<1>1. /\ req[r].pc = "record" /\ req[r].resident \in Residents /\ req[r].key \in Keys
      /\ req[r].op \in {"earn", "redeem"} /\ req[r].amount \in Amounts
      /\ accounts[req[r].resident].live
  BY KeysAssumption DEF Inv, TypeOK, Names, Created, RecordTransaction
<1>2. req'[r] = NoRequest /\ \A s \in Requests \ {r} : req'[s] = req[s]
  BY RecordStep
<1> QED
  BY <1>1, <1>2 DEF RecordTransaction, Inv, TypeOK

-----------------------------------------------------------------------------
(***************************************************************************)
(* A transaction has its own version.  Each balance write adds one call    *)
(* about to record, and recording moves it from the calls to the ledger or *)
(* drops it.  The sets grow from empty by one element at a time, so they   *)
(* are finite whatever the constants are.                                  *)
(***************************************************************************)
Backed(u) ==
    /\ IsFiniteSet(Entries(u)) /\ IsFiniteSet(Recording(u))
    /\ IF accounts[u].live
       THEN Cardinality(Entries(u)) + Cardinality(Recording(u)) <= accounts[u].version - 1
       ELSE accounts[u] = NoAccount /\ Entries(u) = {} /\ Recording(u) = {}

AllBacked == \A u \in Residents : Backed(u)

LEMMA BackedQuiet ==
    ASSUME Inv, AllBacked, Quiet, NEW u \in Residents
    PROVE  Backed(u)' /\ (faults' = faults => Recording(u)' = Recording(u))
<1>1. Entries(u)' = Entries(u)
  BY DEF Entries, Quiet
<1>2. Recording(u)' \subseteq Recording(u)
  BY DEF Recording, Quiet
<1>3. /\ IsFiniteSet(Recording(u)') /\ Cardinality(Recording(u)') \in Nat
      /\ Cardinality(Recording(u)') <= Cardinality(Recording(u))
      /\ Cardinality(Recording(u)) \in Nat /\ Cardinality(Entries(u)) \in Nat
  BY <1>2, FS_Subset, FS_CardinalityType DEF AllBacked, Backed
<1>4. faults' = faults => Recording(u)' = Recording(u)
  BY DEF Recording, Quiet
<1>5. accounts[u] \in Account /\ accounts[u].version \in Nat
  BY DEF Inv, TypeOK, Account
<1>6. CASE accounts'[u] = accounts[u]
  BY <1>1, <1>2, <1>3, <1>4, <1>5, <1>6 DEF AllBacked, Backed
<1>7. CASE ~accounts[u].live /\ accounts'[u] = NewAccount
  <2>1. Entries(u)' = {} /\ Recording(u)' = {} /\ accounts'[u].live /\ accounts'[u].version = 1
    BY <1>1, <1>2, <1>7, EmptyRows DEF AllBacked, Backed
  <2> QED
    BY <1>4, <2>1, FS_EmptySet DEF Backed
<1> QED
  BY <1>4, <1>6, <1>7 DEF Quiet, OnlyCreated

LEMMA BackedWrite ==
    ASSUME Inv, AllBacked, NEW r \in Requests, WrittenBy(r), NEW u \in Residents
    PROVE  /\ Backed(u)' /\ Entries(u)' = Entries(u)
           /\ u = req[r].resident =>
                 r \notin Recording(u) /\ Recording(u)' = Recording(u) \cup {r}
           /\ u # req[r].resident => Recording(u)' = Recording(u)
<1>1. Entries(u)' = Entries(u)
  BY DEF Entries, WrittenBy
<1>2. req[r].pc = "update" /\ req[r].resident \in Residents /\ accounts[req[r].resident].live
  BY DEF WrittenBy
<1>3. /\ req'[r].pc = "record" /\ req'[r].resident = req[r].resident
      /\ \A s \in Requests \ {r} : req'[s] = req[s]
  BY WriteEffect, HeldAfterWrite
<1>4. CASE u = req[r].resident
  <2>1. r \notin Recording(u)
    BY <1>2 DEF Recording
  <2>2. Recording(u)' = Recording(u) \cup {r}
    BY <1>3, <1>4 DEF Recording
  <2>3. /\ IsFiniteSet(Recording(u)')
        /\ Cardinality(Recording(u)') = Cardinality(Recording(u)) + 1
        /\ Cardinality(Recording(u)) \in Nat /\ Cardinality(Entries(u)) \in Nat
    BY <2>1, <2>2, FS_AddElement, FS_CardinalityType DEF AllBacked, Backed
  <2>4. accounts[u] \in Account /\ accounts[u].version \in Nat
    BY DEF Inv, TypeOK, Account
  <2>5. accounts'[u] = Written(accounts[u], req[r].balance)
    BY <1>4, WriteEffect
  <2>6. accounts'[u].live /\ accounts'[u].version = accounts[u].version + 1
    BY <1>2, <1>4, <2>4, <2>5 DEF Written, Account
  <2> QED
    BY <1>1, <1>2, <1>4, <2>1, <2>2, <2>3, <2>4, <2>6 DEF AllBacked, Backed
<1>5. CASE u # req[r].resident
  <2>1. Recording(u)' = Recording(u)
    <3>1. r \notin Recording(u) /\ r \notin Recording(u)'
      BY <1>2, <1>3, <1>5 DEF Recording
    <3> QED
      BY <1>3, <3>1 DEF Recording
  <2>2. accounts'[u] = accounts[u]
    BY <1>5, WriteEffect
  <2> QED
    BY <1>1, <1>5, <2>1, <2>2 DEF AllBacked, Backed
<1> QED
  BY <1>4, <1>5

\* A recorded transaction belongs to the resident of the call, and to no other.
LEMMA BackedRecord ==
    ASSUME Inv, AllBacked, NEW r \in Requests, RecordTransaction(r), NEW u \in Residents
    PROVE  /\ Backed(u)' /\ Recording(u)' = Recording(u) \ {r}
           /\ \/ /\ req[r].resident = u /\ ledger[req[r].key] = NoEntry
                 /\ req[r].key \notin Entries(u) /\ Entries(u)' = Entries(u) \cup {req[r].key}
              \/ /\ ~(req[r].resident = u /\ ledger[req[r].key] = NoEntry)
                 /\ Entries(u)' = Entries(u)
<1> DEFINE key == req[r].key
<1>1. /\ req[r].pc = "record" /\ key \in Keys /\ accounts[req[r].resident].live
      /\ UNCHANGED accounts /\ req'[r].pc = "idle"
      /\ \A s \in Requests \ {r} : req'[s] = req[s]
      /\ \A k \in Keys \ {key} : ledger'[k] = ledger[k]
  BY RecordEffect, EmptyRows
<1>2. /\ ledger[key] # NoEntry => ledger'[key] = ledger[key]
      /\ ledger[key] = NoEntry => ledger'[key].resident = req[r].resident
  <2> DEFINE entry == [resident |-> req[r].resident, op |-> req[r].op,
                       amount |-> req[r].amount, after |-> req[r].balance]
  <2>1. ledger'[key] = IF ledger[key] = NoEntry THEN entry ELSE ledger[key]
    BY RecordEffect
  <2>2. entry.resident = req[r].resident
    OBVIOUS
  <2> HIDE DEF entry
  <2> QED
    BY <2>1, <2>2
<1>3. ledger[key] = NoEntry => key \notin Entries(u)
  BY NobodyAssumption DEF Entries, NoEntry
<1>4. Recording(u)' = Recording(u) \ {r}
  <2>1. r \notin Recording(u)'
    BY <1>1 DEF Recording
  <2> QED
    BY <1>1, <2>1 DEF Recording
<1>5. /\ IsFiniteSet(Recording(u)') /\ Cardinality(Recording(u)) \in Nat
      /\ Cardinality(Recording(u)') = IF r \in Recording(u) THEN Cardinality(Recording(u)) - 1
                                                             ELSE Cardinality(Recording(u))
      /\ IsFiniteSet(Entries(u)) /\ Cardinality(Entries(u)) \in Nat
  BY <1>4, FS_RemoveElement, FS_CardinalityType DEF AllBacked, Backed
<1>6. accounts'[u] = accounts[u] /\ accounts[u].version \in Nat
  BY <1>1 DEF Inv, TypeOK, Account
<1>7. CASE req[r].resident = u /\ ledger[key] = NoEntry
  <2>1. Entries(u)' = Entries(u) \cup {key}
    BY <1>1, <1>2, <1>7 DEF Entries
  <2>2. /\ IsFiniteSet(Entries(u)')
        /\ Cardinality(Entries(u)') = Cardinality(Entries(u)) + 1
    <3>1. key \notin Entries(u) /\ IsFiniteSet(Entries(u))
      BY <1>3, <1>5, <1>7
    <3>2. /\ IsFiniteSet(Entries(u) \cup {key})
          /\ Cardinality(Entries(u) \cup {key}) = Cardinality(Entries(u)) + 1
      BY <3>1, FS_AddElement
    <3> QED
      BY <2>1, <3>2
  <2>3. r \in Recording(u) /\ accounts[u].live
    BY <1>1, <1>7 DEF Recording
  <2>4. Backed(u)'
    BY <1>5, <1>6, <2>2, <2>3 DEF AllBacked, Backed
  <2> QED
    BY <1>3, <1>4, <1>7, <2>1, <2>4
<1>8. CASE ~(req[r].resident = u /\ ledger[key] = NoEntry)
  <2>1. Entries(u)' = Entries(u)
    <3>1. key \in Entries(u)' <=> key \in Entries(u)
      BY <1>1, <1>2, <1>3, <1>8 DEF Entries
    <3> QED
      BY <1>1, <3>1 DEF Entries
  <2>2. Backed(u)'
    <3>1. CASE accounts[u].live
      BY <1>5, <1>6, <2>1, <3>1 DEF AllBacked, Backed
    <3>2. CASE ~accounts[u].live
      BY <1>4, <1>5, <1>6, <2>1, <3>2 DEF AllBacked, Backed
    <3> QED
      BY <3>1, <3>2
  <2> QED
    BY <1>4, <1>8, <2>1, <2>2
<1> QED
  BY <1>7, <1>8

LEMMA AllBackedStep ==
    ASSUME Inv, AllBacked, [Next]_vars
    PROVE  AllBacked'
  BY LedgerSteps, BackedQuiet, BackedWrite, BackedRecord DEF AllBacked

LEMMA AllBackedInit == Init => AllBacked
<1> SUFFICES ASSUME Init, NEW u \in Residents PROVE Backed(u)
  BY DEF AllBacked
<1>1. Entries(u) = {} /\ Recording(u) = {}
  BY EmptyRows, NobodyAssumption DEF Init, Entries, Recording, NoEntry
<1>2. accounts[u] = NoAccount /\ ~accounts[u].live
  BY EmptyRows DEF Init
<1> QED
  BY <1>1, <1>2, FS_EmptySet DEF Backed

LEMMA AllBackedHolds == Spec => []AllBacked
  BY AllBackedInit, AllBackedStep, InvHolds, PTL DEF Spec

\* A transaction recorded for a resident, or about to be, stands for a balance
\* write of its own: EarnCredit and RedeemCredit record only what UpdateBalance
\* wrote, and a write is recorded once at most.
THEOREM TransactionsBacked == Spec => []EntriesBacked
<1>1. AllBacked => EntriesBacked
  BY DEF AllBacked, Backed, EntriesBacked
<1> QED
  BY <1>1, AllBackedHolds, PTL

-----------------------------------------------------------------------------
(***************************************************************************)
(* A write adds the signed amount of its call, unless the int64 addition   *)
(* of an earning wraps, which EarnAdds rules out.                          *)
(***************************************************************************)
Adds == \A r \in Requests : Lands(r) /\ req[r].op = "earn" =>
           accounts'[req[r].resident].balance > accounts[req[r].resident].balance

LEMMA WriteAdds ==
    ASSUME Inv, Adds, NEW r \in Requests, WrittenBy(r)
    PROVE  LET q == req[r]
               before == accounts[q.resident].balance IN
           /\ accounts'[q.resident].balance = q.balance
           /\ before \in Int /\ q.amount \in Nat
           /\ q.balance = before + Signed(q.op, q.amount)
           /\ before >= 0 => q.balance >= 0
<1> DEFINE q == req[r]
           before == accounts[q.resident].balance
<1>1. /\ q.resident \in Residents /\ q.op \in {"earn", "redeem"} /\ q.amount \in Amounts
      /\ q.op = "redeem" => q.amount <= before
      /\ q.balance = NewBalance(q, before)
  BY DEF WrittenBy
<1>2. accounts[q.resident] \in Account /\ before \in Credit
  BY <1>1 DEF Inv, TypeOK, Account
<1>3. before \in Int /\ q.amount \in 1 .. MaxCredit /\ MaxCredit \in Nat
  BY <1>1, <1>2, Int64, AmountsAssumption
<1>4. accounts'[q.resident].balance = q.balance
  <2>1. accounts'[q.resident] = Written(accounts[q.resident], q.balance)
    BY WriteEffect
  <2> QED
    BY <1>2, <2>1 DEF Written, Account
<1>5. CASE q.op = "earn"
  <2>1. Lands(r)
    BY HeldAfterWrite DEF Lands, WrittenBy
  <2>2. q.balance > before
    BY <1>4, <1>5, <2>1 DEF Adds
  <2>3. q.balance = Plus(before, q.amount)
    BY <1>1, <1>5 DEF NewBalance
  <2>4. q.balance = before + q.amount
    BY <1>3, <2>2, <2>3 DEF Plus
  <2> QED
    BY <1>3, <1>4, <1>5, <2>4 DEF Signed
<1>6. CASE q.op = "redeem"
  <2>1. q.balance = before - q.amount /\ q.amount <= before
    BY <1>1, <1>6 DEF NewBalance
  <2> QED
    BY <1>3, <1>4, <1>6, <2>1 DEF Signed
<1> QED
  BY <1>1, <1>5, <1>6

\* The balance a call is about to record is the one it wrote.
NonNegative ==
    /\ NeverOverdrawn
    /\ \A r \in Requests : req[r].pc = "record" => req[r].balance >= 0

LEMMA NonNegativeStep ==
    ASSUME Inv, NonNegative, [Next]_vars, Adds
    PROVE  NonNegative'
<1>1. CASE Quiet
  <2>1. ASSUME NEW u \in Residents PROVE accounts'[u].balance >= 0
    BY <1>1 DEF NonNegative, NeverOverdrawn, Quiet, OnlyCreated, NewAccount
  <2>2. \A k \in Keys : ledger'[k].after >= 0
    BY <1>1 DEF NonNegative, NeverOverdrawn, Quiet
  <2>3. \A r \in Requests : req'[r].pc = "record" => req'[r].balance >= 0
    BY <1>1 DEF NonNegative, Quiet
  <2> QED
    BY <2>1, <2>2, <2>3 DEF NonNegative, NeverOverdrawn
<1>2. ASSUME NEW r \in Requests, WrittenBy(r) PROVE NonNegative'
  <2> DEFINE u == req[r].resident
  <2>1. u \in Residents /\ accounts'[u].balance = req[r].balance /\ req[r].balance >= 0
    BY <1>2, WriteAdds DEF NonNegative, NeverOverdrawn, WrittenBy
  <2>2. ASSUME NEW w \in Residents PROVE accounts'[w].balance >= 0
    <3>1. CASE w = u
      BY <2>1, <3>1
    <3>2. CASE w # u
      <4>1. accounts'[w] = accounts[w]
        BY <1>2, <3>2, WriteEffect
      <4> QED
        BY <4>1 DEF NonNegative, NeverOverdrawn
    <3> QED
      BY <3>1, <3>2
  <2>3. \A k \in Keys : ledger'[k].after >= 0
    BY <1>2 DEF NonNegative, NeverOverdrawn, WrittenBy
  <2>4. ASSUME NEW s \in Requests, req'[s].pc = "record" PROVE req'[s].balance >= 0
    <3>1. CASE s = r
      BY <1>2, <2>1, <3>1, HeldAfterWrite
    <3>2. CASE s # r
      <4>1. req'[s] = req[s]
        BY <1>2, <3>2, WriteEffect
      <4> QED
        BY <2>4, <4>1 DEF NonNegative
    <3> QED
      BY <3>1, <3>2
  <2> QED
    BY <2>2, <2>3, <2>4 DEF NonNegative, NeverOverdrawn
<1>3. ASSUME NEW r \in Requests, RecordTransaction(r) PROVE NonNegative'
  <2> DEFINE q == req[r]
             entry == [resident |-> q.resident, op |-> q.op, amount |-> q.amount,
                       after |-> q.balance]
  <2>1. /\ q.pc = "record" /\ UNCHANGED accounts /\ req'[r].pc = "idle"
        /\ \A s \in Requests \ {r} : req'[s] = req[s]
        /\ \A k \in Keys \ {q.key} : ledger'[k] = ledger[k]
    BY <1>3, RecordEffect, EmptyRows
  <2>2. entry.after >= 0
    BY <2>1 DEF NonNegative
  <2>3. ledger'[q.key] = entry \/ ledger'[q.key] = ledger[q.key]
    BY <1>3, RecordEffect
  <2> HIDE DEF entry
  <2>4. \A k \in Keys : ledger'[k].after >= 0
    BY <2>1, <2>2, <2>3 DEF NonNegative, NeverOverdrawn
  <2>5. \A s \in Requests : req'[s].pc = "record" => req'[s].balance >= 0
    BY <2>1 DEF NonNegative
  <2> QED
    BY <2>1, <2>4, <2>5 DEF NonNegative, NeverOverdrawn
<1> QED
  BY <1>1, <1>2, <1>3, LedgerSteps

\* No resident is overdrawn, whatever redemptions race: the balance a redemption
\* was decided on is the one its write finds.  The hypothesis is that no earning
\* wraps round the largest int64; one that does makes a balance negative.
THEOREM Covered == Spec /\ EarnAdds => []NeverOverdrawn
<1>1. Init => NonNegative
  BY EmptyRows DEF Init, NonNegative, NeverOverdrawn, NoAccount, NoEntry
<1>2. Inv /\ NonNegative /\ [Next]_vars /\ [Adds]_vars => NonNegative'
  <2>1. ASSUME Inv, NonNegative, UNCHANGED vars PROVE NonNegative'
    BY <2>1 DEF vars, NonNegative, NeverOverdrawn
  <2> QED
    BY <2>1, NonNegativeStep
<1>3. EarnAdds => [][Adds]_vars
  BY PTL DEF EarnAdds, Adds
<1>4. NonNegative => NeverOverdrawn
  BY DEF NonNegative
<1> QED
  BY <1>1, <1>2, <1>3, <1>4, InvHolds, PTL DEF Spec

-----------------------------------------------------------------------------
(***************************************************************************)
(* The balance is the sum of the transactions.  A transaction whose key is *)
(* already in the ledger, or in the hands of another call, is one of two   *)
(* writes for the key; so if every key was written at most once, recording *)
(* always inserts.                                                         *)
(***************************************************************************)
WritesCounted ==
    /\ \A k \in Keys : ledger[k] # NoEntry => writes[k] >= 1
    /\ \A r \in Requests : req[r].pc = "record" =>
          /\ writes[req[r].key] >= 1
          /\ ledger[req[r].key] # NoEntry => writes[req[r].key] >= 2
    /\ \A r, s \in Requests :
          /\ req[r].pc = "record" /\ req[s].pc = "record"
          /\ req[r].key = req[s].key /\ r # s
          => writes[req[r].key] >= 2

LEMMA KeyOfRecord ==
    ASSUME Inv
    PROVE  \A r \in Requests : req[r].pc = "record" =>
              req[r].key \in Keys /\ writes[req[r].key] \in Nat
  BY KeysAssumption DEF Inv, TypeOK, Names

LEMMA WritesCountedStep ==
    ASSUME Inv, WritesCounted, [Next]_vars
    PROVE  WritesCounted'
<1>1. CASE Quiet
  BY <1>1 DEF Quiet, WritesCounted
<1>2. ASSUME NEW r \in Requests, WrittenBy(r) PROVE WritesCounted'
  <2> DEFINE key == req[r].key
  <2>1. /\ key \in Keys /\ ledger' = ledger /\ req[r].pc = "update"
        /\ req'[r].pc = "record" /\ req'[r].key = key
        /\ \A s \in Requests \ {r} : req'[s] = req[s]
        /\ writes'[key] = writes[key] + 1
        /\ \A k \in Keys \ {key} : writes'[k] = writes[k]
    BY <1>2, WriteEffect, HeldAfterWrite DEF WrittenBy
  <2>2. \A k \in Keys : writes[k] \in Nat /\ writes'[k] >= writes[k]
    BY <2>1 DEF Inv, TypeOK
  <2>3. \A k \in Keys : ledger'[k] # NoEntry => writes'[k] >= 1
    BY <2>1, <2>2 DEF WritesCounted, Inv, TypeOK
  <2>4. ASSUME NEW s \in Requests, req'[s].pc = "record"
        PROVE  /\ writes'[req'[s].key] >= 1
               /\ ledger'[req'[s].key] # NoEntry => writes'[req'[s].key] >= 2
    <3>1. CASE s = r
      BY <2>1, <2>2, <3>1 DEF WritesCounted, Inv, TypeOK
    <3>2. CASE s # r
      <4>1. /\ req'[s] = req[s] /\ req[s].key \in Keys /\ writes[req[s].key] >= 1
            /\ ledger[req[s].key] # NoEntry => writes[req[s].key] >= 2
        BY <2>1, <2>4, <3>2, KeyOfRecord DEF WritesCounted
      <4>2. writes[req[s].key] \in Nat /\ writes'[req[s].key] \in Int
        BY <2>1, <2>2, <4>1
      <4> QED
        BY <2>1, <2>2, <4>1, <4>2
    <3> QED
      BY <3>1, <3>2
  <2>5. ASSUME NEW s \in Requests, NEW t \in Requests, s # t,
               req'[s].pc = "record", req'[t].pc = "record", req'[s].key = req'[t].key
        PROVE  writes'[req'[s].key] >= 2
    <3>1. CASE s # r /\ t # r
      <4>1. /\ req'[s] = req[s] /\ req[s].key \in Keys /\ writes[req[s].key] >= 2
        BY <2>1, <2>5, <3>1, KeyOfRecord DEF WritesCounted
      <4>2. writes[req[s].key] \in Nat /\ writes'[req[s].key] \in Int
        BY <2>1, <2>2, <4>1
      <4> QED
        BY <2>2, <4>1, <4>2
    <3>2. ASSUME NEW o \in Requests, o # r, req'[o].pc = "record", req'[o].key = key
          PROVE  writes'[key] >= 2
      <4>1. writes[key] >= 1 /\ writes[key] \in Nat
        BY <2>1, <2>2, <3>2 DEF WritesCounted
      <4> QED
        BY <2>1, <4>1
    <3> QED
      BY <2>1, <2>5, <3>1, <3>2
  <2> QED
    BY <2>3, <2>4, <2>5 DEF WritesCounted
<1>3. ASSUME NEW r \in Requests, RecordTransaction(r) PROVE WritesCounted'
  <2> DEFINE key == req[r].key
  <2>1. /\ key \in Keys /\ req[r].pc = "record" /\ writes' = writes /\ req'[r].pc = "idle"
        /\ \A s \in Requests \ {r} : req'[s] = req[s]
        /\ \A k \in Keys \ {key} : ledger'[k] = ledger[k]
    BY <1>3, RecordEffect, EmptyRows
  <2>2. \A k \in Keys : ledger'[k] # NoEntry => writes'[k] >= 1
    BY <2>1 DEF WritesCounted
  <2>3. ASSUME NEW s \in Requests, req'[s].pc = "record"
        PROVE  /\ writes'[req'[s].key] >= 1
               /\ ledger'[req'[s].key] # NoEntry => writes'[req'[s].key] >= 2
    <3>1. s # r /\ req'[s] = req[s] /\ req[s].key \in Keys
      BY <2>1, <2>3, KeyOfRecord
    <3>2. CASE req[s].key = key
      BY <2>1, <2>3, <3>1, <3>2 DEF WritesCounted
    <3>3. CASE req[s].key # key
      BY <2>1, <2>3, <3>1, <3>3 DEF WritesCounted
    <3> QED
      BY <3>2, <3>3
  <2>4. ASSUME NEW s \in Requests, NEW t \in Requests, s # t,
               req'[s].pc = "record", req'[t].pc = "record", req'[s].key = req'[t].key
        PROVE  writes'[req'[s].key] >= 2
    BY <2>1, <2>4 DEF WritesCounted
  <2> QED
    BY <2>2, <2>3, <2>4 DEF WritesCounted
<1> QED
  BY <1>1, <1>2, <1>3, LedgerSteps

LEMMA WritesCountedInit == Init => WritesCounted
  BY EmptyRows DEF Init, WritesCounted

\* Writes are never forgotten.
LEMMA AppliedBefore ==
    ASSUME Inv, [Next]_vars, AppliedOnce'
    PROVE  AppliedOnce
<1>1. ASSUME NEW k \in Keys PROVE writes[k] \in Nat /\ writes'[k] >= writes[k]
  <2>1. writes[k] \in Nat
    BY DEF Inv, TypeOK
  <2>2. ASSUME NEW r \in Requests, WrittenBy(r) PROVE writes'[k] >= writes[k]
    <3>1. req[r].key \in Keys
      BY <2>2 DEF WrittenBy
    <3>2. writes'[k] = writes[k] \/ writes'[k] = writes[k] + 1
      BY <2>2, <3>1, WriteEffect
    <3> QED
      BY <2>1, <3>2
  <2>3. CASE Quiet \/ \E r \in Requests : RecordTransaction(r)
    <3>1. writes' = writes
      BY <2>3 DEF Quiet, RecordTransaction
    <3> QED
      BY <2>1, <3>1
  <2> QED
    BY <2>1, <2>2, <2>3, LedgerSteps
<1>2. ASSUME NEW k \in Keys PROVE writes[k] <= 1
  <2>1. writes'[k] <= 1 /\ writes'[k] \in Nat
    BY InvStep DEF AppliedOnce, Inv, TypeOK
  <2> QED
    BY <1>1, <2>1
<1> QED
  BY <1>2 DEF AppliedOnce

Balanced == \A u \in Residents :
    accounts[u].balance = SumFunctionOnSet(Recorded, Entries(u))
                          + SumFunctionOnSet(Pending, Recording(u))

\* What a transaction moves is an integer.
LEMMA SignedInt ==
    ASSUME Inv
    PROVE  /\ \A u \in Residents : \A k \in Entries(u) : Recorded[k] \in Int
           /\ \A u \in Residents : \A r \in Recording(u) : Pending[r] \in Int
<1>1. ASSUME NEW u \in Residents, NEW k \in Entries(u) PROVE Recorded[k] \in Int
  <2>1. ledger[k] \in Entry /\ k \in Keys
    BY <1>1, NobodyAssumption DEF Entries, Inv, TypeOK, NoEntry
  <2>2. ledger[k].amount \in Int
    BY <2>1, Int64 DEF Entry
  <2> QED
    BY <2>1, <2>2 DEF Recorded, Signed
<1>2. ASSUME NEW u \in Residents, NEW r \in Recording(u) PROVE Pending[r] \in Int
  <2>1. req[r].pc = "record" /\ r \in Requests
    BY <1>2 DEF Recording
  <2>2. req[r].amount \in Int
    BY <2>1, Int64 DEF Inv, TypeOK, Names
  <2> QED
    BY <2>1, <2>2 DEF Pending, Signed
<1> QED
  BY <1>1, <1>2

LEMMA SumsOfRows ==
    ASSUME Inv, AllBacked, NEW u \in Residents
    PROVE  /\ SumFunctionOnSet(Recorded, Entries(u)) \in Int
           /\ SumFunctionOnSet(Pending, Recording(u)) \in Int
  BY SignedInt, SumInt DEF AllBacked, Backed

\* Rows that are neither written nor recorded keep their sums.
LEMMA BalancedQuiet ==
    ASSUME Inv, AllBacked, Balanced, Quiet, faults' = faults
    PROVE  Balanced'
<1> SUFFICES ASSUME NEW u \in Residents
             PROVE  accounts'[u].balance = SumFunctionOnSet(Recorded', Entries(u)')
                                           + SumFunctionOnSet(Pending', Recording(u)')
  BY DEF Balanced
<1>1. Entries(u)' = Entries(u) /\ Recorded' = Recorded
  BY DEF Entries, Recorded, Quiet
<1>2. Recording(u)' = Recording(u)
  BY BackedQuiet
<1>3. \A r \in Recording(u) : Pending'[r] = Pending[r]
  BY DEF Recording, Pending, Quiet
<1>4. SumFunctionOnSet(Pending', Recording(u)) = SumFunctionOnSet(Pending, Recording(u))
  BY <1>3, SumOfSame DEF AllBacked, Backed
<1>5. accounts'[u].balance = accounts[u].balance
  <2>1. ~accounts[u].live => accounts[u] = NoAccount
    BY DEF AllBacked, Backed
  <2> QED
    BY <2>1 DEF Quiet, OnlyCreated, NoAccount, NewAccount
<1> QED
  BY <1>1, <1>2, <1>4, <1>5 DEF Balanced

\* A write adds to the balance what its call is now about to record.
LEMMA BalancedWrite ==
    ASSUME Inv, AllBacked, Balanced, Adds, NEW r \in Requests, WrittenBy(r)
    PROVE  Balanced'
<1> SUFFICES ASSUME NEW u \in Residents
             PROVE  accounts'[u].balance = SumFunctionOnSet(Recorded', Entries(u)')
                                           + SumFunctionOnSet(Pending', Recording(u)')
  BY DEF Balanced
<1>1. Entries(u)' = Entries(u) /\ Recorded' = Recorded
  BY BackedWrite DEF Recorded, WrittenBy
<1>2. Pending' = Pending
  BY WriteEffect, HeldAfterWrite DEF Pending
<1>3. CASE u = req[r].resident
  <2> DEFINE all == Recording(u) \cup {r}
  <2>1. /\ r \notin Recording(u) /\ Recording(u)' = all /\ IsFiniteSet(all)
        /\ Recording(u) = all \ {r}
    BY <1>3, BackedWrite, FS_AddElement DEF AllBacked, Backed
  <2>2. /\ accounts'[u].balance = accounts[u].balance + Pending[r]
        /\ accounts[u].balance \in Int /\ Pending[r] \in Int
    BY <1>3, WriteAdds DEF Pending, Signed
  <2>3. \A s \in all : Pending[s] \in Int
    BY <2>2, SignedInt
  <2> HIDE DEF all
  <2>4. SumFunctionOnSet(Pending, all)
           = Pending[r] + SumFunctionOnSet(Pending, Recording(u))
    <3>1. r \in all
      BY DEF all
    <3> QED
      BY <2>1, <2>3, <3>1, SumOfMore
  <2> DEFINE recorded == SumFunctionOnSet(Recorded, Entries(u))
             pending == SumFunctionOnSet(Pending, Recording(u))
  <2>5. recorded \in Int /\ pending \in Int
    BY SumsOfRows
  <2>6. accounts[u].balance = recorded + pending
    BY DEF Balanced
  <2>7. /\ SumFunctionOnSet(Recorded', Entries(u)') = recorded
        /\ SumFunctionOnSet(Pending', Recording(u)') = Pending[r] + pending
    BY <1>1, <1>2, <2>1, <2>4
  <2> HIDE DEF recorded, pending
  <2> QED
    BY <2>2, <2>5, <2>6, <2>7
<1>4. CASE u # req[r].resident
  <2>1. Recording(u)' = Recording(u) /\ accounts'[u] = accounts[u]
    BY <1>4, BackedWrite, WriteEffect
  <2> QED
    BY <1>1, <1>2, <2>1 DEF Balanced
<1> QED
  BY <1>3, <1>4

\* Recording moves the amount from the call to the ledger.
LEMMA BalancedRecord ==
    ASSUME Inv, AllBacked, WritesCounted, AppliedOnce, Balanced,
           NEW r \in Requests, RecordTransaction(r)
    PROVE  Balanced'
<1> DEFINE q == req[r]
           key == q.key
<1>1. /\ q.pc = "record" /\ key \in Keys /\ UNCHANGED accounts
      /\ \A s \in Requests \ {r} : req'[s] = req[s]
      /\ \A k \in Keys \ {key} : ledger'[k] = ledger[k]
  BY RecordEffect
<1>2. ledger[key] = NoEntry
  <2>1. writes[key] \in Nat /\ writes[key] <= 1
    BY <1>1 DEF Inv, TypeOK, AppliedOnce
  <2> QED
    BY <1>1, <2>1 DEF WritesCounted
<1>3. Recorded'[key] = Pending[r]
  <2> DEFINE entry == [resident |-> q.resident, op |-> q.op, amount |-> q.amount,
                       after |-> q.balance]
  <2>1. ledger'[key] = entry
    BY <1>2, RecordEffect
  <2>2. entry.op = q.op /\ entry.amount = q.amount
    OBVIOUS
  <2> HIDE DEF entry
  <2> QED
    BY <1>1, <2>1, <2>2 DEF Recorded, Pending
<1>4. /\ \A k \in Keys \ {key} : Recorded'[k] = Recorded[k]
      /\ \A s \in Requests \ {r} : Pending'[s] = Pending[s]
  BY <1>1 DEF Recorded, Pending
<1> SUFFICES ASSUME NEW u \in Residents
             PROVE  accounts'[u].balance = SumFunctionOnSet(Recorded', Entries(u)')
                                           + SumFunctionOnSet(Pending', Recording(u)')
  BY DEF Balanced
<1>5. IsFiniteSet(Entries(u)) /\ IsFiniteSet(Recording(u))
      /\ Entries(u) \subseteq Keys /\ Recording(u) \subseteq Requests
  BY DEF AllBacked, Backed, Entries, Recording
<1>6. Recording(u)' = Recording(u) \ {r} /\ IsFiniteSet(Recording(u) \ {r})
  BY <1>5, BackedRecord, FS_RemoveElement
<1>7. SumFunctionOnSet(Pending', Recording(u)') = SumFunctionOnSet(Pending, Recording(u) \ {r})
  <2>1. \A s \in Recording(u) \ {r} : Pending'[s] = Pending[s]
    BY <1>4, <1>5
  <2> QED
    BY <1>6, <2>1, SumOfSame
<1>8. key \notin Entries(u)
  BY <1>2, NobodyAssumption DEF Entries, NoEntry
<1>9. SumFunctionOnSet(Recorded', Entries(u)) = SumFunctionOnSet(Recorded, Entries(u))
  <2>1. \A k \in Entries(u) : Recorded'[k] = Recorded[k]
    BY <1>4, <1>5, <1>8
  <2> QED
    BY <1>5, <2>1, SumOfSame
<1>10. CASE u = q.resident
  <2> DEFINE all == Entries(u) \cup {key}
  <2>1. Entries(u)' = all /\ IsFiniteSet(all) /\ Entries(u) = all \ {key} /\ key \in all
    BY <1>2, <1>5, <1>8, <1>10, BackedRecord, FS_AddElement
  <2>2. r \in Recording(u) /\ Pending[r] \in Int
    BY <1>1, <1>10, SignedInt DEF Recording
  <2>3. \A k \in all : Recorded'[k] \in Int
    BY <1>3, <1>4, <1>5, <1>8, <2>2, SignedInt
  <2> HIDE DEF all
  <2>4. SumFunctionOnSet(Recorded', all)
           = Pending[r] + SumFunctionOnSet(Recorded, Entries(u))
    BY <1>3, <1>9, <2>1, <2>3, SumOfMore
  <2>5. /\ SumFunctionOnSet(Pending, Recording(u))
             = Pending[r] + SumFunctionOnSet(Pending, Recording(u) \ {r})
        /\ SumFunctionOnSet(Pending, Recording(u) \ {r}) \in Int
    <3>1. \A s \in Recording(u) : Pending[s] \in Int
      BY SignedInt
    <3> QED
      BY <1>5, <2>2, <3>1, SumOfMore
  <2> DEFINE recorded == SumFunctionOnSet(Recorded, Entries(u))
             others == SumFunctionOnSet(Pending, Recording(u) \ {r})
  <2>6. accounts'[u].balance = recorded + (Pending[r] + others)
    BY <1>1, <2>5 DEF Balanced
  <2>7. recorded \in Int /\ others \in Int /\ Pending[r] \in Int
    BY <2>2, <2>5, SumsOfRows
  <2>8. /\ SumFunctionOnSet(Recorded', Entries(u)') = Pending[r] + recorded
        /\ SumFunctionOnSet(Pending', Recording(u)') = others
    BY <1>7, <2>1, <2>4
  <2> HIDE DEF recorded, others
  <2> QED
    BY <2>6, <2>7, <2>8
<1>11. CASE u # q.resident
  <2>1. Entries(u)' = Entries(u) /\ r \notin Recording(u)
    BY <1>11, BackedRecord DEF Recording
  <2>2. Recording(u) \ {r} = Recording(u)
    BY <2>1
  <2>3. accounts'[u].balance = SumFunctionOnSet(Recorded, Entries(u))
                               + SumFunctionOnSet(Pending, Recording(u))
    BY <1>1 DEF Balanced
  <2> QED
    BY <1>7, <1>9, <2>1, <2>2, <2>3
<1> QED
  BY <1>10, <1>11

\* The number of faults never falls.
LEMMA FaultsCount ==
    ASSUME Inv, [Next]_vars
    PROVE  faults \in Nat /\ (faults' = faults \/ faults' = faults + 1)
<1>1. faults \in Nat
  BY DEF Inv, TypeOK
<1>2. faults' = faults \/ faults' = faults + 1
  BY DEF Next, Call, Proceed, GetBalance, CheckKey, GetAccount, CreateAccount, ReRead,
         UpdateBalance, RecordTransaction, Abandon, Crash, Fault, vars
<1> QED
  BY <1>1, <1>2

LEMMA ReconciledStep ==
    ASSUME Inv, AllBacked, WritesCounted, Reconciled, [Next]_vars, Adds
    PROVE  Reconciled'
<1> SUFFICES ASSUME faults' = 0, AppliedOnce' PROVE Balanced'
  BY DEF Reconciled, Balanced
<1>1. faults = 0
  BY FaultsCount
<1>2. AppliedOnce
  BY AppliedBefore
<1>3. Balanced
  BY <1>1, <1>2 DEF Reconciled, Balanced
<1> QED
  BY <1>1, <1>2, <1>3, LedgerSteps, BalancedQuiet, BalancedWrite, BalancedRecord

LEMMA ReconciledInit == Init => Reconciled
<1> SUFFICES ASSUME Init, NEW u \in Residents
             PROVE  accounts[u].balance = SumFunctionOnSet(Recorded, Entries(u))
                                          + SumFunctionOnSet(Pending, Recording(u))
  BY DEF Reconciled
<1>1. Entries(u) = {} /\ Recording(u) = {}
  BY EmptyRows, NobodyAssumption DEF Init, Entries, Recording, NoEntry
<1>2. accounts[u].balance = 0
  BY DEF Init, NoAccount
<1> QED
  BY <1>1, <1>2, SumOfNone

\* The balance of a resident is what the recorded transactions add up to, and
\* those about to be recorded, as long as no statement failed, no key was
\* written twice and no earning wraps round the largest int64.
THEOREM LedgerReconciles == Spec /\ EarnAdds => []Reconciled
<1>1. ASSUME Inv, WritesCounted, [Next]_vars PROVE WritesCounted'
  BY <1>1, WritesCountedStep
<1>2. ASSUME Inv, AllBacked, WritesCounted, Reconciled, [Next]_vars, [Adds]_vars
      PROVE  Reconciled'
  <2>1. CASE UNCHANGED vars
    BY <1>2, <2>1 DEF vars, Reconciled, AppliedOnce, Entries, Recording, Recorded, Pending
  <2> QED
    BY <1>2, <2>1, ReconciledStep
<1>3. EarnAdds => [][Adds]_vars
  BY PTL DEF EarnAdds, Adds
<1> QED
  BY <1>1, <1>2, <1>3, WritesCountedInit, ReconciledInit, InvHolds, AllBackedHolds, PTL DEF Spec
-----------------------------------------------------------------------------
(***************************************************************************)
(* When no earning wraps: while every balance leaves room for one more     *)
(* amount below the largest int64.                                         *)
(***************************************************************************)
Room == \A u \in Residents, a \in Amounts : accounts[u].balance + a <= MaxCredit

LEMMA RoomAdds ==
    ASSUME Inv, Room, [Next]_vars
    PROVE  Adds
<1> SUFFICES ASSUME NEW r \in Requests, Lands(r), req[r].op = "earn"
             PROVE  accounts'[req[r].resident].balance > accounts[req[r].resident].balance
  BY DEF Adds
<1> DEFINE u == req[r].resident
           before == accounts[u].balance
<1>1. u \in Residents /\ accounts'[u].balance = Plus(before, req[r].amount)
  BY LandedBalance DEF NewBalance
<1>2. req[r].amount \in Amounts
  <2>1. req[r].pc # "idle"
    BY DEF Lands
  <2> QED
    BY <2>1 DEF Inv, TypeOK, Names
<1>3. before \in Int /\ req[r].amount \in 1 .. MaxCredit /\ MaxCredit \in Nat
  <2>1. before \in Credit
    BY <1>1 DEF Inv, TypeOK, Account
  <2> QED
    BY <1>2, <2>1, Int64, AmountsAssumption
<1>4. before + req[r].amount <= MaxCredit
  BY <1>1, <1>2 DEF Room
<1> QED
  BY <1>1, <1>3, <1>4 DEF Plus

\* EarnCredit adds to the balance as long as no balance comes within one amount
\* of the largest int64: the condition the other theorems ask for is kept by
\* every ledger that stays below it.
THEOREM RoomEnough == Spec /\ []Room => EarnAdds
<1>1. Inv /\ Room /\ [Next]_vars => [Adds]_vars
  BY RoomAdds
<1> QED
  BY <1>1, InvHolds, PTL DEF Spec, EarnAdds, Adds
=============================================================================
