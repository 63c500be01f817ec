------------------------ MODULE LedgerRefinementProofs -------------------------
(***************************************************************************)
(* Double entry, and the refinement of AtomicLedger by LedgerService, with *)
(* and without its connection pool, for any requests, accounts, workload   *)
(* and faults.                                                             *)
(***************************************************************************)
EXTENDS LedgerRefinement, LedgerPool, LedgerServiceProofs, SumProofs

-----------------------------------------------------------------------------
(* Double entry *)

\* The two entries of a transaction cancel, also when the sum of a withdrawal
\* or a deposit falls on SYSTEM_CASH, or of a transfer on one account.
LEMMA EntriesCancel ==
  ASSUME TypeOK, NEW r \in Req
  PROVE  SumOver([a \in Account |-> Entry(req[r], a)], Account) = 0
<1> DEFINE x == Stored(Amount(r))
           credit == [a \in Account |-> IF a = To(r) THEN x ELSE 0]
           debit == [a \in Account |-> IF a = From(r) THEN 0 - x ELSE 0]
           both == [a \in Account |-> Entry(req[r], a)]
<1>1. IsFiniteSet(Account) /\ From(r) \in Account /\ To(r) \in Account /\ x \in Int
  BY RequestType, StoredType, LedgerAssumption
<1>2. \A a \in Account : /\ credit[a] \in Int /\ debit[a] \in Int
                         /\ both[a] = credit[a] + debit[a]
  BY <1>1 DEF Entry, Amount, From, To
<1>3. /\ credit[To(r)] = x /\ \A a \in Account \ {To(r)} : credit[a] = 0
      /\ debit[From(r)] = 0 - x /\ \A a \in Account \ {From(r)} : debit[a] = 0
  BY <1>1
<1> HIDE DEF x, credit, debit, both
<1>4. SumOver(both, Account) = SumOver(credit, Account) + SumOver(debit, Account)
  BY <1>1, <1>2, SumAdds
<1>5. SumOver(credit, Account) = x
  BY <1>1, <1>2, <1>3, SumOne
<1>6. SumOver(debit, Account) = 0 - x
  BY <1>1, <1>2, <1>3, SumOne
<1>7. SumOver(both, Account) = 0
  BY <1>1, <1>4, <1>5, <1>6
<1> QED
  BY <1>7 DEF both

\* Every step but the COMMIT leaves the ledger.
LEMMA LedgerMoves ==
  ASSUME TypeOK, OverdraftInv, [Next]_vars
  PROVE  UNCHANGED tables \/ \E r \in Req : Commit(r)
<1>1. CASE UNCHANGED vars
  BY <1>1 DEF vars
<1>2. ASSUME NEW r \in Req, Advance(r) \/ Die(r)
      PROVE  UNCHANGED tables \/ Commit(r)
  <2>1. OwnStep(r)
    BY <1>2, Own DEF OverdraftInv
  <2> QED
    BY <2>1 DEF OwnStep, Leaves, TakesLock, Decides, Stamp, Writes
<1>3. CASE CreateAccount
  BY <1>3 DEF CreateAccount
<1> QED
  BY <1>1, <1>2, <1>3 DEF Next, AllDone

LEMMA MoneyConservedStep ==
  ASSUME TypeOK, OverdraftInv, MoneyConserved, [Next]_vars
  PROVE  MoneyConserved'
<1> SUFFICES ASSUME NEW t \in Time
             PROVE  SumOver([a \in Account |-> ledger'[a][t]], Account)
                      = SumOver(Opening, Account)
  BY DEF MoneyConserved
<1> DEFINE old == [a \in Account |-> ledger[a][t]]
           new == [a \in Account |-> ledger'[a][t]]
<1>1. SumOver(old, Account) = SumOver(Opening, Account)
  BY DEF MoneyConserved
<1>2. CASE ledger' = ledger
  BY <1>1, <1>2
<1>3. ASSUME NEW r \in Req, Commit(r)
      PROVE  SumOver(new, Account) = SumOver(Opening, Account)
  <2> DEFINE entry == [a \in Account |-> Entry(req[r], a)]
  <2>1. IsFiniteSet(Account) /\ \A a \in Account : old[a] \in Int /\ entry[a] \in Int
    BY LedgerAssumption, BalanceType, EntryType
  <2>2. SumOver(entry, Account) = 0
    BY EntriesCancel
  <2>3. CASE created[r] <= t
    <3>1. \A a \in Account : new[a] = old[a] + entry[a]
      BY <1>3, <2>3, CommitCell
    <3> HIDE DEF old, new, entry
    <3>2. SumOver(new, Account) = SumOver(old, Account) + SumOver(entry, Account)
      BY <2>1, <3>1, SumAdds
    <3>3. SumOver(old, Account) \in Int
      BY <2>1, SumType
    <3> QED
      BY <1>1, <2>2, <3>2, <3>3, SumArithmetic, Zenon
  <2>4. CASE ~(created[r] <= t)
    <3>1. \A a \in Account : new[a] = old[a]
      BY <1>3, <2>4, CommitCell
    <3> HIDE DEF old, new, entry
    <3>2. SumOver(new, Account) = SumOver(old, Account)
      BY <2>1, <3>1, SumSame
    <3> QED
      BY <1>1, <3>2
  <2> QED
    BY <2>3, <2>4
<1> QED
  BY <1>2, <1>3, LedgerMoves DEF tables

\* Double entry: at every time cut the accounts add up to what they did before
\* the run, whatever was rounded, rolled back or cut off half-way.
THEOREM DoubleEntry == Spec => []MoneyConserved
<1>1. Init => MoneyConserved
  <2> SUFFICES ASSUME Init, NEW t \in Time
               PROVE  SumOver([a \in Account |-> ledger[a][t]], Account)
                        = SumOver(Opening, Account)
    BY DEF MoneyConserved
  <2> DEFINE row == [a \in Account |-> ledger[a][t]]
  <2>1. \A a \in Account : Opening[a] \in Int /\ row[a] = Opening[a]
    BY LedgerAssumption DEF Init
  <2> HIDE DEF row
  <2>2. SumOver(row, Account) = SumOver(Opening, Account)
    BY <2>1, LedgerAssumption, SumSame
  <2> QED
    BY <2>2 DEF row
<1>2. TypeOK /\ OverdraftInv /\ MoneyConserved /\ [Next]_vars => MoneyConserved'
  BY MoneyConservedStep
<1> QED
  BY <1>1, <1>2, FundsHeld, TypeCorrect, PTL DEF Spec

-----------------------------------------------------------------------------
(* The balances are the sums of what was posted *)

\* What every lemma below may assume of a state.
Consistent == TypeOK /\ OverdraftInv /\ WaitInv /\ KeysUnique /\ RepliesInv

\* A request that has a step left has no answer, and no transaction before its
\* COMMIT.
LEMMA Unfinished ==
  ASSUME RepliesInv, NEW r \in Req, pc[r] # "done"
  PROVE  /\ reply[r] = NoReply
         /\ pc[r] \notin {"invalidate1", "invalidate2"} => r \notin committed
         /\ pc[r] \in {"invalidate1", "invalidate2"} => r \in committed
  BY DEF RepliesInv, CommitsOnce

LEMMA EntriesOfType ==
  ASSUME TypeOK, NEW a \in Account
  PROVE  /\ \A r \in Req : EntriesOf(a)[r] \in Int /\ EntriesOf(a)[r] = Entry(req[r], a)
         /\ committed \subseteq Req
  BY EntryType DEF EntriesOf, TypeOK

LEMMA SameEntries ==
  ASSUME req' = req, NEW a
  PROVE  EntriesOf(a)' = EntriesOf(a)
  BY DEF EntriesOf

\* A COMMIT adds its entries to the sums of the cuts it is in.
LEMMA CommitAdds ==
  ASSUME Consistent, LedgerIsSum, NEW r \in Req, Commit(r)
  PROVE  LedgerIsSum'
<1> USE DEF Consistent
<1>1. committed' = committed \cup {r} /\ r \notin committed /\ req' = req /\ created' = created
  BY Unfinished DEF Commit, stamps
<1>2. IsFiniteSet(committed')
  BY <1>1, FS_AddElement DEF LedgerIsSum
<1>3. ASSUME NEW a \in Account, NEW t \in Time
      PROVE  ledger'[a][t]
               = Opening[a] + SumOver(EntriesOf(a), {s \in committed' : created[s] <= t})
  <2> DEFINE S == {s \in committed : created[s] <= t}
             f == EntriesOf(a)
             e == Entry(req[r], a)
  <2>1. /\ IsFiniteSet(S) /\ r \notin S /\ f[r] = e /\ e \in Int
        /\ \A s \in S : f[s] \in Int
    BY <1>1, EntriesOfType, FS_Subset DEF LedgerIsSum
  <2>2. ledger[a][t] = Opening[a] + SumOver(f, S) /\ Opening[a] \in Int
    BY LedgerAssumption DEF LedgerIsSum
  <2>3. ledger'[a][t] = IF created[r] <= t THEN ledger[a][t] + e ELSE ledger[a][t]
    BY CommitCell
  <2> HIDE DEF f, e
  <2>4. SumOver(f, S) \in Int
    BY <2>1, SumType
  <2>5. CASE created[r] <= t
    <3>1. {s \in committed' : created[s] <= t} = S \cup {r}
      BY <1>1, <2>5
    <3> HIDE DEF S
    <3>2. SumOver(f, S \cup {r}) = SumOver(f, S) + e
      BY <2>1, SumPutIn
    <3>3. ledger'[a][t] = Opening[a] + SumOver(f, S \cup {r})
      BY <2>1, <2>2, <2>3, <2>4, <2>5, <3>2
    <3> QED
      BY <3>1, <3>3 DEF f
  <2>6. CASE ~(created[r] <= t)
    <3>1. {s \in committed' : created[s] <= t} = S
      BY <1>1, <2>6
    <3> QED
      BY <2>2, <2>3, <2>6, <3>1 DEF f
  <2> QED
    BY <2>5, <2>6
<1> QED
  BY <1>1, <1>2, <1>3, SameEntries DEF LedgerIsSum

\* A request about to post stamps a row that is not committed yet.
LEMMA LedgerIsSumStep ==
  ASSUME Consistent, LedgerIsSum, NEW r \in Req, OnlyMoves(r), OwnStep(r)
  PROVE  LedgerIsSum'
<1>1. CASE Commit(r)
  BY <1>1, CommitAdds
<1>2. CASE ~Commit(r)
  <2>1. ledger' = ledger /\ committed' = committed /\ req' = req
    BY <1>2 DEF OnlyMoves, OwnStep, Leaves, TakesLock, Decides, Stamp, Writes, tables
  <2>2. \A s \in committed : created'[s] = created[s]
    <3>1. CASE Stamp(r)
      <4>1. r \notin committed
        BY <3>1, Unfinished DEF Stamp, Consistent
      <4> QED
        BY <4>1, EntriesOfType DEF OnlyMoves, Consistent, TypeOK
    <3>2. CASE ~Stamp(r)
      BY <1>2, <3>2, LedgerStill
    <3> QED
      BY <3>1, <3>2
  <2>3. \A t : {s \in committed' : created'[s] <= t} = {s \in committed : created[s] <= t}
    BY <2>1, <2>2
  <2> QED
    BY <2>1, <2>3, SameEntries DEF LedgerIsSum
<1> QED
  BY <1>1, <1>2

\* What a step of r does to the balances read: it deletes cached ones, caches
\* the one it has read, or reads one.
ReadMove(r) ==
  /\ \A a \in Account : \/ cache'[a] \in {cache[a], Miss}
                        \/ a = From(r) /\ pc[r] = "fill" /\ cache'[a] = seen[r]
  /\ \A s \in Req \ {r} : seen'[s] = seen[s]
  /\ pc'[r] = "fill" => seen'[r] = BalanceOf(From(r))

LEMMA AbortReads ==
  ASSUME TypeOK, NEW r \in Req
  PROVE  /\ \A rep : Abort(r, rep) => ReadMove(r)
         /\ Fail(r) => ReadMove(r)
         /\ \A w : Reject(r, w) => ReadMove(r)
         /\ \A t : AnswerExisting(r, t) => ReadMove(r)
         /\ IntegrityError(r) => ReadMove(r)
         /\ \A s : Proceed(r, s) /\ s # "fill" => ReadMove(r)
<1>1. ASSUME NEW rep, Abort(r, rep) PROVE ReadMove(r)
  BY <1>1 DEF TypeOK, Abort, Answer, Goto, ReadMove
<1>2. ASSUME Goto(r, "reread"), UNCHANGED <<seen, cache>> PROVE ReadMove(r)
  BY <1>2 DEF TypeOK, Goto, ReadMove
<1>3. ASSUME NEW s, s # "fill", Proceed(r, s) PROVE ReadMove(r)
  BY <1>3 DEF TypeOK, Proceed, Goto, ReadMove
<1> QED
  BY <1>1, <1>2, <1>3 DEF Fail, Reject, AnswerExisting, IntegrityError

LEMMA ReadMoves ==
  ASSUME TypeOK, NEW r \in Req, Advance(r) \/ Die(r)
  PROVE  ReadMove(r)
<1>1. CASE \/ DepositLookup(r) \/ WithdrawRead(r) \/ TransferStart(r) \/ TransferRead(r)
           \/ TransferReread(r) \/ InsertTransaction(r) \/ CacheGet(r) \/ BalanceAt(r)
           \/ DeadlockAbort(r) \/ Die(r)
  BY <1>1, AbortReads
  DEF DepositLookup, WithdrawRead, TransferStart, TransferRead, TransferReread,
      InsertTransaction, CacheGet, BalanceAt, DeadlockAbort, Die
<1>2. CASE WithdrawLock(r) \/ TransferLock1(r) \/ TransferLock2(r)
  BY <1>2, AbortReads DEF WithdrawLock, TransferLock1, TransferLock2, TypeOK, Goto, ReadMove
<1>3. CASE Stamp(r) \/ Commit(r)
  BY <1>3 DEF Stamp, Commit, TypeOK, Goto, ReadMove
<1>4. CASE InsertDebit(r) \/ InsertCredit(r)
  BY <1>4, AbortReads DEF InsertDebit, InsertCredit, ShareKey, TypeOK, Goto, ReadMove
<1>5. CASE Invalidate1(r) \/ Invalidate2(r) \/ CacheFill(r)
  BY <1>5 DEF Invalidate1, Invalidate2, CacheFill, Answer, TypeOK, Goto, ReadMove
<1>6. CASE BalanceQuery(r)
  BY <1>6, AbortReads DEF BalanceQuery, TypeOK, Goto, ReadMove
<1> QED
  BY <1>1, <1>2, <1>3, <1>4, <1>5, <1>6
  DEF Advance, Deposit, Withdraw, Transfer, Post, Read

\* Every balance the service can see, now or at a cut, was posted.
LEMMA BalancePosted ==
  ASSUME LedgerIsSum, NEW a \in Account, NEW t \in Time
  PROVE  SumsPosted(a, ledger[a][t])
<1>1. {r \in committed : created[r] <= t} \in SUBSET committed
  OBVIOUS
<1> QED
  BY <1>1 DEF LedgerIsSum, SumsPosted

LEMMA ReadsPostedStep ==
  ASSUME TypeOK, LedgerIsSum, ReadsPosted, NEW r \in Req, OnlyMoves(r), OwnStep(r), ReadMove(r)
  PROVE  ReadsPosted'
<1>1. req' = req /\ committed \subseteq committed'
  BY DEF OnlyMoves, OwnStep, Leaves, TakesLock, Decides, Stamp, Writes, Commit, tables
<1>2. ASSUME NEW a \in Account, cache'[a] # Miss
      PROVE  \E S \in SUBSET committed' : cache'[a] = Opening[a] + SumOver(EntriesOf(a), S)
  <2>1. SumsPosted(a, cache'[a])
    BY <1>2 DEF ReadMove, ReadsPosted
  <2> QED
    BY <1>1, <2>1 DEF SumsPosted
<1>3. ASSUME NEW s \in Req, pc'[s] = "fill"
      PROVE  \E S \in SUBSET committed' :
               seen'[s] = Opening[From(s)] + SumOver(EntriesOf(From(s)), S)
  <2>1. SumsPosted(From(s), seen'[s])
    <3>1. CASE s # r
      BY <1>3, <3>1 DEF ReadMove, ReadsPosted, OnlyMoves
    <3>2. CASE s = r
      BY <1>3, <3>2, BalancePosted, RequestType, TimeType DEF ReadMove, BalanceOf
    <3> QED
      BY <3>1, <3>2
  <2> QED
    BY <1>1, <2>1 DEF SumsPosted
<1>4. /\ \A a \in Account : EntriesOf(a)' = EntriesOf(a)
      /\ \A s \in Req : From(s)' = From(s) /\ EntriesOf(From(s))' = EntriesOf(From(s))
  BY <1>1 DEF EntriesOf, From
<1> QED
  BY <1>2, <1>3, <1>4 DEF ReadsPosted, SumsPosted

-----------------------------------------------------------------------------
(* What was checked is true until the COMMIT *)

\* The accounts of r may take part in it.
Fit(r) ==
  /\ Op(r) # "withdraw" => Active(To(r))
  /\ Op(r) # "deposit" => Active(From(r))
  /\ Op(r) = "transfer" =>
       /\ From(r) # To(r)
       /\ accounts[From(r)].currency = accounts[To(r)].currency

\* A step on the way to the COMMIT checks them, or follows one that did; before
\* the first statement that writes, SYSTEM_CASH has been found.
Accepts(r) ==
  /\ pc'[r] \in Posting \cup {"read"} => pc[r] \in Posting \cup {"read"} \/ Fit(r)
  /\ pc'[r] \in Posting /\ Op(r) # "transfer" => pc[r] \in Posting \/ Present(SystemCash)

LEMMA AbortAccepts ==
  ASSUME TypeOK, NEW r \in Req
  PROVE  /\ \A rep : Abort(r, rep) => Accepts(r)
         /\ Fail(r) => Accepts(r)
         /\ \A w : Reject(r, w) => Accepts(r)
         /\ \A t : AnswerExisting(r, t) => Accepts(r)
         /\ IntegrityError(r) => Accepts(r)
<1>1. ASSUME NEW rep, Abort(r, rep) PROVE Accepts(r)
  BY <1>1 DEF TypeOK, Abort, Answer, Goto, Accepts, Posting
<1>2. ASSUME Goto(r, "reread") PROVE Accepts(r)
  BY <1>2 DEF TypeOK, Goto, Accepts, Posting
<1> QED
  BY <1>1, <1>2 DEF Fail, Reject, AnswerExisting, IntegrityError

LEMMA AcceptsStep ==
  ASSUME TypeOK, StepsMatch, TwoRows, NEW r \in Req, Advance(r) \/ Die(r)
  PROVE  Accepts(r)
<1>1. CASE DepositLookup(r)
  BY <1>1, AbortAccepts, ProceedMoves DEF DepositLookup, Accepts, Posting, Fit
<1>2. CASE WithdrawLock(r)
  BY <1>2, AbortAccepts DEF WithdrawLock, TypeOK, Goto, Accepts, Posting, Fit
<1>3. CASE WithdrawRead(r) \/ TransferRead(r)
  BY <1>3, AbortAccepts, ProceedMoves DEF WithdrawRead, TransferRead, Accepts, Posting
<1>4. CASE TransferStart(r) \/ TransferReread(r) \/ CacheGet(r) \/ BalanceAt(r)
  BY <1>4, AbortAccepts, ProceedMoves
  DEF TransferStart, TransferReread, CacheGet, BalanceAt, Accepts, Posting
<1>5. CASE TransferLock1(r)
  BY <1>5 DEF TransferLock1, TypeOK, Goto, Accepts, Posting
<1>6. CASE TransferLock2(r)
  <2>1. Op(r) = "transfer" /\ From(r) # To(r)
    BY <1>6 DEF TransferLock2, StepsMatch, TwoRows
  <2> QED
    BY <1>6, <2>1, AbortAccepts DEF TransferLock2, TypeOK, Goto, Accepts, Posting, Fit
<1>7. CASE Stamp(r) \/ Commit(r)
  BY <1>7 DEF Stamp, Commit, TypeOK, Goto, Accepts, Posting
<1>8. CASE InsertTransaction(r)
  BY <1>8, AbortAccepts, ProceedMoves DEF InsertTransaction, Accepts, Posting
<1>9. CASE InsertDebit(r) \/ InsertCredit(r)
  BY <1>9, AbortAccepts
  DEF InsertDebit, InsertCredit, ShareKey, TypeOK, Goto, Accepts, Posting
<1>10. CASE Invalidate1(r) \/ Invalidate2(r) \/ CacheFill(r)
  BY <1>10 DEF Invalidate1, Invalidate2, CacheFill, Answer, TypeOK, Goto, Accepts, Posting
<1>11. CASE BalanceQuery(r)
  BY <1>11, AbortAccepts DEF BalanceQuery, TypeOK, Goto, Accepts, Posting
<1>12. CASE DeadlockAbort(r) \/ Die(r)
  BY <1>12, AbortAccepts DEF DeadlockAbort, Die
<1> QED
  BY <1>1, <1>2, <1>3, <1>4, <1>5, <1>6, <1>7, <1>8, <1>9, <1>10, <1>11, <1>12
  DEF Advance, Deposit, Withdraw, Transfer, Post, Read

LEMMA AcceptedStep ==
  ASSUME Accepted, NEW r \in Req, OnlyMoves(r), Accepts(r)
  PROVE  Accepted'
<1>1. \A a : (Active(a)' <=> Active(a)) /\ accounts'[a].currency = accounts[a].currency
  BY DEF OnlyMoves, Active
<1> SUFFICES ASSUME NEW s \in Req
             PROVE  /\ pc'[s] \in Posting \cup {"read"} => Fit(s)
                    /\ pc'[s] \in Posting /\ Op(s) # "transfer" => Present(SystemCash)
  BY <1>1, SameRequests DEF Accepted, Fit, Op, From, To, Active, Present
<1> QED
  BY DEF Accepted, Fit, Accepts, OnlyMoves

\* A statement that takes a lock has waited for those who hold it against r.
Waiting == {"start", "lock1", "lock2", "entry1", "entry2"}
LEMMA Granted ==
  ASSUME TypeOK, NEW r \in Req, Advance(r) \/ Die(r), pc[r] \in Waiting,
         pc'[r] \in {"lock2", "read", "entry2", "commit"}
  PROVE  Blockers(r) = {}
<1> USE DEF Waiting
<1>1. ASSUME NEW w, Reject(r, w) \/ Fail(r) PROVE FALSE
  BY <1>1, AbortLeaves DEF Leaves
<1>2. ASSUME NEW t, AnswerExisting(r, t) PROVE FALSE
  BY <1>2, AbortLeaves DEF Leaves
<1>3. ASSUME NEW w, Proceed(r, w) PROVE pc'[r] = w
  BY <1>3, ProceedMoves
<1>4. CASE Deposit(r)
  BY <1>1, <1>3, <1>4 DEF Deposit, DepositLookup
<1>5. CASE Withdraw(r)
  BY <1>5 DEF Withdraw, WithdrawLock, WithdrawRead
<1>6. CASE Transfer(r)
  BY <1>1, <1>2, <1>3, <1>6
  DEF Transfer, TransferStart, TransferLock1, TransferLock2, TransferRead, TransferReread
<1>7. CASE Post(r)
  BY <1>7 DEF Post, Stamp, InsertTransaction, InsertDebit, InsertCredit, Commit, Invalidate1,
    Invalidate2
<1>8. CASE Read(r)
  <2>1. ASSUME NEW rep, Abort(r, rep) PROVE FALSE
    BY <2>1, AbortLeaves DEF Leaves
  <2> QED
    BY <1>1, <1>3, <1>8, <2>1 DEF Read, CacheGet, BalanceQuery, CacheFill, BalanceAt
<1>9. CASE DeadlockAbort(r) \/ Die(r)
  BY <1>1, <1>9 DEF DeadlockAbort, Die
<1> QED
  BY <1>4, <1>5, <1>6, <1>7, <1>8, <1>9 DEF Advance

\* What the locks on the rows of a statement that has waited are.
LEMMA GrantedRows ==
  ASSUME TypeOK, NEW r \in Req, Blockers(r) = {}, NEW a \in Account
  PROVE  /\ a \in RowsWanted(r) => keyShare[a] \subseteq {r}
         /\ a \in RowsReferenced(r) => rowLock[a] \in {r, NoReq}
<1>1. keyShare[a] \subseteq Req /\ rowLock[a] \in Req \cup {NoReq}
  BY DEF TypeOK
<1>2. \A s \in Req \ {r} :
        /\ a \in RowsWanted(r) => s \notin keyShare[a]
        /\ a \in RowsReferenced(r) => rowLock[a] # s
  BY DEF Blockers
<1> QED
  BY <1>1, <1>2

\* The foreign-key lock of an inserted entry.
LEMMA Shares ==
  ASSUME TypeOK, NEW r \in Req, LockMove(r)
  PROVE  /\ pc[r] = "entry1" /\ pc'[r] = "entry2" =>
              keyShare' = [keyShare EXCEPT ![From(r)] = @ \cup {r}]
         /\ pc[r] = "entry2" /\ pc'[r] = "commit" =>
              keyShare' = [keyShare EXCEPT ![To(r)] = @ \cup {r}]
  BY DEF LockMove, Posting

LEMMA LocksExcludeStep ==
  ASSUME TypeOK, StepsMatch, LocksExclude, NEW r \in Req, OnlyMoves(r), OwnStep(r), LockMove(r),
         Advance(r) \/ Die(r)
  PROVE  LocksExclude'
<1>1. ASSUME NEW a \in Account
      PROVE  /\ rowLock[a] \in Req \cup {NoReq} /\ keyShare[a] \subseteq Req
             /\ rowLock[a] # NoReq => keyShare[a] \subseteq {rowLock[a]}
  BY DEF TypeOK, LocksExclude
<1>2. From(r) \in Account /\ To(r) \in Account
      /\ LockOrder(r)[1] \in Account /\ LockOrder(r)[2] \in Account
  BY RequestType, OrderedPair
<1>3. ASSUME NEW s \in Req
      PROVE  /\ pc'[s] \in {"entry2", "commit"} => ~CheckFails(s) /\ s \in keyShare'[From(s)]
             /\ pc'[s] = "commit" => s \in keyShare'[To(s)]
  <2>1. CASE s # r
    <3>1. ASSUME NEW a \in Account, s \in keyShare[a] PROVE s \in keyShare'[a]
      <4>1. CASE Release(r)
        BY <2>1, <3>1, <4>1 DEF Release
      <4>2. CASE keyShare' = keyShare
        BY <3>1, <4>2
      <4>3. ASSUME NEW b \in Account, keyShare' = [keyShare EXCEPT ![b] = @ \cup {r}]
            PROVE  s \in keyShare'[a]
        BY <3>1, <4>3 DEF TypeOK
      <4> QED
        BY <1>2, <4>1, <4>2, <4>3 DEF LockMove, locks
    <3>2. From(s) \in Account /\ To(s) \in Account
      BY RequestType
    <3> QED
      BY <2>1, <3>1, <3>2 DEF OnlyMoves, LocksExclude
  <2>2. CASE s = r
    <3>1. pc'[r] \in {"entry2", "commit"} => Writes(r)
      BY DEF OwnStep, Leaves, TakesLock, Decides, Stamp, Commit, Goto, TypeOK
    <3>2. CASE pc[r] = "entry1" /\ pc'[r] = "entry2"
      <4>1. ~CheckFails(r)
        BY <3>1, <3>2 DEF Writes
      <4>2. keyShare' = [keyShare EXCEPT ![From(r)] = @ \cup {r}]
        BY <3>2, Shares
      <4> QED
        BY <1>2, <2>2, <3>2, <4>1, <4>2 DEF TypeOK
    <3>3. CASE pc[r] = "entry2" /\ pc'[r] = "commit"
      <4>1. ~CheckFails(r) /\ r \in keyShare[From(r)]
        BY <3>3 DEF LocksExclude
      <4>2. keyShare' = [keyShare EXCEPT ![To(r)] = @ \cup {r}]
        BY <3>3, Shares
      <4> QED
        BY <1>2, <2>2, <3>3, <4>1, <4>2 DEF TypeOK
    <3> QED
      BY <2>2, <3>1, <3>2, <3>3 DEF Writes
  <2> QED
    BY <2>1, <2>2
<1>4. ASSUME NEW a \in Account, rowLock'[a] # NoReq
      PROVE  keyShare'[a] \subseteq {rowLock'[a]}
  <2>1. CASE Release(r) \/ UNCHANGED locks
    BY <1>1, <1>4, <2>1 DEF Release, locks
  <2>2. CASE /\ keyShare' = keyShare
             /\ \/ /\ pc[r] = "start" /\ Op(r) = "withdraw" /\ pc'[r] = "read"
                   /\ LockRow(r, From(r))
                \/ pc[r] = "lock1" /\ pc'[r] = "lock2" /\ LockRow(r, LockOrder(r)[1])
                \/ pc[r] = "lock2" /\ pc'[r] = "read" /\ LockRow(r, LockOrder(r)[2])
    <3>1. Blockers(r) = {}
      BY <2>2, Granted DEF Waiting
    <3>2. ASSUME NEW b \in Account, LockRow(r, b), Present(b) => b \in RowsWanted(r)
          PROVE  keyShare'[a] \subseteq {rowLock'[a]}
      <4>1. CASE a = b /\ Present(b)
        BY <2>2, <3>1, <3>2, <4>1, GrantedRows DEF LockRow, TypeOK
      <4>2. CASE ~(a = b /\ Present(b))
        <5>1. rowLock'[a] = rowLock[a]
          BY <3>2, <4>2 DEF LockRow, TypeOK
        <5> QED
          BY <1>1, <1>4, <2>2, <5>1
      <4> QED
        BY <4>1, <4>2
    <3> QED
      BY <1>2, <2>2, <3>2 DEF RowsWanted
  <2>3. CASE /\ rowLock' = rowLock
             /\ \/ /\ pc[r] = "entry1" /\ pc'[r] = "entry2"
                   /\ keyShare' = [keyShare EXCEPT ![From(r)] = @ \cup {r}]
                \/ /\ pc[r] = "entry2" /\ pc'[r] = "commit"
                   /\ keyShare' = [keyShare EXCEPT ![To(r)] = @ \cup {r}]
    <3>1. Blockers(r) = {} /\ ~CheckFails(r)
      <4>1. ~CheckFails(r)
        BY <2>3 DEF OwnStep, Leaves, TakesLock, Decides, Stamp, Writes, Commit, Goto, TypeOK,
          LocksExclude
      <4> QED
        BY <2>3, <4>1, Granted DEF Waiting
    <3>2. ASSUME NEW b \in RowsReferenced(r), keyShare' = [keyShare EXCEPT ![b] = @ \cup {r}]
          PROVE  keyShare'[a] \subseteq {rowLock'[a]}
      <4>1. b \in Account
        BY DEF RowsReferenced
      <4>2. CASE a = b
        <5>1. rowLock[a] = r
          BY <1>4, <2>3, <3>1, <4>1, <4>2, GrantedRows
        <5> QED
          BY <1>1, <1>4, <2>3, <3>2, <4>2, <5>1 DEF TypeOK
      <4>3. CASE a # b
        BY <1>1, <1>4, <2>3, <3>2, <4>1, <4>3 DEF TypeOK
      <4> QED
        BY <4>2, <4>3
    <3>3. pc[r] = "entry1" => From(r) \in RowsReferenced(r)
      BY <1>2, <3>1 DEF RowsReferenced
    <3>4. pc[r] = "entry2" => To(r) \in RowsReferenced(r)
      BY <1>2, <3>1 DEF RowsReferenced
    <3> QED
      BY <2>3, <3>2, <3>3, <3>4
  <2> QED
    BY <2>1, <2>2, <2>3 DEF LockMove
<1>5. \A s \in Req : CheckFails(s)' = CheckFails(s)
  BY SameRequests DEF CheckFails
<1> QED
  BY <1>3, <1>4, <1>5, SameRequests DEF LocksExclude

LEMMA CoveredStep ==
  ASSUME TypeOK, OverdraftInv, LocksExclude, Covered, NEW r \in Req, OnlyMoves(r), OwnStep(r)
  PROVE  Covered'
<1> SUFFICES ASSUME NEW s \in Req, pc'[s] \in Posting, Debits(s)
             PROVE  Covers(ledger'[From(s)][Last], Amount(s))
  BY SameRequests DEF Covered, BalanceOf, Covers
<1>1. From(s) \in Account /\ Amount(s) \in Nat /\ ledger[From(s)][Last] \in Int
  BY RequestType, BalanceType, TimeType
<1>2. CASE Commit(r)
  <2>1. s # r
    BY <1>2 DEF Commit, Goto, TypeOK, Posting
  <2>2. pc[s] \in Posting
    BY <2>1 DEF OnlyMoves
  <2>3. From(r) # From(s)
    <3>1. rowLock[From(s)] = s
      BY <2>2 DEF OverdraftInv, LocksHeld
    <3>2. keyShare[From(s)] \subseteq {s}
      BY <1>1, <3>1, LedgerAssumption DEF LocksExclude
    <3>3. r \in keyShare[From(r)]
      BY <1>2 DEF Commit, LocksExclude
    <3> QED
      BY <2>1, <3>2, <3>3
  <2>4. ledger'[From(s)][Last] >= ledger[From(s)][Last]
    BY <1>1, <1>2, <2>3, CommitDebit, TimeType
  <2>5. ledger'[From(s)][Last] \in Int
    BY <1>1, <1>2, CommitCell, EntryType, TimeType
  <2>6. Covers(ledger[From(s)][Last], Amount(s))
    BY <2>2 DEF Covered, BalanceOf
  <2> QED
    BY <1>1, <2>4, <2>5, <2>6 DEF Covers
<1>3. CASE ~Commit(r)
  <2>1. ledger' = ledger
    BY <1>3, LedgerStill DEF Stamp, tables
  <2>2. CASE pc[s] \in Posting
    BY <2>1, <2>2 DEF Covered, BalanceOf
  <2>3. CASE pc[s] \notin Posting
    <3>1. s = r
      BY <2>3 DEF OnlyMoves
    <3>2. Decides(r)
      BY <1>3, <2>3, <3>1 DEF OwnStep, Leaves, TakesLock, Stamp, Writes, Posting
    <3> QED
      BY <2>1, <3>1, <3>2 DEF Decides, BalanceOf
  <2> QED
    BY <2>2, <2>3
<1> QED
  BY <1>2, <1>3

\* Accounts are created and never changed.
LEMMA CreateKeepsAccounts ==
  ASSUME TypeOK, CreateAccount
  PROVE  \A a \in Account : Present(a) =>
           /\ accounts'[a].status = accounts[a].status
           /\ accounts'[a].currency = accounts[a].currency
<1> SUFFICES ASSUME NEW a \in Account, Present(a)
             PROVE  /\ accounts'[a].status = accounts[a].status
                    /\ accounts'[a].currency = accounts[a].currency
  OBVIOUS
<1>1. accounts \in [Account -> Row] /\ SystemCash \in Account
  BY LedgerAssumption DEF TypeOK
<1>2. CASE accounts' = [accounts EXCEPT ![SystemCash].twin = TRUE]
  BY <1>1, <1>2 DEF Row
<1>3. ASSUME NEW b \in Account, ~Present(b), NEW x, accounts' = [accounts EXCEPT ![b] = x]
      PROVE  accounts'[a] = accounts[a]
  BY <1>1, <1>3
<1> QED
  BY <1>2, <1>3 DEF CreateAccount

LEMMA AcceptedCreate ==
  ASSUME TypeOK, Accepted, CreateAccount
  PROVE  Accepted'
<1>1. \A a \in Account :
        /\ Active(a) => Active(a)' /\ accounts'[a].currency = accounts[a].currency
        /\ Present(a) => Present(a)'
  BY CreateKeepsAccounts DEF Active, Present
<1>2. \A r \in Req :
        /\ pc'[r] = pc[r] /\ Op(r)' = Op(r) /\ From(r)' = From(r) /\ To(r)' = To(r)
        /\ From(r) \in Account /\ To(r) \in Account /\ Op(r) \in Ops
  BY RequestType DEF CreateAccount, Op, From, To
<1> SUFFICES ASSUME NEW r \in Req
             PROVE  /\ pc[r] \in Posting \cup {"read"} =>
                         /\ Op(r) # "withdraw" => Active(To(r))'
                         /\ Op(r) # "deposit" => Active(From(r))'
                         /\ Op(r) = "transfer" =>
                              /\ From(r) # To(r)
                              /\ accounts'[From(r)].currency = accounts'[To(r)].currency
                    /\ pc[r] \in Posting /\ Op(r) # "transfer" => Present(SystemCash)'
  BY <1>2 DEF Accepted
<1>3. SystemCash \in Account
  BY LedgerAssumption
<1> QED
  BY <1>1, <1>2, <1>3 DEF Accepted, Active, Present

LEMMA AtomicInvStep == Consistent /\ AtomicInv /\ [Next]_vars => AtomicInv'
<1> SUFFICES ASSUME Consistent, AtomicInv, [Next]_vars PROVE AtomicInv'
  OBVIOUS
<1> USE DEF AtomicInv
<1>1. ASSUME UNCHANGED <<req, pc, tables, stamps, locks, seen, cache>>
      PROVE  LedgerIsSum' /\ ReadsPosted' /\ LocksExclude' /\ Covered'
  <2>1. LedgerIsSum' /\ ReadsPosted' /\ Covered'
    BY <1>1 DEF tables, stamps, LedgerIsSum, ReadsPosted, SumsPosted, EntriesOf, Covered,
      BalanceOf, Debits, Op, From, To, Amount
  <2>2. LocksExclude'
    BY <1>1 DEF locks, LocksExclude, CheckFails, From, To, Amount
  <2> QED
    BY <2>1, <2>2
<1>2. CASE UNCHANGED vars
  <2>1. Accepted'
    BY <1>2 DEF vars, Accepted, Active, Present, Op, From, To
  <2> QED
    BY <1>1, <1>2, <2>1 DEF vars
<1>3. ASSUME NEW r \in Req, Advance(r) \/ Die(r) PROVE AtomicInv'
  <2>1. OnlyMoves(r) /\ OwnStep(r)
    BY <1>3, Frame, Own DEF Consistent, OverdraftInv
  <2>2. ReadMove(r) /\ Accepts(r) /\ LockMove(r)
    BY <1>3, ReadMoves, AcceptsStep, LockMoves DEF Consistent, OverdraftInv, WaitInv
  <2>3. LocksExclude'
    BY <1>3, <2>1, <2>2, LocksExcludeStep DEF Consistent, OverdraftInv
  <2> QED
    BY <2>1, <2>2, <2>3, LedgerIsSumStep, ReadsPostedStep, AcceptedStep, CoveredStep
    DEF Consistent
<1>4. CASE CreateAccount
  <2>1. Accepted'
    BY <1>4, AcceptedCreate DEF Consistent
  <2> QED
    BY <1>1, <1>4, <2>1 DEF CreateAccount
<1> QED
  BY <1>2, <1>3, <1>4 DEF Next, AllDone

LEMMA ConsistentKept == Spec => []Consistent
  BY TypeCorrect, FundsHeld, WaitInvKept, KeysHeldOnce, RepliesKept, PTL DEF Consistent

\* Balances, cached balances and the checks of the handlers agree with the
\* transactions posted, whatever commits between two statements of a handler.
THEOREM PostsAsChecked == Spec => []AtomicInv
<1>1. Init => AtomicInv
  <2> SUFFICES ASSUME Init PROVE AtomicInv
    OBVIOUS
  <2>1. LedgerIsSum
    <3> SUFFICES ASSUME NEW a \in Account, NEW t \in Time
                 PROVE  ledger[a][t]
                          = Opening[a] + SumOver(EntriesOf(a), {r \in committed : created[r] <= t})
      BY FS_EmptySet DEF Init, LedgerIsSum
    <3>1. {r \in committed : created[r] <= t} = {} /\ ledger[a][t] = Opening[a]
      BY DEF Init
    <3>2. Opening[a] \in Int
      BY LedgerAssumption
    <3>3. SumOver(EntriesOf(a), {}) = 0
      BY SumEmpty
    <3> QED
      BY <3>1, <3>2, <3>3
  <2> QED
    BY <2>1 DEF Init, AtomicInv, ReadsPosted, Accepted, LocksExclude, Covered, Posting
<1> QED
  BY <1>1, AtomicInvStep, ConsistentKept, PTL DEF Spec

-----------------------------------------------------------------------------
(* The steps of AtomicLedger *)

\* The operators of AtomicLedger, read through the mapping.
LEMMA SameData ==
  /\ \A q, a : Atomic!Entry(q, a) = Entry(q, a)
  /\ \A p, q : Atomic!SameKey(p, q) = SameKey(p, q)
  /\ \A p, q : Atomic!SameRequest(p, q) = SameRequest(p, q)
  /\ \A b, x : Atomic!Covers(b, x) = Covers(b, x)
  /\ \A a : Atomic!Present(a) = Present(a) /\ Atomic!Active(a) = Active(a)
  /\ \A f, S : Atomic!SumOver(f, S) = SumOver(f, S)
<1>1. \A f, S : Atomic!SumOver(f, S) = SumOver(f, S)
  BY DEF Atomic!SumOver, SumOver, Atomic!MapThenSumSet, MapThenSumSet, Atomic!MapThenFoldSet,
    MapThenFoldSet
<1> QED
  BY <1>1
  DEF Atomic!Entry, Entry, Atomic!SameKey, SameKey, Atomic!SameRequest, SameRequest,
      Atomic!Covers, Covers, Atomic!Stored, Stored, RequestHash, Atomic!RequestHash,
      Atomic!Present, Present, Atomic!Active, Active

\* A step that posts nothing and answers nobody is a stutter.
LEMMA Stutters ==
  ASSUME UNCHANGED <<accounts, req, tables, reply>>
  PROVE  UNCHANGED Atomic!vars
  BY DEF Atomic!vars, tables, BalanceOf

LEMMA AnswerRefines ==
  ASSUME Consistent, NEW r \in Req, pc[r] # "done", NEW rep,
         reply' = [reply EXCEPT ![r] = rep], UNCHANGED <<accounts, req, tables>>
  PROVE  Atomic!Answer(r, rep)
<1>1. reply[r] = NoReply
  BY Unfinished DEF Consistent
<1> QED
  BY <1>1 DEF Atomic!Answer, Atomic!Unanswered, Atomic!NoReply, NoReply, tables, BalanceOf

LEMMA AbortRefines ==
  ASSUME Consistent, NEW r \in Req, pc[r] # "done", NEW rep, Abort(r, rep)
  PROVE  Atomic!Answer(r, rep)
  BY AnswerRefines DEF Abort, Answer

LEMMA FailRefines ==
  ASSUME Consistent, NEW r \in Req, pc[r] # "done", Fail(r)
  PROVE  Atomic!Fail(r)
  BY AbortRefines DEF Fail, Error, Atomic!Fail

\* A refusal is true when it is given.
LEMMA RejectRefines ==
  ASSUME Consistent, NEW r \in Req, pc[r] \notin {"invalidate1", "invalidate2", "done"}
  PROVE  /\ \A w \in {"not_found", "not_active", "no_system_cash", "same_account", "currency"} :
              Reject(r, w) /\ Atomic!Wrong(req[r], w) => Atomic!Refuse(r)
         /\ Reject(r, "insufficient") /\ ~Covers(BalanceOf(From(r)), Amount(r)) => Atomic!Refuse(r)
<1>1. r \notin committed
  BY Unfinished DEF Consistent
<1>2. \A w : Reject(r, w) => Atomic!Answer(r, [kind |-> "rejected", why |-> w])
  BY AbortRefines DEF Reject, Rejected
<1>3. From(r) \in Account
  BY RequestType DEF Consistent
<1> QED
  BY <1>1, <1>2, <1>3, SameData DEF Atomic!Refuse, From, Amount

\* An earlier transaction with the key of r confirms r or refuses it.
LEMMA ExistingRefines ==
  ASSUME Consistent, NEW r \in Req, pc[r] \notin {"invalidate1", "invalidate2", "done"},
         NEW t \in Existing(r), AnswerExisting(r, t)
  PROVE  Atomic!Confirm(r) \/ Atomic!Refuse(r)
<1>1. r \notin committed /\ t \in committed /\ SameKey(req[r], req[t])
  BY Unfinished DEF Consistent, Existing
<1>2. CASE SameRequest(req[r], req[t])
  <2>1. Atomic!Answer(r, [kind |-> "posted", txn |-> t])
    BY <1>2, AbortRefines DEF AnswerExisting, Posted
  <2> QED
    BY <1>1, <1>2, <2>1, SameData DEF Atomic!Confirm
<1>3. CASE ~SameRequest(req[r], req[t])
  <2>1. Atomic!Answer(r, [kind |-> "rejected", why |-> "key_reused"])
    BY <1>3, AbortRefines DEF AnswerExisting, Rejected
  <2> QED
    BY <1>1, <1>3, <2>1, SameData DEF Atomic!Refuse
<1> QED
  BY <1>2, <1>3

\* A balance shown is one that posted transactions give.
LEMMA ShowRefines ==
  ASSUME Consistent, NEW r \in Req, NEW v, SumsPosted(From(r), v), Atomic!Answer(r, Balance(v))
  PROVE  Atomic!Show(r)
<1>1. PICK S \in SUBSET committed : v = Opening[From(r)] + SumOver(EntriesOf(From(r)), S)
  BY DEF SumsPosted
<1>2. [t \in Req |-> Atomic!Entry(req[t], From(r))] = EntriesOf(From(r))
  BY SameData DEF EntriesOf
<1> QED
  BY <1>1, <1>2, SameData DEF Atomic!Show, Balance, From

\* A COMMIT posts what may be posted at that moment.
LEMMA CommitRefines ==
  ASSUME Consistent, AtomicInv, NEW r \in Req, Commit(r)
  PROVE  Atomic!Post(r)
<1> USE DEF Consistent
<1>1. pc[r] = "commit" /\ reply[r] = NoReply /\ r \notin committed /\ Posts(r)
  BY Unfinished DEF Commit, OverdraftInv, StepsMatch, Posting
<1>2. \A t \in committed : ~SameKey(req[r], req[t])
  <2>1. committed \subseteq Req
    BY DEF TypeOK
  <2> QED
    BY <1>1, <2>1 DEF KeysUnique, Holds, Inserted
<1>3. Atomic!MayPost(r)
  <2>1. /\ Op(r) # "withdraw" => Active(To(r))
        /\ Op(r) # "deposit" => Active(From(r))
        /\ Op(r) = "transfer" =>
             /\ From(r) # To(r)
             /\ accounts[From(r)].currency = accounts[To(r)].currency
        /\ Op(r) # "transfer" => Present(SystemCash)
    BY <1>1 DEF AtomicInv, Accepted, Posting
  <2>2. From(r) \in Account /\ (Op(r) = "deposit" => From(r) = SystemCash)
    BY RequestType DEF WellFormed, Op, From
  <2>3. Op(r) # "deposit" => Covers(BalanceOf(From(r)), Amount(r))
    BY <1>1, <2>2 DEF AtomicInv, Covered, Posting, Posts, Debits
  <2> QED
    BY <1>1, <2>1, <2>2, <2>3, SameData DEF Atomic!MayPost, Posts, Op, From, To, Amount
<1>4. [a \in Account |-> BalanceOf(a)]'
        = [a \in Account |-> [b \in Account |-> BalanceOf(b)][a] + Atomic!Entry(req[r], a)]
  <2>1. created[r] <= Last
    BY RequestType, TimeType
  <2>2. \A a \in Account : ledger'[a][Last] = ledger[a][Last] + Entry(req[r], a)
    BY <2>1, CommitCell, TimeType
  <2> QED
    BY <2>2, SameData DEF BalanceOf
<1> QED
  BY <1>1, <1>2, <1>3, <1>4, SameData
  DEF Atomic!Post, Atomic!Unanswered, Atomic!NoReply, NoReply, Commit

\* Each statement of a handler is one step of AtomicLedger or a stutter.
AtomicStep == Atomic!Next \/ UNCHANGED Atomic!vars

LEMMA AtomicMoves ==
  ASSUME NEW r \in Req
  PROVE  /\ Atomic!Post(r) => AtomicStep
         /\ Atomic!Confirm(r) => AtomicStep
         /\ Atomic!Refuse(r) => AtomicStep
         /\ Atomic!Fail(r) => AtomicStep
         /\ Atomic!Show(r) => AtomicStep
         /\ UNCHANGED <<accounts, req, tables, reply>> => AtomicStep
         /\ \A s : Proceed(r, s) => AtomicStep
  BY Stutters DEF AtomicStep, Atomic!Next, Proceed

LEMMA ErrorMoves ==
  ASSUME Consistent, NEW r \in Req, pc[r] # "done", Fail(r) \/ IntegrityError(r)
  PROVE  AtomicStep
  BY FailRefines, AtomicMoves DEF IntegrityError

\* The statements before the first that writes.
LEMMA ChecksRefine ==
  ASSUME Consistent, NEW r \in Req, Deposit(r) \/ Withdraw(r) \/ Transfer(r)
  PROVE  AtomicStep
<1> USE DEF Consistent
<1>1. /\ WellFormed(req[r]) /\ From(r) \in Account /\ To(r) \in Account
      /\ Op(r) = "deposit" => From(r) = SystemCash
  BY RequestType DEF WellFormed, Op, From
<1>2. \A w : Atomic!Wrong(req[r], w) <=>
        \/ w = "not_found" /\ \E a \in {From(r), To(r)} : ~Present(a)
        \/ w = "not_active" /\ \E a \in {From(r), To(r)} : Present(a) /\ ~Active(a)
        \/ w = "no_system_cash" /\ Op(r) # "transfer" /\ ~Present(SystemCash)
        \/ w = "same_account" /\ Op(r) = "transfer" /\ From(r) = To(r)
        \/ w = "currency" /\ accounts[From(r)].currency # accounts[To(r)].currency
  BY SameData DEF Atomic!Wrong, Op, From, To
<1>3. ASSUME pc[r] \notin {"invalidate1", "invalidate2", "done"}
      PROVE  /\ \A w \in {"not_found", "not_active", "no_system_cash", "same_account", "currency"} :
                  Reject(r, w) /\ Atomic!Wrong(req[r], w) => AtomicStep
             /\ Reject(r, "insufficient") /\ ~Covers(BalanceOf(From(r)), Amount(r)) => AtomicStep
             /\ \A t \in Existing(r) : AnswerExisting(r, t) => AtomicStep
             /\ Fail(r) => AtomicStep
  BY <1>3, RejectRefines, ExistingRefines, FailRefines, AtomicMoves
<1>4. CASE DepositLookup(r)
  BY <1>1, <1>2, <1>3, <1>4, AtomicMoves DEF DepositLookup
<1>5. CASE WithdrawLock(r)
  BY <1>1, <1>2, <1>3, <1>5, AtomicMoves DEF WithdrawLock
<1>6. CASE WithdrawRead(r)
  BY <1>1, <1>2, <1>3, <1>6, AtomicMoves DEF WithdrawRead
<1>7. CASE TransferStart(r) \/ TransferRead(r) \/ TransferReread(r)
  BY <1>1, <1>2, <1>3, <1>7, AtomicMoves DEF TransferStart, TransferRead, TransferReread
<1>8. CASE TransferLock1(r)
  BY <1>8, AtomicMoves DEF TransferLock1
<1>9. CASE TransferLock2(r)
  <2>1. pc[r] = "lock2"
    BY <1>9 DEF TransferLock2
  <2> QED
    BY <1>2, <1>3, <1>9, <2>1, AtomicMoves DEF TransferLock2, Active, Present
<1> QED
  BY <1>4, <1>5, <1>6, <1>7, <1>8, <1>9 DEF Deposit, Withdraw, Transfer

\* The statements of the transaction, and the invalidations after it.
LEMMA PostRefines ==
  ASSUME Consistent, AtomicInv, NEW r \in Req, Post(r)
  PROVE  AtomicStep
<1>1. CASE Stamp(r)
  BY <1>1, AtomicMoves DEF Stamp
<1>2. CASE InsertTransaction(r) \/ InsertDebit(r) \/ InsertCredit(r)
  BY <1>2, ErrorMoves, AtomicMoves DEF InsertTransaction, InsertDebit, InsertCredit, ShareKey
<1>3. CASE Commit(r)
  BY <1>3, CommitRefines, AtomicMoves
<1>4. CASE Invalidate1(r) \/ Invalidate2(r)
  <2>1. pc[r] \in {"invalidate1", "invalidate2"} /\ r \in committed
    BY <1>4, Unfinished DEF Invalidate1, Invalidate2, Consistent
  <2>2. UNCHANGED <<accounts, req, tables>> /\ (UNCHANGED reply \/ Answer(r, Posted(r)))
    BY <1>4 DEF Invalidate1, Invalidate2
  <2>3. CASE Answer(r, Posted(r))
    <3>1. Atomic!Answer(r, [kind |-> "posted", txn |-> r])
      BY <2>1, <2>2, <2>3, AnswerRefines DEF Answer, Posted
    <3> QED
      BY <2>1, <3>1, AtomicMoves DEF Atomic!Confirm
  <2> QED
    BY <2>2, <2>3, AtomicMoves
<1> QED
  BY <1>1, <1>2, <1>3, <1>4 DEF Post

\* The two reads.
LEMMA ReadRefines ==
  ASSUME Consistent, AtomicInv, NEW r \in Req, Read(r)
  PROVE  AtomicStep
<1> USE DEF Consistent
<1>1. From(r) \in Account
  BY RequestType
<1>2. ASSUME Reject(r, "not_found"), ~Present(From(r)), pc[r] \in {"start", "query"}
      PROVE  AtomicStep
  <2>1. Atomic!Wrong(req[r], "not_found")
    BY <1>2, SameData DEF Atomic!Wrong, From
  <2> QED
    BY <1>2, <2>1, RejectRefines, AtomicMoves
<1>3. ASSUME NEW v, SumsPosted(From(r), v), Abort(r, Balance(v)), pc[r] # "done"
      PROVE  AtomicStep
  BY <1>3, AbortRefines, ShowRefines, AtomicMoves
<1>4. CASE CacheGet(r)
  BY <1>1, <1>3, <1>4, AtomicMoves DEF CacheGet, AtomicInv, ReadsPosted
<1>5. CASE BalanceQuery(r)
  BY <1>2, <1>5, AtomicMoves DEF BalanceQuery
<1>6. CASE CacheFill(r)
  <2>1. Atomic!Answer(r, Balance(seen[r]))
    BY <1>6, AnswerRefines DEF CacheFill, Answer
  <2>2. SumsPosted(From(r), seen[r])
    BY <1>6 DEF CacheFill, AtomicInv, ReadsPosted
  <2> QED
    BY <2>1, <2>2, ShowRefines, AtomicMoves
<1>7. CASE BalanceAt(r)
  <2>1. ASSUME NEW t \in 0..now, Abort(r, Balance(ledger[From(r)][t]))
        PROVE  AtomicStep
    <3>1. t \in Time
      BY LedgerAssumption DEF TypeOK, Time
    <3>2. SumsPosted(From(r), ledger[From(r)][t])
      BY <1>1, <3>1, BalancePosted DEF AtomicInv
    <3> QED
      BY <1>3, <1>7, <2>1, <3>2 DEF BalanceAt
  <2> QED
    BY <1>2, <1>7, <2>1 DEF BalanceAt
<1> QED
  BY <1>4, <1>5, <1>6, <1>7 DEF Read

LEMMA CreateRefines ==
  ASSUME Consistent, CreateAccount
  PROVE  AtomicStep
<1>1. Atomic!OpenAccount
  BY CreateKeepsAccounts, SameData
  DEF Consistent, CreateAccount, tables, BalanceOf, Atomic!OpenAccount
<1> QED
  BY <1>1 DEF AtomicStep, Atomic!Next

\* The service implements the one-step ledger, for any requests, accounts,
\* workload and faults: each COMMIT posts what may be posted at that moment,
\* once per request and per key, and each answer is true when it is given.
THEOREM ImplementsAtomicLedger == Spec => AtomicSpec
<1>1. Init => Atomic!Init
  <2> SUFFICES ASSUME Init PROVE Atomic!Init
    OBVIOUS
  <2>1. [a \in Account |-> BalanceOf(a)] = Opening
    BY LedgerAssumption, TimeType DEF Init, BalanceOf
  <2> QED
    BY <2>1 DEF Init, Atomic!Init, Atomic!NoReply, NoReply
<1>2. Consistent /\ AtomicInv /\ [Next]_vars => [Atomic!Next]_(Atomic!vars)
  <2> SUFFICES ASSUME Consistent, AtomicInv, [Next]_vars PROVE AtomicStep
    BY DEF AtomicStep
  <2>1. CASE UNCHANGED vars
    BY <2>1, Stutters DEF vars, AtomicStep
  <2>2. ASSUME NEW r \in Req, Advance(r) \/ Die(r) PROVE AtomicStep
    BY <2>2, ChecksRefine, PostRefines, ReadRefines, ErrorMoves
    DEF Advance, DeadlockAbort, Die
  <2>3. CASE CreateAccount
    BY <2>3, CreateRefines
  <2> QED
    BY <2>1, <2>2, <2>3 DEF Next, AllDone
<1> QED
  BY <1>1, <1>2, ConsistentKept, PostsAsChecked, PTL DEF Spec, AtomicSpec, Atomic!Spec

-----------------------------------------------------------------------------
(* The connection pool *)

\* The pool only delays sessions: a handler on it does what LedgerService lets
\* it do, and one that waits too long for a connection fails like one that dies
\* before the statement.
THEOREM PoolImplementsService == "die" \in Faults => (PoolSpec => Spec)
<1> SUFFICES ASSUME "die" \in Faults PROVE PoolSpec => Spec
  OBVIOUS
<1>1. PoolInit => Init
  BY DEF PoolInit
<1>2. [PoolNext]_poolVars => [Next]_vars
  <2>1. ASSUME NEW r \in Req, Checkout(r) PROVE UNCHANGED vars
    BY <2>1 DEF Checkout
  <2>2. ASSUME NEW r \in Req, PoolStep(r) \/ PoolDie(r) PROVE Next
    BY <2>2 DEF PoolStep, PoolDie, Next
  <2>3. ASSUME NEW r \in Req, PoolTimeout(r) PROVE Next
    <3>1. Die(r)
      BY <2>3 DEF PoolTimeout, Waits, UsesDatabase, Die
    <3> QED
      BY <3>1 DEF Next
  <2>4. UNCHANGED poolVars => UNCHANGED vars
    BY DEF poolVars
  <2> QED
    BY <2>1, <2>2, <2>3, <2>4 DEF PoolNext, Next
<1> QED
  BY <1>1, <1>2, PTL DEF PoolSpec, Spec

\* So whatever is proved of the ledger holds of sessions that share a pool of any
\* size, time out before or after their COMMIT, and keep a connection while they
\* wait for a row.
THEOREM PooledLedger ==
  "die" \in Faults =>
    (PoolSpec => /\ AtomicSpec
                 /\ []NoOverdraft /\ []OneTransactionPerKey /\ []RepliesTruthful
                 /\ []MoneyConserved /\ []LocksOwned)
<1> SUFFICES ASSUME "die" \in Faults
             PROVE  PoolSpec => /\ AtomicSpec
                                /\ []NoOverdraft /\ []OneTransactionPerKey
                                /\ []RepliesTruthful /\ []MoneyConserved /\ []LocksOwned
  OBVIOUS
<1>1. PoolSpec => Spec
  BY PoolImplementsService
<1> QED
  BY <1>1, ImplementsAtomicLedger, Solvent, KeysSpentOnce, TruthfulReplies, DoubleEntry,
     NoLockOutlives, PTL

=============================================================================
