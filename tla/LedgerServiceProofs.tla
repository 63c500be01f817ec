------------------------- MODULE LedgerServiceProofs -------------------------
(***************************************************************************)
(* Theorems about LedgerService, for any requests, accounts and workload.  *)
(***************************************************************************)
EXTENDS LedgerInvariants, TLAPS

USE DEF Statuses, Ops, Steps

-----------------------------------------------------------------------------
(* Facts about data *)

\* The stored amount of a request is a natural number.
LEMMA StoredType == ASSUME NEW x \in Nat \ {0} PROVE Stored(x) \in Nat
  BY DEF Stored

\* A balance, in hundredths, that covers a requested amount covers what is
\* stored for it: rounding up never reaches past a covered cent.
LEMMA StoredWithinCover ==
  ASSUME NEW b \in Int, NEW x \in Nat \ {0}, Covers(b, x)
  PROVE  Stored(x) <= b
  BY DEF Stored, Covers

LEMMA TimeType == /\ Time \subseteq Nat /\ 0 \in Time /\ Last \in Time
                  /\ \A t \in Time : t <= Last
  BY LedgerAssumption DEF Time

\* What the state says of a request.
LEMMA RequestType ==
  ASSUME TypeOK, NEW r \in Req
  PROVE  /\ req[r] \in Request /\ WellFormed(req[r])
         /\ From(r) \in Account /\ To(r) \in Account
         /\ Op(r) \in Ops /\ Amount(r) \in Nat \ {0}
         /\ LockOrder(r)[1] \in Account /\ LockOrder(r)[2] \in Account
         /\ created[r] \in Time
<1>1. req[r] \in Workload
  BY DEF TypeOK
<1>2. WellFormed(req[r])
  BY <1>1, WorkloadAssumption
<1>3. req[r] \in Request
  BY <1>2 DEF WellFormed
<1>4. /\ From(r) \in Account /\ To(r) \in Account
      /\ Op(r) \in Ops /\ Amount(r) \in Nat \ {0}
  BY <1>3 DEF Request, From, To, Op, Amount
<1>5. LockOrder(r)[1] \in Account /\ LockOrder(r)[2] \in Account
  BY <1>4 DEF LockOrder
<1> QED
  BY <1>2, <1>3, <1>4, <1>5 DEF TypeOK

LEMMA EntryType ==
  ASSUME TypeOK, NEW r \in Req, NEW a \in Account
  PROVE  Entry(req[r], a) \in Int
<1>1. req[r].amount \in Nat \ {0}
  BY RequestType DEF Amount
<1>2. Stored(req[r].amount) \in Nat
  BY <1>1, StoredType
<1> QED
  BY <1>2 DEF Entry

LEMMA BalanceType ==
  ASSUME TypeOK, NEW a \in Account, NEW t \in Time
  PROVE  ledger[a][t] \in Int /\ BalanceOf(a) \in Int
  BY TimeType DEF TypeOK, BalanceOf

LEMMA ReplyType ==
  /\ Error \in Reply
  /\ \A t \in Req : Posted(t) \in Reply
  /\ \A w \in Reasons : Rejected(w) \in Reply
  /\ \A v \in Int : Balance(v) \in Reply
<1>1. \A v \in Int : Balance(v) \in [kind : {"balance"}, value : Int]
  BY DEF Balance
<1> QED
  BY <1>1 DEF Reply

-----------------------------------------------------------------------------
(* Type correctness *)

LEMMA AbortType ==
  ASSUME TypeOK, NEW r \in Req, NEW rep \in Reply, Abort(r, rep)
  PROVE  TypeOK'
  BY LedgerAssumption DEF TypeOK, Abort, Release, Answer, Goto, tables, stamps

LEMMA ProceedType ==
  ASSUME TypeOK, NEW r \in Req, NEW s \in Steps, Proceed(r, s)
  PROVE  TypeOK'
  BY DEF TypeOK, Proceed, Goto, tables, stamps, locks

LEMMA RefusalType ==
  ASSUME TypeOK, NEW r \in Req
  PROVE  /\ Fail(r) => TypeOK'
         /\ \A w \in Reasons : Reject(r, w) => TypeOK'
         /\ \A t \in Existing(r) : AnswerExisting(r, t) => TypeOK'
<1>1. Fail(r) => TypeOK'
  BY AbortType, ReplyType DEF Fail
<1>2. \A w \in Reasons : Reject(r, w) => TypeOK'
  BY AbortType, ReplyType DEF Reject
<1>3. ASSUME NEW t \in Existing(r), AnswerExisting(r, t) PROVE TypeOK'
  <2>1. t \in Req
    BY DEF Existing, TypeOK
  <2>2. Rejected("key_reused") \in Reply
    BY ReplyType DEF Reasons
  <2> QED
    BY <1>3, <2>1, <2>2, AbortType, ReplyType DEF AnswerExisting
<1> QED
  BY <1>1, <1>2, <1>3

LEMMA IntegrityErrorType ==
  ASSUME TypeOK, NEW r \in Req, IntegrityError(r)
  PROVE  TypeOK'
<1>1. CASE Fail(r)
  BY <1>1, RefusalType
<1>2. CASE Release(r) /\ Goto(r, "reread") /\ UNCHANGED <<accounts, req, tables, stamps, seen, cache, reply>>
  BY <1>2, LedgerAssumption DEF TypeOK, Release, Goto, tables, stamps
<1> QED
  BY <1>1, <1>2 DEF IntegrityError

LEMMA TypeStep == TypeOK /\ [Next]_vars => TypeOK'
<1> SUFFICES ASSUME TypeOK, [Next]_vars PROVE TypeOK'
  OBVIOUS
<1>1. CASE UNCHANGED vars
  BY <1>1 DEF TypeOK, vars, tables, stamps, locks
<1>2. ASSUME NEW r \in Req, DepositLookup(r) PROVE TypeOK'
  BY <1>2, RefusalType, ProceedType DEF DepositLookup, Reasons
<1>3. ASSUME NEW r \in Req, Withdraw(r) PROVE TypeOK'
  <2>1. CASE WithdrawLock(r)
    <3>1. CASE LockRow(r, From(r)) /\ Goto(r, "read")
               /\ UNCHANGED <<accounts, req, tables, stamps, keyShare, seen, cache, reply>>
      BY <3>1, RequestType DEF TypeOK, LockRow, Goto, tables, stamps
    <3> QED
      BY <2>1, <3>1, RefusalType DEF WithdrawLock, Reasons
  <2>2. CASE WithdrawRead(r)
    BY <2>2, RefusalType, ProceedType DEF WithdrawRead, Reasons
  <2> QED
    BY <1>3, <2>1, <2>2 DEF Withdraw
<1>4. ASSUME NEW r \in Req, Transfer(r) PROVE TypeOK'
  <2>1. CASE TransferStart(r)
    BY <2>1, RefusalType, ProceedType DEF TransferStart, Reasons
  <2>2. CASE TransferLock1(r)
    BY <2>2, RequestType DEF TypeOK, TransferLock1, LockRow, Goto, tables, stamps
  <2>3. CASE TransferLock2(r)
    <3>1. CASE LockRow(r, LockOrder(r)[2]) /\ Goto(r, "read")
               /\ UNCHANGED <<accounts, req, tables, stamps, keyShare, seen, cache, reply>>
      BY <3>1, RequestType DEF TypeOK, LockRow, Goto, tables, stamps
    <3> QED
      BY <2>3, <3>1, RefusalType DEF TransferLock2, Reasons
  <2>4. CASE TransferRead(r)
    BY <2>4, RefusalType, ProceedType DEF TransferRead, Reasons
  <2>5. CASE TransferReread(r)
    BY <2>5, RefusalType DEF TransferReread
  <2> QED
    BY <1>4, <2>1, <2>2, <2>3, <2>4, <2>5 DEF Transfer
<1>5. ASSUME NEW r \in Req, Post(r) PROVE TypeOK'
  <2>1. CASE Stamp(r)
    <3>1. now + 1 \in Time
      BY <2>1, LedgerAssumption DEF Stamp, TypeOK, Time
    <3> QED
      BY <2>1, <3>1 DEF TypeOK, Stamp, Goto, tables, locks
  <2>2. CASE InsertTransaction(r)
    BY <2>2, IntegrityErrorType, ProceedType DEF InsertTransaction
  <2>3. ASSUME NEW a \in Account, NEW s \in Steps, ShareKey(r, a, s) PROVE TypeOK'
    BY <2>3 DEF TypeOK, ShareKey, Goto, tables, stamps
  <2>4. CASE InsertDebit(r)
    BY <2>3, <2>4, IntegrityErrorType, RequestType DEF InsertDebit
  <2>5. CASE InsertCredit(r)
    BY <2>3, <2>5, RequestType DEF InsertCredit
  <2>6. CASE Commit(r)
    <3>1. ledger' \in [Account -> [Time -> Int]]
      BY <2>6, EntryType, BalanceType DEF Commit
    <3> QED
      BY <2>6, <3>1, LedgerAssumption DEF TypeOK, Commit, Release, Goto, stamps
  <2>7. CASE Invalidate1(r)
    <3>1. FirstInvalidated(r) \in Account
      BY RequestType DEF FirstInvalidated
    <3> QED
      BY <2>7, <3>1, ReplyType DEF TypeOK, Invalidate1, Answer, Goto, tables, stamps, locks
  <2>8. CASE Invalidate2(r)
    BY <2>8, RequestType, ReplyType DEF TypeOK, Invalidate2, Answer, Goto, tables, stamps, locks
  <2> QED
    BY <1>5, <2>1, <2>2, <2>4, <2>5, <2>6, <2>7, <2>8 DEF Post
<1>6. ASSUME NEW r \in Req, Read(r) PROVE TypeOK'
  <2>1. CASE CacheGet(r)
    <3>1. CASE cache[From(r)] # Miss /\ Abort(r, Balance(cache[From(r)]))
      <4>1. cache[From(r)] \in Int
        BY <3>1, RequestType DEF TypeOK
      <4> QED
        BY <3>1, <4>1, ReplyType, AbortType
    <3> QED
      BY <2>1, <3>1, ProceedType DEF CacheGet
  <2>2. CASE BalanceQuery(r)
    <3>1. CASE seen' = [seen EXCEPT ![r] = BalanceOf(From(r))] /\ Goto(r, "fill")
               /\ UNCHANGED <<accounts, req, tables, stamps, locks, cache, reply>>
      <4>1. BalanceOf(From(r)) \in Int
        BY RequestType, BalanceType, TimeType
      <4> QED
        BY <3>1, <4>1 DEF TypeOK, Goto, tables, stamps, locks
    <3> QED
      BY <2>2, <3>1, RefusalType DEF BalanceQuery, Reasons
  <2>3. CASE CacheFill(r)
    BY <2>3, RequestType, ReplyType DEF TypeOK, CacheFill, Answer, Goto, tables, stamps, locks
  <2>4. CASE BalanceAt(r)
    <3>1. ASSUME NEW t \in 0..now, Abort(r, Balance(ledger[From(r)][t])) PROVE TypeOK'
      <4>1. t \in Time
        BY LedgerAssumption DEF TypeOK, Time
      <4> QED
        BY <3>1, <4>1, RequestType, BalanceType, ReplyType, AbortType
    <3> QED
      BY <2>4, <3>1, RefusalType DEF BalanceAt, Reasons
  <2> QED
    BY <1>6, <2>1, <2>2, <2>3, <2>4 DEF Read
<1>7. ASSUME NEW r \in Req, DeadlockAbort(r) \/ Die(r) PROVE TypeOK'
  BY <1>7, RefusalType DEF DeadlockAbort, Die
<1>8. CASE CreateAccount
  BY <1>8, LedgerAssumption DEF TypeOK, CreateAccount, tables, stamps, locks
<1> QED
  BY <1>1, <1>2, <1>3, <1>4, <1>5, <1>6, <1>7, <1>8 DEF Next, Advance, Deposit, AllDone

\* Every variable keeps its type, whatever the requests and the faults.
THEOREM TypeCorrect == Spec => []TypeOK
<1>1. Init => TypeOK
  BY LedgerAssumption, TimeType DEF Init, TypeOK, Reply
<1> QED
  BY <1>1, TypeStep, PTL DEF Spec

-----------------------------------------------------------------------------
(* What a step of one request leaves of the others *)

\* The step of r only moves r, and takes no lock from another request.
OnlyMoves(r) ==
  /\ accounts' = accounts /\ req' = req
  /\ now' >= now
  /\ \A s \in Req \ {r} :
       /\ pc'[s] = pc[s] /\ created'[s] = created[s] /\ reply'[s] = reply[s]
       /\ \A a \in Account : rowLock[a] = s => rowLock'[a] = s

LEMMA AbortFrame ==
  ASSUME TypeOK, NEW r \in Req, NEW rep, Abort(r, rep)
  PROVE  OnlyMoves(r)
  BY TimeType DEF TypeOK, Abort, Release, Answer, Goto, stamps, OnlyMoves

LEMMA RefusalFrame ==
  ASSUME TypeOK, NEW r \in Req
  PROVE  /\ Fail(r) => OnlyMoves(r)
         /\ \A w : Reject(r, w) => OnlyMoves(r)
         /\ \A t : AnswerExisting(r, t) => OnlyMoves(r)
  BY AbortFrame DEF Fail, Reject, AnswerExisting

LEMMA ProceedFrame ==
  ASSUME TypeOK, NEW r \in Req, NEW s, Proceed(r, s)
  PROVE  OnlyMoves(r)
  BY TimeType DEF TypeOK, Proceed, Goto, stamps, locks, OnlyMoves

LEMMA IntegrityErrorFrame ==
  ASSUME TypeOK, NEW r \in Req, IntegrityError(r)
  PROVE  OnlyMoves(r)
<1>1. CASE Fail(r)
  BY <1>1, RefusalFrame
<1>2. CASE Release(r) /\ Goto(r, "reread") /\ UNCHANGED <<accounts, req, tables, stamps, seen, cache, reply>>
  BY <1>2, TimeType DEF TypeOK, Release, Goto, stamps, OnlyMoves
<1> QED
  BY <1>1, <1>2 DEF IntegrityError

\* A FOR UPDATE granted to r is on a row nobody else has locked.
LEMMA LockFrame ==
  ASSUME TypeOK, NEW r \in Req, NEW a \in Account, NEW s,
         Present(a) => a \in RowsWanted(r), Blockers(r) = {},
         LockRow(r, a), Goto(r, s),
         UNCHANGED <<accounts, req, tables, stamps, keyShare, seen, cache, reply>>
  PROVE  OnlyMoves(r)
<1>1. ASSUME NEW u \in Req \ {r}, NEW b \in Account, rowLock[b] = u
      PROVE  rowLock'[b] = u
  <2>1. CASE a = b /\ Present(a)
    <3>1. u \in Blockers(r)
      BY <1>1, <2>1 DEF Blockers
    <3> QED
      BY <3>1
  <2> QED
    BY <1>1, <2>1 DEF LockRow, TypeOK
<1> QED
  BY <1>1, TimeType DEF TypeOK, Goto, stamps, OnlyMoves

LEMMA Frame ==
  ASSUME TypeOK, NEW r \in Req, Advance(r) \/ Die(r)
  PROVE  OnlyMoves(r)
<1>1. CASE DepositLookup(r)
  BY <1>1, RefusalFrame, ProceedFrame DEF DepositLookup
<1>2. CASE WithdrawLock(r)
  <2>1. CASE LockRow(r, From(r)) /\ Goto(r, "read")
             /\ UNCHANGED <<accounts, req, tables, stamps, keyShare, seen, cache, reply>>
    <3>1. Present(From(r)) => From(r) \in RowsWanted(r)
      BY <1>2, RequestType DEF RowsWanted, WithdrawLock
    <3> QED
      BY <1>2, <2>1, <3>1, RequestType, LockFrame DEF WithdrawLock
  <2> QED
    BY <1>2, <2>1, RefusalFrame DEF WithdrawLock
<1>3. CASE WithdrawRead(r) \/ TransferStart(r) \/ TransferRead(r) \/ TransferReread(r)
  BY <1>3, RefusalFrame, ProceedFrame
  DEF WithdrawRead, TransferStart, TransferRead, TransferReread
<1>4. CASE TransferLock1(r)
  <2>1. Present(LockOrder(r)[1]) => LockOrder(r)[1] \in RowsWanted(r)
    BY <1>4, RequestType DEF RowsWanted, TransferLock1
  <2> QED
    BY <1>4, <2>1, RequestType, LockFrame DEF TransferLock1
<1>5. CASE TransferLock2(r)
  <2>1. CASE LockRow(r, LockOrder(r)[2]) /\ Goto(r, "read")
             /\ UNCHANGED <<accounts, req, tables, stamps, keyShare, seen, cache, reply>>
    <3>1. Present(LockOrder(r)[2]) => LockOrder(r)[2] \in RowsWanted(r)
      BY <1>5, RequestType DEF RowsWanted, TransferLock2
    <3> QED
      BY <1>5, <2>1, <3>1, RequestType, LockFrame DEF TransferLock2
  <2> QED
    BY <1>5, <2>1, RefusalFrame DEF TransferLock2
<1>6. CASE Stamp(r)
  BY <1>6, TimeType DEF TypeOK, Stamp, Goto, locks, OnlyMoves
<1>7. CASE InsertTransaction(r)
  BY <1>7, IntegrityErrorFrame, ProceedFrame DEF InsertTransaction
<1>8. CASE InsertDebit(r) \/ InsertCredit(r)
  <2>1. ASSUME NEW a, NEW s, ShareKey(r, a, s) PROVE OnlyMoves(r)
    BY <2>1, TimeType DEF TypeOK, ShareKey, Goto, stamps, OnlyMoves
  <2> QED
    BY <1>8, <2>1, IntegrityErrorFrame DEF InsertDebit, InsertCredit
<1>9. CASE Commit(r)
  BY <1>9, TimeType DEF TypeOK, Commit, Release, Goto, stamps, OnlyMoves
<1>10. CASE Invalidate1(r) \/ Invalidate2(r) \/ CacheFill(r)
  BY <1>10, TimeType
  DEF TypeOK, Invalidate1, Invalidate2, CacheFill, Answer, Goto, stamps, locks, OnlyMoves
<1>11. CASE CacheGet(r) \/ BalanceAt(r)
  BY <1>11, AbortFrame, RefusalFrame, ProceedFrame DEF CacheGet, BalanceAt
<1>12. CASE BalanceQuery(r)
  <2>1. CASE Goto(r, "fill") /\ UNCHANGED <<accounts, req, tables, stamps, locks, cache, reply>>
    BY <2>1, TimeType DEF TypeOK, Goto, stamps, locks, OnlyMoves
  <2> QED
    BY <1>12, <2>1, RefusalFrame DEF BalanceQuery
<1>13. CASE DeadlockAbort(r) \/ Die(r)
  BY <1>13, RefusalFrame DEF DeadlockAbort, Die
<1> QED
  BY <1>1, <1>2, <1>3, <1>4, <1>5, <1>6, <1>7, <1>8, <1>9, <1>10, <1>11, <1>12, <1>13
  DEF Advance, Deposit, Withdraw, Transfer, Post, Read

-----------------------------------------------------------------------------
(* What the step of a request does for itself *)

\* A step that posts nothing: it ends, or goes to a step that holds nothing.
Leaves(r) ==
  /\ pc'[r] \in {"done", "reread", "query", "fill", "lock1", "invalidate2"}
  /\ pc'[r] \in {"lock1", "reread", "invalidate2"} => Op(r) = "transfer"
  /\ UNCHANGED <<tables, stamps>>

\* A row lock taken; after the last one the request holds all it needs.
TakesLock(r) ==
  /\ \/ /\ pc'[r] = "lock2" /\ Op(r) = "transfer"
        /\ Present(LockOrder(r)[1]) => rowLock'[LockOrder(r)[1]] = r
     \/ /\ pc'[r] = "read" /\ Debits(r) /\ rowLock'[From(r)] = r
        /\ Op(r) = "transfer" => rowLock'[To(r)] = r
  /\ UNCHANGED <<tables, stamps>>

\* The check that lets a request post.
Decides(r) ==
  /\ pc[r] \in {"start", "read"} /\ pc'[r] = "stamp" /\ Posts(r)
  /\ Debits(r) => pc[r] = "read" /\ Covers(BalanceOf(From(r)), Amount(r))
  /\ UNCHANGED <<tables, stamps, locks>>

\* A statement of the open transaction.
Writes(r) ==
  /\ \/ pc[r] = "insert" /\ pc'[r] = "entry1"
     \/ pc[r] = "entry1" /\ pc'[r] = "entry2" /\ ~CheckFails(r)
     \/ pc[r] = "entry2" /\ pc'[r] = "commit"
  /\ UNCHANGED <<tables, stamps, rowLock>>

OwnStep(r) == Leaves(r) \/ TakesLock(r) \/ Decides(r) \/ Stamp(r) \/ Writes(r) \/ Commit(r)

LEMMA AbortLeaves ==
  ASSUME TypeOK, NEW r \in Req
  PROVE  /\ \A rep : Abort(r, rep) => Leaves(r)
         /\ Fail(r) => Leaves(r)
         /\ \A w : Reject(r, w) => Leaves(r)
         /\ \A t : AnswerExisting(r, t) => Leaves(r)
<1>1. ASSUME NEW rep, Abort(r, rep) PROVE Leaves(r)
  BY <1>1 DEF TypeOK, Abort, Answer, Goto, Leaves
<1> QED
  BY <1>1 DEF Fail, Reject, AnswerExisting

LEMMA IntegrityErrorLeaves ==
  ASSUME TypeOK, NEW r \in Req, IntegrityError(r)
  PROVE  Leaves(r)
  BY AbortLeaves DEF TypeOK, IntegrityError, Goto, Leaves

LEMMA ProceedMoves ==
  ASSUME TypeOK, NEW r \in Req, NEW s, Proceed(r, s)
  PROVE  pc'[r] = s /\ UNCHANGED <<tables, stamps, locks>>
  BY DEF TypeOK, Proceed, Goto

\* The two rows of a transfer are the first and the second of its lock order.
LEMMA OrderedPair ==
  ASSUME NEW r \in Req
  PROVE  \/ LockOrder(r)[1] = From(r) /\ LockOrder(r)[2] = To(r)
         \/ LockOrder(r)[1] = To(r) /\ LockOrder(r)[2] = From(r)
  BY DEF LockOrder

LEMMA Own ==
  ASSUME TypeOK, StepsMatch, LocksHeld, NEW r \in Req, Advance(r) \/ Die(r)
  PROVE  OwnStep(r)
<1> USE DEF OwnStep
<1>1. CASE DepositLookup(r)
  BY <1>1, AbortLeaves, ProceedMoves DEF DepositLookup, Decides, Posts, Debits
<1>2. CASE WithdrawLock(r)
  <2>1. CASE /\ Active(From(r)) /\ LockRow(r, From(r)) /\ Goto(r, "read")
             /\ UNCHANGED <<accounts, req, tables, stamps, keyShare, seen, cache, reply>>
    BY <1>2, <2>1, RequestType
    DEF WithdrawLock, TypeOK, LockRow, Active, Present, Goto, TakesLock, Debits
  <2> QED
    BY <1>2, <2>1, AbortLeaves DEF WithdrawLock
<1>3. CASE WithdrawRead(r)
  BY <1>3, AbortLeaves, ProceedMoves DEF WithdrawRead, Decides, Posts, Debits
<1>4. CASE TransferStart(r)
  BY <1>4, AbortLeaves, ProceedMoves DEF TransferStart, Leaves
<1>5. CASE TransferLock1(r)
  <2>1. Op(r) = "transfer"
    BY <1>5 DEF TransferLock1, StepsMatch
  <2> QED
    BY <1>5, <2>1, RequestType DEF TransferLock1, TypeOK, LockRow, Goto, TakesLock
<1>6. CASE TransferLock2(r)
  <2>1. CASE /\ Active(From(r)) /\ Active(To(r))
             /\ LockRow(r, LockOrder(r)[2]) /\ Goto(r, "read")
             /\ UNCHANGED <<accounts, req, tables, stamps, keyShare, seen, cache, reply>>
    <3>1. Op(r) = "transfer"
      BY <1>6 DEF TransferLock2, StepsMatch
    <3>2. Present(From(r)) /\ Present(To(r))
      BY <2>1 DEF Active, Present
    <3>3. rowLock[LockOrder(r)[1]] = r
      BY <1>6, <3>2, OrderedPair DEF TransferLock2, LocksHeld
    <3>4. rowLock'[LockOrder(r)[1]] = r /\ rowLock'[LockOrder(r)[2]] = r
      BY <2>1, <3>2, <3>3, OrderedPair, RequestType DEF LockRow, TypeOK
    <3> QED
      BY <2>1, <3>1, <3>4, OrderedPair DEF TypeOK, Goto, TakesLock, Debits
  <2> QED
    BY <1>6, <2>1, AbortLeaves DEF TransferLock2
<1>7. CASE TransferRead(r)
  BY <1>7, AbortLeaves, ProceedMoves DEF TransferRead, Decides, Posts
<1>8. CASE TransferReread(r)
  BY <1>8, AbortLeaves DEF TransferReread
<1>9. CASE InsertTransaction(r)
  BY <1>9, IntegrityErrorLeaves, ProceedMoves DEF InsertTransaction, Writes, locks
<1>10. CASE InsertDebit(r) \/ InsertCredit(r)
  BY <1>10, IntegrityErrorLeaves DEF InsertDebit, InsertCredit, ShareKey, Goto, TypeOK, Writes
<1>11. CASE Invalidate1(r)
  BY <1>11 DEF Invalidate1, Answer, Goto, TypeOK, Leaves
<1>12. CASE Invalidate2(r) \/ CacheFill(r)
  BY <1>12 DEF Invalidate2, CacheFill, Answer, Goto, TypeOK, Leaves
<1>13. CASE CacheGet(r)
  BY <1>13, AbortLeaves, ProceedMoves DEF CacheGet, Leaves
<1>14. CASE BalanceQuery(r)
  BY <1>14, AbortLeaves DEF BalanceQuery, Goto, TypeOK, Leaves
<1>15. CASE BalanceAt(r)
  BY <1>15, AbortLeaves DEF BalanceAt
<1>16. CASE DeadlockAbort(r) \/ Die(r)
  BY <1>16, AbortLeaves DEF DeadlockAbort, Die
<1> QED
  BY <1>1, <1>2, <1>3, <1>4, <1>5, <1>6, <1>7, <1>8, <1>9, <1>10, <1>11, <1>12, <1>13,
     <1>14, <1>15, <1>16
  DEF Advance, Deposit, Withdraw, Transfer, Post, Read

-----------------------------------------------------------------------------
(* No overdraft *)

\* Requests are read through req and accounts alone, which no request changes.
LEMMA SameRequests ==
  ASSUME NEW r \in Req, OnlyMoves(r)
  PROVE  \A s \in Req :
           /\ Op(s)' = Op(s) /\ From(s)' = From(s) /\ To(s)' = To(s)
           /\ Amount(s)' = Amount(s) /\ LockOrder(s)' = LockOrder(s)
           /\ Posts(s)' = Posts(s) /\ Debits(s)' = Debits(s)
           /\ \A a : Present(a)' = Present(a)
  BY DEF OnlyMoves, Op, From, To, Amount, LockOrder, Posts, Debits, Present

LEMMA StepsMatchStep ==
  ASSUME TypeOK, StepsMatch, NEW r \in Req, OnlyMoves(r), OwnStep(r)
  PROVE  StepsMatch'
<1> SUFFICES ASSUME NEW s \in Req
             PROVE  /\ pc'[s] \in {"lock1", "lock2", "reread", "invalidate2"} => Op(s) = "transfer"
                    /\ pc'[s] = "read" => Debits(s)
                    /\ pc'[s] \in Posting \cup {"invalidate1"} => Posts(s)
  BY SameRequests DEF StepsMatch
<1>1. CASE s # r
  BY <1>1 DEF OnlyMoves, StepsMatch
<1>2. CASE s = r
  <2>1. CASE Leaves(r)
    BY <1>2, <2>1 DEF Leaves, Posting
  <2>2. CASE TakesLock(r)
    BY <1>2, <2>2 DEF TakesLock, Posting
  <2>3. CASE Decides(r)
    BY <1>2, <2>3 DEF Decides, Posting
  <2>4. CASE Stamp(r)
    BY <1>2, <2>4 DEF Stamp, Goto, TypeOK, Posting, StepsMatch
  <2>5. CASE Writes(r)
    BY <1>2, <2>5 DEF Writes, Posting, StepsMatch
  <2>6. CASE Commit(r)
    BY <1>2, <2>6 DEF Commit, Goto, TypeOK, Posting, StepsMatch
  <2> QED
    BY <2>1, <2>2, <2>3, <2>4, <2>5, <2>6 DEF OwnStep
<1> QED
  BY <1>1, <1>2

LEMMA LocksHeldStep ==
  ASSUME TypeOK, StepsMatch, LocksHeld, NEW r \in Req, OnlyMoves(r), OwnStep(r)
  PROVE  LocksHeld'
<1> SUFFICES ASSUME NEW s \in Req
             PROVE  /\ pc'[s] = "lock2" /\ Present(LockOrder(s)[1]) => rowLock'[LockOrder(s)[1]] = s
                    /\ pc'[s] \in Posting \cup {"read"} /\ Debits(s) => rowLock'[From(s)] = s
                    /\ pc'[s] \in Posting \cup {"read"} /\ Op(s) = "transfer" => rowLock'[To(s)] = s
  BY SameRequests DEF LocksHeld
<1>1. CASE s # r
  BY <1>1, RequestType DEF OnlyMoves, LocksHeld
<1>2. CASE s = r
  <2>1. CASE Leaves(r)
    BY <1>2, <2>1 DEF Leaves, Posting
  <2>2. CASE TakesLock(r)
    BY <1>2, <2>2 DEF TakesLock, Posting
  <2>3. CASE Decides(r)
    BY <1>2, <2>3 DEF Decides, Posting, LocksHeld, locks, Debits
  <2>4. CASE Stamp(r)
    BY <1>2, <2>4 DEF Stamp, Goto, TypeOK, Posting, LocksHeld, locks
  <2>5. CASE Writes(r)
    BY <1>2, <2>5 DEF Writes, Posting, LocksHeld
  <2>6. CASE Commit(r)
    BY <1>2, <2>6 DEF Commit, Goto, TypeOK, Posting
  <2> QED
    BY <2>1, <2>2, <2>3, <2>4, <2>5, <2>6 DEF OwnStep
<1> QED
  BY <1>1, <1>2

\* Every step but the stamp and the COMMIT leaves the ledger and the clock.
LEMMA LedgerStill ==
  ASSUME NEW r \in Req, OwnStep(r), ~Stamp(r), ~Commit(r)
  PROVE  ledger' = ledger /\ now' = now /\ created' = created
  BY DEF OwnStep, Leaves, TakesLock, Decides, Writes, tables, stamps

\* What COMMIT does to one cell of the ledger.
LEMMA CommitCell ==
  ASSUME TypeOK, NEW r \in Req, Commit(r), NEW a \in Account, NEW t \in Time
  PROVE  ledger'[a][t] = IF created[r] <= t THEN ledger[a][t] + Entry(req[r], a)
                                            ELSE ledger[a][t]
<1>1. ledger[a][t] \in Int
  BY BalanceType
<1> QED
  BY <1>1 DEF Commit

LEMMA StampsStep ==
  ASSUME TypeOK, StampsPast, CutsSettled, NEW r \in Req, OnlyMoves(r), OwnStep(r)
  PROVE  StampsPast' /\ CutsSettled'
<1>1. CASE Stamp(r)
  <2>1. now \in Nat /\ now' = now + 1 /\ ledger' = ledger
    BY <1>1, TimeType DEF Stamp, TypeOK, tables
  <2>2. StampsPast'
    <3> SUFFICES ASSUME NEW s \in Req PROVE created'[s] <= now'
      BY DEF StampsPast
    <3>1. created[s] \in Nat /\ created[s] <= now
      BY TimeType DEF TypeOK, StampsPast
    <3> QED
      BY <1>1, <2>1, <3>1 DEF Stamp, TypeOK
  <2>3. CutsSettled'
    <3> SUFFICES ASSUME NEW a \in Account, NEW t \in Time, t >= now'
                 PROVE  ledger'[a][t] = BalanceOf(a)'
      BY DEF CutsSettled
    <3>1. t >= now
      BY <2>1, TimeType
    <3> QED
      BY <2>1, <3>1 DEF CutsSettled, BalanceOf
  <2> QED
    BY <2>2, <2>3
<1>2. CASE Commit(r)
  <2>1. now' = now /\ created' = created
    BY <1>2 DEF Commit, stamps
  <2>2. CutsSettled'
    <3> SUFFICES ASSUME NEW a \in Account, NEW t \in Time, t >= now
                 PROVE  ledger'[a][t] = ledger'[a][Last]
      BY <2>1 DEF CutsSettled, BalanceOf
    <3>1. created[r] \in Nat /\ now \in Nat /\ t \in Nat /\ Last \in Nat /\ now <= Last
      BY TimeType DEF TypeOK
    <3>2. created[r] <= t /\ created[r] <= Last
      BY <3>1 DEF StampsPast
    <3>3. ledger[a][t] = ledger[a][Last]
      BY DEF CutsSettled, BalanceOf
    <3> QED
      BY <1>2, <3>2, <3>3, CommitCell, TimeType
  <2> QED
    BY <2>1, <2>2 DEF StampsPast
<1>3. CASE ~Stamp(r) /\ ~Commit(r)
  BY <1>3, LedgerStill DEF StampsPast, CutsSettled, BalanceOf
<1> QED
  BY <1>1, <1>2, <1>3

\* A COMMIT takes from one account at most what is stored for its amount, and
\* only from its own.
LEMMA CommitDebit ==
  ASSUME TypeOK, NEW r \in Req, Commit(r), NEW a \in Account, NEW t \in Time
  PROVE  /\ a # From(r) \/ t < created[r] => ledger'[a][t] >= ledger[a][t]
         /\ ledger'[a][t] >= ledger[a][t] - Stored(Amount(r))
<1>1. Stored(Amount(r)) \in Nat
  BY RequestType, StoredType
<1>2. ledger[a][t] \in Int /\ created[r] \in Nat /\ t \in Nat
  BY BalanceType, TimeType DEF TypeOK
<1>3. Entry(req[r], a) \in Int /\ Entry(req[r], a) >= 0 - Stored(Amount(r))
  BY <1>1 DEF Entry, Amount
<1>4. a # From(r) => Entry(req[r], a) >= 0
  BY <1>1 DEF Entry, Amount, From
<1> QED
  BY <1>1, <1>2, <1>3, <1>4, CommitCell

\* Two requests about to post do not debit the same account of a user.
LEMMA DebitsApart ==
  ASSUME TypeOK, OverdraftInv, NEW r \in Req, NEW s \in Req \ {r}, pc[r] = "commit",
         pc[s] \in Posting, Debits(s), From(s) # SystemCash
  PROVE  From(r) # From(s)
<1> USE DEF OverdraftInv
<1>1. CASE Debits(r)
  <2>1. rowLock[From(r)] = r /\ rowLock[From(s)] = s
    BY <1>1 DEF LocksHeld, Posting
  <2> QED
    BY <2>1
<1>2. CASE ~Debits(r)
  <2>1. Op(r) = "deposit"
    BY <1>2 DEF StepsMatch, Posting, Posts, Debits
  <2> QED
    BY <2>1, RequestType DEF WellFormed, Op, From
<1> QED
  BY <1>1, <1>2

LEMMA FundedStep ==
  ASSUME TypeOK, OverdraftInv, NEW r \in Req, OnlyMoves(r), OwnStep(r)
  PROVE  Funded'
<1> USE DEF OverdraftInv
<1> SUFFICES ASSUME NEW s \in Req, pc'[s] \in Posting, Debits(s), From(s) # SystemCash,
                    NEW t \in Time, t >= CountsFrom(s)'
             PROVE  ledger'[From(s)][t] >= Stored(Amount(s))
  BY SameRequests DEF Funded
<1>1. /\ From(s) \in Account /\ Amount(s) \in Nat \ {0} /\ Stored(Amount(s)) \in Nat
      /\ t \in Nat /\ now \in Nat /\ created[s] \in Nat
      /\ ledger[From(s)][t] \in Int
  BY RequestType, StoredType, TimeType, BalanceType DEF TypeOK
<1>2. CASE Stamp(r)
  <2>1. pc[s] \in Posting /\ t >= CountsFrom(s) /\ ledger' = ledger
    <3>1. CASE s = r
      <4>1. pc[s] = "stamp" /\ created'[s] = now + 1 /\ pc'[s] = "insert"
        BY <1>2, <3>1 DEF Stamp, Goto, TypeOK
      <4> QED
        BY <1>1, <1>2, <4>1 DEF Stamp, CountsFrom, Posting, tables
    <3>2. CASE s # r
      BY <1>1, <1>2, <3>2 DEF Stamp, OnlyMoves, CountsFrom, tables
    <3> QED
      BY <3>1, <3>2
  <2> QED
    BY <2>1 DEF Funded
<1>3. CASE Commit(r)
  <2>1. s # r
    BY <1>3 DEF Commit, Goto, TypeOK, Posting
  <2>2. pc[s] \in Posting /\ t >= CountsFrom(s)
    BY <1>3, <2>1 DEF OnlyMoves, CountsFrom, Commit, stamps
  <2>3. ledger[From(s)][t] >= Stored(Amount(s))
    BY <2>2 DEF Funded
  <2>4. From(r) # From(s)
    BY <1>3, <2>1, <2>2, DebitsApart DEF Commit
  <2>5. ledger'[From(s)][t] >= ledger[From(s)][t]
    BY <1>1, <1>3, <2>4, CommitDebit
  <2>6. ledger'[From(s)][t] \in Int
    BY <1>1, <1>3, CommitCell, EntryType
  <2> QED
    BY <1>1, <2>3, <2>5, <2>6
<1>4. CASE ~Stamp(r) /\ ~Commit(r)
  <2>1. ledger' = ledger /\ now' = now /\ created' = created
    BY <1>4, LedgerStill
  <2>2. CASE pc[s] \in Posting /\ CountsFrom(s)' = CountsFrom(s)
    BY <2>1, <2>2 DEF Funded
  <2>3. CASE s # r
    BY <2>1, <2>2, <2>3 DEF OnlyMoves, CountsFrom
  <2>4. CASE s = r /\ Decides(r)
    <3>1. Covers(BalanceOf(From(s)), Amount(s)) /\ t >= now
      BY <2>1, <2>4 DEF Decides, CountsFrom
    <3>2. ledger[From(s)][t] = BalanceOf(From(s))
      BY <1>1, <3>1 DEF CutsSettled
    <3> QED
      BY <1>1, <2>1, <3>1, <3>2, StoredWithinCover
  <2>5. CASE s = r /\ Writes(r)
    BY <2>1, <2>2, <2>5 DEF Writes, Posting, CountsFrom
  <2>6. CASE s = r /\ (Leaves(r) \/ TakesLock(r))
    BY <2>6 DEF Leaves, TakesLock, Posting
  <2> QED
    BY <1>4, <2>3, <2>4, <2>5, <2>6 DEF OwnStep
<1> QED
  BY <1>2, <1>3, <1>4

LEMMA NoOverdraftStep ==
  ASSUME TypeOK, OverdraftInv, NEW r \in Req, OnlyMoves(r), OwnStep(r)
  PROVE  NoOverdraft'
<1> SUFFICES ASSUME NEW a \in Account \ {SystemCash}, NEW t \in Time
             PROVE  ledger'[a][t] >= 0
  BY DEF NoOverdraft
<1>1. ledger[a][t] \in Int /\ ledger[a][t] >= 0
  BY BalanceType DEF OverdraftInv, NoOverdraft
<1>2. CASE Commit(r)
  <2>1. created[r] \in Nat /\ t \in Nat /\ Stored(Amount(r)) \in Nat
    BY TimeType, RequestType, StoredType DEF TypeOK
  <2>2. ledger'[a][t] \in Int
    BY <1>1, <1>2, CommitCell, EntryType
  <2>3. CASE a # From(r) \/ t < created[r]
    BY <1>1, <1>2, <2>2, <2>3, CommitDebit
  <2>4. CASE a = From(r) /\ t >= created[r]
    <3>1. Debits(r)
      BY <1>2, <2>4, RequestType
      DEF OverdraftInv, StepsMatch, Commit, Posting, Posts, Debits, WellFormed, Op, From
    <3>2. ledger[a][t] >= Stored(Amount(r))
      BY <1>2, <2>4, <3>1 DEF OverdraftInv, Funded, Commit, Posting, CountsFrom
    <3> QED
      BY <1>1, <1>2, <2>1, <2>2, <3>2, CommitDebit
  <2> QED
    BY <2>1, <2>3, <2>4
<1>3. CASE ~Commit(r)
  <2>1. ledger' = ledger
    BY <1>3, LedgerStill DEF Stamp, tables
  <2> QED
    BY <1>1, <2>1
<1> QED
  BY <1>2, <1>3

\* A new account is no row a handler has passed over: a transfer that waits for
\* the second of its rows has not named it.
LEMMA CreateKeepsOverdraftInv ==
  ASSUME TypeOK, OverdraftInv, CreateAccount
  PROVE  OverdraftInv'
<1>1. UNCHANGED <<req, pc, tables, stamps, locks>>
  BY DEF CreateAccount
<1>2. \A r \in Req : /\ Op(r)' = Op(r) /\ From(r)' = From(r) /\ To(r)' = To(r)
                    /\ Amount(r)' = Amount(r) /\ LockOrder(r)' = LockOrder(r)
                    /\ Posts(r)' = Posts(r) /\ Debits(r)' = Debits(r)
                    /\ CountsFrom(r)' = CountsFrom(r)
  BY <1>1 DEF Op, From, To, Amount, LockOrder, Posts, Debits, CountsFrom, stamps
<1>3. ASSUME NEW r \in Req, pc[r] = "lock2", Present(LockOrder(r)[1])'
      PROVE  Present(LockOrder(r)[1])
  <2>1. Op(r) = "transfer"
    BY <1>3 DEF OverdraftInv, StepsMatch
  <2>2. LockOrder(r)[1] \in Named(r)
    BY <2>1 DEF Named, LockOrder
  <2>3. \A a \in Named(r) : accounts'[a].status = accounts[a].status
    <3>1. \A a \in Named(r) : a \in Account
      BY <2>1, RequestType DEF Named
    <3>2. accounts \in [Account -> Row]
      BY DEF TypeOK
    <3>3. CASE accounts' = [accounts EXCEPT ![SystemCash].twin = TRUE]
      BY <3>1, <3>2, <3>3 DEF Row
    <3>4. ASSUME NEW b \in Account, NEW x, b \notin Named(r), accounts' = [accounts EXCEPT ![b] = x]
          PROVE  \A a \in Named(r) : accounts'[a] = accounts[a]
      BY <3>1, <3>2, <3>4
    <3>5. pc[r] \notin {"start", "done"}
      BY <1>3
    <3> QED
      BY <3>3, <3>4, <3>5 DEF CreateAccount
  <2> QED
    BY <1>2, <1>3, <2>2, <2>3 DEF Present
<1>4. LocksHeld'
  BY <1>1, <1>2, <1>3 DEF OverdraftInv, LocksHeld, locks
<1>5. StepsMatch'
  BY <1>1, <1>2 DEF OverdraftInv, StepsMatch
<1>6. StampsPast' /\ CutsSettled' /\ NoOverdraft'
  BY <1>1 DEF OverdraftInv, StampsPast, CutsSettled, NoOverdraft, BalanceOf, tables, stamps
<1>7. Funded'
  BY <1>1, <1>2 DEF OverdraftInv, Funded, tables
<1> QED
  BY <1>4, <1>5, <1>6, <1>7 DEF OverdraftInv

LEMMA OverdraftInvStep == TypeOK /\ OverdraftInv /\ [Next]_vars => OverdraftInv'
<1> SUFFICES ASSUME TypeOK, OverdraftInv, [Next]_vars PROVE OverdraftInv'
  OBVIOUS
<1>1. CASE UNCHANGED vars
  BY <1>1
  DEF vars, tables, stamps, locks, OverdraftInv, StepsMatch, LocksHeld, StampsPast, CutsSettled,
      Funded, CountsFrom, NoOverdraft, Posts, Debits, Op, From, To, Amount, LockOrder, Present,
      BalanceOf
<1>2. ASSUME NEW r \in Req, Advance(r) \/ Die(r) PROVE OverdraftInv'
  <2>1. OnlyMoves(r) /\ OwnStep(r)
    BY <1>2, Frame, Own DEF OverdraftInv
  <2> QED
    BY <2>1, StepsMatchStep, LocksHeldStep, StampsStep, FundedStep, NoOverdraftStep
    DEF OverdraftInv
<1>3. CASE CreateAccount
  BY <1>3, CreateKeepsOverdraftInv
<1> QED
  BY <1>1, <1>2, <1>3 DEF Next, AllDone

\* What a handler has checked and locked stays so until its COMMIT, for any
\* interleaving of handlers and any faults.
THEOREM FundsHeld == Spec => []OverdraftInv
<1>1. Init => OverdraftInv
  BY LedgerAssumption, TimeType
  DEF Init, OverdraftInv, StepsMatch, LocksHeld, StampsPast, CutsSettled, Funded, NoOverdraft,
      Posting, BalanceOf
<1> QED
  BY <1>1, OverdraftInvStep, TypeCorrect, PTL DEF Spec


\* No account but SYSTEM_CASH is ever below zero, at any time cut.
THEOREM Solvent == Spec => []NoOverdraft
<1>1. OverdraftInv => NoOverdraft
  BY DEF OverdraftInv
<1> QED
  BY <1>1, FundsHeld, PTL

-----------------------------------------------------------------------------
(* One transaction per idempotency key *)

\* Only the insert makes a request hold its key.
LEMMA HoldsStep ==
  ASSUME TypeOK, NEW r \in Req, OnlyMoves(r), OwnStep(r)
  PROVE  \A s \in Req : Holds(s)' => Holds(s) \/ (s = r /\ pc[r] = "insert" /\ Writes(r))
<1> SUFFICES ASSUME NEW s \in Req, Holds(s)'
             PROVE  Holds(s) \/ (s = r /\ pc[r] = "insert" /\ Writes(r))
  OBVIOUS
<1>1. CASE Commit(r)
  BY <1>1 DEF Commit, Holds, Inserted, OnlyMoves, Goto, TypeOK
<1>2. CASE ~Commit(r)
  <2>1. committed' = committed
    BY <1>2 DEF OwnStep, Leaves, TakesLock, Decides, Stamp, Writes, tables
  <2>2. CASE s # r
    BY <2>1, <2>2 DEF OnlyMoves, Holds, Inserted
  <2>3. CASE s = r
    BY <1>2, <2>1, <2>3
    DEF OwnStep, Leaves, TakesLock, Decides, Stamp, Writes, Holds, Inserted, Goto, TypeOK
  <2> QED
    BY <2>2, <2>3
<1> QED
  BY <1>1, <1>2

\* The insert finds no other row with its key: neither a committed one, nor an
\* uncommitted one, for which it would wait.
LEMMA InsertIsFirst ==
  ASSUME TypeOK, NEW r \in Req, Advance(r) \/ Die(r), pc[r] = "insert", Writes(r)
  PROVE  \A s \in Req \ {r} : Holds(s) => ~SameKey(req[r], req[s])
<1>1. Proceed(r, "entry1") /\ Blockers(r) = {} /\ Existing(r) = {}
  <2>1. pc'[r] = "entry1"
    BY DEF Writes
  <2>2. ~Die(r) /\ ~DeadlockAbort(r)
    BY <2>1 DEF Die, DeadlockAbort, Fail, Abort, Answer, Goto, TypeOK
  <2>3. InsertTransaction(r)
    BY <2>2 DEF Advance, Deposit, Withdraw, Transfer, Post, Read, DepositLookup, WithdrawLock,
      WithdrawRead, TransferStart, TransferLock1, TransferLock2, TransferRead, TransferReread,
      Stamp, InsertDebit, InsertCredit, Commit, Invalidate1, Invalidate2, CacheGet,
      BalanceQuery, CacheFill, BalanceAt
  <2>4. ~IntegrityError(r)
    BY <2>1 DEF IntegrityError, Fail, Abort, Answer, Goto, TypeOK
  <2> QED
    BY <2>3, <2>4 DEF InsertTransaction
<1> SUFFICES ASSUME NEW s \in Req \ {r}, Holds(s), SameKey(req[r], req[s]) PROVE FALSE
  OBVIOUS
<1>2. s \notin committed
  BY <1>1 DEF Existing
<1>3. s \in Blockers(r)
  BY <1>2 DEF Holds, Blockers
<1> QED
  BY <1>1, <1>3

LEMMA KeysUniqueStep == TypeOK /\ OverdraftInv /\ KeysUnique /\ [Next]_vars => KeysUnique'
<1> SUFFICES ASSUME TypeOK, OverdraftInv, KeysUnique, [Next]_vars PROVE KeysUnique'
  OBVIOUS
<1>1. CASE UNCHANGED vars
  BY <1>1 DEF vars, tables, KeysUnique, Holds, Inserted
<1>2. ASSUME NEW r \in Req, Advance(r) \/ Die(r) PROVE KeysUnique'
  <2>1. OnlyMoves(r) /\ OwnStep(r)
    BY <1>2, Frame, Own DEF OverdraftInv
  <2>2. req' = req
    BY <2>1 DEF OnlyMoves
  <2> SUFFICES ASSUME NEW s \in Req, NEW u \in Req, Holds(s)', Holds(u)', SameKey(req[s], req[u])
               PROVE  s = u
    BY <2>2 DEF KeysUnique
  <2>3. SameKey(req[u], req[s])
    BY DEF SameKey
  <2>4. CASE Holds(s) /\ Holds(u)
    BY <2>4 DEF KeysUnique
  <2>5. CASE pc[r] = "insert" /\ Writes(r) /\ (s = r \/ u = r)
    BY <1>2, <2>1, <2>3, <2>5, InsertIsFirst, HoldsStep
  <2> QED
    BY <2>1, <2>4, <2>5, HoldsStep
<1>3. CASE CreateAccount
  BY <1>3 DEF CreateAccount, tables, KeysUnique, Holds, Inserted
<1> QED
  BY <1>1, <1>2, <1>3 DEF Next, AllDone

\* A key has one row, counting the rows inserted and not yet committed.
THEOREM KeysHeldOnce == Spec => []KeysUnique
<1>1. Init => KeysUnique
  BY DEF Init, KeysUnique, Holds, Inserted
<1> QED
  BY <1>1, KeysUniqueStep, FundsHeld, TypeCorrect, PTL DEF Spec


\* An idempotency key never gets a second transaction.
THEOREM KeysSpentOnce == Spec => []OneTransactionPerKey
<1>1. TypeOK /\ KeysUnique => OneTransactionPerKey
  BY DEF TypeOK, KeysUnique, Holds, OneTransactionPerKey
<1> QED
  BY <1>1, KeysHeldOnce, TypeCorrect, PTL

-----------------------------------------------------------------------------
(* What the clients are told *)

\* A step that answers ends the request, and the answer is true.
Answers(r) ==
  /\ pc'[r] = "done" /\ committed' = committed
  /\ \/ reply'[r].kind \in {"error", "balance"}
     \/ reply'[r].kind = "rejected" /\ pc[r] \notin {"invalidate1", "invalidate2"}
     \/ /\ reply'[r] = Posted(r) /\ pc[r] \in {"invalidate1", "invalidate2"}
     \/ \E t \in committed : reply'[r] = Posted(t) /\ SameRequest(req[r], req[t])

\* Any other step leaves the reply, and past the COMMIT only invalidates.
Continues(r) ==
  /\ reply'[r] = reply[r] /\ pc'[r] # "done"
  /\ \/ Commit(r)
     \/ committed' = committed /\ pc[r] = "invalidate1" /\ pc'[r] = "invalidate2"
     \/ /\ committed' = committed
        /\ pc[r] \notin {"invalidate1", "invalidate2"}
        /\ pc'[r] \notin {"invalidate1", "invalidate2"}

LEMMA AbortAnswers ==
  ASSUME TypeOK, NEW r \in Req
  PROVE  /\ Fail(r) => Answers(r)
         /\ \A w : Reject(r, w) /\ pc[r] \notin {"invalidate1", "invalidate2"} => Answers(r)
         /\ \A v : Abort(r, Balance(v)) => Answers(r)
         /\ \A t \in Existing(r) :
              AnswerExisting(r, t) /\ pc[r] \notin {"invalidate1", "invalidate2"} => Answers(r)
<1>1. ASSUME NEW rep, Abort(r, rep)
      PROVE  pc'[r] = "done" /\ committed' = committed /\ reply'[r] = rep
  BY <1>1 DEF TypeOK, Abort, Answer, Goto, tables
<1>2. Fail(r) => Answers(r)
  BY <1>1 DEF Fail, Error, Answers
<1>3. \A w : Reject(r, w) /\ pc[r] \notin {"invalidate1", "invalidate2"} => Answers(r)
  BY <1>1 DEF Reject, Rejected, Answers
<1>4. \A v : Abort(r, Balance(v)) => Answers(r)
  BY <1>1 DEF Balance, Answers
<1>5. \A t \in Existing(r) :
        AnswerExisting(r, t) /\ pc[r] \notin {"invalidate1", "invalidate2"} => Answers(r)
  BY <1>1 DEF AnswerExisting, Existing, Rejected, Answers
<1> QED
  BY <1>2, <1>3, <1>4, <1>5

LEMMA ProceedContinues ==
  ASSUME TypeOK, NEW r \in Req, NEW s, Proceed(r, s),
         s \notin {"done", "invalidate1", "invalidate2"},
         pc[r] \notin {"invalidate1", "invalidate2"}
  PROVE  Continues(r)
  BY DEF TypeOK, Proceed, Goto, tables, Continues

LEMMA AnswersOrContinues ==
  ASSUME TypeOK, NEW r \in Req, Advance(r) \/ Die(r)
  PROVE  Answers(r) \/ Continues(r)
<1>1. ASSUME IntegrityError(r), pc[r] \notin {"invalidate1", "invalidate2"}
      PROVE  Answers(r) \/ Continues(r)
  BY <1>1, AbortAnswers DEF IntegrityError, TypeOK, Goto, tables, Continues
<1>2. CASE DepositLookup(r) \/ WithdrawRead(r) \/ TransferStart(r) \/ TransferRead(r)
           \/ TransferReread(r) \/ CacheGet(r) \/ BalanceAt(r)
  BY <1>2, AbortAnswers, ProceedContinues
  DEF DepositLookup, WithdrawRead, TransferStart, TransferRead, TransferReread, CacheGet, BalanceAt
<1>3. CASE WithdrawLock(r) \/ TransferLock1(r) \/ TransferLock2(r)
  BY <1>3, AbortAnswers
  DEF WithdrawLock, TransferLock1, TransferLock2, TypeOK, Goto, tables, Continues
<1>4. CASE Stamp(r)
  BY <1>4 DEF Stamp, TypeOK, Goto, tables, Continues
<1>5. CASE InsertTransaction(r)
  BY <1>1, <1>5, ProceedContinues DEF InsertTransaction
<1>6. CASE InsertDebit(r) \/ InsertCredit(r)
  BY <1>1, <1>6 DEF InsertDebit, InsertCredit, ShareKey, TypeOK, Goto, tables, Continues
<1>7. CASE Commit(r)
  BY <1>7 DEF Commit, TypeOK, Goto, Continues
<1>8. CASE Invalidate1(r) \/ Invalidate2(r)
  BY <1>8 DEF Invalidate1, Invalidate2, Answer, TypeOK, Goto, tables, Continues, Answers
<1>9. CASE BalanceQuery(r)
  BY <1>9, AbortAnswers DEF BalanceQuery, TypeOK, Goto, tables, Continues
<1>10. CASE CacheFill(r)
  BY <1>10 DEF CacheFill, Answer, TypeOK, Goto, tables, Balance, Answers
<1>11. CASE DeadlockAbort(r) \/ Die(r)
  BY <1>11, AbortAnswers DEF DeadlockAbort, Die
<1> QED
  BY <1>2, <1>3, <1>4, <1>5, <1>6, <1>7, <1>8, <1>9, <1>10, <1>11
  DEF Advance, Deposit, Withdraw, Transfer, Post, Read

RepliesInv == CommitsOnce /\ RepliesTruthful

LEMMA RepliesInvStep == TypeOK /\ RepliesInv /\ [Next]_vars => RepliesInv'
<1> SUFFICES ASSUME TypeOK, RepliesInv, [Next]_vars PROVE RepliesInv'
  OBVIOUS
<1>1. CASE UNCHANGED vars
  BY <1>1 DEF vars, tables, RepliesInv, CommitsOnce, RepliesTruthful
<1>2. ASSUME NEW r \in Req, Advance(r) \/ Die(r) PROVE RepliesInv'
  <2>1. OnlyMoves(r) /\ (Answers(r) \/ Continues(r))
    BY <1>2, Frame, AnswersOrContinues
  <2>2. committed' = committed \/ Commit(r)
    BY <2>1 DEF Answers, Continues
  <2>3. \A s \in Req \ {r} : s \in committed' <=> s \in committed
    BY <2>2 DEF Commit
  <2>4. committed \subseteq committed'
    BY <2>2 DEF Commit
  <2>5. pc[r] # "done"
    BY <1>2 DEF Advance, Deposit, Withdraw, Transfer, Post, Read, DepositLookup, WithdrawLock,
      WithdrawRead, TransferStart, TransferLock1, TransferLock2, TransferRead, TransferReread,
      Stamp, InsertTransaction, InsertDebit, InsertCredit, Commit, Invalidate1, Invalidate2,
      CacheGet, BalanceQuery, CacheFill, BalanceAt, DeadlockAbort, Die
  <2>6. CommitsOnce'
    <3>1. /\ reply'[r] # NoReply => pc'[r] = "done"
          /\ pc'[r] \in {"invalidate1", "invalidate2"} => r \in committed'
          /\ r \in committed' => pc'[r] \in {"invalidate1", "invalidate2", "done"}
      <4>1. CASE Answers(r)
        BY <4>1 DEF Answers
      <4>2. CASE Commit(r)
        BY <2>1, <2>5, <4>2 DEF Commit, Goto, TypeOK, Continues, Answers, RepliesInv, CommitsOnce
      <4>3. CASE Continues(r) /\ ~Commit(r)
        BY <2>5, <4>3 DEF Continues, RepliesInv, CommitsOnce
      <4> QED
        BY <2>1, <4>1, <4>2, <4>3
    <3> QED
      BY <2>1, <2>3, <3>1 DEF OnlyMoves, RepliesInv, CommitsOnce
  <2>7. RepliesTruthful'
    <3> SUFFICES ASSUME NEW s \in Req
                 PROVE  /\ reply'[s].kind = "posted" =>
                             \E t \in committed' :
                               reply'[s] = Posted(t) /\ (t = s \/ SameRequest(req[s], req[t]))
                        /\ reply'[s].kind = "rejected" => s \notin committed'
      BY <2>1 DEF OnlyMoves, RepliesTruthful
    <3>1. CASE s # r
      BY <2>1, <2>3, <2>4, <3>1 DEF OnlyMoves, RepliesInv, RepliesTruthful
    <3>2. CASE s = r /\ Answers(r)
      <4>1. r \in committed => pc[r] \in {"invalidate1", "invalidate2"}
        BY <2>5 DEF RepliesInv, CommitsOnce
      <4>2. pc[r] \in {"invalidate1", "invalidate2"} => r \in committed
        BY DEF RepliesInv, CommitsOnce
      <4>3. CASE reply'[r].kind \in {"error", "balance"}
        BY <3>2, <4>3
      <4>4. CASE reply'[r].kind = "rejected" /\ pc[r] \notin {"invalidate1", "invalidate2"}
        BY <3>2, <4>1, <4>4 DEF Answers
      <4>5. CASE reply'[r] = Posted(r) /\ pc[r] \in {"invalidate1", "invalidate2"}
        BY <2>4, <3>2, <4>2, <4>5 DEF Posted
      <4>6. CASE \E t \in committed : reply'[r] = Posted(t) /\ SameRequest(req[r], req[t])
        BY <2>4, <3>2, <4>6 DEF Posted
      <4> QED
        BY <3>2, <4>3, <4>4, <4>5, <4>6 DEF Answers
    <3>3. CASE s = r /\ Continues(r)
      <4>1. reply'[r] = NoReply
        BY <2>5, <3>3 DEF Continues, RepliesInv, CommitsOnce
      <4> QED
        BY <3>3, <4>1 DEF NoReply
    <3> QED
      BY <2>1, <3>1, <3>2, <3>3
  <2> QED
    BY <2>6, <2>7 DEF RepliesInv
<1>3. CASE CreateAccount
  BY <1>3 DEF CreateAccount, tables, RepliesInv, CommitsOnce, RepliesTruthful
<1> QED
  BY <1>1, <1>2, <1>3 DEF Next, AllDone

LEMMA RepliesKept == Spec => []RepliesInv
<1>1. Init => RepliesInv
  BY DEF Init, RepliesInv, CommitsOnce, RepliesTruthful, NoReply
<1> QED
  BY <1>1, RepliesInvStep, TypeCorrect, PTL DEF Spec


\* A "posted" answer names a committed transaction for the same request, and a
\* refused request has none, with any faults.
THEOREM TruthfulReplies == Spec => []RepliesTruthful
<1>1. RepliesInv => RepliesTruthful
  BY DEF RepliesInv
<1> QED
  BY <1>1, RepliesKept, PTL

\* A handler answers once, and past its COMMIT it only invalidates and
\* confirms, whatever Redis does.
THEOREM CommittedOnce == Spec => []CommitsOnce
<1>1. RepliesInv => CommitsOnce
  BY DEF RepliesInv
<1> QED
  BY <1>1, RepliesKept, PTL

-----------------------------------------------------------------------------
(* No wait cycle among users *)

\* What a step of r does to the locks: it drops them all, leaves them, or takes
\* the next one of its handler.
LockMove(r) ==
  \/ Release(r) /\ pc'[r] \in {"done", "reread", "invalidate1"}
  \/ /\ UNCHANGED locks /\ pc'[r] # "lock2"
     /\ pc'[r] = "lock1" => From(r) # To(r)
     /\ \/ pc[r] \in {"read", "stamp", "insert"} /\ pc'[r] \in Posting
        \/ pc[r] \notin Posting \cup {"read", "lock2"}
  \/ /\ keyShare' = keyShare
     /\ \/ /\ pc[r] = "start" /\ Op(r) = "withdraw" /\ pc'[r] = "read"
           /\ LockRow(r, From(r))
        \/ pc[r] = "lock1" /\ pc'[r] = "lock2" /\ LockRow(r, LockOrder(r)[1])
        \/ pc[r] = "lock2" /\ pc'[r] = "read" /\ LockRow(r, LockOrder(r)[2])
  \/ /\ rowLock' = rowLock
     /\ \/ /\ pc[r] = "entry1" /\ pc'[r] = "entry2"
           /\ keyShare' = [keyShare EXCEPT ![From(r)] = @ \cup {r}]
        \/ /\ pc[r] = "entry2" /\ pc'[r] = "commit"
           /\ keyShare' = [keyShare EXCEPT ![To(r)] = @ \cup {r}]

LEMMA AbortMove ==
  ASSUME TypeOK, NEW r \in Req
  PROVE  /\ \A rep : Abort(r, rep) => LockMove(r)
         /\ Fail(r) => LockMove(r)
         /\ \A w : Reject(r, w) => LockMove(r)
         /\ \A t : AnswerExisting(r, t) => LockMove(r)
         /\ IntegrityError(r) => LockMove(r)
<1>1. ASSUME NEW rep, Abort(r, rep) PROVE LockMove(r)
  BY <1>1 DEF TypeOK, Abort, Answer, Goto, LockMove
<1>2. ASSUME Release(r), Goto(r, "reread") PROVE LockMove(r)
  BY <1>2 DEF TypeOK, Goto, LockMove
<1> QED
  BY <1>1, <1>2 DEF Fail, Reject, AnswerExisting, IntegrityError

LEMMA LockMoves ==
  ASSUME TypeOK, StepsMatch, TwoRows, NEW r \in Req, Advance(r) \/ Die(r)
  PROVE  LockMove(r)
<1> USE DEF LockMove
<1>1. CASE DepositLookup(r) \/ TransferStart(r) \/ TransferReread(r) \/ CacheGet(r) \/ BalanceAt(r)
  BY <1>1, AbortMove, ProceedMoves
  DEF DepositLookup, TransferStart, TransferReread, CacheGet, BalanceAt, Posting
<1>2. CASE WithdrawRead(r) \/ TransferRead(r)
  BY <1>2, AbortMove, ProceedMoves DEF WithdrawRead, TransferRead, Posting
<1>3. CASE WithdrawLock(r)
  BY <1>3, AbortMove DEF WithdrawLock, TypeOK, Goto
<1>4. CASE TransferLock1(r)
  BY <1>4 DEF TransferLock1, TypeOK, Goto
<1>5. CASE TransferLock2(r)
  BY <1>5, AbortMove DEF TransferLock2, TypeOK, Goto
<1>6. CASE Stamp(r)
  BY <1>6 DEF Stamp, TypeOK, Goto, Posting
<1>7. CASE InsertTransaction(r)
  BY <1>7, AbortMove, ProceedMoves DEF InsertTransaction, Posting
<1>8. CASE InsertDebit(r) \/ InsertCredit(r)
  BY <1>8, AbortMove DEF InsertDebit, InsertCredit, ShareKey, TypeOK, Goto
<1>9. CASE Commit(r)
  BY <1>9 DEF Commit, TypeOK, Goto
<1>10. CASE Invalidate1(r) \/ Invalidate2(r) \/ CacheFill(r)
  BY <1>10 DEF Invalidate1, Invalidate2, CacheFill, Answer, TypeOK, Goto, Posting
<1>11. CASE BalanceQuery(r)
  BY <1>11, AbortMove DEF BalanceQuery, TypeOK, Goto, Posting, locks
<1>12. CASE DeadlockAbort(r) \/ Die(r)
  BY <1>12, AbortMove DEF DeadlockAbort, Die
<1> QED
  BY <1>1, <1>2, <1>3, <1>4, <1>5, <1>6, <1>7, <1>8, <1>9, <1>10, <1>11, <1>12
  DEF Advance, Deposit, Withdraw, Transfer, Post, Read

WaitInv == LocksOwned /\ TwoRows

LEMMA WaitInvStep ==
  ASSUME TypeOK, OverdraftInv, WaitInv, NEW r \in Req, OnlyMoves(r), LockMove(r)
  PROVE  WaitInv'
<1>1. TwoRows'
  BY SameRequests DEF LockMove, WaitInv, TwoRows, OnlyMoves, Posting
<1>2. ASSUME NEW s \in Req, NEW a \in Account
      PROVE  /\ rowLock'[a] = s =>
                  \/ pc'[s] = "lock2" /\ a = LockOrder(s)[1]
                  \/ /\ pc'[s] \in Posting \cup {"read"} /\ Debits(s)
                     /\ a = From(s) \/ (Op(s) = "transfer" /\ a = To(s))
             /\ s \in keyShare'[a] =>
                  \/ pc'[s] = "entry2" /\ a = From(s)
                  \/ pc'[s] = "commit" /\ a \in {From(s), To(s)}
  <2>1. CASE s # r
    <3>1. (rowLock'[a] = s => rowLock[a] = s) /\ (s \in keyShare'[a] => s \in keyShare[a])
      BY <2>1, LedgerAssumption DEF LockMove, Release, LockRow, TypeOK, locks
    <3> QED
      BY <2>1, <3>1 DEF OnlyMoves, WaitInv, LocksOwned
  <2>2. CASE s = r /\ Release(r)
    BY <2>2, LedgerAssumption DEF Release
  <2>3. CASE s = r /\ UNCHANGED locks /\ ~Release(r) /\ pc'[r] \in Posting
                   /\ pc[r] \in {"read", "stamp", "insert"}
    BY <2>3 DEF WaitInv, LocksOwned, Posting, locks
  <2>4. CASE s = r /\ UNCHANGED locks /\ pc[r] \notin Posting \cup {"read", "lock2"}
    BY <2>4 DEF WaitInv, LocksOwned, Posting, locks
  <2>5. CASE /\ s = r /\ keyShare' = keyShare
             /\ \/ /\ pc[r] = "start" /\ Op(r) = "withdraw" /\ pc'[r] = "read"
                   /\ LockRow(r, From(r))
                \/ pc[r] = "lock1" /\ pc'[r] = "lock2" /\ LockRow(r, LockOrder(r)[1])
                \/ pc[r] = "lock2" /\ pc'[r] = "read" /\ LockRow(r, LockOrder(r)[2])
    <3>1. s \notin keyShare'[a]
      BY <2>5 DEF WaitInv, LocksOwned
    <3>2. pc[r] \in {"lock1", "lock2"} => Op(r) = "transfer"
      BY DEF OverdraftInv, StepsMatch
    <3>3. rowLock'[a] = r => rowLock[a] = r \/
            a = (IF pc[r] = "start" THEN From(r)
                 ELSE IF pc[r] = "lock1" THEN LockOrder(r)[1] ELSE LockOrder(r)[2])
      BY <2>5 DEF LockRow, TypeOK
    <3>4. rowLock[a] = r => pc[r] = "lock2" /\ a = LockOrder(r)[1]
      BY <2>5 DEF WaitInv, LocksOwned, Posting
    <3> QED
      BY <2>5, <3>1, <3>2, <3>3, <3>4, OrderedPair DEF Debits
  <2>6. CASE /\ s = r /\ rowLock' = rowLock
             /\ \/ /\ pc[r] = "entry1" /\ pc'[r] = "entry2"
                   /\ keyShare' = [keyShare EXCEPT ![From(r)] = @ \cup {r}]
                \/ /\ pc[r] = "entry2" /\ pc'[r] = "commit"
                   /\ keyShare' = [keyShare EXCEPT ![To(r)] = @ \cup {r}]
    BY <2>6 DEF WaitInv, LocksOwned, Posting, TypeOK
  <2> QED
    BY <2>1, <2>2, <2>3, <2>4, <2>5, <2>6 DEF LockMove
<1> QED
  BY <1>1, <1>2, SameRequests DEF WaitInv, LocksOwned

LEMMA WaitInvKept == Spec => []WaitInv
<1>1. Init => WaitInv
  BY LedgerAssumption DEF Init, WaitInv, LocksOwned, TwoRows
<1>2. TypeOK /\ OverdraftInv /\ WaitInv /\ [Next]_vars => WaitInv'
  <2> SUFFICES ASSUME TypeOK, OverdraftInv, WaitInv, [Next]_vars PROVE WaitInv'
    OBVIOUS
  <2>1. CASE UNCHANGED vars
    BY <2>1 DEF vars, locks, WaitInv, LocksOwned, TwoRows, Debits, Op, From, To, LockOrder
  <2>2. ASSUME NEW r \in Req, Advance(r) \/ Die(r) PROVE WaitInv'
    BY <2>2, Frame, LockMoves, WaitInvStep DEF OverdraftInv, WaitInv
  <2>3. CASE CreateAccount
    BY <2>3
    DEF CreateAccount, locks, WaitInv, LocksOwned, TwoRows, Debits, Op, From, To, LockOrder
  <2> QED
    BY <2>1, <2>2, <2>3 DEF Next, AllDone
<1> QED
  BY <1>1, <1>2, FundsHeld, TypeCorrect, PTL DEF Spec

\* A session owns just the locks its place in the handler calls for: none is
\* left behind by an answer, an error or a rollback.
THEOREM NoLockOutlives == Spec => []LocksOwned
<1>1. WaitInv => LocksOwned
  BY DEF WaitInv
<1> QED
  BY <1>1, WaitInvKept, PTL

\* How far a request is on its way through the locks: it waits for none that
\* others hold on the same way, holds its first row, all its rows, or its key.
Stage(r) ==
  CASE pc[r] = "lock2" -> 1
    [] pc[r] \in {"read", "stamp", "insert"} /\ Debits(r) -> 2
    [] pc[r] \in {"entry1", "entry2"} /\ Debits(r) -> 3
    [] pc[r] = "commit" -> 3
    [] OTHER -> 0

Ahead(s, r) ==
  \/ Stage(s) > Stage(r)
  \/ pc[s] = "lock2" /\ pc[r] = "lock2" /\ LockOrder(s)[1] > LockOrder(r)[1]

LEMMA StageOf ==
  ASSUME NEW r \in Req
  PROVE  /\ Stage(r) \in 0..3
         /\ pc[r] = "lock2" => Stage(r) = 1
         /\ pc[r] \in {"read", "stamp", "insert"} /\ Debits(r) => Stage(r) = 2
         /\ pc[r] \in {"entry1", "entry2"} /\ Debits(r) => Stage(r) = 3
         /\ pc[r] = "commit" => Stage(r) = 3
         /\ pc[r] \in {"start", "lock1"} => Stage(r) = 0
         /\ pc[r] \in {"entry1", "entry2"} /\ ~Debits(r) => Stage(r) = 0
  BY DEF Stage

\* Nobody locks the row of SYSTEM_CASH when no request names it.
LEMMA CashUnlocked ==
  ASSUME TypeOK, OverdraftInv, WaitInv, \A q \in Workload : UserRequest(q), NEW s \in Req
  PROVE  rowLock[SystemCash] # s
<1>1. UserRequest(req[s])
  BY DEF TypeOK
<1>2. Op(s) \in {"withdraw", "transfer"} => From(s) # SystemCash
  BY <1>1 DEF UserRequest, Op, From
<1>3. Op(s) = "transfer" => To(s) # SystemCash
  BY <1>1 DEF UserRequest, Op, To
<1>4. pc[s] = "lock2" => Op(s) = "transfer"
  BY DEF OverdraftInv, StepsMatch
<1> QED
  BY <1>2, <1>3, <1>4, OrderedPair, LedgerAssumption DEF WaitInv, LocksOwned, Debits

LEMMA BlockersAhead ==
  ASSUME TypeOK, OverdraftInv, WaitInv, \A q \in Workload : UserRequest(q),
         NEW r \in Req, NEW s \in Blockers(r)
  PROVE  Ahead(s, r)
<1>1. s \in Req /\ s # r
  BY DEF Blockers
<1>2. UserRequest(req[r]) /\ WellFormed(req[r]) /\ WellFormed(req[s])
  BY <1>1, RequestType DEF TypeOK
<1> USE DEF Ahead
<1>3. ASSUME NEW a \in Account, a \in RowsWanted(r), rowLock[a] = s PROVE Ahead(s, r)
  <2>1. CASE pc[s] = "lock2" /\ a = LockOrder(s)[1]
    <3>1. CASE pc[r] = "lock2" /\ a = LockOrder(r)[2]
      <4>1. From(r) # To(r) /\ From(r) \in Nat /\ To(r) \in Nat
        BY <3>1, RequestType, LedgerAssumption DEF WaitInv, TwoRows
      <4>2. LockOrder(r)[1] < LockOrder(r)[2]
        BY <4>1 DEF LockOrder
      <4> QED
        BY <2>1, <3>1, <4>2
    <3>2. CASE pc[r] \in {"start", "lock1"}
      BY <1>1, <2>1, <3>2, StageOf
    <3> QED
      BY <1>3, <3>1, <3>2 DEF RowsWanted
  <2>2. CASE pc[s] \in Posting \cup {"read"} /\ Debits(s)
    <3>1. Stage(s) \in {2, 3}
      BY <1>1, <2>2, StageOf DEF Posting
    <3>2. Stage(r) \in {0, 1}
      BY <1>3, StageOf DEF RowsWanted
    <3> QED
      BY <3>1, <3>2
  <2> QED
    BY <1>1, <1>3, <2>1, <2>2 DEF WaitInv, LocksOwned
<1>4. ASSUME NEW a \in Account, a \in RowsWanted(r), s \in keyShare[a] PROVE Ahead(s, r)
  <2>1. a # SystemCash
    <3>1. Op(r) \in {"withdraw", "transfer"} /\ a \in {From(r), To(r)}
          /\ (Op(r) = "withdraw" => a = From(r))
      BY <1>4, OrderedPair DEF RowsWanted, OverdraftInv, StepsMatch
    <3> QED
      BY <1>2, <3>1 DEF UserRequest, Op, From, To
  <2>2. Stage(r) \in {0, 1}
    BY <1>4, StageOf DEF RowsWanted
  <2>3. Stage(s) = 3
    <3>1. CASE pc[s] = "commit"
      BY <1>1, <3>1, StageOf
    <3>2. CASE pc[s] = "entry2" /\ a = From(s)
      <4>1. Op(s) # "deposit"
        BY <1>2, <2>1, <3>2 DEF WellFormed, Op, From
      <4>2. Debits(s)
        BY <1>1, <3>2, <4>1 DEF OverdraftInv, StepsMatch, Posting, Posts, Debits
      <4> QED
        BY <1>1, <3>2, <4>2, StageOf
    <3> QED
      BY <1>1, <1>4, <3>1, <3>2 DEF WaitInv, LocksOwned
  <2> QED
    BY <2>2, <2>3
<1>5. ASSUME NEW a \in Account, a \in RowsReferenced(r), rowLock[a] = s PROVE Ahead(s, r)
  <2>1. a # SystemCash
    BY <1>1, <1>5, CashUnlocked
  <2>2. ~Debits(r)
    <3> SUFFICES ASSUME Debits(r) PROVE FALSE
      OBVIOUS
    <3>1. pc[r] \in Posting
      BY <1>5 DEF RowsReferenced, Posting
    <3>2. rowLock[From(r)] = r /\ (Op(r) = "transfer" => rowLock[To(r)] = r)
      BY <3>1 DEF OverdraftInv, LocksHeld
    <3>3. Op(r) = "withdraw" => To(r) = SystemCash
      BY <1>2 DEF WellFormed, Op, To
    <3> QED
      BY <1>1, <1>5, <2>1, <3>2, <3>3 DEF RowsReferenced, Debits
  <2>3. Stage(r) = 0
    BY <1>5, <2>2, StageOf DEF RowsReferenced
  <2>4. Stage(s) \in {1, 2, 3}
    BY <1>1, <1>5, StageOf DEF WaitInv, LocksOwned, Posting
  <2> QED
    BY <2>3, <2>4
<1>6. ASSUME pc[r] = "insert", SameKey(req[r], req[s]), Inserted(s) PROVE Ahead(s, r)
  <2>1. Op(r) = "transfer" /\ Op(s) = "transfer"
    BY <1>2, <1>6 DEF SameKey, WellFormed, Op
  <2>2. Stage(r) = 2 /\ Stage(s) = 3
    BY <1>1, <1>6, <2>1, StageOf DEF Debits, Inserted
  <2> QED
    BY <2>2
<1> HIDE DEF Ahead
<1>7. RowsWanted(r) \subseteq Account /\ RowsReferenced(r) \subseteq Account
  BY DEF RowsWanted, RowsReferenced
<1>8. \/ \E a \in RowsWanted(r) : rowLock[a] = s \/ s \in keyShare[a]
      \/ \E a \in RowsReferenced(r) : rowLock[a] = s
      \/ pc[r] = "insert" /\ SameKey(req[r], req[s]) /\ Inserted(s)
  BY DEF Blockers
<1> QED
  BY <1>3, <1>4, <1>5, <1>6, <1>7, <1>8

\* No statement ever waits for itself through others when no withdrawal or
\* transfer names SYSTEM_CASH, for any number of requests: whoever is waited
\* for is further on, and of two transfers that hold one row each the one
\* waited for holds the greater account.
THEOREM UsersNeverDeadlock ==
  (\A q \in Workload : UserRequest(q)) => (Spec => []NoWaitCycle)
<1> SUFFICES ASSUME \A q \in Workload : UserRequest(q) PROVE Spec => []NoWaitCycle
  OBVIOUS
<1>1. TypeOK /\ OverdraftInv /\ WaitInv => NoWaitCycle
  <2> SUFFICES ASSUME TypeOK, OverdraftInv, WaitInv, NEW r \in Req, WaitsForItself(r)
               PROVE  FALSE
    BY DEF NoWaitCycle
  <2> DEFINE S == {s \in Req : Ahead(s, r)}
  <2>1. \A v \in Req : Stage(v) \in Int /\ LockOrder(v)[1] \in Int
    <3> SUFFICES ASSUME NEW v \in Req PROVE Stage(v) \in Int /\ LockOrder(v)[1] \in Int
      OBVIOUS
    <3>1. Stage(v) \in 0..3
      BY StageOf
    <3>2. LockOrder(v)[1] \in Nat
      BY RequestType, LedgerAssumption
    <3> QED
      BY <3>1, <3>2
  <2>2. Blockers(r) \subseteq S
    BY BlockersAhead DEF Blockers
  <2>3. ASSUME NEW s \in S, NEW u \in Blockers(s) PROVE u \in S
    <3>1. u \in Req /\ Ahead(u, s)
      BY <2>3, BlockersAhead DEF Blockers
    <3>2. \A v \in Req : Stage(v) \in Int /\ LockOrder(v)[1] \in Int
      BY <2>1
    <3>3. \A v \in Req : pc[v] = "lock2" => Stage(v) = 1
      BY StageOf
    <3>4. Ahead(s, r)
      OBVIOUS
    <3>5. CASE Stage(u) > Stage(s)
      <4>1. Stage(s) >= Stage(r)
        BY <3>2, <3>3, <3>4 DEF Ahead
      <4> QED
        BY <3>1, <3>2, <3>5, <4>1 DEF Ahead
    <3>6. CASE pc[u] = "lock2" /\ pc[s] = "lock2" /\ LockOrder(u)[1] > LockOrder(s)[1]
      <4>1. Stage(u) = Stage(s)
        BY <3>1, <3>3, <3>6
      <4> QED
        BY <3>1, <3>2, <3>4, <3>6, <4>1 DEF Ahead
    <3> QED
      BY <3>1, <3>5, <3>6 DEF Ahead
  <2>4. r \notin S
    BY <2>1 DEF Ahead
  <2> HIDE DEF S
  <2>5. S \in SUBSET Req
    BY DEF S
  <2> QED
    BY <2>2, <2>3, <2>4, <2>5 DEF WaitsForItself
<1> QED
  BY <1>1, WaitInvKept, FundsHeld, TypeCorrect, PTL

=============================================================================
