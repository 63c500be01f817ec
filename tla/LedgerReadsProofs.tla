-------------------------- MODULE LedgerReadsProofs --------------------------
(***************************************************************************)
(* What a client that reads more than once can rely on, for any requests,  *)
(* accounts and workload: the past does not change (get_balance_at is      *)
(* repeatable), and paging through a history skips nothing.                *)
(***************************************************************************)
EXTENDS LedgerHistory, LedgerPaging, LedgerRefinementProofs, SequenceTheorems

-----------------------------------------------------------------------------
(* The past *)

\* Nothing that is still in flight counts at a moment that has been told.
Settled(t) ==
  /\ t <= now
  /\ \A r \in Req : InFlight(r) => created[r] > t
  /\ \A a \in Account : ledger[a][t] = told[t][a]

SettledInv == DOMAIN told = Time /\ \A t \in Time : told[t] # Untold => Settled(t)

\* A transaction in flight was so before the step, under the same stamp, or has
\* just been stamped with a time not yet told.
LEMMA InFlightStep ==
  ASSUME TypeOK, NEW r \in Req, OnlyMoves(r), OwnStep(r), NEW s \in Req, InFlight(s)'
  PROVE  \/ InFlight(s) /\ created'[s] = created[s]
         \/ created'[s] = now + 1
<1>1. CASE s # r
  BY <1>1 DEF OnlyMoves, InFlight, Inserted
<1>2. CASE s = r
  BY <1>2 DEF OwnStep, Leaves, TakesLock, Decides, Stamp, Writes, Commit, Goto, InFlight,
    Inserted, stamps, TypeOK
<1> QED
  BY <1>1, <1>2

\* The COMMIT of a transaction in flight changes no told balance, and no other
\* step changes any.
LEMMA ToldBalances ==
  ASSUME TypeOK, NEW r \in Req, OwnStep(r), NEW t \in Time, Settled(t), NEW a \in Account
  PROVE  ledger'[a][t] = ledger[a][t]
<1>1. CASE Commit(r)
  <2>1. InFlight(r)
    BY <1>1 DEF Commit, InFlight, Inserted
  <2>2. created[r] \in Nat /\ t \in Nat /\ created[r] > t
    BY <2>1, RequestType, TimeType DEF Settled
  <2>3. ~(created[r] <= t)
    BY <2>2
  <2>4. ledger'[a][t] = ledger[a][t] + 0
    BY <1>1, <2>3 DEF Commit
  <2> QED
    BY <2>4, BalanceType
<1>2. CASE Stamp(r)
  BY <1>2 DEF Stamp, tables
<1>3. CASE ~Stamp(r) /\ ~Commit(r)
  BY <1>3 DEF OwnStep, Leaves, TakesLock, Decides, Writes, tables
<1> QED
  BY <1>1, <1>2, <1>3

LEMMA SettledKept ==
  ASSUME TypeOK, OverdraftInv, NEW r \in Req, Advance(r) \/ Die(r), NEW t \in Time, Settled(t)
  PROVE  /\ t <= now'
         /\ \A s \in Req : InFlight(s)' => created'[s] > t
         /\ \A a \in Account : ledger'[a][t] = told[t][a]
<1>1. OnlyMoves(r) /\ OwnStep(r)
  BY Frame, Own DEF OverdraftInv
<1>2. t \in Nat /\ now \in Nat
  BY TimeType DEF TypeOK
<1>3. t <= now'
  <2>1. now' = now \/ now' = now + 1
    BY <1>1 DEF OwnStep, Leaves, TakesLock, Decides, Stamp, Writes, Commit, stamps
  <2> QED
    BY <1>2, <2>1 DEF Settled
<1>4. ASSUME NEW s \in Req, InFlight(s)' PROVE created'[s] > t
  BY <1>1, <1>2, <1>4, InFlightStep DEF Settled
<1>5. ASSUME NEW a \in Account PROVE ledger'[a][t] = told[t][a]
  BY <1>1, ToldBalances DEF Settled
<1> QED
  BY <1>3, <1>4, <1>5

LEMMA SettledStep ==
  ASSUME TypeOK, TypeOK', OverdraftInv, SettledInv, [HistoryNext]_<<vars, told>>
  PROVE  SettledInv'
<1>1. CASE UNCHANGED <<vars, told>>
  BY <1>1 DEF SettledInv, Settled, InFlight, Inserted, vars, tables, stamps
<1>2. CASE HistoryNext
  <2>1. ASSUME NEW t \in Time, told[t] # Untold
        PROVE  /\ t <= now'
               /\ \A s \in Req : InFlight(s)' => created'[s] > t
               /\ \A a \in Account : ledger'[a][t] = told[t][a]
    <3>1. Settled(t)
      BY <2>1 DEF SettledInv
    <3>2. CASE UNCHANGED vars
      BY <3>1, <3>2 DEF Settled, InFlight, Inserted, vars, tables, stamps
    <3>3. ASSUME NEW r \in Req, Advance(r) \/ Die(r)
          PROVE  /\ t <= now'
                 /\ \A s \in Req : InFlight(s)' => created'[s] > t
                 /\ \A a \in Account : ledger'[a][t] = told[t][a]
      BY <3>1, <3>3, SettledKept
    <3>4. CASE CreateAccount
      BY <3>1, <3>4 DEF Settled, InFlight, Inserted, CreateAccount, tables, stamps
    <3> QED
      BY <1>2, <3>2, <3>3, <3>4 DEF HistoryNext, Next, AllDone
  <2>2. now' \in Time /\ now' \in Nat
    BY TimeType DEF TypeOK
  <2>3. CASE Quiet' /\ told[now'] = Untold
    <3>1. told' = [told EXCEPT ![now'] = [a \in Account |-> ledger'[a][now']]]
      BY <1>2, <2>3 DEF HistoryNext, Tell
    <3>2. ASSUME NEW t \in Time, told'[t] # Untold PROVE Settled(t)'
      <4>1. CASE t = now'
        BY <2>2, <2>3, <3>1, <4>1 DEF SettledInv, Settled, Quiet
      <4>2. CASE t # now'
        BY <2>1, <3>1, <3>2, <4>2 DEF SettledInv, Settled
      <4> QED
        BY <4>1, <4>2
    <3> QED
      BY <3>1, <3>2 DEF SettledInv
  <2>4. CASE ~(Quiet' /\ told[now'] = Untold)
    <3>1. told' = told
      BY <1>2, <2>4 DEF HistoryNext, Tell
    <3> QED
      BY <2>1, <3>1 DEF SettledInv, Settled
  <2> QED
    BY <2>3, <2>4
<1> QED
  BY <1>1, <1>2

\* A balance get_balance_at has given for a moment with nothing in flight is
\* given for ever after, although transactions that began by then commit later.
THEOREM PastIsSettled == HistorySpec => []HistorySettled
<1>1. HistorySpec => Spec
  <2>1. HistoryInit => Init
    BY DEF HistoryInit
  <2>2. [HistoryNext]_<<vars, told>> => [Next]_vars
    BY DEF HistoryNext
  <2> QED
    BY <2>1, <2>2, PTL DEF HistorySpec, Spec
<1>2. HistoryInit => SettledInv
  BY LedgerAssumption, TimeType
  DEF HistoryInit, Init, SettledInv, Settled, InFlight, Inserted
<1>3. TypeOK /\ TypeOK' /\ OverdraftInv /\ SettledInv /\ [HistoryNext]_<<vars, told>>
        => SettledInv'
  BY SettledStep
<1>4. SettledInv => HistorySettled
  BY DEF SettledInv, Settled, HistorySettled
<1> QED
  BY <1>1, <1>2, <1>3, <1>4, TypeCorrect, FundsHeld, PTL DEF HistorySpec

-----------------------------------------------------------------------------
(* The order of a history *)

\* What the rows R, one per entry, show, and those newer and not older than t by
\* the stamps c of the transactions.
Of(R) == {w[1] : w \in R}
Newer(R, c, t) == {w \in R : c[w[1]] > c[t]}
Above(R, c, t) == {w \in R : c[w[1]] >= c[t]}

\* The transactions of R are listed in h, newest first.
Listed(R, c, h) ==
  /\ h \in [1..Cardinality(R) -> Of(R)]
  /\ \A i \in 1..Cardinality(R) :
       Cardinality(Newer(R, c, h[i])) < i /\ Cardinality(Above(R, c, h[i])) >= i

\* Transactions with distinct stamps.
Apart(R, c) ==
  IsFiniteSet(R) /\ \A s, t \in Of(R) : c[s] \in Nat /\ (c[s] = c[t] => s = t)

\* The rows not older than a transaction are among those newer than an older one,
\* and these are fewer than the rows not older than that.
LEMMA Counts ==
  ASSUME NEW R, NEW c, Apart(R, c), NEW t \in Of(R)
  PROVE  /\ Cardinality(Newer(R, c, t)) \in Nat
         /\ Cardinality(Above(R, c, t)) \in 1..Cardinality(R)
         /\ Cardinality(Newer(R, c, t)) < Cardinality(Above(R, c, t))
         /\ \A s \in Of(R) : c[s] > c[t] => Cardinality(Above(R, c, s)) <= Cardinality(Newer(R, c, t))
<1> DEFINE A == Above(R, c, t)
           N == Newer(R, c, t)
<1> USE DEF Apart
<1>1. PICK w \in R : w[1] = t
  BY DEF Of
<1>2. \A v \in R : v[1] \in Of(R) /\ c[v[1]] \in Nat
  BY DEF Of
<1>3. A \subseteq R /\ N \subseteq A /\ w \in A /\ w \notin N
  BY <1>1, <1>2 DEF Above, Newer
<1>4. ASSUME NEW s \in Of(R), c[s] > c[t]
      PROVE  Cardinality(Above(R, c, s)) <= Cardinality(N)
  <2> DEFINE B == Above(R, c, s)
  <2>1. B \subseteq N
    <3> SUFFICES ASSUME NEW v \in B PROVE v \in N
      OBVIOUS
    <3>1. v \in R /\ c[v[1]] >= c[s]
      BY DEF Above
    <3>2. c[v[1]] \in Nat /\ c[s] \in Nat /\ c[t] \in Nat
      BY <1>2, <3>1
    <3>3. c[v[1]] > c[t]
      BY <1>4, <3>1, <3>2
    <3> QED
      BY <3>1, <3>3 DEF Newer
  <2>2. IsFiniteSet(N)
    <3>1. N \subseteq R
      BY DEF Newer
    <3> QED
      BY <3>1, FS_Subset
  <2> HIDE DEF B, N
  <2>3. Cardinality(B) <= Cardinality(N)
    BY <2>1, <2>2, FS_Subset
  <2> QED
    BY <2>3 DEF B
<1> HIDE DEF A, N
<1>5. IsFiniteSet(A) /\ Cardinality(A) <= Cardinality(R)
  BY <1>3, FS_Subset
<1>6. IsFiniteSet(N) /\ Cardinality(N) <= Cardinality(A) /\ Cardinality(N) # Cardinality(A)
  BY <1>3, <1>5, FS_Subset
<1>7. /\ Cardinality(R) \in Nat /\ Cardinality(A) \in Nat /\ Cardinality(N) \in Nat
  BY <1>5, <1>6, FS_CardinalityType
<1>8. Cardinality(A) # 0
  BY <1>3, <1>5, FS_EmptySet
<1> QED
  BY <1>4, <1>5, <1>6, <1>7, <1>8 DEF A, N

\* A transaction's last place in the list counts the rows not older, and what is
\* listed at a place has every newer transaction's last place before it.
LEMMA Places ==
  ASSUME NEW R, NEW c, Apart(R, c), NEW h, Listed(R, c, h)
  PROVE  /\ Cardinality(R) \in Nat
         /\ \A t \in Of(R) : /\ Cardinality(Above(R, c, t)) \in 1..Cardinality(R)
                             /\ h[Cardinality(Above(R, c, t))] = t
         /\ \A i \in 1..Cardinality(R), s \in Of(R) :
              c[s] > c[h[i]] => Cardinality(Above(R, c, s)) < i
<1> DEFINE n == Cardinality(R)
           up(t) == Cardinality(Above(R, c, t))
           new(t) == Cardinality(Newer(R, c, t))
<1>1. n \in Nat
  BY FS_CardinalityType DEF Apart
<1>2. /\ \A i \in 1..n : h[i] \in Of(R) /\ new(h[i]) < i /\ up(h[i]) >= i
  BY DEF Listed
<1>3. \A t \in Of(R) : /\ new(t) \in Nat /\ up(t) \in 1..n /\ new(t) < up(t)
                       /\ \A s \in Of(R) : c[s] > c[t] => up(s) <= new(t)
  BY Counts
<1>4. \A s, t \in Of(R) : c[s] \in Nat /\ (c[s] = c[t] => s = t)
  BY DEF Apart
<1> HIDE DEF n, up, new
<1>5. ASSUME NEW i \in 1..n, NEW s \in Of(R), c[s] > c[h[i]] PROVE up(s) < i
  <2>1. h[i] \in Of(R) /\ new(h[i]) < i /\ up(s) <= new(h[i])
    BY <1>2, <1>3, <1>5
  <2>2. up(s) \in 1..n /\ new(h[i]) \in Nat
    BY <1>3, <2>1
  <2> QED
    BY <1>1, <2>1, <2>2
<1>6. ASSUME NEW t \in Of(R) PROVE h[up(t)] = t
  <2> DEFINE k == up(t)
             u == h[k]
  <2>1. k \in 1..n /\ new(t) \in Nat /\ new(t) < k
    BY <1>3
  <2>2. u \in Of(R) /\ new(u) < k /\ up(u) >= k
    BY <1>2, <2>1
  <2>3. new(u) \in Nat /\ up(u) \in 1..n
    BY <1>3, <2>2
  <2>4. ~(c[u] > c[t])
    <3> SUFFICES ASSUME c[u] > c[t] PROVE FALSE
      OBVIOUS
    <3>1. up(u) <= new(t)
      BY <1>3, <2>2
    <3> QED
      BY <1>1, <2>1, <2>2, <2>3, <3>1
  <2>5. ~(c[t] > c[u])
    <3> SUFFICES ASSUME c[t] > c[u] PROVE FALSE
      OBVIOUS
    <3>1. k <= new(u)
      BY <1>3, <2>2
    <3> QED
      BY <1>1, <2>1, <2>2, <2>3, <3>1
  <2> HIDE DEF k, u
  <2>6. c[t] \in Nat /\ c[u] \in Nat
    BY <1>4, <2>2
  <2>7. u = t
    BY <1>4, <2>2, <2>4, <2>5, <2>6
  <2> QED
    BY <2>7 DEF u, k
<1> QED
  BY <1>1, <1>3, <1>5, <1>6 DEF n, up

-----------------------------------------------------------------------------
(* One page *)

InList(f, t) == \E i \in DOMAIN f : f[i] = t

\* In the list f a row of D comes after every newer row of D.
Ordered(c, D, f) ==
  \A t \in D, i \in DOMAIN f : f[i] = t =>
    \A s \in D : c[s] > c[t] => \E j \in 1..(i - 1) : f[j] = s

\* A transaction of D is in the list f, or its last row lies below the offset the
\* list has reached.
Beyond(R, c, t, f) == Cardinality(Above(R, c, t)) > Len(f)
Pending(R, c, D, f) == \A t \in D : InList(f, t) \/ Beyond(R, c, t, f)

\* What a history h lists after the rows of f, and f with them.
NextRows(f, h, size) == SubSeq(h, Len(f) + 1, Min({Len(f) + size, Len(h)}))
Extended(f, h, size) == f \o NextRows(f, h, size)

LEMMA MinOfTwo ==
  ASSUME NEW x \in Nat, NEW y \in Nat
  PROVE  Min({x, y}) \in {x, y} /\ Min({x, y}) <= x /\ Min({x, y}) <= y
<1> DEFINE z == CHOOSE v \in {x, y} : \A w \in {x, y} : v <= w
<1>1. \E v \in {x, y} : \A w \in {x, y} : v <= w
  <2>1. CASE x <= y
    BY <2>1
  <2>2. CASE y <= x
    BY <2>2
  <2> QED
    BY <2>1, <2>2
<1>2. z \in {x, y} /\ \A w \in {x, y} : z <= w
  BY <1>1
<1>3. Min({x, y}) = z
  BY DEF Min
<1> HIDE DEF z
<1> QED
  BY <1>2, <1>3

\* The next page brings what is due in order, and a row it does not reach was
\* beyond a full page.
LEMMA NextPage ==
  ASSUME NEW R, NEW c, Apart(R, c), NEW h, Listed(R, c, h),
         NEW S, Of(R) \subseteq S, NEW f \in Seq(S), NEW size \in Nat \ {0},
         NEW D \in SUBSET Of(R), Pending(R, c, D, f), Ordered(c, D, f)
  PROVE  /\ Extended(f, h, size) \in Seq(S)
         /\ \A t \in D : \/ InList(Extended(f, h, size), t)
                         \/ /\ Len(NextRows(f, h, size)) = size
                            /\ Beyond(R, c, t, Extended(f, h, size))
         /\ Ordered(c, D, Extended(f, h, size))
<1> DEFINE n == Cardinality(R)
           o == Len(f)
           m == Min({o + size, Len(h)})
           page == SubSeq(h, o + 1, m)
           g == f \o page
           rank(t) == Cardinality(Above(R, c, t))
<1>1. /\ n \in Nat /\ h \in [1..n -> Of(R)]
      /\ \A i \in 1..n, t \in Of(R) : c[t] > c[h[i]] => rank(t) < i
  BY Places DEF Listed
<1>2. Len(h) = n
  BY <1>1
<1>3. o \in Nat /\ DOMAIN f = 1..o
  BY LenProperties
<1>4. m \in Nat /\ m <= o + size /\ m <= n /\ (m = n \/ m = o + size)
  <2>1. o + size \in Nat
    BY <1>3
  <2> QED
    BY <1>1, <1>2, <2>1, MinOfTwo
<1> HIDE DEF m
<1>5. /\ page \in Seq(S)
      /\ Len(page) = IF o + 1 <= m THEN m - o ELSE 0
      /\ \A i \in 1..(m - o) : page[i] = h[o + i]
  <2>1. \A i \in (o + 1)..m : h[i] \in S
    BY <1>1, <1>3, <1>4
  <2>2. o + 1 \in Int /\ m \in Int
    BY <1>3, <1>4
  <2>3. /\ SubSeq(h, o + 1, m) \in Seq(S)
        /\ Len(SubSeq(h, o + 1, m)) = IF o + 1 <= m THEN m - (o + 1) + 1 ELSE 0
        /\ \A i \in 1..(m - (o + 1) + 1) : SubSeq(h, o + 1, m)[i] = h[o + 1 + i - 1]
    BY <2>1, <2>2, SubSeqProperties
  <2> QED
    BY <1>3, <1>4, <2>3
<1> HIDE DEF page
<1>6. /\ g \in Seq(S) /\ DOMAIN g = 1..Len(g) /\ Len(g) = o + Len(page)
      /\ \A i \in 1..Len(g) : g[i] = IF i <= o THEN f[i] ELSE page[i - o]
  <2>1. g \in Seq(S) /\ Len(g) = o + Len(page)
    BY <1>5, ConcatProperties
  <2> QED
    BY <1>5, <2>1, ConcatProperties, LenProperties
<1> HIDE DEF g
<1>7. \A i \in 1..o : i \in DOMAIN g /\ g[i] = f[i]
  BY <1>3, <1>4, <1>5, <1>6
<1>8. \A i \in DOMAIN g : i > o => i \in 1..n /\ i <= m /\ g[i] = h[i]
  BY <1>1, <1>3, <1>4, <1>5, <1>6
<1>9. ASSUME NEW k \in Nat, o < k, k <= m PROVE k \in DOMAIN g /\ g[k] = h[k]
  <2>1. k - o \in 1..(m - o) /\ k \in 1..Len(g) /\ ~(k <= o)
    BY <1>3, <1>4, <1>5, <1>6, <1>9
  <2>2. g[k] = page[k - o] /\ page[k - o] = h[o + (k - o)]
    BY <1>5, <1>6, <2>1
  <2>3. o + (k - o) = k
    BY <1>3
  <2> QED
    BY <1>6, <2>1, <2>2, <2>3
<1>10. \A t \in Of(R) : rank(t) \in 1..n /\ h[rank(t)] = t
  BY Places
<1> HIDE DEF rank
<1>11. ASSUME NEW t \in D PROVE InList(g, t) \/ (Len(page) = size /\ rank(t) > Len(g))
  <2>1. CASE InList(f, t)
    BY <1>3, <1>7, <2>1 DEF InList
  <2>2. CASE rank(t) > o
    <3>1. rank(t) \in Nat /\ rank(t) <= n /\ h[rank(t)] = t
      BY <1>1, <1>10
    <3>2. CASE rank(t) <= m
      BY <1>9, <2>2, <3>1, <3>2 DEF InList
    <3>3. CASE rank(t) > m
      BY <1>1, <1>3, <1>4, <1>5, <1>6, <3>1, <3>3
    <3> QED
      BY <1>4, <3>1, <3>2, <3>3
  <2> QED
    BY <2>1, <2>2 DEF Pending, Beyond, rank
<1>12. ASSUME NEW t \in D, NEW i \in DOMAIN g, g[i] = t, NEW s \in D, c[s] > c[t]
       PROVE  \E j \in 1..(i - 1) : g[j] = s
  <2>1. i \in Nat
    BY <1>3, <1>5, <1>6, LenProperties
  <2>2. CASE i <= o
    <3>1. i \in DOMAIN f /\ f[i] = t
      BY <1>3, <1>5, <1>6, <1>7, <1>12, <2>2, LenProperties
    <3>2. PICK j \in 1..(i - 1) : f[j] = s
      BY <1>12, <3>1 DEF Ordered
    <3> QED
      BY <1>3, <1>7, <2>1, <2>2, <3>2
  <2>3. CASE i > o
    <3>1. i \in 1..n /\ i <= m /\ h[i] = t
      BY <1>8, <1>12, <2>3
    <3>2. CASE InList(f, s)
      <4>1. PICK j \in 1..o : f[j] = s
        BY <1>3, <3>2 DEF InList
      <4> QED
        BY <1>3, <1>7, <2>1, <2>3, <4>1
    <3>3. CASE rank(s) > o
      <4>1. rank(s) \in 1..n /\ h[rank(s)] = s
        BY <1>10
      <4>2. rank(s) < i
        BY <1>1, <1>12, <3>1
      <4>3. rank(s) \in Nat /\ rank(s) <= m
        BY <1>1, <1>4, <2>1, <3>1, <4>1, <4>2
      <4>4. g[rank(s)] = s
        BY <1>9, <3>3, <4>1, <4>3
      <4> QED
        BY <2>1, <4>1, <4>2, <4>3, <4>4
    <3> QED
      BY <3>2, <3>3 DEF Pending, Beyond, rank
  <2> QED
    BY <1>3, <2>1, <2>2, <2>3
<1>13. Extended(f, h, size) = g /\ NextRows(f, h, size) = page
  BY DEF Extended, NextRows, m, page, g
<1>14. Ordered(c, D, g)
  BY <1>12 DEF Ordered
<1>15. \A t \in D : InList(g, t) \/ (Len(page) = size /\ Beyond(R, c, t, g))
  BY <1>11 DEF Beyond, rank
<1> QED
  BY <1>6, <1>13, <1>14, <1>15

-----------------------------------------------------------------------------
(* Paging while requests commit *)

Stamped(r) == pc[r] \in {"insert", "entry1", "entry2", "commit"} \/ r \in committed

\* No two transactions have one created_at, and the accounts of a posted one
\* exist.
RowsInv ==
  /\ \A r, s \in Req : Stamped(r) /\ Stamped(s) /\ created[r] = created[s] => r = s
  /\ \A r \in committed : Present(From(r)) /\ Present(To(r))

Underlying == Consistent /\ AtomicInv /\ RowsInv

\* A step adds rows under the stamps their requests were given before, and
\* changes none.
LEMMA RowsStay ==
  ASSUME Consistent, [Next]_vars
  PROVE  /\ req' = req /\ committed \subseteq committed'
         /\ \A s \in committed : created'[s] = created[s]
<1> USE DEF Consistent
<1>1. ASSUME NEW r \in Req, Advance(r) \/ Die(r)
      PROVE  /\ req' = req /\ committed \subseteq committed'
             /\ \A s \in committed : created'[s] = created[s]
  <2>1. OnlyMoves(r) /\ OwnStep(r)
    BY <1>1, Frame, Own DEF OverdraftInv
  <2>2. Stamp(r) => r \notin committed
    BY Unfinished DEF Stamp
  <2>3. committed \subseteq Req
    BY DEF TypeOK
  <2> QED
    BY <2>1, <2>2, <2>3
    DEF OnlyMoves, OwnStep, Leaves, TakesLock, Decides, Stamp, Writes, Commit, tables, stamps
<1> QED
  BY <1>1 DEF Next, CreateAccount, AllDone, vars, tables, stamps

LEMMA StampsApart ==
  ASSUME Consistent, RowsInv, NEW r \in Req, OnlyMoves(r), OwnStep(r),
         NEW s \in Req, Stamped(s)'
  PROVE  \/ Stamped(s) /\ created'[s] = created[s]
         \/ s = r /\ created'[s] = now + 1
<1> USE DEF Consistent
<1>1. CASE s # r
  BY <1>1 DEF OnlyMoves, OwnStep, Leaves, TakesLock, Decides, Stamp, Writes, Commit, Stamped, tables
<1>2. CASE s = r
  BY <1>2 DEF OwnStep, Leaves, TakesLock, Decides, Stamp, Writes, Commit, Stamped, TypeOK, Goto,
    tables, stamps
<1> QED
  BY <1>1, <1>2

LEMMA RowsInvStep == Underlying /\ [Next]_vars => RowsInv'
<1> SUFFICES ASSUME Underlying, [Next]_vars PROVE RowsInv'
  OBVIOUS
<1> USE DEF Underlying, Consistent
<1>1. ASSUME NEW r \in Req, NEW s \in Req, Stamped(r)', Stamped(s)', created'[r] = created'[s]
      PROVE  r = s
  <2>1. CASE UNCHANGED <<pc, tables, stamps>>
    BY <1>1, <2>1 DEF Stamped, RowsInv, tables, stamps
  <2>2. ASSUME NEW u \in Req, Advance(u) \/ Die(u) PROVE r = s
    <3>1. OnlyMoves(u) /\ OwnStep(u)
      BY <2>2, Frame, Own DEF OverdraftInv
    <3>2. \A v \in Req : created[v] \in Nat /\ created[v] <= now
      BY RequestType, TimeType DEF OverdraftInv, StampsPast
    <3>3. now \in Nat
      BY TimeType DEF TypeOK
    <3>4. \A v \in Req : Stamped(v)' =>
            \/ Stamped(v) /\ created'[v] = created[v]
            \/ v = u /\ created'[v] = now + 1
      BY <3>1, StampsApart
    <3>5. CASE created'[r] = now + 1
      <4>1. ASSUME NEW v \in Req, Stamped(v)', created'[v] = now + 1 PROVE v = u
        <5>1. created[v] # now + 1
          BY <3>2, <3>3
        <5> QED
          BY <3>4, <4>1, <5>1
      <4> QED
        BY <1>1, <3>5, <4>1
    <3>6. CASE created'[r] # now + 1
      BY <1>1, <3>4, <3>6 DEF RowsInv
    <3> QED
      BY <3>5, <3>6
  <2> QED
    BY <2>1, <2>2 DEF Next, CreateAccount, AllDone, vars
<1>2. ASSUME NEW r \in committed' PROVE Present(From(r))' /\ Present(To(r))'
  <2>1. req' = req
    BY RowsStay
  <2>2. r \in Req /\ From(r) \in Account /\ To(r) \in Account
    <3>1. r \in Req
      BY <1>2, TypeStep DEF TypeOK
    <3> QED
      BY <3>1, RequestType
  <2>3. Present(From(r)) /\ Present(To(r))
    <3>1. CASE r \in committed
      BY <3>1 DEF RowsInv
    <3>2. CASE r \notin committed
      <4>1. Commit(r)
        BY <1>2, <3>2, LedgerMoves DEF tables, Commit
      <4>2. /\ Posts(r) /\ pc[r] \in Posting
            /\ Op(r) = "deposit" => From(r) = SystemCash
            /\ Op(r) = "withdraw" => To(r) = SystemCash
        BY <2>2, <4>1, RequestType
        DEF Commit, OverdraftInv, StepsMatch, Posting, WellFormed, Op, From, To
      <4> QED
        BY <2>2, <4>2 DEF AtomicInv, Accepted, Posts, Active, Present
    <3> QED
      BY <3>1, <3>2
  <2>4. \A a \in Account : Present(a) => Present(a)'
    <3>1. CASE accounts' = accounts
      BY <3>1 DEF Present
    <3>2. CASE CreateAccount
      BY <3>2, CreateKeepsAccounts DEF Present
    <3>3. ASSUME NEW u \in Req, Advance(u) \/ Die(u) PROVE accounts' = accounts
      BY <3>3, Frame DEF OnlyMoves
    <3> QED
      BY <3>1, <3>2, <3>3 DEF Next, AllDone, vars
  <2> QED
    BY <2>1, <2>2, <2>3, <2>4 DEF From, To
<1> QED
  BY <1>1, <1>2 DEF RowsInv

LEMMA UnderlyingKept == Spec => []Underlying
<1>1. Init => RowsInv
  BY DEF Init, RowsInv, Stamped
<1>2. Underlying /\ [Next]_vars => RowsInv'
  BY RowsInvStep
<1> QED
  BY <1>1, <1>2, ConsistentKept, PostsAsChecked, PTL DEF Underlying, Spec

\* Between two pages: a transaction that is due has been shown, in order, or lies
\* below the offset, however many rows have come to lie above it.
PagingInv ==
  /\ paged \in Account /\ shown \in Seq(Req)
  /\ due \subseteq Of(Rows(paged))
  /\ paging = "first" => due = {} /\ shown = <<>>
  /\ \A t \in due : InList(shown, t) \/ (paging # "end" /\ Beyond(Rows(paged), created, t, shown))
  /\ Ordered(created, due, shown)

LEMMA RowsFinite ==
  ASSUME NEW C, IsFiniteSet(C), NEW R \in SUBSET (C \X Legs)
  PROVE  IsFiniteSet(R)
<1>1. Legs = {"debit"} \cup {"credit"}
  BY DEF Legs
<1>2. IsFiniteSet(Legs)
  BY <1>1, FS_Singleton, FS_Union
<1>3. IsFiniteSet(C \X Legs)
  BY <1>2, FS_Product
<1> QED
  BY <1>3, FS_Subset

LEMMA RowsApart ==
  ASSUME Underlying, NEW a
  PROVE  Apart(Rows(a), created) /\ Of(Rows(a)) \subseteq committed /\ committed \subseteq Req
<1>1. Of(Rows(a)) \subseteq committed /\ committed \subseteq Req
  BY DEF Of, Rows, Underlying, Consistent, TypeOK
<1>2. IsFiniteSet(Rows(a))
  BY RowsFinite DEF Rows, Underlying, AtomicInv, LedgerIsSum
<1>3. \A s \in Req : created[s] \in Nat
  BY RequestType, TimeType DEF Underlying, Consistent
<1> QED
  BY <1>1, <1>2, <1>3 DEF Apart, Underlying, RowsInv, Stamped

LEMMA HistoryListed ==
  ASSUME NEW a, NEW h \in Histories(a)
  PROVE  Listed(Rows(a), created, h)
  BY DEF Histories, Listed, Of, Newer, Above

\* Commits may push what is due further down, never up.
LEMMA CommitsKeepPaging ==
  ASSUME Underlying, Underlying', PagingInv, [Next]_vars, UNCHANGED client
  PROVE  PagingInv'
<1> DEFINE R == Rows(paged)
           S == Rows(paged)'
<1>1. /\ req' = req /\ committed \subseteq committed'
      /\ \A s \in committed : created'[s] = created[s]
  BY RowsStay DEF Underlying
<1>2. paged' = paged /\ paging' = paging /\ due' = due /\ shown' = shown
  BY DEF client
<1>3. R \subseteq S
  BY <1>1, <1>2 DEF Rows, From, To
<1>4. IsFiniteSet(S)
  <2>1. IsFiniteSet(committed') /\ S \subseteq committed' \X Legs
    BY DEF Rows, Legs, Underlying, AtomicInv, LedgerIsSum
  <2> QED
    BY <2>1, RowsFinite
<1>5. \A t \in due : t \in Of(R) /\ t \in committed /\ created'[t] = created[t]
  BY <1>1, RowsApart DEF PagingInv
<1>6. ASSUME NEW t \in due, Beyond(R, created, t, shown) PROVE Beyond(S, created', t, shown)
  <2> DEFINE A == Above(R, created, t)
             B == Above(S, created', t)
  <2>1. B \subseteq S
    BY DEF Above
  <2>2. A \subseteq B
    <3> SUFFICES ASSUME NEW w \in A PROVE w \in B
      OBVIOUS
    <3>1. w \in R /\ created[w[1]] >= created[t]
      BY DEF Above
    <3>2. w[1] \in committed
      BY <3>1, RowsApart DEF Of
    <3>3. created'[w[1]] >= created'[t]
      BY <1>1, <1>5, <3>1, <3>2
    <3> QED
      BY <1>3, <3>1, <3>3 DEF Above
  <2>3. IsFiniteSet(B)
    BY <1>4, <2>1, FS_Subset
  <2> HIDE DEF A, B
  <2>4. /\ Cardinality(A) <= Cardinality(B)
        /\ Cardinality(A) \in Nat /\ Cardinality(B) \in Nat
    BY <2>2, <2>3, FS_Subset, FS_CardinalityType
  <2>5. Cardinality(A) > Len(shown) /\ Len(shown) \in Nat
    BY <1>6, LenProperties DEF Beyond, PagingInv, A
  <2>6. Cardinality(B) > Len(shown)
    BY <2>4, <2>5
  <2> QED
    BY <2>6 DEF Beyond, B
<1>7. ASSUME NEW t \in due
      PROVE  InList(shown, t) \/ (paging # "end" /\ Beyond(S, created', t, shown))
  BY <1>6 DEF PagingInv
<1>8. Ordered(created', due, shown)
  BY <1>5 DEF PagingInv, Ordered
<1>9. due \subseteq Of(S)
  BY <1>3 DEF PagingInv, Of
<1> QED
  BY <1>2, <1>7, <1>8, <1>9 DEF PagingInv, Rows, From, To, Beyond, Above, InList, Ordered, Of

LEMMA PagesKeepPaging ==
  ASSUME Underlying, PagingInv, NEW a \in Account, ReadPage(a)
  PROVE  PagingInv'
<1> DEFINE R == Rows(a)
           D == due'
           page(h) == NextRows(shown, h, PageSize)
           next(h) == Extended(shown, h, PageSize)
<1>1. Apart(R, created) /\ Of(R) \subseteq Req
  BY RowsApart
<1>2. Rows(a)' = R /\ created' = created /\ paged' = a
  BY DEF ReadPage, Asks, Rows, From, To, vars, tables, stamps
<1>3. shown \in Seq(Req) /\ PageSize \in Nat \ {0}
  BY PagingAssumption DEF PagingInv
<1>4. D \in SUBSET Of(R) /\ Pending(R, created, D, shown) /\ Ordered(created, D, shown)
  <2>1. CASE paging = "first"
    <3>1. D = Of(R) /\ shown = <<>>
      BY <2>1 DEF ReadPage, Asks, PagingInv, Of
    <3>2. Len(shown) = 0 /\ DOMAIN shown = {}
      BY <3>1
    <3>3. ASSUME NEW t \in Of(R) PROVE Cardinality(Above(R, created, t)) > 0
      <4>1. Cardinality(Above(R, created, t)) \in 1..Cardinality(R)
        BY <1>1, Counts
      <4>2. Cardinality(R) \in Nat
        BY <1>1, FS_CardinalityType DEF Apart
      <4> QED
        BY <4>1, <4>2
    <3> QED
      BY <3>1, <3>2, <3>3 DEF Pending, Beyond, Ordered
  <2>2. CASE paging # "first"
    BY <2>2 DEF ReadPage, Asks, PagingInv, Pending
  <2> QED
    BY <2>1, <2>2
<1>5. paging' # "first"
  BY DEF ReadPage
<1> HIDE DEF R, D
<1>6. ASSUME NEW h \in Histories(a), shown' = next(h), Len(page(h)) = PageSize => paging' # "end"
      PROVE  PagingInv'
  <2>1. Listed(R, created, h)
    BY HistoryListed DEF R
  <2>2. /\ next(h) \in Seq(Req)
        /\ \A t \in D : \/ InList(next(h), t)
                        \/ Len(page(h)) = PageSize /\ Beyond(R, created, t, next(h))
        /\ Ordered(created, D, next(h))
    BY <1>1, <1>3, <1>4, <2>1, NextPage
  <2>3. /\ shown' \in Seq(Req)
        /\ \A t \in D : InList(shown', t) \/ (paging' # "end" /\ Beyond(R, created, t, shown'))
        /\ Ordered(created, D, shown')
    BY <1>6, <2>2
  <2> QED
    BY <1>2, <1>4, <1>5, <2>3 DEF PagingInv, D
<1>7. CASE Present(a)
  <2>1. PICK h \in Histories(a) :
          shown' = next(h) /\ (Len(page(h)) = PageSize => paging' # "end")
    BY <1>7 DEF ReadPage, Pages, Extended, NextRows
  <2> QED
    BY <1>6, <2>1
<1>8. CASE ~Present(a)
  <2>1. shown' = shown
    BY <1>8 DEF ReadPage
  <2>2. Of(R) = {}
    BY <1>8 DEF R, Of, Rows, Underlying, RowsInv
  <2>3. D = {}
    BY <1>4, <2>2
  <2> QED
    BY <1>2, <1>3, <1>4, <1>5, <2>1, <2>3 DEF PagingInv, D
<1> QED
  BY <1>7, <1>8

\* Paging through a history by offset skips no transaction that was posted when
\* the client began, and shows them newest first, for any page size and however
\* many commits come between the pages, also under an earlier created_at.
THEOREM PagingComplete == PagingSpec => []NothingSkipped
<1>1. PagingSpec => Spec
  <2>1. PagingInit => Init
    BY DEF PagingInit
  <2>2. [PagingNext]_pagingVars => [Next]_vars
    BY DEF PagingNext, ReadPage, pagingVars
  <2> QED
    BY <2>1, <2>2, PTL DEF PagingSpec, Spec
<1>2. PagingInit => PagingInv
  <2> SUFFICES ASSUME PagingInit PROVE PagingInv
    OBVIOUS
  <2>1. paged \in Account /\ due = {} /\ shown = <<>> /\ shown \in Seq(Req)
    BY EmptySeq, LedgerAssumption DEF PagingInit
  <2> QED
    BY <2>1 DEF PagingInv, Ordered
<1>3. Underlying /\ Underlying' /\ PagingInv /\ [PagingNext]_pagingVars => PagingInv'
  BY CommitsKeepPaging, PagesKeepPaging DEF PagingNext, pagingVars
<1>4. PagingInv => NothingSkipped
  BY DEF PagingInv, NothingSkipped, InList, Ordered
<1> QED
  BY <1>1, <1>2, <1>3, <1>4, UnderlyingKept, PTL DEF PagingSpec

=============================================================================
