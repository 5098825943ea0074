---------------------------- MODULE VestingProofs ---------------------------
(***************************************************************************)
(* Proofs about what is paid out little by little: withdrawal permissions  *)
(* and vesting balances, for every set of accounts, all amounts and all    *)
(* times.                                                                  *)
(***************************************************************************)
EXTENDS WithdrawPermissions, Vesting, TLAPS

-----------------------------------------------------------------------------
(* Withdrawal permissions                                                  *)

Permit == [withdraw_from_account : Account, authorized_account : Account,
           withdrawal_limit : Nat, withdrawal_period_sec : Nat, period_start_time : Nat,
           expiration : Nat, claimed_this_period : Nat, base : Nat,
           claims : {0} \cup [0..MaxPermitTime -> Nat]]

\* period_start_time is the start of some period k, nothing was claimed in a
\* later one, and claimed_this_period is not less than what was claimed in k.
PeriodOK(p) ==
    /\ p.withdrawal_period_sec # 0 /\ p.claims \in [0..MaxPermitTime -> Nat]
    /\ \A m \in 0..MaxPermitTime : p.claims[m] <= p.withdrawal_limit
    /\ \E k \in Nat : /\ p.period_start_time = p.base + k * p.withdrawal_period_sec
                      /\ \A m \in 0..MaxPermitTime :
                            /\ m > k => p.claims[m] = 0
                            /\ m = k => p.claims[m] <= p.claimed_this_period

PermitOK(p) == p \in Permit /\ PeriodOK(p)

PermitInv ==
    /\ permit_time \in 0..MaxPermitTime
    /\ permits \in [DOMAIN permits -> Permit]
    /\ \A id \in DOMAIN permits : PeriodOK(permits[id])
    /\ PermitsInTime

\* New terms begin with their first period.
LEMMA TermsFacts ==
    ASSUME NEW p \in Permit, NEW t \in Offered
    PROVE  /\ PermitOK(WithTerms(p, t))
           /\ WithTerms(p, t).expiration = Expiration(t)
           /\ t.period_start_time \in Nat /\ Expiration(t) \in Nat /\ Expiration(t) >= t.period_start_time
<1> DEFINE q == WithTerms(p, t)
<1>1. /\ t.withdrawal_limit \in Nat /\ t.withdrawal_period_sec \in Nat /\ t.withdrawal_period_sec # 0
      /\ t.periods_until_expiration \in Nat /\ t.period_start_time \in Nat
  BY PermitAssumption DEF Terms_of_permit
<1>2. Expiration(t) \in Nat /\ Expiration(t) >= t.period_start_time
  <2> DEFINE a == t.periods_until_expiration
             b == t.withdrawal_period_sec
  <2>1. a * b \in Nat
    BY <1>1
  <2> QED BY <1>1, <2>1 DEF Expiration
<1>3. [n \in 0..MaxPermitTime |-> 0] \in [0..MaxPermitTime -> Nat]
  OBVIOUS
<1>4. q \in Permit
  BY <1>1, <1>2, <1>3, Zenon DEF WithTerms, Permit
<1>5. /\ q.withdrawal_limit = t.withdrawal_limit /\ q.withdrawal_period_sec = t.withdrawal_period_sec
      /\ q.period_start_time = t.period_start_time /\ q.base = t.period_start_time
      /\ q.claims = [n \in 0..MaxPermitTime |-> 0] /\ q.expiration = Expiration(t)
      /\ q.claimed_this_period = p.claimed_this_period /\ p.claimed_this_period \in Nat
  BY DEF WithTerms, Permit
<1> HIDE DEF q
<1>6. \A m \in 0..MaxPermitTime : q.claims[m] = 0 /\ 0 <= q.withdrawal_limit /\ 0 <= q.claimed_this_period
  BY <1>1, <1>5
<1>7. q.period_start_time = q.base + 0 * q.withdrawal_period_sec
  BY <1>1, <1>5
<1>8. PeriodOK(q)
  BY <1>1, <1>3, <1>5, <1>6, <1>7 DEF PeriodOK
<1> QED BY <1>1, <1>2, <1>4, <1>5, <1>8 DEF q, PermitOK

\* n periods of length s after e, the start of period k, is the period of t.
PeriodsAfter(t, b, k, s, e, n) ==
    /\ n \in Nat /\ (t - b) \div s = k + n /\ k + n <= t /\ n * s \in Nat
    /\ e + n * s = b + (k + n) * s
    /\ n = 0 => t < e + s
    /\ n # 0 => t >= e + s

\* The period of a time does not depend on the period that one counts from.
LEMMA PeriodsFrom ==
    ASSUME NEW t \in Nat, NEW b \in Nat, NEW k \in Nat, NEW s \in Nat \ {0}, NEW e \in Nat,
           e = b + k * s, e <= t, NEW n, n = (t - e) \div s
    PROVE  PeriodsAfter(t, b, k, s, e, n)
<1> DEFINE d == t - e
<1>1. d \in Nat
  OBVIOUS
<1>2. n \in Nat /\ n * s <= d /\ d < n * s + s
  BY <1>1
<1>3. (k + n) * s = k * s + n * s /\ k * s \in Nat /\ n * s \in Nat /\ k + n \in Nat
  BY <1>2
<1>4. t - b \in Nat /\ (k + n) * s <= t - b /\ t - b < (k + n) * s + s
  BY <1>1, <1>2, <1>3
<1>5. (t - b) \div s = k + n
  <2> DEFINE m == (t - b) \div s
             f == t - b
             g == k + n
  <2>1. m \in Nat /\ m * s <= f /\ f < m * s + s /\ f \in Nat /\ g \in Nat
    BY <1>4, <1>2
  <2>2. g * s <= f /\ f < g * s + s
    BY <1>4
  <2> HIDE DEF m, f, g
  <2>3. (m + 1) * s = m * s + s /\ (g + 1) * s = g * s + s /\ m * s \in Nat /\ g * s \in Nat
    BY <2>1
  <2>4. m * s < (g + 1) * s /\ g * s < (m + 1) * s
    BY <2>1, <2>2, <2>3
  <2>5. \A x, y \in Nat : x * s < y * s => x < y
    OBVIOUS
  <2>6. m < g + 1 /\ g < m + 1
    BY <2>1, <2>4, <2>5
  <2>7. m = g
    BY <2>1, <2>6
  <2> QED BY <2>7 DEF m, g, f
<1>6. k + n <= t
  <2>1. (k + n) * s >= k + n
    BY <1>2
  <2> QED BY <1>3, <1>4, <2>1
<1>7. (n = 0 => t < e + s) /\ (n # 0 => t >= e + s)
  <2>1. n # 0 => n * s >= s
    BY <1>2
  <2>2. n = 0 => n * s = 0
    OBVIOUS
  <2> QED BY <1>1, <1>2, <1>3, <2>1, <2>2
<1> QED BY <1>2, <1>3, <1>5, <1>6, <1>7 DEF PeriodsAfter

LEMMA AvailableFacts ==
    ASSUME NEW p \in Permit
    PROVE  /\ permit_time >= p.period_start_time + p.withdrawal_period_sec
                => available_this_period(p) = p.withdrawal_limit
           /\ ~(permit_time >= p.period_start_time + p.withdrawal_period_sec)
                => available_this_period(p) = Max({p.withdrawal_limit - p.claimed_this_period, 0})
           /\ LET m == Max({p.withdrawal_limit - p.claimed_this_period, 0})
              IN  m = 0 \/ m = p.withdrawal_limit - p.claimed_this_period
<1> DEFINE S == {p.withdrawal_limit - p.claimed_this_period, 0}
<1>1. p.withdrawal_limit - p.claimed_this_period \in Int
  BY DEF Permit
<1>2. \E x \in S : \A y \in S : x >= y
  <2>1. CASE p.withdrawal_limit - p.claimed_this_period >= 0
    BY <1>1, <2>1
  <2>2. CASE ~(p.withdrawal_limit - p.claimed_this_period >= 0)
    BY <1>1, <2>2
  <2> QED BY <2>1, <2>2
<1>3. Max(S) \in S
  BY <1>2 DEF Max
<1> QED BY <1>3 DEF available_this_period

\* A claim in a period leaves what was claimed in it below the limit: either
\* claimed_this_period still counts this period, or nothing was claimed in it.
LEMMA ClaimFacts ==
    ASSUME NEW p \in Permit, PeriodOK(p), NEW amount \in Nat \ {0}, permit_time \in 0..MaxPermitTime,
           p.period_start_time <= permit_time, amount <= available_this_period(p)
    PROVE  LET r == [Claimed(p, amount) EXCEPT
                        !.claims[(permit_time - p.base) \div p.withdrawal_period_sec] = @ + amount]
           IN  PermitOK(r) /\ r.expiration = p.expiration
<1> DEFINE s == p.withdrawal_period_sec
           e == p.period_start_time
           b == p.base
           n == (permit_time - e) \div s
           j == (permit_time - b) \div s
           c == Claimed(p, amount)
           r == [c EXCEPT !.claims[j] = @ + amount]
<1>1. /\ s \in Nat \ {0} /\ e \in Nat /\ b \in Nat /\ permit_time \in Nat /\ e <= permit_time
      /\ p.withdrawal_limit \in Nat /\ p.claimed_this_period \in Nat /\ MaxPermitTime \in Nat
      /\ p.claims \in [0..MaxPermitTime -> Nat]
      /\ \A m \in 0..MaxPermitTime : p.claims[m] <= p.withdrawal_limit
  BY PermitAssumption DEF Permit, PeriodOK
<1>2. PICK k \in Nat : /\ e = b + k * s
                       /\ \A m \in 0..MaxPermitTime : /\ m > k => p.claims[m] = 0
                                                      /\ m = k => p.claims[m] <= p.claimed_this_period
  BY DEF PeriodOK
<1>0. n = (permit_time - e) \div s /\ j = (permit_time - b) \div s
  OBVIOUS
<1> HIDE DEF n, j, s, e, b
<1>3. /\ n \in Nat /\ j = k + n /\ k + n <= permit_time /\ e + n * s = b + (k + n) * s
      /\ n * s \in Nat
      /\ n = 0 => permit_time < e + s
      /\ n # 0 => permit_time >= e + s
  <2>1. e = b + k * s
    BY <1>2
  <2>2. /\ permit_time \in Nat /\ b \in Nat /\ k \in Nat /\ s \in Nat \ {0} /\ e \in Nat
        /\ e <= permit_time /\ n = (permit_time - e) \div s
    BY <1>0, <1>1
  <2>3. PeriodsAfter(permit_time, b, k, s, e, n)
    BY <2>1, <2>2, PeriodsFrom
  <2> QED BY <1>0, <2>3 DEF PeriodsAfter
<1>4. j \in 0..MaxPermitTime
  BY <1>1, <1>3
<1> USE DEF s, e, b
<1>5. n = 0 => p.claimed_this_period + amount <= p.withdrawal_limit
  <2> DEFINE av == available_this_period(p)
  <2>0. n = 0 => ~(permit_time >= e + s)
    <3>1. s \in Nat /\ e \in Nat /\ permit_time \in Nat /\ (n = 0 => permit_time < e + s)
      BY <1>1, <1>3
    <3> HIDE DEF s, e
    <3> QED BY <3>1
  <2>1. n = 0 => av = 0 \/ av = p.withdrawal_limit - p.claimed_this_period
    BY <2>0, AvailableFacts, Zenon
  <2> HIDE DEF av
  <2>2. amount <= av
    BY DEF av
  <2> QED BY <1>1, <2>1, <2>2
<1>6. n # 0 => amount <= p.withdrawal_limit
  BY  <1>1, <1>3, AvailableFacts, Zenon
<1> DEFINE x == IF n = 0 THEN p.claimed_this_period + amount ELSE amount
<1>7. /\ c = [p EXCEPT !.period_start_time = e + n * s, !.claimed_this_period = x]
  BY <1>0 DEF Claimed
<1>8. x \in Nat /\ x <= p.withdrawal_limit
  BY <1>1, <1>5, <1>6, SMTT(40)
<1> HIDE DEF c
<1>9. /\ c \in Permit /\ c.claims = p.claims /\ c.withdrawal_limit = p.withdrawal_limit
      /\ c.withdrawal_period_sec = s /\ c.base = b /\ c.expiration = p.expiration
      /\ c.period_start_time = e + n * s /\ c.claimed_this_period = x
  <2>1. e + n * s \in Nat
    <3>1. e \in Nat /\ n * s \in Nat
      BY <1>1, <1>3
    <3> HIDE DEF e, s
    <3> QED BY <3>1
  <2> DEFINE y == e + n * s
  <2>2. y \in Nat /\ c = [p EXCEPT !.period_start_time = y, !.claimed_this_period = x]
    BY <1>7, <2>1
  <2> HIDE DEF x, y
  <2>3. /\ c \in Permit /\ c.claims = p.claims /\ c.withdrawal_limit = p.withdrawal_limit
        /\ c.withdrawal_period_sec = s /\ c.base = b /\ c.expiration = p.expiration
        /\ c.period_start_time = y /\ c.claimed_this_period = x
    BY <2>2, <1>8, Zenon DEF Permit, x
  <2> QED BY <2>3 DEF y
<1>10. /\ r.withdrawal_limit = c.withdrawal_limit /\ r.withdrawal_period_sec = c.withdrawal_period_sec
       /\ r.base = c.base /\ r.expiration = c.expiration
       /\ r.period_start_time = c.period_start_time /\ r.claimed_this_period = c.claimed_this_period
       /\ r.claims = [c.claims EXCEPT ![j] = @ + amount]
  BY <1>9 DEF Permit
<1>11. r.claims = [p.claims EXCEPT ![j] = @ + amount]
  BY <1>9, <1>10
<1>12. r.claims \in [0..MaxPermitTime -> Nat]
  <2> DEFINE old == p.claims
             new == r.claims
  <2>1. old \in [0..MaxPermitTime -> Nat] /\ new = [old EXCEPT ![j] = @ + amount] /\ MaxPermitTime \in Nat
    BY <1>1, <1>11
  <2> HIDE DEF old, new, r
  <2>2. old[j] + amount \in Nat
    BY <1>4, <2>1
  <2>3. new \in [0..MaxPermitTime -> Nat]
    BY <1>4, <2>1, <2>2
  <2> QED BY <2>3 DEF new
<1>13. /\ r.claims[j] = p.claims[j] + amount
       /\ \A m \in 0..MaxPermitTime : m # j => r.claims[m] = p.claims[m]
  BY <1>1, <1>4, <1>11, SMTT(40)
<1>14. r \in Permit
  BY <1>9, <1>12, Zenon DEF Permit
<1>15. p.claims[j] + amount <= x
  <2>1. n = 0 => p.claims[j] <= p.claimed_this_period
    BY <1>2, <1>3, <1>4
  <2>2. n # 0 => p.claims[j] = 0
    BY <1>2, <1>3, <1>4
  <2>3. p.claims[j] \in Nat
    BY <1>1, <1>4
  <2> QED BY <1>1, <2>1, <2>2, <2>3
<1>16. \A m \in 0..MaxPermitTime : r.claims[m] <= p.withdrawal_limit
  <2> TAKE m \in 0..MaxPermitTime
  <2>1. CASE m # j
    BY <1>1, <1>13, <2>1
  <2>2. CASE m = j
    <3>1. p.claims[j] \in Nat
      BY <1>1, <1>4
    <3> HIDE DEF x
    <3> QED BY <1>1, <1>8, <1>13, <1>15, <2>2, <3>1
  <2> QED BY <2>1, <2>2
<1> HIDE DEF x
<1>17. \A m \in 0..MaxPermitTime : /\ m > k + n => r.claims[m] = 0
                                   /\ m = k + n => r.claims[m] <= x
  BY <1>2, <1>3, <1>13, <1>15
<1> HIDE DEF r
<1>18. PeriodOK(r)
  <2>1. r.withdrawal_period_sec # 0 /\ r.withdrawal_limit = p.withdrawal_limit
        /\ r.claimed_this_period = x
    BY <1>1, <1>9, <1>10
  <2>2. r.period_start_time = r.base + (k + n) * r.withdrawal_period_sec /\ k + n \in Nat
    BY <1>3, <1>9, <1>10
  <2> QED BY <1>12, <1>16, <1>17, <2>1, <2>2 DEF PeriodOK
<1>19. r.expiration = p.expiration
  BY <1>9, <1>10
<1> QED BY <1>14, <1>18, <1>19 DEF PermitOK, r, j, c

LEMMA PermitInvHolds == PermitSpec => []PermitInv
<1>1. PermitInit => PermitInv
  BY PermitAssumption DEF PermitInit, PermitInv, PermitsInTime
<1>2. PermitInv /\ [PermitNext]_permit_vars => PermitInv'
  <2> SUFFICES ASSUME PermitInv, [PermitNext]_permit_vars
               PROVE  PermitInv'
    OBVIOUS
  <2> USE DEF PermitInv
  <2>0. /\ \A id \in DOMAIN permits : permits[id] \in Permit /\ PeriodOK(permits[id])
                                      /\ permits[id].expiration > permit_time
        /\ permit_time \in Nat /\ MaxPermitTime \in Nat
    BY PermitAssumption DEF PermitsInTime
  <2>1. ASSUME NEW from \in Account, NEW to \in Account, NEW t \in Offered,
               withdraw_permission_create(from, to, t)
        PROVE  PermitInv'
    <3> DEFINE blank == [withdraw_from_account |-> from, authorized_account |-> to,
                         withdrawal_limit |-> 0, withdrawal_period_sec |-> 0,
                         period_start_time |-> 0, expiration |-> 0, claimed_this_period |-> 0,
                         base |-> 0, claims |-> 0]
               q == WithTerms(blank, t)
    <3>1. blank \in Permit
      BY DEF Permit
    <3>2. PermitOK(q) /\ q.expiration = Expiration(t)
          /\ t.period_start_time \in Nat /\ Expiration(t) \in Nat /\ Expiration(t) >= t.period_start_time
      BY <3>1, TermsFacts
    <3>3. /\ permits' = [id \in DOMAIN permits \cup {next_permit} |->
                            IF id = next_permit THEN q ELSE permits[id]]
          /\ permit_time' = permit_time /\ t.period_start_time > permit_time
      BY <2>1 DEF withdraw_permission_create
    <3> HIDE DEF q
    <3>4. q.expiration > permit_time
      BY <2>0, <3>2, <3>3
    <3>5. \A id \in DOMAIN permits' : permits'[id] \in Permit /\ PeriodOK(permits'[id])
                                      /\ permits'[id].expiration > permit_time
      BY <2>0, <3>2, <3>3, <3>4 DEF PermitOK
    <3> QED BY <3>3, <3>5, Zenon DEF PermitsInTime
  <2>2. ASSUME NEW id \in PermitId, NEW amount \in PermitAmounts, withdraw_permission_claim(id, amount)
        PROVE  PermitInv'
    <3> DEFINE p == permits[id]
               r == [Claimed(p, amount) EXCEPT
                        !.claims[(permit_time - p.base) \div p.withdrawal_period_sec] = @ + amount]
    <3>1. /\ id \in DOMAIN permits /\ p.period_start_time <= permit_time
          /\ amount <= available_this_period(p) /\ permit_time' = permit_time
          /\ permits' = [permits EXCEPT ![id] = r]
      BY <2>2 DEF withdraw_permission_claim
    <3>2. amount \in Nat \ {0}
      BY PermitAssumption
    <3>3. PermitOK(r) /\ r.expiration = p.expiration
      BY <2>0, <3>1, <3>2, ClaimFacts, Zenon
    <3> HIDE DEF r
    <3>4. \A i \in DOMAIN permits' : permits'[i] \in Permit /\ PeriodOK(permits'[i])
                                      /\ permits'[i].expiration > permit_time
      BY <2>0, <3>1, <3>3 DEF PermitOK
    <3> QED BY <3>1, <3>4 DEF PermitsInTime
  <2>3. ASSUME NEW id \in PermitId, NEW t \in Offered, withdraw_permission_update(id, t)
        PROVE  PermitInv'
    <3> DEFINE q == WithTerms(permits[id], t)
    <3>1. /\ id \in DOMAIN permits /\ permits' = [permits EXCEPT ![id] = q]
          /\ permit_time' = permit_time /\ Expiration(t) > permit_time
      BY <2>3 DEF withdraw_permission_update
    <3>2. PermitOK(q) /\ q.expiration = Expiration(t)
      BY <2>0, <3>1, TermsFacts
    <3> HIDE DEF q
    <3>3. \A i \in DOMAIN permits' : permits'[i] \in Permit /\ PeriodOK(permits'[i])
                                      /\ permits'[i].expiration > permit_time
      BY <2>0, <3>1, <3>2 DEF PermitOK
    <3> QED BY <3>1, <3>3 DEF PermitsInTime
  <2>4. ASSUME NEW id \in PermitId, withdraw_permission_delete(id)
        PROVE  PermitInv'
    BY <2>0, <2>4 DEF withdraw_permission_delete, PermitsInTime
  <2>5. ASSUME NEW time \in 1..MaxPermitTime, update_withdraw_permissions(time)
        PROVE  PermitInv'
    BY <2>0, <2>5 DEF update_withdraw_permissions, PermitsInTime
  <2>6. CASE UNCHANGED permit_vars
    BY <2>6 DEF permit_vars, PermitsInTime
  <2> QED BY <2>1, <2>2, <2>3, <2>4, <2>5, <2>6 DEF PermitNext
<1> QED BY <1>1, <1>2, PTL DEF PermitSpec

(* However long the caches period_start_time and claimed_this_period were  *)
(* left alone, and whatever the updates did to the terms, the claims on a  *)
(* permission within one of its periods never add up to more than          *)
(* withdrawal_limit (withdraw_permission_claim_evaluator).                 *)
THEOREM LimitsKeptAlways == PermitSpec => []LimitsKept
<1>1. PermitInv => LimitsKept
  BY DEF PermitInv, PeriodOK, LimitsKept
<1> QED BY <1>1, PermitInvHolds, PTL

(* A permission never outlives its expiration: update_withdraw_permissions *)
(* has removed it by the end of the first block at or after that time, and *)
(* no create or update gives one that is expired already.                  *)
THEOREM PermitsInTimeAlways == PermitSpec => []PermitsInTime
<1>1. PermitInv => PermitsInTime
  BY DEF PermitInv
<1> QED BY <1>1, PermitInvHolds, PTL

-----------------------------------------------------------------------------
(* Vesting balances                                                        *)

\* Division rounded down and rounded up
LEMMA FloorFacts ==
    ASSUME NEW n \in Nat, NEW d \in Nat \ {0}
    PROVE  n \div d \in Nat /\ (n \div d) * d <= n
<1> DEFINE q == n \div d
           r == n % d
<1>1. q \in Int /\ r \in 0..d - 1 /\ n = d * q + r
  OBVIOUS
<1>2. q >= 0
  BY <1>1
<1> HIDE DEF q, r
<1>3. d * q <= n /\ d * q = q * d
  BY <1>1
<1> QED BY <1>1, <1>2, <1>3 DEF q

\* The quotient is below any number that is enough.
LEMMA FloorBound ==
    ASSUME NEW n \in Nat, NEW d \in Nat \ {0}, NEW m \in Nat, n <= m * d
    PROVE  n \div d <= m
<1> DEFINE q == n \div d
<1>1. q \in Nat /\ q * d <= n
  BY FloorFacts
<1> HIDE DEF q
<1>2. q * d <= m * d
  BY <1>1
<1>3. q <= m
  <2> SUFFICES ASSUME q >= m + 1 PROVE FALSE
    BY <1>1
  <2>1. q * d >= (m + 1) * d
    BY <1>1
  <2>2. (m + 1) * d = m * d + d
    OBVIOUS
  <2> QED BY <1>1, <1>2, <2>1, <2>2
<1> QED BY <1>3 DEF q

LEMMA AtLeast1Facts ==
    ASSUME NEW n \in Nat
    PROVE  AtLeast1(n) \in Nat \ {0} /\ AtLeast1(n) >= n
<1>1. \E x \in {n, 1} : \A y \in {n, 1} : x >= y
  <2>1. CASE n >= 1
    BY <2>1
  <2>2. CASE ~(n >= 1)
    BY <2>2
  <2> QED BY <2>1, <2>2
<1>2. Max({n, 1}) \in {n, 1} /\ \A y \in {n, 1} : Max({n, 1}) >= y
  BY <1>1 DEF Max
<1> QED BY <1>2 DEF AtLeast1

LEMMA LesserOfTwo ==
    ASSUME NEW x \in Nat, NEW y \in Nat
    PROVE  Min({x, y}) \in Nat /\ Min({x, y}) <= x /\ Min({x, y}) <= y
<1>1. \E z \in {x, y} : \A w \in {x, y} : z <= w
  <2>1. CASE x <= y
    BY <2>1
  <2>2. CASE ~(x <= y)
    BY <2>2
  <2> QED BY <2>1, <2>2
<1>2. Min({x, y}) \in {x, y} /\ \A w \in {x, y} : Min({x, y}) <= w
  BY <1>1 DEF Min
<1> QED BY <1>2

\* A balance b with e coin seconds earned at time u, of which k was taken and
\* which has stood for a coin seconds by time t: s coin seconds free a coin.
Earned(b, e, u, k, a, s, t) ==
    /\ u <= t /\ e <= b * s /\ k * s + e + b * (t - u) <= a

LEMMA EarnedUpdate ==
    ASSUME NEW b \in Nat, NEW e \in Nat, NEW u \in Nat, NEW k \in Nat, NEW a \in Nat,
           NEW s \in Nat \ {0}, NEW t \in Nat, Earned(b, e, u, k, a, s, t)
    PROVE  LET c == Min({e + b * (t - u), b * s})
           IN  c \in Nat /\ c <= b * s /\ Earned(b, c, t, k, a, s, t)
<1> DEFINE x == e + b * (t - u)
           y == b * s
           c == Min({x, y})
<1>1. u <= t /\ e <= y /\ k * s + e + b * (t - u) <= a
  BY DEF Earned
<1>2. t - u \in Nat /\ b * (t - u) \in Nat /\ y \in Nat /\ x \in Nat /\ k * s \in Nat
  BY <1>1
<1>3. c \in Nat /\ c <= x /\ c <= y
  BY <1>2, LesserOfTwo
<1>4. b * (t - t) = 0
  OBVIOUS
<1>5. k * s + c <= a
  BY <1>1, <1>2, <1>3
<1> HIDE DEF c
<1>6. Earned(b, c, t, k, a, s, t)
  BY <1>2, <1>3, <1>4, <1>5 DEF Earned
<1> QED BY <1>3, <1>6 DEF c

LEMMA EarnedWithdraw ==
    ASSUME NEW b \in Nat, NEW e \in Nat, NEW k \in Nat, NEW a \in Nat, NEW s \in Nat \ {0},
           NEW t \in Nat, Earned(b, e, t, k, a, s, t), NEW n \in Nat, n * s <= e
    PROVE  /\ b - n \in Nat /\ e - n * s \in Nat
           /\ Earned(b - n, e - n * s, t, k + n, a, s, t)
<1>1. e <= b * s /\ k * s + e + b * (t - t) <= a /\ b * (t - t) = 0
  BY DEF Earned
<1>2. n * s \in Nat /\ b * s \in Nat /\ k * s \in Nat
  OBVIOUS
<1>3. n * s <= b * s
  BY <1>1, <1>2
<1>4. n <= b
  <2> SUFFICES ASSUME n >= b + 1 PROVE FALSE
    OBVIOUS
  <2>1. n * s >= (b + 1) * s /\ (b + 1) * s = b * s + s
    OBVIOUS
  <2> QED BY <1>2, <1>3, <2>1
<1>5. (b - n) * s = b * s - n * s /\ (k + n) * s = k * s + n * s /\ (b - n) * (t - t) = 0
  BY <1>4
<1> QED BY <1>1, <1>2, <1>4, <1>5 DEF Earned

LEMMA EarnedDeposit ==
    ASSUME NEW b \in Nat, NEW e \in Nat, NEW k \in Nat, NEW a \in Nat, NEW s \in Nat \ {0},
           NEW t \in Nat, Earned(b, e, t, k, a, s, t), NEW n \in Nat
    PROVE  /\ Earned(b + n, e, t, k, a, s, t)
           /\ Earned(b + n, e + n * s, t, k, a + n * s, s, t)
<1>1. e <= b * s /\ k * s + e + b * (t - t) <= a /\ b * (t - t) = 0
  BY DEF Earned
<1>2. n * s \in Nat /\ b * s \in Nat /\ k * s \in Nat
  OBVIOUS
<1>3. (b + n) * s = b * s + n * s /\ (b + n) * (t - t) = 0
  OBVIOUS
<1> QED BY <1>1, <1>2, <1>3 DEF Earned

LEMMA EarnedTick ==
    ASSUME NEW b \in Nat, NEW e \in Nat, NEW u \in Nat, NEW k \in Nat, NEW a \in Nat,
           NEW s \in Nat \ {0}, NEW t \in Nat, Earned(b, e, u, k, a, s, t)
    PROVE  Earned(b, e, u, k, a + b, s, t + 1)
<1>1. u <= t /\ e <= b * s /\ k * s + e + b * (t - u) <= a
  BY DEF Earned
<1>2. t - u \in Nat /\ b * (t - u) \in Nat /\ b * s \in Nat /\ k * s \in Nat
  BY <1>1
<1>3. b * ((t + 1) - u) = b * (t - u) + b
  BY <1>1
<1> QED BY <1>1, <1>2, <1>3 DEF Earned

\* The part of n that is due after the part x, then y, of d.
LEMMA PartGrows ==
    ASSUME NEW n \in Nat, NEW x \in Nat, NEW y \in Nat, x <= y, NEW d \in Nat \ {0}
    PROVE  (n * x) \div d <= (n * y) \div d
<1> DEFINE p == n * x
           r == n * y
           q == r \div d
<1>1. p \in Nat /\ r \in Nat /\ p <= r
  OBVIOUS
<1>2. q \in Nat /\ r < q * d + d /\ q * d \in Nat
  BY <1>1
<1> HIDE DEF p, r
<1>3. p < (q + 1) * d
  <2>1. (q + 1) * d = q * d + d
    BY <1>2
  <2> QED BY <1>1, <1>2, <2>1
<1> DEFINE m == p \div d
<1>4. m \in Nat /\ m * d <= p /\ m * d \in Nat
  BY <1>1, FloorFacts
<1> HIDE DEF m, q
<1>5. m <= q
  <2> SUFFICES ASSUME m >= q + 1 PROVE FALSE
    BY <1>2, <1>4
  <2>1. m * d >= (q + 1) * d /\ (q + 1) * d \in Nat
    BY <1>2, <1>4
  <2> QED BY <1>1, <1>3, <1>4, <2>1
<1> QED BY <1>5 DEF m, q, p, r

VestingBalance ==
    [owner : Account, balance : Nat, balance_type : {"cashback", "witness", "market_fee_sharing", "unspecified"},
     policy : Policy, begin_balance : Nat, earned : Nat, last_update : Nat, taken : Nat, accrued : Nat]

\* What was taken by a linear policy was due.
LinearDue(v, t) ==
    /\ t > v.policy.begin_timestamp
    /\ t - v.policy.begin_timestamp >= v.policy.vesting_cliff_seconds
    /\ v.taken <= TotalVested(v, t)

BalanceOK(v, t) ==
    /\ v \in VestingBalance
    /\ v.balance_type = "market_fee_sharing" => v.policy.kind = "instant"
    /\ v.policy.kind = "cdd" =>
          /\ Earned(v.balance, v.earned, v.last_update, v.taken, v.accrued,
                    AtLeast1(v.policy.vesting_seconds), t)
          /\ v.taken > 0 => t > v.policy.start_claim
    /\ v.policy.kind = "linear" =>
          v.begin_balance = v.balance + v.taken /\ (v.taken > 0 => LinearDue(v, t))

LEMMA PolicyFacts ==
    ASSUME NEW p \in Policy
    PROVE  /\ p.kind \in {"linear", "cdd", "instant"}
           /\ p.kind = "cdd" => /\ p.start_claim \in Nat /\ p.vesting_seconds \in Nat
                                /\ AtLeast1(p.vesting_seconds) \in Nat \ {0}
           /\ p.kind = "linear" => /\ p.begin_timestamp \in Nat /\ p.vesting_cliff_seconds \in Nat
                                   /\ p.vesting_duration_seconds \in Nat
<1>1. CASE p \in [kind : {"linear"}, begin_timestamp : Nat, vesting_cliff_seconds : Nat,
                  vesting_duration_seconds : Nat]
  <2>1. p.kind = "linear" /\ "linear" # "cdd"
    BY <1>1
  <2> QED BY <1>1, <2>1
<1>2. CASE p \in [kind : {"cdd"}, start_claim : Nat, vesting_seconds : Nat]
  <2>1. p.kind = "cdd" /\ "linear" # "cdd" /\ p.vesting_seconds \in Nat /\ p.start_claim \in Nat
    BY <1>2
  <2>2. AtLeast1(p.vesting_seconds) \in Nat \ {0}
    BY <2>1, AtLeast1Facts
  <2> QED BY <2>1, <2>2
<1>3. CASE p \in [kind : {"instant"}]
  <2>1. p.kind = "instant" /\ "instant" # "cdd" /\ "instant" # "linear"
    BY <1>3
  <2> QED BY <2>1
<1> QED BY <1>1, <1>2, <1>3 DEF Policy

LEMMA BalanceFields ==
    ASSUME NEW v \in VestingBalance
    PROVE  /\ v.owner \in Account /\ v.policy \in Policy
           /\ v.balance_type \in {"cashback", "witness", "market_fee_sharing", "unspecified"}
           /\ v.balance \in Nat /\ v.begin_balance \in Nat /\ v.earned \in Nat
           /\ v.last_update \in Nat /\ v.taken \in Nat /\ v.accrued \in Nat
BY DEF VestingBalance

\* A balance and time of a linear policy: what has vested.
LEMMA TotalVestedFacts ==
    ASSUME NEW v \in VestingBalance, v.policy.kind = "linear", NEW t \in Nat,
           t > v.policy.begin_timestamp
    PROVE  /\ TotalVested(v, t) \in 0..v.begin_balance
           /\ TotalVested(v, t) <= TotalVested(v, t + 1)
           /\ \/ TotalVested(v, t) * v.policy.vesting_duration_seconds
                    <= v.begin_balance * (t - v.policy.begin_timestamp)
              \/ t >= v.policy.begin_timestamp + v.policy.vesting_duration_seconds
<1> DEFINE n == v.begin_balance
           d == v.policy.vesting_duration_seconds
           b == v.policy.begin_timestamp
           x == t - b
           r == t + 1
           y == r - b
           vested == IF x < d THEN (n * x) \div d ELSE n
           later == IF y < d THEN (n * y) \div d ELSE n
<1>0. r = t + 1
  OBVIOUS
<1> HIDE DEF r
<1>1. TotalVested(v, t) = vested
  BY Zenon DEF TotalVested
<1>11. TotalVested(v, r) = later
  BY Zenon DEF TotalVested
<1>2. n \in Nat /\ d \in Nat /\ b \in Nat
  BY BalanceFields, PolicyFacts
<1>3. x \in Nat /\ y \in Nat /\ x <= y
  BY <1>0, <1>2
<1>4. b \in Nat /\ (t >= b + d <=> x >= d)
  BY <1>2
<1> HIDE DEF n, d, x, y, b
<1>5. ASSUME NEW z \in Nat, z < d
      PROVE  (n * z) \div d \in Nat /\ (n * z) \div d <= n /\ ((n * z) \div d) * d <= n * z
  <2>1. n * z \in Nat /\ n * z <= n * d /\ d \in Nat \ {0}
    BY <1>2, <1>5
  <2> QED BY <1>2, <2>1, FloorFacts, FloorBound
<1>6. vested \in Nat /\ vested <= n
  BY <1>2, <1>3, <1>5
<1>7. vested <= later
  <2>1. CASE y < d
    <3>1. x < d /\ d \in Nat \ {0}
      BY <1>2, <1>3, <2>1
    <3>2. (n * x) \div d <= (n * y) \div d
      BY <1>2, <1>3, <3>1, PartGrows
    <3> QED BY <2>1, <3>1, <3>2
  <2>2. CASE ~(y < d)
    BY <1>2, <1>3, <1>6, <2>2
  <2> QED BY <2>1, <2>2
<1>8. vested * d <= n * x \/ x >= d
  BY <1>2, <1>3, <1>5
<1>9. vested \in 0..n
  BY <1>2, <1>6
<1> HIDE DEF vested, later
<1> QED BY <1>0, <1>1, <1>11, <1>4, <1>7, <1>8, <1>9 DEF n, d, b, x

\* What may be withdrawn is there and has vested.
LEMMA AllowedFacts ==
    ASSUME NEW v, NEW t \in Nat, BalanceOK(v, t)
    PROVE  /\ get_allowed_withdraw(v, t) \in 0..v.balance
           /\ v.policy.kind = "cdd" /\ get_allowed_withdraw(v, t) > 0 =>
                 /\ t > v.policy.start_claim
                 /\ get_allowed_withdraw(v, t) * AtLeast1(v.policy.vesting_seconds)
                       <= compute_coin_seconds_earned(v, t)
           /\ v.policy.kind = "linear" /\ get_allowed_withdraw(v, t) > 0 =>
                 /\ t > v.policy.begin_timestamp
                 /\ t - v.policy.begin_timestamp >= v.policy.vesting_cliff_seconds
                 /\ v.taken + get_allowed_withdraw(v, t) <= TotalVested(v, t)
<1> DEFINE allowed == get_allowed_withdraw(v, t)
<1>1. /\ v \in VestingBalance /\ v.balance \in Nat /\ v.begin_balance \in Nat /\ v.earned \in Nat
      /\ v.last_update \in Nat /\ v.taken \in Nat /\ v.accrued \in Nat /\ v.policy \in Policy
      /\ v.policy.kind \in {"linear", "cdd", "instant"}
  BY BalanceFields, PolicyFacts DEF BalanceOK
<1>2. CASE v.policy.kind = "instant"
  <2>1. allowed = v.balance
    BY <1>2 DEF get_allowed_withdraw
  <2> QED BY <1>1, <1>2, <2>1
<1>3. CASE v.policy.kind = "cdd"
  <2> DEFINE s == AtLeast1(v.policy.vesting_seconds)
             c == compute_coin_seconds_earned(v, t)
             q == c \div s
  <2>1. s \in Nat \ {0} /\ v.policy.start_claim \in Nat
    BY <1>1, <1>3, PolicyFacts
  <2>2. c \in Nat /\ c <= v.balance * s
    <3>1. Earned(v.balance, v.earned, v.last_update, v.taken, v.accrued, s, t)
      BY <1>3 DEF BalanceOK
    <3>2. c = Min({v.earned + v.balance * (t - v.last_update), v.balance * s})
      BY DEF compute_coin_seconds_earned
    <3> HIDE DEF c, s
    <3> QED BY <1>1, <2>1, <3>1, <3>2, EarnedUpdate, Zenon
  <2>3. allowed = IF t <= v.policy.start_claim THEN 0 ELSE q
    BY <1>3 DEF get_allowed_withdraw, CddAllowed
  <2> HIDE DEF c, s, allowed
  <2>4. q \in Nat /\ q * s <= c
    BY <2>1, <2>2, FloorFacts
  <2>5. q <= v.balance
    BY <1>1, <2>1, <2>2, FloorBound
  <2> HIDE DEF q
  <2>6. allowed \in 0..v.balance
    BY <1>1, <2>3, <2>4, <2>5
  <2>7. allowed > 0 => t > v.policy.start_claim /\ allowed * s <= c
    BY <2>1, <2>3, <2>4
  <2> QED BY <1>3, <2>6, <2>7 DEF allowed, s, c
<1>4. CASE v.policy.kind = "linear"
  <2> DEFINE b == v.policy.begin_timestamp
             due == t > b /\ t - b >= v.policy.vesting_cliff_seconds
             total == TotalVested(v, t)
  <2>1. v.begin_balance = v.balance + v.taken /\ (v.taken > 0 => LinearDue(v, t)) /\ b \in Nat
    BY <1>1, <1>4, PolicyFacts DEF BalanceOK
  <2>2. allowed = IF due THEN total - (v.begin_balance - v.balance) ELSE 0
    BY <1>4 DEF get_allowed_withdraw, LinearAllowed
  <2>3. due => total \in 0..v.begin_balance
    BY <1>1, <1>4, TotalVestedFacts
  <2>4. v.taken > 0 => v.taken <= total
    BY <2>1 DEF LinearDue
  <2>5. v.begin_balance - v.balance = v.taken
    BY <1>1, <2>1
  <2> HIDE DEF allowed, total, due
  <2>6. due => allowed = total - v.taken /\ total \in Nat /\ total <= v.balance + v.taken /\ v.taken <= total
    <3>1. due => total \in Nat /\ total <= v.balance + v.taken
      BY <1>1, <2>1, <2>3
    <3>2. due => v.taken <= total
      BY <1>1, <2>4, <3>1
    <3> QED BY <2>2, <2>5, <3>1, <3>2
  <2>7. ~due => allowed = 0
    BY <2>2
  <2>8. allowed \in 0..v.balance
    BY <1>1, <2>6, <2>7
  <2>9. allowed > 0 => due /\ v.taken + allowed <= total
    BY <1>1, <2>6, <2>7
  <2> QED BY <1>4, <2>8, <2>9 DEF allowed, total, due
<1> QED BY <1>1, <1>2, <1>3, <1>4

LEMMA UpdateFacts ==
    ASSUME NEW v, NEW t \in Nat, BalanceOK(v, t), v.policy.kind = "cdd"
    PROVE  LET u == update_coin_seconds_earned(v, t)
           IN  /\ u \in VestingBalance /\ u.earned = compute_coin_seconds_earned(v, t) /\ u.last_update = t
               /\ u.balance = v.balance /\ u.taken = v.taken /\ u.accrued = v.accrued
               /\ u.policy = v.policy /\ u.balance_type = v.balance_type
               /\ Earned(u.balance, u.earned, t, u.taken, u.accrued, AtLeast1(v.policy.vesting_seconds), t)
               /\ AtLeast1(v.policy.vesting_seconds) \in Nat \ {0}
<1> DEFINE c == compute_coin_seconds_earned(v, t)
           s == AtLeast1(v.policy.vesting_seconds)
           u == update_coin_seconds_earned(v, t)
<1>1. /\ v \in VestingBalance /\ v.balance \in Nat /\ v.earned \in Nat /\ v.last_update \in Nat
      /\ v.taken \in Nat /\ v.accrued \in Nat /\ s \in Nat \ {0}
  BY BalanceFields, PolicyFacts DEF BalanceOK
<1>2. Earned(v.balance, v.earned, v.last_update, v.taken, v.accrued, s, t)
  BY DEF BalanceOK
<1>3. c = Min({v.earned + v.balance * (t - v.last_update), v.balance * s})
  BY DEF compute_coin_seconds_earned
<1>4. u = [v EXCEPT !.earned = c, !.last_update = t]
  BY DEF update_coin_seconds_earned
<1> HIDE DEF c, s, u
<1>5. c \in Nat /\ Earned(v.balance, c, t, v.taken, v.accrued, s, t)
  BY <1>1, <1>2, <1>3, EarnedUpdate, Zenon
<1>6. /\ u \in VestingBalance /\ u.earned = c /\ u.last_update = t
      /\ u.balance = v.balance /\ u.taken = v.taken /\ u.accrued = v.accrued
      /\ u.policy = v.policy /\ u.balance_type = v.balance_type
  BY <1>1, <1>4, <1>5, Zenon DEF VestingBalance
<1>7. Earned(u.balance, u.earned, t, u.taken, u.accrued, s, t)
  BY <1>5, <1>6
<1> QED BY <1>1, <1>6, <1>7 DEF c, s, u

\* A withdrawal of what is allowed
LEMMA WithdrawKeeps ==
    ASSUME NEW v, NEW t \in Nat, BalanceOK(v, t), NEW n \in Nat \ {0}, n <= get_allowed_withdraw(v, t)
    PROVE  BalanceOK(withdraw(v, t, n), t)
<1> DEFINE w == withdraw(v, t, n)
<1>1. /\ v \in VestingBalance /\ v.balance \in Nat /\ v.begin_balance \in Nat /\ v.taken \in Nat
      /\ v.policy \in Policy /\ v.policy.kind \in {"linear", "cdd", "instant"}
  BY BalanceFields, PolicyFacts DEF BalanceOK
<1>2. get_allowed_withdraw(v, t) \in 0..v.balance
  BY AllowedFacts
<1>3. n <= v.balance /\ v.balance - n \in Nat /\ v.taken + n \in Nat /\ get_allowed_withdraw(v, t) > 0
  BY <1>1, <1>2
<1>4. CASE v.policy.kind # "cdd"
  <2>1. w = [v EXCEPT !.balance = v.balance - n, !.taken = v.taken + n]
    BY <1>4 DEF withdraw
  <2>2. /\ w \in VestingBalance /\ w.balance = v.balance - n /\ w.taken = v.taken + n
        /\ w.policy = v.policy /\ w.begin_balance = v.begin_balance /\ w.balance_type = v.balance_type
    BY <1>1, <1>3, <2>1, Zenon DEF VestingBalance
  <2> HIDE DEF w
  <2>3. CASE v.policy.kind = "linear"
    <3>1. v.begin_balance = v.balance + v.taken
      BY <2>3 DEF BalanceOK
    <3>2. w.begin_balance = w.balance + w.taken
      BY <1>1, <2>2, <3>1
    <3>3. /\ t > v.policy.begin_timestamp
          /\ t - v.policy.begin_timestamp >= v.policy.vesting_cliff_seconds
          /\ v.taken + get_allowed_withdraw(v, t) <= TotalVested(v, t)
      BY <1>3, <2>3, AllowedFacts
    <3>4. TotalVested(v, t) \in 0..v.begin_balance
      BY <1>1, <2>3, <3>3, TotalVestedFacts
    <3>5. w.taken <= TotalVested(v, t)
      <4> DEFINE g == get_allowed_withdraw(v, t)
                 m == TotalVested(v, t)
      <4>1. g \in Nat /\ m \in Nat /\ n <= g /\ v.taken + g <= m
        BY <1>1, <1>2, <3>3, <3>4
      <4> HIDE DEF g, m
      <4>2. v.taken + n <= m
        BY <1>1, <4>1
      <4> QED BY <2>2, <4>2 DEF m
    <3>6. TotalVested(w, t) = TotalVested(v, t)
      BY <2>2, Zenon DEF TotalVested
    <3>7. LinearDue(w, t)
      BY <2>2, <3>3, <3>5, <3>6 DEF LinearDue
    <3>8. v.balance_type # "market_fee_sharing"
      BY <2>3, Zenon DEF BalanceOK
    <3> QED BY <2>2, <2>3, <3>2, <3>7, <3>8 DEF BalanceOK, w
  <2>4. CASE v.policy.kind = "instant"
    BY <2>2, <2>4, Zenon DEF BalanceOK, w
  <2> QED BY <1>1, <1>4, <2>3, <2>4
<1>5. CASE v.policy.kind = "cdd"
  <2> DEFINE u == update_coin_seconds_earned(v, t)
             s == AtLeast1(v.policy.vesting_seconds)
             c == compute_coin_seconds_earned(v, t)
             g == get_allowed_withdraw(v, t)
  <2>1. /\ u \in VestingBalance /\ u.earned = c /\ u.last_update = t
        /\ u.balance = v.balance /\ u.taken = v.taken /\ u.accrued = v.accrued
        /\ u.policy = v.policy /\ u.balance_type = v.balance_type
        /\ Earned(u.balance, u.earned, t, u.taken, u.accrued, s, t)
        /\ s \in Nat \ {0}
    BY <1>5, UpdateFacts
  <2>2. t > v.policy.start_claim /\ g * s <= c
    BY <1>3, <1>5, AllowedFacts
  <2>3. w = [u EXCEPT !.earned = u.earned - n * s, !.balance = u.balance - n, !.taken = u.taken + n]
    <3>1. w = [[u EXCEPT !.earned = @ - n * s] EXCEPT !.balance = @ - n, !.taken = @ + n]
      BY <1>5 DEF withdraw
    <3> HIDE DEF u, s, w
    <3> QED BY <2>1, <3>1, Zenon DEF VestingBalance
  <2>4. g \in Nat /\ n <= g
    BY <1>1, <1>2
  <2> HIDE DEF u, s, c, g, w
  <2>5. c \in Nat /\ u.accrued \in Nat
    BY <2>1, BalanceFields
  <2>6. n * s <= c
    <3>1. n * s <= g * s /\ n * s \in Nat /\ g * s \in Nat
      BY <2>1, <2>4
    <3> QED BY <2>2, <2>5, <3>1
  <2>7. /\ u.balance - n \in Nat /\ u.earned - n * s \in Nat
        /\ Earned(u.balance - n, u.earned - n * s, t, u.taken + n, u.accrued, s, t)
    BY <1>1, <2>1, <2>5, <2>6, EarnedWithdraw, Zenon
  <2> DEFINE x == u.earned - n * s
             y == u.balance - n
             z == u.taken + n
  <2>8. w = [u EXCEPT !.earned = x, !.balance = y, !.taken = z] /\ x \in Nat /\ y \in Nat /\ z \in Nat
        /\ Earned(y, x, t, z, u.accrued, s, t)
    BY <1>1, <2>1, <2>3, <2>7
  <2> HIDE DEF x, y, z
  <2>9. /\ w \in VestingBalance /\ w.balance = y /\ w.taken = z /\ w.earned = x /\ w.accrued = u.accrued
        /\ w.last_update = t /\ w.policy = v.policy /\ w.balance_type = v.balance_type
    BY <2>1, <2>8, Zenon DEF VestingBalance
  <2>10. v.balance_type # "market_fee_sharing"
    BY <1>5 DEF BalanceOK
  <2>11. Earned(w.balance, w.earned, w.last_update, w.taken, w.accrued, AtLeast1(w.policy.vesting_seconds), t)
    BY <2>8, <2>9 DEF s
  <2>12. w.policy.kind = "cdd" /\ w.policy.start_claim = v.policy.start_claim /\ w.policy.kind # "linear"
    BY <1>5, <2>9
  <2> QED BY <2>2, <2>9, <2>10, <2>11, <2>12 DEF BalanceOK, w
<1> QED BY <1>4, <1>5

\* Deposits, which no linear policy gets
LEMMA DepositKeeps ==
    ASSUME NEW v, NEW t \in Nat, BalanceOK(v, t), v.policy.kind # "linear", NEW n \in Nat
    PROVE  BalanceOK(deposit(v, t, n), t) /\ BalanceOK(deposit_vested(v, t, n), t)
<1> DEFINE w == deposit(v, t, n)
<1>1. /\ v \in VestingBalance /\ v.balance \in Nat /\ v.taken \in Nat
      /\ v.policy \in Policy /\ v.policy.kind \in {"cdd", "instant"}
  BY BalanceFields, PolicyFacts DEF BalanceOK
<1>2. CASE v.policy.kind # "cdd"
  <2>1. w = [v EXCEPT !.balance = v.balance + n] /\ deposit_vested(v, t, n) = w
    BY <1>2 DEF deposit, deposit_vested
  <2>2. v.balance + n \in Nat
    BY <1>1
  <2>3. w \in VestingBalance /\ w.policy = v.policy /\ w.balance_type = v.balance_type
    BY <1>1, <2>1, <2>2, Zenon DEF VestingBalance
  <2>4. BalanceOK(w, t)
    BY <1>1, <1>2, <2>3 DEF BalanceOK
  <2> QED BY <2>1, <2>4
<1>3. CASE v.policy.kind = "cdd"
  <2> DEFINE u == update_coin_seconds_earned(v, t)
             s == AtLeast1(v.policy.vesting_seconds)
             e == n * s
             w2 == deposit_vested(v, t, n)
  <2>1. /\ u \in VestingBalance /\ u.last_update = t
        /\ u.balance = v.balance /\ u.taken = v.taken /\ u.accrued = v.accrued
        /\ u.policy = v.policy /\ u.balance_type = v.balance_type
        /\ Earned(u.balance, u.earned, t, u.taken, u.accrued, s, t)
        /\ s \in Nat \ {0}
    BY <1>3, UpdateFacts
  <2>2. w = [u EXCEPT !.balance = u.balance + n]
    BY <1>3 DEF deposit
  <2>3. w2 = [w EXCEPT !.earned = w.earned + e, !.accrued = w.accrued + e]
    BY <1>3 DEF deposit_vested
  <2> HIDE DEF u, s, w, w2
  <2>4. u.earned \in Nat /\ u.accrued \in Nat /\ u.balance \in Nat /\ u.taken \in Nat
        /\ u.balance + n \in Nat /\ e \in Nat
    BY <2>1, BalanceFields
  <2>5. /\ w \in VestingBalance /\ w.balance = u.balance + n /\ w.earned = u.earned /\ w.last_update = t
        /\ w.taken = u.taken /\ w.accrued = u.accrued /\ w.policy = v.policy
        /\ w.balance_type = v.balance_type
    BY <2>1, <2>2, <2>4 DEF VestingBalance
  <2>6. Earned(u.balance + n, u.earned, t, u.taken, u.accrued, s, t)
        /\ Earned(u.balance + n, u.earned + e, t, u.taken, u.accrued + e, s, t)
    BY <2>1, <2>4, EarnedDeposit, Zenon
  <2> HIDE DEF e
  <2>7. w.earned + e \in Nat /\ w.accrued + e \in Nat
    BY <2>4, <2>5
  <2>8. /\ w2 \in VestingBalance /\ w2.balance = w.balance /\ w2.earned = w.earned + e /\ w2.last_update = t
        /\ w2.taken = w.taken /\ w2.accrued = w.accrued + e /\ w2.policy = v.policy
        /\ w2.balance_type = v.balance_type
    BY <2>3, <2>5, <2>7, Zenon DEF VestingBalance
  <2>9. v.balance_type # "market_fee_sharing" /\ (v.taken > 0 => t > v.policy.start_claim)
    BY <1>3 DEF BalanceOK
  <2>10. Earned(w.balance, w.earned, w.last_update, w.taken, w.accrued, AtLeast1(w.policy.vesting_seconds), t)
    BY <2>5, <2>6 DEF s
  <2>11. Earned(w2.balance, w2.earned, w2.last_update, w2.taken, w2.accrued,
                AtLeast1(w2.policy.vesting_seconds), t)
    BY <2>5, <2>6, <2>8 DEF s
  <2>12. w.policy.kind = "cdd" /\ w2.policy.kind = "cdd" /\ "cdd" # "linear"
         /\ w.taken = v.taken /\ w2.taken = v.taken
    BY <1>3, <2>1, <2>5, <2>8
  <2>13. BalanceOK(w, t)
    BY <2>5, <2>9, <2>10, <2>12, Zenon DEF BalanceOK
  <2>14. BalanceOK(w2, t)
    BY <2>8, <2>9, <2>11, <2>12 DEF BalanceOK
  <2> QED BY <2>13, <2>14 DEF w, w2
<1> QED BY <1>2, <1>3

\* A new balance
LEMMA NewKeeps ==
    ASSUME NEW t \in Nat, NEW owner \in Account, NEW n \in Nat, NEW p \in Policy, NEW e \in Nat,
           NEW type \in {"cashback", "witness", "market_fee_sharing", "unspecified"},
           type = "market_fee_sharing" => p.kind = "instant",
           p.kind = "cdd" => e = 0 \/ e = n * p.vesting_seconds
    PROVE  BalanceOK(NewVesting(owner, n, type, p, e, t), t)
<1> DEFINE v == NewVesting(owner, n, type, p, e, t)
<1>1. /\ v \in VestingBalance /\ v.balance = n /\ v.taken = 0 /\ v.policy = p /\ v.begin_balance = n
      /\ v.earned = e /\ v.accrued = e /\ v.last_update = t /\ v.balance_type = type
  BY DEF NewVesting, VestingBalance
<1>2. p.kind = "cdd" => Earned(n, e, t, 0, e, AtLeast1(p.vesting_seconds), t)
  <2> SUFFICES ASSUME p.kind = "cdd" PROVE Earned(n, e, t, 0, e, AtLeast1(p.vesting_seconds), t)
    OBVIOUS
  <2> DEFINE s == AtLeast1(p.vesting_seconds)
             r == p.vesting_seconds
  <2>1. r \in Nat /\ s \in Nat \ {0} /\ s >= r
    BY PolicyFacts, AtLeast1Facts
  <2>2. e = 0 \/ e = n * r
    OBVIOUS
  <2> HIDE DEF s, r
  <2>3. n * r <= n * s /\ n * s \in Nat /\ 0 * s = 0 /\ n * (t - t) = 0 /\ n * r \in Nat
    BY <2>1
  <2>4. Earned(n, e, t, 0, e, s, t)
    BY <2>2, <2>3 DEF Earned
  <2> QED BY <2>4 DEF s
<1> HIDE DEF v
<1>3. BalanceOK(v, t)
  BY <1>1, <1>2 DEF BalanceOK
<1> QED BY <1>3 DEF v

\* A block
LEMMA TickKeeps ==
    ASSUME NEW v, NEW t \in Nat, BalanceOK(v, t)
    PROVE  BalanceOK([v EXCEPT !.accrued = @ + (IF v.policy.kind = "cdd" THEN v.balance ELSE 0)], t + 1)
<1> DEFINE more == IF v.policy.kind = "cdd" THEN v.balance ELSE 0
           a == v.accrued + more
           w == [v EXCEPT !.accrued = @ + more]
<1>1. /\ v \in VestingBalance /\ v.balance \in Nat /\ v.begin_balance \in Nat /\ v.earned \in Nat
      /\ v.last_update \in Nat /\ v.taken \in Nat /\ v.accrued \in Nat /\ v.policy \in Policy
      /\ v.policy.kind \in {"linear", "cdd", "instant"}
  BY BalanceFields, PolicyFacts DEF BalanceOK
<1>2. a \in Nat /\ (v.policy.kind = "cdd" => a = v.accrued + v.balance)
  BY <1>1
<1>3. w = [v EXCEPT !.accrued = a]
  BY <1>1 DEF VestingBalance
<1> HIDE DEF a, w
<1>4. /\ w \in VestingBalance /\ w.accrued = a /\ w.balance = v.balance /\ w.taken = v.taken
      /\ w.policy = v.policy /\ w.begin_balance = v.begin_balance /\ w.earned = v.earned
      /\ w.last_update = v.last_update /\ w.balance_type = v.balance_type
  BY <1>1, <1>2, <1>3 DEF VestingBalance
<1>5. CASE v.policy.kind = "cdd"
  <2> DEFINE s == AtLeast1(v.policy.vesting_seconds)
  <2>1. s \in Nat \ {0} /\ v.policy.start_claim \in Nat
    BY <1>1, <1>5, PolicyFacts
  <2>2. Earned(v.balance, v.earned, v.last_update, v.taken, v.accrued, s, t)
        /\ (v.taken > 0 => t > v.policy.start_claim) /\ v.balance_type # "market_fee_sharing"
    BY <1>5 DEF BalanceOK
  <2> HIDE DEF s
  <2>3. Earned(v.balance, v.earned, v.last_update, v.taken, v.accrued + v.balance, s, t + 1)
    BY <1>1, <2>1, <2>2, EarnedTick, Zenon
  <2>4. Earned(w.balance, w.earned, w.last_update, w.taken, w.accrued, AtLeast1(w.policy.vesting_seconds), t + 1)
    BY <1>2, <1>4, <1>5, <2>3 DEF s
  <2>5. w.taken > 0 => t + 1 > w.policy.start_claim
    BY <1>4, <2>1, <2>2
  <2>6. w.policy.kind = "cdd" /\ w.balance_type # "market_fee_sharing" /\ w.policy.kind # "linear"
    BY <1>4, <1>5, <2>2, Zenon
  <2>7. BalanceOK(w, t + 1)
    BY <1>4, <2>4, <2>5, <2>6 DEF BalanceOK
  <2> QED BY <2>7 DEF w
<1>6. CASE v.policy.kind = "linear"
  <2>1. v.begin_balance = v.balance + v.taken /\ v.balance_type # "market_fee_sharing"
    BY <1>6 DEF BalanceOK
  <2>2. ASSUME v.taken > 0 PROVE LinearDue(w, t + 1)
    <3>1. LinearDue(v, t)
      BY <1>6, <2>2 DEF BalanceOK
    <3>2. v.policy.begin_timestamp \in Nat /\ v.policy.vesting_cliff_seconds \in Nat
      BY <1>1, <1>6, PolicyFacts
    <3>3. /\ t > v.policy.begin_timestamp /\ v.taken <= TotalVested(v, t)
          /\ t - v.policy.begin_timestamp >= v.policy.vesting_cliff_seconds
      BY <3>1 DEF LinearDue
    <3>4. /\ t + 1 > v.policy.begin_timestamp
          /\ (t + 1) - v.policy.begin_timestamp >= v.policy.vesting_cliff_seconds
      BY <3>2, <3>3
    <3> DEFINE x == TotalVested(v, t)
               y == TotalVested(v, t + 1)
               z == TotalVested(w, t + 1)
    <3>5. x \in Nat /\ x <= y
      BY <1>1, <1>6, <3>3, TotalVestedFacts
    <3>6. y \in Nat
      <4>1. t + 1 \in Nat
        OBVIOUS
      <4>2. y \in 0..v.begin_balance
        BY <1>1, <1>6, <3>4, <4>1, TotalVestedFacts
      <4> QED BY <1>1, <4>2
    <3>7. z = y
      <4> DEFINE u == t + 1
      <4> HIDE DEF u
      <4>1. TotalVested(w, u) = TotalVested(v, u)
        BY <1>4, Zenon DEF TotalVested
      <4> QED BY <4>1 DEF u
    <3>8. v.taken <= x
      BY <3>3
    <3> HIDE DEF x, y, z
    <3>9. v.taken <= z
      BY <1>1, <3>5, <3>6, <3>7, <3>8
    <3> DEFINE u == t + 1
    <3>10. /\ u > w.policy.begin_timestamp
           /\ u - w.policy.begin_timestamp >= w.policy.vesting_cliff_seconds
      BY <1>4, <3>4
    <3>11. w.taken <= TotalVested(w, u)
      BY <1>4, <3>9 DEF z
    <3> HIDE DEF u
    <3>12. LinearDue(w, u)
      BY <3>10, <3>11 DEF LinearDue
    <3> QED BY <3>12 DEF u
  <2>3. w.policy.kind = "linear" /\ w.balance_type # "market_fee_sharing" /\ w.policy.kind # "cdd"
        /\ w.begin_balance = w.balance + w.taken /\ (w.taken > 0 => LinearDue(w, t + 1))
    BY <1>4, <1>6, <2>1, <2>2, Zenon
  <2>4. BalanceOK(w, t + 1)
    BY <1>4, <2>3 DEF BalanceOK
  <2> QED BY <2>4 DEF w
<1>7. CASE v.policy.kind = "instant"
  <2>1. BalanceOK(w, t + 1)
    BY <1>4, <1>7, Zenon DEF BalanceOK
  <2> QED BY <2>1 DEF w
<1> QED BY <1>1, <1>5, <1>6, <1>7

-----------------------------------------------------------------------------
\* The record of all balances
VestingsOK(s, t) ==
    /\ s = [balances |-> s.balances, vbos |-> s.vbos, next_id |-> s.next_id,
            cashback_vb |-> s.cashback_vb, pay_vb |-> s.pay_vb, pending_fees |-> s.pending_fees,
            pending_vested_fees |-> s.pending_vested_fees, accumulated_fees |-> s.accumulated_fees,
            witness_budget |-> s.witness_budget, supply |-> s.supply, deposits |-> s.deposits]
    /\ s.cashback_vb \in [Account -> DOMAIN s.vbos \cup {NoVesting}]
    /\ s.pay_vb \in [Account -> DOMAIN s.vbos \cup {NoVesting}]
    /\ s.pending_fees \in [Account -> Nat] /\ s.pending_vested_fees \in [Account -> Nat]
    /\ \A id \in DOMAIN s.vbos : BalanceOK(s.vbos[id], t)

LEMMA SetKeeps ==
    ASSUME NEW s, NEW t \in Nat, VestingsOK(s, t), NEW v, BalanceOK(v, t), NEW id
    PROVE  LET r == Set(s, id, v)
           IN  /\ VestingsOK(r, t) /\ id \in DOMAIN r.vbos /\ r.next_id = s.next_id
               /\ DOMAIN s.vbos \subseteq DOMAIN r.vbos
               /\ r.pending_fees = s.pending_fees /\ r.pending_vested_fees = s.pending_vested_fees
<1> DEFINE r == Set(s, id, v)
           f == [i \in DOMAIN s.vbos \cup {id} |-> IF i = id THEN v ELSE s.vbos[i]]
<1>1. r = [s EXCEPT !.vbos = f]
  BY DEF Set
<1>2. DOMAIN f = DOMAIN s.vbos \cup {id} /\ \A i \in DOMAIN f : BalanceOK(f[i], t)
  BY DEF VestingsOK
<1> HIDE DEF f, r
<1>3. /\ r = [balances |-> s.balances, vbos |-> f, next_id |-> s.next_id,
              cashback_vb |-> s.cashback_vb, pay_vb |-> s.pay_vb, pending_fees |-> s.pending_fees,
              pending_vested_fees |-> s.pending_vested_fees, accumulated_fees |-> s.accumulated_fees,
              witness_budget |-> s.witness_budget, supply |-> s.supply, deposits |-> s.deposits]
  BY <1>1 DEF VestingsOK
<1>4. /\ r.vbos = f /\ r.next_id = s.next_id /\ r.cashback_vb = s.cashback_vb /\ r.pay_vb = s.pay_vb
      /\ r.pending_fees = s.pending_fees /\ r.pending_vested_fees = s.pending_vested_fees
      /\ r = [balances |-> r.balances, vbos |-> r.vbos, next_id |-> r.next_id,
              cashback_vb |-> r.cashback_vb, pay_vb |-> r.pay_vb, pending_fees |-> r.pending_fees,
              pending_vested_fees |-> r.pending_vested_fees, accumulated_fees |-> r.accumulated_fees,
              witness_budget |-> r.witness_budget, supply |-> r.supply, deposits |-> r.deposits]
  BY <1>3
<1>5. /\ s.cashback_vb \in [Account -> DOMAIN f \cup {NoVesting}]
      /\ s.pay_vb \in [Account -> DOMAIN f \cup {NoVesting}]
  BY <1>2 DEF VestingsOK
<1>6. VestingsOK(r, t)
  BY <1>2, <1>4, <1>5 DEF VestingsOK
<1> QED BY <1>2, <1>4, <1>6 DEF r

\* Nothing but these fields matters.
LEMMA SameVestings ==
    ASSUME NEW s, NEW t \in Nat, VestingsOK(s, t), NEW r, NEW b, NEW n, NEW a, NEW w, NEW y, NEW d,
           NEW pf \in [Account -> Nat], NEW pv \in [Account -> Nat],
           r = [balances |-> b, vbos |-> s.vbos, next_id |-> n,
                cashback_vb |-> s.cashback_vb, pay_vb |-> s.pay_vb, pending_fees |-> pf,
                pending_vested_fees |-> pv, accumulated_fees |-> a,
                witness_budget |-> w, supply |-> y, deposits |-> d]
    PROVE  VestingsOK(r, t)
BY DEF VestingsOK

LEMMA VestingFields ==
    ASSUME NEW s, NEW t \in Nat, VestingsOK(s, t)
    PROVE  /\ s = [balances |-> s.balances, vbos |-> s.vbos, next_id |-> s.next_id,
                   cashback_vb |-> s.cashback_vb, pay_vb |-> s.pay_vb, pending_fees |-> s.pending_fees,
                   pending_vested_fees |-> s.pending_vested_fees, accumulated_fees |-> s.accumulated_fees,
                   witness_budget |-> s.witness_budget, supply |-> s.supply, deposits |-> s.deposits]
           /\ s.pending_fees \in [Account -> Nat] /\ s.pending_vested_fees \in [Account -> Nat]
BY DEF VestingsOK

LEMMA AddKeeps ==
    ASSUME NEW s, NEW t \in Nat, VestingsOK(s, t), NEW v, BalanceOK(v, t)
    PROVE  LET r == Add(s, v)
           IN  /\ VestingsOK(r, t) /\ s.next_id \in DOMAIN r.vbos
               /\ r.pending_fees = s.pending_fees /\ r.pending_vested_fees = s.pending_vested_fees
<1> DEFINE q == Set(s, s.next_id, v)
           r == Add(s, v)
<1>1. /\ VestingsOK(q, t) /\ s.next_id \in DOMAIN q.vbos
      /\ q.pending_fees = s.pending_fees /\ q.pending_vested_fees = s.pending_vested_fees
  BY SetKeeps
<1>2. r = [q EXCEPT !.next_id = @ + 1]
  BY DEF Add
<1> HIDE DEF q, r
<1>3. r = [balances |-> q.balances, vbos |-> q.vbos, next_id |-> q.next_id + 1,
           cashback_vb |-> q.cashback_vb, pay_vb |-> q.pay_vb, pending_fees |-> q.pending_fees,
           pending_vested_fees |-> q.pending_vested_fees, accumulated_fees |-> q.accumulated_fees,
           witness_budget |-> q.witness_budget, supply |-> q.supply, deposits |-> q.deposits]
  BY <1>1, <1>2, VestingFields
<1>4. q.pending_fees \in [Account -> Nat] /\ q.pending_vested_fees \in [Account -> Nat]
  BY <1>1, VestingFields, Zenon
<1>5. VestingsOK(r, t)
  BY <1>1, <1>3, <1>4, SameVestings
<1>6. /\ r.vbos = q.vbos /\ r.pending_fees = q.pending_fees
      /\ r.pending_vested_fees = q.pending_vested_fees
  BY <1>3
<1> QED BY <1>1, <1>5, <1>6 DEF r

LEMMA UseKeeps ==
    ASSUME NEW s, NEW t \in Nat, VestingsOK(s, t), NEW owner \in Account, NEW id \in DOMAIN s.vbos
    PROVE  LET r == [s EXCEPT !.cashback_vb[owner] = id]
               q == [s EXCEPT !.pay_vb[owner] = id]
           IN  /\ VestingsOK(r, t) /\ r.pending_fees = s.pending_fees
               /\ r.pending_vested_fees = s.pending_vested_fees
               /\ VestingsOK(q, t) /\ q.pending_fees = s.pending_fees
               /\ q.pending_vested_fees = s.pending_vested_fees
<1> DEFINE r == [s EXCEPT !.cashback_vb[owner] = id]
           q == [s EXCEPT !.pay_vb[owner] = id]
           f == [s.cashback_vb EXCEPT ![owner] = id]
           g == [s.pay_vb EXCEPT ![owner] = id]
<1>1. /\ f \in [Account -> DOMAIN s.vbos \cup {NoVesting}]
      /\ g \in [Account -> DOMAIN s.vbos \cup {NoVesting}]
  BY DEF VestingsOK
<1>2. r = [s EXCEPT !.cashback_vb = f] /\ q = [s EXCEPT !.pay_vb = g]
  BY VestingFields
<1> HIDE DEF f, g, r, q
<1>3. r = [balances |-> s.balances, vbos |-> s.vbos, next_id |-> s.next_id,
           cashback_vb |-> f, pay_vb |-> s.pay_vb, pending_fees |-> s.pending_fees,
           pending_vested_fees |-> s.pending_vested_fees, accumulated_fees |-> s.accumulated_fees,
           witness_budget |-> s.witness_budget, supply |-> s.supply, deposits |-> s.deposits]
  BY <1>2, VestingFields
<1>4. q = [balances |-> s.balances, vbos |-> s.vbos, next_id |-> s.next_id,
           cashback_vb |-> s.cashback_vb, pay_vb |-> g, pending_fees |-> s.pending_fees,
           pending_vested_fees |-> s.pending_vested_fees, accumulated_fees |-> s.accumulated_fees,
           witness_budget |-> s.witness_budget, supply |-> s.supply, deposits |-> s.deposits]
  BY <1>2, VestingFields
<1>5. VestingsOK(r, t)
  BY <1>1, <1>3 DEF VestingsOK
<1>6. VestingsOK(q, t)
  BY <1>1, <1>4 DEF VestingsOK
<1> QED BY <1>3, <1>4, <1>5, <1>6 DEF r, q

\* What is in use for an account, either way
LEMMA LazyKeeps ==
    ASSUME NEW s, NEW t \in Nat, VestingsOK(s, t), NEW use \in {"cashback_vb", "pay_vb"},
           NEW type \in {"cashback", "witness"}, NEW owner \in Account, NEW seconds \in Nat,
           NEW n \in Nat, NEW must \in BOOLEAN
    PROVE  LET r == deposit_lazy_vesting(s, use, type, owner, seconds, n, must, t)
           IN  /\ VestingsOK(r, t)
               /\ r.pending_fees = s.pending_fees /\ r.pending_vested_fees = s.pending_vested_fees
<1> DEFINE r == deposit_lazy_vesting(s, use, type, owner, seconds, n, must, t)
           id == s[use][owner]
           d == IF must THEN deposit(s.vbos[id], t, n) ELSE deposit_vested(s.vbos[id], t, n)
           e == IF must THEN 0 ELSE n * seconds
           p == [kind |-> "cdd", start_claim |-> 0, vesting_seconds |-> seconds]
           v == NewVesting(owner, n, type, p, e, t)
           q == Add(s, v)
<1>1. CASE n = 0
  BY <1>1, Zenon DEF deposit_lazy_vesting
<1>2. CASE n # 0 /\ Fits(s, id, owner, seconds)
  <2>1. r = Set(s, id, d)
    BY <1>2 DEF deposit_lazy_vesting
  <2>2. id \in DOMAIN s.vbos
    <3>1. s.cashback_vb[owner] \in DOMAIN s.vbos \cup {NoVesting}
          /\ s.pay_vb[owner] \in DOMAIN s.vbos \cup {NoVesting}
      BY DEF VestingsOK
    <3>2. id = s.cashback_vb[owner] \/ id = s.pay_vb[owner]
      OBVIOUS
    <3>3. id # NoVesting
      BY <1>2, Zenon DEF Fits
    <3> QED BY <3>1, <3>2, <3>3
  <2>3. BalanceOK(s.vbos[id], t) /\ s.vbos[id].policy.kind # "linear"
    BY <1>2, <2>2, Zenon DEF VestingsOK, Fits
  <2>4. BalanceOK(d, t)
    BY <2>3, DepositKeeps
  <2> HIDE DEF d
  <2> QED BY <2>1, <2>4, SetKeeps
<1>3. CASE n # 0 /\ ~Fits(s, id, owner, seconds)
  <2>1. p \in Policy /\ p.kind = "cdd" /\ p.vesting_seconds = seconds
    BY DEF Policy
  <2>2. e \in Nat /\ (e = 0 \/ e = n * seconds) /\ type # "market_fee_sharing"
        /\ type \in {"cashback", "witness", "market_fee_sharing", "unspecified"}
    OBVIOUS
  <2>3. r = [q EXCEPT ![use][owner] = s.next_id]
    BY <1>3 DEF deposit_lazy_vesting
  <2> HIDE DEF p, e
  <2>4. BalanceOK(v, t)
    BY <2>1, <2>2, NewKeeps
  <2> HIDE DEF v
  <2>5. /\ VestingsOK(q, t) /\ s.next_id \in DOMAIN q.vbos
        /\ q.pending_fees = s.pending_fees /\ q.pending_vested_fees = s.pending_vested_fees
    BY <2>4, AddKeeps, Zenon
  <2> HIDE DEF q, r
  <2>6. CASE use = "cashback_vb"
    <3>1. r = [q EXCEPT !.cashback_vb[owner] = s.next_id]
      BY <2>3, <2>6, Zenon
    <3>2. VestingsOK(r, t) /\ r.pending_fees = q.pending_fees
          /\ r.pending_vested_fees = q.pending_vested_fees
      BY <2>5, <3>1, UseKeeps, ZenonT(60)
    <3> QED BY <2>5, <3>2 DEF r
  <2>7. CASE use = "pay_vb"
    <3>1. r = [q EXCEPT !.pay_vb[owner] = s.next_id]
      BY <2>3, <2>7, Zenon
    <3>2. VestingsOK(r, t) /\ r.pending_fees = q.pending_fees
          /\ r.pending_vested_fees = q.pending_vested_fees
      BY <2>5, <3>1, UseKeeps, ZenonT(60)
    <3> QED BY <2>5, <3>2 DEF r
  <2> QED BY <2>6, <2>7
<1> QED BY <1>1, <1>2, <1>3, Zenon

LEMMA CashbackKeeps ==
    ASSUME NEW s, NEW t \in Nat, VestingsOK(s, t), NEW acct \in Account, NEW n \in Nat,
           NEW must \in BOOLEAN, period \in Nat
    PROVE  LET r == deposit_cashback(s, acct, n, must, t)
           IN  /\ VestingsOK(r, t)
               /\ r.pending_fees = s.pending_fees /\ r.pending_vested_fees = s.pending_vested_fees
<1> DEFINE r == deposit_cashback(s, acct, n, must, t)
<1>1. CASE n = 0
  BY <1>1 DEF deposit_cashback
<1>2. CASE n # 0 /\ acct \in Reserved
  <2>1. r = [s EXCEPT !.supply = @ - n]
    BY <1>2 DEF deposit_cashback
  <2> HIDE DEF r
  <2>2. r = [balances |-> s.balances, vbos |-> s.vbos, next_id |-> s.next_id,
             cashback_vb |-> s.cashback_vb, pay_vb |-> s.pay_vb, pending_fees |-> s.pending_fees,
             pending_vested_fees |-> s.pending_vested_fees, accumulated_fees |-> s.accumulated_fees,
             witness_budget |-> s.witness_budget, supply |-> s.supply - n, deposits |-> s.deposits]
    BY <2>1, VestingFields
  <2>3. VestingsOK(r, t)
    BY <2>2, VestingFields, SameVestings
  <2> QED BY <2>2, <2>3 DEF r
<1>3. CASE n # 0 /\ acct \notin Reserved
  <2>1. r = deposit_lazy_vesting(s, "cashback_vb", "cashback", acct, period, n, must, t)
    BY <1>3 DEF deposit_cashback
  <2> HIDE DEF r
  <2>2. "cashback_vb" \in {"cashback_vb", "pay_vb"} /\ "cashback" \in {"cashback", "witness"}
    OBVIOUS
  <2>3. /\ VestingsOK(r, t)
        /\ r.pending_fees = s.pending_fees /\ r.pending_vested_fees = s.pending_vested_fees
    BY <2>1, <2>2, LazyKeeps, SMTT(30)
  <2> QED BY <2>3 DEF r
<1> QED BY <1>1, <1>2, <1>3

\* The parts of a fee are not negative.
LEMMA CutFacts ==
    ASSUME NEW n \in Nat, NEW p \in Nat, NEW q \in Nat, p + q <= 10000
    PROVE  /\ cut_fee(n, p) \in Nat /\ cut_fee(n, q) \in Nat
           /\ n - cut_fee(n, p) - cut_fee(n, q) \in Nat
<1> DEFINE x == cut_fee(n, p)
           y == cut_fee(n, q)
<1>1. n * p \in Nat /\ n * q \in Nat
  OBVIOUS
<1>2. x \in Nat /\ x * 10000 <= n * p /\ y \in Nat /\ y * 10000 <= n * q
  BY <1>1, FloorFacts DEF cut_fee
<1> HIDE DEF x, y
<1>3. n * p + n * q = n * (p + q) /\ n * (p + q) <= n * 10000
  OBVIOUS
<1>4. (x + y) * 10000 <= n * 10000
  BY <1>1, <1>2, <1>3
<1>5. x + y <= n
  BY <1>2, <1>4
<1>6. n - x - y \in Nat
  BY <1>2, <1>5
<1> QED BY <1>2, <1>6 DEF x, y

LEMMA PayOutKeeps ==
    ASSUME NEW s, NEW t \in Nat, VestingsOK(s, t), NEW acct \in Account, NEW n \in Nat,
           NEW must \in BOOLEAN, period \in Nat
    PROVE  LET r == pay_out_fees(s, acct, n, must, t)
           IN  /\ VestingsOK(r, t)
               /\ r.pending_fees = s.pending_fees /\ r.pending_vested_fees = s.pending_vested_fees
<1> DEFINE m == Members[acct]
           np == m.network_fee_percentage
           lp == m.lifetime_referrer_fee_percentage
           rp == m.referrer_rewards_percentage
           referrer == IF m.referrer_basic THEN m.lifetime_referrer ELSE m.referrer
           network_cut == cut_fee(n, np)
           lifetime_cut == cut_fee(n, lp)
           referral == n - network_cut - lifetime_cut
           referrer_cut == cut_fee(referral, rp)
           rest == referral - referrer_cut
           s0 == [s EXCEPT !.accumulated_fees = @ + network_cut]
           s1 == deposit_cashback(s0, m.lifetime_referrer, lifetime_cut, must, t)
           s2 == deposit_cashback(s1, referrer, referrer_cut, must, t)
           s3 == deposit_cashback(s2, m.registrar, rest, must, t)
<1>1. pay_out_fees(s, acct, n, must, t) = s3
  BY DEF pay_out_fees
<1>2. /\ m.lifetime_referrer \in Account /\ referrer \in Account /\ m.registrar \in Account
      /\ np \in Nat /\ lp \in Nat /\ np + lp <= 10000 /\ rp \in Nat /\ rp <= 10000
  <2>1. m \in Membership
    BY VestingAssumption
  <2>2. np + lp <= 10000 /\ rp <= 10000
    BY VestingAssumption
  <2> HIDE DEF m
  <2> QED BY <2>1, <2>2 DEF Membership
<1> HIDE DEF m, np, lp, rp, referrer, network_cut, lifetime_cut, referral, referrer_cut, rest, s0, s1, s2, s3
<1>3. lifetime_cut \in Nat /\ referral \in Nat
  <2>1. /\ cut_fee(n, np) \in Nat /\ cut_fee(n, lp) \in Nat
        /\ n - cut_fee(n, np) - cut_fee(n, lp) \in Nat
    BY <1>2, CutFacts, SMTT(40)
  <2> QED BY <2>1 DEF lifetime_cut, network_cut, referral
<1>4. referrer_cut \in Nat /\ rest \in Nat
  <2>1. /\ cut_fee(referral, 0) \in Nat /\ referrer_cut \in Nat
        /\ referral - referrer_cut - cut_fee(referral, 0) \in Nat
    <3> DEFINE z == 0
    <3>1. z \in Nat /\ rp + z <= 10000
      BY <1>2
    <3> HIDE DEF z
    <3>2. /\ cut_fee(referral, rp) \in Nat /\ cut_fee(referral, z) \in Nat
          /\ referral - cut_fee(referral, rp) - cut_fee(referral, z) \in Nat
      BY <1>2, <1>3, <3>1, CutFacts
    <3> QED BY <3>2 DEF referrer_cut, z
  <2> QED BY <1>3, <2>1 DEF rest
<1>5. /\ VestingsOK(s0, t)
      /\ s0.pending_fees = s.pending_fees /\ s0.pending_vested_fees = s.pending_vested_fees
  <2>1. s0 = [balances |-> s.balances, vbos |-> s.vbos, next_id |-> s.next_id,
              cashback_vb |-> s.cashback_vb, pay_vb |-> s.pay_vb, pending_fees |-> s.pending_fees,
              pending_vested_fees |-> s.pending_vested_fees,
              accumulated_fees |-> s.accumulated_fees + network_cut,
              witness_budget |-> s.witness_budget, supply |-> s.supply, deposits |-> s.deposits]
    BY VestingFields DEF s0
  <2>2. VestingsOK(s0, t)
    BY <2>1, VestingFields, SameVestings
  <2> QED BY <2>1, <2>2
<1>6. /\ VestingsOK(s1, t)
      /\ s1.pending_fees = s.pending_fees /\ s1.pending_vested_fees = s.pending_vested_fees
  BY <1>2, <1>3, <1>5, CashbackKeeps, SMTT(30) DEF s1
<1>7. /\ VestingsOK(s2, t)
      /\ s2.pending_fees = s.pending_fees /\ s2.pending_vested_fees = s.pending_vested_fees
  BY <1>2, <1>4, <1>6, CashbackKeeps, SMTT(40) DEF s2
<1>8. /\ VestingsOK(s3, t)
      /\ s3.pending_fees = s.pending_fees /\ s3.pending_vested_fees = s.pending_vested_fees
  BY <1>2, <1>4, <1>7, CashbackKeeps, SMTT(40) DEF s3
<1> QED BY <1>1, <1>8

\* A change of one of the fields the vesting balances do not depend on.
LEMMA OtherFieldKept ==
    ASSUME NEW s, NEW t \in Nat, VestingsOK(s, t), NEW x
    PROVE  /\ VestingsOK([s EXCEPT !.balances = x], t)
           /\ VestingsOK([s EXCEPT !.deposits = x], t)
           /\ VestingsOK([s EXCEPT !.witness_budget = x], t)
           /\ x \in [Account -> Nat] => /\ VestingsOK([s EXCEPT !.pending_fees = x], t)
                                       /\ VestingsOK([s EXCEPT !.pending_vested_fees = x], t)
<1>1. VestingsOK([s EXCEPT !.balances = x], t)
  <2> DEFINE r == [s EXCEPT !.balances = x]
  <2>1. r = [balances |-> x, vbos |-> s.vbos, next_id |-> s.next_id,
             cashback_vb |-> s.cashback_vb, pay_vb |-> s.pay_vb, pending_fees |-> s.pending_fees,
             pending_vested_fees |-> s.pending_vested_fees, accumulated_fees |-> s.accumulated_fees,
             witness_budget |-> s.witness_budget, supply |-> s.supply, deposits |-> s.deposits]
    BY VestingFields
  <2> HIDE DEF r
  <2>2. VestingsOK(r, t)
    BY <2>1, VestingFields, SameVestings
  <2> QED BY <2>2 DEF r
<1>2. VestingsOK([s EXCEPT !.deposits = x], t)
  <2> DEFINE r == [s EXCEPT !.deposits = x]
  <2>1. r = [balances |-> s.balances, vbos |-> s.vbos, next_id |-> s.next_id,
             cashback_vb |-> s.cashback_vb, pay_vb |-> s.pay_vb, pending_fees |-> s.pending_fees,
             pending_vested_fees |-> s.pending_vested_fees, accumulated_fees |-> s.accumulated_fees,
             witness_budget |-> s.witness_budget, supply |-> s.supply, deposits |-> x]
    BY VestingFields
  <2> HIDE DEF r
  <2>2. VestingsOK(r, t)
    BY <2>1, VestingFields, SameVestings
  <2> QED BY <2>2 DEF r
<1>3. VestingsOK([s EXCEPT !.witness_budget = x], t)
  <2> DEFINE r == [s EXCEPT !.witness_budget = x]
  <2>1. r = [balances |-> s.balances, vbos |-> s.vbos, next_id |-> s.next_id,
             cashback_vb |-> s.cashback_vb, pay_vb |-> s.pay_vb, pending_fees |-> s.pending_fees,
             pending_vested_fees |-> s.pending_vested_fees, accumulated_fees |-> s.accumulated_fees,
             witness_budget |-> x, supply |-> s.supply, deposits |-> s.deposits]
    BY VestingFields
  <2> HIDE DEF r
  <2>2. VestingsOK(r, t)
    BY <2>1, VestingFields, SameVestings
  <2> QED BY <2>2 DEF r
<1>4. x \in [Account -> Nat] => VestingsOK([s EXCEPT !.pending_fees = x], t)
  <2> DEFINE r == [s EXCEPT !.pending_fees = x]
  <2>1. r = [balances |-> s.balances, vbos |-> s.vbos, next_id |-> s.next_id,
             cashback_vb |-> s.cashback_vb, pay_vb |-> s.pay_vb, pending_fees |-> x,
             pending_vested_fees |-> s.pending_vested_fees, accumulated_fees |-> s.accumulated_fees,
             witness_budget |-> s.witness_budget, supply |-> s.supply, deposits |-> s.deposits]
    BY VestingFields
  <2> HIDE DEF r
  <2>2. x \in [Account -> Nat] => VestingsOK(r, t)
    BY <2>1, VestingFields, SameVestings
  <2> QED BY <2>2 DEF r
<1>5. x \in [Account -> Nat] => VestingsOK([s EXCEPT !.pending_vested_fees = x], t)
  <2> DEFINE r == [s EXCEPT !.pending_vested_fees = x]
  <2>1. r = [balances |-> s.balances, vbos |-> s.vbos, next_id |-> s.next_id,
             cashback_vb |-> s.cashback_vb, pay_vb |-> s.pay_vb, pending_fees |-> s.pending_fees,
             pending_vested_fees |-> x, accumulated_fees |-> s.accumulated_fees,
             witness_budget |-> s.witness_budget, supply |-> s.supply, deposits |-> s.deposits]
    BY VestingFields
  <2> HIDE DEF r
  <2>2. x \in [Account -> Nat] => VestingsOK(r, t)
    BY <2>1, VestingFields, SameVestings
  <2> QED BY <2>2 DEF r
<1> QED BY <1>1, <1>2, <1>3, <1>4, <1>5

LEMMA MarketFeeKeeps ==
    ASSUME NEW s, NEW t \in Nat, VestingsOK(s, t), NEW acct \in Account, NEW n \in Nat
    PROVE  VestingsOK(deposit_market_fee_vesting_balance(s, acct, n, t), t)
<1> DEFINE r == deposit_market_fee_vesting_balance(s, acct, n, t)
           S == MarketFeeVestings(s, acct)
           p == [kind |-> "instant"]
           v == NewVesting(acct, n, "market_fee_sharing", p, 0, t)
           id == CHOOSE i \in S : TRUE
           d == deposit_vested(s.vbos[id], t, n)
<1>1. CASE n = 0
  BY <1>1 DEF deposit_market_fee_vesting_balance
<1>2. CASE n # 0 /\ S = {}
  <2>1. r = Add(s, v)
    BY <1>2 DEF deposit_market_fee_vesting_balance
  <2>2. p \in Policy /\ p.kind = "instant" /\ p.kind # "cdd"
    BY DEF Policy
  <2> HIDE DEF p
  <2>3. BalanceOK(v, t)
    BY <2>2, NewKeeps
  <2> HIDE DEF v
  <2> QED BY <2>1, <2>3, AddKeeps
<1>3. CASE n # 0 /\ S # {}
  <2>1. r = Set(s, id, d)
    BY <1>3 DEF deposit_market_fee_vesting_balance
  <2>2. id \in S
    BY <1>3
  <2> HIDE DEF id
  <2>3. id \in DOMAIN s.vbos /\ s.vbos[id].balance_type = "market_fee_sharing"
    BY <2>2, Zenon DEF MarketFeeVestings
  <2>4. BalanceOK(s.vbos[id], t)
    BY <2>3, Zenon DEF VestingsOK
  <2>5. s.vbos[id].policy.kind # "linear"
    BY <2>3, <2>4, Zenon DEF BalanceOK
  <2>6. BalanceOK(d, t)
    BY <2>4, <2>5, DepositKeeps
  <2> HIDE DEF d
  <2> QED BY <2>1, <2>6, SetKeeps
<1> QED BY <1>1, <1>2, <1>3

VestingInv == vesting_time \in Nat /\ period \in Nat /\ VestingsOK(vt, vesting_time)

LEMMA VestingStep == VestingInv /\ [VestingNext]_vesting_vars => VestingInv'
<1> SUFFICES ASSUME VestingInv, [VestingNext]_vesting_vars PROVE VestingInv'
  OBVIOUS
<1>0. /\ vesting_time \in Nat /\ period \in Nat /\ VestingsOK(vt, vesting_time)
      /\ VestingAmounts \subseteq Nat \ {0} /\ witness_pay_vesting_seconds \in Nat
      /\ Periods \subseteq Nat /\ Policies \subseteq Policy
  BY VestingAssumption DEF VestingInv
<1>1. ASSUME NEW acct \in Account, process_fees(acct) PROVE VestingInv'
  <2> DEFINE a == vt.pending_fees[acct]
             b == vt.pending_vested_fees[acct]
             r == pay_out_fees(vt, acct, a, TRUE, vesting_time)
             q == pay_out_fees(r, acct, b, FALSE, vesting_time)
  <2>1. /\ vt' = [q EXCEPT !.pending_fees[acct] = 0, !.pending_vested_fees[acct] = 0]
        /\ vesting_time' = vesting_time /\ period' = period
    BY <1>1 DEF process_fees
  <2>2. a \in Nat /\ b \in Nat
    BY <1>0, VestingFields
  <2> HIDE DEF a, b
  <2>3. VestingsOK(r, vesting_time)
    BY <1>0, <2>2, PayOutKeeps, Zenon
  <2> HIDE DEF r
  <2>4. VestingsOK(q, vesting_time)
    BY <1>0, <2>2, <2>3, PayOutKeeps, Zenon
  <2> HIDE DEF q
  <2> DEFINE f == [q.pending_fees EXCEPT ![acct] = 0]
             g == [q.pending_vested_fees EXCEPT ![acct] = 0]
             u == [q EXCEPT !.pending_fees = f]
  <2>5. f \in [Account -> Nat] /\ g \in [Account -> Nat]
    BY <1>0, <2>4, VestingFields
  <2>6. vt' = [u EXCEPT !.pending_vested_fees = g]
    BY <1>0, <2>1, <2>4, VestingFields
  <2> HIDE DEF f, g
  <2>7. VestingsOK(u, vesting_time)
    BY <1>0, <2>4, <2>5, OtherFieldKept, Zenon
  <2> HIDE DEF u
  <2>8. VestingsOK(vt', vesting_time)
    BY <1>0, <2>5, <2>6, <2>7, OtherFieldKept, Zenon
  <2> QED BY <1>0, <2>1, <2>8 DEF VestingInv
<1>2. ASSUME NEW acct \in Account, NEW n \in VestingAmounts, pay_fee(acct, n) PROVE VestingInv'
  <2> DEFINE f == [vt.pending_fees EXCEPT ![acct] = @ + n]
             g == [vt.pending_vested_fees EXCEPT ![acct] = @ + n]
             b == [vt.balances EXCEPT ![acct] = @ - n]
             d == vt.deposits + 1
             u == [vt EXCEPT !.balances = b]
             w == [u EXCEPT !.deposits = d]
  <2>1. vesting_time' = vesting_time /\ period' = period
    BY <1>2 DEF pay_fee
  <2>2. n \in Nat /\ vt.pending_fees \in [Account -> Nat] /\ vt.pending_vested_fees \in [Account -> Nat]
    BY <1>0, VestingFields
  <2>3. f \in [Account -> Nat] /\ g \in [Account -> Nat]
    BY <2>2
  <2>4. vt' = [w EXCEPT !.pending_fees = f] \/ vt' = [w EXCEPT !.pending_vested_fees = g]
    <3>1. CASE n > cashback_vesting_threshold
      <4>1. vt' = [vt EXCEPT !.balances[acct] = @ - n, !.deposits = @ + 1, !.pending_fees[acct] = @ + n]
        BY <1>2, <3>1, Zenon DEF pay_fee
      <4> QED BY <1>0, <4>1, VestingFields
    <3>2. CASE ~(n > cashback_vesting_threshold)
      <4>1. vt' = [vt EXCEPT !.balances[acct] = @ - n, !.deposits = @ + 1, !.pending_vested_fees[acct] = @ + n]
        BY <1>2, <3>2, Zenon DEF pay_fee
      <4> QED BY <1>0, <4>1, VestingFields
    <3> QED BY <3>1, <3>2
  <2> HIDE DEF f, g, b, d
  <2>5. VestingsOK(u, vesting_time)
    BY <1>0, OtherFieldKept, Zenon
  <2> HIDE DEF u
  <2>6. VestingsOK(w, vesting_time)
    BY <1>0, <2>5, OtherFieldKept, Zenon
  <2> HIDE DEF w
  <2>7. /\ VestingsOK([w EXCEPT !.pending_fees = f], vesting_time)
        /\ VestingsOK([w EXCEPT !.pending_vested_fees = g], vesting_time)
    BY <1>0, <2>3, <2>6, OtherFieldKept, Zenon
  <2>8. VestingsOK(vt', vesting_time)
    BY <2>4, <2>7
  <2> QED BY <1>0, <2>1, <2>8 DEF VestingInv
<1>3. ASSUME NEW acct \in Account, NEW n \in VestingAmounts, deposit_witness_pay(acct, n) PROVE VestingInv'
  <2> DEFINE s == [vt EXCEPT !.witness_budget = @ - n, !.deposits = @ + 1]
             b == vt.witness_budget - n
             d == vt.deposits + 1
             u == [vt EXCEPT !.witness_budget = b]
  <2>1. /\ vt' = deposit_lazy_vesting(s, "pay_vb", "witness", acct, witness_pay_vesting_seconds, n,
                                      TRUE, vesting_time)
        /\ vesting_time' = vesting_time /\ period' = period
    BY <1>3 DEF deposit_witness_pay
  <2>2. s = [u EXCEPT !.deposits = d]
    BY <1>0, VestingFields
  <2> HIDE DEF s, b, d
  <2>3. VestingsOK(u, vesting_time)
    BY <1>0, OtherFieldKept, Zenon
  <2> HIDE DEF u
  <2>4. VestingsOK(s, vesting_time)
    BY <1>0, <2>2, <2>3, OtherFieldKept, Zenon
  <2>5. VestingsOK(vt', vesting_time)
    <3> DEFINE must == TRUE
               r == deposit_lazy_vesting(s, "pay_vb", "witness", acct, witness_pay_vesting_seconds, n,
                                         must, vesting_time)
    <3>1. /\ "pay_vb" \in {"cashback_vb", "pay_vb"} /\ "witness" \in {"cashback", "witness"}
          /\ n \in Nat /\ must \in BOOLEAN
      BY <1>0
    <3>2. vt' = r
      BY <2>1
    <3> HIDE DEF must
    <3>3. VestingsOK(r, vesting_time)
      BY <1>0, <2>4, <3>1, LazyKeeps, SMTT(30)
    <3> QED BY <3>2, <3>3
  <2> QED BY <1>0, <2>1, <2>5, Zenon DEF VestingInv
<1>4. ASSUME NEW payer \in Account, NEW acct \in Account, NEW n \in VestingAmounts,
             pay_market_fee(payer, acct, n)
      PROVE  VestingInv'
  <2> DEFINE s == [vt EXCEPT !.balances[payer] = @ - n, !.deposits = @ + 1]
             b == [vt.balances EXCEPT ![payer] = @ - n]
             d == vt.deposits + 1
             u == [vt EXCEPT !.balances = b]
  <2>1. /\ vt' = deposit_market_fee_vesting_balance(s, acct, n, vesting_time)
        /\ vesting_time' = vesting_time /\ period' = period
    BY <1>4 DEF pay_market_fee
  <2>2. s = [u EXCEPT !.deposits = d]
    BY <1>0, VestingFields
  <2> HIDE DEF s, b, d
  <2>3. VestingsOK(u, vesting_time)
    BY <1>0, OtherFieldKept, Zenon
  <2> HIDE DEF u
  <2>4. VestingsOK(s, vesting_time)
    BY <1>0, <2>2, <2>3, OtherFieldKept, Zenon
  <2>5. VestingsOK(vt', vesting_time)
    BY <1>0, <2>1, <2>4, MarketFeeKeeps
  <2> QED BY <1>0, <2>1, <2>5 DEF VestingInv
<1>5. ASSUME NEW creator \in Account, NEW owner \in Account, NEW n \in VestingAmounts,
             NEW policy \in Policies, vesting_balance_create(creator, owner, n, policy)
      PROVE  VestingInv'
  <2> DEFINE s == [vt EXCEPT !.balances[creator] = @ - n, !.deposits = @ + 1]
             b == [vt.balances EXCEPT ![creator] = @ - n]
             d == vt.deposits + 1
             u == [vt EXCEPT !.balances = b]
             v == NewVesting(owner, n, "unspecified", policy, 0, vesting_time)
  <2>1. vt' = Add(s, v) /\ vesting_time' = vesting_time /\ period' = period
    BY <1>5 DEF vesting_balance_create
  <2>2. s = [u EXCEPT !.deposits = d]
    BY <1>0, VestingFields
  <2> HIDE DEF s, b, d, v
  <2>3. VestingsOK(u, vesting_time)
    BY <1>0, OtherFieldKept, Zenon
  <2> HIDE DEF u
  <2>4. VestingsOK(s, vesting_time)
    BY <1>0, <2>2, <2>3, OtherFieldKept, Zenon
  <2>5. BalanceOK(v, vesting_time)
    BY <1>0, NewKeeps DEF v
  <2>6. VestingsOK(vt', vesting_time)
    BY <1>0, <2>1, <2>4, <2>5, AddKeeps
  <2> QED BY <1>0, <2>1, <2>6 DEF VestingInv
<1>6. ASSUME NEW owner \in Account, NEW id \in VestingId, NEW n \in VestingAmounts,
             vesting_balance_withdraw(owner, id, n)
      PROVE  VestingInv'
  <2> DEFINE w == withdraw(vt.vbos[id], vesting_time, n)
             s == Set(vt, id, w)
             b == [s.balances EXCEPT ![owner] = @ + n]
  <2>1. /\ vt' = [s EXCEPT !.balances = b] /\ id \in DOMAIN vt.vbos
        /\ n <= get_allowed_withdraw(vt.vbos[id], vesting_time)
        /\ vesting_time' = vesting_time /\ period' = period
    BY <1>6 DEF vesting_balance_withdraw
  <2>2. BalanceOK(vt.vbos[id], vesting_time)
    BY <1>0, <2>1 DEF VestingsOK
  <2>3. BalanceOK(w, vesting_time)
    BY <1>0, <2>1, <2>2, WithdrawKeeps
  <2> HIDE DEF w
  <2>4. VestingsOK(s, vesting_time)
    BY <1>0, <2>3, SetKeeps
  <2> HIDE DEF s, b
  <2>5. VestingsOK(vt', vesting_time)
    BY <1>0, <2>1, <2>4, OtherFieldKept, Zenon
  <2> QED BY <1>0, <2>1, <2>5 DEF VestingInv
<1>7. ASSUME NEW seconds \in Periods, ChangePeriod(seconds) PROVE VestingInv'
  BY <1>0, <1>7 DEF ChangePeriod, VestingInv
<1>8. ASSUME vesting_block PROVE VestingInv'
  <2> DEFINE w == [id \in DOMAIN vt.vbos |->
                      [vt.vbos[id] EXCEPT !.accrued =
                          @ + (IF vt.vbos[id].policy.kind = "cdd" THEN vt.vbos[id].balance ELSE 0)]]
             t == vesting_time + 1
  <2>1. vt' = [vt EXCEPT !.vbos = w] /\ vesting_time' = t /\ period' = period
    BY <1>8, Zenon DEF vesting_block
  <2>2. \A id \in DOMAIN vt.vbos : BalanceOK(vt.vbos[id], vesting_time)
    BY <1>0 DEF VestingsOK
  <2>3. DOMAIN w = DOMAIN vt.vbos /\ \A id \in DOMAIN vt.vbos : BalanceOK(w[id], t)
    BY <1>0, <2>2, TickKeeps, SMTT(40)
  <2> HIDE DEF w
  <2>4. vt' = [balances |-> vt.balances, vbos |-> w, next_id |-> vt.next_id,
               cashback_vb |-> vt.cashback_vb, pay_vb |-> vt.pay_vb, pending_fees |-> vt.pending_fees,
               pending_vested_fees |-> vt.pending_vested_fees, accumulated_fees |-> vt.accumulated_fees,
               witness_budget |-> vt.witness_budget, supply |-> vt.supply, deposits |-> vt.deposits]
    BY <1>0, <2>1, VestingFields
  <2> HIDE DEF t
  <2>5. VestingsOK(vt', t)
    BY <1>0, <2>3, <2>4 DEF VestingsOK
  <2>6. t \in Nat
    BY <1>0 DEF t
  <2> QED BY <1>0, <2>1, <2>5, <2>6 DEF VestingInv
<1>9. CASE UNCHANGED vesting_vars
  BY <1>9, Zenon DEF VestingInv, vesting_vars
<1> QED BY <1>1, <1>2, <1>3, <1>4, <1>5, <1>6, <1>7, <1>8, <1>9, Zenon DEF VestingNext

\* What BalanceOK says of a balance, in the terms of VestedOnly.
LEMMA BalanceMeans ==
    ASSUME NEW v, NEW t \in Nat, BalanceOK(v, t)
    PROVE  /\ v.policy.kind = "cdd" =>
                 /\ v.taken * AtLeast1(v.policy.vesting_seconds) <= v.accrued
                 /\ v.taken > 0 => t > v.policy.start_claim
           /\ v.policy.kind = "linear" /\ v.taken > 0 =>
                 /\ t >= v.policy.begin_timestamp + v.policy.vesting_cliff_seconds
                 /\ v.taken * v.policy.vesting_duration_seconds
                       <= v.begin_balance * (t - v.policy.begin_timestamp)
                    \/ t >= v.policy.begin_timestamp + v.policy.vesting_duration_seconds
<1>1. v \in VestingBalance /\ v.policy \in Policy
  BY BalanceFields DEF BalanceOK
<1>2. v.balance \in Nat /\ v.earned \in Nat /\ v.last_update \in Nat /\ v.taken \in Nat /\ v.accrued \in Nat
  BY <1>1, BalanceFields
<1>3. ASSUME v.policy.kind = "cdd"
      PROVE  /\ v.taken * AtLeast1(v.policy.vesting_seconds) <= v.accrued
             /\ v.taken > 0 => t > v.policy.start_claim
  <2> DEFINE s == AtLeast1(v.policy.vesting_seconds)
             b == v.balance
             u == v.last_update
             k == v.taken
  <2>1. s \in Nat
    BY <1>1, <1>3, PolicyFacts
  <2>2. u <= t /\ k * s + v.earned + b * (t - u) <= v.accrued
    BY <1>3 DEF BalanceOK, Earned
  <2> HIDE DEF s
  <2>3. k * s \in Nat /\ t - u \in Nat
    BY <1>2, <2>1, <2>2
  <2> HIDE DEF b, u, k
  <2>4. b \in Nat
    BY <1>2 DEF b
  <2>5. b * (t - u) \in Nat
    BY <2>3, <2>4
  <2>6. k * s <= v.accrued
    BY <1>2, <2>2, <2>3, <2>5
  <2>7. v.taken > 0 => t > v.policy.start_claim
    BY <1>3 DEF BalanceOK
  <2> QED BY <2>6, <2>7 DEF k, s
<1>4. ASSUME v.policy.kind = "linear", v.taken > 0
      PROVE  /\ t >= v.policy.begin_timestamp + v.policy.vesting_cliff_seconds
             /\ v.taken * v.policy.vesting_duration_seconds
                   <= v.begin_balance * (t - v.policy.begin_timestamp)
                \/ t >= v.policy.begin_timestamp + v.policy.vesting_duration_seconds
  <2> DEFINE b == v.policy.begin_timestamp
             d == v.policy.vesting_duration_seconds
             c == v.policy.vesting_cliff_seconds
             w == TotalVested(v, t)
             k == v.taken
  <2>1. b \in Nat /\ d \in Nat /\ c \in Nat
    BY <1>1, <1>4, PolicyFacts, Zenon
  <2>2. t > b /\ t - b >= c /\ k <= w
    BY <1>4, Zenon DEF BalanceOK, LinearDue
  <2>3. w \in 0..v.begin_balance /\ (w * d <= v.begin_balance * (t - b) \/ t >= b + d)
    BY <1>1, <1>4, <2>2, TotalVestedFacts
  <2>4. w \in Nat /\ v.begin_balance \in Nat
    BY <1>1, <2>3, BalanceFields
  <2> HIDE DEF w
  <2>5. k * d <= w * d
    BY <1>2, <2>1, <2>2, <2>4
  <2> DEFINE x == w * d
             y == k * d
             z == v.begin_balance * (t - b)
  <2>6. x \in Nat /\ y \in Nat /\ z \in Nat
    BY <1>2, <2>1, <2>2, <2>4
  <2>7. y <= x /\ (x <= z \/ t >= b + d)
    BY <2>3, <2>5
  <2> HIDE DEF x, y, z
  <2>8. y <= z \/ t >= b + d
    BY <2>6, <2>7
  <2>9. t >= b + c
    BY <2>1, <2>2
  <2> QED BY <2>8, <2>9 DEF y, z
<1> QED BY <1>3, <1>4, Zenon

\* Nothing can be withdrawn that has not vested, for all policies, deposits, fees and
\* periods (vesting_balance_object.cpp, db_balance.cpp, vesting_balance_evaluator.cpp).
THEOREM VestedOnlyAlways == VestingSpec => []VestedOnly
<1>1. VestingInit => VestingInv
  <2> SUFFICES ASSUME VestingInit PROVE VestingInv
    OBVIOUS
  <2>1. Max(Periods) \in Nat
    <3>1. Periods \subseteq Nat
      BY VestingAssumption
    <3>2. PICK most \in Periods : \A p \in Periods : p <= most
      BY VestingAssumption
    <3>3. \A p \in Periods : most >= p
      BY <3>1, <3>2
    <3>4. Max(Periods) \in Periods
      BY <3>3 DEF Max
    <3> QED BY <3>1, <3>4, Zenon
  <2>2. period \in Nat /\ vesting_time \in Nat
    BY <2>1, Zenon DEF VestingInit
  <2>3. VestingsOK(vt, vesting_time)
    BY Zenon DEF VestingInit, VestingsOK
  <2> QED BY <2>2, <2>3 DEF VestingInv
<1>2. VestingInv => VestedOnly
  <2> SUFFICES ASSUME VestingInv, NEW id \in DOMAIN vt.vbos
               PROVE  LET v == vt.vbos[id]
                      IN  /\ get_allowed_withdraw(v, vesting_time) \in 0..v.balance
                          /\ v.policy.kind = "cdd" =>
                                /\ v.taken * AtLeast1(v.policy.vesting_seconds) <= v.accrued
                                /\ v.taken > 0 => vesting_time > v.policy.start_claim
                          /\ v.policy.kind = "linear" /\ v.taken > 0 =>
                                /\ vesting_time >= v.policy.begin_timestamp + v.policy.vesting_cliff_seconds
                                /\ v.taken * v.policy.vesting_duration_seconds
                                      <= v.begin_balance * (vesting_time - v.policy.begin_timestamp)
                                   \/ vesting_time >= v.policy.begin_timestamp + v.policy.vesting_duration_seconds
    BY DEF VestedOnly
  <2> DEFINE v == vt.vbos[id]
  <2>1. vesting_time \in Nat /\ BalanceOK(v, vesting_time)
    BY DEF VestingInv, VestingsOK
  <2> HIDE DEF v
  <2>2. get_allowed_withdraw(v, vesting_time) \in 0..v.balance
    BY <2>1, AllowedFacts
  <2> QED BY <2>1, <2>2, BalanceMeans, Zenon DEF v
<1> QED BY <1>1, <1>2, VestingStep, PTL DEF VestingSpec
=============================================================================
