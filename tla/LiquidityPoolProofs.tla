------------------------- MODULE LiquidityPoolProofs ------------------------
(***************************************************************************)
(* Proofs about liquidity pools, for every size of the pool and every rate *)
(* of its fees.                                                            *)
(***************************************************************************)
EXTENDS LiquidityPool, TLAPS

-----------------------------------------------------------------------------
(* Roundings                                                               *)

\* Division rounded down and rounded up
LEMMA FloorFacts ==
    ASSUME NEW n \in Nat, NEW d \in Nat \ {0}
    PROVE  n \div d \in Nat /\ (n \div d) * d <= n
<1> DEFINE q == n \div d
           r == n % d
<1>1. q \in Int /\ r \in 0..d - 1 /\ n = d * q + r
  OBVIOUS
<1>2. q >= 0
  BY <1>1
<1> HIDE DEF q, r
<1>3. d * q <= n /\ d * q = q * d
  BY <1>1
<1> QED BY <1>1, <1>2, <1>3 DEF q

\* The quotient is below any number that is enough.
LEMMA FloorBound ==
    ASSUME NEW n \in Nat, NEW d \in Nat \ {0}, NEW m \in Nat, n <= m * d
    PROVE  n \div d <= m
<1> DEFINE q == n \div d
<1>1. q \in Nat /\ q * d <= n
  BY FloorFacts
<1> HIDE DEF q
<1>2. q * d <= m * d
  BY <1>1
<1>3. q <= m
  <2> SUFFICES ASSUME q >= m + 1 PROVE FALSE
    BY <1>1
  <2>1. q * d >= (m + 1) * d
    BY <1>1
  <2>2. (m + 1) * d = m * d + d
    OBVIOUS
  <2> QED BY <1>1, <1>2, <2>1, <2>2
<1> QED BY <1>3 DEF q

LEMMA CeilFacts ==
    ASSUME NEW n \in Nat, NEW d \in Nat \ {0}
    PROVE  CeilDiv(n, d) \in Nat /\ CeilDiv(n, d) * d >= n
<1> DEFINE k == n + d - 1
           q == k \div d
           r == k % d
<1>1. k \in Nat
  OBVIOUS
<1> HIDE DEF k
<1>2. q \in Int /\ r \in 0..d - 1 /\ k = d * q + r
  BY <1>1
<1>3. q \in Nat
  BY <1>1, FloorFacts
<1> HIDE DEF q, r
<1>4. q * d = d * q /\ d * q \in Int
  BY <1>2
<1>5. q * d >= n
  BY <1>2, <1>4 DEF k
<1> QED BY <1>3, <1>5 DEF q, k, CeilDiv

LEMMA CeilBound ==
    ASSUME NEW n \in Nat, NEW d \in Nat \ {0}, NEW m \in Nat, n <= m * d
    PROVE  CeilDiv(n, d) <= m
<1> DEFINE k == n + d - 1
           q == k \div d
<1>1. k \in Nat /\ k <= m * d + (d - 1) /\ m * d \in Nat
  OBVIOUS
<1> HIDE DEF k
<1>2. q \in Nat /\ q * d <= k
  BY <1>1, FloorFacts
<1> HIDE DEF q
<1>3. q <= m
  <2> SUFFICES ASSUME q >= m + 1 PROVE FALSE
    BY <1>2
  <2>1. q * d >= (m + 1) * d
    BY <1>2
  <2>2. (m + 1) * d = m * d + d
    OBVIOUS
  <2> QED BY <1>1, <1>2, <2>1, <2>2
<1> QED BY <1>3 DEF q, k, CeilDiv

\* A percentage is part of the whole.
LEMMA PercentFacts ==
    ASSUME NEW amount \in Nat, NEW percent \in Percent
    PROVE  calculate_percent(amount, percent) \in 0..amount
<1>a. HundredPercent = 10000
  BY DEF HundredPercent
<1>b. HundredPercent \in Nat
  BY <1>a
<1>c. percent \in Nat /\ percent <= HundredPercent
  BY <1>b DEF Percent
<1>d. percent <= 10000
  BY <1>a, <1>c
<1>e. amount * percent <= amount * 10000
  BY <1>c, <1>d
<1>1. amount * percent \in Nat /\ amount * percent <= amount * 10000 /\ percent \in Nat
  BY <1>c, <1>e
<1>2. (amount * percent) \div 10000 \in Nat
  BY <1>1, FloorFacts
<1>3. (amount * percent) \div 10000 <= amount
  BY <1>1, FloorBound
<1> QED BY <1>a, <1>2, <1>3 DEF calculate_percent

\* Two products, side by side
LEMMA ProductsOrdered ==
    ASSUME NEW a \in Nat, NEW b \in Nat, NEW c \in Nat, NEW d \in Nat, a <= b, c <= d
    PROVE  a * c <= b * d
<1>1. a * c <= b * c
  OBVIOUS
<1>2. b * c <= b * d
  OBVIOUS
<1> QED BY <1>1, <1>2

\* Each balance per share is kept, so the product of both per share squared is.
LEMMA PerShare ==
    ASSUME NEW a \in Nat, NEW b \in Nat, NEW s \in Nat, NEW c \in Nat, NEW d \in Nat, NEW t \in Nat,
           a * t <= c * s, b * t <= d * s
    PROVE  c * d * s * s >= a * b * t * t
<1>1. (a * t) * (b * t) <= (c * s) * (d * s)
  BY ProductsOrdered
<1>2. (a * t) * (b * t) = a * b * t * t
  OBVIOUS
<1>3. (c * s) * (d * s) = c * d * s * s
  OBVIOUS
<1> QED BY <1>1, <1>2, <1>3

-----------------------------------------------------------------------------
(* Liquidity pools                                                         *)

\* A market fee is part of the amount, and all its parts are amounts.
LEMMA FeeFacts ==
    ASSUME NEW x \in Asset, NEW amount \in Nat, NEW is_maker \in BOOLEAN
    PROVE  calculate_market_fee(x, amount, is_maker) \in 0..amount
<1> DEFINE percent == IF is_maker \/ TakerFeePercent[x] = Unset
                      THEN MarketFeePercent[x] ELSE TakerFeePercent[x]
           fee == calculate_percent(amount, percent)
<1>1. percent \in Percent /\ MaxMarketFee[x] \in Nat
  BY FeeAssumption
<1>2. fee \in 0..amount
  BY <1>1, PercentFacts
<1>3. calculate_market_fee(x, amount, is_maker) = IF fee > MaxMarketFee[x] THEN MaxMarketFee[x] ELSE fee
  BY DEF calculate_market_fee
<1> HIDE DEF fee
<1> QED BY <1>1, <1>2, <1>3

LEMMA PartsFacts ==
    ASSUME NEW seller \in Account, NEW x \in Asset, NEW fee \in Nat, NEW p \in Party
    PROVE  FeeParts(seller, x, fee)[p] \in Nat
<1> DEFINE network == calculate_percent(fee, NetworkPercent)
           rest == fee - network
           share == calculate_percent(rest, RewardPercent[x])
           reward == IF Referral[seller].allowed /\ Referral[seller].registrar_ok THEN share ELSE 0
           part == calculate_percent(reward, Referral[seller].referrer_percent)
           referrer == IF Referral[seller].referrer_ok THEN part ELSE 0
<1>1. NetworkPercent \in Percent /\ RewardPercent[x] \in Percent
  BY FeeAssumption
<1>2. Referral[seller].referrer_percent \in Percent
  BY FeeAssumption DEF ReferralData
<1>3. network \in 0..fee
  BY <1>1, PercentFacts
<1> HIDE DEF network
<1>4. rest \in Nat
  BY <1>3
<1> HIDE DEF rest
<1>5. share \in 0..rest
  BY <1>1, <1>4, PercentFacts
<1> HIDE DEF share
<1>6. reward \in 0..rest
  BY <1>4, <1>5
<1> HIDE DEF reward
<1>7. reward \in Nat
  BY <1>6
<1>8. part \in 0..reward
  BY <1>2, <1>7, PercentFacts
<1> HIDE DEF part
<1>9. referrer \in 0..reward
  BY <1>7, <1>8
<1> HIDE DEF referrer
<1>10. network \in Nat /\ reward - referrer \in Nat /\ referrer \in Nat /\ rest - reward \in Nat
  BY <1>3, <1>4, <1>6, <1>7, <1>9
<1>11. FeeParts(seller, x, fee) = [network |-> network, registrar |-> reward - referrer,
                                   referrer |-> referrer, issuer |-> rest - reward]
  BY DEF FeeParts, network, rest, share, reward, part, referrer
<1> QED BY <1>10, <1>11 DEF Party

\* What a deposit pays for new shares: not more than was offered, and enough
\* to leave the other shares what they had.
LEMMA DepositFacts ==
    ASSUME NEW s \in Nat \ {0}, NEW bal \in Nat \ {0}, NEW offered \in Nat, NEW new \in Nat,
           new <= (s * offered) \div bal
    PROVE  /\ CeilDiv(new * bal, s) \in Nat /\ CeilDiv(new * bal, s) <= offered
           /\ bal * (s + new) <= (bal + CeilDiv(new * bal, s)) * s
<1> DEFINE c == CeilDiv(new * bal, s)
           q == (s * offered) \div bal
<1>1. s * offered \in Nat /\ new * bal \in Nat
  OBVIOUS
<1>2. q \in Nat /\ q * bal <= s * offered
  BY <1>1, FloorFacts
<1>3. new <= q
  OBVIOUS
<1> HIDE DEF q
<1>4. new * bal <= q * bal
  BY <1>2, <1>3
<1>5. new * bal <= offered * s
  BY <1>2, <1>4
<1>6. c \in Nat /\ c * s >= new * bal
  BY <1>1, CeilFacts
<1>7. c <= offered
  BY <1>1, <1>5, CeilBound
<1> HIDE DEF c
<1>8. (bal + c) * s = bal * s + c * s /\ bal * (s + new) = bal * s + new * bal
  BY <1>6
<1>9. bal * s \in Nat /\ c * s \in Nat
  BY <1>6
<1>10. bal * (s + new) <= (bal + c) * s
  BY <1>1, <1>6, <1>8, <1>9
<1> QED BY <1>6, <1>7, <1>10 DEF c

\* What a partial withdrawal gets: less than the balance, and not more than
\* its part.
LEMMA WithdrawFacts ==
    ASSUME NEW s \in Nat \ {0}, NEW bal \in Nat \ {0}, NEW n \in Nat, n < s,
           NEW pays \in Nat, pays <= (n * bal) \div s
    PROVE  /\ (n * bal) \div s < bal
           /\ bal * (s - n) <= (bal - pays) * s
<1> DEFINE q == (n * bal) \div s
<1>1. n * bal \in Nat
  OBVIOUS
<1>2. q \in Nat /\ q * s <= n * bal
  BY <1>1, FloorFacts
<1>3. pays <= q
  OBVIOUS
<1> HIDE DEF q
<1>4. pays * s <= q * s
  BY <1>2, <1>3
<1>5. n * bal < bal * s
  OBVIOUS
<1>6. q < bal
  <2> SUFFICES ASSUME q >= bal PROVE FALSE
    BY <1>2
  <2>1. q * s >= bal * s
    BY <1>2
  <2> QED BY <1>1, <1>2, <1>5, <2>1
<1>7. bal * (s - n) = bal * s - n * bal /\ (bal - pays) * s = bal * s - pays * s
  OBVIOUS
<1>8. bal * (s - n) <= (bal - pays) * s
  BY <1>1, <1>2, <1>4, <1>7
<1> QED BY <1>6, <1>8 DEF q

\* What an exchange leaves of the other asset: some, not more than before, and
\* enough to keep the product.
LEMMA ExchangeFacts ==
    ASSUME NEW bx \in Nat \ {0}, NEW by \in Nat \ {0}, NEW r \in Nat
    PROVE  /\ CeilDiv(bx * by, bx + r) \in Nat \ {0} /\ CeilDiv(bx * by, bx + r) <= by
           /\ \A m \in Nat : m >= CeilDiv(bx * by, bx + r) => (bx + r) * m >= bx * by
<1> DEFINE v == bx * by
           d == bx + r
           c == CeilDiv(v, d)
<1>1. v \in Nat \ {0} /\ d \in Nat \ {0}
  OBVIOUS
<1>2. v <= by * d
  OBVIOUS
<1> HIDE DEF v, d
<1>3. c \in Nat /\ c * d >= v
  BY <1>1, CeilFacts
<1>4. c <= by
  BY <1>1, <1>2, CeilBound
<1> HIDE DEF c
<1>5. c # 0
  BY <1>1, <1>3
<1>6. ASSUME NEW m \in Nat, m >= c PROVE d * m >= v
  <2>1. m * d >= c * d
    BY <1>1, <1>3, <1>6
  <2>2. m * d \in Nat /\ c * d \in Nat /\ m * d = d * m
    BY <1>1, <1>3
  <2> QED BY <1>1, <1>3, <2>1, <2>2
<1> QED BY <1>3, <1>4, <1>5, <1>6 DEF c, v, d

\* A pool with other balances
LEMMA NewBalances ==
    ASSUME NEW p \in Pool, NEW bal \in [Asset -> Nat]
    PROVE  LET changed == update_virtual_value([p EXCEPT !.balance = bal])
           IN  /\ changed \in Pool /\ changed # NoPool /\ changed.balance = bal
               /\ changed.virtual_value = bal["a"] * bal["b"]
<1> DEFINE q == [p EXCEPT !.balance = bal]
           v == bal["a"] * bal["b"]
           c == [q EXCEPT !.virtual_value = v]
<1>1. bal["a"] \in Nat /\ bal["b"] \in Nat
  BY PoolAssumption
<1>2. v \in Nat
  BY <1>1
<1>3. q \in Pool /\ q.balance = bal
  BY DEF Pool
<1>4. update_virtual_value(q) = c
  BY <1>3 DEF update_virtual_value
<1> HIDE DEF q, v
<1>5. c \in Pool /\ c.balance = bal /\ c.virtual_value = v
  BY <1>2, <1>3 DEF Pool
<1>6. NoPool \notin Pool
  BY PoolAssumption DEF Pool
<1> QED BY <1>4, <1>5, <1>6, Zenon DEF q, v

\* What PoolConsistent says, in the form the steps use.
LEMMA PoolFacts ==
    ASSUME PoolConsistent, pool # NoPool
    PROVE  /\ pool \in Pool /\ pool.balance \in [Asset -> Nat] /\ Asset = {"a", "b"}
           /\ pool.balance["a"] \in Nat /\ pool.balance["b"] \in Nat
           /\ pool.taker_fee_percent \in Percent /\ pool.withdrawal_fee_percent \in Percent
           /\ pool.virtual_value = pool.balance["a"] * pool.balance["b"]
           /\ (pool.balance["a"] = 0) = (pool.balance["b"] = 0)
           /\ (pool.balance["a"] = 0) = (current_supply = 0)
<1>1. pool \in Pool
  BY DEF PoolConsistent, PoolTypeOK
<1>2. pool.balance \in [Asset -> Nat] /\ pool.taker_fee_percent \in Percent /\ pool.withdrawal_fee_percent \in Percent
  BY <1>1 DEF Pool
<1> QED BY <1>1, <1>2, PoolAssumption DEF PoolConsistent

\* Payments into and out of a balance of each asset
LEMMA AccountFacts ==
    ASSUME NEW bals \in [Account -> [Asset -> Nat]], NEW acct \in Account, NEW new \in [Asset -> Nat]
    PROVE  [bals EXCEPT ![acct] = new] \in [Account -> [Asset -> Nat]]
OBVIOUS

\* The operations that move no asset
LEMMA PoolSettingsKeep ==
    ASSUME PoolConsistent,
           \/ \E t \in TakerFees, w \in WithdrawalFees : liquidity_pool_create(t, w)
           \/ liquidity_pool_delete
           \/ \E t \in TakerFees \cup {Unset}, w \in {0, Unset} : liquidity_pool_update(t, w)
    PROVE  PoolConsistent' /\ ValuePerShareKept
<1>1. NoPool \notin Pool /\ 0 \in Percent
  <2>1. NoPool \notin Pool
    BY PoolAssumption DEF Pool
  <2>2. 0 \in Percent
    <3>1. HundredPercent \in Nat
      BY DEF HundredPercent
    <3> QED BY <3>1 DEF Percent
  <2> QED BY <2>1, <2>2
<1>2. ASSUME NEW t \in TakerFees, NEW w \in WithdrawalFees, liquidity_pool_create(t, w)
      PROVE  PoolConsistent' /\ ValuePerShareKept
  <2> DEFINE p == [balance |-> [x \in Asset |-> 0], taker_fee_percent |-> t,
                   withdrawal_fee_percent |-> w, virtual_value |-> 0]
  <2>1. p \in Pool /\ p.balance["a"] = 0 /\ p.balance["b"] = 0 /\ p.virtual_value = 0
    BY PoolAssumption DEF Pool
  <2>2. pool = NoPool /\ current_supply = 0 /\ pool' = p
        /\ UNCHANGED <<current_supply, balances, shares, fees, internal_error>>
    BY <1>2 DEF liquidity_pool_create
  <2> HIDE DEF p
  <2> QED BY <2>1, <2>2 DEF PoolConsistent, PoolTypeOK, ValuePerShareKept
<1>3. CASE liquidity_pool_delete
  BY <1>3 DEF liquidity_pool_delete, PoolConsistent, PoolTypeOK, ValuePerShareKept
<1>4. ASSUME NEW t \in TakerFees \cup {Unset}, NEW w \in {0, Unset}, liquidity_pool_update(t, w)
      PROVE  PoolConsistent' /\ ValuePerShareKept
  <2>1. pool # NoPool /\ UNCHANGED <<current_supply, balances, shares, fees, internal_error>>
    BY <1>4, Zenon DEF liquidity_pool_update
  <2>2. /\ pool \in Pool /\ pool.taker_fee_percent \in Percent /\ pool.withdrawal_fee_percent \in Percent
        /\ pool.balance["a"] \in Nat /\ pool.balance["b"] \in Nat
    BY <2>1, PoolFacts
  <2>3. \E t1 \in Percent, w1 \in Percent :
           pool' = [pool EXCEPT !.taker_fee_percent = t1, !.withdrawal_fee_percent = w1]
    <3> DEFINE t1 == IF t = Unset THEN pool.taker_fee_percent ELSE t
               w1 == IF w = Unset THEN pool.withdrawal_fee_percent ELSE w
    <3>1. t1 \in Percent /\ w1 \in Percent
      BY <1>1, <2>2, PoolAssumption
    <3>2. pool' = [pool EXCEPT !.taker_fee_percent = t1, !.withdrawal_fee_percent = w1]
      BY <1>4, <2>2, Zenon DEF liquidity_pool_update, Pool
    <3> QED BY <3>1, <3>2, Zenon
  <2>4. pool' \in Pool /\ pool'.balance = pool.balance /\ pool'.virtual_value = pool.virtual_value
    BY <2>2, <2>3, Zenon DEF Pool
  <2>5. PoolConsistent'
    BY <1>1, <2>1, <2>4 DEF PoolConsistent, PoolTypeOK
  <2>6. current_supply \in Nat
    BY PoolAssumption DEF PoolConsistent, PoolTypeOK
  <2>7. ValuePerShareKept
    <3> DEFINE v == pool.balance["a"] * pool.balance["b"] * current_supply * current_supply
    <3>1. v \in Nat
      BY <2>2, <2>6
    <3>2. v >= v
      BY <3>1
    <3> QED BY <2>1, <2>4, <3>2 DEF ValuePerShareKept
  <2> QED BY <2>5, <2>7
<1> QED BY <1>2, <1>3, <1>4

\* The operations on the share asset
LEMMA PoolSharesKeep ==
    ASSUME PoolConsistent, NEW acct \in Account, NEW to \in Account, NEW n \in PoolAmounts,
           asset_issue(acct, n) \/ asset_reserve(acct, n) \/ transfer_shares(acct, to, n)
    PROVE  PoolConsistent' /\ ValuePerShareKept
<1>1. /\ n \in Nat \ {0} /\ shares \in [Account -> Nat] /\ current_supply \in Nat /\ MaxSupply \in Nat
      /\ current_supply <= MaxSupply
  BY PoolAssumption DEF PoolConsistent, PoolTypeOK
<1>2. UNCHANGED <<pool, balances, fees, internal_error>>
  BY DEF asset_issue, asset_reserve, transfer_shares
<1>3. shares' \in [Account -> Nat]
  BY <1>1 DEF asset_issue, asset_reserve, transfer_shares
<1>4. current_supply' \in 0..MaxSupply
  BY <1>1 DEF asset_issue, asset_reserve, transfer_shares
<1>5. pool # NoPool => current_supply' <= current_supply /\ (current_supply' = 0 <=> current_supply = 0)
  BY <1>1 DEF asset_issue, asset_reserve, transfer_shares
<1>6. PoolConsistent'
  BY <1>1, <1>2, <1>3, <1>4, <1>5 DEF PoolConsistent, PoolTypeOK
<1>7. ValuePerShareKept
  <2> SUFFICES ASSUME pool # NoPool
               PROVE  pool.balance["a"] * pool.balance["b"] * current_supply * current_supply
                         >= pool.balance["a"] * pool.balance["b"] * current_supply' * current_supply'
    BY <1>2 DEF ValuePerShareKept
  <2> DEFINE a == pool.balance["a"]
             b == pool.balance["b"]
             s == current_supply
             t == current_supply'
  <2>1. a \in Nat /\ b \in Nat /\ s \in Nat /\ t \in Nat /\ t <= s
    BY <1>1, <1>4, <1>5, PoolFacts
  <2> HIDE DEF a, b, s, t
  <2>2. a * t <= a * s /\ b * t <= b * s
    BY <2>1
  <2>3. a * b * s * s >= a * b * t * t
    BY <2>1, <2>2, PerShare
  <2> QED BY <2>3 DEF a, b, s, t
<1> QED BY <1>6, <1>7

LEMMA PoolDepositKeeps ==
    ASSUME PoolConsistent, NEW acct \in Account, NEW offer \in Offer, liquidity_pool_deposit(acct, offer)
    PROVE  PoolConsistent' /\ ValuePerShareKept
<1> DEFINE s == current_supply
           A == pool.balance["a"]
           B == pool.balance["b"]
           d == IF Empty THEN FirstDeposit(offer) ELSE LaterDeposit(offer)
           bal == [x \in Asset |-> pool.balance[x] + d.pays[x]]
           rest == [x \in Asset |-> balances[acct][x] - d.pays[x]]
           p == update_virtual_value([pool EXCEPT !.balance = bal])
<1>1. /\ pool # NoPool /\ s < MaxSupply /\ d.gets > 0 /\ d.gets <= MaxSupply
      /\ \A x \in Asset : balances[acct][x] >= d.pays[x]
      /\ Checked(/\ Empty = (B = 0) /\ Empty = (s = 0)
                 /\ \A x \in Asset : d.pays[x] <= offer[x]
                 /\ \A x \in Asset : pool.balance[x] + d.pays[x] > 0,
                 /\ balances' = [balances EXCEPT ![acct] = [x \in Asset |-> @[x] - d.pays[x]]]
                 /\ shares' = [shares EXCEPT ![acct] = @ + d.gets]
                 /\ pool' = update_virtual_value([pool EXCEPT !.balance = [x \in Asset |-> @[x] + d.pays[x]]])
                 /\ s' = s + d.gets
                 /\ UNCHANGED fees)
  BY ZenonT(60) DEF liquidity_pool_deposit
<1>2. /\ pool \in Pool /\ pool.balance \in [Asset -> Nat] /\ Asset = {"a", "b"} /\ A \in Nat /\ B \in Nat
      /\ (A = 0) = (B = 0) /\ (A = 0) = (s = 0) /\ pool.virtual_value = A * B
  BY <1>1, PoolFacts
<1>3. /\ s \in Nat /\ MaxSupply \in Nat /\ balances \in [Account -> [Asset -> Nat]] /\ shares \in [Account -> Nat]
      /\ internal_error = FALSE /\ fees \in [Party -> [Asset -> Nat]]
  BY PoolAssumption DEF PoolConsistent, PoolTypeOK
<1>4. \A x \in Asset : offer[x] \in Nat \ {0}
  BY PoolAssumption, Zenon DEF Offer
<1>5. Empty = (A = 0)
  BY DEF Empty
<1>6. /\ d.gets \in Nat /\ d.pays \in [Asset -> Nat] /\ s + d.gets <= MaxSupply
      /\ \A x \in Asset : d.pays[x] <= offer[x] /\ pool.balance[x] + d.pays[x] > 0
      /\ s > 0 => \A x \in Asset : pool.balance[x] * (s + d.gets) <= (pool.balance[x] + d.pays[x]) * s
  <2>1. CASE Empty
    <3>1. d = FirstDeposit(offer)
      BY <2>1
    <3>2. d.pays = offer /\ d.gets = Max({offer[x] : x \in Asset})
      BY <3>1 DEF FirstDeposit
    <3>3. Max({offer[x] : x \in Asset}) \in Nat
      <4>1. {offer[x] : x \in Asset} = {offer["a"], offer["b"]}
        BY <1>2
      <4>2. \E m \in {offer["a"], offer["b"]} : \A k \in {offer["a"], offer["b"]} : m >= k
        BY <1>2, <1>4
      <4>3. Max({offer["a"], offer["b"]}) \in {offer["a"], offer["b"]}
        BY <4>2 DEF Max
      <4> QED BY <1>2, <1>4, <4>1, <4>3, Zenon
    <3>4. s = 0 /\ offer \in [Asset -> Nat]
      BY <1>2, <1>5, <2>1, PoolAssumption, Zenon DEF Offer
    <3> HIDE DEF d
    <3>5. s + d.gets = d.gets
      BY <3>2, <3>3, <3>4
    <3>6. \A x \in Asset : pool.balance[x] = 0 /\ offer[x] <= offer[x]
      <4>1. A = 0 /\ B = 0
        BY <1>2, <1>5, <2>1, Zenon
      <4>2. \A x \in Asset : offer[x] <= offer[x]
        BY <1>4
      <4> QED BY <1>2, <4>1, <4>2
    <3> QED BY <1>1, <1>4, <3>2, <3>3, <3>4, <3>5, <3>6
  <2>2. CASE ~Empty
    <3> DEFINE if(x) == (s * offer[x]) \div pool.balance[x]
               new == Min({if("a"), if("b"), MaxSupply - s})
    <3>1. d = LaterDeposit(offer)
      BY <2>2
    <3>2. d.pays = [x \in Asset |-> CeilDiv(new * pool.balance[x], s)] /\ d.gets = new
      <4>1. LaterDeposit(offer) = [pays |-> [x \in Asset |-> CeilDiv(new * pool.balance[x], s)], gets |-> new]
        BY DEF LaterDeposit
      <4> HIDE DEF new, d
      <4> QED BY <3>1, <4>1
    <3>3. s \in Nat \ {0} /\ A \in Nat \ {0} /\ B \in Nat \ {0}
      BY <1>2, <1>3, <1>5, <2>2, Zenon
    <3>4. \A x \in Asset : pool.balance[x] \in Nat \ {0}
      BY <1>2, <3>3
    <3>5. if("a") \in Nat /\ if("b") \in Nat /\ MaxSupply - s \in Nat
      <4>1. ASSUME NEW x \in Asset PROVE if(x) \in Nat
        BY <1>4, <3>3, <3>4, FloorFacts
      <4>2. MaxSupply - s \in Nat
        BY <1>1, <1>3
      <4> HIDE DEF if
      <4> QED BY <1>2, <4>1, <4>2
    <3>6. new \in Nat /\ new <= if("a") /\ new <= if("b") /\ new <= MaxSupply - s
      <4> DEFINE i == if("a")
                 j == if("b")
                 k == MaxSupply - s
      <4> HIDE DEF i, j, k
      <4>1. i \in Nat /\ j \in Nat /\ k \in Nat
        BY <3>5 DEF i, j, k
      <4>2. \E m \in {i, j, k} : \A o \in {i, j, k} : m <= o
        BY <4>1
      <4>3. Min({i, j, k}) \in {i, j, k} /\ \A o \in {i, j, k} : Min({i, j, k}) <= o
        BY <4>2 DEF Min
      <4>4. Min({i, j, k}) \in Nat /\ Min({i, j, k}) <= i /\ Min({i, j, k}) <= j /\ Min({i, j, k}) <= k
        BY <4>1, <4>3
      <4> QED BY <4>4 DEF i, j, k
    <3> HIDE DEF new
    <3>7. ASSUME NEW x \in Asset
          PROVE  /\ CeilDiv(new * pool.balance[x], s) \in Nat
                 /\ CeilDiv(new * pool.balance[x], s) <= offer[x]
                 /\ pool.balance[x] * (s + new) <= (pool.balance[x] + CeilDiv(new * pool.balance[x], s)) * s
      <4>1. new <= (s * offer[x]) \div pool.balance[x]
        BY <1>2, <3>6
      <4>2. offer[x] \in Nat
        BY <1>4
      <4> QED BY <3>3, <3>4, <3>6, <4>1, <4>2, DepositFacts, Zenon
    <3>8. s + new <= MaxSupply
      BY <1>3, <3>6
    <3> HIDE DEF d
    <3>9. d.pays \in [Asset -> Nat] /\ \A x \in Asset : d.pays[x] = CeilDiv(new * pool.balance[x], s)
      BY <3>2, <3>7
    <3>10. ASSUME NEW x \in Asset PROVE pool.balance[x] + d.pays[x] > 0
      BY <3>4, <3>9
    <3> QED BY <3>2, <3>6, <3>7, <3>8, <3>9, <3>10
  <2> QED BY <2>1, <2>2
<1>7. bal \in [Asset -> Nat] /\ rest \in [Asset -> Nat]
  <2>1. ASSUME NEW x \in Asset PROVE pool.balance[x] + d.pays[x] \in Nat /\ balances[acct][x] - d.pays[x] \in Nat
    <3>1. pool.balance[x] \in Nat /\ d.pays[x] \in Nat /\ balances[acct][x] \in Nat /\ balances[acct][x] >= d.pays[x]
      BY <1>1, <1>2, <1>3, <1>6, Zenon
    <3> HIDE DEF d
    <3> QED BY <3>1
  <2> QED BY <2>1
<1>8. /\ balances' = [balances EXCEPT ![acct] = rest] /\ shares' = [shares EXCEPT ![acct] = @ + d.gets]
      /\ pool' = p /\ s' = s + d.gets /\ UNCHANGED <<fees, internal_error>>
  <2> HIDE DEF d
  <2> QED BY <1>1, <1>2, <1>3, <1>5, <1>6 DEF Checked
<1> HIDE DEF d
<1>9. pool' \in Pool /\ pool' # NoPool /\ pool'.balance = bal /\ pool'.virtual_value = bal["a"] * bal["b"]
  BY <1>2, <1>7, <1>8, NewBalances
<1>10. bal["a"] = A + d.pays["a"] /\ bal["b"] = B + d.pays["b"] /\ bal["a"] > 0 /\ bal["b"] > 0
  BY <1>2, <1>6
<1> HIDE DEF bal, rest, p
<1>11. PoolConsistent'
  <2>1. balances' \in [Account -> [Asset -> Nat]]
    BY <1>3, <1>7, <1>8, AccountFacts
  <2>2. shares' \in [Account -> Nat]
    <3>1. shares[acct] + d.gets \in Nat
      BY <1>3, <1>6
    <3> QED BY <1>3, <1>8, <3>1
  <2>3. s' \in 0..MaxSupply /\ s' > 0
    BY <1>1, <1>3, <1>6, <1>8
  <2>4. bal["a"] \in Nat /\ bal["b"] \in Nat
    BY <1>2, <1>7
  <2>5. bal["a"] # 0 /\ bal["b"] # 0 /\ s' # 0
    BY <1>10, <2>3, <2>4
  <2>6. PoolTypeOK'
    BY <1>3, <1>8, <1>9, <2>1, <2>2, <2>3, Zenon DEF PoolTypeOK
  <2> QED BY <1>3, <1>8, <1>9, <2>5, <2>6 DEF PoolConsistent
<1>12. ValuePerShareKept
  <2> SUFFICES ASSUME s > 0 PROVE bal["a"] * bal["b"] * s * s >= A * B * s' * s'
    BY <1>9 DEF ValuePerShareKept
  <2> DEFINE a == bal["a"]
             b == bal["b"]
             t == s'
  <2>1. a \in Nat /\ b \in Nat /\ t \in Nat
    BY <1>2, <1>3, <1>6, <1>7, <1>8
  <2>2. A * t <= a * s /\ B * t <= b * s
    BY <1>2, <1>6, <1>8, <1>10
  <2> HIDE DEF a, b, t, s, A, B
  <2>3. a * b * s * s >= A * B * t * t
    BY <1>2, <1>3, <2>1, <2>2, PerShare, Zenon
  <2> QED BY <2>3 DEF a, b, t
<1> QED BY <1>11, <1>12

LEMMA PoolWithdrawKeeps ==
    ASSUME PoolConsistent, NEW acct \in Account, NEW n \in PoolAmounts, liquidity_pool_withdraw(acct, n)
    PROVE  PoolConsistent' /\ ValuePerShareKept
<1> DEFINE s == current_supply
           A == pool.balance["a"]
           B == pool.balance["b"]
           pays == Withdrawal(n)
           bal == [x \in Asset |-> pool.balance[x] - pays[x]]
           more == [x \in Asset |-> balances[acct][x] + pays[x]]
<1>1. /\ pool # NoPool /\ (\A x \in Asset : pool.balance[x] > 0) /\ s >= n /\ shares[acct] >= n
      /\ Checked(/\ n # s => \A x \in Asset : Portion(x, n) < pool.balance[x]
                 /\ (A = pays["a"]) = (B = pays["b"]) /\ (A = pays["a"]) = (s = n),
                 /\ shares' = [shares EXCEPT ![acct] = @ - n]
                 /\ balances' = [balances EXCEPT ![acct] = [x \in Asset |-> @[x] + pays[x]]]
                 /\ s' = s - n
                 /\ pool' = update_virtual_value([pool EXCEPT !.balance = [x \in Asset |-> @[x] - pays[x]]])
                 /\ UNCHANGED fees)
  BY Zenon DEF liquidity_pool_withdraw
<1>2. /\ pool \in Pool /\ pool.balance \in [Asset -> Nat] /\ Asset = {"a", "b"} /\ A \in Nat /\ B \in Nat
      /\ pool.withdrawal_fee_percent \in Percent
  BY <1>1, PoolFacts
<1>3. /\ s \in Nat /\ MaxSupply \in Nat /\ balances \in [Account -> [Asset -> Nat]] /\ shares \in [Account -> Nat]
      /\ internal_error = FALSE /\ fees \in [Party -> [Asset -> Nat]] /\ n \in Nat \ {0} /\ s <= MaxSupply
  BY PoolAssumption DEF PoolConsistent, PoolTypeOK
<1>a. n <= s /\ n \in Nat \ {0} /\ s \in Nat
  BY <1>1, <1>3
<1>4. s \in Nat \ {0} /\ \A x \in Asset : pool.balance[x] \in Nat \ {0}
  BY <1>1, <1>2, <1>a
<1>5. /\ pays \in [Asset -> Nat] /\ \A x \in Asset : pays[x] <= pool.balance[x]
      /\ n = s => \A x \in Asset : pays[x] = pool.balance[x]
      /\ n # s => \A x \in Asset : /\ pays[x] < pool.balance[x] /\ Portion(x, n) < pool.balance[x]
                                   /\ pool.balance[x] * (s - n) <= (pool.balance[x] - pays[x]) * s
  <2>1. CASE n = s
    <3>1. pays = pool.balance
      BY <2>1 DEF Withdrawal
    <3>2. \A x \in Asset : pool.balance[x] <= pool.balance[x]
      BY <1>4
    <3> HIDE DEF pays
    <3> QED BY <1>2, <2>1, <3>1, <3>2
  <2>2. CASE n # s
    <3>1. pays = [x \in Asset |-> Portion(x, n) - calculate_percent(Portion(x, n), pool.withdrawal_fee_percent)]
      BY <2>2 DEF Withdrawal
    <3>2. n < s /\ n \in Nat
      <4> HIDE DEF s, pays
      <4> QED BY <1>a, <2>2
    <3> HIDE DEF pays
    <3>3. ASSUME NEW x \in Asset
          PROVE  /\ pays[x] \in Nat /\ pays[x] < pool.balance[x] /\ Portion(x, n) < pool.balance[x]
                 /\ pool.balance[x] * (s - n) <= (pool.balance[x] - pays[x]) * s
      <4> DEFINE part == Portion(x, n)
                 fee == calculate_percent(part, pool.withdrawal_fee_percent)
      <4>1. pool.balance[x] \in Nat \ {0} /\ n * pool.balance[x] \in Nat
        BY <1>4, <3>2
      <4>2. part = (n * pool.balance[x]) \div s
        BY DEF Portion
      <4>3. part \in Nat
        BY <1>4, <4>1, <4>2, FloorFacts
      <4> HIDE DEF part
      <4>4. fee \in 0..part
        BY <1>2, <4>3, PercentFacts
      <4>5. pays[x] = part - fee
        BY <3>1 DEF part
      <4> HIDE DEF fee
      <4>6. pays[x] \in Nat /\ pays[x] <= part
        BY <4>3, <4>4, <4>5
      <4>7. part < pool.balance[x] /\ pool.balance[x] * (s - n) <= (pool.balance[x] - pays[x]) * s
        BY <1>4, <3>2, <4>1, <4>2, <4>6, WithdrawFacts
      <4>8. pays[x] < pool.balance[x]
        BY <4>1, <4>3, <4>6, <4>7
      <4> QED BY <4>6, <4>7, <4>8 DEF part
    <3>4. pays \in [Asset -> Nat]
      BY <3>1, <3>3
    <3>5. \A x \in Asset : pays[x] <= pool.balance[x]
      BY <1>4, <3>3
    <3> QED BY <2>2, <3>3, <3>4, <3>5
  <2> QED BY <2>1, <2>2
<1> HIDE DEF pays
<1>6. bal \in [Asset -> Nat] /\ more \in [Asset -> Nat]
  <2>1. ASSUME NEW x \in Asset PROVE pool.balance[x] - pays[x] \in Nat /\ balances[acct][x] + pays[x] \in Nat
    <3>1. pool.balance[x] \in Nat /\ pays[x] \in Nat /\ balances[acct][x] \in Nat /\ pays[x] <= pool.balance[x]
      BY <1>3, <1>4, <1>5
    <3> QED BY <3>1
  <2> QED BY <2>1
<1>7. /\ (A = pays["a"]) = (B = pays["b"]) /\ (A = pays["a"]) = (s = n)
      /\ n # s => \A x \in Asset : Portion(x, n) < pool.balance[x]
  <2>1. CASE n = s
    <3>1. A = pays["a"] /\ B = pays["b"]
      BY <1>2, <1>5, <2>1
    <3> QED BY <2>1, <3>1
  <2>2. CASE n # s
    <3>1. pays["a"] \in Nat /\ pays["b"] \in Nat /\ pays["a"] < A /\ pays["b"] < B
      BY <1>2, <1>5, <2>2
    <3>2. A # pays["a"] /\ B # pays["b"]
      BY <1>2, <3>1
    <3> QED BY <1>5, <2>2, <3>2
  <2> QED BY <2>1, <2>2
<1>8. /\ balances' = [balances EXCEPT ![acct] = more] /\ shares' = [shares EXCEPT ![acct] = @ - n]
      /\ pool' = update_virtual_value([pool EXCEPT !.balance = bal]) /\ s' = s - n
      /\ UNCHANGED <<fees, internal_error>>
  BY <1>1, <1>2, <1>3, <1>7 DEF Checked
<1>9. pool' \in Pool /\ pool' # NoPool /\ pool'.balance = bal /\ pool'.virtual_value = bal["a"] * bal["b"]
  BY <1>2, <1>6, <1>8, NewBalances
<1>10. bal["a"] = A - pays["a"] /\ bal["b"] = B - pays["b"]
  BY <1>2
<1> HIDE DEF bal, more
<1>11. PoolConsistent'
  <2>1. balances' \in [Account -> [Asset -> Nat]]
    BY <1>3, <1>6, <1>8, AccountFacts
  <2>2. shares' \in [Account -> Nat]
    <3>1. shares[acct] - n \in Nat
      BY <1>1, <1>3
    <3> QED BY <1>3, <1>8, <3>1
  <2>3. s' \in 0..MaxSupply /\ (s' = 0) = (s = n)
    <3> DEFINE t == s - n
    <3> HIDE DEF s
    <3>1. t \in 0..MaxSupply
      BY <1>a, <1>3
    <3>2. (t = 0) = (s = n)
      BY <1>a
    <3> QED BY <1>8, <3>1, <3>2
  <2>4. pays["a"] \in Nat /\ pays["b"] \in Nat
    BY <1>2, <1>5
  <2>5. (bal["a"] = 0) = (A = pays["a"]) /\ (bal["b"] = 0) = (B = pays["b"])
    BY <1>2, <1>10, <2>4
  <2>6. PoolTypeOK'
    BY <1>3, <1>8, <1>9, <2>1, <2>2, <2>3, Zenon DEF PoolTypeOK
  <2>7. (bal["a"] = 0) = (bal["b"] = 0) /\ (bal["a"] = 0) = (s' = 0)
    BY <1>7, <2>3, <2>5
  <2> QED BY <1>3, <1>8, <1>9, <2>6, <2>7 DEF PoolConsistent
<1>12. ValuePerShareKept
  <2> SUFFICES ASSUME s' > 0 PROVE bal["a"] * bal["b"] * s * s >= A * B * s' * s'
    BY <1>9 DEF ValuePerShareKept
  <2> DEFINE a == bal["a"]
             b == bal["b"]
             t == s'
  <2>1. a \in Nat /\ b \in Nat /\ t \in Nat /\ n # s
    BY <1>1, <1>2, <1>3, <1>6, <1>8
  <2>2. A * t <= a * s /\ B * t <= b * s
    BY <1>2, <1>5, <1>8, <1>10, <2>1
  <2> HIDE DEF a, b, t, s, A, B
  <2>3. a * b * s * s >= A * B * t * t
    BY <1>2, <1>3, <2>1, <2>2, PerShare, Zenon
  <2> QED BY <2>3 DEF a, b, t
<1> QED BY <1>11, <1>12

LEMMA PoolExchangeKeeps ==
    ASSUME PoolConsistent, NEW acct \in Account, NEW x \in Asset, NEW sell \in PoolAmounts, NEW min \in PoolAmounts,
           liquidity_pool_exchange(acct, x, sell, min)
    PROVE  PoolConsistent' /\ ValuePerShareKept
<1> DEFINE y == Other(x)
           maker_fee == calculate_market_fee(x, sell, TRUE)
           receives == sell - maker_fee
           new_y == NewBalance(x, receives)
           delta == pool.balance[y] - new_y
           cut == calculate_percent(delta, pool.taker_fee_percent)
           pays == delta - cut
           taker_fee == calculate_market_fee(y, pays, FALSE)
           maker == FeeParts(Owner, x, maker_fee)
           taker == FeeParts(acct, y, taker_fee)
           bal == [pool.balance EXCEPT ![x] = @ + receives, ![y] = @ - pays]
           changed == update_virtual_value([pool EXCEPT !.balance[x] = @ + receives, !.balance[y] = @ - pays])
<1>1. /\ pool # NoPool /\ (\A z \in Asset : pool.balance[z] > 0)
      /\ balances[acct][x] >= sell /\ maker_fee < sell
      /\ Checked(/\ new_y <= pool.balance[y] /\ \A z \in Asset : changed.balance[z] > 0
                 /\ changed.virtual_value >= pool.virtual_value,
                 /\ balances' = [balances EXCEPT ![acct][x] = @ - sell, ![acct][y] = @ + pays - taker_fee]
                 /\ pool' = changed
                 /\ fees' = [p \in Party |-> [fees[p] EXCEPT ![x] = @ + maker[p], ![y] = @ + taker[p]]]
                 /\ UNCHANGED <<current_supply, shares>>)
  BY Zenon DEF liquidity_pool_exchange
<1>a. pool # NoPool /\ (\A z \in Asset : pool.balance[z] > 0) /\ balances[acct][x] >= sell
  BY <1>1, Zenon
<1>2. /\ pool \in Pool /\ pool.balance \in [Asset -> Nat] /\ Asset = {"a", "b"}
      /\ pool.taker_fee_percent \in Percent
      /\ pool.virtual_value = pool.balance["a"] * pool.balance["b"]
      /\ (pool.balance["a"] = 0) = (current_supply = 0)
  BY <1>a, PoolFacts
<1>3. /\ current_supply \in 0..MaxSupply /\ balances \in [Account -> [Asset -> Nat]]
      /\ internal_error = FALSE /\ fees \in [Party -> [Asset -> Nat]] /\ sell \in Nat /\ Owner \in Account
      /\ shares \in [Account -> Nat] /\ MaxSupply \in Nat
  BY PoolAssumption DEF PoolConsistent, PoolTypeOK
<1>4. y \in Asset /\ y # x
  <2>1. \E z \in Asset : z # x
    BY <1>2
  <2> QED BY <2>1 DEF Other
<1> HIDE DEF y
<1>5. maker_fee \in Nat /\ receives \in Nat
  <2>1. maker_fee \in 0..sell
    BY <1>3, FeeFacts, Zenon
  <2> HIDE DEF maker_fee
  <2> QED BY <1>3, <2>1
<1> HIDE DEF maker_fee, receives
<1>6. pool.balance[x] \in Nat \ {0} /\ pool.balance[y] \in Nat \ {0} /\ balances[acct][x] \in Nat /\ balances[acct][y] \in Nat
  BY <1>a, <1>2, <1>3, <1>4
<1>7. pool.virtual_value = pool.balance[x] * pool.balance[y] /\ Asset = {x, y}
  <2>1. (x = "a" /\ y = "b") \/ (x = "b" /\ y = "a")
    BY <1>2, <1>4
  <2> QED BY <1>2, <1>6, <2>1
<1>8. /\ new_y \in Nat \ {0} /\ new_y <= pool.balance[y]
      /\ \A m \in Nat : m >= new_y => (pool.balance[x] + receives) * m >= pool.virtual_value
  <2> DEFINE A == pool.balance[x]
             B == pool.balance[y]
  <2>1. new_y = CeilDiv(A * B, A + receives)
    BY <1>7 DEF NewBalance
  <2>2. pool.virtual_value = A * B
    BY <1>7
  <2>3. A \in Nat \ {0} /\ B \in Nat \ {0}
    BY <1>6
  <2> HIDE DEF A, B, new_y
  <2>4. /\ new_y \in Nat \ {0} /\ new_y <= B
        /\ \A m \in Nat : m >= new_y => (A + receives) * m >= A * B
    BY <1>5, <2>1, <2>3, ExchangeFacts, Zenon
  <2> QED BY <2>2, <2>4 DEF A, B
<1> HIDE DEF new_y
<1>9. delta \in Nat /\ delta = pool.balance[y] - new_y
  BY <1>6, <1>8
<1> HIDE DEF delta
<1>10. cut \in 0..delta
  BY <1>2, <1>9, PercentFacts
<1> HIDE DEF cut
<1>11. pays \in Nat /\ pays <= delta
  BY <1>9, <1>10
<1> HIDE DEF pays
<1>12. taker_fee \in 0..pays /\ taker_fee \in Nat
  <2>1. taker_fee \in 0..pays
    BY <1>4, <1>11, FeeFacts, Zenon
  <2> HIDE DEF taker_fee
  <2> QED BY <1>11, <2>1
<1> HIDE DEF taker_fee
<1>13. \A p \in Party : maker[p] \in Nat /\ taker[p] \in Nat
  BY <1>3, <1>4, <1>5, <1>12, PartsFacts
<1> HIDE DEF maker, taker
<1>14. pool.balance[y] - pays \in Nat /\ pool.balance[y] - pays >= new_y
  BY <1>6, <1>8, <1>9, <1>11
<1>15. /\ bal \in [Asset -> Nat] /\ bal[x] = pool.balance[x] + receives /\ bal[y] = pool.balance[y] - pays
       /\ changed = update_virtual_value([pool EXCEPT !.balance = bal])
  <2>1. pool.balance[x] + receives \in Nat
    BY <1>5, <1>6
  <2>2. /\ bal \in [Asset -> Nat] /\ bal[x] = pool.balance[x] + receives /\ bal[y] = pool.balance[y] - pays
    BY <1>2, <1>4, <1>14, <2>1
  <2>3. [pool EXCEPT !.balance[x] = @ + receives, !.balance[y] = @ - pays] = [pool EXCEPT !.balance = bal]
    BY <1>2, <1>4, Zenon DEF Pool
  <2> QED BY <2>2, <2>3
<1> HIDE DEF bal, changed
<1>16. /\ changed \in Pool /\ changed # NoPool /\ changed.balance = bal
       /\ changed.virtual_value = bal["a"] * bal["b"]
  BY <1>2, <1>15, NewBalances
<1>17. bal[x] \in Nat \ {0} /\ bal[y] \in Nat \ {0} /\ bal["a"] * bal["b"] = bal[x] * bal[y]
  <2>1. bal[x] \in Nat \ {0}
    BY <1>5, <1>6, <1>15
  <2>2. bal[y] \in Nat \ {0}
    BY <1>8, <1>14, <1>15
  <2>3. (x = "a" /\ y = "b") \/ (x = "b" /\ y = "a")
    BY <1>2, <1>4
  <2> QED BY <2>1, <2>2, <2>3
<1>18. bal["a"] * bal["b"] >= pool.virtual_value
  BY <1>8, <1>14, <1>15, <1>17
<1>19. /\ balances' = [balances EXCEPT ![acct][x] = @ - sell, ![acct][y] = @ + pays - taker_fee]
       /\ pool' = changed
       /\ fees' = [p \in Party |-> [fees[p] EXCEPT ![x] = @ + maker[p], ![y] = @ + taker[p]]]
       /\ UNCHANGED <<current_supply, shares, internal_error>>
  <2>1. \A z \in Asset : changed.balance[z] > 0
    BY <1>7, <1>16, <1>17
  <2> QED BY <1>1, <1>8, <1>16, <1>18, <2>1 DEF Checked
<1>20. balances' \in [Account -> [Asset -> Nat]]
  <2> DEFINE new == [balances[acct] EXCEPT ![x] = @ - sell, ![y] = @ + pays - taker_fee]
  <2>1. balances[acct][x] - sell \in Nat /\ balances[acct][y] + pays - taker_fee \in Nat
    BY <1>a, <1>3, <1>6, <1>11, <1>12
  <2>2. balances[acct] \in [Asset -> Nat]
    BY <1>3
  <2>3. new \in [Asset -> Nat]
    BY <1>4, <2>1, <2>2
  <2>4. balances' = [balances EXCEPT ![acct] = new]
    BY <1>3, <1>4, <1>19, <2>2, Zenon
  <2> HIDE DEF new
  <2> QED BY <1>3, <2>3, <2>4, AccountFacts
<1>21. fees' \in [Party -> [Asset -> Nat]]
  <2>1. ASSUME NEW p \in Party PROVE [fees[p] EXCEPT ![x] = @ + maker[p], ![y] = @ + taker[p]] \in [Asset -> Nat]
    <3>1. fees[p] \in [Asset -> Nat] /\ maker[p] \in Nat /\ taker[p] \in Nat
      BY <1>3, <1>13
    <3>2. fees[p][x] + maker[p] \in Nat /\ fees[p][y] + taker[p] \in Nat
      BY <1>4, <3>1
    <3> QED BY <1>4, <3>1, <3>2
  <2> QED BY <1>19, <2>1
<1>22. bal["a"] # 0 /\ bal["b"] # 0 /\ pool.balance["a"] # 0
  BY <1>2, <1>6, <1>7, <1>17
<1>23. PoolConsistent'
  <2>1. PoolTypeOK'
    BY <1>3, <1>16, <1>19, <1>20, <1>21, Zenon DEF PoolTypeOK
  <2>2. current_supply # 0
    BY <1>2, <1>22
  <2> QED BY <1>3, <1>16, <1>19, <1>22, <2>1, <2>2 DEF PoolConsistent
<1>24. ValuePerShareKept
  <2> DEFINE v == pool.balance["a"] * pool.balance["b"]
             w == bal["a"] * bal["b"]
             s == current_supply
             v2 == v * s * s
             w2 == w * s * s
  <2>1. v \in Nat /\ w \in Nat /\ v <= w /\ s \in Nat
    BY <1>2, <1>3, <1>7, <1>15, <1>18
  <2> HIDE DEF v, w
  <2>2. v * (s * s) <= w * (s * s)
    <3>1. s * s \in Nat
      BY <2>1
    <3> QED BY <2>1, <3>1
  <2>3. v * (s * s) = v2 /\ w * (s * s) = w2
    BY <2>1
  <2>4. w2 >= v2
    BY <2>1, <2>2, <2>3
  <2> QED BY <1>16, <1>19, <2>4 DEF ValuePerShareKept, v, w
<1> QED BY <1>23, <1>24

LEMMA PoolStep == PoolConsistent /\ [PoolNext]_pool_vars => PoolConsistent' /\ (PoolNext => ValuePerShareKept)
<1> SUFFICES ASSUME PoolConsistent, [PoolNext]_pool_vars
             PROVE  PoolConsistent' /\ (PoolNext => ValuePerShareKept)
  OBVIOUS
<1>1. CASE UNCHANGED pool_vars /\ ~PoolNext
  BY <1>1 DEF pool_vars, PoolConsistent, PoolTypeOK
<1>2. CASE PoolNext
  BY <1>2, PoolSettingsKeep, PoolSharesKeep, PoolDepositKeeps, PoolWithdrawKeeps, PoolExchangeKeeps
  DEF PoolNext
<1> QED BY <1>1, <1>2

LEMMA PoolStart == PoolInit => PoolConsistent
<1> SUFFICES ASSUME PoolInit PROVE PoolConsistent
  OBVIOUS
<1>1. 0 \in 0..MaxSupply
  BY PoolAssumption
<1>2. shares \in [Account -> Nat]
  BY DEF PoolInit
<1>3. fees \in [Party -> [Asset -> Nat]]
  <2>1. [x \in Asset |-> 0] \in [Asset -> Nat]
    OBVIOUS
  <2> QED BY <2>1 DEF PoolInit
<1> QED BY <1>1, <1>2, <1>3, PoolAssumption, Zenon DEF PoolInit, PoolConsistent, PoolTypeOK

\* Whatever the percentages, the amounts and the accounts: the evaluators of a
\* liquidity pool keep both sides of it empty or neither, exactly when no share
\* exists, keep virtual_value the product of the balances, and never fail one
\* of their "Internal error" checks.
THEOREM PoolConsistentAlways == PoolSpec => []PoolConsistent
<1>1. PoolInit => PoolConsistent
  BY PoolStart
<1>2. PoolConsistent /\ [PoolNext]_pool_vars => PoolConsistent'
  BY PoolStep
<1> QED BY <1>1, <1>2, PTL DEF PoolSpec

\* No rounding of a deposit, a withdrawal or an exchange takes value from the
\* other shareholders: the product of the balances per share squared never
\* falls.
THEOREM ValuePerShareKeptAlways == PoolSpec => [][ValuePerShareKept]_pool_vars
<1>1. PoolConsistent /\ [PoolNext]_pool_vars => [ValuePerShareKept]_pool_vars
  BY PoolStep
<1> QED BY <1>1, PoolConsistentAlways, PTL DEF PoolSpec

=============================================================================
