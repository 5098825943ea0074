--------------------------- MODULE ContractsProofs --------------------------
(***************************************************************************)
(* Proofs about contracts between accounts: hashed time-locks, and the     *)
(* funds that lend within one transaction.                                 *)
(***************************************************************************)
EXTENDS Htlc, SameTFunds, TLAPS

-----------------------------------------------------------------------------
(* Hashed time-lock contracts                                              *)

\* Contracts have a number below next_id, and one that was refunded is gone.
IdsOK == /\ now \in Nat /\ next_id \in Nat
         /\ htlcs \in [LiveHtlcs -> Contract] /\ LiveHtlcs \subseteq 0..next_id - 1
         /\ owed \subseteq 0..next_id - 1 /\ refunded \subseteq 0..next_id - 1
         /\ refunded \cap LiveHtlcs = {}

\* The secret of a contract that is owed to a diligent account is public, or
\* becomes so with the next block, which cannot be late enough to refund it.
Saved == \A id \in owed \cap LiveHtlcs :
            /\ htlcs[id].to \in Diligent
            /\ \/ htlcs[id].preimage_hash \in published
               \/ htlcs[id].preimage_hash \in revealed /\ htlcs[id].expiration > now + MaxGap

HtlcInv == IdsOK /\ RedeemableMeansInTime /\ Saved /\ SwapsAreAtomic

LEMMA HtlcCreateKeeps ==
    ASSUME HtlcInv, NEW from \in Account, NEW to \in Account, NEW n \in HtlcAmounts,
           NEW s \in Secret, NEW p \in 0..max_timeout, htlc_create(from, to, n, s, p)
    PROVE  HtlcInv'
<1> DEFINE new == [from |-> from, to |-> to, amount |-> n, preimage_hash |-> s, expiration |-> now + p]
           live == LiveHtlcs
<1>1. /\ now \in Nat /\ next_id \in Nat /\ p \in Nat /\ max_timeout \in Nat /\ n \in Nat
      /\ p <= max_timeout
  BY HtlcAssumption DEF HtlcInv, IdsOK
<1>2. new \in Contract /\ new.expiration = now + p
  BY <1>1 DEF Contract
<1>3. /\ htlcs' = [id \in live \cup {next_id} |-> IF id = next_id THEN new ELSE htlcs[id]]
      /\ next_id' = next_id + 1
      /\ UNCHANGED <<now, published, revealed, owed, refunded>>
  BY DEF htlc_create
<1>4. /\ live \subseteq 0..next_id - 1 /\ owed \subseteq 0..next_id - 1 /\ refunded \subseteq 0..next_id - 1
      /\ refunded \cap live = {} /\ htlcs \in [live -> Contract] /\ owed \cap refunded = {}
  BY DEF HtlcInv, IdsOK, SwapsAreAtomic
<1>5. next_id \notin 0..next_id - 1 /\ 0..next_id - 1 \subseteq 0..next_id' - 1 /\ next_id \in 0..next_id' - 1
  BY <1>1, <1>3
<1>6. /\ LiveHtlcs' = live \cup {next_id} /\ htlcs'[next_id] = new
      /\ \A id \in live : htlcs'[id] = htlcs[id]
  BY <1>3, <1>4, <1>5 DEF LiveHtlcs
<1> HIDE DEF new, live
<1>7. IdsOK'
  <2>1. htlcs' \in [live \cup {next_id} -> Contract]
    BY <1>2, <1>3, <1>4, Zenon
  <2> QED BY <1>1, <1>3, <1>4, <1>5, <1>6, <2>1 DEF IdsOK
<1>8. RedeemableMeansInTime'
  <2>1. \A id \in live : htlcs[id].expiration >= now /\ htlcs[id].expiration <= now + max_timeout
    BY DEF HtlcInv, RedeemableMeansInTime, live
  <2>2. now + p >= now /\ now + p <= now + max_timeout
    BY <1>1
  <2> QED BY <1>2, <1>3, <1>6, <2>1, <2>2 DEF RedeemableMeansInTime
<1>9. Saved'
  <2>1. owed' \cap LiveHtlcs' = owed \cap live
    BY <1>3, <1>4, <1>5, <1>6
  <2> QED BY <1>3, <1>6, <2>1 DEF HtlcInv, Saved, live
<1> QED BY <1>3, <1>4, <1>7, <1>8, <1>9 DEF HtlcInv, SwapsAreAtomic

LEMMA HtlcRedeemKeeps ==
    ASSUME HtlcInv, NEW acct \in Account, NEW id \in HtlcId, htlc_redeem(acct, id)
    PROVE  HtlcInv'
<1> DEFINE live == LiveHtlcs
           r == htlcs[id]
<1>1. /\ id \in live /\ htlcs' = Without({id}) /\ revealed' = revealed \cup {r.preimage_hash}
      /\ owed' = owed \cup Counterparts(id) /\ UNCHANGED <<now, next_id, published, refunded>>
  BY DEF htlc_redeem
<1>2. /\ live \subseteq 0..next_id - 1 /\ owed \subseteq 0..next_id - 1 /\ refunded \subseteq 0..next_id - 1
      /\ refunded \cap live = {} /\ htlcs \in [live -> Contract] /\ owed \cap refunded = {}
      /\ now \in Nat /\ next_id \in Nat
  BY DEF HtlcInv, IdsOK, SwapsAreAtomic
<1>3. LiveHtlcs' = live \ {id} /\ htlcs' \in [live \ {id} -> Contract] /\ \A o \in live \ {id} : htlcs'[o] = htlcs[o]
  BY <1>1, <1>2 DEF LiveHtlcs, Without
<1>4. Counterparts(id) \subseteq live
  BY DEF Counterparts
<1>5. IdsOK'
  BY <1>1, <1>2, <1>3, <1>4, Zenon DEF IdsOK
<1>6. RedeemableMeansInTime'
  BY <1>1, <1>3, Zenon DEF HtlcInv, RedeemableMeansInTime
<1>7. SwapsAreAtomic'
  BY <1>1, <1>2, <1>4, Zenon DEF SwapsAreAtomic
<1>8. Saved'
  <2> SUFFICES ASSUME NEW o \in owed' \cap LiveHtlcs'
               PROVE  /\ htlcs[o].to \in Diligent
                      /\ \/ htlcs[o].preimage_hash \in published
                         \/ htlcs[o].preimage_hash \in revealed' /\ htlcs[o].expiration > now + MaxGap
    BY <1>1, <1>3, Zenon DEF Saved
  <2>1. o \in live
    BY <1>3
  <2>2. CASE o \in owed
    BY <1>1, <2>1, <2>2 DEF HtlcInv, Saved
  <2>3. CASE o \in Counterparts(id)
    <3>1. /\ htlcs[o].preimage_hash = r.preimage_hash /\ htlcs[o].to = r.from /\ htlcs[o].to \in Diligent
          /\ htlcs[o].expiration > r.expiration + MaxGap
      BY <2>3 DEF Counterparts
    <3>2. r.expiration >= now
      BY <1>1 DEF HtlcInv, RedeemableMeansInTime
    <3>3. r.expiration \in Nat /\ htlcs[o].expiration \in Nat /\ MaxGap \in Nat
      BY <1>1, <1>2, <2>1, HtlcAssumption DEF Contract
    <3> HIDE DEF r
    <3>4. htlcs[o].expiration > now + MaxGap
      BY <1>2, <3>1, <3>2, <3>3
    <3> QED BY <1>1, <3>1, <3>4
  <2> QED BY <1>1, <2>2, <2>3
<1> QED BY <1>5, <1>6, <1>7, <1>8 DEF HtlcInv

LEMMA HtlcExtendKeeps ==
    ASSUME HtlcInv, NEW acct \in Account, NEW id \in HtlcId, NEW seconds \in 0..max_timeout,
           htlc_extend(acct, id, seconds)
    PROVE  HtlcInv'
<1> DEFINE live == LiveHtlcs
           later == htlcs[id].expiration + seconds
           longer == [htlcs[id] EXCEPT !.expiration = later]
<1>1. /\ id \in live /\ later <= now + max_timeout /\ htlcs' = [htlcs EXCEPT ![id].expiration = @ + seconds]
      /\ UNCHANGED <<now, next_id, published, revealed, owed, refunded>>
  BY DEF htlc_extend
<1>2. /\ htlcs \in [live -> Contract] /\ now \in Nat /\ max_timeout \in Nat /\ MaxGap \in Nat /\ seconds \in Nat
      /\ htlcs[id].expiration \in Nat
  BY <1>1, HtlcAssumption DEF HtlcInv, IdsOK, Contract
<1>3. htlcs' = [htlcs EXCEPT ![id] = longer]
  BY <1>1, <1>2 DEF Contract
<1>4. /\ longer \in Contract /\ longer.expiration = later /\ longer.to = htlcs[id].to
      /\ longer.preimage_hash = htlcs[id].preimage_hash
  BY <1>1, <1>2 DEF Contract
<1>5. /\ LiveHtlcs' = live /\ htlcs' \in [live -> Contract] /\ htlcs'[id] = longer
      /\ \A o \in live \ {id} : htlcs'[o] = htlcs[o]
  BY <1>1, <1>2, <1>3, <1>4 DEF LiveHtlcs
<1> HIDE DEF longer
<1>6. IdsOK'
  BY <1>1, <1>5 DEF HtlcInv, IdsOK
<1>7. later >= htlcs[id].expiration /\ htlcs[id].expiration >= now
  BY <1>1, <1>2 DEF HtlcInv, RedeemableMeansInTime
<1>8. RedeemableMeansInTime'
  <2>1. later >= now
    BY <1>2, <1>7
  <2> HIDE DEF later
  <2> QED BY <1>1, <1>4, <1>5, <2>1, Zenon DEF HtlcInv, RedeemableMeansInTime
<1>9. Saved'
  <2>1. htlcs[id].expiration > now + MaxGap => later > now + MaxGap
    BY <1>2, <1>7
  <2> HIDE DEF later
  <2> SUFFICES ASSUME NEW o \in owed \cap live
               PROVE  /\ htlcs'[o].to \in Diligent
                      /\ \/ htlcs'[o].preimage_hash \in published
                         \/ htlcs'[o].preimage_hash \in revealed /\ htlcs'[o].expiration > now + MaxGap
    BY <1>1, <1>5 DEF Saved
  <2>2. /\ htlcs[o].to \in Diligent
        /\ \/ htlcs[o].preimage_hash \in published
           \/ htlcs[o].preimage_hash \in revealed /\ htlcs[o].expiration > now + MaxGap
    BY DEF HtlcInv, Saved
  <2>3. CASE o = id
    BY <1>4, <1>5, <2>1, <2>2, <2>3
  <2>4. CASE o # id
    BY <1>5, <2>2, <2>4
  <2> QED BY <2>3, <2>4
<1> QED BY <1>1, <1>6, <1>8, <1>9 DEF HtlcInv, SwapsAreAtomic

LEMMA HtlcClearKeeps ==
    ASSUME HtlcInv, NEW time \in 1..MaxHtlcTime, clear_expired_htlcs(time)
    PROVE  HtlcInv'
<1> DEFINE live == LiveHtlcs
           gone == ExpiredHtlcs(time)
<1>1. /\ time \in now + 1 .. now + MaxGap /\ NothingMissed /\ now' = time /\ htlcs' = Without(gone)
      /\ refunded' = refunded \cup gone /\ published' = published \cup revealed /\ UNCHANGED <<next_id, owed>>
  BY DEF clear_expired_htlcs
<1>2. /\ live \subseteq 0..next_id - 1 /\ owed \subseteq 0..next_id - 1 /\ refunded \subseteq 0..next_id - 1
      /\ refunded \cap live = {} /\ htlcs \in [live -> Contract] /\ owed \cap refunded = {}
      /\ now \in Nat /\ next_id \in Nat /\ MaxGap \in Nat /\ max_timeout \in Nat
  BY HtlcAssumption DEF HtlcInv, IdsOK, SwapsAreAtomic
<1>3. time \in Nat /\ now < time /\ time <= now + MaxGap
  BY <1>1, <1>2
<1>4. gone \subseteq live /\ \A o \in live : o \in gone <=> htlcs[o].expiration <= time
  BY DEF ExpiredHtlcs
<1>5. \A o \in live : htlcs[o].expiration \in Nat
  BY <1>2 DEF Contract
<1> HIDE DEF gone
<1>6. LiveHtlcs' = live \ gone /\ htlcs' \in [live \ gone -> Contract] /\ \A o \in live \ gone : htlcs'[o] = htlcs[o]
  BY <1>1, <1>2 DEF LiveHtlcs, Without
<1>7. IdsOK'
  BY <1>1, <1>2, <1>3, <1>4, <1>6 DEF IdsOK
<1>8. RedeemableMeansInTime'
  <2>1. ASSUME NEW o \in live \ gone
        PROVE  htlcs[o].expiration >= time /\ htlcs[o].expiration <= time + max_timeout
    <3>1. htlcs[o].expiration \in Nat /\ ~(htlcs[o].expiration <= time)
      BY <1>4, <1>5
    <3>2. htlcs[o].expiration <= now + max_timeout
      BY DEF HtlcInv, RedeemableMeansInTime
    <3> QED BY <1>2, <1>3, <3>1, <3>2
  <2> QED BY <1>1, <1>6, <2>1 DEF RedeemableMeansInTime
<1>9. owed \cap gone = {}
  <2> SUFFICES ASSUME NEW o \in owed, o \in gone PROVE FALSE
    OBVIOUS
  <2>1. o \in live /\ htlcs[o].expiration <= time /\ htlcs[o].expiration \in Nat
    BY <1>4, <1>5
  <2>2. /\ htlcs[o].to \in Diligent
        /\ htlcs[o].preimage_hash \in published \/ htlcs[o].expiration > now + MaxGap
    BY <2>1 DEF HtlcInv, Saved
  <2>3. htlcs[o].preimage_hash \notin published
    BY <1>1, <2>1, <2>2 DEF NothingMissed
  <2> QED BY <1>2, <1>3, <2>1, <2>2, <2>3
<1>10. SwapsAreAtomic'
  BY <1>1, <1>2, <1>9, Zenon DEF SwapsAreAtomic
<1>11. Saved'
  BY <1>1, <1>6 DEF HtlcInv, Saved
<1> QED BY <1>7, <1>8, <1>10, <1>11 DEF HtlcInv

LEMMA HtlcInductive == HtlcInv /\ [HtlcNext]_htlc_vars => HtlcInv'
<1> SUFFICES ASSUME HtlcInv, [HtlcNext]_htlc_vars PROVE HtlcInv'
  OBVIOUS
<1>1. CASE UNCHANGED htlc_vars
  BY <1>1 DEF htlc_vars, HtlcInv, IdsOK, Saved, RedeemableMeansInTime, SwapsAreAtomic, LiveHtlcs
<1> QED BY <1>1, HtlcCreateKeeps, HtlcRedeemKeeps, HtlcExtendKeeps, HtlcClearKeeps DEF HtlcNext

LEMMA HtlcStart == HtlcInit => HtlcInv
BY HtlcAssumption DEF HtlcInit, HtlcInv, IdsOK, Saved, RedeemableMeansInTime, SwapsAreAtomic, LiveHtlcs

\* Whatever contracts there are and however often they are extended: when a
\* redemption takes from a diligent account, a contract under the same hash
\* that pays it and runs more than a block gap longer is not refunded by
\* clear_expired_htlcs.
THEOREM SwapsAreAtomicAlways == HtlcSpec => []SwapsAreAtomic
<1>1. HtlcInv => SwapsAreAtomic
  BY DEF HtlcInv
<1> QED BY <1>1, HtlcStart, HtlcInductive, PTL DEF HtlcSpec

\* htlc_redeem needs no look at the clock: what clear_expired_htlcs has left
\* has not expired, and htlc_extend never takes a contract beyond max_timeout
\* from now.
THEOREM RedeemableMeansInTimeAlways == HtlcSpec => []RedeemableMeansInTime
<1>1. HtlcInv => RedeemableMeansInTime
  BY DEF HtlcInv
<1> QED BY <1>1, HtlcStart, HtlcInductive, PTL DEF HtlcSpec

-----------------------------------------------------------------------------
(* SameT funds                                                             *)

FundSets == UNION {[ids -> Fund] : ids \in SUBSET FundId}

FundState == [balances : [Account -> Nat], funds : FundSets, next_id : Nat,
              lent : [FundId -> Nat], touched : SUBSET FundId]

NoDebt(s) == \A id \in DOMAIN s.funds : s.funds[id].unpaid_amount = 0

\* Since the state b, the funds that s has not touched have gained their fee of
\* all that was lent and has been repaid.
Gains(b, s) ==
    \A id \in DOMAIN b.funds \cap DOMAIN s.funds : id \notin s.touched =>
        (s.funds[id].balance - b.funds[id].balance) * FeeRateDenom
            >= (s.lent[id] - s.funds[id].unpaid_amount) * s.funds[id].fee_rate

\* The state that a transaction goes back to has no debt, and both the state
\* now and the one its proposal goes back to have the gains since then.
FundInv ==
    /\ samet \in FundState /\ sessions \in Seq(FundState) /\ Len(sessions) <= 2
    /\ sessions = << >> => NoDebt(samet)
    /\ Len(sessions) >= 1 => NoDebt(sessions[1]) /\ Gains(sessions[1], samet)
    /\ Len(sessions) = 2 => Gains(sessions[1], sessions[2])

\* FundInv of a state and its sessions, for the state after a step.
FundGood(x, t) ==
    /\ x \in FundState /\ t \in Seq(FundState) /\ Len(t) <= 2
    /\ t = << >> => NoDebt(x)
    /\ Len(t) >= 1 => NoDebt(t[1]) /\ Gains(t[1], x)
    /\ Len(t) = 2 => Gains(t[1], t[2])

LEMMA FundGoodNext ==
    ASSUME FundGood(samet', sessions')
    PROVE  FundInv'
BY Zenon DEF FundGood, FundInv, NoDebt, Gains

LEMMA FundGoodNow ==
    ASSUME FundInv
    PROVE  FundGood(samet, sessions)
BY Zenon DEF FundGood, FundInv

LEMMA NoSession ==
    ASSUME NEW x \in FundState, NoDebt(x)
    PROVE  FundGood(x, << >>)
<1> DEFINE t == << >>
<1>1. t \in Seq(FundState) /\ Len(t) = 0
  OBVIOUS
<1> HIDE DEF t
<1>2. FundGood(x, t)
  BY <1>1 DEF FundGood
<1> QED BY <1>2, Zenon DEF t

LEMMA OneSession ==
    ASSUME NEW x \in FundState, NEW t \in Seq(FundState), Len(t) = 1, t # << >>,
           NoDebt(t[1]), Gains(t[1], x)
    PROVE  FundGood(x, t)
BY DEF FundGood

LEMMA TwoSessions ==
    ASSUME NEW x \in FundState, NEW t \in Seq(FundState), Len(t) = 2, t # << >>,
           NoDebt(t[1]), Gains(t[1], x), Gains(t[1], t[2])
    PROVE  FundGood(x, t)
BY DEF FundGood

LEMMA FundSetFacts ==
    ASSUME NEW f, DOMAIN f \in SUBSET FundId, f \in [DOMAIN f -> Fund]
    PROVE  f \in FundSets
BY DEF FundSets

LEMMA FundStateFacts ==
    ASSUME NEW s \in FundState
    PROVE  /\ s = [balances |-> s.balances, funds |-> s.funds, next_id |-> s.next_id,
                   lent |-> s.lent, touched |-> s.touched]
           /\ s.balances \in [Account -> Nat] /\ s.next_id \in Nat
           /\ s.lent \in [FundId -> Nat] /\ s.touched \in SUBSET FundId
           /\ DOMAIN s.funds \in SUBSET FundId /\ s.funds \in [DOMAIN s.funds -> Fund]
           /\ \A id \in DOMAIN s.funds :
                 /\ id \in FundId /\ s.funds[id] \in Fund
                 /\ s.funds[id].owner_account \in Account /\ s.funds[id].balance \in Nat
                 /\ s.funds[id].fee_rate \in Nat /\ s.funds[id].unpaid_amount \in Nat
                 /\ s.lent[id] \in Nat
<1>1. /\ s = [balances |-> s.balances, funds |-> s.funds, next_id |-> s.next_id,
              lent |-> s.lent, touched |-> s.touched]
      /\ s.balances \in [Account -> Nat] /\ s.next_id \in Nat
      /\ s.lent \in [FundId -> Nat] /\ s.touched \in SUBSET FundId /\ s.funds \in FundSets
  BY DEF FundState
<1>2. PICK ids \in SUBSET FundId : s.funds \in [ids -> Fund]
  BY <1>1 DEF FundSets
<1>3. DOMAIN s.funds = ids
  BY <1>2
<1>4. \A id \in DOMAIN s.funds : id \in FundId /\ s.funds[id] \in Fund
  BY <1>2, <1>3
<1> QED BY <1>1, <1>2, <1>3, <1>4 DEF Fund

LEMMA PaidFacts ==
    ASSUME NEW s \in FundState, NEW acct \in Account, NEW delta \in Int, s.balances[acct] + delta \in Nat
    PROVE  /\ Paid(s, acct, delta) \in FundState
           /\ Paid(s, acct, delta).funds = s.funds /\ Paid(s, acct, delta).lent = s.lent
           /\ Paid(s, acct, delta).next_id = s.next_id /\ Paid(s, acct, delta).touched = s.touched
<1>1. [s.balances EXCEPT ![acct] = @ + delta] \in [Account -> Nat]
  BY FundStateFacts
<1> QED BY <1>1 DEF FundState, Paid

LEMMA OperationKeeps ==
    ASSUME FundInv, NEW s \in FundState, \A b \in FundState : Gains(b, samet) => Gains(b, s), Operation(s)
    PROVE  FundInv'
<1>1. samet' = s /\ sessions' = sessions /\ sessions # << >>
  BY DEF Operation
<1>2. Len(sessions) >= 1 /\ sessions[1] \in FundState
  BY <1>1 DEF FundInv
<1>3. FundGood(samet, sessions)
  BY FundGoodNow
<1>4. FundGood(s, sessions)
  BY <1>1, <1>2, <1>3 DEF FundGood
<1> QED BY <1>1, <1>4, FundGoodNext, Zenon

\* A quotient rounded up
LEMMA QuotientRoundedUp ==
    ASSUME NEW n \in Nat, NEW d \in Nat \ {0}
    PROVE  (n + d - 1) \div d \in Nat /\ ((n + d - 1) \div d) * d >= n
<1> DEFINE k == n + d - 1
           q == k \div d
           r == k % d
<1>1. k \in Nat
  OBVIOUS
<1> HIDE DEF k
<1>2. q \in Int /\ r \in 0..d - 1 /\ k = d * q + r
  BY <1>1
<1> HIDE DEF q, r
<1>3. q >= 0
  BY <1>1, <1>2
<1>4. q * d = d * q /\ d * q \in Int
  BY <1>2
<1>5. q * d >= n
  BY <1>2, <1>4 DEF k
<1> QED BY <1>2, <1>3, <1>5 DEF q, k

\* A repayment pays at least the fee rate of the amount.
LEMMA RequiredFeeFacts ==
    ASSUME NEW fund \in Fund, NEW amount \in Nat, NEW fee \in Nat, fee >= RequiredFundFee(fund, amount)
    PROVE  fee * FeeRateDenom >= amount * fund.fee_rate
<1> DEFINE n == amount * fund.fee_rate
           d == FeeRateDenom
           c == (n + d - 1) \div d
<1>1. n \in Nat /\ d \in Nat \ {0}
  BY FundAssumption DEF Fund
<1>2. fee >= c
  BY DEF RequiredFundFee
<1> HIDE DEF n, d
<1>3. c \in Nat /\ c * d >= n
  BY <1>1, QuotientRoundedUp
<1> HIDE DEF c
<1>4. fee * d >= c * d
  BY <1>1, <1>2, <1>3
<1>5. fee * d \in Nat /\ c * d \in Nat
  BY <1>1, <1>3
<1>6. fee * d >= n
  BY <1>1, <1>3, <1>4, <1>5
<1> QED BY <1>6 DEF n, d

LEMMA NegatedNat ==
    ASSUME NEW m \in Nat
    PROVE  -m \in Int
OBVIOUS

LEMMA FundCreateKeeps ==
    ASSUME FundInv, NEW owner \in Account, NEW amount \in FundAmounts, NEW rate \in FeeRates,
           samet_fund_create(owner, amount, rate)
    PROVE  FundInv'
<1> DEFINE new == samet.next_id
           fund == [owner_account |-> owner, balance |-> amount, fee_rate |-> rate, unpaid_amount |-> 0]
           paid == Paid(samet, owner, -amount)
           f == [id \in DOMAIN paid.funds \cup {new} |->
                    IF id \in DOMAIN paid.funds THEN paid.funds[id] ELSE fund]
           t == paid.touched \cup {new}
           s == [paid EXCEPT !.funds = f, !.touched = t, !.next_id = @ + 1]
<1>1. samet \in FundState /\ amount \in Nat /\ rate \in Nat /\ samet.balances[owner] \in Nat
  BY FundAssumption, FundStateFacts DEF FundInv
<1>2. new \in FundId /\ samet.balances[owner] >= amount /\ Operation(s)
  BY DEF samet_fund_create
<1>3. samet.balances[owner] + (-amount) \in Nat
  BY <1>1, <1>2
<1>4. paid \in FundState /\ paid.funds = samet.funds /\ paid.lent = samet.lent /\ paid.touched = samet.touched
  <2> DEFINE delta == -amount
  <2>a. delta \in Int
    BY <1>1, NegatedNat, Zenon
  <2>b. samet.balances[owner] + delta \in Nat
    BY <1>3, Zenon
  <2>1. delta \in Int /\ samet.balances[owner] + delta \in Nat
    BY <2>a, <2>b, Zenon
  <2> HIDE DEF delta, f, t, s
  <2>2. /\ Paid(samet, owner, delta) \in FundState /\ Paid(samet, owner, delta).funds = samet.funds
        /\ Paid(samet, owner, delta).lent = samet.lent /\ Paid(samet, owner, delta).touched = samet.touched
    BY <1>1, <2>1, PaidFacts
  <2> QED BY <2>2, Zenon DEF delta
<1> HIDE DEF paid
<1>5. fund \in Fund
  BY <1>1 DEF Fund
<1> HIDE DEF fund
<1>6. f \in FundSets
  <2>1. DOMAIN f \in SUBSET FundId /\ f \in [DOMAIN f -> Fund]
    BY <1>2, <1>4, <1>5, FundStateFacts
  <2> HIDE DEF f
  <2> QED BY <2>1, FundSetFacts
<1>7. \A id \in DOMAIN f \ {new} : id \in DOMAIN samet.funds /\ f[id] = samet.funds[id]
  BY <1>4
<1>8. t \in SUBSET FundId /\ paid.next_id + 1 \in Nat
  BY <1>2, <1>4, FundStateFacts
<1>9. t = samet.touched \cup {new}
  BY <1>4
<1> HIDE DEF f, t
<1>10. s \in FundState /\ s.funds = f /\ s.lent = samet.lent /\ s.touched = t
  BY <1>4, <1>6, <1>8, Zenon DEF FundState
<1> HIDE DEF s
<1>11. ASSUME NEW c \in FundState, Gains(c, samet) PROVE Gains(c, s)
  BY <1>7, <1>9, <1>10, <1>11 DEF Gains
<1> QED BY <1>2, <1>10, <1>11, OperationKeeps

LEMMA FundDeleteKeeps ==
    ASSUME FundInv, NEW id \in FundId, samet_fund_delete(id)
    PROVE  FundInv'
<1> DEFINE owner == samet.funds[id].owner_account
           amount == samet.funds[id].balance
           paid == Paid(samet, owner, amount)
           f == [i \in DOMAIN paid.funds \ {id} |-> paid.funds[i]]
           s == [paid EXCEPT !.funds = f]
<1>1. samet \in FundState /\ id \in DOMAIN samet.funds /\ Operation(s)
  BY Zenon DEF FundInv, samet_fund_delete
<1>a. samet \in FundState /\ id \in DOMAIN samet.funds
  BY <1>1, Zenon
<1>2. owner \in Account /\ amount \in Nat /\ samet.balances \in [Account -> Nat]
  BY <1>a, FundStateFacts
<1> HIDE DEF owner, amount
<1>3. samet.balances[owner] + amount \in Nat /\ amount \in Int
  BY <1>2
<1>4. paid \in FundState /\ paid.funds = samet.funds /\ paid.lent = samet.lent /\ paid.touched = samet.touched
  BY <1>1, <1>2, <1>3, PaidFacts
<1> HIDE DEF paid
<1>5. f \in FundSets
  <2>1. DOMAIN f \in SUBSET FundId /\ f \in [DOMAIN f -> Fund]
    BY <1>4, FundStateFacts
  <2> HIDE DEF f
  <2> QED BY <2>1, FundSetFacts
<1>6. \A i \in DOMAIN f : i \in DOMAIN samet.funds /\ f[i] = samet.funds[i]
  BY <1>4
<1> HIDE DEF f
<1>7. s \in FundState /\ s.funds = f /\ s.lent = samet.lent /\ s.touched = samet.touched
  BY <1>4, <1>5 DEF FundState
<1> HIDE DEF s
<1>8. ASSUME NEW c \in FundState, Gains(c, samet) PROVE Gains(c, s)
  BY <1>6, <1>7, <1>8 DEF Gains
<1> QED BY <1>1, <1>7, <1>8, OperationKeeps

\* A change of one fund, of what was lent of it and of what is touched.
LEMMA OneFundKeeps ==
    ASSUME NEW p \in FundState, NEW s \in FundState, NEW id \in DOMAIN p.funds, NEW g \in Fund,
           s.funds = [p.funds EXCEPT ![id] = g], p.touched \subseteq s.touched,
           \A i \in FundId \ {id} : s.lent[i] = p.lent[i],
           id \notin s.touched =>
              \A n \in Nat :
                 (p.funds[id].balance - n) * FeeRateDenom
                       >= (p.lent[id] - p.funds[id].unpaid_amount) * p.funds[id].fee_rate
                 => (g.balance - n) * FeeRateDenom >= (s.lent[id] - g.unpaid_amount) * g.fee_rate
    PROVE  \A c \in FundState : Gains(c, p) => Gains(c, s)
<1> SUFFICES ASSUME NEW c \in FundState, Gains(c, p), NEW i \in DOMAIN c.funds \cap DOMAIN s.funds,
                    i \notin s.touched
             PROVE  (s.funds[i].balance - c.funds[i].balance) * FeeRateDenom
                       >= (s.lent[i] - s.funds[i].unpaid_amount) * s.funds[i].fee_rate
  BY DEF Gains
<1>1. i \in DOMAIN p.funds /\ i \in FundId /\ c.funds[i].balance \in Nat
  BY FundStateFacts
<1>2. (p.funds[i].balance - c.funds[i].balance) * FeeRateDenom
         >= (p.lent[i] - p.funds[i].unpaid_amount) * p.funds[i].fee_rate
  BY <1>1 DEF Gains
<1>3. CASE i # id
  <2>1. s.funds[i] = p.funds[i] /\ s.lent[i] = p.lent[i]
    BY <1>1, <1>3
  <2> QED BY <1>2, <2>1
<1>4. CASE i = id
  <2>1. s.funds[i] = g
    BY <1>1, <1>4
  <2> QED BY <1>1, <1>2, <1>4, <2>1
<1> QED BY <1>3, <1>4

LEMMA FundUpdateKeeps ==
    ASSUME FundInv, NEW id \in FundId, NEW delta \in Int, NEW rate \in FeeRates, samet_fund_update(id, delta, rate)
    PROVE  FundInv'
<1> DEFINE fund == samet.funds[id]
           owner == fund.owner_account
           paid == Paid(samet, owner, -delta)
           g == [fund EXCEPT !.balance = @ + delta, !.fee_rate = rate]
           f == [samet.funds EXCEPT ![id] = g]
           t == paid.touched \cup {id}
           s == [paid EXCEPT !.funds[id].balance = @ + delta, !.funds[id].fee_rate = rate, !.touched = t]
<1>1. samet \in FundState /\ id \in DOMAIN samet.funds /\ rate \in Nat /\ Operation(s)
  BY FundAssumption, Zenon DEF FundInv, samet_fund_update
<1>2. /\ owner \in Account /\ fund.balance \in Nat /\ samet.balances \in [Account -> Nat] /\ fund \in Fund
      /\ samet.funds \in [DOMAIN samet.funds -> Fund] /\ DOMAIN samet.funds \in SUBSET FundId
  BY <1>1, FundStateFacts, Zenon
<1>3. (delta > 0 => samet.balances[owner] >= delta) /\ (delta < 0 => fund.balance > -delta)
  BY Zenon DEF samet_fund_update
<1>4. samet.balances[owner] + (-delta) \in Nat /\ -delta \in Int /\ fund.balance + delta \in Nat
  <2> HIDE DEF owner
  <2> QED BY <1>2, <1>3
<1>5. paid \in FundState /\ paid.funds = samet.funds /\ paid.lent = samet.lent /\ paid.touched = samet.touched
  <2> HIDE DEF owner
  <2> QED BY <1>1, <1>2, <1>4, PaidFacts
<1> HIDE DEF paid
<1>6. g \in Fund
  BY <1>1, <1>2, <1>4, Zenon DEF Fund
<1>7. t \in SUBSET FundId /\ id \in t /\ samet.touched \subseteq t
  BY <1>5, FundStateFacts
<1>8. f \in FundSets
  <2> HIDE DEF g
  <2>1. DOMAIN f \in SUBSET FundId /\ f \in [DOMAIN f -> Fund]
    BY <1>2, <1>6, Zenon
  <2> HIDE DEF f
  <2> QED BY <2>1, FundSetFacts
<1> HIDE DEF t
<1>9. s.funds = f /\ s = [paid EXCEPT !.funds = f, !.touched = t]
  <2>1. [[paid.funds EXCEPT ![id].balance = @ + delta] EXCEPT ![id].fee_rate = rate] = f
    BY <1>1, <1>2, <1>5, Zenon DEF Fund
  <2>2. s = [paid EXCEPT !.funds = [[paid.funds EXCEPT ![id].balance = @ + delta] EXCEPT ![id].fee_rate = rate],
                         !.touched = t]
    BY <1>1, <1>5, Zenon DEF FundState
  <2> HIDE DEF f
  <2>3. s = [paid EXCEPT !.funds = f, !.touched = t]
    BY <2>1, <2>2, Zenon
  <2> HIDE DEF s
  <2> QED BY <1>5, <2>3 DEF FundState
<1> HIDE DEF s
<1>10. s \in FundState /\ s.lent = samet.lent /\ s.touched = t
  <2> HIDE DEF f
  <2> QED BY <1>5, <1>7, <1>8, <1>9, Zenon DEF FundState
<1>11. \A c \in FundState : Gains(c, samet) => Gains(c, s)
  <2> HIDE DEF g
  <2> QED BY <1>1, <1>6, <1>7, <1>9, <1>10, OneFundKeeps, Zenon
<1> QED BY <1>1, <1>10, <1>11, OperationKeeps

LEMMA FundBorrowKeeps ==
    ASSUME FundInv, NEW id \in FundId, NEW borrower \in Account, NEW amount \in FundAmounts,
           samet_fund_borrow(id, borrower, amount)
    PROVE  FundInv'
<1> DEFINE fund == samet.funds[id]
           paid == Paid(samet, borrower, amount)
           g == [fund EXCEPT !.unpaid_amount = @ + amount]
           f == [samet.funds EXCEPT ![id] = g]
           l == [samet.lent EXCEPT ![id] = @ + amount]
           s == [paid EXCEPT !.funds[id].unpaid_amount = @ + amount, !.lent[id] = @ + amount]
<1>1. samet \in FundState /\ id \in DOMAIN samet.funds /\ amount \in Nat /\ Operation(s)
  BY FundAssumption DEF FundInv, samet_fund_borrow
<1>2. /\ samet.balances \in [Account -> Nat] /\ fund \in Fund /\ fund.unpaid_amount \in Nat
      /\ samet.funds \in [DOMAIN samet.funds -> Fund] /\ DOMAIN samet.funds \in SUBSET FundId
      /\ samet.lent \in [FundId -> Nat] /\ samet.lent[id] \in Nat
  BY <1>1, FundStateFacts
<1>3. samet.balances[borrower] + amount \in Nat /\ amount \in Int
  BY <1>1, <1>2
<1>4. paid \in FundState /\ paid.funds = samet.funds /\ paid.lent = samet.lent /\ paid.touched = samet.touched
  BY <1>1, <1>3, PaidFacts
<1> HIDE DEF paid
<1>5. /\ g \in Fund /\ g.balance = fund.balance /\ g.fee_rate = fund.fee_rate
      /\ g.unpaid_amount = fund.unpaid_amount + amount
  <2>1. fund.unpaid_amount + amount \in Nat
    BY <1>1, <1>2
  <2> QED BY <1>2, <2>1 DEF Fund
<1>6. f \in FundSets
  <2> HIDE DEF g
  <2>1. DOMAIN f \in SUBSET FundId /\ f \in [DOMAIN f -> Fund]
    BY <1>2, <1>5, Zenon
  <2> HIDE DEF f
  <2> QED BY <2>1, FundSetFacts
<1>7. /\ l \in [FundId -> Nat] /\ l[id] = samet.lent[id] + amount
      /\ \A i \in FundId \ {id} : l[i] = samet.lent[i]
  BY <1>1, <1>2
<1>8. s \in FundState /\ s.funds = f /\ s.lent = l /\ s.touched = samet.touched
  <2> DEFINE lower == [paid EXCEPT !.funds = f]
  <2>1. [paid.funds EXCEPT ![id].unpaid_amount = @ + amount] = f
    BY <1>1, <1>2, <1>4 DEF Fund
  <2>2. [paid EXCEPT !.funds[id].unpaid_amount = @ + amount]
           = [paid EXCEPT !.funds = [paid.funds EXCEPT ![id].unpaid_amount = @ + amount]]
    BY <1>1, <1>4 DEF FundState
  <2>3. s = [[paid EXCEPT !.funds[id].unpaid_amount = @ + amount] EXCEPT !.lent[id] = @ + amount]
    OBVIOUS
  <2> HIDE DEF f, s
  <2>4. s = [lower EXCEPT !.lent[id] = @ + amount]
    BY <2>1, <2>2, <2>3, Zenon
  <2>5. lower \in FundState /\ lower.funds = f /\ lower.lent = samet.lent /\ lower.touched = samet.touched
    BY <1>4, <1>6 DEF FundState
  <2> HIDE DEF lower
  <2>6. s = [lower EXCEPT !.lent = [lower.lent EXCEPT ![id] = @ + amount]]
    BY <2>4, <2>5 DEF FundState
  <2>7. s = [lower EXCEPT !.lent = l]
    BY <2>5, <2>6
  <2> HIDE DEF l
  <2> QED BY <1>7, <2>5, <2>7 DEF FundState
<1> HIDE DEF s, l
<1> HIDE DEF g
<1>10. s.lent[id] - g.unpaid_amount = samet.lent[id] - fund.unpaid_amount
  BY <1>1, <1>2, <1>5, <1>7, <1>8
<1>11. \A c \in FundState : Gains(c, samet) => Gains(c, s)
  <2>1. \A i \in FundId \ {id} : s.lent[i] = samet.lent[i]
    BY <1>7, <1>8
  <2>2. \A n \in Nat :
           (fund.balance - n) * FeeRateDenom >= (samet.lent[id] - fund.unpaid_amount) * fund.fee_rate
           => (g.balance - n) * FeeRateDenom >= (s.lent[id] - g.unpaid_amount) * g.fee_rate
    BY <1>5, <1>10
  <2> QED BY <1>1, <1>5, <1>8, <2>1, <2>2, OneFundKeeps
<1> QED BY <1>1, <1>8, <1>11, OperationKeeps

LEMMA FundRepayKeeps ==
    ASSUME FundInv, NEW id \in FundId, NEW acct \in Account, NEW amount \in FundAmounts,
           NEW fee \in FundAmounts \cup {0}, samet_fund_repay(id, acct, amount, fee)
    PROVE  FundInv'
<1> DEFINE fund == samet.funds[id]
           paid == Paid(samet, acct, -(amount + fee))
           g == [fund EXCEPT !.balance = @ + fee, !.unpaid_amount = @ - amount]
           f == [samet.funds EXCEPT ![id] = g]
           s == [paid EXCEPT !.funds[id].balance = @ + fee, !.funds[id].unpaid_amount = @ - amount]
<1>1. /\ samet \in FundState /\ id \in DOMAIN samet.funds /\ amount \in Nat /\ fee \in Nat
      /\ FeeRateDenom \in Nat /\ Operation(s)
  BY FundAssumption DEF FundInv, samet_fund_repay
<1>2. /\ samet.balances \in [Account -> Nat] /\ fund \in Fund /\ fund.unpaid_amount \in Nat
      /\ fund.balance \in Nat /\ fund.fee_rate \in Nat /\ samet.lent[id] \in Nat
      /\ samet.funds \in [DOMAIN samet.funds -> Fund] /\ DOMAIN samet.funds \in SUBSET FundId
  BY <1>1, FundStateFacts
<1>3. amount <= fund.unpaid_amount /\ fee >= RequiredFundFee(fund, amount) /\ samet.balances[acct] >= amount + fee
  BY DEF samet_fund_repay
<1>4. samet.balances[acct] + (-(amount + fee)) \in Nat /\ -(amount + fee) \in Int
  BY <1>1, <1>2, <1>3
<1>5. paid \in FundState /\ paid.funds = samet.funds /\ paid.lent = samet.lent /\ paid.touched = samet.touched
  BY <1>1, <1>4, PaidFacts
<1> HIDE DEF paid
<1>6. g \in Fund /\ g.balance = fund.balance + fee /\ g.unpaid_amount = fund.unpaid_amount - amount
      /\ g.fee_rate = fund.fee_rate
  <2>1. fund.balance + fee \in Nat /\ fund.unpaid_amount - amount \in Nat
    BY <1>1, <1>2, <1>3
  <2> QED BY <1>2, <2>1, Zenon DEF Fund
<1>7. f \in FundSets
  <2> HIDE DEF g
  <2>1. DOMAIN f \in SUBSET FundId /\ f \in [DOMAIN f -> Fund]
    BY <1>2, <1>6, Zenon
  <2> HIDE DEF f
  <2> QED BY <2>1, FundSetFacts
<1>8. s = [paid EXCEPT !.funds = f]
  <2>1. [[paid.funds EXCEPT ![id].balance = @ + fee] EXCEPT ![id].unpaid_amount = @ - amount] = f
    BY <1>1, <1>2, <1>5, Zenon DEF Fund
  <2>2. s = [paid EXCEPT !.funds = [[paid.funds EXCEPT ![id].balance = @ + fee]
                                       EXCEPT ![id].unpaid_amount = @ - amount]]
    <3> DEFINE mid == [paid.funds EXCEPT ![id].balance = @ + fee]
               more == [paid EXCEPT !.funds = mid]
    <3>1. [paid EXCEPT !.funds[id].balance = @ + fee] = more
      BY <1>1, <1>5 DEF FundState
    <3>2. s = [more EXCEPT !.funds[id].unpaid_amount = @ - amount]
      BY <3>1, Zenon
    <3> HIDE DEF mid, s
    <3>3. more.funds = mid /\ DOMAIN more = DOMAIN paid /\ "funds" \in DOMAIN paid
      BY <1>5 DEF FundState
    <3>4. s = [more EXCEPT !.funds = [mid EXCEPT ![id].unpaid_amount = @ - amount]]
      <4> HIDE DEF more
      <4> QED BY <3>2, <3>3
    <3>5. [more EXCEPT !.funds = [mid EXCEPT ![id].unpaid_amount = @ - amount]]
             = [paid EXCEPT !.funds = [mid EXCEPT ![id].unpaid_amount = @ - amount]]
      <4> DEFINE last == [mid EXCEPT ![id].unpaid_amount = @ - amount]
      <4> HIDE DEF last
      <4>1. [more EXCEPT !.funds = last] = [paid EXCEPT !.funds = last]
        BY <1>5, Zenon DEF FundState
      <4> QED BY <4>1 DEF last
    <3> QED BY <3>4, <3>5 DEF mid
  <2> HIDE DEF f, s
  <2> QED BY <2>1, <2>2
<1> HIDE DEF s
<1>9. s \in FundState /\ s.funds = f /\ s.lent = samet.lent /\ s.touched = samet.touched
  <2> HIDE DEF f
  <2> QED BY <1>5, <1>7, <1>8 DEF FundState
<1> HIDE DEF g
<1>10. ASSUME NEW n \in Nat,
              (fund.balance - n) * FeeRateDenom >= (samet.lent[id] - fund.unpaid_amount) * fund.fee_rate
       PROVE  (g.balance - n) * FeeRateDenom >= (s.lent[id] - g.unpaid_amount) * g.fee_rate
  <2> DEFINE x == fund.balance - n
             y == samet.lent[id] - fund.unpaid_amount
             d == FeeRateDenom
             r == fund.fee_rate
  <2>1. x \in Int /\ y \in Int /\ d \in Nat /\ r \in Nat /\ x * d >= y * r
    BY <1>1, <1>2, <1>10
  <2>2. fee * d >= amount * r
    BY <1>1, <1>2, <1>3, RequiredFeeFacts
  <2>3. g.balance - n = x + fee
    BY <1>1, <1>2, <1>6
  <2>4. s.lent[id] - g.unpaid_amount = y + amount
    BY <1>1, <1>2, <1>6, <1>9
  <2> HIDE DEF x, y
  <2>5. (x + fee) * d = x * d + fee * d /\ (y + amount) * r = y * r + amount * r
    BY <1>1, <2>1
  <2>6. x * d \in Int /\ fee * d \in Int /\ y * r \in Int /\ amount * r \in Int
    BY <1>1, <2>1
  <2>7. (x + fee) * d >= (y + amount) * r
    BY <2>1, <2>2, <2>5, <2>6
  <2> QED BY <1>6, <2>3, <2>4, <2>7
<1>11. \A c \in FundState : Gains(c, samet) => Gains(c, s)
  <2>1. \A i \in FundId \ {id} : s.lent[i] = samet.lent[i]
    BY <1>9
  <2> QED BY <1>1, <1>6, <1>9, <1>10, <2>1, OneFundKeeps
<1> QED BY <1>1, <1>9, <1>11, OperationKeeps

LEMMA LenFacts ==
    ASSUME NEW S, NEW s \in Seq(S)
    PROVE  /\ Len(s) \in Nat /\ (\A i \in 1..Len(s) : s[i] \in S)
           /\ Len(s) <= 2 => Len(s) = 0 \/ Len(s) = 1 \/ Len(s) = 2
           /\ s = << >> <=> Len(s) = 0
           /\ Len(s) >= 1 <=> Len(s) # 0
<1> DEFINE n == Len(s)
<1>1. n \in Nat /\ (\A i \in 1..n : s[i] \in S)
  OBVIOUS
<1>2. s = << >> <=> n = 0
  OBVIOUS
<1> HIDE DEF n
<1>3. (n <= 2 => n = 0 \/ n = 1 \/ n = 2) /\ (n >= 1 <=> n # 0)
  BY <1>1
<1> QED BY <1>1, <1>2, <1>3 DEF n

LEMMA AppendFacts ==
    ASSUME NEW S, NEW s \in Seq(S), NEW e \in S
    PROVE  /\ Append(s, e) \in Seq(S) /\ Append(s, e) # << >>
           /\ Len(s) = 1 => Len(Append(s, e)) = 2 /\ Append(s, e)[1] = s[1] /\ Append(s, e)[2] = e
<1> DEFINE t == Append(s, e)
           n == Len(s)
<1>1. /\ t \in Seq(S) /\ t # << >> /\ Len(t) = Len(s) + 1 /\ t[Len(s) + 1] = e
      /\ \A i \in 1..Len(s) : t[i] = s[i]
  OBVIOUS
<1>2. /\ Len(t) = n + 1 /\ t[n + 1] = e /\ \A i \in 1..n : t[i] = s[i]
  BY <1>1
<1> HIDE DEF t, n
<1>3. n = 1 => Len(t) = 2 /\ t[1] = s[1] /\ t[2] = e
  BY <1>2
<1> QED BY <1>1, <1>3 DEF t, n

LEMMA OuterFacts ==
    ASSUME NEW S, NEW s \in Seq(S), NEW n \in Nat, n = Len(s), n >= 1
    PROVE  /\ SubSeq(s, 1, n - 1) \in Seq(S) /\ Len(SubSeq(s, 1, n - 1)) = n - 1
           /\ n = 2 => SubSeq(s, 1, n - 1)[1] = s[1]
           /\ n = 1 => SubSeq(s, 1, n - 1) = << >>
<1> DEFINE k == n - 1
           t == SubSeq(s, 1, k)
<1>1. \A i \in 1..n : s[i] \in S
  OBVIOUS
<1>2. k \in Nat /\ k \in Int /\ (\A i \in 1..k : s[i] \in S) /\ 1 \in Int /\ k - 1 + 1 = k
  BY <1>1
<1> HIDE DEF k
<1>3. /\ t \in Seq(S)
      /\ Len(t) = IF 1 <= k THEN k - 1 + 1 ELSE 0
      /\ \A i \in 1..(k - 1 + 1) : t[i] = s[1 + i - 1]
  BY <1>2
<1> HIDE DEF t
<1>4. Len(t) = k
  BY <1>2, <1>3
<1>5. k = 0 => t = << >>
  BY <1>3, <1>4
<1>6. k = 1 => t[1] = s[1]
  BY <1>3
<1>7. (n = 2 => k = 1) /\ (n = 1 => k = 0)
  BY DEF k
<1> QED BY <1>3, <1>4, <1>5, <1>6, <1>7 DEF t, k

\* What is left of one session, or of two.
LEMMA OuterSessionsFacts ==
    ASSUME NEW S, sessions \in Seq(S)
    PROVE  /\ Len(sessions) = 1 => OuterSessions = << >>
           /\ Len(sessions) = 2 => /\ OuterSessions \in Seq(S) /\ Len(OuterSessions) = 1
                                  /\ OuterSessions[1] = sessions[1] /\ OuterSessions # << >>
<1> DEFINE n == Len(sessions)
           t == OuterSessions
<1>1. n \in Nat /\ t = SubSeq(sessions, 1, n - 1)
  BY LenFacts DEF OuterSessions
<1>2. n >= 1 => /\ t \in Seq(S) /\ Len(t) = n - 1
                /\ (n = 2 => t[1] = sessions[1]) /\ (n = 1 => t = << >>)
  <2> HIDE DEF t
  <2> QED BY <1>1, OuterFacts, Zenon
<1>3. t \in Seq(S) => (t = << >> <=> Len(t) = 0)
  BY LenFacts
<1> DEFINE k == Len(t)
           b == t[1] = sessions[1]
<1> HIDE DEF n, t, k, b
<1>4. n >= 1 => /\ t \in Seq(S) /\ k = n - 1
                /\ (n = 2 => b) /\ (n = 1 => t = << >>)
  BY <1>2 DEF k, b
<1>5. (n = 1 => t = << >>) /\ (n = 2 => t \in Seq(S) /\ b)
  BY <1>1, <1>4
<1>6. n = 2 => k = 1 /\ k # 0
  BY <1>1, <1>4
<1>7. n = 2 => t # << >>
  <2>1. t = << >> /\ t \in Seq(S) => k = 0
    BY <1>3 DEF k
  <2> QED BY <1>5, <1>6, <2>1
<1> QED BY <1>5, <1>6, <1>7 DEF n, t, k, b

LEMMA SessionsKeep ==
    ASSUME FundInv, Begin \/ push_proposal_begin \/ Merge \/ UndoSession
    PROVE  FundInv'
<1>1. samet \in FundState /\ sessions \in Seq(FundState) /\ Len(sessions) <= 2
  BY DEF FundInv
<1>a. /\ Len(sessions) = 0 \/ Len(sessions) = 1 \/ Len(sessions) = 2
      /\ sessions = << >> <=> Len(sessions) = 0
      /\ Len(sessions) >= 1 <=> Len(sessions) # 0
  BY <1>1, LenFacts
<1>2. CASE Begin
  <2> DEFINE zero == [id \in FundId |-> 0]
             s == [samet EXCEPT !.lent = zero, !.touched = {}]
  <2>1. sessions = << >> /\ sessions' = <<samet>> /\ samet' = s
    BY <1>2 DEF Begin
  <2>2. zero \in [FundId -> Nat] /\ {} \in SUBSET FundId /\ \A id \in FundId : zero[id] = 0
    OBVIOUS
  <2> HIDE DEF zero
  <2>3. s \in FundState /\ s.funds = samet.funds /\ s.lent = zero /\ s.touched = {}
    BY <1>1, <2>2, Zenon DEF FundState
  <2> HIDE DEF s
  <2>4. NoDebt(samet)
    BY <2>1 DEF FundInv
  <2>5. Gains(samet, s)
    <3> SUFFICES ASSUME NEW id \in DOMAIN samet.funds
                 PROVE  (samet.funds[id].balance - samet.funds[id].balance) * FeeRateDenom
                           >= (zero[id] - samet.funds[id].unpaid_amount) * samet.funds[id].fee_rate
      BY <2>3 DEF Gains
    <3>1. /\ samet.funds[id].balance \in Nat /\ samet.funds[id].fee_rate \in Nat
          /\ samet.funds[id].unpaid_amount = 0 /\ zero[id] = 0 /\ FeeRateDenom \in Nat
      BY <1>1, <2>2, <2>4, FundStateFacts, FundAssumption DEF NoDebt
    <3>2. samet.funds[id].balance - samet.funds[id].balance = 0 /\ zero[id] - samet.funds[id].unpaid_amount = 0
      BY <3>1
    <3>3. 0 * FeeRateDenom = 0 /\ 0 * samet.funds[id].fee_rate = 0
      BY <3>1
    <3> QED BY <3>2, <3>3
  <2>6. <<samet>> \in Seq(FundState) /\ Len(<<samet>>) = 1 /\ <<samet>>[1] = samet /\ <<samet>> # << >>
    BY <1>1
  <2> DEFINE t == <<samet>>
  <2> HIDE DEF t
  <2>7. NoDebt(t[1]) /\ Gains(t[1], s) /\ t \in Seq(FundState) /\ Len(t) = 1 /\ t # << >>
    BY <2>4, <2>5, <2>6, Zenon DEF t
  <2>8. FundGood(s, t)
    BY <2>3, <2>7, OneSession, Zenon
  <2> QED BY <2>1, <2>8, FundGoodNext, Zenon DEF t
<1>3. CASE push_proposal_begin
  <2>1. Len(sessions) = 1 /\ sessions' = Append(sessions, samet) /\ samet' = samet
    BY <1>3 DEF push_proposal_begin
  <2>2. /\ sessions' \in Seq(FundState) /\ Len(sessions') = 2 /\ sessions'[1] = sessions[1]
        /\ sessions'[2] = samet /\ sessions' # << >>
    BY <1>1, <2>1, AppendFacts
  <2>3. NoDebt(sessions[1]) /\ Gains(sessions[1], samet)
    BY <1>a, <2>1 DEF FundInv
  <2>4. NoDebt(sessions'[1]) /\ Gains(sessions'[1], samet) /\ Gains(sessions'[1], sessions'[2])
    BY <2>2, <2>3, Zenon
  <2>5. FundGood(samet, sessions')
    BY <1>1, <2>2, <2>4, TwoSessions, Zenon
  <2> QED BY <2>1, <2>5, FundGoodNext, Zenon
<1>4. CASE Merge
  <2>1. sessions # << >> /\ NoDebt(samet) /\ sessions' = OuterSessions /\ samet' = samet
    BY <1>4 DEF Merge, NothingUnpaid, NoDebt
  <2>2. CASE Len(sessions) = 1
    <3>1. sessions' = << >> /\ << >> \in Seq(FundState) /\ Len(<< >>) = 0
      BY <1>1, <2>1, <2>2, OuterSessionsFacts
    <3>2. FundGood(samet, << >>)
      BY <1>1, <2>1, NoSession, Zenon
    <3> QED BY <2>1, <3>1, <3>2, FundGoodNext, Zenon
  <2>3. CASE Len(sessions) = 2
    <3>1. sessions' \in Seq(FundState) /\ Len(sessions') = 1 /\ sessions'[1] = sessions[1] /\ sessions' # << >>
      BY <1>1, <2>1, <2>3, OuterSessionsFacts
    <3>2. NoDebt(sessions[1]) /\ Gains(sessions[1], samet)
      BY <1>a, <2>3 DEF FundInv
    <3>3. NoDebt(sessions'[1]) /\ Gains(sessions'[1], samet)
      BY <3>1, <3>2, Zenon
    <3>4. FundGood(samet, sessions')
      BY <1>1, <3>1, <3>3, OneSession, Zenon
    <3> QED BY <2>1, <3>4, FundGoodNext, Zenon
  <2> QED BY <1>a, <2>1, <2>2, <2>3
<1>5. CASE UndoSession
  <2>1. sessions # << >> /\ sessions' = OuterSessions /\ samet' = sessions[Len(sessions)]
    BY <1>5 DEF UndoSession
  <2>2. CASE Len(sessions) = 1
    <3>1. sessions' = << >> /\ << >> \in Seq(FundState) /\ Len(<< >>) = 0
      BY <1>1, <2>1, <2>2, OuterSessionsFacts
    <3>2. sessions[1] \in FundState
      BY <1>1, <2>2, LenFacts
    <3>3. NoDebt(sessions[1])
      BY <1>a, <2>2 DEF FundInv
    <3>4. samet' = sessions[1]
      BY <2>1, <2>2
    <3>5. FundGood(sessions[1], << >>)
      BY <3>2, <3>3, NoSession, Zenon
    <3> QED BY <3>1, <3>4, <3>5, FundGoodNext, Zenon
  <2>3. CASE Len(sessions) = 2
    <3>1. sessions' \in Seq(FundState) /\ Len(sessions') = 1 /\ sessions'[1] = sessions[1] /\ sessions' # << >>
      BY <1>1, <2>1, <2>3, OuterSessionsFacts
    <3>2. sessions[2] \in FundState
      BY <1>1, <2>3, LenFacts
    <3>3. NoDebt(sessions[1]) /\ Gains(sessions[1], sessions[2])
      BY <1>a, <2>3 DEF FundInv
    <3>4. samet' = sessions[2]
      BY <2>1, <2>3
    <3>5. NoDebt(sessions'[1]) /\ Gains(sessions'[1], sessions[2])
      BY <3>1, <3>3, Zenon
    <3>6. FundGood(sessions[2], sessions')
      BY <3>1, <3>2, <3>5, OneSession, Zenon
    <3> QED BY <3>4, <3>6, FundGoodNext, Zenon
  <2> QED BY <1>a, <2>1, <2>2, <2>3
<1> QED BY <1>2, <1>3, <1>4, <1>5

LEMMA FundStep == FundInv /\ [FundNext]_fund_vars => FundInv'
<1> SUFFICES ASSUME FundInv, [FundNext]_fund_vars PROVE FundInv'
  OBVIOUS
<1>1. CASE UNCHANGED fund_vars
  <2>1. FundGood(samet, sessions)
    BY FundGoodNow
  <2>2. samet' = samet /\ sessions' = sessions
    BY <1>1 DEF fund_vars
  <2> QED BY <2>1, <2>2, FundGoodNext, Zenon
<1>2. ASSUME NEW id \in FundId, NEW n \in FundAmounts \cup {0}, NEW sign \in {-1, 1}, NEW r \in FeeRates,
             samet_fund_update(id, sign * n, r)
      PROVE  FundInv'
  <2>1. sign * n \in Int
    BY FundAssumption
  <2> QED BY <1>2, <2>1, FundUpdateKeeps
<1> QED BY <1>1, <1>2, FundCreateKeeps, FundDeleteKeeps, FundBorrowKeeps, FundRepayKeeps, SessionsKeep
        DEF FundNext

LEMMA FundStart == FundInit => FundInv
<1> SUFFICES ASSUME FundInit PROVE FundInv
  OBVIOUS
<1> DEFINE f == [id \in {} |-> 0]
           l == [id \in FundId |-> 0]
           b == [acct \in Account |-> FundEndowment]
<1>1. samet = [balances |-> b, funds |-> f, next_id |-> 0, lent |-> l, touched |-> {}] /\ sessions = << >>
  BY DEF FundInit
<1>2. DOMAIN f = {} /\ DOMAIN f \in SUBSET FundId /\ f \in [DOMAIN f -> Fund]
  OBVIOUS
<1>3. b \in [Account -> Nat] /\ l \in [FundId -> Nat] /\ {} \in SUBSET FundId
  BY FundAssumption
<1> HIDE DEF f, l, b
<1>4. f \in FundSets
  BY <1>2, FundSetFacts, Zenon
<1>5. samet \in FundState /\ samet.funds = f
  BY <1>1, <1>3, <1>4 DEF FundState
<1>6. NoDebt(samet)
  BY <1>2, <1>5 DEF NoDebt
<1>7. sessions \in Seq(FundState) /\ Len(sessions) = 0
  BY <1>1
<1> QED BY <1>5, <1>6, <1>7 DEF FundInv

\* A transaction ends with every loan repaid, and with at least the fee of all
\* that was lent in it in each fund that was there and was not changed: however
\* many funds, loans and partial repayments there are, with a proposal executed
\* or undone in the middle.
THEOREM LoansRepaidAlways == FundSpec => LoansRepaid
<1> DEFINE Ends == Len(sessions) = 1 /\ sessions' = << >> =>
              \A id \in DOMAIN samet'.funds :
                 /\ samet'.funds[id].unpaid_amount = 0
                 /\ id \in DOMAIN sessions[1].funds /\ id \notin samet.touched /\ samet' = samet =>
                       (samet'.funds[id].balance - sessions[1].funds[id].balance) * FeeRateDenom
                          >= samet.lent[id] * samet.funds[id].fee_rate
<1>1. FundInv /\ FundInv' /\ [FundNext]_fund_vars => [Ends]_fund_vars
  <2> SUFFICES ASSUME FundInv, FundInv', Len(sessions) = 1, sessions' = << >>, NEW id \in DOMAIN samet'.funds
               PROVE  /\ samet'.funds[id].unpaid_amount = 0
                      /\ id \in DOMAIN sessions[1].funds /\ id \notin samet.touched /\ samet' = samet =>
                            (samet'.funds[id].balance - sessions[1].funds[id].balance) * FeeRateDenom
                               >= samet.lent[id] * samet.funds[id].fee_rate
    OBVIOUS
  <2>1. samet'.funds[id].unpaid_amount = 0
    BY DEF FundInv, NoDebt
  <2>2. ASSUME id \in DOMAIN sessions[1].funds, id \notin samet.touched, samet' = samet
        PROVE  (samet'.funds[id].balance - sessions[1].funds[id].balance) * FeeRateDenom
                  >= samet.lent[id] * samet.funds[id].fee_rate
    <3>1. (samet.funds[id].balance - sessions[1].funds[id].balance) * FeeRateDenom
             >= (samet.lent[id] - samet.funds[id].unpaid_amount) * samet.funds[id].fee_rate
      BY <2>2 DEF FundInv, Gains
    <3>2. samet.lent[id] \in Nat /\ samet.funds[id].unpaid_amount = 0
      BY <2>1, <2>2, FundStateFacts DEF FundInv
    <3>3. samet.lent[id] - samet.funds[id].unpaid_amount = samet.lent[id]
      BY <3>2
    <3> QED BY <2>2, <3>1, <3>3
  <2> QED BY <2>1, <2>2
<1>2. FundInit => FundInv
  BY FundStart
<1>3. FundInv /\ [FundNext]_fund_vars => FundInv'
  BY FundStep
<1> QED BY <1>1, <1>2, <1>3, PTL DEF FundSpec, LoansRepaid
=============================================================================
