--------------------------- MODULE LiquidityPool ---------------------------
(***************************************************************************)
(* One liquidity pool over the assets "a" and "b" and its share asset: the *)
(* evaluators of the liquidity_pool operations, and of asset_issue and     *)
(* asset_reserve of the share asset, which change the supply the pool      *)
(* computes with.                                                          *)
(*                                                                         *)
(* is_authorized_asset, the market white and black lists and the           *)
(* disable_new_supply flag only ever refuse an operation; an operation     *)
(* they refuse is one that does not happen here.  Amounts are unbounded:   *)
(* balances are below 10^15 in the code, and their products are computed   *)
(* with 128 bits.                                                          *)
(***************************************************************************)
EXTENDS MarketFees, FiniteSetsExt

CONSTANTS
    Owner,              \* issuer of the share asset, which owns the pool
    PoolEndowment,          \* per account, its initial balance of each asset
    MaxSupply,          \* max_supply of the share asset
    TakerFees,          \* values of the pool's taker_fee_percent
    WithdrawalFees,     \* values of the pool's withdrawal_fee_percent
    PoolAmounts,            \* bound: amounts in operations
    NoPool

ASSUME PoolAssumption ==
    /\ Asset = {"a", "b"}
    /\ Owner \in Account
    /\ PoolEndowment \in [Account -> [Asset -> Nat]]
    /\ MaxSupply \in Nat
    /\ TakerFees \subseteq Percent /\ WithdrawalFees \subseteq Percent
    /\ PoolAmounts \subseteq Nat \ {0}
    /\ NoPool \notin [balance : [Asset -> Nat], taker_fee_percent : Percent,
                      withdrawal_fee_percent : Percent, virtual_value : Nat]

VARIABLES
    pool,            \* the liquidity_pool_object, or NoPool
    current_supply,  \* of the share asset
    balances,        \* account balances of the two assets
    shares,          \* account balances of the share asset
    fees,            \* market fees paid to each party
    internal_error   \* an FC_ASSERT( ..., "Internal error" ) failed

pool_vars == <<pool, current_supply, balances, shares, fees, internal_error>>

Pool == [balance : [Asset -> Nat], taker_fee_percent : Percent,
         withdrawal_fee_percent : Percent, virtual_value : Nat]

CeilDiv(n, d) == (n + d - 1) \div d
Other(x)      == CHOOSE y \in Asset : y # x

(* A change of the balances ends with update_virtual_value.                *)
update_virtual_value(p) ==
    [p EXCEPT !.virtual_value = p.balance["a"] * p.balance["b"]]

(* The checks marked "Internal error": they can fail only if the state is  *)
(* already wrong, and then the operation fails.                            *)
Checked(ok, change) ==
    IF ok THEN change /\ UNCHANGED internal_error
    ELSE internal_error' = TRUE /\ UNCHANGED <<pool, current_supply, balances, shares, fees>>

-----------------------------------------------------------------------------
liquidity_pool_create(taker, withdrawal) ==
    /\ pool = NoPool
    /\ current_supply = 0
    /\ pool' = [balance |-> [x \in Asset |-> 0], taker_fee_percent |-> taker,
                withdrawal_fee_percent |-> withdrawal, virtual_value |-> 0]
    /\ UNCHANGED <<current_supply, balances, shares, fees, internal_error>>

liquidity_pool_delete ==
    /\ pool # NoPool
    /\ \A x \in Asset : pool.balance[x] = 0
    /\ pool' = NoPool
    /\ UNCHANGED <<current_supply, balances, shares, fees, internal_error>>

(* Either fee percent may be left as it is; withdrawal_fee_percent can     *)
(* only be set to zero.                                                    *)
liquidity_pool_update(taker, withdrawal) ==
    /\ pool # NoPool
    /\ taker # Unset \/ withdrawal # Unset
    /\ withdrawal \in {0, Unset}
    /\ taker # Unset => pool.withdrawal_fee_percent = 0 \/ withdrawal = 0
    /\ pool' = [pool EXCEPT !.taker_fee_percent = IF taker = Unset THEN @ ELSE taker,
                            !.withdrawal_fee_percent = IF withdrawal = Unset THEN @ ELSE withdrawal]
    /\ UNCHANGED <<current_supply, balances, shares, fees, internal_error>>

-----------------------------------------------------------------------------
(* What a deposit of at most offer[x] of each asset pays in, and the       *)
(* shares it gets.                                                         *)
FirstDeposit(offer) ==
    [pays |-> offer, gets |-> Max({offer[x] : x \in Asset})]

LaterDeposit(offer) ==
    LET if(x) == (current_supply * offer[x]) \div pool.balance[x]
        new   == Min({if("a"), if("b"), MaxSupply - current_supply})
    IN  [pays |-> [x \in Asset |-> CeilDiv(new * pool.balance[x], current_supply)],
         gets |-> new]

Empty == pool.balance["a"] = 0

liquidity_pool_deposit(acct, offer) ==
    /\ pool # NoPool
    /\ Empty => acct = Owner
    /\ current_supply < MaxSupply
    /\ \E d \in {IF Empty THEN FirstDeposit(offer) ELSE LaterDeposit(offer)} :
          /\ d.gets > 0
          /\ d.gets <= MaxSupply
          /\ \A x \in Asset : balances[acct][x] >= d.pays[x]
          /\ Checked(/\ Empty = (pool.balance["b"] = 0)
                     /\ Empty = (current_supply = 0)
                     /\ \A x \in Asset : d.pays[x] <= offer[x]
                     /\ \A x \in Asset : pool.balance[x] + d.pays[x] > 0,
                     /\ balances' = [balances EXCEPT ![acct] = [x \in Asset |-> @[x] - d.pays[x]]]
                     /\ shares' = [shares EXCEPT ![acct] = @ + d.gets]
                     /\ pool' = update_virtual_value(
                           [pool EXCEPT !.balance = [x \in Asset |-> @[x] + d.pays[x]]])
                     /\ current_supply' = current_supply + d.gets
                     /\ UNCHANGED fees)

(* What the pool pays for an amount of shares, before and after its fee.   *)
Portion(x, amount) == (amount * pool.balance[x]) \div current_supply

Withdrawal(amount) ==
    IF amount = current_supply
    THEN pool.balance
    ELSE [x \in Asset |->
             LET portion == Portion(x, amount)
             IN  portion - calculate_percent(portion, pool.withdrawal_fee_percent)]

liquidity_pool_withdraw(acct, amount) ==
    /\ pool # NoPool
    /\ \A x \in Asset : pool.balance[x] > 0
    /\ current_supply >= amount
    /\ shares[acct] >= amount
    /\ \E pays \in {Withdrawal(amount)} :
          /\ amount # current_supply => \E x \in Asset : pays[x] > 0
          /\ Checked(/\ amount # current_supply =>
                           \A x \in Asset : Portion(x, amount) < pool.balance[x]
                     /\ (pool.balance["a"] = pays["a"]) = (pool.balance["b"] = pays["b"])
                     /\ (pool.balance["a"] = pays["a"]) = (current_supply = amount),
                     /\ shares' = [shares EXCEPT ![acct] = @ - amount]
                     /\ balances' = [balances EXCEPT ![acct] = [x \in Asset |-> @[x] + pays[x]]]
                     /\ current_supply' = current_supply - amount
                     /\ pool' = update_virtual_value(
                           [pool EXCEPT !.balance = [x \in Asset |-> @[x] - pays[x]]])
                     /\ UNCHANGED fees)

-----------------------------------------------------------------------------
(* How much of the other asset the pool gives up for receives of asset x:  *)
(* its new balance is rounded up, so that the virtual value never falls.   *)
NewBalance(x, receives) == CeilDiv(pool.virtual_value, pool.balance[x] + receives)

liquidity_pool_exchange(acct, x, sell, min_to_receive) ==
    LET y         == Other(x)
        maker_fee == calculate_market_fee(x, sell, TRUE)
        receives  == sell - maker_fee
        new_y     == NewBalance(x, receives)
        delta     == pool.balance[y] - new_y
        pays      == delta - calculate_percent(delta, pool.taker_fee_percent)
        taker_fee == calculate_market_fee(y, pays, FALSE)
        maker     == FeeParts(Owner, x, maker_fee)
        taker     == FeeParts(acct, y, taker_fee)
        changed   == update_virtual_value(
                        [pool EXCEPT !.balance[x] = @ + receives, !.balance[y] = @ - pays])
    IN  /\ pool # NoPool
        /\ \A z \in Asset : pool.balance[z] > 0
        /\ balances[acct][x] >= sell
        /\ maker_fee < sell
        /\ new_y <= pool.balance[y] => pays - taker_fee >= min_to_receive
        /\ Checked(/\ new_y <= pool.balance[y]
                   /\ \A z \in Asset : changed.balance[z] > 0
                   /\ changed.virtual_value >= pool.virtual_value,
                   /\ balances' = [balances EXCEPT ![acct][x] = @ - sell,
                                                   ![acct][y] = @ + pays - taker_fee]
                   /\ pool' = changed
                   /\ fees' = [p \in Party |-> [fees[p] EXCEPT ![x] = @ + maker[p],
                                                               ![y] = @ + taker[p]]]
                   /\ UNCHANGED <<current_supply, shares>>)

-----------------------------------------------------------------------------
asset_issue(acct, amount) ==
    /\ pool = NoPool
    /\ current_supply + amount <= MaxSupply
    /\ shares' = [shares EXCEPT ![acct] = @ + amount]
    /\ current_supply' = current_supply + amount
    /\ UNCHANGED <<pool, balances, fees, internal_error>>

asset_reserve(acct, amount) ==
    /\ IF pool = NoPool THEN current_supply >= amount ELSE current_supply > amount
    /\ shares[acct] >= amount
    /\ shares' = [shares EXCEPT ![acct] = @ - amount]
    /\ current_supply' = current_supply - amount
    /\ UNCHANGED <<pool, balances, fees, internal_error>>

transfer_shares(from, to, amount) ==
    /\ from # to
    /\ shares[from] >= amount
    /\ shares' = [shares EXCEPT ![from] = @ - amount, ![to] = @ + amount]
    /\ UNCHANGED <<pool, current_supply, balances, fees, internal_error>>

-----------------------------------------------------------------------------
PoolInit ==
    /\ pool = NoPool
    /\ current_supply = 0
    /\ balances = PoolEndowment
    /\ shares = [acct \in Account |-> 0]
    /\ fees = [p \in Party |-> [x \in Asset |-> 0]]
    /\ internal_error = FALSE

Offer == [Asset -> PoolAmounts]

PoolNext ==
    /\ ~internal_error
    /\ \/ \E t \in TakerFees, w \in WithdrawalFees : liquidity_pool_create(t, w)
       \/ liquidity_pool_delete
       \/ \E t \in TakerFees \cup {Unset}, w \in {0, Unset} : liquidity_pool_update(t, w)
       \/ \E acct \in Account, offer \in Offer : liquidity_pool_deposit(acct, offer)
       \/ \E acct \in Account, n \in PoolAmounts : liquidity_pool_withdraw(acct, n)
       \/ \E acct \in Account, x \in Asset, n, min \in PoolAmounts :
             liquidity_pool_exchange(acct, x, n, min)
       \/ \E acct \in Account, n \in PoolAmounts : asset_issue(acct, n)
       \/ \E acct \in Account, n \in PoolAmounts : asset_reserve(acct, n)
       \/ \E from, to \in Account, n \in PoolAmounts : transfer_shares(from, to, n)

PoolSpec == PoolInit /\ [][PoolNext]_pool_vars

-----------------------------------------------------------------------------
(* Checked as part of PoolConsistent.                                      *)
PoolTypeOK ==
    /\ pool \in Pool \cup {NoPool}
    /\ current_supply \in 0..MaxSupply
    /\ balances \in [Account -> [Asset -> Nat]]
    /\ shares \in [Account -> Nat]
    /\ fees \in [Party -> [Asset -> Nat]]
    /\ internal_error \in BOOLEAN

(* A pool is empty on both sides or on none, exactly when no share exists, *)
(* and the cached virtual_value is the product of the current balances.    *)
(* The "Internal error" checks of the evaluators never fail: rounding in a *)
(* deposit never asks for more than was offered, a partial withdrawal      *)
(* never empties one side, an exchange never lowers the virtual value.     *)
PoolConsistent ==
    /\ PoolTypeOK
    /\ internal_error = FALSE
    /\ pool # NoPool =>
          /\ (pool.balance["a"] = 0) = (pool.balance["b"] = 0)
          /\ (pool.balance["a"] = 0) = (current_supply = 0)
          /\ pool.virtual_value = pool.balance["a"] * pool.balance["b"]

(* No operation of anybody takes value from the other shareholders: the    *)
(* pool behind one share, measured by balance_a * balance_b / supply^2,    *)
(* never falls while shares exist.  All rounding is in the pool's favour.  *)
ValuePerShareKept ==
    /\ pool # NoPool /\ current_supply > 0
    /\ pool' # NoPool /\ current_supply' > 0
    => pool'.balance["a"] * pool'.balance["b"] * current_supply * current_supply
          >= pool.balance["a"] * pool.balance["b"] * current_supply' * current_supply'

(* verify_asset_supplies: nothing is created or lost.  The balances, the   *)
(* pool and the paid fees hold what the accounts started with, and the     *)
(* share balances add up to current_supply.                                *)
Total(f) == MapThenSumSet(LAMBDA acct : f[acct], Account)

PoolSupplies ==
    /\ \A x \in Asset :
          Total([acct \in Account |-> balances[acct][x]])
             + (IF pool = NoPool THEN 0 ELSE pool.balance[x])
             + MapThenSumSet(LAMBDA p : fees[p][x], Party)
          = Total([acct \in Account |-> PoolEndowment[acct][x]])
    /\ Total(shares) = current_supply
=============================================================================
