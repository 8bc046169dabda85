------------------------------- MODULE Vault -------------------------------
(***************************************************************************)
(* One vault of the paritas program: the wrappers of one equity it holds   *)
(* and the receipt token, denominated in equity units, that it issues      *)
(* against them.  Deposits, withdrawals and the credit that                *)
(* settle_execution gives a plan's owner are the program's; the issuer     *)
(* moves the multipliers, and holders move, and burn, their own tokens     *)
(* through the token program without asking anyone.                        *)
(***************************************************************************)
EXTENDS ParitasMath, FiniteSets, Functions

CONSTANTS
  Users,
  Wrappers,       \* mints of the same equity, each with a ScaledUiAmountConfig
  Decimals,       \* wrapper -> decimals
  InitialConfig,  \* wrapper -> ScaledUiAmountConfig
  InitialWallet,  \* user -> wrapper -> raw tokens
  InitialStock,   \* wrapper -> raw tokens that swaps can still deliver
  Multipliers,    \* values the issuer may set
  OnlyGrowing,    \* the issuer never lowers a live or pending multiplier
  MaxTime

ConfigRecord ==
  [multiplier : Nat \ {0}, new_multiplier : Nat \ {0}, effective_ts : Int]

ASSUME VaultAssumption ==
  /\ IsFiniteSet(Users) /\ IsFiniteSet(Wrappers)
  /\ Decimals \in [Wrappers -> 0..MAX_DECIMALS]
  /\ InitialConfig \in [Wrappers -> ConfigRecord]
  /\ InitialWallet \in [Users -> [Wrappers -> Nat]]
  /\ InitialStock \in [Wrappers -> Nat]
  /\ Multipliers \subseteq Nat \ {0}
  /\ OnlyGrowing =>
       \A w \in Wrappers : InitialConfig[w].multiplier <= InitialConfig[w].new_multiplier

VARIABLES
  now,
  config,         \* wrapper -> its mint's ScaledUiAmountConfig
  registered,     \* wrappers with a Wrapper account on the vault
  balance,        \* wrapper -> the vault's own token account
  total_equity_units,
  supply,         \* supply of the receipt mint
  shares,         \* user -> receipt tokens
  wallet,         \* user -> wrapper -> raw tokens
  stock           \* wrapper -> what the market can still deliver

tokens == <<balance, shares, supply, wallet, stock>>
vars == <<now, config, registered, total_equity_units, tokens>>

LiveMultiplier(w) == CurrentMultiplier(config[w], now)

-----------------------------------------------------------------------------
Init ==
  /\ now = 0
  /\ config = InitialConfig
  /\ registered = {}
  /\ balance = [w \in Wrappers |-> 0]
  /\ total_equity_units = 0
  /\ supply = 0
  /\ shares = [u \in Users |-> 0]
  /\ wallet = InitialWallet
  /\ stock = InitialStock

Tick ==
  /\ now < MaxTime
  /\ now' = now + 1
  /\ UNCHANGED <<config, registered, total_equity_units, tokens>>

\* The vault authority allows one more mint in.
AddWrapper(w) ==
  /\ w \notin registered
  /\ registered' = registered \cup {w}
  /\ UNCHANGED <<now, config, total_equity_units, tokens>>

\* What deposit and settle_execution share: amount of w comes in at the live
\* multiplier, rounded down, and u receives that many receipt tokens.
UnitsIn(w, amount) == ToEquityUnits(amount, Decimals[w], LiveMultiplier(w))

Accepts(w, amount) ==
  /\ w \in registered
  /\ amount > 0
  /\ ToEquityUnitsDefined(amount, Decimals[w], LiveMultiplier(w))
  /\ UnitsIn(w, amount) > 0
  /\ FitsU64(supply + UnitsIn(w, amount))

\* Mutant: receipts are issued and the vault's counter is not raised.
TakeInUncounted(u, w, amount) ==
  /\ Accepts(w, amount)
  /\ balance' = [balance EXCEPT ![w] = @ + amount]
  /\ shares' = [shares EXCEPT ![u] = @ + UnitsIn(w, amount)]
  /\ supply' = supply + UnitsIn(w, amount)
  /\ UNCHANGED <<now, config, registered, total_equity_units>>

TakeIn(u, w, amount) ==
  /\ Accepts(w, amount)
  /\ balance' = [balance EXCEPT ![w] = @ + amount]
  /\ shares' = [shares EXCEPT ![u] = @ + UnitsIn(w, amount)]
  /\ supply' = supply + UnitsIn(w, amount)
  /\ total_equity_units' = total_equity_units + UnitsIn(w, amount)
  /\ UNCHANGED <<now, config, registered>>

Deposit(u, w, amount) ==
  /\ wallet[u][w] >= amount
  /\ TakeIn(u, w, amount)
  /\ wallet' = [wallet EXCEPT ![u][w] = @ - amount]
  /\ UNCHANGED stock

\* settle_execution for a schedule of u: what the swap delivered is swept in.
CreditDelivery(u, w, amount) ==
  /\ stock[w] >= amount
  /\ TakeIn(u, w, amount)
  /\ stock' = [stock EXCEPT ![w] = @ - amount]
  /\ UNCHANGED wallet

\* Mutant: a payout at the multiplier that is not in force yet.
UnitsOutAtStale(w, units) == FromEquityUnits(units, Decimals[w], config[w].multiplier)

UnitsOut(w, units) == FromEquityUnits(units, Decimals[w], LiveMultiplier(w))

\* Mutant: the vault's holding of the wrapper is not checked.
PaysOutUnchecked(u, w, units) ==
  /\ w \in registered
  /\ units > 0
  /\ FromEquityUnitsDefined(units, Decimals[w], LiveMultiplier(w))
  /\ UnitsOut(w, units) > 0
  /\ shares[u] >= units
  /\ total_equity_units >= units

\* pay_out_wrapper: burn units of u's receipts, pay the same equity in w.
PaysOut(u, w, units) ==
  /\ w \in registered
  /\ units > 0
  /\ FromEquityUnitsDefined(units, Decimals[w], LiveMultiplier(w))
  /\ UnitsOut(w, units) > 0
  /\ balance[w] >= UnitsOut(w, units)
  /\ shares[u] >= units
  /\ total_equity_units >= units

Withdraw(u, w, units) ==
  /\ PaysOut(u, w, units)
  /\ shares' = [shares EXCEPT ![u] = @ - units]
  /\ supply' = supply - units
  /\ balance' = [balance EXCEPT ![w] = @ - UnitsOut(w, units)]
  /\ wallet' = [wallet EXCEPT ![u][w] = @ + UnitsOut(w, units)]
  /\ total_equity_units' = total_equity_units - units
  /\ UNCHANGED <<now, config, registered, stock>>

-----------------------------------------------------------------------------
(* Token-2022, external to the repository. *)

\* A plain transfer into the vault's token account.
Donate(u, w, amount) ==
  /\ amount > 0 /\ wallet[u][w] >= amount
  /\ wallet' = [wallet EXCEPT ![u][w] = @ - amount]
  /\ balance' = [balance EXCEPT ![w] = @ + amount]
  /\ UNCHANGED <<now, config, registered, total_equity_units, shares, supply, stock>>

SendReceipts(u, to, units) ==
  /\ units > 0 /\ shares[u] >= units /\ u # to
  /\ shares' = [shares EXCEPT ![u] = @ - units, ![to] = @ + units]
  /\ UNCHANGED <<now, config, registered, total_equity_units, balance, supply,
                 wallet, stock>>

\* A holder may burn receipt tokens without the vault's program.
BurnReceipts(u, units) ==
  /\ units > 0 /\ shares[u] >= units
  /\ shares' = [shares EXCEPT ![u] = @ - units]
  /\ supply' = supply - units
  /\ UNCHANGED <<now, config, registered, total_equity_units, balance, wallet, stock>>

\* The issuer schedules a multiplier; the one in force stays until then.
UpdateMultiplier(w, m, ts) ==
  /\ ts >= now
  /\ OnlyGrowing => m >= config[w].new_multiplier /\ m >= LiveMultiplier(w)
  /\ config' = [config EXCEPT ![w] =
       [multiplier |-> LiveMultiplier(w), new_multiplier |-> m, effective_ts |-> ts]]
  /\ UNCHANGED <<now, registered, total_equity_units, tokens>>

-----------------------------------------------------------------------------
Next ==
  \/ Tick
  \/ \E w \in Wrappers : AddWrapper(w)
  \/ \E u \in Users, w \in Wrappers :
       \/ \E n \in 1..wallet[u][w] : Deposit(u, w, n) \/ Donate(u, w, n)
       \/ \E n \in 1..stock[w] : CreditDelivery(u, w, n)
       \/ \E n \in 1..shares[u] : Withdraw(u, w, n)
  \/ \E u \in Users : \E n \in 1..shares[u] :
       \/ BurnReceipts(u, n)
       \/ \E to \in Users : SendReceipts(u, to, n)
  \/ \E w \in Wrappers, m \in Multipliers, ts \in now..MaxTime : UpdateMultiplier(w, m, ts)

Spec == Init /\ [][Next]_vars

-----------------------------------------------------------------------------
TypeOK ==
  /\ now \in Nat
  /\ config \in [Wrappers -> ConfigRecord]
  /\ registered \subseteq Wrappers
  /\ balance \in [Wrappers -> Nat]
  /\ total_equity_units \in Nat
  /\ supply \in Nat
  /\ shares \in [Users -> Nat]
  /\ wallet \in [Users -> [Wrappers -> Nat]]
  /\ stock \in [Wrappers -> Nat]

\* What the vault's holding of w is worth in equity units, rounded down: the
\* most receipts that can leave through w.
Capacity(w) == ToEquityUnits(balance[w], Decimals[w], LiveMultiplier(w))

\* Every equity unit the vault owes is backed by a wrapper it holds, at the
\* live multipliers, after every rounding in both directions: the holders can
\* always leave, whichever wrappers they came in and go out with.
Backed ==
  total_equity_units <= SumFunction([w \in registered |-> Capacity(w)])

\* The receipt tokens in existence are exactly the holders', and never more
\* than the equity units on the vault's books.
SharesOnBooks ==
  /\ supply = SumFunction(shares)
  /\ supply <= total_equity_units

\* The vault's holdings less its debt, exactly, in units so fine that neither
\* decimals nor multipliers need a division.
ExactWorth(w) == balance[w] * LiveMultiplier(w) * PowerOfTen[MAX_DECIMALS - Decimals[w]]
ExactSurplus ==
  SumFunction([w \in Wrappers |-> ExactWorth(w)])
    - total_equity_units * MULTIPLIER_SCALE * PowerOfTen[MAX_DECIMALS - EQUITY_UNIT_DECIMALS]

\* While the multipliers stand still nobody takes more out of the vault than
\* they put in, through whichever wrappers and however often: every step
\* leaves the exact surplus at least as large as it was.
SurplusNeverShrinks ==
  [][ (\A w \in Wrappers : LiveMultiplier(w)' = LiveMultiplier(w)) =>
        ExactSurplus' >= ExactSurplus ]_vars
=============================================================================
