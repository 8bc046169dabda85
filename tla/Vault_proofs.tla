---------------------------- MODULE Vault_proofs ----------------------------
(***************************************************************************)
(* Theorems about Vault, for every set of holders and wrappers, every      *)
(* decimals and multipliers and every scale of the arithmetic.             *)
(***************************************************************************)
EXTENDS Vault, ParitasMath_proofs

-----------------------------------------------------------------------------
(* The books: types, and the receipts in existence *)

Books == TypeOK /\ SharesOnBooks

\* A multiplier in force is a positive number.
LEMMA LiveType ==
  ASSUME TypeOK, NEW w \in Wrappers PROVE LiveMultiplier(w) \in Nat \ {0}
BY DEF TypeOK, ConfigRecord, LiveMultiplier, CurrentMultiplier

\* So the units a deposit is worth are a natural number.
LEMMA UnitsInType ==
  ASSUME TypeOK, NEW w \in Wrappers, NEW n \in Nat
  PROVE  UnitsIn(w, n) \in Nat
<1>1. LiveMultiplier(w) \in Nat /\ Decimals[w] \in 0..MAX_DECIMALS
  BY LiveType, VaultAssumption
<1>2. QED BY <1>1, ToEquityUnitsType DEF UnitsIn

\* And what a withdrawal pays out.
LEMMA UnitsOutType ==
  ASSUME TypeOK, NEW w \in Wrappers, NEW units \in Nat
  PROVE  UnitsOut(w, units) \in Nat
<1>1. /\ LiveMultiplier(w) \in Nat \ {0} /\ Decimals[w] \in 0..MAX_DECIMALS
      /\ MULTIPLIER_SCALE \in Nat /\ EQUITY_UNIT_DECIMALS \in 0..MAX_DECIMALS
  BY LiveType, VaultAssumption, MathAssumption
<1>2. RawRate(Decimals[w], LiveMultiplier(w)) \in Nat BY <1>1, ComputeRateType DEF RawRate
<1>3. QED BY <1>2, ConvertType DEF UnitsOut, FromEquityUnits

\* The receipts in existence: a natural number for every type-correct state.
LEMMA ReceiptsType ==
  ASSUME TypeOK
  PROVE  /\ SumFunction(shares) \in Nat
         /\ \A u \in Users : shares[u] <= SumFunction(shares)
<1>1. /\ DOMAIN shares = Users /\ IsFiniteSet(Users)
      /\ \A u \in Users : shares[u] \in Nat
  BY VaultAssumption DEF TypeOK
<1>2. QED BY <1>1, SumNat, SumAtLeast DEF SumFunction

\* One holder's receipts change, and the sum with them.
LEMMA ReceiptsMove ==
  ASSUME TypeOK, NEW u \in Users, NEW n \in Nat,
         shares' = [shares EXCEPT ![u] = n]
  PROVE  SumFunction(shares)' = SumFunction(shares) - shares[u] + n
<1>1. shares \in [Users -> Int] /\ IsFiniteSet(Users) /\ n \in Int
  BY VaultAssumption DEF TypeOK
<1>2. SumFunction([shares EXCEPT ![u] = n]) = SumFunction(shares) - shares[u] + n
  BY <1>1, SumExcept
<1>3. QED BY <1>2

LEMMA InitBooks == Init => Books
<1> SUFFICES ASSUME Init PROVE Books OBVIOUS
<1>1. TypeOK BY VaultAssumption DEF Init, TypeOK
<1>2. DOMAIN shares = Users /\ IsFiniteSet(Users) /\ \A u \in Users : shares[u] = 0
  BY VaultAssumption DEF Init
<1>3. SumFunctionOnSet(shares, Users) = 0 BY <1>2, SumZero
<1>4. QED BY <1>1, <1>2, <1>3, ReceiptsType DEF Books, SharesOnBooks, SumFunction, Init
\* Taking a wrapper in credits one holder and counts what it credits.
LEMMA TakeInBooks ==
  ASSUME Books, NEW u \in Users, NEW w \in Wrappers, NEW n \in Nat, TakeIn(u, w, n)
  PROVE  /\ now' \in Nat /\ config' = config /\ registered' = registered
         /\ balance' \in [Wrappers -> Nat]
         /\ total_equity_units' \in Nat
         /\ supply' \in Nat
         /\ shares' \in [Users -> Nat]
         /\ SharesOnBooks'
<1>1. UnitsIn(w, n) \in Nat BY UnitsInType DEF Books
<1>2. /\ now' = now /\ config' = config /\ registered' = registered
      /\ balance' = [balance EXCEPT ![w] = balance[w] + n]
      /\ shares' = [shares EXCEPT ![u] = shares[u] + UnitsIn(w, n)]
      /\ supply' = supply + UnitsIn(w, n)
      /\ total_equity_units' = total_equity_units + UnitsIn(w, n)
  BY DEF TakeIn
<1>3. /\ supply \in Nat /\ total_equity_units \in Nat /\ balance[w] \in Nat
      /\ shares[u] \in Nat /\ supply = SumFunction(shares)
      /\ supply <= total_equity_units
  BY DEF Books, TypeOK, SharesOnBooks
<1>4. SumFunction(shares)' = SumFunction(shares) - shares[u] + (shares[u] + UnitsIn(w, n))
  <2>1. shares[u] + UnitsIn(w, n) \in Nat BY <1>1, <1>3
  <2>2. QED BY <1>2, <2>1, ReceiptsMove DEF Books
<1>5. SharesOnBooks' BY <1>1, <1>2, <1>3, <1>4 DEF SharesOnBooks
<1>6. QED BY <1>1, <1>2, <1>3, <1>5 DEF Books, TypeOK

\* Moving tokens out of a wallet leaves every wallet natural.
LEMMA WalletType ==
  ASSUME TypeOK, NEW u \in Users, NEW w \in Wrappers, NEW n \in Nat
  PROVE  [wallet EXCEPT ![u][w] = n] \in [Users -> [Wrappers -> Nat]]
<1>1. [wallet[u] EXCEPT ![w] = n] \in [Wrappers -> Nat] BY DEF TypeOK
<1>2. QED BY <1>1 DEF TypeOK

\* The program's transfers keep the books.
LEMMA TransfersBooks ==
  ASSUME Books, NEW u \in Users, NEW w \in Wrappers, NEW n \in Nat,
         Deposit(u, w, n) \/ CreditDelivery(u, w, n) \/ Withdraw(u, w, n) \/ Donate(u, w, n)
  PROVE  Books'
<1>1. /\ wallet[u][w] \in Nat /\ stock[w] \in Nat /\ balance[w] \in Nat
      /\ supply \in Nat /\ total_equity_units \in Nat /\ shares[u] \in Nat
  BY DEF Books, TypeOK
<1>2. CASE Deposit(u, w, n)
  <2>1. wallet' = [wallet EXCEPT ![u][w] = wallet[u][w] - n] /\ wallet[u][w] - n \in Nat
    BY <1>1, <1>2 DEF Deposit
  <2>2. wallet' \in [Users -> [Wrappers -> Nat]] BY <2>1, WalletType DEF Books
  <2>3. QED BY <1>2, <2>2, TakeInBooks DEF Deposit, Books, TypeOK
<1>3. CASE CreditDelivery(u, w, n)
  <2>1. stock' \in [Wrappers -> Nat] BY <1>1, <1>3 DEF CreditDelivery, Books, TypeOK
  <2>2. QED BY <1>3, <2>1, TakeInBooks DEF CreditDelivery, Books, TypeOK
<1>4. CASE Donate(u, w, n)
  <2>1. wallet' = [wallet EXCEPT ![u][w] = wallet[u][w] - n] /\ wallet[u][w] - n \in Nat
    BY <1>1, <1>4 DEF Donate
  <2>2. wallet' \in [Users -> [Wrappers -> Nat]] BY <2>1, WalletType DEF Books
  <2>3. balance' \in [Wrappers -> Nat] BY <1>1, <1>4 DEF Donate, Books, TypeOK
  <2>4. QED BY <1>4, <2>2, <2>3 DEF Donate, Books, TypeOK, SharesOnBooks
<1>5. CASE Withdraw(u, w, n)
  <2>1. /\ shares[u] >= n /\ total_equity_units >= n /\ balance[w] >= UnitsOut(w, n)
        /\ UnitsOut(w, n) \in Nat
    BY <1>5, UnitsOutType DEF Withdraw, PaysOut, Books
  <2>2. shares[u] <= supply /\ supply = SumFunction(shares) /\ supply <= total_equity_units
    BY ReceiptsType DEF Books, SharesOnBooks
  <2>3. /\ shares' = [shares EXCEPT ![u] = shares[u] - n]
        /\ supply' = supply - n /\ total_equity_units' = total_equity_units - n
        /\ balance' = [balance EXCEPT ![w] = balance[w] - UnitsOut(w, n)]
        /\ wallet' = [wallet EXCEPT ![u][w] = wallet[u][w] + UnitsOut(w, n)]
        /\ UNCHANGED <<now, config, registered, stock>>
    BY <1>5 DEF Withdraw
  <2>4. wallet' \in [Users -> [Wrappers -> Nat]]
    <3>1. wallet[u][w] + UnitsOut(w, n) \in Nat BY <1>1, <2>1
    <3>2. QED BY <2>3, <3>1, WalletType DEF Books
  <2>5. balance' \in [Wrappers -> Nat] BY <1>1, <2>1, <2>3 DEF Books, TypeOK
  <2>6. shares[u] - n \in Nat BY <1>1, <2>1
  <2>7. shares' \in [Users -> Nat] BY <2>3, <2>6 DEF Books, TypeOK
  <2>8. SumFunction(shares)' = SumFunction(shares) - shares[u] + (shares[u] - n)
    BY <2>3, <2>6, ReceiptsMove DEF Books
  <2>9. supply' \in Nat /\ total_equity_units' \in Nat BY <1>1, <2>1, <2>2, <2>3
  <2>10. SharesOnBooks' BY <1>1, <2>2, <2>3, <2>8 DEF SharesOnBooks
  <2>11. QED BY <2>3, <2>4, <2>5, <2>7, <2>9, <2>10 DEF Books, TypeOK
<1>6. QED BY <1>2, <1>3, <1>4, <1>5

\* So do the holders' own transfers and burns of receipts.
LEMMA ReceiptsBooks ==
  ASSUME Books, NEW u \in Users, NEW n \in Nat,
         BurnReceipts(u, n) \/ \E to \in Users : SendReceipts(u, to, n)
  PROVE  Books'
<1>1. /\ supply \in Nat /\ total_equity_units \in Nat /\ shares[u] \in Nat
      /\ shares[u] <= supply /\ supply = SumFunction(shares)
      /\ supply <= total_equity_units
  BY ReceiptsType DEF Books, TypeOK, SharesOnBooks
<1>2. CASE BurnReceipts(u, n)
  <2>1. shares[u] - n \in Nat BY <1>1, <1>2 DEF BurnReceipts
  <2>2. SumFunction(shares)' = SumFunction(shares) - shares[u] + (shares[u] - n)
    BY <1>2, <2>1, ReceiptsMove DEF Books, BurnReceipts
  <2>3. shares' \in [Users -> Nat] BY <1>2, <2>1 DEF BurnReceipts, Books, TypeOK
  <2>4. QED
    BY <1>1, <1>2, <2>1, <2>2, <2>3 DEF BurnReceipts, Books, TypeOK, SharesOnBooks
<1>3. ASSUME NEW to \in Users, SendReceipts(u, to, n) PROVE Books'
  <2> DEFINE f == [shares EXCEPT ![u] = shares[u] - n]
  <2>1. shares[u] - n \in Nat /\ shares[to] + n \in Nat /\ u # to
    BY <1>1, <1>3 DEF SendReceipts, Books, TypeOK
  <2>2. f \in [Users -> Nat] /\ f[to] = shares[to]
    BY <2>1 DEF Books, TypeOK
  <2>3. shares' = [f EXCEPT ![to] = shares[to] + n]
    BY <1>3, <2>1, <2>2 DEF SendReceipts, Books, TypeOK
  <2>4. IsFiniteSet(Users) /\ shares \in [Users -> Int] BY VaultAssumption DEF Books, TypeOK
  <2>5. SumFunction(f) = SumFunction(shares) - shares[u] + (shares[u] - n)
    <3>1. shares[u] - n \in Int BY <2>1
    <3>2. QED BY <2>4, <3>1, SumExcept
  <2> HIDE DEF f
  <2>6. SumFunction([f EXCEPT ![to] = shares[to] + n]) = SumFunction(f) - f[to] + (shares[to] + n)
    <3>1. shares[to] + n \in Int /\ f \in [Users -> Int] BY <2>1, <2>2
    <3>2. QED BY <2>4, <3>1, SumExcept
  <2>7. shares[to] \in Nat BY DEF Books, TypeOK
  <2>8. SumFunction(shares)' = SumFunction(shares)
    BY <1>1, <2>2, <2>3, <2>5, <2>6, <2>7
  <2>9. shares' \in [Users -> Nat] BY <2>1, <2>2, <2>3
  <2>10. QED BY <1>1, <1>3, <2>8, <2>9 DEF SendReceipts, Books, TypeOK, SharesOnBooks
<1>4. QED BY <1>2, <1>3

\* And the clock, the vault's authority and the issuer.
LEMMA OutsideBooks ==
  ASSUME Books,
         \/ Tick
         \/ \E w \in Wrappers : AddWrapper(w)
         \/ \E w \in Wrappers, m \in Multipliers, ts \in now..MaxTime : UpdateMultiplier(w, m, ts)
         \/ UNCHANGED vars
  PROVE  Books'
<1>1. CASE Tick BY <1>1 DEF Tick, Books, TypeOK, SharesOnBooks, tokens
<1>2. CASE \E w \in Wrappers : AddWrapper(w)
  BY <1>2 DEF AddWrapper, Books, TypeOK, SharesOnBooks, tokens
<1>3. ASSUME NEW w \in Wrappers, NEW m \in Multipliers, NEW ts \in now..MaxTime,
             UpdateMultiplier(w, m, ts)
      PROVE  Books'
  <2> DEFINE c == [multiplier |-> LiveMultiplier(w), new_multiplier |-> m, effective_ts |-> ts]
  <2>1. LiveMultiplier(w) \in Nat \ {0} /\ m \in Nat \ {0} /\ ts \in Int
    BY LiveType, VaultAssumption DEF Books
  <2>2. c \in ConfigRecord BY <2>1 DEF ConfigRecord
  <2>3. config' = [config EXCEPT ![w] = c] BY <1>3 DEF UpdateMultiplier
  <2> HIDE DEF c
  <2>4. config' \in [Wrappers -> ConfigRecord] BY <2>2, <2>3 DEF Books, TypeOK
  <2>5. QED BY <1>3, <2>4 DEF UpdateMultiplier, Books, TypeOK, SharesOnBooks, tokens
<1>4. CASE UNCHANGED vars BY <1>4 DEF vars, tokens, Books, TypeOK, SharesOnBooks
<1>5. QED BY <1>1, <1>2, <1>3, <1>4

\* What a step is, action by action, with the amounts it moves natural.
LEMMA StepCases ==
  ASSUME TypeOK, [Next]_vars
  PROVE  \/ \E u \in Users, w \in Wrappers, n \in Nat :
              \/ Deposit(u, w, n) \/ CreditDelivery(u, w, n)
              \/ Withdraw(u, w, n) \/ Donate(u, w, n)
         \/ \E u \in Users, n \in Nat :
              BurnReceipts(u, n) \/ \E to \in Users : SendReceipts(u, to, n)
         \/ Tick
         \/ \E w \in Wrappers : AddWrapper(w)
         \/ \E w \in Wrappers, m \in Multipliers, ts \in now..MaxTime : UpdateMultiplier(w, m, ts)
         \/ UNCHANGED vars
<1>1. \A k : \A n \in 1..k : n \in Nat OBVIOUS
<1>2. QED BY <1>1 DEF Next

LEMMA BooksStep == Books /\ [Next]_vars => Books'
BY StepCases, TransfersBooks, ReceiptsBooks, OutsideBooks DEF Books

LEMMA BooksKept == Spec => []Books
BY InitBooks, BooksStep, PTL DEF Spec

\* Every state is of the declared types: no balance, wallet, supply or counter
\* ever goes below zero, burns outside the program included.
THEOREM VaultTypes == Spec => []TypeOK
<1>1. Books => TypeOK BY DEF Books
<1>2. QED BY <1>1, BooksKept, PTL

\* The receipts in existence are the holders' and never more than the units on
\* the vault's books, whatever holders send, burn, deposit and withdraw.
THEOREM ReceiptsOnBooks == Spec => []SharesOnBooks
<1>1. Books => SharesOnBooks BY DEF Books
<1>2. QED BY <1>1, BooksKept, PTL

-----------------------------------------------------------------------------
(* The backing, as long as the issuer never lowers a multiplier *)

Growing == \A w \in Wrappers : config[w].multiplier <= config[w].new_multiplier

Backing == Books /\ (OnlyGrowing => Growing /\ Backed)

\* Each capacity is a natural number, and so is what they add up to.
LEMMA CapacityType ==
  ASSUME TypeOK
  PROVE  /\ \A w \in Wrappers : Capacity(w) \in Nat
         /\ IsFiniteSet(registered) /\ registered \subseteq Wrappers
<1>1. ASSUME NEW w \in Wrappers PROVE Capacity(w) \in Nat
  <2>1. balance[w] \in Nat /\ LiveMultiplier(w) \in Nat /\ Decimals[w] \in 0..MAX_DECIMALS
    BY LiveType, VaultAssumption DEF TypeOK
  <2>2. QED BY <2>1, ToEquityUnitsType DEF Capacity
<1>2. IsFiniteSet(registered) BY VaultAssumption, FS_Subset DEF TypeOK
<1>3. QED BY <1>1, <1>2 DEF TypeOK

\* The capacities in the next state, as the capacities of that state.
LEMMA CapacityTypeNext ==
  ASSUME TypeOK' PROVE \A w \in Wrappers : Capacity(w)' \in Nat
<1>1. ASSUME NEW w \in Wrappers PROVE Capacity(w)' \in Nat
  <2>1. LiveMultiplier(w)' \in Nat
    BY DEF TypeOK, ConfigRecord, LiveMultiplier, CurrentMultiplier
  <2>2. balance'[w] \in Nat /\ Decimals[w] \in 0..MAX_DECIMALS
    BY VaultAssumption DEF TypeOK
  <2>3. QED BY <2>1, <2>2, ToEquityUnitsType DEF Capacity
<1>2. QED BY <1>1

\* The backing survives a step that moves the debt by d and raises the capacity
\* of one wrapper by d at least, lowering no other.
LEMMA BackedMoves ==
  ASSUME TypeOK, TypeOK', Backed, registered' = registered,
         NEW a \in registered, NEW d \in Int,
         total_equity_units' <= total_equity_units + d,
         Capacity(a)' >= Capacity(a) + d,
         \A w \in registered \ {a} : Capacity(w)' >= Capacity(w)
  PROVE  Backed'
<1> DEFINE f == [w \in registered |-> Capacity(w)]
           g == [w \in registered |-> Capacity(w)']
           h == [f EXCEPT ![a] = f[a] + d]
           S == registered
<1>1. /\ IsFiniteSet(S) /\ S \subseteq Wrappers /\ a \in S
      /\ \A w \in S : Capacity(w) \in Nat /\ Capacity(w)' \in Nat
  BY CapacityType, CapacityTypeNext
<1>2. /\ f \in [S -> Nat] /\ g \in [S -> Nat] /\ DOMAIN f = S /\ DOMAIN g = S
      /\ f[a] + d \in Int
  BY <1>1
<1>3. h \in [S -> Int] /\ DOMAIN h = S BY <1>2
<1>4. \A w \in S : h[w] <= g[w] BY <1>1
<1>5. Backed = (total_equity_units <= SumFunction(f)) BY DEF Backed
<1>6. Backed' = (total_equity_units' <= SumFunction(g)) BY DEF Backed
<1>7. total_equity_units \in Nat /\ total_equity_units' \in Nat BY DEF TypeOK
<1> HIDE DEF f, g, S
<1>8. SumFunction(h) = SumFunction(f) - f[a] + (f[a] + d)
  <2>1. f \in [S -> Int] BY <1>2
  <2>2. QED BY <1>1, <1>2, <2>1, SumExcept
<1> HIDE DEF h
<1>9. SumFunction(h) <= SumFunction(g)
  <2>1. \A w \in S : h[w] \in Int /\ g[w] \in Int /\ h[w] <= g[w] BY <1>2, <1>3, <1>4
  <2>2. SumFunctionOnSet(h, S) <= SumFunctionOnSet(g, S) BY <1>1, <2>1, SumMonotone
  <2>3. QED BY <1>2, <1>3, <2>2 DEF SumFunction
<1>10. SumFunction(f) \in Int /\ SumFunction(g) \in Int /\ SumFunction(h) \in Int
  <2>1. /\ \A w \in S : f[w] \in Int /\ g[w] \in Int /\ h[w] \in Int
        /\ S \in SUBSET S
    BY <1>2, <1>3
  <2>2. SumFunctionOnSet(f, S) \in Int BY <1>1, <2>1, SumInt
  <2>3. SumFunctionOnSet(g, S) \in Int BY <1>1, <2>1, SumInt
  <2>4. SumFunctionOnSet(h, S) \in Int BY <1>1, <2>1, SumInt
  <2>5. QED BY <1>2, <1>3, <2>2, <2>3, <2>4 DEF SumFunction
<1>11. f[a] \in Int BY <1>1, <1>2
<1>12. SumFunction(f) + d = SumFunction(h) BY <1>8, <1>10, <1>11
<1>13. total_equity_units <= SumFunction(f) BY <1>5
<1>14. total_equity_units' <= SumFunction(g) BY <1>7, <1>9, <1>10, <1>12, <1>13
<1>15. QED BY <1>6, <1>14

\* It survives a step that leaves the debt and lowers no capacity.
LEMMA BackedGrows ==
  ASSUME TypeOK, TypeOK', Backed, registered' = registered,
         total_equity_units' = total_equity_units,
         \A w \in registered : Capacity(w)' >= Capacity(w)
  PROVE  Backed'
<1>1. CASE registered = {}
  <2>1. [w \in registered |-> Capacity(w)] = [w \in {} |-> 0]
        /\ [w \in registered |-> Capacity(w)'] = [w \in {} |-> 0]
    BY <1>1
  <2>2. QED BY <2>1 DEF Backed
<1>2. ASSUME NEW a \in registered PROVE Backed'
  <2>1. /\ Capacity(a) \in Nat /\ Capacity(a)' >= Capacity(a) + 0
        /\ total_equity_units' <= total_equity_units + 0
    BY CapacityType DEF TypeOK
  <2>2. QED BY <2>1, BackedMoves
<1>3. QED BY <1>1, <1>2

\* A deposit or a settled buy adds capacity for every unit it is credited.
LEMMA TakeInBacked ==
  ASSUME TypeOK, TypeOK', Backed, NEW u \in Users, NEW w \in Wrappers, NEW n \in Nat,
         TakeIn(u, w, n)
  PROVE  Backed'
<1>1. /\ now' = now /\ config' = config /\ registered' = registered /\ w \in registered
      /\ balance' = [balance EXCEPT ![w] = balance[w] + n]
      /\ total_equity_units' = total_equity_units + UnitsIn(w, n)
  BY DEF TakeIn, Accepts
<1>2. /\ LiveMultiplier(w) \in Nat /\ Decimals[w] \in 0..MAX_DECIMALS
      /\ balance[w] \in Nat /\ balance'[w] = balance[w] + n
      /\ UnitsIn(w, n) \in Nat /\ total_equity_units \in Nat
  BY <1>1, LiveType, UnitsInType, VaultAssumption DEF TypeOK
<1>3. \A x \in Wrappers : LiveMultiplier(x)' = LiveMultiplier(x)
  BY <1>1 DEF LiveMultiplier
<1>4. Capacity(w)' >= Capacity(w) + UnitsIn(w, n)
  <2> DEFINE r == UnitRate(Decimals[w], LiveMultiplier(w))
  <2>1. r \in Nat BY <1>2, ComputeRateType, MathAssumption DEF UnitRate
  <2>2. /\ Capacity(w) = ConvertAmount(balance[w], r)
        /\ UnitsIn(w, n) = ConvertAmount(n, r)
        /\ Capacity(w)' = ConvertAmount(balance[w] + n, r)
    BY <1>2, <1>3 DEF Capacity, UnitsIn, ToEquityUnits
  <2> HIDE DEF r
  <2>3. ConvertAmount(balance[w], r) + ConvertAmount(n, r) <= ConvertAmount(balance[w] + n, r)
    BY <1>2, <2>1, ConvertSum
  <2>4. QED BY <2>2, <2>3
<1>5. \A x \in registered \ {w} : Capacity(x)' >= Capacity(x)
  <2> SUFFICES ASSUME NEW x \in registered \ {w} PROVE Capacity(x)' >= Capacity(x)
    OBVIOUS
  <2>1. x \in Wrappers /\ balance'[x] = balance[x] BY <1>1 DEF TypeOK
  <2>2. Capacity(x)' = Capacity(x) BY <1>3, <2>1 DEF Capacity
  <2>3. QED BY <2>1, <2>2, CapacityType
<1>6. total_equity_units' <= total_equity_units + UnitsIn(w, n) /\ UnitsIn(w, n) \in Int
  BY <1>1, <1>2
<1>7. QED BY <1>1, <1>4, <1>5, <1>6, BackedMoves

\* A withdrawal takes no more capacity away than it burns.
LEMMA WithdrawBacked ==
  ASSUME TypeOK, TypeOK', Backed, NEW u \in Users, NEW w \in Wrappers, NEW n \in Nat,
         Withdraw(u, w, n)
  PROVE  Backed'
<1> DEFINE raw == UnitsOut(w, n)
<1>1. /\ now' = now /\ config' = config /\ registered' = registered /\ w \in registered
      /\ balance' = [balance EXCEPT ![w] = balance[w] - raw]
      /\ total_equity_units' = total_equity_units - n
      /\ balance[w] >= raw
  BY DEF Withdraw, PaysOut
<1>2. /\ LiveMultiplier(w) \in Nat \ {0} /\ Decimals[w] \in 0..MAX_DECIMALS
      /\ balance[w] \in Nat /\ balance'[w] = balance[w] - raw
      /\ total_equity_units \in Nat
  BY <1>1, LiveType, VaultAssumption DEF TypeOK
<1>3. \A x \in Wrappers : LiveMultiplier(x)' = LiveMultiplier(x)
  BY <1>1 DEF LiveMultiplier
<1>4. Capacity(w)' >= Capacity(w) + (-n)
  <2>1. raw = FromEquityUnits(n, Decimals[w], LiveMultiplier(w)) /\ raw <= balance[w]
    BY <1>1, <1>2, UnitsOutType DEF UnitsOut
  <2>2. ToEquityUnits(balance[w], Decimals[w], LiveMultiplier(w))
          <= ToEquityUnits(balance[w] - raw, Decimals[w], LiveMultiplier(w)) + n
    <3> HIDE DEF raw
    <3>1. QED BY <1>2, <2>1, PayingOutCovers
  <2>3. Capacity(w)' = ToEquityUnits(balance[w] - raw, Decimals[w], LiveMultiplier(w))
    BY <1>2, <1>3 DEF Capacity
  <2>4. Capacity(w) \in Nat /\ Capacity(w)' \in Nat BY CapacityType, CapacityTypeNext
  <2>5. Capacity(w) <= Capacity(w)' + n BY <2>2, <2>3 DEF Capacity
  <2>6. QED BY <2>4, <2>5
<1>5. \A x \in registered \ {w} : Capacity(x)' >= Capacity(x)
  <2> SUFFICES ASSUME NEW x \in registered \ {w} PROVE Capacity(x)' >= Capacity(x)
    OBVIOUS
  <2>1. x \in Wrappers /\ balance'[x] = balance[x] BY <1>1 DEF TypeOK
  <2>2. Capacity(x)' = Capacity(x) BY <1>3, <2>1 DEF Capacity
  <2>3. QED BY <2>1, <2>2, CapacityType
<1>6. total_equity_units' <= total_equity_units + (-n) /\ -n \in Int
  BY <1>1, <1>2
<1>7. QED BY <1>1, <1>4, <1>5, <1>6, BackedMoves

\* Growing balances and multipliers never lower a capacity.
LEMMA CapacityGrows ==
  ASSUME TypeOK, TypeOK', NEW w \in Wrappers,
         balance'[w] >= balance[w], LiveMultiplier(w)' >= LiveMultiplier(w)
  PROVE  Capacity(w)' >= Capacity(w)
<1>1. /\ LiveMultiplier(w) \in Nat \ {0} /\ LiveMultiplier(w)' \in Nat \ {0}
      /\ balance[w] \in Nat /\ balance'[w] \in Nat /\ Decimals[w] \in 0..MAX_DECIMALS
  BY VaultAssumption DEF TypeOK, ConfigRecord, LiveMultiplier, CurrentMultiplier
<1>2. balance[w] <= balance'[w] /\ LiveMultiplier(w) <= LiveMultiplier(w)' BY <1>1
<1>3. ToEquityUnits(balance[w], Decimals[w], LiveMultiplier(w))
        <= ToEquityUnits(balance'[w], Decimals[w], LiveMultiplier(w)')
  BY <1>1, <1>2, UnitsMonotone
<1>4. Capacity(w) \in Nat /\ Capacity(w)' \in Nat BY CapacityType, CapacityTypeNext
<1>5. Capacity(w) <= Capacity(w)' BY <1>3 DEF Capacity
<1>6. QED BY <1>4, <1>5

\* The clock and the issuer, one who never lowers a multiplier, only raise the
\* multipliers in force.
LEMMA MultipliersGrow ==
  ASSUME TypeOK, OnlyGrowing, Growing,
         \/ Tick
         \/ \E w \in Wrappers, m \in Multipliers, ts \in now..MaxTime : UpdateMultiplier(w, m, ts)
  PROVE  /\ \A w \in Wrappers : LiveMultiplier(w)' >= LiveMultiplier(w)
         /\ Growing'
         /\ UNCHANGED <<balance, registered, total_equity_units>>
<1>0. /\ now \in Nat
      /\ \A w \in Wrappers : /\ config[w].multiplier \in Nat /\ config[w].new_multiplier \in Nat
                             /\ config[w].effective_ts \in Int
  BY DEF TypeOK, ConfigRecord
<1>1. CASE Tick
  <2>1. now' = now + 1 /\ config' = config
        /\ UNCHANGED <<balance, registered, total_equity_units>>
    BY <1>1 DEF Tick, tokens
  <2>2. \A w \in Wrappers : LiveMultiplier(w)' >= LiveMultiplier(w)
    BY <1>0, <2>1 DEF Growing, LiveMultiplier, CurrentMultiplier
  <2>3. QED BY <2>1, <2>2 DEF Growing
<1>2. ASSUME NEW w \in Wrappers, NEW m \in Multipliers, NEW ts \in now..MaxTime,
             UpdateMultiplier(w, m, ts)
      PROVE  /\ \A x \in Wrappers : LiveMultiplier(x)' >= LiveMultiplier(x)
             /\ Growing'
             /\ UNCHANGED <<balance, registered, total_equity_units>>
  <2>1. /\ now' = now /\ m >= LiveMultiplier(w)
        /\ UNCHANGED <<balance, registered, total_equity_units>>
    BY <1>2 DEF UpdateMultiplier, tokens
  <2>2. /\ config'[w].multiplier = LiveMultiplier(w)
        /\ config'[w].new_multiplier = m
        /\ config'[w].effective_ts = ts
        /\ \A x \in Wrappers \ {w} : config'[x] = config[x]
    BY <1>2 DEF UpdateMultiplier, TypeOK
  <2>3. LiveMultiplier(w) \in Nat /\ m \in Nat BY LiveType, VaultAssumption
  <2>4. LiveMultiplier(w)' \in {LiveMultiplier(w), m}
    BY <2>1, <2>2 DEF LiveMultiplier, CurrentMultiplier
  <2>5. \A x \in Wrappers \ {w} : LiveMultiplier(x)' = LiveMultiplier(x)
    BY <2>1, <2>2 DEF LiveMultiplier
  <2>6. \A x \in Wrappers : LiveMultiplier(x) \in Nat BY LiveType
  <2>7. \A x \in Wrappers : LiveMultiplier(x)' >= LiveMultiplier(x)
    BY <2>1, <2>3, <2>4, <2>5, <2>6
  <2>8. Growing' BY <2>1, <2>2 DEF Growing
  <2>9. QED BY <2>1, <2>7, <2>8
<1>3. QED BY <1>1, <1>2

\* Allowing one more wrapper in only adds capacity.
LEMMA AddWrapperBacked ==
  ASSUME TypeOK, TypeOK', Backed, NEW w \in Wrappers, AddWrapper(w)
  PROVE  Backed'
<1> DEFINE f == [x \in registered |-> Capacity(x)]
           g == [x \in registered \cup {w} |-> Capacity(x)]
           S == registered
<1>1. /\ w \notin registered /\ registered' = registered \cup {w}
      /\ total_equity_units' = total_equity_units
      /\ \A x : Capacity(x)' = Capacity(x)
  BY DEF AddWrapper, tokens, Capacity, LiveMultiplier
<1>2. IsFiniteSet(S) /\ \A x \in S \cup {w} : Capacity(x) \in Nat
  BY CapacityType
<1>3. /\ DOMAIN f = S /\ DOMAIN g = S \cup {w}
      /\ \A x \in S \cup {w} : g[x] \in Int
      /\ \A x \in S : f[x] \in Int /\ f[x] = g[x]
      /\ g[w] \in Nat
  BY <1>2
<1>4. Backed' = (total_equity_units <= SumFunction(g))
  <2>1. [x \in registered' |-> Capacity(x)'] = g BY <1>1
  <2>2. QED BY <1>1, <2>1 DEF Backed
<1>5. total_equity_units <= SumFunction(f) BY DEF Backed
<1>6. total_equity_units \in Nat /\ w \notin S BY <1>1 DEF TypeOK
<1> HIDE DEF f, g, S
<1>7. SumFunctionOnSet(g, S \cup {w}) = g[w] + SumFunctionOnSet(g, S)
  BY <1>2, <1>3, <1>6, SumAdd
<1>8. SumFunctionOnSet(f, S) = SumFunctionOnSet(g, S) BY <1>2, <1>3, SumSame
<1>9. SumFunctionOnSet(f, S) \in Int
  <2>1. S \in SUBSET S /\ \A x \in S : f[x] \in Int BY <1>3
  <2>2. QED BY <1>2, <2>1, SumInt
<1>10. SumFunction(f) = SumFunctionOnSet(f, S) /\ SumFunction(g) = SumFunctionOnSet(g, S \cup {w})
  BY <1>3 DEF SumFunction
<1>11. total_equity_units <= SumFunction(g)
  BY <1>3, <1>5, <1>6, <1>7, <1>8, <1>9, <1>10
<1>12. QED BY <1>4, <1>11

LEMMA InitBacking == Init => Backing
<1> SUFFICES ASSUME Init PROVE Backing OBVIOUS
<1>1. Books BY InitBooks
<1>2. OnlyGrowing => Growing BY VaultAssumption DEF Init, Growing
<1>3. Backed
  <2>1. registered = {} /\ total_equity_units = 0 BY DEF Init
  <2>2. DOMAIN [w \in registered |-> Capacity(w)] = {} BY <2>1
  <2>3. SumFunction([w \in registered |-> Capacity(w)]) = 0
    BY <2>2, SumEmpty DEF SumFunction
  <2>4. QED BY <2>1, <2>3 DEF Backed
<1>4. QED BY <1>1, <1>2, <1>3 DEF Backing

LEMMA BackingStep == Backing /\ [Next]_vars => Backing'
<1> SUFFICES ASSUME Backing, [Next]_vars PROVE Backing' OBVIOUS
<1>1. Books' /\ TypeOK /\ TypeOK' BY BooksStep DEF Backing, Books
<1> SUFFICES ASSUME OnlyGrowing PROVE Growing' /\ Backed'
  BY <1>1 DEF Backing
<1>2. Growing /\ Backed BY DEF Backing
<1>3. ASSUME NEW u \in Users, NEW w \in Wrappers, NEW n \in Nat, TakeIn(u, w, n)
      PROVE  Growing' /\ Backed'
  BY <1>1, <1>2, <1>3, TakeInBacked DEF TakeIn, Growing
<1>4. ASSUME NEW u \in Users, NEW w \in Wrappers, NEW n \in Nat, Withdraw(u, w, n)
      PROVE  Growing' /\ Backed'
  BY <1>1, <1>2, <1>4, WithdrawBacked DEF Withdraw, Growing
<1>5. ASSUME NEW u \in Users, NEW w \in Wrappers, NEW n \in Nat, Donate(u, w, n)
      PROVE  Growing' /\ Backed'
  <2>1. /\ now' = now /\ config' = config /\ registered' = registered
        /\ total_equity_units' = total_equity_units
        /\ balance' = [balance EXCEPT ![w] = balance[w] + n]
    BY <1>5 DEF Donate
  <2>2. \A x \in Wrappers : /\ balance'[x] >= balance[x]
                            /\ LiveMultiplier(x)' >= LiveMultiplier(x)
    <3> SUFFICES ASSUME NEW x \in Wrappers
                 PROVE  /\ balance'[x] >= balance[x]
                        /\ LiveMultiplier(x)' >= LiveMultiplier(x)
      OBVIOUS
    <3>1. balance[x] \in Nat /\ LiveMultiplier(x) \in Nat BY <1>1, LiveType DEF TypeOK
    <3>2. balance'[x] >= balance[x] BY <1>1, <2>1, <3>1 DEF TypeOK
    <3>3. LiveMultiplier(x)' = LiveMultiplier(x) BY <2>1 DEF LiveMultiplier
    <3>4. QED BY <3>1, <3>2, <3>3
  <2>3. \A x \in registered : Capacity(x)' >= Capacity(x)
    BY <1>1, <2>2, CapacityGrows, CapacityType
  <2>4. QED BY <1>1, <1>2, <2>1, <2>3, BackedGrows DEF Growing
<1>6. CASE \/ Tick
           \/ \E w \in Wrappers, m \in Multipliers, ts \in now..MaxTime :
                UpdateMultiplier(w, m, ts)
  <2>1. /\ \A w \in Wrappers : LiveMultiplier(w)' >= LiveMultiplier(w)
        /\ Growing'
        /\ UNCHANGED <<balance, registered, total_equity_units>>
    BY <1>1, <1>2, <1>6, MultipliersGrow
  <2>2. \A x \in Wrappers : balance'[x] >= balance[x]
    BY <1>1, <2>1 DEF TypeOK
  <2>3. \A x \in registered : Capacity(x)' >= Capacity(x)
    BY <1>1, <2>1, <2>2, CapacityGrows, CapacityType
  <2>4. QED BY <1>1, <1>2, <2>1, <2>3, BackedGrows
<1>7. ASSUME NEW w \in Wrappers, AddWrapper(w) PROVE Growing' /\ Backed'
  BY <1>1, <1>2, <1>7, AddWrapperBacked DEF AddWrapper, Growing
<1>8. ASSUME UNCHANGED <<now, config, registered, balance, total_equity_units>>
      PROVE  Growing' /\ Backed'
  BY <1>2, <1>8 DEF Growing, Backed, Capacity, LiveMultiplier
<1>9. QED
  BY <1>1, <1>3, <1>4, <1>5, <1>6, <1>7, <1>8, StepCases
  DEF Deposit, CreditDelivery, BurnReceipts, SendReceipts, vars, tokens

LEMMA BackingKept == Spec => []Backing
BY InitBacking, BackingStep, PTL DEF Spec

\* As long as the issuer never lowers a multiplier, every equity unit the vault
\* owes is backed at the live multipliers, after all the roundings: whoever
\* deposits, withdraws, donates or burns, in whichever wrappers.
THEOREM VaultBacked == Spec => [](OnlyGrowing => Backed)
<1>1. Backing => (OnlyGrowing => Backed) BY DEF Backing
<1>2. QED BY <1>1, BackingKept, PTL

-----------------------------------------------------------------------------
(* The exact surplus, at multipliers that stand still *)

\* What one raw token of a wrapper, and one equity unit, are worth exactly.
TokenWorth(w) == LiveMultiplier(w) * PowerOfTen[MAX_DECIMALS - Decimals[w]]
UnitWorth == MULTIPLIER_SCALE * PowerOfTen[MAX_DECIMALS - EQUITY_UNIT_DECIMALS]

\* Both are positive, and the surplus is counted in them.
LEMMA ExactWorths ==
  ASSUME TypeOK
  PROVE  /\ UnitWorth \in Nat
         /\ \A w \in Wrappers : TokenWorth(w) \in Nat
         /\ \A w \in Wrappers : ExactWorth(w) = balance[w] * TokenWorth(w)
         /\ total_equity_units * MULTIPLIER_SCALE * PowerOfTen[MAX_DECIMALS - EQUITY_UNIT_DECIMALS]
              = total_equity_units * UnitWorth
<1>1. /\ MULTIPLIER_SCALE \in Nat /\ EQUITY_UNIT_DECIMALS \in 0..MAX_DECIMALS
      /\ total_equity_units \in Nat
  BY MathAssumption DEF TypeOK
<1>2. PowerOfTen[MAX_DECIMALS - EQUITY_UNIT_DECIMALS] \in Nat BY <1>1, PowerType
<1>3. ASSUME NEW w \in Wrappers
      PROVE  TokenWorth(w) \in Nat /\ ExactWorth(w) = balance[w] * TokenWorth(w)
  <2>1. LiveMultiplier(w) \in Nat /\ Decimals[w] \in 0..MAX_DECIMALS /\ balance[w] \in Nat
    BY LiveType, VaultAssumption DEF TypeOK
  <2>2. PowerOfTen[MAX_DECIMALS - Decimals[w]] \in Nat BY <2>1, PowerType
  <2>3. QED BY <2>1, <2>2, MulNat DEF TokenWorth, ExactWorth
<1>4. UnitWorth \in Nat BY <1>1, <1>2, MulNat DEF UnitWorth
<1>5. QED BY <1>1, <1>2, <1>3, <1>4 DEF UnitWorth

\* The surplus survives a step that moves c tokens of one wrapper and d units
\* of the debt, when the units are worth no more than the tokens.
LEMMA SurplusMoves ==
  ASSUME TypeOK, TypeOK', \A w \in Wrappers : LiveMultiplier(w)' = LiveMultiplier(w),
         NEW a \in Wrappers, NEW c \in Int, NEW d \in Int,
         balance' = [balance EXCEPT ![a] = balance[a] + c],
         total_equity_units' = total_equity_units + d,
         d * UnitWorth <= c * TokenWorth(a)
  PROVE  ExactSurplus' >= ExactSurplus
<1> DEFINE f == [w \in Wrappers |-> ExactWorth(w)]
           g == [w \in Wrappers |-> ExactWorth(w)']
           t == total_equity_units
<1>1. /\ UnitWorth \in Nat /\ \A w \in Wrappers : TokenWorth(w) \in Nat
      /\ \A w \in Wrappers : ExactWorth(w) = balance[w] * TokenWorth(w)
      /\ ExactSurplus = SumFunction(f) - t * UnitWorth
  BY ExactWorths DEF ExactSurplus
<1>2. \A w \in Wrappers : balance[w] \in Nat /\ balance'[w] \in Nat
  BY DEF TypeOK
<1>3. \A w \in Wrappers : ExactWorth(w)' = balance'[w] * TokenWorth(w)
  <2> SUFFICES ASSUME NEW w \in Wrappers PROVE ExactWorth(w)' = balance'[w] * TokenWorth(w)
    OBVIOUS
  <2>1. ExactWorth(w)' = balance'[w] * LiveMultiplier(w) * PowerOfTen[MAX_DECIMALS - Decimals[w]]
    BY DEF ExactWorth
  <2>2. LiveMultiplier(w) \in Nat /\ Decimals[w] \in 0..MAX_DECIMALS
    BY LiveType, VaultAssumption
  <2>3. PowerOfTen[MAX_DECIMALS - Decimals[w]] \in Nat BY <2>2, PowerType
  <2>4. QED BY <1>2, <2>1, <2>2, <2>3 DEF TokenWorth
<1>4. ExactSurplus' = SumFunction(g) - (t + d) * UnitWorth
  <2>1. t + d \in Int /\ MULTIPLIER_SCALE \in Nat /\ t' = t + d
        /\ PowerOfTen[MAX_DECIMALS - EQUITY_UNIT_DECIMALS] \in Nat
    <3>1. MULTIPLIER_SCALE \in Nat /\ EQUITY_UNIT_DECIMALS \in 0..MAX_DECIMALS
      BY MathAssumption
    <3>2. PowerOfTen[MAX_DECIMALS - EQUITY_UNIT_DECIMALS] \in Nat BY <3>1, PowerType
    <3>3. t \in Nat BY DEF TypeOK
    <3>4. QED BY <3>1, <3>2, <3>3
  <2>2. t' * MULTIPLIER_SCALE * PowerOfTen[MAX_DECIMALS - EQUITY_UNIT_DECIMALS]
          = (t + d) * UnitWorth
    BY <2>1 DEF UnitWorth
  <2>3. ExactSurplus' = SumFunction(g)
          - t' * MULTIPLIER_SCALE * PowerOfTen[MAX_DECIMALS - EQUITY_UNIT_DECIMALS]
    BY DEF ExactSurplus
  <2>4. QED BY <2>2, <2>3
<1>5. /\ balance'[a] = balance[a] + c
      /\ \A w \in Wrappers \ {a} : balance'[w] = balance[w]
  BY DEF TypeOK
<1>6. /\ DOMAIN f = Wrappers /\ DOMAIN g = Wrappers
      /\ f[a] = balance[a] * TokenWorth(a) /\ g[a] = (balance[a] + c) * TokenWorth(a)
      /\ \A w \in Wrappers \ {a} : g[w] = f[w]
  BY <1>1, <1>3, <1>5
<1>7. \A w \in Wrappers : f[w] \in Int /\ g[w] \in Int
  <2> SUFFICES ASSUME NEW w \in Wrappers PROVE f[w] \in Int /\ g[w] \in Int
    OBVIOUS
  <2>1. balance[w] * TokenWorth(w) \in Nat /\ balance'[w] * TokenWorth(w) \in Nat
    BY <1>1, <1>2, MulNat
  <2>2. QED BY <1>1, <1>3, <2>1
<1>8. t \in Nat /\ IsFiniteSet(Wrappers) /\ balance[a] \in Nat
  BY VaultAssumption DEF TypeOK
<1> HIDE DEF f, g, t
<1>9. SumFunctionOnSet(g, Wrappers) = SumFunctionOnSet(f, Wrappers) - f[a] + g[a]
  BY <1>6, <1>7, <1>8, SumUpdate
<1>10. SumFunctionOnSet(f, Wrappers) \in Int
  <2>1. Wrappers \in SUBSET Wrappers /\ \A w \in Wrappers : f[w] \in Int BY <1>7
  <2>2. QED BY <1>8, <2>1, SumInt
<1> DEFINE k == TokenWorth(a)
           v == UnitWorth
           s == SumFunctionOnSet(f, Wrappers)
<1>11. k \in Nat /\ v \in Nat /\ s \in Int BY <1>1, <1>10
<1>12. SumFunction(f) = s /\ SumFunction(g) = s - f[a] + g[a]
  BY <1>6, <1>9 DEF SumFunction
<1>13. d * v <= c * k OBVIOUS
<1> HIDE DEF k, v, s
<1>14. (balance[a] + c) * k = balance[a] * k + c * k BY <1>8, <1>11
<1>15. (t + d) * v = t * v + d * v BY <1>8, <1>11
<1>16. /\ balance[a] * k \in Int /\ c * k \in Int /\ t * v \in Int /\ d * v \in Int
  BY <1>8, <1>11
<1>17. g[a] = f[a] + c * k /\ f[a] \in Int
  BY <1>6, <1>14, <1>16 DEF k
<1>18. ExactSurplus = s - t * v /\ ExactSurplus' = s + c * k - (t * v + d * v)
  BY <1>1, <1>4, <1>11, <1>12, <1>15, <1>16, <1>17 DEF v
<1>19. QED BY <1>11, <1>13, <1>16, <1>18

\* What is credited is worth no more than what comes in.
LEMMA TakeInSurplus ==
  ASSUME TypeOK, TypeOK', NEW u \in Users, NEW w \in Wrappers, NEW n \in Nat,
         TakeIn(u, w, n)
  PROVE  ExactSurplus' >= ExactSurplus
<1>1. /\ now' = now /\ config' = config
      /\ balance' = [balance EXCEPT ![w] = balance[w] + n]
      /\ total_equity_units' = total_equity_units + UnitsIn(w, n)
  BY DEF TakeIn
<1>2. \A x \in Wrappers : LiveMultiplier(x)' = LiveMultiplier(x)
  BY <1>1 DEF LiveMultiplier
<1>3. /\ LiveMultiplier(w) \in Nat /\ Decimals[w] \in 0..MAX_DECIMALS
      /\ UnitsIn(w, n) \in Nat /\ MULTIPLIER_SCALE \in Nat \ {0}
      /\ EQUITY_UNIT_DECIMALS \in 0..MAX_DECIMALS
  BY LiveType, UnitsInType, VaultAssumption, MathAssumption
<1>4. UnitsIn(w, n) * MULTIPLIER_SCALE * PowerOfTen[MAX_DECIMALS - EQUITY_UNIT_DECIMALS]
        <= n * LiveMultiplier(w) * PowerOfTen[MAX_DECIMALS - Decimals[w]]
  BY <1>3, ConversionLoses DEF UnitsIn, ToEquityUnits, UnitRate
<1>5. UnitsIn(w, n) * UnitWorth <= n * TokenWorth(w)
  <2>1. /\ PowerOfTen[MAX_DECIMALS - EQUITY_UNIT_DECIMALS] \in Nat
        /\ PowerOfTen[MAX_DECIMALS - Decimals[w]] \in Nat
    BY <1>3, PowerType
  <2>2. QED BY <1>3, <1>4, <2>1 DEF UnitWorth, TokenWorth
<1>6. n \in Int /\ UnitsIn(w, n) \in Int BY <1>3
<1>7. QED BY <1>1, <1>2, <1>5, <1>6, SurplusMoves

\* What is paid out is worth no more than what is burned.
LEMMA WithdrawSurplus ==
  ASSUME TypeOK, TypeOK', NEW u \in Users, NEW w \in Wrappers, NEW n \in Nat,
         Withdraw(u, w, n)
  PROVE  ExactSurplus' >= ExactSurplus
<1> DEFINE raw == UnitsOut(w, n)
<1>1. /\ now' = now /\ config' = config
      /\ balance' = [balance EXCEPT ![w] = balance[w] - raw]
      /\ total_equity_units' = total_equity_units - n
  BY DEF Withdraw
<1>2. \A x \in Wrappers : LiveMultiplier(x)' = LiveMultiplier(x)
  BY <1>1 DEF LiveMultiplier
<1>3. /\ LiveMultiplier(w) \in Nat \ {0} /\ Decimals[w] \in 0..MAX_DECIMALS
      /\ raw \in Nat /\ MULTIPLIER_SCALE \in Nat
      /\ EQUITY_UNIT_DECIMALS \in 0..MAX_DECIMALS
      /\ balance[w] \in Nat /\ total_equity_units \in Nat
  BY LiveType, UnitsOutType, VaultAssumption, MathAssumption DEF TypeOK
<1>4. raw * LiveMultiplier(w) * PowerOfTen[MAX_DECIMALS - Decimals[w]]
        <= n * MULTIPLIER_SCALE * PowerOfTen[MAX_DECIMALS - EQUITY_UNIT_DECIMALS]
  BY <1>3, ConversionLoses DEF UnitsOut, FromEquityUnits, RawRate
<1>5. raw * TokenWorth(w) <= n * UnitWorth
  <2>1. /\ PowerOfTen[MAX_DECIMALS - EQUITY_UNIT_DECIMALS] \in Nat
        /\ PowerOfTen[MAX_DECIMALS - Decimals[w]] \in Nat
    BY <1>3, PowerType
  <2>2. QED BY <1>3, <1>4, <2>1 DEF UnitWorth, TokenWorth
<1>6. UnitWorth \in Nat /\ TokenWorth(w) \in Nat BY ExactWorths
<1> DEFINE x == UnitWorth
           y == TokenWorth(w)
<1> HIDE DEF raw, x, y
<1>7. (-n) * x <= (-raw) * y
  <2>1. x \in Nat /\ y \in Nat /\ raw * y <= n * x BY <1>5, <1>6 DEF x, y
  <2>2. (-n) * x = -(n * x) /\ (-raw) * y = -(raw * y) BY <1>3, <2>1
  <2>3. n * x \in Int /\ raw * y \in Int BY <1>3, <2>1
  <2>4. QED BY <2>1, <2>2, <2>3
<1>8. /\ balance[w] - raw = balance[w] + (-raw) /\ -raw \in Int /\ -n \in Int
      /\ total_equity_units - n = total_equity_units + (-n)
  BY <1>3
<1>9. /\ balance' = [balance EXCEPT ![w] = balance[w] + (-raw)]
      /\ total_equity_units' = total_equity_units + (-n)
  BY <1>1, <1>8
<1>10. (-n) * UnitWorth <= (-raw) * TokenWorth(w) BY <1>7 DEF x, y
<1>11. QED BY <1>2, <1>8, <1>9, <1>10, SurplusMoves

\* No step at standing multipliers lowers the exact surplus.
LEMMA SurplusStep ==
  ASSUME Books, [Next]_vars, \A w \in Wrappers : LiveMultiplier(w)' = LiveMultiplier(w)
  PROVE  ExactSurplus' >= ExactSurplus
<1>1. TypeOK /\ TypeOK' BY BooksStep DEF Books
<1>2. ASSUME NEW u \in Users, NEW w \in Wrappers, NEW n \in Nat, Donate(u, w, n)
      PROVE  ExactSurplus' >= ExactSurplus
  <2>1. /\ balance' = [balance EXCEPT ![w] = balance[w] + n]
        /\ total_equity_units' = total_equity_units + 0
    BY <1>1, <1>2 DEF Donate, TypeOK
  <2>2. UnitWorth \in Nat /\ TokenWorth(w) \in Nat BY <1>1, ExactWorths
  <2>3. n * TokenWorth(w) \in Nat BY <2>2, MulNat
  <2>4. 0 * UnitWorth <= n * TokenWorth(w) BY <2>2, <2>3
  <2>5. n \in Int /\ 0 \in Int OBVIOUS
  <2>6. QED BY <1>1, <2>1, <2>4, <2>5, SurplusMoves
<1>3. ASSUME UNCHANGED <<balance, total_equity_units>> PROVE ExactSurplus' >= ExactSurplus
  <2>1. \A w \in Wrappers : ExactWorth(w)' = ExactWorth(w) BY <1>3 DEF ExactWorth
  <2>2. ExactSurplus' = ExactSurplus BY <1>3, <2>1 DEF ExactSurplus
  <2>3. ExactSurplus \in Int
    <3>1. /\ IsFiniteSet(Wrappers) /\ UnitWorth \in Nat /\ total_equity_units \in Nat
          /\ \A w \in Wrappers : ExactWorth(w) \in Nat
      BY <1>1, ExactWorths, MulNat, VaultAssumption DEF TypeOK
    <3>2. SumFunction([w \in Wrappers |-> ExactWorth(w)]) \in Nat
      BY <3>1, SumNat DEF SumFunction
    <3>3. total_equity_units * UnitWorth \in Nat BY <3>1, MulNat
    <3>4. QED BY <1>1, <3>2, <3>3, ExactWorths DEF ExactSurplus
  <2>4. QED BY <2>2, <2>3
<1>4. QED
  BY <1>1, <1>2, <1>3, StepCases, TakeInSurplus, WithdrawSurplus
  DEF Deposit, CreditDelivery, BurnReceipts, SendReceipts, Tick, AddWrapper,
      UpdateMultiplier, vars, tokens

\* While the multipliers stand still nobody takes more out of the vault than
\* they put in: every step leaves the exact surplus at least as large.
THEOREM SurplusKept == Spec => SurplusNeverShrinks
<1>1. Books /\ [Next]_vars =>
        [(\A w \in Wrappers : LiveMultiplier(w)' = LiveMultiplier(w)) =>
            ExactSurplus' >= ExactSurplus]_vars
  BY SurplusStep
<1>2. QED BY <1>1, BooksKept, PTL DEF Spec, SurplusNeverShrinks
=============================================================================
