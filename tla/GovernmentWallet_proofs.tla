------------------------ MODULE GovernmentWallet_proofs ------------------------
(***************************************************************************)
(* Proofs about the government-wallet model for every balance width, set  *)
(* of accounts and amounts allowed by WalletAssumption.                    *)
(***************************************************************************)
EXTENDS GovernmentWallet, TLAPS

(* The capped total of the amounts announced for a wallet. *)
Capped(n) == IF n > BalanceMax THEN BalanceMax ELSE n

(* Saturating twice is saturating once: capping a capped total plus an    *)
(* amount caps the total plus the amount.                                 *)
LEMMA SaturatingAddCapped ==
    ASSUME NEW n \in Nat, NEW amt \in Nat, BalanceMax \in Nat
    PROVE  SaturatingAdd(Capped(n), amt) = Capped(n + amt)
  BY DEF SaturatingAdd, Capped

(* The storage types and the capped-total invariant together. *)
Inv == TypeOK /\ BalanceIsCappedTotal

(* Genesis: no wallet, every balance and total zero. *)
LEMMA InvInit == Init => Inv
  BY WalletAssumption DEF Init, Inv, TypeOK, BalanceIsCappedTotal, Details, Balance

(* create_wallet starts a fresh wallet at zero balance and zero total;    *)
(* allocate_funds saturates the balance and adds the full amount to the  *)
(* total, which keeps the balance the capped total.                       *)
LEMMA InvStep == Inv /\ [Next]_vars => Inv'
<1> SUFFICES ASSUME Inv, [Next]_vars PROVE Inv'
  OBVIOUS
<1>1. CASE Tick
  BY <1>1, WalletAssumption DEF Tick, Inv, TypeOK, BalanceIsCappedTotal
<1>2. ASSUME NEW a \in Accounts, NEW w \in Accounts, NEW len \in DeptLens,
             CreateWallet(a, w, len)
      PROVE  Inv'
  <2>1. TypeOK'
    BY <1>2, WalletAssumption DEF CreateWallet, Inv, TypeOK, Details, Balance
  <2>2. BalanceIsCappedTotal'
    BY <1>2, WalletAssumption DEF CreateWallet, Inv, TypeOK, BalanceIsCappedTotal
  <2>3. QED
    BY <2>1, <2>2 DEF Inv
<1>3. ASSUME NEW a \in Accounts, NEW w \in Accounts, NEW amt \in Amounts,
             AllocateFunds(a, w, amt)
      PROVE  Inv'
  <2>1. amt \in Nat /\ allocated[w] \in Nat /\ BalanceMax \in Nat
    BY WalletAssumption DEF Inv, TypeOK
  <2>2. WalletBalances[w] = Capped(allocated[w])
    BY <1>3 DEF AllocateFunds, Inv, BalanceIsCappedTotal, Capped
  <2>3. SaturatingAdd(WalletBalances[w], amt) = Capped(allocated[w] + amt)
    BY <2>1, <2>2, SaturatingAddCapped
  <2>4. SaturatingAdd(WalletBalances[w], amt) \in Balance
    BY <2>1, <2>3 DEF Capped, Balance
  <2>5. TypeOK'
    BY <1>3, <2>1, <2>4, WalletAssumption DEF AllocateFunds, Inv, TypeOK
  <2>6. BalanceIsCappedTotal'
    <3> SUFFICES ASSUME NEW y \in Accounts
                 PROVE  WalletBalances'[y] =
                          IF y \in walletIds'
                          THEN IF allocated'[y] > BalanceMax THEN BalanceMax ELSE allocated'[y]
                          ELSE 0
      BY DEF BalanceIsCappedTotal
    <3>1. CASE y = w
      BY <1>3, <2>3, <3>1 DEF AllocateFunds, Inv, TypeOK, Capped
    <3>2. CASE y # w
      BY <1>3, <3>2 DEF AllocateFunds, Inv, TypeOK, BalanceIsCappedTotal
    <3>3. QED
      BY <3>1, <3>2
  <2>7. QED
    BY <2>5, <2>6 DEF Inv
<1>4. CASE UNCHANGED vars
  BY <1>4 DEF vars, Inv, TypeOK, BalanceIsCappedTotal
<1>5. QED
  BY <1>1, <1>2, <1>3, <1>4 DEF Next, CreateWalletRejected

(* Every wallet's balance is the total FundsAllocated announced for it,   *)
(* capped at the maximum balance (BalanceIsCappedTotal), for every width. *)
THEOREM BalanceCapped == Spec => []BalanceIsCappedTotal
  BY InvInit, InvStep, PTL DEF Spec, Inv

(* No step lowers a balance: saturating_add never decreases, and          *)
(* create_wallet only zeroes a balance that is not yet a wallet's, which  *)
(* is zero already.                                                       *)
LEMMA MonotoneStep ==
    ASSUME Inv, [Next]_vars, NEW w \in Accounts
    PROVE  WalletBalances'[w] >= WalletBalances[w]
<1>1. WalletBalances[w] \in Nat
  BY WalletAssumption DEF Inv, TypeOK, Balance
<1>2. CASE Tick
  BY <1>1, <1>2 DEF Tick
<1>3. ASSUME NEW a \in Accounts, NEW x \in Accounts, NEW len \in DeptLens,
             CreateWallet(a, x, len)
      PROVE  WalletBalances'[w] >= WalletBalances[w]
  <2>1. x \notin walletIds /\ WalletBalances[x] = 0
    BY <1>3 DEF CreateWallet, IsNewWallet, Inv, BalanceIsCappedTotal
  <2>2. QED
    BY <1>1, <1>3, <2>1 DEF CreateWallet, Inv, TypeOK
<1>4. ASSUME NEW a \in Accounts, NEW x \in Accounts, NEW amt \in Amounts,
             AllocateFunds(a, x, amt)
      PROVE  WalletBalances'[w] >= WalletBalances[w]
  <2>1. amt \in Nat /\ BalanceMax \in Nat /\ WalletBalances[x] \in 0 .. BalanceMax
    BY WalletAssumption DEF Inv, TypeOK, Balance
  <2>2. SaturatingAdd(WalletBalances[x], amt) >= WalletBalances[x]
    BY <2>1 DEF SaturatingAdd
  <2>3. QED
    BY <1>1, <1>4, <2>2 DEF AllocateFunds, Inv, TypeOK
<1>5. CASE UNCHANGED vars
  BY <1>1, <1>5 DEF vars
<1>6. QED
  BY <1>2, <1>3, <1>4, <1>5 DEF Next, CreateWalletRejected

(* A wallet's balance never decreases (BalanceNeverDecreases).            *)
THEOREM BalanceMonotone == Spec => BalanceNeverDecreases
<1>1. Inv /\ [Next]_vars =>
        [\A w \in Accounts : WalletBalances'[w] >= WalletBalances[w]]_vars
  BY MonotoneStep
<1>2. QED
  BY <1>1, InvInit, InvStep, PTL DEF Spec, BalanceNeverDecreases

(* The storage keeps its types (TypeOK): wallet ids, details and balances within the balance width, for every  *)
(* value of the constants.                                                  *)
THEOREM TypeCorrect == Spec => []TypeOK
  BY InvInit, InvStep, PTL DEF Spec, Inv

=============================================================================
