--------------------------- MODULE GovernmentWallet ---------------------------
(***************************************************************************)
(* The government-wallet pallet (pallets/government-wallet/src/lib.rs).    *)
(*                                                                         *)
(* Storage: GovernmentWallets, AccountId -> Option<WalletDetails>, and     *)
(* WalletBalances, AccountId -> u128 (ValueQuery, 0 when absent).  Wallet  *)
(* ids are accounts.  The u128 balance is BalanceBits wide.  The           *)
(* department and purpose bytes are only length-checked or passed to the   *)
(* event, so they are their lengths, or left out.  Failed calls change     *)
(* nothing and are stuttering steps (see CommunityVoting).                 *)
(*                                                                         *)
(* allocated[w] is a history variable: the sum of the amounts the          *)
(* FundsAllocated events reported for w since it was created.              *)
(***************************************************************************)
EXTENDS Naturals

CONSTANTS
    Accounts,        \* signed accounts, also the wallet ids
    DeptLens,        \* lengths of the department argument of create_wallet
    Amounts,         \* amount arguments of allocate_funds
    BalanceBits,     \* width of the balance (u128)
    MaxAllocations,  \* bound on the number of allocate_funds calls
    MaxBlock         \* last block the model lets the chain reach

BalanceMax == 2 ^ BalanceBits - 1

ASSUME WalletAssumption ==
    /\ BalanceBits \in Nat \ {0}
    /\ BalanceMax \in Nat
    /\ DeptLens \subseteq Nat
    /\ Amounts \subseteq 0 .. BalanceMax
    /\ MaxAllocations \in Nat
    /\ MaxBlock \in Nat \ {0}

VARIABLES
    now,                \* frame_system block number
    walletIds,          \* keys of GovernmentWallets
    GovernmentWallets,  \* value stored under each key
    WalletBalances,
    allocated,          \* history: amounts reported by FundsAllocated
    nAllocations        \* number of allocate_funds calls so far (bound)

vars == <<now, walletIds, GovernmentWallets, WalletBalances, allocated,
          nAllocations>>

Balance == 0 .. BalanceMax
Details == [creator : Accounts \cup {"none"}, created_at : 0 .. MaxBlock]

(* The department checks of create_wallet (lines 106-111). *)
ValidDepartment(len) == len # 0 /\ len <= 100

(* create_wallet's check that the wallet does not exist yet. *)
IsNewWalletMutant(w) == TRUE
IsNewWallet(w) == w \notin walletIds

(* u128::saturating_add. *)
SaturatingAddMutant(a, b) == (a + b) % (BalanceMax + 1)
SaturatingAddUnchecked(a, b) == a + b
SaturatingAdd(a, b) == IF a + b > BalanceMax THEN BalanceMax ELSE a + b

Init ==
    /\ now = 1
    /\ walletIds = {}
    /\ GovernmentWallets = [w \in Accounts |-> [creator |-> "none", created_at |-> 0]]
    /\ WalletBalances = [w \in Accounts |-> 0]
    /\ allocated = [w \in Accounts |-> 0]
    /\ nAllocations = 0

(* Block production. *)
Tick ==
    /\ now < MaxBlock
    /\ now' = now + 1
    /\ UNCHANGED <<walletIds, GovernmentWallets, WalletBalances, allocated,
                   nAllocations>>

(* create_wallet(origin, wallet_id, department): stores the details and a  *)
(* zero balance for a wallet id not yet in GovernmentWallets.              *)
CreateWallet(a, w, len) ==
    /\ ValidDepartment(len)
    /\ IsNewWallet(w)
    /\ walletIds' = walletIds \cup {w}
    /\ GovernmentWallets' = [GovernmentWallets EXCEPT ![w] =
                               [creator |-> a, created_at |-> now]]
    /\ WalletBalances' = [WalletBalances EXCEPT ![w] = 0]
    /\ allocated' = [allocated EXCEPT ![w] = 0]
    /\ UNCHANGED <<now, nAllocations>>

(* allocate_funds(origin, wallet_id, amount, purpose): any signed account  *)
(* adds amount to an existing wallet's balance, saturating at u128::MAX,   *)
(* and FundsAllocated reports the full amount.                             *)
AllocateFunds(a, w, amt) ==
    /\ nAllocations < MaxAllocations
    /\ w \in walletIds
    /\ WalletBalances' = [WalletBalances EXCEPT ![w] = SaturatingAdd(@, amt)]
    /\ allocated' = [allocated EXCEPT ![w] = @ + amt]
    /\ nAllocations' = nAllocations + 1
    /\ UNCHANGED <<now, walletIds, GovernmentWallets>>

(* create_wallet's early return on an invalid department, which can always *)
(* be submitted: the pallet never stops at the model's bounds.             *)
CreateWalletRejected(a, w, len) ==
    /\ ~ValidDepartment(len)
    /\ UNCHANGED vars

Next ==
    \/ Tick
    \/ \E a, w \in Accounts, len \in DeptLens : CreateWallet(a, w, len)
    \/ \E a, w \in Accounts, len \in DeptLens : CreateWalletRejected(a, w, len)
    \/ \E a, w \in Accounts, amt \in Amounts : AllocateFunds(a, w, amt)

Spec == Init /\ [][Next]_vars

-----------------------------------------------------------------------------
(* Types of the storage. *)
TypeOK ==
    /\ now \in 1 .. MaxBlock
    /\ walletIds \subseteq Accounts
    /\ GovernmentWallets \in [Accounts -> Details]
    /\ WalletBalances \in [Accounts -> Balance]
    /\ allocated \in [Accounts -> Nat]
    /\ nAllocations \in 0 .. MaxAllocations

(* A wallet's balance never goes down: no call subtracts from it, and      *)
(* create_wallet, which writes a zero balance, refuses an existing wallet. *)
BalanceNeverDecreases ==
    [][\A w \in Accounts : WalletBalances'[w] >= WalletBalances[w]]_vars

(* Each wallet's balance is the total the FundsAllocated events reported   *)
(* for it, capped at u128::MAX; an account that is not a wallet has a zero *)
(* balance.                                                                *)
BalanceIsCappedTotal ==
    \A w \in Accounts :
        WalletBalances[w] =
            IF w \in walletIds
            THEN IF allocated[w] > BalanceMax THEN BalanceMax ELSE allocated[w]
            ELSE 0

(* The balance equals the sum of the amounts FundsAllocated reported: an   *)
(* allocation that succeeds and is announced is fully credited.  Checked   *)
(* by a run expected to find it violated at the u128 ceiling.              *)
EventsMatchBalance ==
    \A w \in walletIds : WalletBalances[w] = allocated[w]

=============================================================================
