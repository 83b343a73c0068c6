---------------------------- MODULE BudgetProposal ----------------------------
(***************************************************************************)
(* The budget-proposal pallet (pallets/budget-proposal/src/lib.rs).        *)
(*                                                                         *)
(* Storage: BudgetProposals, id -> Option<ProposalDetails>, and            *)
(* NextProposalId (ValueQuery, 0 at genesis).  The amount and the purpose  *)
(* and reason bytes are only stored or length-checked, never compared, so  *)
(* a purpose or reason is its length and the amount is left out.  A failed *)
(* call changes nothing (see CommunityVoting); one of them is an action,   *)
(* CreateProposalRejected, to show that some call is always possible.      *)
(***************************************************************************)
EXTENDS Naturals

CONSTANTS
    Accounts,      \* signed accounts
    PurposeLens,   \* lengths of the purpose argument of create_proposal
    ReasonLens,    \* lengths of the reason argument of reject_proposal
    MaxProposals,  \* bound on the number of create_proposal calls
    MaxBlock       \* last block the model lets the chain reach

ASSUME BudgetAssumption ==
    /\ PurposeLens \subseteq Nat
    /\ ReasonLens \subseteq Nat
    /\ MaxProposals \in Nat
    /\ MaxBlock \in Nat \ {0}

VARIABLES
    now,              \* frame_system block number
    proposalIds,      \* keys of BudgetProposals
    BudgetProposals,  \* value stored under each key
    NextProposalId

vars == <<now, proposalIds, BudgetProposals, NextProposalId>>

ProposalIds == 0 .. MaxProposals
Statuses == {"Pending", "Approved", "Rejected"}
Details == [creator : Accounts \cup {"none"}, status : Statuses,
            created_at : 0 .. MaxBlock, updated_at : 0 .. MaxBlock]

(* The two length checks of the purpose (lines 133-134) and of the reason  *)
(* (lines 235-236); the BoundedVec conversions after them cannot fail.     *)
ValidPurpose(len) == len # 0 /\ len <= 200
ValidReason(len) == len # 0 /\ len <= 100

(* The status check of approve_proposal and reject_proposal. *)
IsPendingMutant(prop) == TRUE
IsPending(prop) == prop.status = "Pending"

(* The id after proposal_id in NextProposalId::put(proposal_id + 1).       *)
NextIdStuck(id) == id
NextIdSkip(id) == id + 2
NextId(id) == id + 1

Init ==
    /\ now = 1
    /\ proposalIds = {}
    /\ BudgetProposals = [i \in ProposalIds |->
                            [creator |-> "none", status |-> "Pending",
                             created_at |-> 0, updated_at |-> 0]]
    /\ NextProposalId = 0

(* Block production. *)
Tick ==
    /\ now < MaxBlock
    /\ now' = now + 1
    /\ UNCHANGED <<proposalIds, BudgetProposals, NextProposalId>>

(* create_proposal(origin, amount, purpose): takes NextProposalId as the   *)
(* id, stores it incremented, and inserts a Pending proposal.              *)
CreateProposal(a, len) ==
    LET id == NextProposalId IN
    /\ ValidPurpose(len)
    /\ NextProposalId < MaxProposals
    /\ NextProposalId' = NextId(id)
    /\ proposalIds' = proposalIds \cup {id}
    /\ BudgetProposals' = [BudgetProposals EXCEPT ![id] =
                             [creator |-> a, status |-> "Pending",
                              created_at |-> now, updated_at |-> now]]
    /\ UNCHANGED now

(* create_proposal's early return on an empty or too long purpose: the    *)
(* call fails and nothing changes.  Such a call can always be submitted,   *)
(* so the pallet never stops even when the model's bounds are reached.     *)
CreateProposalRejected(a, len) ==
    /\ ~ValidPurpose(len)
    /\ UNCHANGED vars

(* Shared by approve_proposal and reject_proposal: the stored proposal     *)
(* gets the new status and updated_at, by any signed account.              *)
Decide(id, status) ==
    /\ id \in proposalIds
    /\ IsPending(BudgetProposals[id])
    /\ BudgetProposals' = [BudgetProposals EXCEPT ![id].status = status,
                                                  ![id].updated_at = now]
    /\ UNCHANGED <<now, proposalIds, NextProposalId>>

(* approve_proposal(origin, proposal_id). *)
ApproveProposal(a, id) == Decide(id, "Approved")

(* reject_proposal(origin, proposal_id, reason): the reason is checked     *)
(* before the proposal is read.                                            *)
RejectProposal(a, id, len) ==
    /\ ValidReason(len)
    /\ Decide(id, "Rejected")

Next ==
    \/ Tick
    \/ \E a \in Accounts, len \in PurposeLens : CreateProposal(a, len)
    \/ \E a \in Accounts, len \in PurposeLens : CreateProposalRejected(a, len)
    \/ \E a \in Accounts, id \in ProposalIds : ApproveProposal(a, id)
    \/ \E a \in Accounts, id \in ProposalIds, len \in ReasonLens :
          RejectProposal(a, id, len)

Spec == Init /\ [][Next]_vars

-----------------------------------------------------------------------------
(* Types of the storage. *)
TypeOK ==
    /\ now \in 1 .. MaxBlock
    /\ NextProposalId \in 0 .. MaxProposals
    /\ proposalIds \subseteq ProposalIds
    /\ BudgetProposals \in [ProposalIds -> Details]

(* Ids are handed out in sequence and never reused: the stored proposals   *)
(* are exactly those with ids 0 .. NextProposalId - 1 (the test            *)
(* multiple_proposals_have_sequential_ids), so create_proposal never       *)
(* overwrites an earlier proposal.                                         *)
IdsSequential ==
    proposalIds = 0 .. (NextProposalId - 1)

(* A decided proposal is final: once it is Approved or Rejected, no later  *)
(* call changes any of its fields or removes it (approve and reject both   *)
(* require Pending; create never reuses its id).                           *)
DecidedIsFinal ==
    [][\A id \in proposalIds :
          BudgetProposals[id].status # "Pending" =>
              /\ id \in proposalIds'
              /\ BudgetProposals'[id] = BudgetProposals[id]]_vars

=============================================================================
