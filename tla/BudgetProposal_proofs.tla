------------------------- MODULE BudgetProposal_proofs -------------------------
(***************************************************************************)
(* Proofs about the budget-proposal model for every value of the          *)
(* constants allowed by BudgetAssumption.                                  *)
(***************************************************************************)
EXTENDS BudgetProposal, TLAPS

(* The storage types and the id invariant together are inductive. *)
Inv == TypeOK /\ IdsSequential

(* Genesis: no proposal and NextProposalId = 0. *)
LEMMA InvInit == Init => Inv
  BY BudgetAssumption DEF Init, Inv, TypeOK, IdsSequential, ProposalIds, Details, Statuses

(* Every step keeps the types and the ids: create_proposal stores under   *)
(* NextProposalId, the one id just past the stored ones, and moves it on  *)
(* by one; approve and reject only rewrite a stored proposal's status.    *)
LEMMA InvStep == Inv /\ [Next]_vars => Inv'
<1> SUFFICES ASSUME Inv, [Next]_vars PROVE Inv'
  OBVIOUS
<1>1. CASE Tick
  BY <1>1, BudgetAssumption DEF Tick, Inv, TypeOK, IdsSequential
<1>2. ASSUME NEW a \in Accounts, NEW len \in PurposeLens, CreateProposal(a, len)
      PROVE  Inv'
  <2>1. NextProposalId \in 0 .. MaxProposals - 1
    BY <1>2, BudgetAssumption DEF CreateProposal, Inv, TypeOK
  <2>2. TypeOK'
    BY <1>2, <2>1, BudgetAssumption
    DEF CreateProposal, NextId, Inv, TypeOK, ProposalIds, Details, Statuses
  <2>3. IdsSequential'
    BY <1>2, <2>1 DEF CreateProposal, NextId, Inv, IdsSequential
  <2>4. QED
    BY <2>2, <2>3 DEF Inv
<1>3. ASSUME NEW id \in ProposalIds, NEW status \in {"Approved", "Rejected"},
             Decide(id, status)
      PROVE  Inv'
  <2>1. BudgetProposals[id] \in Details /\ now \in 0 .. MaxBlock
    BY DEF Inv, TypeOK
  <2>2. [BudgetProposals[id] EXCEPT !.status = status, !.updated_at = now] \in Details
    BY <2>1 DEF Details, Statuses
  <2>3. TypeOK'
    BY <1>3, <2>2 DEF Decide, Inv, TypeOK
  <2>4. QED
    BY <1>3, <2>3 DEF Decide, Inv, IdsSequential
<1>4. CASE UNCHANGED vars
  BY <1>4 DEF vars, Inv, TypeOK, IdsSequential
<1>5. QED
  <2>1. ASSUME NEW a \in Accounts, NEW id \in ProposalIds, ApproveProposal(a, id)
        PROVE  Inv'
    BY <2>1, <1>3 DEF ApproveProposal
  <2>2. ASSUME NEW a \in Accounts, NEW id \in ProposalIds, NEW len \in ReasonLens,
               RejectProposal(a, id, len)
        PROVE  Inv'
    BY <2>2, <1>3 DEF RejectProposal
  <2>3. ASSUME NEW a \in Accounts, NEW len \in PurposeLens,
               CreateProposalRejected(a, len)
        PROVE  Inv'
    BY <2>3, <1>4 DEF CreateProposalRejected
  <2>4. QED
    BY <1>1, <1>2, <2>1, <2>2, <2>3, <1>4 DEF Next

(* Proposal ids are handed out in sequence and never reused               *)
(* (IdsSequential), whatever the number of proposals and accounts.        *)
THEOREM IdsAreSequential == Spec => []IdsSequential
  BY InvInit, InvStep, PTL DEF Spec, Inv

(* No step touches a decided proposal: the only write of create_proposal *)
(* goes to a fresh id, and approve and reject need a Pending proposal.    *)
LEMMA FinalStep ==
    ASSUME Inv, [Next]_vars,
           NEW id \in proposalIds, BudgetProposals[id].status # "Pending"
    PROVE  id \in proposalIds' /\ BudgetProposals'[id] = BudgetProposals[id]
<1>1. CASE Tick
  BY <1>1 DEF Tick
<1>2. ASSUME NEW a \in Accounts, NEW len \in PurposeLens, CreateProposal(a, len)
      PROVE  id \in proposalIds' /\ BudgetProposals'[id] = BudgetProposals[id]
  <2>1. id # NextProposalId
    BY DEF Inv, IdsSequential, TypeOK
  <2>2. QED
    BY <1>2, <2>1 DEF CreateProposal, Inv, TypeOK
<1>3. ASSUME NEW i \in ProposalIds, NEW status, Decide(i, status)
      PROVE  id \in proposalIds' /\ BudgetProposals'[id] = BudgetProposals[id]
  <2>1. i # id
    BY <1>3 DEF Decide, IsPending
  <2>2. QED
    BY <1>3, <2>1 DEF Decide, Inv, TypeOK
<1>4. CASE UNCHANGED vars
  BY <1>4 DEF vars
<1>5. QED
  BY <1>1, <1>2, <1>3, <1>4
  DEF Next, ApproveProposal, RejectProposal, CreateProposalRejected

(* A decided proposal is final (DecidedIsFinal): once Approved or         *)
(* Rejected it is never changed or removed, by any account.               *)
THEOREM DecidedProposalsAreFinal == Spec => DecidedIsFinal
<1>1. Inv /\ [Next]_vars =>
        [\A id \in proposalIds :
            BudgetProposals[id].status # "Pending" =>
                /\ id \in proposalIds'
                /\ BudgetProposals'[id] = BudgetProposals[id]]_vars
  BY FinalStep
<1>2. QED
  BY <1>1, InvInit, InvStep, PTL DEF Spec, DecidedIsFinal

(* The storage keeps its types (TypeOK): proposal ids, statuses and details, for every  *)
(* value of the constants.                                                  *)
THEOREM TypeCorrect == Spec => []TypeOK
  BY InvInit, InvStep, PTL DEF Spec, Inv

=============================================================================
