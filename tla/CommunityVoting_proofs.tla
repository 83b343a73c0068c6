----------------------- MODULE CommunityVoting_proofs -----------------------
(***************************************************************************)
(* Proofs about the community-voting pallet model, for every value of the  *)
(* constants allowed by ConstantsAssumption.                               *)
(***************************************************************************)
EXTENDS CommunityVoting, TLAPS

(* A wrapped sum of two numbers is a number below the modulus. *)
LEMMA AddWrapType ==
    ASSUME NEW a \in Nat, NEW b \in Nat, NEW m \in Nat \ {0}
    PROVE  AddWrap(a, b, m) \in 0 .. (m - 1)
  BY DEF AddWrap

LEMMA TypeInit == Init => TypeOK
  BY ConstantsAssumption DEF Init, TypeOK, Period, BlockNum, Tally, Counter, ZeroTally

(* Every step keeps the type: the wrapped sums stay below their moduli. *)
LEMMA TypeStep == TypeOK /\ [Next]_vars => TypeOK'
<1> SUFFICES ASSUME TypeOK, [Next]_vars PROVE TypeOK'
  OBVIOUS
<1>1. CASE Tick
  BY <1>1, ConstantsAssumption DEF Tick, TypeOK
<1>2. ASSUME NEW p \in Proposals, NEW d \in Durations, StartVoting(p, d)
      PROVE  TypeOK'
  <2>1. AddWrap(now, d, BlockMod) \in BlockNum
    BY AddWrapType, ConstantsAssumption DEF TypeOK, BlockNum
  <2>2. now \in BlockNum
    BY ConstantsAssumption DEF TypeOK, BlockNum
  <2>3. QED
    BY <1>2, <2>1, <2>2, ConstantsAssumption
    DEF StartVoting, TypeOK, Period, Tally, ZeroTally, Counter
<1>3. ASSUME NEW p \in Proposals, NEW v \in Voters, NEW code \in VoteCodes,
             CastVote(p, v, code)
      PROVE  TypeOK'
  <2> DEFINE f == Field(Decode(code))
  <2>1. Decode(code) \in Choices
    BY DEF Decode, Choices
  <2>2. f \in {"yes_votes", "no_votes", "abstain_votes"}
    BY DEF Field
  <2>3. VoteCounts[p][f] \in Nat
    <3>1. VoteCounts[p] \in Tally
      BY DEF TypeOK
    <3>2. QED
      BY <2>2, <3>1 DEF Tally, Counter
  <2>4. AddWrap(VoteCounts[p][f], 1, CountMod) \in Counter
    BY <2>3, AddWrapType, ConstantsAssumption DEF Counter
  <2>5. QED
    BY <1>3, <2>1, <2>2, <2>4 DEF CastVote, TypeOK, Tally
<1>4. ASSUME NEW p \in Proposals, EndVoting(p)
      PROVE  TypeOK'
  <2>1. MajorityResult(VoteCounts[p]) \in Results
    BY DEF MajorityResult, Results
  <2>2. QED
    BY <1>4, <2>1 DEF EndVoting, TypeOK
<1>5. CASE UNCHANGED vars
  BY <1>5 DEF vars, TypeOK
<1>6. QED
  BY <1>1, <1>2, <1>3, <1>4, <1>5 DEF Next

(* The type invariant is an invariant of the specification. *)
THEOREM TypeCorrect == Spec => []TypeOK
  BY TypeInit, TypeStep, PTL DEF Spec

-----------------------------------------------------------------------------
(* ResultFrozenInRound is not inductive by itself: a cast_vote after the   *)
(* first end_voting would change the tally, and only the period being      *)
(* closed at that point rules it out.  FrozenInv adds that a round with a  *)
(* reported result has its period stored and already closed.               *)
FrozenInv ==
    \A p \in Proposals :
        roundResults[p] # {} =>
            /\ p \in periodOpen
            /\ Closed(VotingPeriods[p], now)
            /\ roundResults[p] = {MajorityResult(VoteCounts[p])}

IInv == TypeOK /\ FrozenInv

LEMMA FrozenInit == Init => FrozenInv
  BY DEF Init, FrozenInv

(* Each step keeps FrozenInv: block production only moves the block number *)
(* further past end_block; start_voting forgets the round's results;       *)
(* cast_vote is only possible in a round with no result, since its window  *)
(* check contradicts Closed; end_voting adds the result of the same tally. *)
LEMMA FrozenStep == IInv /\ [Next]_vars => FrozenInv'
<1> SUFFICES ASSUME TypeOK, FrozenInv, [Next]_vars PROVE FrozenInv'
  BY DEF IInv
<1>1. CASE Tick
  BY <1>1, ConstantsAssumption DEF Tick, FrozenInv, Closed, TypeOK, Period, BlockNum
<1>2. ASSUME NEW q \in Proposals, NEW d \in Durations, StartVoting(q, d)
      PROVE  FrozenInv'
  BY <1>2 DEF StartVoting, FrozenInv, TypeOK
<1>3. ASSUME NEW q \in Proposals, NEW v \in Voters, NEW code \in VoteCodes,
             CastVote(q, v, code)
      PROVE  FrozenInv'
  <2>1. InWindow(VotingPeriods[q], now)
    BY <1>3 DEF CastVote
  <2>2. ~Closed(VotingPeriods[q], now)
    BY <2>1, ConstantsAssumption DEF InWindow, Closed, TypeOK, Period, BlockNum
  <2>3. roundResults[q] = {}
    BY <2>2 DEF FrozenInv
  <2>4. QED
    BY <1>3, <2>3 DEF CastVote, FrozenInv, TypeOK
<1>4. ASSUME NEW q \in Proposals, EndVoting(q)
      PROVE  FrozenInv'
  BY <1>4 DEF EndVoting, FrozenInv, TypeOK
<1>5. CASE UNCHANGED vars
  BY <1>5 DEF vars, FrozenInv
<1>6. QED
  BY <1>1, <1>2, <1>3, <1>4, <1>5 DEF Next

(* Once end_voting has reported a result for a period, every later        *)
(* end_voting of that period reports the same one (ResultFrozenInRound),   *)
(* whatever the widths, durations and numbers of proposals and voters.     *)
THEOREM ResultFrozen == Spec => []ResultFrozenInRound
<1>1. Init => IInv
  BY TypeInit, FrozenInit DEF IInv
<1>2. IInv /\ [Next]_vars => IInv'
  <2>1. TypeOK /\ [Next]_vars => TypeOK'
    BY TypeStep
  <2>2. QED
    BY <2>1, FrozenStep DEF IInv
<1>3. IInv => ResultFrozenInRound
  BY DEF IInv, FrozenInv, ResultFrozenInRound
<1>4. QED
  BY <1>1, <1>2, <1>3, PTL DEF Spec

=============================================================================
