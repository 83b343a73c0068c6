-------------------- MODULE CommunityVoting_refinement ---------------------
(***************************************************************************)
(* Proofs that the tally of the community-voting model counts the ballots  *)
(* of the current round (TallyMatchesLedger), and that the model           *)
(* implements the abstract round of VotingRound under the refinement       *)
(* mapping of CommunityVoting, when the electorate fits the counters.      *)
(***************************************************************************)
EXTENDS CommunityVoting_proofs, FiniteSetTheorems

(* k * m + s leaves the remainder s for 0 <= s < m. *)
LEMMA ModUnique ==
    ASSUME NEW m \in Nat \ {0}, NEW k \in Nat, NEW s \in 0 .. m - 1
    PROVE  (k * m + s) % m = s
  BY SMT

(* Incrementing a residue and reducing again is reducing the successor. *)
LEMMA ModSucc ==
    ASSUME NEW a \in Nat, NEW m \in Nat \ {0}
    PROVE  ((a % m) + 1) % m = (a + 1) % m
<1> DEFINE r == a % m
<1> DEFINE k == a \div m
<1>1. r \in 0 .. m - 1 /\ a = k * m + r /\ k \in Nat
  BY SMT
<1>2. CASE r + 1 < m
  <2>1. (r + 1) % m = r + 1
    BY <1>1, <1>2
  <2>2. (a + 1) % m = (k * m + (r + 1)) % m
    BY <1>1
  <2>3. r + 1 \in 0 .. m - 1
    BY <1>1, <1>2
  <2>4. (k * m + (r + 1)) % m = r + 1
    BY <1>1, <2>3, ModUnique
  <2>5. QED
    BY <2>1, <2>2, <2>4
<1>3. CASE r + 1 = m
  <2>1. (r + 1) % m = 0
    BY <1>3
  <2>2. (a + 1) % m = ((k + 1) * m + 0) % m
    BY <1>1, <1>3
  <2>3. ((k + 1) * m + 0) % m = 0
    BY <1>1, ModUnique
  <2>4. QED
    BY <2>1, <2>2, <2>3
<1>4. QED
  BY <1>1, <1>2, <1>3

(* The three choices are counted in three different fields. *)
LEMMA FieldInjective ==
    ASSUME NEW c1 \in Choices, NEW c2 \in Choices, c1 # c2
    PROVE  Field(c1) # Field(c2)
  BY DEF Field, Choices

(* The ballots of a round are a finite set of accounts. *)
LEMMA RoundBallotsFinite ==
    ASSUME TypeOK, IsFiniteSet(Voters), NEW p \in Proposals, NEW c
    PROVE  /\ RoundBallots(p, c) \subseteq Voters
           /\ IsFiniteSet(RoundBallots(p, c))
           /\ Cardinality(RoundBallots(p, c)) \in Nat
<1>1. RoundBallots(p, c) \subseteq Voters
  BY DEF TypeOK, RoundBallots
<1>2. IsFiniteSet(RoundBallots(p, c))
  BY <1>1, FS_Subset
<1>3. QED
  BY <1>1, <1>2, FS_CardinalityType

LEMMA LedgerInit == IsFiniteSet(Voters) /\ Init => TallyMatchesLedger
<1> SUFFICES ASSUME IsFiniteSet(Voters), Init PROVE TallyMatchesLedger
  OBVIOUS
<1>1. \A p \in Proposals, c \in Choices : Cardinality(RoundBallots(p, c)) = 0
  BY FS_EmptySet DEF Init, RoundBallots
<1>2. 0 % CountMod = 0
  BY ConstantsAssumption
<1>3. \A p \in Proposals, c \in Choices : VoteCounts[p][Field(c)] = 0
  BY DEF Init, ZeroTally, Field, Choices
<1>4. QED
  BY <1>1, <1>2, <1>3 DEF Init, TallyMatchesLedger

-----------------------------------------------------------------------------
(* TallyMatchesLedger for one proposal. *)
LedgerAt(p) ==
    /\ \A v \in roundVoters[p] : ProposalVotes[p][v] # NoVote
    /\ \A c \in Choices :
          VoteCounts[p][Field(c)] = Cardinality(RoundBallots(p, c)) % CountMod

(* Each step keeps the tally equal to the round's ballots: start_voting    *)
(* empties both, cast_vote adds one account that was not yet a ballot of  *)
(* the round to one choice and increments that choice's counter, and the  *)
(* other steps change neither.                                            *)
LEMMA LedgerStep ==
    ASSUME IsFiniteSet(Voters), TypeOK, TallyMatchesLedger, [Next]_vars
    PROVE  TallyMatchesLedger'
<1>1. CASE Tick
  BY <1>1 DEF Tick, TallyMatchesLedger, RoundBallots
<1>2. ASSUME NEW q \in Proposals, NEW d \in Durations, StartVoting(q, d)
      PROVE  TallyMatchesLedger'
  <2> SUFFICES ASSUME NEW p \in Proposals PROVE LedgerAt(p)'
    BY DEF TallyMatchesLedger, LedgerAt
  <2>1. CASE p = q
    <3>1. roundVoters'[q] = {}
      BY <1>2 DEF StartVoting, TypeOK
    <3>2. \A c \in Choices : Cardinality(RoundBallots(q, c)') = 0
      BY <3>1, FS_EmptySet DEF RoundBallots
    <3>3. \A c \in Choices : VoteCounts'[q][Field(c)] = 0
      BY <1>2 DEF StartVoting, TypeOK, ZeroTally, Field, Choices
    <3>4. 0 % CountMod = 0
      BY ConstantsAssumption
    <3>5. QED
      BY <2>1, <3>1, <3>2, <3>3, <3>4 DEF LedgerAt
  <2>2. CASE p # q
    <3>1. /\ VoteCounts'[p] = VoteCounts[p]
          /\ roundVoters'[p] = roundVoters[p]
          /\ ProposalVotes'[p] = ProposalVotes[p]
      BY <1>2, <2>2 DEF StartVoting, TypeOK
    <3>2. \A c \in Choices : RoundBallots(p, c)' = RoundBallots(p, c)
      BY <3>1 DEF RoundBallots
    <3>3. QED
      BY <3>1, <3>2 DEF LedgerAt, TallyMatchesLedger
  <2>3. QED
    BY <2>1, <2>2
<1>3. ASSUME NEW q \in Proposals, NEW v \in Voters, NEW code \in VoteCodes,
             CastVote(q, v, code)
      PROVE  TallyMatchesLedger'
  <2> DEFINE c == Decode(code)
  <2> SUFFICES ASSUME NEW p \in Proposals PROVE LedgerAt(p)'
    BY DEF TallyMatchesLedger, LedgerAt
  <2>1. c \in Choices
    BY DEF Decode, Choices
  <2>2. v \notin roundVoters[q]
    BY <1>3 DEF CastVote, TallyMatchesLedger
  <2>3. /\ roundVoters'[q] = roundVoters[q] \cup {v}
        /\ ProposalVotes'[q] = [ProposalVotes[q] EXCEPT ![v] = c]
    BY <1>3 DEF CastVote, TypeOK
  <2>4. CASE p = q
    <3>1. RoundBallots(q, c)' = RoundBallots(q, c) \cup {v}
      BY <2>1, <2>3 DEF RoundBallots, TypeOK
    <3>2. \A c2 \in Choices \ {c} : RoundBallots(q, c2)' = RoundBallots(q, c2)
      <4> SUFFICES ASSUME NEW c2 \in Choices \ {c}
                   PROVE  RoundBallots(q, c2)' = RoundBallots(q, c2)
        OBVIOUS
      <4>1. ProposalVotes'[q][v] # c2
        BY <2>3 DEF TypeOK
      <4>2. \A w \in roundVoters[q] : ProposalVotes'[q][w] = ProposalVotes[q][w]
        BY <2>2, <2>3 DEF TypeOK
      <4>3. QED
        BY <2>3, <4>1, <4>2 DEF RoundBallots
    <3>3. VoteCounts'[q][Field(c)] = Cardinality(RoundBallots(q, c)') % CountMod
      <4> DEFINE n == Cardinality(RoundBallots(q, c))
      <4>1. n \in Nat /\ IsFiniteSet(RoundBallots(q, c))
        BY RoundBallotsFinite
      <4>2. v \notin RoundBallots(q, c)
        BY <2>2 DEF RoundBallots
      <4>3. Cardinality(RoundBallots(q, c) \cup {v}) = n + 1
        BY <4>1, <4>2, FS_AddElement
      <4>4. VoteCounts[q][Field(c)] = n % CountMod
        BY <2>1 DEF TallyMatchesLedger
      <4>5. Field(c) \in {"yes_votes", "no_votes", "abstain_votes"}
        BY DEF Field
      <4>6. VoteCounts'[q][Field(c)] = AddWrap(VoteCounts[q][Field(c)], 1, CountMod)
        BY <1>3, <4>5 DEF CastVote, TypeOK, Tally
      <4>7. AddWrap(n % CountMod, 1, CountMod) = (n + 1) % CountMod
        BY <4>1, ModSucc, ConstantsAssumption DEF AddWrap
      <4>8. QED
        BY <3>1, <4>3, <4>4, <4>6, <4>7
    <3>4. \A c2 \in Choices \ {c} : VoteCounts'[q][Field(c2)] = VoteCounts[q][Field(c2)]
      <4>1. \A c2 \in Choices \ {c} : Field(c2) # Field(c)
        BY <2>1, FieldInjective
      <4>2. QED
        BY <1>3, <4>1 DEF CastVote, TypeOK, Tally, Field
    <3>5. \A w \in roundVoters'[q] : ProposalVotes'[q][w] # NoVote
      BY <2>1, <2>3 DEF TallyMatchesLedger, TypeOK, Choices, NoVote
    <3>6. QED
      BY <2>4, <3>2, <3>3, <3>4, <3>5 DEF LedgerAt, TallyMatchesLedger
  <2>5. CASE p # q
    <3>1. /\ VoteCounts'[p] = VoteCounts[p]
          /\ roundVoters'[p] = roundVoters[p]
          /\ ProposalVotes'[p] = ProposalVotes[p]
      BY <1>3, <2>5 DEF CastVote, TypeOK
    <3>2. \A c2 \in Choices : RoundBallots(p, c2)' = RoundBallots(p, c2)
      BY <3>1 DEF RoundBallots
    <3>3. QED
      BY <3>1, <3>2 DEF LedgerAt, TallyMatchesLedger
  <2>6. QED
    BY <2>4, <2>5
<1>4. ASSUME NEW q \in Proposals, EndVoting(q)
      PROVE  TallyMatchesLedger'
  BY <1>4 DEF EndVoting, TallyMatchesLedger, RoundBallots
<1>5. CASE UNCHANGED vars
  BY <1>5 DEF vars, TallyMatchesLedger, RoundBallots
<1>6. QED
  BY <1>1, <1>2, <1>3, <1>4, <1>5 DEF Next

(* For any finite set of accounts, every tally counter of every proposal  *)
(* is the number of the current round's ballots with that choice, modulo  *)
(* the counter width, and every counted account has its vote stored.      *)
THEOREM LedgerInvariant == IsFiniteSet(Voters) => (Spec => []TallyMatchesLedger)
<1> SUFFICES ASSUME IsFiniteSet(Voters) PROVE Spec => []TallyMatchesLedger
  OBVIOUS
<1>1. Init => TypeOK /\ TallyMatchesLedger
  BY TypeInit, LedgerInit
<1>2. TypeOK /\ TallyMatchesLedger /\ [Next]_vars => TypeOK' /\ TallyMatchesLedger'
  BY TypeStep, LedgerStep
<1>3. QED
  BY <1>1, <1>2, PTL DEF Spec

-----------------------------------------------------------------------------
(* Cardinality of the instance of VotingRound is that of FiniteSets. *)
LEMMA VRCardinality == \A S : VR!Cardinality(S) = Cardinality(S)
  BY DEF VR!Cardinality, Cardinality

(* A sum below the modulus does not wrap. *)
LEMMA AddWrapExact ==
    ASSUME NEW a \in Nat, NEW b \in Nat, NEW m \in Nat \ {0}, a + b < m
    PROVE  AddWrap(a, b, m) = a + b
<1>1. (0 * m + (a + b)) % m = a + b
  BY ModUnique
<1>2. QED
  BY <1>1 DEF AddWrap

(* When the electorate fits the counters, nothing wraps: each counter is   *)
(* exactly the number of the round's ballots with its choice.              *)
LEMMA CountsExact ==
    ASSUME VotersFit, TypeOK, TallyMatchesLedger,
           NEW p \in Proposals, NEW c \in Choices
    PROVE  VoteCounts[p][Field(c)] = Cardinality(RoundBallots(p, c))
<1> DEFINE n == Cardinality(RoundBallots(p, c))
<1>1. n \in 0 .. CountMod - 1
  <2>1. IsFiniteSet(Voters) /\ Cardinality(Voters) < CountMod
    BY DEF VotersFit
  <2>2. n \in Nat /\ n <= Cardinality(Voters)
    BY <2>1, RoundBallotsFinite, FS_Subset
  <2>3. Cardinality(Voters) \in Nat
    BY <2>1, FS_CardinalityType
  <2>4. QED
    BY <2>1, <2>2, <2>3, ConstantsAssumption
<1>2. (0 * CountMod + n) % CountMod = n
  BY <1>1, ModUnique, ConstantsAssumption
<1>3. n % CountMod = n
  BY <1>1, <1>2, ConstantsAssumption
<1>4. VoteCounts[p][Field(c)] = n % CountMod
  BY DEF TallyMatchesLedger
<1>5. QED
  BY <1>3, <1>4

(* end_voting's result on the stored tally is the abstract outcome of the *)
(* round's ballots: the Yes and No ballots are disjoint sets of accounts, *)
(* so yes + no does not wrap either.                                      *)
LEMMA OutcomeAgrees ==
    ASSUME VotersFit, TypeOK, TallyMatchesLedger, NEW p \in Proposals
    PROVE  MajorityResult(VoteCounts[p]) = VR!Outcome(AbstractBallots[p])
<1> DEFINE Y == RoundBallots(p, "Yes")
           N == RoundBallots(p, "No")
<1>1. IsFiniteSet(Voters) /\ Cardinality(Voters) < CountMod
  BY DEF VotersFit
<1>2. /\ {v \in Voters : AbstractBallots[p][v] = "Yes"} = Y
      /\ {v \in Voters : AbstractBallots[p][v] = "No"} = N
  BY DEF AbstractBallots, RoundBallots, TypeOK, NoVote
<1>3. VoteCounts[p].yes_votes = Cardinality(Y) /\ VoteCounts[p].no_votes = Cardinality(N)
  BY CountsExact DEF Field, Choices
<1>4. Cardinality(Y) + Cardinality(N) < CountMod
  <2>1. IsFiniteSet(Y) /\ IsFiniteSet(N) /\ Y \cup N \subseteq Voters
    BY <1>1, RoundBallotsFinite
  <2>2. Y \cap N = {}
    BY DEF RoundBallots
  <2>3. Cardinality(Y \cap N) = 0
    BY <2>2, FS_EmptySet
  <2>4. Cardinality(Y \cup N) = Cardinality(Y) + Cardinality(N) - Cardinality(Y \cap N)
    BY <2>1, FS_Union
  <2>5. Cardinality(Y \cup N) <= Cardinality(Voters)
    BY <1>1, <2>1, FS_Subset
  <2>6. /\ Cardinality(Y) \in Nat /\ Cardinality(N) \in Nat
        /\ Cardinality(Voters) \in Nat /\ Cardinality(Y \cup N) \in Nat
        /\ Cardinality(Y \cap N) \in Nat
    BY <1>1, <2>1, <2>2, FS_CardinalityType, FS_Union, FS_EmptySet
  <2>7. QED
    BY <1>1, <2>3, <2>4, <2>5, <2>6, ConstantsAssumption
<1>5. AddWrap(Cardinality(Y), Cardinality(N), CountMod) = Cardinality(Y) + Cardinality(N)
  <2>1. Cardinality(Y) \in Nat /\ Cardinality(N) \in Nat
    BY <1>1, RoundBallotsFinite
  <2>2. QED
    BY <1>4, <2>1, AddWrapExact, ConstantsAssumption
<1>6. QED
  BY <1>2, <1>3, <1>5, VRCardinality DEF MajorityResult, VR!Outcome

LEMMA RefinementInit == Init => VR!Init
<1> SUFFICES ASSUME Init PROVE VR!Init
  OBVIOUS
<1>1. AbstractWindow = [p \in {} |-> 0]
  BY DEF Init, AbstractWindow
<1>2. AbstractBallots = [p \in Proposals |-> VR!NoBallots]
  BY DEF Init, AbstractBallots, VR!NoBallots, VR!NoVote, NoVote
<1>3. QED
  BY <1>1, <1>2 DEF Init, VR!Init

(* Every step of the pallet is a step of the abstract round or leaves the *)
(* mapped state unchanged.                                                *)
LEMMA RefinementStep ==
    ASSUME VotersFit, TypeOK, TallyMatchesLedger, [Next]_vars
    PROVE  [VR!Next]_VR!vars
<1>1. CASE Tick
  <2>1. VR!Advance
    BY <1>1 DEF Tick, VR!Advance, AbstractWindow, AbstractBallots
  <2>2. QED
    BY <2>1 DEF VR!Next
<1>2. ASSUME NEW q \in Proposals, NEW d \in Durations, StartVoting(q, d)
      PROVE  [VR!Next]_VR!vars
  <2> DEFINE e == AddWrap(now, d, BlockMod)
  <2>1. e \in BlockNum
    BY AddWrapType, ConstantsAssumption DEF TypeOK, BlockNum
  <2>2. AbstractWindow' = [x \in DOMAIN AbstractWindow \cup {q} |->
                            IF x = q THEN [start_block |-> now, end_block |-> e]
                            ELSE AbstractWindow[x]]
    BY <1>2 DEF StartVoting, AbstractWindow, TypeOK
  <2>3. AbstractBallots' = [AbstractBallots EXCEPT ![q] = VR!NoBallots]
    <3>1. AbstractBallots'[q] = VR!NoBallots
      BY <1>2 DEF StartVoting, AbstractBallots, VR!NoBallots, VR!NoVote, NoVote, TypeOK
    <3>2. \A p \in Proposals \ {q} : AbstractBallots'[p] = AbstractBallots[p]
      BY <1>2 DEF StartVoting, AbstractBallots, TypeOK
    <3>3. QED
      BY <3>1, <3>2 DEF AbstractBallots
  <2>4. VR!Open(q, e)
    BY <1>2, <2>2, <2>3 DEF StartVoting, VR!Open
  <2>5. QED
    BY <2>1, <2>4 DEF VR!Next
<1>3. ASSUME NEW q \in Proposals, NEW v \in Voters, NEW code \in VoteCodes,
             CastVote(q, v, code)
      PROVE  [VR!Next]_VR!vars
  <2> DEFINE c == Decode(code)
  <2>1. c \in Choices
    BY DEF Decode, Choices
  <2>2. /\ q \in DOMAIN AbstractWindow
        /\ AbstractWindow[q].start_block <= now /\ now <= AbstractWindow[q].end_block
        /\ AbstractBallots[q][v] = NoVote
    BY <1>3 DEF CastVote, InWindow, AbstractWindow, AbstractBallots
  <2>3. AbstractBallots' = [AbstractBallots EXCEPT ![q][v] = c]
    BY <1>3 DEF CastVote, AbstractBallots, TypeOK
  <2>4. AbstractWindow' = AbstractWindow
    BY <1>3 DEF CastVote, AbstractWindow
  <2>5. VR!Vote(q, v, c)
    BY <1>3, <2>2, <2>3, <2>4 DEF CastVote, VR!Vote, VR!NoVote, NoVote
  <2>6. QED
    BY <2>1, <2>5 DEF VR!Next, VR!Choices, Choices
<1>4. ASSUME NEW q \in Proposals, EndVoting(q)
      PROVE  [VR!Next]_VR!vars
  <2>1. MajorityResult(VoteCounts[q]) = VR!Outcome(AbstractBallots[q])
    BY OutcomeAgrees
  <2>2. VR!Resolve(q)
    BY <1>4, <2>1 DEF EndVoting, Closed, VR!Resolve, AbstractWindow, AbstractBallots
  <2>3. QED
    BY <2>2 DEF VR!Next
<1>5. CASE UNCHANGED vars
  BY <1>5 DEF vars, VR!vars, AbstractWindow, AbstractBallots
<1>6. QED
  BY <1>1, <1>2, <1>3, <1>4, <1>5 DEF Next

(* When the electorate fits the counters, the pallet implements the       *)
(* abstract round of VotingRound (RefinesVotingRound), for every width,   *)
(* every set of proposal ids and durations, and either overflow policy.   *)
THEOREM Refinement == VotersFit => (Spec => RefinesVotingRound)
<1> SUFFICES ASSUME VotersFit PROVE Spec => VR!Spec
  BY DEF RefinesVotingRound
<1>1. IsFiniteSet(Voters)
  BY DEF VotersFit
<1>2. Spec => [](TypeOK /\ TallyMatchesLedger)
  BY <1>1, TypeCorrect, LedgerInvariant, PTL
<1>3. TypeOK /\ TallyMatchesLedger /\ [Next]_vars => [VR!Next]_VR!vars
  BY RefinementStep
<1>4. QED
  BY <1>2, <1>3, RefinementInit, PTL DEF Spec, VR!Spec

-----------------------------------------------------------------------------
(* The uncapped majority of the round's ballots is the abstract outcome of *)
(* the mapped ballots: both count the same sets of voters.                 *)
LEMMA BallotResultIsOutcome ==
    ASSUME TypeOK, NEW p \in Proposals
    PROVE  BallotResult(p) = VR!Outcome(AbstractBallots[p])
<1>1. /\ {v \in Voters : AbstractBallots[p][v] = "Yes"} = RoundBallots(p, "Yes")
      /\ {v \in Voters : AbstractBallots[p][v] = "No"} = RoundBallots(p, "No")
  BY DEF AbstractBallots, RoundBallots, TypeOK, NoVote
<1>2. QED
  BY <1>1, VRCardinality DEF BallotResult, VR!Outcome

(* When the electorate fits the counters, every result end_voting reports *)
(* for the current round is the simple majority of the votes cast in it   *)
(* (ResultMatchesBallots).  The voting_tally_overflow run shows that this *)
(* fails once a counter or yes + no wraps; the theorem shows that nothing *)
(* else (re-opens, wrapped windows, votes racing end_voting) breaks it.   *)
THEOREM ResultsAreMajorities == VotersFit => (Spec => []ResultMatchesBallots)
<1> SUFFICES ASSUME VotersFit PROVE Spec => []ResultMatchesBallots
  OBVIOUS
<1>1. TypeOK /\ TallyMatchesLedger /\ ResultFrozenInRound => ResultMatchesBallots
  <2> SUFFICES ASSUME TypeOK, TallyMatchesLedger, ResultFrozenInRound,
                      NEW p \in Proposals, NEW r \in roundResults[p]
               PROVE  r = BallotResult(p)
    BY DEF ResultMatchesBallots
  <2>1. r = MajorityResult(VoteCounts[p])
    BY DEF ResultFrozenInRound
  <2>2. QED
    BY <2>1, OutcomeAgrees, BallotResultIsOutcome
<1>2. IsFiniteSet(Voters)
  BY DEF VotersFit
<1>3. QED
  BY <1>1, <1>2, TypeCorrect, LedgerInvariant, ResultFrozen, PTL

-----------------------------------------------------------------------------
(* No start block plus duration reaches the block-number modulus. *)
NoBlockWrap == \A d \in Durations : MaxBlock + d < BlockMod

(* start_voting stores a window that ends no earlier than it starts when   *)
(* its sum now + duration_blocks does not wrap: either the build checks    *)
(* overflow (and the call panics instead) or the sum fits.                 *)
LEMMA WindowStep ==
    ASSUME ~Wrapping \/ NoBlockWrap, TypeOK, WindowNotInverted, [Next]_vars
    PROVE  WindowNotInverted'
<1>1. ASSUME NEW p \in Proposals, NEW d \in Durations, StartVoting(p, d)
      PROVE  WindowNotInverted'
  <2>1. now \in Nat /\ d \in Nat /\ now <= MaxBlock
    BY ConstantsAssumption DEF TypeOK, BlockNum
  <2>2. now + d < BlockMod
    <3>1. CASE Wrapping
      BY <3>1, <2>1, ConstantsAssumption DEF NoBlockWrap
    <3>2. CASE ~Wrapping
      BY <1>1, <3>2, <2>1, ConstantsAssumption DEF StartVoting, Overflows
    <3>3. QED
      BY <3>1, <3>2
  <2>3. AddWrap(now, d, BlockMod) = now + d
    BY <2>1, <2>2, AddWrapExact, ConstantsAssumption
  <2>4. QED
    BY <1>1, <2>1, <2>3 DEF StartVoting, WindowNotInverted, TypeOK
<1>2. QED
  BY <1>1 DEF Next, Tick, CastVote, EndVoting, vars, WindowNotInverted

(* A stored voting window never ends before it starts                      *)
(* (WindowNotInverted) in a build with overflow checks, or in the release  *)
(* build as long as no block number plus duration wraps.  The              *)
(* voting_window_wrap run shows that the inverted window of start_voting   *)
(* needs exactly that wrap.                                                 *)
THEOREM WindowsOrdered == (~Wrapping \/ NoBlockWrap) => (Spec => []WindowNotInverted)
<1> SUFFICES ASSUME ~Wrapping \/ NoBlockWrap PROVE Spec => []WindowNotInverted
  OBVIOUS
<1>1. Init => WindowNotInverted
  BY DEF Init, WindowNotInverted
<1>2. TypeOK /\ WindowNotInverted /\ [Next]_vars => WindowNotInverted'
  BY WindowStep
<1>3. QED
  BY <1>1, <1>2, TypeCorrect, PTL DEF Spec

=============================================================================
