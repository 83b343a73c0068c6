--------------------------- MODULE CommunityVoting ---------------------------
(***************************************************************************)
(* The community-voting pallet (pallets/community-voting/src/lib.rs).      *)
(*                                                                         *)
(* Three storage maps owned by the pallet:                                 *)
(*   VotingPeriods  proposal -> Option<VotingPeriod{start_block,end_block}> *)
(*                  (periodOpen is the set of keys present, VotingPeriods  *)
(*                  the stored value for each of them)                     *)
(*   VoteCounts     proposal -> VoteTally (ValueQuery: zero when absent)   *)
(*   ProposalVotes  (proposal, voter) -> Option<VoteChoice>                *)
(* and the block number of frame_system, the only clock, advanced by block *)
(* production between extrinsics (Tick).                                   *)
(*                                                                         *)
(* Each extrinsic runs to completion on its own (one block executes its    *)
(* extrinsics one after the other), and a failing extrinsic leaves storage *)
(* untouched and emits nothing, so a failed call is a stuttering step: the *)
(* actions below are the successful calls, guarded by every check the code *)
(* makes before it writes.                                                 *)
(*                                                                         *)
(* Widths: block numbers are u64 and tally counters u32; the model keeps   *)
(* them as BlockBits- and CountBits-bit integers.  Wrapping says what an   *)
(* unchecked + does on overflow: TRUE for the release build of the runtime *)
(* (overflow-checks off: the sum wraps), FALSE for a build with overflow   *)
(* checks (the addition panics and the extrinsic has no effect).           *)
(*                                                                         *)
(* Two history variables, not storage of the pallet, record what the       *)
(* properties talk about: roundVoters[p], the voters whose vote was        *)
(* counted since p's period was last (re)started, and roundResults[p],     *)
(* the results VotingPeriodEnded reported for p since the last             *)
(* start_voting of p.                                                      *)
(***************************************************************************)
EXTENDS Naturals, FiniteSets

CONSTANTS
    Proposals,   \* proposal ids used by the callers
    Voters,      \* signed accounts
    Durations,   \* duration_blocks arguments of start_voting
    BlockBits,   \* width of the block-number arithmetic (u64)
    CountBits,   \* width of the tally counters (u32)
    MaxBlock,    \* last block the model lets the chain reach
    Wrapping     \* TRUE: unchecked + wraps; FALSE: it panics

BlockMod == 2 ^ BlockBits
CountMod == 2 ^ CountBits
BlockNum == 0 .. (BlockMod - 1)
Counter  == 0 .. (CountMod - 1)

(* The two moduli are stated positive as well: they are powers of two of *)
(* positive widths, a fact the provers have no theory of ^ to derive.     *)
ASSUME ConstantsAssumption ==
    /\ BlockBits \in Nat \ {0}
    /\ CountBits \in Nat \ {0}
    /\ BlockMod \in Nat \ {0}
    /\ CountMod \in Nat \ {0}
    /\ MaxBlock \in Nat \ {0}
    /\ MaxBlock < BlockMod
    /\ Durations \subseteq BlockNum
    /\ Wrapping \in BOOLEAN

VARIABLES
    now,            \* frame_system::Pallet::<T>::block_number()
    periodOpen,     \* keys of VotingPeriods
    VotingPeriods,  \* value stored under each key of VotingPeriods
    VoteCounts,
    ProposalVotes,
    roundVoters,    \* history: voters counted since the last start_voting
    roundResults    \* history: results emitted since the last start_voting

vars == <<now, periodOpen, VotingPeriods, VoteCounts, ProposalVotes,
          roundVoters, roundResults>>

Choices == {"Yes", "No", "Abstain"}
NoVote  == "None"
Results == {"Passed", "Failed", "NoQuorum"}
VoteCodes == 0 .. 3          \* the u8 argument: 0, 1, 2 decode, 3 does not

Period == [start_block : BlockNum, end_block : BlockNum]
Tally  == [yes_votes : Counter, no_votes : Counter, abstain_votes : Counter]
ZeroTally == [yes_votes |-> 0, no_votes |-> 0, abstain_votes |-> 0]

(* The match of cast_vote on the u8 vote code. *)
Decode(code) == IF code = 0 THEN "Yes" ELSE IF code = 1 THEN "No" ELSE "Abstain"
Decodes(code) == code \in 0 .. 2

(* The tally field the match in VoteCounts::mutate increments. *)
FieldMutant(c) == IF c = "Yes" THEN "yes_votes" ELSE "no_votes"
Field(c) == IF c = "Yes" THEN "yes_votes"
            ELSE IF c = "No" THEN "no_votes" ELSE "abstain_votes"

(* An unchecked a + b of a w-bit unsigned integer that did not panic.      *)
(* Overflows(a, b, m) says the sum does not fit modulus m.                 *)
Overflows(a, b, m) == a + b >= m
AddWrapMutant(a, b, m) == a + b
AddWrap(a, b, m) == (a + b) % m

(* cast_vote's check that the period is active (both ends inclusive). *)
InWindowMutant(period, n) == period.start_block <= n /\ n <= period.end_block + 1
InWindow(period, n) == period.start_block <= n /\ n <= period.end_block

(* end_voting's check that the period has ended. *)
ClosedEarly(period, n) == n >= period.end_block
ClosedLate(period, n) == n > period.end_block + 1
Closed(period, n) == n > period.end_block

(* The result end_voting computes from a tally (simple majority; abstain   *)
(* votes do not count towards the total, ties fail).                       *)
MajorityResult(t) ==
    LET total == AddWrap(t.yes_votes, t.no_votes, CountMod)
    IN  IF total = 0 THEN "NoQuorum"
        ELSE IF t.yes_votes > t.no_votes THEN "Passed"
        ELSE "Failed"

-----------------------------------------------------------------------------
Init ==
    /\ now = 1
    /\ periodOpen = {}
    /\ VotingPeriods = [p \in Proposals |-> [start_block |-> 0, end_block |-> 0]]
    /\ VoteCounts = [p \in Proposals |-> ZeroTally]
    /\ ProposalVotes = [p \in Proposals |-> [v \in Voters |-> NoVote]]
    /\ roundVoters = [p \in Proposals |-> {}]
    /\ roundResults = [p \in Proposals |-> {}]

(* Block production: the block number grows by one between extrinsics. *)
Tick ==
    /\ now < MaxBlock
    /\ now' = now + 1
    /\ UNCHANGED <<periodOpen, VotingPeriods, VoteCounts, ProposalVotes,
                   roundVoters, roundResults>>

(* start_voting(origin, proposal_id, duration_blocks): no check that the   *)
(* proposal exists or that a period is already running; the period is      *)
(* overwritten and the tally reset, ProposalVotes is left as it is.        *)
StartVoting(p, d) ==
    /\ Wrapping \/ ~Overflows(now, d, BlockMod)
    /\ periodOpen' = periodOpen \cup {p}
    /\ VotingPeriods' = [VotingPeriods EXCEPT ![p] =
                           [start_block |-> now,
                            end_block |-> AddWrap(now, d, BlockMod)]]
    /\ VoteCounts' = [VoteCounts EXCEPT ![p] = ZeroTally]
    /\ roundVoters' = [roundVoters EXCEPT ![p] = {}]
    /\ roundResults' = [roundResults EXCEPT ![p] = {}]
    /\ UNCHANGED <<now, ProposalVotes>>

(* cast_vote(origin, proposal_id, vote): decode, period must exist, block  *)
(* within [start_block, end_block], no earlier vote by this account on     *)
(* this proposal; then the vote is stored and one counter incremented.     *)
CastVote(p, v, code) ==
    LET c == Decode(code)
        f == Field(c)
    IN
    /\ Decodes(code)
    /\ p \in periodOpen
    /\ InWindow(VotingPeriods[p], now)
    /\ ProposalVotes[p][v] = NoVote
    /\ Wrapping \/ ~Overflows(VoteCounts[p][f], 1, CountMod)
    /\ ProposalVotes' = [ProposalVotes EXCEPT ![p][v] = c]
    /\ VoteCounts' = [VoteCounts EXCEPT ![p][f] = AddWrap(@, 1, CountMod)]
    /\ roundVoters' = [roundVoters EXCEPT ![p] = @ \cup {v}]
    /\ UNCHANGED <<now, periodOpen, VotingPeriods, roundResults>>

(* end_voting(origin, proposal_id): period must exist and the block be     *)
(* strictly after end_block; reads the tally and emits VotingPeriodEnded.  *)
(* Storage is not written: the only effect is the event.                   *)
EndVoting(p) ==
    LET t == VoteCounts[p]
        r == MajorityResult(t)
    IN
    /\ p \in periodOpen
    /\ Closed(VotingPeriods[p], now)
    /\ Wrapping \/ ~Overflows(t.yes_votes, t.no_votes, CountMod)
    /\ roundResults' = [roundResults EXCEPT ![p] = @ \cup {r}]
    /\ UNCHANGED <<now, periodOpen, VotingPeriods, VoteCounts, ProposalVotes,
                   roundVoters>>

Next ==
    \/ Tick
    \/ \E p \in Proposals, d \in Durations : StartVoting(p, d)
    \/ \E p \in Proposals, v \in Voters, code \in VoteCodes : CastVote(p, v, code)
    \/ \E p \in Proposals : EndVoting(p)

Spec == Init /\ [][Next]_vars

(* Block production is the one step the pallet relies on the chain for:  *)
(* blocks keep being produced whatever the extrinsics do.  No extrinsic   *)
(* is assumed ever to be submitted.                                       *)
Fairness == WF_vars(Tick)

LiveSpec == Spec /\ Fairness

-----------------------------------------------------------------------------
(* Types of the pallet's storage and of the history variables. *)
TypeOK ==
    /\ now \in 1 .. MaxBlock
    /\ periodOpen \subseteq Proposals
    /\ VotingPeriods \in [Proposals -> Period]
    /\ VoteCounts \in [Proposals -> Tally]
    /\ ProposalVotes \in [Proposals -> [Voters -> Choices \cup {NoVote}]]
    /\ roundVoters \in [Proposals -> SUBSET Voters]
    /\ roundResults \in [Proposals -> SUBSET Results]

(* The voters of p's current round holding choice c in ProposalVotes. *)
RoundBallots(p, c) == {v \in roundVoters[p] : ProposalVotes[p][v] = c}

(* The tally of every proposal counts exactly the votes stored in          *)
(* ProposalVotes since its last start_voting, each under the choice it was *)
(* stored with (modulo the counter width), and each such voter has a       *)
(* stored vote.  cast_vote's insert and mutate must agree, and             *)
(* start_voting's reset must discard exactly the earlier rounds.           *)
TallyMatchesLedger ==
    \A p \in Proposals :
        /\ \A v \in roundVoters[p] : ProposalVotes[p][v] # NoVote
        /\ \A c \in Choices :
              VoteCounts[p][Field(c)] = Cardinality(RoundBallots(p, c)) % CountMod

(* Once end_voting has reported a result for p's current period, the tally *)
(* is frozen: every later end_voting of the same period reports the same   *)
(* result, which is the one the stored tally gives now.  This rests on the *)
(* one-block gap between the last block cast_vote accepts (end_block) and  *)
(* the first block end_voting accepts (end_block + 1), and on the block    *)
(* number never going back.                                                *)
ResultFrozenInRound ==
    \A p \in Proposals :
        roundResults[p] # {} => roundResults[p] = {MajorityResult(VoteCounts[p])}

(* Every window that ends before the last block the model reaches becomes *)
(* resolvable: end_voting(p) can succeed at some later block, unless the   *)
(* window's end is moved by a re-open first.  Resolution needs only block  *)
(* production, not further extrinsics, and in a build with overflow checks *)
(* it needs yes + no to fit the counter width.                             *)
ResolutionReachable ==
    \A p \in Proposals, e \in 0 .. (MaxBlock - 1) :
        (p \in periodOpen /\ VotingPeriods[p].end_block = e)
            ~> (ENABLED EndVoting(p) \/ VotingPeriods[p].end_block # e)

-----------------------------------------------------------------------------
(* Refinement mapping onto the abstract round of VotingRound: the opened  *)
(* proposals are those with a stored period; the ballots of the current round   *)
(* are the stored votes of the voters counted since the last start_voting  *)
(* (the votes of earlier rounds stay in ProposalVotes but are not          *)
(* ballots of this round); the reported results are those of this round.  *)
AbstractWindow == [p \in periodOpen |-> VotingPeriods[p]]
AbstractBallots ==
    [p \in Proposals |-> [v \in Voters |->
        IF v \in roundVoters[p] THEN ProposalVotes[p][v] ELSE NoVote]]

VR == INSTANCE VotingRound WITH
        Blocks <- BlockNum, window <- AbstractWindow,
        ballots <- AbstractBallots, reported <- roundResults

(* The electorate fits the tally counters: no counter and no yes + no sum *)
(* can overflow.  True of the real widths (u32 counters).                 *)
VotersFit == IsFiniteSet(Voters) /\ Cardinality(Voters) < CountMod

(* The pallet implements the abstract round: every start_voting opens a   *)
(* round, every cast_vote is a ballot of an account not yet in the round  *)
(* cast inside the window, and every end_voting reports the majority of   *)
(* the round's ballots after the window, when the electorate fits the     *)
(* counters.                                                              *)
RefinesVotingRound == VR!Spec

-----------------------------------------------------------------------------
(* Statements of the specification that the code does not keep; each is   *)
(* checked by a run expected to find it violated.                          *)

(* The state the end_voting benchmark sets up (benchmarking.rs): a period  *)
(* started for p in the current block with duration_blocks = 0, and no    *)
(* vote cast in it.                                                       *)
BenchmarkEndVotingSetup(p) ==
    /\ p \in periodOpen
    /\ VotingPeriods[p].start_block = now
    /\ VotingPeriods[p].end_block = now
    /\ roundVoters[p] = {}

(* The end_voting benchmark's claim, "the voting period was set to end     *)
(* immediately, so end_voting should work": from that state, in the same  *)
(* block, end_voting(p) succeeds.                                         *)
EndVotingBenchmarkSucceeds ==
    \A p \in Proposals : BenchmarkEndVotingSetup(p) => ENABLED EndVoting(p)

(* Spec 4.1: end = start + durationInBlocks with an unsigned duration, so  *)
(* a stored voting period never ends before it starts.                     *)
WindowNotInverted ==
    \A p \in periodOpen :
        VotingPeriods[p].start_block <= VotingPeriods[p].end_block

(* The result end_voting reports is the simple majority of the votes       *)
(* actually cast in the round (spec 4.3 and 8), counted without a width.   *)
BallotResult(p) ==
    LET yes == Cardinality(RoundBallots(p, "Yes"))
        no  == Cardinality(RoundBallots(p, "No"))
    IN  IF yes + no = 0 THEN "NoQuorum"
        ELSE IF yes > no THEN "Passed" ELSE "Failed"

ResultMatchesBallots ==
    \A p \in Proposals : \A r \in roundResults[p] : r = BallotResult(p)

=============================================================================
