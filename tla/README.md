# Formal model of the govchain pallets

TLA+ modules, TLC configurations and TLAPS proofs for the four FRAME pallets under
`src/pallets/`. The community-voting pallet is the core of the system and was modelled
first. The other three pallets each have a module of their own (section 5).

## 1. Inventory

### Components

| Component | Source | State it keeps | Operations (extrinsics) |
|---|---|---|---|
| community-voting | `community-voting/src/lib.rs` | `VotingPeriods: u64 -> Option<{start_block, end_block}>`, `VoteCounts: u64 -> VoteTally{yes,no,abstain: u32}` (ValueQuery), `ProposalVotes: (u64, AccountId) -> Option<VoteChoice>` | `start_voting(id, duration)`, `cast_vote(id, code)`, `end_voting(id)` |
| budget-proposal | `budget-proposal/src/lib.rs` | `BudgetProposals: u64 -> ProposalDetails{creator, amount, purpose, status, created_at, updated_at}`, `NextProposalId: u64` | `create_proposal(amount, purpose)`, `approve_proposal(id)`, `reject_proposal(id, reason)` |
| government-wallet | `government-wallet/src/lib.rs` | `GovernmentWallets: AccountId -> WalletDetails`, `WalletBalances: AccountId -> u128` (ValueQuery) | `create_wallet(wallet, department)`, `allocate_funds(wallet, amount, purpose)` |
| audit-log | `audit-log/src/lib.rs` | `AuditLog: u64 -> AuditEntry`, `NextEntryId: u64` | `log_activity(type, details, proposal?, wallet?)`, `get_audit_entry(id)` (read only) |
| block clock | `frame_system` (not in this repository) | the block number | advanced by block production between extrinsics |
| tests, mocks, benchmarks | `*/tests.rs`, `*/mock.rs`, `*/benchmarking.rs` | none of the system's | drive the pallets; their assertions are used as statements of intent |

### How the parts interact

The pallets never call each other and share no storage. What they share is the block
number of `frame_system`, read by every extrinsic, and the account and proposal-id
types. In particular the proposal id of community-voting is not checked against
budget-proposal's `BudgetProposals` (a non-goal of the spec), and the outcome of a vote
has no effect on a budget proposal's status.

Every extrinsic requires a signed origin and runs to completion before the next one
starts (a block executes its extrinsics one after the other). A failing extrinsic
returns an error and FRAME discards its storage writes and events. A panic, such as an
arithmetic overflow in a build with overflow checks, makes the extrinsic invalid, so it
has no effect either. So in the model a failed call is a stuttering step. The actions are
the successful calls, each guarded by every check the code makes before it writes.

### What is hard

There are no threads, callbacks or messages. The difficulty is in **sequences of
calls by different accounts across blocks**, and in **integer widths**:

- `start_voting` has no existence check and no authorization beyond a signature. Any
  account can re-open a running or closed proposal id. This overwrites the period and
  resets the tally, but `ProposalVotes` keeps the old votes.
- The window bounds are asymmetric: a vote is accepted up to `end_block` inclusive,
  and `end_voting` needs a block strictly greater than `end_block`. The one-block gap
  is what keeps a reported result stable.
- `start_block + duration_blocks` (u64), `tally.x += 1` (u32) and
  `yes_votes + no_votes` (u32) are unchecked. They wrap in the release runtime and
  panic in a build with overflow checks.
- `allocate_funds` saturates at `u128::MAX` yet reports the full amount in its event.

### What makes each component correct

- community-voting: the tally counts exactly the votes of the current round; at most
  one vote per account and proposal id; a vote is accepted only inside the window; a
  reported result is the majority of the round's votes and never changes while the
  round stands; an overflow never silently changes the outcome.
- budget-proposal: ids are fresh and never reused; the status leaves Pending at most
  once and is never both Approved and Rejected; `updated_at` never precedes
  `created_at`.
- government-wallet: a balance exists only for a created wallet; a wallet is never
  created twice; a balance never decreases.
- audit-log: entries are append-only, ids are fresh, and timestamps are non-decreasing
  in id order.

`PROJECT.json` lists these components, the hazards of the code (each at its line, with
the properties that cover it), the runs, the mutants and the findings.

## 2. Plan

Modules, and their state:

1. **`CommunityVoting`** (done): the voting pallet and the block clock.
   `MC_CommunityVoting` instantiates it for TLC. `CommunityVoting_proofs` proves its
   types and `ResultFrozenInRound`. `CommunityVoting_refinement` proves the tally
   invariant and the refinement below.
2. **`VotingRound`** (done): the abstract round of spec 4.3, which `CommunityVoting`
   implements (section 3.1). The refinement is checked by TLC and proved in TLAPS.
3. **`BudgetProposal`**, **`GovernmentWallet`**, **`AuditLog`** (done, with
   `*_proofs` modules proving every property their runs check). `AuditLog` is also
   shown to implement the abstract **`ActivityJournal`**, whose own theorem is
   proved in `ActivityJournal_proofs`.
4. **`Governance`** (not started): a composition of the pallets over one shared clock
   and set of accounts. The pallets do not read each other's storage (section 6), so
   it would only state a non-goal of the spec: that a budget proposal can be approved
   whatever the vote on its id said.

## 3. The model of community-voting (`CommunityVoting.tla`)

| Model | Code |
|---|---|
| `now` | `frame_system::Pallet::<T>::block_number()` |
| `periodOpen`, `VotingPeriods` | keys and values of `VotingPeriods` (an `Option` map) |
| `VoteCounts` | `VoteCounts` (ValueQuery: zero tally when absent) |
| `ProposalVotes` | `ProposalVotes` (`NoVote` for an absent key) |
| `Tick` | block production between extrinsics |
| `StartVoting(p, d)` | `start_voting` (lines 135-163) |
| `CastVote(p, v, code)` | `cast_vote` (lines 175-231): decode, period exists, `InWindow`, not voted, insert and increment |
| `EndVoting(p)` | `end_voting` (lines 242-282): period exists, `Closed`, `MajorityResult` |
| `AddWrap`, `Overflows`, `Wrapping` | unchecked `+`: wraps in the release build (`Wrapping = TRUE`); with overflow checks the call panics and has no effect |

The widths are parameters. Block numbers are `BlockBits` wide (u64 in the code), and
tally counters and their sum are `CountBits` wide (u32). The `try_into::<u64>()` of the
block number cannot fail for the u32/u64 block numbers FRAME uses, so its error path is
not modelled. The events are not stored. Two history variables record what the
properties need: `roundVoters[p]` is the set of accounts whose vote was counted since
p's last `start_voting`, and `roundResults[p]` the results `VotingPeriodEnded`
reported for p since then.

### Properties

- `TypeOK`: the storage maps are well typed, within their widths.
- `TallyMatchesLedger`: each counter of p equals, modulo the counter width, the number
  of the current round's voters stored with that choice. Every counted voter has a
  stored vote. This is what `cast_vote`'s insert and mutate, and `start_voting`'s reset,
  must keep together across re-opens.
- `ResultFrozenInRound`: once `end_voting` reported a result for the current period,
  the tally still gives that result. So all reports of one period agree. It depends on
  the one-block gap between the two window checks and on the clock never going back.

Statements about the code that the code breaks (each checked by a violation run):

- `WindowNotInverted` (spec 4.1, end = start + duration).
- `ResultMatchesBallots` (spec 4.3/8, the result is the majority of the votes cast).
- `EndVotingBenchmarkSucceeds`, the claim of the `end_voting` benchmark
  (`benchmarking.rs` 64-87). `BenchmarkEndVotingSetup(p)` is the state it sets up:
  a period opened for p in the current block with duration 0, with no votes. The
  benchmark then calls `end_voting(p)` in the same block and says it "should work".
  `end_voting` needs `now > end_block` (lines 257-260, spec 4.3), so it fails there.

Re-opening a resolved id and then reporting a different result is not a violation:
spec 4.3 promises the same outcome only while the tally is unchanged, and 4.1 says a
re-open discards the tally. That an account that voted before a re-open stays barred
is documented behaviour as well (spec 3 and 8 key uniqueness on (proposal id,
voter)). What a re-open must not do is let the old records leak into the new round;
`TallyMatchesLedger` and the refinement below check that.

Liveness (section 3.2):

- `ResolutionReachable`: a window that ends before the last modelled block becomes
  resolvable (`ENABLED EndVoting(p)`) unless a re-open moves its end first.

### Runs

| Run | cfg | Expect | What it shows |
|---|---|---|---|
| `voting_safety` | `MC_CommunityVoting.cfg` | pass | 2 proposal ids, 2 accounts, blocks 1..3 at 3-bit width, durations {0, 1, 7}, 2-bit counters, release build. It covers re-opens of running and closed periods, zero-length windows, and the wrapped window 7 (end below start). All three properties hold (564,650 distinct states, about a minute). |
| `voting_window_wrap` | `MC_CommunityVoting_wrap.cfg` | violation | `start_voting(p, 7)` at block 1 stores the period [1, 0]. |
| `voting_tally_overflow` | `MC_CommunityVoting_overflow.cfg` | violation | four Yes votes wrap a 2-bit counter to 0, and end_voting reports NoQuorum. With the real width this takes 2^32 votes. |
| `voting_benchmark_end` | `MC_CommunityVoting_benchmark.cfg` | violation | `start_voting(p1, 0)` at block 2 stores the period [2, 2]; `end_voting(p1)` is not enabled in that block. |
| `voting_refinement` | `MC_CommunityVoting_refinement.cfg` | pass | 1 proposal id, 3 symmetric accounts, blocks 1..5 at 3 bits, durations {0, 1, 2, 7}, 2-bit counters (3 voters < 4), release build. `RefinesVotingRound` holds (15,856 distinct states). |
| `voting_liveness` | `MC_CommunityVoting_live.cfg` | pass | `LiveSpec`; 1 proposal id, 2 accounts, blocks 1..4, durations {0, 1, 2, 7}, build with overflow checks. `ResolutionReachable` holds (3,762 distinct states). |
| `voting_resolution_stuck` | `MC_CommunityVoting_stuck.cfg` | violation | `LiveSpec`; 4 accounts, 2-bit counters, overflow checks: two Yes and two No make yes + no = 4, so every later `end_voting` panics and the window is never resolvable. |

Why the bounds are enough for `voting_safety`: proposal ids are independent in the code,
so two ids show that they stay independent. Two accounts give ties, majorities,
double votes and lockouts. Blocks 1..3 with durations 0 and 1 place a vote at the first
block, the last block, and after the end of a window, and a resolution in the block
right after it. Duration 7 wraps at 3 bits. Counters are wider than the number of
accounts in this run, as in reality (fewer than 2^32 accounts vote on one proposal).
The overflow has its own run. Proposal ids and accounts are symmetric model values: the
pallet only compares them for equality.

`CHECK_DEADLOCK` is left on: `start_voting` is always enabled.

The refinement run uses one proposal id because ids are independent (the safety run
shows that) and three voters because majority with abstentions needs three to reach
every tally shape; blocks 1..5 let a window of duration 2 open, take votes and close.

### 3.1 Refinement of `VotingRound`

`VotingRound.tla` says what a proposal id's life promises (spec 4.3) without storage or
widths: `window` maps the opened ids to their window, `ballots[p][v]` is v's choice in
p's current round or `NoVote`, and `reported[p]` the results reported in this round.
`Open(p, e)` (re)opens a round at the current block with any end `e`; `Vote` needs the
window to contain `now` and no ballot of v in this round; `Resolve` needs `now > end`
and reports `Outcome`, the majority of Yes over No counted as sets of voters.

The mapping (in `CommunityVoting.tla`): `window` is `VotingPeriods` restricted to
`periodOpen`; `ballots[p][v]` is `ProposalVotes[p][v]` for v in `roundVoters[p]` and
`NoVote` otherwise (records of earlier rounds are not ballots of this round);
`reported` is `roundResults`. `start_voting` is `Open` with the (possibly wrapped) end;
`cast_vote` is `Vote` (its guard is stricter than the abstract one: an account with a
record of an earlier round is refused);
`end_voting` is `Resolve`; `Tick` is `Advance`. `RefinesVotingRound == VR!Spec`.

The refinement needs `VotersFit`: fewer voters than the counter range. Otherwise a
counter or `yes + no` wraps and `end_voting` reports a result that is not `Outcome`
(the `voting_tally_overflow` run). With u32 counters this holds of any real electorate.

### 3.2 Fairness and liveness

`LiveSpec == Spec /\ WF_vars(Tick)`. Block production is the one thing the chain
guarantees whatever users do; no extrinsic is assumed to be submitted, so no
fairness is put on `start_voting`, `cast_vote` or `end_voting`. `ResolutionReachable`
then says that the pallet itself never blocks resolution: once the clock passes a
window's end, `end_voting` is enabled. It holds in the release build and in a build
with overflow checks as long as `yes + no` fits; the `voting_resolution_stuck` run shows
a round that can never be resolved when it does not.

## 4. What is proved

All theorems of the voting pallet are under `ConstantsAssumption`: positive widths,
positive moduli (stated explicitly because the provers have no theory of `^`),
`0 < MaxBlock < 2^BlockBits`, and durations within the width.

`CommunityVoting_proofs.tla`:

- `TypeCorrect: Spec => []TypeOK`. This uses the lemmas `TypeInit` and `TypeStep`, one
  step per action, and `AddWrapType`: a wrapped sum stays below its modulus.
- `ResultFrozen: Spec => []ResultFrozenInRound`. `ResultFrozenInRound` is not inductive
  alone. The strengthening `FrozenInv` adds that a round with a reported result has its
  period stored and already closed (`now > end_block`). Given that, `cast_vote`'s window
  check contradicts the round having a result, so no vote changes its tally. `Tick`
  keeps the period closed. `start_voting` empties the round's results, and `end_voting`
  adds the result of the unchanged tally. TLC checked `TypeOK /\ FrozenInv` as an
  invariant of the `voting_safety` instance before it was proved.

`CommunityVoting_refinement.tla`:

- `LedgerInvariant: IsFiniteSet(Voters) => (Spec => []TallyMatchesLedger)`. The
  invariant is inductive together with `TypeOK`; the step is proved per proposal
  (`LedgerAt(p)`). The `cast_vote` case adds one voter to `RoundBallots(p, c)`
  (`FS_AddElement`) and one to the counter modulo its width (`ModSucc`, from the
  arithmetic lemma `ModUnique`); `start_voting` empties both.
- `Refinement: VotersFit => (Spec => RefinesVotingRound)`. Under `VotersFit` every
  counter is exact (`CountsExact`: the cardinality is below the modulus, so `% CountMod`
  is the identity, and so is the wrapped `yes + no`), which gives `OutcomeAgrees`: the
  pallet's `MajorityResult` equals `Outcome` of the mapped ballots. `RefinementInit` and
  `RefinementStep` (one case per action) then combine by PTL with `TypeCorrect` and
  `LedgerInvariant`.
- `ResultsAreMajorities: VotersFit => (Spec => []ResultMatchesBallots)`. Every result
  reported in the current round is the uncapped majority of its ballots. It needs no
  new induction: `ResultFrozenInRound` makes each reported result the `MajorityResult`
  of the stored tally, `OutcomeAgrees` makes that the abstract `Outcome`, and
  `BallotResultIsOutcome` shows that `Outcome` counts the same voter sets as
  `BallotResult`. The `voting_tally_overflow` run is the other half: without
  `VotersFit` the property fails. So counter overflow is the only thing that breaks it.
- `WindowsOrdered: (~Wrapping \/ NoBlockWrap) => (Spec => []WindowNotInverted)`, where
  `NoBlockWrap` says that `MaxBlock + d < 2^BlockBits` for every duration.
  `WindowNotInverted` is inductive with `TypeOK`: `start_voting`'s sum either panics
  (checked build) or does not reach the modulus (`AddWrapExact`). TLC also checked it
  on the checked-build instance of `voting_liveness`. `voting_window_wrap` shows the
  release-build wrap that breaks it.

The smaller pallets (`*_proofs.tla`), for every bound allowed by their assumptions:

- `IdsAreSequential` and `DecidedProposalsAreFinal` (budget): inductive
  `TypeOK /\ IdsSequential`; a create writes the fresh id `NextProposalId`, so it never
  touches a decided proposal.
- `BalanceCapped` and `BalanceMonotone` (wallet): inductive
  `TypeOK /\ BalanceIsCappedTotal`, with the lemma that saturating a capped total caps
  the sum; `create_wallet` only zeroes an id that is not a wallet, whose balance is 0.
- `LogIsAppendOnly` (audit log): inductive `TypeOK /\ EntryIdsSequential`.
- `TypeCorrect` of each of the three pallets, from the same inductive invariants.
- `JournalRefinement: Spec => RefinesActivityJournal` (audit log). `JournalAppend`
  shows that a successful `log_activity` appends its record to the mapped journal. The
  entry goes to id `NextEntryId = Len(Journal)`, and `AppendProperties` of
  `SequenceTheorems` gives the shape of `Append`. The other steps leave the journal
  unchanged, or are `Advance`.
- `JournalChronological: Spec => []Chronological` (`ActivityJournal_proofs.tla`), on the
  abstract journal: `Advance` only raises the clock, and `Log` stamps with the current
  block, no earlier than any stamp before it.
  With `JournalRefinement` it says that the audit entries, in id order, carry
  non-decreasing block stamps.

Every invariant and action property of a passing run is stated by a theorem.
Only model-checked: `ResolutionReachable` and the violation runs. `EndVotingBenchmarkSucceeds`
is false of the code. `ResultMatchesBallots` and
`WindowNotInverted` are proved only under the no-overflow hypotheses above. Out of TLAPS's reach
and left to TLC: liveness under fairness and anything about `ENABLED`, and induction
over data.

## 5. The smaller pallets

Each module keeps the pallet's storage as variables: the set of keys of an `Option` map
plus its values, and the `ValueQuery` counters. A byte vector that the code only
length-checks is its length, drawn from a small set that holds an empty, a valid and a
too-long value. Every module has the block clock `Tick` and, as an action, the early
return of a length check (`CreateProposalRejected`, `CreateWalletRejected`,
`LogActivityRejected`). These are real calls that fail and change nothing. They keep
the model from deadlocking at its bounds, as the chain never stops accepting calls.

### `BudgetProposal.tla`

| Model | Code (`budget-proposal/src/lib.rs`) |
|---|---|
| `proposalIds`, `BudgetProposals`, `NextProposalId` | storage, lines 57-68 |
| `CreateProposal(a, len)` | `create_proposal` (115-170): purpose checks, id = `NextProposalId`, `put(id + 1)`, insert Pending |
| `ApproveProposal(a, id)`, `RejectProposal(a, id, len)` via `Decide` | `approve_proposal` (172-215), `reject_proposal` (217-271): the reason is checked first, then existence and `Pending` |

Properties: `IdsSequential` says the stored ids are exactly `0 .. NextProposalId - 1`,
so create never overwrites a proposal. `DecidedIsFinal` is an action property: an
Approved or Rejected proposal is never changed or removed by any later call of any
account. The amount is left out because no check reads it.

### `GovernmentWallet.tla`

| Model | Code (`government-wallet/src/lib.rs`) |
|---|---|
| `walletIds`, `GovernmentWallets`, `WalletBalances` | storage, lines 47-64 |
| `CreateWallet(a, w, len)` | `create_wallet` (98-146): department checks, not yet a wallet, details and zero balance |
| `AllocateFunds(a, w, amt)` | `allocate_funds` (158-184): the wallet exists, `saturating_add` |
| `SaturatingAdd`, `BalanceBits` | `u128::saturating_add` at a parameter width |

`allocated[w]` is a history variable: the sum of the amounts that `FundsAllocated`
reported for `w`. `BalanceNeverDecreases` is an action property. `BalanceIsCappedTotal`
says the balance is the reported total capped at the maximum. `EventsMatchBalance` is
the uncapped equality. Its violation run shows an allocation that crosses the ceiling.
It succeeds and is announced with its full amount, but it is credited only up to the
maximum: partly, or not at all when the balance is already at the maximum.

### `AuditLog.tla`

| Model | Code (`audit-log/src/lib.rs`) |
|---|---|
| `entryIds`, `AuditLog`, `NextEntryId` | storage, lines 42-53 |
| `LogActivity(a, tlen, dlen, rel)` | `log_activity` (95-148): length checks, id = `NextEntryId`, `put(id + 1)`, insert |
| `GetAuditEntry(a, id)` | `get_audit_entry` (155-169): read only |

`AppendOnly` is an action property: no call changes or removes a stored entry.

`ActivityJournal.tla` is what the audit log promises: an append-only sequence of
records, each stamped with the block it was logged in. `Journal` maps the pallet onto
it: entry `i - 1` is at position `i`, up to `NextEntryId`. `RefinesActivityJournal`
says the pallet implements it.

### Runs

| Run | cfg | Expect | Bounds and what it shows |
|---|---|---|---|
| `budget_safety` | `MC_BudgetProposal.cfg` | pass | 2 symmetric accounts, 3 proposals, blocks 1..3, purpose lengths {0, 1, 200, 201}, reason lengths {0, 100, 101}. Approve and reject race on each proposal. Both properties hold (7,049 distinct states). |
| `wallet_safety` | `MC_GovernmentWallet.cfg` | pass | 2 accounts, 2-bit balances, amounts {0, 1, 3}, 3 allocations. This reaches the ceiling (3 + 1) and re-creation attempts on existing wallets. Both properties hold (680 distinct states). |
| `wallet_ceiling` | `MC_GovernmentWallet_ceiling.cfg` | violation | two allocations whose sum passes the 2-bit maximum 3 (e.g. 3 then 1, or 1 then 3): the balance stops at 3 while the events total 4. |
| `audit_safety` | `MC_AuditLog.cfg` | pass | 2 accounts, 3 entries, activity-type lengths {0, 50, 51} and detail lengths {0, 500, 501}. `AppendOnly` and `RefinesActivityJournal` hold (575 distinct states). |

The length sets hold the boundary values of each check, so an off-by-one in a check
would be seen. The widths are small so that the ceiling is reached in a few calls: the
code's behaviour at `u128::MAX` is the same at any width.

## 6. Not modelled


The contents of byte vectors (purpose, reason, department, details) are data the code
only length-checks, and they are modelled by their lengths. The budget amount and the
related wallet id of an audit entry are stored and never read, so they are left out.
`NextProposalId + 1` and `NextEntryId + 1` are unchecked u64 sums, but reaching 2^64
calls is not possible, so their overflow is not modelled. Weights and
benchmarks (`benchmarking.rs`) are not behaviour: each benchmark calls one extrinsic
once on a fresh mock state to measure its weight, and adds no operation or state; the
extrinsics it calls are modelled. The one benchmark whose setup disagrees with the
extrinsic it measures (`end_voting`) is modelled as a violation run. Tests and mocks are likewise drivers, read as
statements of intended behaviour. The pallets share accounts and the clock but none
reads another's storage, so there is no cross-pallet interaction to compose beyond the
shared `now`. Authentication (`ensure_signed`) fails only for an
unsigned origin, with no effect, so every modelled caller is a signed account.
