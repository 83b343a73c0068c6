----------------------------- MODULE VotingRound -----------------------------
(***************************************************************************)
(* What the voting component promises for each proposal id, without its   *)
(* storage layout or integer widths: the life of spec 4.3, Unopened ->     *)
(* Open -> Resolvable, where a round is opened (again) at any time, takes  *)
(* at most one ballot per account while the block number is inside its     *)
(* window, and reports the simple majority of its ballots, counted as      *)
(* sets, once the block number has passed the window's end.                *)
(*                                                                         *)
(* How the end of a window is computed (and what happens on overflow) is   *)
(* left open by the spec, so Open takes any end block.                     *)
(***************************************************************************)
EXTENDS Naturals, FiniteSets

CONSTANTS
    Proposals,  \* proposal ids
    Voters,     \* accounts
    Blocks,     \* block numbers a window may start or end at
    MaxBlock    \* last block the clock reaches

VARIABLES
    now,        \* the external logical clock
    window,     \* the opened proposal ids -> the current window of each
    ballots,    \* p -> v -> v's choice in p's current round, or NoVote
    reported    \* p -> results reported since p's current round was opened

vars == <<now, window, ballots, reported>>

Choices  == {"Yes", "No", "Abstain"}
NoVote   == "None"
Results  == {"Passed", "Failed", "NoQuorum"}
NoBallots == [v \in Voters |-> NoVote]

(* The outcome of a round's ballots: simple majority of Yes over No,       *)
(* abstentions left out of the quorum, ties fail.                          *)
Outcome(b) ==
    LET yes == Cardinality({v \in Voters : b[v] = "Yes"})
        no  == Cardinality({v \in Voters : b[v] = "No"})
    IN  IF yes + no = 0 THEN "NoQuorum"
        ELSE IF yes > no THEN "Passed" ELSE "Failed"

Init ==
    /\ now = 1
    /\ window = [p \in {} |-> 0]
    /\ ballots = [p \in Proposals |-> NoBallots]
    /\ reported = [p \in Proposals |-> {}]

Advance ==
    /\ now < MaxBlock
    /\ now' = now + 1
    /\ UNCHANGED <<window, ballots, reported>>

(* (Re)opening p starts a fresh round at the current block. *)
Open(p, e) ==
    /\ window' = [q \in DOMAIN window \cup {p} |->
                    IF q = p THEN [start_block |-> now, end_block |-> e]
                    ELSE window[q]]
    /\ ballots' = [ballots EXCEPT ![p] = NoBallots]
    /\ reported' = [reported EXCEPT ![p] = {}]
    /\ UNCHANGED now

Vote(p, v, c) ==
    /\ p \in DOMAIN window
    /\ window[p].start_block <= now /\ now <= window[p].end_block
    /\ ballots[p][v] = NoVote
    /\ ballots' = [ballots EXCEPT ![p][v] = c]
    /\ UNCHANGED <<now, window, reported>>

Resolve(p) ==
    /\ p \in DOMAIN window
    /\ now > window[p].end_block
    /\ reported' = [reported EXCEPT ![p] = @ \cup {Outcome(ballots[p])}]
    /\ UNCHANGED <<now, window, ballots>>

Next ==
    \/ Advance
    \/ \E p \in Proposals, e \in Blocks : Open(p, e)
    \/ \E p \in Proposals, v \in Voters, c \in Choices : Vote(p, v, c)
    \/ \E p \in Proposals : Resolve(p)

Spec == Init /\ [][Next]_vars

=============================================================================
