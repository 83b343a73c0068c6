--------------------------- MODULE ActivityJournal ---------------------------
(***************************************************************************)
(* What the audit log promises, without its storage layout: an append-only *)
(* journal, a sequence of activity records in the order they were logged,  *)
(* each stamped with the block in which it was logged.  Records are never  *)
(* changed or removed; a new one is only ever added at the end.            *)
(***************************************************************************)
EXTENDS Naturals, Sequences

CONSTANTS
    Accounts,     \* accounts that may log an activity
    RelatedIds,   \* related proposal ids other than none
    MaxBlock      \* last block the clock reaches

VARIABLES
    now,          \* the external logical clock
    journal       \* the records logged so far, oldest first

vars == <<now, journal>>

Record == [actor : Accounts, timestamp : Nat,
           related_proposal_id : RelatedIds \cup {"none"}]

Init ==
    /\ now = 1
    /\ journal = << >>

Advance ==
    /\ now < MaxBlock
    /\ now' = now + 1
    /\ UNCHANGED journal

(* Account a logs an activity, related to rel or to no proposal. *)
Log(a, rel) ==
    /\ journal' = Append(journal,
                    [actor |-> a, timestamp |-> now, related_proposal_id |-> rel])
    /\ UNCHANGED now

Next ==
    \/ Advance
    \/ \E a \in Accounts, rel \in RelatedIds \cup {"none"} : Log(a, rel)

Spec == Init /\ [][Next]_vars

-----------------------------------------------------------------------------
(* The journal is in chronological order: every record is stamped with a  *)
(* block no later than the records after it, and no later than now.       *)
Chronological ==
    /\ \A i \in 1 .. Len(journal) : journal[i].timestamp <= now
    /\ \A i, j \in 1 .. Len(journal) :
          i < j => journal[i].timestamp <= journal[j].timestamp

=============================================================================
