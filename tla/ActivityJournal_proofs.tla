------------------------ MODULE ActivityJournal_proofs ------------------------
(***************************************************************************)
(* Proofs about the abstract journal, for every set of accounts and every  *)
(* bound on the clock.                                                     *)
(***************************************************************************)
EXTENDS ActivityJournal, TLAPS

(* The clock is a natural number and the journal a sequence of records. *)
JournalTypeOK ==
    /\ now \in Nat
    /\ journal \in Seq(Record)

JInv == JournalTypeOK /\ Chronological

(* The empty journal at block 1. *)
LEMMA JInvInit == Init => JInv
  BY DEF Init, JInv, JournalTypeOK, Chronological

(* Every record of a typed journal carries a natural-number stamp. *)
LEMMA StampsNat ==
    ASSUME JournalTypeOK
    PROVE  \A i \in 1 .. Len(journal) : journal[i].timestamp \in Nat
<1>1. \A i \in 1 .. Len(journal) : journal[i] \in Record
  BY DEF JournalTypeOK
<1>2. QED
  BY <1>1 DEF Record

(* Advancing the clock keeps every stamp at or below it; a new record is  *)
(* stamped with the current block, no earlier than any record before it. *)
LEMMA JInvStep == JInv /\ [Next]_vars => JInv'
<1> SUFFICES ASSUME JInv, [Next]_vars PROVE JInv'
  OBVIOUS
<1>1. CASE Advance
  <2>1. now' = now + 1 /\ journal' = journal
    BY <1>1 DEF Advance
  <2>2. \A i \in 1 .. Len(journal) : journal[i].timestamp \in Nat
    BY StampsNat DEF JInv
  <2>3. QED
    BY <2>1, <2>2 DEF JInv, JournalTypeOK, Chronological
<1>2. ASSUME NEW a \in Accounts, NEW rel \in RelatedIds \cup {"none"}, Log(a, rel)
      PROVE  JInv'
  <2> DEFINE r == [actor |-> a, timestamp |-> now, related_proposal_id |-> rel]
  <2>1. r \in Record
    BY DEF JInv, JournalTypeOK, Record
  <2>2. journal' = Append(journal, r) /\ now' = now
    BY <1>2 DEF Log
  <2>3. JournalTypeOK'
    BY <2>1, <2>2 DEF JInv, JournalTypeOK
  <2>4. /\ Len(journal') = Len(journal) + 1
        /\ \A i \in 1 .. Len(journal) : journal'[i] = journal[i]
        /\ journal'[Len(journal) + 1] = r
    BY <2>1, <2>2 DEF JInv, JournalTypeOK
  <2>5. \A i \in 1 .. Len(journal) : journal[i].timestamp <= now
    BY DEF JInv, Chronological
  <2>6. \A i \in 1 .. Len(journal) : journal[i].timestamp \in Nat
    BY StampsNat DEF JInv
  <2>7. Len(journal) \in Nat /\ now \in Nat
    BY DEF JInv, JournalTypeOK
  <2>8. \A i \in 1 .. Len(journal') : journal'[i].timestamp <= now'
    BY <2>2, <2>4, <2>5, <2>7
  <2>9. \A i, j \in 1 .. Len(journal') :
            i < j => journal'[i].timestamp <= journal'[j].timestamp
    <3> SUFFICES ASSUME NEW i \in 1 .. Len(journal'), NEW j \in 1 .. Len(journal'), i < j
                 PROVE  journal'[i].timestamp <= journal'[j].timestamp
      OBVIOUS
    <3>1. i \in 1 .. Len(journal)
      BY <2>4, <2>7
    <3>2. CASE j = Len(journal) + 1
      BY <3>1, <3>2, <2>4, <2>5
    <3>3. CASE j # Len(journal) + 1
      <4>1. j \in 1 .. Len(journal)
        BY <3>3, <2>4, <2>7
      <4>2. QED
        BY <3>1, <4>1, <2>4 DEF JInv, Chronological
    <3>4. QED
      BY <3>2, <3>3
  <2>10. Chronological'
    BY <2>8, <2>9 DEF Chronological
  <2>11. QED
    BY <2>3, <2>10 DEF JInv
<1>3. CASE UNCHANGED vars
  BY <1>3 DEF vars, JInv, JournalTypeOK, Chronological
<1>4. QED
  BY <1>1, <1>2, <1>3 DEF Next

(* The journal is always in chronological order (Chronological): records  *)
(* appear in the order of the blocks they were logged in.                 *)
THEOREM JournalChronological == Spec => []Chronological
  BY JInvInit, JInvStep, PTL DEF Spec, JInv

=============================================================================
