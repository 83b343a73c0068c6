---------------------------- MODULE AuditLog_proofs ----------------------------
(***************************************************************************)
(* Proofs about the audit-log model for every value of the constants      *)
(* allowed by AuditAssumption.                                             *)
(***************************************************************************)
EXTENDS AuditLog, SequenceTheorems, TLAPS

(* The stored entries are exactly those below NextEntryId: the fact that  *)
(* makes log_activity's write go to an unused id.                          *)
EntryIdsSequential == entryIds = 0 .. (NextEntryId - 1)

Inv == TypeOK /\ EntryIdsSequential

(* Genesis: an empty log and NextEntryId = 0. *)
LEMMA InvInit == Init => Inv
  BY AuditAssumption DEF Init, Inv, TypeOK, EntryIdsSequential, EntryIds, Entry

(* log_activity stores under NextEntryId and moves it on by one; nothing  *)
(* else writes the log.                                                    *)
LEMMA InvStep == Inv /\ [Next]_vars => Inv'
<1> SUFFICES ASSUME Inv, [Next]_vars PROVE Inv'
  OBVIOUS
<1>1. CASE Tick
  BY <1>1, AuditAssumption DEF Tick, Inv, TypeOK, EntryIdsSequential
<1>2. ASSUME NEW a \in Accounts, NEW t \in TypeLens, NEW d \in DetailLens,
             NEW rel \in RelatedIds \cup {"none"}, LogActivity(a, t, d, rel)
      PROVE  Inv'
  <2>1. NextEntryId \in 0 .. MaxEntries - 1
    BY <1>2, AuditAssumption DEF LogActivity, Inv, TypeOK
  <2>2. TypeOK'
    BY <1>2, <2>1, AuditAssumption DEF LogActivity, NextEntry, Inv, TypeOK, EntryIds, Entry
  <2>3. EntryIdsSequential'
    BY <1>2, <2>1 DEF LogActivity, NextEntry, Inv, EntryIdsSequential
  <2>4. QED
    BY <2>2, <2>3 DEF Inv
<1>3. CASE UNCHANGED vars
  BY <1>3 DEF vars, Inv, TypeOK, EntryIdsSequential
<1>4. QED
  BY <1>1, <1>2, <1>3 DEF Next, LogActivityRejected, GetAuditEntry

(* No step changes or removes a stored entry. *)
LEMMA AppendStep ==
    ASSUME Inv, [Next]_vars, NEW i \in entryIds
    PROVE  i \in entryIds' /\ AuditLog'[i] = AuditLog[i]
<1>1. CASE Tick
  BY <1>1 DEF Tick
<1>2. ASSUME NEW a \in Accounts, NEW t \in TypeLens, NEW d \in DetailLens,
             NEW rel \in RelatedIds \cup {"none"}, LogActivity(a, t, d, rel)
      PROVE  i \in entryIds' /\ AuditLog'[i] = AuditLog[i]
  <2>1. i # NextEntryId
    BY DEF Inv, EntryIdsSequential, TypeOK
  <2>2. QED
    BY <1>2, <2>1 DEF LogActivity, Inv, TypeOK
<1>3. CASE UNCHANGED vars
  BY <1>3 DEF vars
<1>4. QED
  BY <1>1, <1>2, <1>3 DEF Next, LogActivityRejected, GetAuditEntry

(* The audit log is append-only (AppendOnly): no call of any account ever *)
(* changes or removes an entry, whatever the number of entries.           *)
THEOREM LogIsAppendOnly == Spec => AppendOnly
<1>1. Inv /\ [Next]_vars =>
        [\A i \in entryIds : i \in entryIds' /\ AuditLog'[i] = AuditLog[i]]_vars
  BY AppendStep
<1>2. QED
  BY <1>1, InvInit, InvStep, PTL DEF Spec, AppendOnly

(* The storage keeps its types (TypeOK): entry ids and entries, for every  *)
(* value of the constants.                                                  *)
THEOREM TypeCorrect == Spec => []TypeOK
  BY InvInit, InvStep, PTL DEF Spec, Inv

-----------------------------------------------------------------------------
(* The journal of the empty log is the empty sequence. *)
LEMMA RefinementInit == Init => AJ!Init
<1> SUFFICES ASSUME Init PROVE AJ!Init
  OBVIOUS
<1>1. Journal = << >>
  BY DEF Init, Journal
<1>2. QED
  BY <1>1 DEF Init, AJ!Init

(* A successful log_activity appends its entry to the journal: the entry  *)
(* goes to id NextEntryId, one past the ids the journal lists.            *)
LEMMA JournalAppend ==
    ASSUME Inv, NEW a \in Accounts, NEW t \in TypeLens, NEW d \in DetailLens,
           NEW rel \in RelatedIds \cup {"none"}, LogActivity(a, t, d, rel)
    PROVE  Journal' = Append(Journal,
                        [actor |-> a, timestamp |-> now, related_proposal_id |-> rel])
<1> DEFINE n == NextEntryId
           e == [actor |-> a, timestamp |-> now, related_proposal_id |-> rel]
<1>1. n \in 0 .. MaxEntries - 1 /\ NextEntryId' = n + 1
  BY AuditAssumption DEF LogActivity, NextEntry, Inv, TypeOK
<1>2. AuditLog' = [AuditLog EXCEPT ![n] = e] /\ AuditLog \in [EntryIds -> Entry]
  BY DEF LogActivity, Inv, TypeOK
<1>3. Journal' = [i \in 1 .. n + 1 |-> IF i = n + 1 THEN e ELSE AuditLog[i - 1]]
  BY <1>1, <1>2, AuditAssumption DEF Journal, EntryIds
<1>4. Journal \in Seq(Entry) /\ Len(Journal) = n
  BY <1>1, <1>2, AuditAssumption DEF Journal, EntryIds
<1>5. e \in Entry
  BY DEF Inv, TypeOK, Entry
<1>6. /\ Append(Journal, e) \in Seq(Entry)
      /\ Len(Append(Journal, e)) = n + 1
      /\ \A i \in 1 .. n : Append(Journal, e)[i] = Journal[i]
      /\ Append(Journal, e)[n + 1] = e
  BY <1>4, <1>5, AppendProperties
<1>7. DOMAIN Append(Journal, e) = 1 .. n + 1
  BY <1>1, <1>6
<1>8. \A i \in 1 .. n : Journal[i] = AuditLog[i - 1]
  BY DEF Journal
<1>9. QED
  BY <1>1, <1>3, <1>6, <1>7, <1>8

(* Every step of the pallet is a step of the journal or leaves it and the *)
(* clock unchanged.                                                      *)
LEMMA RefinementStep == Inv /\ [Next]_vars => [AJ!Next]_AJ!vars
<1> SUFFICES ASSUME Inv, [Next]_vars PROVE [AJ!Next]_AJ!vars
  OBVIOUS
<1>1. CASE Tick
  BY <1>1 DEF Tick, AJ!Next, AJ!Advance, Journal
<1>2. ASSUME NEW a \in Accounts, NEW t \in TypeLens, NEW d \in DetailLens,
             NEW rel \in RelatedIds \cup {"none"}, LogActivity(a, t, d, rel)
      PROVE  [AJ!Next]_AJ!vars
  <2>1. AJ!Log(a, rel)
    BY <1>2, JournalAppend DEF LogActivity, AJ!Log
  <2>2. QED
    BY <2>1 DEF AJ!Next
<1>3. CASE UNCHANGED vars
  BY <1>3 DEF vars, AJ!vars, Journal
<1>4. QED
  BY <1>1, <1>2, <1>3 DEF Next, LogActivityRejected, GetAuditEntry

(* The pallet implements the append-only journal (RefinesActivityJournal): *)
(* log_activity appends one record stamped with the current block, and no  *)
(* call changes the journal otherwise, for every bound and set of accounts.*)
THEOREM JournalRefinement == Spec => RefinesActivityJournal
  BY RefinementInit, RefinementStep, InvInit, InvStep, PTL
  DEF Spec, RefinesActivityJournal, AJ!Spec

=============================================================================
