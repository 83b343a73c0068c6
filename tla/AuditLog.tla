------------------------------- MODULE AuditLog -------------------------------
(***************************************************************************)
(* The audit-log pallet (pallets/audit-log/src/lib.rs).                    *)
(*                                                                         *)
(* Storage: AuditLog, entry id -> Option<AuditEntry>, and NextEntryId      *)
(* (ValueQuery, 0 at genesis).  An entry keeps its actor and timestamp;    *)
(* the activity type and details bytes are their lengths, and the related  *)
(* proposal id and wallet id are stored as given.  Failed calls change     *)
(* nothing and are stuttering steps (see CommunityVoting).                 *)
(***************************************************************************)
EXTENDS Naturals

CONSTANTS
    Accounts,     \* signed accounts
    TypeLens,     \* lengths of the activity_type argument
    DetailLens,   \* lengths of the details argument
    RelatedIds,   \* related_proposal_id arguments other than None
    MaxEntries,   \* bound on the number of log_activity calls
    MaxBlock      \* last block the model lets the chain reach

ASSUME AuditAssumption ==
    /\ TypeLens \subseteq Nat
    /\ DetailLens \subseteq Nat
    /\ MaxEntries \in Nat
    /\ MaxBlock \in Nat \ {0}

VARIABLES
    now,          \* frame_system block number
    entryIds,     \* keys of AuditLog
    AuditLog,     \* value stored under each key
    NextEntryId

vars == <<now, entryIds, AuditLog, NextEntryId>>

EntryIds == 0 .. MaxEntries
Entry == [actor : Accounts \cup {"none"}, timestamp : 0 .. MaxBlock,
          related_proposal_id : RelatedIds \cup {"none"}]

(* The length checks of log_activity (lines 105-110). *)
ValidActivityType(len) == len # 0 /\ len <= 50
ValidDetails(len) == len # 0 /\ len <= 500

(* The id after entry_id in NextEntryId::put(entry_id + 1). *)
NextEntryStuck(id) == id
NextEntrySkip(id) == id + 2
NextEntry(id) == id + 1

Init ==
    /\ now = 1
    /\ entryIds = {}
    /\ AuditLog = [i \in EntryIds |->
                     [actor |-> "none", timestamp |-> 0, related_proposal_id |-> "none"]]
    /\ NextEntryId = 0

(* Block production. *)
Tick ==
    /\ now < MaxBlock
    /\ now' = now + 1
    /\ UNCHANGED <<entryIds, AuditLog, NextEntryId>>

(* log_activity(origin, activity_type, details, related_proposal_id,       *)
(* related_wallet_id): both lengths checked, then the entry is stored      *)
(* under NextEntryId, which is incremented, stamped with the block number. *)
LogActivity(a, tlen, dlen, rel) ==
    LET id == NextEntryId IN
    /\ ValidActivityType(tlen)
    /\ ValidDetails(dlen)
    /\ NextEntryId < MaxEntries
    /\ NextEntryId' = NextEntry(id)
    /\ entryIds' = entryIds \cup {id}
    /\ AuditLog' = [AuditLog EXCEPT ![id] =
                      [actor |-> a, timestamp |-> now, related_proposal_id |-> rel]]
    /\ UNCHANGED now

(* log_activity's early return on an invalid activity type or details.     *)
LogActivityRejected(a, tlen, dlen) ==
    /\ ~(ValidActivityType(tlen) /\ ValidDetails(dlen))
    /\ UNCHANGED vars

(* get_audit_entry(origin, entry_id): succeeds for a stored entry and     *)
(* changes nothing.                                                        *)
GetAuditEntry(a, id) ==
    /\ id \in entryIds
    /\ UNCHANGED vars

Next ==
    \/ Tick
    \/ \E a \in Accounts, t \in TypeLens, d \in DetailLens,
         rel \in RelatedIds \cup {"none"} :
          LogActivity(a, t, d, rel)
    \/ \E a \in Accounts, t \in TypeLens, d \in DetailLens :
          LogActivityRejected(a, t, d)
    \/ \E a \in Accounts, id \in EntryIds : GetAuditEntry(a, id)

Spec == Init /\ [][Next]_vars

-----------------------------------------------------------------------------
(* Types of the storage. *)
TypeOK ==
    /\ now \in 1 .. MaxBlock
    /\ NextEntryId \in 0 .. MaxEntries
    /\ entryIds \subseteq EntryIds
    /\ AuditLog \in [EntryIds -> Entry]

(* The log is append-only: no call changes or removes a stored entry, so *)
(* log_activity never reuses an entry id.                                  *)
AppendOnly ==
    [][\A i \in entryIds : i \in entryIds' /\ AuditLog'[i] = AuditLog[i]]_vars

-----------------------------------------------------------------------------
(* Refinement mapping onto ActivityJournal: the journal lists the stored   *)
(* entries in id order, entry i - 1 at position i, up to NextEntryId.     *)
Journal == [i \in 1 .. NextEntryId |-> AuditLog[i - 1]]

AJ == INSTANCE ActivityJournal WITH journal <- Journal

(* The pallet implements the append-only journal: every successful        *)
(* log_activity appends exactly one record, stamped with the current      *)
(* block, after all earlier ones, and no call changes an earlier record.  *)
RefinesActivityJournal == AJ!Spec

=============================================================================
