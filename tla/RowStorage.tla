----------------------------- MODULE RowStorage -----------------------------
(***************************************************************************)
(* How the object of a session keeps its session, command and job rows and *)
(* its audit rows: the maps in memory, the rows and the index they are put *)
(* as, the audit rows that make room for newer ones, and the snapshot of   *)
(* an older version that is turned into rows when an object first loads    *)
(* it (src/worker.ts).                                                     *)
(*                                                                         *)
(* What a request does to the rows is SessionObject's and RequestAuth's    *)
(* matter: here it changes some rows and inserts an audit row. Storage     *)
(* applies writes in the order in which they are issued, those issued      *)
(* together in any order, and an object that goes loses those not applied. *)
(***************************************************************************)
EXTENDS Integers, SequencesExt

CONSTANTS
  Rows,        \* storage keys of session, command and job rows
  Requests,
  Snapshot,    \* what wrote the audit rows of the snapshot
  MaxAudits,   \* maxAuditRowsPerSession
  MaxLegacy,   \* bound on the audit rows of a snapshot
  MaxTime      \* bound on the clock, and so on evictions

ASSUME RowsAssumption ==
  /\ IsFiniteSet(Rows) /\ IsFiniteSet(Requests)
  /\ {MaxAudits, MaxLegacy, MaxTime} \subseteq Nat \ {0}

Absent   == -1
Versions == 0..Cardinality(Requests)
Keys     == Rows \cup ((0..MaxTime) \X Nat)

VARIABLES
  now,
  legacy,    \* the snapshot: the rows it has, and how many audit rows
  loaded,
  rows,      \* version of each row in memory
  audits,    \* audit rows in memory, oldest first
  sequence,  \* auditSequence
  dirty,     \* dirtyRows
  deleted,   \* deletedKeys
  crowdedOut, \* history: the audit rows that made room for newer ones
  request,
  writes,    \* issued to storage and not yet applied
  stored,    \* the rows in storage, by key
  index      \* the index row in storage

memory  == <<loaded, rows, audits, sequence, dirty, deleted, crowdedOut>>
storage == <<writes, stored, index>>
vars    == <<now, legacy, memory, request, storage>>

Audits == [key : (0..MaxTime) \X Nat, by : Requests \cup {Snapshot}]
KeysOf(seq) == {seq[i].key : i \in DOMAIN seq}
NoIndex == [rows |-> {}, audits |-> <<>>]
Phases  == {"handled", "putting", "deleting", "indexing"}

TypeOK ==
  /\ now \in 1..MaxTime
  /\ legacy \in [rows : SUBSET Rows, audits : 0..MaxLegacy]
  /\ loaded \in BOOLEAN
  /\ rows \in [Rows -> Versions \cup {Absent}]
  /\ \A i \in DOMAIN audits : audits[i] \in Audits
  /\ Len(audits) <= MaxAudits /\ sequence \in Nat
  /\ dirty \subseteq Keys /\ deleted \subseteq Keys
  /\ dirty \cap deleted = {} /\ crowdedOut \subseteq Keys
  /\ dirty \subseteq {k \in Rows : rows[k] # Absent} \cup KeysOf(audits)
  /\ \A r \in Requests :
       /\ request[r].pc \in {"none", "answered", "over"} \cup Phases
       /\ request[r].deletes \subseteq Keys
       /\ request[r].left \in [Rows -> Versions \cup {Absent}]
       /\ request[r].audit \in (0..MaxTime) \X Nat
  /\ DOMAIN stored \subseteq Keys
  /\ index.rows \subseteq Rows

Empty == [k \in Rows |-> Absent]

NoRequest == [pc |-> "none", deletes |-> {}, left |-> Empty, audit |-> <<0, 0>>]

Init ==
  /\ now = 1
  /\ legacy \in [rows : SUBSET Rows, audits : 0..MaxLegacy]
  /\ loaded = FALSE
  /\ rows = Empty /\ audits = <<>> /\ sequence = 0 /\ dirty = {} /\ deleted = {}
  /\ crowdedOut = {}
  /\ request = [r \in Requests |-> NoRequest]
  /\ writes = <<>> /\ stored = <<>> /\ index = NoIndex

-----------------------------------------------------------------------------
(* Loading.                                                                 *)

\* auditRowStorageKey
AuditKey(at, number) == <<at, number>>

\* Mutant of Kept: one too many.
KeptOneMore(seq) == SubSeq(seq, Max({1, Len(seq) - MaxAudits}), Len(seq))

\* compactAuditRows: the newest MaxAudits stay.
Kept(seq) == SubSeq(seq, Max({1, Len(seq) - MaxAudits + 1}), Len(seq))
CompactedKeys(seq) == KeysOf(seq) \ KeysOf(Kept(seq))

HasIndexedRows == index.rows # {} \/ index.audits # <<>>

\* loadIndexedRows: a key that storage does not have is skipped.
IndexedRows ==
  [k \in Rows |-> IF k \in index.rows \cap DOMAIN stored THEN stored[k] ELSE Absent]
IndexedAudits ==
  LET present == SelectSeq(index.audits, LAMBDA k : k \in DOMAIN stored)
  IN [i \in DOMAIN present |-> [key |-> present[i], by |-> stored[present[i]]]]

LegacyRows == [k \in Rows |-> IF k \in legacy.rows THEN 0 ELSE Absent]
LegacyAudits ==
  [i \in 1..legacy.audits |-> [key |-> AuditKey(0, i - 1), by |-> Snapshot]]

HydrateRows ==
  /\ rows' = IndexedRows
  /\ audits' = IndexedAudits
  /\ sequence' = Len(IndexedAudits)
  /\ dirty' = {} /\ deleted' = {}
  /\ UNCHANGED crowdedOut

\* Mutant of HydrateLegacySnapshot: as rows that storage has.
HydrateLegacyClean ==
  /\ rows' = LegacyRows
  /\ audits' = Kept(LegacyAudits)
  /\ sequence' = Len(LegacyAudits)
  /\ dirty' = {} /\ deleted' = {}
  /\ UNCHANGED crowdedOut

HydrateLegacySnapshot ==
  /\ rows' = LegacyRows
  /\ audits' = Kept(LegacyAudits)
  /\ sequence' = Len(LegacyAudits)
  /\ dirty' = legacy.rows \cup KeysOf(Kept(LegacyAudits))
  /\ deleted' = CompactedKeys(LegacyAudits)
  /\ crowdedOut' = crowdedOut \cup CompactedKeys(LegacyAudits)

\* loadPersistedState. The snapshot stays where it is.
Load ==
  /\ ~loaded
  /\ loaded' = TRUE
  /\ IF HasIndexedRows THEN HydrateRows ELSE HydrateLegacySnapshot
  /\ UNCHANGED <<now, legacy, request, storage>>

-----------------------------------------------------------------------------
(* Changes and their persistence.                                           *)

DeletedAfter(key, gone) == (deleted \ {key}) \cup gone

\* setSession, setCommand, setJob and insertAudit, with compactAuditRows.
Handle(r, changed) ==
  LET key  == AuditKey(now, sequence)
      all  == Append(audits, [key |-> key, by |-> r])
      gone == CompactedKeys(all)
  IN /\ loaded /\ request[r].pc = "none"
     /\ rows' = [k \in Rows |-> IF k \in changed THEN rows[k] + 1 ELSE rows[k]]
     /\ audits' = Kept(all)
     /\ sequence' = sequence + 1
     /\ dirty' = (dirty \cup changed \cup {key}) \ gone
     /\ deleted' = DeletedAfter(key, gone)
     /\ crowdedOut' = crowdedOut \cup gone
     /\ request' = [request EXCEPT ![r] = [NoRequest EXCEPT
                      !.pc = "handled", !.audit = key,
                      !.left = [k \in Rows |-> IF k \in changed THEN rows'[k] ELSE Absent]]]
     /\ UNCHANGED <<now, legacy, loaded, storage>>

\* The row under a key that is dirty.
Value(key) ==
  IF key \in Rows THEN rows[key]
  ELSE audits[SelectInSeq(audits, LAMBDA row : row.key = key)].by

NoWrite == [by |-> Snapshot, puts |-> {}, deletes |-> {}, index |-> NoIndex]
Awaits(r) == \E i \in DOMAIN writes : writes[i].by = r
Goes(r, pc) == request' = [request EXCEPT ![r].pc = pc]

\* drainChanges, and the puts that persistState issues together.
PutRows(r) ==
  /\ request[r].pc = "handled"
  /\ writes' = IF dirty = {} THEN writes
               ELSE Append(writes, [NoWrite EXCEPT
                      !.by = r, !.puts = {<<k, Value(k)>> : k \in dirty}])
  /\ request' = [request EXCEPT ![r].pc = "putting", ![r].deletes = deleted]
  /\ dirty' = {} /\ deleted' = {}
  /\ UNCHANGED <<now, legacy, loaded, rows, audits, sequence, crowdedOut, stored, index>>

DeleteRows(r) ==
  /\ request[r].pc = "putting" /\ ~Awaits(r) /\ request[r].deletes # {}
  /\ writes' = Append(writes, [NoWrite EXCEPT !.by = r, !.deletes = request[r].deletes])
  /\ Goes(r, "deleting")
  /\ UNCHANGED <<now, legacy, memory, stored, index>>

\* indexKeys, read when the rows have been put.
IndexKeys ==
  [rows   |-> {k \in Rows : rows[k] # Absent},
   audits |-> [i \in DOMAIN audits |-> audits[i].key]]

PutIndex(r) ==
  /\ \/ request[r].pc = "putting" /\ request[r].deletes = {}
     \/ request[r].pc = "deleting"
  /\ ~Awaits(r)
  /\ writes' = Append(writes, [NoWrite EXCEPT !.by = r, !.index = IndexKeys])
  /\ Goes(r, "indexing")
  /\ UNCHANGED <<now, legacy, memory, stored, index>>

Answer(r) ==
  /\ request[r].pc = "indexing" /\ ~Awaits(r)
  /\ Goes(r, "answered")
  /\ UNCHANGED <<now, legacy, memory, storage>>

ApplyPut ==
  /\ writes # <<>>
  /\ \E put \in Head(writes).puts :
       /\ stored' = [k \in DOMAIN stored \cup {put[1]} |->
                       IF k = put[1] THEN put[2] ELSE stored[k]]
       /\ writes' = IF Head(writes).puts = {put} THEN Tail(writes)
                    ELSE [writes EXCEPT ![1].puts = @ \ {put}]
  /\ UNCHANGED <<now, legacy, memory, request, index>>

ApplyDeleteOrIndex ==
  /\ writes # <<>> /\ Head(writes).puts = {}
  /\ stored' = Restrict(stored, DOMAIN stored \ Head(writes).deletes)
  /\ index' = IF Head(writes).deletes = {} THEN Head(writes).index ELSE index
  /\ writes' = Tail(writes)
  /\ UNCHANGED <<now, legacy, memory, request>>

\* The next object runs at a later time.
Evict ==
  /\ loaded /\ now < MaxTime
  /\ now' = now + 1
  /\ loaded' = FALSE
  /\ rows' = Empty /\ audits' = <<>> /\ sequence' = 0 /\ dirty' = {} /\ deleted' = {}
  /\ writes' = <<>>
  /\ request' = [r \in Requests |->
                   IF request[r].pc \in Phases
                   THEN [NoRequest EXCEPT !.pc = "over"] ELSE request[r]]
  /\ UNCHANGED <<legacy, crowdedOut, stored, index>>

Next ==
  \/ Load \/ ApplyPut \/ ApplyDeleteOrIndex \/ Evict
  \/ \E r \in Requests :
       \/ PutRows(r) \/ DeleteRows(r) \/ PutIndex(r) \/ Answer(r)
       \/ \E changed \in SUBSET Rows : Handle(r, changed)

Symmetry == Permutations(Rows) \cup Permutations(Requests)

Spec == Init /\ [][Next]_vars

-----------------------------------------------------------------------------
\* What an object that loads now finds.
NextRows   == IF HasIndexedRows THEN IndexedRows ELSE LegacyRows
NextAudits == IF HasIndexedRows THEN IndexedAudits ELSE Kept(LegacyAudits)

\* The snapshot of an older version, as it was left or as rows with their index.
SnapshotIsKept == \A k \in legacy.rows : NextRows[k] # Absent

\* What an answered request left in a row, or something later; and its audit
\* row, under the key it was given, unless it made room under the cap.
AnsweredIsLoaded ==
  \A r \in Requests : request[r].pc = "answered" =>
    /\ \A k \in Rows : NextRows[k] >= request[r].left[k]
    /\ \/ [key |-> request[r].audit, by |-> r] \in ToSet(NextAudits)
       \/ request[r].audit \in crowdedOut

\* When nothing is being persisted.
StorageCatchesUp ==
  loaded /\ writes = <<>> /\ dirty = {} /\ deleted = {}
    /\ (\A r \in Requests : request[r].pc \notin Phases)
  => /\ NextRows = rows /\ NextAudits = audits
     /\ now = 1 => DOMAIN stored \subseteq index.rows \cup ToSet(index.audits)

(* An object that loads its rows finds what it should, whenever the one    *)
(* before it went: while it turned a snapshot into rows, between the rows  *)
(* of one request and the index of another, or later. The index is put     *)
(* after the rows, also when requests put each other's; no audit row takes *)
(* the key of another, though the sequence in the keys starts again at     *)
(* the number of rows that were loaded; and storage comes to hold what     *)
(* memory holds, with no row that nothing lists as long as no object was   *)
(* lost, since a row is deleted after it was put, by whichever request     *)
(* (hydrateLegacySnapshot, persistState, drainChanges, compactAuditRows).  *)
NextObjectFindsAll == SnapshotIsKept /\ AnsweredIsLoaded /\ StorageCatchesUp
=============================================================================
