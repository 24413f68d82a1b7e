------------------------- MODULE RequestAuthProofs -------------------------
(***************************************************************************)
(* Proofs about RequestAuth: what the object of a session has admitted,    *)
(* and that its storage remembers it, for any number of requests and of    *)
(* deliveries, any cap and any windows the assumptions allow.              *)
(* The failures, which the rest does not depend on, come last.             *)
(***************************************************************************)
EXTENDS RequestAuth, NaturalFacts, FiniteSetTheorems, SequenceTheorems, TLAPS

-----------------------------------------------------------------------------
(* The inductive invariant.                                                 *)

Busy        == {"handled"} \cup Phases
Admitted(a) == arrival[a].request # None /\ arrival[a].pc \in Busy \cup {"answered"}

\* Its timestamp will never let it in again.
Expired(r) == sent[r] # Never /\ now - sent[r] > Skew

Forgettable(r) == Expired(r) \/ CrowdedOut(r)

Pending        == 1..Len(writes)
IsPut(i, r)    == writes[i].kind = "put" /\ writes[i].row = r
IsDelete(i, r) == writes[i].kind = "delete" /\ r \in writes[i].keys
Lists(i, r)    == writes[i].kind = "index" => r \in writes[i].keys

Typed ==
  /\ now \in Times
  /\ ahead \in [Requests -> 0..MaxAhead]
  /\ sent \in [Requests -> Never..MaxTime + MaxAhead]
  /\ arrival \in [Arrivals -> [request : Requests \cup {None}, deletes : SUBSET Requests,
                               pc : {"none"} \cup Busy \cup Results]]
  /\ seenAt \in [Requests -> SeenTimes]
  /\ dirty \subseteq Known
  /\ deleted \subseteq Requests \ Known
  /\ crowdedOut \subseteq Requests
  /\ writes \in Seq(Writes)
  /\ rows \in [Requests -> SeenTimes]
  /\ index \subseteq Requests

\* What was seen at a time was sent, by a clock that is so much ahead of it, and
\* was in skew.
Fits(r, at) == /\ sent[r] # Never
               /\ sent[r] <= at + ahead[r] /\ sent[r] <= at + Skew

TimesInv ==
  \A r \in Requests :
    /\ sent[r] <= now + ahead[r]
    /\ seenAt[r] # Never => Fits(r, seenAt[r])
    /\ rows[r] # Never => Fits(r, rows[r])
    /\ \A i \in Pending : IsPut(i, r) => Fits(r, writes[i].seenAt)

\* Only a request that has expired, or was crowded out, is forgotten.
GoneInv ==
  \A r \in Requests :
    /\ r \in deleted => Forgettable(r)
    /\ \A a \in Arrivals : r \in arrival[a].deletes => Forgettable(r)
    /\ \A i \in Pending : IsDelete(i, r) => Forgettable(r)

\* What was admitted, and what is being put, is known.
MemoryInv ==
  /\ \A a \in Arrivals :
       Admitted(a) => arrival[a].request \in Known \/ Forgettable(arrival[a].request)
  /\ \A r \in Requests, i \in Pending : IsPut(i, r) => r \in Known \/ Forgettable(r)

OnceInv ==
  \A a, b \in Arrivals :
    Admitted(a) /\ Admitted(b) /\ arrival[a].request = arrival[b].request
      => a = b \/ CrowdedOut(arrival[a].request)

NamedInv == \A a \in Arrivals : arrival[a].pc = "answered" => arrival[a].request # None

\* What is known is to be put, is being put, or is stored, and is not deleted,
\* unless it came back after it was crowded out.
RowsInv ==
  \A r \in Known : ~CrowdedOut(r) =>
    /\ \A a \in Arrivals : arrival[a].pc = "putting" => r \notin arrival[a].deletes
    /\ \A i \in Pending : ~IsDelete(i, r)
    /\ \A i \in Pending : IsPut(i, r) => writes[i].seenAt = seenAt[r]
    /\ r \in dirty \/ (\E i \in Pending : IsPut(i, r)) \/ rows[r] = seenAt[r]

InStore(r) == r \in index /\ rows[r] # Never /\ \A i \in Pending : Lists(i, r)

\* The index of a, which lists r as all that follow it do, is behind its row.
OnItsWay(a, r) ==
  \E i \in Pending :
    /\ writes[i].kind = "index" /\ writes[i].by = a
    /\ \A k \in Pending : k >= i => Lists(k, r)
    /\ rows[r] # Never \/ \E k \in Pending : k < i /\ IsPut(k, r)

Kept(a, r) ==
  /\ arrival[a].pc # "handled" => r \notin dirty
  /\ arrival[a].pc = "indexing" => Forgettable(r) \/ InStore(r) \/ OnItsWay(a, r)
  /\ arrival[a].pc = "answered" => Forgettable(r) \/ InStore(r)

KeptInv ==
  \A a \in Arrivals :
    Admitted(a) => Kept(a, arrival[a].request) \/ CrowdedOut(arrival[a].request)

\* The last index on its way, or else the one in storage, is that of memory.
IndexIsLast ==
  \E i \in Pending :
    /\ writes[i].kind = "index" /\ writes[i].keys = Known
    /\ \A k \in Pending : k > i => writes[k].kind # "index"

IndexIsStored ==
  /\ \A i \in Pending : writes[i].kind # "index"
  /\ Known \subseteq index
  /\ \A r \in index \ Known : rows[r] = Never /\ \A i \in Pending : ~IsPut(i, r)

IndexInv ==
  (\A a \in Arrivals : arrival[a].pc \notin {"handled", "putting", "deleting"})
    => IndexIsLast \/ IndexIsStored

Inv == /\ Typed /\ TimesInv /\ GoneInv /\ MemoryInv /\ OnceInv /\ RowsInv
       /\ NamedInv /\ KeptInv /\ IndexInv

-----------------------------------------------------------------------------
(* Types.                                                                   *)

\* A write has the fields of its kind.
LEMMA WriteFields ==
  ASSUME NEW w \in Writes
  PROVE  /\ w.kind \in {"put", "delete", "index"} /\ w.by \in Arrivals
         /\ w.kind = "put" => w.row \in Requests /\ w.seenAt \in Times
         /\ w.kind # "put" => w.keys \in SUBSET Requests
BY DEF Writes

LEMMA PutIsWrite ==
  ASSUME NEW a \in Arrivals, NEW r \in Requests, seenAt[r] \in Times
  PROVE  /\ Put(a, r) \in Writes /\ Put(a, r).kind = "put" /\ Put(a, r).row = r
         /\ Put(a, r).seenAt = seenAt[r] /\ Put(a, r).by = a
BY DEF Put, Writes

LEMMA DeleteIsWrite ==
  ASSUME NEW a \in Arrivals, NEW keys \in SUBSET Requests
  PROVE  /\ Delete(a, keys) \in Writes /\ Delete(a, keys).kind = "delete"
         /\ Delete(a, keys).keys = keys /\ Delete(a, keys).by = a
BY DEF Delete, Writes

LEMMA IndexIsWrite ==
  ASSUME NEW a \in Arrivals, NEW keys \in SUBSET Requests
  PROVE  /\ Index(a, keys) \in Writes /\ Index(a, keys).kind = "index"
         /\ Index(a, keys).keys = keys /\ Index(a, keys).by = a
BY DEF Index, Writes

\* An order of a finite set goes through all of it.
LEMMA OrderIsOnto ==
  ASSUME NEW S, IsFiniteSet(S), NEW keys \in SetToSeqs(S)
  PROVE  /\ keys \in Seq(S) /\ Len(keys) = Cardinality(S)
         /\ \A s \in S : \E i \in 1..Len(keys) : keys[i] = s
<1> DEFINE D == 1..Cardinality(S)
<1>1. Cardinality(S) \in Nat
  BY FS_CardinalityType
<1>2. keys \in [D -> S] /\ \A i, j \in D : i # j => keys[i] # keys[j]
  BY DEF SetToSeqs
<1>3. keys \in Injection(D, S)
  BY <1>2 DEF Injection, IsInjective
<1>4. Cardinality(D) = Cardinality(S)
  BY <1>1, FS_Interval
<1>5. keys \in Surjection(D, S)
  BY <1>3, <1>4, FS_Injection
<1>6. keys \in Seq(S) /\ Len(keys) = Cardinality(S)
  BY <1>1, <1>2
<1> QED
  BY <1>5, <1>6 DEF Surjection

-----------------------------------------------------------------------------
(* What the actions do to the writes.                                       *)

\* PutRows appends a put of every dirty row and nothing else.
LEMMA PutRowsEffect ==
  ASSUME Typed, NEW a \in Arrivals, PutRows(a)
  PROVE  /\ writes' \in Seq(Writes) /\ Len(writes) <= Len(writes')
         /\ \A i \in Pending : writes'[i] = writes[i]
         /\ \A i \in Pending' \ Pending : \E r \in dirty : writes'[i] = Put(a, r)
         /\ \A r \in dirty : \E i \in Pending' \ Pending : writes'[i] = Put(a, r)
<1>1. PICK keys \in SetToSeqs(dirty) :
        writes' = writes \o [i \in 1..Len(keys) |-> Put(a, keys[i])]
  BY DEF PutRows
<1>2. dirty \in SUBSET Requests /\ \A r \in dirty : seenAt[r] \in Times
  BY DEF Typed, Known, SeenTimes
<1>3. IsFiniteSet(dirty)
  BY <1>2, RequestsAssumption, FS_Subset
<1>4. keys \in Seq(dirty) /\ \A r \in dirty : \E i \in 1..Len(keys) : keys[i] = r
  BY <1>3, OrderIsOnto
<1> DEFINE puts == [i \in 1..Len(keys) |-> Put(a, keys[i])]
<1>5. \A i \in 1..Len(keys) : keys[i] \in dirty /\ puts[i] = Put(a, keys[i])
  BY <1>4
<1>6. \A r \in dirty : Put(a, r) \in Writes
  BY <1>2, PutIsWrite
<1>7. puts \in Seq(Writes) /\ Len(puts) = Len(keys) /\ Len(keys) \in Nat
  BY <1>4, <1>5, <1>6
<1>8. writes \in Seq(Writes) /\ Len(writes) \in Nat /\ writes' = writes \o puts
  BY <1>1 DEF Typed
<1> HIDE DEF puts
<1>9. /\ writes' \in Seq(Writes) /\ Len(writes') = Len(writes) + Len(keys)
      /\ \A i \in 1..Len(writes) + Len(keys) :
           writes'[i] = IF i <= Len(writes) THEN writes[i] ELSE puts[i - Len(writes)]
  <2>1. /\ (writes \o puts) \in Seq(Writes)
        /\ Len(writes \o puts) = Len(writes) + Len(puts)
        /\ \A i \in 1..Len(writes) + Len(puts) :
             (writes \o puts)[i] = IF i <= Len(writes) THEN writes[i] ELSE puts[i - Len(writes)]
    BY <1>7, <1>8, ConcatProperties
  <2> QED
    BY <2>1, <1>7, <1>8
<1>10. \A i \in Pending : writes'[i] = writes[i]
  BY <1>7, <1>8, <1>9 DEF Pending
<1>11. ASSUME NEW i \in Pending' \ Pending
       PROVE  \E r \in dirty : writes'[i] = Put(a, r)
  <2>1. i - Len(writes) \in 1..Len(keys) /\ writes'[i] = puts[i - Len(writes)]
    BY <1>7, <1>8, <1>9 DEF Pending
  <2> QED
    BY <2>1, <1>5
<1>12. ASSUME NEW r \in dirty
       PROVE  \E i \in Pending' \ Pending : writes'[i] = Put(a, r)
  <2>1. PICK j \in 1..Len(keys) : keys[j] = r
    BY <1>4
  <2>2. /\ Len(writes) + j \in Pending' \ Pending
        /\ writes'[Len(writes) + j] = puts[j]
    BY <1>7, <1>8, <1>9 DEF Pending
  <2> QED
    BY <2>1, <2>2, <1>5
<1>13. Len(writes) <= Len(writes')
  BY <1>7, <1>8, <1>9
<1> QED
  BY <1>9, <1>10, <1>11, <1>12, <1>13

\* DeleteRows appends one deletion, and PutIndex one index.
LEMMA AppendEffect ==
  ASSUME Typed, NEW w \in Writes, writes' = Append(writes, w)
  PROVE  /\ writes' \in Seq(Writes) /\ Len(writes') = Len(writes) + 1
         /\ \A i \in Pending : writes'[i] = writes[i]
         /\ writes'[Len(writes) + 1] = w
         /\ Pending' = Pending \cup {Len(writes) + 1} /\ Len(writes) + 1 \notin Pending
BY AppendProperties DEF Typed, Pending

\* ApplyWrite takes the first write, and the others move up.
LEMMA ApplyEffect ==
  ASSUME Typed, ApplyWrite
  PROVE  /\ writes' \in Seq(Writes) /\ 1 \in Pending
         /\ \A i \in Pending' : i + 1 \in Pending /\ writes'[i] = writes[i + 1]
         /\ \A i \in Pending : i # 1 => i - 1 \in Pending' /\ writes'[i - 1] = writes[i]
         /\ \A r \in Requests :
              rows'[r] = IF IsPut(1, r) THEN writes[1].seenAt
                         ELSE IF IsDelete(1, r) THEN Never ELSE rows[r]
         /\ index' = IF writes[1].kind = "index" THEN writes[1].keys ELSE index
<1>1. writes \in Seq(Writes) /\ writes # <<>> /\ writes' = Tail(writes)
  BY DEF ApplyWrite, Typed
<1>2. /\ Head(writes) = writes[1] /\ writes' \in Seq(Writes)
      /\ Len(writes) \in Nat \ {0} /\ Len(writes') = Len(writes) - 1
      /\ \A i \in 1..Len(writes') : writes'[i] = writes[i + 1]
  BY <1>1, HeadTailProperties
<1>3. ASSUME NEW r \in Requests
      PROVE  rows'[r] = IF IsPut(1, r) THEN writes[1].seenAt
                        ELSE IF IsDelete(1, r) THEN Never ELSE rows[r]
  BY <1>2 DEF ApplyWrite, IsPut, IsDelete
<1>4. index' = IF writes[1].kind = "index" THEN writes[1].keys ELSE index
  BY <1>2 DEF ApplyWrite
<1> QED
  BY <1>2, <1>3, <1>4 DEF Pending

\* After an eviction nothing is on its way.
LEMMA EvictEffect ==
  ASSUME Typed, Evict
  PROVE  /\ writes' \in Seq(Writes) /\ Pending' = {}
         /\ \A a \in Arrivals :
              IF arrival[a].pc \in Busy
              THEN /\ arrival'[a].pc = "over" /\ arrival'[a].request = None
                   /\ arrival'[a].deletes = {}
              ELSE arrival'[a] = arrival[a]
         /\ \A r \in Requests : seenAt'[r] = IF r \in index THEN rows[r] ELSE Never
<1>1. writes' = <<>> /\ Len(writes') = 0
  BY DEF Evict
<1>2. ASSUME NEW a \in Arrivals
      PROVE  IF arrival[a].pc \in Busy
             THEN /\ arrival'[a].pc = "over" /\ arrival'[a].request = None
                  /\ arrival'[a].deletes = {}
             ELSE arrival'[a] = arrival[a]
  BY DEF Evict, Busy, NoArrival
<1> QED
  BY <1>1, <1>2 DEF Evict, Loaded, Pending

-----------------------------------------------------------------------------
(* What the actions do to the arrivals and to memory.                       *)

Kinds == [request : Requests \cup {None}, deletes : SUBSET Requests,
          pc : {"none"} \cup Busy \cup Results]

LEMMA ArrivesEffect ==
  ASSUME Typed, NEW a \in Arrivals, NEW r \in Requests \cup {None},
         NEW pc \in {"none"} \cup Busy \cup Results, Arrives(a, r, pc)
  PROVE  /\ arrival' \in [Arrivals -> Kinds]
         /\ arrival'[a].request = r /\ arrival'[a].pc = pc /\ arrival'[a].deletes = {}
         /\ \A b \in Arrivals : b # a => arrival'[b] = arrival[b]
<1>1. arrival \in [Arrivals -> Kinds]
  BY DEF Typed, Kinds
<1>2. [request |-> r, pc |-> pc, deletes |-> {}] \in Kinds
  BY DEF Kinds
<1> QED
  BY <1>1, <1>2 DEF Arrives

LEMMA GoesEffect ==
  ASSUME Typed, NEW a \in Arrivals, NEW pc \in {"none"} \cup Busy \cup Results,
         Goes(a, pc)
  PROVE  /\ arrival' \in [Arrivals -> Kinds]
         /\ arrival'[a].request = arrival[a].request /\ arrival'[a].pc = pc
         /\ arrival'[a].deletes = arrival[a].deletes
         /\ \A b \in Arrivals : b # a => arrival'[b] = arrival[b]
<1>1. arrival \in [Arrivals -> Kinds] /\ arrival[a] \in Kinds
  BY DEF Typed, Kinds
<1> DEFINE x == [arrival[a] EXCEPT !.pc = pc]
<1>2. /\ x \in Kinds /\ x.request = arrival[a].request /\ x.pc = pc
      /\ x.deletes = arrival[a].deletes
  BY <1>1 DEF Kinds
<1> HIDE DEF x
<1>3. arrival' = [arrival EXCEPT ![a] = x]
  BY DEF Goes, x
<1> QED
  BY <1>1, <1>2, <1>3

LEMMA PutsEffect ==
  ASSUME Typed, NEW a \in Arrivals, PutRows(a)
  PROVE  /\ arrival' \in [Arrivals -> Kinds]
         /\ arrival'[a].request = arrival[a].request /\ arrival'[a].pc = "putting"
         /\ arrival'[a].deletes = deleted
         /\ \A b \in Arrivals : b # a => arrival'[b] = arrival[b]
<1>1. /\ arrival \in [Arrivals -> Kinds] /\ arrival[a] \in Kinds
      /\ deleted \in SUBSET Requests
  BY DEF Typed, Kinds
<1> DEFINE x == [arrival[a] EXCEPT !.pc = "putting", !.deletes = deleted]
<1>2. /\ x \in Kinds /\ x.request = arrival[a].request /\ x.pc = "putting"
      /\ x.deletes = deleted
  BY <1>1 DEF Kinds, Busy, Phases
<1> HIDE DEF x
<1>3. arrival' = [arrival EXCEPT ![a] = x]
  BY DEF PutRows, x
<1> QED
  BY <1>1, <1>2, <1>3

\* A row as old as the retention is of an expired request, and so is one as old
\* as the protected window, unless its sender's clock is too far ahead for that.
LEMMA OldIsExpired ==
  ASSUME Typed, TimesInv, NEW q \in Known
  PROVE  /\ seenAt[q] < now - Retention => Expired(q)
         /\ seenAt[q] < now - Protected => Expired(q) \/ Skew + ahead[q] > Protected
<1>1. /\ q \in Requests /\ seenAt[q] \in Times /\ sent[q] \in Never..MaxTime + MaxAhead
      /\ ahead[q] \in 0..MaxAhead /\ now \in Times
  BY DEF Typed, Known, SeenTimes
<1>2. /\ sent[q] # Never
      /\ sent[q] <= seenAt[q] + ahead[q] /\ sent[q] <= seenAt[q] + Skew
  BY DEF TimesInv, Fits, Known
<1>3. {Skew, MaxAhead, Retention, Protected, MaxTime} \subseteq Nat /\ 2 * Skew <= Retention
  BY TimesAssumption
<1>4. seenAt[q] < now - Retention => now - sent[q] > Skew
  BY <1>1, <1>2, <1>3 DEF Times, Never
<1>5. seenAt[q] < now - Protected => now - sent[q] > Skew \/ Skew + ahead[q] > Protected
  BY <1>1, <1>2, <1>3 DEF Times, Never
<1> QED
  BY <1>2, <1>4, <1>5 DEF Expired

\* Accept forgets what is forgettable then, and remembers what has not expired.
LEMMA AcceptEffect ==
  ASSUME Typed, TimesInv, NEW a \in Arrivals, NEW r \in Requests, Accept(a, r)
  PROVE  /\ r \notin Known /\ ~Expired(r) /\ sent[r] # Never /\ sent[r] <= now + Skew
         /\ crowdedOut \subseteq crowdedOut' /\ crowdedOut' \subseteq Requests
         /\ \E gone \in SUBSET Known :
              /\ \A q \in gone : Forgettable(q)'
              /\ \A q \in Requests :
                   seenAt'[q] = IF q \in gone THEN Never
                                ELSE IF q = r THEN now ELSE seenAt[q]
              /\ Known' = (Known \cup {r}) \ gone
              /\ dirty' = (dirty \cup {r}) \ gone
              /\ deleted' = (deleted \ {r}) \cup gone
<1>1. /\ r \notin Known /\ sent[r] # Never /\ InSkew(r)
      /\ now \in Times /\ sent[r] \in Never..MaxTime + MaxAhead
      /\ seenAt \in [Requests -> SeenTimes] /\ crowdedOut \subseteq Requests
      /\ UNCHANGED <<now, sent, ahead>>
  BY DEF Accept, Typed, senders
<1>2. {Skew, MaxAhead, Retention, Protected, MaxTime} \subseteq Nat
  BY TimesAssumption
<1>3. ~Expired(r) /\ sent[r] <= now + Skew
  BY <1>1, <1>2 DEF InSkew, Expired, Times, Never
<1>4. PICK over \in SUBSET OldEnough(r) :
        LET gone == Outdated(r) \cup over
        IN /\ seenAt' = [q \in Requests |-> IF q \in gone THEN Never ELSE Stored(r)[q]]
           /\ dirty' = (dirty \cup {r}) \ gone
           /\ deleted' = (deleted \ {r}) \cup gone
           /\ crowdedOut' = crowdedOut \cup over
  BY DEF Accept, StoreNonce
<1> DEFINE gone == Outdated(r) \cup over
<1>5. gone \in SUBSET Known /\ Known \subseteq Requests
  BY DEF Outdated, OldEnough, Known
<1>6. ASSUME NEW q \in gone
      PROVE  Forgettable(q)'
  <2>1. CASE q \in Outdated(r)
    <3>1. Expired(q)
      BY <1>5, <2>1, OldIsExpired DEF Outdated
    <3> QED
      BY <1>1, <3>1 DEF Expired, Forgettable
  <2>2. CASE q \in over
    <3>1. Expired(q) \/ Skew + ahead[q] > Protected
      BY <1>5, <2>2, OldIsExpired DEF OldEnough
    <3>2. q \in crowdedOut'
      BY <1>4, <2>2
    <3> QED
      BY <1>1, <3>1, <3>2 DEF Expired, Forgettable, CrowdedOut
  <2> QED
    BY <2>1, <2>2
<1>7. ASSUME NEW q \in Requests
      PROVE  seenAt'[q] = IF q \in gone THEN Never ELSE IF q = r THEN now ELSE seenAt[q]
  BY <1>1, <1>4 DEF Stored
<1>8. dirty' = (dirty \cup {r}) \ gone /\ deleted' = (deleted \ {r}) \cup gone
  BY <1>4
<1>9. crowdedOut \subseteq crowdedOut' /\ crowdedOut' \subseteq Requests
  BY <1>1, <1>4, <1>5
<1> HIDE DEF gone
<1>10. now # Never /\ r \notin gone
  BY <1>1, <1>2, <1>5 DEF Times, Never
<1>11. Known' = (Known \cup {r}) \ gone
  BY <1>5, <1>7, <1>10 DEF Known
<1> QED
  BY <1>1, <1>3, <1>5, <1>6, <1>7, <1>8, <1>9, <1>11

LEMMA ClockMoves ==
  ASSUME Typed, [Next]_vars
  PROVE  now' \in Times /\ now <= now'
<1>1. now \in Times /\ MaxTime \in Nat
  BY TimesAssumption DEF Typed
<1>2. (now < MaxTime /\ now' = now + 1) \/ now' = now
  BY DEF Next, vars, Tick, Send, Accept, Reject, Refuse, PutRows, DeleteRows,
         PutIndex, Answer, ApplyWrite, Evict
<1> QED
  BY <1>1, <1>2 DEF Times

\* What expired, and what was crowded out, stays so.
LEMMA ForgettableStays ==
  ASSUME Typed, [Next]_vars, NEW r \in Requests
  PROVE  /\ sent[r] # Never => sent'[r] = sent[r]
         /\ ahead' = ahead
         /\ CrowdedOut(r) => CrowdedOut(r)'
         /\ Forgettable(r) => Forgettable(r)'
<1>1. /\ now \in Times /\ sent \in [Requests -> Never..MaxTime + MaxAhead]
      /\ MaxTime \in Nat /\ MaxAhead \in Nat /\ Skew \in Nat
  BY TimesAssumption DEF Typed
<1>2. now' \in Times /\ now <= now'
  BY ClockMoves
<1>3. sent[r] # Never => sent'[r] = sent[r]
  BY <1>1 DEF Next, vars, senders, Tick, Send, Accept, Reject, Refuse, PutRows, DeleteRows,
              PutIndex, Answer, ApplyWrite, Evict
<1>4. ahead' = ahead /\ crowdedOut \subseteq crowdedOut'
  BY DEF Next, vars, senders, Tick, Send, Accept, StoreNonce, Reject, Refuse, PutRows,
         DeleteRows, PutIndex, Answer, ApplyWrite, Evict
<1>5. CrowdedOut(r) => CrowdedOut(r)'
  BY <1>4 DEF CrowdedOut
<1> QED
  BY <1>1, <1>2, <1>3, <1>4, <1>5 DEF Forgettable, Expired, Times, Never

-----------------------------------------------------------------------------
(* The steps by what they do to the arrivals, to memory and to storage.     *)

Idle     == UNCHANGED <<arrival, seenAt, dirty, deleted, storage>>
Turns(a) == /\ arrival[a].pc = "none" /\ TurnedAway(a)
            /\ UNCHANGED <<seenAt, dirty, deleted, storage>>

Step(a) == \/ Turns(a) \/ \E r \in Requests : Accept(a, r)
           \/ PutRows(a) \/ DeleteRows(a) \/ PutIndex(a) \/ Answer(a)

LEMMA StepKinds ==
  ASSUME [Next]_vars
  PROVE  Idle \/ ApplyWrite \/ Evict \/ \E a \in Arrivals : Step(a)
<1>1. CASE UNCHANGED vars
  BY <1>1 DEF vars, memory, Idle
<1>2. CASE Tick \/ \E r \in Requests : Send(r)
  BY <1>2 DEF Tick, Send, memory, Idle
<1>3. CASE ApplyWrite \/ Evict
  BY <1>3
<1>4. ASSUME NEW a \in Arrivals,
             \/ PutRows(a) \/ DeleteRows(a) \/ PutIndex(a) \/ Answer(a)
             \/ \E r \in Requests :
                  \/ Accept(a, r) \/ Reject(a, r)
                  \/ \E hasToken \in BOOLEAN : Refuse(a, r, hasToken)
      PROVE  Step(a)
  BY <1>4 DEF Step, Turns, Reject, Refuse, memory
<1> QED
  BY <1>1, <1>2, <1>3, <1>4 DEF Next


LEMMA TurnsEffect ==
  ASSUME Typed, NEW a \in Arrivals, Turns(a)
  PROVE  /\ arrival' \in [Arrivals -> Kinds]
         /\ arrival[a].pc = "none"
         /\ arrival'[a].request = None /\ arrival'[a].deletes = {}
         /\ arrival'[a].pc \in {"handled", "over"}
         /\ \A b \in Arrivals : b # a => arrival'[b] = arrival[b]
         /\ UNCHANGED <<seenAt, dirty, deleted, writes, rows, index>>
<1>1. PICK pc \in {"handled", "over"} : Arrives(a, None, pc)
  BY DEF Turns, TurnedAway
<1>2. pc \in {"none"} \cup Busy \cup Results
  BY DEF Busy, Results
<1> QED
  BY <1>1, <1>2, ArrivesEffect DEF Turns, storage

LEMMA TypedInductive ==
  ASSUME Typed, TimesInv, [Next]_vars
  PROVE  Typed'
<1> USE DEF Kinds, storage
<1>1. /\ arrival \in [Arrivals -> Kinds] /\ seenAt \in [Requests -> SeenTimes]
      /\ rows \in [Requests -> SeenTimes] /\ writes \in Seq(Writes)
      /\ index \subseteq Requests /\ dirty \subseteq Known /\ deleted \subseteq Requests \ Known
  BY DEF Typed
<1>2. now' \in Times
  BY ClockMoves
<1>3. sent' \in [Requests -> Never..MaxTime + MaxAhead]
  <2>1. sent \in [Requests -> Never..MaxTime + MaxAhead] /\ now \in Times
        /\ ahead \in [Requests -> 0..MaxAhead]
    BY DEF Typed
  <2>2. ASSUME NEW r \in Requests, Send(r)
        PROVE  sent' \in [Requests -> Never..MaxTime + MaxAhead]
    <3>1. ahead[r] \in 0..MaxAhead /\ now + ahead[r] \in Never..MaxTime + MaxAhead
      BY <2>1, TimesAssumption DEF Times, Never
    <3> QED
      BY <2>1, <2>2, <3>1 DEF Send
  <2>3. CASE UNCHANGED sent
    BY <2>1, <2>3
  <2> QED
    BY <2>2, <2>3
       DEF Next, vars, senders, Tick, Accept, Reject, Refuse, PutRows, DeleteRows, PutIndex, Answer,
           ApplyWrite, Evict
<1> DEFINE Rest == /\ arrival' \in [Arrivals -> Kinds] /\ seenAt' \in [Requests -> SeenTimes]
                   /\ dirty' \subseteq Known' /\ deleted' \subseteq Requests \ Known'
                   /\ writes' \in Seq(Writes) /\ rows' \in [Requests -> SeenTimes]
                   /\ index' \subseteq Requests
<1>4. ASSUME Idle
      PROVE  Rest
  BY <1>1, <1>4 DEF Idle, Known
<1>5. ASSUME ApplyWrite
      PROVE  Rest
  <2>1. writes[1] \in Writes /\ 1 \in Pending
    BY <1>1, <1>5, ApplyEffect DEF Pending
  <2>2. ASSUME NEW r \in Requests
        PROVE  rows'[r] \in SeenTimes
    <3>1. rows'[r] \in {writes[1].seenAt, Never, rows[r]}
          /\ (rows'[r] = writes[1].seenAt => IsPut(1, r) \/ rows'[r] \in {Never, rows[r]})
      BY <1>5, ApplyEffect
    <3> QED
      BY <3>1, <1>1, <2>1, WriteFields DEF IsPut, SeenTimes
  <2>3. rows' \in [Requests -> SeenTimes]
    BY <1>5, <2>2 DEF ApplyWrite
  <2>4. index' \subseteq Requests
    BY <1>1, <1>5, <2>1, ApplyEffect, WriteFields
  <2> QED
    BY <1>1, <1>5, <2>3, <2>4, ApplyEffect DEF ApplyWrite, memory, Known
<1>6. ASSUME Evict
      PROVE  Rest
  <2>1. arrival' \in [Arrivals -> Kinds]
    <3>1. [NoArrival EXCEPT !.pc = "over"] \in Kinds
      BY DEF NoArrival, Results
    <3> QED
      BY <3>1, <1>1, <1>6 DEF Evict
  <2>2. seenAt' \in [Requests -> SeenTimes]
    BY <1>1, <1>6 DEF Evict, Loaded, SeenTimes
  <2> QED
    BY <1>1, <1>6, <2>1, <2>2, EvictEffect DEF Evict
<1>7. ASSUME NEW a \in Arrivals, Turns(a)
      PROVE  Rest
  BY <1>1, <1>7, TurnsEffect DEF Known
<1>8. ASSUME NEW a \in Arrivals, NEW r \in Requests, Accept(a, r)
      PROVE  Rest
  <2>1. arrival' \in [Arrivals -> Kinds]
    BY <1>8, ArrivesEffect DEF Accept, Busy
  <2>2. PICK gone \in SUBSET Known :
          /\ \A q \in Requests :
               seenAt'[q] = IF q \in gone THEN Never ELSE IF q = r THEN now ELSE seenAt[q]
          /\ Known' = (Known \cup {r}) \ gone
          /\ dirty' = (dirty \cup {r}) \ gone
          /\ deleted' = (deleted \ {r}) \cup gone
    BY <1>8, AcceptEffect
  <2>3. now \in Times
    BY DEF Typed
  <2>4. seenAt' \in [Requests -> SeenTimes]
    BY <1>1, <1>8, <2>2, <2>3 DEF Accept, StoreNonce, SeenTimes
  <2>5. Known \subseteq Requests
    BY DEF Known
  <2> QED
    BY <1>1, <1>8, <2>1, <2>2, <2>4, <2>5 DEF Accept
<1>9. ASSUME NEW a \in Arrivals, PutRows(a)
      PROVE  Rest
  BY <1>1, <1>9, PutsEffect, PutRowsEffect DEF PutRows, Known
<1>10. ASSUME NEW a \in Arrivals, DeleteRows(a)
       PROVE  Rest
  <2>1. arrival[a].deletes \in SUBSET Requests
    BY <1>1
  <2>2. writes' \in Seq(Writes)
    BY <1>10, <2>1, DeleteIsWrite, AppendEffect DEF DeleteRows
  <2>3. arrival' \in [Arrivals -> Kinds]
    BY <1>10, GoesEffect DEF DeleteRows, Busy, Phases
  <2> QED
    BY <1>1, <1>10, <2>2, <2>3 DEF DeleteRows, memory, Known
<1>11. ASSUME NEW a \in Arrivals, PutIndex(a)
       PROVE  Rest
  <2>1. writes' \in Seq(Writes)
    BY <1>11, IndexIsWrite, AppendEffect DEF PutIndex, IndexKeys, Known
  <2>2. arrival' \in [Arrivals -> Kinds]
    BY <1>11, GoesEffect DEF PutIndex, Busy, Phases
  <2> QED
    BY <1>1, <1>11, <2>1, <2>2 DEF PutIndex, memory, Known
<1>12. ASSUME NEW a \in Arrivals, Answer(a)
       PROVE  Rest
  <2>1. arrival' \in [Arrivals -> Kinds]
    BY <1>12, GoesEffect DEF Answer, Results
  <2> QED
    BY <1>1, <1>12, <2>1 DEF Answer, memory, Known
<1> HIDE DEF Rest
<1>13. Rest
  BY <1>4, <1>5, <1>6, <1>7, <1>8, <1>9, <1>10, <1>11, <1>12, StepKinds DEF Step
<1>14. ahead' \in [Requests -> 0..MaxAhead]
  BY DEF Typed, Next, vars, senders, Tick, Send, Accept, Reject, Refuse, PutRows, DeleteRows,
         PutIndex, Answer, ApplyWrite, Evict
<1>15. crowdedOut' \subseteq Requests
  <2>1. ASSUME NEW a \in Arrivals, NEW r \in Requests, Accept(a, r)
        PROVE  crowdedOut' \subseteq Requests
    BY <2>1, AcceptEffect
  <2>2. CASE UNCHANGED crowdedOut
    BY <2>2 DEF Typed
  <2> QED
    BY <2>1, <2>2
       DEF Next, vars, Tick, Send, Reject, Refuse, PutRows, DeleteRows, PutIndex, Answer,
           ApplyWrite, Evict
<1> QED
  BY <1>2, <1>3, <1>13, <1>14, <1>15 DEF Typed, Rest

-----------------------------------------------------------------------------
(* The parts of the invariant, each kept by every step.                     *)

LEMMA TimesInductive ==
  ASSUME Typed, TimesInv, [Next]_vars
  PROVE  TimesInv'
<1>1. /\ now \in Times /\ now' \in Times /\ now <= now'
      /\ sent \in [Requests -> Never..MaxTime + MaxAhead]
      /\ ahead \in [Requests -> 0..MaxAhead] /\ ahead' = ahead
      /\ MaxTime \in Nat /\ MaxAhead \in Nat
  BY ClockMoves, TimesAssumption
     DEF Typed, Next, vars, senders, Tick, Send, Accept, Reject, Refuse, PutRows, DeleteRows,
         PutIndex, Answer, ApplyWrite, Evict
<1>2. ASSUME NEW r \in Requests
      PROVE  sent'[r] <= now' + ahead[r]
  <2>1. sent[r] <= now + ahead[r]
    BY DEF TimesInv
  <2>2. sent'[r] \in {sent[r], now + ahead[r]}
    BY <1>1 DEF Next, vars, senders, Tick, Send, Accept, Reject, Refuse, PutRows,
                DeleteRows, PutIndex, Answer, ApplyWrite, Evict
  <2> QED
    BY <1>1, <2>1, <2>2 DEF Times, Never
<1>3. \A r \in Requests : sent[r] # Never => sent'[r] = sent[r]
  BY ForgettableStays
<1> DEFINE Seen(r) == seenAt'[r] # Never => Fits(r, seenAt'[r])
           Row(r)  == rows'[r] # Never => Fits(r, rows'[r])
           Puts(r) == \A i \in Pending' : IsPut(i, r)' => Fits(r, writes'[i].seenAt)
           Goal    == \A r \in Requests : Seen(r) /\ Row(r) /\ Puts(r)
<1>4. \A r \in Requests :
        /\ seenAt[r] # Never => Fits(r, seenAt[r])
        /\ rows[r] # Never => Fits(r, rows[r])
        /\ \A i \in Pending : IsPut(i, r) => Fits(r, writes[i].seenAt)
  BY DEF TimesInv
<1>5. ASSUME UNCHANGED <<seenAt, writes, rows>>
      PROVE  Goal
  BY <1>4, <1>5 DEF Pending, IsPut
<1>6. ASSUME ApplyWrite
      PROVE  Goal
  <2>1. seenAt' = seenAt /\ 1 \in Pending
    BY <1>6, ApplyEffect DEF ApplyWrite, memory
  <2>2. ASSUME NEW r \in Requests
        PROVE  Row(r)
    BY <1>4, <1>6, <2>1, ApplyEffect
  <2>3. ASSUME NEW r \in Requests
        PROVE  Puts(r)
    BY <1>4, <1>6, ApplyEffect DEF IsPut
  <2> QED
    BY <1>4, <2>1, <2>2, <2>3
<1>7. ASSUME Evict
      PROVE  Goal
  <2>1. rows' = rows /\ Pending' = {}
    BY <1>7, EvictEffect DEF Evict
  <2>2. \A r \in Requests : seenAt'[r] \in {rows[r], Never}
    BY <1>7, EvictEffect
  <2> QED
    BY <1>4, <2>1, <2>2
<1>8. ASSUME NEW a \in Arrivals, NEW r \in Requests, Accept(a, r)
      PROVE  Goal
  <2>1. /\ sent[r] # Never /\ sent[r] <= now + ahead[r] /\ sent[r] <= now + Skew
        /\ \A q \in Requests :
             seenAt'[q] \in {Never, seenAt[q]} \/ (q = r /\ seenAt'[q] = now)
    BY <1>8, AcceptEffect DEF TimesInv
  <2>2. writes' = writes /\ rows' = rows
    BY <1>8 DEF Accept, storage
  <2> QED
    BY <1>4, <2>1, <2>2 DEF Pending, IsPut, Fits
<1>9. ASSUME NEW a \in Arrivals, PutRows(a)
      PROVE  Goal
  <2>1. seenAt' = seenAt /\ rows' = rows
    BY <1>9 DEF PutRows
  <2>2. ASSUME NEW r \in Requests, NEW i \in Pending', IsPut(i, r)'
        PROVE  Fits(r, writes'[i].seenAt)
    <3>1. CASE i \in Pending
      BY <1>4, <1>9, <2>2, <3>1, PutRowsEffect DEF IsPut
    <3>2. CASE i \notin Pending
      <4>1. PICK q \in dirty : writes'[i] = Put(a, q)
        BY <1>9, <3>2, PutRowsEffect
      <4>2. q = r /\ writes'[i].seenAt = seenAt[r] /\ r \in Known
        BY <2>2, <4>1 DEF IsPut, Put, Typed
      <4> QED
        BY <1>4, <4>2 DEF Known
    <3> QED
      BY <3>1, <3>2
  <2> QED
    BY <1>4, <2>1, <2>2
<1>10. ASSUME NEW a \in Arrivals, NEW w \in Writes, w.kind # "put",
              writes' = Append(writes, w), UNCHANGED <<seenAt, rows>>
       PROVE  Goal
  <2>1. ASSUME NEW r \in Requests, NEW i \in Pending', IsPut(i, r)'
        PROVE  Fits(r, writes'[i].seenAt)
    <3>1. i \in Pending /\ writes'[i] = writes[i]
      BY <1>10, <2>1, AppendEffect DEF IsPut
    <3> QED
      BY <1>4, <2>1, <3>1 DEF IsPut
  <2> QED
    BY <1>4, <1>10, <2>1
<1>11. ASSUME NEW a \in Arrivals, DeleteRows(a)
       PROVE  Goal
  <2>1. arrival[a].deletes \in SUBSET Requests
    BY DEF Typed
  <2> QED
    BY <1>10, <1>11, <2>1, DeleteIsWrite DEF DeleteRows, memory
<1>12. ASSUME NEW a \in Arrivals, PutIndex(a)
       PROVE  Goal
  BY <1>10, <1>12, IndexIsWrite DEF PutIndex, memory, IndexKeys, Known
<1> HIDE DEF Goal
<1>13. Goal
  <2>1. ASSUME Idle \/ \E a \in Arrivals : Turns(a) \/ Answer(a)
        PROVE  Goal
    BY <1>5, <2>1 DEF Idle, Turns, Answer, storage, memory
  <2> QED
    BY <2>1, <1>6, <1>7, <1>8, <1>9, <1>11, <1>12, StepKinds DEF Step
<1>14. ASSUME NEW r \in Requests
       PROVE  /\ seenAt'[r] # Never => Fits(r, seenAt[r])'
              /\ rows'[r] # Never => Fits(r, rows[r])'
              /\ \A i \in Pending' : IsPut(i, r)' => Fits(r, writes[i].seenAt)'
  <2>1. /\ seenAt'[r] # Never => Fits(r, seenAt'[r])
        /\ rows'[r] # Never => Fits(r, rows'[r])
        /\ \A i \in Pending' : IsPut(i, r)' => Fits(r, writes'[i].seenAt)
    BY <1>13 DEF Goal
  <2> QED
    BY <2>1, <1>1, <1>3 DEF Fits
<1> QED
  BY <1>1, <1>2, <1>14 DEF TimesInv

LEMMA GoneInductive ==
  ASSUME Typed, TimesInv, GoneInv, [Next]_vars
  PROVE  GoneInv'
<1> DEFINE Gone(r) == /\ r \in deleted' => Forgettable(r)'
                      /\ \A a \in Arrivals : r \in arrival'[a].deletes => Forgettable(r)'
                      /\ \A i \in Pending' : IsDelete(i, r)' => Forgettable(r)'
           Goal    == \A r \in Requests : Gone(r)
<1>1. \A r \in Requests :
        /\ r \in deleted => Forgettable(r)'
        /\ \A a \in Arrivals : r \in arrival[a].deletes => Forgettable(r)'
        /\ \A i \in Pending : IsDelete(i, r) => Forgettable(r)'
  BY ForgettableStays DEF GoneInv
<1>2. ASSUME Idle
      PROVE  Goal
  <2>1. arrival' = arrival /\ deleted' = deleted /\ writes' = writes
    BY <1>2 DEF Idle, storage
  <2> QED
    BY <1>1, <2>1 DEF Pending, IsDelete
<1>3. ASSUME ApplyWrite
      PROVE  Goal
  <2>1. arrival' = arrival /\ deleted' = deleted
    BY <1>3 DEF ApplyWrite, memory
  <2> QED
    BY <1>1, <1>3, <2>1, ApplyEffect DEF IsDelete
<1>4. ASSUME Evict
      PROVE  Goal
  <2>1. deleted' = {} /\ Pending' = {}
    BY <1>4, EvictEffect DEF Evict
  <2>2. \A a \in Arrivals : arrival'[a].deletes \in {{}, arrival[a].deletes}
    BY <1>4, EvictEffect
  <2> QED
    BY <1>1, <2>1, <2>2
<1>5. ASSUME NEW a \in Arrivals, Turns(a)
      PROVE  Goal
  <2>1. \A b \in Arrivals : arrival'[b].deletes \in {{}, arrival[b].deletes}
    BY <1>5, TurnsEffect
  <2> QED
    BY <1>1, <1>5, <2>1, TurnsEffect DEF Pending, IsDelete
<1>6. ASSUME NEW a \in Arrivals, NEW r \in Requests, Accept(a, r)
      PROVE  Goal
  <2>1. \A b \in Arrivals : arrival'[b].deletes \in {{}, arrival[b].deletes}
    BY <1>6, ArrivesEffect DEF Accept, Busy
  <2>2. \A q \in deleted' : q \in deleted \/ Forgettable(q)'
    BY <1>6, AcceptEffect
  <2>3. writes' = writes
    BY <1>6 DEF Accept, storage
  <2> QED
    BY <1>1, <2>1, <2>2, <2>3 DEF Pending, IsDelete
<1>7. ASSUME NEW a \in Arrivals, PutRows(a)
      PROVE  Goal
  <2>1. \A b \in Arrivals : arrival'[b].deletes \in {deleted, arrival[b].deletes}
    BY <1>7, PutsEffect
  <2>2. ASSUME NEW r \in Requests, NEW i \in Pending', IsDelete(i, r)'
        PROVE  Forgettable(r)'
    <3>1. ASSUME i \notin Pending
          PROVE  FALSE
      <4>1. PICK q \in dirty : writes'[i] = Put(a, q)
        BY <1>7, <3>1, PutRowsEffect
      <4>2. writes'[i].kind = "put"
        BY <4>1 DEF Put
      <4> QED
        BY <2>2, <4>2 DEF IsDelete
    <3> QED
      BY <1>1, <1>7, <2>2, <3>1, PutRowsEffect DEF IsDelete
  <2>3. deleted' = {}
    BY <1>7 DEF PutRows
  <2> QED
    BY <1>1, <2>1, <2>2, <2>3
<1>8. ASSUME NEW a \in Arrivals, DeleteRows(a)
      PROVE  Goal
  <2>1. \A b \in Arrivals : arrival'[b].deletes = arrival[b].deletes
    BY <1>8, GoesEffect DEF DeleteRows, Busy, Phases
  <2>2. ASSUME NEW r \in Requests, NEW i \in Pending', IsDelete(i, r)'
        PROVE  Forgettable(r)'
    <3> DEFINE w == Delete(a, arrival[a].deletes)
    <3>1. arrival[a].deletes \in SUBSET Requests
      BY DEF Typed
    <3>2. w \in Writes /\ w.keys = arrival[a].deletes
      BY <3>1, DeleteIsWrite
    <3>3. writes' = Append(writes, w)
      BY <1>8 DEF DeleteRows
    <3> HIDE DEF w
    <3>4. CASE i \in Pending
      BY <1>1, <2>2, <3>2, <3>3, <3>4, AppendEffect DEF IsDelete
    <3>5. CASE i \notin Pending
      BY <1>1, <2>2, <3>2, <3>3, <3>5, AppendEffect DEF IsDelete
    <3> QED
      BY <3>4, <3>5
  <2>3. deleted' = deleted
    BY <1>8 DEF DeleteRows, memory
  <2> QED
    BY <1>1, <2>1, <2>2, <2>3
<1>9. ASSUME NEW a \in Arrivals, PutIndex(a)
      PROVE  Goal
  <2>1. \A b \in Arrivals : arrival'[b].deletes = arrival[b].deletes
    BY <1>9, GoesEffect DEF PutIndex, Busy, Phases
  <2>2. ASSUME NEW r \in Requests, NEW i \in Pending', IsDelete(i, r)'
        PROVE  Forgettable(r)'
    <3> DEFINE w == Index(a, IndexKeys)
    <3>1. w \in Writes /\ w.kind = "index"
      BY IndexIsWrite DEF IndexKeys, Known
    <3>2. writes' = Append(writes, w)
      BY <1>9 DEF PutIndex
    <3> HIDE DEF w
    <3> QED
      BY <1>1, <2>2, <3>1, <3>2, AppendEffect DEF IsDelete
  <2>3. deleted' = deleted
    BY <1>9 DEF PutIndex, memory
  <2> QED
    BY <1>1, <2>1, <2>2, <2>3
<1>10. ASSUME NEW a \in Arrivals, Answer(a)
       PROVE  Goal
  <2>1. \A b \in Arrivals : arrival'[b].deletes = arrival[b].deletes
    BY <1>10, GoesEffect DEF Answer, Results
  <2> QED
    BY <1>1, <1>10, <2>1 DEF Answer, memory, storage, Pending, IsDelete
<1> HIDE DEF Goal
<1>11. Goal
  BY <1>2, <1>3, <1>4, <1>5, <1>6, <1>7, <1>8, <1>9, <1>10, StepKinds DEF Step
<1> QED
  BY <1>11 DEF Goal, GoneInv

LEMMA AdmittedBefore ==
  ASSUME Typed, [Next]_vars, NEW b \in Arrivals, Admitted(b)'
  PROVE  \/ /\ Admitted(b) /\ arrival'[b].request = arrival[b].request
            /\ Evict => arrival[b].pc = "answered"
         \/ Accept(b, arrival'[b].request)
<1> DEFINE Goal == \/ /\ Admitted(b) /\ arrival'[b].request = arrival[b].request
                      /\ Evict => arrival[b].pc = "answered"
                   \/ Accept(b, arrival'[b].request)
<1>1. /\ arrival'[b].request # None
      /\ arrival'[b].pc \in Busy \cup {"answered"}
  BY DEF Admitted
<1>2. ASSUME arrival' = arrival, ~Evict
      PROVE  Goal
  BY <1>2 DEF Admitted
<1>3. ASSUME Evict
      PROVE  Goal
  BY <1>1, <1>3, EvictEffect DEF Admitted, Busy
<1>4. ASSUME ~Evict, NEW a \in Arrivals, Step(a)
      PROVE  Goal
  <2>1. CASE b # a
    <3>1. arrival'[b] = arrival[b]
      <4>1. CASE Turns(a)
        BY <2>1, <4>1, TurnsEffect
      <4>2. ASSUME NEW r \in Requests, Accept(a, r)
            PROVE  arrival'[b] = arrival[b]
        BY <2>1, <4>2, ArrivesEffect DEF Accept, Busy
      <4>3. CASE PutRows(a)
        BY <2>1, <4>3, PutsEffect
      <4>4. CASE DeleteRows(a) \/ PutIndex(a)
        BY <2>1, <4>4, GoesEffect DEF DeleteRows, PutIndex, Busy, Phases
      <4>5. CASE Answer(a)
        BY <2>1, <4>5, GoesEffect DEF Answer, Results
      <4> QED
        BY <1>4, <4>1, <4>2, <4>3, <4>4, <4>5 DEF Step
    <3> QED
      BY <1>4, <3>1 DEF Admitted
  <2>2. CASE b = a
    <3>1. CASE Turns(a)
      BY <1>1, <2>2, <3>1, TurnsEffect
    <3>2. ASSUME NEW r \in Requests, Accept(a, r)
          PROVE  Goal
      <4>1. arrival'[a].request = r
        BY <3>2, ArrivesEffect DEF Accept, Busy
      <4> QED
        BY <2>2, <3>2, <4>1
    <3>3. CASE PutRows(a)
      BY <1>1, <1>4, <2>2, <3>3, PutsEffect DEF PutRows, Admitted, Busy
    <3>4. CASE DeleteRows(a) \/ PutIndex(a)
      BY <1>1, <1>4, <2>2, <3>4, GoesEffect DEF DeleteRows, PutIndex, Admitted, Busy, Phases
    <3>5. CASE Answer(a)
      BY <1>1, <1>4, <2>2, <3>5, GoesEffect DEF Answer, Admitted, Busy, Phases, Results
    <3> QED
      BY <1>4, <3>1, <3>2, <3>3, <3>4, <3>5 DEF Step
  <2> QED
    BY <2>1, <2>2
<1> HIDE DEF Goal
<1>5. Goal
  <2>1. CASE Evict
    BY <2>1, <1>3
  <2>2. CASE ~Evict /\ (Idle \/ ApplyWrite)
    BY <1>2, <2>2 DEF Idle, ApplyWrite
  <2> QED
    BY <2>1, <2>2, <1>4, StepKinds
<1> QED
  BY <1>5 DEF Goal

\* But for an eviction, only a forgettable nonce is forgotten.
LEMMA KnownStays ==
  ASSUME Typed, TimesInv, [Next]_vars, ~Evict, NEW r \in Known
  PROVE  (r \in Known' /\ seenAt'[r] = seenAt[r]) \/ Forgettable(r)'
<1>1. CASE seenAt' = seenAt
  BY <1>1 DEF Known
<1>2. ASSUME NEW a \in Arrivals, NEW q \in Requests, Accept(a, q)
      PROVE  (r \in Known' /\ seenAt'[r] = seenAt[r]) \/ Forgettable(r)'
  BY <1>2, AcceptEffect DEF Known
<1>3. seenAt' = seenAt \/ \E a \in Arrivals, q \in Requests : Accept(a, q)
  BY StepKinds DEF Step, Idle, Turns, PutRows, DeleteRows, PutIndex, Answer, ApplyWrite,
                   memory
<1> QED
  BY <1>1, <1>2, <1>3

LEMMA MemoryInductive ==
  ASSUME Inv, [Next]_vars
  PROVE  MemoryInv'
<1> USE DEF Inv
<1>1. ASSUME NEW b \in Arrivals, Admitted(b)', NEW r \in Requests, r = arrival'[b].request
      PROVE  r \in Known' \/ Forgettable(r)'
  <2>1. CASE Accept(b, r)
    <3>1. \E gone \in SUBSET Known : Known' = (Known \cup {r}) \ gone
      BY <2>1, AcceptEffect
    <3>2. r \notin Known
      BY <2>1, AcceptEffect
    <3> QED
      BY <3>1, <3>2
  <2>2. CASE /\ Admitted(b) /\ r = arrival[b].request
             /\ Evict => arrival[b].pc = "answered"
    <3>1. CASE Forgettable(r)
      BY <3>1, ForgettableStays
    <3>2. CASE ~Forgettable(r) /\ ~Evict
      <4>1. r \in Known
        BY <2>2, <3>2 DEF MemoryInv
      <4> QED
        BY <3>2, <4>1, KnownStays
    <3>3. CASE ~Forgettable(r) /\ Evict
      <4>1. r \in index /\ rows[r] # Never
        BY <2>2, <3>3 DEF KeptInv, Kept, InStore, Forgettable
      <4> QED
        BY <3>3, <4>1, EvictEffect DEF Known
    <3> QED
      BY <3>1, <3>2, <3>3
  <2> QED
    BY <1>1, <2>1, <2>2, AdmittedBefore
<1>2. ASSUME NEW r \in Requests, NEW i \in Pending', IsPut(i, r)'
      PROVE  r \in Known' \/ Forgettable(r)'
  <2> DEFINE Before == r \in Known \/ Forgettable(r)
  <2>0. \A k \in Pending : IsPut(k, r) => Before
    BY DEF MemoryInv
  <2>1. ~Evict
    BY <1>2, EvictEffect
  <2>2. ASSUME writes' = writes
        PROVE  Before
    BY <1>2, <2>0, <2>2 DEF Pending, IsPut
  <2>3. ASSUME ApplyWrite
        PROVE  Before
    BY <1>2, <2>0, <2>3, ApplyEffect DEF IsPut
  <2>4. ASSUME NEW a \in Arrivals, PutRows(a)
        PROVE  Before
    <3>1. CASE i \in Pending
      BY <1>2, <2>0, <2>4, <3>1, PutRowsEffect DEF IsPut
    <3>2. CASE i \notin Pending
      <4>1. PICK q \in dirty : writes'[i] = Put(a, q)
        BY <2>4, <3>2, PutRowsEffect
      <4>2. writes'[i].row = q
        BY <4>1 DEF Put
      <4> QED
        BY <1>2, <4>2 DEF IsPut, Typed
    <3> QED
      BY <3>1, <3>2
  <2>5. ASSUME NEW w \in Writes, w.kind # "put", writes' = Append(writes, w)
        PROVE  Before
    BY <1>2, <2>0, <2>5, AppendEffect DEF IsPut
  <2>6. ASSUME NEW a \in Arrivals, DeleteRows(a)
        PROVE  Before
    <3>1. arrival[a].deletes \in SUBSET Requests
      BY DEF Typed
    <3> QED
      BY <2>5, <2>6, <3>1, DeleteIsWrite DEF DeleteRows
  <2>7. ASSUME NEW a \in Arrivals, PutIndex(a)
        PROVE  Before
    BY <2>5, <2>7, IndexIsWrite DEF PutIndex, IndexKeys, Known
  <2> HIDE DEF Before
  <2>8. Before
    <3>1. Idle \/ (\E a \in Arrivals : Turns(a) \/ Answer(a) \/ \E q \in Requests : Accept(a, q))
            => writes' = writes
      BY DEF Idle, Turns, Answer, Accept, storage
    <3> QED
      BY <2>1, <2>2, <2>3, <2>4, <2>6, <2>7, <3>1, StepKinds DEF Step
  <2>9. CASE Forgettable(r)
    BY <2>9, ForgettableStays
  <2>10. CASE r \in Known
    BY <2>1, <2>9, <2>10, KnownStays
  <2> QED
    BY <2>8, <2>9, <2>10 DEF Before
<1>3. ASSUME NEW b \in Arrivals, Admitted(b)'
      PROVE  arrival'[b].request \in Requests
  <2>1. Typed'
    BY TypedInductive
  <2> QED
    BY <1>3, <2>1 DEF Typed, Admitted
<1> QED
  BY <1>1, <1>2, <1>3 DEF MemoryInv

LEMMA OnceInductive ==
  ASSUME Inv, [Next]_vars
  PROVE  OnceInv'
<1> USE DEF Inv
<1> SUFFICES ASSUME NEW a \in Arrivals, NEW b \in Arrivals, Admitted(a)', Admitted(b)',
                    NEW r, r = arrival'[a].request, r = arrival'[b].request
             PROVE  a = b \/ CrowdedOut(r)'
  <2>1. ASSUME NEW a \in Arrivals, NEW b \in Arrivals, Admitted(a)', Admitted(b)',
               arrival'[a].request = arrival'[b].request
        PROVE  a = b \/ CrowdedOut(arrival[a].request)'
    BY <2>1 DEF CrowdedOut
  <2> QED
    BY <2>1 DEF OnceInv
<1>1. r \in Requests
  <2>1. Typed'
    BY TypedInductive
  <2> QED
    BY <2>1 DEF Typed, Admitted
<1>2. ASSUME NEW x \in Arrivals, NEW y \in Arrivals, Admitted(x), arrival[x].request = r
      PROVE  ~Accept(y, r) \/ CrowdedOut(r)
  <2>1. r \in Known \/ Forgettable(r)
    BY <1>2 DEF MemoryInv
  <2> QED
    BY <1>1, <2>1, AcceptEffect DEF Forgettable
<1>3. Accept(a, r) /\ Accept(b, r) => a = b
  <2>1. ASSUME Accept(a, r), Accept(b, r), a # b
        PROVE  FALSE
    <3>1. arrival'[a] = arrival[a] /\ arrival[a].pc = "none"
      BY <1>1, <2>1, ArrivesEffect DEF Accept, Busy
    <3> QED
      BY <3>1 DEF Admitted, Busy, Phases
  <2> QED
    BY <2>1
<1>4. (Admitted(a) /\ arrival[a].request = r) \/ Accept(a, r)
  BY AdmittedBefore
<1>5. (Admitted(b) /\ arrival[b].request = r) \/ Accept(b, r)
  BY AdmittedBefore
<1>6. CrowdedOut(r) => CrowdedOut(r)'
  BY <1>1, ForgettableStays
<1>7. a = b \/ CrowdedOut(r)
  <2>1. CASE Admitted(a) /\ arrival[a].request = r /\ Admitted(b) /\ arrival[b].request = r
    BY <2>1 DEF OnceInv
  <2> QED
    BY <2>1, <1>2, <1>3, <1>4, <1>5
<1> QED
  BY <1>6, <1>7

LEMMA RowsInductive ==
  ASSUME Inv, [Next]_vars
  PROVE  RowsInv'
<1> USE DEF Inv
<1> SUFFICES ASSUME NEW r \in Known', ~CrowdedOut(r)'
             PROVE  /\ \A b \in Arrivals :
                         arrival'[b].pc = "putting" => r \notin arrival'[b].deletes
                    /\ \A i \in Pending' : ~IsDelete(i, r)'
                    /\ \A i \in Pending' : IsPut(i, r)' => writes'[i].seenAt = seenAt'[r]
                    /\ \/ r \in dirty' \/ rows'[r] = seenAt'[r]
                       \/ \E i \in Pending' : IsPut(i, r)'
  BY DEF RowsInv
<1> DEFINE NotLeaving == \A b \in Arrivals :
                           arrival'[b].pc = "putting" => r \notin arrival'[b].deletes
           NotDeleted == \A i \in Pending' : ~IsDelete(i, r)'
           PutAsSeen  == \A i \in Pending' : IsPut(i, r)' => writes'[i].seenAt = seenAt'[r]
           Somewhere  == \/ r \in dirty' \/ rows'[r] = seenAt'[r]
                         \/ \E i \in Pending' : IsPut(i, r)'
           Goal       == NotLeaving /\ NotDeleted /\ PutAsSeen /\ Somewhere
<1>1. r \in Requests /\ ~CrowdedOut(r)
  <2>1. r \in Requests
    BY DEF Known
  <2> QED
    BY <2>1, ForgettableStays
<1>2. r \in Known =>
        /\ \A b \in Arrivals : arrival[b].pc = "putting" => r \notin arrival[b].deletes
        /\ \A i \in Pending : ~IsDelete(i, r)
        /\ \A i \in Pending : IsPut(i, r) => writes[i].seenAt = seenAt[r]
        /\ r \in dirty \/ rows[r] = seenAt[r] \/ \E i \in Pending : IsPut(i, r)
  BY <1>1 DEF RowsInv
<1>3. seenAt' = seenAt => r \in Known
  BY DEF Known
<1>4. ASSUME UNCHANGED <<seenAt, dirty, writes, rows>>
      PROVE  NotDeleted /\ PutAsSeen /\ Somewhere
  BY <1>2, <1>3, <1>4 DEF Pending, IsPut, IsDelete
<1>5. ASSUME Idle
      PROVE  Goal
  <2>1. arrival' = arrival /\ UNCHANGED <<seenAt, dirty, writes, rows>>
    BY <1>5 DEF Idle, storage
  <2> QED
    BY <1>2, <1>3, <1>4, <2>1
<1>6. ASSUME ApplyWrite
      PROVE  Goal
  <2>1. arrival' = arrival /\ seenAt' = seenAt /\ dirty' = dirty
    BY <1>6 DEF ApplyWrite, memory
  <2>2. NotLeaving
    BY <1>2, <1>3, <2>1
  <2>3. NotDeleted /\ PutAsSeen
    BY <1>2, <1>3, <1>6, <2>1, ApplyEffect DEF IsPut, IsDelete
  <2>4. Somewhere
    <3>1. CASE IsPut(1, r)
      BY <1>1, <1>2, <1>3, <1>6, <2>1, <3>1, ApplyEffect
    <3>2. CASE ~IsPut(1, r) /\ rows[r] = seenAt[r]
      BY <1>1, <1>2, <1>3, <1>6, <2>1, <3>2, ApplyEffect
    <3>3. ASSUME NEW i \in Pending, IsPut(i, r), ~IsPut(1, r)
          PROVE  Somewhere
      <4>1. i - 1 \in Pending' /\ writes'[i - 1] = writes[i]
        BY <1>6, <3>3, ApplyEffect
      <4> QED
        BY <3>3, <4>1 DEF IsPut
    <3> QED
      BY <1>2, <1>3, <2>1, <3>1, <3>2, <3>3
  <2> QED
    BY <2>2, <2>3, <2>4
<1>7. ASSUME Evict
      PROVE  Goal
  <2>1. Pending' = {} /\ \A b \in Arrivals : arrival'[b].pc # "putting"
    BY <1>7, EvictEffect DEF Busy, Phases
  <2>2. rows'[r] = seenAt'[r]
    BY <1>1, <1>7, EvictEffect DEF Evict, Known
  <2> QED
    BY <2>1, <2>2
<1>8. ASSUME NEW a \in Arrivals, Turns(a)
      PROVE  Goal
  <2>1. \A b \in Arrivals : arrival'[b] = arrival[b] \/ arrival'[b].pc # "putting"
    BY <1>8, TurnsEffect
  <2>2. UNCHANGED <<seenAt, dirty, writes, rows>>
    BY <1>8, TurnsEffect
  <2> QED
    BY <1>2, <1>3, <1>4, <2>1, <2>2
<1>9. ASSUME NEW a \in Arrivals, NEW q \in Requests, Accept(a, q)
      PROVE  Goal
  <2>1. PICK gone \in SUBSET Known :
          /\ \A p \in Requests :
               seenAt'[p] = IF p \in gone THEN Never ELSE IF p = q THEN now ELSE seenAt[p]
          /\ Known' = (Known \cup {q}) \ gone
          /\ dirty' = (dirty \cup {q}) \ gone
    BY <1>9, AcceptEffect
  <2>2. q \notin Known /\ (r = q => ~Forgettable(q))
    BY <1>1, <1>9, AcceptEffect DEF Forgettable
  <2>3. UNCHANGED <<writes, rows>>
    BY <1>9 DEF Accept, storage
  <2>4. \A b \in Arrivals : arrival'[b] = arrival[b] \/ arrival'[b].pc # "putting"
    BY <1>9, ArrivesEffect DEF Accept, Busy
  <2>5. CASE r = q
    <3>1. /\ \A b \in Arrivals : r \notin arrival[b].deletes
          /\ \A i \in Pending : ~IsDelete(i, r)
      BY <2>2, <2>5 DEF GoneInv
    <3>2. \A i \in Pending : ~IsPut(i, r)
      BY <2>2, <2>5 DEF MemoryInv
    <3>3. r \in dirty'
      BY <2>1, <2>5
    <3> QED
      BY <2>3, <2>4, <3>1, <3>2, <3>3 DEF Pending, IsPut, IsDelete
  <2>6. CASE r # q
    <3>1. r \in Known /\ seenAt'[r] = seenAt[r] /\ (r \in dirty => r \in dirty')
      BY <1>1, <2>1, <2>6
    <3> QED
      BY <1>2, <2>3, <2>4, <3>1 DEF Pending, IsPut, IsDelete
  <2> QED
    BY <2>5, <2>6
<1>10. ASSUME NEW a \in Arrivals, PutRows(a)
       PROVE  Goal
  <2>1. seenAt' = seenAt /\ rows' = rows /\ r \in Known
    BY <1>3, <1>10 DEF PutRows
  <2>2. NotLeaving
    <3>1. \A b \in Arrivals : arrival'[b] = arrival[b] \/ arrival'[b].deletes = deleted
      BY <1>10, PutsEffect
    <3>2. r \notin deleted
      BY <2>1 DEF Typed
    <3> QED
      BY <1>2, <2>1, <3>1, <3>2
  <2>3. ASSUME NEW i \in Pending' \ Pending
        PROVE  /\ writes'[i].kind = "put"
               /\ IsPut(i, r)' => writes'[i].seenAt = seenAt[r]
    <3>1. PICK q \in dirty : writes'[i] = Put(a, q)
      BY <1>10, PutRowsEffect
    <3>2. /\ writes'[i].kind = "put" /\ writes'[i].row = q
          /\ writes'[i].seenAt = seenAt[q]
      BY <3>1 DEF Put
    <3> QED
      BY <3>2 DEF IsPut
  <2>4. NotDeleted /\ PutAsSeen
    BY <1>2, <1>10, <2>1, <2>3, PutRowsEffect DEF IsPut, IsDelete
  <2>5. Somewhere
    <3>1. CASE r \in dirty
      <4>1. PICK i \in Pending' \ Pending : writes'[i] = Put(a, r)
        BY <1>10, <3>1, PutRowsEffect
      <4> QED
        BY <4>1 DEF IsPut, Put
    <3>2. ASSUME NEW i \in Pending, IsPut(i, r)
          PROVE  Somewhere
      <4>1. i \in Pending' /\ writes'[i] = writes[i]
        BY <1>10, PutRowsEffect DEF Pending, Typed
      <4> QED
        BY <3>2, <4>1 DEF IsPut
    <3>3. CASE rows[r] = seenAt[r]
      BY <2>1, <3>3
    <3> QED
      BY <1>2, <2>1, <3>1, <3>2, <3>3
  <2> QED
    BY <2>2, <2>4, <2>5
<1>11. ASSUME NEW w \in Writes, w.kind # "put", w.kind = "delete" => r \notin w.keys,
              writes' = Append(writes, w), UNCHANGED <<seenAt, dirty, rows>>
       PROVE  NotDeleted /\ PutAsSeen /\ Somewhere
  <2>1. ASSUME NEW i \in Pending'
        PROVE  ~IsDelete(i, r)' /\ (IsPut(i, r)' => writes'[i].seenAt = seenAt'[r])
    <3>1. CASE i \in Pending
      BY <1>2, <1>3, <1>11, <3>1, AppendEffect DEF IsPut, IsDelete
    <3>2. CASE i \notin Pending
      <4>1. writes'[i] = w
        BY <1>11, <3>2, AppendEffect
      <4> QED
        BY <1>11, <4>1 DEF IsPut, IsDelete
    <3> QED
      BY <3>1, <3>2
  <2>2. ASSUME NEW i \in Pending, IsPut(i, r)
        PROVE  Somewhere
    BY <1>11, <2>2, AppendEffect DEF IsPut
  <2> QED
    BY <1>2, <1>3, <1>11, <2>1, <2>2
<1>12. ASSUME NEW a \in Arrivals, DeleteRows(a)
       PROVE  Goal
  <2>1. seenAt' = seenAt /\ rows' = rows /\ dirty' = dirty
    BY <1>12 DEF DeleteRows, memory
  <2>2. \A b \in Arrivals : arrival'[b] = arrival[b] \/ arrival'[b].pc # "putting"
    BY <1>12, GoesEffect DEF DeleteRows, Busy, Phases
  <2>3. arrival[a].deletes \in SUBSET Requests /\ r \notin arrival[a].deletes
    BY <1>2, <1>3, <1>12, <2>1 DEF Typed, DeleteRows
  <2>4. NotDeleted /\ PutAsSeen /\ Somewhere
    <3> DEFINE w == Delete(a, arrival[a].deletes)
    <3>1. w \in Writes /\ w.kind = "delete" /\ w.keys = arrival[a].deletes
      BY <2>3, DeleteIsWrite
    <3>2. writes' = Append(writes, w)
      BY <1>12 DEF DeleteRows
    <3> HIDE DEF w
    <3> QED
      BY <1>11, <2>1, <2>3, <3>1, <3>2
  <2> QED
    BY <1>2, <1>3, <2>1, <2>2, <2>4
<1>13. ASSUME NEW a \in Arrivals, PutIndex(a)
       PROVE  Goal
  <2>1. seenAt' = seenAt /\ rows' = rows /\ dirty' = dirty
    BY <1>13 DEF PutIndex, memory
  <2>2. \A b \in Arrivals : arrival'[b] = arrival[b] \/ arrival'[b].pc # "putting"
    BY <1>13, GoesEffect DEF PutIndex, Busy, Phases
  <2>3. NotDeleted /\ PutAsSeen /\ Somewhere
    BY <1>11, <1>13, <2>1, IndexIsWrite, ZenonT(30) DEF PutIndex, IndexKeys, Known
  <2> QED
    BY <1>2, <1>3, <2>1, <2>2, <2>3
<1>14. ASSUME NEW a \in Arrivals, Answer(a)
       PROVE  Goal
  <2>1. \A b \in Arrivals : arrival'[b] = arrival[b] \/ arrival'[b].pc # "putting"
    BY <1>14, GoesEffect DEF Answer, Results
  <2>2. UNCHANGED <<seenAt, dirty, writes, rows>>
    BY <1>14 DEF Answer, memory, storage
  <2> QED
    BY <1>2, <1>3, <1>4, <2>1, <2>2
<1> HIDE DEF Goal
<1>15. Goal
  BY <1>5, <1>6, <1>7, <1>8, <1>9, <1>10, <1>12, <1>13, <1>14, StepKinds DEF Step
<1> QED
  BY <1>15 DEF Goal

\* How an admitted arrival gets to where it is.
LEMMA AdmittedMoves ==
  ASSUME Typed, [Next]_vars, NEW b \in Arrivals, Admitted(b), Admitted(b)'
  PROVE  /\ arrival'[b].pc # "handled" => arrival[b].pc # "handled" \/ PutRows(b)
         /\ arrival'[b].pc = "indexing" => arrival[b].pc = "indexing" \/ PutIndex(b)
         /\ arrival'[b].pc = "answered" => arrival[b].pc = "answered" \/ Answer(b)
<1> DEFINE Goal ==
      /\ arrival'[b].pc # "handled" => arrival[b].pc # "handled" \/ PutRows(b)
      /\ arrival'[b].pc = "indexing" => arrival[b].pc = "indexing" \/ PutIndex(b)
      /\ arrival'[b].pc = "answered" => arrival[b].pc = "answered" \/ Answer(b)
<1>1. CASE arrival'[b] = arrival[b]
  BY <1>1
<1>2. CASE Idle \/ ApplyWrite
  BY <1>1, <1>2 DEF Idle, ApplyWrite
<1>3. CASE Evict
  <2>1. arrival'[b] = arrival[b] \/ arrival'[b].pc = "over"
    BY <1>3, EvictEffect
  <2> QED
    BY <1>1, <2>1 DEF Admitted, Busy, Phases
<1>4. ASSUME NEW a \in Arrivals, Turns(a)
      PROVE  Goal
  <2>1. a # b
    BY <1>4 DEF Turns, Admitted, Busy, Phases
  <2> QED
    BY <1>1, <1>4, <2>1, TurnsEffect
<1>5. ASSUME NEW a \in Arrivals, NEW r \in Requests, Accept(a, r)
      PROVE  Goal
  <2>1. a # b
    BY <1>5 DEF Accept, Admitted, Busy, Phases
  <2>2. arrival'[b] = arrival[b]
    BY <1>5, <2>1, ArrivesEffect DEF Accept, Busy
  <2> QED
    BY <1>1, <2>2
<1>6. ASSUME NEW a \in Arrivals, PutRows(a)
      PROVE  Goal
  BY <1>1, <1>6, PutsEffect
<1>7. ASSUME NEW a \in Arrivals, DeleteRows(a)
      PROVE  Goal
  <2>1. arrival'[b] = arrival[b] \/ (arrival'[b].pc = "deleting" /\ arrival[b].pc = "putting")
    BY <1>7, GoesEffect DEF DeleteRows, Busy, Phases
  <2> QED
    BY <1>1, <2>1
<1>8. ASSUME NEW a \in Arrivals, PutIndex(a)
      PROVE  Goal
  <2>1. \/ arrival'[b] = arrival[b]
        \/ a = b /\ arrival'[b].pc = "indexing" /\ arrival[b].pc \in {"putting", "deleting"}
    BY <1>8, GoesEffect DEF PutIndex, Busy, Phases
  <2> QED
    BY <1>1, <1>8, <2>1
<1>9. ASSUME NEW a \in Arrivals, Answer(a)
      PROVE  Goal
  <2>1. \/ arrival'[b] = arrival[b]
        \/ a = b /\ arrival'[b].pc \in Results /\ arrival[b].pc = "indexing"
    BY <1>9, GoesEffect DEF Answer, Results
  <2> QED
    BY <1>1, <1>9, <2>1 DEF Results
<1> HIDE DEF Goal
<1>10. Goal
  <2>1. Idle \/ ApplyWrite \/ Evict => Goal
    BY <1>2, <1>3 DEF Goal
  <2> QED
    BY <2>1, <1>4, <1>5, <1>6, <1>7, <1>8, <1>9, StepKinds DEF Step
<1> QED
  BY <1>10 DEF Goal

\* Nothing that is issued leaves out a known request, or deletes one that is not expired.
LEMMA IssuedListsKnown ==
  ASSUME Inv, [Next]_vars, NEW r \in Known, NEW i \in Pending', i \notin Pending,
         ~ApplyWrite
  PROVE  Lists(i, r)'
<1> USE DEF Inv
<1>1. ASSUME NEW a \in Arrivals, PutRows(a)
      PROVE  Lists(i, r)'
  <2>1. \E q \in dirty : writes'[i] = Put(a, q)
    BY <1>1, PutRowsEffect
  <2>2. writes'[i].kind = "put"
    BY <2>1 DEF Put
  <2> QED
    BY <2>2 DEF Lists
<1>2. ASSUME NEW a \in Arrivals, DeleteRows(a)
      PROVE  Lists(i, r)'
  <2> DEFINE w == Delete(a, arrival[a].deletes)
  <2>1. w \in Writes /\ w.kind = "delete"
    BY DeleteIsWrite DEF Typed
  <2>2. writes' = Append(writes, w)
    BY <1>2 DEF DeleteRows
  <2> HIDE DEF w
  <2>3. writes'[i] = w
    BY <2>1, <2>2, AppendEffect
  <2> QED
    BY <2>1, <2>3 DEF Lists
<1>3. ASSUME NEW a \in Arrivals, PutIndex(a)
      PROVE  Lists(i, r)'
  <2> DEFINE w == Index(a, Known)
  <2>1. w \in Writes /\ w.keys = Known
    BY IndexIsWrite DEF Known
  <2>2. writes' = Append(writes, w)
    BY <1>3 DEF PutIndex, IndexKeys
  <2> HIDE DEF w
  <2>3. writes'[i] = w
    BY <2>1, <2>2, AppendEffect
  <2> QED
    BY <2>1, <2>3 DEF Lists
<1>4. Evict => Pending' = {}
  BY EvictEffect
<1>5. Idle \/ (\E a \in Arrivals : Turns(a) \/ Answer(a) \/ \E q \in Requests : Accept(a, q))
        => Pending' = Pending
  BY DEF Idle, Turns, Answer, Accept, storage, Pending
<1> QED
  BY <1>1, <1>2, <1>3, <1>4, <1>5, StepKinds DEF Step

\* But for ApplyWrite and Evict, what is pending stays where it is.
LEMMA PendingStays ==
  ASSUME Typed, [Next]_vars, ~ApplyWrite, ~Evict
  PROVE  /\ \A i \in Pending : i \in Pending' /\ writes'[i] = writes[i]
         /\ rows' = rows /\ index' = index
<1>1. ASSUME NEW a \in Arrivals, PutRows(a)
      PROVE  \A i \in Pending : i \in Pending' /\ writes'[i] = writes[i]
  <2>1. Len(writes) <= Len(writes') /\ Len(writes) \in Nat /\ Len(writes') \in Nat
    BY <1>1, PutRowsEffect DEF Typed
  <2> QED
    BY <1>1, <2>1, PutRowsEffect DEF Pending
<1>2. ASSUME NEW w \in Writes, writes' = Append(writes, w)
      PROVE  \A i \in Pending : i \in Pending' /\ writes'[i] = writes[i]
  BY <1>2, AppendEffect
<1>3. ASSUME NEW a \in Arrivals, DeleteRows(a)
      PROVE  \A i \in Pending : i \in Pending' /\ writes'[i] = writes[i]
  <2>1. arrival[a].deletes \in SUBSET Requests
    BY DEF Typed
  <2> QED
    BY <1>2, <1>3, <2>1, DeleteIsWrite, ZenonT(30) DEF DeleteRows
<1>4. ASSUME NEW a \in Arrivals, PutIndex(a)
      PROVE  \A i \in Pending : i \in Pending' /\ writes'[i] = writes[i]
  BY <1>2, <1>4, IndexIsWrite DEF PutIndex, IndexKeys, Known
<1>5. Idle \/ (\E a \in Arrivals : Turns(a) \/ Answer(a) \/ \E q \in Requests : Accept(a, q))
        => writes' = writes
  BY DEF Idle, Turns, Answer, Accept, storage
<1>6. rows' = rows /\ index' = index
  BY StepKinds DEF Step, Idle, Turns, Accept, PutRows, DeleteRows, PutIndex, Answer, storage
<1>7. \A i \in Pending : i \in Pending' /\ writes'[i] = writes[i]
  BY <1>1, <1>3, <1>4, <1>5, StepKinds DEF Step, Pending
<1> QED
  BY <1>6, <1>7

\* A known row that storage has is kept: only an expired one is deleted.
LEMMA StoredRowStays ==
  ASSUME Inv, [Next]_vars, NEW r \in Requests, rows[r] # Never, ~Forgettable(r)
  PROVE  rows'[r] # Never
<1>1. CASE ApplyWrite
  <2>1. 1 \in Pending /\ ~IsDelete(1, r)
    BY <1>1, ApplyEffect DEF Inv, GoneInv
  <2>2. writes[1] \in Writes
    BY <2>1 DEF Inv, Typed, Pending
  <2>3. IsPut(1, r) => writes[1].seenAt # Never
    BY <2>2, WriteFields, TimesAssumption DEF IsPut, Times, Never
  <2> QED
    BY <1>1, <2>1, <2>3, ApplyEffect DEF Inv
<1>2. CASE Evict
  BY <1>2 DEF Evict
<1> QED
  BY <1>1, <1>2, PendingStays DEF Inv

LEMMA InStoreStays ==
  ASSUME Inv, [Next]_vars, NEW r \in Known, ~Forgettable(r), InStore(r)
  PROVE  InStore(r)'
<1>1. r \in Requests /\ rows'[r] # Never
  BY StoredRowStays DEF Known, InStore
<1>2. r \in index /\ \A i \in Pending : Lists(i, r)
  BY DEF InStore
<1>3. CASE ApplyWrite
  BY <1>1, <1>2, <1>3, ApplyEffect DEF Inv, InStore, Lists
<1>4. CASE Evict
  BY <1>1, <1>2, <1>4, EvictEffect DEF Inv, InStore, Evict
<1>5. CASE ~ApplyWrite /\ ~Evict
  <2>1. r \in index'
    BY <1>2, <1>5, PendingStays DEF Inv
  <2>2. ASSUME NEW i \in Pending'
        PROVE  Lists(i, r)'
    <3>1. CASE i \in Pending
      BY <1>2, <1>5, <3>1, PendingStays DEF Inv, Lists
    <3>2. CASE i \notin Pending
      BY <1>5, <3>2, IssuedListsKnown
    <3> QED
      BY <3>1, <3>2
  <2> QED
    BY <1>1, <2>1, <2>2 DEF InStore
<1> QED
  BY <1>3, <1>4, <1>5

LEMMA OnItsWayStays ==
  ASSUME Inv, [Next]_vars, ~Evict, NEW a \in Arrivals, NEW r \in Known, ~Forgettable(r),
         OnItsWay(a, r)
  PROVE  InStore(r)' \/ OnItsWay(a, r)'
<1>1. r \in Requests /\ (rows[r] # Never => rows'[r] # Never)
  BY StoredRowStays DEF Known
<1>2. PICK i \in Pending :
        /\ writes[i].kind = "index" /\ writes[i].by = a
        /\ \A k \in Pending : k >= i => Lists(k, r)
        /\ rows[r] # Never \/ \E k \in Pending : k < i /\ IsPut(k, r)
  BY DEF OnItsWay
<1>3. Pending \subseteq Nat \ {0} /\ Typed
  BY DEF Inv, Typed, Pending
<1>4. CASE ApplyWrite /\ i = 1
  <2>1. rows'[r] # Never
    <3>1. \A k \in Pending : ~(k < i)
      BY <1>3, <1>4
    <3> QED
      BY <1>1, <1>2, <3>1
  <2>2. r \in index'
    <3>1. writes[1].kind = "index" /\ Lists(1, r)
      BY <1>2, <1>3, <1>4
    <3> QED
      BY <1>3, <1>4, <3>1, ApplyEffect DEF Lists
  <2>3. ASSUME NEW k \in Pending'
        PROVE  Lists(k, r)'
    <3>1. k + 1 \in Pending /\ writes'[k] = writes[k + 1]
      BY <1>3, <1>4, ApplyEffect
    <3>2. k + 1 >= i /\ Lists(k + 1, r)
      <4>1. k + 1 >= i
        <5>1. k + 1 \in Nat \ {0}
          BY <1>3, <3>1
        <5> QED
          BY <1>4, <5>1
      <4> QED
        BY <1>2, <3>1, <4>1
    <3> QED
      BY <3>1, <3>2 DEF Lists
  <2> QED
    BY <2>1, <2>2, <2>3 DEF InStore
<1>5. CASE ApplyWrite /\ i # 1
  <2>1. i - 1 \in Pending' /\ writes'[i - 1] = writes[i]
    BY <1>3, <1>5, ApplyEffect
  <2>2. Pending' \subseteq Nat \ {0}
    BY <1>3, <1>5, ApplyEffect DEF Pending
  <2>3. ASSUME NEW k \in Pending', k >= i - 1
        PROVE  Lists(k, r)'
    <3>1. k + 1 \in Pending /\ writes'[k] = writes[k + 1]
      BY <1>3, <1>5, ApplyEffect
    <3>2. k + 1 >= i
      BY <1>3, <2>2, <2>3
    <3>3. Lists(k + 1, r)
      BY <1>2, <3>1, <3>2
    <3> QED
      BY <3>1, <3>3 DEF Lists
  <2>4. rows'[r] # Never \/ \E k \in Pending' : k < i - 1 /\ IsPut(k, r)'
    <3>1. ASSUME NEW k \in Pending, k < i, IsPut(k, r), k # 1
          PROVE  \E j \in Pending' : j < i - 1 /\ IsPut(j, r)'
      <4>1. k - 1 \in Pending' /\ writes'[k - 1] = writes[k]
        BY <1>3, <1>5, <3>1, ApplyEffect
      <4>2. k - 1 < i - 1
        <5>1. k \in Nat /\ i \in Nat
          BY <1>3
        <5> QED
          BY <3>1, <5>1
      <4> QED
        BY <3>1, <4>1, <4>2 DEF IsPut
    <3>2. ASSUME IsPut(1, r)
          PROVE  rows'[r] # Never
      <4>1. writes[1] \in Writes
        BY <1>3, <1>5, ApplyEffect DEF Typed, Pending
      <4>2. rows'[r] = writes[1].seenAt /\ writes[1].seenAt \in Times
        BY <1>1, <1>3, <1>5, <3>2, <4>1, ApplyEffect, WriteFields DEF IsPut
      <4> QED
        BY <4>2, TimesAssumption DEF Times, Never
    <3> QED
      BY <1>1, <1>2, <3>1, <3>2
  <2>5. writes'[i - 1].kind = "index" /\ writes'[i - 1].by = a
    BY <1>2, <2>1
  <2> QED
    BY <2>1, <2>3, <2>4, <2>5 DEF OnItsWay
<1>6. CASE ~ApplyWrite
  <2>1. i \in Pending' /\ writes'[i] = writes[i]
    BY <1>3, <1>6, PendingStays
  <2>2. ASSUME NEW k \in Pending', k >= i
        PROVE  Lists(k, r)'
    <3>1. CASE k \in Pending
      BY <1>2, <1>3, <1>6, <2>2, <3>1, PendingStays DEF Lists
    <3>2. CASE k \notin Pending
      BY <1>6, <3>2, IssuedListsKnown
    <3> QED
      BY <3>1, <3>2
  <2>3. rows'[r] # Never \/ \E k \in Pending' : k < i /\ IsPut(k, r)'
    <3>1. ASSUME NEW k \in Pending, k < i, IsPut(k, r)
          PROVE  k \in Pending' /\ IsPut(k, r)'
      BY <1>3, <1>6, <3>1, PendingStays DEF IsPut
    <3> QED
      BY <1>1, <1>2, <3>1
  <2> QED
    BY <1>2, <2>1, <2>2, <2>3 DEF OnItsWay
<1> QED
  BY <1>4, <1>5, <1>6

\* The index that PutIndex writes is behind the row of every known request.
LEMMA PutIndexIsOnItsWay ==
  ASSUME Inv, [Next]_vars, NEW a \in Arrivals, PutIndex(a), NEW r \in Known, r \notin dirty,
         ~Forgettable(r)
  PROVE  OnItsWay(a, r)'
<1> DEFINE w == Index(a, Known)
           n == Len(writes) + 1
<1>1. w \in Writes /\ w.kind = "index" /\ w.by = a /\ w.keys = Known
  BY IndexIsWrite DEF Known
<1>2. writes' = Append(writes, w) /\ rows' = rows
  BY DEF PutIndex, IndexKeys
<1>3. Typed /\ Len(writes) \in Nat
  BY DEF Inv, Typed
<1> HIDE DEF w
<1>4. /\ \A i \in Pending : i < n /\ i \in Pending' /\ writes'[i] = writes[i]
      /\ n \in Pending' /\ writes'[n] = w
      /\ \A i \in Pending' : i >= n => i = n
  BY <1>1, <1>2, <1>3, AppendEffect DEF Pending
<1> HIDE DEF n
<1>5. \A k \in Pending' : k >= n => Lists(k, r)'
  BY <1>1, <1>4 DEF Lists
<1>6. rows'[r] # Never \/ \E k \in Pending' : k < n /\ IsPut(k, r)'
  <2>1. CASE rows[r] = seenAt[r]
    BY <1>2, <2>1 DEF Known
  <2>2. ASSUME NEW k \in Pending, IsPut(k, r)
        PROVE  k \in Pending' /\ k < n /\ IsPut(k, r)'
    BY <1>4, <2>2 DEF IsPut
  <2> QED
    BY <2>1, <2>2 DEF Inv, RowsInv, Forgettable
<1>7. writes'[n].kind = "index" /\ writes'[n].by = a
  BY <1>1, <1>4
<1> QED
  BY <1>4, <1>5, <1>6, <1>7 DEF OnItsWay

LEMMA KeptInductive ==
  ASSUME Inv, [Next]_vars
  PROVE  KeptInv'
<1> USE DEF Inv
<1> SUFFICES ASSUME NEW b \in Arrivals, Admitted(b)', NEW r, r = arrival'[b].request,
                    ~CrowdedOut(r)'
             PROVE  /\ arrival'[b].pc # "handled" => r \notin dirty'
                    /\ arrival'[b].pc = "indexing" =>
                         Forgettable(r)' \/ InStore(r)' \/ OnItsWay(b, r)'
                    /\ arrival'[b].pc = "answered" => Forgettable(r)' \/ InStore(r)'
  <2>1. ASSUME NEW b \in Arrivals, Admitted(b)'
        PROVE  Kept(b, arrival[b].request)' \/ CrowdedOut(arrival[b].request)'
    BY <2>1 DEF Kept, CrowdedOut
  <2> QED
    BY <2>1 DEF KeptInv
<1>1. r \in Requests /\ ~CrowdedOut(r)
  <2>1. Typed'
    BY TypedInductive
  <2>2. r \in Requests
    BY <2>1 DEF Typed, Admitted
  <2> QED
    BY <2>2, ForgettableStays
<1>2. CASE Accept(b, r)
  <2>1. arrival'[b].pc = "handled"
    BY <1>1, <1>2, ArrivesEffect DEF Accept, Busy
  <2> QED
    BY <2>1
<1>3. CASE /\ Admitted(b) /\ r = arrival[b].request
           /\ Evict => arrival[b].pc = "answered"
  <2>1. Kept(b, r) /\ (r \in Known \/ Forgettable(r))
    BY <1>1, <1>3 DEF KeptInv, MemoryInv
  <2>2. /\ arrival'[b].pc # "handled" => arrival[b].pc # "handled" \/ PutRows(b)
        /\ arrival'[b].pc = "indexing" => arrival[b].pc = "indexing" \/ PutIndex(b)
        /\ arrival'[b].pc = "answered" => arrival[b].pc = "answered" \/ Answer(b)
    BY <1>3, AdmittedMoves
  <2>3. ASSUME arrival'[b].pc # "handled"
        PROVE  r \notin dirty'
    <3>1. CASE PutRows(b)
      BY <3>1 DEF PutRows
    <3>2. CASE r \notin dirty
      <4>1. ASSUME NEW a \in Arrivals, NEW q \in Requests, Accept(a, q)
            PROVE  r \notin dirty'
        <5>1. q \notin Known /\ ~Expired(q) /\ dirty' \subseteq dirty \cup {q}
          BY <4>1, AcceptEffect
        <5> QED
          BY <1>1, <2>1, <3>2, <5>1 DEF Forgettable
      <4>2. (\E a \in Arrivals, q \in Requests : Accept(a, q)) \/ dirty' \subseteq dirty
        BY StepKinds DEF Step, Idle, Turns, PutRows, DeleteRows, PutIndex, Answer,
                         ApplyWrite, Evict, memory
      <4> QED
        BY <3>2, <4>1, <4>2
    <3> QED
      BY <2>1, <2>2, <2>3, <3>1, <3>2 DEF Kept
  <2>4. Forgettable(r) => Forgettable(r)'
    BY <1>1, ForgettableStays
  <2>5. ASSUME arrival'[b].pc = "indexing", r \in Known, ~Forgettable(r)
        PROVE  InStore(r)' \/ OnItsWay(b, r)'
    <3>1. CASE PutIndex(b)
      <4>1. r \notin dirty
        BY <2>1, <3>1 DEF Kept, PutIndex
      <4> QED
        BY <2>5, <3>1, <4>1, PutIndexIsOnItsWay
    <3>2. CASE arrival[b].pc = "indexing"
      <4>1. ~Evict /\ (InStore(r) \/ OnItsWay(b, r))
        BY <1>3, <2>1, <2>5, <3>2 DEF Kept
      <4> QED
        BY <2>5, <4>1, InStoreStays, OnItsWayStays
    <3> QED
      BY <2>2, <2>5, <3>1, <3>2
  <2>6. ASSUME arrival'[b].pc = "answered", r \in Known, ~Forgettable(r)
        PROVE  InStore(r)'
    <3>1. InStore(r)
      <4>1. CASE Answer(b)
        <5>1. arrival[b].pc = "indexing" /\ ~OnItsWay(b, r)
          BY <4>1 DEF Answer, Awaits, OnItsWay, Pending
        <5> QED
          BY <2>1, <2>6, <5>1 DEF Kept
      <4>2. CASE arrival[b].pc = "answered"
        BY <2>1, <2>6, <4>2 DEF Kept
      <4> QED
        BY <2>2, <2>6, <4>1, <4>2
    <3> QED
      BY <2>6, <3>1, InStoreStays
  <2> QED
    BY <2>1, <2>3, <2>4, <2>5, <2>6
<1> QED
  BY <1>2, <1>3, AdmittedBefore

LEMMA IndexInductive ==
  ASSUME Inv, [Next]_vars
  PROVE  IndexInv'
<1> USE DEF Inv
<1> SUFFICES ASSUME \A a \in Arrivals :
                      arrival'[a].pc \notin {"handled", "putting", "deleting"}
             PROVE  IndexIsLast' \/ IndexIsStored'
  BY DEF IndexInv
<1> DEFINE Goal == IndexIsLast' \/ IndexIsStored'
<1>1. (\A a \in Arrivals : arrival[a].pc \notin {"handled", "putting", "deleting"})
        => IndexIsLast \/ IndexIsStored
  BY DEF IndexInv
<1>2. ASSUME IndexIsLast \/ IndexIsStored, UNCHANGED <<seenAt, writes, rows, index>>
      PROVE  Goal
  BY <1>2 DEF IndexIsLast, IndexIsStored, Pending, Known, IsPut
<1>3. CASE Idle
  <2>1. arrival' = arrival /\ UNCHANGED <<seenAt, writes, rows, index>>
    BY <1>3 DEF Idle, storage
  <2> QED
    BY <1>1, <1>2, <2>1
<1>4. CASE ApplyWrite
  <2>1. arrival' = arrival /\ Known' = Known
    BY <1>4 DEF ApplyWrite, memory, Known
  <2>2. ASSUME NEW i \in Pending, writes[i].kind = "index", writes[i].keys = Known,
               \A k \in Pending : k > i => writes[k].kind # "index"
        PROVE  Goal
    <3>1. Pending \subseteq Nat \ {0} /\ Pending' \subseteq Nat \ {0}
      BY <1>4, ApplyEffect DEF Typed, Pending
    <3>2. CASE i = 1
      <4>1. index' = Known'
        BY <1>4, <2>1, <2>2, <3>2, ApplyEffect
      <4>2. ASSUME NEW k \in Pending'
            PROVE  writes'[k].kind # "index"
        <5>1. k + 1 \in Pending /\ writes'[k] = writes[k + 1]
          BY <1>4, ApplyEffect
        <5>2. k + 1 > i
          BY <3>1, <3>2
        <5> QED
          BY <2>2, <5>1, <5>2
      <4> QED
        BY <4>1, <4>2 DEF IndexIsStored
    <3>3. CASE i # 1
      <4>1. i - 1 \in Pending' /\ writes'[i - 1] = writes[i]
        BY <1>4, <3>3, ApplyEffect
      <4>2. ASSUME NEW k \in Pending', k > i - 1
            PROVE  writes'[k].kind # "index"
        <5>1. k + 1 \in Pending /\ writes'[k] = writes[k + 1]
          BY <1>4, ApplyEffect
        <5>2. k + 1 > i
          BY <3>1, <4>2
        <5> QED
          BY <2>2, <5>1, <5>2
      <4>3. IndexIsLast'
        BY <2>1, <2>2, <4>1, <4>2 DEF IndexIsLast
      <4> QED
        BY <4>3
    <3> QED
      BY <3>2, <3>3
  <2>3. ASSUME IndexIsStored
        PROVE  IndexIsStored'
    <3>1. index' = index
      BY <1>4, <2>3, ApplyEffect DEF IndexIsStored
    <3>2. \A k \in Pending' : k + 1 \in Pending /\ writes'[k] = writes[k + 1]
      BY <1>4, ApplyEffect
    <3>3. ASSUME NEW r \in index \ Known
          PROVE  rows'[r] = Never /\ \A k \in Pending' : ~IsPut(k, r)'
      <4>1. rows[r] = Never /\ \A k \in Pending : ~IsPut(k, r)
        BY <2>3, <3>3 DEF IndexIsStored
      <4>2. r \in Requests /\ 1 \in Pending
        BY <1>4, ApplyEffect DEF Typed
      <4> QED
        BY <1>4, <3>2, <4>1, <4>2, ApplyEffect DEF IsPut
    <3>4. \A k \in Pending' : writes'[k].kind # "index"
      BY <2>3, <3>2 DEF IndexIsStored
    <3> QED
      BY <2>1, <2>3, <3>1, <3>3, <3>4 DEF IndexIsStored
  <2> QED
    BY <1>1, <2>1, <2>2, <2>3 DEF IndexIsLast
<1>5. CASE Evict
  <2>1. Pending' = {} /\ rows' = rows /\ index' = index /\ index \subseteq Requests
    BY <1>5, EvictEffect DEF Evict, Typed
  <2>2. \A r \in Requests : seenAt'[r] = IF r \in index THEN rows[r] ELSE Never
    BY <1>5, EvictEffect
  <2>3. Known' = {r \in index : rows[r] # Never}
    BY <2>1, <2>2 DEF Known
  <2> QED
    BY <2>1, <2>3 DEF IndexIsStored
<1>6. ASSUME NEW a \in Arrivals, Turns(a)
      PROVE  Goal
  <2>1. \A b \in Arrivals : arrival'[b] = arrival[b] \/ arrival[b].pc = "none"
    BY <1>6, TurnsEffect
  <2>2. UNCHANGED <<seenAt, writes, rows, index>>
    BY <1>6, TurnsEffect
  <2> QED
    BY <1>1, <1>2, <2>1, <2>2
<1>7. ASSUME NEW a \in Arrivals, NEW r \in Requests, Accept(a, r)
      PROVE  FALSE
  BY <1>7, ArrivesEffect DEF Accept, Busy
<1>8. ASSUME NEW a \in Arrivals, PutRows(a)
      PROVE  FALSE
  BY <1>8, PutsEffect
<1>9. ASSUME NEW a \in Arrivals, DeleteRows(a)
      PROVE  FALSE
  BY <1>9, GoesEffect DEF DeleteRows, Busy, Phases
<1>10. ASSUME NEW a \in Arrivals, PutIndex(a)
       PROVE  Goal
  <2> DEFINE w == Index(a, Known)
             n == Len(writes) + 1
  <2>1. w \in Writes /\ w.kind = "index" /\ w.keys = Known
    BY IndexIsWrite DEF Known
  <2>2. writes' = Append(writes, w) /\ Known' = Known
    BY <1>10 DEF PutIndex, IndexKeys, memory, Known
  <2> HIDE DEF w
  <2>3. n \in Pending' /\ writes'[n] = w /\ \A k \in Pending' : ~(k > n)
    BY <2>1, <2>2, AppendEffect DEF Pending, Typed
  <2> QED
    BY <2>1, <2>2, <2>3 DEF IndexIsLast
<1>11. ASSUME NEW a \in Arrivals, Answer(a)
       PROVE  Goal
  <2>1. \A b \in Arrivals : arrival'[b] = arrival[b] \/ arrival[b].pc = "indexing"
    BY <1>11, GoesEffect DEF Answer, Results
  <2>2. UNCHANGED <<seenAt, writes, rows, index>>
    BY <1>11 DEF Answer, memory, storage
  <2> QED
    BY <1>1, <1>2, <2>1, <2>2
<1> HIDE DEF Goal
<1>12. Goal
  <2>1. Idle \/ ApplyWrite \/ Evict => Goal
    BY <1>3, <1>4, <1>5 DEF Goal
  <2> QED
    BY <2>1, <1>6, <1>7, <1>8, <1>9, <1>10, <1>11, StepKinds DEF Step
<1> QED
  BY <1>12 DEF Goal

LEMMA NamedInductive ==
  ASSUME Inv, [Next]_vars
  PROVE  NamedInv'
<1> USE DEF Inv
<1> SUFFICES ASSUME NEW b \in Arrivals, arrival'[b].pc = "answered"
             PROVE  arrival'[b].request # None
  BY DEF NamedInv
<1>1. CASE arrival'[b] = arrival[b]
  BY <1>1 DEF NamedInv
<1>2. CASE Idle \/ ApplyWrite
  BY <1>1, <1>2 DEF Idle, ApplyWrite
<1>3. CASE Evict
  BY <1>1, <1>3, EvictEffect
<1>4. ASSUME NEW a \in Arrivals, Turns(a)
      PROVE  arrival'[b] = arrival[b]
  BY <1>4, TurnsEffect
<1>5. ASSUME NEW a \in Arrivals, NEW r \in Requests, Accept(a, r)
      PROVE  arrival'[b] = arrival[b]
  BY <1>5, ArrivesEffect DEF Accept, Busy
<1>6. ASSUME NEW a \in Arrivals, PutRows(a) \/ DeleteRows(a) \/ PutIndex(a)
      PROVE  arrival'[b] = arrival[b]
  BY <1>6, PutsEffect, GoesEffect DEF DeleteRows, PutIndex, Busy, Phases
<1>7. ASSUME NEW a \in Arrivals, Answer(a)
      PROVE  arrival'[b].request # None
  <2>1. CASE b # a
    <3>1. arrival'[b] = arrival[b]
      BY <1>7, <2>1, GoesEffect DEF Answer, Results
    <3> QED
      BY <1>1, <3>1
  <2>2. CASE b = a
    BY <1>7, <2>2, GoesEffect DEF Answer, Results
  <2> QED
    BY <2>1, <2>2
<1> QED
  BY <1>1, <1>2, <1>3, <1>4, <1>5, <1>6, <1>7, StepKinds DEF Step

-----------------------------------------------------------------------------
(* Results.                                                                 *)

LEMMA InvInit ==
  ASSUME Init
  PROVE  Inv
<1> USE DEF Init, Never
<1>1. Known = {} /\ Pending = {}
  BY DEF Known, Pending
<1>2. \A a \in Arrivals : /\ arrival[a].request = None /\ arrival[a].pc = "none"
                          /\ arrival[a].deletes = {}
  BY DEF NoArrival
<1>3. Typed
  <2>1. NoArrival \in Kinds
    BY DEF NoArrival, Kinds
  <2>2. arrival \in [Arrivals -> Kinds]
    BY <2>1
  <2>3. now \in Times /\ ahead \in [Requests -> 0..MaxAhead] /\ sent \in [Requests -> Never..MaxTime + MaxAhead]
    BY TimesAssumption DEF Times
  <2>4. writes \in Seq(Writes)
    OBVIOUS
  <2> QED
    BY <1>1, <2>2, <2>3, <2>4 DEF Typed, Kinds, SeenTimes
<1>4. TimesInv
  BY <1>1, TimesAssumption DEF TimesInv
<1>5. GoneInv /\ RowsInv
  BY <1>1, <1>2 DEF GoneInv, RowsInv
<1>6. MemoryInv /\ OnceInv /\ NamedInv /\ KeptInv
  BY <1>1, <1>2 DEF MemoryInv, OnceInv, NamedInv, KeptInv, Admitted
<1>7. IndexInv
  BY <1>1 DEF IndexInv, IndexIsStored
<1> QED
  BY <1>3, <1>4, <1>5, <1>6, <1>7 DEF Inv

LEMMA InvNext ==
  ASSUME Inv, [Next]_vars
  PROVE  Inv'
<1>1. Typed' /\ TimesInv' /\ GoneInv'
  BY TypedInductive, TimesInductive, GoneInductive DEF Inv
<1>2. MemoryInv' /\ OnceInv' /\ RowsInv'
  BY MemoryInductive, OnceInductive, RowsInductive
<1>3. NamedInv' /\ KeptInv' /\ IndexInv'
  BY NamedInductive, KeptInductive, IndexInductive
<1> QED
  BY <1>1, <1>2, <1>3 DEF Inv

LEMMA InvAlways == Spec => []Inv
  BY InvInit, InvNext, PTL DEF Spec

(* A request that arrives again, at any time, before or after an eviction, *)
(* is answered as admitted at most once (storeNonce, compactNonceRows,     *)
(* persistState), unless its nonce made room under the cap and its         *)
(* timestamp is good for longer than a nonce is protected.                 *)
THEOREM AcceptedOnceUnlessCrowdedOutAlways == Spec => []AcceptedOnceUnlessCrowdedOut
<1>1. Inv => AcceptedOnceUnlessCrowdedOut
  BY DEF Inv, NamedInv, OnceInv, AcceptedOnceUnlessCrowdedOut, Admitted
<1> QED
  BY <1>1, InvAlways, PTL

(* The nonce of an answered request is found again by an object that loads *)
(* its rows, for as long as the request's timestamp would let it in        *)
(* (persistState, loadRowBackedState).                                     *)
THEOREM AnsweredIsRememberedAlways == Spec => []AnsweredIsRemembered
<1>1. ASSUME Inv, NEW a \in Arrivals, arrival[a].pc = "answered", InSkew(arrival[a].request)
      PROVE  \/ Loaded[arrival[a].request] # Never
             \/ CrowdedOut(arrival[a].request)
  <2> DEFINE r == arrival[a].request
  <2>1. Admitted(a) /\ r \in Requests
    BY <1>1 DEF Inv, NamedInv, Admitted, Typed
  <2>2. sent[r] \in Int /\ now \in Int /\ Skew \in Int
    BY <1>1, <2>1, TimesAssumption DEF Inv, Typed, Times, Never
  <2>3. ~Expired(r)
    BY <1>1, <2>2 DEF Expired, InSkew
  <2>4. CrowdedOut(r) \/ (r \in index /\ rows[r] # Never)
    BY <1>1, <2>1, <2>3 DEF Inv, KeptInv, Kept, InStore, Forgettable
  <2> QED
    BY <2>1, <2>4 DEF Loaded
<1>2. Inv => AnsweredIsRemembered
  BY <1>1 DEF AnsweredIsRemembered
<1> QED
  BY <1>2, InvAlways, PTL

(* When nothing is being persisted, the next object will remember exactly  *)
(* the nonces this one does (persistState, indexKeys).                     *)
THEOREM StorageCatchesUpAlways == Spec => []StorageCatchesUp
<1>1. ASSUME Inv, writes = <<>>, dirty = {},
             \A a \in Arrivals : arrival[a].pc \notin {"handled"} \cup Phases
      PROVE  \A r \in Requests : Loaded[r] = seenAt[r] \/ CrowdedOut(r)
  <2>1. Typed /\ Pending = {}
    BY <1>1 DEF Inv, Pending
  <2>2. IndexIsStored
    BY <1>1, <2>1 DEF Inv, IndexInv, IndexIsLast, Phases
  <2>3. ASSUME NEW r \in Requests
        PROVE  Loaded[r] = seenAt[r] \/ CrowdedOut(r)
    <3>1. CASE r \in Known
      <4>1. CrowdedOut(r) \/ (rows[r] = seenAt[r] /\ r \in index)
        BY <1>1, <2>1, <2>2, <3>1 DEF Inv, RowsInv, IndexIsStored
      <4> QED
        BY <4>1 DEF Loaded
    <3>2. CASE r \notin Known
      BY <2>2, <3>2 DEF IndexIsStored, Known, Loaded
    <3> QED
      BY <3>1, <3>2
  <2> QED
    BY <2>3
<1>2. Inv => StorageCatchesUp
  BY <1>1 DEF StorageCatchesUp
<1> QED
  BY <1>2, InvAlways, PTL
-----------------------------------------------------------------------------
(* The failures.                                                            *)

FailuresInv ==
  /\ failures \in Seq(Times) /\ Len(failures) <= FailureLimit
  /\ \A i, k \in 1..Len(failures) : i < k => failures[i] <= failures[k]
  /\ \A i \in 1..Len(failures) : failures[i] <= now

LEMMA FailuresAreTimes ==
  ASSUME FailuresInv
  PROVE  /\ Len(failures) \in Nat /\ DOMAIN failures = 1..Len(failures)
         /\ \A i \in 1..Len(failures) : failures[i] \in Int
<1>1. failures \in Seq(Times)
  BY DEF FailuresInv
<1>2. Times \subseteq Int
  BY DEF Times
<1>3. \A i \in 1..Len(failures) : failures[i] \in Times
  BY <1>1, ElementOfSeq
<1>4. QED
  BY <1>1, <1>2, <1>3, LenProperties

\* What is left of the failures is those of the window, in their order: the
\* definition of Recent is the filter of pruneAuthFailures.
LEMMA RecentIsWindow ==
  ASSUME FailuresInv, now \in Times
  PROVE  \E m \in 0..Len(failures) :
           /\ Recent = SubSeq(failures, m + 1, Len(failures))
           /\ \A i \in 1..Len(failures) : failures[i] >= now - FailureWindow <=> i > m
<1> DEFINE n   == Len(failures)
           old == {i \in DOMAIN failures : failures[i] < now - FailureWindow}
           m   == Cardinality(old)
<1>1. n \in Nat /\ DOMAIN failures = 1..n /\ \A i \in 1..n : failures[i] \in Int
  BY FailuresAreTimes
<1>2. FailureWindow \in Nat /\ now \in Nat
  BY TimesAssumption DEF Times
<1>3. old \in SUBSET (1..n) /\ \A i \in old, k \in 1..n : k < i => k \in old
  BY <1>1, <1>2 DEF FailuresInv
<1>4. m \in 0..n /\ old = 1..m
  <2> HIDE DEF old
  <2> QED
    BY <1>1, <1>3, LowerPart
<1>5. \A i \in 1..n : failures[i] >= now - FailureWindow <=> i \notin old
  BY <1>1, <1>2
<1>6. Recent = SubSeq(failures, m + 1, n)
  BY DEF Recent
<1> HIDE DEF old, m
<1>7. \A i \in 1..n : failures[i] >= now - FailureWindow <=> i > m
  BY <1>1, <1>4, <1>5
<1> QED
  BY <1>4, <1>6, <1>7

\* A part of the failures, from one of them to the last, is as good.
LEMMA RestOfFailures ==
  ASSUME FailuresInv, now \in Times, NEW m \in 0..Len(failures),
         NEW rest, rest = SubSeq(failures, m + 1, Len(failures))
  PROVE  /\ rest \in Seq(Times) /\ Len(rest) = Len(failures) - m
         /\ \A i \in 1..Len(rest) : rest[i] = failures[i + m]
         /\ \A i, k \in 1..Len(rest) : i < k => rest[i] <= rest[k]
         /\ \A i \in 1..Len(rest) : rest[i] <= now
<1>1. Len(failures) \in Nat /\ failures \in Seq(Times)
  BY LenProperties DEF FailuresInv
<1>2. rest \in Seq(Times)
  BY <1>1, SubSeqProperties
<1>3. Len(rest) = Len(failures) - m /\ \A i \in 1..Len(rest) : rest[i] = failures[i + m]
  BY <1>1, SubSeqProperties
<1>4. \A i \in 1..Len(rest) : i + m \in 1..Len(failures)
  BY <1>1, <1>3
<1> QED
  BY <1>1, <1>2, <1>3, <1>4 DEF FailuresInv

LEMMA FailuresInductive ==
  ASSUME Typed, FailuresInv, [Next]_vars
  PROVE  FailuresInv'
<1>1. now \in Times /\ now \in Nat
  BY DEF Typed, Times
<1>2. CASE failures' = failures /\ now' \in {now, now + 1}
  <2>1. Len(failures) \in Nat /\ \A i \in 1..Len(failures) : failures[i] \in Int
    BY FailuresAreTimes
  <2> QED
    BY <1>1, <1>2, <2>1 DEF FailuresInv
<1>3. CASE failures' = <<>>
  BY <1>3, EmptySeq, TimesAssumption DEF FailuresInv
<1>4. ASSUME NEW a \in Arrivals, NEW r \in Requests, NEW hasToken \in BOOLEAN,
             Refuse(a, r, hasToken)
      PROVE  FailuresInv'
  <2>1. PICK m \in 0..Len(failures) : Recent = SubSeq(failures, m + 1, Len(failures))
    BY <1>1, RecentIsWindow
  <2> DEFINE rest == Recent
  <2>2. /\ rest \in Seq(Times) /\ Len(rest) = Len(failures) - m
        /\ \A i, k \in 1..Len(rest) : i < k => rest[i] <= rest[k]
        /\ \A i \in 1..Len(rest) : rest[i] <= now
    BY <1>1, <2>1, RestOfFailures
  <2>3. Len(rest) \in Nat /\ Len(rest) <= FailureLimit
    BY <2>2, TimesAssumption, LenProperties DEF FailuresInv
  <2>4. failures' = CountFailure(Throttled) /\ now' = now
    BY <1>4 DEF Refuse
  <2>5. CASE Throttled
    BY <2>2, <2>3, <2>4, <2>5 DEF CountFailure, FailuresInv
  <2>6. CASE ~Throttled
    <3>1. failures' = Append(rest, now) /\ Len(rest) < FailureLimit
      BY <2>3, <2>4, <2>6, TimesAssumption DEF CountFailure, Throttled
    <3> HIDE DEF rest
    <3>2. /\ failures' \in Seq(Times) /\ Len(failures') = Len(rest) + 1
          /\ \A i \in 1..Len(rest) : failures'[i] = rest[i]
          /\ failures'[Len(rest) + 1] = now
      BY <1>1, <2>2, <3>1, AppendProperties
    <3>3. \A i \in 1..Len(failures') : i \in 1..Len(rest) \/ i = Len(rest) + 1
      BY <2>3, <3>2
    <3>4. \A i \in 1..Len(failures') : failures'[i] <= now
      BY <1>1, <2>2, <3>2, <3>3
    <3>5. ASSUME NEW i \in 1..Len(failures'), NEW k \in 1..Len(failures'), i < k
          PROVE  failures'[i] <= failures'[k]
      <4>1. CASE k = Len(rest) + 1
        BY <3>2, <3>4, <4>1
      <4>2. CASE k # Len(rest) + 1
        <5>1. i \in 1..Len(rest) /\ k \in 1..Len(rest)
          BY <2>3, <3>2, <3>5, <4>2
        <5>2. rest[i] <= rest[k]
          BY <2>2, <3>5, <5>1
        <5> QED
          BY <3>2, <5>1, <5>2
      <4> QED
        BY <4>1, <4>2
    <3> QED
      BY <2>3, <2>4, <3>1, <3>2, <3>4, <3>5, TimesAssumption DEF FailuresInv
  <2> QED
    BY <2>5, <2>6
<1>5. QED
  BY <1>2, <1>3, <1>4 DEF Next, vars, memory, Tick, ApplyWrite, Evict, Send, Accept, Reject,
                          PutRows, DeleteRows, PutIndex, Answer

LEMMA FailuresAlways == Spec => [](Inv /\ FailuresInv)
<1>1. Init => FailuresInv
  BY EmptySeq, TimesAssumption DEF Init, FailuresInv
<1>2. Inv /\ FailuresInv /\ [Next]_vars => FailuresInv'
  BY FailuresInductive DEF Inv
<1>3. QED
  BY <1>1, <1>2, InvAlways, PTL DEF Spec

\* Every variable has its type.
THEOREM TypeCorrect == Spec => []TypeOK
<1>1. Inv /\ FailuresInv => TypeOK
  <2>1. ASSUME writes \in Seq(Writes) PROVE \A i \in 1..Len(writes) : writes[i] \in Writes
    BY <2>1, ElementOfSeq
  <2> QED
    BY <2>1 DEF Inv, Typed, FailuresInv, TypeOK, Busy
<1>2. QED
  BY <1>1, FailuresAlways, PTL

\* The failures kept are never more than the limit: recordAuthFailure adds
\* none when the throttle is what failed the request.
THEOREM FailuresBoundedAlways == Spec => []FailuresBounded
<1>1. FailuresInv => FailuresBounded
  BY DEF FailuresInv, FailuresBounded
<1>2. QED
  BY <1>1, FailuresAlways, PTL
=============================================================================
