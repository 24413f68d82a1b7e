---------------------------- MODULE RequestAuth ----------------------------
(***************************************************************************)
(* How the object of a session admits the requests of one side: the        *)
(* throttle, the timestamp, the token and the nonce (src/broker.ts,        *)
(* src/auth.ts, src/http.ts), the nonces it remembers and forgets, and the *)
(* rows and the index in which they outlive the object (src/worker.ts).    *)
(*                                                                         *)
(* A request is its nonce and its timestamp; it may arrive more than once. *)
(* What an admitted request does is SessionObject's matter. Storage        *)
(* applies writes in the order in which they are issued, and an object     *)
(* that goes loses those not yet applied.                                  *)
(***************************************************************************)
EXTENDS Integers, SequencesExt

CONSTANTS
  Requests,      \* requests of one side of a session
  Arrivals,      \* deliveries of them
  None,          \* no request
  Skew,          \* authSkewMs
  MaxAhead,      \* how far the clock of a sender may be ahead of the object's
  Retention,     \* nonceRetentionMs
  Protected,     \* protectedNonceReplayWindowMs
  Cap,           \* maxNoncesPerSessionSide
  FailureWindow, \* authFailureWindowMs
  FailureLimit,  \* authFailureLimit
  MaxTime        \* bound on the clock

\* src/src/worker.ts:119-120 and auth.ts:6 give Retention = 2 * Skew and
\* Protected = Skew.
ASSUME TimesAssumption ==
  /\ {Skew, MaxAhead, Retention, Protected, Cap, FailureWindow, MaxTime} \subseteq Nat
  /\ FailureLimit \in Nat \ {0}
  /\ 2 * Skew <= Retention /\ Protected <= Retention
ASSUME RequestsAssumption == IsFiniteSet(Requests) /\ None \notin Requests

Never == -1
Times == 0..MaxTime

VARIABLES
  now,
  ahead,     \* how far the clock of each request's sender is ahead
  sent,      \* the timestamp each request carries
  arrival,   \* what became of each delivery
  seenAt,    \* the nonces in memory
  dirty,     \* nonce rows to be put at the next persistState
  deleted,   \* and to be deleted
  failures,  \* authFailureBuckets
  crowdedOut, \* history: the requests that made room for others under the cap
  writes,    \* issued to storage and not yet applied
  rows,      \* nonce rows in storage
  index      \* the index row in storage

senders == <<ahead, sent>>
memory  == <<seenAt, dirty, deleted, failures>>
storage == <<writes, rows, index>>
vars    == <<now, senders, arrival, memory, crowdedOut, storage>>

Phases   == {"putting", "deleting", "indexing"}
\* answered: as admitted.  over: turned away, or lost with the object.
Results  == {"answered", "over"}

\* A delivery that is not admitted names no request.
NoArrival == [request |-> None, pc |-> "none", deletes |-> {}]

Writes == [kind : {"put"}, row : Requests, seenAt : Times, by : Arrivals]
     \cup [kind : {"delete", "index"}, keys : SUBSET Requests, by : Arrivals]

SeenTimes == Times \cup {Never}
Known == {r \in Requests : seenAt[r] # Never}

TypeOK ==
  /\ now \in Times
  /\ ahead \in [Requests -> 0..MaxAhead]
  /\ sent \in [Requests -> Never..MaxTime + MaxAhead]
  /\ arrival \in [Arrivals -> [request : Requests \cup {None}, deletes : SUBSET Requests,
                               pc : {"none", "handled"} \cup Phases \cup Results]]
  /\ seenAt \in [Requests -> SeenTimes]
  /\ dirty \subseteq Known
  /\ deleted \subseteq Requests \ Known
  /\ failures \in Seq(Times)
  /\ crowdedOut \subseteq Requests
  /\ \A i \in 1..Len(writes) : writes[i] \in Writes
  /\ rows \in [Requests -> SeenTimes]
  /\ index \subseteq Requests

Init ==
  /\ now = 0
  /\ ahead \in [Requests -> 0..MaxAhead]
  /\ sent = [r \in Requests |-> Never]
  /\ arrival = [a \in Arrivals |-> NoArrival]
  /\ seenAt = [r \in Requests |-> Never] /\ dirty = {} /\ deleted = {}
  /\ failures = <<>> /\ crowdedOut = {}
  /\ writes = <<>> /\ rows = [r \in Requests |-> Never] /\ index = {}

-----------------------------------------------------------------------------
(* Admission.                                                               *)

\* pruneAuthFailures. The failures are in the order of a clock that does not
\* go back, so those the filter removes come first (RecentIsWindow).
Recent ==
  LET old == {i \in DOMAIN failures : failures[i] < now - FailureWindow}
  IN SubSeq(failures, Cardinality(old) + 1, Len(failures))

Throttled == Len(Recent) >= FailureLimit

\* Mutant of InSkew: no Math.abs.
NotTooOld(r) == now - sent[r] <= Skew

\* validateTimestamp
InSkew(r) == now - sent[r] <= Skew /\ sent[r] - now <= Skew

\* compactNonceRows after r was stored: what is older than the retention, and
\* the oldest of what the cap has no room for, if the window does not protect it.
Stored(r) == [seenAt EXCEPT ![r] = now]
Outdated(r) == {q \in Known : seenAt[q] < now - Retention}
Overflow(r) == Cardinality((Known \cup {r}) \ Outdated(r)) - Cap

\* Mutant of OldEnough: no row is protected.
OldEnoughAnyway(r) == Known \ Outdated(r)

OldEnough(r) == {q \in Known \ Outdated(r) : seenAt[q] < now - Protected}

IsOverflow(r, over) ==
  /\ over \subseteq OldEnough(r)
  /\ Cardinality(over) = Min({Max({0, Overflow(r)}), Cardinality(OldEnough(r))})
  /\ \A q \in over, p \in OldEnough(r) \ over : seenAt[q] <= seenAt[p]

StoreNonce(r) ==
  \E over \in SUBSET OldEnough(r) :
    LET gone == Outdated(r) \cup over
    IN /\ IsOverflow(r, over)
       /\ seenAt' = [q \in Requests |-> IF q \in gone THEN Never ELSE Stored(r)[q]]
       /\ dirty' = (dirty \cup {r}) \ gone
       /\ deleted' = (deleted \ {r}) \cup gone
       /\ crowdedOut' = crowdedOut \cup over

\* recordAuthFailure
CountFailure(throttled) == IF throttled THEN Recent ELSE Append(Recent, now)

Arrives(a, r, pc) ==
  arrival' = [arrival EXCEPT ![a] = [request |-> r, pc |-> pc, deletes |-> {}]]

\* fetch persists after every answer of a route; a runner's upgrade that was
\* turned away throws before that.
TurnedAway(a) == \E pc \in {"handled", "over"} : Arrives(a, None, pc)

\* A sender whose clock is behind sends a request that is late already.
Send(r) ==
  /\ sent[r] = Never
  /\ sent' = [sent EXCEPT ![r] = now + ahead[r]]
  /\ UNCHANGED <<now, ahead, arrival, memory, crowdedOut, storage>>

\* The route, the headers, the body, the policy for dangerous tools or the
\* payload turn a request away before the broker sees it.
Reject(a, r) ==
  /\ arrival[a].pc = "none" /\ sent[r] # Never
  /\ TurnedAway(a)
  /\ UNCHANGED <<now, senders, memory, crowdedOut, storage>>

Refuse(a, r, hasToken) ==
  /\ arrival[a].pc = "none" /\ sent[r] # Never
  /\ Throttled \/ ~InSkew(r) \/ ~hasToken \/ r \in Known
  /\ failures' = CountFailure(Throttled)
  /\ TurnedAway(a)
  /\ UNCHANGED <<now, senders, crowdedOut, seenAt, dirty, deleted, storage>>

Accept(a, r) ==
  /\ arrival[a].pc = "none" /\ sent[r] # Never
  /\ ~Throttled /\ InSkew(r) /\ r \notin Known
  /\ StoreNonce(r)
  /\ failures' = <<>>
  /\ Arrives(a, r, "handled")
  /\ UNCHANGED <<now, senders, storage>>

-----------------------------------------------------------------------------
(* persistState: the rows, the deletions and then the index.                *)

Awaits(a) == \E i \in 1..Len(writes) : writes[i].by = a

Put(a, r)        == [kind |-> "put", row |-> r, seenAt |-> seenAt[r], by |-> a]
Delete(a, keys)  == [kind |-> "delete", keys |-> keys, by |-> a]
Index(a, keys)   == [kind |-> "index", keys |-> keys, by |-> a]

Goes(a, pc) == arrival' = [arrival EXCEPT ![a].pc = pc]

PutRows(a) ==
  /\ arrival[a].pc = "handled"
  /\ \E keys \in SetToSeqs(dirty) :
       writes' = writes \o [i \in 1..Len(keys) |-> Put(a, keys[i])]
  /\ arrival' = [arrival EXCEPT ![a].pc = "putting", ![a].deletes = deleted]
  /\ dirty' = {} /\ deleted' = {}
  /\ UNCHANGED <<now, senders, crowdedOut, seenAt, failures, rows, index>>

DeleteRows(a) ==
  /\ arrival[a].pc = "putting" /\ ~Awaits(a) /\ arrival[a].deletes # {}
  /\ writes' = Append(writes, Delete(a, arrival[a].deletes))
  /\ Goes(a, "deleting")
  /\ UNCHANGED <<now, senders, memory, crowdedOut, rows, index>>

\* Mutant of IndexKeys: the rows that storage has already.
IndexKeysStored == {r \in Requests : rows[r] # Never}

\* indexKeys, read when the rows have been put and not when they were drained.
IndexKeys == Known

PutIndex(a) ==
  /\ \/ arrival[a].pc = "putting" /\ arrival[a].deletes = {}
     \/ arrival[a].pc = "deleting"
  /\ ~Awaits(a)
  /\ writes' = Append(writes, Index(a, IndexKeys))
  /\ Goes(a, "indexing")
  /\ UNCHANGED <<now, senders, memory, crowdedOut, rows, index>>

Answer(a) ==
  /\ arrival[a].pc = "indexing" /\ ~Awaits(a)
  /\ Goes(a, IF arrival[a].request = None THEN "over" ELSE "answered")
  /\ UNCHANGED <<now, senders, memory, crowdedOut, storage>>

ApplyWrite ==
  /\ writes # <<>>
  /\ LET w == Head(writes)
     IN /\ rows' = [r \in Requests |->
                      CASE w.kind = "put" /\ w.row = r          -> w.seenAt
                        [] w.kind = "delete" /\ r \in w.keys    -> Never
                        [] OTHER                                -> rows[r]]
        /\ index' = IF w.kind = "index" THEN w.keys ELSE index
  /\ writes' = Tail(writes)
  /\ UNCHANGED <<now, senders, arrival, memory, crowdedOut>>

\* loadRowBackedState: the rows that the index lists and storage has.
Loaded == [r \in Requests |-> IF r \in index THEN rows[r] ELSE Never]

\* Mutant of Evict: rows of the object that went are put by the next one.
EvictKeepingDirty ==
  /\ seenAt' = Loaded /\ deleted' = {} /\ failures' = <<>> /\ writes' = <<>>
  /\ UNCHANGED <<now, senders, crowdedOut, arrival, dirty, rows, index>>

Evict ==
  /\ seenAt' = Loaded /\ dirty' = {} /\ deleted' = {} /\ failures' = <<>>
  /\ writes' = <<>>
  /\ arrival' = [a \in Arrivals |->
                   IF arrival[a].pc \in {"handled"} \cup Phases
                   THEN [NoArrival EXCEPT !.pc = "over"] ELSE arrival[a]]
  /\ UNCHANGED <<now, senders, crowdedOut, rows, index>>

Tick ==
  /\ now < MaxTime
  /\ now' = now + 1
  /\ UNCHANGED <<senders, arrival, memory, crowdedOut, storage>>

Next ==
  \/ Tick \/ ApplyWrite \/ Evict
  \/ \E r \in Requests : Send(r)
  \/ \E a \in Arrivals :
       \/ PutRows(a) \/ DeleteRows(a) \/ PutIndex(a) \/ Answer(a)
       \/ \E r \in Requests :
            \/ Accept(a, r) \/ Reject(a, r)
            \/ \E hasToken \in BOOLEAN : Refuse(a, r, hasToken)

Symmetry == Permutations(Requests) \cup Permutations(Arrivals)

Spec == Init /\ [][Next]_vars

-----------------------------------------------------------------------------
\* Within the protected window of its first delivery the request may outlive
\* the nonce: the sender's clock is too far ahead, and the cap had no room.
CrowdedOut(r) == r \in crowdedOut /\ Skew + ahead[r] > Protected

(* A request that arrives again, at any time, before or after an eviction, *)
(* is answered as admitted at most once (storeNonce, compactNonceRows,     *)
(* persistState), unless its nonce made room under the cap and its         *)
(* timestamp is good for longer than a nonce is protected.                 *)
AcceptedOnceUnlessCrowdedOut ==
  \A a, b \in Arrivals :
    /\ arrival[a].pc = "answered" /\ arrival[b].pc = "answered"
    /\ arrival[a].request = arrival[b].request
    => a = b \/ CrowdedOut(arrival[a].request)

(* agent-colab-bridge-spec.md:781 says so without exception: "rejects      *)
(* reused nonces during the session retention window".                     *)
AcceptedOnce ==
  \A a, b \in Arrivals :
    /\ arrival[a].pc = "answered" /\ arrival[b].pc = "answered"
    /\ arrival[a].request = arrival[b].request
    => a = b

(* The nonce of an answered request is found again by an object that loads *)
(* its rows, for as long as the request's timestamp would let it in: the   *)
(* index never lists less than what was answered, whoever wrote it last.   *)
AnsweredIsRemembered ==
  \A a \in Arrivals :
    arrival[a].pc = "answered" /\ InSkew(arrival[a].request)
      => Loaded[arrival[a].request] # Never \/ CrowdedOut(arrival[a].request)

(* The throttle counts what failed and not what it refused itself, so a    *)
(* client that keeps trying is let in when the window has passed.          *)
FailuresBounded == Len(failures) <= FailureLimit

(* When nothing is being persisted, the next object will remember exactly  *)
(* the nonces this one does: no persistState leaves out, for good, a row   *)
(* that another request changed while it waited for storage.  (A nonce     *)
(* that made room and came back may be deleted after it was put again.)    *)
StorageCatchesUp ==
  writes = <<>> /\ dirty = {} /\ deleted = {}
    /\ (\A a \in Arrivals : arrival[a].pc \notin {"handled"} \cup Phases)
  => \A r \in Requests : Loaded[r] = seenAt[r] \/ CrowdedOut(r)
=============================================================================
