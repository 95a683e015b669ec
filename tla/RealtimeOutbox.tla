--------------------------- MODULE RealtimeOutbox ---------------------------
(***************************************************************************)
(* packages/api/src/services/realtime-outbox.ts: the durable outbox that   *)
(* carries every realtime event from the transaction that caused it to     *)
(* Centrifugo.                                                             *)
(*                                                                         *)
(* A Row is an event_outbox row; rows are numbered in created_at order.    *)
(* A Worker is an API process: drainRealtimeOutbox runs at most once at a  *)
(* time in each (drainInFlight), and any number of processes share the     *)
(* table.  Time is abstracted to the three comparisons the code makes:     *)
(* "due" (next_attempt_at <= NOW()), "stale" (locked_at older than the     *)
(* lock timeout) and the retention of published rows.                      *)
(***************************************************************************)
EXTENDS Naturals, FiniteSets

CONSTANTS
  Row,          \* event_outbox ids
  Worker,       \* API processes
  Poison,       \* rows whose payload publishOutboxRow rejects every time
  MaxAttempts,  \* REALTIME_OUTBOX_MAX_ATTEMPTS
  Limit,        \* rows claimed by one batch
  MaxFaults     \* bound on process crashes and failed database calls

ASSUME OutboxAssumption ==
  /\ Row \subseteq Nat \ {0}
  /\ Poison \subseteq Row
  /\ MaxAttempts \in Nat \ {0}
  /\ Limit \in Nat \ {0}
  /\ MaxFaults \in Nat

VARIABLES
  status,    \* "absent" before the insert, "pruned" after the retention delete
  attempts,  \* attempts column
  due,       \* next_attempt_at <= NOW()
  stale,     \* locked_at < NOW() - lock timeout
  pc,        \* where each process is in drainRealtimeOutbox
  rerun,     \* drainRerunRequested of each process
  held,      \* held[w][r]: attempts value of r in w's claimed batch, 0 if not in it
  cur,       \* the row each process has just tried to publish, else NoRow
  up,        \* Centrifugo answers
  sent,      \* <<r, n>>: Centrifugo accepted r from the claim that made attempts = n
  faults,    \* crashes and database errors so far
  overrun,   \* history: rows whose lock went stale while a process still held them
  asked      \* history: a trigger arrived since the process last ran a claim

table  == <<status, attempts, due, stale>>
vars == <<table, pc, rerun, held, cur, up, sent, faults, overrun, asked>>

NoRow == 0
Status == {"absent", "pending", "processing", "failed", "published", "pruned"}
Attempt == 1 .. MaxAttempts

Batch(w) == {r \in Row : held[w][r] > 0}
Holders(r) == {w \in Worker : held[w][r] > 0}
Stored(r) == status[r] \notin {"absent", "pruned"}

TypeOK ==
  /\ status \in [Row -> Status]
  /\ attempts \in [Row -> 0 .. MaxAttempts]
  /\ due \in [Row -> BOOLEAN]
  /\ stale \in [Row -> BOOLEAN]
  /\ pc \in [Worker -> {"idle", "claim", "publish", "markPublished", "markFailed", "prune"}]
  /\ rerun \in [Worker -> BOOLEAN]
  /\ held \in [Worker -> [Row -> 0 .. MaxAttempts]]
  /\ cur \in [Worker -> Row \cup {NoRow}]
  /\ up \in BOOLEAN
  /\ sent \subseteq Row \X Attempt
  /\ faults \in 0 .. MaxFaults
  /\ overrun \subseteq Row
  /\ asked \in [Worker -> BOOLEAN]

Init ==
  /\ status = [r \in Row |-> "absent"]
  /\ attempts = [r \in Row |-> 0]
  /\ due = [r \in Row |-> TRUE]
  /\ stale = [r \in Row |-> FALSE]
  /\ pc = [w \in Worker |-> "idle"]
  /\ rerun = [w \in Worker |-> FALSE]
  /\ held = [w \in Worker |-> [r \in Row |-> 0]]
  /\ cur = [w \in Worker |-> NoRow]
  /\ up = TRUE
  /\ sent = {}
  /\ faults = 0
  /\ overrun = {}
  /\ asked = [w \in Worker |-> FALSE]

-----------------------------------------------------------------------------
(* The producer and the passing of time.                                   *)

\* The domain transaction that inserted the row commits.
Commit(r) ==
  /\ status[r] = "absent"
  /\ status' = [status EXCEPT ![r] = "pending"]
  /\ UNCHANGED <<attempts, due, stale, pc, rerun, held, cur, up, sent, faults, overrun, asked>>

BackoffElapses(r) ==
  /\ status[r] = "failed"
  /\ ~due[r]
  /\ due' = [due EXCEPT ![r] = TRUE]
  /\ UNCHANGED <<status, attempts, stale, pc, rerun, held, cur, up, sent, faults, overrun, asked>>

LockExpires(r) ==
  /\ status[r] = "processing"
  /\ ~stale[r]
  /\ stale' = [stale EXCEPT ![r] = TRUE]
  /\ overrun' = IF Holders(r) # {} THEN overrun \cup {r} ELSE overrun
  /\ UNCHANGED <<status, attempts, due, pc, rerun, held, cur, up, sent, faults, asked>>

\* Centrifugo stops or comes back.
Toggle ==
  /\ up' = ~up
  /\ UNCHANGED <<table, pc, rerun, held, cur, sent, faults, overrun, asked>>

-----------------------------------------------------------------------------
(* Control of drainRealtimeOutbox.  An operator named for a slip of the     *)
(* code (DrainExitForgetsRerun, ...) is there only to show that a property *)
(* would notice it.                                                        *)

\* The finally block: a trigger that came during the drain starts another.
DrainExitForgetsRerun(w) == /\ pc' = [pc EXCEPT ![w] = "idle"]
                   /\ rerun' = [rerun EXCEPT ![w] = FALSE]
DrainExit(w) ==
  /\ pc' = [pc EXCEPT ![w] = IF rerun[w] THEN "claim" ELSE "idle"]
  /\ rerun' = [rerun EXCEPT ![w] = FALSE]

\* After a row: the next one of the batch, a new batch if a trigger came
\* meanwhile, else the prune.
RowDone(w, rest) ==
  IF rest # {}
  THEN /\ pc' = [pc EXCEPT ![w] = "publish"]
       /\ UNCHANGED rerun
  ELSE /\ pc' = [pc EXCEPT ![w] = IF rerun[w] THEN "claim" ELSE "prune"]
       /\ rerun' = [rerun EXCEPT ![w] = FALSE]

\* triggerRealtimeOutboxDrain: the interval timer, or a route after its commit.
Trigger(w) ==
  /\ IF pc[w] = "idle"
     THEN /\ pc' = [pc EXCEPT ![w] = "claim"]
          /\ rerun' = [rerun EXCEPT ![w] = FALSE]
     ELSE /\ rerun' = [rerun EXCEPT ![w] = TRUE]
          /\ UNCHANGED pc
  /\ asked' = [asked EXCEPT ![w] = TRUE]
  /\ UNCHANGED <<table, held, cur, up, sent, faults, overrun>>

\* The WHERE clause of claimDueEvents.
ClaimableNoReclaim(r) ==
  /\ status[r] \in {"pending", "failed"} /\ due[r]
  /\ attempts[r] < MaxAttempts
ClaimableUncapped(r) ==
  \/ status[r] \in {"pending", "failed"} /\ due[r]
  \/ status[r] = "processing" /\ stale[r]
ClaimableUnlocked(r) ==
  /\ \/ status[r] \in {"pending", "failed"} /\ due[r]
     \/ status[r] = "processing"
  /\ attempts[r] < MaxAttempts
Claimable(r) ==
  /\ \/ status[r] \in {"pending", "failed"} /\ due[r]
     \/ status[r] = "processing" /\ stale[r]
  /\ attempts[r] < MaxAttempts

\* C is what ORDER BY created_at LIMIT selects among the rows of S.
OldestOf(C, S) ==
  /\ C \subseteq S
  /\ Cardinality(C) <= Limit
  /\ \A r \in S \ C : Cardinality(C) = Limit /\ \A c \in C : c < r

\* One UPDATE ... RETURNING statement; the returned rows are processed in any
\* order (RETURNING promises none).
Claim(w) ==
  /\ pc[w] = "claim"
  /\ \E C \in SUBSET Row :
       /\ OldestOf(C, {r \in Row : Claimable(r)})
       /\ status' = [r \in Row |-> IF r \in C THEN "processing" ELSE status[r]]
       /\ attempts' = [r \in Row |-> IF r \in C THEN attempts[r] + 1 ELSE attempts[r]]
       /\ stale' = [r \in Row |-> IF r \in C THEN FALSE ELSE stale[r]]
       /\ held' = [held EXCEPT ![w] = [r \in Row |-> IF r \in C THEN attempts[r] + 1 ELSE 0]]
       /\ RowDone(w, C)
  /\ asked' = [asked EXCEPT ![w] = FALSE]
  /\ UNCHANGED <<due, cur, up, sent, faults, overrun>>

ClaimFails(w) ==
  /\ pc[w] = "claim"
  /\ faults < MaxFaults
  /\ faults' = faults + 1
  /\ DrainExit(w)
  /\ asked' = [asked EXCEPT ![w] = FALSE]
  /\ UNCHANGED <<table, held, cur, up, sent, overrun>>

\* publishOutboxRow.  Centrifugo may accept the event although the call fails
\* (the response is lost, or the fetch times out).
MarkWithoutPublish(w, r) ==
  /\ pc[w] = "publish"
  /\ r \in Batch(w)
  /\ cur' = [cur EXCEPT ![w] = r]
  /\ pc' = [pc EXCEPT ![w] = "markPublished"]
  /\ UNCHANGED <<table, rerun, held, up, sent, faults, overrun, asked>>
Publish(w, r) ==
  /\ pc[w] = "publish"
  /\ r \in Batch(w)
  /\ cur' = [cur EXCEPT ![w] = r]
  /\ \/ /\ up /\ r \notin Poison
        /\ sent' = sent \cup {<<r, held[w][r]>>}
        /\ \E next \in {"markPublished", "markFailed"} : pc' = [pc EXCEPT ![w] = next]
     \/ /\ ~up \/ r \in Poison
        /\ UNCHANGED sent
        /\ pc' = [pc EXCEPT ![w] = "markFailed"]
  /\ UNCHANGED <<table, rerun, held, up, faults, overrun, asked>>

\* The loop of drainRealtimeOutboxBatch moves on: the row leaves the batch.
RetryCurrent(w) ==
  /\ cur' = [cur EXCEPT ![w] = NoRow]
  /\ UNCHANGED held
  /\ RowDone(w, Batch(w))
DropCurrent(w) ==
  /\ cur' = [cur EXCEPT ![w] = NoRow]
  /\ held' = [held EXCEPT ![w] = [r \in Row |-> IF r = cur[w] THEN 0 ELSE held[w][r]]]
  /\ RowDone(w, Batch(w) \ {cur[w]})

\* UPDATE ... WHERE id = $1: whatever the row has become since the claim.
MarkPublished(w) ==
  /\ pc[w] = "markPublished"
  /\ IF Stored(cur[w])
     THEN /\ status' = [status EXCEPT ![cur[w]] = "published"]
          /\ stale' = [stale EXCEPT ![cur[w]] = FALSE]
     ELSE UNCHANGED <<status, stale>>
  /\ DropCurrent(w)
  /\ UNCHANGED <<attempts, due, up, sent, faults, overrun, asked>>

\* markPublished throws inside the try: the row is marked failed instead.
MarkPublishedFails(w) ==
  /\ pc[w] = "markPublished"
  /\ faults < MaxFaults
  /\ faults' = faults + 1
  /\ pc' = [pc EXCEPT ![w] = "markFailed"]
  /\ UNCHANGED <<table, rerun, held, cur, up, sent, overrun, asked>>

MarkFailed(w) ==
  /\ pc[w] = "markFailed"
  /\ IF Stored(cur[w])
     THEN /\ status' = [status EXCEPT ![cur[w]] = "failed"]
          /\ due' = [due EXCEPT ![cur[w]] = FALSE]
          /\ stale' = [stale EXCEPT ![cur[w]] = FALSE]
     ELSE UNCHANGED <<status, due, stale>>
  /\ DropCurrent(w)
  /\ UNCHANGED <<attempts, up, sent, faults, overrun, asked>>

\* markFailed throws inside the catch: the whole batch is abandoned, its other
\* rows stay "processing" with an attempt already counted.
MarkFailedFails(w) ==
  /\ pc[w] = "markFailed"
  /\ faults < MaxFaults
  /\ faults' = faults + 1
  /\ held' = [held EXCEPT ![w] = [r \in Row |-> 0]]
  /\ cur' = [cur EXCEPT ![w] = NoRow]
  /\ DrainExit(w)
  /\ UNCHANGED <<table, up, sent, overrun, asked>>

\* prunePublishedOutboxEvents, at most once a minute; D are the published rows
\* past their retention.  The drain then ends, whether the DELETE worked or not.
PruneEveryRow(w) ==
  /\ pc[w] = "prune"
  /\ \E D \in SUBSET {r \in Row : status[r] # "absent"} :
       status' = [r \in Row |-> IF r \in D THEN "pruned" ELSE status[r]]
  /\ DrainExit(w)
  /\ UNCHANGED <<attempts, due, stale, held, cur, up, sent, faults, overrun, asked>>
Prune(w) ==
  /\ pc[w] = "prune"
  /\ \E D \in SUBSET {r \in Row : status[r] = "published"} :
       status' = [r \in Row |-> IF r \in D THEN "pruned" ELSE status[r]]
  /\ DrainExit(w)
  /\ UNCHANGED <<attempts, due, stale, held, cur, up, sent, faults, overrun, asked>>

\* The process dies and is started again: the module's variables are lost.
Crash(w) ==
  /\ faults < MaxFaults
  /\ faults' = faults + 1
  /\ pc' = [pc EXCEPT ![w] = "idle"]
  /\ rerun' = [rerun EXCEPT ![w] = FALSE]
  /\ held' = [held EXCEPT ![w] = [r \in Row |-> 0]]
  /\ cur' = [cur EXCEPT ![w] = NoRow]
  /\ asked' = [asked EXCEPT ![w] = FALSE]
  /\ UNCHANGED <<table, up, sent, overrun>>

-----------------------------------------------------------------------------
PublishAny(w) == \E r \in Row : Publish(w, r)

Drain(w) ==
  \/ Claim(w) \/ ClaimFails(w)
  \/ PublishAny(w)
  \/ MarkPublished(w) \/ MarkPublishedFails(w)
  \/ MarkFailed(w) \/ MarkFailedFails(w)
  \/ Prune(w)

Next ==
  \/ \E r \in Row : Commit(r) \/ BackoffElapses(r) \/ LockExpires(r)
  \/ Toggle
  \/ \E w \in Worker : Trigger(w) \/ Drain(w) \/ Crash(w)

Spec == Init /\ [][Next]_vars

\* The interval timer keeps triggering, a running drain keeps running (Node
\* resolves every await, a fetch ends by its timeout), and time passes.
Fairness ==
  /\ \A w \in Worker : WF_vars(Trigger(w)) /\ WF_vars(Drain(w))
  /\ \A r \in Row : WF_vars(BackoffElapses(r)) /\ WF_vars(LockExpires(r))

FairSpec == Spec /\ Fairness

-----------------------------------------------------------------------------
(* Properties.                                                             *)

\* The outbox implements at-least-once delivery with a bounded number of
\* copies: nothing is published before its transaction committed, no more than
\* MaxAttempts times, or forgotten before it was delivered.
Delivery == INSTANCE AtLeastOnceDelivery WITH
  Event <- Row,
  Copy <- Attempt,
  obligation <- [r \in Row |-> CASE status[r] = "absent" -> "none"
                                 [] status[r] = "pruned" -> "forgotten"
                                 [] OTHER -> "owed"],
  copies <- [r \in Row |-> {n \in Attempt : <<r, n>> \in sent}]
DeliveryImplemented == Delivery!Spec

\* A claim is published at most once: no row still waiting in a batch carries
\* an attempts value that Centrifugo has already been given for it.  With the
\* cap on attempts this bounds the duplicates a subscriber can see.
EachClaimPublishesOnce ==
  \A w \in Worker, r \in Row :
    (held[w][r] > 0 /\ ~(pc[w] \in {"markPublished", "markFailed"} /\ cur[w] = r))
       => <<r, held[w][r]>> \notin sent

\* As long as no lock of a row ran out under its holder, one process at a time
\* works on the row, and it is the row's current claim (FOR UPDATE SKIP LOCKED
\* and the lock timeout together act as a lease).
LeaseIsExclusive ==
  \A r \in Row \ overrun :
    /\ \A w \in Holders(r) : status[r] = "processing" /\ ~stale[r] /\ held[w][r] = attempts[r]
    /\ \A v, w \in Holders(r) : v = w

\* A row says "published" only after Centrifugo accepted the event, and only
\* such rows are pruned: no event disappears from the table undelivered.
PublishedWasSent ==
  \A r \in Row : status[r] \in {"published", "pruned"} => \E n \in Attempt : <<r, n>> \in sent

\* A trigger is never swallowed: a process at rest has run a claim since the
\* last one (drainInFlight / drainRerunRequested).
TriggerNotLost == \A w \in Worker : pc[w] = "idle" => ~asked[w]

(* The inductive invariant behind these, in named parts.                   *)

\* Every claim number in use was counted, and no two batches share one.
ClaimsCounted ==
  /\ \A w \in Worker, r \in Row : held[w][r] <= attempts[r]
  /\ \A r \in Row, n \in Attempt : <<r, n>> \in sent => n <= attempts[r]
  /\ \A v, w \in Worker, r \in Row :
       v # w /\ held[v][r] > 0 => held[v][r] # held[w][r]

\* A process about to mark a row holds it, and marks it published only after
\* Centrifugo accepted it from this very claim.
MarkingIsBacked ==
  \A w \in Worker :
    /\ pc[w] \in {"markPublished", "markFailed"} => cur[w] \in Row /\ held[w][cur[w]] > 0
    /\ pc[w] = "markPublished" => <<cur[w], held[w][cur[w]]>> \in sent

\* No attempt is counted before the event's transaction committed.
NothingClaimedEarly == \A r \in Row : status[r] = "absent" => attempts[r] = 0

\* A trigger waits in rerun or leads to the claim, and nothing waits at rest.
TriggerKept ==
  \A w \in Worker : /\ asked[w] => pc[w] = "claim" \/ rerun[w]
                    /\ pc[w] = "idle" => ~rerun[w]

OutboxInv ==
  /\ TypeOK /\ ClaimsCounted /\ MarkingIsBacked /\ NothingClaimedEarly /\ TriggerKept
  /\ EachClaimPublishesOnce /\ LeaseIsExclusive /\ PublishedWasSent

\* A delivered row goes back to be retried only if some process overran its
\* lock on it: then a late markFailed overwrites "published".
PublishedIsFinal ==
  [][\A r \in Row : status[r] = "published" /\ r \notin overrun
                      => status'[r] \in {"published", "pruned"}]_vars

\* Every committed event is eventually marked published or has used up its
\* attempts, whatever crashes, database errors and outages happen on the way.
EventuallySettled ==
  \A r \in Row :
    status[r] # "absent" ~> \/ status[r] \in {"published", "pruned"}
                            \/ attempts[r] = MaxAttempts
=============================================================================
