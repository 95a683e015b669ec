------------------------ MODULE RealtimeOutboxProofs ------------------------
(***************************************************************************)
(* Proofs about RealtimeOutbox, for any number of rows and processes and   *)
(* any bound on attempts, batch size and faults.                           *)
(***************************************************************************)
EXTENDS RealtimeOutbox, TLAPS

\* Every step of the outbox keeps the types.
LEMMA TypeStep == TypeOK /\ [Next]_vars => TypeOK'
<1> SUFFICES ASSUME TypeOK, [Next]_vars PROVE TypeOK'
  OBVIOUS
<1> USE OutboxAssumption DEF TypeOK, table, Status, NoRow, Attempt
<1>1. ASSUME NEW r \in Row, Commit(r) \/ BackoffElapses(r) \/ LockExpires(r) PROVE TypeOK'
  BY <1>1 DEF Commit, BackoffElapses, LockExpires
<1>2. CASE Toggle
  BY <1>2 DEF Toggle
<1>3. ASSUME NEW w \in Worker, Trigger(w) PROVE TypeOK'
  BY <1>3 DEF Trigger
<1>4. ASSUME NEW w \in Worker, Claim(w) PROVE TypeOK'
  <2>1. PICK C \in SUBSET Row :
          /\ OldestOf(C, {r \in Row : Claimable(r)})
          /\ status' = [r \in Row |-> IF r \in C THEN "processing" ELSE status[r]]
          /\ attempts' = [r \in Row |-> IF r \in C THEN attempts[r] + 1 ELSE attempts[r]]
          /\ stale' = [r \in Row |-> IF r \in C THEN FALSE ELSE stale[r]]
          /\ held' = [held EXCEPT ![w] = [r \in Row |-> IF r \in C THEN attempts[r] + 1 ELSE 0]]
          /\ RowDone(w, C)
    BY <1>4 DEF Claim
  <2>2. \A r \in C : attempts[r] < MaxAttempts
    BY <2>1 DEF OldestOf, Claimable
  <2>3. attempts' \in [Row -> 0 .. MaxAttempts] /\ held' \in [Worker -> [Row -> 0 .. MaxAttempts]]
    BY <2>1, <2>2
  <2>4. pc' \in [Worker -> {"idle", "claim", "publish", "markPublished", "markFailed", "prune"}]
        /\ rerun' \in [Worker -> BOOLEAN]
    BY <2>1, ZenonT(60) DEF RowDone
  <2>5. status' \in [Row -> Status] /\ stale' \in [Row -> BOOLEAN]
    BY <2>1
  <2> QED
    BY <1>4, <2>3, <2>4, <2>5 DEF Claim
<1>5. ASSUME NEW w \in Worker, ClaimFails(w) PROVE TypeOK'
  BY <1>5 DEF ClaimFails, DrainExit
<1>6. ASSUME NEW w \in Worker, NEW r \in Row, Publish(w, r) PROVE TypeOK'
  BY <1>6 DEF Publish, Batch
<1>7. ASSUME NEW w \in Worker, MarkPublished(w) PROVE TypeOK'
  <2>1. status' \in [Row -> Status] /\ due' \in [Row -> BOOLEAN] /\ stale' \in [Row -> BOOLEAN]
    BY <1>7 DEF MarkPublished
  <2>2. held' \in [Worker -> [Row -> 0 .. MaxAttempts]]
    BY <1>7 DEF MarkPublished, DropCurrent
  <2>3. cur' \in [Worker -> Row \cup {NoRow}]
    BY <1>7 DEF MarkPublished, DropCurrent
  <2>4. RowDone(w, Batch(w) \ {cur[w]})
    BY <1>7 DEF MarkPublished, DropCurrent
  <2>5. pc' \in [Worker -> {"idle", "claim", "publish", "markPublished", "markFailed", "prune"}]
        /\ rerun' \in [Worker -> BOOLEAN]
    BY <2>4, ZenonT(60) DEF RowDone
  <2> QED
    BY <1>7, <2>1, <2>2, <2>3, <2>5 DEF MarkPublished
<1>8. ASSUME NEW w \in Worker, MarkPublishedFails(w) PROVE TypeOK'
  BY <1>8 DEF MarkPublishedFails
<1>9. ASSUME NEW w \in Worker, MarkFailed(w) PROVE TypeOK'
  <2>1. status' \in [Row -> Status] /\ due' \in [Row -> BOOLEAN] /\ stale' \in [Row -> BOOLEAN]
    BY <1>9 DEF MarkFailed
  <2>2. held' \in [Worker -> [Row -> 0 .. MaxAttempts]]
    BY <1>9 DEF MarkFailed, DropCurrent
  <2>3. cur' \in [Worker -> Row \cup {NoRow}]
    BY <1>9 DEF MarkFailed, DropCurrent
  <2>4. RowDone(w, Batch(w) \ {cur[w]})
    BY <1>9 DEF MarkFailed, DropCurrent
  <2>5. pc' \in [Worker -> {"idle", "claim", "publish", "markPublished", "markFailed", "prune"}]
        /\ rerun' \in [Worker -> BOOLEAN]
    BY <2>4, ZenonT(60) DEF RowDone
  <2> QED
    BY <1>9, <2>1, <2>2, <2>3, <2>5 DEF MarkFailed
<1>10. ASSUME NEW w \in Worker, MarkFailedFails(w) PROVE TypeOK'
  BY <1>10 DEF MarkFailedFails, DrainExit
<1>11. ASSUME NEW w \in Worker, Prune(w) PROVE TypeOK'
  BY <1>11 DEF Prune, DrainExit
<1>12. ASSUME NEW w \in Worker, Crash(w) PROVE TypeOK'
  BY <1>12 DEF Crash
<1>13. CASE UNCHANGED vars
  BY <1>13 DEF vars
<1> QED
  BY <1>1, <1>2, <1>3, <1>4, <1>5, <1>6, <1>7, <1>8, <1>9, <1>10, <1>11, <1>12, <1>13
     DEF Next, Drain, PublishAny
\* Every variable keeps its type: realtime-outbox.ts never counts an attempt
\* beyond REALTIME_OUTBOX_MAX_ATTEMPTS, because the claim is guarded by it.
THEOREM TypeCorrect == Spec => []TypeOK
<1>1. Init => TypeOK
  BY OutboxAssumption DEF Init, TypeOK, Status, NoRow
<1> QED
  BY <1>1, TypeStep, PTL DEF Spec

\* What a claim does to each row, and where it leaves the process.
LEMMA ClaimEffect ==
  ASSUME TypeOK, NEW w \in Worker, Claim(w)
  PROVE  \E C \in SUBSET Row :
           /\ \A r \in C : Claimable(r)
           /\ \A r \in Row : /\ status'[r] = IF r \in C THEN "processing" ELSE status[r]
                             /\ attempts'[r] = IF r \in C THEN attempts[r] + 1 ELSE attempts[r]
                             /\ stale'[r] = IF r \in C THEN FALSE ELSE stale[r]
                             /\ held'[w][r] = IF r \in C THEN attempts[r] + 1 ELSE 0
           /\ \A v \in Worker : v # w => held'[v] = held[v]
           /\ RowDone(w, C)
<1>1. PICK C \in SUBSET Row :
        /\ OldestOf(C, {r \in Row : Claimable(r)})
        /\ status' = [r \in Row |-> IF r \in C THEN "processing" ELSE status[r]]
        /\ attempts' = [r \in Row |-> IF r \in C THEN attempts[r] + 1 ELSE attempts[r]]
        /\ stale' = [r \in Row |-> IF r \in C THEN FALSE ELSE stale[r]]
        /\ held' = [held EXCEPT ![w] = [r \in Row |-> IF r \in C THEN attempts[r] + 1 ELSE 0]]
        /\ RowDone(w, C)
  BY DEF Claim
<1>2. \A r \in C : Claimable(r)
  BY <1>1 DEF OldestOf
<1>3. \A r \in Row : held'[w][r] = IF r \in C THEN attempts[r] + 1 ELSE 0
  BY <1>1 DEF TypeOK
<1>4. \A v \in Worker : v # w => held'[v] = held[v]
  BY <1>1 DEF TypeOK
<1> QED
  BY <1>1, <1>2, <1>3, <1>4

\* What leaving a row does to the batches.
LEMMA DropEffect ==
  ASSUME TypeOK, NEW w \in Worker, DropCurrent(w)
  PROVE  /\ \A r \in Row : held'[w][r] = IF r = cur[w] THEN 0 ELSE held[w][r]
         /\ \A v \in Worker : v # w => held'[v] = held[v] /\ pc'[v] = pc[v] /\ cur'[v] = cur[v]
         /\ pc'[w] \in {"publish", "claim", "prune"}
BY DEF TypeOK, DropCurrent, RowDone

\* What losing the batch does.
LEMMA LoseEffect ==
  ASSUME TypeOK, NEW w \in Worker, MarkFailedFails(w) \/ Crash(w)
  PROVE  /\ \A r \in Row : held'[w][r] = 0
         /\ \A v \in Worker : v # w => held'[v] = held[v] /\ pc'[v] = pc[v] /\ cur'[v] = cur[v]
         /\ pc'[w] \in {"idle", "claim"}
         /\ UNCHANGED <<table, sent, overrun>>
BY DEF TypeOK, MarkFailedFails, DrainExit, Crash

LEMMA CountedStep == OutboxInv /\ [Next]_vars => ClaimsCounted'
<1> SUFFICES ASSUME OutboxInv, [Next]_vars PROVE ClaimsCounted'
  OBVIOUS
<1> USE DEF OutboxInv
<1>1. ASSUME UNCHANGED <<attempts, held, sent>> PROVE ClaimsCounted'
  BY <1>1 DEF ClaimsCounted
<1>2. ASSUME NEW w \in Worker, Claim(w) PROVE ClaimsCounted'
  <2>1. PICK C \in SUBSET Row :
          /\ \A r \in Row : /\ attempts'[r] = IF r \in C THEN attempts[r] + 1 ELSE attempts[r]
                            /\ held'[w][r] = IF r \in C THEN attempts[r] + 1 ELSE 0
          /\ \A v \in Worker : v # w => held'[v] = held[v]
    BY <1>2, ClaimEffect
  <2>2. \A r \in Row : attempts[r] \in Nat /\ \A v \in Worker : held[v][r] \in Nat
    BY DEF TypeOK
  <2>3. sent' = sent
    BY <1>2 DEF Claim
  <2>4. \A v \in Worker, r \in Row : held'[v][r] <= attempts'[r]
    BY <2>1, <2>2 DEF ClaimsCounted
  <2>5. \A r \in Row, n \in Attempt : <<r, n>> \in sent' => n <= attempts'[r]
    BY <2>1, <2>2, <2>3, OutboxAssumption DEF ClaimsCounted, Attempt
  <2>6. \A u, v \in Worker, r \in Row : u # v /\ held'[u][r] > 0 => held'[u][r] # held'[v][r]
    BY <2>1, <2>2 DEF ClaimsCounted
  <2> QED
    BY <2>4, <2>5, <2>6 DEF ClaimsCounted
<1>3. ASSUME NEW w \in Worker, NEW r \in Row, Publish(w, r) PROVE ClaimsCounted'
  <2>1. held[w][r] \in Attempt /\ held[w][r] <= attempts[r]
    BY <1>3, OutboxAssumption DEF Publish, Batch, TypeOK, Attempt, ClaimsCounted
  <2>2. sent' \subseteq sent \cup {<<r, held[w][r]>>} /\ UNCHANGED <<attempts, held>>
    BY <1>3 DEF Publish, table
  <2> QED
    BY <2>1, <2>2 DEF ClaimsCounted
<1>4. ASSUME NEW w \in Worker, DropCurrent(w), UNCHANGED <<attempts, sent>> PROVE ClaimsCounted'
  <2>1. \A v \in Worker, r \in Row : held'[v][r] = held[v][r] \/ held'[v][r] = 0
    BY <1>4, DropEffect
  <2>2. \A r \in Row : attempts[r] \in Nat /\ \A v \in Worker : held[v][r] \in Nat
    BY DEF TypeOK
  <2> QED
    BY <1>4, <2>1, <2>2 DEF ClaimsCounted
<1>5. ASSUME NEW w \in Worker, MarkFailedFails(w) \/ Crash(w) PROVE ClaimsCounted'
  <2>1. \A v \in Worker, r \in Row : held'[v][r] = held[v][r] \/ held'[v][r] = 0
    BY <1>5, LoseEffect
  <2>2. \A r \in Row : attempts[r] \in Nat /\ \A v \in Worker : held[v][r] \in Nat
    BY DEF TypeOK
  <2>3. UNCHANGED <<attempts, sent>>
    BY <1>5, LoseEffect DEF table
  <2> QED
    BY <2>1, <2>2, <2>3 DEF ClaimsCounted
<1> QED
  BY <1>1, <1>2, <1>3, <1>4, <1>5
     DEF Next, Drain, PublishAny, vars, table, Commit, BackoffElapses, LockExpires, Toggle, Trigger,
         ClaimFails, MarkPublished, MarkPublishedFails, MarkFailed, Prune

LEMMA MarkingStep == OutboxInv /\ [Next]_vars => MarkingIsBacked'
<1> SUFFICES ASSUME OutboxInv, [Next]_vars PROVE MarkingIsBacked'
  OBVIOUS
<1> USE DEF OutboxInv
<1>1. ASSUME UNCHANGED <<held, sent, cur>>,
             NEW w \in Worker, \A v \in Worker \ {w} : pc'[v] = pc[v],
             pc'[w] \notin {"markPublished", "markFailed"} \/ pc'[w] = pc[w]
      PROVE  MarkingIsBacked'
  BY <1>1 DEF MarkingIsBacked
<1>2. ASSUME NEW w \in Worker, Claim(w) PROVE MarkingIsBacked'
  <2>1. pc'[w] \in {"publish", "claim", "prune"} /\ \A v \in Worker \ {w} : pc'[v] = pc[v]
    BY <1>2 DEF Claim, RowDone, TypeOK
  <2>2. \A v \in Worker \ {w} : held'[v] = held[v]
    BY <1>2, ClaimEffect
  <2>3. UNCHANGED <<cur, sent>>
    BY <1>2 DEF Claim
  <2> QED
    BY <2>1, <2>2, <2>3 DEF MarkingIsBacked
<1>3. ASSUME NEW w \in Worker, NEW r \in Row, Publish(w, r) PROVE MarkingIsBacked'
  <2>1. cur'[w] = r /\ held'[w][r] > 0 /\ held' = held
    BY <1>3 DEF Publish, Batch, TypeOK
  <2>2. pc'[w] = "markPublished" => <<r, held[w][r]>> \in sent'
    BY <1>3 DEF Publish, TypeOK
  <2>3. sent \subseteq sent' /\ \A v \in Worker \ {w} : pc'[v] = pc[v] /\ cur'[v] = cur[v]
    BY <1>3 DEF Publish, TypeOK
  <2> QED
    BY <2>1, <2>2, <2>3 DEF MarkingIsBacked
<1>4. ASSUME NEW w \in Worker, DropCurrent(w), UNCHANGED sent PROVE MarkingIsBacked'
  BY <1>4, DropEffect DEF MarkingIsBacked
<1>5. ASSUME NEW w \in Worker, MarkFailedFails(w) \/ Crash(w) PROVE MarkingIsBacked'
  BY <1>5, LoseEffect DEF MarkingIsBacked
<1>6. ASSUME NEW w \in Worker, MarkPublishedFails(w) PROVE MarkingIsBacked'
  BY <1>6 DEF MarkPublishedFails, MarkingIsBacked, TypeOK
<1>7. ASSUME NEW w \in Worker, Trigger(w) \/ ClaimFails(w) \/ Prune(w) PROVE MarkingIsBacked'
  <2>1. UNCHANGED <<held, sent, cur>> /\ \A v \in Worker \ {w} : pc'[v] = pc[v]
    BY <1>7 DEF Trigger, ClaimFails, Prune, DrainExit, TypeOK
  <2>2. pc'[w] \notin {"markPublished", "markFailed"} \/ pc'[w] = pc[w]
    BY <1>7 DEF Trigger, ClaimFails, Prune, DrainExit, TypeOK
  <2> QED
    BY <1>1, <2>1, <2>2
<1>8. ASSUME UNCHANGED <<held, sent, cur, pc>> PROVE MarkingIsBacked'
  BY <1>8 DEF MarkingIsBacked
<1> QED
  BY <1>2, <1>3, <1>4, <1>5, <1>6, <1>7, <1>8
     DEF Next, Drain, PublishAny, vars, Commit, BackoffElapses, LockExpires, Toggle,
         MarkPublished, MarkFailed

\* No row waiting in a batch carries a number already published.
LEMMA PublishOnceStep == OutboxInv /\ [Next]_vars => EachClaimPublishesOnce'
<1> SUFFICES ASSUME OutboxInv, [Next]_vars PROVE EachClaimPublishesOnce'
  OBVIOUS
<1> USE DEF OutboxInv
<1>1. ASSUME UNCHANGED <<held, sent, cur, pc>> PROVE EachClaimPublishesOnce'
  BY <1>1 DEF EachClaimPublishesOnce
<1>2. ASSUME NEW w \in Worker, Claim(w) PROVE EachClaimPublishesOnce'
  <2>1. PICK C \in SUBSET Row :
          /\ \A r \in C : Claimable(r)
          /\ \A r \in Row : held'[w][r] = IF r \in C THEN attempts[r] + 1 ELSE 0
          /\ \A v \in Worker : v # w => held'[v] = held[v]
    BY <1>2, ClaimEffect
  <2>2. \A r \in C : <<r, attempts[r] + 1>> \notin sent
    <3>1. \A r \in C : attempts[r] \in Nat /\ attempts[r] + 1 \in Attempt
      BY <2>1, OutboxAssumption DEF Claimable, TypeOK, Attempt
    <3> QED
      BY <3>1 DEF ClaimsCounted
  <2>3. sent' = sent /\ cur' = cur /\ \A v \in Worker : v # w => pc'[v] = pc[v]
    BY <1>2 DEF Claim, RowDone, TypeOK
  <2> QED
    BY <2>1, <2>2, <2>3 DEF EachClaimPublishesOnce
<1>3. ASSUME NEW w \in Worker, NEW q \in Row, Publish(w, q) PROVE EachClaimPublishesOnce'
  <2>1. held' = held /\ sent' \subseteq sent \cup {<<q, held[w][q]>>}
    BY <1>3 DEF Publish
  <2>2. cur'[w] = q /\ pc'[w] \in {"markPublished", "markFailed"} /\ pc[w] = "publish" /\ held[w][q] > 0
    BY <1>3 DEF Publish, TypeOK, Batch
  <2>3. \A v \in Worker : v # w => pc'[v] = pc[v] /\ cur'[v] = cur[v] /\ held[v][q] # held[w][q]
    BY <1>3, <2>2 DEF Publish, TypeOK, ClaimsCounted
  <2> QED
    BY <2>1, <2>2, <2>3 DEF EachClaimPublishesOnce
<1>4. ASSUME NEW w \in Worker, DropCurrent(w), UNCHANGED sent,
             pc[w] \in {"markPublished", "markFailed"}
      PROVE  EachClaimPublishesOnce'
  BY <1>4, DropEffect DEF EachClaimPublishesOnce
<1>5. ASSUME NEW w \in Worker, MarkFailedFails(w) \/ Crash(w) PROVE EachClaimPublishesOnce'
  BY <1>5, LoseEffect DEF EachClaimPublishesOnce
<1>6. ASSUME NEW w \in Worker, MarkPublishedFails(w) PROVE EachClaimPublishesOnce'
  BY <1>6 DEF MarkPublishedFails, EachClaimPublishesOnce, TypeOK
<1>7. ASSUME NEW w \in Worker, Trigger(w) \/ ClaimFails(w) \/ Prune(w) PROVE EachClaimPublishesOnce'
  <2>1. UNCHANGED <<held, sent, cur>> /\ \A v \in Worker \ {w} : pc'[v] = pc[v]
    BY <1>7 DEF Trigger, ClaimFails, Prune, DrainExit, TypeOK
  <2>2. pc[w] \notin {"markPublished", "markFailed"} \/ pc'[w] = pc[w]
    BY <1>7 DEF Trigger, ClaimFails, Prune, DrainExit, TypeOK
  <2> QED
    BY <2>1, <2>2 DEF EachClaimPublishesOnce
<1> QED
  BY <1>1, <1>2, <1>3, <1>4, <1>5, <1>6, <1>7
     DEF Next, Drain, PublishAny, vars, Commit, BackoffElapses, LockExpires, Toggle,
         MarkPublished, MarkFailed

\* A row becomes "published" only by markPublished, "pruned" only from there.
LEMMA PublishedBy ==
  ASSUME OutboxInv, [Next]_vars, NEW r \in Row,
         status'[r] \in {"published", "pruned"}, status[r] \notin {"published", "pruned"}
  PROVE  \E w \in Worker : MarkPublished(w) /\ cur[w] = r
<1> USE DEF OutboxInv
<1>1. ASSUME NEW w \in Worker, MarkPublished(w) PROVE cur[w] = r
  BY <1>1 DEF MarkPublished, TypeOK
<1>2. ASSUME NEW w \in Worker, Claim(w) PROVE FALSE
  BY <1>2, ClaimEffect
<1>3. ASSUME NEW w \in Worker, MarkFailed(w) PROVE FALSE
  BY <1>3 DEF MarkFailed, TypeOK
<1>4. ASSUME NEW w \in Worker, Prune(w) PROVE FALSE
  BY <1>4 DEF Prune
<1>5. ASSUME NEW q \in Row, Commit(q) PROVE FALSE
  BY <1>5 DEF Commit, TypeOK
<1>6. ASSUME UNCHANGED status PROVE FALSE
  BY <1>6
<1> QED
  BY <1>1, <1>2, <1>3, <1>4, <1>5, <1>6
     DEF Next, Drain, PublishAny, vars, table, BackoffElapses, LockExpires, Toggle, Trigger,
         ClaimFails, Publish, MarkPublishedFails, MarkFailedFails, Crash

\* Only a row that Centrifugo accepted becomes "published", then "pruned".
LEMMA SentStep == OutboxInv /\ [Next]_vars => PublishedWasSent'
<1> SUFFICES ASSUME OutboxInv, [Next]_vars PROVE PublishedWasSent'
  OBVIOUS
<1> USE DEF OutboxInv
<1>1. sent \subseteq sent'
  <2>1. ASSUME NEW w \in Worker, NEW r \in Row, Publish(w, r) PROVE sent \subseteq sent'
    BY <2>1 DEF Publish
  <2> QED
    BY <2>1 DEF Next, Drain, PublishAny, vars, table, Commit, BackoffElapses, LockExpires, Toggle, Trigger,
       Claim, ClaimFails, MarkPublished, MarkPublishedFails, MarkFailed, MarkFailedFails, Prune, Crash
<1>2. ASSUME NEW r \in Row, status'[r] \in {"published", "pruned"},
             status[r] \notin {"published", "pruned"}
      PROVE  \E n \in Attempt : <<r, n>> \in sent
  <2>1. PICK w \in Worker : MarkPublished(w) /\ cur[w] = r
    BY <1>2, PublishedBy
  <2>2. <<r, held[w][r]>> \in sent
    BY <2>1 DEF MarkPublished, MarkingIsBacked
  <2> QED
    BY <2>2 DEF TypeOK
<1> QED
  BY <1>1, <1>2 DEF PublishedWasSent

\* While no lock ran out under its holder, a row has one holder.
LEMMA LeaseStep == OutboxInv /\ [Next]_vars => LeaseIsExclusive'
<1> SUFFICES ASSUME OutboxInv, [Next]_vars, NEW r \in Row, r \notin overrun'
             PROVE  /\ \A w \in Holders(r)' : status'[r] = "processing" /\ ~stale'[r]
                                              /\ held'[w][r] = attempts'[r]
                    /\ \A v, w \in Holders(r)' : v = w
  BY DEF LeaseIsExclusive
<1> USE DEF OutboxInv
<1>1. r \notin overrun
  BY DEF Next, Drain, PublishAny, vars, table, Commit, BackoffElapses, LockExpires, Toggle, Trigger, Publish,
     Claim, ClaimFails, MarkPublished, MarkPublishedFails, MarkFailed, MarkFailedFails, Prune, Crash
<1>2. /\ \A w \in Holders(r) : status[r] = "processing" /\ ~stale[r] /\ held[w][r] = attempts[r]
      /\ \A v, w \in Holders(r) : v = w
  BY <1>1 DEF LeaseIsExclusive
<1> DEFINE Goal == /\ \A w \in Holders(r)' : status'[r] = "processing" /\ ~stale'[r]
                                              /\ held'[w][r] = attempts'[r]
                   /\ \A v, w \in Holders(r)' : v = w
<1>3. ASSUME UNCHANGED <<status, stale, attempts, held>> PROVE Goal
  BY <1>2, <1>3 DEF Holders
<1>4. ASSUME NEW q \in Row, Commit(q) PROVE Goal
  BY <1>2, <1>4 DEF Commit, Holders, TypeOK
<1>5. ASSUME NEW q \in Row, LockExpires(q) PROVE Goal
  BY <1>2, <1>5 DEF LockExpires, Holders, TypeOK
<1>6. ASSUME NEW w \in Worker, Claim(w) PROVE Goal
  <2>1. PICK C \in SUBSET Row :
          /\ \A q \in C : Claimable(q)
          /\ \A q \in Row : /\ status'[q] = IF q \in C THEN "processing" ELSE status[q]
                            /\ attempts'[q] = IF q \in C THEN attempts[q] + 1 ELSE attempts[q]
                            /\ stale'[q] = IF q \in C THEN FALSE ELSE stale[q]
                            /\ held'[w][q] = IF q \in C THEN attempts[q] + 1 ELSE 0
          /\ \A v \in Worker : v # w => held'[v] = held[v]
    BY <1>6, ClaimEffect
  <2>2. CASE r \in C
    <3>1. Holders(r) = {}
      BY <1>2, <2>1, <2>2 DEF Claimable
    <3>2. Holders(r)' \subseteq {w}
      BY <2>1, <3>1 DEF Holders
    <3> QED
      BY <2>1, <2>2, <3>2
  <2>3. CASE r \notin C
    <3>1. \A v \in Holders(r)' : v \in Holders(r) /\ held'[v] = held[v]
      <4>1. held'[w][r] = 0
        BY <2>1, <2>3
      <4>2. ASSUME NEW v \in Worker, held'[v][r] > 0 PROVE v # w /\ held'[v] = held[v]
        BY <2>1, <4>1, <4>2
      <4> QED
        BY <4>2 DEF Holders
    <3>2. status'[r] = status[r] /\ stale'[r] = stale[r] /\ attempts'[r] = attempts[r]
      BY <2>1, <2>3
    <3>3. \A v \in Holders(r)' : held'[v][r] = attempts'[r]
      BY <1>2, <3>1, <3>2
    <3>4. \A u, v \in Holders(r)' : u = v
      BY <1>2, <3>1
    <3>5. \A v \in Holders(r)' : status'[r] = "processing" /\ ~stale'[r]
      BY <1>2, <3>1, <3>2
    <3> QED
      BY <3>3, <3>4, <3>5
  <2> QED
    BY <2>2, <2>3
<1>7. ASSUME NEW w \in Worker, DropCurrent(w), UNCHANGED attempts,
             w \in Holders(cur[w]), cur[w] \in Row,
             \A q \in Row \ {cur[w]} : status'[q] = status[q] /\ stale'[q] = stale[q]
      PROVE  Goal
  <2>1. CASE r = cur[w]
    <3>1. Holders(r)' = {}
      BY <1>2, <1>7, <2>1, DropEffect DEF Holders
    <3> QED
      BY <3>1
  <2>2. CASE r # cur[w]
    <3>1. \A v \in Worker : held'[v][r] = held[v][r]
      BY <1>7, <2>2, DropEffect
    <3> QED
      BY <1>2, <1>7, <2>2, <3>1 DEF Holders
  <2> QED
    BY <2>1, <2>2
<1>8. ASSUME NEW w \in Worker, MarkPublished(w) \/ MarkFailed(w) PROVE Goal
  <2>1. w \in Holders(cur[w]) /\ cur[w] \in Row
    BY <1>8 DEF MarkPublished, MarkFailed, MarkingIsBacked, Holders
  <2>2. DropCurrent(w) /\ UNCHANGED attempts
    BY <1>8 DEF MarkPublished, MarkFailed
  <2>3. \A q \in Row \ {cur[w]} : status'[q] = status[q] /\ stale'[q] = stale[q]
    BY <1>8 DEF MarkPublished, MarkFailed, TypeOK
  <2> QED
    BY <1>7, <2>1, <2>2, <2>3
<1>9. ASSUME NEW w \in Worker, MarkFailedFails(w) \/ Crash(w) PROVE Goal
  BY <1>2, <1>9, LoseEffect DEF Holders, table
<1>10. ASSUME NEW w \in Worker, Prune(w) PROVE Goal
  BY <1>2, <1>10 DEF Prune, Holders
<1> QED
  BY <1>3, <1>4, <1>5, <1>6, <1>8, <1>9, <1>10
     DEF Next, Drain, PublishAny, vars, table, BackoffElapses, Toggle, Trigger, ClaimFails, Publish,
         MarkPublishedFails

\* No attempt is counted for an event whose transaction has not committed.
LEMMA EarlyStep == OutboxInv /\ [Next]_vars => NothingClaimedEarly'
<1> SUFFICES ASSUME OutboxInv, [Next]_vars PROVE NothingClaimedEarly'
  OBVIOUS
<1> USE DEF OutboxInv
<1>1. ASSUME UNCHANGED <<status, attempts>> PROVE NothingClaimedEarly'
  BY <1>1 DEF NothingClaimedEarly
<1>2. ASSUME NEW w \in Worker, Claim(w) PROVE NothingClaimedEarly'
  BY <1>2, ClaimEffect DEF NothingClaimedEarly
<1>3. ASSUME NEW q \in Row, Commit(q) PROVE NothingClaimedEarly'
  BY <1>3 DEF Commit, NothingClaimedEarly, TypeOK
<1>4. ASSUME NEW w \in Worker, MarkPublished(w) \/ MarkFailed(w) PROVE NothingClaimedEarly'
  BY <1>4 DEF MarkPublished, MarkFailed, NothingClaimedEarly, Stored, TypeOK
<1>5. ASSUME NEW w \in Worker, Prune(w) PROVE NothingClaimedEarly'
  BY <1>5 DEF Prune, NothingClaimedEarly
<1> QED
  BY <1>1, <1>2, <1>3, <1>4, <1>5
     DEF Next, Drain, PublishAny, vars, table, BackoffElapses, LockExpires, Toggle, Trigger, ClaimFails,
         Publish, MarkPublishedFails, MarkFailedFails, Crash

\* A trigger received is either about to be served or remembered in rerun.
LEMMA TriggerStep == OutboxInv /\ [Next]_vars => TriggerKept'
<1> SUFFICES ASSUME OutboxInv, [Next]_vars PROVE TriggerKept'
  OBVIOUS
<1> USE DEF OutboxInv
<1>1. ASSUME UNCHANGED <<asked, pc, rerun>> PROVE TriggerKept'
  BY <1>1 DEF TriggerKept
<1>2. ASSUME NEW w \in Worker, Trigger(w) PROVE TriggerKept'
  BY <1>2 DEF Trigger, TriggerKept, TypeOK
<1>3. ASSUME NEW w \in Worker, NEW C, RowDone(w, C), asked' = asked \/ asked' = [asked EXCEPT ![w] = FALSE],
             pc[w] # "claim" \/ ~asked'[w], pc[w] # "idle"
      PROVE  TriggerKept'
  BY <1>3 DEF RowDone, TriggerKept, TypeOK
<1>4. ASSUME NEW w \in Worker, DrainExit(w), asked' = asked \/ asked' = [asked EXCEPT ![w] = FALSE],
             pc[w] # "claim" \/ ~asked'[w]
      PROVE  TriggerKept'
  BY <1>4 DEF DrainExit, TriggerKept, TypeOK
<1>5. ASSUME NEW w \in Worker, Claim(w) PROVE TriggerKept'
  <2>1. \E C \in SUBSET Row : RowDone(w, C)
    BY <1>5, ClaimEffect
  <2> QED
    BY <1>3, <1>5, <2>1 DEF Claim, TypeOK
<1>6. ASSUME NEW w \in Worker, ClaimFails(w) PROVE TriggerKept'
  BY <1>4, <1>6 DEF ClaimFails, TypeOK
<1>7. ASSUME NEW w \in Worker, NEW r \in Row, Publish(w, r) PROVE TriggerKept'
  BY <1>7 DEF Publish, TriggerKept, TypeOK
<1>8. ASSUME NEW w \in Worker, MarkPublished(w) \/ MarkFailed(w) PROVE TriggerKept'
  <2>1. RowDone(w, Batch(w) \ {cur[w]}) /\ asked' = asked /\ pc[w] \notin {"claim", "idle"}
    BY <1>8 DEF MarkPublished, MarkFailed, DropCurrent
  <2> QED
    BY <1>3, <2>1
<1>9. ASSUME NEW w \in Worker, MarkPublishedFails(w) PROVE TriggerKept'
  BY <1>9 DEF MarkPublishedFails, TriggerKept, TypeOK
<1>10. ASSUME NEW w \in Worker, MarkFailedFails(w) \/ Prune(w) PROVE TriggerKept'
  BY <1>4, <1>10 DEF MarkFailedFails, Prune
<1>11. ASSUME NEW w \in Worker, Crash(w) PROVE TriggerKept'
  BY <1>11 DEF Crash, TriggerKept, TypeOK
<1> QED
  BY <1>1, <1>2, <1>5, <1>6, <1>7, <1>8, <1>9, <1>10, <1>11
     DEF Next, Drain, PublishAny, vars, Commit, BackoffElapses, LockExpires, Toggle

\* The inductive invariant holds in every reachable state.
THEOREM OutboxInvariant == Spec => []OutboxInv
<1>1. Init => OutboxInv
  BY OutboxAssumption
     DEF Init, OutboxInv, TypeOK, Status, NoRow, ClaimsCounted, MarkingIsBacked, NothingClaimedEarly, TriggerKept,
         EachClaimPublishesOnce, LeaseIsExclusive, PublishedWasSent, Holders, Attempt
<1>2. OutboxInv /\ [Next]_vars => OutboxInv'
  <2>1. OutboxInv /\ [Next]_vars => TypeOK'
    BY TypeStep DEF OutboxInv
  <2> QED
    BY <2>1, CountedStep, MarkingStep, PublishOnceStep, SentStep, LeaseStep, EarlyStep, TriggerStep
    DEF OutboxInv
<1> QED
  BY <1>1, <1>2, PTL DEF Spec

\* A claim never publishes its row twice, whatever crashes and overruns happen:
\* Centrifugo gets at most MaxAttempts copies of an event.
THEOREM PublishesOncePerClaim == Spec => []EachClaimPublishesOnce
<1>1. OutboxInv => EachClaimPublishesOnce
  BY DEF OutboxInv
<1> QED
  BY <1>1, OutboxInvariant, PTL

\* Without a lock running out under its holder no two API processes ever work
\* on the same row of event_outbox.
THEOREM LeaseExclusion == Spec => []LeaseIsExclusive
<1>1. OutboxInv => LeaseIsExclusive
  BY DEF OutboxInv
<1> QED
  BY <1>1, OutboxInvariant, PTL

\* An event is marked published, and later pruned, only after a delivery.
THEOREM NothingPrunedUndelivered == Spec => []PublishedWasSent
<1>1. OutboxInv => PublishedWasSent
  BY DEF OutboxInv
<1> QED
  BY <1>1, OutboxInvariant, PTL

\* drainRerunRequested never loses a trigger.
THEOREM TriggersServed == Spec => []TriggerNotLost
<1>1. OutboxInv => TriggerNotLost
  BY DEF OutboxInv, TriggerKept, TriggerNotLost
<1> QED
  BY <1>1, OutboxInvariant, PTL

\* A delivered row leaves "published" only by the prune, unless a process
\* overran its lock on it.
THEOREM PublishedFinality == Spec => PublishedIsFinal
<1>1. ASSUME OutboxInv, [Next]_vars, NEW r \in Row, status[r] = "published", r \notin overrun
      PROVE  status'[r] \in {"published", "pruned"}
  <2> USE DEF OutboxInv
  <2>1. \A w \in Worker : ~(held[w][r] > 0)
    <3>1. Holders(r) = {}
      BY <1>1 DEF LeaseIsExclusive
    <3> QED
      BY <3>1 DEF Holders
  <2>2. ASSUME NEW w \in Worker, Claim(w) PROVE status'[r] = "published"
    BY <1>1, <2>2, ClaimEffect DEF Claimable
  <2>3. ASSUME NEW w \in Worker, MarkFailed(w) PROVE status'[r] = "published"
    <3>1. cur[w] # r
      BY <1>1, <2>1, <2>3 DEF MarkFailed, MarkingIsBacked
    <3> QED
      BY <1>1, <2>3, <3>1 DEF MarkFailed, TypeOK
  <2>4. ASSUME NEW w \in Worker, MarkPublished(w) PROVE status'[r] = "published"
    BY <1>1, <2>4 DEF MarkPublished, TypeOK
  <2>5. ASSUME NEW w \in Worker, Prune(w) PROVE status'[r] \in {"published", "pruned"}
    BY <1>1, <2>5 DEF Prune
  <2>6. ASSUME NEW q \in Row, Commit(q) PROVE status'[r] = "published"
    BY <1>1, <2>6 DEF Commit, TypeOK
  <2> QED
    BY <1>1, <2>2, <2>3, <2>4, <2>5, <2>6
       DEF Next, Drain, PublishAny, vars, table, BackoffElapses, LockExpires, Toggle, Trigger,
           ClaimFails, Publish, MarkPublishedFails, MarkFailedFails, Crash
<1>2. OutboxInv /\ [Next]_vars =>
        [\A r \in Row : status[r] = "published" /\ r \notin overrun
                          => status'[r] \in {"published", "pruned"}]_vars
  BY <1>1
<1> QED
  BY <1>2, OutboxInvariant, PTL DEF Spec, PublishedIsFinal

\* The outbox implements at-least-once delivery with at most MaxAttempts copies.
THEOREM DeliveryRefinement == Spec => DeliveryImplemented
<1> DEFINE obl == [r \in Row |-> CASE status[r] = "absent" -> "none"
                                   [] status[r] = "pruned" -> "forgotten"
                                   [] OTHER -> "owed"]
           cop == [r \in Row |-> {n \in Attempt : <<r, n>> \in sent}]
<1>1. Init => Delivery!Init
  BY DEF Init, Delivery!Init
<1>2. ASSUME OutboxInv, [Next]_vars PROVE [Delivery!Next]_(Delivery!vars)
  <2> USE <1>2 DEF OutboxInv
  <2>1. ASSUME NEW r \in Row, Commit(r) PROVE Delivery!Accept(r)
    BY <2>1 DEF Commit, Delivery!Accept, TypeOK
  <2>2. ASSUME NEW w \in Worker, NEW r \in Row, Publish(w, r), sent' # sent
        PROVE  \E n \in Attempt : Delivery!Deliver(r, n)
    <3>1. held[w][r] \in Attempt /\ held[w][r] <= attempts[r]
      BY <2>2, OutboxAssumption DEF Publish, Batch, TypeOK, Attempt, ClaimsCounted
    <3>2. pc[w] = "publish" /\ held[w][r] > 0 /\ sent' = sent \cup {<<r, held[w][r]>>} /\ status' = status
      BY <2>2 DEF Publish, Batch, table
    <3>3. <<r, held[w][r]>> \notin sent
      BY <3>2 DEF EachClaimPublishesOnce
    <3>4. status[r] # "absent"
      BY <3>1, OutboxAssumption DEF NothingClaimedEarly, Attempt
    <3>5. PICK n \in Attempt : n = held[w][r]
      BY <3>1
    <3>6. cop' = [cop EXCEPT ![r] = @ \cup {n}]
      BY <3>1, <3>2, <3>5
    <3> QED
      BY <3>2, <3>3, <3>4, <3>5, <3>6 DEF Delivery!Deliver
  <2>3. ASSUME NEW w \in Worker, Prune(w) PROVE \E S \in SUBSET Row : Delivery!Forget(S)
    <3>1. PICK D \in SUBSET {r \in Row : status[r] = "published"} :
            status' = [r \in Row |-> IF r \in D THEN "pruned" ELSE status[r]]
      BY <2>3 DEF Prune
    <3>2. \A r \in D : obl[r] = "owed" /\ cop[r] # {}
      BY <3>1 DEF PublishedWasSent
    <3>3. obl' = [r \in Row |-> IF r \in D THEN "forgotten" ELSE obl[r]]
      BY <3>1
    <3>4. cop' = cop
      BY <2>3 DEF Prune
    <3> QED
      BY <3>1, <3>2, <3>3, <3>4 DEF Delivery!Forget
  <2>4. ASSUME sent' = sent,
               \A r \in Row : /\ (status'[r] = "absent") = (status[r] = "absent")
                              /\ (status'[r] = "pruned") = (status[r] = "pruned")
        PROVE  UNCHANGED Delivery!vars
    BY <2>4 DEF Delivery!vars
  <2>5. ASSUME NEW w \in Worker, Claim(w) PROVE UNCHANGED Delivery!vars
    <3>1. sent' = sent
      BY <2>5 DEF Claim
    <3>2. \A r \in Row : /\ (status'[r] = "absent") = (status[r] = "absent")
                         /\ (status'[r] = "pruned") = (status[r] = "pruned")
      BY <2>5, ClaimEffect DEF Claimable
    <3> QED
      BY <2>4, <3>1, <3>2
  <2>6. ASSUME NEW w \in Worker, MarkPublished(w) \/ MarkFailed(w) PROVE UNCHANGED Delivery!vars
    <3>1. sent' = sent
      BY <2>6 DEF MarkPublished, MarkFailed
    <3>2. \A r \in Row : /\ (status'[r] = "absent") = (status[r] = "absent")
                         /\ (status'[r] = "pruned") = (status[r] = "pruned")
      BY <2>6 DEF MarkPublished, MarkFailed, Stored, TypeOK
    <3> QED
      BY <2>4, <3>1, <3>2
  <2>7. ASSUME UNCHANGED <<status, sent>> PROVE UNCHANGED Delivery!vars
    BY <2>7 DEF Delivery!vars
  <2>8. ASSUME NEW w \in Worker, NEW r \in Row, Publish(w, r), sent' = sent PROVE UNCHANGED Delivery!vars
    BY <2>7, <2>8 DEF Publish, table
  <2>9. CASE \E r \in Row : Commit(r)
    BY <2>1, <2>9 DEF Delivery!Next
  <2>10. CASE \E w \in Worker : PublishAny(w)
    <3>1. PICK w \in Worker, r \in Row : Publish(w, r)
      BY <2>10 DEF PublishAny
    <3>2. CASE sent' = sent
      BY <2>8, <3>1, <3>2
    <3>3. CASE sent' # sent
      <4>1. \E n \in Attempt : Delivery!Deliver(r, n)
        BY <2>2, <3>1, <3>3
      <4> QED
        BY <3>1, <4>1 DEF Delivery!Next
    <3> QED
      BY <3>2, <3>3
  <2>11. CASE \E w \in Worker : Prune(w)
    BY <2>3, <2>11 DEF Delivery!Next
  <2>12. CASE \E w \in Worker : Claim(w) \/ MarkPublished(w) \/ MarkFailed(w)
    BY <2>5, <2>6, <2>12
  <2>13. CASE UNCHANGED <<status, sent>>
    BY <2>7, <2>13
  <2> QED
    BY <1>2, <2>9, <2>10, <2>11, <2>12, <2>13
       DEF Next, Drain, vars, table, BackoffElapses, LockExpires, Toggle, Trigger,
           ClaimFails, MarkPublishedFails, MarkFailedFails, Crash
<1> QED
  BY <1>1, <1>2, OutboxInvariant, PTL DEF Spec, DeliveryImplemented, Delivery!Spec

=============================================================================
