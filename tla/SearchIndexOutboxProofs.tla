----------------------- MODULE SearchIndexOutboxProofs -----------------------
(***************************************************************************)
(* Safety of SearchIndexOutbox for any messages, requests, processes and    *)
(* rows.  The invariant adds to the properties where rows and calls come    *)
(* from, and that the text a worker has read is never a later one than the  *)
(* message table holds.                                                    *)
(***************************************************************************)
EXTENDS SearchIndexOutbox, TLAPS

\* Rows and calls are of posted messages, those that delete of deleted ones.
OriginsStand ==
    /\ \A m \in Message : text[m] # None => m \in posted
    /\ \A r \in Row : status[r] # "absent" =>
         /\ MessageOf(r) \in posted
         /\ OperationOf(r) = "delete" => text[MessageOf(r)] = None
    /\ \A q \in Request : call[q] # NoCall =>
         /\ call[q].m \in posted
         /\ call[q].op = "delete" => text[call[q].m] = None

\* The index holds the text of m, or it is on record why it does not.
Written(m) == doc[m] = text[m] \/ m \in overtaken \cup dropped

\* What a worker has read is no later than the text, and is None only for good;
\* once written, it is in the index unless a write of an older text came after.
SnapStands(w) ==
    pc[w] \in {"apply", "complete", "fail"} =>
        LET m == MessageOf(cur[w])
        IN /\ text[m] # None => snap[w] # None /\ snap[w] <= text[m]
           /\ pc[w] = "complete" /\ snap[w] = text[m] => Written(m)

SnapsStand == \A w \in Worker : SnapStands(w)

\* IndexCovered for one message.
Covered(m) == Written(m) \/ Carried(m)
AllCovered == \A m \in Message : Covered(m)

IInv == TypeOK /\ HeldOnce /\ IndexCovered /\ OriginsStand /\ SnapsStand

-----------------------------------------------------------------------------
(* The outbox table.                                                       *)

LEMMA RowHasKey ==
    ASSUME TypeOK, NEW r \in Row, status[r] # "absent"
    PROVE  /\ key[r] \in Message \X Operation
           /\ MessageOf(r) \in Message /\ OperationOf(r) \in Operation
           /\ key[r] = <<MessageOf(r), OperationOf(r)>>
  BY DEF TypeOK, MessageOf, OperationOf

LEMMA WorkerHasRow ==
    ASSUME TypeOK, NEW w \in Worker, pc[w] \in {"apply", "complete", "fail"}
    PROVE  /\ cur[w] \in Row /\ cur[w] \in batch[w] /\ status[cur[w]] # "absent"
           /\ MessageOf(cur[w]) \in Message
  <1>1. cur[w] \in batch[w] /\ batch[w] \subseteq Row
    BY DEF TypeOK
  <1>2. cur[w] \in Row /\ status[cur[w]] # "absent"
    BY <1>1 DEF TypeOK
  <1> QED
    BY <1>1, <1>2, RowHasKey

\* What an enqueue does: the message has an active row, no other row changes its
\* message or leaves the queue, and a held row that changes is noted.
LEMMA Enqueued ==
    ASSUME TypeOK, NEW m \in Message, NEW op \in Operation, Enqueue(m, op)
    PROVE  /\ key' \in [Row -> (Message \X Operation) \cup {NoKey}]
           /\ status' \in [Row -> ActiveStatus \cup {"absent", "completed"}]
           /\ due' \in [Row -> BOOLEAN] /\ stale' \in [Row -> BOOLEAN]
           /\ undercut' \subseteq Row /\ undercut \subseteq undercut'
           /\ \A r \in Row : status'[r] = "absent" <=> key'[r] = NoKey
           /\ \A r \in Row : status[r] # "absent" => status'[r] # "absent" /\ key'[r] = key[r]
           /\ \A r \in Row : status[r] = "absent" /\ status'[r] # "absent" => key'[r] = <<m, op>>
           /\ \A r \in Row : Active(r) => Active(r)'
           /\ \A r \in Row : status[r] = "completed" => status'[r] = "completed"
           /\ \E r \in Row : Active(r)' /\ key'[r] = <<m, op>>
           /\ \A r \in Row \ undercut', w \in Worker : r \in batch[w] =>
                status'[r] = status[r] /\ stale'[r] = stale[r]
  <1>1. ASSUME NEW r \in Row, ActiveRow(r, <<m, op>>), Reopen(r)
        PROVE  /\ key' \in [Row -> (Message \X Operation) \cup {NoKey}]
               /\ status' \in [Row -> ActiveStatus \cup {"absent", "completed"}]
               /\ due' \in [Row -> BOOLEAN] /\ stale' \in [Row -> BOOLEAN]
               /\ undercut' \subseteq Row /\ undercut \subseteq undercut'
               /\ \A x \in Row \ {r} : status'[x] = status[x] /\ stale'[x] = stale[x]
               /\ status'[r] = "pending" /\ key' = key
               /\ status[r] \in ActiveStatus /\ key[r] = <<m, op>>
               /\ \A w \in Worker : r \in batch[w] => r \in undercut'
    <2>1. undercut' \subseteq Row /\ undercut \subseteq undercut'
      BY <1>1 DEF TypeOK, Reopen
    <2>2. \A w \in Worker : r \in batch[w] => r \in undercut'
      BY <1>1 DEF Reopen, Holders
    <2>3. /\ status' \in [Row -> ActiveStatus \cup {"absent", "completed"}]
          /\ due' \in [Row -> BOOLEAN] /\ stale' \in [Row -> BOOLEAN]
          /\ \A x \in Row \ {r} : status'[x] = status[x] /\ stale'[x] = stale[x]
          /\ status'[r] = "pending"
      BY <1>1 DEF TypeOK, Reopen, ActiveStatus
    <2> QED
      BY <1>1, <2>1, <2>2, <2>3 DEF TypeOK, Reopen, ActiveRow, Active
  <1>2. ASSUME NEW r \in Row, FirstAbsent(r), Insert(r, <<m, op>>)
        PROVE  /\ key' \in [Row -> (Message \X Operation) \cup {NoKey}]
               /\ status' \in [Row -> ActiveStatus \cup {"absent", "completed"}]
               /\ UNCHANGED <<due, stale, undercut>>
               /\ \A x \in Row \ {r} : status'[x] = status[x] /\ key'[x] = key[x]
               /\ status'[r] = "pending" /\ key'[r] = <<m, op>> /\ status[r] = "absent"
               /\ \A w \in Worker : r \notin batch[w]
    <2>1. /\ UNCHANGED <<due, stale, undercut>>
          /\ key' = [key EXCEPT ![r] = <<m, op>>] /\ status' = [status EXCEPT ![r] = "pending"]
          /\ status[r] = "absent"
      BY <1>2 DEF Insert, FirstAbsent
    <2>2. \A w \in Worker : r \notin batch[w]
      BY <2>1 DEF TypeOK
    <2>3. <<m, op>> \in Message \X Operation
      OBVIOUS
    <2>4. key' \in [Row -> (Message \X Operation) \cup {NoKey}]
      BY <2>1, <2>3 DEF TypeOK
    <2> QED
      BY <2>1, <2>2, <2>4 DEF TypeOK, ActiveStatus
  <1>3. <<m, op>> # NoKey
    BY DEF NoKey
  <1>4. CASE \E r \in Row : ActiveRow(r, <<m, op>>) /\ Reopen(r)
    <2>1. PICK r \in Row : ActiveRow(r, <<m, op>>) /\ Reopen(r)
      BY <1>4
    <2> QED
      BY <1>1, <1>3, <2>1, SMTT(30) DEF TypeOK, Active, ActiveStatus
  <1>5. CASE \E r \in Row : FirstAbsent(r) /\ Insert(r, <<m, op>>)
    <2>1. PICK r \in Row : FirstAbsent(r) /\ Insert(r, <<m, op>>)
      BY <1>5
    <2> QED
      BY <1>2, <1>3, <2>1 DEF TypeOK, Active, ActiveStatus
  <1> QED
    BY <1>4, <1>5 DEF Enqueue

LEMMA Versions ==
    None \in Version /\ 1 \in Version /\ \A v \in Version : v < MaxVersion => v + 1 \in Version
  BY SearchAssumption DEF None, Version

\* What a request, a write and the end of a row leave well typed.
LEMMA StartCallType ==
    ASSUME TypeOK, NEW q \in Request, NEW m \in Message, NEW op \in Operation, NEW v \in Version,
           NEW queued \in BOOLEAN, StartCall(q, m, op, v, queued)
    PROVE  /\ call' \in [Request -> Call \cup {NoCall}]
           /\ \A p \in Request \ {q} : call'[p] = call[p]
           /\ call'[q] # NoCall /\ call'[q].m = m /\ call'[q].op = op /\ call'[q].queued = queued
  <1> DEFINE c == [at |-> "send", m |-> m, op |-> op, v |-> v, queued |-> queued]
  <1>1. c \in Call /\ c # NoCall /\ c.m = m /\ c.op = op /\ c.queued = queued
    BY DEF Call, NoCall
  <1>2. call' = [call EXCEPT ![q] = c]
    BY DEF StartCall
  <1> HIDE DEF c
  <1> QED
    BY <1>1, <1>2 DEF TypeOK

LEMMA StartedCall ==
    ASSUME TypeOK, NEW q \in Request, NEW m \in Message, NEW op \in Operation, NEW v \in Version,
           NEW queued \in BOOLEAN, StartCall(q, m, op, v, queued)
    PROVE  \A p \in Request : call'[p] # NoCall =>
             call'[p] = call[p] \/ (call'[p].m = m /\ call'[p].op = op)
  <1>1. \A p \in Request \ {q} : call'[p] = call[p]
    BY StartCallType
  <1>2. call'[q].m = m /\ call'[q].op = op
    BY StartCallType
  <1> QED
    BY <1>1, <1>2

LEMMA WriteType ==
    ASSUME TypeOK, NEW m \in Message, NEW v \in Version, Write(m, v)
    PROVE  /\ doc' \in [Message -> Version] /\ overtaken' \subseteq Message /\ dropped' \subseteq Message
           /\ doc'[m] = v /\ (v # text[m] => m \in overtaken')
           /\ \A n \in Message \ {m} : /\ doc'[n] = doc[n]
                                       /\ n \in overtaken' <=> n \in overtaken
                                       /\ n \in dropped' <=> n \in dropped
  BY DEF TypeOK, Write

LEMMA CallType ==
    ASSUME TypeOK, NEW q \in Request, call[q] # NoCall
    PROVE  /\ call[q] \in Call /\ call[q].m \in Message /\ call[q].op \in Operation
           /\ call[q].v \in Version
  BY DEF TypeOK, Call

LEMMA CallFailedType ==
    ASSUME TypeOK, NEW q \in Request, call[q] # NoCall, call' = [call EXCEPT ![q].at = "enqueue"]
    PROVE  /\ call' \in [Request -> Call \cup {NoCall}]
           /\ \A p \in Request : call'[p] # NoCall =>
                call[p] # NoCall /\ call'[p].m = call[p].m /\ call'[p].op = call[p].op
           /\ \A p \in Request : call[p] # NoCall => call'[p] # NoCall /\ call'[p].m = call[p].m
           /\ \A p \in Request : call[p] # NoCall /\ ~call[p].queued => ~call'[p].queued
  <1> DEFINE c == [call[q] EXCEPT !.at = "enqueue"]
  <1>1. call[q] \in Call
    BY CallType
  <1>2. /\ c \in Call /\ c # NoCall /\ c.m = call[q].m /\ c.op = call[q].op
        /\ c.queued = call[q].queued
    BY <1>1 DEF Call, NoCall
  <1>3. call' = [call EXCEPT ![q] = c]
    OBVIOUS
  <1> HIDE DEF c
  <1>4. call'[q] = c /\ \A p \in Request \ {q} : call'[p] = call[p]
    BY <1>3 DEF TypeOK
  <1>5. call' \in [Request -> Call \cup {NoCall}]
    BY <1>2, <1>3 DEF TypeOK
  <1>6. ~call[q].queued => ~call'[q].queued
    BY <1>2, <1>4
  <1> QED
    BY <1>2, <1>4, <1>5, <1>6

LEMMA RowDoneType ==
    ASSUME TypeOK, NEW w \in Worker, cur[w] \in batch[w], RowDone(w)
    PROVE  /\ pc' \in [Worker -> {"idle", "next", "apply", "complete", "fail"}]
           /\ batch' \in [Worker -> SUBSET Row] /\ cur' \in [Worker -> Row \cup {NoRow}]
           /\ snap' \in [Worker -> Version]
           /\ \A x \in Worker : batch'[x] \subseteq batch[x]
           /\ \A x \in Worker \ {w} : /\ batch'[x] = batch[x] /\ pc'[x] = pc[x]
                                       /\ cur'[x] = cur[x] /\ snap'[x] = snap[x]
           /\ batch'[w] = batch[w] \ {cur[w]} /\ cur'[w] = NoRow
           /\ IF batch'[w] = {} THEN pc'[w] = "idle" ELSE pc'[w] = "next"
  <1>1. batch[w] = {cur[w]} <=> batch[w] \ {cur[w]} = {}
    OBVIOUS
  <1>2. None \in Version
    BY Versions
  <1> QED
    BY <1>1, <1>2 DEF TypeOK, RowDone

LEMMA AbandonType ==
    ASSUME TypeOK, NEW w \in Worker, Abandon(w)
    PROVE  /\ pc' \in [Worker -> {"idle", "next", "apply", "complete", "fail"}]
           /\ batch' \in [Worker -> SUBSET Row] /\ cur' \in [Worker -> Row \cup {NoRow}]
           /\ snap' \in [Worker -> Version]
           /\ \A x \in Worker \ {w} : /\ batch'[x] = batch[x] /\ pc'[x] = pc[x]
                                       /\ cur'[x] = cur[x] /\ snap'[x] = snap[x]
           /\ batch'[w] = {} /\ cur'[w] = NoRow /\ pc'[w] = "idle"
  <1>1. None \in Version
    BY Versions
  <1> QED
    BY <1>1 DEF TypeOK, Abandon

LEMMA TypeStep ==
    ASSUME IInv, [Next]_vars
    PROVE  TypeOK'
  <1>0. TypeOK
    BY DEF IInv
  <1>1. ASSUME NEW m \in Message, Reply(m)
        PROVE  TypeOK'
    <2>1. Enqueue(m, "index") /\ "index" \in Operation
      BY <1>1 DEF Reply, Publish, Operation
    <2>2. posted' \subseteq Message /\ text' \in [Message -> Version]
      BY <1>0, <1>1, Versions DEF Reply, Publish, TypeOK
    <2> QED
      BY <1>0, <1>1, <2>1, <2>2, Enqueued DEF Reply, Publish, TypeOK, worker
  <1>2. ASSUME NEW q \in Request, NEW m \in Message, Post(q, m)
        PROVE  TypeOK'
    <2>1. Enqueue(m, "index") /\ "index" \in Operation
      BY <1>2 DEF Post, Publish, Operation
    <2>2. posted' \subseteq Message /\ text' \in [Message -> Version] /\ 1 \in Version
      BY <1>0, <1>2, Versions DEF Post, Publish, TypeOK
    <2>3. call' \in [Request -> Call \cup {NoCall}]
      BY <1>0, <1>2, <2>1, <2>2, StartCallType DEF Post
    <2> QED
      BY <1>0, <1>2, <2>1, <2>2, <2>3, Enqueued DEF Post, Publish, TypeOK, worker
  <1>3. ASSUME NEW q \in Request, NEW m \in Message, Edit(q, m)
        PROVE  TypeOK'
    <2>1. Enqueue(m, "update") /\ "update" \in Operation
      BY <1>3 DEF Edit, Operation
    <2>2. posted' \subseteq Message /\ text' \in [Message -> Version] /\ text[m] + 1 \in Version
      BY <1>0, <1>3, Versions DEF Edit, TypeOK
    <2>3. call' \in [Request -> Call \cup {NoCall}]
      BY <1>0, <1>3, <2>1, <2>2, StartCallType DEF Edit
    <2> QED
      BY <1>0, <1>3, <2>1, <2>2, <2>3, Enqueued DEF Edit, TypeOK, worker
  <1>4. ASSUME NEW q \in Request, NEW m \in Message, Delete(q, m)
        PROVE  TypeOK'
    <2>1. Enqueue(m, "delete") /\ "delete" \in Operation
      BY <1>4 DEF Delete, Operation
    <2>2. posted' \subseteq Message /\ text' \in [Message -> Version] /\ None \in Version
      BY <1>0, <1>4, Versions DEF Delete, TypeOK
    <2>3. call' \in [Request -> Call \cup {NoCall}]
      BY <1>0, <1>4, <2>1, <2>2, StartCallType DEF Delete
    <2> QED
      BY <1>0, <1>4, <2>1, <2>2, <2>3, Enqueued DEF Delete, TypeOK, worker
  <1>5. ASSUME NEW q \in Request, NEW m \in Message, Moderate(q, m)
        PROVE  TypeOK'
    <2>1. text' \in [Message -> Version] /\ None \in Version /\ "delete" \in Operation
      BY <1>0, <1>5, Versions DEF Moderate, TypeOK, Operation
    <2>2. call' \in [Request -> Call \cup {NoCall}]
      BY <1>0, <1>5, <2>1, StartCallType DEF Moderate
    <2> QED
      BY <1>0, <1>5, <2>1, <2>2 DEF Moderate, TypeOK, table, worker, ghosts
  <1>6. ASSUME NEW q \in Request, CallSucceeds(q)
        PROVE  TypeOK'
    <2>1. /\ doc' \in [Message -> Version] /\ overtaken' \subseteq Message /\ dropped' \subseteq Message
      BY <1>0, <1>6, CallType, WriteType DEF CallSucceeds
    <2> QED
      BY <1>0, <1>6, <2>1 DEF CallSucceeds, TypeOK, table, worker
  <1>7. ASSUME NEW q \in Request, CallFails(q)
        PROVE  TypeOK'
    <2>1. /\ doc' \in [Message -> Version] /\ overtaken' \subseteq Message /\ dropped' \subseteq Message
      <3>1. CASE Write(call[q].m, call[q].v)
        BY <1>0, <1>7, <3>1, CallType, WriteType DEF CallFails
      <3>2. CASE UNCHANGED <<doc, overtaken, dropped>>
        BY <1>0, <3>2 DEF TypeOK
      <3> QED
        BY <1>7, <3>1, <3>2 DEF CallFails
    <2>2. call' \in [Request -> Call \cup {NoCall}]
      BY <1>0, <1>7, CallFailedType DEF CallFails
    <2> QED
      BY <1>0, <1>7, <2>1, <2>2 DEF CallFails, TypeOK, table, worker
  <1>8. ASSUME NEW q \in Request, EnqueueAfterFailure(q)
        PROVE  TypeOK'
    <2>1. Enqueue(call[q].m, call[q].op) /\ call[q].m \in Message /\ call[q].op \in Operation
      BY <1>0, <1>8, CallType DEF EnqueueAfterFailure
    <2> QED
      BY <1>0, <1>8, <2>1, Enqueued DEF EnqueueAfterFailure, TypeOK, worker
  <1>9. ASSUME NEW q \in Request, EnqueueFails(q)
        PROVE  TypeOK'
    <2>1. dropped' \subseteq Message
      BY <1>0, <1>9, CallType DEF EnqueueFails, LostWith, TypeOK
    <2> QED
      BY <1>0, <1>9, <2>1 DEF EnqueueFails, TypeOK, table, worker
  <1>10. ASSUME NEW w \in Worker, Claim(w)
        PROVE  TypeOK'
    <2>1. PICK C \in (SUBSET Row) \ {{}} :
            /\ OldestOf(C, {r \in Row : Claimable(r)})
            /\ status' = [r \in Row |-> IF r \in C THEN "processing" ELSE status[r]]
            /\ stale' = [r \in Row |-> IF r \in C THEN FALSE ELSE stale[r]]
            /\ batch' = [batch EXCEPT ![w] = C]
      BY <1>10 DEF Claim
    <2>2. \A r \in C : status[r] # "absent"
      BY <2>1 DEF OldestOf, Claimable
    <2>3. /\ status' \in [Row -> ActiveStatus \cup {"absent", "completed"}]
          /\ stale' \in [Row -> BOOLEAN] /\ batch' \in [Worker -> SUBSET Row]
          /\ \A r \in Row : status'[r] = "absent" <=> status[r] = "absent"
      BY <1>0, <2>1, <2>2 DEF TypeOK, ActiveStatus
    <2>4. /\ pc' = [pc EXCEPT ![w] = "next"] /\ pc[w] = "idle"
          /\ UNCHANGED <<posted, text, doc, key, due, cur, snap, call, faults, ghosts>>
      BY <1>10 DEF Claim
    <2>5. ASSUME NEW x \in Worker
          PROVE  /\ pc'[x] = "idle" <=> batch'[x] = {}
                 /\ IF pc'[x] \in {"idle", "next"} THEN cur'[x] = NoRow ELSE cur'[x] \in batch'[x]
                 /\ \A r \in batch'[x] : status'[r] # "absent"
      <3>1. CASE x = w
        <4>1. batch'[w] = C /\ C # {} /\ C \subseteq Row /\ pc'[w] = "next"
          <5>1. C # {} /\ C \subseteq Row
            BY <2>1
          <5>2. batch'[w] = C
            BY <1>0, <2>1 DEF TypeOK
          <5>3. pc'[w] = "next"
            BY <1>0, <2>4 DEF TypeOK
          <5> QED
            BY <5>1, <5>2, <5>3
        <4>2. cur'[w] = NoRow
          BY <1>0, <2>4 DEF TypeOK
        <4> QED
          BY <2>2, <2>3, <3>1, <4>1, <4>2
      <3>2. CASE x # w
        <4>1. batch'[x] = batch[x] /\ pc'[x] = pc[x] /\ cur' = cur /\ batch[x] \subseteq Row
          BY <1>0, <2>1, <2>4, <3>2 DEF TypeOK
        <4> QED
          BY <1>0, <2>3, <4>1 DEF TypeOK
      <3> QED
        BY <3>1, <3>2
    <2>6. pc' \in [Worker -> {"idle", "next", "apply", "complete", "fail"}]
      BY <1>0, <2>4 DEF TypeOK
    <2> QED
      BY <1>0, <2>3, <2>4, <2>5, <2>6 DEF TypeOK, ghosts
  <1>11. ASSUME NEW w \in Worker, NEW r \in Row, ReadRow(w, r)
        PROVE  TypeOK'
    <2>1. snap' \in [Worker -> Version]
      <3>1. batch[w] \subseteq Row /\ status[r] # "absent"
        BY <1>0, <1>11 DEF ReadRow, TypeOK
      <3>2. MessageOf(r) \in Message
        BY <1>0, <3>1, RowHasKey
      <3>3. text[MessageOf(r)] \in Version /\ None \in Version
        BY <1>0, <3>2, Versions DEF TypeOK
      <3> QED
        BY <1>0, <1>11, <3>3 DEF ReadRow, TypeOK
    <2> QED
      BY <1>0, <1>11, <2>1 DEF ReadRow, TypeOK, table, ghosts
  <1>12. ASSUME NEW w \in Worker, Apply(w)
        PROVE  TypeOK'
    <2>1. MessageOf(cur[w]) \in Message /\ snap[w] \in Version
      BY <1>0, <1>12, WorkerHasRow DEF Apply, TypeOK
    <2> QED
      BY <1>0, <1>12, <2>1, WriteType DEF Apply, TypeOK, table
  <1>13. ASSUME NEW w \in Worker, ApplyFails(w)
        PROVE  TypeOK'
    <2>1. MessageOf(cur[w]) \in Message /\ snap[w] \in Version
      BY <1>0, <1>13, WorkerHasRow DEF ApplyFails, TypeOK
    <2>2. /\ doc' \in [Message -> Version] /\ overtaken' \subseteq Message /\ dropped' \subseteq Message
      <3>1. CASE Write(MessageOf(cur[w]), snap[w])
        BY <1>0, <2>1, <3>1, WriteType
      <3>2. CASE UNCHANGED <<doc, overtaken, dropped>>
        BY <1>0, <3>2 DEF TypeOK
      <3> QED
        BY <1>13, <3>1, <3>2 DEF ApplyFails
    <2> QED
      BY <1>0, <1>13, <2>2, SearchAssumption DEF ApplyFails, CountFault, TypeOK, table
  <1>14. ASSUME NEW w \in Worker, Complete(w)
        PROVE  TypeOK'
    <2>1. /\ cur[w] \in Row /\ cur[w] \in batch[w] /\ status[cur[w]] # "absent"
          /\ MessageOf(cur[w]) \in Message
      BY <1>0, <1>14, WorkerHasRow DEF Complete
    <2>2. overtaken' \subseteq Message
      BY <1>0, <1>14, <2>1 DEF Complete, TypeOK
    <2>3. /\ status' = [status EXCEPT ![cur[w]] = "completed"]
          /\ stale' = [stale EXCEPT ![cur[w]] = FALSE]
          /\ RowDone(w)
          /\ UNCHANGED <<posted, text, doc, key, due, call, faults, undercut, dropped>>
      BY <1>14 DEF Complete
    <2> QED
      BY <1>0, <2>1, <2>2, <2>3, RowDoneType DEF TypeOK, ActiveStatus
  <1>15. ASSUME NEW w \in Worker, CompleteFails(w)
        PROVE  TypeOK'
    BY <1>0, <1>15, SearchAssumption DEF CompleteFails, CountFault, TypeOK, table, ghosts
  <1>16. ASSUME NEW w \in Worker, MarkFailed(w)
        PROVE  TypeOK'
    <2>1. /\ cur[w] \in Row /\ cur[w] \in batch[w] /\ status[cur[w]] # "absent"
      BY <1>0, <1>16, WorkerHasRow DEF MarkFailed
    <2>2. /\ status' = [status EXCEPT ![cur[w]] = "failed"]
          /\ due' = [due EXCEPT ![cur[w]] = FALSE]
          /\ stale' = [stale EXCEPT ![cur[w]] = FALSE]
          /\ RowDone(w)
          /\ UNCHANGED <<posted, text, doc, key, call, faults, ghosts>>
      BY <1>16 DEF MarkFailed
    <2> QED
      BY <1>0, <2>1, <2>2, RowDoneType, SMTT(30) DEF TypeOK, ActiveStatus, ghosts
  <1>17. ASSUME NEW w \in Worker, MarkFailedFails(w)
        PROVE  TypeOK'
    <2>1. Abandon(w) /\ UNCHANGED <<posted, text, doc, table, call, faults, ghosts>>
      BY <1>17 DEF MarkFailedFails
    <2> QED
      BY <1>0, <2>1, AbandonType DEF TypeOK, table, ghosts
  <1>18. ASSUME NEW w \in Worker, Crash(w)
        PROVE  TypeOK'
    <2>1. /\ Abandon(w) /\ UNCHANGED <<posted, text, doc, table, undercut, overtaken>>
          /\ faults' = faults + 1 /\ faults < MaxFaults
      BY <1>18 DEF Crash, CountFault
    <2>2. PICK Q \in SUBSET Request :
            /\ call' = [q \in Request |-> IF q \in Q THEN NoCall ELSE call[q]]
            /\ dropped' = dropped \cup {m \in LostWith(Q) : doc[m] # text[m]}
      BY <1>18 DEF Crash
    <2>3. LostWith(Q) \subseteq Message
      BY <1>0, CallType DEF LostWith
    <2>4. dropped' \subseteq Message /\ call' \in [Request -> Call \cup {NoCall}]
      BY <1>0, <2>2, <2>3 DEF TypeOK
    <2> QED
      BY <1>0, <2>1, <2>4, AbandonType, SearchAssumption DEF TypeOK, table
  <1>19. ASSUME NEW r \in Row, LockExpires(r)
        PROVE  TypeOK'
    BY <1>0, <1>19 DEF LockExpires, TypeOK, worker
  <1>20. ASSUME NEW r \in Row, BackoffElapses(r)
        PROVE  TypeOK'
    BY <1>0, <1>20 DEF BackoffElapses, TypeOK, worker, ghosts
  <1>21. CASE UNCHANGED vars
    BY <1>0, <1>21 DEF TypeOK, vars, table, worker, ghosts
  <1> QED
    BY <1>1, <1>2, <1>3, <1>4, <1>5, <1>6, <1>7, <1>8, <1>9, <1>10, <1>11,
       <1>12, <1>13, <1>14, <1>15, <1>16, <1>17, <1>18, <1>19, <1>20, <1>21
       DEF Next, Mutation, Direct, Work

LEMMA HeldStep ==
    ASSUME IInv, [Next]_vars
    PROVE  HeldOnce'
  <1>0. TypeOK /\ HeldOnce
    BY DEF IInv
  <1>1. ASSUME NEW m \in Message, Reply(m)
        PROVE  HeldOnce'
    <2>1. Enqueue(m, "index") /\ UNCHANGED batch
      BY <1>1 DEF Reply, Publish, worker
    <2>2. "index" \in Operation
      BY DEF Operation
    <2> QED
      BY <1>0, <2>1, <2>2, Enqueued DEF HeldOnce, Holders
  <1>2. ASSUME NEW q \in Request, NEW m \in Message, Post(q, m)
        PROVE  HeldOnce'
    <2>1. Enqueue(m, "index") /\ UNCHANGED batch
      BY <1>2 DEF Post, Publish, worker
    <2>2. "index" \in Operation
      BY DEF Operation
    <2> QED
      BY <1>0, <2>1, <2>2, Enqueued DEF HeldOnce, Holders
  <1>3. ASSUME NEW q \in Request, NEW m \in Message, Edit(q, m)
        PROVE  HeldOnce'
    <2>1. Enqueue(m, "update") /\ UNCHANGED batch
      BY <1>3 DEF Edit, worker
    <2>2. "update" \in Operation
      BY DEF Operation
    <2> QED
      BY <1>0, <2>1, <2>2, Enqueued DEF HeldOnce, Holders
  <1>4. ASSUME NEW q \in Request, NEW m \in Message, Delete(q, m)
        PROVE  HeldOnce'
    <2>1. Enqueue(m, "delete") /\ UNCHANGED batch
      BY <1>4 DEF Delete, worker
    <2>2. "delete" \in Operation
      BY DEF Operation
    <2> QED
      BY <1>0, <2>1, <2>2, Enqueued DEF HeldOnce, Holders
  <1>5. ASSUME NEW q \in Request, NEW m \in Message, Moderate(q, m)
        PROVE  HeldOnce'
    BY <1>0, <1>5 DEF Moderate, HeldOnce, Holders, table, worker, ghosts
  <1>6. ASSUME NEW q \in Request, CallSucceeds(q)
        PROVE  HeldOnce'
    BY <1>0, <1>6 DEF CallSucceeds, HeldOnce, Holders, table, worker, ghosts
  <1>7. ASSUME NEW q \in Request, CallFails(q)
        PROVE  HeldOnce'
    BY <1>0, <1>7 DEF CallFails, HeldOnce, Holders, table, worker, ghosts
  <1>8. ASSUME NEW q \in Request, EnqueueAfterFailure(q)
        PROVE  HeldOnce'
    <2>1. Enqueue(call[q].m, call[q].op) /\ UNCHANGED batch
      BY <1>8 DEF EnqueueAfterFailure, worker
    <2>2. call[q].m \in Message /\ call[q].op \in Operation
      BY <1>0, <1>8, CallType DEF EnqueueAfterFailure
    <2> QED
      BY <1>0, <2>1, <2>2, Enqueued DEF HeldOnce, Holders
  <1>9. ASSUME NEW q \in Request, EnqueueFails(q)
        PROVE  HeldOnce'
    BY <1>0, <1>9 DEF EnqueueFails, HeldOnce, Holders, table, worker, ghosts
  <1>10. ASSUME NEW w \in Worker, Claim(w)
        PROVE  HeldOnce'
    <2>1. PICK C \in (SUBSET Row) \ {{}} :
            /\ OldestOf(C, {r \in Row : Claimable(r)})
            /\ status' = [r \in Row |-> IF r \in C THEN "processing" ELSE status[r]]
            /\ stale' = [r \in Row |-> IF r \in C THEN FALSE ELSE stale[r]]
            /\ batch' = [batch EXCEPT ![w] = C]
      BY <1>10 DEF Claim
    <2>2. batch[w] = {} /\ undercut' = undercut
      BY <1>0, <1>10 DEF Claim, TypeOK, ghosts
    <2>3. \A r \in C : Claimable(r)
      BY <2>1 DEF OldestOf
    <2>4. \A r \in C \ undercut, v \in Worker : r \notin batch[v]
      BY <1>0, <2>1, <2>3 DEF HeldOnce, Holders, Claimable
    <2>5. \A v \in Worker : batch'[v] = IF v = w THEN C ELSE batch[v]
      BY <1>0, <2>1 DEF TypeOK
    <2>6. \A r \in Row : /\ status'[r] = IF r \in C THEN "processing" ELSE status[r]
                         /\ stale'[r] = IF r \in C THEN FALSE ELSE stale[r]
      BY <2>1
    <2>7. ASSUME NEW r \in Row \ undercut'
          PROVE  /\ \A v \in Holders(r)' : status'[r] = "processing" /\ ~stale'[r]
                 /\ \A v, x \in Holders(r)' : v = x
      <3>1. CASE r \in C
        BY <2>2, <2>4, <2>5, <2>6, <3>1 DEF Holders
      <3>2. CASE r \notin C
        BY <1>0, <2>2, <2>5, <2>6, <3>2 DEF HeldOnce, Holders
      <3> QED
        BY <3>1, <3>2
    <2> QED
      BY <2>7 DEF HeldOnce
  <1>11. ASSUME NEW w \in Worker, NEW r \in Row, ReadRow(w, r)
        PROVE  HeldOnce'
    BY <1>0, <1>11 DEF ReadRow, HeldOnce, Holders, table, worker, ghosts
  <1>12. ASSUME NEW w \in Worker, Apply(w)
        PROVE  HeldOnce'
    BY <1>0, <1>12 DEF Apply, HeldOnce, Holders, table, worker, ghosts
  <1>13. ASSUME NEW w \in Worker, ApplyFails(w)
        PROVE  HeldOnce'
    BY <1>0, <1>13 DEF ApplyFails, CountFault, HeldOnce, Holders, table, worker, ghosts
  <1>14. ASSUME NEW w \in Worker, Complete(w)
        PROVE  HeldOnce'
    <2>1. cur[w] \in Row /\ cur[w] \in batch[w]
      BY <1>0, <1>14, WorkerHasRow DEF Complete
    <2>2. /\ RowDone(w) /\ undercut' = undercut
          /\ \A r \in Row \ {cur[w]} : status'[r] = status[r] /\ stale'[r] = stale[r]
      BY <1>0, <1>14 DEF Complete, TypeOK, ghosts
    <2>3. /\ batch'[w] = batch[w] \ {cur[w]}
          /\ \A x \in Worker \ {w} : batch'[x] = batch[x]
      BY <1>0, <2>1, <2>2, RowDoneType
    <2>4. \A x \in Worker : cur[w] \in batch[x] /\ cur[w] \notin undercut => x = w
      BY <1>0, <2>1 DEF HeldOnce, Holders
    <2> QED
      BY <1>0, <2>1, <2>2, <2>3, <2>4 DEF HeldOnce, Holders
  <1>15. ASSUME NEW w \in Worker, CompleteFails(w)
        PROVE  HeldOnce'
    BY <1>0, <1>15 DEF CompleteFails, CountFault, HeldOnce, Holders, table, worker, ghosts
  <1>16. ASSUME NEW w \in Worker, MarkFailed(w)
        PROVE  HeldOnce'
    <2>1. cur[w] \in Row /\ cur[w] \in batch[w]
      BY <1>0, <1>16, WorkerHasRow DEF MarkFailed
    <2>2. /\ RowDone(w) /\ undercut' = undercut
          /\ \A r \in Row \ {cur[w]} : status'[r] = status[r] /\ stale'[r] = stale[r]
      BY <1>0, <1>16 DEF MarkFailed, TypeOK, ghosts
    <2>3. /\ batch'[w] = batch[w] \ {cur[w]}
          /\ \A x \in Worker \ {w} : batch'[x] = batch[x]
      BY <1>0, <2>1, <2>2, RowDoneType
    <2>4. \A x \in Worker : cur[w] \in batch[x] /\ cur[w] \notin undercut => x = w
      BY <1>0, <2>1 DEF HeldOnce, Holders
    <2> QED
      BY <1>0, <2>1, <2>2, <2>3, <2>4 DEF HeldOnce, Holders
  <1>17. ASSUME NEW w \in Worker, MarkFailedFails(w)
        PROVE  HeldOnce'
    <2>1. Abandon(w) /\ UNCHANGED <<status, stale, undercut>>
      BY <1>17 DEF MarkFailedFails, table, ghosts
    <2> QED
      BY <1>0, <2>1, AbandonType DEF HeldOnce, Holders
  <1>18. ASSUME NEW w \in Worker, Crash(w)
        PROVE  HeldOnce'
    <2>1. Abandon(w) /\ UNCHANGED <<status, stale, undercut>>
      BY <1>18 DEF Crash, table, ghosts
    <2> QED
      BY <1>0, <2>1, AbandonType DEF HeldOnce, Holders
  <1>19. ASSUME NEW r \in Row, LockExpires(r)
        PROVE  HeldOnce'
    <2>1. /\ UNCHANGED <<status, batch>> /\ stale' = [stale EXCEPT ![r] = TRUE]
          /\ undercut' = IF Holders(r) # {} THEN undercut \cup {r} ELSE undercut
      BY <1>19 DEF LockExpires, worker
    <2>2. \A x \in Row \ {r} : stale'[x] = stale[x]
      BY <1>0, <2>1 DEF TypeOK
    <2> QED
      BY <1>0, <2>1, <2>2 DEF HeldOnce, Holders
  <1>20. ASSUME NEW r \in Row, BackoffElapses(r)
        PROVE  HeldOnce'
    BY <1>0, <1>20 DEF BackoffElapses, HeldOnce, Holders, table, worker, ghosts
  <1>21. CASE UNCHANGED vars
    BY <1>0, <1>21 DEF HeldOnce, Holders, vars, table, worker, ghosts
  <1> QED
    BY <1>1, <1>2, <1>3, <1>4, <1>5, <1>6, <1>7, <1>8, <1>9, <1>10, <1>11,
       <1>12, <1>13, <1>14, <1>15, <1>16, <1>17, <1>18, <1>19, <1>20, <1>21
       DEF Next, Mutation, Direct, Work

\* Rows and calls of messages whose text stays, or is deleted for good.
LEMMA OriginsKept ==
    ASSUME TypeOK, OriginsStand, posted \subseteq posted',
           \A m \in Message : m \in posted /\ text[m] = None => text'[m] = None,
           \A m \in Message : text'[m] # None => m \in posted',
           \A r \in Row : status'[r] # "absent" =>
             \/ status[r] # "absent" /\ key'[r] = key[r]
             \/ MessageOf(r)' \in posted' /\ (OperationOf(r)' = "delete" => text'[MessageOf(r)'] = None),
           \A q \in Request : call'[q] # NoCall =>
             \/ call[q] # NoCall /\ call'[q].m = call[q].m /\ call'[q].op = call[q].op
             \/ call'[q].m \in posted' /\ (call'[q].op = "delete" => text'[call'[q].m] = None)
    PROVE  OriginsStand'
  <1>1. ASSUME NEW r \in Row, status'[r] # "absent"
        PROVE  /\ MessageOf(r)' \in posted'
               /\ OperationOf(r)' = "delete" => text'[MessageOf(r)'] = None
    <2>1. CASE status[r] # "absent" /\ key'[r] = key[r]
      <3>1. MessageOf(r)' = MessageOf(r) /\ OperationOf(r)' = OperationOf(r) /\ MessageOf(r) \in Message
        BY <2>1, RowHasKey DEF MessageOf, OperationOf
      <3> QED
        BY <2>1, <3>1 DEF OriginsStand
    <2> QED
      BY <1>1, <2>1
  <1>2. ASSUME NEW q \in Request, call'[q] # NoCall
        PROVE  /\ call'[q].m \in posted'
               /\ call'[q].op = "delete" => text'[call'[q].m] = None
    <2>1. CASE call[q] # NoCall /\ call'[q].m = call[q].m /\ call'[q].op = call[q].op
      <3>1. call[q].m \in Message
        BY <2>1, CallType
      <3> QED
        BY <2>1, <3>1 DEF OriginsStand
    <2> QED
      BY <1>2, <2>1
  <1> QED
    BY <1>1, <1>2 DEF OriginsStand

LEMMA OriginsStep ==
    ASSUME IInv, [Next]_vars
    PROVE  OriginsStand'
  <1>0. TypeOK /\ OriginsStand
    BY DEF IInv
  <1>1. ASSUME NEW m \in Message, Reply(m)
        PROVE  OriginsStand'
    <2>1. /\ Enqueue(m, "index") /\ text' = [text EXCEPT ![m] = 1]
          /\ m \notin posted /\ posted' = posted \cup {m}
      BY <1>1 DEF Reply, Publish
    <2>2. "index" \in Operation /\ 1 \in Version
      BY <1>0, <2>1, Versions DEF Operation, TypeOK
    <2>3. \A r \in Row : status'[r] # "absent" =>
            \/ status[r] # "absent" /\ key'[r] = key[r]
            \/ MessageOf(r)' = m /\ OperationOf(r)' = "index"
      BY <1>0, <2>1, <2>2, Enqueued DEF MessageOf, OperationOf
    <2>4. call' = call
      BY <1>1 DEF Reply
    <2>5. m \in posted' /\ \A n \in Message : text'[n] = IF n = m THEN 1 ELSE text[n]
      BY <1>0, <2>1 DEF TypeOK, OriginsStand
    <2> QED
      BY <1>0, <2>1, <2>3, <2>4, <2>5, OriginsKept DEF OriginsStand
  <1>2. ASSUME NEW q \in Request, NEW m \in Message, Post(q, m)
        PROVE  OriginsStand'
    <2>1. /\ Enqueue(m, "index") /\ text' = [text EXCEPT ![m] = 1]
          /\ m \notin posted /\ posted' = posted \cup {m}
      BY <1>2 DEF Post, Publish
    <2>2. "index" \in Operation /\ 1 \in Version
      BY <1>0, <2>1, Versions DEF Operation, TypeOK
    <2>3. \A r \in Row : status'[r] # "absent" =>
            \/ status[r] # "absent" /\ key'[r] = key[r]
            \/ MessageOf(r)' = m /\ OperationOf(r)' = "index"
      BY <1>0, <2>1, <2>2, Enqueued DEF MessageOf, OperationOf
    <2>4. \A p \in Request : call'[p] # NoCall =>
            call'[p] = call[p] \/ (call'[p].m = m /\ call'[p].op = "index")
      <3>1. StartCall(q, m, "index", 1, TRUE) /\ TRUE \in BOOLEAN
        BY <1>2 DEF Post
      <3> QED
        BY <1>0, <2>2, <3>1, StartedCall
    <2>5. m \in posted' /\ \A n \in Message : text'[n] = IF n = m THEN 1 ELSE text[n]
      BY <1>0, <2>1 DEF TypeOK, OriginsStand
    <2> QED
      BY <1>0, <2>1, <2>3, <2>4, <2>5, OriginsKept DEF OriginsStand
  <1>3. ASSUME NEW q \in Request, NEW m \in Message, Edit(q, m)
        PROVE  OriginsStand'
    <2>1. /\ Enqueue(m, "update") /\ text' = [text EXCEPT ![m] = text[m] + 1]
          /\ m \in Message /\ text[m] # None /\ text[m] < MaxVersion /\ posted' = posted
      BY <1>3 DEF Edit
    <2>2. "update" \in Operation /\ text[m] + 1 \in Version
      BY <1>0, <2>1, Versions DEF Operation, TypeOK
    <2>3. \A r \in Row : status'[r] # "absent" =>
            \/ status[r] # "absent" /\ key'[r] = key[r]
            \/ MessageOf(r)' = m /\ OperationOf(r)' = "update"
      BY <1>0, <2>1, <2>2, Enqueued DEF MessageOf, OperationOf
    <2>4. \A p \in Request : call'[p] # NoCall =>
            call'[p] = call[p] \/ (call'[p].m = m /\ call'[p].op = "update")
      <3>1. StartCall(q, m, "update", text[m] + 1, TRUE) /\ TRUE \in BOOLEAN
        BY <1>3 DEF Edit
      <3> QED
        BY <1>0, <2>2, <3>1, StartedCall, ZenonT(60)
    <2>5. m \in posted' /\ \A n \in Message : text'[n] = IF n = m THEN text[m] + 1 ELSE text[n]
      BY <1>0, <2>1 DEF TypeOK, OriginsStand
    <2> QED
      BY <1>0, <2>1, <2>3, <2>4, <2>5, OriginsKept DEF OriginsStand
  <1>4. ASSUME NEW q \in Request, NEW m \in Message, Delete(q, m)
        PROVE  OriginsStand'
    <2>1. /\ Enqueue(m, "delete") /\ text' = [text EXCEPT ![m] = None]
          /\ m \in posted /\ posted' = posted
      BY <1>4 DEF Delete
    <2>2. "delete" \in Operation /\ None \in Version
      BY <1>0, <2>1, Versions DEF Operation, TypeOK
    <2>3. \A r \in Row : status'[r] # "absent" =>
            \/ status[r] # "absent" /\ key'[r] = key[r]
            \/ MessageOf(r)' = m /\ OperationOf(r)' = "delete"
      BY <1>0, <2>1, <2>2, Enqueued DEF MessageOf, OperationOf
    <2>4. \A p \in Request : call'[p] # NoCall =>
            call'[p] = call[p] \/ (call'[p].m = m /\ call'[p].op = "delete")
      <3>1. StartCall(q, m, "delete", None, TRUE) /\ TRUE \in BOOLEAN
        BY <1>4 DEF Delete
      <3> QED
        BY <1>0, <2>2, <3>1, StartedCall
    <2>5. m \in posted' /\ \A n \in Message : text'[n] = IF n = m THEN None ELSE text[n]
      BY <1>0, <2>1 DEF TypeOK, OriginsStand
    <2> QED
      BY <1>0, <2>1, <2>3, <2>4, <2>5, OriginsKept DEF OriginsStand
  <1>5. ASSUME NEW q \in Request, NEW m \in Message, Moderate(q, m)
        PROVE  OriginsStand'
    <2>1. /\ text' = [text EXCEPT ![m] = None] /\ text[m] # None
          /\ UNCHANGED <<posted, key, status>>
      BY <1>5 DEF Moderate, table
    <2>2. \A p \in Request : call'[p] # NoCall =>
            call'[p] = call[p] \/ (call'[p].m = m /\ call'[p].op = "delete")
      <3>1. StartCall(q, m, "delete", None, FALSE) /\ FALSE \in BOOLEAN /\ "delete" \in Operation
        BY <1>5 DEF Moderate, Operation
      <3> QED
        BY <1>0, <3>1, Versions, StartedCall
    <2>3. m \in posted' /\ \A n \in Message : text'[n] = IF n = m THEN None ELSE text[n]
      BY <1>0, <2>1 DEF TypeOK, OriginsStand
    <2> QED
      BY <1>0, <2>1, <2>2, <2>3, OriginsKept DEF OriginsStand
  <1>6. ASSUME NEW q \in Request, CallSucceeds(q)
        PROVE  OriginsStand'
    <2>1. /\ posted \subseteq posted' /\ UNCHANGED text
          /\ \A x \in Row : status'[x] # "absent" => status[x] # "absent" /\ key'[x] = key[x]
          /\ \A p \in Request : call'[p] # NoCall => call'[p] = call[p]
      BY <1>0, <1>6 DEF CallSucceeds, TypeOK, table
    <2> QED
      BY <1>0, <2>1, OriginsKept DEF OriginsStand
  <1>7. ASSUME NEW q \in Request, CallFails(q)
        PROVE  OriginsStand'
    <2>1. UNCHANGED <<posted, text, key, status>>
      BY <1>7 DEF CallFails, table
    <2>2. \A p \in Request : call'[p] # NoCall =>
            call[p] # NoCall /\ call'[p].m = call[p].m /\ call'[p].op = call[p].op
      BY <1>0, <1>7, CallFailedType DEF CallFails
    <2> QED
      BY <1>0, <2>1, <2>2, OriginsKept DEF OriginsStand
  <1>8. ASSUME NEW q \in Request, EnqueueAfterFailure(q)
        PROVE  OriginsStand'
    <2>1. /\ Enqueue(call[q].m, call[q].op) /\ call[q] # NoCall
          /\ UNCHANGED <<posted, text>> /\ call' = [call EXCEPT ![q] = NoCall]
      BY <1>8 DEF EnqueueAfterFailure
    <2>2. call[q].m \in Message /\ call[q].op \in Operation
      BY <1>0, <2>1, CallType
    <2>3. \A r \in Row : status'[r] # "absent" =>
            \/ status[r] # "absent" /\ key'[r] = key[r]
            \/ MessageOf(r)' = call[q].m /\ OperationOf(r)' = call[q].op
      BY <1>0, <2>1, <2>2, Enqueued DEF MessageOf, OperationOf
    <2>4. call[q].m \in posted /\ (call[q].op = "delete" => text[call[q].m] = None)
      BY <1>0, <2>1 DEF OriginsStand
    <2>5. \A p \in Request : call'[p] # NoCall => call'[p] = call[p]
      BY <1>0, <2>1 DEF TypeOK
    <2> QED
      BY <1>0, <2>1, <2>3, <2>4, <2>5, OriginsKept DEF OriginsStand
  <1>9. ASSUME NEW q \in Request, EnqueueFails(q)
        PROVE  OriginsStand'
    <2>1. /\ posted \subseteq posted' /\ UNCHANGED text
          /\ \A x \in Row : status'[x] # "absent" => status[x] # "absent" /\ key'[x] = key[x]
          /\ \A p \in Request : call'[p] # NoCall => call'[p] = call[p]
      BY <1>0, <1>9 DEF EnqueueFails, TypeOK, table
    <2> QED
      BY <1>0, <2>1, OriginsKept DEF OriginsStand
  <1>10. ASSUME NEW w \in Worker, Claim(w)
        PROVE  OriginsStand'
    <2>1. \A r \in Row : status'[r] # "absent" => status[r] # "absent"
      BY <1>10 DEF Claim, OldestOf, Claimable
    <2>2. UNCHANGED <<posted, text, key, call>>
      BY <1>10 DEF Claim
    <2> QED
      BY <1>0, <2>1, <2>2, OriginsKept DEF OriginsStand
  <1>11. ASSUME NEW w \in Worker, NEW r \in Row, ReadRow(w, r)
        PROVE  OriginsStand'
    <2>1. /\ posted \subseteq posted' /\ UNCHANGED text
          /\ \A x \in Row : status'[x] # "absent" => status[x] # "absent" /\ key'[x] = key[x]
          /\ \A p \in Request : call'[p] # NoCall => call'[p] = call[p]
      BY <1>0, <1>11 DEF ReadRow, TypeOK, table
    <2> QED
      BY <1>0, <2>1, OriginsKept DEF OriginsStand
  <1>12. ASSUME NEW w \in Worker, Apply(w)
        PROVE  OriginsStand'
    <2>1. /\ posted \subseteq posted' /\ UNCHANGED text
          /\ \A x \in Row : status'[x] # "absent" => status[x] # "absent" /\ key'[x] = key[x]
          /\ \A p \in Request : call'[p] # NoCall => call'[p] = call[p]
      BY <1>0, <1>12 DEF Apply, TypeOK, table
    <2> QED
      BY <1>0, <2>1, OriginsKept DEF OriginsStand
  <1>13. ASSUME NEW w \in Worker, ApplyFails(w)
        PROVE  OriginsStand'
    <2>1. /\ posted \subseteq posted' /\ UNCHANGED text
          /\ \A x \in Row : status'[x] # "absent" => status[x] # "absent" /\ key'[x] = key[x]
          /\ \A p \in Request : call'[p] # NoCall => call'[p] = call[p]
      BY <1>0, <1>13 DEF ApplyFails, CountFault, TypeOK, table
    <2> QED
      BY <1>0, <2>1, OriginsKept DEF OriginsStand
  <1>14. ASSUME NEW w \in Worker, Complete(w)
        PROVE  OriginsStand'
    <2>1. status[cur[w]] # "absent"
      BY <1>0, <1>14, WorkerHasRow DEF Complete
    <2>2. \A r \in Row : status'[r] # "absent" => status[r] # "absent"
      BY <1>0, <1>14, <2>1 DEF Complete, TypeOK
    <2>3. UNCHANGED <<posted, text, key, call>>
      BY <1>14 DEF Complete
    <2> QED
      BY <1>0, <2>2, <2>3, OriginsKept DEF OriginsStand
  <1>15. ASSUME NEW w \in Worker, CompleteFails(w)
        PROVE  OriginsStand'
    <2>1. /\ posted \subseteq posted' /\ UNCHANGED text
          /\ \A x \in Row : status'[x] # "absent" => status[x] # "absent" /\ key'[x] = key[x]
          /\ \A p \in Request : call'[p] # NoCall => call'[p] = call[p]
      BY <1>0, <1>15 DEF CompleteFails, CountFault, TypeOK, table
    <2> QED
      BY <1>0, <2>1, OriginsKept DEF OriginsStand
  <1>16. ASSUME NEW w \in Worker, MarkFailed(w)
        PROVE  OriginsStand'
    <2>1. status[cur[w]] # "absent"
      BY <1>0, <1>16, WorkerHasRow DEF MarkFailed
    <2>2. \A r \in Row : status'[r] # "absent" => status[r] # "absent"
      BY <1>0, <1>16, <2>1 DEF MarkFailed, TypeOK
    <2>3. UNCHANGED <<posted, text, key, call>>
      BY <1>16 DEF MarkFailed
    <2> QED
      BY <1>0, <2>2, <2>3, OriginsKept DEF OriginsStand
  <1>17. ASSUME NEW w \in Worker, MarkFailedFails(w)
        PROVE  OriginsStand'
    <2>1. /\ posted \subseteq posted' /\ UNCHANGED text
          /\ \A x \in Row : status'[x] # "absent" => status[x] # "absent" /\ key'[x] = key[x]
          /\ \A p \in Request : call'[p] # NoCall => call'[p] = call[p]
      BY <1>0, <1>17 DEF MarkFailedFails, Abandon, TypeOK, table
    <2> QED
      BY <1>0, <2>1, OriginsKept DEF OriginsStand
  <1>18. ASSUME NEW w \in Worker, Crash(w)
        PROVE  OriginsStand'
    <2>1. /\ posted \subseteq posted' /\ UNCHANGED text
          /\ \A x \in Row : status'[x] # "absent" => status[x] # "absent" /\ key'[x] = key[x]
          /\ \A p \in Request : call'[p] # NoCall => call'[p] = call[p]
      BY <1>0, <1>18 DEF Crash, Abandon, CountFault, TypeOK, table
    <2> QED
      BY <1>0, <2>1, OriginsKept DEF OriginsStand
  <1>19. ASSUME NEW r \in Row, LockExpires(r)
        PROVE  OriginsStand'
    <2>1. /\ posted \subseteq posted' /\ UNCHANGED text
          /\ \A x \in Row : status'[x] # "absent" => status[x] # "absent" /\ key'[x] = key[x]
          /\ \A p \in Request : call'[p] # NoCall => call'[p] = call[p]
      BY <1>0, <1>19 DEF LockExpires, TypeOK, table
    <2> QED
      BY <1>0, <2>1, OriginsKept DEF OriginsStand
  <1>20. ASSUME NEW r \in Row, BackoffElapses(r)
        PROVE  OriginsStand'
    <2>1. /\ posted \subseteq posted' /\ UNCHANGED text
          /\ \A x \in Row : status'[x] # "absent" => status[x] # "absent" /\ key'[x] = key[x]
          /\ \A p \in Request : call'[p] # NoCall => call'[p] = call[p]
      BY <1>0, <1>20 DEF BackoffElapses, TypeOK, table
    <2> QED
      BY <1>0, <2>1, OriginsKept DEF OriginsStand
  <1>21. CASE UNCHANGED vars
    BY <1>0, <1>21, OriginsKept DEF OriginsStand, vars, table
  <1> QED
    BY <1>1, <1>2, <1>3, <1>4, <1>5, <1>6, <1>7, <1>8, <1>9, <1>10, <1>11,
       <1>12, <1>13, <1>14, <1>15, <1>16, <1>17, <1>18, <1>19, <1>20, <1>21
       DEF Next, Mutation, Direct, Work

LEMMA CompletedStep ==
    ASSUME IInv, [Next]_vars
    PROVE  \A x \in Row : status[x] = "completed" /\ x \notin undercut => status'[x] = "completed"
  <1>0. TypeOK /\ HeldOnce
    BY DEF IInv
  <1>1. ASSUME NEW m \in Message, Reply(m)
        PROVE  \A x \in Row : status[x] = "completed" /\ x \notin undercut => status'[x] = "completed"
    <2>1. Enqueue(m, "index") /\ "index" \in Operation
      BY <1>1 DEF Reply, Publish, Operation
    <2> QED
      BY <1>0, <2>1, Enqueued
  <1>2. ASSUME NEW q \in Request, NEW m \in Message, Post(q, m)
        PROVE  \A x \in Row : status[x] = "completed" /\ x \notin undercut => status'[x] = "completed"
    <2>1. Enqueue(m, "index") /\ "index" \in Operation
      BY <1>2 DEF Post, Publish, Operation
    <2> QED
      BY <1>0, <2>1, Enqueued
  <1>3. ASSUME NEW q \in Request, NEW m \in Message, Edit(q, m)
        PROVE  \A x \in Row : status[x] = "completed" /\ x \notin undercut => status'[x] = "completed"
    <2>1. Enqueue(m, "update") /\ "update" \in Operation
      BY <1>3 DEF Edit, Operation
    <2> QED
      BY <1>0, <2>1, Enqueued
  <1>4. ASSUME NEW q \in Request, NEW m \in Message, Delete(q, m)
        PROVE  \A x \in Row : status[x] = "completed" /\ x \notin undercut => status'[x] = "completed"
    <2>1. Enqueue(m, "delete") /\ "delete" \in Operation
      BY <1>4 DEF Delete, Operation
    <2> QED
      BY <1>0, <2>1, Enqueued
  <1>5. ASSUME NEW q \in Request, NEW m \in Message, Moderate(q, m)
        PROVE  \A x \in Row : status[x] = "completed" /\ x \notin undercut => status'[x] = "completed"
    BY <1>0, <1>5 DEF Moderate, TypeOK, table
  <1>6. ASSUME NEW q \in Request, CallSucceeds(q)
        PROVE  \A x \in Row : status[x] = "completed" /\ x \notin undercut => status'[x] = "completed"
    BY <1>0, <1>6 DEF CallSucceeds, TypeOK, table
  <1>7. ASSUME NEW q \in Request, CallFails(q)
        PROVE  \A x \in Row : status[x] = "completed" /\ x \notin undercut => status'[x] = "completed"
    BY <1>0, <1>7 DEF CallFails, TypeOK, table
  <1>8. ASSUME NEW q \in Request, EnqueueAfterFailure(q)
        PROVE  \A x \in Row : status[x] = "completed" /\ x \notin undercut => status'[x] = "completed"
    <2>1. Enqueue(call[q].m, call[q].op) /\ call[q].m \in Message /\ call[q].op \in Operation
      BY <1>0, <1>8, CallType DEF EnqueueAfterFailure
    <2> QED
      BY <1>0, <2>1, Enqueued
  <1>9. ASSUME NEW q \in Request, EnqueueFails(q)
        PROVE  \A x \in Row : status[x] = "completed" /\ x \notin undercut => status'[x] = "completed"
    BY <1>0, <1>9 DEF EnqueueFails, TypeOK, table
  <1>10. ASSUME NEW w \in Worker, Claim(w)
        PROVE  \A x \in Row : status[x] = "completed" /\ x \notin undercut => status'[x] = "completed"
    BY <1>10 DEF Claim, OldestOf, Claimable
  <1>11. ASSUME NEW w \in Worker, NEW r \in Row, ReadRow(w, r)
        PROVE  \A x \in Row : status[x] = "completed" /\ x \notin undercut => status'[x] = "completed"
    BY <1>0, <1>11 DEF ReadRow, TypeOK, table
  <1>12. ASSUME NEW w \in Worker, Apply(w)
        PROVE  \A x \in Row : status[x] = "completed" /\ x \notin undercut => status'[x] = "completed"
    BY <1>0, <1>12 DEF Apply, TypeOK, table
  <1>13. ASSUME NEW w \in Worker, ApplyFails(w)
        PROVE  \A x \in Row : status[x] = "completed" /\ x \notin undercut => status'[x] = "completed"
    BY <1>0, <1>13 DEF ApplyFails, CountFault, TypeOK, table
  <1>14. ASSUME NEW w \in Worker, Complete(w)
        PROVE  \A x \in Row : status[x] = "completed" /\ x \notin undercut => status'[x] = "completed"
    BY <1>0, <1>14 DEF Complete, RowDone, TypeOK, table
  <1>15. ASSUME NEW w \in Worker, CompleteFails(w)
        PROVE  \A x \in Row : status[x] = "completed" /\ x \notin undercut => status'[x] = "completed"
    BY <1>0, <1>15 DEF CompleteFails, CountFault, TypeOK, table
  <1>16. ASSUME NEW w \in Worker, MarkFailed(w)
        PROVE  \A x \in Row : status[x] = "completed" /\ x \notin undercut => status'[x] = "completed"
    <2>1. cur[w] \in Row /\ cur[w] \in batch[w]
      BY <1>0, <1>16, WorkerHasRow DEF MarkFailed
    <2>2. cur[w] \notin undercut => status[cur[w]] = "processing"
      BY <1>0, <2>1 DEF HeldOnce, Holders
    <2> QED
      BY <1>0, <1>16, <2>1, <2>2 DEF MarkFailed, TypeOK
  <1>17. ASSUME NEW w \in Worker, MarkFailedFails(w)
        PROVE  \A x \in Row : status[x] = "completed" /\ x \notin undercut => status'[x] = "completed"
    BY <1>0, <1>17 DEF MarkFailedFails, Abandon, TypeOK, table
  <1>18. ASSUME NEW w \in Worker, Crash(w)
        PROVE  \A x \in Row : status[x] = "completed" /\ x \notin undercut => status'[x] = "completed"
    BY <1>0, <1>18 DEF Crash, Abandon, CountFault, TypeOK, table
  <1>19. ASSUME NEW r \in Row, LockExpires(r)
        PROVE  \A x \in Row : status[x] = "completed" /\ x \notin undercut => status'[x] = "completed"
    BY <1>0, <1>19 DEF LockExpires, TypeOK, table
  <1>20. ASSUME NEW r \in Row, BackoffElapses(r)
        PROVE  \A x \in Row : status[x] = "completed" /\ x \notin undercut => status'[x] = "completed"
    BY <1>0, <1>20 DEF BackoffElapses, TypeOK, table
  <1>21. CASE UNCHANGED vars
    BY <1>21 DEF vars, table
  <1> QED
    BY <1>1, <1>2, <1>3, <1>4, <1>5, <1>6, <1>7, <1>8, <1>9, <1>10, <1>11,
       <1>12, <1>13, <1>14, <1>15, <1>16, <1>17, <1>18, <1>19, <1>20, <1>21
       DEF Next, Mutation, Direct, Work

\* A write of the text puts it into the index, another one is noted.
LEMMA WriteIsNoted ==
    ASSUME TypeOK, NEW m \in Message, NEW v \in Version, Write(m, v), UNCHANGED text
    PROVE  /\ Written(m)'
           /\ \A n \in Message : Written(n) => Written(n)'
           /\ \A n \in Message \ {m} : Written(n)' <=> Written(n)
  <1>1. Written(m)'
    BY WriteType DEF Written
  <1>2. \A n \in Message \ {m} : Written(n)' <=> Written(n)
    BY WriteType DEF Written
  <1> QED
    BY <1>1, <1>2

\* A worker that goes on with its row, while texts only move forward.
LEMMA SnapKept ==
    ASSUME TypeOK, OriginsStand, NEW w \in Worker, SnapStands(w),
           \A x \in Row : status[x] # "absent" => key'[x] = key[x],
           \A m \in Message : m \in posted =>
             \/ text'[m] = text[m] /\ (Written(m) => Written(m)')
             \/ text[m] # None /\ text'[m] = None
             \/ text[m] # None /\ text'[m] = text[m] + 1,
           pc'[w] \in {"apply", "complete", "fail"} =>
             /\ pc[w] \in {"apply", "complete", "fail"} /\ cur'[w] = cur[w] /\ snap'[w] = snap[w]
             /\ pc'[w] = "complete" => pc[w] = "complete"
    PROVE  SnapStands(w)'
  <1>1. SUFFICES ASSUME pc'[w] \in {"apply", "complete", "fail"}
                 PROVE  /\ text'[MessageOf(cur[w])'] # None =>
                             /\ snap'[w] # None /\ snap'[w] <= text'[MessageOf(cur[w])']
                        /\ pc'[w] = "complete" /\ snap'[w] = text'[MessageOf(cur[w])'] =>
                             Written(MessageOf(cur[w]))'
    BY DEF SnapStands
  <1> DEFINE m == MessageOf(cur[w])
  <1>2. cur[w] \in Row /\ status[cur[w]] # "absent" /\ m \in Message
    BY <1>1, WorkerHasRow
  <1>3. m' = m /\ m \in posted
    BY <1>1, <1>2 DEF MessageOf, OriginsStand
  <1>4. /\ text[m] # None => snap[w] # None /\ snap[w] <= text[m]
        /\ pc[w] = "complete" /\ snap[w] = text[m] => Written(m)
    BY <1>1 DEF SnapStands
  <1>5. snap[w] \in Nat /\ text[m] \in Nat
    BY <1>2, SearchAssumption DEF TypeOK, Version, None
  <1> HIDE DEF m
  <1>6. CASE text'[m] = text[m] /\ (Written(m) => Written(m)')
    BY <1>1, <1>3, <1>4, <1>6 DEF m
  <1>7. CASE text[m] # None /\ text'[m] = None
    BY <1>1, <1>3, <1>4, <1>7 DEF m
  <1>8. CASE text[m] # None /\ text'[m] = text[m] + 1
    BY <1>1, <1>3, <1>4, <1>5, <1>8 DEF m
  <1> QED
    BY <1>2, <1>3, <1>6, <1>7, <1>8

LEMMA SnapsStep ==
    ASSUME IInv, [Next]_vars
    PROVE  SnapsStand'
  <1>0. TypeOK /\ OriginsStand /\ SnapsStand
    BY DEF IInv
  <1>1. ASSUME NEW m \in Message, Reply(m)
        PROVE  SnapsStand'
    <2>1. /\ Enqueue(m, "index") /\ text' = [text EXCEPT ![m] = 1] /\ m \notin posted
          /\ UNCHANGED <<doc, worker, overtaken, dropped>>
      BY <1>1 DEF Reply, Publish
    <2>2. \A x \in Row : status[x] # "absent" => key'[x] = key[x]
      BY <1>0, <2>1, Enqueued DEF Operation
    <2>3. \A n \in Message : text'[n] = IF n = m THEN 1 ELSE text[n]
      BY <1>0, <2>1 DEF TypeOK
    <2>4. \A n \in Message : text'[n] = text[n] => (Written(n) => Written(n)')
      BY <2>1 DEF Written
    <2>5. UNCHANGED <<pc, cur, snap>>
      BY <2>1 DEF worker
    <2> QED
      BY <1>0, <2>1, <2>2, <2>3, <2>4, <2>5, SnapKept DEF SnapsStand
  <1>2. ASSUME NEW q \in Request, NEW m \in Message, Post(q, m)
        PROVE  SnapsStand'
    <2>1. /\ Enqueue(m, "index") /\ text' = [text EXCEPT ![m] = 1] /\ m \notin posted
          /\ UNCHANGED <<doc, worker, overtaken, dropped>>
      BY <1>2 DEF Post, Publish
    <2>2. \A x \in Row : status[x] # "absent" => key'[x] = key[x]
      BY <1>0, <2>1, Enqueued DEF Operation
    <2>3. \A n \in Message : text'[n] = IF n = m THEN 1 ELSE text[n]
      BY <1>0, <2>1 DEF TypeOK
    <2>4. \A n \in Message : text'[n] = text[n] => (Written(n) => Written(n)')
      BY <2>1 DEF Written
    <2>5. UNCHANGED <<pc, cur, snap>>
      BY <2>1 DEF worker
    <2> QED
      BY <1>0, <2>1, <2>2, <2>3, <2>4, <2>5, SnapKept DEF SnapsStand
  <1>3. ASSUME NEW q \in Request, NEW m \in Message, Edit(q, m)
        PROVE  SnapsStand'
    <2>1. /\ Enqueue(m, "update") /\ text' = [text EXCEPT ![m] = text[m] + 1] /\ text[m] # None
          /\ UNCHANGED <<doc, worker, overtaken, dropped>>
      BY <1>3 DEF Edit
    <2>2. \A x \in Row : status[x] # "absent" => key'[x] = key[x]
      BY <1>0, <2>1, Enqueued DEF Operation
    <2>3. \A n \in Message : text'[n] = IF n = m THEN text[m] + 1 ELSE text[n]
      BY <1>0, <2>1 DEF TypeOK
    <2>4. \A n \in Message : text'[n] = text[n] => (Written(n) => Written(n)')
      BY <2>1 DEF Written
    <2>5. UNCHANGED <<pc, cur, snap>>
      BY <2>1 DEF worker
    <2> QED
      BY <1>0, <2>1, <2>2, <2>3, <2>4, <2>5, SnapKept DEF SnapsStand
  <1>4. ASSUME NEW q \in Request, NEW m \in Message, Delete(q, m)
        PROVE  SnapsStand'
    <2>1. /\ Enqueue(m, "delete") /\ text' = [text EXCEPT ![m] = None] /\ m \in posted
          /\ UNCHANGED <<doc, worker, overtaken, dropped>>
      BY <1>4 DEF Delete
    <2>2. \A x \in Row : status[x] # "absent" => key'[x] = key[x]
      BY <1>0, <2>1, Enqueued DEF Operation
    <2>3. \A n \in Message : text'[n] = IF n = m THEN None ELSE text[n]
      BY <1>0, <2>1 DEF TypeOK
    <2>4. \A n \in Message : text'[n] = text[n] => (Written(n) => Written(n)')
      BY <2>1 DEF Written
    <2>5. UNCHANGED <<pc, cur, snap>>
      BY <2>1 DEF worker
    <2> QED
      BY <1>0, <2>1, <2>2, <2>3, <2>4, <2>5, SnapKept DEF SnapsStand
  <1>5. ASSUME NEW q \in Request, NEW m \in Message, Moderate(q, m)
        PROVE  SnapsStand'
    <2>1. /\ text' = [text EXCEPT ![m] = None] /\ text[m] # None
          /\ UNCHANGED <<key, doc, worker, overtaken, dropped>>
      BY <1>5 DEF Moderate, table, ghosts
    <2>2. \A n \in Message : text'[n] = IF n = m THEN None ELSE text[n]
      BY <1>0, <2>1 DEF TypeOK
    <2>3. \A n \in Message : text'[n] = text[n] => (Written(n) => Written(n)')
      BY <2>1 DEF Written
    <2>4. UNCHANGED <<pc, cur, snap>>
      BY <2>1 DEF worker
    <2> QED
      BY <1>0, <2>1, <2>2, <2>3, <2>4, SnapKept DEF SnapsStand
  <1>6. ASSUME NEW q \in Request, CallSucceeds(q)
        PROVE  SnapsStand'
    <2>1. UNCHANGED <<text, key, pc, cur, snap>>
      BY <1>6 DEF CallSucceeds, table, worker
    <2>2. \A n \in Message : Written(n) => Written(n)'
      BY <1>0, <1>6, <2>1, CallType, WriteIsNoted DEF CallSucceeds
    <2> QED
      BY <1>0, <2>1, <2>2, SnapKept DEF SnapsStand
  <1>7. ASSUME NEW q \in Request, CallFails(q)
        PROVE  SnapsStand'
    <2>1. UNCHANGED <<text, key, pc, cur, snap>> /\ call[q] # NoCall
      BY <1>7 DEF CallFails, table, worker
    <2>2. \A n \in Message : Written(n) => Written(n)'
      <3>1. CASE Write(call[q].m, call[q].v)
        BY <1>0, <2>1, <3>1, CallType, WriteIsNoted
      <3>2. CASE UNCHANGED <<doc, overtaken, dropped>>
        BY <2>1, <3>2 DEF Written
      <3> QED
        BY <1>7, <3>1, <3>2 DEF CallFails
    <2> QED
      BY <1>0, <2>1, <2>2, SnapKept DEF SnapsStand
  <1>8. ASSUME NEW q \in Request, EnqueueAfterFailure(q)
        PROVE  SnapsStand'
    <2>1. /\ Enqueue(call[q].m, call[q].op)
          /\ UNCHANGED <<text, doc, pc, cur, snap, overtaken, dropped>>
      BY <1>8 DEF EnqueueAfterFailure, worker
    <2>2. call[q].m \in Message /\ call[q].op \in Operation
      BY <1>0, <1>8, CallType DEF EnqueueAfterFailure
    <2>3. \A x \in Row : status[x] # "absent" => key'[x] = key[x]
      BY <1>0, <2>1, <2>2, Enqueued
    <2>4. \A n \in Message : Written(n) => Written(n)'
      BY <2>1 DEF Written
    <2> QED
      BY <1>0, <2>1, <2>3, <2>4, SnapKept DEF SnapsStand
  <1>9. ASSUME NEW q \in Request, EnqueueFails(q)
        PROVE  SnapsStand'
    <2>1. /\ \A x \in Row : status[x] # "absent" => key'[x] = key[x]
          /\ UNCHANGED text /\ \A m \in Message : Written(m) => Written(m)'
          /\ \A v \in Worker : pc'[v] \in {"apply", "complete", "fail"} =>
               /\ pc[v] \in {"apply", "complete", "fail"} /\ cur'[v] = cur[v] /\ snap'[v] = snap[v]
               /\ pc'[v] = "complete" => pc[v] = "complete"
      BY <1>0, <1>9 DEF EnqueueFails, Written, TypeOK, table, worker, ghosts
    <2> QED
      BY <1>0, <2>1, SnapKept DEF SnapsStand
  <1>10. ASSUME NEW w \in Worker, Claim(w)
        PROVE  SnapsStand'
    <2>1. /\ \A x \in Row : status[x] # "absent" => key'[x] = key[x]
          /\ UNCHANGED text /\ \A m \in Message : Written(m) => Written(m)'
          /\ \A v \in Worker : pc'[v] \in {"apply", "complete", "fail"} =>
               /\ pc[v] \in {"apply", "complete", "fail"} /\ cur'[v] = cur[v] /\ snap'[v] = snap[v]
               /\ pc'[v] = "complete" => pc[v] = "complete"
      BY <1>0, <1>10 DEF Claim, Written, TypeOK, table, worker, ghosts
    <2> QED
      BY <1>0, <2>1, SnapKept DEF SnapsStand
  <1>11. ASSUME NEW w \in Worker, NEW r \in Row, ReadRow(w, r)
        PROVE  SnapsStand'
    <2>1. ASSUME NEW v \in Worker, v # w
          PROVE  SnapStands(v)'
      <3>1. /\ UNCHANGED <<text, key>> /\ \A m \in Message : Written(m) => Written(m)'
            /\ pc'[v] = pc[v] /\ cur'[v] = cur[v] /\ snap'[v] = snap[v]
        BY <1>0, <1>11, <2>1 DEF ReadRow, Written, TypeOK, table, ghosts
      <3> QED
        BY <1>0, <3>1, SnapKept DEF SnapsStand
    <2>2. SnapStands(w)'
      <3>1. pc'[w] = "apply" /\ cur'[w] = r /\ UNCHANGED <<text, key>>
        BY <1>0, <1>11 DEF ReadRow, TypeOK, table
      <3>2. status[r] # "absent" /\ MessageOf(r)' = MessageOf(r)
        BY <1>0, <1>11, <3>1 DEF ReadRow, TypeOK, MessageOf
      <3>3. snap'[w] = IF OperationOf(r) = "delete" THEN None ELSE text[MessageOf(r)]
        BY <1>0, <1>11 DEF ReadRow, TypeOK
      <3>4. OperationOf(r) = "delete" => text[MessageOf(r)] = None
        BY <1>0, <3>2 DEF OriginsStand
      <3>5. text[MessageOf(r)] \in Nat
        BY <1>0, <3>2, RowHasKey, SearchAssumption DEF TypeOK, Version, None
      <3> QED
        BY <3>1, <3>2, <3>3, <3>4, <3>5 DEF SnapStands, MessageOf
    <2> QED
      BY <2>1, <2>2 DEF SnapsStand
  <1>12. ASSUME NEW w \in Worker, Apply(w)
        PROVE  SnapsStand'
    <2>1. MessageOf(cur[w]) \in Message /\ snap[w] \in Version
      BY <1>0, <1>12, WorkerHasRow DEF Apply, TypeOK
    <2>2. /\ Write(MessageOf(cur[w]), snap[w]) /\ pc[w] = "apply"
          /\ pc' = [pc EXCEPT ![w] = "complete"] /\ UNCHANGED <<text, key, cur, snap>>
      BY <1>12 DEF Apply, table
    <2>3. \A n \in Message : Written(n) => Written(n)'
      BY <1>0, <2>1, <2>2, WriteIsNoted
    <2>4. ASSUME NEW v \in Worker, v # w
          PROVE  SnapStands(v)'
      <3>1. pc'[v] = pc[v] /\ cur'[v] = cur[v] /\ snap'[v] = snap[v]
        BY <1>0, <2>2, <2>4 DEF TypeOK
      <3> QED
        BY <1>0, <2>2, <2>3, <3>1, SnapKept DEF SnapsStand
    <2>5. SnapStands(w)'
      <3>1. Written(MessageOf(cur[w]))'
        <4>1. MessageOf(cur[w])' = MessageOf(cur[w])
          BY <2>2 DEF MessageOf
        <4>2. \A m \in Message : m = MessageOf(cur[w]) => Written(m)'
          BY <1>0, <2>1, <2>2, WriteIsNoted
        <4> QED
          BY <2>1, <4>1, <4>2
      <3>2. /\ MessageOf(cur[w])' = MessageOf(cur[w]) /\ SnapStands(w)
            /\ snap'[w] = snap[w] /\ text'[MessageOf(cur[w])] = text[MessageOf(cur[w])]
        BY <1>0, <2>2 DEF MessageOf, SnapsStand
      <3> QED
        BY <2>2, <3>1, <3>2 DEF SnapStands
    <2> QED
      BY <2>4, <2>5 DEF SnapsStand
  <1>13. ASSUME NEW w \in Worker, ApplyFails(w)
        PROVE  SnapsStand'
    <2>1. /\ MessageOf(cur[w]) \in Message /\ snap[w] \in Version
          /\ UNCHANGED <<text, key, cur, snap>> /\ pc[w] = "apply" /\ pc' = [pc EXCEPT ![w] = "fail"]
      BY <1>0, <1>13, WorkerHasRow DEF ApplyFails, TypeOK, table
    <2>2. \A n \in Message : Written(n) => Written(n)'
      <3>1. CASE Write(MessageOf(cur[w]), snap[w])
        BY <1>0, <2>1, <3>1, WriteIsNoted
      <3>2. CASE UNCHANGED <<doc, overtaken, dropped>>
        BY <2>1, <3>2 DEF Written
      <3> QED
        BY <1>13, <3>1, <3>2 DEF ApplyFails
    <2>3. \A v \in Worker : pc'[v] \in {"apply", "complete", "fail"} =>
            /\ pc[v] \in {"apply", "complete", "fail"}
            /\ pc'[v] = "complete" => pc[v] = "complete"
      BY <1>0, <2>1 DEF TypeOK
    <2> QED
      BY <1>0, <2>1, <2>2, <2>3, SnapKept DEF SnapsStand
  <1>14. ASSUME NEW w \in Worker, Complete(w)
        PROVE  SnapsStand'
    <2>1. /\ cur[w] \in batch[w] /\ RowDone(w) /\ UNCHANGED <<text, key>>
          /\ \A m \in Message : Written(m) => Written(m)'
      BY <1>0, <1>14, WorkerHasRow DEF Complete, Written, ghosts
    <2>2. \A v \in Worker : pc'[v] \in {"apply", "complete", "fail"} =>
            pc'[v] = pc[v] /\ cur'[v] = cur[v] /\ snap'[v] = snap[v]
      BY <1>0, <2>1, RowDoneType
    <2> QED
      BY <1>0, <2>1, <2>2, SnapKept DEF SnapsStand
  <1>15. ASSUME NEW w \in Worker, CompleteFails(w)
        PROVE  SnapsStand'
    <2>1. /\ \A x \in Row : status[x] # "absent" => key'[x] = key[x]
          /\ UNCHANGED text /\ \A m \in Message : Written(m) => Written(m)'
          /\ \A v \in Worker : pc'[v] \in {"apply", "complete", "fail"} =>
               /\ pc[v] \in {"apply", "complete", "fail"} /\ cur'[v] = cur[v] /\ snap'[v] = snap[v]
               /\ pc'[v] = "complete" => pc[v] = "complete"
      BY <1>0, <1>15 DEF CompleteFails, CountFault, Written, TypeOK, table, worker, ghosts
    <2> QED
      BY <1>0, <2>1, SnapKept DEF SnapsStand
  <1>16. ASSUME NEW w \in Worker, MarkFailed(w)
        PROVE  SnapsStand'
    <2>1. /\ cur[w] \in batch[w] /\ RowDone(w) /\ UNCHANGED <<text, key>>
          /\ \A m \in Message : Written(m) => Written(m)'
      BY <1>0, <1>16, WorkerHasRow DEF MarkFailed, Written, ghosts
    <2>2. \A v \in Worker : pc'[v] \in {"apply", "complete", "fail"} =>
            pc'[v] = pc[v] /\ cur'[v] = cur[v] /\ snap'[v] = snap[v]
      BY <1>0, <2>1, RowDoneType
    <2> QED
      BY <1>0, <2>1, <2>2, SnapKept DEF SnapsStand
  <1>17. ASSUME NEW w \in Worker, MarkFailedFails(w)
        PROVE  SnapsStand'
    <2>1. Abandon(w) /\ UNCHANGED <<text, key, doc, overtaken>> /\ dropped \subseteq dropped'
      BY <1>17 DEF MarkFailedFails, table, ghosts
    <2>2. \A v \in Worker : pc'[v] \in {"apply", "complete", "fail"} =>
            pc'[v] = pc[v] /\ cur'[v] = cur[v] /\ snap'[v] = snap[v]
      BY <1>0, <2>1, AbandonType
    <2>3. \A m \in Message : Written(m) => Written(m)'
      BY <2>1 DEF Written
    <2> QED
      BY <1>0, <2>1, <2>2, <2>3, SnapKept DEF SnapsStand
  <1>18. ASSUME NEW w \in Worker, Crash(w)
        PROVE  SnapsStand'
    <2>1. Abandon(w) /\ UNCHANGED <<text, key, doc, overtaken>> /\ dropped \subseteq dropped'
      BY <1>18 DEF Crash, table, ghosts
    <2>2. \A v \in Worker : pc'[v] \in {"apply", "complete", "fail"} =>
            pc'[v] = pc[v] /\ cur'[v] = cur[v] /\ snap'[v] = snap[v]
      BY <1>0, <2>1, AbandonType
    <2>3. \A m \in Message : Written(m) => Written(m)'
      BY <2>1 DEF Written
    <2> QED
      BY <1>0, <2>1, <2>2, <2>3, SnapKept DEF SnapsStand
  <1>19. ASSUME NEW r \in Row, LockExpires(r)
        PROVE  SnapsStand'
    <2>1. /\ \A x \in Row : status[x] # "absent" => key'[x] = key[x]
          /\ UNCHANGED text /\ \A m \in Message : Written(m) => Written(m)'
          /\ \A v \in Worker : pc'[v] \in {"apply", "complete", "fail"} =>
               /\ pc[v] \in {"apply", "complete", "fail"} /\ cur'[v] = cur[v] /\ snap'[v] = snap[v]
               /\ pc'[v] = "complete" => pc[v] = "complete"
      BY <1>0, <1>19 DEF LockExpires, Written, TypeOK, table, worker, ghosts
    <2> QED
      BY <1>0, <2>1, SnapKept DEF SnapsStand
  <1>20. ASSUME NEW r \in Row, BackoffElapses(r)
        PROVE  SnapsStand'
    <2>1. /\ \A x \in Row : status[x] # "absent" => key'[x] = key[x]
          /\ UNCHANGED text /\ \A m \in Message : Written(m) => Written(m)'
          /\ \A v \in Worker : pc'[v] \in {"apply", "complete", "fail"} =>
               /\ pc[v] \in {"apply", "complete", "fail"} /\ cur'[v] = cur[v] /\ snap'[v] = snap[v]
               /\ pc'[v] = "complete" => pc[v] = "complete"
      BY <1>0, <1>20 DEF BackoffElapses, Written, TypeOK, table, worker, ghosts
    <2> QED
      BY <1>0, <2>1, SnapKept DEF SnapsStand
  <1>21. CASE UNCHANGED vars
    <2>1. /\ UNCHANGED <<key, text, doc, overtaken, dropped, pc, cur, snap>>
          /\ \A m \in Message : Written(m) => Written(m)'
      BY <1>21 DEF vars, table, worker, ghosts, Written
    <2> QED
      BY <1>0, <2>1, SnapKept DEF SnapsStand
  <1> QED
    BY <1>1, <1>2, <1>3, <1>4, <1>5, <1>6, <1>7, <1>8, <1>9, <1>10, <1>11,
       <1>12, <1>13, <1>14, <1>15, <1>16, <1>17, <1>18, <1>19, <1>20, <1>21
       DEF Next, Mutation, Direct, Work

\* What carries a message goes on to carry it while its rows stay active and its
\* calls are neither answered nor dropped.
LEMMA CarriedKept ==
    ASSUME TypeOK, NEW m \in Message, Carried(m),
           \A x \in Row : Active(x) /\ MessageOf(x) = m => Active(x)' /\ key'[x] = key[x],
           \A p \in Request : call[p] # NoCall /\ call[p].m = m /\ ~call[p].queued =>
             call'[p] # NoCall /\ call'[p].m = m /\ ~call'[p].queued
    PROVE  Carried(m)'
  <1>1. CASE \E x \in Row : Active(x) /\ MessageOf(x) = m
    BY <1>1 DEF Carried, MessageOf
  <1>2. CASE \E p \in Request : call[p] # NoCall /\ call[p].m = m /\ ~call[p].queued
    BY <1>2 DEF Carried
  <1> QED
    BY <1>1, <1>2 DEF Carried

LEMMA CoveredStep ==
    ASSUME IInv, [Next]_vars
    PROVE  AllCovered'
  <1>0. TypeOK /\ SnapsStand /\ AllCovered
    BY DEF IInv, IndexCovered, AllCovered, Covered, Written
  <1>1. ASSUME NEW m \in Message, Reply(m)
        PROVE  AllCovered'
    <2>1. /\ Enqueue(m, "index") /\ text' = [text EXCEPT ![m] = 1]
          /\ UNCHANGED <<doc, overtaken, dropped>>
      BY <1>1 DEF Reply, Publish
    <2>2. /\ \A x \in Row : Active(x) => Active(x)' /\ key'[x] = key[x]
          /\ \E x \in Row : Active(x)' /\ key'[x] = <<m, "index">>
      BY <1>0, <2>1, Enqueued DEF Operation, Active, ActiveStatus
    <2>3. Carried(m)'
      BY <2>2 DEF Carried, MessageOf
    <2>4. \A p \in Request : call[p] # NoCall => call'[p] = call[p]
      BY <1>1 DEF Reply
    <2>5. \A n \in Message \ {m} : Carried(n) => Carried(n)'
      BY <1>0, <2>2, <2>4, CarriedKept
    <2>6. \A n \in Message \ {m} : Written(n) => Written(n)'
      BY <1>0, <2>1 DEF Written, TypeOK
    <2> QED
      BY <1>0, <2>3, <2>5, <2>6 DEF AllCovered, Covered
  <1>2. ASSUME NEW q \in Request, NEW m \in Message, Post(q, m)
        PROVE  AllCovered'
    <2>1. /\ Enqueue(m, "index") /\ text' = [text EXCEPT ![m] = 1]
          /\ UNCHANGED <<doc, overtaken, dropped>>
      BY <1>2 DEF Post, Publish
    <2>2. /\ \A x \in Row : Active(x) => Active(x)' /\ key'[x] = key[x]
          /\ \E x \in Row : Active(x)' /\ key'[x] = <<m, "index">>
      BY <1>0, <2>1, Enqueued DEF Operation, Active, ActiveStatus
    <2>3. Carried(m)'
      BY <2>2 DEF Carried, MessageOf
    <2>4. \A p \in Request : call[p] # NoCall => call'[p] = call[p]
      BY <1>0, <1>2 DEF Post, StartCall, TypeOK
    <2>5. \A n \in Message \ {m} : Carried(n) => Carried(n)'
      BY <1>0, <2>2, <2>4, CarriedKept
    <2>6. \A n \in Message \ {m} : Written(n) => Written(n)'
      BY <1>0, <2>1 DEF Written, TypeOK
    <2> QED
      BY <1>0, <2>3, <2>5, <2>6 DEF AllCovered, Covered
  <1>3. ASSUME NEW q \in Request, NEW m \in Message, Edit(q, m)
        PROVE  AllCovered'
    <2>1. /\ Enqueue(m, "update") /\ text' = [text EXCEPT ![m] = text[m] + 1]
          /\ UNCHANGED <<doc, overtaken, dropped>>
      BY <1>3 DEF Edit
    <2>2. /\ \A x \in Row : Active(x) => Active(x)' /\ key'[x] = key[x]
          /\ \E x \in Row : Active(x)' /\ key'[x] = <<m, "update">>
      BY <1>0, <2>1, Enqueued DEF Operation, Active, ActiveStatus
    <2>3. Carried(m)'
      BY <2>2 DEF Carried, MessageOf
    <2>4. \A p \in Request : call[p] # NoCall => call'[p] = call[p]
      BY <1>0, <1>3 DEF Edit, StartCall, TypeOK
    <2>5. \A n \in Message \ {m} : Carried(n) => Carried(n)'
      BY <1>0, <2>2, <2>4, CarriedKept
    <2>6. \A n \in Message \ {m} : Written(n) => Written(n)'
      BY <1>0, <2>1 DEF Written, TypeOK
    <2> QED
      BY <1>0, <2>3, <2>5, <2>6 DEF AllCovered, Covered
  <1>4. ASSUME NEW q \in Request, NEW m \in Message, Delete(q, m)
        PROVE  AllCovered'
    <2>1. /\ Enqueue(m, "delete") /\ text' = [text EXCEPT ![m] = None]
          /\ UNCHANGED <<doc, overtaken, dropped>>
      BY <1>4 DEF Delete
    <2>2. /\ \A x \in Row : Active(x) => Active(x)' /\ key'[x] = key[x]
          /\ \E x \in Row : Active(x)' /\ key'[x] = <<m, "delete">>
      BY <1>0, <2>1, Enqueued DEF Operation, Active, ActiveStatus
    <2>3. Carried(m)'
      BY <2>2 DEF Carried, MessageOf
    <2>4. \A p \in Request : call[p] # NoCall => call'[p] = call[p]
      BY <1>0, <1>4 DEF Delete, StartCall, TypeOK
    <2>5. \A n \in Message \ {m} : Carried(n) => Carried(n)'
      BY <1>0, <2>2, <2>4, CarriedKept
    <2>6. \A n \in Message \ {m} : Written(n) => Written(n)'
      BY <1>0, <2>1 DEF Written, TypeOK
    <2> QED
      BY <1>0, <2>3, <2>5, <2>6 DEF AllCovered, Covered
  <1>5. ASSUME NEW q \in Request, NEW m \in Message, Moderate(q, m)
        PROVE  AllCovered'
    <2>1. /\ StartCall(q, m, "delete", None, FALSE) /\ text' = [text EXCEPT ![m] = None]
          /\ UNCHANGED <<key, status, doc, overtaken, dropped>>
      BY <1>5 DEF Moderate, table, ghosts
    <2>2. Carried(m)'
      <3>1. "delete" \in Operation /\ FALSE \in BOOLEAN
        BY DEF Operation
      <3>2. call'[q] # NoCall /\ call'[q].m = m
        BY <1>0, <2>1, <3>1, Versions, StartCallType
      <3>3. call'[q].queued = FALSE
        BY <1>0, <2>1, <3>1, Versions, StartCallType
      <3> QED
        BY <3>2, <3>3 DEF Carried
    <2>3. \A p \in Request : call[p] # NoCall => call'[p] = call[p]
      BY <1>0, <2>1 DEF StartCall, TypeOK
    <2>4. \A n \in Message \ {m} : Carried(n) => Carried(n)'
      BY <1>0, <2>1, <2>3, CarriedKept DEF Active
    <2>5. \A n \in Message \ {m} : Written(n) => Written(n)'
      BY <1>0, <2>1 DEF Written, TypeOK
    <2> QED
      BY <1>0, <2>2, <2>4, <2>5 DEF AllCovered, Covered
  <1>6. ASSUME NEW q \in Request, CallSucceeds(q)
        PROVE  AllCovered'
    <2>1. /\ Write(call[q].m, call[q].v) /\ UNCHANGED <<text, key, status>>
          /\ call' = [call EXCEPT ![q] = NoCall] /\ call[q] # NoCall
      BY <1>6 DEF CallSucceeds, table
    <2>2. call[q].m \in Message /\ call[q].v \in Version
      BY <1>0, <2>1, CallType
    <2>3. /\ \A n \in Message : n = call[q].m => Written(n)'
          /\ \A n \in Message : Written(n) => Written(n)'
      BY <1>0, <2>1, <2>2, WriteIsNoted
    <2>4. \A p \in Request \ {q} : call'[p] = call[p]
      BY <1>0, <2>1 DEF TypeOK
    <2>5. \A n \in Message : n # call[q].m => (Carried(n) => Carried(n)')
      BY <1>0, <2>1, <2>4, CarriedKept DEF Active
    <2> QED
      BY <1>0, <2>3, <2>5 DEF AllCovered, Covered
  <1>7. ASSUME NEW q \in Request, CallFails(q)
        PROVE  AllCovered'
    <2>1. /\ UNCHANGED <<text, key, status>> /\ call[q] # NoCall
          /\ call' = [call EXCEPT ![q].at = "enqueue"]
      BY <1>7 DEF CallFails, table
    <2>2. \A n \in Message : Written(n) => Written(n)'
      <3>1. CASE Write(call[q].m, call[q].v)
        BY <1>0, <2>1, <3>1, CallType, WriteIsNoted
      <3>2. CASE UNCHANGED <<doc, overtaken, dropped>>
        BY <2>1, <3>2 DEF Written
      <3> QED
        BY <1>7, <3>1, <3>2 DEF CallFails
    <2>3. \A p \in Request : call[p] # NoCall =>
            call'[p] # NoCall /\ call'[p].m = call[p].m /\ (~call[p].queued => ~call'[p].queued)
      BY <1>0, <2>1, CallFailedType
    <2>4. \A n \in Message : Carried(n) => Carried(n)'
      BY <1>0, <2>1, <2>3, CarriedKept DEF Active
    <2> QED
      BY <1>0, <2>2, <2>4 DEF AllCovered, Covered
  <1>8. ASSUME NEW q \in Request, EnqueueAfterFailure(q)
        PROVE  AllCovered'
    <2>1. /\ Enqueue(call[q].m, call[q].op) /\ call[q] # NoCall
          /\ call' = [call EXCEPT ![q] = NoCall] /\ UNCHANGED <<text, doc, overtaken, dropped>>
      BY <1>8 DEF EnqueueAfterFailure
    <2>2. call[q].m \in Message /\ call[q].op \in Operation
      BY <1>0, <2>1, CallType
    <2>3. /\ \A x \in Row : Active(x) => Active(x)' /\ key'[x] = key[x]
          /\ \E x \in Row : Active(x)' /\ key'[x] = <<call[q].m, call[q].op>>
      BY <1>0, <2>1, <2>2, Enqueued DEF Active, ActiveStatus
    <2>4. \A n \in Message : n = call[q].m => Carried(n)'
      BY <2>3 DEF Carried, MessageOf
    <2>5. \A p \in Request \ {q} : call'[p] = call[p]
      BY <1>0, <2>1 DEF TypeOK
    <2>6. \A n \in Message : n # call[q].m => (Carried(n) => Carried(n)')
      BY <1>0, <2>3, <2>5, CarriedKept
    <2>7. \A n \in Message : Written(n) => Written(n)'
      BY <2>1 DEF Written
    <2> QED
      BY <1>0, <2>4, <2>6, <2>7 DEF AllCovered, Covered
  <1>9. ASSUME NEW q \in Request, EnqueueFails(q)
        PROVE  AllCovered'
    <2>1. /\ call' = [call EXCEPT ![q] = NoCall] /\ UNCHANGED <<text, doc, key, status, overtaken>>
          /\ dropped' = dropped \cup {m \in LostWith({q}) : doc[m] # text[m]} /\ call[q] # NoCall
      BY <1>9 DEF EnqueueFails, table
    <2>2. \A p \in Request \ {q} : call'[p] = call[p]
      BY <1>0, <2>1 DEF TypeOK
    <2>3. ASSUME NEW n \in Message, Carried(n), ~Written(n)
          PROVE  Carried(n)' \/ Written(n)'
      <3>1. CASE call[q].m = n /\ ~call[q].queued
        <4>1. n \in LostWith({q})
          BY <2>1, <3>1 DEF LostWith
        <4> QED
          BY <2>1, <2>3, <4>1 DEF Written
      <3>2. CASE ~(call[q].m = n /\ ~call[q].queued)
        BY <1>0, <2>1, <2>2, <2>3, <3>2, CarriedKept DEF Active
      <3> QED
        BY <3>1, <3>2
    <2>4. \A n \in Message : Written(n) => Written(n)'
      BY <2>1 DEF Written
    <2> QED
      BY <1>0, <2>3, <2>4 DEF AllCovered, Covered
  <1>10. ASSUME NEW w \in Worker, Claim(w)
        PROVE  AllCovered'
    <2>1. /\ UNCHANGED <<text, doc, overtaken, dropped, call, key>>
          /\ \A x \in Row : status'[x] = status[x] \/ status'[x] = "processing"
      BY <1>10 DEF Claim, ghosts
    <2>2. \A x \in Row : Active(x) => Active(x)'
      BY <2>1 DEF Active, ActiveStatus
    <2>3. \A n \in Message : Carried(n) => Carried(n)'
      BY <1>0, <2>1, <2>2, CarriedKept
    <2> QED
      BY <1>0, <2>1, <2>3 DEF AllCovered, Covered, Written
  <1>11. ASSUME NEW w \in Worker, NEW r \in Row, ReadRow(w, r)
        PROVE  AllCovered'
    <2>1. /\ \A x \in Row : Active(x) => Active(x)' /\ key'[x] = key[x]
          /\ UNCHANGED call /\ \A n \in Message : Written(n) => Written(n)'
      BY <1>0, <1>11 DEF ReadRow, Written, Active, ActiveStatus, TypeOK, table, ghosts
    <2>2. \A n \in Message : Carried(n) => Carried(n)'
      BY <1>0, <2>1, CarriedKept
    <2> QED
      BY <1>0, <2>1, <2>2 DEF AllCovered, Covered
  <1>12. ASSUME NEW w \in Worker, Apply(w)
        PROVE  AllCovered'
    <2>1. /\ MessageOf(cur[w]) \in Message /\ snap[w] \in Version
          /\ Write(MessageOf(cur[w]), snap[w]) /\ UNCHANGED <<text, key, status, call>>
      BY <1>0, <1>12, WorkerHasRow DEF Apply, TypeOK, table
    <2>2. \A n \in Message : Written(n) => Written(n)'
      BY <1>0, <2>1, WriteIsNoted
    <2>3. \A n \in Message : Carried(n) => Carried(n)'
      BY <1>0, <2>1, CarriedKept DEF Active
    <2> QED
      BY <1>0, <2>2, <2>3 DEF AllCovered, Covered
  <1>13. ASSUME NEW w \in Worker, ApplyFails(w)
        PROVE  AllCovered'
    <2>1. /\ MessageOf(cur[w]) \in Message /\ snap[w] \in Version
          /\ UNCHANGED <<text, key, status, call>>
      BY <1>0, <1>13, WorkerHasRow DEF ApplyFails, TypeOK, table
    <2>2. \A n \in Message : Written(n) => Written(n)'
      <3>1. CASE Write(MessageOf(cur[w]), snap[w])
        BY <1>0, <2>1, <3>1, WriteIsNoted
      <3>2. CASE UNCHANGED <<doc, overtaken, dropped>>
        BY <2>1, <3>2 DEF Written
      <3> QED
        BY <1>13, <3>1, <3>2 DEF ApplyFails
    <2>3. \A n \in Message : Carried(n) => Carried(n)'
      BY <1>0, <2>1, CarriedKept DEF Active
    <2> QED
      BY <1>0, <2>2, <2>3 DEF AllCovered, Covered
  <1>14. ASSUME NEW w \in Worker, Complete(w)
        PROVE  AllCovered'
    <2> DEFINE m == MessageOf(cur[w])
    <2>1. /\ cur[w] \in Row /\ m \in Message /\ pc[w] = "complete"
          /\ UNCHANGED <<text, doc, key, call, dropped>>
          /\ status' = [status EXCEPT ![cur[w]] = "completed"]
          /\ overtaken' = IF snap[w] # text[m] /\ doc[m] # text[m] THEN overtaken \cup {m} ELSE overtaken
      BY <1>0, <1>14, WorkerHasRow DEF Complete
    <2>2. snap[w] = text[m] => Written(m)
      BY <1>0, <2>1 DEF SnapsStand, SnapStands
    <2> HIDE DEF m
    <2>3. \A n \in Message : n = m => Written(n)'
      BY <2>1, <2>2 DEF Written
    <2>4. \A n \in Message : Written(n) => Written(n)'
      BY <2>1 DEF Written
    <2>5. \A x \in Row : MessageOf(x) # m /\ Active(x) => Active(x)'
      BY <1>0, <2>1 DEF m, Active, TypeOK
    <2>6. \A n \in Message : n # m => (Carried(n) => Carried(n)')
      BY <1>0, <2>1, <2>5, CarriedKept
    <2> QED
      BY <1>0, <2>3, <2>4, <2>6 DEF AllCovered, Covered
  <1>15. ASSUME NEW w \in Worker, CompleteFails(w)
        PROVE  AllCovered'
    <2>1. /\ \A x \in Row : Active(x) => Active(x)' /\ key'[x] = key[x]
          /\ UNCHANGED call /\ \A n \in Message : Written(n) => Written(n)'
      BY <1>0, <1>15 DEF CompleteFails, CountFault, Written, Active, ActiveStatus, TypeOK, table, ghosts
    <2>2. \A n \in Message : Carried(n) => Carried(n)'
      BY <1>0, <2>1, CarriedKept
    <2> QED
      BY <1>0, <2>1, <2>2 DEF AllCovered, Covered
  <1>16. ASSUME NEW w \in Worker, MarkFailed(w)
        PROVE  AllCovered'
    <2>1. /\ UNCHANGED <<text, doc, key, call, overtaken, dropped>>
          /\ \A x \in Row : status'[x] = status[x] \/ status'[x] = "failed"
      BY <1>0, <1>16 DEF MarkFailed, TypeOK, ghosts
    <2>2. \A x \in Row : Active(x) => Active(x)'
      BY <2>1 DEF Active, ActiveStatus
    <2>3. \A n \in Message : Carried(n) => Carried(n)'
      BY <1>0, <2>1, <2>2, CarriedKept
    <2> QED
      BY <1>0, <2>1, <2>3 DEF AllCovered, Covered, Written
  <1>17. ASSUME NEW w \in Worker, MarkFailedFails(w)
        PROVE  AllCovered'
    <2>1. /\ \A x \in Row : Active(x) => Active(x)' /\ key'[x] = key[x]
          /\ UNCHANGED call /\ \A n \in Message : Written(n) => Written(n)'
      BY <1>0, <1>17 DEF MarkFailedFails, Abandon, Written, Active, ActiveStatus, TypeOK, table, ghosts
    <2>2. \A n \in Message : Carried(n) => Carried(n)'
      BY <1>0, <2>1, CarriedKept
    <2> QED
      BY <1>0, <2>1, <2>2 DEF AllCovered, Covered
  <1>18. ASSUME NEW w \in Worker, Crash(w)
        PROVE  AllCovered'
    <2>1. UNCHANGED <<text, doc, key, status, overtaken>>
      BY <1>18 DEF Crash, table
    <2>2. PICK Q \in SUBSET Request :
            /\ call' = [p \in Request |-> IF p \in Q THEN NoCall ELSE call[p]]
            /\ dropped' = dropped \cup {m \in LostWith(Q) : doc[m] # text[m]}
      BY <1>18 DEF Crash
    <2>3. ASSUME NEW n \in Message, Carried(n), ~Written(n)
          PROVE  Carried(n)' \/ Written(n)'
      <3>1. CASE \E p \in Q : call[p] # NoCall /\ call[p].m = n /\ ~call[p].queued
        <4>1. n \in LostWith(Q)
          BY <3>1 DEF LostWith
        <4> QED
          BY <2>1, <2>2, <2>3, <4>1 DEF Written
      <3>2. CASE ~ \E p \in Q : call[p] # NoCall /\ call[p].m = n /\ ~call[p].queued
        <4>1. \A p \in Request : call[p] # NoCall /\ call[p].m = n /\ ~call[p].queued => call'[p] = call[p]
          BY <2>2, <3>2
        <4> QED
          BY <1>0, <2>1, <2>3, <4>1, CarriedKept DEF Active
      <3> QED
        BY <3>1, <3>2
    <2>4. \A n \in Message : Written(n) => Written(n)'
      BY <2>1, <2>2 DEF Written
    <2> QED
      BY <1>0, <2>3, <2>4 DEF AllCovered, Covered
  <1>19. ASSUME NEW r \in Row, LockExpires(r)
        PROVE  AllCovered'
    <2>1. /\ \A x \in Row : Active(x) => Active(x)' /\ key'[x] = key[x]
          /\ UNCHANGED call /\ \A n \in Message : Written(n) => Written(n)'
      BY <1>0, <1>19 DEF LockExpires, Written, Active, ActiveStatus, TypeOK, table, ghosts
    <2>2. \A n \in Message : Carried(n) => Carried(n)'
      BY <1>0, <2>1, CarriedKept
    <2> QED
      BY <1>0, <2>1, <2>2 DEF AllCovered, Covered
  <1>20. ASSUME NEW r \in Row, BackoffElapses(r)
        PROVE  AllCovered'
    <2>1. /\ \A x \in Row : Active(x) => Active(x)' /\ key'[x] = key[x]
          /\ UNCHANGED call /\ \A n \in Message : Written(n) => Written(n)'
      BY <1>0, <1>20 DEF BackoffElapses, Written, Active, ActiveStatus, TypeOK, table, ghosts
    <2>2. \A n \in Message : Carried(n) => Carried(n)'
      BY <1>0, <2>1, CarriedKept
    <2> QED
      BY <1>0, <2>1, <2>2 DEF AllCovered, Covered
  <1>21. CASE UNCHANGED vars
    <2>1. UNCHANGED <<text, doc, key, status, call, overtaken, dropped>>
      BY <1>21 DEF vars, table, ghosts
    <2>2. \A n \in Message : Carried(n) => Carried(n)'
      BY <1>0, <2>1, CarriedKept DEF Active
    <2> QED
      BY <1>0, <2>1, <2>2 DEF AllCovered, Covered, Written
  <1> QED
    BY <1>1, <1>2, <1>3, <1>4, <1>5, <1>6, <1>7, <1>8, <1>9, <1>10, <1>11,
       <1>12, <1>13, <1>14, <1>15, <1>16, <1>17, <1>18, <1>19, <1>20, <1>21
       DEF Next, Mutation, Direct, Work

-----------------------------------------------------------------------------
LEMMA InitInv == Init => IInv
  <1> SUFFICES ASSUME Init
               PROVE  IInv
    OBVIOUS
  <1> USE SearchAssumption DEF Init
  <1>1. TypeOK
    <2>1. /\ posted \subseteq Message
          /\ text \in [Message -> Version] /\ doc \in [Message -> Version]
      BY Versions
    <2>2. snap \in [Worker -> Version]
      BY Versions
    <2> QED
      BY <2>1, <2>2 DEF TypeOK, ActiveStatus
  <1>2. HeldOnce
    BY DEF HeldOnce, Holders
  <1>3. IndexCovered /\ OriginsStand
    BY DEF IndexCovered, OriginsStand
  <1>4. SnapsStand
    BY DEF SnapsStand, SnapStands
  <1> QED
    BY <1>1, <1>2, <1>3, <1>4 DEF IInv

LEMMA NextInv == IInv /\ [Next]_vars => IInv'
  <1> SUFFICES ASSUME IInv, [Next]_vars
               PROVE  IInv'
    OBVIOUS
  <1>1. TypeOK' /\ HeldOnce'
    BY TypeStep, HeldStep
  <1>2. OriginsStand' /\ SnapsStand'
    BY OriginsStep, SnapsStep
  <1>3. IndexCovered'
    BY CoveredStep DEF AllCovered, Covered, Written, IndexCovered
  <1> QED
    BY <1>1, <1>2, <1>3 DEF IInv

\* The parts of the invariant hold together in every reachable state.
THEOREM Invariance == Spec => []IInv
  <1> QED
    BY InitInv, NextInv, PTL DEF Spec

\* Every variable keeps its type.
THEOREM Typed == Spec => []TypeOK
  <1>1. IInv => TypeOK
    BY DEF IInv
  <1> QED
    BY <1>1, Invariance, PTL

\* No crash, failed call, expired lock or abandoned batch alone leaves the index
\* behind the message table with nothing on its way to repair it.
THEOREM NothingIsLost == Spec => []IndexCovered
  <1>1. IInv => IndexCovered
    BY DEF IInv
  <1> QED
    BY <1>1, Invariance, PTL

\* One process works on a row whose lock was not undercut.
THEOREM RowsAreHeldOnce == Spec => []HeldOnce
  <1>1. IInv => HeldOnce
    BY DEF IInv
  <1> QED
    BY <1>1, Invariance, PTL

\* A completed row stays completed unless its lock was undercut.
THEOREM CompletionIsFinal == Spec => CompletedStays
  <1>1. IInv /\ [Next]_vars =>
          \A r \in Row : status[r] = "completed" /\ r \notin undercut => status'[r] = "completed"
    BY CompletedStep
  <1>2. IInv /\ [Next]_vars =>
          [\A r \in Row : status[r] = "completed" /\ r \notin undercut => status'[r] = "completed"]_vars
    BY <1>1
  <1> QED
    BY <1>2, Invariance, PTL DEF Spec, CompletedStays
=============================================================================
